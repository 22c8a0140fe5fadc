------------------------------ MODULE Updates ------------------------------
(***************************************************************************)
(* Failure and recovery updates (SRC/main.c): how the switches of a meshed *)
(* fabric tell each other which roots can no longer be reached through     *)
(* which port, and when they can again.                                    *)
(*                                                                         *)
(* The model starts when Join is done: every port is open and the accepted *)
(* and offered tables are full and do not change any more.  Updates carry  *)
(* root VIDs only (get_all_VIDs cuts each VID off at its first dot), so a  *)
(* VID is its root here.  A cable is cut and mended; each end finds out on *)
(* its own, as in KeepAlive, and an update sent on a cut cable is lost.    *)
(* A cut stands for a failure that KeepAlive recovers from, an interface   *)
(* at one end that is down: if both ends miss each other neither speaks    *)
(* again (SilenceLasts), which is a cable that is never mended.            *)
(*                                                                         *)
(* A leaf may also be restarted.  It joins again, which Join models: here  *)
(* the handshake of a cable is one step of the leaf, the one that takes    *)
(* the JoinAck and answers with a StartHello, and no cable is cut before   *)
(* every handshake is over.  A leaf with a cut cable is not restarted.     *)
(***************************************************************************)
EXTENDS Fabric

CONSTANTS
  RootsOf,    \* the roots of the VIDs that each switch has
  MaxFaults,  \* bound on the cables cut and leaves restarted
  OneAtATime, \* does a fault wait for the last to be repaired and settled?
  Restarts    \* the leaves that may be restarted

RootVID == {Root[n] : n \in Leaf}

(* The roots that the join hands up through port p: what is behind p, when *)
(* p looks down.                                                           *)
Roots(p) == IF LooksDown(p) THEN RootsOf[NodeOf(Peer[p])] ELSE {}

(* What the join leaves in the tables: a leaf has its root, a spine what   *)
(* it accepted from below, which is not nothing.                           *)
ASSUME RootsAssumption ==
  /\ RootsOf \in [Node -> (SUBSET RootVID) \ {{}}]
  /\ \A n \in Node : RootsOf[n] = IF n \in Leaf
                                  THEN {Root[n]}
                                  ELSE UNION {Roots(p) : p \in PortsOf(n)}

ASSUME FaultsAssumption ==
  MaxFaults \in Nat /\ OneAtATime \in BOOLEAN /\ Restarts \subseteq Leaf

VARIABLES
  cut,      \* the ports whose cable is cut
  up,       \* isUP of each control port
  ut, rt,   \* the unreachable and the reachable table of each port
  inbox,    \* the updates that wait to be received on each port
  joined,   \* a leaf's ports: those it has offered its VID on since it started;
            \* the ports across: those that hear it again
  cuts,     \* how often a cable was cut
  restarted \* the leaves that were restarted

faults == <<cut, cuts, restarted>>
vars == <<cut, up, ut, rt, inbox, joined, cuts, restarted>>

(* The ports of each switch over which VIDs are handed up to it, and on.   *)
Downlinks == [n \in Node |-> {p \in PortsOf(n) : Roots(p) # {}}]
Uplinks   == [n \in Node |-> {p \in PortsOf(n) : Roots(Peer[p]) # {}}]

(* The ports of the accepted and of the offered table.                     *)
AcceptedPorts(n) == Downlinks[n]
OfferedPorts(n)  == Uplinks[n] \cap joined

-----------------------------------------------------------------------------
(* What a switch reads off its tables.  A handler changes isUP and the     *)
(* tables before it looks at them: u, t and r stand for the values that    *)
(* up, ut and rt have by then.                                             *)

Up(S, u) == {p \in S : u[p]}

(* is_all_offered_ports_down, which is true when nothing is offered; a top *)
(* spine never asks.                                                       *)
CutOff(n, u) == n \notin TopSpine /\ Up(OfferedPorts(n), u) = {}

(* is_unreachable_and_reachable_empty: some offered port is clean, and it  *)
(* need not be up.                                                         *)
SomeClean(n, t, r) == \E p \in OfferedPorts(n) : t[p] = {} /\ r[p] = {}

(* get_unreachable_VIDs_from_offered_ports: what any port in use blocks.   *)
Blocked(n, u, t) == UNION {t[p] : p \in Up(OfferedPorts(n), u)}

(* get_all_accepted_VIDs: what the ports in use lead down to.              *)
AllAccepted(n, u) == UNION {Roots(p) : p \in Up(AcceptedPorts(n), u)}

-----------------------------------------------------------------------------
(* Updates.                                                                *)

Failure(option, roots) == [type |-> "FAILURE", option |-> option, roots |-> roots]
Recover(option, roots) == [type |-> "RECOVER", option |-> option, roots |-> roots]

StartHello == [type |-> "START_HELLO", option |-> "UNREACHABLE", roots |-> {}]

Update == [type : {"FAILURE", "RECOVER", "START_HELLO"},
           option : {"UNREACHABLE", "REACHABLE"}, roots : SUBSET RootVID]

(* The update m is sent once on each of the ports S; a cut cable loses it. *)
SendOn(box, S, m) ==
  inbox' = [q \in Port |-> IF Peer[q] \in S /\ q \notin cut
                           THEN Append(box[q], m)
                           ELSE box[q]]

(* The ports S if the condition holds, none otherwise.                     *)
When(condition, S) == IF condition THEN S ELSE {}

Arrived(p, type) == inbox[p] # <<>> /\ Head(inbox[p]).type = type

Consumed(p) == [inbox EXCEPT ![p] = Tail(@)]

-----------------------------------------------------------------------------

Init ==
  /\ cut = {}
  /\ up = [p \in Port |-> TRUE]
  /\ ut = [p \in Port |-> {}]
  /\ rt = [p \in Port |-> {}]
  /\ inbox = [p \in Port |-> <<>>]
  /\ joined = Port
  /\ cuts = 0
  /\ restarted = {}

(* Variant: a switch that is cut off above does not say so.                *)
TellFailure_CutOffUnsaid(n, p, u) ==
  IF p \in AcceptedPorts(n)
  THEN SendOn(inbox, Up(PortsOf(n), u), Failure("UNREACHABLE", Roots(p)))
  ELSE SendOn(inbox, When(~SomeClean(n, ut, rt), Up(OfferedPorts(n), u)),
              Failure("UNREACHABLE", Blocked(n, u, ut)))

(* The loop of main gives port p up, for a dead interface or for a missed  *)
(* keep-alive: both tell the neighbours the same.  A leaf that restarts is *)
(* missed when it takes its time.                                          *)
TellFailure(n, p, u) ==
  IF CutOff(n, u)
  THEN SendOn(inbox, Up(AcceptedPorts(n), u), Failure("REACHABLE", AllAccepted(n, u)))
  ELSE IF p \in AcceptedPorts(n)
  THEN SendOn(inbox, Up(PortsOf(n), u), Failure("UNREACHABLE", Roots(p)))
  ELSE LET blocked == Blocked(n, u, ut)
       IN  SendOn(inbox,
                  When(~SomeClean(n, ut, rt) /\ blocked # {}, Up(OfferedPorts(n), u)),
                  Failure("UNREACHABLE", blocked))

PortFails(p) ==
  LET u == [up EXCEPT ![p] = FALSE]
  IN  /\ up[p] /\ (p \in cut \/ p \notin joined)
      /\ up' = u
      /\ TellFailure(NodeOf(p), p, u)
      /\ UNCHANGED <<ut, rt, joined, faults>>

(* Variant: a switch that is no longer cut off does not say so.            *)
TellRecovery_UplinkUnsaid(n, p, u) ==
  SendOn(inbox, When(p \in AcceptedPorts(n), Up(PortsOf(n), up)),
         Recover("UNREACHABLE", Roots(p)))

(* The third keep-alive turns port p on again (handle_receive_keep_alive). *)
(* A recovered port that looks down is told nothing itself, unless the     *)
(* switch is cut off.                                                      *)
TellRecovery(n, p, u) ==
  IF p \in AcceptedPorts(n)
  THEN IF CutOff(n, up)
       THEN SendOn(inbox, Up(AcceptedPorts(n), u),
                   Failure("REACHABLE", AllAccepted(n, u)))
       ELSE SendOn(inbox, Up(PortsOf(n), up), Recover("UNREACHABLE", Roots(p)))
  ELSE SendOn(inbox,
              When(Up(OfferedPorts(n), up) = {} /\ n \notin Leaf, Up(AcceptedPorts(n), u)),
              Recover("REACHABLE", {}))

(* Variant: isUP is set for a port that looks down only.                   *)
PortRecovers_DownOnly(p) ==
  LET n == NodeOf(p)
      u == [up EXCEPT ![p] = p \in AcceptedPorts(n)]
  IN  /\ ~up[p] /\ p \notin cut /\ p \in joined
      /\ up' = u
      /\ TellRecovery(n, p, u)
      /\ UNCHANGED <<ut, rt, joined, faults>>

PortRecovers(p) ==
  LET u == [up EXCEPT ![p] = TRUE]
  IN  /\ ~up[p] /\ p \notin cut /\ p \in joined
      /\ up' = u
      /\ TellRecovery(NodeOf(p), p, u)
      /\ UNCHANGED <<ut, rt, joined, faults>>

(* Variant: the number of the port is stored instead of the VIDs.          *)
FailureFromBelow_PortNumber(p) ==
  LET n == NodeOf(p)
      m == Head(inbox[p])
  IN  /\ Arrived(p, "FAILURE") /\ p \in AcceptedPorts(n)
      /\ ut' = [ut EXCEPT ![p] = @ \cup {Num(p)}]
      /\ SendOn(Consumed(p), Up(PortsOf(n) \ {p}, up), Failure("UNREACHABLE", m.roots))
      /\ UNCHANGED <<up, rt, joined, faults>>

(* handle_receive_failure_update.  An update from below concerns the port  *)
(* it came through, and is passed on everywhere else.                      *)
FailureFromBelow(p) ==
  LET n == NodeOf(p)
      m == Head(inbox[p])
  IN  /\ Arrived(p, "FAILURE") /\ p \in AcceptedPorts(n)
      /\ ut' = [ut EXCEPT ![p] = @ \cup m.roots]
      /\ SendOn(Consumed(p), Up(PortsOf(n) \ {p}, up), Failure("UNREACHABLE", m.roots))
      /\ UNCHANGED <<up, rt, joined, faults>>

(* Variant: the option of the update is not looked at, both tables change. *)
FailureFromAbove_NoOption(p) ==
  LET n == NodeOf(p)
      m == Head(inbox[p])
      t == [ut EXCEPT ![p] = @ \cup m.roots]
      r == [rt EXCEPT ![p] = m.roots]
  IN  /\ Arrived(p, "FAILURE") /\ p \in OfferedPorts(n)
      /\ ut' = t
      /\ rt' = r
      /\ SendOn(Consumed(p), When(~SomeClean(n, t, r), Up(AcceptedPorts(n), up)),
                Failure("UNREACHABLE", Blocked(n, up, t)))
      /\ UNCHANGED <<up, joined, faults>>

(* Variant: an update from above is passed on above as well.               *)
FailureFromAbove_Everywhere(p) ==
  LET n == NodeOf(p)
      m == Head(inbox[p])
      t == [ut EXCEPT ![p] = @ \cup m.roots]
  IN  /\ Arrived(p, "FAILURE") /\ p \in OfferedPorts(n)
      /\ ut' = t
      /\ SendOn(Consumed(p), When(~SomeClean(n, t, rt), Up(PortsOf(n) \ {p}, up)),
                Failure("UNREACHABLE", Blocked(n, up, t)))
      /\ UNCHANGED <<up, rt, joined, faults>>

(* One from above is passed on, down, only when no offered port is clean.  *)
(* A list of what is reachable replaces the last one, and leaves the       *)
(* unreachable table as it is.                                             *)
FailureFromAbove(p) ==
  LET n == NodeOf(p)
      m == Head(inbox[p])
      t == IF m.option = "UNREACHABLE" THEN [ut EXCEPT ![p] = @ \cup m.roots] ELSE ut
      r == [rt EXCEPT ![p] = IF m.option = "UNREACHABLE" THEN {} ELSE m.roots]
      blocked == Blocked(n, up, t)
  IN  /\ Arrived(p, "FAILURE") /\ p \in OfferedPorts(n)
      /\ ut' = t
      /\ rt' = r
      /\ SendOn(Consumed(p),
                When(n \notin Leaf /\ ~SomeClean(n, t, r) /\ blocked # {},
                     Up(AcceptedPorts(n), up)),
                Failure("UNREACHABLE", blocked))
      /\ UNCHANGED <<up, joined, faults>>

(* handle_receive_recover_update.                                          *)
RecoverFromBelow(p) ==
  LET n == NodeOf(p)
      m == Head(inbox[p])
  IN  /\ Arrived(p, "RECOVER") /\ p \in AcceptedPorts(n)
      /\ ut' = [ut EXCEPT ![p] = @ \ m.roots]
      /\ SendOn(Consumed(p), Up(PortsOf(n) \ {p}, up), Recover("UNREACHABLE", m.roots))
      /\ UNCHANGED <<up, rt, joined, faults>>

(* Variant: what is reachable again is passed on but stays blocked here.   *)
RecoverFromAbove_StaysBlocked(p) ==
  LET n == NodeOf(p)
      m == Head(inbox[p])
  IN  /\ Arrived(p, "RECOVER") /\ p \in OfferedPorts(n)
      /\ rt' = [rt EXCEPT ![p] = {}]
      /\ SendOn(Consumed(p), When(~SomeClean(n, ut, rt), Up(AcceptedPorts(n), up)),
                Recover("UNREACHABLE", m.roots))
      /\ UNCHANGED <<up, ut, joined, faults>>

(* What is reachable again is passed on, down, if no offered port was      *)
(* clean; when one is now, everything blocked is cleared along with it.    *)
RecoverFromAbove(p) ==
  LET n == NodeOf(p)
      m == Head(inbox[p])
      t == IF m.option = "UNREACHABLE" THEN [ut EXCEPT ![p] = @ \ m.roots] ELSE ut
      r == IF m.option = "REACHABLE" THEN [rt EXCEPT ![p] = {}] ELSE rt
      blocked == When(SomeClean(n, t, r), Blocked(n, up, t))
  IN  /\ Arrived(p, "RECOVER") /\ p \in OfferedPorts(n)
      /\ ut' = t
      /\ rt' = r
      /\ SendOn(Consumed(p),
                When(/\ n \notin Leaf /\ ~SomeClean(n, ut, rt)
                     /\ m.option = "REACHABLE" => blocked # {},
                     Up(AcceptedPorts(n), up)),
                Recover("UNREACHABLE",
                        blocked \cup When(m.option = "UNREACHABLE", m.roots)))
      /\ UNCHANGED <<up, joined, faults>>

(* An update that comes before the leaf has joined again is in neither     *)
(* branch of the handlers.                                                 *)
UpdateBeforeJoin(p) ==
  /\ inbox[p] # <<>> /\ Head(inbox[p]) # StartHello
  /\ p \notin AcceptedPorts(NodeOf(p)) \cup OfferedPorts(NodeOf(p))
  /\ inbox' = Consumed(p)
  /\ UNCHANGED <<up, ut, rt, joined, faults>>

(* handle_receive_join_ack on port p of a restarted leaf.                  *)
TakeJoinAck(p) ==
  /\ p \notin joined /\ NodeOf(p) \in Leaf
  /\ joined' = joined \cup {p}
  /\ up' = [up EXCEPT ![p] = TRUE]
  /\ SendOn(inbox, {p}, StartHello)
  /\ UNCHANGED <<ut, rt, faults>>

(* handle_receive_start_hello turns the port on, and tells nobody.  A port *)
(* that was given up keeps its fail_type, by which the check leaves it     *)
(* alone until the next keep-alive: here it counts as heard at once.  That *)
(* its cable fails within that time, unnoticed, is KeepAlive's matter      *)
(* (DeadPeerNoticed) and left out.                                         *)
TakeStartHello(p) ==
  /\ Arrived(p, "START_HELLO")
  /\ up' = [up EXCEPT ![p] = TRUE]
  /\ joined' = IF up[p] THEN joined ELSE joined \cup {p}
  /\ inbox' = Consumed(p)
  /\ UNCHANGED <<ut, rt, faults>>

(* The first keep-alive of a leaf that has joined again; all it sends come *)
(* after its StartHello.                                                   *)
HearAgain(p) ==
  /\ p \notin joined /\ NodeOf(p) \notin Leaf
  /\ Peer[p] \in joined
  /\ \A i \in DOMAIN inbox[p] : inbox[p][i] # StartHello
  /\ joined' = joined \cup {p}
  /\ UNCHANGED <<up, ut, rt, inbox, faults>>

Receive(p) ==
  \/ FailureFromBelow(p) \/ FailureFromAbove(p)
  \/ RecoverFromBelow(p) \/ RecoverFromAbove(p)
  \/ UpdateBeforeJoin(p)
  \/ TakeJoinAck(p) \/ TakeStartHello(p) \/ HearAgain(p)

(* Every update has been handled and every port knows about its cable.     *)
Quiet ==
  /\ joined = Port
  /\ \A p \in Port : inbox[p] = <<>> /\ (up[p] <=> p \notin cut)

(* No restart has left anything behind: a leaf that was given up meanwhile *)
(* stays blocked for good.                                                 *)
NothingLeft == restarted # {} => \A p \in Port : ut[p] = {} /\ rt[p] = {}

MoreFaults == cuts + Cardinality(restarted) < MaxFaults

(* Leaf n is stopped and started: its tables are empty, its ports are off, *)
(* and what waited to be received is gone.  Its cables are whole.          *)
Restart(n) ==
  LET own == PortsOf(n)
  IN  /\ n \in Restarts \ restarted /\ MoreFaults
      /\ own \cap cut = {}
      /\ OneAtATime => Quiet /\ cut = {}
      /\ joined' = joined \ (own \cup {Peer[p] : p \in own})
      /\ up' = [p \in Port |-> up[p] /\ p \notin own]
      /\ ut' = [p \in Port |-> IF p \in own THEN {} ELSE ut[p]]
      /\ rt' = [p \in Port |-> IF p \in own THEN {} ELSE rt[p]]
      /\ inbox' = [p \in Port |-> IF p \in own THEN <<>> ELSE inbox[p]]
      /\ restarted' = restarted \cup {n}
      /\ UNCHANGED <<cut, cuts>>

(* The cable of port p is cut, or mended.                                  *)
Cut(p) ==
  /\ p \notin cut /\ joined = Port /\ MoreFaults
  /\ OneAtATime => Quiet /\ cut = {} /\ NothingLeft
  /\ cut' = cut \cup {p, Peer[p]}
  /\ cuts' = cuts + 1
  /\ UNCHANGED <<up, ut, rt, inbox, joined, restarted>>

Mend(p) ==
  /\ p \in cut
  /\ cut' = cut \ {p, Peer[p]}
  /\ UNCHANGED <<up, ut, rt, inbox, joined, cuts, restarted>>

Loop(n) == \E p \in PortsOf(n) : PortFails(p) \/ PortRecovers(p) \/ Receive(p)

Next ==
  \/ \E n \in Node : Loop(n)
  \/ \E p \in Port : Cut(p) \/ Mend(p)
  \/ \E n \in Leaf : Restart(n)

(* As long as some switch has something to do, one of them does it;        *)
(* nothing obliges a cable to break or to be mended.                       *)
Fairness == WF_vars(\E n \in Node : Loop(n))

Spec == Init /\ [][Next]_vars

FairSpec == Spec /\ Fairness

-----------------------------------------------------------------------------
(* The data plane: where a switch sends data for root r.                   *)

(* The tables are searched for the text that int_to_str makes of r: that   *)
(* of 0 is empty and never found.                                          *)
Listed(r, roots) == r # 0 /\ r \in roots

(* Variant: the tables are not asked.                                      *)
Available_AnyUp(n, r) == Up(OfferedPorts(n), up)

(* count_available_offered_port.                                           *)
Available(n, r) ==
  {p \in Up(OfferedPorts(n), up) :
     IF rt[p] # {} THEN Listed(r, rt[p]) ELSE ~Listed(r, ut[p])}

(* Variant: any VID of the table is taken for the one looked for.          *)
NextHops_AnyVID(n, r) ==
  IF Listed(r, RootsOf[n]) THEN AcceptedPorts(n) ELSE Available(n, r)

(* handle_receive_data_msg: down if a port leads there, and then on the    *)
(* first such port of the table, even if it is down; up otherwise.  The    *)
(* unreachable table of an accepted port has no say: it is asked for the   *)
(* name of the port instead of the VID.                                    *)
NextHops(n, r) ==
  IF Listed(r, RootsOf[n])
  THEN {p \in AcceptedPorts(n) : r \in Roots(p)}
  ELSE Available(n, r)

(* Data for root r arrives from switch n, whichever port is the first, and *)
(* whichever the hash of the addresses chooses: they get to some switches  *)
(* S and no other, none of which loses them or is a wrong leaf.  (That     *)
(* they do not go round among them is NoLoop of Forwarding.)               *)
Arrives(n, r) ==
  \E S \in SUBSET {m \in Node : m \in Leaf => Root[m] = r} :
    /\ n \in S
    /\ \A m \in S \ Leaf :
         /\ NextHops(m, r) # {}
         /\ \A p \in NextHops(m, r) : up[p] /\ p \notin cut /\ NodeOf(Peer[p]) \in S

(* The whole cables on which switch n could send them: up, or down to the  *)
(* root.                                                                   *)
Ways(n, r) ==
  {p \in PortsOf(n) \ cut :
     IF r \in RootsOf[n] THEN r \in Roots(p) ELSE p \in OfferedPorts(n)}

(* There is a way for them from switch n over such cables: they are not    *)
(* confined to switches that do not include the leaf of the root.          *)
HasWay(n, r) ==
  \A S \in SUBSET {m \in Node : m \in Leaf => Root[m] # r} :
    n \in S => \E m \in S \ Leaf : \E p \in Ways(m, r) : NodeOf(Peer[p]) \notin S

-----------------------------------------------------------------------------
(* Fabrics of three tiers.                                                 *)

(* The fabrics that CMTP is made for: leaves, spines and top spines, with  *)
(* at most one cable between two switches and no spine without an uplink.  *)
FoldedClos ==
  /\ \A n \in Node : Tier[n] \in {1, 2, 3} /\ (n \in TopSpine <=> Tier[n] = 3)
  /\ \A p, q \in Port :
       NodeOf(p) = NodeOf(q) /\ NodeOf(Peer[p]) = NodeOf(Peer[q]) => p = q
  /\ \A n \in Node : Tier[n] = 2 => Uplinks[n] # {}

(* Every top spine leads down to every leaf.                               *)
TopsReachAll == \A n \in TopSpine : RootsOf[n] = RootVID

(* Spines below one top spine lead to different leaves: the fabric has     *)
(* planes, in each of which every leaf has one spine.                      *)
PlanesApart ==
  \A v, w \in Port :
    /\ Tier[NodeOf(v)] = 2 /\ ~LooksDown(v) /\ Tier[NodeOf(w)] = 2 /\ ~LooksDown(w)
    /\ NodeOf(Peer[v]) = NodeOf(Peer[w])
    /\ RootsOf[NodeOf(v)] \cap RootsOf[NodeOf(w)] # {}
    => NodeOf(v) = NodeOf(w)

-----------------------------------------------------------------------------

TypeOK ==
  /\ cut \subseteq Port
  /\ up \in [Port -> BOOLEAN]
  /\ ut \in [Port -> SUBSET RootVID]
  /\ rt \in [Port -> SUBSET RootVID]
  /\ inbox \in [Port -> Seq(Update)]
  /\ joined \subseteq Port
  /\ cuts \in 0 .. MaxFaults
  /\ restarted \subseteq Leaf

(* Failures and restarts of leaves that come one at a time open no black   *)
(* hole: once the updates are through, whatever port a leaf may pick for   *)
(* another leaf's data, the data arrive.  Not so for root 0, which no      *)
(* switch finds in its tables.  And a leaf that is restarted forgets what  *)
(* is blocked, which matters when a leaf restarted before it is.           *)
NoBlackHole ==
  Quiet =>
    \A a, b \in Leaf : a # b /\ Root[b] # 0 /\ ~({a, b} \subseteq restarted) =>
      \A p \in Available(a, Root[b]) : Arrives(NodeOf(Peer[p]), Root[b])

(* Nor do they block too much: a leaf has a port to send another leaf's    *)
(* data on as long as there is a way, if the leaf's root is not 0.  It may *)
(* have none to a leaf that was restarted: the StartHello that opened its  *)
(* ports took nothing back.                                                *)
NoNeedlessDrop ==
  Quiet =>
    \A a \in Leaf, b \in Leaf \ restarted :
      a # b /\ Root[b] # 0 /\ Available(a, Root[b]) = {} =>
        \A p \in OfferedPorts(a) \ cut : ~HasWay(NodeOf(Peer[p]), Root[b])

(* When all cables are mended nothing stays blocked, except what leads to  *)
(* a leaf that was restarted.                                              *)
HealedIsClean ==
  Quiet /\ cut = {} =>
    \A p \in Port : ut[p] \subseteq {Root[n] : n \in restarted} /\ rt[p] = {}

(* A list of what is reachable comes only from a switch that is cut off    *)
(* above, and so names only what lies below that switch.                   *)
ReachableIsBelow ==
  \A p \in Port :
    /\ rt[p] \subseteq RootsOf[NodeOf(Peer[p])]
    /\ \A i \in DOMAIN inbox[p] :
         inbox[p][i].type = "FAILURE" /\ inbox[p][i].option = "REACHABLE" =>
           inbox[p][i].roots \subseteq RootsOf[NodeOf(Peer[p])]

(* Updates do not multiply: unless a port is given up or opened, a switch  *)
(* sends one only in answer to another, and what it sends is nearer to its *)
(* end.  Updates climb first, then they descend, and none turns up again:  *)
(* a step takes one update away and adds only such as it outranks.         *)
Outranks(p, q) ==
  IF LooksDown(q)
  THEN LooksDown(p) /\ Tier[NodeOf(p)] < Tier[NodeOf(q)]
  ELSE LooksDown(p) \/ Tier[NodeOf(p)] > Tier[NodeOf(q)]

UpdatesWearOff ==
  [][\A q \in Port : Len(inbox'[q]) > Len(inbox[q]) =>
       \/ up' # up \/ joined' # joined
       \/ \E p \in Port : Len(inbox'[p]) < Len(inbox[p]) /\ Outranks(p, q)]_vars

(* Updates do not travel in circles: when cables stop breaking, every      *)
(* update has been handled in the end, however the failures overlapped.    *)
Quietens == <>[]Quiet

(* "But this port is down or unreachable for VID %s, dumped packet"        *)
(* (main.c, handle_receive_data_msg).                                      *)
DumpsUnreachable ==
  \A n \in Node \ Leaf : \A r \in RootsOf[n] \ {0} :
    \A p \in NextHops(n, r) : up[p] => r \notin ut[p]

(* "All upstream ports are not clean, sending blocked VID from downstream  *)
(* ports" (main.c, port check).                                            *)
BlockedGoesDown ==
  [][\A p \in Port : up[p] /\ ~up'[p] /\ p \in OfferedPorts(NodeOf(p)) =>
       \A q \in Port : inbox'[q] # inbox[q] =>
         Peer[q] \in AcceptedPorts(NodeOf(p))]_vars
=============================================================================
