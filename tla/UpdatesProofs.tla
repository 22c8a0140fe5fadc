--------------------------- MODULE UpdatesProofs ---------------------------
(***************************************************************************)
(* Proofs about Updates, for every fabric, however many cables break and   *)
(* leaves restart and however the failures overlap: types, and that a list *)
(* of what is reachable names only what lies below its sender.             *)
(***************************************************************************)
EXTENDS Updates, SequenceTheorems, FiniteSetTheorems, TLAPS

(* An update that waits on port p is of its type, and a list of what is    *)
(* reachable names only roots of the switch behind p.                      *)
Sound(p, m) ==
  /\ m \in Update
  /\ m.type = "FAILURE" /\ m.option = "REACHABLE"
       => m.roots \subseteq RootsOf[NodeOf(Peer[p])]

SoundInbox(box) ==
  /\ box \in [Port -> Seq(Update)]
  /\ \A p \in Port : \A i \in 1 .. Len(box[p]) : Sound(p, box[p][i])

IInv ==
  /\ TypeOK
  /\ IsFiniteSet(restarted)
  /\ \A p \in Port : rt[p] \subseteq RootsOf[NodeOf(Peer[p])]
  /\ SoundInbox(inbox)

-----------------------------------------------------------------------------

LEMMA PortParts ==
  ASSUME NEW p \in Port
  PROVE  /\ NodeOf(p) \in Node /\ p \in PortsOf(NodeOf(p))
         /\ Peer[p] \in Port /\ Peer[Peer[p]] = p
<1>1. p \in Node \X Nat
  BY PortAssumption
<1> QED
  BY <1>1, CableAssumption DEF NodeOf, PortsOf

LEMMA RootsAreRoots ==
  ASSUME NEW p \in Port
  PROVE  Roots(p) \subseteq RootVID
<1>1. NodeOf(Peer[p]) \in Node
  BY PortParts
<1> QED
  BY <1>1, RootsAssumption DEF Roots

(* What a switch has accepted, whichever of its ports are in use, is among *)
(* the roots it has.                                                       *)
LEMMA AcceptedIsBelow ==
  ASSUME NEW n \in Node, NEW u
  PROVE  AllAccepted(n, u) \subseteq RootsOf[n] /\ AllAccepted(n, u) \subseteq RootVID
<1>1. ASSUME NEW p \in AcceptedPorts(n)
      PROVE  p \in PortsOf(n) /\ n \notin Leaf
  <2>1. p \in Port /\ NodeOf(p) = n /\ LooksDown(p)
    BY DEF AcceptedPorts, Downlinks, PortsOf, Roots
  <2>2. Tier[NodeOf(Peer[p])] \in Nat \ {0}
    BY <2>1, PortParts, TierAssumption
  <2> QED
    BY <2>1, <2>2 DEF LooksDown, Leaf, PortsOf
<1>2. ASSUME NEW r \in AllAccepted(n, u)
      PROVE  r \in RootsOf[n]
  <2>1. PICK p \in AcceptedPorts(n) : r \in Roots(p)
    BY DEF AllAccepted, Up
  <2> QED
    BY <1>1, <2>1, RootsAssumption
<1>3. RootsOf[n] \subseteq RootVID
  BY RootsAssumption
<1> QED
  BY <1>2, <1>3

(* Taking the first update leaves a sound inbox.                           *)
LEMMA ConsumedIsSound ==
  ASSUME SoundInbox(inbox), NEW p \in Port, inbox[p] # <<>>
  PROVE  SoundInbox(Consumed(p)) /\ Sound(p, Head(inbox[p]))
<1>1. inbox[p] \in Seq(Update)
  BY DEF SoundInbox
<1>2. /\ Tail(inbox[p]) \in Seq(Update) /\ Head(inbox[p]) = inbox[p][1]
      /\ Len(Tail(inbox[p])) = Len(inbox[p]) - 1
      /\ \A i \in 1 .. Len(Tail(inbox[p])) : Tail(inbox[p])[i] = inbox[p][i + 1]
  BY <1>1, HeadTailProperties
<1>3. Len(inbox[p]) \in Nat \ {0}
  BY <1>1, EmptySeq
<1>4. Sound(p, Head(inbox[p]))
  BY <1>2, <1>3 DEF SoundInbox
<1>5. Consumed(p) \in [Port -> Seq(Update)]
  BY <1>2 DEF Consumed, SoundInbox
<1>6. ASSUME NEW q \in Port, NEW i \in 1 .. Len(Consumed(p)[q])
      PROVE  Sound(q, Consumed(p)[q][i])
  <2>1. CASE q = p
    <3>1. Consumed(p)[q] = Tail(inbox[p])
      BY <2>1 DEF Consumed, SoundInbox
    <3>2. i + 1 \in 1 .. Len(inbox[p]) /\ Consumed(p)[q][i] = inbox[p][i + 1]
      BY <1>2, <1>3, <1>6, <3>1
    <3> QED
      BY <2>1, <3>2 DEF SoundInbox
  <2>2. CASE q # p
    BY <1>6, <2>2 DEF Consumed, SoundInbox
  <2> QED
    BY <2>1, <2>2
<1> QED
  BY <1>4, <1>5, <1>6 DEF SoundInbox

(* Sending an update that is sound at the other end of every port it is    *)
(* sent on keeps the inbox sound.                                          *)
LEMMA SendKeepsSound ==
  ASSUME NEW box, SoundInbox(box), NEW S \in SUBSET Port, NEW m,
         \A q \in Port : Peer[q] \in S => Sound(q, m),
         SendOn(box, S, m)
  PROVE  SoundInbox(inbox')
<1>1. ASSUME NEW q \in Port
      PROVE  /\ inbox'[q] \in Seq(Update)
             /\ \A i \in 1 .. Len(inbox'[q]) : Sound(q, inbox'[q][i])
  <2>0. box[q] \in Seq(Update) /\ \A i \in 1 .. Len(box[q]) : Sound(q, box[q][i])
    BY DEF SoundInbox
  <2>1. CASE inbox'[q] = box[q]
    BY <2>0, <2>1
  <2>2. CASE Peer[q] \in S /\ inbox'[q] = Append(box[q], m)
    <3>1. Sound(q, m) /\ m \in Update
      BY <2>2 DEF Sound
    <3>2. /\ Append(box[q], m) \in Seq(Update)
          /\ Len(Append(box[q], m)) = Len(box[q]) + 1
          /\ \A i \in 1 .. Len(box[q]) : Append(box[q], m)[i] = box[q][i]
          /\ Append(box[q], m)[Len(box[q]) + 1] = m
      BY <2>0, <3>1, AppendProperties
    <3>3. Len(box[q]) \in Nat
      BY <2>0, LenProperties
    <3> QED
      BY <2>0, <2>2, <3>1, <3>2, <3>3
  <2> QED
    BY <2>1, <2>2 DEF SendOn
<1>2. inbox' = [q \in Port |-> inbox'[q]]
  BY DEF SendOn
<1>3. inbox' \in [Port -> Seq(Update)]
  BY <1>1, <1>2
<1> QED
  BY <1>1, <1>3 DEF SoundInbox

(* Updates that name roots are sound, except lists of what is reachable,   *)
(* which must come from where they say.                                    *)
LEMMA PlainIsSound ==
  ASSUME NEW roots \in SUBSET RootVID, NEW q
  PROVE  /\ Sound(q, Failure("UNREACHABLE", roots))
         /\ \A option \in {"UNREACHABLE", "REACHABLE"} : Sound(q, Recover(option, roots))
BY DEF Sound, Failure, Recover, Update

LEMMA ListIsSound ==
  ASSUME NEW n \in Node, NEW u, NEW q \in Port, Peer[q] \in AcceptedPorts(n)
  PROVE  Sound(q, Failure("REACHABLE", AllAccepted(n, u)))
<1>1. NodeOf(Peer[q]) = n
  BY DEF AcceptedPorts, Downlinks, PortsOf
<1> QED
  BY <1>1, AcceptedIsBelow DEF Sound, Failure, Update

LEMMA PortSets ==
  ASSUME NEW n \in Node, NEW u, NEW p, NEW c
  PROVE  /\ Up(AcceptedPorts(n), u) \subseteq AcceptedPorts(n)
         /\ AcceptedPorts(n) \subseteq Port
         /\ Up(PortsOf(n), u) \subseteq Port
         /\ Up(PortsOf(n) \ {p}, u) \subseteq Port
         /\ Up(OfferedPorts(n), u) \subseteq Port
         /\ When(c, Up(OfferedPorts(n), u)) \subseteq Port
         /\ When(c, Up(AcceptedPorts(n), u)) \subseteq AcceptedPorts(n)
BY DEF Up, AcceptedPorts, OfferedPorts, Downlinks, Uplinks, PortsOf, When

LEMMA BlockedIsRoots ==
  ASSUME NEW n \in Node, NEW u, NEW t \in [Port -> SUBSET RootVID]
  PROVE  Blocked(n, u, t) \subseteq RootVID
BY DEF Blocked, Up, OfferedPorts, Uplinks, PortsOf

-----------------------------------------------------------------------------
(* Each action keeps the invariant.                                        *)

LEMMA InitIInv == Init => IInv
<1> SUFFICES ASSUME Init PROVE IInv
  OBVIOUS
<1>1. TypeOK
  BY FaultsAssumption DEF Init, TypeOK
<1>2. SoundInbox(inbox)
  <2>1. \A p \in Port : inbox[p] = <<>> /\ Len(inbox[p]) = 0
    BY DEF Init
  <2> QED
    BY <1>1, <2>1 DEF SoundInbox, TypeOK
<1>3. \A p \in Port : rt[p] \subseteq RootsOf[NodeOf(Peer[p])]
  BY DEF Init
<1>4. IsFiniteSet(restarted)
  BY FS_EmptySet DEF Init
<1> QED
  BY <1>1, <1>2, <1>3, <1>4 DEF IInv

(* What every action that sends has to show.                               *)
LEMMA StepKeepsIInv ==
  ASSUME IInv, SoundInbox(inbox'), UNCHANGED faults, joined' \subseteq Port,
         up' \in [Port -> BOOLEAN], ut' \in [Port -> SUBSET RootVID],
         rt' \in [Port -> SUBSET RootVID],
         \A p \in Port : rt'[p] \subseteq RootsOf[NodeOf(Peer[p])]
  PROVE  IInv'
BY DEF IInv, TypeOK, SoundInbox, Sound, faults

LEMMA PortFailsKeepsIInv ==
  ASSUME IInv, NEW p \in Port, PortFails(p)
  PROVE  IInv'
<1> DEFINE n == NodeOf(p)
           u == [up EXCEPT ![p] = FALSE]
<1>1. /\ up' = u /\ TellFailure(n, p, u)
      /\ UNCHANGED <<ut, rt, joined, faults>>
  BY DEF PortFails
<1>2. n \in Node /\ SoundInbox(inbox) /\ u \in [Port -> BOOLEAN]
  BY PortParts DEF IInv, TypeOK
<1> HIDE DEF n, u
<1>3. SoundInbox(inbox')
  <2>1. CASE CutOff(n, u)
    <3>1. SendOn(inbox, Up(AcceptedPorts(n), u), Failure("REACHABLE", AllAccepted(n, u)))
      BY <1>1, <2>1 DEF TellFailure
    <3>2. \A q \in Port : Peer[q] \in Up(AcceptedPorts(n), u) =>
            Sound(q, Failure("REACHABLE", AllAccepted(n, u)))
      BY <1>2, PortSets, ListIsSound
    <3> QED
      BY <1>2, <3>1, <3>2, PortSets, SendKeepsSound
  <2>2. CASE ~CutOff(n, u) /\ p \in AcceptedPorts(n)
    <3>1. SendOn(inbox, Up(PortsOf(n), u), Failure("UNREACHABLE", Roots(p)))
      BY <1>1, <2>2 DEF TellFailure
    <3>2. \A q \in Port : Sound(q, Failure("UNREACHABLE", Roots(p)))
      BY RootsAreRoots, PlainIsSound
    <3> QED
      BY <1>2, <3>1, <3>2, PortSets, SendKeepsSound
  <2>3. CASE ~CutOff(n, u) /\ p \notin AcceptedPorts(n)
    <3> DEFINE blocked == Blocked(n, u, ut)
               c == ~SomeClean(n, ut, rt) /\ blocked # {}
    <3>1. SendOn(inbox, When(c, Up(OfferedPorts(n), u)), Failure("UNREACHABLE", blocked))
      BY <1>1, <2>3 DEF TellFailure
    <3>2. \A q \in Port : Sound(q, Failure("UNREACHABLE", blocked))
      BY <1>2, BlockedIsRoots, PlainIsSound DEF IInv, TypeOK
    <3> HIDE DEF blocked, c
    <3>3. When(c, Up(OfferedPorts(n), u)) \in SUBSET Port
      BY <1>2, PortSets
    <3> QED
      BY <1>2, <3>1, <3>2, <3>3, SendKeepsSound
  <2> QED
    BY <2>1, <2>2, <2>3
<1> QED
  BY <1>1, <1>2, <1>3, StepKeepsIInv DEF IInv, TypeOK

LEMMA PortRecoversKeepsIInv ==
  ASSUME IInv, NEW p \in Port, PortRecovers(p)
  PROVE  IInv'
<1> DEFINE n == NodeOf(p)
           u == [up EXCEPT ![p] = TRUE]
<1>1. /\ up' = u /\ TellRecovery(n, p, u)
      /\ UNCHANGED <<ut, rt, joined, faults>>
  BY DEF PortRecovers
<1>2. n \in Node /\ SoundInbox(inbox) /\ u \in [Port -> BOOLEAN]
  BY PortParts DEF IInv, TypeOK
<1> HIDE DEF n, u
<1>3. SoundInbox(inbox')
  <2>1. CASE p \in AcceptedPorts(n) /\ CutOff(n, up)
    <3>1. SendOn(inbox, Up(AcceptedPorts(n), u), Failure("REACHABLE", AllAccepted(n, u)))
      BY <1>1, <2>1 DEF TellRecovery
    <3>2. \A q \in Port : Peer[q] \in Up(AcceptedPorts(n), u) =>
            Sound(q, Failure("REACHABLE", AllAccepted(n, u)))
      BY <1>2, PortSets, ListIsSound
    <3> QED
      BY <1>2, <3>1, <3>2, PortSets, SendKeepsSound
  <2>2. CASE p \in AcceptedPorts(n) /\ ~CutOff(n, up)
    <3>1. SendOn(inbox, Up(PortsOf(n), up), Recover("UNREACHABLE", Roots(p)))
      BY <1>1, <2>2 DEF TellRecovery
    <3>2. \A q \in Port : Sound(q, Recover("UNREACHABLE", Roots(p)))
      BY RootsAreRoots, PlainIsSound
    <3> QED
      BY <1>2, <3>1, <3>2, PortSets, SendKeepsSound
  <2>3. CASE p \notin AcceptedPorts(n)
    <3> DEFINE c == Up(OfferedPorts(n), up) = {} /\ n \notin Leaf
    <3>1. SendOn(inbox, When(c, Up(AcceptedPorts(n), u)), Recover("REACHABLE", {}))
      BY <1>1, <2>3 DEF TellRecovery
    <3>2. \A q \in Port : Sound(q, Recover("REACHABLE", {}))
      BY PlainIsSound
    <3> HIDE DEF c
    <3>3. When(c, Up(AcceptedPorts(n), u)) \in SUBSET Port
      BY <1>2, PortSets
    <3> QED
      BY <1>2, <3>1, <3>2, <3>3, SendKeepsSound
  <2> QED
    BY <2>1, <2>2, <2>3
<1> QED
  BY <1>1, <1>2, <1>3, StepKeepsIInv DEF IInv, TypeOK

(* An update from below is passed on with its roots.                       *)
LEMMA FromBelowKeepsIInv ==
  ASSUME IInv, NEW p \in Port, FailureFromBelow(p) \/ RecoverFromBelow(p)
  PROVE  IInv'
<1> DEFINE n == NodeOf(p)
           m == Head(inbox[p])
<1>0. n \in Node
  BY PortParts
<1>1. inbox[p] # <<>> /\ UNCHANGED <<up, rt, joined, faults>>
  BY DEF FailureFromBelow, RecoverFromBelow, Arrived
<1>2. SoundInbox(Consumed(p)) /\ Sound(p, m)
  BY <1>1, ConsumedIsSound DEF IInv
<1>3. m.roots \in SUBSET RootVID
  BY <1>2 DEF Sound, Update
<1>4. \/ /\ ut' = [ut EXCEPT ![p] = @ \cup m.roots]
         /\ SendOn(Consumed(p), Up(PortsOf(n) \ {p}, up), Failure("UNREACHABLE", m.roots))
      \/ /\ ut' = [ut EXCEPT ![p] = @ \ m.roots]
         /\ SendOn(Consumed(p), Up(PortsOf(n) \ {p}, up), Recover("UNREACHABLE", m.roots))
  BY DEF FailureFromBelow, RecoverFromBelow
<1> HIDE DEF n, m
<1>5. \A q \in Port : /\ Sound(q, Failure("UNREACHABLE", m.roots))
                      /\ Sound(q, Recover("UNREACHABLE", m.roots))
  BY <1>3, PlainIsSound
<1>6. SoundInbox(inbox')
  BY <1>0, <1>2, <1>4, <1>5, PortSets, SendKeepsSound
<1>7. ut' \in [Port -> SUBSET RootVID]
  BY <1>3, <1>4 DEF IInv, TypeOK
<1> QED
  BY <1>1, <1>6, <1>7, StepKeepsIInv DEF IInv, TypeOK

LEMMA FailureFromAboveKeepsIInv ==
  ASSUME IInv, NEW p \in Port, FailureFromAbove(p)
  PROVE  IInv'
<1> DEFINE n == NodeOf(p)
           m == Head(inbox[p])
           blocked == Blocked(n, up, ut')
           c == n \notin Leaf /\ ~SomeClean(n, ut', rt') /\ blocked # {}
<1>0. n \in Node
  BY PortParts
<1>1. /\ inbox[p] # <<>> /\ m.type = "FAILURE"
      /\ UNCHANGED <<up, joined, faults>>
      /\ ut' = (IF m.option = "UNREACHABLE" THEN [ut EXCEPT ![p] = @ \cup m.roots] ELSE ut)
      /\ rt' = [rt EXCEPT ![p] = IF m.option = "UNREACHABLE" THEN {} ELSE m.roots]
      /\ SendOn(Consumed(p), When(c, Up(AcceptedPorts(n), up)),
                Failure("UNREACHABLE", blocked))
  BY DEF FailureFromAbove, Arrived
<1>2. SoundInbox(Consumed(p)) /\ Sound(p, m)
  BY <1>1, ConsumedIsSound DEF IInv
<1>3. m.roots \in SUBSET RootVID /\ m.option \in {"UNREACHABLE", "REACHABLE"}
  BY <1>2 DEF Sound, Update
<1>4. m.option # "UNREACHABLE" => m.roots \subseteq RootsOf[NodeOf(Peer[p])]
  BY <1>1, <1>2, <1>3 DEF Sound
<1>5. ut' \in [Port -> SUBSET RootVID]
  BY <1>1, <1>3 DEF IInv, TypeOK
<1>6. /\ rt' \in [Port -> SUBSET RootVID]
      /\ \A q \in Port : rt'[q] \subseteq RootsOf[NodeOf(Peer[q])]
  BY <1>1, <1>3, <1>4 DEF IInv, TypeOK
<1>7. \A q \in Port : Sound(q, Failure("UNREACHABLE", blocked))
  BY <1>0, <1>5, BlockedIsRoots, PlainIsSound
<1> HIDE DEF n, m, blocked, c
<1>8. When(c, Up(AcceptedPorts(n), up)) \in SUBSET Port
  BY <1>0, PortSets
<1>9. SoundInbox(inbox')
  BY <1>1, <1>2, <1>7, <1>8, SendKeepsSound
<1> QED
  BY <1>1, <1>5, <1>6, <1>9, StepKeepsIInv DEF IInv, TypeOK

LEMMA RecoverFromAboveKeepsIInv ==
  ASSUME IInv, NEW p \in Port, RecoverFromAbove(p)
  PROVE  IInv'
<1> DEFINE n == NodeOf(p)
           m == Head(inbox[p])
           t == IF m.option = "UNREACHABLE" THEN [ut EXCEPT ![p] = @ \ m.roots] ELSE ut
           r == IF m.option = "REACHABLE" THEN [rt EXCEPT ![p] = {}] ELSE rt
           blocked == When(SomeClean(n, t, r), Blocked(n, up, t))
           c == /\ n \notin Leaf /\ ~SomeClean(n, ut, rt)
                /\ m.option = "REACHABLE" => blocked # {}
           list == blocked \cup When(m.option = "UNREACHABLE", m.roots)
<1>0. n \in Node
  BY PortParts
<1>1. /\ inbox[p] # <<>>
      /\ UNCHANGED <<up, joined, faults>>
      /\ ut' = t /\ rt' = r
      /\ SendOn(Consumed(p), When(c, Up(AcceptedPorts(n), up)),
                Recover("UNREACHABLE", list))
  BY DEF RecoverFromAbove, Arrived
<1>2. SoundInbox(Consumed(p)) /\ Sound(p, m)
  BY <1>1, ConsumedIsSound DEF IInv
<1>3. m.roots \in SUBSET RootVID
  BY <1>2 DEF Sound, Update
<1>4. ut' \in [Port -> SUBSET RootVID]
  BY <1>1 DEF IInv, TypeOK
<1>5. /\ rt' \in [Port -> SUBSET RootVID]
      /\ \A q \in Port : rt'[q] \subseteq RootsOf[NodeOf(Peer[q])]
  BY <1>1 DEF IInv, TypeOK
<1>6. list \in SUBSET RootVID
  <2>1. Blocked(n, up, t) \subseteq RootVID
    BY <1>0, <1>1, <1>4, BlockedIsRoots
  <2> QED
    BY <1>3, <2>1 DEF When
<1> HIDE DEF n, m, t, r, c, list
<1>7. \A q \in Port : Sound(q, Recover("UNREACHABLE", list))
  BY <1>6, PlainIsSound
<1>8. When(c, Up(AcceptedPorts(n), up)) \in SUBSET Port
  BY <1>0, PortSets
<1>9. SoundInbox(inbox')
  BY <1>1, <1>2, <1>7, <1>8, SendKeepsSound
<1> QED
  BY <1>1, <1>4, <1>5, <1>9, StepKeepsIInv DEF IInv, TypeOK

LEMMA UpdateBeforeJoinKeepsIInv ==
  ASSUME IInv, NEW p \in Port, UpdateBeforeJoin(p)
  PROVE  IInv'
<1>1. inbox[p] # <<>> /\ inbox' = Consumed(p) /\ UNCHANGED <<up, ut, rt, joined, faults>>
  BY DEF UpdateBeforeJoin
<1>2. SoundInbox(inbox')
  BY <1>1, ConsumedIsSound DEF IInv
<1> QED
  BY <1>1, <1>2, StepKeepsIInv DEF IInv, TypeOK

(* The steps of a leaf's new handshake.                                    *)
LEMMA JoinAgainKeepsIInv ==
  ASSUME IInv, NEW p \in Port, TakeJoinAck(p) \/ TakeStartHello(p) \/ HearAgain(p)
  PROVE  IInv'
<1>1. /\ UNCHANGED <<ut, rt, faults>> /\ joined' \subseteq Port
      /\ up' \in [Port -> BOOLEAN]
  BY DEF TakeJoinAck, TakeStartHello, HearAgain, IInv, TypeOK
<1>2. SoundInbox(inbox')
  <2>1. CASE TakeJoinAck(p)
    <3>1. \A q \in Port : Sound(q, StartHello)
      BY DEF Sound, StartHello, Update
    <3> QED
      BY <2>1, <3>1, SendKeepsSound DEF TakeJoinAck, IInv
  <2>2. CASE TakeStartHello(p)
    BY <2>2, ConsumedIsSound DEF TakeStartHello, Arrived, IInv
  <2>3. CASE HearAgain(p)
    BY <2>3 DEF HearAgain, IInv, SoundInbox, Sound
  <2> QED
    BY <2>1, <2>2, <2>3
<1> QED
  BY <1>1, <1>2, StepKeepsIInv DEF IInv, TypeOK

LEMMA CableKeepsIInv ==
  ASSUME IInv, NEW p \in Port, Cut(p) \/ Mend(p)
  PROVE  IInv'
<1>1. UNCHANGED <<up, ut, rt, inbox, joined, restarted>>
  BY DEF Cut, Mend
<1>2. cut' \subseteq Port
  BY PortParts DEF Cut, Mend, IInv, TypeOK
<1>3. cuts' \in 0 .. MaxFaults
  <2>1. Cardinality(restarted) \in Nat
    BY FS_CardinalityType DEF IInv
  <2> QED
    BY <2>1, FaultsAssumption DEF Cut, Mend, MoreFaults, IInv, TypeOK
<1> QED
  BY <1>1, <1>2, <1>3 DEF IInv, TypeOK, SoundInbox, Sound

LEMMA RestartKeepsIInv ==
  ASSUME IInv, NEW n \in Leaf, Restart(n)
  PROVE  IInv'
<1>1. UNCHANGED <<cut, cuts>> /\ restarted' = restarted \cup {n}
  BY DEF Restart
<1>2. IsFiniteSet(restarted')
  BY <1>1, FS_AddElement DEF IInv
<1>3. /\ joined' \subseteq Port /\ up' \in [Port -> BOOLEAN]
      /\ ut' \in [Port -> SUBSET RootVID] /\ rt' \in [Port -> SUBSET RootVID]
      /\ \A p \in Port : rt'[p] \subseteq RootsOf[NodeOf(Peer[p])]
  BY DEF Restart, IInv, TypeOK
<1>4. SoundInbox(inbox')
  <2>1. \A p \in Port : inbox'[p] = <<>> \/ inbox'[p] = inbox[p]
    BY DEF Restart
  <2>2. inbox' \in [Port -> Seq(Update)]
    BY DEF Restart, IInv, TypeOK
  <2> QED
    BY <2>1, <2>2 DEF IInv, SoundInbox
<1> QED
  BY <1>1, <1>2, <1>3, <1>4 DEF IInv, TypeOK, SoundInbox

-----------------------------------------------------------------------------

(* The inductive invariant: types, what a reachable table may name, and    *)
(* the same of every list that is still on the way.                        *)
THEOREM Invariance == Spec => []IInv
<1>1. Init => IInv
  BY InitIInv
<1>2. IInv /\ [Next]_vars => IInv'
  <2> SUFFICES ASSUME IInv, [Next]_vars PROVE IInv'
    OBVIOUS
  <2>1. ASSUME NEW n \in Node, Loop(n) PROVE IInv'
    <3>1. PICK p \in PortsOf(n) : PortFails(p) \/ PortRecovers(p) \/ Receive(p)
      BY <2>1 DEF Loop
    <3>2. p \in Port
      BY DEF PortsOf
    <3> QED
      BY <3>1, <3>2, PortFailsKeepsIInv, PortRecoversKeepsIInv, FromBelowKeepsIInv,
         FailureFromAboveKeepsIInv, RecoverFromAboveKeepsIInv,
         UpdateBeforeJoinKeepsIInv, JoinAgainKeepsIInv DEF Receive
  <2>2. ASSUME NEW p \in Port, Cut(p) \/ Mend(p) PROVE IInv'
    BY <2>2, CableKeepsIInv
  <2>3. ASSUME NEW n \in Leaf, Restart(n) PROVE IInv'
    BY <2>3, RestartKeepsIInv
  <2>4. CASE UNCHANGED vars
    BY <2>4 DEF vars, IInv, TypeOK, SoundInbox, Sound
  <2> QED
    BY <2>1, <2>2, <2>3, <2>4 DEF Next
<1> QED
  BY <1>1, <1>2, PTL DEF Spec

(* The tables only ever hold root VIDs, and so do the updates.             *)
THEOREM TypeCorrect == Spec => []TypeOK
<1>1. IInv => TypeOK
  BY DEF IInv
<1> QED
  BY <1>1, Invariance, PTL

(* A reachable table, and every list on its way to one, names only roots   *)
(* that the switch above has: count_available_offered_port, which trusts a *)
(* nonempty reachable table alone, never sends data up for a root that the *)
(* switch above does not have below it.                                    *)
THEOREM ListsNameWhatIsBelow == Spec => []ReachableIsBelow
<1>1. IInv => ReachableIsBelow
  <2> SUFFICES ASSUME IInv, NEW p \in Port, NEW i \in DOMAIN inbox[p],
                      inbox[p][i].type = "FAILURE", inbox[p][i].option = "REACHABLE"
               PROVE  inbox[p][i].roots \subseteq RootsOf[NodeOf(Peer[p])]
    BY DEF ReachableIsBelow, IInv
  <2>1. inbox[p] \in Seq(Update)
    BY DEF IInv, SoundInbox
  <2>2. i \in 1 .. Len(inbox[p])
    BY <2>1
  <2> QED
    BY <2>2 DEF IInv, SoundInbox, Sound
<1> QED
  BY <1>1, Invariance, PTL

-----------------------------------------------------------------------------
(* Updates wear off.                                                       *)

(* The two ends of a cable look at each other.                             *)
LEMMA EndsLookOpposite ==
  ASSUME NEW p \in Port
  PROVE  /\ LooksDown(p) <=> ~LooksDown(Peer[p])
         /\ LooksDown(p) => Tier[NodeOf(p)] > Tier[NodeOf(Peer[p])]
         /\ ~LooksDown(p) => Tier[NodeOf(p)] < Tier[NodeOf(Peer[p])]
<1>1. /\ Peer[p] \in Port /\ Peer[Peer[p]] = p
      /\ NodeOf(p) \in Node /\ NodeOf(Peer[p]) \in Node
  BY PortParts
<1>2. Tier[NodeOf(p)] \in Nat /\ Tier[NodeOf(Peer[p])] \in Nat
  BY <1>1, TierAssumption
<1> QED
  BY <1>1, <1>2, CableAssumption DEF LooksDown

(* The update that port p hands over is answered away from p, and upwards  *)
(* only if it came from below: what is sent is outranked.                  *)
LEMMA AnswerIsOutranked ==
  ASSUME IInv, NEW p \in Port, inbox[p] # <<>>,
         NEW S \in SUBSET PortsOf(NodeOf(p)), NEW m,
         SendOn(Consumed(p), S, m),
         LooksDown(p) \/ \A s \in S : LooksDown(s),
         NEW q \in Port, Len(inbox'[q]) > Len(inbox[q])
  PROVE  Len(inbox'[p]) < Len(inbox[p]) /\ Outranks(p, q)
<1>1. /\ inbox \in [Port -> Seq(Update)] /\ inbox[p] \in Seq(Update)
      /\ inbox[q] \in Seq(Update)
  BY DEF IInv, SoundInbox
<1>2. /\ Len(inbox[p]) \in Nat \ {0} /\ Len(inbox[q]) \in Nat
      /\ Len(Tail(inbox[p])) = Len(inbox[p]) - 1
  BY <1>1, HeadTailProperties, EmptySeq, LenProperties
<1>3. Consumed(p)[p] = Tail(inbox[p])
      /\ \A r \in Port \ {p} : Consumed(p)[r] = inbox[r]
  BY <1>1 DEF Consumed
<1>4. Len(Consumed(p)[q]) \in Int /\ Len(Consumed(p)[q]) <= Len(inbox[q])
  <2>1. CASE q = p
    <3>1. Len(Tail(inbox[p])) \in Int /\ Len(Tail(inbox[p])) <= Len(inbox[p])
      BY <1>2
    <3>2. Len(Consumed(p)[p]) \in Int /\ Len(Consumed(p)[p]) <= Len(inbox[p])
      BY <1>3, <3>1
    <3> QED
      BY <2>1, <3>2
  <2>2. CASE q # p
    BY <1>2, <1>3, <2>2
  <2> QED
    BY <2>1, <2>2
<1>5. inbox' = [r \in Port |-> IF Peer[r] \in S /\ r \notin cut
                               THEN Append(Consumed(p)[r], m)
                               ELSE Consumed(p)[r]]
  BY DEF SendOn
<1>6. Peer[q] \in S
  <2>1. CASE inbox'[q] = Consumed(p)[q]
    BY <1>2, <1>4, <2>1
  <2> QED
    BY <1>5, <2>1
<1>7. /\ Peer[q] \in Port /\ Peer[Peer[q]] = q
      /\ NodeOf(Peer[q]) = NodeOf(p)
  BY <1>6, PortParts DEF PortsOf
<1>8. /\ NodeOf(p) \in Node /\ NodeOf(Peer[p]) \in Node
      /\ NodeOf(q) \in Node
  BY PortParts
<1>9. Peer[p] \notin S
  <2>1. NodeOf(Peer[p]) # NodeOf(p)
    BY <1>8, CableAssumption, TierAssumption
  <2> QED
    BY <2>1 DEF PortsOf
<1>10. inbox'[p] = Tail(inbox[p])
  BY <1>3, <1>5, <1>9
<1>11. Outranks(p, q)
  <2>1. /\ LooksDown(q) <=> ~LooksDown(Peer[q])
        /\ LooksDown(q) => Tier[NodeOf(q)] > Tier[NodeOf(p)]
        /\ ~LooksDown(q) => Tier[NodeOf(q)] < Tier[NodeOf(p)]
    BY <1>7, EndsLookOpposite
  <2>2. Tier[NodeOf(q)] \in Nat /\ Tier[NodeOf(p)] \in Nat
    BY <1>8, TierAssumption
  <2> QED
    BY <1>6, <2>1, <2>2 DEF Outranks
<1> QED
  BY <1>2, <1>10, <1>11

(* A step in which no port is given up or opened, and some port gets an    *)
(* update, handles an update that outranks it.                             *)
LEMMA ReceivedIsOutranked ==
  ASSUME IInv, NEW p \in Port, Receive(p), up' = up, joined' = joined,
         NEW q \in Port, Len(inbox'[q]) > Len(inbox[q])
  PROVE  Len(inbox'[p]) < Len(inbox[p]) /\ Outranks(p, q)
<1> DEFINE n == NodeOf(p)
<1>1. /\ inbox \in [Port -> Seq(Update)] /\ inbox[p] \in Seq(Update)
      /\ inbox[q] \in Seq(Update) /\ p \in PortsOf(n)
  BY PortParts DEF IInv, SoundInbox
<1>2. \A s \in AcceptedPorts(n) : s \in PortsOf(n) /\ LooksDown(s)
  <2>1. n \in Node
    BY PortParts
  <2>2. \A s \in AcceptedPorts(n) : s \in PortsOf(n) /\ Roots(s) # {}
    BY <2>1 DEF AcceptedPorts, Downlinks
  <2> QED
    BY <2>2 DEF Roots
<1>3. ASSUME NEW S \in SUBSET PortsOf(n), NEW m, inbox[p] # <<>>,
             SendOn(Consumed(p), S, m), LooksDown(p) \/ S \subseteq AcceptedPorts(n)
      PROVE  Len(inbox'[p]) < Len(inbox[p]) /\ Outranks(p, q)
  BY <1>2, <1>3, AnswerIsOutranked
<1>4. CASE FailureFromBelow(p)
  <2>1. Up(PortsOf(n) \ {p}, up) \in SUBSET PortsOf(n)
    BY DEF Up
  <2> QED
    BY <1>2, <1>3, <1>4, <2>1 DEF FailureFromBelow, Arrived
<1>5. CASE RecoverFromBelow(p)
  <2>1. Up(PortsOf(n) \ {p}, up) \in SUBSET PortsOf(n)
    BY DEF Up
  <2> QED
    BY <1>2, <1>3, <1>5, <2>1 DEF RecoverFromBelow, Arrived
<1>6. CASE FailureFromAbove(p)
  <2>1. PICK S, m : /\ SendOn(Consumed(p), S, m)
                    /\ S = {} \/ S = Up(AcceptedPorts(n), up)
    BY <1>6 DEF FailureFromAbove, When
  <2>2. S \in SUBSET PortsOf(n) /\ S \subseteq AcceptedPorts(n)
    BY <1>2, <2>1 DEF Up
  <2> QED
    BY <1>3, <1>6, <2>1, <2>2 DEF FailureFromAbove, Arrived
<1>7. CASE RecoverFromAbove(p)
  <2>1. PICK S, m : /\ SendOn(Consumed(p), S, m)
                    /\ S = {} \/ S = Up(AcceptedPorts(n), up)
    BY <1>7 DEF RecoverFromAbove, When
  <2>2. S \in SUBSET PortsOf(n) /\ S \subseteq AcceptedPorts(n)
    BY <1>2, <2>1 DEF Up
  <2> QED
    BY <1>3, <1>7, <2>1, <2>2 DEF RecoverFromAbove, Arrived
<1>8. CASE inbox[p] # <<>> /\ inbox' = Consumed(p)
  <2>1. SendOn(Consumed(p), {}, StartHello)
    BY <1>1, <1>8 DEF SendOn, Consumed
  <2> QED
    BY <1>3, <1>8, <2>1
<1>9. CASE TakeJoinAck(p)
  BY <1>9 DEF TakeJoinAck
<1>10. CASE HearAgain(p)
  BY <1>10 DEF HearAgain
<1> QED
  BY <1>4, <1>5, <1>6, <1>7, <1>8, <1>9, <1>10
     DEF Receive, UpdateBeforeJoin, TakeStartHello, Arrived

(* A port that fails or recovers is another port than before.              *)
LEMMA PortEventsShow ==
  ASSUME IInv, NEW p \in Port, PortFails(p) \/ PortRecovers(p)
  PROVE  up' # up
BY DEF PortFails, PortRecovers, IInv, TypeOK

(* Every update is sent because a port was given up or opened, or in       *)
(* answer to one that outranks it.  In a fabric of finitely many switches  *)
(* an update so has finitely many consequences, which is why Quietens      *)
(* holds.                                                                  *)
THEOREM NothingCircles == Spec => UpdatesWearOff
<1>1. ASSUME IInv, [Next]_vars, NEW q \in Port, Len(inbox'[q]) > Len(inbox[q])
      PROVE  \/ up' # up \/ joined' # joined
             \/ \E p \in Port : Len(inbox'[p]) < Len(inbox[p]) /\ Outranks(p, q)
  <2> SUFFICES ASSUME up' = up, joined' = joined
               PROVE  \E p \in Port : Len(inbox'[p]) < Len(inbox[p]) /\ Outranks(p, q)
    OBVIOUS
  <2>1. Len(inbox[q]) \in Nat /\ inbox[q] \in Seq(Update)
    <3>1. inbox[q] \in Seq(Update)
      BY <1>1 DEF IInv, SoundInbox
    <3> QED
      BY <3>1, LenProperties
  <2>2. inbox' # inbox
    BY <1>1, <2>1
  <2>3. CASE \E n \in Node : Loop(n)
    <3>1. PICK p \in Port : PortFails(p) \/ PortRecovers(p) \/ Receive(p)
      BY <2>3 DEF Loop, PortsOf
    <3>2. Receive(p)
      BY <1>1, <3>1, PortEventsShow
    <3> QED
      BY <1>1, <3>2, ReceivedIsOutranked
  <2>4. CASE \E p \in Port : Cut(p) \/ Mend(p)
    BY <2>2, <2>4 DEF Cut, Mend
  <2>5. CASE \E n \in Leaf : Restart(n)
    <3>1. PICK n \in Leaf : Restart(n)
      BY <2>5
    <3>2. inbox'[q] = <<>> \/ inbox'[q] = inbox[q]
      BY <3>1 DEF Restart
    <3> QED
      BY <1>1, <2>1, <3>2
  <2>6. CASE UNCHANGED vars
    BY <2>2, <2>6 DEF vars
  <2> QED
    BY <1>1, <2>3, <2>4, <2>5, <2>6 DEF Next
<1>2. IInv /\ [Next]_vars =>
        [\A q \in Port : Len(inbox'[q]) > Len(inbox[q]) =>
           \/ up' # up \/ joined' # joined
           \/ \E p \in Port : Len(inbox'[p]) < Len(inbox[p]) /\ Outranks(p, q)]_vars
  BY <1>1
<1> QED
  BY <1>2, Invariance, PTL DEF Spec, UpdatesWearOff
=============================================================================
