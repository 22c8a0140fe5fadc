-------------------------------- MODULE Join --------------------------------
(***************************************************************************)
(* The join handshake of CMTP (SRC/main.c): how VIDs are handed up the     *)
(* fabric, from a leaf's first HelloNR to the StartHello that opens each   *)
(* link for keep-alives.                                                   *)
(*                                                                         *)
(*      lower switch                          upper switch                 *)
(*          HelloNR(own VIDs)       ------->                               *)
(*                                  <-------  JoinReq(same VIDs)           *)
(*          JoinRes(extended VIDs)  ------->    accepts them, and sends    *)
(*                                              HelloNR on every port      *)
(*          offers them             <-------  JoinAck(same VIDs)           *)
(*          StartHello              ------->    opens the link             *)
(*                                                                         *)
(* Every switch runs one loop that handles one frame at a time, so each    *)
(* handler is one action.  Each HelloNR is sent once: nothing is ever      *)
(* retransmitted.  A frame for a switch that is not running is lost, the   *)
(* wire may lose up to MaxDrops frames, and switches are stopped (SIGINT)  *)
(* and forget their tables until one of them was stopped MaxStops times.   *)
(*                                                                         *)
(* Failures and recoveries of links are modelled in KeepAlive and Updates: *)
(* here isUP and start of a control port are set together, as all three    *)
(* assignments in the handshake do, and form the one variable started.     *)
(***************************************************************************)
EXTENDS Trees

CONSTANTS
  MaxDrops,   \* bound on the frames lost by the wire
  MaxStops    \* bound on the times that one switch is stopped

ASSUME BoundAssumption == MaxDrops \in Nat /\ MaxStops \in Nat

(* The variable granted of Trees is a history variable here: every VID     *)
(* that each port has ever accepted.                                       *)
VARIABLES
  running,    \* the switches whose program runs
  accepted,   \* vap table: the VIDs accepted on each port, from below
  offered,    \* vop table: the VIDs offered on each port, to above
  started,    \* the control ports with isUP = start = 1
  inbox,      \* the frames that wait to be received on each port
  drops,      \* history: frames the wire has lost
  stops,      \* history: how often each switch was stopped
  lost        \* history: has any frame been lost?

tables == <<accepted, offered, started, granted>>
vars == <<running, tables, inbox, drops, stops, lost>>

-----------------------------------------------------------------------------
(* Frames.  The VID list of a frame keeps its order: the tier of a HelloNR *)
(* is read from the first VID.                                             *)

HelloNR(vids) == [type |-> "HelloNR", vids |-> vids]
JoinReq(vids) == [type |-> "JoinReq", vids |-> vids]
JoinRes(vids) == [type |-> "JoinRes", vids |-> vids]
JoinAck(vids) == [type |-> "JoinAck", vids |-> vids]
StartHello    == [type |-> "StartHello", vids |-> <<>>]

Message ==
  [type : {"HelloNR", "JoinReq", "JoinRes", "JoinAck", "StartHello"},
   vids : Seq(VID)]

VIDsIn(m) == Range(m.vids)

ClaimedTier(m) == TierOf(m.vids[1])

(* Variant: the port number is not appended.                               *)
ExtendAll_Unchanged(vids, p) == vids

ExtendAll(vids, p) == [i \in DOMAIN vids |-> Extend(vids[i], p)]

-----------------------------------------------------------------------------
(* Sending.  out[p] is the sequence of frames that an action sends on port *)
(* p; they reach the other end of the cable if a program runs there.       *)

NoFrames == [p \in Port |-> <<>>]
On(p, m) == [NoFrames EXCEPT ![p] = <<m>>]
OnAllPorts(n, m) == [p \in Port |-> IF p \in PortsOf(n) THEN <<m>> ELSE <<>>]
Then(out, next) == [p \in Port |-> out[p] \o next[p]]

Unheard(out) ==
  \E p \in Port : out[p] # <<>> /\ NodeOf(Peer[p]) \notin running

Transmit(box, out) ==
  /\ inbox' = [q \in Port |-> IF NodeOf(q) \in running
                              THEN box[q] \o out[Peer[q]]
                              ELSE box[q]]
  /\ lost' = (lost \/ Unheard(out))

Arrived(p, type) ==
  /\ NodeOf(p) \in running
  /\ inbox[p] # <<>>
  /\ Head(inbox[p]).type = type

Consumed(p) == [inbox EXCEPT ![p] = Tail(@)]

(* Handling the first frame on port p sends the frames out.                *)
Answer(p, out) ==
  /\ Transmit(Consumed(p), out)
  /\ UNCHANGED <<running, drops, stops>>

-----------------------------------------------------------------------------

Init ==
  /\ running = {}
  /\ accepted = [p \in Port |-> {}]
  /\ offered = [p \in Port |-> {}]
  /\ started = {}
  /\ inbox = [p \in Port |-> <<>>]
  /\ granted = [p \in Port |-> {}]
  /\ drops = 0
  /\ stops = [n \in Node |-> 0]
  /\ lost = FALSE

(* The program starts on switch n.  A leaf announces its root VID once on  *)
(* every control port; a spine waits.                                      *)
Boot(n) ==
  /\ n \notin running
  /\ running' = running \cup {n}
  /\ Transmit(inbox, IF n \in Leaf
                     THEN OnAllPorts(n, HelloNR(<<<<Root[n]>>>>))
                     ELSE NoFrames)
  /\ UNCHANGED <<tables, drops, stops>>

(* Variant: whatever the tier, the VIDs are asked for.                     *)
ReceiveHelloNR_AnyTier(p) ==
  /\ Arrived(p, "HelloNR")
  /\ Answer(p, On(p, JoinReq(Head(inbox[p]).vids)))
  /\ UNCHANGED tables

(* Variant: VIDs are asked for only once on a port.                        *)
ReceiveHelloNR_OnlyOnce(p) ==
  /\ Arrived(p, "HelloNR")
  /\ LET m == Head(inbox[p])
     IN  Answer(p, IF ClaimedTier(m) >= Tier[NodeOf(p)] \/ accepted[p] # {}
                   THEN NoFrames
                   ELSE On(p, JoinReq(m.vids)))
  /\ UNCHANGED tables

(* handle_receive_hello_NR: VIDs of a tier that is not below are ignored.  *)
ReceiveHelloNR(p) ==
  /\ Arrived(p, "HelloNR")
  /\ LET m == Head(inbox[p])
     IN  Answer(p, IF ClaimedTier(m) >= Tier[NodeOf(p)]
                   THEN NoFrames
                   ELSE On(p, JoinReq(m.vids)))
  /\ UNCHANGED tables

(* Variant: the offer is recorded when it is made, not when acknowledged.  *)
ReceiveJoinReq_Eager(p) ==
  /\ Arrived(p, "JoinReq")
  /\ LET vids == ExtendAll(Head(inbox[p]).vids, p)
     IN  /\ offered' = [offered EXCEPT ![p] = @ \cup Range(vids)]
         /\ Answer(p, On(p, JoinRes(vids)))
  /\ UNCHANGED <<accepted, started, granted>>

(* handle_receive_join_req: extend each VID with the arrival port.         *)
ReceiveJoinReq(p) ==
  /\ Arrived(p, "JoinReq")
  /\ Answer(p, On(p, JoinRes(ExtendAll(Head(inbox[p]).vids, p))))
  /\ UNCHANGED tables

(* Variant: the VIDs are announced on the port they came from only.        *)
ReceiveJoinRes_ArrivalPort(p) ==
  /\ Arrived(p, "JoinRes")
  /\ LET m == Head(inbox[p])
     IN  /\ accepted' = [accepted EXCEPT ![p] = @ \cup VIDsIn(m)]
         /\ granted' = [granted EXCEPT ![p] = @ \cup VIDsIn(m)]
         /\ Answer(p, Then(On(p, HelloNR(m.vids)), On(p, JoinAck(m.vids))))
  /\ UNCHANGED <<offered, started>>

(* Variant: the whole table is announced, and the link opened at once.     *)
ReceiveJoinRes_WholeTable(p) ==
  /\ Arrived(p, "JoinRes")
  /\ LET m == Head(inbox[p])
         known == UNION {accepted[q] : q \in PortsOf(NodeOf(p))} \ VIDsIn(m)
         vids == IF known = {} THEN m.vids ELSE Append(m.vids, CHOOSE v \in known : TRUE)
     IN  /\ accepted' = [accepted EXCEPT ![p] = @ \cup VIDsIn(m)]
         /\ granted' = [granted EXCEPT ![p] = @ \cup VIDsIn(m)]
         /\ started' = started \cup {p}
         /\ Answer(p, Then(OnAllPorts(NodeOf(p), HelloNR(vids)), On(p, JoinAck(m.vids))))
  /\ UNCHANGED offered

(* handle_receive_join_res: accept the VIDs, announce them on every port   *)
(* (a top spine announces nothing), then acknowledge.                      *)
ReceiveJoinRes(p) ==
  /\ Arrived(p, "JoinRes")
  /\ LET m == Head(inbox[p])
         hello == IF NodeOf(p) \in TopSpine
                  THEN NoFrames
                  ELSE OnAllPorts(NodeOf(p), HelloNR(m.vids))
     IN  /\ accepted' = [accepted EXCEPT ![p] = @ \cup VIDsIn(m)]
         /\ granted' = [granted EXCEPT ![p] = @ \cup VIDsIn(m)]
         /\ Answer(p, Then(hello, On(p, JoinAck(m.vids))))
  /\ UNCHANGED <<offered, started>>

(* Variant: one VID too many is read from the frame: an empty text.        *)
ReceiveJoinAck_OneMore(p) ==
  /\ Arrived(p, "JoinAck")
  /\ offered' = [offered EXCEPT ![p] = @ \cup VIDsIn(Head(inbox[p])) \cup {<<>>}]
  /\ started' = IF offered[p] = {} THEN started \cup {p} ELSE started
  /\ Answer(p, On(p, StartHello))
  /\ UNCHANGED <<accepted, granted>>

(* handle_receive_join_ack: record the offer; only the first entry of a    *)
(* port (its vop entry has no cp yet) opens the port.                      *)
ReceiveJoinAck(p) ==
  /\ Arrived(p, "JoinAck")
  /\ offered' = [offered EXCEPT ![p] = @ \cup VIDsIn(Head(inbox[p]))]
  /\ started' = IF offered[p] = {} THEN started \cup {p} ELSE started
  /\ Answer(p, On(p, StartHello))
  /\ UNCHANGED <<accepted, granted>>

(* handle_receive_start_hello: opens the port whatever it holds.           *)
ReceiveStartHello(p) ==
  /\ Arrived(p, "StartHello")
  /\ started' = started \cup {p}
  /\ Answer(p, NoFrames)
  /\ UNCHANGED <<accepted, offered, granted>>

Receive(p) ==
  \/ ReceiveHelloNR(p)
  \/ ReceiveJoinReq(p)
  \/ ReceiveJoinRes(p)
  \/ ReceiveJoinAck(p)
  \/ ReceiveStartHello(p)

(* The wire loses the next frame for port p.                               *)
Drop(p) ==
  /\ drops < MaxDrops
  /\ inbox[p] # <<>>
  /\ inbox' = Consumed(p)
  /\ drops' = drops + 1
  /\ lost' = TRUE
  /\ UNCHANGED <<running, tables, stops>>

(* handleSIGINT: the program ends, with its tables and its sockets.        *)
Stop(n) ==
  LET Cleared(table, empty) ==
        [p \in Port |-> IF p \in PortsOf(n) THEN empty ELSE table[p]]
  IN  /\ n \in running
      /\ \A m \in Node : stops[m] < MaxStops
      /\ running' = running \ {n}
      /\ accepted' = Cleared(accepted, {})
      /\ offered' = Cleared(offered, {})
      /\ inbox' = Cleared(inbox, <<>>)
      /\ started' = started \ PortsOf(n)
      /\ stops' = [stops EXCEPT ![n] = @ + 1]
      /\ lost' = (lost \/ \E p \in PortsOf(n) : inbox[p] # <<>>)
      /\ UNCHANGED <<granted, drops>>

Next ==
  \/ \E n \in Node : Boot(n) \/ Stop(n)
  \/ \E p \in Port : Receive(p) \/ Drop(p)

(* Every switch is started and polls its socket forever: as long as there  *)
(* is a switch to start or a frame to receive, one of them happens.        *)
Fairness == WF_vars((\E n \in Node : Boot(n)) \/ (\E p \in Port : Receive(p)))

Spec == Init /\ [][Next]_vars

FairSpec == Spec /\ Fairness

-----------------------------------------------------------------------------

Tree == INSTANCE MeshedTree

NeverStopped == \A n \in Node : stops[n] = 0

TypeOK ==
  /\ running \subseteq Node
  /\ accepted \in [Port -> SUBSET VID]
  /\ offered \in [Port -> SUBSET VID]
  /\ started \subseteq Port
  /\ inbox \in [Port -> Seq(Message)]
  /\ granted \in [Port -> SUBSET VID]
  /\ drops \in 0 .. MaxDrops
  /\ stops \in [Node -> 0 .. MaxStops]
  /\ lost \in BOOLEAN

(* The handshake hands out VIDs as MeshedTree promises: whatever frames    *)
(* are lost and whichever switches restart in the middle of a handshake, a *)
(* switch accepts nothing but extensions of VIDs of the switch below.      *)
ImplementsMeshedTree == Tree!Spec

(* The two ends of a cable agree: what a switch records as offered was     *)
(* accepted at the other end, and still is unless that end was stopped.    *)
(* The data plane of the lower switch sends up on the strength of it.      *)
OfferedIsAccepted ==
  \A p \in Port :
    /\ offered[p] \subseteq granted[Peer[p]]
    /\ stops[NodeOf(Peer[p])] = 0 => offered[p] \subseteq accepted[Peer[p]]

(* Each handshake frame carries exactly one VID, so the scratch list of    *)
(* VIDs (temp_2d_array, ten slots) is never overrun by a handshake however *)
(* many VIDs a switch has.                                                 *)
OneVIDPerFrame ==
  \A p \in Port : \A i \in DOMAIN inbox[p] :
    inbox[p][i].type # "StartHello" => Len(inbox[p][i].vids) = 1

(* The upper end of a cable opens last: it sends keep-alives only when the *)
(* lower end has recorded the offer and is open for them.  (An end that is *)
(* restarted in mid-handshake is opened without any VID: see README.)      *)
UpperOpensLast ==
  NeverStopped =>
    \A q \in Port :
      LooksDown(q) /\ q \in started =>
        Peer[q] \in started /\ offered[Peer[q]] \subseteq accepted[q]
                            /\ offered[Peer[q]] # {}

(* The fabric is meshed: on every cable the upper switch has accepted all  *)
(* the VIDs of the lower one, the lower one knows, and both ends are open. *)
OwnVIDs(n) ==
  (IF n \in Leaf THEN {<<Root[n]>>} ELSE {})
    \cup UNION {accepted[q] : q \in PortsOf(n)}

Meshed ==
  \A q \in Port :
    LooksDown(q) =>
      LET below == OwnVIDs(NodeOf(Peer[q]))
      IN  /\ accepted[q] = {Extend(v, Peer[q]) : v \in below}
          /\ offered[Peer[q]] = accepted[q]
          /\ below # {} => {q, Peer[q]} \subseteq started

SpinesNeverStopped == \A n \in Node \ Leaf : stops[n] = 0

(* A fabric at rest is meshed: if no frame was ever lost and no spine ever *)
(* stopped, then once every switch runs and no frame waits, the handshake  *)
(* has left nothing out, however often the leaves were restarted and       *)
(* although no frame of it is ever repeated.                               *)
RestIsMeshed ==
  /\ ~lost /\ SpinesNeverStopped
  /\ running = Node
  /\ \A p \in Port : inbox[p] = <<>>
  => Meshed

(* A fabric in which no frame is lost is meshed in the end and stays so,   *)
(* in whatever order frames are handled, and again after a leaf restarts:  *)
(* its new HelloNR climbs the whole tree once more.  (A spine has no such  *)
(* luck: it announces nothing when it starts.)                             *)
Converges == <>[](~lost /\ SpinesNeverStopped => Meshed)

=============================================================================
