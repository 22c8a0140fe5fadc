--------------------------- MODULE JoinRestProofs ---------------------------
(***************************************************************************)
(* Why a fabric at rest is meshed (Join): the handshake of each VID on     *)
(* each cable is a token that is handed on from frame to frame until both  *)
(* ends have recorded the VID.  As long as no frame is lost and no spine   *)
(* is stopped, every VID that a running switch has is somewhere along its  *)
(* handshake on each of its cables to above; when no frame is left, it is  *)
(* at the end.                                                             *)
(***************************************************************************)
EXTENDS JoinProofs

(* How far VID v has come on the cable above port p: announced, asked for, *)
(* extended, accepted, or recorded at both ends.                           *)
IsAnnounced(p, v) == HelloNR(<<v>>) \in Range(inbox[Peer[p]])
IsAskedFor(p, v)  == JoinReq(<<v>>) \in Range(inbox[p])
IsExtended(p, v)  == JoinRes(<<Extend(v, p)>>) \in Range(inbox[Peer[p]])
IsAccepted(p, v)  == /\ Extend(v, p) \in accepted[Peer[p]]
                     /\ JoinAck(<<Extend(v, p)>>) \in Range(inbox[p])
IsRecorded(p, v)  == /\ Extend(v, p) \in accepted[Peer[p]]
                     /\ Extend(v, p) \in offered[p]
                     /\ p \in started
                     /\ \/ Peer[p] \in started
                        \/ StartHello \in Range(inbox[Peer[p]])

Handshake(p, v) ==
  \/ IsAnnounced(p, v)
  \/ IsAskedFor(p, v)
  \/ IsExtended(p, v)
  \/ IsAccepted(p, v)
  \/ IsRecorded(p, v)

Undisturbed == ~lost /\ SpinesNeverStopped

(* Every VID of a running switch is on its way over each cable to above.   *)
OnItsWay ==
  Undisturbed =>
    \A p \in Port :
      LooksDown(Peer[p]) /\ NodeOf(p) \in running =>
        \A v \in OwnVIDs(NodeOf(p)) : Handshake(p, v)

(* A switch that does not run has no VIDs.                                 *)
StoppedIsEmpty == \A q \in Port : NodeOf(q) \notin running => accepted[q] = {}

(* An offer opens its port, restarts or not: they forget both.             *)
OffersStart == \A p \in Port : offered[p] # {} => p \in started

(* Only a spine accepts VIDs: none is forgotten while no spine is stopped. *)
NoneForgotten == SpinesNeverStopped => \A q \in Port : accepted[q] = granted[q]

RestInv == OnItsWay /\ StoppedIsEmpty /\ OffersStart /\ NoneForgotten

-----------------------------------------------------------------------------
(* A concatenation has the elements of both sequences.                     *)
LEMMA RangeOfBoth ==
  ASSUME NEW S, NEW s \in Seq(S), NEW t \in Seq(S)
  PROVE  Range(s) \cup Range(t) \subseteq Range(s \o t)
<1>1. DOMAIN (s \o t) = 1 .. Len(s) + Len(t)
  BY ConcatProperties, LenProperties
<1>2. /\ DOMAIN s = 1 .. Len(s) /\ DOMAIN t = 1 .. Len(t)
      /\ Len(s) \in Nat /\ Len(t) \in Nat
  BY LenProperties
<1>3. ASSUME NEW i \in 1 .. Len(s)
      PROVE  s[i] \in Range(s \o t)
  <2>1. (s \o t)[i] = s[i] /\ i \in DOMAIN (s \o t)
    BY <1>1, <1>2, ConcatProperties
  <2> QED
    BY <2>1 DEF Range
<1>4. ASSUME NEW i \in 1 .. Len(t)
      PROVE  t[i] \in Range(s \o t)
  <2>1. Len(s) + i \in DOMAIN (s \o t) /\ Len(s) + i > Len(s)
        /\ (Len(s) + i) - Len(s) = i
    BY <1>1, <1>2
  <2>2. (s \o t)[Len(s) + i] = t[i]
    BY <1>1, <1>2, <2>1, ConcatProperties
  <2> QED
    BY <2>1, <2>2 DEF Range
<1> QED
  BY <1>2, <1>3, <1>4 DEF Range

(* Taking the first element leaves the others.                             *)
LEMMA RangeOfRest ==
  ASSUME NEW S, NEW s \in Seq(S), s # <<>>
  PROVE  Range(s) \subseteq {Head(s)} \cup Range(Tail(s))
<1>1. /\ Head(s) = s[1] /\ Tail(s) \in Seq(S)
      /\ Len(Tail(s)) = Len(s) - 1
      /\ \A i \in 1 .. Len(Tail(s)) : Tail(s)[i] = s[i + 1]
  BY HeadTailProperties
<1>2. DOMAIN s = 1 .. Len(s) /\ Len(s) \in Nat \ {0}
  BY LenProperties, EmptySeq
<1>3. DOMAIN Tail(s) = 1 .. Len(s) - 1
  BY <1>1, LenProperties
<1>4. ASSUME NEW i \in 1 .. Len(s), i # 1
      PROVE  s[i] \in Range(Tail(s))
  <2>1. i - 1 \in 1 .. Len(s) - 1 /\ (i - 1) + 1 = i
    BY <1>2, <1>4
  <2>2. Tail(s)[i - 1] = s[i]
    BY <1>1, <2>1
  <2> QED
    BY <1>3, <2>1, <2>2 DEF Range
<1> QED
  BY <1>1, <1>2, <1>4 DEF Range

(* A list of one VID is that VID.                                          *)
LEMMA OnlyElement ==
  ASSUME NEW vids \in Seq(VID), Len(vids) = 1, NEW v \in Range(vids)
  PROVE  vids = <<v>>
<1>1. DOMAIN vids = {1}
  BY LenProperties
<1>2. vids[1] = v
  BY <1>1 DEF Range
<1> QED
  BY <1>1, <1>2

LEMMA FrameReachesOne ==
  ASSUME NEW p \in Port, NEW m \in Message
  PROVE  m \in Range(On(p, m)[p])
<1>1. On(p, m)[p] = <<m>>
  BY DEF On, NoFrames
<1> QED
  BY <1>1, RangeOfOne

LEMMA FrameReachesAll ==
  ASSUME NEW p \in Port, NEW m \in Message
  PROVE  m \in Range(OnAllPorts(NodeOf(p), m)[p])
<1>1. OnAllPorts(NodeOf(p), m)[p] = <<m>>
  BY DEF OnAllPorts, PortsOf
<1> QED
  BY <1>1, RangeOfOne

LEMMA FramesReachBoth ==
  ASSUME NEW out \in [Port -> Seq(Message)], NEW next \in [Port -> Seq(Message)],
         NEW r \in Port
  PROVE  Range(out[r]) \cup Range(next[r]) \subseteq Range(Then(out, next)[r])
<1>1. out[r] \in Seq(Message) /\ next[r] \in Seq(Message)
  OBVIOUS
<1>2. Then(out, next)[r] = out[r] \o next[r]
  BY DEF Then
<1> QED
  BY <1>1, <1>2, RangeOfBoth

(* If no frame is lost, what is sent reaches the other end, and what       *)
(* waited there waits on.                                                  *)
LEMMA TransmitReaches ==
  ASSUME NEW box \in [Port -> Seq(Message)],
         NEW out \in [Port -> Seq(Message)],
         Transmit(box, out), ~lost'
  PROVE  /\ ~lost
         /\ \A q \in Port : Range(box[q]) \subseteq Range(inbox'[q])
         /\ \A r \in Port : Range(out[r]) \subseteq Range(inbox'[Peer[r]])
<1>1. ~lost /\ ~Unheard(out)
  BY DEF Transmit
<1>2. inbox' = [q \in Port |-> IF NodeOf(q) \in running
                               THEN box[q] \o out[Peer[q]]
                               ELSE box[q]]
  BY DEF Transmit
<1>3. ASSUME NEW q \in Port
      PROVE  Range(box[q]) \cup Range(out[Peer[q]]) \subseteq Range(inbox'[q])
  <2>1. /\ Peer[q] \in Port /\ Peer[Peer[q]] = q
        /\ box[q] \in Seq(Message) /\ out[Peer[q]] \in Seq(Message)
    BY PeerOfPeer
  <2>2. CASE NodeOf(q) \in running
    BY <1>2, <2>1, <2>2, RangeOfBoth
  <2>3. CASE NodeOf(q) \notin running
    <3>1. out[Peer[q]] = <<>>
      BY <1>1, <2>1, <2>3 DEF Unheard
    <3>2. Range(out[Peer[q]]) = {}
      BY <3>1, EmptySeq DEF Range
    <3> QED
      BY <1>2, <2>3, <3>2
  <2> QED
    BY <2>2, <2>3
<1>4. ASSUME NEW r \in Port
      PROVE  Range(out[r]) \subseteq Range(inbox'[Peer[r]])
  <2>1. Peer[r] \in Port /\ Peer[Peer[r]] = r
    BY PeerOfPeer
  <2>2. Range(out[Peer[Peer[r]]]) \subseteq Range(inbox'[Peer[r]])
    BY <1>3, <2>1
  <2> QED
    BY <2>1, <2>2
<1> QED
  BY <1>1, <1>3, <1>4

(* A handler takes its frame and no other, and its answer reaches.         *)
LEMMA AnswerReaches ==
  ASSUME TypeOK, NEW r \in Port, NEW type, Arrived(r, type),
         NEW out \in [Port -> Seq(Message)], Answer(r, out), ~lost'
  PROVE  /\ ~lost
         /\ \A q \in Port : \A f \in Range(inbox[q]) :
              f \in Range(inbox'[q]) \/ (q = r /\ f = Head(inbox[r]))
         /\ \A q \in Port : Range(out[q]) \subseteq Range(inbox'[Peer[q]])
<1>1. inbox[r] \in Seq(Message) /\ inbox[r] # <<>>
      /\ inbox \in [Port -> Seq(Message)]
  BY DEF TypeOK, Arrived
<1>2. Tail(inbox[r]) \in Seq(Message)
      /\ Range(inbox[r]) \subseteq {Head(inbox[r])} \cup Range(Tail(inbox[r]))
  BY <1>1, RangeOfTail, RangeOfRest
<1>3. Consumed(r) = [inbox EXCEPT ![r] = Tail(inbox[r])]
  BY DEF Consumed
<1>4. Consumed(r) \in [Port -> Seq(Message)]
  BY <1>1, <1>2, <1>3
<1>5. Transmit(Consumed(r), out)
  BY DEF Answer
<1>6. /\ ~lost
      /\ \A q \in Port : Range(Consumed(r)[q]) \subseteq Range(inbox'[q])
      /\ \A q \in Port : Range(out[q]) \subseteq Range(inbox'[Peer[q]])
  BY <1>4, <1>5, TransmitReaches
<1>7. ASSUME NEW q \in Port, NEW f \in Range(inbox[q])
      PROVE  f \in Range(Consumed(r)[q]) \/ (q = r /\ f = Head(inbox[r]))
  <2>1. CASE q = r
    BY <1>1, <1>2, <1>3, <1>7, <2>1
  <2>2. CASE q # r
    BY <1>1, <1>3, <1>7, <2>2
  <2> QED
    BY <2>1, <2>2
<1> QED
  BY <1>6, <1>7

-----------------------------------------------------------------------------
(* The frame that waits first on port r is the one that carries the        *)
(* handshake of v above port p.                                            *)
Carries(r, p, v) ==
  LET m == Head(inbox[r])
      e == Extend(v, p)
  IN  \/ r = Peer[p] /\ m = HelloNR(<<v>>)
      \/ r = p /\ m = JoinReq(<<v>>)
      \/ r = Peer[p] /\ m = JoinRes(<<e>>)
      \/ r = p /\ m = JoinAck(<<e>>) /\ e \in accepted[Peer[p]]
      \/ /\ r = Peer[p] /\ m = StartHello
         /\ e \in accepted[Peer[p]] /\ e \in offered[p] /\ p \in started

(* A handler can only disturb a handshake whose frame it takes.            *)
LEMMA OthersGoOn ==
  ASSUME TypeOK, Grows, NEW r \in Port, NEW type, Arrived(r, type),
         NEW out \in [Port -> Seq(Message)], Answer(r, out), ~lost',
         NEW p \in Port, NEW v, Handshake(p, v)
  PROVE  Handshake(p, v)' \/ Carries(r, p, v)
<1> DEFINE e == Extend(v, p)
<1>1. Peer[p] \in Port
  BY PeerOfPeer
<1>2. \A q \in Port : \A f \in Range(inbox[q]) :
        f \in Range(inbox'[q]) \/ (q = r /\ f = Head(inbox[r]))
  BY AnswerReaches
<1>3. /\ accepted[Peer[p]] \subseteq accepted'[Peer[p]]
      /\ offered[p] \subseteq offered'[p]
      /\ started \subseteq started'
  BY <1>1 DEF Grows
<1>4. CASE IsAnnounced(p, v)
  BY <1>1, <1>2, <1>4 DEF IsAnnounced, Carries, Handshake
<1>5. CASE IsAskedFor(p, v)
  BY <1>2, <1>5 DEF IsAskedFor, Carries, Handshake
<1>6. CASE IsExtended(p, v)
  BY <1>1, <1>2, <1>6 DEF IsExtended, Carries, Handshake
<1>7. CASE IsAccepted(p, v)
  BY <1>2, <1>3, <1>7 DEF IsAccepted, Carries, Handshake
<1>8. CASE IsRecorded(p, v)
  <2>1. CASE Peer[p] \in started
    BY <1>3, <1>8, <2>1 DEF IsRecorded, Handshake
  <2>2. CASE StartHello \in Range(inbox[Peer[p]])
    BY <1>1, <1>2, <1>3, <1>8, <2>2 DEF IsRecorded, Carries, Handshake
  <2> QED
    BY <1>8, <2>1, <2>2 DEF IsRecorded
<1> QED
  BY <1>4, <1>5, <1>6, <1>7, <1>8 DEF Handshake

(* So a handler keeps all VIDs on their way if it passes on the handshake  *)
(* whose frame it takes, and starts those of the VIDs it accepts.          *)
LEMMA PassedOn ==
  ASSUME TypeOK, RestInv, Grows, NEW r \in Port, NEW type, Arrived(r, type),
         NEW out \in [Port -> Seq(Message)], Answer(r, out),
         ASSUME Undisturbed, ~lost', NEW p \in Port, NEW v,
                LooksDown(Peer[p]), v \in OwnVIDs(NodeOf(p)), Carries(r, p, v)
         PROVE  Handshake(p, v)',
         ASSUME ~lost', NEW p \in Port, NEW v, LooksDown(Peer[p]),
                v \in OwnVIDs(NodeOf(p))', v \notin OwnVIDs(NodeOf(p))
         PROVE  Handshake(p, v)'
  PROVE  OnItsWay'
<1> SUFFICES ASSUME Undisturbed', NEW p \in Port, LooksDown(Peer[p]),
                    NodeOf(p) \in running', NEW v \in OwnVIDs(NodeOf(p))'
             PROVE  Handshake(p, v)'
  BY DEF OnItsWay, LooksDown
<1>1. ~lost' /\ running' = running /\ stops' = stops
  BY DEF Undisturbed, Answer
<1>2. Undisturbed
  BY <1>1, AnswerReaches DEF Undisturbed, SpinesNeverStopped
<1>3. CASE v \in OwnVIDs(NodeOf(p))
  <2>1. Handshake(p, v)
    BY <1>1, <1>2, <1>3 DEF RestInv, OnItsWay
  <2>2. Handshake(p, v)' \/ Carries(r, p, v)
    BY <1>1, <2>1, OthersGoOn
  <2> QED
    BY <1>1, <1>2, <1>3, <2>2
<1> QED
  BY <1>1, <1>3

(* What is said of the tables alone depends on the tables alone.           *)
LEMMA PlainAnswerKeepsTables ==
  ASSUME RestInv, UNCHANGED <<running, tables, stops>>
  PROVE  /\ StoppedIsEmpty' /\ OffersStart' /\ NoneForgotten'
         /\ \A n : OwnVIDs(n)' = OwnVIDs(n)
BY DEF RestInv, StoppedIsEmpty, OffersStart, NoneForgotten, tables, OwnVIDs,
       PortsOf, SpinesNeverStopped

LEMMA UntouchedGrows ==
  ASSUME UNCHANGED <<tables, stops>>
  PROVE  Grows
BY DEF tables, Grows

(* An announced VID is asked for: it is one tier below.                    *)
LEMMA ReceiveHelloNRKeepsRest ==
  ASSUME IInv, RestInv, NEW r \in Port, ReceiveHelloNR(r)
  PROVE  RestInv'
<1> DEFINE m == Head(inbox[r])
           out == IF ClaimedTier(m) >= Tier[NodeOf(r)]
                  THEN NoFrames
                  ELSE On(r, JoinReq(m.vids))
<1>1. Arrived(r, "HelloNR") /\ Answer(r, out) /\ UNCHANGED tables
  BY DEF ReceiveHelloNR
<1>2. UNCHANGED <<running, tables, stops>>
  BY <1>1 DEF Answer
<1>3. m \in Message /\ m.type = "HelloNR" /\ FrameOK(r, m)
  BY <1>1, ArrivedFrame DEF IInv
<1>4. JoinReq(m.vids) \in Message
  BY <1>3, FramesAreMessages DEF Message
<1>5. out \in [Port -> Seq(Message)]
  BY <1>4, SendingOne, SendingNothing
<1>6. Grows
  BY <1>2, UntouchedGrows
<1>7. ASSUME ~lost', NEW p \in Port, NEW v,
             LooksDown(Peer[p]), Carries(r, p, v)
      PROVE  Handshake(p, v)'
  <2>1. m = HelloNR(<<v>>) /\ r = Peer[p]
    BY <1>3, <1>7 DEF Carries, JoinReq, JoinRes, JoinAck, StartHello
  <2>2. Peer[r] = p /\ NodeOf(r) \in Node /\ NodeOf(p) \in Node
    BY <2>1, PeerOfPeer, PortParts
  <2>3. v \in Held(NodeOf(p)) /\ ClaimedTier(m) = Len(v)
    <3>1. m.vids[1] \in VIDsIn(m) /\ m.vids[1] = v /\ VIDsIn(m) \subseteq Held(NodeOf(p))
      BY <1>3, <2>1, <2>2, VIDsInAreVIDs DEF FrameOK, HelloNR
    <3> QED
      BY <3>1 DEF ClaimedTier, TierOf
  <2>4. ClaimedTier(m) = Tier[NodeOf(p)]
    BY <2>2, <2>3, HeldDepth DEF IInv, TreesApart
  <2>5. ~(ClaimedTier(m) >= Tier[NodeOf(r)])
    BY <1>7, <2>1, <2>2, <2>4, TierAssumption DEF LooksDown
  <2>6. m.vids = <<v>>
    BY <2>1 DEF HelloNR
  <2>7. out = On(r, JoinReq(<<v>>))
    BY <2>5, <2>6
  <2>8. JoinReq(<<v>>) \in Range(On(r, JoinReq(<<v>>))[r])
    BY <1>4, <2>6, FrameReachesOne
  <2>9. JoinReq(<<v>>) \in Range(inbox'[p])
    <3>1. Range(out[r]) \subseteq Range(inbox'[Peer[r]])
      BY <1>1, <1>5, <1>7, AnswerReaches DEF IInv
    <3> QED
      BY <2>2, <2>7, <2>8, <3>1
  <2> QED
    BY <2>9 DEF Handshake, IsAskedFor
<1> HIDE DEF m, out
<1>8. OnItsWay'
  BY <1>1, <1>2, <1>5, <1>6, <1>7, PlainAnswerKeepsTables, PassedOn DEF IInv
<1> QED
  BY <1>2, <1>8, PlainAnswerKeepsTables DEF RestInv

(* A VID that is asked for is extended.                                    *)
LEMMA ReceiveJoinReqKeepsRest ==
  ASSUME IInv, RestInv, NEW r \in Port, ReceiveJoinReq(r)
  PROVE  RestInv'
<1> DEFINE m == Head(inbox[r])
           res == JoinRes(ExtendAll(m.vids, r))
<1>1. Arrived(r, "JoinReq") /\ Answer(r, On(r, res)) /\ UNCHANGED tables
  BY DEF ReceiveJoinReq
<1>2. UNCHANGED <<running, tables, stops>>
  BY <1>1 DEF Answer
<1>3. m \in Message /\ m.type = "JoinReq"
  BY <1>1, ArrivedFrame DEF IInv
<1>4. m.vids \in Seq(VID)
  BY <1>3 DEF Message
<1>5. res \in Message
  BY <1>4, ExtendAllProperties, FramesAreMessages
<1>6. On(r, res) \in [Port -> Seq(Message)]
  BY <1>5, SendingOne
<1>7. Grows
  BY <1>2, UntouchedGrows
<1>8. ASSUME ~lost', NEW p \in Port, NEW v, Carries(r, p, v)
      PROVE  Handshake(p, v)'
  <2>1. m = JoinReq(<<v>>) /\ r = p
    BY <1>3, <1>8 DEF Carries, HelloNR, JoinRes, JoinAck, StartHello
  <2>2. m.vids = <<v>> /\ v \in VID
    <3>1. m.vids = <<v>>
      BY <2>1 DEF JoinReq
    <3> QED
      BY <1>4, <3>1
  <2>3. ExtendAll(<<v>>, p) = <<Extend(v, p)>>
    BY DEF ExtendAll
  <2>4. res = JoinRes(<<Extend(v, p)>>)
    BY <2>1, <2>2, <2>3
  <2>5. res \in Range(On(r, res)[r])
    BY <1>5, FrameReachesOne
  <2>6. Range(On(r, res)[r]) \subseteq Range(inbox'[Peer[r]])
    BY <1>1, <1>6, <1>8, AnswerReaches DEF IInv
  <2> QED
    BY <2>1, <2>4, <2>5, <2>6 DEF Handshake, IsExtended
<1> HIDE DEF m, res
<1>9. OnItsWay'
  BY <1>1, <1>2, <1>6, <1>7, <1>8, PlainAnswerKeepsTables, PassedOn DEF IInv
<1> QED
  BY <1>2, <1>9, PlainAnswerKeepsTables DEF RestInv

(* An extended VID is accepted and acknowledged, and the handshakes of the *)
(* switch's new VIDs begin: on every port, before anything else happens.   *)
LEMMA ReceiveJoinResKeepsRest ==
  ASSUME TopIsLast, IInv, RestInv, NEW r \in Port, ReceiveJoinRes(r)
  PROVE  RestInv'
<1> DEFINE m == Head(inbox[r])
           hello == IF NodeOf(r) \in TopSpine
                    THEN NoFrames
                    ELSE OnAllPorts(NodeOf(r), HelloNR(m.vids))
           ack == On(r, JoinAck(m.vids))
           out == Then(hello, ack)
<1>1. /\ Arrived(r, "JoinRes") /\ Answer(r, out)
      /\ accepted' = [accepted EXCEPT ![r] = @ \cup VIDsIn(m)]
      /\ granted' = [granted EXCEPT ![r] = @ \cup VIDsIn(m)]
      /\ UNCHANGED <<offered, started>>
  BY DEF ReceiveJoinRes
<1>2. UNCHANGED <<running, stops, offered, started>> /\ NodeOf(r) \in running
  BY <1>1 DEF Answer, Arrived
<1>3. m \in Message /\ m.type = "JoinRes" /\ FrameOK(r, m)
  BY <1>1, ArrivedFrame DEF IInv
<1> HIDE DEF m
<1>4. /\ m.vids \in Seq(VID) /\ Len(m.vids) = 1 /\ VIDsIn(m) = Range(m.vids)
      /\ HelloNR(m.vids) \in Message /\ JoinAck(m.vids) \in Message
  BY <1>3, FramesAreMessages DEF Message, FrameOK, VIDsIn
<1>5. /\ NodeOf(r) \in Node /\ Peer[r] \in Port /\ Peer[Peer[r]] = r
  BY PortParts, PeerOfPeer
<1>6. /\ hello \in [Port -> Seq(Message)] /\ ack \in [Port -> Seq(Message)]
      /\ out \in [Port -> Seq(Message)]
  <2>1. hello \in [Port -> Seq(Message)]
    BY <1>4, <1>5, SendingAll, SendingNothing
  <2>2. ack \in [Port -> Seq(Message)]
    BY <1>4, SendingOne
  <2> QED
    BY <2>1, <2>2, SendingBoth
<1>7. /\ accepted'[r] = accepted[r] \cup VIDsIn(m)
      /\ granted'[r] = granted[r] \cup VIDsIn(m)
      /\ \A q \in Port \ {r} : /\ accepted'[q] = accepted[q]
                               /\ granted'[q] = granted[q]
  BY <1>1 DEF IInv, TypeOK
<1>8. Grows
  BY <1>2, <1>7 DEF Grows
<1>9. StoppedIsEmpty' /\ OffersStart' /\ NoneForgotten'
  BY <1>2, <1>7 DEF RestInv, StoppedIsEmpty, OffersStart, NoneForgotten,
                    SpinesNeverStopped
<1>10. ASSUME ~lost', NEW q \in Port
       PROVE  /\ Range(hello[q]) \subseteq Range(inbox'[Peer[q]])
              /\ Range(ack[q]) \subseteq Range(inbox'[Peer[q]])
  <2>1. Range(out[q]) \subseteq Range(inbox'[Peer[q]])
    BY <1>1, <1>6, <1>10, AnswerReaches DEF IInv
  <2> QED
    BY <1>6, <2>1, FramesReachBoth
<1>11. ASSUME ~lost', NEW p \in Port, NEW v, Carries(r, p, v)
       PROVE  Handshake(p, v)'
  <2>1. m = JoinRes(<<Extend(v, p)>>) /\ r = Peer[p] /\ Peer[r] = p
    BY <1>3, <1>11, PeerOfPeer DEF m, Carries, HelloNR, JoinReq, JoinAck, StartHello
  <2>2. m.vids = <<Extend(v, p)>>
    BY <2>1 DEF JoinRes
  <2>3. Extend(v, p) \in accepted'[Peer[p]]
    <3>1. Extend(v, p) \in VIDsIn(m)
      BY <1>4, <2>2, RangeOfOne
    <3> QED
      BY <1>7, <2>1, <3>1
  <2>4. JoinAck(<<Extend(v, p)>>) \in Range(ack[r])
    BY <1>4, <2>2, FrameReachesOne
  <2>5. JoinAck(<<Extend(v, p)>>) \in Range(inbox'[p])
    BY <1>10, <1>11, <2>1, <2>4
  <2> QED
    BY <2>3, <2>5 DEF Handshake, IsAccepted
<1>12. ASSUME ~lost', NEW p \in Port, NEW v, LooksDown(Peer[p]),
              v \in OwnVIDs(NodeOf(p))', v \notin OwnVIDs(NodeOf(p))
       PROVE  Handshake(p, v)'
  <2>1. NodeOf(p) = NodeOf(r) /\ v \in VIDsIn(m)
    BY <1>7, <1>12 DEF OwnVIDs, PortsOf
  <2>2. m.vids = <<v>>
    BY <1>4, <2>1, OnlyElement
  <2>3. NodeOf(r) \notin TopSpine
    <3>1. /\ NodeOf(p) \in Node /\ Peer[p] \in Port /\ Peer[Peer[p]] = p
          /\ NodeOf(Peer[p]) \in Node
      BY PortParts, PeerOfPeer
    <3>2. ~LooksDown(p)
      BY <1>12, <3>1, TierAssumption DEF LooksDown
    <3> QED
      BY <2>1, <3>2 DEF TopIsLast
  <2>4. HelloNR(<<v>>) \in Range(hello[p])
    BY <1>4, <2>1, <2>2, <2>3, FrameReachesAll
  <2>5. HelloNR(<<v>>) \in Range(inbox'[Peer[p]])
    BY <1>10, <1>12, <2>4
  <2> QED
    BY <2>5 DEF Handshake, IsAnnounced
<1> HIDE DEF hello, ack, out
<1>13. OnItsWay'
  BY <1>1, <1>6, <1>8, <1>11, <1>12, PassedOn DEF IInv
<1> QED
  BY <1>9, <1>13 DEF RestInv

(* An acknowledged VID is recorded below, and the cable's upper end told   *)
(* to open.                                                                *)
LEMMA ReceiveJoinAckKeepsRest ==
  ASSUME IInv, RestInv, NEW r \in Port, ReceiveJoinAck(r)
  PROVE  RestInv'
<1> DEFINE m == Head(inbox[r])
           out == On(r, StartHello)
<1>1. /\ Arrived(r, "JoinAck") /\ Answer(r, out)
      /\ offered' = [offered EXCEPT ![r] = @ \cup VIDsIn(m)]
      /\ started' = IF offered[r] = {} THEN started \cup {r} ELSE started
      /\ UNCHANGED <<accepted, granted>>
  BY DEF ReceiveJoinAck
<1>2. UNCHANGED <<running, stops, accepted, granted>>
  BY <1>1 DEF Answer
<1>3. m \in Message /\ m.type = "JoinAck"
  BY <1>1, ArrivedFrame DEF IInv
<1>4. m.vids \in Seq(VID) /\ VIDsIn(m) = Range(m.vids)
  BY <1>3 DEF Message, VIDsIn
<1>5. StartHello \in Message /\ out \in [Port -> Seq(Message)]
  BY FramesAreMessages, SendingOne
<1>6. /\ offered'[r] = offered[r] \cup VIDsIn(m)
      /\ \A q \in Port \ {r} : offered'[q] = offered[q]
      /\ r \in started' /\ started \subseteq started'
  BY <1>1 DEF IInv, TypeOK, RestInv, OffersStart
<1>7. Grows
  BY <1>2, <1>6 DEF Grows
<1>8. StoppedIsEmpty' /\ OffersStart' /\ NoneForgotten'
  BY <1>2, <1>6 DEF RestInv, StoppedIsEmpty, OffersStart, NoneForgotten,
                    SpinesNeverStopped
<1>9. ASSUME ~lost', NEW p \in Port, NEW v, Carries(r, p, v)
      PROVE  Handshake(p, v)'
  <2>1. /\ m = JoinAck(<<Extend(v, p)>>) /\ r = p
        /\ Extend(v, p) \in accepted[Peer[p]]
    BY <1>3, <1>9 DEF Carries, HelloNR, JoinReq, JoinRes, StartHello
  <2>2. m.vids = <<Extend(v, p)>>
    BY <2>1 DEF JoinAck
  <2>3. Extend(v, p) \in offered'[p]
    BY <1>4, <1>6, <2>1, <2>2, RangeOfOne
  <2>4. StartHello \in Range(out[r])
    BY <1>5, FrameReachesOne
  <2>5. StartHello \in Range(inbox'[Peer[p]])
    BY <1>1, <1>5, <1>9, <2>1, <2>4, AnswerReaches DEF IInv
  <2> QED
    BY <1>2, <1>6, <2>1, <2>3, <2>5 DEF Handshake, IsRecorded
<1>10. \A n : OwnVIDs(n)' = OwnVIDs(n)
  BY <1>2 DEF OwnVIDs, PortsOf
<1> HIDE DEF m, out
<1>11. OnItsWay'
  BY <1>1, <1>5, <1>7, <1>9, <1>10, PassedOn DEF IInv
<1> QED
  BY <1>8, <1>11 DEF RestInv

(* A StartHello opens the upper end: the handshake is complete.            *)
LEMMA ReceiveStartHelloKeepsRest ==
  ASSUME IInv, RestInv, NEW r \in Port, ReceiveStartHello(r)
  PROVE  RestInv'
<1>1. /\ Arrived(r, "StartHello") /\ Answer(r, NoFrames)
      /\ started' = started \cup {r}
      /\ UNCHANGED <<accepted, offered, granted>>
  BY DEF ReceiveStartHello
<1>2. UNCHANGED <<running, stops, accepted, offered, granted>>
  BY <1>1 DEF Answer
<1>3. Head(inbox[r]).type = "StartHello"
  BY <1>1, ArrivedFrame DEF IInv
<1>4. Grows
  BY <1>1, <1>2 DEF Grows
<1>5. StoppedIsEmpty' /\ OffersStart' /\ NoneForgotten'
  BY <1>1, <1>2 DEF RestInv, StoppedIsEmpty, OffersStart, NoneForgotten,
                    SpinesNeverStopped
<1>6. ASSUME NEW p \in Port, NEW v, Carries(r, p, v)
      PROVE  Handshake(p, v)'
  <2>1. /\ r = Peer[p] /\ Extend(v, p) \in accepted[Peer[p]]
        /\ Extend(v, p) \in offered[p] /\ p \in started
    BY <1>3, <1>6 DEF Carries, HelloNR, JoinReq, JoinRes, JoinAck
  <2> QED
    BY <1>1, <2>1 DEF Handshake, IsRecorded
<1>7. \A n : OwnVIDs(n)' = OwnVIDs(n)
  BY <1>2 DEF OwnVIDs, PortsOf
<1>8. OnItsWay'
  BY <1>1, <1>4, <1>6, <1>7, SendingNothing, PassedOn DEF IInv
<1> QED
  BY <1>5, <1>8 DEF RestInv

(* A leaf that starts announces its root VID, which is all it has; a spine *)
(* that starts has nothing to announce.                                    *)
LEMMA BootKeepsRest ==
  ASSUME IInv, RestInv, NEW n \in Node, Boot(n)
  PROVE  RestInv'
<1> DEFINE hello == HelloNR(<<<<Root[n]>>>>)
           out == IF n \in Leaf THEN OnAllPorts(n, hello) ELSE NoFrames
<1>1. /\ UNCHANGED <<tables, stops>> /\ running' = running \cup {n}
      /\ Transmit(inbox, out) /\ n \notin running
  BY DEF Boot
<1>2. StoppedIsEmpty' /\ OffersStart' /\ NoneForgotten'
  BY <1>1 DEF RestInv, StoppedIsEmpty, OffersStart, NoneForgotten,
              SpinesNeverStopped, tables
<1>3. n \in Leaf => hello \in Message
  <2>1. n \in Leaf => <<<<Root[n]>>>> \in Seq(VID)
    BY RootIsVID, RangeOfOne
  <2> QED
    BY <2>1, FramesAreMessages
<1> HIDE DEF hello
<1>4. out \in [Port -> Seq(Message)] /\ inbox \in [Port -> Seq(Message)]
  BY <1>3, SendingAll, SendingNothing DEF IInv, TypeOK
<1> HIDE DEF out
<1>5. OnItsWay'
  <2> SUFFICES ASSUME Undisturbed', NEW p \in Port, LooksDown(Peer[p]),
                      NodeOf(p) \in running', NEW v \in OwnVIDs(NodeOf(p))'
               PROVE  Handshake(p, v)'
    BY DEF OnItsWay, LooksDown
  <2>1. /\ ~lost /\ Peer[p] \in Port
        /\ \A q \in Port : Range(inbox[q]) \subseteq Range(inbox'[q])
        /\ \A q \in Port : Range(out[q]) \subseteq Range(inbox'[Peer[q]])
    BY <1>1, <1>4, TransmitReaches, PeerOfPeer DEF Undisturbed
  <2>2. Undisturbed
    BY <1>1, <2>1 DEF Undisturbed, SpinesNeverStopped
  <2>3. v \in OwnVIDs(NodeOf(p))
    BY <1>1 DEF OwnVIDs, PortsOf, tables
  <2>4. CASE NodeOf(p) \in running
    <3>1. Handshake(p, v)
      BY <2>2, <2>3, <2>4 DEF RestInv, OnItsWay
    <3> QED
      BY <1>1, <2>1, <3>1 DEF Handshake, IsAnnounced, IsAskedFor, IsExtended,
                              IsAccepted, IsRecorded, tables
  <2>5. CASE NodeOf(p) = n
    <3>1. \A q \in PortsOf(n) : accepted[q] = {}
      BY <1>1 DEF RestInv, StoppedIsEmpty, PortsOf
    <3>2. n \in Leaf /\ v = <<Root[n]>>
      BY <2>3, <2>5, <3>1 DEF OwnVIDs
    <3>3. hello \in Range(OnAllPorts(NodeOf(p), hello)[p])
      BY <1>3, <3>2, FrameReachesAll
    <3>4. hello \in Range(out[p])
      BY <2>5, <3>2, <3>3 DEF out
    <3>5. hello \in Range(inbox'[Peer[p]])
      BY <2>1, <3>4
    <3> QED
      BY <3>2, <3>5 DEF Handshake, IsAnnounced, hello
  <2> QED
    BY <1>1, <2>4, <2>5
<1> QED
  BY <1>2, <1>5 DEF RestInv

(* The wire cannot lose a frame unnoticed.                                 *)
LEMMA DropKeepsRest ==
  ASSUME RestInv, NEW p \in Port, Drop(p)
  PROVE  RestInv'
<1>1. lost' = TRUE /\ UNCHANGED <<running, tables, stops>>
  BY DEF Drop
<1>2. OnItsWay'
  BY <1>1 DEF OnItsWay, Undisturbed
<1> QED
  BY <1>1, <1>2, PlainAnswerKeepsTables DEF RestInv

(* A leaf that stops holds no table but its offers: it takes its own       *)
(* handshakes with it, and no other; a spine that stops is the disturbance *)
(* itself.                                                                 *)
LEMMA StopKeepsRest ==
  ASSUME IInv, RestInv, NEW n \in Node, Stop(n)
  PROVE  RestInv'
<1>1. /\ running' = running \ {n}
      /\ accepted' = [q \in Port |-> IF q \in PortsOf(n) THEN {} ELSE accepted[q]]
      /\ offered' = [q \in Port |-> IF q \in PortsOf(n) THEN {} ELSE offered[q]]
      /\ inbox' = [q \in Port |-> IF q \in PortsOf(n) THEN <<>> ELSE inbox[q]]
      /\ started' = started \ PortsOf(n)
      /\ stops' = [stops EXCEPT ![n] = @ + 1]
      /\ (~lost' => ~lost) /\ granted' = granted
  BY DEF Stop
<1>2. SpinesNeverStopped' => n \in Leaf /\ SpinesNeverStopped
  <2>1. /\ stops \in [Node -> 0 .. MaxStops]
        /\ \A k \in Node : stops[k] \in Nat
    BY BoundAssumption DEF IInv, TypeOK
  <2>2. stops'[n] # 0 /\ \A k \in Node \ {n} : stops'[k] = stops[k]
    BY <1>1, <2>1
  <2> QED
    BY <2>2 DEF SpinesNeverStopped
<1>3. \A q \in Port : NodeOf(q) \in Leaf => ~LooksDown(q)
  BY PeerOfPeer, PortParts, TierAssumption DEF Leaf, LooksDown
<1>4. StoppedIsEmpty'
  BY <1>1 DEF RestInv, StoppedIsEmpty, PortsOf
<1>5. OffersStart'
  BY <1>1 DEF RestInv, OffersStart
<1>6. NoneForgotten'
  <2> SUFFICES ASSUME SpinesNeverStopped', NEW q \in Port
               PROVE  accepted'[q] = granted'[q]
    BY DEF NoneForgotten
  <2>1. CASE q \in PortsOf(n)
    <3>1. granted[q] = {}
      BY <1>2, <1>3, <2>1 DEF IInv, TreesApart, Grafted, PortsOf
    <3> QED
      BY <1>1, <2>1, <3>1
  <2>2. CASE q \notin PortsOf(n)
    BY <1>1, <1>2, <2>2 DEF RestInv, NoneForgotten
  <2> QED
    BY <2>1, <2>2
<1>7. OnItsWay'
  <2> SUFFICES ASSUME Undisturbed', NEW p \in Port, LooksDown(Peer[p]),
                      NodeOf(p) \in running', NEW v \in OwnVIDs(NodeOf(p))'
               PROVE  Handshake(p, v)'
    BY DEF OnItsWay, LooksDown
  <2>1. Undisturbed /\ n \in Leaf
    BY <1>1, <1>2 DEF Undisturbed
  <2>2. Peer[p] \in Port /\ p \notin PortsOf(n) /\ Peer[p] \notin PortsOf(n)
    BY <1>1, <1>3, <2>1, PeerOfPeer DEF PortsOf
  <2>3. /\ accepted'[Peer[p]] = accepted[Peer[p]] /\ offered'[p] = offered[p]
        /\ inbox'[p] = inbox[p] /\ inbox'[Peer[p]] = inbox[Peer[p]]
        /\ (p \in started => p \in started')
        /\ (Peer[p] \in started => Peer[p] \in started')
    BY <1>1, <2>2
  <2>4. v \in OwnVIDs(NodeOf(p))
    BY <1>1, <2>2 DEF OwnVIDs, PortsOf
  <2>5. Handshake(p, v)
    BY <1>1, <2>1, <2>4 DEF RestInv, OnItsWay
  <2> QED
    BY <2>3, <2>5 DEF Handshake, IsAnnounced, IsAskedFor, IsExtended,
                      IsAccepted, IsRecorded
<1> QED
  BY <1>4, <1>5, <1>6, <1>7 DEF RestInv

LEMMA InitRest == Init => RestInv
BY DEF Init, RestInv, OnItsWay, StoppedIsEmpty, OffersStart, NoneForgotten

-----------------------------------------------------------------------------

(* When no frame is left, every handshake is at its end.                   *)
LEMMA RestIsTheEnd ==
  ASSUME IInv, RestInv
  PROVE  RestIsMeshed
<1> SUFFICES ASSUME ~lost, SpinesNeverStopped, running = Node,
                    \A p \in Port : inbox[p] = <<>>,
                    NEW q \in Port, LooksDown(q)
             PROVE  LET below == OwnVIDs(NodeOf(Peer[q]))
                    IN  /\ accepted[q] = {Extend(v, Peer[q]) : v \in below}
                        /\ offered[Peer[q]] = accepted[q]
                        /\ below # {} => {q, Peer[q]} \subseteq started
  BY DEF RestIsMeshed, Meshed
<1> DEFINE p == Peer[q]
           below == OwnVIDs(NodeOf(p))
<1>1. /\ p \in Port /\ Peer[p] = q
      /\ NodeOf(q) \in Node /\ NodeOf(p) \in Node
  BY PeerOfPeer, PortParts
<1>2. ASSUME NEW v \in below
      PROVE  IsRecorded(p, v) /\ q \in started
  <2>1. Handshake(p, v)
    BY <1>1 DEF RestInv, OnItsWay, Undisturbed
  <2>2. Range(inbox[p]) = {} /\ Range(inbox[q]) = {}
    BY <1>1, EmptySeq DEF Range
  <2> HIDE DEF p
  <2> QED
    BY <1>1, <2>1, <2>2 DEF Handshake, IsAnnounced, IsAskedFor, IsExtended,
                            IsAccepted, IsRecorded
<1>3. Held(NodeOf(p)) = below
  BY DEF Held, OwnVIDs, RestInv, NoneForgotten, PortsOf
<1>4. accepted[q] \subseteq {Extend(v, p) : v \in below}
  BY <1>3 DEF IInv, TreesApart, Grafted, Extensions, RestInv, NoneForgotten
<1>5. {Extend(v, p) : v \in below} \subseteq accepted[q] \cap offered[p]
  BY <1>1, <1>2 DEF IsRecorded
<1>6. offered[p] \subseteq accepted[q]
  <2>1. NodeOf(q) \notin Leaf
    BY <1>1, TierAssumption DEF LooksDown, Leaf
  <2>2. stops[NodeOf(Peer[p])] = 0
    BY <1>1, <2>1 DEF SpinesNeverStopped
  <2> QED
    BY <1>1, <2>2 DEF IInv, OfferedIsAccepted
<1>7. below # {} => {q, p} \subseteq started
  BY <1>2 DEF IsRecorded
<1> HIDE DEF below
<1>8. /\ accepted[q] = {Extend(v, p) : v \in below}
      /\ offered[p] = accepted[q]
  BY <1>4, <1>5, <1>6
<1> QED
  BY <1>7, <1>8 DEF below

(* If top spines have no switch above them, no VID drops out of its        *)
(* handshake.                                                              *)
THEOREM RestInvariance ==
  ASSUME TopIsLast
  PROVE  Spec => []RestInv
<1>1. Init => RestInv
  BY InitRest
<1>2. IInv /\ RestInv /\ [Next]_vars => RestInv'
  <2> SUFFICES ASSUME IInv, RestInv, [Next]_vars PROVE RestInv'
    OBVIOUS
  <2>1. CASE \E n \in Node : Boot(n) \/ Stop(n)
    BY <2>1, BootKeepsRest, StopKeepsRest
  <2>2. CASE \E p \in Port : Receive(p) \/ Drop(p)
    BY <2>2, ReceiveHelloNRKeepsRest, ReceiveJoinReqKeepsRest,
       ReceiveJoinResKeepsRest, ReceiveJoinAckKeepsRest,
       ReceiveStartHelloKeepsRest, DropKeepsRest DEF Receive
  <2>3. CASE UNCHANGED vars
    BY <2>3 DEF vars, tables, RestInv, OnItsWay, StoppedIsEmpty, OffersStart,
                NoneForgotten, Undisturbed, SpinesNeverStopped, OwnVIDs, PortsOf,
                Handshake, IsAnnounced, IsAskedFor, IsExtended, IsAccepted,
                IsRecorded
  <2> QED
    BY <2>1, <2>2, <2>3 DEF Next
<1> QED
  BY <1>1, <1>2, Invariance, PTL DEF Spec

(* If top spines have no switch above them, a fabric that has lost no      *)
(* frame and no spine is meshed whenever it is at rest: nothing is ever    *)
(* repeated, and nothing needs to be.                                      *)
THEOREM RestMeshes ==
  ASSUME TopIsLast
  PROVE  Spec => []RestIsMeshed
<1>1. IInv /\ RestInv => RestIsMeshed
  BY RestIsTheEnd
<1> QED
  BY <1>1, Invariance, RestInvariance, PTL

-----------------------------------------------------------------------------
(* Where Updates takes over.  Its updates name VIDs by their roots, as     *)
(* get_all_VIDs cuts them off at the first dot, and it takes for granted   *)
(* that the tables lead down to each root (RootsAssumption there).         *)

RootsHeld(n)    == {v[1] : v \in OwnVIDs(n)}
RootsThrough(p) == IF LooksDown(p) THEN RootsHeld(NodeOf(Peer[p])) ELSE {}

(* The tables are those that Updates starts from: what is below a port     *)
(* decides what it has accepted and what the port across has offered, and  *)
(* if every switch is above some leaf, every port is open.                 *)
TablesLeadDown ==
  /\ \A n \in Node :
       /\ RootsHeld(n) \subseteq {Root[m] : m \in Leaf}
       /\ RootsHeld(n) = IF n \in Leaf
                         THEN {Root[n]}
                         ELSE UNION {RootsThrough(p) : p \in PortsOf(n)}
  /\ \A p \in Port :
       /\ {v[1] : v \in accepted[p]} = RootsThrough(p)
       /\ {v[1] : v \in offered[p]} = RootsThrough(Peer[p])
  /\ (\A n \in Node : RootsHeld(n) # {}) => started = Port

RestLeadsDown ==
  /\ ~lost /\ SpinesNeverStopped
  /\ running = Node
  /\ \A p \in Port : inbox[p] = <<>>
  => TablesLeadDown

(* Every VID that was ever accepted begins with the root of a leaf.        *)
BeginsWithRoot ==
  \A q \in Port : \A v \in granted[q] : v[1] \in {Root[n] : n \in Leaf}

LEMMA ExtensionKeepsRoot ==
  ASSUME NEW v \in VID, NEW p \in Port
  PROVE  Extend(v, p)[1] = v[1]
<1>1. v \in Seq(Nat) /\ 1 \in 1 .. Len(v) /\ Num(p) \in Nat
  BY PortParts, EmptySeq, LenProperties DEF VID
<1> QED
  BY <1>1, AppendProperties DEF Extend

LEMMA HeldBeginsWithRoot ==
  ASSUME BeginsWithRoot, NEW n, NEW v \in Held(n)
  PROVE  v[1] \in {Root[m] : m \in Leaf}
BY DEF BeginsWithRoot, Held, PortsOf

(* A VID that is granted has the root of the one it extends.               *)
LEMMA StepKeepsRoots ==
  ASSUME IInv, BeginsWithRoot, [Next]_vars
  PROVE  BeginsWithRoot'
<1>1. ASSUME NEW q \in Port, NEW V, Grant(q, V)
      PROVE  BeginsWithRoot'
  <2>1. NodeOf(Peer[q]) \in Node /\ Peer[q] \in Port
    BY PeerOfPeer, PortParts
  <2>2. ASSUME NEW v \in V
        PROVE  v[1] \in {Root[n] : n \in Leaf}
    <3>1. PICK u \in Held(NodeOf(Peer[q])) : v = Extend(u, Peer[q])
      BY <1>1, <2>2 DEF Grant, Extensions
    <3>2. u \in VID
      BY <2>1, HeldIsVID DEF IInv, TreesApart
    <3> QED
      BY <2>1, <3>1, <3>2, ExtensionKeepsRoot, HeldBeginsWithRoot
  <2>3. \A r \in Port : granted'[r] \subseteq granted[r] \cup V
    BY <1>1 DEF Grant, IInv, TypeOK
  <2> QED
    BY <2>2, <2>3 DEF BeginsWithRoot
<1>2. ASSUME granted' = granted
      PROVE  BeginsWithRoot'
  BY <1>2 DEF BeginsWithRoot
<1>3. ASSUME NEW p \in Port, ReceiveJoinRes(p)
      PROVE  BeginsWithRoot'
  BY <1>1, <1>3, ReceiveJoinResGrants
<1>4. CASE Next
  BY <1>2, <1>3, <1>4 DEF Next, Receive, ReceiveHelloNR, ReceiveJoinReq,
                          ReceiveJoinAck, ReceiveStartHello, Boot, Stop, Drop, tables
<1>5. CASE UNCHANGED vars
  BY <1>2, <1>5 DEF vars, tables
<1> QED
  BY <1>4, <1>5

(* A meshed fabric, seen by its roots.                                     *)
LEMMA MeshedLeadsDown ==
  ASSUME IInv, NoneForgotten, BeginsWithRoot, SpinesNeverStopped, Meshed
  PROVE  TablesLeadDown
<1>1. ASSUME NEW q \in Port
      PROVE  /\ Peer[q] \in Port /\ Peer[Peer[q]] = q
             /\ NodeOf(q) \in Node /\ NodeOf(Peer[q]) \in Node
             /\ LooksDown(q) <=> ~LooksDown(Peer[q])
  <2>1. /\ Peer[q] \in Port /\ Peer[Peer[q]] = q
        /\ NodeOf(q) \in Node /\ NodeOf(Peer[q]) \in Node
    BY PeerOfPeer, PortParts
  <2> QED
    BY <2>1, CableAssumption, TierAssumption DEF LooksDown
<1>2. ASSUME NEW n \in Node
      PROVE  /\ OwnVIDs(n) = Held(n)
             /\ OwnVIDs(n) \subseteq VID
             /\ RootsHeld(n) \subseteq {Root[m] : m \in Leaf}
  <2>1. OwnVIDs(n) = Held(n)
    BY DEF OwnVIDs, Held, NoneForgotten, PortsOf
  <2>2. Held(n) \subseteq VID
    BY HeldIsVID DEF IInv, TreesApart
  <2> QED
    BY <2>1, <2>2, HeldBeginsWithRoot DEF RootsHeld
<1>3. ASSUME NEW p \in Port
      PROVE  {v[1] : v \in accepted[p]} = RootsThrough(p)
  <2>1. CASE LooksDown(p)
    <3>1. accepted[p] = {Extend(v, Peer[p]) : v \in OwnVIDs(NodeOf(Peer[p]))}
      BY <2>1 DEF Meshed
    <3>2. \A v \in OwnVIDs(NodeOf(Peer[p])) : Extend(v, Peer[p])[1] = v[1]
      BY <1>1, <1>2, ExtensionKeepsRoot
    <3> QED
      BY <2>1, <3>1, <3>2 DEF RootsThrough, RootsHeld
  <2>2. CASE ~LooksDown(p)
    BY <2>2 DEF IInv, TreesApart, Grafted, NoneForgotten, RootsThrough
  <2> QED
    BY <2>1, <2>2
<1>4. ASSUME NEW p \in Port
      PROVE  {v[1] : v \in offered[p]} = RootsThrough(Peer[p])
  <2>1. CASE LooksDown(Peer[p])
    BY <1>1, <1>3, <2>1 DEF Meshed
  <2>2. CASE ~LooksDown(Peer[p])
    <3>1. offered[p] \subseteq granted[Peer[p]]
      BY DEF IInv, OfferedIsAccepted
    <3>2. granted[Peer[p]] = {}
      BY <1>1, <2>2 DEF IInv, TreesApart, Grafted
    <3> QED
      BY <2>2, <3>1, <3>2 DEF RootsThrough
  <2> QED
    BY <2>1, <2>2
<1>5. ASSUME NEW n \in Node
      PROVE  RootsHeld(n) = IF n \in Leaf
                            THEN {Root[n]}
                            ELSE UNION {RootsThrough(p) : p \in PortsOf(n)}
  <2>1. CASE n \in Leaf
    <3>1. \A q \in PortsOf(n) : ~LooksDown(q)
      BY <1>1, <2>1, TierAssumption DEF Leaf, LooksDown, PortsOf
    <3>2. \A q \in PortsOf(n) : accepted[q] = {}
      BY <3>1 DEF IInv, TreesApart, Grafted, NoneForgotten, PortsOf
    <3>3. OwnVIDs(n) = {<<Root[n]>>}
      BY <2>1, <3>2 DEF OwnVIDs
    <3> QED
      BY <2>1, <3>3 DEF RootsHeld
  <2>2. CASE n \notin Leaf
    <3>1. OwnVIDs(n) = UNION {accepted[q] : q \in PortsOf(n)}
      BY <2>2 DEF OwnVIDs
    <3>2. RootsHeld(n) = UNION {{v[1] : v \in accepted[p]} : p \in PortsOf(n)}
      BY <3>1 DEF RootsHeld
    <3> QED
      BY <1>3, <2>2, <3>2 DEF PortsOf
  <2> QED
    BY <2>1, <2>2
<1>6. ASSUME \A n \in Node : RootsHeld(n) # {}
      PROVE  started = Port
  <2>1. ASSUME NEW q \in Port, LooksDown(q)
        PROVE  {q, Peer[q]} \subseteq started
    <3>1. OwnVIDs(NodeOf(Peer[q])) # {}
      BY <1>1, <1>6 DEF RootsHeld
    <3> QED
      BY <2>1, <3>1 DEF Meshed
  <2>2. \A q \in Port : q \in started
    BY <1>1, <2>1
  <2> QED
    BY <2>2 DEF IInv, TypeOK
<1> QED
  BY <1>2, <1>3, <1>4, <1>5, <1>6 DEF TablesLeadDown

(* What Updates assumes of the tables at its start is what the join leaves *)
(* behind, in every fabric in which it was not disturbed.                  *)
THEOREM HandsOver ==
  ASSUME TopIsLast
  PROVE  Spec => []RestLeadsDown
<1>1. Init => BeginsWithRoot
  BY DEF Init, BeginsWithRoot
<1>2. IInv /\ BeginsWithRoot /\ [Next]_vars => BeginsWithRoot'
  BY StepKeepsRoots
<1>3. IInv /\ RestInv /\ BeginsWithRoot /\ RestIsMeshed => RestLeadsDown
  BY MeshedLeadsDown DEF RestIsMeshed, RestLeadsDown, RestInv
<1> QED
  BY <1>1, <1>2, <1>3, Invariance, RestInvariance, RestMeshes, PTL DEF Spec
=============================================================================
