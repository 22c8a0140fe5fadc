----------------------------- MODULE JoinProofs -----------------------------
(***************************************************************************)
(* Proofs about Join, for every fabric, every number of lost frames and of *)
(* restarts: its type invariant, that it implements MeshedTree, hence that *)
(* a VID names one port, and that the two ends of a cable agree on the     *)
(* VIDs between them.                                                      *)
(*                                                                         *)
(* The argument is about the frames in flight: FrameOK says what each kind *)
(* of frame promises about the tables of the two ends of its cable.        *)
(***************************************************************************)
EXTENDS Join, TreesProofs

FrameOK(q, m) ==
  /\ m.type # "StartHello" => Len(m.vids) = 1
  /\ m.type = "HelloNR" => VIDsIn(m) \subseteq Held(NodeOf(Peer[q]))
  /\ m.type = "JoinReq" => /\ LooksDown(Peer[q])
                           /\ VIDsIn(m) \subseteq Held(NodeOf(q))
  /\ m.type = "JoinRes" => /\ LooksDown(q)
                           /\ VIDsIn(m) \subseteq Extensions(q)
  /\ m.type = "JoinAck" =>
       /\ LooksDown(Peer[q])
       /\ VIDsIn(m) \subseteq granted[Peer[q]]
       /\ stops[NodeOf(Peer[q])] = 0 => VIDsIn(m) \subseteq accepted[Peer[q]]
  /\ m.type = "StartHello" =>
       /\ LooksDown(q)
       /\ NeverStopped => Peer[q] \in started /\ offered[Peer[q]] # {}

FramesOK == \A q \in Port : \A m \in Range(inbox[q]) : FrameOK(q, m)

(* An offer opens its port, and only ports that look up make offers.       *)
OffersOpen ==
  /\ \A p \in Port : offered[p] # {} => LooksDown(Peer[p])
  /\ NeverStopped => \A p \in Port : offered[p] # {} => p \in started

IInv ==
  /\ TypeOK
  /\ TreesApart
  /\ FramesOK
  /\ OfferedIsAccepted
  /\ OffersOpen
  /\ UpperOpensLast

-----------------------------------------------------------------------------
(* The elements of a concatenation.                                        *)
LEMMA RangeOfConcat ==
  ASSUME NEW S, NEW s \in Seq(S), NEW t \in Seq(S)
  PROVE  s \o t \in Seq(S) /\ Range(s \o t) \subseteq Range(s) \cup Range(t)
<1>1. s \o t \in Seq(S) /\ DOMAIN (s \o t) = 1 .. Len(s) + Len(t)
  BY ConcatProperties, LenProperties
<1>2. /\ DOMAIN s = 1 .. Len(s) /\ DOMAIN t = 1 .. Len(t)
      /\ Len(s) \in Nat /\ Len(t) \in Nat
  BY LenProperties
<1>3. ASSUME NEW i \in 1 .. Len(s) + Len(t)
      PROVE  (s \o t)[i] \in Range(s) \cup Range(t)
  <2>1. CASE i <= Len(s)
    <3>1. (s \o t)[i] = s[i] /\ i \in DOMAIN s
      BY <1>2, <2>1, ConcatProperties
    <3> QED
      BY <3>1 DEF Range
  <2>2. CASE ~(i <= Len(s))
    <3>1. (s \o t)[i] = t[i - Len(s)] /\ i - Len(s) \in DOMAIN t
      BY <1>2, <2>2, ConcatProperties
    <3> QED
      BY <3>1 DEF Range
  <2> QED
    BY <2>1, <2>2
<1> QED
  BY <1>1, <1>3 DEF Range

(* The first element of a sequence and the elements of the rest.           *)
LEMMA RangeOfTail ==
  ASSUME NEW S, NEW s \in Seq(S), s # <<>>
  PROVE  /\ Head(s) \in S
         /\ Head(s) \in Range(s)
         /\ Tail(s) \in Seq(S)
         /\ Range(Tail(s)) \subseteq Range(s)
<1>1. /\ Head(s) = s[1] /\ Head(s) \in S /\ Tail(s) \in Seq(S)
      /\ Len(Tail(s)) = Len(s) - 1
      /\ \A i \in 1 .. Len(Tail(s)) : Tail(s)[i] = s[i + 1]
  BY HeadTailProperties
<1>2. DOMAIN s = 1 .. Len(s) /\ Len(s) \in Nat \ {0}
  BY LenProperties, EmptySeq
<1>3. DOMAIN Tail(s) = 1 .. Len(s) - 1
  BY <1>1, LenProperties
<1> QED
  BY <1>1, <1>2, <1>3 DEF Range

LEMMA RangeOfOne ==
  ASSUME NEW S, NEW e \in S
  PROVE  <<e>> \in Seq(S) /\ Range(<<e>>) = {e}
BY DEF Range

(* The VIDs of a well-typed list are VIDs.                                 *)
LEMMA VIDsInAreVIDs ==
  ASSUME NEW m \in Message
  PROVE  /\ VIDsIn(m) \subseteq VID
         /\ Len(m.vids) = 1 => m.vids[1] \in VIDsIn(m)
         /\ VIDsIn(StartHello) = {}
BY LenProperties, ElementOfSeq DEF Message, VIDsIn, Range, StartHello

LEMMA FramesAreMessages ==
  /\ \A vids \in Seq(VID) :
       /\ HelloNR(vids) \in Message /\ JoinReq(vids) \in Message
       /\ JoinRes(vids) \in Message /\ JoinAck(vids) \in Message
  /\ StartHello \in Message
<1>1. <<>> \in Seq(VID)
  BY EmptySeq
<1> QED
  BY <1>1 DEF HelloNR, JoinReq, JoinRes, JoinAck, StartHello, Message

(* Extending a list extends each of its VIDs.                              *)
LEMMA ExtendAllProperties ==
  ASSUME NEW vids \in Seq(VID), NEW p \in Port
  PROVE  /\ ExtendAll(vids, p) \in Seq(VID)
         /\ Len(ExtendAll(vids, p)) = Len(vids)
         /\ Range(ExtendAll(vids, p)) = {Extend(v, p) : v \in Range(vids)}
<1>1. DOMAIN vids = 1 .. Len(vids) /\ Len(vids) \in Nat
      /\ \A i \in 1 .. Len(vids) : vids[i] \in VID
  BY LenProperties, ElementOfSeq
<1>2. \A i \in 1 .. Len(vids) : Extend(vids[i], p) \in VID
  BY <1>1, ExtendIsVID
<1>3. ExtendAll(vids, p) \in [1 .. Len(vids) -> VID]
  BY <1>1, <1>2 DEF ExtendAll
<1>4. ExtendAll(vids, p) \in Seq(VID)
      /\ Len(ExtendAll(vids, p)) = Len(vids)
  BY <1>1, <1>3
<1> QED
  BY <1>1, <1>4 DEF ExtendAll, Range

(* What the ways of sending send on each port.                             *)
LEMMA SendingOne ==
  ASSUME NEW p \in Port, NEW m \in Message
  PROVE  /\ On(p, m) \in [Port -> Seq(Message)]
         /\ \A r \in Port : \A f \in Range(On(p, m)[r]) : r = p /\ f = m
<1>1. <<m>> \in Seq(Message) /\ Range(<<m>>) = {m}
  BY RangeOfOne
<1>2. <<>> \in Seq(Message) /\ Range(<<>>) = {}
  BY EmptySeq DEF Range
<1> QED
  BY <1>1, <1>2 DEF On, NoFrames

LEMMA SendingAll ==
  ASSUME NEW n \in Node, NEW m \in Message
  PROVE  /\ OnAllPorts(n, m) \in [Port -> Seq(Message)]
         /\ \A r \in Port : \A f \in Range(OnAllPorts(n, m)[r]) :
              NodeOf(r) = n /\ f = m
<1>1. <<m>> \in Seq(Message) /\ Range(<<m>>) = {m}
  BY RangeOfOne
<1>2. <<>> \in Seq(Message) /\ Range(<<>>) = {}
  BY EmptySeq DEF Range
<1> QED
  BY <1>1, <1>2 DEF OnAllPorts, PortsOf

LEMMA SendingNothing ==
  /\ NoFrames \in [Port -> Seq(Message)]
  /\ \A r \in Port : Range(NoFrames[r]) = {}
BY EmptySeq DEF NoFrames, Range

LEMMA SendingBoth ==
  ASSUME NEW out \in [Port -> Seq(Message)], NEW next \in [Port -> Seq(Message)]
  PROVE  /\ Then(out, next) \in [Port -> Seq(Message)]
         /\ \A r \in Port :
              Range(Then(out, next)[r]) \subseteq Range(out[r]) \cup Range(next[r])
<1>1. ASSUME NEW r \in Port
      PROVE  /\ out[r] \o next[r] \in Seq(Message)
             /\ Range(out[r] \o next[r]) \subseteq Range(out[r]) \cup Range(next[r])
  <2>1. out[r] \in Seq(Message) /\ next[r] \in Seq(Message)
    OBVIOUS
  <2> QED
    BY <2>1, RangeOfConcat
<1> QED
  BY <1>1 DEF Then

(* Sent frames are added to what waits at the other end, and nothing else. *)
LEMMA TransmitAdds ==
  ASSUME NEW box \in [Port -> Seq(Message)],
         NEW out \in [Port -> Seq(Message)],
         lost \in BOOLEAN, Transmit(box, out)
  PROVE  /\ inbox' \in [Port -> Seq(Message)]
         /\ lost' \in BOOLEAN
         /\ \A q \in Port :
              Range(inbox'[q]) \subseteq Range(box[q]) \cup Range(out[Peer[q]])
<1>1. ASSUME NEW q \in Port
      PROVE  /\ box[q] \o out[Peer[q]] \in Seq(Message)
             /\ Range(box[q] \o out[Peer[q]])
                  \subseteq Range(box[q]) \cup Range(out[Peer[q]])
  <2>1. box[q] \in Seq(Message) /\ out[Peer[q]] \in Seq(Message)
    BY PeerOfPeer
  <2> QED
    BY <2>1, RangeOfConcat
<1>2. inbox' = [q \in Port |-> IF NodeOf(q) \in running
                               THEN box[q] \o out[Peer[q]]
                               ELSE box[q]]
  BY DEF Transmit
<1>3. lost' \in BOOLEAN
  BY DEF Transmit, Unheard
<1> QED
  BY <1>1, <1>2, <1>3

(* The frame that a handler takes, and what it leaves.                     *)
LEMMA ArrivedFrame ==
  ASSUME TypeOK, FramesOK, NEW p \in Port, NEW type, Arrived(p, type)
  PROVE  /\ Head(inbox[p]) \in Message
         /\ Head(inbox[p]).type = type
         /\ FrameOK(p, Head(inbox[p]))
         /\ Consumed(p) \in [Port -> Seq(Message)]
         /\ \A q \in Port : Range(Consumed(p)[q]) \subseteq Range(inbox[q])
<1>1. inbox[p] \in Seq(Message) /\ inbox[p] # <<>>
  BY DEF TypeOK, Arrived
<1>2. /\ Head(inbox[p]) \in Message /\ Head(inbox[p]) \in Range(inbox[p])
      /\ Tail(inbox[p]) \in Seq(Message)
      /\ Range(Tail(inbox[p])) \subseteq Range(inbox[p])
  BY <1>1, RangeOfTail
<1> QED
  BY <1>2 DEF TypeOK, Arrived, FramesOK, Consumed

-----------------------------------------------------------------------------
(* While tables only grow and no switch is stopped, frames stay right.     *)

Grows ==
  /\ \A r \in Port : /\ granted[r] \subseteq granted'[r]
                     /\ accepted[r] \subseteq accepted'[r]
                     /\ offered[r] \subseteq offered'[r]
  /\ started \subseteq started'
  /\ stops' = stops

LEMMA HeldGrows ==
  ASSUME \A r \in Port : granted[r] \subseteq granted'[r], NEW n
  PROVE  Held(n) \subseteq Held(n)'
BY DEF Held, PortsOf

LEMMA FrameStaysOK ==
  ASSUME Grows, NEW q \in Port, NEW m, FrameOK(q, m)
  PROVE  FrameOK(q, m)'
<1>1. Peer[q] \in Port
  BY PeerOfPeer
<1>2. \A n : Held(n) \subseteq Held(n)'
  BY HeldGrows DEF Grows
<1>3. Extensions(q) \subseteq Extensions(q)'
  BY <1>2 DEF Extensions
<1>4. NeverStopped' = NeverStopped
  BY DEF Grows, NeverStopped
<1>5. m.type = "HelloNR" => VIDsIn(m) \subseteq Held(NodeOf(Peer[q]))'
  BY <1>2 DEF FrameOK
<1>6. m.type = "JoinReq" => VIDsIn(m) \subseteq Held(NodeOf(q))'
  BY <1>2 DEF FrameOK
<1>7. m.type = "JoinRes" => VIDsIn(m) \subseteq Extensions(q)'
  BY <1>3 DEF FrameOK
<1>8. m.type = "JoinAck" =>
        /\ VIDsIn(m) \subseteq granted'[Peer[q]]
        /\ stops'[NodeOf(Peer[q])] = 0 => VIDsIn(m) \subseteq accepted'[Peer[q]]
  BY <1>1 DEF FrameOK, Grows
<1>9. m.type = "StartHello" /\ NeverStopped' =>
        Peer[q] \in started' /\ offered'[Peer[q]] # {}
  BY <1>1, <1>4 DEF FrameOK, Grows
<1> QED
  BY <1>5, <1>6, <1>7, <1>8, <1>9 DEF FrameOK, LooksDown, VIDsIn

(* Sending right frames keeps all frames right.                            *)
LEMMA TransmitKeepsFrames ==
  ASSUME TypeOK, FramesOK, Grows,
         NEW box \in [Port -> Seq(Message)],
         \A q \in Port : Range(box[q]) \subseteq Range(inbox[q]),
         NEW out \in [Port -> Seq(Message)], Transmit(box, out),
         \A r \in Port : \A m \in Range(out[r]) : FrameOK(Peer[r], m)'
  PROVE  FramesOK' /\ inbox' \in [Port -> Seq(Message)] /\ lost' \in BOOLEAN
<1>1. /\ inbox' \in [Port -> Seq(Message)] /\ lost' \in BOOLEAN
      /\ \A q \in Port : Range(inbox'[q])
                           \subseteq Range(inbox[q]) \cup Range(out[Peer[q]])
  BY TransmitAdds DEF TypeOK
<1>2. ASSUME NEW q \in Port, NEW m \in Range(inbox'[q])
      PROVE  FrameOK(q, m)'
  <2>1. CASE m \in Range(inbox[q])
    BY <2>1, FrameStaysOK DEF FramesOK
  <2>2. CASE m \in Range(out[Peer[q]])
    <3>1. Peer[q] \in Port /\ Peer[Peer[q]] = q
      BY PeerOfPeer
    <3>2. FrameOK(Peer[Peer[q]], m)'
      BY <2>2, <3>1
    <3> QED
      BY <3>1, <3>2 DEF FrameOK, LooksDown, Extensions
  <2> QED
    BY <1>1, <1>2, <2>1, <2>2
<1>3. FramesOK'
  BY <1>2 DEF FramesOK
<1> QED
  BY <1>1, <1>3

(* So does a handler that answers with right frames.                       *)
LEMMA AnswerKeepsFrames ==
  ASSUME TypeOK, FramesOK, Grows, NEW p \in Port, NEW type, Arrived(p, type),
         NEW out \in [Port -> Seq(Message)], Answer(p, out),
         \A r \in Port : \A m \in Range(out[r]) : FrameOK(Peer[r], m)'
  PROVE  /\ FramesOK'
         /\ inbox' \in [Port -> Seq(Message)] /\ lost' \in BOOLEAN
         /\ running' = running /\ drops' = drops /\ stops' = stops
<1>1. /\ Consumed(p) \in [Port -> Seq(Message)]
      /\ \A q \in Port : Range(Consumed(p)[q]) \subseteq Range(inbox[q])
  BY ArrivedFrame
<1>2. Transmit(Consumed(p), out)
  BY DEF Answer
<1>3. FramesOK' /\ inbox' \in [Port -> Seq(Message)] /\ lost' \in BOOLEAN
  BY <1>1, <1>2, TransmitKeepsFrames
<1> QED
  BY <1>3 DEF Answer

LEMMA UntouchedTreesApart ==
  ASSUME TreesApart, granted' = granted
  PROVE  TreesApart'
BY DEF TreesApart, GrantedTypeOK, Grafted, UniqueVID, TierIsDepth, Extensions,
       Held, LooksDown

(* An action that leaves the tables alone keeps what is said of them.      *)
LEMMA UntouchedTables ==
  ASSUME IInv, UNCHANGED tables, stops' = stops
  PROVE  /\ Grows
         /\ TreesApart' /\ OfferedIsAccepted' /\ OffersOpen' /\ UpperOpensLast'
<1>1. /\ accepted' = accepted /\ offered' = offered /\ started' = started
      /\ granted' = granted
  BY DEF tables
<1>2. Grows
  BY <1>1 DEF Grows
<1>3. TreesApart'
  BY <1>1, UntouchedTreesApart DEF IInv
<1> QED
  BY <1>1, <1>2, <1>3 DEF IInv, OfferedIsAccepted, OffersOpen, UpperOpensLast,
                          NeverStopped, LooksDown

-----------------------------------------------------------------------------
(* Each action keeps the invariant.                                        *)

LEMMA InitIInv == Init => IInv
<1> SUFFICES ASSUME Init PROVE IInv
  OBVIOUS
<1>1. <<>> \in Seq(Message) /\ Range(<<>>) = {}
  BY EmptySeq DEF Range
<1>2. TypeOK
  <2>1. 0 \in 0 .. MaxDrops /\ 0 \in 0 .. MaxStops
    BY BoundAssumption
  <2>2. inbox \in [Port -> Seq(Message)]
    BY <1>1 DEF Init
  <2> QED
    BY <2>1, <2>2 DEF Init, TypeOK
<1>3. TreesApart
  BY DEF Init, TreesApart, GrantedTypeOK, Grafted, UniqueVID, TierIsDepth
<1>4. FramesOK
  BY <1>1 DEF Init, FramesOK
<1>5. OfferedIsAccepted /\ OffersOpen /\ UpperOpensLast
  BY PeerOfPeer DEF Init, OfferedIsAccepted, OffersOpen, UpperOpensLast
<1> QED
  BY <1>2, <1>3, <1>4, <1>5 DEF IInv

LEMMA BootKeepsIInv ==
  ASSUME IInv, NEW n \in Node, Boot(n)
  PROVE  IInv'
<1> DEFINE hello == HelloNR(<<<<Root[n]>>>>)
           out == IF n \in Leaf THEN OnAllPorts(n, hello) ELSE NoFrames
<1>1. UNCHANGED tables /\ drops' = drops /\ stops' = stops
      /\ running' = running \cup {n} /\ Transmit(inbox, out)
  BY DEF Boot
<1>2. /\ Grows
      /\ TreesApart' /\ OfferedIsAccepted' /\ OffersOpen' /\ UpperOpensLast'
  BY <1>1, UntouchedTables
<1>3. n \in Leaf => /\ hello \in Message
                    /\ hello.type = "HelloNR"
                    /\ Len(hello.vids) = 1
                    /\ VIDsIn(hello) = {<<Root[n]>>}
  <2>1. n \in Leaf => <<<<Root[n]>>>> \in Seq(VID)
                      /\ Range(<<<<Root[n]>>>>) = {<<Root[n]>>}
    BY RootIsVID, RangeOfOne
  <2>2. Len(<<<<Root[n]>>>>) = 1
    OBVIOUS
  <2> QED
    BY <2>1, <2>2, FramesAreMessages DEF HelloNR, VIDsIn
<1>4. out \in [Port -> Seq(Message)]
  BY <1>3, SendingAll, SendingNothing
<1>5. ASSUME NEW r \in Port, NEW m \in Range(out[r])
      PROVE  FrameOK(Peer[r], m)'
  <2>1. n \in Leaf
    BY <1>5, SendingNothing
  <2>2. NodeOf(r) = n /\ m = hello
    <3> HIDE DEF hello
    <3>1. hello \in Message
      BY <1>3, <2>1
    <3>2. \A f \in Range(OnAllPorts(n, hello)[r]) : NodeOf(r) = n /\ f = hello
      BY <3>1, SendingAll
    <3> QED
      BY <1>5, <2>1, <3>2
  <2>3. VIDsIn(m) \subseteq Held(NodeOf(Peer[Peer[r]]))'
    BY <1>3, <2>1, <2>2, PeerOfPeer DEF Held
  <2> QED
    BY <1>3, <2>1, <2>2, <2>3 DEF FrameOK, VIDsIn
<1>6. FramesOK' /\ inbox' \in [Port -> Seq(Message)] /\ lost' \in BOOLEAN
  BY <1>1, <1>2, <1>4, <1>5, TransmitKeepsFrames DEF IInv, TypeOK
<1>7. TypeOK'
  BY <1>1, <1>6 DEF IInv, TypeOK, tables
<1> QED
  BY <1>2, <1>6, <1>7 DEF IInv

(* A handler that touches no table keeps the invariant if its answer is    *)
(* right.                                                                  *)
LEMMA PlainAnswerKeepsIInv ==
  ASSUME IInv, NEW p \in Port, NEW type, Arrived(p, type), UNCHANGED tables,
         NEW out \in [Port -> Seq(Message)], Answer(p, out),
         \A r \in Port : \A m \in Range(out[r]) : FrameOK(Peer[r], m)'
  PROVE  IInv'
<1>1. UNCHANGED <<running, drops, stops>>
  BY DEF Answer
<1>2. /\ Grows
      /\ TreesApart' /\ OfferedIsAccepted' /\ OffersOpen' /\ UpperOpensLast'
  BY <1>1, UntouchedTables
<1>3. FramesOK' /\ inbox' \in [Port -> Seq(Message)] /\ lost' \in BOOLEAN
  BY <1>2, AnswerKeepsFrames DEF IInv
<1>4. TypeOK'
  BY <1>1, <1>3 DEF IInv, TypeOK, tables
<1> QED
  BY <1>2, <1>3, <1>4 DEF IInv

(* A HelloNR is answered only from above: the tier it claims is the        *)
(* sender's, and the two switches are on adjacent tiers.                   *)
LEMMA ReceiveHelloNRKeepsIInv ==
  ASSUME IInv, NEW p \in Port, ReceiveHelloNR(p)
  PROVE  IInv'
<1> DEFINE m == Head(inbox[p])
           out == IF ClaimedTier(m) >= Tier[NodeOf(p)]
                  THEN NoFrames
                  ELSE On(p, JoinReq(m.vids))
<1>1. Arrived(p, "HelloNR") /\ Answer(p, out) /\ UNCHANGED tables
  BY DEF ReceiveHelloNR
<1>2. m \in Message /\ m.type = "HelloNR" /\ FrameOK(p, m)
  BY <1>1, ArrivedFrame DEF IInv
<1>3. JoinReq(m.vids) \in Message
  BY <1>2, FramesAreMessages DEF Message
<1> HIDE DEF m
<1>4. out \in [Port -> Seq(Message)]
  BY <1>3, SendingOne, SendingNothing
<1>5. ASSUME NEW r \in Port, NEW f \in Range(out[r])
      PROVE  FrameOK(Peer[r], f)'
  <2>1. ClaimedTier(m) < Tier[NodeOf(p)]
    <3>1. ~(ClaimedTier(m) >= Tier[NodeOf(p)])
      BY <1>5, SendingNothing
    <3>2. ClaimedTier(m) \in Nat /\ Tier[NodeOf(p)] \in Nat
      <4>1. m.vids[1] \in VID
        BY <1>2, VIDsInAreVIDs DEF FrameOK
      <4> QED
        BY <4>1, LenProperties, PortParts, TierAssumption
           DEF ClaimedTier, TierOf, VID
    <3> QED
      BY <3>1, <3>2
  <2>2. r = p /\ f = JoinReq(m.vids)
    <3>1. \A g \in Range(On(p, JoinReq(m.vids))[r]) :
            r = p /\ g = JoinReq(m.vids)
      BY <1>3, SendingOne
    <3>2. out = On(p, JoinReq(m.vids))
      BY <1>5, SendingNothing
    <3> QED
      BY <1>5, <3>1, <3>2
  <2>3. /\ Peer[p] \in Port /\ Peer[Peer[p]] = p
        /\ NodeOf(p) \in Node /\ NodeOf(Peer[p]) \in Node
    BY PeerOfPeer, PortParts
  <2>4. VIDsIn(m) \subseteq Held(NodeOf(Peer[p])) /\ m.vids[1] \in VIDsIn(m)
        /\ Len(m.vids) = 1
    BY <1>2, VIDsInAreVIDs DEF FrameOK
  <2>5. ClaimedTier(m) = Tier[NodeOf(Peer[p])]
    BY <2>3, <2>4, HeldDepth DEF ClaimedTier, TierOf, IInv, TreesApart
  <2>6. LooksDown(p)
    BY <2>1, <2>3, <2>5, CableAssumption, TierAssumption DEF LooksDown
  <2>7. granted' = granted
    BY <1>1 DEF tables
  <2>8. VIDsIn(f) \subseteq Held(NodeOf(Peer[p]))'
    BY <2>2, <2>4, <2>7, HeldGrows DEF JoinReq, VIDsIn
  <2> QED
    BY <2>2, <2>3, <2>4, <2>6, <2>8 DEF FrameOK, JoinReq, LooksDown, VIDsIn
<1> QED
  BY <1>1, <1>4, <1>5, PlainAnswerKeepsIInv

LEMMA ReceiveJoinReqKeepsIInv ==
  ASSUME IInv, NEW p \in Port, ReceiveJoinReq(p)
  PROVE  IInv'
<1> DEFINE m == Head(inbox[p])
           res == JoinRes(ExtendAll(m.vids, p))
<1>1. Arrived(p, "JoinReq") /\ Answer(p, On(p, res)) /\ UNCHANGED tables
  BY DEF ReceiveJoinReq
<1>2. m \in Message /\ m.type = "JoinReq" /\ FrameOK(p, m)
  BY <1>1, ArrivedFrame DEF IInv
<1> HIDE DEF m
<1>3. /\ m.vids \in Seq(VID) /\ Len(m.vids) = 1
      /\ LooksDown(Peer[p]) /\ Range(m.vids) \subseteq Held(NodeOf(p))
  BY <1>2 DEF FrameOK, Message, VIDsIn
<1>4. /\ res \in Message
      /\ res.type = "JoinRes" /\ Len(res.vids) = 1
      /\ VIDsIn(res) = {Extend(v, p) : v \in Range(m.vids)}
  <2>1. /\ ExtendAll(m.vids, p) \in Seq(VID)
        /\ Len(ExtendAll(m.vids, p)) = 1
        /\ Range(ExtendAll(m.vids, p)) = {Extend(v, p) : v \in Range(m.vids)}
    BY <1>3, ExtendAllProperties
  <2> QED
    BY <2>1, FramesAreMessages DEF JoinRes, VIDsIn
<1> HIDE DEF res
<1>5. On(p, res) \in [Port -> Seq(Message)]
  BY <1>4, SendingOne
<1>6. ASSUME NEW r \in Port, NEW f \in Range(On(p, res)[r])
      PROVE  FrameOK(Peer[r], f)'
  <2>1. r = p /\ f = res
    BY <1>4, <1>6, SendingOne
  <2>2. Peer[p] \in Port /\ Peer[Peer[p]] = p
    BY PeerOfPeer
  <2>3. VIDsIn(res) \subseteq Extensions(Peer[p])'
    <3>1. Held(NodeOf(p)) \subseteq Held(NodeOf(p))'
      BY <1>1, HeldGrows DEF tables
    <3> QED
      BY <1>3, <1>4, <2>2, <3>1 DEF Extensions
  <2> QED
    BY <1>3, <1>4, <2>1, <2>2, <2>3 DEF FrameOK, LooksDown, VIDsIn
<1> QED
  BY <1>1, <1>5, <1>6, PlainAnswerKeepsIInv

(* The accepted VIDs are granted: the step that grows the trees.           *)
LEMMA ReceiveJoinResGrants ==
  ASSUME IInv, NEW p \in Port, ReceiveJoinRes(p)
  PROVE  Grant(p, VIDsIn(Head(inbox[p])))
<1>1. Arrived(p, "JoinRes")
  BY DEF ReceiveJoinRes
<1>2. FrameOK(p, Head(inbox[p])) /\ Head(inbox[p]).type = "JoinRes"
  BY <1>1, ArrivedFrame DEF IInv
<1> QED
  BY <1>2 DEF FrameOK, Grant, ReceiveJoinRes

LEMMA ReceiveJoinResKeepsIInv ==
  ASSUME IInv, NEW p \in Port, ReceiveJoinRes(p)
  PROVE  IInv'
<1> DEFINE m == Head(inbox[p])
           hello == IF NodeOf(p) \in TopSpine
                    THEN NoFrames
                    ELSE OnAllPorts(NodeOf(p), HelloNR(m.vids))
           ack == On(p, JoinAck(m.vids))
<1>1. /\ Arrived(p, "JoinRes") /\ Answer(p, Then(hello, ack))
      /\ accepted' = [accepted EXCEPT ![p] = @ \cup VIDsIn(m)]
      /\ granted' = [granted EXCEPT ![p] = @ \cup VIDsIn(m)]
      /\ UNCHANGED <<offered, started, running, drops, stops>>
  BY DEF ReceiveJoinRes, Answer
<1>2. m \in Message /\ m.type = "JoinRes" /\ FrameOK(p, m)
  BY <1>1, ArrivedFrame DEF IInv
<1>3. Grant(p, VIDsIn(m))
  BY ReceiveJoinResGrants
<1> HIDE DEF m
<1>4. /\ VIDsIn(m) \subseteq VID /\ VIDsIn(m) \in SUBSET Extensions(p)
      /\ Len(m.vids) = 1 /\ LooksDown(p)
      /\ HelloNR(m.vids) \in Message /\ JoinAck(m.vids) \in Message
      /\ NodeOf(p) \in Node
  BY <1>2, VIDsInAreVIDs, FramesAreMessages, PortParts DEF FrameOK, Message
<1>5. TreesApart'
  BY <1>3, <1>4, GrantKeepsTreesApart DEF IInv
<1>6. /\ Grows
      /\ VIDsIn(m) \subseteq accepted'[p] /\ VIDsIn(m) \subseteq granted'[p]
      /\ accepted' \in [Port -> SUBSET VID] /\ granted' \in [Port -> SUBSET VID]
  BY <1>1, <1>4 DEF Grows, IInv, TypeOK
<1>7. /\ hello \in [Port -> Seq(Message)] /\ ack \in [Port -> Seq(Message)]
      /\ Then(hello, ack) \in [Port -> Seq(Message)]
  <2>1. hello \in [Port -> Seq(Message)]
    BY <1>4, SendingAll, SendingNothing
  <2>2. ack \in [Port -> Seq(Message)]
    BY <1>4, SendingOne
  <2> QED
    BY <2>1, <2>2, SendingBoth
<1>8. ASSUME NEW r \in Port, NEW f \in Range(Then(hello, ack)[r])
      PROVE  FrameOK(Peer[r], f)'
  <2>1. f \in Range(hello[r]) \cup Range(ack[r])
    BY <1>7, <1>8, SendingBoth
  <2>2. Peer[r] \in Port /\ Peer[Peer[r]] = r
    BY PeerOfPeer
  <2>3. CASE f \in Range(hello[r])
    <3>1. NodeOf(r) = NodeOf(p) /\ f = HelloNR(m.vids)
      <4>1. \A g \in Range(OnAllPorts(NodeOf(p), HelloNR(m.vids))[r]) :
              NodeOf(r) = NodeOf(p) /\ g = HelloNR(m.vids)
        BY <1>4, SendingAll
      <4> QED
        BY <2>3, <4>1, SendingNothing
    <3>2. granted'[p] \subseteq Held(NodeOf(p))'
      BY DEF Held, PortsOf
    <3> QED
      BY <1>4, <1>6, <2>2, <3>1, <3>2 DEF FrameOK, HelloNR, VIDsIn
  <2>4. CASE f \in Range(ack[r])
    <3>1. r = p /\ f = JoinAck(m.vids)
      BY <1>4, <2>4, SendingOne
    <3> QED
      BY <1>4, <1>6, <2>2, <3>1 DEF FrameOK, JoinAck, VIDsIn, LooksDown
  <2> QED
    BY <2>1, <2>3, <2>4
<1> HIDE DEF hello, ack
<1>9. FramesOK' /\ inbox' \in [Port -> Seq(Message)] /\ lost' \in BOOLEAN
  BY <1>1, <1>6, <1>7, <1>8, AnswerKeepsFrames DEF IInv
<1>10. TypeOK'
  BY <1>1, <1>6, <1>9 DEF IInv, TypeOK
<1>11. OfferedIsAccepted' /\ OffersOpen' /\ UpperOpensLast'
  BY <1>1, <1>6, PeerOfPeer
     DEF IInv, Grows, OfferedIsAccepted, OffersOpen, UpperOpensLast,
         NeverStopped, LooksDown
<1> QED
  BY <1>5, <1>9, <1>10, <1>11 DEF IInv

LEMMA ReceiveJoinAckKeepsIInv ==
  ASSUME IInv, NEW p \in Port, ReceiveJoinAck(p)
  PROVE  IInv'
<1> DEFINE m == Head(inbox[p])
           V == VIDsIn(m)
<1>1. /\ Arrived(p, "JoinAck") /\ Answer(p, On(p, StartHello))
      /\ offered' = [offered EXCEPT ![p] = @ \cup V]
      /\ started' = IF offered[p] = {} THEN started \cup {p} ELSE started
      /\ UNCHANGED <<accepted, granted, running, drops, stops>>
  BY DEF ReceiveJoinAck, Answer
<1>2. m \in Message /\ m.type = "JoinAck" /\ FrameOK(p, m)
  BY <1>1, ArrivedFrame DEF IInv
<1> HIDE DEF m
<1>3. /\ V \subseteq VID /\ V # {} /\ LooksDown(Peer[p])
      /\ V \subseteq granted[Peer[p]]
      /\ stops[NodeOf(Peer[p])] = 0 => V \subseteq accepted[Peer[p]]
  BY <1>2, VIDsInAreVIDs DEF FrameOK
<1> HIDE DEF V
<1>4. /\ Peer[p] \in Port /\ Peer[Peer[p]] = p /\ ~LooksDown(p)
      /\ NodeOf(Peer[p]) \in Node /\ StartHello \in Message
  <2>1. /\ Peer[p] \in Port /\ Peer[Peer[p]] = p
        /\ NodeOf(p) \in Node /\ NodeOf(Peer[p]) \in Node
    BY PeerOfPeer, PortParts
  <2>2. ~LooksDown(p)
    BY <1>3, <2>1, TierAssumption DEF LooksDown
  <2> QED
    BY <2>1, <2>2, FramesAreMessages
<1>5. NeverStopped' = NeverStopped
  BY <1>1 DEF NeverStopped
<1>6. Grows /\ offered' \in [Port -> SUBSET VID] /\ started' \subseteq Port
  BY <1>1, <1>3 DEF Grows, IInv, TypeOK
<1>7. offered'[p] = offered[p] \cup V
      /\ \A r \in Port \ {p} : offered'[r] = offered[r]
  BY <1>1 DEF IInv, TypeOK
<1>8. OffersOpen'
  BY <1>1, <1>3, <1>5, <1>7 DEF IInv, OffersOpen, LooksDown
<1>9. OfferedIsAccepted'
  BY <1>1, <1>3, <1>7 DEF IInv, OfferedIsAccepted
<1>10. UpperOpensLast'
  <2> SUFFICES ASSUME NeverStopped, NEW q \in Port, LooksDown(q), q \in started'
               PROVE  /\ Peer[q] \in started'
                      /\ offered'[Peer[q]] \subseteq accepted'[q]
                      /\ offered'[Peer[q]] # {}
    BY <1>5 DEF UpperOpensLast, LooksDown
  <2>1. q \in started /\ q # p
    BY <1>1, <1>4
  <2>2. /\ Peer[q] \in started /\ Peer[q] \in Port
        /\ offered[Peer[q]] \subseteq accepted[q] /\ offered[Peer[q]] # {}
    BY <2>1, PeerOfPeer DEF IInv, UpperOpensLast
  <2>3. CASE Peer[q] = p
    <3>1. q = Peer[p] /\ stops[NodeOf(q)] = 0
      BY <1>4, <2>3, PeerOfPeer DEF NeverStopped
    <3> QED
      BY <1>1, <1>3, <1>6, <1>7, <2>2, <2>3, <3>1 DEF Grows
  <2>4. CASE Peer[q] # p
    BY <1>1, <1>6, <1>7, <2>2, <2>4 DEF Grows
  <2> QED
    BY <2>3, <2>4
<1>11. ASSUME NEW r \in Port, NEW f \in Range(On(p, StartHello)[r])
       PROVE  FrameOK(Peer[r], f)'
  <2>1. r = p /\ f = StartHello
    BY <1>4, <1>11, SendingOne
  <2>2. NeverStopped' => p \in started' /\ offered'[p] # {}
    BY <1>3, <1>7, <1>8 DEF OffersOpen
  <2> QED
    BY <1>3, <1>4, <2>1, <2>2 DEF FrameOK, StartHello, LooksDown, VIDsIn
<1>12. On(p, StartHello) \in [Port -> Seq(Message)]
  BY <1>4, SendingOne
<1>13. FramesOK' /\ inbox' \in [Port -> Seq(Message)] /\ lost' \in BOOLEAN
  BY <1>1, <1>6, <1>11, <1>12, AnswerKeepsFrames DEF IInv
<1>14. TypeOK' /\ TreesApart'
  BY <1>1, <1>6, <1>13, UntouchedTreesApart DEF IInv, TypeOK
<1> QED
  BY <1>8, <1>9, <1>10, <1>13, <1>14 DEF IInv

LEMMA ReceiveStartHelloKeepsIInv ==
  ASSUME IInv, NEW p \in Port, ReceiveStartHello(p)
  PROVE  IInv'
<1>1. /\ Arrived(p, "StartHello") /\ Answer(p, NoFrames)
      /\ started' = started \cup {p}
      /\ UNCHANGED <<accepted, offered, granted, running, drops, stops>>
  BY DEF ReceiveStartHello, Answer
<1>2. FrameOK(p, Head(inbox[p])) /\ Head(inbox[p]).type = "StartHello"
  BY <1>1, ArrivedFrame DEF IInv
<1>3. NeverStopped => Peer[p] \in started /\ offered[Peer[p]] # {}
  BY <1>2 DEF FrameOK
<1>4. Grows /\ started' \subseteq Port
  BY <1>1 DEF Grows, IInv, TypeOK
<1>5. FramesOK' /\ inbox' \in [Port -> Seq(Message)] /\ lost' \in BOOLEAN
  BY <1>1, <1>4, SendingNothing, AnswerKeepsFrames DEF IInv
<1>6. TypeOK' /\ TreesApart'
  BY <1>1, <1>4, <1>5, UntouchedTreesApart DEF IInv, TypeOK
<1>7. OfferedIsAccepted' /\ OffersOpen'
  BY <1>1 DEF IInv, OfferedIsAccepted, OffersOpen, NeverStopped, LooksDown
<1>8. UpperOpensLast'
  <2>1. ASSUME NeverStopped
        PROVE  offered[Peer[p]] \subseteq accepted[p]
    BY <2>1, PeerOfPeer, PortParts DEF IInv, OfferedIsAccepted, NeverStopped
  <2> QED
    BY <1>1, <1>3, <2>1 DEF IInv, UpperOpensLast, NeverStopped, LooksDown
<1> QED
  BY <1>5, <1>6, <1>7, <1>8 DEF IInv

LEMMA DropKeepsIInv ==
  ASSUME IInv, NEW p \in Port, Drop(p)
  PROVE  IInv'
<1>1. /\ inbox' = Consumed(p) /\ UNCHANGED <<running, tables, stops>>
      /\ drops' = drops + 1 /\ drops < MaxDrops /\ lost' = TRUE
      /\ inbox[p] # <<>>
  BY DEF Drop
<1>2. /\ Tail(inbox[p]) \in Seq(Message)
      /\ Range(Tail(inbox[p])) \subseteq Range(inbox[p])
  BY <1>1, RangeOfTail DEF IInv, TypeOK
<1>3. /\ inbox' \in [Port -> Seq(Message)]
      /\ \A q \in Port : Range(inbox'[q]) \subseteq Range(inbox[q])
  BY <1>1, <1>2 DEF Consumed, IInv, TypeOK
<1>4. /\ Grows
      /\ TreesApart' /\ OfferedIsAccepted' /\ OffersOpen' /\ UpperOpensLast'
  BY <1>1, UntouchedTables
<1>5. FramesOK'
  BY <1>3, <1>4, FrameStaysOK DEF FramesOK, IInv
<1>6. drops' \in 0 .. MaxDrops
  BY <1>1, BoundAssumption DEF IInv, TypeOK
<1>7. TypeOK'
  BY <1>1, <1>3, <1>6 DEF IInv, TypeOK, tables
<1> QED
  BY <1>4, <1>5, <1>7 DEF IInv

(* A stopped switch forgets; what its neighbours remember of it is then    *)
(* only promised to have been granted once.                                *)
LEMMA StopKeepsIInv ==
  ASSUME IInv, NEW n \in Node, Stop(n)
  PROVE  IInv'
<1>1. /\ running' = running \ {n} /\ started' = started \ PortsOf(n)
      /\ accepted' = [p \in Port |-> IF p \in PortsOf(n) THEN {} ELSE accepted[p]]
      /\ offered' = [p \in Port |-> IF p \in PortsOf(n) THEN {} ELSE offered[p]]
      /\ inbox' = [p \in Port |-> IF p \in PortsOf(n) THEN <<>> ELSE inbox[p]]
      /\ stops' = [stops EXCEPT ![n] = @ + 1]
      /\ stops[n] < MaxStops
      /\ granted' = granted /\ drops' = drops /\ lost' \in BOOLEAN
  BY DEF Stop, IInv, TypeOK
<1>2. <<>> \in Seq(Message) /\ Range(<<>>) = {}
  BY EmptySeq DEF Range
<1>3. /\ stops' \in [Node -> 0 .. MaxStops]
      /\ stops'[n] # 0
      /\ \A k \in Node \ {n} : stops'[k] = stops[k]
  <2>1. stops[n] \in 0 .. MaxStops
    BY DEF IInv, TypeOK
  <2>2. stops[n] + 1 \in 0 .. MaxStops /\ stops[n] + 1 # 0
    BY <1>1, <2>1, BoundAssumption
  <2> QED
    BY <1>1, <2>2 DEF IInv, TypeOK
<1>4. ~NeverStopped'
  BY <1>3 DEF NeverStopped
<1>5. TypeOK'
  BY <1>1, <1>2, <1>3 DEF IInv, TypeOK
<1>6. TreesApart'
  BY <1>1, UntouchedTreesApart DEF IInv
<1>7. ASSUME NEW p \in Port, stops'[NodeOf(p)] = 0
      PROVE  accepted'[p] = accepted[p] /\ stops[NodeOf(p)] = 0
  BY <1>1, <1>3, <1>7, PortParts DEF PortsOf
<1>8. ASSUME NEW q \in Port, NEW m \in Range(inbox'[q])
      PROVE  FrameOK(q, m)'
  <2>1. m \in Range(inbox[q])
    BY <1>1, <1>2, <1>8
  <2>2. FrameOK(q, m) /\ Peer[q] \in Port
    BY <2>1, PeerOfPeer DEF IInv, FramesOK
  <2>3. Extensions(q)' = Extensions(q) /\ \A k : Held(k)' = Held(k)
    BY <1>1 DEF Extensions, Held
  <2>4. m.type = "JoinAck" /\ stops'[NodeOf(Peer[q])] = 0 =>
          VIDsIn(m) \subseteq accepted'[Peer[q]]
    BY <1>7, <2>2 DEF FrameOK
  <2> QED
    BY <1>1, <1>4, <2>2, <2>3, <2>4 DEF FrameOK, LooksDown, VIDsIn
<1>9. FramesOK'
  BY <1>8 DEF FramesOK
<1>10. OfferedIsAccepted'
  <2> SUFFICES ASSUME NEW p \in Port
               PROVE  /\ offered'[p] \subseteq granted'[Peer[p]]
                      /\ stops'[NodeOf(Peer[p])] = 0 =>
                           offered'[p] \subseteq accepted'[Peer[p]]
    BY DEF OfferedIsAccepted
  <2>1. Peer[p] \in Port /\ offered'[p] \subseteq offered[p]
    BY <1>1, PeerOfPeer
  <2> QED
    BY <1>1, <1>7, <2>1 DEF IInv, OfferedIsAccepted
<1>11. OffersOpen' /\ UpperOpensLast'
  BY <1>1, <1>4 DEF IInv, OffersOpen, UpperOpensLast, LooksDown
<1> QED
  BY <1>5, <1>6, <1>9, <1>10, <1>11 DEF IInv

LEMMA ReceiveKeepsIInv ==
  ASSUME IInv, NEW p \in Port, Receive(p)
  PROVE  IInv'
BY ReceiveHelloNRKeepsIInv, ReceiveJoinReqKeepsIInv, ReceiveJoinResKeepsIInv,
   ReceiveJoinAckKeepsIInv, ReceiveStartHelloKeepsIInv DEF Receive

-----------------------------------------------------------------------------

(* The inductive invariant: every frame in flight tells the truth about    *)
(* the tables of the two ends of its cable.                                *)
THEOREM Invariance == Spec => []IInv
<1>1. IInv /\ [Next]_vars => IInv'
  <2> SUFFICES ASSUME IInv, [Next]_vars PROVE IInv'
    OBVIOUS
  <2>1. CASE Next
    BY <2>1, BootKeepsIInv, StopKeepsIInv, ReceiveKeepsIInv, DropKeepsIInv
       DEF Next
  <2>2. CASE UNCHANGED vars
    <3>1. UNCHANGED tables /\ stops' = stops /\ inbox' = inbox
          /\ running' = running /\ drops' = drops /\ lost' = lost
      BY <2>2 DEF vars
    <3>2. /\ Grows
          /\ TreesApart' /\ OfferedIsAccepted' /\ OffersOpen' /\ UpperOpensLast'
      BY <3>1, UntouchedTables
    <3>3. FramesOK'
      BY <3>1, <3>2, FrameStaysOK DEF FramesOK, IInv
    <3>4. TypeOK'
      BY <3>1 DEF IInv, TypeOK, tables
    <3> QED
      BY <3>2, <3>3, <3>4 DEF IInv
  <2> QED
    BY <2>1, <2>2
<1> QED
  BY <1>1, InitIInv, PTL DEF Spec

(* Every variable keeps its type.                                          *)
THEOREM TypeCorrect == Spec => []TypeOK
<1>1. IInv => TypeOK
  BY DEF IInv
<1> QED
  BY <1>1, Invariance, PTL

(* No VID is ever accepted on two ports, whatever is lost and whoever       *)
(* restarts.                                                               *)
THEOREM VIDsName == Spec => []UniqueVID
<1>1. IInv => UniqueVID
  BY DEF IInv, TreesApart
<1> QED
  BY <1>1, Invariance, PTL

(* Every VID is as long as its switch's tier, which the program reads off  *)
(* the length.                                                             *)
THEOREM TierShown == Spec => []TierIsDepth
<1>1. IInv => TierIsDepth
  BY DEF IInv, TreesApart
<1> QED
  BY <1>1, Invariance, PTL

(* What a switch records as offered, the other end has accepted.           *)
THEOREM EndsAgree == Spec => []OfferedIsAccepted
<1>1. IInv => OfferedIsAccepted
  BY DEF IInv
<1> QED
  BY <1>1, Invariance, PTL

(* While no switch was stopped, the upper end of a cable opens last.       *)
THEOREM UpperLast == Spec => []UpperOpensLast
<1>1. IInv => UpperOpensLast
  BY DEF IInv
<1> QED
  BY <1>1, Invariance, PTL

(* Each frame of the handshake carries one VID.                            *)
THEOREM OneVID == Spec => []OneVIDPerFrame
<1>1. IInv => OneVIDPerFrame
  BY DEF IInv, FramesOK, FrameOK, OneVIDPerFrame, Range
<1> QED
  BY <1>1, Invariance, PTL

(* The handshake implements MeshedTree: every step grants a port some      *)
(* extensions of the VIDs behind it, or changes no tree at all.            *)
THEOREM Refinement == Spec => ImplementsMeshedTree
<1>1. Init => Tree!Init
  BY DEF Init, Tree!Init
<1>2. ASSUME IInv, [Next]_vars
      PROVE  [Tree!Next]_granted
  <2>1. ASSUME NEW p \in Port, ReceiveJoinRes(p)
        PROVE  Tree!Next
    <3>1. Grant(p, VIDsIn(Head(inbox[p])))
      BY <2>1, <1>2, ReceiveJoinResGrants
    <3>2. Tree!Extensions(p) = Extensions(p)
      BY DEF Tree!Extensions, Extensions, Tree!Held, Held, Tree!PortsOf, PortsOf,
             Tree!Leaf, Leaf, Tree!NodeOf, NodeOf, Tree!Extend, Extend,
             Tree!Num, Num
    <3> QED
      BY <3>1, <3>2 DEF Tree!Next, Tree!Grant, Grant, Tree!LooksDown, LooksDown,
                        Tree!NodeOf, NodeOf
  <2>2. CASE Next
    BY <2>1, <2>2 DEF Next, Receive, ReceiveHelloNR, ReceiveJoinReq,
                      ReceiveJoinAck, ReceiveStartHello, Boot, Stop, Drop, tables
  <2>3. CASE UNCHANGED vars
    BY <2>3 DEF vars, tables
  <2> QED
    BY <1>2, <2>2, <2>3
<1> QED
  BY <1>1, <1>2, Invariance, PTL DEF Spec, ImplementsMeshedTree, Tree!Spec
=============================================================================
