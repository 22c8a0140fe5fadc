-------------------------- MODULE ForwardingProofs --------------------------
(***************************************************************************)
(* Proofs about Forwarding, for every fabric and whatever breaks: data     *)
(* reach the right leaf or none, never go round, and the fabric keeps the  *)
(* promise of DataService.  They rest on the course of each frame and not  *)
(* on what the tables say, which change under way.                         *)
(***************************************************************************)
EXTENDS Forwarding, OneFaultProofs

(* A frame that has come from below has done nothing but climb.            *)
Climbing(f) ==
  LooksDown(f.port) /\ f.hops = Tier[NodeOf(f.port)] - 1

(* A frame that has come from above climbed to some switch, and is on its  *)
(* way down to a switch that has the root of the destination, not 0.       *)
Descending(f) ==
  /\ ~LooksDown(f.port)
  /\ Listed(Dest[f.id], RootsOf[NodeOf(f.port)])
  /\ \E t \in Node : f.hops = 2 * Tier[t] - 1 - Tier[NodeOf(f.port)]

OnCourse(f) == Climbing(f) \/ Descending(f)

(* A packet is in one place: on its way, delivered or lost.                *)
OnePlace ==
  /\ \A f, g \in flight : f.id = g.id => f = g
  /\ \A f \in flight : f.id \in sent /\ f.id \notin dropped
  /\ \A d \in delivered : d[1] \in sent \ (dropped \cup Ids(flight))
  /\ dropped \subseteq sent

DataInv ==
  /\ DataTypeOK
  /\ OnePlace
  /\ \A f \in flight : OnCourse(f)
  /\ RightLeaf

-----------------------------------------------------------------------------

LEMMA CableTiers ==
  ASSUME NEW p \in Port
  PROVE  /\ Tier[NodeOf(p)] \in Nat \ {0}
         /\ Tier[NodeOf(Peer[p])] \in Nat \ {0}
         /\ LooksDown(p) => Tier[NodeOf(Peer[p])] = Tier[NodeOf(p)] - 1
         /\ ~LooksDown(p) => Tier[NodeOf(Peer[p])] = Tier[NodeOf(p)] + 1
         /\ LooksDown(Peer[p]) <=> ~LooksDown(p)
<1>1. /\ NodeOf(p) \in Node /\ Peer[p] \in Port /\ Peer[Peer[p]] = p
      /\ NodeOf(Peer[p]) \in Node
  BY PortParts
<1>2. \/ Tier[NodeOf(p)] = Tier[NodeOf(Peer[p])] + 1
      \/ Tier[NodeOf(Peer[p])] = Tier[NodeOf(p)] + 1
  BY CableAssumption
<1>3. Tier[NodeOf(p)] \in Nat \ {0} /\ Tier[NodeOf(Peer[p])] \in Nat \ {0}
  BY <1>1, TierAssumption
<1> QED
  BY <1>1, <1>2, <1>3 DEF LooksDown

(* Only what is below hands up roots.                                      *)
LEMMA RootsLookDown ==
  ASSUME NEW p \in Port, Roots(p) # {}
  PROVE  LooksDown(p) /\ Roots(p) = RootsOf[NodeOf(Peer[p])]
BY DEF Roots

LEMMA OfferedLookUp ==
  ASSUME NEW n \in Node, NEW p \in OfferedPorts(n)
  PROVE  p \in Port /\ NodeOf(p) = n /\ LooksDown(Peer[p]) /\ ~LooksDown(p)
<1>1. p \in Port /\ NodeOf(p) = n /\ Roots(Peer[p]) # {}
  BY DEF OfferedPorts, Uplinks, PortsOf
<1>2. Peer[p] \in Port
  BY <1>1, PortParts
<1> QED
  BY <1>1, <1>2, RootsLookDown, CableTiers

LEMMA AvailableIsOffered ==
  ASSUME NEW n, NEW r
  PROVE  Available(n, r) \subseteq OfferedPorts(n)
BY DEF Available, Up

(* A frame that a leaf sends up is on course.                              *)
LEMMA SentOnCourse ==
  ASSUME NEW k \in Packet, NEW p \in Available(Src[k], Dest[k])
  PROVE  /\ [id |-> k, port |-> Peer[p], hops |-> 1] \in Frame
         /\ OnCourse([id |-> k, port |-> Peer[p], hops |-> 1])
<1>1. Src[k] \in Leaf /\ Src[k] \in Node /\ Tier[Src[k]] = 1
  BY PacketAssumption DEF Leaf
<1>2. p \in Port /\ NodeOf(p) = Src[k] /\ LooksDown(Peer[p]) /\ ~LooksDown(p)
  BY <1>1, AvailableIsOffered, OfferedLookUp
<1>3. Peer[p] \in Port /\ Tier[NodeOf(Peer[p])] = 2
  BY <1>1, <1>2, PortParts, CableTiers
<1> QED
  BY <1>2, <1>3 DEF OnCourse, Climbing, Frame

(* A frame that a spine forwards stays on course: for a root that is below *)
(* it turns down or goes on descending, and only a frame that has come     *)
(* from below goes up.                                                     *)
LEMMA ForwardedOnCourse ==
  ASSUME NEW f \in Frame, OnCourse(f),
         NEW p \in NextHops(NodeOf(f.port), Dest[f.id])
  PROVE  /\ [id |-> f.id, port |-> Peer[p], hops |-> f.hops + 1] \in Frame
         /\ OnCourse([id |-> f.id, port |-> Peer[p], hops |-> f.hops + 1])
<1> DEFINE n == NodeOf(f.port)
           k == f.id
           r == Dest[f.id]
           g == [id |-> f.id, port |-> Peer[p], hops |-> f.hops + 1]
<1>1. f.port \in Port /\ f.hops \in Nat /\ k \in Packet /\ n \in Node
  BY PortParts DEF Frame
<1>2. Tier[n] \in Nat \ {0}
  BY <1>1, CableTiers
<1>3. CASE Listed(r, RootsOf[n])
  <2>1. p \in Port /\ NodeOf(p) = n /\ r \in Roots(p)
    BY <1>1, <1>3 DEF NextHops, AcceptedPorts, Downlinks, PortsOf
  <2>2. LooksDown(p) /\ Listed(r, RootsOf[NodeOf(Peer[p])])
    BY <1>3, <2>1, RootsLookDown DEF Listed
  <2>3. /\ Peer[p] \in Port /\ ~LooksDown(Peer[p])
        /\ Tier[NodeOf(Peer[p])] = Tier[n] - 1
    BY <2>1, <2>2, PortParts, CableTiers
  <2>4. \E t \in Node : f.hops + 1 = 2 * Tier[t] - 1 - Tier[NodeOf(Peer[p])]
    <3>1. CASE Climbing(f)
      <4>1. f.hops + 1 = 2 * Tier[n] - 1 - Tier[NodeOf(Peer[p])]
        BY <1>1, <1>2, <2>3, <3>1 DEF Climbing
      <4> QED
        BY <1>1, <4>1
    <3>2. CASE Descending(f)
      <4>1. PICK t \in Node : f.hops = 2 * Tier[t] - 1 - Tier[n]
        BY <3>2 DEF Descending
      <4>2. Tier[t] \in Nat
        BY TierAssumption
      <4>3. f.hops + 1 = 2 * Tier[t] - 1 - Tier[NodeOf(Peer[p])]
        BY <1>1, <1>2, <2>3, <4>1, <4>2
      <4> QED
        BY <4>3
    <3> QED
      BY <3>1, <3>2 DEF OnCourse
  <2> QED
    BY <1>1, <2>2, <2>3, <2>4 DEF OnCourse, Descending, Frame
<1>4. CASE ~Listed(r, RootsOf[n])
  <2>1. Climbing(f)
    BY <1>4 DEF OnCourse, Descending
  <2>2. p \in OfferedPorts(n)
    BY <1>4, AvailableIsOffered DEF NextHops
  <2>3. p \in Port /\ NodeOf(p) = n /\ LooksDown(Peer[p]) /\ ~LooksDown(p)
    BY <1>1, <2>2, OfferedLookUp
  <2>4. Peer[p] \in Port /\ Tier[NodeOf(Peer[p])] = Tier[n] + 1
    BY <2>3, PortParts, CableTiers
  <2>5. f.hops + 1 = Tier[NodeOf(Peer[p])] - 1
    BY <1>1, <1>2, <2>1, <2>4 DEF Climbing
  <2> QED
    BY <1>1, <2>3, <2>4, <2>5 DEF OnCourse, Climbing, Frame
<1> QED
  BY <1>3, <1>4

-----------------------------------------------------------------------------
(* Each action keeps the invariant, and is a step of the service.          *)

LEMMA InitService == DataInit => DataInv /\ Service!Init
<1> SUFFICES ASSUME DataInit PROVE DataInv /\ Service!Init
  OBVIOUS
<1>1. sent = {} /\ flight = {} /\ delivered = {} /\ dropped = {} /\ calm = {}
  BY DEF DataInit
<1>2. DataInv
  BY <1>1 DEF DataInv, DataTypeOK, OnePlace, RightLeaf
<1>3. Service!Init
  BY <1>1 DEF Service!Init, Ids
<1> QED
  BY <1>2, <1>3

(* A packet whose frame is taken away is on no other.                      *)
LEMMA TakenAway ==
  ASSUME DataInv, NEW f \in flight
  PROVE  /\ f \in Frame /\ f.id \in Packet /\ f.port \in Port
         /\ Ids(flight \ {f}) = Ids(flight) \ {f.id}
         /\ f.id \in Ids(flight)
BY DEF DataInv, DataTypeOK, OnePlace, Ids, Frame

LEMMA FromServerKeeps ==
  ASSUME DataInv, NEW k \in Packet, FromServer(k)
  PROVE  DataInv' /\ Service!Accept(k)
<1> DEFINE ports == Available(Src[k], Dest[k])
           g(p) == [id |-> k, port |-> Peer[p], hops |-> 1]
<1>1. /\ k \notin sent /\ sent' = sent \cup {k} /\ delivered' = delivered
      /\ calm' \subseteq Packet
  BY DEF FromServer, DataInv, DataTypeOK
<1>2. k \notin Ids(flight) \cup {d[1] : d \in delivered} \cup dropped
  BY <1>1 DEF DataInv, OnePlace, Ids
<1>3. \/ flight' = flight /\ dropped' = dropped \cup {k}
      \/ \E p \in ports : flight' = flight \cup {g(p)} /\ dropped' = dropped
  BY DEF FromServer, Transmit, Drop
<1>4. RightLeaf'
  BY <1>1 DEF DataInv, RightLeaf
<1>5. CASE flight' = flight /\ dropped' = dropped \cup {k}
  <2>1. DataInv'
    BY <1>1, <1>2, <1>4, <1>5
    DEF DataInv, DataTypeOK, OnePlace, Ids, OnCourse, Climbing, Descending
  <2>2. Service!Accept(k)
    BY <1>1, <1>2, <1>5 DEF Service!Accept
  <2> QED
    BY <2>1, <2>2
<1>6. ASSUME NEW p \in ports, flight' = flight \cup {g(p)}, dropped' = dropped
      PROVE  DataInv' /\ Service!Accept(k)
  <2>1. g(p) \in Frame /\ OnCourse(g(p)) /\ g(p).id = k
    BY SentOnCourse
  <2> HIDE DEF g
  <2>2. Ids(flight') = Ids(flight) \cup {k}
    BY <1>6, <2>1 DEF Ids
  <2>3. DataTypeOK'
    BY <1>1, <1>6, <2>1 DEF DataInv, DataTypeOK
  <2>4. OnePlace'
    BY <1>1, <1>2, <1>6, <2>1, <2>2 DEF DataInv, OnePlace, Ids
  <2>5. \A f \in flight' : OnCourse(f)
    BY <1>6, <2>1 DEF DataInv
  <2>6. Service!Accept(k)
    BY <1>1, <1>2, <1>6, <2>2 DEF Service!Accept
  <2> QED
    BY <1>4, <2>3, <2>4, <2>5, <2>6 DEF DataInv, OnCourse, Climbing, Descending
<1> QED
  BY <1>3, <1>5, <1>6

(* What reaches a leaf has the leaf's own root for its destination.        *)
LEMMA ToServerKeeps ==
  ASSUME DataInv, NEW f \in flight, ToServer(f)
  PROVE  DataInv' /\ Service!Deliver(f.id)
<1> DEFINE n == NodeOf(f.port)
<1>1. /\ n \in Leaf /\ delivered' = delivered \cup {<<f.id, n>>}
      /\ flight' = flight \ {f}
      /\ UNCHANGED <<sent, dropped, calm>>
  BY DEF ToServer
<1>2. /\ f \in Frame /\ f.id \in Packet /\ f.port \in Port
      /\ Ids(flight') = Ids(flight) \ {f.id} /\ f.id \in Ids(flight)
  BY <1>1, TakenAway
<1>3. n \in Node /\ Tier[n] = 1
  BY <1>1 DEF Leaf
<1>4. Dest[f.id] = Root[n] /\ Dest[f.id] \in RootVID \ {0}
  <2>1. ~LooksDown(f.port)
    BY <1>2, <1>3, CableTiers
  <2>2. Dest[f.id] # 0 /\ Dest[f.id] \in RootsOf[n]
    BY <2>1 DEF DataInv, OnCourse, Climbing, Descending, Listed
  <2>3. RootsOf[n] = {Root[n]}
    BY <1>1, <1>3, RootsAssumption
  <2> QED
    BY <1>1, <2>2, <2>3 DEF RootVID
<1>5. RightLeaf'
  BY <1>1, <1>4 DEF DataInv, RightLeaf
<1>6. DataTypeOK'
  BY <1>1, <1>2 DEF DataInv, DataTypeOK
<1>7. OnePlace'
  BY <1>1, <1>2 DEF DataInv, OnePlace, Ids
<1>8. \A h \in flight' : OnCourse(h)
  BY <1>1 DEF DataInv
<1>9. {d[1] : d \in delivered'} = {d[1] : d \in delivered} \cup {f.id}
  <2>1. <<f.id, n>>[1] = f.id
    OBVIOUS
  <2> HIDE DEF n
  <2> QED
    BY <1>1, <2>1
<1>10. Service!Deliver(f.id)
  BY <1>1, <1>2, <1>4, <1>9 DEF Service!Deliver
<1> QED
  BY <1>5, <1>6, <1>7, <1>8, <1>10 DEF DataInv, OnCourse, Climbing, Descending

(* A packet that is dropped leaves the fabric, one that is forwarded stays *)
(* where the service has it.                                               *)
LEMMA ForwardKeeps ==
  ASSUME DataInv, NEW f \in flight, Forward(f)
  PROVE  /\ DataInv'
         /\ Service!Lose({f.id}) \/ UNCHANGED Service!service
<1> DEFINE k == f.id
           ports == NextHops(NodeOf(f.port), Dest[f.id])
           g(p) == [id |-> f.id, port |-> Peer[p], hops |-> f.hops + 1]
<1>1. UNCHANGED <<sent, delivered, calm>>
  BY DEF Forward
<1>2. /\ f \in Frame /\ f.id \in Packet /\ f.port \in Port /\ OnCourse(f)
      /\ Ids(flight \ {f}) = Ids(flight) \ {k} /\ k \in Ids(flight)
  BY TakenAway DEF DataInv
<1>3. \/ flight' = flight \ {f} /\ dropped' = dropped \cup {k}
      \/ \E p \in ports : flight' = (flight \ {f}) \cup {g(p)} /\ dropped' = dropped
  BY DEF Forward, Transmit, Drop
<1>4. RightLeaf'
  BY <1>1 DEF DataInv, RightLeaf
<1>5. CASE flight' = flight \ {f} /\ dropped' = dropped \cup {k}
  <2>1. DataTypeOK'
    BY <1>1, <1>2, <1>5 DEF DataInv, DataTypeOK
  <2>2. OnePlace'
    BY <1>1, <1>2, <1>5 DEF DataInv, OnePlace, Ids
  <2>3. \A h \in flight' : OnCourse(h)
    BY <1>5 DEF DataInv
  <2>4. Service!Lose({k})
    BY <1>1, <1>2, <1>5 DEF Service!Lose
  <2> QED
    BY <1>4, <2>1, <2>2, <2>3, <2>4 DEF DataInv, OnCourse, Climbing, Descending
<1>6. ASSUME NEW p \in ports, flight' = (flight \ {f}) \cup {g(p)}, dropped' = dropped
      PROVE  DataInv' /\ UNCHANGED Service!service
  <2>1. g(p) \in Frame /\ OnCourse(g(p)) /\ g(p).id = k
    BY <1>2, ForwardedOnCourse
  <2> HIDE DEF g
  <2>2. Ids(flight') = Ids(flight)
    BY <1>2, <1>6, <2>1 DEF Ids
  <2>3. DataTypeOK'
    BY <1>1, <1>6, <2>1 DEF DataInv, DataTypeOK
  <2>4. OnePlace'
    BY <1>1, <1>2, <1>6, <2>1, <2>2 DEF DataInv, OnePlace, Ids
  <2>5. \A h \in flight' : OnCourse(h)
    BY <1>6, <2>1 DEF DataInv
  <2>6. UNCHANGED Service!service
    BY <1>1, <1>6, <2>2 DEF Service!service
  <2> QED
    BY <1>4, <2>3, <2>4, <2>5, <2>6 DEF DataInv, OnCourse, Climbing, Descending
<1> QED
  BY <1>3, <1>5, <1>6

(* A leaf that restarts loses a set of packets, a cable that is cut none.  *)
LEMMA DisturbKeeps ==
  ASSUME DataInv, Disturb
  PROVE  /\ DataInv'
         /\ \/ \E K \in SUBSET Ids(flight) : Service!Lose(K)
            \/ UNCHANGED Service!service
<1>1. /\ UNCHANGED <<sent, delivered>> /\ calm' \subseteq Packet
      /\ flight' \subseteq flight
      /\ dropped' = dropped \cup Ids(flight \ flight')
  <2>1. UNCHANGED <<sent, delivered>> /\ calm' = calm \ Ids(flight)
    BY DEF Disturb
  <2>2. CASE UNCHANGED <<flight, dropped>>
    BY <2>1, <2>2 DEF DataInv, DataTypeOK, Ids
  <2>3. CASE \E n \in Leaf : /\ flight' = {f \in flight : NodeOf(f.port) # n}
                             /\ dropped' = dropped \cup Ids(flight \ flight')
    BY <2>1, <2>3 DEF DataInv, DataTypeOK
  <2> QED
    BY <2>2, <2>3 DEF Disturb
<1> DEFINE K == Ids(flight \ flight')
<1>2. K \subseteq Ids(flight) /\ K \subseteq Packet /\ Ids(flight') = Ids(flight) \ K
  BY <1>1 DEF DataInv, DataTypeOK, OnePlace, Ids, Frame
<1>3. DataTypeOK' /\ RightLeaf'
  BY <1>1, <1>2 DEF DataInv, DataTypeOK, RightLeaf
<1>4. OnePlace'
  <2>1. \A f \in flight' : f.id \notin dropped'
    BY <1>1, <1>2 DEF DataInv, OnePlace, Ids
  <2>2. \A d \in delivered' : d[1] \in sent' \ (dropped' \cup Ids(flight'))
    BY <1>1, <1>2 DEF DataInv, OnePlace
  <2>3. dropped' \subseteq sent'
    BY <1>1, <1>2 DEF DataInv, OnePlace, Ids
  <2> QED
    BY <1>1, <2>1, <2>2, <2>3 DEF DataInv, OnePlace
<1>5. \A f \in flight' : OnCourse(f)
  BY <1>1 DEF DataInv
<1>6. Service!Lose(K)
  BY <1>1, <1>2 DEF Service!Lose
<1>7. DataInv'
  BY <1>3, <1>4, <1>5 DEF DataInv, OnCourse, Climbing, Descending
<1>8. \E L \in SUBSET Ids(flight) : Service!Lose(L)
  <2> HIDE DEF K
  <2> QED
    BY <1>2, <1>6 DEF Service!Lose
<1> QED
  BY <1>7, <1>8

LEMMA StepKeeps ==
  ASSUME DataInv, [DataNext]_allVars
  PROVE  DataInv' /\ [Service!Next]_(Service!service)
<1>1. CASE UNCHANGED data
  <2>1. DataInv'
    BY <1>1 DEF data, DataInv, DataTypeOK, OnePlace, RightLeaf, Ids, OnCourse,
                Climbing, Descending
  <2>2. UNCHANGED Service!service
    BY <1>1 DEF data, Service!service, Ids
  <2> QED
    BY <2>1, <2>2
<1>2. CASE Disturb
  BY <1>2, DisturbKeeps DEF Service!Next
<1>3. ASSUME NEW k \in Packet, FromServer(k)
      PROVE  DataInv' /\ Service!Next
  BY <1>3, FromServerKeeps DEF Service!Next
<1>4. ASSUME NEW f \in flight, ToServer(f)
      PROVE  DataInv' /\ Service!Next
  <2>1. f.id \in Packet
    BY TakenAway
  <2> QED
    BY <1>4, <2>1, ToServerKeeps DEF Service!Next
<1>5. ASSUME NEW f \in flight, Forward(f)
      PROVE  DataInv' /\ [Service!Next]_(Service!service)
  <2>1. {f.id} \in SUBSET Ids(flight)
    BY TakenAway
  <2> QED
    BY <1>5, <2>1, ForwardKeeps DEF Service!Next
<1> QED
  BY <1>1, <1>2, <1>3, <1>4, <1>5 DEF DataNext, Handle, allVars

-----------------------------------------------------------------------------

(* The inductive invariant: each packet is in one place, and each frame on *)
(* its course, up and then down.                                           *)
THEOREM DataInvariance == DataSpec => []DataInv
<1>1. DataInit => DataInv
  BY InitService
<1>2. DataInv /\ [DataNext]_allVars => DataInv'
  BY StepKeeps
<1> QED
  BY <1>1, <1>2, PTL DEF DataSpec

(* In every fabric data are delivered by the leaf of their destination or  *)
(* by none, whatever the tables said while they were on their way.         *)
THEOREM DataReachTheirLeaf == DataSpec => []RightLeaf
<1>1. DataInv => RightLeaf
  BY DEF DataInv
<1> QED
  BY <1>1, DataInvariance, PTL

(* In every fabric data cross no more cables than lead up to some switch   *)
(* and down again.                                                         *)
THEOREM DataNeverLoop == DataSpec => []NoLoop
<1>1. DataInv => NoLoop
  <2> SUFFICES ASSUME DataInv, NEW f \in flight
               PROVE  \E t \in Node : f.hops <= 2 * (Tier[t] - 1)
    BY DEF NoLoop
  <2>1. f.port \in Port /\ f.hops \in Nat /\ NodeOf(f.port) \in Node /\ OnCourse(f)
    BY PortParts DEF DataInv, DataTypeOK, Frame
  <2>2. Tier[NodeOf(f.port)] \in Nat \ {0}
    BY <2>1, TierAssumption
  <2>3. CASE Climbing(f)
    <3>1. f.hops <= 2 * (Tier[NodeOf(f.port)] - 1)
      BY <2>1, <2>2, <2>3 DEF Climbing
    <3> QED
      BY <2>1, <3>1
  <2>4. CASE Descending(f)
    <3>1. PICK t \in Node : f.hops = 2 * Tier[t] - 1 - Tier[NodeOf(f.port)]
      BY <2>4 DEF Descending
    <3>2. Tier[t] \in Nat
      BY TierAssumption
    <3>3. f.hops <= 2 * (Tier[t] - 1)
      BY <2>1, <2>2, <3>1, <3>2
    <3> QED
      BY <3>3
  <2> QED
    BY <2>1, <2>3, <2>4 DEF OnCourse
<1> QED
  BY <1>1, DataInvariance, PTL

(* The fabric implements the service: in every fabric, whatever breaks and *)
(* whenever, a packet is delivered at most once and where it belongs, or   *)
(* lost, and never both.                                                   *)
THEOREM DataRefinement == DataSpec => ImplementsDataService
<1>1. DataInit => Service!Init
  BY InitService
<1>2. DataInv /\ [DataNext]_allVars => [Service!Next]_(Service!service)
  BY StepKeeps
<1> QED
  BY <1>1, <1>2, DataInvariance, PTL DEF DataSpec, ImplementsDataService, Service!Spec

-----------------------------------------------------------------------------
(* Data that are let in while all is quiet.                                *)

(* Data change nothing for Updates: what holds of it holds here.           *)
THEOREM DataLeaveTheTablesAlone == DataSpec => Spec
<1>1. [DataNext]_allVars => [Next]_vars
  <2> SUFFICES ASSUME [DataNext]_allVars PROVE [Next]_vars
    OBVIOUS
  <2>1. CASE \E n \in Node : Loop(n)
    BY <2>1 DEF Next
  <2>2. CASE Disturb
    BY <2>2 DEF Disturb, Next
  <2>3. CASE \E k \in Packet : FromServer(k)
    BY <2>3 DEF FromServer
  <2>4. CASE Handle
    BY <2>4 DEF Handle, ToServer, Forward
  <2>5. CASE UNCHANGED allVars
    BY <2>5 DEF allVars
  <2> QED
    BY <2>1, <2>2, <2>3, <2>4, <2>5 DEF DataNext
<1> QED
  BY <1>1, PTL DEF DataSpec, Spec

(* The exceptions of NoBlackHole, for packet k.                            *)
Exempt(k) ==
  \/ Dest[k] = 0
  \/ \E n \in Leaf : Root[n] = Dest[k] /\ {Src[k], n} \subseteq restarted

(* A calm packet is on its way only while all is quiet, and from where it  *)
(* is every way that it may be sent leads to its leaf.                     *)
CalmInv ==
  /\ calm \subseteq sent
  /\ \A f \in flight : f.id \in calm =>
       Quiet /\ (Exempt(f.id) \/ Arrives(NodeOf(f.port), Dest[f.id]))
  /\ \A k \in calm \cap dropped : Exempt(k)

LEMMA QuietIsStill ==
  ASSUME Quiet, NEW n \in Node
  PROVE  ~Loop(n)
<1> SUFFICES ASSUME NEW x \in Port, PortFails(x) \/ PortRecovers(x) \/ Receive(x)
             PROVE  FALSE
  BY DEF Loop, PortsOf
<1>1. inbox[x] = <<>> /\ (up[x] <=> x \notin cut) /\ x \in joined
  BY DEF Quiet
<1> QED
  BY <1>1 DEF PortFails, PortRecovers, Receive, FailureFromBelow, FailureFromAbove,
     RecoverFromBelow, RecoverFromAbove, UpdateBeforeJoin, TakeJoinAck,
     TakeStartHello, HearAgain, Arrived

(* The packet that a leaf lets in is calm if NoBlackHole speaks of it.     *)
LEMMA FromServerKeepsCalm ==
  ASSUME DataInv, NoBlackHole, CalmInv, NEW k \in Packet, FromServer(k)
  PROVE  CalmInv'
<1> DEFINE ports == Available(Src[k], Dest[k])
           g(p) == [id |-> k, port |-> Peer[p], hops |-> 1]
           new == Quiet /\ ports # {} /\ HasLeaf(k)
<1>1. /\ k \notin sent /\ sent' = sent \cup {k} /\ UNCHANGED vars
      /\ calm' = IF new THEN calm \cup {k} ELSE calm
  BY DEF FromServer
<1>2. \/ ports = {} /\ flight' = flight /\ dropped' = dropped \cup {k}
      \/ \E p \in ports : /\ p \in cut /\ flight' = flight /\ dropped' = dropped \cup {k}
      \/ \E p \in ports : /\ p \notin cut /\ dropped' = dropped
                          /\ flight' = flight \cup {g(p)}
  BY DEF FromServer, Transmit, Drop
<1>3. k \notin calm /\ \A f \in flight : f.id # k
  BY <1>1 DEF CalmInv, DataInv, OnePlace
<1>4. k \notin dropped
  BY <1>1 DEF DataInv, OnePlace
<1>5. ASSUME new, NEW p \in ports
      PROVE  p \notin cut /\ (Exempt(k) \/ Arrives(NodeOf(Peer[p]), Dest[k]))
  <2>1. Src[k] \in Leaf /\ Src[k] \in Node
    BY PacketAssumption DEF Leaf
  <2>2. p \in Port /\ up[p]
    <3>1. p \in OfferedPorts(Src[k]) /\ up[p]
      BY DEF Available, Up
    <3> QED
      BY <2>1, <3>1, OfferedLookUp
  <2>3. p \notin cut
    BY <1>5, <2>2 DEF Quiet
  <2>4. PICK n \in Leaf : n # Src[k] /\ Root[n] = Dest[k]
    BY <1>5 DEF HasLeaf
  <2>5. {Src[k], n} \subseteq restarted => Exempt(k)
    BY <2>4 DEF Exempt
  <2>6. ~({Src[k], n} \subseteq restarted) /\ Root[n] # 0 =>
          Arrives(NodeOf(Peer[p]), Root[n])
    BY <1>5, <2>1, <2>4 DEF NoBlackHole
  <2>7. Root[n] = 0 => Exempt(k)
    BY <2>4 DEF Exempt
  <2> QED
    BY <2>3, <2>4, <2>5, <2>6, <2>7
<1>6. (\A n, r : Arrives(n, r)' <=> Arrives(n, r)) /\ (\A j : Exempt(j)' <=> Exempt(j))
      /\ (Quiet' <=> Quiet)
  BY <1>1 DEF vars, Arrives, NextHops, Available, AcceptedPorts, OfferedPorts, Up, Exempt, Quiet
<1> QED
  BY <1>1, <1>2, <1>3, <1>4, <1>5, <1>6 DEF CalmInv

(* A calm packet is handed on to where it still arrives.                   *)
LEMMA ForwardKeepsCalm ==
  ASSUME DataInv, CalmInv, NEW f \in flight, Forward(f)
  PROVE  CalmInv'
<1> DEFINE k == f.id
           r == Dest[f.id]
           n == NodeOf(f.port)
           g(p) == [id |-> f.id, port |-> Peer[p], hops |-> f.hops + 1]
<1>1. UNCHANGED <<sent, calm>> /\ UNCHANGED vars /\ n \notin Leaf
  BY DEF Forward
<1>2. \/ /\ NextHops(n, r) = {} \/ \E p \in NextHops(n, r) : ~up[p] \/ p \in cut
         /\ flight' = flight \ {f} /\ dropped' = dropped \cup {k}
      \/ \E p \in NextHops(n, r) :
           flight' = (flight \ {f}) \cup {g(p)} /\ dropped' = dropped
  BY DEF Forward, Transmit, Drop
<1>3. ASSUME Arrives(n, r)
      PROVE  /\ NextHops(n, r) # {}
             /\ \A p \in NextHops(n, r) :
                  up[p] /\ p \notin cut /\ Arrives(NodeOf(Peer[p]), r)
  <2>1. PICK S \in SUBSET {m \in Node : m \in Leaf => Root[m] = r} :
          /\ n \in S
          /\ \A m \in S \ Leaf :
               /\ NextHops(m, r) # {}
               /\ \A p \in NextHops(m, r) : up[p] /\ p \notin cut /\ NodeOf(Peer[p]) \in S
    BY <1>3 DEF Arrives
  <2>2. \A m \in S : Arrives(m, r)
    BY <2>1 DEF Arrives
  <2> QED
    BY <1>1, <2>1, <2>2
<1>4. k \in calm => Quiet /\ (Exempt(k) \/ Arrives(n, r))
  BY DEF CalmInv
<1>5. (\A m, d : Arrives(m, d)' <=> Arrives(m, d)) /\ (\A j : Exempt(j)' <=> Exempt(j))
      /\ (Quiet' <=> Quiet)
  BY <1>1 DEF vars, Arrives, NextHops, Available, AcceptedPorts, OfferedPorts, Up, Exempt, Quiet
<1>6. CASE flight' = flight \ {f} /\ dropped' = dropped \cup {k} /\ (k \in calm => Exempt(k))
  BY <1>1, <1>5, <1>6 DEF CalmInv
<1>7. ASSUME NEW p \in NextHops(n, r), flight' = (flight \ {f}) \cup {g(p)}, dropped' = dropped
      PROVE  CalmInv'
  <2>1. g(p).id = k /\ g(p).port = Peer[p]
    OBVIOUS
  <2>2. k \in calm => Quiet /\ (Exempt(k) \/ Arrives(NodeOf(Peer[p]), r))
    BY <1>3, <1>4
  <2> HIDE DEF g
  <2>3. \A h \in flight' : h.id \in calm =>
          Quiet /\ (Exempt(h.id) \/ Arrives(NodeOf(h.port), Dest[h.id]))
    BY <1>7, <2>1, <2>2 DEF CalmInv
  <2>4. \A j \in calm \cap dropped : Exempt(j)
    BY DEF CalmInv
  <2> QED
    BY <1>1, <1>5, <1>7, <2>3, <2>4 DEF CalmInv
<1>8. (NextHops(n, r) = {} \/ \E p \in NextHops(n, r) : ~up[p] \/ p \in cut)
        => (k \in calm => Exempt(k))
  BY <1>3, <1>4
<1> QED
  BY <1>2, <1>6, <1>7, <1>8

LEMMA StepKeepsCalm ==
  ASSUME DataInv, NoBlackHole, CalmInv, [DataNext]_allVars
  PROVE  CalmInv'
<1>1. ASSUME NEW n \in Node, Loop(n), UNCHANGED data PROVE CalmInv'
  <2>1. ~Quiet
    BY <1>1, QuietIsStill
  <2>2. restarted' = restarted
    BY <1>1, LoopLeavesFaults DEF faults
  <2>3. \A f \in flight : f.id \notin calm
    BY <2>1 DEF CalmInv
  <2> QED
    BY <1>1, <2>2, <2>3 DEF CalmInv, Exempt, data
<1>2. CASE Disturb
  <2>1. /\ calm' = calm \ Ids(flight) /\ sent' = sent
        /\ flight' \subseteq flight /\ dropped' \subseteq dropped \cup Ids(flight)
        /\ restarted \subseteq restarted'
    BY <1>2 DEF Disturb, Cut, Mend, Restart, Ids
  <2>2. \A f \in flight : f.id \in Ids(flight)
    BY DEF Ids
  <2>3. \A j : Exempt(j) => Exempt(j)'
    BY <2>1 DEF Exempt
  <2> QED
    BY <2>1, <2>2, <2>3 DEF CalmInv
<1>3. CASE \E k \in Packet : FromServer(k)
  BY <1>3, FromServerKeepsCalm
<1>4. ASSUME NEW f \in flight, ToServer(f) PROVE CalmInv'
  <2>1. /\ UNCHANGED vars /\ UNCHANGED <<sent, dropped, calm>> /\ flight' = flight \ {f}
    BY <1>4 DEF ToServer
  <2>2. (\A m, d : Arrives(m, d)' <=> Arrives(m, d)) /\ (\A j : Exempt(j)' <=> Exempt(j))
        /\ (Quiet' <=> Quiet)
    BY <2>1 DEF vars, Arrives, NextHops, Available, AcceptedPorts, OfferedPorts, Up,
                Exempt, Quiet
  <2> QED
    BY <2>1, <2>2 DEF CalmInv
<1>5. ASSUME NEW f \in flight, Forward(f) PROVE CalmInv'
  BY <1>5, ForwardKeepsCalm
<1>6. CASE UNCHANGED allVars
  <2>1. UNCHANGED vars /\ UNCHANGED data
    BY <1>6 DEF allVars
  <2>2. (\A m, d : Arrives(m, d)' <=> Arrives(m, d)) /\ (\A j : Exempt(j)' <=> Exempt(j))
        /\ (Quiet' <=> Quiet)
    BY <2>1 DEF vars, Arrives, NextHops, Available, AcceptedPorts, OfferedPorts, Up,
                Exempt, Quiet
  <2> QED
    BY <2>1, <2>2 DEF data, CalmInv
<1> QED
  BY <1>1, <1>2, <1>3, <1>4, <1>5, <1>6 DEF DataNext, Handle

LEMMA InitCalm == DataInit => CalmInv
BY DEF DataInit, CalmInv

(* Where Updates opens no black hole, data that are let in while all is    *)
(* quiet arrive, in every fabric, those for root 0 excepted: that no port  *)
(* a leaf may pick leads into one is enough for the whole way.             *)
THEOREM CalmDataArrive == DataSpec /\ []NoBlackHole => []CalmArrives
<1>1. DataInv /\ NoBlackHole /\ CalmInv /\ [DataNext]_allVars => CalmInv'
  BY StepKeepsCalm
<1>2. CalmInv => CalmArrives
  BY DEF CalmInv, CalmArrives, Exempt
<1> QED
  BY <1>1, <1>2, InitCalm, DataInvariance, PTL DEF DataSpec

(* So they do in every folded Clos where failures and restarts come one at *)
(* a time.                                                                 *)
THEOREM CalmDataArriveInAClos ==
  ASSUME FoldedClos, TopsReachAll, OneAtATime
  PROVE  DataSpec => []CalmArrives
<1>1. DataSpec => []NoBlackHole
  BY DataLeaveTheTablesAlone, NoPickIsLost, PTL
<1> QED
  BY <1>1, CalmDataArrive, PTL
=============================================================================
