---------------------------- MODULE TreesProofs -----------------------------
(***************************************************************************)
(* Lemmas about the trees of VIDs, for every wiring that satisfies the     *)
(* assumptions of Fabric: granting a port some extensions of the VIDs      *)
(* behind it keeps the trees apart, and their VIDs as long as their tiers. *)
(***************************************************************************)
EXTENDS Trees, SequenceTheorems, TLAPS

(* Every VID of a port extends a VID of the switch below; with            *)
(* GrantedTypeOK this makes UniqueVID inductive: two equal VIDs extend the *)
(* same VID, hence of the same switch, through the same port.              *)
Grafted ==
  \A q \in Port :
    /\ granted[q] \subseteq Extensions(q)
    /\ granted[q] # {} => LooksDown(q)

TreesApart == GrantedTypeOK /\ Grafted /\ UniqueVID /\ TierIsDepth

-----------------------------------------------------------------------------
(* Two ports with the same switch and number are one port.                 *)
LEMMA PortIsPair ==
  ASSUME NEW p \in Port, NEW q \in Port,
         NodeOf(p) = NodeOf(q), Num(p) = Num(q)
  PROVE  p = q
BY PortAssumption DEF NodeOf, Num

(* The switch and the number of a port.                                    *)
LEMMA PortParts ==
  ASSUME NEW p \in Port
  PROVE  NodeOf(p) \in Node /\ Num(p) \in Nat
BY PortAssumption DEF NodeOf, Num

(* A cable has two ends, and each end knows the other.                     *)
LEMMA PeerOfPeer ==
  ASSUME NEW p \in Port
  PROVE  Peer[p] \in Port /\ Peer[Peer[p]] = p
BY CableAssumption

(* Extending a VID through a port gives a longer VID.                      *)
LEMMA ExtendIsVID ==
  ASSUME NEW v \in VID, NEW p \in Port
  PROVE  /\ Extend(v, p) \in VID
         /\ Len(v) \in Nat \ {0}
         /\ Len(Extend(v, p)) = Len(v) + 1
<1>1. v \in Seq(Nat) /\ v # <<>> /\ Num(p) \in Nat
  BY PortParts DEF VID
<1>2. /\ Append(v, Num(p)) \in Seq(Nat)
      /\ Append(v, Num(p)) # <<>>
      /\ Len(Append(v, Num(p))) = Len(v) + 1
  BY <1>1, AppendProperties
<1>3. Len(v) \in Nat \ {0}
  BY <1>1, EmptySeq, LenProperties
<1> QED
  BY <1>2, <1>3 DEF Extend, VID

(* Different VIDs, or different ports of one switch, give different VIDs.  *)
LEMMA ExtendIsInjective ==
  ASSUME NEW u \in VID, NEW v \in VID, NEW p \in Port, NEW q \in Port,
         Extend(u, p) = Extend(v, q)
  PROVE  u = v /\ Num(p) = Num(q)
<1>1. u \in Seq(Nat) /\ v \in Seq(Nat) /\ Num(p) \in Nat /\ Num(q) \in Nat
  BY PortParts DEF VID
<1> QED
  BY <1>1, AppendInjective DEF Extend

(* The root VID of a leaf is a VID of length one.                          *)
LEMMA RootIsVID ==
  ASSUME NEW n \in Leaf
  PROVE  <<Root[n]>> \in VID /\ Len(<<Root[n]>>) = 1
BY RootAssumption DEF VID

LEMMA HeldIsVID ==
  ASSUME GrantedTypeOK, NEW n \in Node
  PROVE  Held(n) \subseteq VID
BY RootIsVID DEF Held, GrantedTypeOK, PortsOf

(* One switch has a VID, because one port or one leaf has.                 *)
LEMMA HeldIsUnique ==
  ASSUME UniqueVID, NEW m \in Node, NEW n \in Node,
         NEW v, v \in Held(m), v \in Held(n)
  PROVE  m = n
<1>1. ASSUME NEW k \in Node, v \in Held(k)
      PROVE  \/ k \in Leaf /\ v = <<Root[k]>>
             \/ \E q \in Port : NodeOf(q) = k /\ v \in granted[q]
  BY <1>1 DEF Held, PortsOf
<1>2. CASE m \in Leaf /\ v = <<Root[m]>> /\ n \in Leaf /\ v = <<Root[n]>>
  <2>1. Root[m] = Root[n]
    BY <1>2
  <2> QED
    BY <1>2, <2>1, RootAssumption
<1>3. CASE \E q, r \in Port : /\ NodeOf(q) = m /\ v \in granted[q]
                              /\ NodeOf(r) = n /\ v \in granted[r]
  BY <1>3 DEF UniqueVID
<1>4. ASSUME NEW k \in Leaf, NEW q \in Port, v = <<Root[k]>>, v \in granted[q]
      PROVE  FALSE
  BY <1>4 DEF UniqueVID
<1> QED
  BY <1>1, <1>2, <1>3, <1>4

(* The VIDs of a switch are as long as its tier.                           *)
LEMMA HeldDepth ==
  ASSUME GrantedTypeOK, TierIsDepth, NEW n \in Node, NEW v \in Held(n)
  PROVE  Len(v) = Tier[n]
<1>1. CASE n \in Leaf /\ v = <<Root[n]>>
  BY <1>1, RootIsVID DEF Leaf
<1>2. CASE \E q \in PortsOf(n) : v \in granted[q]
  BY <1>2 DEF TierIsDepth, PortsOf, TierOf
<1> QED
  BY <1>1, <1>2 DEF Held

-----------------------------------------------------------------------------

(* A grant of VIDs that extend those of the switch below keeps the trees   *)
(* apart.                                                                  *)
LEMMA GrantKeepsTreesApart ==
  ASSUME TreesApart, NEW q \in Port, NEW V \in SUBSET Extensions(q), Grant(q, V)
  PROVE  TreesApart'
<1> USE DEF TreesApart
<1>1. granted' = [granted EXCEPT ![q] = @ \cup V]
  BY DEF Grant
<1>2. Peer[q] \in Port /\ NodeOf(Peer[q]) \in Node
  BY PeerOfPeer, PortParts
<1>3. ASSUME NEW v \in V
      PROVE  \E u \in VID : /\ u \in Held(NodeOf(Peer[q]))
                            /\ v = Extend(u, Peer[q])
  BY <1>2, <1>3, HeldIsVID DEF Extensions
<1>4. V \subseteq VID
  BY <1>2, <1>3, ExtendIsVID
<1>5. GrantedTypeOK'
  BY <1>1, <1>4 DEF GrantedTypeOK
<1>6. ASSUME NEW r \in Port
      PROVE  granted[r] \subseteq granted'[r]
  BY <1>1 DEF GrantedTypeOK
<1>7. Grafted'
  <2>1. ASSUME NEW n \in Node
        PROVE  Held(n) \subseteq Held(n)'
    BY <1>6 DEF Held, PortsOf
  <2>2. ASSUME NEW r \in Port
        PROVE  Extensions(r) \subseteq Extensions(r)'
    BY <2>1, PeerOfPeer, PortParts DEF Extensions
  <2>3. LooksDown(q)
    BY DEF Grant
  <2>4. ASSUME NEW r \in Port
        PROVE  /\ granted'[r] \subseteq Extensions(r)'
               /\ granted'[r] # {} => LooksDown(r)
    <3>1. CASE r = q
      BY <1>1, <2>2, <2>3, <3>1 DEF Grafted, GrantedTypeOK
    <3>2. CASE r # q
      BY <1>1, <2>2, <3>2 DEF Grafted, GrantedTypeOK
    <3> QED
      BY <3>1, <3>2
  <2> QED
    BY <2>4 DEF Grafted, LooksDown
<1>8. UniqueVID'
  <2>1. ASSUME NEW r \in Port, NEW v, v \in V, v \in granted[r]
        PROVE  r = q
    <3>1. PICK u \in VID : u \in Held(NodeOf(Peer[q])) /\ v = Extend(u, Peer[q])
      BY <1>3, <2>1
    <3>2. Peer[r] \in Port /\ NodeOf(Peer[r]) \in Node
      BY PeerOfPeer, PortParts
    <3>3. PICK w \in VID : w \in Held(NodeOf(Peer[r])) /\ v = Extend(w, Peer[r])
      BY <2>1, <3>2, HeldIsVID DEF Grafted, Extensions
    <3>4. u = w /\ Num(Peer[q]) = Num(Peer[r])
      <4>1. Extend(u, Peer[q]) = Extend(w, Peer[r])
        BY <3>1, <3>3
      <4>2. Peer[q] \in Port /\ Peer[r] \in Port
        BY <1>2, <3>2
      <4> QED
        BY <4>1, <4>2, ExtendIsInjective
    <3>5. NodeOf(Peer[q]) = NodeOf(Peer[r])
      BY <1>2, <3>1, <3>2, <3>3, <3>4, HeldIsUnique
    <3>6. Peer[q] = Peer[r]
      BY <1>2, <3>2, <3>4, <3>5, PortIsPair
    <3> QED
      BY <3>6, PeerOfPeer
  <2>2. ASSUME NEW r \in Port, NEW s \in Port, NEW v,
               v \in granted'[r], v \in granted'[s]
        PROVE  r = s
    BY <1>1, <2>1, <2>2 DEF UniqueVID, GrantedTypeOK
  <2>3. ASSUME NEW r \in Port, NEW n \in Leaf, <<Root[n]>> \in granted'[r]
        PROVE  FALSE
    <3>1. <<Root[n]>> \in V
      BY <1>1, <2>3 DEF UniqueVID, GrantedTypeOK
    <3>2. PICK u \in VID : <<Root[n]>> = Extend(u, Peer[q])
      BY <1>3, <3>1
    <3>3. Len(<<Root[n]>>) = Len(u) + 1 /\ Len(u) \in Nat \ {0}
      BY <1>2, <3>2, ExtendIsVID
    <3> QED
      BY <3>3, RootIsVID
  <2> QED
    BY <2>2, <2>3 DEF UniqueVID
<1>9. TierIsDepth'
  <2>1. ASSUME NEW v \in V
        PROVE  Len(v) = Tier[NodeOf(q)]
    <3>1. PICK u \in VID : u \in Held(NodeOf(Peer[q])) /\ v = Extend(u, Peer[q])
      BY <1>3
    <3>2. Len(u) = Tier[NodeOf(Peer[q])]
      BY <1>2, <3>1, HeldDepth
    <3>3. Len(v) = Len(u) + 1
      BY <1>2, <3>1, ExtendIsVID
    <3> QED
      BY <3>2, <3>3 DEF Grant, LooksDown
  <2>2. ASSUME NEW r \in Port, NEW v, v \in granted'[r]
        PROVE  Len(v) = Tier[NodeOf(r)]
    <3>1. CASE v \in granted[r]
      BY <3>1 DEF TierIsDepth, TierOf
    <3>2. CASE r = q /\ v \in V
      BY <2>1, <3>2
    <3> QED
      BY <1>1, <2>2, <3>1, <3>2 DEF GrantedTypeOK
  <2> QED
    BY <2>2 DEF TierIsDepth, TierOf
<1> QED
  BY <1>5, <1>7, <1>8, <1>9
=============================================================================
