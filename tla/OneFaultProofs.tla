---------------------------- MODULE OneFaultProofs ----------------------------
(***************************************************************************)
(* Why failures that come one at a time do no harm (Updates), in every     *)
(* folded Clos of three tiers: no black hole, no needless drop, and        *)
(* nothing left blocked when the cable is mended.  A leaf that restarts is *)
(* such a failure too.                                                     *)
(*                                                                         *)
(* A fault spreads as a wave from the two ends of its cable.  Its upper    *)
(* end tells its neighbours that the roots below the cable are             *)
(* unreachable, top spines relay that to the other spines below them, and  *)
(* a spine tells its leaves once all its uplinks are blocked; its lower    *)
(* end tells its leaves what they can still reach through it if the cable  *)
(* was its only uplink.  Every port so hears of one thing from one         *)
(* speaker, and the last word that waits at a port, or the table if none   *)
(* does, is what the speaker has to say at the moment.                     *)
(*                                                                         *)
(* Restarts overlap, and what they leave behind stays.  But they close no  *)
(* port other than those of the restarted leaves' cables, and make nobody  *)
(* speak of other roots than theirs; so all that has to be shown is that   *)
(* the leaves that were not restarted hear of it when a spine cannot reach *)
(* one of those that were.                                                 *)
(***************************************************************************)
EXTENDS UpdatesProofs

-----------------------------------------------------------------------------
(* The wave of the cable between q, its upper end, and Peer[q].            *)

(* The ports of m that lead to n: there is at most one.                    *)
Toward(m, n) == {z \in PortsOf(m) : NodeOf(Peer[z]) = n}

(* Who speaks of the fault, on port y: the upper end on its other ports,   *)
(* top spines above it downwards but not back to it, and other spines      *)
(* downwards.                                                              *)
Source(q, y) == NodeOf(y) = NodeOf(q) /\ y # q
Relay(q, y)  == /\ Tier[NodeOf(y)] = 3 /\ Toward(NodeOf(y), NodeOf(q)) # {}
                /\ NodeOf(Peer[y]) # NodeOf(q)
Spread(q, y) == Tier[NodeOf(y)] = 2 /\ NodeOf(y) # NodeOf(q) /\ LooksDown(y)

Speaks(q, y) == Source(q, y) \/ Relay(q, y) \/ Spread(q, y)

(* The switch of the lower end speaks of reachable roots, all others of    *)
(* unreachable ones.                                                       *)
LowerEnd(q, y) == NodeOf(y) = NodeOf(Peer[q])

(* The ports with bad news at the moment, u and t standing for up and ut:  *)
(* the fault is noticed, heard of, or all uplinks are blocked or gone.     *)
Warns(q, u, t) ==
  {y \in Port :
     \/ Source(q, y) /\ ~u[q]
     \/ Relay(q, y) /\ \E z \in Toward(NodeOf(y), NodeOf(q)) : t[z] # {}
     \/ Spread(q, y) /\ ~LowerEnd(q, y) /\ \A z \in Uplinks[NodeOf(y)] : t[z] # {}
     \/ Spread(q, y) /\ LowerEnd(q, y) /\ ~u[Peer[q]] /\ Uplinks[NodeOf(y)] = {Peer[q]}}

BadNews(q, y) ==
  Failure(IF LowerEnd(q, y) THEN "REACHABLE" ELSE "UNREACHABLE", Roots(q))
GoodNews(q, y) ==
  IF LowerEnd(q, y) THEN Recover("REACHABLE", {}) ELSE Recover("UNREACHABLE", Roots(q))

News(q, y, W) == IF y \in W THEN BadNews(q, y) ELSE GoodNews(q, y)

(* The updates box and the table of the port across y agree with y, if W   *)
(* are the ports with bad news: the last word counts.                      *)
Heard(q, y, table, box, W) ==
  /\ table \in {{}, Roots(q)}
  /\ \A i \in 1 .. Len(box) : box[i] \in {BadNews(q, y), GoodNews(q, y)}
  /\ IF box = <<>> THEN table # {} <=> y \in W
                   ELSE box[Len(box)] = News(q, y, W)

(* Port x hears from the other end of its cable; tx, rx and box are its    *)
(* unreachable and reachable table and the updates that wait there.        *)
Hears(q, x, tx, rx, box, W) ==
  LET y == Peer[x]
  IN  /\ IF LowerEnd(q, y) THEN tx = {} ELSE rx = {}
      /\ IF Speaks(q, y)
         THEN Heard(q, y, IF LowerEnd(q, y) THEN rx ELSE tx, box, W)
         ELSE box = <<>> /\ tx = {} /\ rx = {}

Wave(q) ==
  /\ LooksDown(q)
  /\ joined = Port
  /\ cut \in {{}, {q, Peer[q]}}
  /\ \A x \in Port \ {q, Peer[q]} : up[x]
  /\ \A x \in Port : Hears(q, x, ut[x], rt[x], inbox[x], Warns(q, up, ut))

Clean ==
  /\ joined = Port
  /\ cut = {}
  /\ \A x \in Port : up[x] /\ ut[x] = {} /\ rt[x] = {} /\ inbox[x] = <<>>

(***************************************************************************)
(* Leaves that restart.  Only its own port on each cable of a restarted    *)
(* leaf, and the port across, may be closed; the roots of such leaves are  *)
(* all that anybody speaks of or blocks, and nobody speaks of reachable    *)
(* ones, as no spine is cut off.                                           *)
(***************************************************************************)

AtRestarted(x) == NodeOf(x) \in restarted \/ NodeOf(Peer[x]) \in restarted
Forgotten      == {Root[n] : n \in restarted}

(* An update that may wait at port x: a leaf sends nothing but StartHello. *)
Rejoins(x, m) ==
  /\ m.option = "UNREACHABLE" /\ m.roots \subseteq Forgotten
  /\ NodeOf(Peer[x]) \in Leaf => m = StartHello

(* Root r is blocked once the updates box have changed the table.          *)
Frees(m, r)  == m.type = "RECOVER" /\ r \in m.roots
Blocks(m, r) == m.type = "FAILURE" /\ r \in m.roots
WillBlock(r, table, box) ==
  \/ r \in table /\ \A i \in 1 .. Len(box) : ~Frees(box[i], r)
  \/ \E j \in 1 .. Len(box) :
       Blocks(box[j], r) /\ \A i \in 1 .. Len(box) : i > j => ~Frees(box[i], r)

(* A leaf that was not restarted has been told, or will be, when a spine   *)
(* has no uplink left for a root that is not below it.                     *)
NoUplink(s, r, t) == r \notin RootsOf[s] /\ \A z \in Uplinks[s] : r \in t[z]
Told(x, t, boxes) ==
  NodeOf(x) \in Leaf \ restarted =>
    \A r \in RootVID : NoUplink(NodeOf(Peer[x]), r, t) => WillBlock(r, t[x], boxes[x])

Rejoining ==
  /\ cut = {}
  /\ \A x \in Port :
       /\ ~up[x] \/ x \notin joined => AtRestarted(x)
       /\ NodeOf(x) \in Leaf => (up[x] <=> x \in joined)
       /\ rt[x] = {} /\ ut[x] \subseteq Forgotten
       /\ \A i \in 1 .. Len(inbox[x]) : Rejoins(x, inbox[x][i])
       /\ Told(x, ut, inbox)

(* Leaves restart, or at most that, or one cable is at fault.              *)
OneFault == Rejoining \/ \E q \in Port : Wave(q)

-----------------------------------------------------------------------------
(* The fabric.                                                             *)

LEMMA ClosTiers ==
  ASSUME FoldedClos, NEW x \in Port
  PROVE  /\ NodeOf(x) \in Node /\ NodeOf(Peer[x]) \in Node
         /\ Peer[x] \in Port /\ Peer[Peer[x]] = x
         /\ Tier[NodeOf(x)] \in {1, 2, 3}
         /\ LooksDown(x) => Tier[NodeOf(x)] = Tier[NodeOf(Peer[x])] + 1
         /\ ~LooksDown(x) => Tier[NodeOf(Peer[x])] = Tier[NodeOf(x)] + 1
         /\ LooksDown(Peer[x]) <=> ~LooksDown(x)
<1>1. /\ NodeOf(x) \in Node /\ NodeOf(Peer[x]) \in Node
      /\ Peer[x] \in Port /\ Peer[Peer[x]] = x
  BY PortParts
<1>2. Tier[NodeOf(x)] \in {1, 2, 3} /\ Tier[NodeOf(Peer[x])] \in {1, 2, 3}
  BY <1>1 DEF FoldedClos
<1>3. \/ Tier[NodeOf(x)] = Tier[NodeOf(Peer[x])] + 1
      \/ Tier[NodeOf(Peer[x])] = Tier[NodeOf(x)] + 1
  BY CableAssumption
<1> QED
  BY <1>1, <1>2, <1>3 DEF LooksDown

LEMMA OneCable ==
  ASSUME FoldedClos, NEW x \in Port, NEW z \in Port,
         NodeOf(x) = NodeOf(z), NodeOf(Peer[x]) = NodeOf(Peer[z])
  PROVE  x = z
BY DEF FoldedClos

(* Every port that looks down leads to some root, so the direction of a    *)
(* port decides which table it is in.                                      *)
LEMMA LinkSets ==
  ASSUME NEW x \in Port
  PROVE  /\ LooksDown(x) => Roots(x) = RootsOf[NodeOf(Peer[x])] /\ Roots(x) # {}
         /\ x \in AcceptedPorts(NodeOf(x)) <=> LooksDown(x)
         /\ x \in Uplinks[NodeOf(x)] <=> ~LooksDown(x)
         /\ Roots(x) \in SUBSET RootVID
<1>1. NodeOf(x) \in Node /\ x \in PortsOf(NodeOf(x)) /\ Peer[x] \in Port
      /\ Peer[Peer[x]] = x /\ NodeOf(Peer[x]) \in Node
  BY PortParts
<1>2. LooksDown(x) <=> ~LooksDown(Peer[x])
  BY EndsLookOpposite
<1>3. \A z \in Port : LooksDown(z) <=> Roots(z) # {}
  <2> SUFFICES ASSUME NEW z \in Port PROVE LooksDown(z) <=> Roots(z) # {}
    OBVIOUS
  <2>1. NodeOf(Peer[z]) \in Node
    BY PortParts
  <2> QED
    BY <2>1, RootsAssumption DEF Roots
<1>4. x \in AcceptedPorts(NodeOf(x)) <=> LooksDown(x)
  BY <1>1, <1>3 DEF AcceptedPorts, Downlinks
<1>5. x \in Uplinks[NodeOf(x)] <=> ~LooksDown(x)
  BY <1>1, <1>2, <1>3 DEF Uplinks
<1> QED
  BY <1>3, <1>4, <1>5, RootsAreRoots DEF Roots

LEMMA LinksOfNode ==
  ASSUME NEW n \in Node, joined = Port
  PROVE  /\ AcceptedPorts(n) = {x \in PortsOf(n) : LooksDown(x)}
         /\ OfferedPorts(n) = Uplinks[n]
         /\ Uplinks[n] = {x \in PortsOf(n) : ~LooksDown(x)}
<1>1. AcceptedPorts(n) \subseteq PortsOf(n) /\ Uplinks[n] \subseteq PortsOf(n)
  BY DEF AcceptedPorts, Downlinks, Uplinks
<1>2. \A x \in PortsOf(n) : x \in Port /\ NodeOf(x) = n
  BY DEF PortsOf
<1>3. AcceptedPorts(n) = {x \in PortsOf(n) : LooksDown(x)}
  BY <1>1, <1>2, LinkSets
<1>4. Uplinks[n] = {x \in PortsOf(n) : ~LooksDown(x)}
  BY <1>1, <1>2, LinkSets
<1>5. OfferedPorts(n) = Uplinks[n]
  BY <1>1, <1>2 DEF OfferedPorts
<1> QED
  BY <1>3, <1>4, <1>5

-----------------------------------------------------------------------------
(* The words.                                                              *)

LEMMA NewsApart ==
  ASSUME NEW q \in Port, NEW y
  PROVE  /\ BadNews(q, y) \in Update /\ GoodNews(q, y) \in Update
         /\ BadNews(q, y) # GoodNews(q, y)
         /\ BadNews(q, y).type = "FAILURE" /\ GoodNews(q, y).type = "RECOVER"
<1>1. Roots(q) \in SUBSET RootVID
  BY LinkSets
<1> QED
  BY <1>1 DEF BadNews, GoodNews, Failure, Recover, Update

(* A word that is sent is the last word.                                   *)
LEMMA SaidIsHeard ==
  ASSUME NEW q \in Port, NEW y, NEW table, NEW box \in Seq(Update), NEW V, NEW W,
         Heard(q, y, table, box, V)
  PROVE  Heard(q, y, table, Append(box, News(q, y, W)), W)
<1> DEFINE m == News(q, y, W)
           new == Append(box, m)
<1>1. m \in {BadNews(q, y), GoodNews(q, y)} /\ m \in Update
  BY NewsApart DEF News
<1> HIDE DEF m
<1>2. /\ new # <<>> /\ Len(new) = Len(box) + 1 /\ new[Len(box) + 1] = m
      /\ \A i \in 1 .. Len(box) : new[i] = box[i]
      /\ Len(box) \in Nat
  BY <1>1, AppendProperties, LenProperties
<1>3. \A i \in 1 .. Len(new) : i \in 1 .. Len(box) \/ i = Len(box) + 1
  BY <1>2
<1>4. \A i \in 1 .. Len(new) : new[i] \in {BadNews(q, y), GoodNews(q, y)}
  BY <1>1, <1>2, <1>3 DEF Heard
<1>5. new[Len(new)] = m
  BY <1>2
<1> QED
  BY <1>2, <1>4, <1>5 DEF Heard, m

(* A word that is taken changes the table: bad news block, good news       *)
(* clear.                                                                  *)
LEMMA TakenIsHeard ==
  ASSUME NEW q \in Port, LooksDown(q), NEW y, NEW table, NEW box \in Seq(Update),
         NEW W, Heard(q, y, table, box, W), box # <<>>
  PROVE  /\ Head(box) \in {BadNews(q, y), GoodNews(q, y)}
         /\ Heard(q, y, IF Head(box) = BadNews(q, y) THEN Roots(q) ELSE {}, Tail(box), W)
<1> DEFINE m == Head(box)
           rest == Tail(box)
<1>1. /\ rest \in Seq(Update) /\ Len(rest) = Len(box) - 1 /\ m = box[1]
      /\ \A i \in 1 .. Len(rest) : rest[i] = box[i + 1]
      /\ Len(box) \in Nat \ {0}
  BY HeadTailProperties, EmptySeq
<1>2. m \in {BadNews(q, y), GoodNews(q, y)}
  BY <1>1 DEF Heard
<1>3. \A i \in 1 .. Len(rest) : rest[i] \in {BadNews(q, y), GoodNews(q, y)}
  <2>1. \A i \in 1 .. Len(rest) : i + 1 \in 1 .. Len(box)
    BY <1>1
  <2> QED
    BY <1>1, <2>1 DEF Heard
<1>4. box[Len(box)] = News(q, y, W)
  BY DEF Heard
<1> DEFINE then == IF m = BadNews(q, y) THEN Roots(q) ELSE {}
<1>5. rest = <<>> => Len(box) = 1
  <2>1. rest = <<>> => Len(rest) = 0
    BY EmptySeq
  <2> HIDE DEF rest
  <2> QED
    BY <1>1, <2>1
<1>6. rest # <<>> => Len(rest) # 0 /\ rest[Len(rest)] = box[Len(box)]
  <2>1. rest # <<>> => Len(rest) \in Nat \ {0}
    BY <1>1, EmptySeq
  <2> HIDE DEF rest
  <2> QED
    BY <1>1, <2>1
<1>7. Len(box) = 1 => (then # {} <=> y \in W)
  <2>1. Len(box) = 1 => m = News(q, y, W)
    BY <1>1, <1>4
  <2>2. Len(box) = 1 => (m = BadNews(q, y) <=> y \in W)
    BY <2>1, NewsApart DEF News
  <2>3. Roots(q) # {}
    BY LinkSets
  <2> QED
    BY <2>2, <2>3
<1>8. then \in {{}, Roots(q)}
  OBVIOUS
<1> HIDE DEF then, rest, m
<1>9. Heard(q, y, then, rest, W)
  BY <1>3, <1>4, <1>5, <1>6, <1>7, <1>8 DEF Heard
<1> QED
  BY <1>2, <1>9 DEF then, rest, m

-----------------------------------------------------------------------------
(* Who speaks.                                                             *)

LEMMA Ends ==
  ASSUME FoldedClos, NEW q \in Port, LooksDown(q)
  PROVE  /\ Peer[q] \in Port /\ Peer[Peer[q]] = q /\ ~LooksDown(Peer[q])
         /\ NodeOf(q) \in Node /\ NodeOf(Peer[q]) \in Node
         /\ NodeOf(q) # NodeOf(Peer[q])
         /\ Tier[NodeOf(q)] = Tier[NodeOf(Peer[q])] + 1
         /\ Tier[NodeOf(q)] \in {2, 3} /\ Tier[NodeOf(Peer[q])] \in {1, 2}
<1>1. Tier[NodeOf(q)] \in {1, 2, 3} /\ Tier[NodeOf(q)] = Tier[NodeOf(Peer[q])] + 1
  BY ClosTiers
<1>2. Tier[NodeOf(Peer[q])] \in {1, 2, 3}
  BY ClosTiers
<1> QED
  BY <1>1, <1>2, ClosTiers

LEMMA Roles ==
  ASSUME FoldedClos, NEW q \in Port, LooksDown(q), NEW y \in Port
  PROVE  /\ Source(q, y) => ~Relay(q, y) /\ ~Spread(q, y) /\ ~LowerEnd(q, y)
         /\ Relay(q, y) => /\ ~Spread(q, y) /\ ~LowerEnd(q, y) /\ LooksDown(y)
                           /\ Tier[NodeOf(q)] = 2 /\ NodeOf(y) # NodeOf(q)
         /\ Spread(q, y) => LooksDown(y) /\ NodeOf(y) # NodeOf(q)
         /\ ~Speaks(q, q)
<1>1. Relay(q, y) => Tier[NodeOf(y)] = 3 /\ Tier[NodeOf(q)] = 2
  <2> SUFFICES ASSUME Relay(q, y) PROVE Tier[NodeOf(y)] = 3 /\ Tier[NodeOf(q)] = 2
    OBVIOUS
  <2>1. PICK z \in Port : NodeOf(z) = NodeOf(y) /\ NodeOf(Peer[z]) = NodeOf(q)
    BY DEF Relay, Toward, PortsOf
  <2>2. Tier[NodeOf(z)] = 3
    BY <2>1 DEF Relay
  <2>3. Tier[NodeOf(Peer[z])] # 4
    BY ClosTiers, <2>1
  <2>4. LooksDown(z)
    BY <2>2, <2>3, ClosTiers
  <2> QED
    BY <2>1, <2>2, <2>4, ClosTiers, Ends
<1>2. Relay(q, y) => LooksDown(y)
  <2>1. Tier[NodeOf(Peer[y])] \in {1, 2, 3}
    BY ClosTiers
  <2> QED
    BY <1>1, <2>1, ClosTiers
<1>3. Relay(q, y) => ~Spread(q, y) /\ ~LowerEnd(q, y) /\ NodeOf(y) # NodeOf(q)
  BY <1>1, Ends DEF Spread, LowerEnd
<1>4. Source(q, y) => ~Relay(q, y) /\ ~Spread(q, y) /\ ~LowerEnd(q, y)
  BY <1>3, Ends DEF Source, Spread, LowerEnd
<1>5. Toward(NodeOf(q), NodeOf(q)) = {}
  <2>1. \A z \in Port : NodeOf(z) # NodeOf(Peer[z])
    <3> SUFFICES ASSUME NEW z \in Port PROVE NodeOf(z) # NodeOf(Peer[z])
      OBVIOUS
    <3> QED
      BY ClosTiers
  <2> QED
    BY <2>1 DEF Toward, PortsOf
<1>6. ~Speaks(q, q)
  BY <1>5 DEF Speaks, Source, Relay, Spread
<1> QED
  BY <1>1, <1>2, <1>3, <1>4, <1>6 DEF Spread

-----------------------------------------------------------------------------
(* The wave goes on: the ports S say m, which is their news, and what all  *)
(* other ports have to say is what it was.                                 *)
LEMMA WordSpreads ==
  ASSUME NEW q \in Port, Wave(q), FoldedClos,
         NEW box \in [Port -> Seq(Update)], NEW S, NEW m, SendOn(box, S, m),
         UNCHANGED <<cut, joined>>,
         \A x \in Port \ {q, Peer[q]} : up'[x],
         \A x \in Port : Hears(q, x, ut'[x], rt'[x], box[x], Warns(q, up, ut)),
         \A y \in Port \cap S :
           /\ Peer[y] \notin cut /\ Speaks(q, y)
           /\ m = News(q, y, Warns(q, up', ut')),
         \A y \in Port \ S : y \in Warns(q, up', ut') <=> y \in Warns(q, up, ut)
  PROVE  Wave(q)'
<1> DEFINE V == Warns(q, up, ut)
           W == Warns(q, up', ut')
<1>1. ASSUME NEW x \in Port
      PROVE  Hears(q, x, ut'[x], rt'[x], inbox'[x], W)
  <2> DEFINE y == Peer[x]
             table == IF LowerEnd(q, y) THEN rt'[x] ELSE ut'[x]
  <2>0. y \in Port /\ Peer[y] = x /\ box[x] \in Seq(Update)
    BY PortParts
  <2>1. inbox'[x] = IF y \in S /\ x \notin cut THEN Append(box[x], m) ELSE box[x]
    BY DEF SendOn
  <2>2. /\ IF LowerEnd(q, y) THEN ut'[x] = {} ELSE rt'[x] = {}
        /\ Speaks(q, y) => Heard(q, y, table, box[x], V)
        /\ ~Speaks(q, y) => box[x] = <<>> /\ ut'[x] = {} /\ rt'[x] = {}
    BY DEF Hears
  <2>3. y \in S => x \notin cut /\ Speaks(q, y) /\ m = News(q, y, W)
    BY <2>0
  <2>4. y \notin S => (y \in W <=> y \in V)
    BY <2>0
  <2>5. Speaks(q, y) => Heard(q, y, table, inbox'[x], W)
    <3> HIDE DEF y, table, V, W
    <3>1. CASE y \in S
      BY <2>0, <2>1, <2>2, <2>3, <3>1, SaidIsHeard
    <3>2. CASE y \notin S
      BY <2>1, <2>2, <2>4, <3>2 DEF Heard, News
    <3> QED
      BY <3>1, <3>2
  <2>6. ~Speaks(q, y) => inbox'[x] = <<>>
    BY <2>1, <2>2, <2>3
  <2> HIDE DEF V, W
  <2> QED
    BY <2>2, <2>5, <2>6 DEF Hears
<1> QED
  BY <1>1 DEF Wave

(* What makes news of each speaker bad.                                    *)
LEMMA WhatWarns ==
  ASSUME FoldedClos, NEW q \in Port, LooksDown(q), NEW y \in Port, NEW u, NEW t
  PROVE  /\ Source(q, y) => (y \in Warns(q, u, t) <=> ~u[q])
         /\ Relay(q, y) => (y \in Warns(q, u, t)
                             <=> \E z \in Toward(NodeOf(y), NodeOf(q)) : t[z] # {})
         /\ Spread(q, y) /\ ~LowerEnd(q, y) =>
              (y \in Warns(q, u, t) <=> \A z \in Uplinks[NodeOf(y)] : t[z] # {})
         /\ Spread(q, y) /\ LowerEnd(q, y) =>
              (y \in Warns(q, u, t) <=> ~u[Peer[q]] /\ Uplinks[NodeOf(y)] = {Peer[q]})
         /\ ~Speaks(q, y) => y \notin Warns(q, u, t)
<1>1. y \in Warns(q, u, t) <=>
        \/ Source(q, y) /\ ~u[q]
        \/ Relay(q, y) /\ \E z \in Toward(NodeOf(y), NodeOf(q)) : t[z] # {}
        \/ Spread(q, y) /\ ~LowerEnd(q, y) /\ \A z \in Uplinks[NodeOf(y)] : t[z] # {}
        \/ Spread(q, y) /\ LowerEnd(q, y) /\ ~u[Peer[q]] /\ Uplinks[NodeOf(y)] = {Peer[q]}
  BY DEF Warns
<1> QED
  BY <1>1, Roles DEF Speaks

(* A port has other news only if something changed at its switch.          *)
LEMMA WarnsIsLocal ==
  ASSUME NEW q \in Port, NEW y \in Port, NEW u, NEW v, NEW s, NEW t,
         u[q] = v[q] \/ ~Source(q, y),
         u[Peer[q]] = v[Peer[q]] \/ ~Spread(q, y) \/ ~LowerEnd(q, y),
         \A z \in PortsOf(NodeOf(y)) : s[z] = {} <=> t[z] = {}
  PROVE  y \in Warns(q, u, s) <=> y \in Warns(q, v, t)
<1>1. Toward(NodeOf(y), NodeOf(q)) \subseteq PortsOf(NodeOf(y))
  BY DEF Toward
<1>2. Uplinks[NodeOf(y)] \subseteq PortsOf(NodeOf(y))
  <2>1. NodeOf(y) \in Node
    BY PortParts
  <2> QED
    BY <2>1 DEF Uplinks
<1> QED
  BY <1>1, <1>2 DEF Warns

-----------------------------------------------------------------------------
(* The ends of the cable notice.                                           *)

(* All ports of a switch but the ends of the cable are up.                 *)
LEMMA OthersAreUp ==
  ASSUME NEW q \in Port, LooksDown(q), FoldedClos, Wave(q), NEW n \in Node
  PROVE  /\ n # NodeOf(Peer[q]) => \A x \in PortsOf(n) \ {q} : up[x] /\ x \notin cut
         /\ n # NodeOf(q) => \A x \in PortsOf(n) \ {Peer[q]} : up[x] /\ x \notin cut
<1>1. \A x \in Port \ {q, Peer[q]} : up[x] /\ x \notin cut
  BY DEF Wave
<1>2. \A x \in PortsOf(n) : x \in Port /\ NodeOf(x) = n
  BY DEF PortsOf
<1> QED
  BY <1>1, <1>2

(* The upper end is never cut off: it is a top spine, or it has uplinks.   *)
LEMMA UpperEndIsNotCutOff ==
  ASSUME NEW q \in Port, LooksDown(q), FoldedClos, Wave(q), NEW u,
         \A x \in PortsOf(NodeOf(q)) \ {q} : u[x]
  PROVE  ~CutOff(NodeOf(q), u)
<1> DEFINE n == NodeOf(q)
<1>1. n \in Node /\ Tier[n] \in {2, 3} /\ (n \in TopSpine <=> Tier[n] = 3)
  BY Ends DEF FoldedClos
<1>2. CASE Tier[n] = 3
  BY <1>1, <1>2 DEF CutOff
<1>3. CASE Tier[n] = 2
  <2>1. PICK z : z \in Uplinks[n]
    BY <1>1, <1>3 DEF FoldedClos
  <2>2. Uplinks[n] = {x \in PortsOf(n) : ~LooksDown(x)} /\ OfferedPorts(n) = Uplinks[n]
    BY <1>1, LinksOfNode DEF Wave
  <2>3. z \in PortsOf(n) /\ z # q
    BY <2>1, <2>2
  <2>4. u[z]
    BY <2>3
  <2> QED
    BY <2>1, <2>2, <2>4 DEF CutOff, Up
<1> QED
  BY <1>1, <1>2, <1>3

(* The upper end tells all other ports of its switch.                      *)
LEMMA UpperEndTells ==
  ASSUME NEW q \in Port, Wave(q), FoldedClos, IInv, PortFails(q) \/ PortRecovers(q)
  PROVE  Wave(q)'
<1> DEFINE n == NodeOf(q)
           S == PortsOf(n) \ {q}
           m == IF PortFails(q) THEN Failure("UNREACHABLE", Roots(q))
                                ELSE Recover("UNREACHABLE", Roots(q))
<1>1. /\ LooksDown(q) /\ n \in Node /\ q \in PortsOf(n) /\ n # NodeOf(Peer[q])
      /\ q \in AcceptedPorts(n) /\ q # Peer[q]
  BY Ends, LinkSets, PortParts DEF Wave
<1>2. \A x \in S : up[x] /\ x \notin cut
  BY <1>1, OthersAreUp
<1>3. /\ inbox \in [Port -> Seq(Update)] /\ up \in [Port -> BOOLEAN]
  BY DEF IInv, TypeOK
<1>4. UNCHANGED <<cut, joined, ut, rt>>
  BY DEF PortFails, PortRecovers, faults
<1>5. up' = [up EXCEPT ![q] = ~PortFails(q)]
  BY DEF PortFails, PortRecovers
<1>6. SendOn(inbox, S, m)
  <2>1. CASE PortFails(q)
    <3> DEFINE u == [up EXCEPT ![q] = FALSE]
    <3>1. TellFailure(n, q, u)
      BY <2>1 DEF PortFails
    <3>2. \A x \in PortsOf(n) \ {q} : u[x]
      BY <1>2, <1>3 DEF PortsOf
    <3>3. ~CutOff(n, u)
      BY <1>1, <3>2, UpperEndIsNotCutOff
    <3>4. Up(PortsOf(n), u) = S
      BY <1>1, <1>3, <3>2 DEF Up, PortsOf
    <3> HIDE DEF u
    <3> QED
      BY <1>1, <2>1, <3>1, <3>3, <3>4 DEF TellFailure
  <2>2. CASE ~PortFails(q)
    <3>1. ~up[q] /\ TellRecovery(n, q, [up EXCEPT ![q] = TRUE])
      BY <2>2 DEF PortRecovers
    <3>2. ~CutOff(n, up)
      BY <1>1, <1>2, UpperEndIsNotCutOff
    <3>3. Up(PortsOf(n), up) = S
      BY <1>1, <1>2, <3>1 DEF Up
    <3> QED
      BY <1>1, <2>2, <3>1, <3>2, <3>3 DEF TellRecovery
  <2> QED
    BY <2>1, <2>2
<1>7. \A x \in Port \ {q, Peer[q]} : up'[x]
  BY <1>3, <1>5 DEF Wave
<1>8. \A x \in Port : Hears(q, x, ut'[x], rt'[x], inbox[x], Warns(q, up, ut))
  BY <1>4 DEF Wave
<1>9. ASSUME NEW y \in Port, y \in S
      PROVE  /\ Peer[y] \notin cut /\ Speaks(q, y)
             /\ m = News(q, y, Warns(q, up', ut'))
  <2>1. Source(q, y) /\ ~LowerEnd(q, y)
    BY <1>1, <1>9, Roles DEF Source, PortsOf
  <2>2. Peer[y] \notin {q, Peer[q]}
    <3>1. NodeOf(y) = n /\ y # q /\ Peer[Peer[y]] = y /\ Peer[Peer[q]] = q
      BY <1>9, PortParts DEF PortsOf
    <3> QED
      BY <1>1, <3>1
  <2>3. y \in Warns(q, up', ut') <=> PortFails(q)
    <3>1. up'[q] <=> ~PortFails(q)
      BY <1>3, <1>5
    <3> QED
      BY <1>1, <2>1, <3>1, WhatWarns
  <2>4. Peer[y] \notin cut
    BY <2>2 DEF Wave
  <2> QED
    BY <2>1, <2>3, <2>4 DEF Speaks, News, BadNews, GoodNews
<1>10. ASSUME NEW y \in Port \ S
       PROVE  y \in Warns(q, up', ut') <=> y \in Warns(q, up, ut)
  <2>1. ~Source(q, y) /\ up'[Peer[q]] = up[Peer[q]]
    BY <1>1, <1>3, <1>5, PortParts DEF Source, PortsOf
  <2> QED
    BY <1>4, <2>1, WarnsIsLocal
<1> HIDE DEF S, m
<1> QED
  BY <1>3, <1>4, <1>6, <1>7, <1>8, <1>9, <1>10, WordSpreads

(* The lower end is blocked by nothing.                                    *)
LEMMA LowerEndIsClean ==
  ASSUME NEW q \in Port, Wave(q), FoldedClos
  PROVE  ut[Peer[q]] = {} /\ rt[Peer[q]] = {} /\ inbox[Peer[q]] = <<>>
<1>1. Peer[q] \in Port /\ Peer[Peer[q]] = q /\ ~Speaks(q, q)
  BY Ends, Roles DEF Wave
<1> QED
  BY <1>1 DEF Wave, Hears

(* The lower end tells those below it, if it was the only uplink.          *)
LEMMA LowerEndTells ==
  ASSUME NEW q \in Port, Wave(q), FoldedClos, IInv,
         PortFails(Peer[q]) \/ PortRecovers(Peer[q])
  PROVE  Wave(q)'
<1> DEFINE p == Peer[q]
           n == NodeOf(p)
           down == {x \in PortsOf(n) : LooksDown(x)}
           S == When(Uplinks[n] = {p}, down)
           m == IF PortFails(p) THEN Failure("REACHABLE", Roots(q))
                                ELSE Recover("REACHABLE", {})
           v == [up EXCEPT ![p] = ~PortFails(p)]
<1>1. /\ LooksDown(q) /\ ~LooksDown(p) /\ p \in Port /\ n \in Node
      /\ p \in PortsOf(n) /\ n # NodeOf(q) /\ q # p /\ n \notin TopSpine
      /\ Tier[n] \in {1, 2}
  <2>1. /\ LooksDown(q) /\ ~LooksDown(p) /\ p \in Port /\ n \in Node
        /\ n # NodeOf(q) /\ Tier[n] \in {1, 2}
    BY Ends DEF Wave
  <2> QED
    BY <2>1, PortParts DEF FoldedClos
<1>2. /\ \A x \in PortsOf(n) \ {p} : up[x] /\ x \notin cut
      /\ p \notin AcceptedPorts(n) /\ p \in OfferedPorts(n)
      /\ AcceptedPorts(n) = down /\ OfferedPorts(n) = Uplinks[n]
      /\ Uplinks[n] \subseteq PortsOf(n) /\ p \in Uplinks[n] /\ p \notin down
  BY <1>1, OthersAreUp, LinksOfNode DEF Wave
<1>3. /\ inbox \in [Port -> Seq(Update)] /\ up \in [Port -> BOOLEAN]
  BY DEF IInv, TypeOK
<1>4. UNCHANGED <<cut, joined, ut, rt>>
  BY DEF PortFails, PortRecovers, faults
<1>5. up' = v
  BY DEF PortFails, PortRecovers
<1>6. Tier[n] = 1 => down = {}
  <2> SUFFICES ASSUME NEW x \in down PROVE Tier[n] # 1
    OBVIOUS
  <2>1. x \in Port /\ NodeOf(x) = n /\ LooksDown(x)
    BY DEF PortsOf
  <2> QED
    BY <2>1, Ends
<1>7. \A w \in {up, v} : Up(AcceptedPorts(n), w) = down
  <2>1. \A x \in down : x \in Port /\ up[x] /\ v[x]
    BY <1>2, <1>3 DEF PortsOf
  <2> QED
    BY <1>2, <2>1 DEF Up
<1>8. ASSUME NEW w \in {up, v}, ~w[p]
      PROVE  Up(OfferedPorts(n), w) = {} <=> Uplinks[n] = {p}
  <2>1. \A x \in Uplinks[n] \ {p} : x \in Port /\ up[x] /\ v[x]
    BY <1>2, <1>3 DEF PortsOf
  <2>2. \A x \in Uplinks[n] \ {p} : w[x]
    BY <1>8, <2>1
  <2> HIDE DEF p, v
  <2> QED
    BY <1>2, <1>8, <2>2 DEF Up
<1>9. n \notin Leaf => AllAccepted(n, v) = Roots(q)
  <2>1. Roots(q) = RootsOf[n]
    BY <1>1, LinkSets
  <2>2. AllAccepted(n, v) = UNION {Roots(x) : x \in down}
    BY <1>7 DEF AllAccepted
  <2>3. \A x \in PortsOf(n) \ down : Roots(x) = {}
    BY DEF Roots
  <2>4. n \notin Leaf => RootsOf[n] = UNION {Roots(x) : x \in PortsOf(n)}
    BY <1>1, RootsAssumption
  <2> HIDE DEF down
  <2>5. down \subseteq PortsOf(n)
    BY DEF down
  <2>6. UNION {Roots(x) : x \in PortsOf(n)} = UNION {Roots(x) : x \in down}
    BY <2>3, <2>5
  <2> QED
    BY <2>1, <2>2, <2>4, <2>6
<1>10. SendOn(inbox, S, m)
  <2>0. down # {} => n \notin Leaf
    BY <1>1, <1>6 DEF Leaf
  <2>1. CASE PortFails(p)
    <3>1. TellFailure(n, p, v)
      BY <2>1 DEF PortFails
    <3>2. ~v[p]
      BY <1>1, <1>3, <2>1
    <3>3. CutOff(n, v) <=> Uplinks[n] = {p}
      BY <1>1, <1>8, <3>2 DEF CutOff
    <3>4. CASE Uplinks[n] = {p}
      <4>1. SendOn(inbox, down, Failure("REACHABLE", AllAccepted(n, v)))
        BY <1>7, <3>1, <3>3, <3>4 DEF TellFailure
      <4>2. CASE down = {}
        BY <3>4, <4>1, <4>2 DEF SendOn, When
      <4>3. CASE down # {}
        BY <1>9, <2>0, <2>1, <3>4, <4>1, <4>3 DEF When
      <4> QED
        BY <4>2, <4>3
    <3>5. CASE Uplinks[n] # {p}
      <4>1. SomeClean(n, ut, rt)
        BY <1>2, LowerEndIsClean DEF SomeClean
      <4>2. PICK b : SendOn(inbox, {}, b)
        BY <1>2, <3>1, <3>3, <3>5, <4>1 DEF TellFailure, When
      <4> QED
        BY <3>5, <4>2 DEF SendOn, When
    <3> QED
      BY <3>4, <3>5
  <2>2. CASE ~PortFails(p)
    <3>1. ~up[p] /\ TellRecovery(n, p, v)
      BY <2>2 DEF PortRecovers
    <3>2. SendOn(inbox, When(Uplinks[n] = {p} /\ n \notin Leaf, down), Recover("REACHABLE", {}))
      BY <1>2, <1>7, <1>8, <3>1 DEF TellRecovery
    <3>3. When(Uplinks[n] = {p} /\ n \notin Leaf, down) = S
      BY <2>0 DEF When
    <3> QED
      BY <2>2, <3>2, <3>3
  <2> QED
    BY <2>1, <2>2
<1>11. \A x \in Port \ {q, p} : up'[x]
  BY <1>3, <1>5 DEF Wave
<1>12. \A x \in Port : Hears(q, x, ut'[x], rt'[x], inbox[x], Warns(q, up, ut))
  BY <1>4 DEF Wave
<1>13. ASSUME NEW y \in Port, y \in S
       PROVE  /\ Peer[y] \notin cut /\ Speaks(q, y)
              /\ m = News(q, y, Warns(q, up', ut'))
  <2>1. y \in down /\ Uplinks[n] = {p}
    BY <1>13 DEF When
  <2>2. Spread(q, y) /\ LowerEnd(q, y)
    BY <1>1, <1>6, <2>1 DEF Spread, LowerEnd, PortsOf
  <2>3. Peer[y] \notin {q, p}
    BY <1>1, <1>2, <2>1, PortParts DEF PortsOf
  <2>4. up'[p] <=> ~PortFails(p)
    BY <1>1, <1>3, <1>5
  <2>5. y \in Warns(q, up', ut') <=> PortFails(p)
    BY <1>1, <2>1, <2>2, <2>4, WhatWarns DEF PortsOf
  <2>6. Peer[y] \notin cut
    BY <2>3 DEF Wave
  <2> QED
    BY <2>2, <2>5, <2>6 DEF Speaks, News, BadNews, GoodNews
<1>14. ASSUME NEW y \in Port \ S
       PROVE  y \in Warns(q, up', ut') <=> y \in Warns(q, up, ut)
  <2>1. up'[q] = up[q]
    BY <1>1, <1>3, <1>5
  <2>2. CASE Spread(q, y) /\ LowerEnd(q, y)
    <3>1. y \in down /\ NodeOf(y) = n
      BY <2>2 DEF Spread, LowerEnd, PortsOf
    <3>2. Uplinks[NodeOf(y)] # {p}
      BY <1>14, <3>1 DEF When
    <3> QED
      BY <1>1, <2>2, <3>2, WhatWarns
  <2>3. CASE ~(Spread(q, y) /\ LowerEnd(q, y))
    BY <1>4, <2>1, <2>3, WarnsIsLocal
  <2> QED
    BY <2>2, <2>3
<1> HIDE DEF S, m, p
<1>15. \A x \in Port \ {q, Peer[q]} : up'[x]
  BY <1>11 DEF p
<1> QED
  BY <1>3, <1>4, <1>10, <1>12, <1>13, <1>14, <1>15, WordSpreads

-----------------------------------------------------------------------------
(* The neighbours hear of it.                                              *)

(* What the update at port x does to the table it concerns.                *)
LEMMA NextWord ==
  ASSUME NEW q \in Port, Wave(q), IInv, NEW x \in Port, inbox[x] # <<>>
  PROVE  LET y == Peer[x]
             m == Head(inbox[x])
             table == IF m = BadNews(q, y) THEN Roots(q) ELSE {}
         IN  /\ Speaks(q, y)
             /\ m \in {BadNews(q, y), GoodNews(q, y)}
             /\ (IF LowerEnd(q, y) THEN rt[x] ELSE ut[x]) \in {{}, Roots(q)}
             /\ (IF LowerEnd(q, y) THEN ut[x] ELSE rt[x]) = {}
             /\ Heard(q, y, table, Consumed(x)[x], Warns(q, up, ut))
<1> DEFINE y == Peer[x]
           W == Warns(q, up, ut)
           old == IF LowerEnd(q, y) THEN rt[x] ELSE ut[x]
<1>1. Hears(q, x, ut[x], rt[x], inbox[x], W)
  BY DEF Wave
<1>2. Speaks(q, y) /\ Heard(q, y, old, inbox[x], W)
  BY <1>1 DEF Hears
<1>3. LooksDown(q) /\ inbox[x] \in Seq(Update) /\ Consumed(x)[x] = Tail(inbox[x])
  BY DEF Wave, IInv, TypeOK, Consumed
<1> HIDE DEF W, old, y
<1>4. /\ Head(inbox[x]) \in {BadNews(q, y), GoodNews(q, y)}
      /\ Heard(q, y, IF Head(inbox[x]) = BadNews(q, y) THEN Roots(q) ELSE {},
               Tail(inbox[x]), W)
  BY <1>2, <1>3, TakenIsHeard
<1>5. old \in {{}, Roots(q)}
  BY <1>2 DEF Heard
<1>6. (IF LowerEnd(q, y) THEN ut[x] ELSE rt[x]) = {}
  BY <1>1 DEF Hears, y
<1> QED
  BY <1>2, <1>3, <1>4, <1>5, <1>6 DEF W, old, y

(* Then what all ports hear is in order again, before anything is sent.    *)
LEMMA ThenAllHear ==
  ASSUME NEW q \in Port, Wave(q), IInv, NEW x \in Port, inbox[x] # <<>>,
         \A z \in Port \ {x} : ut'[z] = ut[z] /\ rt'[z] = rt[z],
         LET table == IF Head(inbox[x]) = BadNews(q, Peer[x]) THEN Roots(q) ELSE {}
         IN  IF LowerEnd(q, Peer[x]) THEN ut'[x] = {} /\ rt'[x] = table
                                     ELSE rt'[x] = {} /\ ut'[x] = table
  PROVE  /\ Consumed(x) \in [Port -> Seq(Update)]
         /\ \A z \in Port :
              Hears(q, z, ut'[z], rt'[z], Consumed(x)[z], Warns(q, up, ut))
<1> DEFINE W == Warns(q, up, ut)
           table == IF Head(inbox[x]) = BadNews(q, Peer[x]) THEN Roots(q) ELSE {}
<1>1. Speaks(q, Peer[x]) /\ Heard(q, Peer[x], table, Consumed(x)[x], W)
  BY NextWord
<1>2. Hears(q, x, ut'[x], rt'[x], Consumed(x)[x], W)
  <2> HIDE DEF W, table
  <2>1. IF LowerEnd(q, Peer[x]) THEN ut'[x] = {} /\ rt'[x] = table
                                ELSE rt'[x] = {} /\ ut'[x] = table
    BY DEF table
  <2> QED
    BY <1>1, <2>1 DEF Hears
<1>3. \A z \in Port \ {x} : Consumed(x)[z] = inbox[z]
  BY DEF Consumed, IInv, TypeOK
<1>4. \A z \in Port : Hears(q, z, ut[z], rt[z], inbox[z], W)
  BY DEF Wave
<1>5. \A z \in Port \ {x} : Hears(q, z, ut'[z], rt'[z], Consumed(x)[z], W)
  <2> HIDE DEF W
  <2> QED
    BY <1>3, <1>4
<1>6. Consumed(x) \in [Port -> Seq(Update)]
  <2>1. SoundInbox(Consumed(x))
    BY ConsumedIsSound DEF IInv
  <2> QED
    BY <2>1 DEF SoundInbox
<1> QED
  BY <1>2, <1>5, <1>6

(* A top spine that hears of the fault below it tells all other spines.    *)
LEMMA FromBelowGoesOn ==
  ASSUME NEW q \in Port, Wave(q), FoldedClos, IInv, NEW x \in Port,
         FailureFromBelow(x) \/ RecoverFromBelow(x)
  PROVE  Wave(q)'
<1> DEFINE s == NodeOf(x)
           S == PortsOf(s) \ {x}
           bad == FailureFromBelow(x)
           m == IF bad THEN BadNews(q, Peer[x]) ELSE GoodNews(q, Peer[x])
           table == IF bad THEN Roots(q) ELSE {}
<1>1. /\ inbox[x] # <<>> /\ x \in AcceptedPorts(s) /\ UNCHANGED <<up, rt, joined, faults>>
      /\ Head(inbox[x]).type = IF bad THEN "FAILURE" ELSE "RECOVER"
  BY DEF FailureFromBelow, RecoverFromBelow, Arrived
<1>2. LooksDown(q) /\ LooksDown(x) /\ ~LooksDown(Peer[x]) /\ Speaks(q, Peer[x])
      /\ Peer[x] \in Port /\ s \in Node /\ x \in PortsOf(s)
  BY <1>1, LinkSets, ClosTiers, NextWord, PortParts DEF Wave
<1>3. Source(q, Peer[x]) /\ ~LowerEnd(q, Peer[x]) /\ NodeOf(Peer[x]) = NodeOf(q)
  BY <1>2, Roles DEF Speaks, Source
<1>4. Tier[NodeOf(q)] = 2 /\ Tier[s] = 3 /\ s # NodeOf(Peer[q]) /\ s # NodeOf(q)
  BY <1>2, <1>3, Ends, ClosTiers
<1>5. Head(inbox[x]) = m
  BY <1>1, NextWord, NewsApart
<1>6. /\ m = IF bad THEN Failure("UNREACHABLE", Roots(q)) ELSE Recover("UNREACHABLE", Roots(q))
      /\ m.roots = Roots(q)
      /\ \A y : ~LowerEnd(q, y) => m = IF bad THEN BadNews(q, y) ELSE GoodNews(q, y)
  BY <1>3 DEF BadNews, GoodNews, Failure, Recover
<1>7. ut[x] \in {{}, Roots(q)} /\ rt[x] = {}
  BY <1>1, <1>3, NextWord
<1>8. ut' = [ut EXCEPT ![x] = table]
  BY <1>5, <1>6, <1>7 DEF FailureFromBelow, RecoverFromBelow
<1>9. Up(S, up) = S /\ \A y \in S : y \notin cut
  <2>1. q \notin PortsOf(s)
    BY <1>4 DEF PortsOf
  <2> QED
    BY <1>2, <1>4, <2>1, OthersAreUp DEF Up
<1>10. SendOn(Consumed(x), S, m)
  BY <1>5, <1>6, <1>9 DEF FailureFromBelow, RecoverFromBelow
<1>11. /\ ut \in [Port -> SUBSET RootVID]
       /\ \A z \in Port \ {x} : ut'[z] = ut[z] /\ rt'[z] = rt[z]
       /\ ut'[x] = table /\ rt'[x] = {}
  BY <1>1, <1>7, <1>8 DEF IInv, TypeOK
<1>12. bad <=> Head(inbox[x]) = BadNews(q, Peer[x])
  BY <1>5, NewsApart
<1>13. /\ Consumed(x) \in [Port -> Seq(Update)]
       /\ \A z \in Port : Hears(q, z, ut'[z], rt'[z], Consumed(x)[z], Warns(q, up, ut))
  <2> HIDE DEF bad
  <2> QED
    BY <1>1, <1>3, <1>11, <1>12, ThenAllHear
<1>14. \A z \in Toward(s, NodeOf(q)) : z = x
  BY <1>3, OneCable DEF Toward, PortsOf
<1>15. x \in Toward(s, NodeOf(q))
  BY <1>2, <1>3 DEF Toward
<1>16. Roots(q) # {}
  BY <1>2, LinkSets
<1>17. ASSUME NEW y \in Port, y \in S
       PROVE  Peer[y] \notin cut /\ Speaks(q, y) /\ m = News(q, y, Warns(q, up', ut'))
  <2>1. NodeOf(y) = s /\ y # x
    BY <1>17 DEF PortsOf
  <2>2. NodeOf(Peer[y]) # NodeOf(q)
    BY <1>3, <2>1, OneCable
  <2>3. Relay(q, y)
    BY <1>4, <1>15, <2>1, <2>2 DEF Relay
  <2>4. y \in Warns(q, up', ut') <=> bad
    <3>1. y \in Warns(q, up', ut') <=> \E z \in Toward(s, NodeOf(q)) : ut'[z] # {}
      BY <1>2, <2>1, <2>3, WhatWarns
    <3> HIDE DEF s
    <3> QED
      BY <1>11, <1>14, <1>15, <1>16, <3>1
  <2>5. ~LowerEnd(q, y)
    BY <1>2, <2>3, Roles
  <2>6. Peer[y] \notin {q, Peer[q]}
    <3>1. Peer[Peer[y]] = y /\ Peer[Peer[q]] = q /\ NodeOf(y) # NodeOf(q) /\ NodeOf(y) # NodeOf(Peer[q])
      BY <1>4, <2>1, PortParts
    <3> QED
      BY <3>1
  <2>7. Peer[y] \notin cut
    BY <2>6 DEF Wave
  <2> HIDE DEF m, bad
  <2> QED
    BY <1>6, <2>3, <2>4, <2>5, <2>7 DEF Speaks, News
<1>18. ASSUME NEW y \in Port \ S
       PROVE  y \in Warns(q, up', ut') <=> y \in Warns(q, up, ut)
  <2>1. CASE Relay(q, y)
    <3>1. x \notin PortsOf(NodeOf(y))
      <4> SUFFICES ASSUME x \in PortsOf(NodeOf(y)) PROVE FALSE
        OBVIOUS
      <4>1. NodeOf(y) = s
        BY DEF PortsOf
      <4>2. y = x
        BY <1>18, <4>1 DEF PortsOf
      <4> QED
        BY <1>3, <2>1, <4>2 DEF Relay
    <3>2. \A z \in PortsOf(NodeOf(y)) : ut'[z] = ut[z]
      BY <1>11, <3>1 DEF PortsOf
    <3> QED
      BY <1>1, <3>2, WarnsIsLocal
  <2>2. CASE Spread(q, y)
    <3>1. x \notin PortsOf(NodeOf(y))
      BY <1>4, <2>2 DEF Spread, PortsOf
    <3>2. \A z \in PortsOf(NodeOf(y)) : ut'[z] = ut[z]
      BY <1>11, <3>1 DEF PortsOf
    <3> QED
      BY <1>1, <3>2, WarnsIsLocal
  <2>3. CASE ~Relay(q, y) /\ ~Spread(q, y)
    BY <1>1, <2>3 DEF Warns
  <2> QED
    BY <2>1, <2>2, <2>3
<1>19. UNCHANGED <<cut, joined>> /\ \A z \in Port \ {q, Peer[q]} : up'[z]
  BY <1>1 DEF faults, Wave
<1> HIDE DEF S, m
<1>20. \A y \in Port \cap S :
         Peer[y] \notin cut /\ Speaks(q, y) /\ m = News(q, y, Warns(q, up', ut'))
  BY <1>17
<1>21. \A y \in Port \ S : y \in Warns(q, up', ut') <=> y \in Warns(q, up, ut)
  BY <1>18
<1> QED
  BY <1>10, <1>13, <1>19, <1>20, <1>21, WordSpreads

(* The table that an update from above does not concern is empty, the      *)
(* other holds the roots below the cable or is empty as well.              *)
LEMMA TablesOfAbove ==
  ASSUME NEW q \in Port, Wave(q), IInv, NEW x \in Port, NEW m, m = Head(inbox[x]),
         FailureFromAbove(x) \/ RecoverFromAbove(x)
  PROVE  /\ \A z \in Port \ {x} : ut'[z] = ut[z] /\ rt'[z] = rt[z]
         /\ LET table == IF m = BadNews(q, Peer[x]) THEN Roots(q) ELSE {}
            IN  IF LowerEnd(q, Peer[x]) THEN ut'[x] = {} /\ rt'[x] = table
                                        ELSE rt'[x] = {} /\ ut'[x] = table
         /\ FailureFromAbove(x) <=> m = BadNews(q, Peer[x])
<1> DEFINE y == Peer[x]
           bad == FailureFromAbove(x)
<1>1. /\ inbox[x] # <<>> /\ m.type = IF bad THEN "FAILURE" ELSE "RECOVER"
      /\ ut \in [Port -> SUBSET RootVID] /\ rt \in [Port -> SUBSET RootVID]
  BY DEF FailureFromAbove, RecoverFromAbove, Arrived, IInv, TypeOK
<1>2. /\ m \in {BadNews(q, y), GoodNews(q, y)}
      /\ (IF LowerEnd(q, y) THEN rt[x] ELSE ut[x]) \in {{}, Roots(q)}
      /\ (IF LowerEnd(q, y) THEN ut[x] ELSE rt[x]) = {}
  BY <1>1, NextWord
<1>3. bad <=> m = BadNews(q, y)
  BY <1>1, <1>2, NewsApart
<1>4. IF bad
      THEN /\ ut' = IF m.option = "UNREACHABLE" THEN [ut EXCEPT ![x] = @ \cup m.roots] ELSE ut
           /\ rt' = [rt EXCEPT ![x] = IF m.option = "UNREACHABLE" THEN {} ELSE m.roots]
      ELSE /\ ut' = IF m.option = "UNREACHABLE" THEN [ut EXCEPT ![x] = @ \ m.roots] ELSE ut
           /\ rt' = IF m.option = "REACHABLE" THEN [rt EXCEPT ![x] = {}] ELSE rt
  BY DEF FailureFromAbove, RecoverFromAbove
<1>5. \A z \in Port \ {x} : ut'[z] = ut[z] /\ rt'[z] = rt[z]
  BY <1>1, <1>4
<1>6. m.option = (IF LowerEnd(q, y) THEN "REACHABLE" ELSE "UNREACHABLE")
  BY <1>2 DEF BadNews, GoodNews, Failure, Recover
<1>7. ~(LowerEnd(q, y) /\ ~bad) => m.roots = Roots(q)
  BY <1>2, <1>3 DEF BadNews, GoodNews, Failure, Recover
<1> HIDE DEF bad, y
<1>8. CASE LowerEnd(q, y)
  <2>1. m.option = "REACHABLE" /\ ut[x] = {}
    BY <1>2, <1>6, <1>8
  <2>2. ut'[x] = {}
    BY <1>4, <2>1
  <2>3. ut'[x] = {} /\ rt'[x] = IF m = BadNews(q, y) THEN Roots(q) ELSE {}
    BY <1>1, <1>4, <1>3, <1>7, <1>8, <2>1, <2>2
  <2> QED
    BY <1>3, <1>5, <1>8, <2>3 DEF bad, y
<1>9. CASE ~LowerEnd(q, y)
  <2>1. m.option = "UNREACHABLE" /\ rt[x] = {} /\ m.roots = Roots(q)
    BY <1>2, <1>6, <1>7, <1>9
  <2>2. rt'[x] = {}
    BY <1>1, <1>4, <2>1
  <2>3. ut'[x] = IF bad THEN ut[x] \cup Roots(q) ELSE ut[x] \ Roots(q)
    BY <1>1, <1>4, <2>1
  <2>4. ut'[x] = IF bad THEN Roots(q) ELSE {}
    BY <1>2, <1>9, <2>3
  <2> QED
    BY <1>3, <1>5, <1>9, <2>2, <2>4 DEF bad, y
<1> QED
  BY <1>8, <1>9

(* An uplink of a switch that is at neither end of the cable.              *)
LEMMA UplinksOfOthers ==
  ASSUME NEW q \in Port, Wave(q), FoldedClos, NEW n \in Node, Tier[n] = 2,
         n # NodeOf(q), n # NodeOf(Peer[q]), NEW z \in Uplinks[n]
  PROVE  /\ z \in Port /\ NodeOf(z) = n /\ ~LooksDown(z) /\ up[z]
         /\ rt[z] = {} /\ ut[z] \in {{}, Roots(q)}
<1>1. z \in PortsOf(n) /\ ~LooksDown(z) /\ LooksDown(q)
  BY LinksOfNode DEF Wave
<1>2. z \in Port /\ NodeOf(z) = n
  BY <1>1 DEF PortsOf
<1>3. z # q /\ z # Peer[q]
  BY <1>2
<1>4. Tier[NodeOf(Peer[z])] = 3
  BY <1>1, <1>2, ClosTiers
<1>5. ~LowerEnd(q, Peer[z])
  BY <1>1, <1>4, Ends DEF LowerEnd
<1>6. rt[z] = {} /\ ut[z] \in {{}, Roots(q)}
  BY <1>2, <1>5 DEF Wave, Hears, Heard
<1> QED
  BY <1>1, <1>2, <1>3, <1>6 DEF Wave

(* What a leaf hears goes no further.                                      *)
LEMMA LeafKeepsToItself ==
  ASSUME NEW q \in Port, Wave(q), FoldedClos, IInv, NEW x \in Port, NodeOf(x) \in Leaf,
         FailureFromAbove(x) \/ RecoverFromAbove(x)
  PROVE  Wave(q)'
<1>1. /\ inbox[x] # <<>> /\ UNCHANGED <<up, joined, faults>>
  BY DEF FailureFromAbove, RecoverFromAbove, Arrived
<1>2. PICK m : SendOn(Consumed(x), {}, m)
  BY DEF FailureFromAbove, RecoverFromAbove, When
<1>3. /\ \A z \in Port \ {x} : ut'[z] = ut[z] /\ rt'[z] = rt[z]
      /\ LET table == IF Head(inbox[x]) = BadNews(q, Peer[x]) THEN Roots(q) ELSE {}
         IN  IF LowerEnd(q, Peer[x]) THEN ut'[x] = {} /\ rt'[x] = table
                                     ELSE rt'[x] = {} /\ ut'[x] = table
  BY TablesOfAbove
<1>4. /\ Consumed(x) \in [Port -> Seq(Update)]
      /\ \A z \in Port : Hears(q, z, ut'[z], rt'[z], Consumed(x)[z], Warns(q, up, ut))
  BY <1>1, <1>3, ThenAllHear
<1>5. \A y \in Port : y \in Warns(q, up', ut') <=> y \in Warns(q, up, ut)
  <2> SUFFICES ASSUME NEW y \in Port
               PROVE  y \in Warns(q, up', ut') <=> y \in Warns(q, up, ut)
    OBVIOUS
  <2>1. CASE Relay(q, y) \/ Spread(q, y)
    <3>1. x \notin PortsOf(NodeOf(y))
      BY <2>1 DEF Relay, Spread, PortsOf, Leaf
    <3>2. \A z \in PortsOf(NodeOf(y)) : ut'[z] = ut[z]
      BY <1>3, <3>1 DEF PortsOf
    <3> QED
      BY <1>1, <3>2, WarnsIsLocal
  <2>2. CASE ~Relay(q, y) /\ ~Spread(q, y)
    BY <1>1, <2>2 DEF Warns
  <2> QED
    BY <2>1, <2>2
<1>6. UNCHANGED <<cut, joined>> /\ \A z \in Port \ {q, Peer[q]} : up'[z]
  BY <1>1 DEF faults, Wave
<1> QED
  BY <1>2, <1>4, <1>5, <1>6, WordSpreads

(* A spine tells its leaves when the last clean uplink is blocked, and when *)
(* the first is clean again.                                               *)
LEMMA SpineTellsItsLeaves ==
  ASSUME NEW q \in Port, Wave(q), FoldedClos, IInv, NEW x \in Port, NodeOf(x) \notin Leaf,
         FailureFromAbove(x) \/ RecoverFromAbove(x)
  PROVE  Wave(q)'
<1> DEFINE s == NodeOf(x)
           bad == FailureFromAbove(x)
           down == {z \in PortsOf(s) : LooksDown(z)}
           c == \A z \in Uplinks[s] : (IF bad THEN ut'[z] ELSE ut[z]) # {}
           S == When(c, down)
           m == IF bad THEN Failure("UNREACHABLE", Roots(q))
                       ELSE Recover("UNREACHABLE", Roots(q))
<1>1. /\ inbox[x] # <<>> /\ x \in OfferedPorts(s)
      /\ UNCHANGED <<up, joined, faults>>
  BY DEF FailureFromAbove, RecoverFromAbove, Arrived
<1>2. /\ LooksDown(q) /\ s \in Node /\ x \in Uplinks[s] /\ ~LooksDown(x)
      /\ Uplinks[s] = {z \in PortsOf(s) : ~LooksDown(z)}
      /\ OfferedPorts(s) = Uplinks[s] /\ AcceptedPorts(s) = down
      /\ Peer[x] \in Port /\ LooksDown(Peer[x]) /\ Speaks(q, Peer[x])
  <2>1. s \in Node /\ joined = Port /\ LooksDown(q)
    BY PortParts DEF Wave
  <2>2. x \in Uplinks[s] /\ ~LooksDown(x)
    BY <1>1, <2>1, LinksOfNode
  <2> QED
    BY <1>1, <2>1, <2>2, LinksOfNode, ClosTiers, NextWord
<1>3. Tier[s] = 2 /\ Tier[NodeOf(Peer[x])] = 3
  <2>1. Tier[s] # 1 /\ Tier[s] \in {1, 2, 3} /\ Tier[NodeOf(Peer[x])] = Tier[s] + 1
    BY <1>2, ClosTiers DEF Leaf
  <2>2. Tier[NodeOf(Peer[x])] \in {1, 2, 3}
    BY <1>2, ClosTiers
  <2> QED
    BY <2>1, <2>2
<1>4. s # NodeOf(q) /\ s # NodeOf(Peer[q]) /\ ~LowerEnd(q, Peer[x])
  <2>1. ~LowerEnd(q, Peer[x]) /\ ~Spread(q, Peer[x])
    BY <1>2, <1>3, Ends DEF LowerEnd, Spread
  <2>2. CASE Source(q, Peer[x])
    <3>1. Tier[NodeOf(q)] = 3 /\ Peer[x] # q /\ NodeOf(Peer[x]) = NodeOf(q)
      BY <1>3, <2>2 DEF Source
    <3>2. s = NodeOf(Peer[q]) => x = Peer[q]
      BY <1>2, <3>1, Ends, OneCable
    <3> QED
      BY <1>2, <1>3, <2>1, <3>1, <3>2, Ends
  <2>3. CASE Relay(q, Peer[x])
    <3>1. Tier[NodeOf(q)] = 2 /\ s # NodeOf(q)
      BY <1>2, <2>3, Roles, PortParts DEF Relay
    <3> QED
      BY <1>2, <1>3, <2>1, <3>1, Ends
  <2> QED
    BY <1>2, <2>1, <2>2, <2>3 DEF Speaks
<1>5. /\ \A z \in Port \ {x} : ut'[z] = ut[z] /\ rt'[z] = rt[z]
      /\ rt'[x] = {} /\ ut'[x] = IF bad THEN Roots(q) ELSE {}
      /\ bad <=> Head(inbox[x]) = BadNews(q, Peer[x])
  BY <1>4, TablesOfAbove
<1>6. /\ Consumed(x) \in [Port -> Seq(Update)]
      /\ \A z \in Port : Hears(q, z, ut'[z], rt'[z], Consumed(x)[z], Warns(q, up, ut))
  <2> HIDE DEF bad
  <2> QED
    BY <1>1, <1>4, <1>5, ThenAllHear
<1>7. Roots(q) # {}
  BY <1>2, LinkSets
<1>8. \A z \in Uplinks[s] :
        /\ z \in Port /\ NodeOf(z) = s /\ ~LooksDown(z) /\ up[z]
        /\ rt[z] = {} /\ rt'[z] = {}
        /\ ut[z] \in {{}, Roots(q)} /\ ut'[z] \in {{}, Roots(q)}
  <2>1. \A z \in Uplinks[s] :
          /\ z \in Port /\ NodeOf(z) = s /\ ~LooksDown(z) /\ up[z]
          /\ rt[z] = {} /\ ut[z] \in {{}, Roots(q)}
    BY <1>2, <1>3, <1>4, UplinksOfOthers
  <2> QED
    BY <1>5, <2>1
<1>9. Up(OfferedPorts(s), up) = Uplinks[s]
  BY <1>2, <1>8 DEF Up
<1>10. \A z \in down : z \in Port /\ NodeOf(z) = s /\ up[z] /\ Peer[z] \notin {q, Peer[q]}
  <2> SUFFICES ASSUME NEW z \in down
               PROVE  z \in Port /\ NodeOf(z) = s /\ up[z] /\ Peer[z] \notin {q, Peer[q]}
    OBVIOUS
  <2>1. z \in Port /\ NodeOf(z) = s
    BY DEF PortsOf
  <2>2. z \notin {q, Peer[q]}
    BY <1>4, <2>1
  <2> QED
    BY <1>2, <2>1, <2>2, PortParts DEF Wave
<1>11. Up(AcceptedPorts(s), up) = down
  BY <1>2, <1>10 DEF Up
<1>12. SendOn(Consumed(x), S, m)
  <2>1. \A z \in Uplinks[s] : ut'[z] \subseteq Roots(q)
    BY <1>8
  <2>2. Blocked(s, up, ut') = UNION {ut'[z] : z \in Uplinks[s]}
    BY <1>9 DEF Blocked
  <2>3. CASE bad
    <3>1. SendOn(Consumed(x), When(s \notin Leaf /\ ~SomeClean(s, ut', rt')
                                     /\ Blocked(s, up, ut') # {}, down),
                 Failure("UNREACHABLE", Blocked(s, up, ut')))
      BY <1>11, <2>3 DEF FailureFromAbove
    <3>2. Blocked(s, up, ut') = Roots(q)
      <4>1. ut'[x] = Roots(q)
        BY <1>5, <2>3
      <4> HIDE DEF s
      <4> QED
        BY <1>2, <2>1, <2>2, <4>1
    <3>3. ~SomeClean(s, ut', rt') <=> c
      BY <1>2, <1>8, <2>3 DEF SomeClean
    <3> HIDE DEF c, down, s
    <3> QED
      BY <1>7, <2>3, <3>1, <3>2, <3>3 DEF s, When
  <2>4. CASE ~bad
    <3> DEFINE w == Head(inbox[x])
               b == When(SomeClean(s, ut', rt'), Blocked(s, up, ut'))
    <3>1. w = Recover("UNREACHABLE", Roots(q))
      BY <1>1, <1>4, <1>5, <2>4, NextWord DEF GoodNews
    <3>2. w.option = "UNREACHABLE" /\ w.roots = Roots(q)
      BY <3>1 DEF Recover
    <3>3. SendOn(Consumed(x),
                 When(s \notin Leaf /\ ~SomeClean(s, ut, rt)
                        /\ (w.option = "REACHABLE" => b # {}), down),
                 Recover("UNREACHABLE", b \cup When(w.option = "UNREACHABLE", w.roots)))
      <4>1. RecoverFromAbove(x)
        BY <2>4
      <4> QED
        BY <1>11, <4>1 DEF RecoverFromAbove
    <3>4. b \cup When(w.option = "UNREACHABLE", w.roots) = Roots(q)
      <4>1. Blocked(s, up, ut') \subseteq Roots(q)
        <5> HIDE DEF s
        <5> QED
          BY <2>1, <2>2
      <4> HIDE DEF w
      <4> QED
        BY <3>2, <4>1 DEF When
    <3>5. ~SomeClean(s, ut, rt) <=> c
      BY <1>2, <1>8, <2>4 DEF SomeClean
    <3>6. w.option # "REACHABLE"
      BY <3>2
    <3> HIDE DEF c, down, s, w, b
    <3> QED
      BY <2>4, <3>3, <3>4, <3>5, <3>6 DEF s
  <2> QED
    BY <2>3, <2>4
<1>13. ASSUME NEW y \in Port, y \in S
       PROVE  Peer[y] \notin cut /\ Speaks(q, y) /\ m = News(q, y, Warns(q, up', ut'))
  <2>1. y \in down /\ c
    BY <1>13 DEF When
  <2>2. Spread(q, y) /\ ~LowerEnd(q, y) /\ NodeOf(y) = s
    BY <1>3, <1>4, <1>10, <2>1 DEF Spread, LowerEnd
  <2>3. y \in Warns(q, up', ut') <=> \A z \in Uplinks[s] : ut'[z] # {}
    BY <1>2, <2>2, WhatWarns
  <2>4. y \in Warns(q, up', ut') <=> bad
    BY <1>2, <1>5, <2>1, <2>3
  <2>5. Peer[y] \notin cut
    BY <1>10, <2>1 DEF Wave
  <2> HIDE DEF bad
  <2> QED
    BY <2>2, <2>4, <2>5 DEF Speaks, News, BadNews, GoodNews
<1>14. ASSUME NEW y \in Port \ S
       PROVE  y \in Warns(q, up', ut') <=> y \in Warns(q, up, ut)
  <2>1. CASE y \in down
    <3>1. Spread(q, y) /\ ~LowerEnd(q, y) /\ NodeOf(y) = s
      BY <1>3, <1>4, <1>10, <2>1 DEF Spread, LowerEnd
    <3>2. /\ y \in Warns(q, up', ut') <=> \A z \in Uplinks[s] : ut'[z] # {}
          /\ y \in Warns(q, up, ut) <=> \A z \in Uplinks[s] : ut[z] # {}
      <4> HIDE DEF S, down
      <4>1. y \in Warns(q, up', ut') <=> \A z \in Uplinks[s] : ut'[z] # {}
        BY <1>2, <3>1, WhatWarns
      <4>2. y \in Warns(q, up, ut) <=> \A z \in Uplinks[s] : ut[z] # {}
        BY <1>2, <3>1, WhatWarns
      <4> QED
        BY <4>1, <4>2
    <3>3. ~c
      BY <1>14, <2>1 DEF When
    <3>4. PICK z \in Uplinks[s] : (IF bad THEN ut'[z] ELSE ut[z]) = {}
      BY <3>3
    <3>5. CASE bad
      <4>1. ut'[z] = {} /\ ut[z] = {}
        BY <1>5, <1>7, <1>8, <3>4, <3>5
      <4> QED
        BY <3>2, <4>1
    <3>6. CASE ~bad
      <4>1. ut[z] = {} /\ ut'[x] = {}
        BY <1>5, <3>4, <3>6
      <4> QED
        BY <1>2, <3>2, <4>1
    <3> QED
      BY <3>5, <3>6
  <2>2. CASE y \notin down
    <3>1. CASE Relay(q, y) \/ Spread(q, y)
      <4>1. x \notin PortsOf(NodeOf(y))
        BY <1>2, <1>3, <2>2, <3>1, Roles DEF Relay, PortsOf
      <4>2. \A z \in PortsOf(NodeOf(y)) : ut'[z] = ut[z]
        BY <1>5, <4>1 DEF PortsOf
      <4> QED
        BY <1>1, <4>2, WarnsIsLocal
    <3>2. CASE ~Relay(q, y) /\ ~Spread(q, y)
      BY <1>1, <3>2 DEF Warns
    <3> QED
      BY <3>1, <3>2
  <2> QED
    BY <2>1, <2>2
<1>15. UNCHANGED <<cut, joined>> /\ \A z \in Port \ {q, Peer[q]} : up'[z]
  BY <1>1 DEF faults, Wave
<1> HIDE DEF S, m
<1>16. \A y \in Port \cap S :
         Peer[y] \notin cut /\ Speaks(q, y) /\ m = News(q, y, Warns(q, up', ut'))
  BY <1>13
<1>17. \A y \in Port \ S : y \in Warns(q, up', ut') <=> y \in Warns(q, up, ut)
  BY <1>14
<1> QED
  BY <1>6, <1>12, <1>15, <1>16, <1>17, WordSpreads

-----------------------------------------------------------------------------
(* Once the wave is through, the tables are what their speakers have to    *)
(* say.                                                                    *)
LEMMA SettledTable ==
  ASSUME NEW q \in Port, Wave(q), FoldedClos, Quiet, NEW x \in Port
  PROVE  LET y == Peer[x]
             W == Warns(q, up, ut)
         IN  /\ ~LowerEnd(q, y) => rt[x] = {} /\ ut[x] \in {{}, Roots(q)}
             /\ LowerEnd(q, y) => ut[x] = {} /\ rt[x] \in {{}, Roots(q)}
             /\ (ut[x] # {} \/ rt[x] # {}) <=> y \in W
             /\ y \in W => Speaks(q, y)
<1> DEFINE y == Peer[x]
           W == Warns(q, up, ut)
           table == IF LowerEnd(q, y) THEN rt[x] ELSE ut[x]
<1>1. Hears(q, x, ut[x], rt[x], inbox[x], W) /\ LooksDown(q)
  BY DEF Wave
<1>2. inbox[x] = <<>> /\ y \in Port
  BY PortParts DEF Quiet
<1>3. IF LowerEnd(q, y) THEN ut[x] = {} ELSE rt[x] = {}
  BY <1>1 DEF Hears
<1>4. Speaks(q, y) => table \in {{}, Roots(q)} /\ (table # {} <=> y \in W)
  BY <1>1, <1>2 DEF Hears, Heard
<1>5. ~Speaks(q, y) => ut[x] = {} /\ rt[x] = {}
  BY <1>1 DEF Hears
<1>6. y \in W => Speaks(q, y)
  BY <1>1, <1>2, WhatWarns
<1> HIDE DEF W, y
<1> QED
  BY <1>3, <1>4, <1>5, <1>6 DEF W, y

(* As long as both ends are up nobody has anything bad to say.             *)
LEMMA NothingToWarnOf ==
  ASSUME NEW q \in Port, Wave(q), FoldedClos, Quiet, up[q], up[Peer[q]],
         NEW y \in Port
  PROVE  y \notin Warns(q, up, ut)
<1> DEFINE W == Warns(q, up, ut)
<1>1. LooksDown(q)
  BY DEF Wave
<1>2. ASSUME NEW z \in Port, Source(q, z) PROVE z \notin W
  BY <1>1, <1>2, WhatWarns
<1>3. ASSUME NEW z \in Port, Relay(q, z) PROVE z \notin W
  <2> SUFFICES ASSUME NEW x \in Toward(NodeOf(z), NodeOf(q)) PROVE ut[x] = {}
    BY <1>1, <1>3, WhatWarns
  <2>1. x \in Port /\ NodeOf(x) = NodeOf(z) /\ NodeOf(Peer[x]) = NodeOf(q)
    BY DEF Toward, PortsOf
  <2>2. Peer[x] \in Port /\ ~LowerEnd(q, Peer[x])
    BY <1>1, <2>1, PortParts, Ends DEF LowerEnd
  <2>3. Peer[x] \notin W
    <3>1. ~Relay(q, Peer[x]) /\ ~Spread(q, Peer[x])
      BY <1>1, <1>3, <2>1, <2>2, Roles
    <3> QED
      BY <1>1, <1>2, <2>2, <3>1, WhatWarns DEF Speaks
  <2> QED
    BY <2>1, <2>3, SettledTable
<1>4. ASSUME NEW z \in Port, Spread(q, z) PROVE z \notin W
  <2>1. CASE LowerEnd(q, z)
    BY <1>1, <1>4, <2>1, WhatWarns
  <2>2. CASE ~LowerEnd(q, z)
    <3>1. NodeOf(z) \in Node /\ Tier[NodeOf(z)] = 2
      BY <1>4, PortParts DEF Spread
    <3>2. PICK x : x \in Uplinks[NodeOf(z)]
      BY <3>1 DEF FoldedClos
    <3>3. x \in Port /\ NodeOf(x) = NodeOf(z) /\ ~LooksDown(x)
      BY <3>1, <3>2, LinksOfNode DEF Wave, PortsOf
    <3>4. Peer[x] \in Port /\ Tier[NodeOf(Peer[x])] = 3
      BY <3>1, <3>3, ClosTiers
    <3>5. Peer[x] \notin W
      <4>1. ~Spread(q, Peer[x])
        BY <3>4 DEF Spread
      <4> QED
        BY <1>1, <1>2, <1>3, <3>4, <4>1, WhatWarns DEF Speaks
    <3>6. ut[x] = {}
      BY <3>3, <3>5, SettledTable
    <3> QED
      BY <1>1, <1>4, <2>2, <3>2, <3>6, WhatWarns
  <2> QED
    BY <2>1, <2>2
<1> HIDE DEF W
<1>5. ~Speaks(q, y) => y \notin W
  BY <1>1, WhatWarns DEF W
<1> QED
  BY <1>2, <1>3, <1>4, <1>5 DEF W, Speaks

LEMMA HealedWave ==
  ASSUME NEW q \in Port, Wave(q), FoldedClos, Quiet, cut = {}
  PROVE  Clean
<1>1. \A x \in Port : up[x] /\ inbox[x] = <<>>
  BY DEF Quiet
<1>2. ASSUME NEW x \in Port PROVE ut[x] = {} /\ rt[x] = {}
  <2>1. Peer[x] \in Port /\ Peer[q] \in Port
    BY PortParts
  <2>2. Peer[x] \notin Warns(q, up, ut)
    BY <1>1, <2>1, NothingToWarnOf
  <2> QED
    BY <2>2, SettledTable
<1> QED
  BY <1>1, <1>2 DEF Clean, Wave

-----------------------------------------------------------------------------
(* Cables are cut and mended.                                              *)

(* A cable that is cut where nothing is wrong starts a wave.               *)
LEMMA CutStartsWave ==
  ASSUME Clean, FoldedClos, NEW x \in Port, Cut(x)
  PROVE  \E q \in Port : Wave(q)'
<1>1. PICK q \in Port : LooksDown(q) /\ cut' = {q, Peer[q]}
  <2>1. Peer[x] \in Port /\ Peer[Peer[x]] = x /\ (LooksDown(x) \/ LooksDown(Peer[x]))
    BY ClosTiers
  <2>2. cut' = {x, Peer[x]}
    BY DEF Cut, Clean
  <2>3. cut' = {Peer[x], Peer[Peer[x]]}
    BY <2>1, <2>2
  <2> QED
    BY <2>1, <2>2, <2>3
<1>2. UNCHANGED <<up, ut, rt, inbox, joined>>
  BY DEF Cut
<1>3. Peer[q] \in Port
  BY PortParts
<1>4. ASSUME NEW z \in Port PROVE Hears(q, z, {}, {}, <<>>, Warns(q, up, ut))
  <2>1. Peer[z] \in Port
    BY PortParts
  <2>2. Peer[z] \notin Warns(q, up, ut)
    <3>1. CASE Spread(q, Peer[z]) /\ ~LowerEnd(q, Peer[z])
      <4>1. NodeOf(Peer[z]) \in Node /\ Tier[NodeOf(Peer[z])] = 2
        BY <2>1, <3>1, PortParts DEF Spread
      <4>2. PICK w : w \in Uplinks[NodeOf(Peer[z])]
        BY <4>1 DEF FoldedClos
      <4>3. w \in Port
        BY <4>1, <4>2 DEF Uplinks, PortsOf
      <4>4. ut[w] = {}
        BY <4>3 DEF Clean
      <4> QED
        BY <1>1, <2>1, <3>1, <4>2, <4>4, WhatWarns
    <3>2. CASE ~(Spread(q, Peer[z]) /\ ~LowerEnd(q, Peer[z]))
      <4>1. up[q] /\ up[Peer[q]]
        BY <1>3 DEF Clean
      <4>2. \A w \in Toward(NodeOf(Peer[z]), NodeOf(q)) : ut[w] = {}
        BY DEF Toward, PortsOf, Clean
      <4> QED
        BY <3>2, <4>1, <4>2 DEF Warns
    <3> QED
      BY <3>1, <3>2
  <2>3. Len(<<>>) = 0
    OBVIOUS
  <2> QED
    BY <2>2, <2>3 DEF Hears, Heard
<1>5. \A z \in Port : Hears(q, z, ut[z], rt[z], inbox[z], Warns(q, up, ut))
  BY <1>4 DEF Clean
<1>6. joined = Port /\ \A z \in Port : up[z]
  BY DEF Clean
<1>7. Wave(q)'
  BY <1>1, <1>2, <1>5, <1>6 DEF Wave
<1> QED
  BY <1>7

LEMMA MendKeepsWave ==
  ASSUME NEW q \in Port, Wave(q), NEW x \in Port, Mend(x)
  PROVE  Wave(q)'
<1>1. cut' = {}
  <2>1. cut = {q, Peer[q]} /\ x \in {q, Peer[q]}
    BY DEF Wave, Mend
  <2>2. Peer[Peer[q]] = q
    BY PortParts
  <2> QED
    BY <2>1, <2>2 DEF Mend
<1>2. UNCHANGED <<up, ut, rt, inbox, joined>>
  BY DEF Mend
<1> QED
  BY <1>1, <1>2 DEF Wave

-----------------------------------------------------------------------------
(* Leaves restart.                                                         *)

(* An update that blocks a root is sent, or one that does not free it.     *)
LEMMA SaidBlocks ==
  ASSUME NEW r, NEW table, NEW box \in Seq(Update), NEW m \in Update,
         Blocks(m, r) \/ (WillBlock(r, table, box) /\ ~Frees(m, r))
  PROVE  WillBlock(r, table, Append(box, m))
<1> DEFINE new == Append(box, m)
<1>1. PICK k \in Nat : k = Len(box)
  BY LenProperties
<1>2. /\ Len(new) = k + 1 /\ new[k + 1] = m
      /\ \A i \in 1 .. k : new[i] = box[i]
  BY <1>1, AppendProperties
<1> HIDE DEF new
<1>3. CASE Blocks(m, r)
  BY <1>2, <1>3 DEF WillBlock
<1>4. CASE WillBlock(r, table, box) /\ ~Frees(m, r)
  <2>1. \A i \in 1 .. k + 1 : i \in 1 .. k \/ (i = k + 1 /\ ~Frees(new[i], r))
    BY <1>2, <1>4
  <2>2. CASE r \in table /\ \A i \in 1 .. k : ~Frees(box[i], r)
    BY <1>2, <2>1, <2>2 DEF WillBlock
  <2>3. ASSUME NEW j \in 1 .. k, Blocks(box[j], r),
               \A i \in 1 .. k : i > j => ~Frees(box[i], r)
        PROVE  WillBlock(r, table, new)
    <3>1. j \in 1 .. k + 1 /\ Blocks(new[j], r)
      BY <1>2, <2>3
    <3>2. \A i \in 1 .. k + 1 : i > j => ~Frees(new[i], r)
      <4> SUFFICES ASSUME NEW i \in 1 .. k + 1, i > j PROVE ~Frees(new[i], r)
        OBVIOUS
      <4>1. i \in 1 .. k => ~Frees(box[i], r) /\ new[i] = box[i]
        BY <1>2, <2>3
      <4> QED
        BY <2>1, <4>1
    <3> QED
      BY <1>2, <3>1, <3>2 DEF WillBlock
  <2>4. \/ r \in table /\ \A i \in 1 .. k : ~Frees(box[i], r)
        \/ \E j \in 1 .. k : Blocks(box[j], r) /\ \A i \in 1 .. k : i > j => ~Frees(box[i], r)
    BY <1>1, <1>4 DEF WillBlock
  <2> QED
    BY <2>2, <2>3, <2>4 DEF new
<1> QED
  BY <1>3, <1>4 DEF new

(* The first update is taken, and changes the table by what it says.       *)
LEMMA TakenBlocks ==
  ASSUME NEW r, NEW table, NEW box \in Seq(Update), box # <<>>, WillBlock(r, table, box),
         NEW after, Blocks(Head(box), r) => r \in after,
         r \in table /\ ~Frees(Head(box), r) => r \in after
  PROVE  WillBlock(r, after, Tail(box))
<1> DEFINE rest == Tail(box)
<1>1. PICK k \in Nat : Len(box) = k + 1
  <2>1. Len(box) \in Nat \ {0}
    BY EmptySeq, LenProperties
  <2>2. Len(box) = (Len(box) - 1) + 1 /\ Len(box) - 1 \in Nat
    BY <2>1
  <2> QED
    BY <2>2
<1>2. /\ Len(rest) = k /\ Head(box) = box[1]
      /\ \A i \in 1 .. k : rest[i] = box[i + 1]
  BY <1>1, HeadTailProperties
<1> HIDE DEF rest
<1>3. CASE r \in table /\ \A i \in 1 .. k + 1 : ~Frees(box[i], r)
  <2>1. r \in after
    BY <1>2, <1>3
  <2>2. \A i \in 1 .. k : ~Frees(rest[i], r)
    BY <1>2, <1>3
  <2> QED
    BY <1>2, <2>1, <2>2 DEF WillBlock, rest
<1>4. ASSUME NEW j \in 1 .. k + 1, Blocks(box[j], r),
             \A i \in 1 .. k + 1 : i > j => ~Frees(box[i], r)
      PROVE  WillBlock(r, after, rest)
  <2>1. CASE j = 1
    <3>1. r \in after /\ \A i \in 1 .. k : ~Frees(rest[i], r)
      BY <1>2, <1>4, <2>1
    <3> QED
      BY <1>2, <3>1 DEF WillBlock
  <2>2. CASE j # 1
    <3>1. j - 1 \in 1 .. k /\ Blocks(rest[j - 1], r)
      BY <1>2, <1>4, <2>2
    <3>2. \A i \in 1 .. k : i > j - 1 => ~Frees(rest[i], r)
      BY <1>2, <1>4, <2>2
    <3> QED
      BY <1>2, <3>1, <3>2 DEF WillBlock
  <2> QED
    BY <2>1, <2>2
<1>5. \/ r \in table /\ \A i \in 1 .. k + 1 : ~Frees(box[i], r)
      \/ \E j \in 1 .. k + 1 :
           Blocks(box[j], r) /\ \A i \in 1 .. k + 1 : i > j => ~Frees(box[i], r)
  BY <1>1 DEF WillBlock
<1> QED
  BY <1>3, <1>4, <1>5 DEF rest

(* The uplinks of a spine are not at a leaf, and stay in use.              *)
LEMMA SpinesStayUp ==
  ASSUME Rejoining, FoldedClos, IInv, NEW s \in Node, Tier[s] = 2
  PROVE  /\ OfferedPorts(s) = Uplinks[s] /\ Uplinks[s] # {}
         /\ \A z \in Uplinks[s] : /\ z \in Port /\ NodeOf(z) = s /\ ~LooksDown(z)
                                  /\ ~AtRestarted(z) /\ up[z]
         /\ \A u : (\A z \in Uplinks[s] : u[z]) => ~CutOff(s, u)
<1>1. ASSUME NEW z \in Uplinks[s]
      PROVE  /\ z \in Port /\ NodeOf(z) = s /\ ~LooksDown(z)
             /\ ~AtRestarted(z) /\ up[z] /\ z \in joined
  <2>1. z \in Port /\ NodeOf(z) = s
    BY DEF Uplinks, PortsOf
  <2>2. ~LooksDown(z)
    BY <2>1, LinkSets
  <2>3. Tier[NodeOf(Peer[z])] = 3
    BY <2>1, <2>2, ClosTiers
  <2>4. ~AtRestarted(z)
    BY <2>1, <2>3 DEF AtRestarted, IInv, TypeOK, Leaf
  <2> QED
    BY <2>1, <2>2, <2>4 DEF Rejoining
<1>2. OfferedPorts(s) = Uplinks[s]
  BY <1>1 DEF OfferedPorts
<1>3. Uplinks[s] # {}
  BY DEF FoldedClos
<1>4. ASSUME NEW u, \A z \in Uplinks[s] : u[z] PROVE ~CutOff(s, u)
  BY <1>2, <1>3, <1>4 DEF CutOff, Up
<1> QED
  BY <1>1, <1>2, <1>3, <1>4

(* The switch across from a leaf.                                          *)
LEMMA AboveLeaf ==
  ASSUME FoldedClos, NEW z \in Port, NodeOf(z) \in Leaf
  PROVE  /\ Tier[NodeOf(z)] = 1 /\ Tier[NodeOf(Peer[z])] = 2
         /\ NodeOf(Peer[z]) \in Node /\ NodeOf(Peer[z]) \notin Leaf
         /\ Peer[z] \in Port /\ LooksDown(Peer[z]) /\ ~LooksDown(z)
         /\ Uplinks[NodeOf(Peer[z])] \subseteq {w \in Port : NodeOf(w) = NodeOf(Peer[z])}
<1>1. Tier[NodeOf(z)] = 1
  BY DEF Leaf
<1>2. ~LooksDown(z)
  <2>1. Tier[NodeOf(Peer[z])] \in {1, 2, 3}
    BY ClosTiers, PortParts
  <2> QED
    BY <1>1, <2>1, ClosTiers
<1>3. Tier[NodeOf(Peer[z])] = 2
  BY <1>1, <1>2, ClosTiers
<1>4. NodeOf(Peer[z]) \in Node
  BY ClosTiers
<1>5. Uplinks[NodeOf(Peer[z])] \subseteq {w \in Port : NodeOf(w) = NodeOf(Peer[z])}
  BY <1>4 DEF Uplinks, PortsOf
<1> QED
  BY <1>1, <1>2, <1>3, <1>4, <1>5, ClosTiers DEF Leaf

(* What a step has to show: the ports S say m.                             *)
LEMMA RejoinGoesOn ==
  ASSUME Rejoining, NEW box \in [Port -> Seq(Update)], NEW S, NEW m \in Update,
         SendOn(box, S, m), UNCHANGED faults,
         \A x \in Port :
           /\ ~up'[x] \/ x \notin joined' => AtRestarted(x)
           /\ NodeOf(x) \in Leaf => (up'[x] <=> x \in joined')
           /\ rt'[x] = {} /\ ut'[x] \subseteq Forgotten
           /\ \A i \in 1 .. Len(box[x]) : Rejoins(x, box[x][i])
           /\ Peer[x] \in S => Rejoins(x, m),
         \A x \in Port : NodeOf(x) \in Leaf \ restarted =>
           \A r \in RootVID : NoUplink(NodeOf(Peer[x]), r, ut') =>
             \/ Peer[x] \in S /\ Blocks(m, r)
             \/ /\ WillBlock(r, ut'[x], box[x])
                /\ Peer[x] \in S => ~Frees(m, r)
  PROVE  Rejoining'
<1>1. cut' = {} /\ restarted' = restarted /\ cut = {}
  BY DEF faults, Rejoining
<1>2. ASSUME NEW x \in Port
      PROVE  /\ \A i \in 1 .. Len(inbox'[x]) : Rejoins(x, inbox'[x][i])
             /\ Told(x, ut', inbox')
  <2>1. box[x] \in Seq(Update)
    OBVIOUS
  <2>2. CASE Peer[x] \in S
    <3>1. inbox'[x] = Append(box[x], m)
      BY <1>1, <2>2 DEF SendOn
    <3>2. PICK k \in Nat : k = Len(box[x])
      BY <2>1, LenProperties
    <3>3. /\ Len(Append(box[x], m)) = k + 1 /\ Append(box[x], m)[k + 1] = m
          /\ \A i \in 1 .. k : Append(box[x], m)[i] = box[x][i]
      BY <2>1, <3>2, AppendProperties
    <3>4. \A i \in 1 .. k + 1 : Rejoins(x, Append(box[x], m)[i])
      <4>1. \A i \in 1 .. k + 1 : i \in 1 .. k \/ i = k + 1
        OBVIOUS
      <4>2. \A i \in 1 .. k : Rejoins(x, box[x][i])
        BY <3>2
      <4> QED
        BY <2>2, <3>3, <4>1, <4>2
    <3>5. Told(x, ut', inbox')
      <4> SUFFICES ASSUME NodeOf(x) \in Leaf \ restarted, NEW r \in RootVID,
                          NoUplink(NodeOf(Peer[x]), r, ut')
                   PROVE  WillBlock(r, ut'[x], Append(box[x], m))
        BY <3>1 DEF Told
      <4>1. Blocks(m, r) \/ (WillBlock(r, ut'[x], box[x]) /\ ~Frees(m, r))
        BY <2>2
      <4> QED
        BY <2>1, <4>1, SaidBlocks
    <3> QED
      BY <3>1, <3>3, <3>4, <3>5
  <2>3. CASE Peer[x] \notin S
    <3>1. inbox'[x] = box[x]
      BY <2>3 DEF SendOn
    <3> QED
      BY <2>3, <3>1 DEF Told
  <2> QED
    BY <2>2, <2>3
<1>3. /\ \A x \in Port : AtRestarted(x)' <=> AtRestarted(x)
      /\ Forgotten' = Forgotten
      /\ \A x, n : Rejoins(x, n)' <=> Rejoins(x, n)
      /\ \A x \in Port : Told(x, ut, inbox)' <=> Told(x, ut', inbox')
  BY <1>1 DEF AtRestarted, Forgotten, Rejoins, Told
<1> QED
  BY <1>1, <1>2, <1>3 DEF Rejoining

(* The same of a step that says nothing.                                   *)
LEMMA RejoinSilently ==
  ASSUME Rejoining, UNCHANGED faults,
         \A x \in Port :
           /\ ~up'[x] \/ x \notin joined' => AtRestarted(x)
           /\ NodeOf(x) \in Leaf => (up'[x] <=> x \in joined')
           /\ rt'[x] = {} /\ ut'[x] \subseteq Forgotten
           /\ \A i \in 1 .. Len(inbox'[x]) : Rejoins(x, inbox'[x][i]),
         \A x \in Port : NodeOf(x) \in Leaf \ restarted =>
           \A r \in RootVID : NoUplink(NodeOf(Peer[x]), r, ut') =>
             WillBlock(r, ut'[x], inbox'[x])
  PROVE  Rejoining'
<1>1. cut' = {} /\ restarted' = restarted
  BY DEF faults, Rejoining
<1>2. /\ \A x \in Port : AtRestarted(x)' <=> AtRestarted(x)
      /\ Forgotten' = Forgotten
      /\ \A x, n : Rejoins(x, n)' <=> Rejoins(x, n)
      /\ \A x \in Port : Told(x, ut, inbox)' <=> Told(x, ut', inbox')
  BY <1>1 DEF AtRestarted, Forgotten, Rejoins, Told
<1>3. \A x \in Port : Told(x, ut', inbox')
  BY DEF Told
<1> QED
  BY <1>1, <1>2, <1>3 DEF Rejoining

(* A port to a leaf that restarts is given up, or opened by keep-alives.   *)
LEMMA GivenUpRejoins ==
  ASSUME Rejoining, FoldedClos, IInv, NEW x \in Port, PortFails(x) \/ PortRecovers(x)
  PROVE  Rejoining'
<1> DEFINE s == NodeOf(x)
           u == up'
           list == Roots(x)
<1>1. /\ UNCHANGED <<ut, rt, joined, faults>> /\ cut = {}
      /\ up' = [up EXCEPT ![x] = ~up[x]] /\ (x \in joined <=> ~up[x])
      /\ up \in [Port -> BOOLEAN]
  <2>1. up \in [Port -> BOOLEAN] /\ cut = {}
    BY DEF IInv, TypeOK, Rejoining
  <2>2. CASE PortFails(x)
    BY <2>1, <2>2 DEF PortFails
  <2>3. CASE PortRecovers(x)
    BY <2>1, <2>3 DEF PortRecovers
  <2> QED
    BY <2>2, <2>3
<1>2. AtRestarted(x) /\ s \notin Leaf
  BY <1>1 DEF Rejoining
<1>3. NodeOf(Peer[x]) \in Leaf /\ NodeOf(Peer[x]) \in restarted
  BY <1>2 DEF AtRestarted, IInv, TypeOK
<1>4. Peer[x] \in Port /\ Peer[Peer[x]] = x
  BY PortParts
<1>5. s \in Node /\ Tier[s] = 2 /\ LooksDown(x)
  BY <1>3, <1>4, AboveLeaf
<1>6. x \in AcceptedPorts(s) /\ list \subseteq RootsOf[s] /\ list \subseteq Forgotten
      /\ list \in SUBSET RootVID
  <2>1. x \in AcceptedPorts(s) /\ list = RootsOf[NodeOf(Peer[x])] /\ list \in SUBSET RootVID
    BY <1>5, LinkSets
  <2>2. RootsOf[NodeOf(Peer[x])] = {Root[NodeOf(Peer[x])]}
    BY <1>3, RootsAssumption DEF Leaf
  <2>3. RootsOf[s] = UNION {Roots(p) : p \in PortsOf(s)}
    BY <1>2, <1>5, RootsAssumption
  <2>4. x \in PortsOf(s)
    BY PortParts
  <2> QED
    BY <1>3, <2>1, <2>2, <2>3, <2>4 DEF Forgotten
<1>7. ~CutOff(s, u) /\ ~CutOff(s, up)
  <2>1. \A z \in Uplinks[s] : z # x /\ up[z]
    BY <1>5, SpinesStayUp
  <2>2. \A z \in Uplinks[s] : u[z]
    <3> SUFFICES ASSUME NEW z \in Uplinks[s] PROVE u[z]
      OBVIOUS
    <3>1. z \in Port
      BY <1>5, SpinesStayUp
    <3> QED
      BY <1>1, <2>1, <3>1
  <2> QED
    BY <1>5, <2>1, <2>2, SpinesStayUp
<1>8. PICK S \in SUBSET PortsOf(s), m \in Update :
        /\ SendOn(inbox, S, m)
        /\ m.option = "UNREACHABLE" /\ m.roots = list
  <2>1. CASE PortFails(x)
    <3>1. SendOn(inbox, Up(PortsOf(s), u), Failure("UNREACHABLE", list))
      <4>1. u = [up EXCEPT ![x] = FALSE] /\ TellFailure(s, x, [up EXCEPT ![x] = FALSE])
        BY <2>1 DEF PortFails
      <4>2. TellFailure(s, x, u)
        BY <4>1
      <4> HIDE DEF u, s
      <4> QED
        BY <1>6, <1>7, <4>2 DEF TellFailure
    <3>2. Up(PortsOf(s), u) \in SUBSET PortsOf(s)
      BY DEF Up
    <3>3. Failure("UNREACHABLE", list) \in Update
      BY <1>6 DEF Failure, Update
    <3> QED
      BY <3>1, <3>2, <3>3 DEF Failure
  <2>2. CASE PortRecovers(x)
    <3>1. SendOn(inbox, Up(PortsOf(s), up), Recover("UNREACHABLE", list))
      BY <1>6, <1>7, <2>2 DEF PortRecovers, TellRecovery
    <3>2. Up(PortsOf(s), up) \in SUBSET PortsOf(s)
      BY DEF Up
    <3>3. Recover("UNREACHABLE", list) \in Update
      BY <1>6 DEF Recover, Update
    <3> QED
      BY <3>1, <3>2, <3>3 DEF Recover
  <2> QED
    BY <2>1, <2>2
<1>9. ASSUME NEW z \in Port
      PROVE  /\ ~up'[z] \/ z \notin joined' => AtRestarted(z)
             /\ NodeOf(z) \in Leaf => (up'[z] <=> z \in joined')
             /\ rt'[z] = {} /\ ut'[z] \subseteq Forgotten
             /\ \A i \in 1 .. Len(inbox[z]) : Rejoins(z, inbox[z][i])
             /\ Peer[z] \in S => Rejoins(z, m)
  <2>1. Peer[z] \in S => NodeOf(Peer[z]) = s
    BY DEF PortsOf
  <2>2. Peer[z] \in S => Rejoins(z, m)
    BY <1>2, <1>6, <1>8, <2>1 DEF Rejoins
  <2>3. z # x => up'[z] = up[z]
    BY <1>1
  <2> QED
    BY <1>1, <1>2, <2>2, <2>3 DEF Rejoining
<1>10. ASSUME NEW z \in Port, NodeOf(z) \in Leaf \ restarted, NEW r \in RootVID,
              NoUplink(NodeOf(Peer[z]), r, ut')
       PROVE  WillBlock(r, ut'[z], inbox[z]) /\ (Peer[z] \in S => ~Frees(m, r))
  <2>1. WillBlock(r, ut'[z], inbox[z])
    BY <1>1, <1>10 DEF Rejoining, Told
  <2>2. Peer[z] \in S => r \notin list
    BY <1>6, <1>10 DEF NoUplink, PortsOf
  <2> QED
    BY <1>8, <2>1, <2>2 DEF Frees
<1>11. inbox \in [Port -> Seq(Update)]
  BY DEF IInv, TypeOK
<1> QED
  BY <1>1, <1>8, <1>9, <1>10, <1>11, RejoinGoesOn

(* The first update at port x is taken.                                    *)
LEMMA TakenRejoins ==
  ASSUME Rejoining, IInv, NEW x \in Port, inbox[x] # <<>>
  PROVE  /\ Head(inbox[x]) \in Update /\ Rejoins(x, Head(inbox[x]))
         /\ Consumed(x) \in [Port -> Seq(Update)]
         /\ Consumed(x)[x] = Tail(inbox[x])
         /\ \A z \in Port \ {x} : Consumed(x)[z] = inbox[z]
         /\ \A z \in Port : \A i \in 1 .. Len(Consumed(x)[z]) : Rejoins(z, Consumed(x)[z][i])
<1>1. inbox \in [Port -> Seq(Update)] /\ inbox[x] \in Seq(Update)
  BY DEF IInv, TypeOK
<1>2. PICK k \in Nat : Len(inbox[x]) = k + 1
  <2>1. Len(inbox[x]) \in Nat \ {0}
    BY <1>1, EmptySeq, LenProperties
  <2>2. Len(inbox[x]) = (Len(inbox[x]) - 1) + 1 /\ Len(inbox[x]) - 1 \in Nat
    BY <2>1
  <2> QED
    BY <2>2
<1>3. /\ Tail(inbox[x]) \in Seq(Update) /\ Head(inbox[x]) = inbox[x][1]
      /\ Len(Tail(inbox[x])) = k
      /\ \A i \in 1 .. k : Tail(inbox[x])[i] = inbox[x][i + 1]
  BY <1>1, <1>2, HeadTailProperties
<1>4. \A i \in 1 .. k + 1 : Rejoins(x, inbox[x][i]) /\ inbox[x][i] \in Update
  BY <1>1, <1>2, ElementOfSeq DEF Rejoining
<1>5. \A i \in 1 .. k : Rejoins(x, Tail(inbox[x])[i])
  BY <1>3, <1>4
<1>6. /\ Consumed(x) \in [Port -> Seq(Update)]
      /\ Consumed(x)[x] = Tail(inbox[x])
      /\ \A z \in Port \ {x} : Consumed(x)[z] = inbox[z]
  BY <1>1, <1>3 DEF Consumed
<1>7. ASSUME NEW z \in Port PROVE \A i \in 1 .. Len(Consumed(x)[z]) : Rejoins(z, Consumed(x)[z][i])
  BY <1>3, <1>5, <1>6 DEF Rejoining
<1> QED
  BY <1>3, <1>4, <1>6, <1>7

(* A leaf sends no updates, so one from below comes from a spine to a top  *)
(* spine, which has no leaves to tell.                                     *)
LEMMA FromBelowRejoins ==
  ASSUME Rejoining, FoldedClos, IInv, NEW x \in Port,
         FailureFromBelow(x) \/ RecoverFromBelow(x)
  PROVE  Rejoining'
<1> DEFINE n == NodeOf(x)
           h == Head(inbox[x])
           S == Up(PortsOf(n) \ {x}, up)
<1>1. /\ inbox[x] # <<>> /\ h.type \in {"FAILURE", "RECOVER"} /\ x \in AcceptedPorts(n)
      /\ UNCHANGED <<up, rt, joined, faults>>
      /\ ut' = [ut EXCEPT ![x] = @ \cup h.roots] \/ ut' = [ut EXCEPT ![x] = @ \ h.roots]
  BY DEF FailureFromBelow, RecoverFromBelow, Arrived
<1>2. /\ h \in Update /\ Rejoins(x, h)
      /\ Consumed(x) \in [Port -> Seq(Update)]
      /\ \A z \in Port \ {x} : Consumed(x)[z] = inbox[z]
      /\ \A z \in Port : \A i \in 1 .. Len(Consumed(x)[z]) : Rejoins(z, Consumed(x)[z][i])
  BY <1>1, TakenRejoins
<1>3. PICK m \in Update : /\ SendOn(Consumed(x), S, m)
                          /\ m.option = "UNREACHABLE" /\ m.roots = h.roots
  <2>1. h.roots \in SUBSET RootVID
    BY <1>2 DEF Update
  <2>2. /\ Failure("UNREACHABLE", h.roots) \in Update
        /\ Recover("UNREACHABLE", h.roots) \in Update
    BY <2>1 DEF Failure, Recover, Update
  <2>3. CASE FailureFromBelow(x)
    BY <2>2, <2>3 DEF FailureFromBelow, Failure
  <2>4. CASE RecoverFromBelow(x)
    BY <2>2, <2>4 DEF RecoverFromBelow, Recover
  <2> QED
    BY <2>3, <2>4
<1>4. NodeOf(Peer[x]) \notin Leaf
  BY <1>1, <1>2 DEF Rejoins, StartHello
<1>5. Tier[n] = 3 /\ LooksDown(x) /\ n \in Node
  <2>1. LooksDown(x) /\ n \in Node /\ NodeOf(Peer[x]) \in Node
    BY <1>1, LinkSets, PortParts
  <2>2. Tier[NodeOf(Peer[x])] # 1
    BY <1>4, <2>1 DEF Leaf
  <2>3. Tier[NodeOf(Peer[x])] \in {1, 2, 3} /\ Tier[n] \in {1, 2, 3}
        /\ Tier[n] = Tier[NodeOf(Peer[x])] + 1
    BY <2>1, ClosTiers, PortParts DEF FoldedClos
  <2> QED
    BY <2>1, <2>2, <2>3
<1>6. \A z \in Port : Peer[z] \in S => NodeOf(Peer[z]) = n
  BY DEF Up, PortsOf
<1>7. /\ ut \in [Port -> SUBSET RootVID]
      /\ \A z \in Port : NodeOf(z) # n => ut'[z] = ut[z]
      /\ \A z \in Port : ut'[z] \subseteq Forgotten
  <2>1. ut \in [Port -> SUBSET RootVID]
    BY DEF IInv, TypeOK
  <2> QED
    BY <1>1, <1>2, <2>1 DEF Rejoins, Rejoining
<1>8. n \notin Leaf
  BY <1>5 DEF Leaf
<1>9. ASSUME NEW z \in Port
      PROVE  /\ ~up'[z] \/ z \notin joined' => AtRestarted(z)
             /\ NodeOf(z) \in Leaf => (up'[z] <=> z \in joined')
             /\ rt'[z] = {} /\ ut'[z] \subseteq Forgotten
             /\ \A i \in 1 .. Len(Consumed(x)[z]) : Rejoins(z, Consumed(x)[z][i])
             /\ Peer[z] \in S => Rejoins(z, m)
  <2>1. Peer[z] \in S => Rejoins(z, m)
    BY <1>2, <1>3, <1>6, <1>8 DEF Rejoins
  <2> QED
    BY <1>1, <1>2, <1>7, <2>1 DEF Rejoining
<1>10. ASSUME NEW z \in Port, NodeOf(z) \in Leaf \ restarted, NEW r \in RootVID,
              NoUplink(NodeOf(Peer[z]), r, ut')
       PROVE  WillBlock(r, ut'[z], Consumed(x)[z]) /\ (Peer[z] \in S => ~Frees(m, r))
  <2>1. /\ Tier[NodeOf(Peer[z])] = 2 /\ NodeOf(z) # n
        /\ Uplinks[NodeOf(Peer[z])] \subseteq {w \in Port : NodeOf(w) = NodeOf(Peer[z])}
    BY <1>8, <1>10, AboveLeaf
  <2>2. NodeOf(Peer[z]) # n /\ z # x
    BY <1>5, <2>1
  <2>3. Peer[z] \notin S
    BY <1>6, <2>2
  <2>4. NoUplink(NodeOf(Peer[z]), r, ut)
    BY <1>7, <1>10, <2>1, <2>2 DEF NoUplink
  <2>5. WillBlock(r, ut[z], inbox[z])
    BY <1>10, <2>4 DEF Rejoining, Told
  <2> QED
    BY <1>2, <1>7, <2>1, <2>2, <2>3, <2>5
<1> HIDE DEF S
<1> QED
  BY <1>1, <1>2, <1>3, <1>9, <1>10, RejoinGoesOn

(* What an update from above does to the tables, and that it came to an    *)
(* uplink.                                                                 *)
LEMMA FromAboveTakes ==
  ASSUME Rejoining, IInv, NEW x \in Port, FailureFromAbove(x) \/ RecoverFromAbove(x)
  PROVE  /\ inbox[x] # <<>> /\ x \in Uplinks[NodeOf(x)] /\ ~LooksDown(x)
         /\ NodeOf(x) \in Node
         /\ UNCHANGED <<up, joined, faults>>
         /\ rt' = rt
         /\ ut' = [ut EXCEPT ![x] = IF FailureFromAbove(x) THEN @ \cup Head(inbox[x]).roots
                                                           ELSE @ \ Head(inbox[x]).roots]
         /\ Head(inbox[x]).type = IF FailureFromAbove(x) THEN "FAILURE" ELSE "RECOVER"
         /\ Head(inbox[x]).option = "UNREACHABLE"
         /\ \A z \in Port : ut'[z] \subseteq Forgotten
<1>1. NodeOf(x) \in Node
  BY PortParts
<1>2. inbox[x] # <<>> /\ x \in Uplinks[NodeOf(x)] /\ UNCHANGED <<up, joined, faults>>
  BY DEF FailureFromAbove, RecoverFromAbove, Arrived, OfferedPorts
<1>3. ~LooksDown(x)
  BY <1>2, LinkSets
<1>4. Rejoins(x, Head(inbox[x]))
  BY <1>2, TakenRejoins
<1>5. ut \in [Port -> SUBSET RootVID] /\ rt \in [Port -> SUBSET RootVID]
  BY DEF IInv, TypeOK
<1>6. rt' = rt
  <2>1. rt[x] = {}
    BY DEF Rejoining
  <2>2. rt' = [rt EXCEPT ![x] = {}] \/ rt' = rt
    BY <1>4 DEF FailureFromAbove, RecoverFromAbove, Rejoins
  <2> QED
    BY <1>5, <2>1, <2>2
<1>7. /\ ut' = [ut EXCEPT ![x] = IF FailureFromAbove(x) THEN @ \cup Head(inbox[x]).roots
                                                        ELSE @ \ Head(inbox[x]).roots]
      /\ Head(inbox[x]).type = IF FailureFromAbove(x) THEN "FAILURE" ELSE "RECOVER"
  <2>1. CASE FailureFromAbove(x)
    <3>1. ut' = [ut EXCEPT ![x] = @ \cup Head(inbox[x]).roots]
      BY <1>4, <2>1 DEF FailureFromAbove, Rejoins
    <3>2. Head(inbox[x]).type = "FAILURE"
      BY <2>1 DEF FailureFromAbove, Arrived
    <3> QED
      BY <2>1, <3>1, <3>2
  <2>2. CASE RecoverFromAbove(x)
    <3>1. ut' = [ut EXCEPT ![x] = @ \ Head(inbox[x]).roots]
      BY <1>4, <2>2 DEF RecoverFromAbove, Rejoins
    <3>2. Head(inbox[x]).type = "RECOVER" /\ ~FailureFromAbove(x)
      BY <2>2 DEF RecoverFromAbove, FailureFromAbove, Arrived
    <3> QED
      BY <3>1, <3>2
  <2> QED
    BY <2>1, <2>2
<1>8. \A z \in Port : ut'[z] \subseteq Forgotten
  <2>1. \A z \in Port : ut[z] \subseteq Forgotten
    BY DEF Rejoining
  <2>2. Head(inbox[x]).roots \subseteq Forgotten
    BY <1>4 DEF Rejoins
  <2>3. \A z \in Port : \/ ut'[z] = ut[z] \/ ut'[z] = ut[z] \cup Head(inbox[x]).roots
                        \/ ut'[z] = ut[z] \ Head(inbox[x]).roots
    BY <1>5, <1>7
  <2> QED
    BY <2>1, <2>2, <2>3
<1> QED
  BY <1>1, <1>2, <1>3, <1>4, <1>6, <1>7, <1>8 DEF Rejoins

(* A leaf takes it to heart.                                               *)
LEMMA LeafRejoins ==
  ASSUME Rejoining, FoldedClos, IInv, NEW x \in Port, NodeOf(x) \in Leaf,
         FailureFromAbove(x) \/ RecoverFromAbove(x)
  PROVE  Rejoining'
<1> DEFINE h == Head(inbox[x])
<1>1. /\ inbox[x] # <<>> /\ UNCHANGED <<up, joined, faults>> /\ rt' = rt
      /\ ut' = [ut EXCEPT ![x] = IF FailureFromAbove(x) THEN @ \cup h.roots ELSE @ \ h.roots]
      /\ h.type = IF FailureFromAbove(x) THEN "FAILURE" ELSE "RECOVER"
      /\ \A z \in Port : ut'[z] \subseteq Forgotten
  BY FromAboveTakes
<1>2. /\ Consumed(x) \in [Port -> Seq(Update)]
      /\ Consumed(x)[x] = Tail(inbox[x])
      /\ \A z \in Port \ {x} : Consumed(x)[z] = inbox[z]
      /\ \A z \in Port : \A i \in 1 .. Len(Consumed(x)[z]) : Rejoins(z, Consumed(x)[z][i])
  BY <1>1, TakenRejoins
<1>3. inbox' = Consumed(x)
  <2>1. \E m : SendOn(Consumed(x), {}, m)
    BY DEF FailureFromAbove, RecoverFromAbove, When
  <2> QED
    BY <1>2, <2>1 DEF SendOn
<1>5. ASSUME NEW z \in Port, NodeOf(z) \in Leaf \ restarted, NEW r \in RootVID,
             NoUplink(NodeOf(Peer[z]), r, ut')
      PROVE  WillBlock(r, ut'[z], Consumed(x)[z])
  <2>0. ut \in [Port -> SUBSET RootVID] /\ inbox[x] \in Seq(Update)
    BY DEF IInv, TypeOK
  <2>1. \A w \in Uplinks[NodeOf(Peer[z])] : w \in Port /\ w # x
    BY <1>5, AboveLeaf
  <2>2. NoUplink(NodeOf(Peer[z]), r, ut)
    BY <1>1, <1>5, <2>0, <2>1 DEF NoUplink
  <2>3. WillBlock(r, ut[z], inbox[z])
    BY <1>5, <2>2 DEF Rejoining, Told
  <2>4. CASE z = x
    <3>1. Blocks(h, r) => r \in ut'[x]
      BY <1>1, <2>0 DEF Blocks
    <3>2. r \in ut[x] /\ ~Frees(h, r) => r \in ut'[x]
      BY <1>1, <2>0 DEF Frees
    <3>3. WillBlock(r, ut'[x], Tail(inbox[x]))
      BY <1>1, <2>0, <2>3, <2>4, <3>1, <3>2, TakenBlocks
    <3> QED
      BY <1>2, <2>4, <3>3
  <2>5. CASE z # x
    BY <1>1, <1>2, <2>0, <2>3, <2>5
  <2> QED
    BY <2>4, <2>5
<1>6. \A z \in Port : /\ ~up'[z] \/ z \notin joined' => AtRestarted(z)
                      /\ NodeOf(z) \in Leaf => (up'[z] <=> z \in joined')
                      /\ rt'[z] = {}
  BY <1>1 DEF Rejoining
<1> QED
  BY <1>1, <1>2, <1>3, <1>5, <1>6, RejoinSilently

(* A spine tells its leaves when no uplink is clean any more, and what is  *)
(* reachable again.                                                        *)
LEMMA SpineRejoins ==
  ASSUME Rejoining, FoldedClos, IInv, NEW x \in Port, NodeOf(x) \notin Leaf,
         FailureFromAbove(x) \/ RecoverFromAbove(x)
  PROVE  Rejoining'
<1> DEFINE n == NodeOf(x)
           h == Head(inbox[x])
           blocked == Blocked(n, up, ut')
           bad == /\ n \notin Leaf /\ ~SomeClean(n, ut', rt') /\ blocked # {}
           good == n \notin Leaf /\ ~SomeClean(n, ut, rt)
           c == IF FailureFromAbove(x) THEN bad ELSE good
           S == When(c, Up(AcceptedPorts(n), up))
           m == IF FailureFromAbove(x)
                THEN Failure("UNREACHABLE", blocked)
                ELSE Recover("UNREACHABLE",
                             When(SomeClean(n, ut', rt'), blocked) \cup h.roots)
<1>1. /\ inbox[x] # <<>> /\ x \in Uplinks[n] /\ ~LooksDown(x) /\ n \in Node
      /\ UNCHANGED <<up, joined, faults>> /\ rt' = rt
      /\ ut' = [ut EXCEPT ![x] = IF FailureFromAbove(x) THEN @ \cup h.roots ELSE @ \ h.roots]
      /\ h.option = "UNREACHABLE"
      /\ \A z \in Port : ut'[z] \subseteq Forgotten
  BY FromAboveTakes
<1>2. /\ h \in Update /\ Rejoins(x, h)
      /\ Consumed(x) \in [Port -> Seq(Update)]
      /\ \A z \in Port \ {x} : Consumed(x)[z] = inbox[z]
      /\ \A z \in Port : \A i \in 1 .. Len(Consumed(x)[z]) : Rejoins(z, Consumed(x)[z][i])
  BY <1>1, TakenRejoins
<1>3. SendOn(Consumed(x), S, m)
  <2>1. CASE FailureFromAbove(x)
    <3>1. SendOn(Consumed(x), When(bad, Up(AcceptedPorts(n), up)),
                 Failure("UNREACHABLE", blocked))
      BY <2>1 DEF FailureFromAbove
    <3> QED
      BY <2>1, <3>1
  <2>2. CASE ~FailureFromAbove(x)
    <3>1. SendOn(Consumed(x),
                 When(/\ n \notin Leaf /\ ~SomeClean(n, ut, rt)
                      /\ h.option = "REACHABLE" => When(SomeClean(n, ut', rt'), blocked) # {},
                      Up(AcceptedPorts(n), up)),
                 Recover("UNREACHABLE", When(SomeClean(n, ut', rt'), blocked)
                                          \cup When(h.option = "UNREACHABLE", h.roots)))
      BY <2>2 DEF RecoverFromAbove
    <3>2. When(h.option = "UNREACHABLE", h.roots) = h.roots /\ h.option # "REACHABLE"
      BY <1>1 DEF When
    <3>3. When(/\ n \notin Leaf /\ ~SomeClean(n, ut, rt)
               /\ h.option = "REACHABLE" => When(SomeClean(n, ut', rt'), blocked) # {},
               Up(AcceptedPorts(n), up)) = When(good, Up(AcceptedPorts(n), up))
      BY <3>2 DEF When
    <3> HIDE DEF good, blocked, n, h
    <3> QED
      BY <2>2, <3>1, <3>2, <3>3
  <2> QED
    BY <2>1, <2>2
<1>4. Tier[n] = 2
  <2>1. Tier[n] \in {1, 2, 3} /\ Tier[n] # 1 /\ Tier[NodeOf(Peer[x])] = Tier[n] + 1
    BY <1>1, ClosTiers DEF Leaf
  <2>2. Tier[NodeOf(Peer[x])] \in {1, 2, 3}
    BY ClosTiers, PortParts DEF FoldedClos
  <2> QED
    BY <2>1, <2>2
<1>5. /\ OfferedPorts(n) = Uplinks[n] /\ Uplinks[n] # {}
      /\ \A z \in Uplinks[n] : z \in Port /\ up[z]
  BY <1>1, <1>4, SpinesStayUp
<1>6. ut \in [Port -> SUBSET RootVID] /\ h.roots \subseteq RootVID /\ h.roots \subseteq Forgotten
      /\ \A z \in Port \ {x} : ut'[z] = ut[z]
  BY <1>1, <1>2 DEF IInv, TypeOK, Update, Rejoins
<1>7. blocked \subseteq RootVID /\ blocked \subseteq Forgotten
  <2>1. blocked \subseteq UNION {ut'[z] : z \in Uplinks[n]}
    BY <1>5 DEF Blocked, Up
  <2>2. \A z \in Port : ut'[z] \subseteq RootVID
    BY <1>1, <1>6
  <2>3. \A z \in Uplinks[n] : ut'[z] \subseteq RootVID /\ ut'[z] \subseteq Forgotten
    BY <1>1, <1>5, <2>2
  <2> HIDE DEF blocked
  <2> QED
    BY <2>1, <2>3
<1>8. m \in Update /\ m.option = "UNREACHABLE" /\ m.roots \subseteq Forgotten
  <2>1. When(SomeClean(n, ut', rt'), blocked) \subseteq blocked
    BY DEF When
  <2> DEFINE list == When(SomeClean(n, ut', rt'), blocked) \cup h.roots
  <2>2. list \subseteq RootVID /\ list \subseteq Forgotten
    BY <1>6, <1>7, <2>1
  <2> HIDE DEF blocked, list
  <2>3. /\ Failure("UNREACHABLE", blocked) \in Update
        /\ Recover("UNREACHABLE", list) \in Update
    BY <1>7, <2>2 DEF Failure, Recover, Update
  <2>4. m = IF FailureFromAbove(x) THEN Failure("UNREACHABLE", blocked)
                                   ELSE Recover("UNREACHABLE", list)
    BY DEF list
  <2> HIDE DEF m
  <2> QED
    BY <1>7, <2>2, <2>3, <2>4 DEF Failure, Recover
<1>9. \A z \in Port : Peer[z] \in S => NodeOf(Peer[z]) = n
  <2>1. S \subseteq AcceptedPorts(n)
    BY DEF When, Up
  <2>2. AcceptedPorts(n) \subseteq {w \in Port : NodeOf(w) = n}
    BY <1>1 DEF AcceptedPorts, Downlinks, PortsOf
  <2> QED
    BY <2>1, <2>2
<1>10. ASSUME NEW z \in Port
       PROVE  /\ ~up'[z] \/ z \notin joined' => AtRestarted(z)
              /\ NodeOf(z) \in Leaf => (up'[z] <=> z \in joined')
              /\ rt'[z] = {} /\ ut'[z] \subseteq Forgotten
              /\ \A i \in 1 .. Len(Consumed(x)[z]) : Rejoins(z, Consumed(x)[z][i])
              /\ Peer[z] \in S => Rejoins(z, m)
  <2> HIDE DEF m, S
  <2>1. Peer[z] \in S => Rejoins(z, m)
    BY <1>8, <1>9 DEF Rejoins
  <2> QED
    BY <1>1, <1>2, <2>1 DEF Rejoining
<1>11. ASSUME NEW z \in Port, NodeOf(z) \in Leaf \ restarted, NEW r \in RootVID,
              NoUplink(NodeOf(Peer[z]), r, ut')
       PROVE  \/ Peer[z] \in S /\ Blocks(m, r)
              \/ /\ WillBlock(r, ut'[z], Consumed(x)[z])
                 /\ Peer[z] \in S => ~Frees(m, r)
  <2>1. /\ z # x /\ Consumed(x)[z] = inbox[z] /\ ut'[z] = ut[z]
        /\ \A w \in Uplinks[NodeOf(Peer[z])] : w \in Port /\ NodeOf(w) = NodeOf(Peer[z])
        /\ Peer[z] \in Port /\ LooksDown(Peer[z]) /\ Peer[Peer[z]] = z
        /\ NodeOf(Peer[z]) \notin Leaf
    BY <1>2, <1>6, <1>11, AboveLeaf, PortParts
  <2>2. NoUplink(NodeOf(Peer[z]), r, ut) => WillBlock(r, ut'[z], Consumed(x)[z])
    BY <1>11, <2>1 DEF Rejoining, Told
  <2>3. CASE NodeOf(Peer[z]) # n
    <3>1. NoUplink(NodeOf(Peer[z]), r, ut)
      BY <1>6, <1>11, <2>1, <2>3 DEF NoUplink
    <3> QED
      BY <1>9, <2>2, <2>3, <3>1
  <2>4. CASE NodeOf(Peer[z]) = n /\ FailureFromAbove(x)
    <3>1. \A w \in Uplinks[n] : r \in ut'[w]
      BY <1>11, <2>4 DEF NoUplink
    <3>2. ~SomeClean(n, ut', rt')
      BY <1>5, <3>1 DEF SomeClean
    <3>3. r \in blocked
      BY <1>5, <3>1 DEF Blocked, Up
    <3>4. Peer[z] \in Up(AcceptedPorts(n), up)
      <4>1. ~AtRestarted(Peer[z])
        BY <1>11, <2>1 DEF AtRestarted, IInv, TypeOK
      <4>2. up[Peer[z]]
        BY <2>1, <4>1 DEF Rejoining
      <4> QED
        BY <2>1, <2>4, <4>2, LinkSets DEF Up
    <3>5. S = Up(AcceptedPorts(n), up)
      BY <2>4, <3>2, <3>3 DEF When
    <3>6. Blocks(m, r)
      BY <2>4, <3>3 DEF Blocks, Failure
    <3> QED
      BY <3>4, <3>5, <3>6
  <2>5. CASE NodeOf(Peer[z]) = n /\ ~FailureFromAbove(x)
    <3>1. \A w \in Uplinks[n] : r \in ut'[w]
      BY <1>11, <2>5 DEF NoUplink
    <3>2. \A w \in Uplinks[n] : ut'[w] \subseteq ut[w]
      BY <1>1, <1>5, <1>6, <2>5
    <3>3. NoUplink(n, r, ut)
      BY <1>11, <2>5, <3>1, <3>2 DEF NoUplink
    <3>4. r \notin h.roots
      <4>1. ut'[x] = ut[x] \ h.roots
        BY <1>1, <1>6, <2>5
      <4> QED
        BY <1>1, <3>1, <4>1
    <3>5. ~SomeClean(n, ut', rt')
      BY <1>5, <3>1 DEF SomeClean
    <3>6. ~Frees(m, r)
      BY <2>5, <3>4, <3>5 DEF Frees, When, Recover
    <3> HIDE DEF m, S
    <3> QED
      BY <2>2, <2>5, <3>3, <3>6
  <2> QED
    BY <2>3, <2>4, <2>5
<1> HIDE DEF m, S
<1> QED
  BY <1>1, <1>2, <1>3, <1>8, <1>10, <1>11, RejoinGoesOn

(* The leaf joins again.                                                   *)
LEMMA JoinAgainRejoins ==
  ASSUME Rejoining, FoldedClos, IInv, NEW x \in Port, TakeJoinAck(x) \/ HearAgain(x)
  PROVE  Rejoining'
<1>1. /\ UNCHANGED <<ut, rt, faults>> /\ joined' = joined \cup {x}
      /\ \A z \in Port : up[z] => up'[z]
      /\ \A z \in Port \ {x} : up'[z] = up[z]
      /\ NodeOf(x) \in Leaf => up'[x]
      /\ inbox \in [Port -> Seq(Update)]
  BY DEF TakeJoinAck, HearAgain, IInv, TypeOK
<1>2. \E S : SendOn(inbox, S, StartHello)
  <2>1. CASE TakeJoinAck(x)
    BY <2>1 DEF TakeJoinAck
  <2>2. CASE HearAgain(x)
    <3>1. inbox' = inbox
      BY <2>2 DEF HearAgain
    <3>2. SendOn(inbox, {}, StartHello)
      BY <1>1, <3>1 DEF SendOn
    <3> QED
      BY <3>2
  <2> QED
    BY <2>1, <2>2
<1>3. PICK S : SendOn(inbox, S, StartHello)
  BY <1>2
<1>4. StartHello \in Update /\ \A r : ~Frees(StartHello, r)
  BY DEF StartHello, Update, Frees
<1>5. \A z \in Port : Rejoins(z, StartHello)
  BY DEF StartHello, Rejoins
<1>6. ASSUME NEW z \in Port
      PROVE  /\ ~up'[z] \/ z \notin joined' => AtRestarted(z)
             /\ NodeOf(z) \in Leaf => (up'[z] <=> z \in joined')
             /\ rt'[z] = {} /\ ut'[z] \subseteq Forgotten
             /\ \A i \in 1 .. Len(inbox[z]) : Rejoins(z, inbox[z][i])
             /\ Peer[z] \in S => Rejoins(z, StartHello)
  <2>1. CASE z = x
    BY <1>1, <1>5, <2>1 DEF Rejoining
  <2>2. CASE z # x
    BY <1>1, <1>5, <2>2 DEF Rejoining
  <2> QED
    BY <2>1, <2>2
<1>7. ASSUME NEW z \in Port, NodeOf(z) \in Leaf \ restarted, NEW r \in RootVID,
             NoUplink(NodeOf(Peer[z]), r, ut')
      PROVE  WillBlock(r, ut'[z], inbox[z]) /\ (Peer[z] \in S => ~Frees(StartHello, r))
  BY <1>1, <1>4, <1>7 DEF Rejoining, Told
<1> QED
  BY <1>1, <1>3, <1>4, <1>6, <1>7, RejoinGoesOn

(* Its StartHello is taken, or an update that it is not ready for.         *)
LEMMA EarlyUpdateRejoins ==
  ASSUME Rejoining, FoldedClos, IInv, NEW x \in Port, TakeStartHello(x) \/ UpdateBeforeJoin(x)
  PROVE  Rejoining'
<1>1. /\ UNCHANGED <<ut, rt, faults>> /\ inbox[x] # <<>> /\ inbox' = Consumed(x)
      /\ \A z \in Port : up[z] => up'[z]
      /\ \A z \in Port \ {x} : up'[z] = up[z]
      /\ joined' \in {joined, joined \cup {x}}
      /\ inbox \in [Port -> Seq(Update)]
  BY DEF TakeStartHello, UpdateBeforeJoin, Arrived, IInv, TypeOK
<1>2. /\ \A z \in Port \ {x} : Consumed(x)[z] = inbox[z]
      /\ Consumed(x)[x] = Tail(inbox[x])
      /\ \A z \in Port : \A i \in 1 .. Len(Consumed(x)[z]) : Rejoins(z, Consumed(x)[z][i])
  BY <1>1, TakenRejoins
<1>3. NodeOf(x) \in Leaf => (up'[x] <=> x \in joined')
  BY DEF TakeStartHello, UpdateBeforeJoin, IInv, TypeOK, Rejoining
<1>4. ASSUME NEW z \in Port
      PROVE  /\ ~up'[z] \/ z \notin joined' => AtRestarted(z)
             /\ NodeOf(z) \in Leaf => (up'[z] <=> z \in joined')
             /\ rt'[z] = {} /\ ut'[z] \subseteq Forgotten
  <2>1. CASE z = x
    BY <1>1, <1>3, <2>1 DEF Rejoining
  <2>2. CASE z # x
    BY <1>1, <2>2 DEF Rejoining
  <2> QED
    BY <2>1, <2>2
<1>5. ASSUME NEW z \in Port, NodeOf(z) \in Leaf \ restarted, NEW r \in RootVID,
             NoUplink(NodeOf(Peer[z]), r, ut')
      PROVE  WillBlock(r, ut'[z], inbox'[z])
  <2>1. WillBlock(r, ut[z], inbox[z]) /\ ut'[z] = ut[z]
    BY <1>1, <1>5 DEF Rejoining, Told
  <2>2. CASE z = x
    <3>1. x \in joined
      <4>1. ~AtRestarted(x)
        BY <1>5, <2>2, AboveLeaf DEF AtRestarted, IInv, TypeOK
      <4> QED
        BY <4>1 DEF Rejoining
    <3>2. x \in OfferedPorts(NodeOf(x))
      BY <1>5, <2>2, <3>1, AboveLeaf, LinkSets DEF OfferedPorts
    <3>3. Head(inbox[x]).type = "START_HELLO"
      BY <3>2 DEF TakeStartHello, UpdateBeforeJoin, Arrived
    <3>4. ~Blocks(Head(inbox[x]), r)
      BY <3>3 DEF Blocks
    <3>5. WillBlock(r, ut[x], Tail(inbox[x]))
      BY <1>1, <2>1, <2>2, <3>4, TakenBlocks
    <3> QED
      BY <1>1, <1>2, <2>1, <2>2, <3>5
  <2>3. CASE z # x
    BY <1>1, <1>2, <2>1, <2>3
  <2> QED
    BY <2>2, <2>3
<1> QED
  BY <1>1, <1>2, <1>4, <1>5, RejoinSilently

LEMMA LoopRejoins ==
  ASSUME Rejoining, FoldedClos, IInv, NEW n \in Node, Loop(n)
  PROVE  Rejoining'
<1>1. PICK x \in Port : PortFails(x) \/ PortRecovers(x) \/ Receive(x)
  BY DEF Loop, PortsOf
<1>2. CASE FailureFromAbove(x) \/ RecoverFromAbove(x)
  BY <1>2, LeafRejoins, SpineRejoins
<1> QED
  BY <1>1, <1>2, GivenUpRejoins, FromBelowRejoins, JoinAgainRejoins, EarlyUpdateRejoins
     DEF Receive

(* One more leaf is restarted.                                             *)
LEMMA RestartRejoins ==
  ASSUME Rejoining, FoldedClos, IInv, NEW n \in Leaf, Restart(n)
  PROVE  Rejoining'
<1> DEFINE own == PortsOf(n)
<1>1. /\ cut' = {} /\ restarted' = restarted \cup {n}
      /\ joined' = joined \ (own \cup {Peer[p] : p \in own})
      /\ \A x \in Port : /\ up'[x] <=> up[x] /\ x \notin own
                         /\ ut'[x] = IF x \in own THEN {} ELSE ut[x]
                         /\ rt'[x] = IF x \in own THEN {} ELSE rt[x]
                         /\ inbox'[x] = IF x \in own THEN <<>> ELSE inbox[x]
  BY DEF Restart, Rejoining
<1>2. ASSUME NEW x \in Port
      PROVE  /\ ~up'[x] \/ x \notin joined' => AtRestarted(x)'
             /\ NodeOf(x) \in Leaf => (up'[x] <=> x \in joined')
             /\ rt'[x] = {} /\ ut'[x] \subseteq Forgotten'
             /\ (\A i \in 1 .. Len(inbox[x]) : Rejoins(x, inbox[x][i]))'
             /\ Told(x, ut, inbox)'
  <2>1. AtRestarted(x) \/ NodeOf(x) = n \/ NodeOf(Peer[x]) = n => AtRestarted(x)'
    BY <1>1 DEF AtRestarted
  <2>2. ~up'[x] => ~up[x] \/ NodeOf(x) = n
    BY <1>1 DEF PortsOf
  <2>3. x \notin joined' => x \notin joined \/ NodeOf(x) = n \/ NodeOf(Peer[x]) = n
    BY <1>1, PortParts DEF PortsOf
  <2>4. NodeOf(x) \in Leaf => (up'[x] <=> x \in joined')
    <3> SUFFICES ASSUME NodeOf(x) \in Leaf PROVE up'[x] <=> x \in joined'
      OBVIOUS
    <3>1. NodeOf(Peer[x]) # n
      BY AboveLeaf
    <3>2. x \notin {Peer[p] : p \in own}
      BY <3>1, PortParts DEF PortsOf
    <3> QED
      BY <1>1, <3>2 DEF Rejoining
  <2>5. Forgotten \subseteq Forgotten' /\ ut[x] \subseteq Forgotten /\ rt[x] = {}
    BY <1>1 DEF Forgotten, Rejoining
  <2>6. (\A i \in 1 .. Len(inbox[x]) : Rejoins(x, inbox[x][i]))'
    <3>1. CASE x \in own
      BY <1>1, <3>1, EmptySeq
    <3>2. CASE x \notin own
      BY <1>1, <2>5, <3>2 DEF Rejoining, Rejoins
    <3> QED
      BY <3>1, <3>2
  <2>7. Told(x, ut, inbox)'
    <3> SUFFICES ASSUME NodeOf(x) \in Leaf \ restarted', NEW r \in RootVID,
                        NoUplink(NodeOf(Peer[x]), r, ut')
                 PROVE  WillBlock(r, ut'[x], inbox'[x])
      BY DEF Told
    <3>1. x \notin own /\ NodeOf(x) \in Leaf \ restarted
      BY <1>1 DEF PortsOf
    <3>2. \A w \in Uplinks[NodeOf(Peer[x])] : w \in Port
      BY <3>1, AboveLeaf
    <3>3. NoUplink(NodeOf(Peer[x]), r, ut)
      BY <1>1, <3>2 DEF NoUplink
    <3> QED
      BY <1>1, <3>1, <3>3 DEF Rejoining, Told
  <2>8. ~up'[x] \/ x \notin joined' => AtRestarted(x)'
    BY <2>1, <2>2, <2>3 DEF Rejoining
  <2> QED
    BY <1>1, <2>4, <2>5, <2>6, <2>7, <2>8
<1> QED
  BY <1>1, <1>2 DEF Rejoining

(* Where nothing is wrong no leaf is joining.                              *)
LEMMA CleanIsRejoined ==
  ASSUME Clean, FoldedClos
  PROVE  Rejoining
<1>1. ASSUME NEW x \in Port PROVE Told(x, ut, inbox)
  <2> SUFFICES ASSUME NodeOf(x) \in Leaf, NEW r, NoUplink(NodeOf(Peer[x]), r, ut)
               PROVE  FALSE
    BY DEF Told
  <2>1. /\ Uplinks[NodeOf(Peer[x])] # {}
        /\ \A w \in Uplinks[NodeOf(Peer[x])] : w \in Port
    BY AboveLeaf DEF FoldedClos
  <2> QED
    BY <2>1 DEF NoUplink, Clean
<1>2. Len(<<>>) = 0
  OBVIOUS
<1> QED
  BY <1>1, <1>2 DEF Clean, Rejoining

-----------------------------------------------------------------------------
(* One fault at a time.                                                    *)

(* No leaf joins again during a wave.                                      *)
LEMMA NobodyJoins ==
  ASSUME NEW q \in Port, Wave(q), IInv, NEW x \in Port
  PROVE  ~UpdateBeforeJoin(x) /\ ~TakeJoinAck(x) /\ ~TakeStartHello(x) /\ ~HearAgain(x)
<1>1. joined = Port /\ NodeOf(x) \in Node
  BY PortParts DEF Wave
<1>2. x \in AcceptedPorts(NodeOf(x)) \/ x \in OfferedPorts(NodeOf(x))
  BY <1>1, LinkSets DEF OfferedPorts
<1>3. ~TakeStartHello(x)
  <2>1. inbox[x] # <<>> => Head(inbox[x]).type # "START_HELLO"
    BY NextWord, NewsApart
  <2> QED
    BY <2>1 DEF TakeStartHello, Arrived
<1> QED
  BY <1>1, <1>2, <1>3 DEF UpdateBeforeJoin, TakeJoinAck, HearAgain

LEMMA LoopKeepsWave ==
  ASSUME NEW q \in Port, Wave(q), FoldedClos, IInv, NEW n \in Node, Loop(n)
  PROVE  Wave(q)'
<1>1. PICK x \in Port : PortFails(x) \/ PortRecovers(x) \/ Receive(x)
  BY DEF Loop, PortsOf
<1>2. CASE PortFails(x) \/ PortRecovers(x)
  <2>1. x \in {q, Peer[q]}
    BY <1>2 DEF PortFails, PortRecovers, Wave
  <2> QED
    BY <1>2, <2>1, UpperEndTells, LowerEndTells
<1>3. CASE FailureFromBelow(x) \/ RecoverFromBelow(x)
  BY <1>3, FromBelowGoesOn
<1>4. CASE FailureFromAbove(x) \/ RecoverFromAbove(x)
  BY <1>4, LeafKeepsToItself, SpineTellsItsLeaves
<1> QED
  BY <1>1, <1>2, <1>3, <1>4, NobodyJoins DEF Receive

(* Switches break and mend no cable and restart no leaf.                   *)
LEMMA LoopLeavesFaults ==
  ASSUME NEW n \in Node, Loop(n)
  PROVE  UNCHANGED faults
<1>1. PICK x \in Port : PortFails(x) \/ PortRecovers(x) \/ Receive(x)
  BY DEF Loop, PortsOf
<1> QED
  BY <1>1 DEF PortFails, PortRecovers, Receive, FailureFromBelow, FailureFromAbove,
     RecoverFromBelow, RecoverFromAbove, UpdateBeforeJoin, TakeJoinAck,
     TakeStartHello, HearAgain

LEMMA StepKeepsOneFault ==
  ASSUME FoldedClos, OneAtATime, IInv, OneFault, [Next]_vars
  PROVE  OneFault'
<1>1. ASSUME NEW n \in Node, Loop(n) PROVE OneFault'
  BY <1>1, LoopRejoins, LoopKeepsWave DEF OneFault
<1>2. ASSUME NEW x \in Port, Cut(x) PROVE OneFault'
  <2>1. Quiet /\ cut = {} /\ NothingLeft
    BY <1>2 DEF Cut
  <2>2. Rejoining
    BY <2>1, HealedWave, CleanIsRejoined DEF OneFault
  <2>3. \A z \in Port : ut[z] = {} /\ rt[z] = {}
    BY <2>1, <2>2 DEF NothingLeft, Rejoining, Forgotten
  <2>4. Clean
    BY <2>1, <2>3 DEF Clean, Quiet
  <2> QED
    BY <1>2, <2>4, CutStartsWave DEF OneFault
<1>3. ASSUME NEW x \in Port, Mend(x) PROVE OneFault'
  <2>1. ~Rejoining
    BY <1>3 DEF Mend, Rejoining
  <2> QED
    BY <1>3, <2>1, MendKeepsWave DEF OneFault
<1>4. ASSUME NEW n \in Leaf, Restart(n) PROVE OneFault'
  <2>1. Quiet /\ cut = {}
    BY <1>4 DEF Restart
  <2>2. Rejoining
    BY <2>1, HealedWave, CleanIsRejoined DEF OneFault
  <2> QED
    BY <1>4, <2>2, RestartRejoins DEF OneFault
<1>5. CASE UNCHANGED vars
  <2>1. UNCHANGED <<cut, up, ut, rt, inbox, joined, restarted>>
    BY <1>5 DEF vars
  <2>2. Rejoining => Rejoining'
    BY <2>1 DEF Rejoining, AtRestarted, Forgotten, Rejoins, Told
  <2>3. \A q \in Port : Wave(q) => Wave(q)'
    BY <2>1 DEF Wave
  <2> QED
    BY <2>2, <2>3 DEF OneFault
<1> QED
  BY <1>1, <1>2, <1>3, <1>4, <1>5 DEF Next

(* While failures and restarts come one at a time, everything that any     *)
(* switch believes or is still to hear stems from the one cable that is,   *)
(* or was, cut, or from the leaves that were restarted.                    *)
THEOREM OneFaultInvariance ==
  ASSUME FoldedClos, OneAtATime
  PROVE  Spec => []OneFault
<1>1. Init => OneFault
  <2>1. Init => Clean
    BY DEF Init, Clean
  <2> QED
    BY <2>1, CleanIsRejoined DEF OneFault
<1>2. IInv /\ OneFault /\ [Next]_vars => OneFault'
  BY StepKeepsOneFault
<1> QED
  BY <1>1, <1>2, Invariance, PTL DEF Spec

(* A cable that is mended leaves nothing behind: once everybody has heard  *)
(* of it, all tables are as empty as after the join, except for what is    *)
(* said of leaves that were restarted.                                     *)
THEOREM NothingStaysBlocked ==
  ASSUME FoldedClos, OneAtATime
  PROVE  Spec => []HealedIsClean
<1>1. OneFault => HealedIsClean
  <2> SUFFICES ASSUME OneFault, Quiet, cut = {}, NEW p \in Port
               PROVE  ut[p] \subseteq {Root[n] : n \in restarted} /\ rt[p] = {}
    BY DEF HealedIsClean
  <2>1. Rejoining
    BY HealedWave, CleanIsRejoined DEF OneFault
  <2> QED
    BY <2>1 DEF Rejoining, Forgotten
<1> QED
  BY <1>1, OneFaultInvariance, PTL

-----------------------------------------------------------------------------
(* Where data go.                                                          *)

LEMMA WayDown ==
  ASSUME NEW n \in Node, NEW r \in RootsOf[n]
  PROVE  /\ n \in Leaf => Root[n] = r
         /\ n \notin Leaf /\ r # 0 =>
              /\ NextHops(n, r) # {}
              /\ NextHops(n, r) = {z \in PortsOf(n) : r \in Roots(z)}
         /\ \A z \in PortsOf(n) : r \in Roots(z) =>
              LooksDown(z) /\ r \in RootsOf[NodeOf(Peer[z])]
<1>1. r # 0 => NextHops(n, r) = {z \in PortsOf(n) : r \in Roots(z)}
  BY DEF NextHops, AcceptedPorts, Downlinks, Listed
<1>2. \A z \in PortsOf(n) : r \in Roots(z) =>
        LooksDown(z) /\ r \in RootsOf[NodeOf(Peer[z])]
  BY DEF Roots
<1>3. n \in Leaf => RootsOf[n] = {Root[n]}
  BY RootsAssumption
<1>4. n \notin Leaf => \E z \in PortsOf(n) : r \in Roots(z)
  <2>1. n \notin Leaf => RootsOf[n] = UNION {Roots(z) : z \in PortsOf(n)}
    BY RootsAssumption
  <2> QED
    BY <2>1
<1> QED
  BY <1>1, <1>2, <1>3, <1>4

(* Data arrive from switch s if they go down, or up and then down, by way  *)
(* of switches D that lead them down by working cables to switches of D.   *)
LEMMA ArrivesBelow ==
  ASSUME NEW r, r # 0, NEW D \in SUBSET {m \in Node : r \in RootsOf[m]},
         \A m \in D : \A z \in PortsOf(m) : r \in Roots(z) =>
           up[z] /\ z \notin cut /\ NodeOf(Peer[z]) \in D,
         NEW s \in Node \ Leaf,
         \/ s \in D
         \/ /\ r \notin RootsOf[s] /\ Available(s, r) # {}
            /\ \A z \in Available(s, r) : up[z] /\ z \notin cut /\ NodeOf(Peer[z]) \in D
  PROVE  Arrives(s, r)
<1> DEFINE S == D \cup {s}
<1>1. S \in SUBSET {m \in Node : m \in Leaf => Root[m] = r}
  BY WayDown
<1>2. ASSUME NEW m \in S \ Leaf
      PROVE  /\ NextHops(m, r) # {}
             /\ \A z \in NextHops(m, r) : up[z] /\ z \notin cut /\ NodeOf(Peer[z]) \in S
  <2>1. CASE m \in D
    BY <1>2, <2>1, WayDown
  <2>2. CASE m \notin D
    BY <1>2, <2>2 DEF NextHops, Listed
  <2> QED
    BY <2>1, <2>2
<1> QED
  BY <1>1, <1>2 DEF Arrives

(* The first switch on the way of a leaf's data.                           *)
LEMMA FirstHop ==
  ASSUME FoldedClos, joined = Port, NEW a \in Leaf, NEW r, r # 0,
         NEW x \in Available(a, r)
  PROVE  /\ x \in Port /\ NodeOf(x) = a /\ ~LooksDown(x) /\ up[x]
         /\ IF rt[x] # {} THEN r \in rt[x] ELSE r \notin ut[x]
         /\ Peer[x] \in Port /\ LooksDown(Peer[x]) /\ NodeOf(Peer[x]) \in Node \ Leaf
         /\ Tier[NodeOf(Peer[x])] = 2
<1>1. a \in Node /\ Tier[a] = 1
  BY DEF Leaf
<1>2. /\ x \in PortsOf(a) /\ ~LooksDown(x) /\ up[x]
      /\ IF rt[x] # {} THEN r \in rt[x] ELSE r \notin ut[x]
  BY <1>1, LinksOfNode DEF Available, Up, Listed
<1>3. x \in Port /\ NodeOf(x) = a
  BY <1>2 DEF PortsOf
<1>4. Tier[NodeOf(Peer[x])] = 2
  BY <1>1, <1>2, <1>3, ClosTiers
<1> QED
  BY <1>2, <1>3, <1>4, ClosTiers DEF Leaf

(* An uplink of a spine leads to a top spine.                              *)
LEMMA UplinkOfSpine ==
  ASSUME FoldedClos, TopsReachAll, joined = Port, NEW s \in Node, Tier[s] = 2,
         NEW z \in Uplinks[s], NEW r \in RootVID
  PROVE  /\ z \in Port /\ NodeOf(z) = s /\ ~LooksDown(z) /\ Peer[z] \in Port
         /\ NodeOf(Peer[z]) \in Node /\ Tier[NodeOf(Peer[z])] = 3
         /\ r \in RootsOf[NodeOf(Peer[z])]
<1>1. z \in Port /\ NodeOf(z) = s /\ ~LooksDown(z)
  BY LinksOfNode DEF PortsOf
<1>2. Peer[z] \in Port /\ NodeOf(Peer[z]) \in Node /\ Tier[NodeOf(Peer[z])] = 3
  BY <1>1, ClosTiers
<1>3. NodeOf(Peer[z]) \in TopSpine
  BY <1>2 DEF FoldedClos
<1> QED
  BY <1>1, <1>2, <1>3 DEF TopsReachAll

-----------------------------------------------------------------------------
(* No black hole.                                                          *)

(* The roots that are forgotten are those of the restarted leaves alone.   *)
LEMMA RestartedRoots ==
  ASSUME IInv, NEW b \in Leaf, Root[b] \in Forgotten
  PROVE  b \in restarted
BY RootAssumption DEF IInv, TypeOK, Forgotten

(* While all cables are whole: no root is blocked but that of a leaf that  *)
(* was restarted, and of that a leaf that was not knows where it is.       *)
LEMMA RejoinedArrives ==
  ASSUME Rejoining, Quiet, FoldedClos, TopsReachAll, IInv, NEW a \in Leaf, NEW b \in Leaf,
         Root[b] # 0, ~({a, b} \subseteq restarted), NEW x \in Available(a, Root[b])
  PROVE  Arrives(NodeOf(Peer[x]), Root[b])
<1> DEFINE s == NodeOf(Peer[x])
           r == Root[b]
           D == {m \in Node : r \in RootsOf[m]}
<1>0. joined = Port /\ cut = {} /\ \A z \in Port : up[z] /\ rt[z] = {} /\ inbox[z] = <<>>
  BY DEF Rejoining, Quiet
<1>1. /\ s \in Node \ Leaf /\ Tier[s] = 2 /\ r \in RootVID
      /\ x \in Port /\ NodeOf(x) = a /\ r \notin ut[x]
  BY <1>0, FirstHop DEF RootVID
<1>2. \A m \in D : \A z \in PortsOf(m) : r \in Roots(z) =>
        up[z] /\ z \notin cut /\ NodeOf(Peer[z]) \in D
  BY <1>0, WayDown, PortParts DEF PortsOf
<1>3. OfferedPorts(s) = Uplinks[s] /\ Uplinks[s] \subseteq Port
  BY <1>0, <1>1, LinksOfNode DEF PortsOf
<1>4. \A z \in Uplinks[s] : NodeOf(Peer[z]) \in D
  BY <1>0, <1>1, UplinkOfSpine
<1>5. Available(s, r) = {z \in Uplinks[s] : r \notin ut[z]}
  BY <1>0, <1>3 DEF Available, Up, Listed
<1>6. r \notin RootsOf[s] => \E z \in Uplinks[s] : r \notin ut[z]
  <2> SUFFICES ASSUME r \notin RootsOf[s], \A z \in Uplinks[s] : r \in ut[z] PROVE FALSE
    OBVIOUS
  <2>1. PICK z : z \in Uplinks[s]
    BY <1>1 DEF FoldedClos
  <2>2. r \in Forgotten
    BY <1>3, <2>1 DEF Rejoining
  <2>3. b \in restarted
    BY <2>2, RestartedRoots
  <2>4. NodeOf(x) \in Leaf \ restarted
    BY <1>1, <2>3
  <2>5. WillBlock(r, ut[x], inbox[x])
    BY <1>1, <2>4 DEF Rejoining, Told, NoUplink
  <2>6. Len(<<>>) = 0
    OBVIOUS
  <2> QED
    BY <1>0, <1>1, <2>5, <2>6 DEF WillBlock
<1> HIDE DEF D
<1>7. CASE r \in RootsOf[s]
  BY <1>1, <1>2, <1>7, ArrivesBelow DEF D
<1>8. CASE r \notin RootsOf[s]
  <2>1. Available(s, r) # {}
    BY <1>5, <1>6, <1>8
  <2>2. \A z \in Available(s, r) : up[z] /\ z \notin cut /\ NodeOf(Peer[z]) \in D
    BY <1>0, <1>3, <1>4, <1>5
  <2> QED
    BY <1>1, <1>2, <1>8, <2>1, <2>2, ArrivesBelow DEF D
<1> QED
  BY <1>7, <1>8

(* What everybody believes once the cable is known to be cut.              *)
LEMMA BrokenTables ==
  ASSUME NEW q \in Port, Wave(q), FoldedClos, Quiet, cut = {q, Peer[q]}, NEW x \in Port
  PROVE  LET y == Peer[x]
         IN  /\ up[x] <=> x \notin {q, Peer[q]}
             /\ ~LowerEnd(q, y) => rt[x] = {} /\ ut[x] \in {{}, Roots(q)}
             /\ LowerEnd(q, y) => ut[x] = {} /\ rt[x] \in {{}, Roots(q)}
             /\ Source(q, y) => ut[x] = Roots(q)
             /\ Relay(q, y) => ut[x] = Roots(q)
             /\ Spread(q, y) /\ LowerEnd(q, y) =>
                  rt[x] = IF Uplinks[NodeOf(y)] = {Peer[q]} THEN Roots(q) ELSE {}
             /\ Spread(q, y) /\ ~LowerEnd(q, y) =>
                  (ut[x] # {} <=> \A z \in Uplinks[NodeOf(y)] : ut[z] # {})
<1> DEFINE W == Warns(q, up, ut)
<1>1. LooksDown(q) /\ Peer[q] \in Port
  BY PortParts DEF Wave
<1>2. \A z \in Port : up[z] <=> z \notin {q, Peer[q]}
  BY DEF Quiet
<1>3. ASSUME NEW z \in Port, Source(q, Peer[z]) PROVE rt[z] = {} /\ ut[z] = Roots(q)
  <2>1. Peer[z] \in Port /\ ~LowerEnd(q, Peer[z])
    BY <1>1, <1>3, PortParts, Roles
  <2>2. Peer[z] \in W
    BY <1>1, <1>2, <1>3, <2>1, WhatWarns
  <2> QED
    BY <2>1, <2>2, SettledTable
<1> DEFINE y == Peer[x]
<1>4. y \in Port
  BY PortParts
<1>5. /\ ~LowerEnd(q, y) => rt[x] = {} /\ ut[x] \in {{}, Roots(q)}
      /\ LowerEnd(q, y) => ut[x] = {} /\ rt[x] \in {{}, Roots(q)}
      /\ (ut[x] # {} \/ rt[x] # {}) <=> y \in W
  BY SettledTable
<1>6. Roots(q) # {}
  BY <1>1, LinkSets
<1>7. Relay(q, y) => ut[x] = Roots(q)
  <2> SUFFICES ASSUME Relay(q, y) PROVE ut[x] = Roots(q)
    OBVIOUS
  <2>1. PICK z : z \in Toward(NodeOf(y), NodeOf(q))
    BY DEF Relay
  <2>2. z \in Port /\ NodeOf(z) = NodeOf(y) /\ NodeOf(Peer[z]) = NodeOf(q)
    BY <2>1 DEF Toward, PortsOf
  <2>3. ~LowerEnd(q, y) /\ NodeOf(y) # NodeOf(Peer[q])
    BY <1>1, <1>4, Roles DEF LowerEnd
  <2>4. Peer[z] # q
    BY <1>1, <2>2, <2>3, PortParts
  <2>5. ut[z] = Roots(q)
    BY <1>3, <2>2, <2>4 DEF Source
  <2>6. y \in W
    BY <1>1, <1>4, <1>6, <2>1, <2>5, WhatWarns
  <2> HIDE DEF W
  <2> QED
    BY <1>5, <2>3, <2>6
<1>8. Spread(q, y) /\ LowerEnd(q, y) =>
        rt[x] = IF Uplinks[NodeOf(y)] = {Peer[q]} THEN Roots(q) ELSE {}
  <2> SUFFICES ASSUME Spread(q, y), LowerEnd(q, y)
               PROVE  rt[x] = IF Uplinks[NodeOf(y)] = {Peer[q]} THEN Roots(q) ELSE {}
    OBVIOUS
  <2>1. y \in W <=> Uplinks[NodeOf(y)] = {Peer[q]}
    BY <1>1, <1>2, <1>4, WhatWarns
  <2> HIDE DEF W
  <2> QED
    BY <1>5, <1>6, <2>1
<1>9. Spread(q, y) /\ ~LowerEnd(q, y) =>
        (ut[x] # {} <=> \A z \in Uplinks[NodeOf(y)] : ut[z] # {})
  <2> SUFFICES ASSUME Spread(q, y), ~LowerEnd(q, y)
               PROVE  ut[x] # {} <=> \A z \in Uplinks[NodeOf(y)] : ut[z] # {}
    OBVIOUS
  <2> HIDE DEF y
  <2>1. y \in W <=> \A z \in Uplinks[NodeOf(y)] : ut[z] # {}
    BY <1>1, <1>4, WhatWarns
  <2> HIDE DEF W
  <2>2. ut[x] # {} <=> y \in W
    BY <1>5
  <2> QED
    BY <2>1, <2>2
<1> HIDE DEF y
<1>10. Source(q, y) => ut[x] = Roots(q)
  BY <1>3 DEF y
<1> QED
  BY <1>2, <1>5, <1>7, <1>8, <1>9, <1>10 DEF y

(* Data for roots that are not below the cable: its lower end, if it has   *)
(* no other uplink, gets none.                                             *)
LEMMA ElsewhereArrives ==
  ASSUME NEW q \in Port, Wave(q), FoldedClos, TopsReachAll, Quiet, cut = {q, Peer[q]},
         NEW a \in Leaf, NEW r \in RootVID \ Roots(q), r # 0, NEW x \in Available(a, r)
  PROVE  Arrives(NodeOf(Peer[x]), r)
<1> DEFINE s == NodeOf(Peer[x])
           D == {m \in Node : r \in RootsOf[m]}
<1>1. joined = Port /\ LooksDown(q) /\ ~LooksDown(Peer[q]) /\ Peer[q] \in Port
      /\ Tier[NodeOf(q)] = Tier[NodeOf(Peer[q])] + 1 /\ Tier[NodeOf(q)] \in {2, 3}
  BY Ends DEF Wave
<1>2. /\ x \in Port /\ NodeOf(x) = a /\ s \in Node \ Leaf /\ Tier[s] = 2
      /\ Peer[x] \in Port /\ LooksDown(Peer[x]) /\ up[x]
      /\ IF rt[x] # {} THEN r \in rt[x] ELSE r \notin ut[x]
  BY <1>1, FirstHop
<1>3. \A m \in D : \A z \in PortsOf(m) : r \in Roots(z) =>
        up[z] /\ z \notin cut /\ NodeOf(Peer[z]) \in D
  <2> SUFFICES ASSUME NEW m \in D, NEW z \in PortsOf(m), r \in Roots(z)
               PROVE  up[z] /\ z \notin cut /\ NodeOf(Peer[z]) \in D
    OBVIOUS
  <2>1. z \in Port /\ LooksDown(z) /\ NodeOf(Peer[z]) \in D
    BY WayDown, PortParts DEF PortsOf
  <2>2. z # q /\ z # Peer[q]
    BY <1>1, <2>1
  <2> QED
    BY <2>1, <2>2, BrokenTables
<1>4. OfferedPorts(s) = Uplinks[s] /\ Uplinks[s] # {} /\ Uplinks[s] \subseteq Port
  BY <1>1, <1>2, LinksOfNode DEF FoldedClos, PortsOf
<1>5. ASSUME NEW z \in Uplinks[s]
      PROVE  /\ NodeOf(Peer[z]) \in D /\ z # q
             /\ z # Peer[q] => z \in Available(s, r) /\ up[z] /\ z \notin cut
  <2>1. /\ z \in Port /\ NodeOf(z) = s /\ ~LooksDown(z) /\ NodeOf(Peer[z]) \in D
        /\ Tier[NodeOf(Peer[z])] = 3
    BY <1>1, <1>2, UplinkOfSpine
  <2>2. ~LowerEnd(q, Peer[z])
    BY <1>1, <2>1, Ends DEF LowerEnd
  <2>3. rt[z] = {} /\ r \notin ut[z]
    BY <2>1, <2>2, BrokenTables
  <2>4. z # q
    BY <1>1, <2>1
  <2>5. z # Peer[q] => up[z] /\ z \notin cut
    BY <2>1, <2>4, BrokenTables
  <2> QED
    BY <1>4, <2>1, <2>3, <2>4, <2>5 DEF Available, Up, Listed
<1>6. \E z \in Uplinks[s] : z # Peer[q]
  <2> SUFFICES ASSUME Uplinks[s] = {Peer[q]} PROVE FALSE
    BY <1>4
  <2>1. NodeOf(Peer[q]) = s
    BY <1>1, <1>2, UplinkOfSpine
  <2>2. LowerEnd(q, Peer[x]) /\ Spread(q, Peer[x])
    BY <1>1, <1>2, <2>1 DEF LowerEnd, Spread
  <2>3. rt[x] = Roots(q)
    BY <1>2, <2>2, BrokenTables
  <2>4. Roots(q) # {}
    BY <1>1, LinkSets
  <2> QED
    BY <1>2, <2>3, <2>4
<1>7. \A z \in Available(s, r) : z \in Uplinks[s] /\ up[z]
  BY <1>4 DEF Available, Up, Listed
<1>8. \A z \in Available(s, r) : up[z] /\ z \notin cut /\ NodeOf(Peer[z]) \in D
  <2> SUFFICES ASSUME NEW z \in Available(s, r)
               PROVE  up[z] /\ z \notin cut /\ NodeOf(Peer[z]) \in D
    OBVIOUS
  <2>1. z \in Uplinks[s] /\ up[z]
    BY <1>7
  <2>2. ~up[Peer[q]]
    BY <1>1, BrokenTables
  <2> QED
    BY <1>5, <2>1, <2>2
<1>9. Available(s, r) # {}
  BY <1>5, <1>6
<1> HIDE DEF D, s
<1>10. D \in SUBSET {m \in Node : r \in RootsOf[m]} /\ (s \in D <=> r \in RootsOf[s])
  BY <1>2 DEF D
<1>11. Arrives(s, r)
  BY <1>2, <1>3, <1>8, <1>9, <1>10, ArrivesBelow
<1> QED
  BY <1>11 DEF s

(* Data for roots below the cable go round its upper end: neither that     *)
(* switch nor a top spine above it gets any.                               *)
LEMMA BelowArrives ==
  ASSUME NEW q \in Port, Wave(q), FoldedClos, TopsReachAll, Quiet, cut = {q, Peer[q]},
         NEW a \in Leaf, NEW r \in RootVID \cap Roots(q), r # 0, NEW x \in Available(a, r)
  PROVE  Arrives(NodeOf(Peer[x]), r)
<1> DEFINE n == NodeOf(q)
           s == NodeOf(Peer[x])
           D == {m \in Node : /\ r \in RootsOf[m] /\ m # n
                              /\ Tier[m] = 3 => Toward(m, n) = {}}
<1>1. /\ joined = Port /\ LooksDown(q) /\ ~LooksDown(Peer[q]) /\ Peer[q] \in Port
      /\ Tier[n] = Tier[NodeOf(Peer[q])] + 1 /\ Tier[n] \in {2, 3} /\ n \in Node
      /\ Tier[NodeOf(Peer[q])] \in {1, 2} /\ NodeOf(Peer[q]) # n /\ Peer[Peer[q]] = q
  BY Ends DEF Wave
<1>2. /\ x \in Port /\ NodeOf(x) = a /\ s \in Node \ Leaf /\ Tier[s] = 2
      /\ Peer[x] \in Port /\ LooksDown(Peer[x]) /\ up[x] /\ Peer[Peer[x]] = x
      /\ IF rt[x] # {} THEN r \in rt[x] ELSE r \notin ut[x]
  BY <1>1, FirstHop, PortParts
<1>3. ASSUME NEW m \in D, NEW z \in PortsOf(m), r \in Roots(z)
      PROVE  up[z] /\ z \notin cut /\ NodeOf(Peer[z]) \in D
  <2>1. /\ z \in Port /\ NodeOf(z) = m /\ LooksDown(z) /\ NodeOf(Peer[z]) \in Node
        /\ r \in RootsOf[NodeOf(Peer[z])]
    BY <1>3, WayDown, PortParts DEF PortsOf
  <2>2. z # q /\ z # Peer[q]
    BY <1>1, <2>1
  <2>3. Tier[m] = Tier[NodeOf(Peer[z])] + 1 /\ Tier[m] \in {1, 2, 3}
        /\ Tier[NodeOf(Peer[z])] \in {1, 2, 3}
    BY <2>1, ClosTiers
  <2>4. NodeOf(Peer[z]) # n
    <3> SUFFICES ASSUME NodeOf(Peer[z]) = n PROVE FALSE
      OBVIOUS
    <3>1. Tier[m] = 3
      BY <1>1, <2>3
    <3>2. z \in Toward(m, n)
      BY DEF Toward
    <3> QED
      BY <3>1, <3>2
  <2>5. Tier[NodeOf(Peer[z])] # 3
    BY <2>3
  <2> QED
    BY <2>1, <2>2, <2>4, <2>5, BrokenTables
<1>4. ~LowerEnd(q, Peer[x]) => rt[x] = {}
  BY <1>2, BrokenTables
<1>5. s # n
  <2> SUFFICES ASSUME s = n PROVE FALSE
    OBVIOUS
  <2>1. Peer[x] # q
    BY <1>1, <1>2, BrokenTables
  <2>2. Source(q, Peer[x]) /\ ~LowerEnd(q, Peer[x])
    BY <1>1, <2>1 DEF Source, LowerEnd
  <2>3. ut[x] = Roots(q)
    BY <1>2, <2>2, BrokenTables
  <2> QED
    BY <1>2, <1>4, <2>2, <2>3
<1>6. CASE r \in RootsOf[s]
  <2>1. s \in D
    BY <1>2, <1>5, <1>6
  <2> HIDE DEF D, s
  <2>2. D \in SUBSET {m \in Node : r \in RootsOf[m]}
    BY DEF D
  <2>3. Arrives(s, r)
    BY <1>2, <1>3, <2>1, <2>2, ArrivesBelow
  <2> QED
    BY <2>3 DEF s
<1>7. CASE r \notin RootsOf[s]
  <2>1. /\ OfferedPorts(s) = Uplinks[s] /\ Uplinks[s] \subseteq Port
        /\ s # NodeOf(Peer[q])
    BY <1>1, <1>2, <1>7, LinksOfNode, LinkSets DEF PortsOf
  <2>2. ASSUME NEW z \in Uplinks[s]
        PROVE  /\ z \in Port /\ NodeOf(z) = s /\ Peer[z] \in Port /\ Peer[Peer[z]] = z
               /\ NodeOf(Peer[z]) \in Node /\ Tier[NodeOf(Peer[z])] = 3
               /\ r \in RootsOf[NodeOf(Peer[z])]
               /\ rt[z] = {} /\ ut[z] \in {{}, Roots(q)} /\ up[z] /\ z \notin cut
    <3>1. /\ z \in Port /\ NodeOf(z) = s /\ Peer[z] \in Port
          /\ NodeOf(Peer[z]) \in Node /\ Tier[NodeOf(Peer[z])] = 3
          /\ r \in RootsOf[NodeOf(Peer[z])]
      BY <1>1, <1>2, UplinkOfSpine
    <3>2. z # q /\ z # Peer[q]
      BY <1>5, <2>1, <3>1
    <3>3. ~LowerEnd(q, Peer[z])
      BY <1>1, <3>1 DEF LowerEnd
    <3> QED
      BY <3>1, <3>2, <3>3, BrokenTables, PortParts
  <2>3. ASSUME NEW z \in Available(s, r)
        PROVE  up[z] /\ z \notin cut /\ NodeOf(Peer[z]) \in D
    <3>1. z \in Uplinks[s] /\ r \notin ut[z]
      BY <2>1, <2>2 DEF Available, Up, Listed
    <3>2. ~Source(q, Peer[z]) /\ ~Relay(q, Peer[z])
      BY <2>2, <3>1, BrokenTables
    <3>3. NodeOf(Peer[z]) # n
      BY <2>1, <2>2, <3>1, <3>2 DEF Source
    <3>4. Toward(NodeOf(Peer[z]), n) = {}
      BY <1>5, <2>2, <3>1, <3>2 DEF Relay
    <3> QED
      BY <2>2, <3>1, <3>3, <3>4
  <2>4. Available(s, r) # {}
    <3> SUFFICES ASSUME Available(s, r) = {} PROVE FALSE
      OBVIOUS
    <3>1. \A z \in Uplinks[s] : ut[z] # {}
      BY <2>1, <2>2 DEF Available, Up, Listed
    <3>2. Spread(q, Peer[x]) /\ ~LowerEnd(q, Peer[x])
      BY <1>2, <1>5, <2>1 DEF Spread, LowerEnd
    <3>3. ut[x] # {} /\ ut[x] \in {{}, Roots(q)}
      BY <1>2, <3>1, <3>2, BrokenTables
    <3> QED
      BY <1>2, <1>4, <3>2, <3>3
  <2> HIDE DEF D, s
  <2>5. D \in SUBSET {m \in Node : r \in RootsOf[m]}
    BY DEF D
  <2>6. Arrives(s, r)
    BY <1>2, <1>3, <1>7, <2>3, <2>4, <2>5, ArrivesBelow
  <2> QED
    BY <2>6 DEF s
<1> QED
  BY <1>6, <1>7

(* Once everybody has heard of the cable that is cut, or mended, and of    *)
(* the leaf that was restarted, whatever port a leaf picks for another     *)
(* leaf's data, the data arrive: no switch on the way drops them or sends  *)
(* them on a port that is down.  Left out are two leaves that were both    *)
(* restarted, and the leaf of root 0, if there is one: no table shows it.  *)
THEOREM NoPickIsLost ==
  ASSUME FoldedClos, TopsReachAll, OneAtATime
  PROVE  Spec => []NoBlackHole
<1>1. IInv /\ OneFault => NoBlackHole
  <2> SUFFICES ASSUME IInv, OneFault, Quiet, NEW a \in Leaf, NEW b \in Leaf,
                      Root[b] # 0, ~({a, b} \subseteq restarted),
                      NEW x \in Available(a, Root[b])
               PROVE  Arrives(NodeOf(Peer[x]), Root[b])
    BY DEF NoBlackHole
  <2> DEFINE r == Root[b]
  <2>1. r \in RootVID
    BY DEF RootVID, Leaf
  <2>2. CASE Rejoining
    BY <2>2, RejoinedArrives
  <2>3. ASSUME NEW q \in Port, Wave(q), cut = {q, Peer[q]}
        PROVE  Arrives(NodeOf(Peer[x]), r)
    BY <2>1, <2>3, ElsewhereArrives, BelowArrives
  <2>4. ASSUME NEW q \in Port, Wave(q), cut = {} PROVE Rejoining
    BY <2>4, HealedWave, CleanIsRejoined
  <2> QED
    BY <2>2, <2>3, <2>4 DEF OneFault, Wave
<1> QED
  BY <1>1, Invariance, OneFaultInvariance, PTL

-----------------------------------------------------------------------------
(* No needless drop.                                                       *)

(* A set of switches without the leaf of the root, out of which no cable   *)
(* that could be used leads, has no way to it.                             *)
LEMMA NoWayOut ==
  ASSUME NEW r, NEW S \in SUBSET (Node \ Leaf), NEW s \in S,
         \A m \in S : \A z \in Ways(m, r) : NodeOf(Peer[z]) \in S
  PROVE  ~HasWay(s, r)
<1>1. S \in SUBSET {m \in Node : m \in Leaf => Root[m] # r}
  OBVIOUS
<1> QED
  BY <1>1 DEF HasWay

(* The cables of the upper end lead to the roots below the cut one by no   *)
(* other way: its leaves differ in roots, and so do its spines.            *)
LEMMA OnlyTheCutCable ==
  ASSUME FoldedClos, PlanesApart, joined = Port, NEW q \in Port, LooksDown(q), q \in cut,
         NEW r \in Roots(q), NEW z \in Ways(NodeOf(q), r)
  PROVE  FALSE
<1> DEFINE n == NodeOf(q)
<1>1. n \in Node /\ q \in PortsOf(n) /\ Roots(q) \subseteq RootsOf[n]
  <2>1. n \in Node /\ q \in PortsOf(n) /\ Tier[n] \in {2, 3}
    BY Ends, PortParts
  <2>2. RootsOf[n] = UNION {Roots(p) : p \in PortsOf(n)}
    BY <2>1, RootsAssumption DEF Leaf
  <2> QED
    BY <2>1, <2>2
<1>2. z \in PortsOf(n) /\ z \notin cut /\ r \in Roots(z)
  BY <1>1 DEF Ways
<1>3. /\ z \in Port /\ NodeOf(z) = n /\ LooksDown(z) /\ z # q
      /\ r \in RootsOf[NodeOf(Peer[z])] /\ r \in RootsOf[NodeOf(Peer[q])]
  BY <1>1, <1>2, WayDown, LinkSets DEF PortsOf
<1>4. /\ NodeOf(Peer[z]) \in Node /\ NodeOf(Peer[q]) \in Node
      /\ Tier[NodeOf(Peer[z])] = Tier[NodeOf(Peer[q])] /\ Tier[NodeOf(Peer[q])] \in {1, 2}
      /\ Peer[z] \in Port /\ Peer[q] \in Port /\ Peer[Peer[z]] = z /\ Peer[Peer[q]] = q
      /\ ~LooksDown(Peer[z]) /\ ~LooksDown(Peer[q])
  <2>1. /\ NodeOf(Peer[z]) \in Node /\ Tier[n] = Tier[NodeOf(Peer[z])] + 1
        /\ Tier[NodeOf(Peer[z])] \in {1, 2}
        /\ Peer[z] \in Port /\ Peer[Peer[z]] = z /\ ~LooksDown(Peer[z])
    BY <1>3, Ends
  <2>2. /\ NodeOf(Peer[q]) \in Node /\ Tier[n] = Tier[NodeOf(Peer[q])] + 1
        /\ Tier[NodeOf(Peer[q])] \in {1, 2}
        /\ Peer[q] \in Port /\ Peer[Peer[q]] = q /\ ~LooksDown(Peer[q])
    BY Ends
  <2> QED
    BY <2>1, <2>2
<1>5. NodeOf(Peer[z]) = NodeOf(Peer[q])
  <2>1. CASE Tier[NodeOf(Peer[q])] = 1
    <3>1. NodeOf(Peer[z]) \in Leaf /\ NodeOf(Peer[q]) \in Leaf
      BY <1>4, <2>1 DEF Leaf
    <3>2. Root[NodeOf(Peer[z])] = r /\ Root[NodeOf(Peer[q])] = r
      BY <1>3, <1>4, <3>1, WayDown
    <3> QED
      BY <3>1, <3>2, RootAssumption
  <2>2. CASE Tier[NodeOf(Peer[q])] = 2
    BY <1>3, <1>4, <2>2 DEF PlanesApart
  <2> QED
    BY <1>4, <2>1, <2>2
<1> QED
  BY <1>3, <1>5, OneCable

(* If a leaf has no port for a root, the switches that it could still send *)
(* to have no way there either.                                            *)
LEMMA NoWayLeft ==
  ASSUME NEW q \in Port, Wave(q), FoldedClos, PlanesApart, TopsReachAll, Quiet,
         cut = {q, Peer[q]},
         NEW a \in Leaf, NEW r \in RootVID, r # 0, Available(a, r) = {},
         NEW x \in OfferedPorts(a) \ cut
  PROVE  ~HasWay(NodeOf(Peer[x]), r)
<1> DEFINE n == NodeOf(q)
           s == NodeOf(Peer[x])
<1>1. /\ joined = Port /\ LooksDown(q) /\ ~LooksDown(Peer[q]) /\ Peer[q] \in Port
      /\ Tier[n] = Tier[NodeOf(Peer[q])] + 1 /\ Tier[n] \in {2, 3} /\ n \in Node
      /\ Tier[NodeOf(Peer[q])] \in {1, 2} /\ NodeOf(Peer[q]) \in Node
      /\ NodeOf(Peer[q]) # n /\ Peer[Peer[q]] = q
  BY Ends DEF Wave
<1>2. a \in Node /\ Tier[a] = 1
  BY DEF Leaf
<1>3. /\ x \in Port /\ NodeOf(x) = a /\ ~LooksDown(x) /\ x \notin {q, Peer[q]}
  BY <1>1, <1>2, LinksOfNode DEF PortsOf
<1>4. /\ s \in Node /\ Tier[s] = 2 /\ s \notin Leaf
      /\ Peer[x] \in Port /\ Peer[Peer[x]] = x /\ LooksDown(Peer[x])
  <2>1. s \in Node /\ Tier[s] = 2
    BY <1>2, <1>3, ClosTiers
  <2> QED
    BY <1>3, <2>1, ClosTiers DEF Leaf
<1>5. up[x] /\ (IF rt[x] # {} THEN r \notin rt[x] ELSE r \in ut[x])
  <2>1. up[x]
    BY <1>3, BrokenTables
  <2> QED
    BY <2>1 DEF Available, Up, Listed
<1>6. OfferedPorts(s) = Uplinks[s]
  BY <1>1, <1>4, LinksOfNode
<1>7. CASE rt[x] # {}
  <2>1. LowerEnd(q, Peer[x]) /\ rt[x] = Roots(q) /\ r \notin Roots(q)
    BY <1>3, <1>5, <1>7, BrokenTables
  <2>2. s = NodeOf(Peer[q]) /\ r \notin RootsOf[s]
    BY <1>1, <2>1, LinkSets DEF LowerEnd
  <2>3. Spread(q, Peer[x])
    BY <1>1, <1>4, <2>2 DEF Spread
  <2>4. Uplinks[s] = {Peer[q]}
    BY <1>3, <1>7, <2>1, <2>3, BrokenTables
  <2>5. Ways(s, r) = {}
    BY <1>6, <2>2, <2>4 DEF Ways
  <2>6. {s} \in SUBSET (Node \ Leaf)
    BY <1>4
  <2> HIDE DEF s
  <2>7. ~HasWay(s, r)
    BY <2>5, <2>6, NoWayOut
  <2> QED
    BY <2>7 DEF s
<1>8. CASE rt[x] = {}
  <2>1. ~LowerEnd(q, Peer[x]) /\ ut[x] = Roots(q) /\ r \in Roots(q)
    BY <1>3, <1>5, <1>8, BrokenTables
  <2>2. s # NodeOf(Peer[q])
    BY <2>1 DEF LowerEnd
  <2>3. r \in RootsOf[NodeOf(Peer[q])] /\ r \in RootsOf[n]
    <3>1. r \in RootsOf[NodeOf(Peer[q])]
      BY <1>1, <2>1, LinkSets
    <3>2. RootsOf[n] = UNION {Roots(p) : p \in PortsOf(n)}
      BY <1>1, RootsAssumption DEF Leaf
    <3>3. q \in PortsOf(n)
      BY PortParts
    <3> QED
      BY <2>1, <3>1, <3>2, <3>3
  <2>4. \A z \in Ways(n, r) : FALSE
    BY <1>1, <2>1, OnlyTheCutCable
  <2>5. CASE s = n
    <3>1. {s} \in SUBSET (Node \ Leaf)
      BY <1>4
    <3> HIDE DEF s, n
    <3>2. ~HasWay(s, r)
      BY <2>4, <2>5, <3>1, NoWayOut
    <3> QED
      BY <3>2 DEF s
  <2>6. CASE s # n
    <3> DEFINE T == {m \in Node : Tier[m] = 3 /\ Toward(m, n) # {}}
               S == {s, n} \cup T
    <3>1. Spread(q, Peer[x])
      BY <1>4, <2>6 DEF Spread
    <3>2. Roots(q) # {}
      BY <2>1
    <3>3. \A z \in Uplinks[s] : ut[z] # {}
      BY <1>3, <2>1, <3>1, <3>2, BrokenTables
    <3>4. ASSUME NEW z \in Uplinks[s]
          PROVE  /\ z \in Port /\ NodeOf(z) = s /\ ~LooksDown(z) /\ NodeOf(Peer[z]) \in S
                 /\ Tier[NodeOf(Peer[z])] = 3
      <4>1. /\ z \in Port /\ NodeOf(z) = s /\ ~LooksDown(z) /\ Peer[z] \in Port
            /\ NodeOf(Peer[z]) \in Node /\ Tier[NodeOf(Peer[z])] = 3
        BY <1>1, <1>4, UplinkOfSpine
      <4>2. Source(q, Peer[z]) \/ Relay(q, Peer[z])
        <5>1. Peer[z] \in Warns(q, up, ut)
          BY <3>3, <4>1, SettledTable
        <5>2. Speaks(q, Peer[z]) /\ ~Spread(q, Peer[z])
          BY <4>1, <5>1, SettledTable DEF Spread
        <5> QED
          BY <5>2 DEF Speaks
      <4> QED
        BY <4>1, <4>2 DEF Source, Relay
    (* No other spine of this plane leads to r: there it would be known.    *)
    <3>5. r \notin RootsOf[s]
      <4> SUFFICES ASSUME r \in RootsOf[s] PROVE FALSE
        OBVIOUS
      <4>1. PICK z : z \in Uplinks[s]
        BY <1>4 DEF FoldedClos
      <4>2. /\ z \in Port /\ NodeOf(z) = s /\ ~LooksDown(z) /\ NodeOf(Peer[z]) \in S
            /\ Tier[NodeOf(Peer[z])] = 3
        BY <3>4, <4>1
      <4>3. CASE Tier[n] = 3
        <5>1. NodeOf(Peer[z]) = n \/ NodeOf(Peer[z]) \in T
          BY <1>4, <4>2
        <5>2. NodeOf(Peer[z]) \notin T
          <6>1. \A w \in Port : NodeOf(Peer[w]) = n => Tier[NodeOf(w)] # 3
            BY <4>3, ClosTiers
          <6> QED
            BY <6>1 DEF Toward, PortsOf
        <5>3. NodeOf(Peer[z]) = NodeOf(Peer[Peer[q]])
          BY <1>1, <5>1, <5>2
        <5>4. Tier[NodeOf(Peer[q])] = 2
          BY <1>1, <4>3
        <5> QED
          BY <1>1, <1>4, <2>2, <2>3, <4>2, <5>3, <5>4 DEF PlanesApart
      <4>4. CASE Tier[n] = 2
        <5>1. NodeOf(Peer[z]) \in T
          BY <1>4, <4>2, <4>4
        <5>2. PICK w \in Port : NodeOf(w) = NodeOf(Peer[z]) /\ NodeOf(Peer[w]) = n
          BY <5>1 DEF Toward, PortsOf
        <5>3. Peer[w] \in Port /\ Peer[Peer[w]] = w /\ ~LooksDown(Peer[w])
          BY <4>2, <4>4, <5>2, ClosTiers
        <5> QED
          BY <1>4, <2>3, <2>6, <4>2, <4>4, <5>2, <5>3 DEF PlanesApart
      <4> QED
        BY <1>1, <4>3, <4>4
    <3>6. \A z \in Ways(s, r) : NodeOf(Peer[z]) \in S
      BY <1>6, <3>4, <3>5 DEF Ways
    <3>7. ASSUME NEW m \in T, NEW z \in Ways(m, r) PROVE NodeOf(Peer[z]) \in S
      <4>1. PICK w \in Port : NodeOf(w) = m /\ NodeOf(Peer[w]) = n
        BY DEF Toward, PortsOf
      <4>2. /\ Tier[m] = 3 /\ Tier[n] = 2 /\ Peer[w] \in Port /\ Peer[Peer[w]] = w
            /\ ~LooksDown(Peer[w])
        <5>1. Tier[m] = 3 /\ Tier[n] \in {2, 3}
          BY <1>1
        <5> QED
          BY <4>1, <5>1, ClosTiers
      <4>3. m \in TopSpine /\ r \in RootsOf[m]
        BY <4>2 DEF FoldedClos, TopsReachAll
      <4>4. z \in PortsOf(m) /\ r \in Roots(z)
        BY <4>3 DEF Ways
      <4>5. z \in Port /\ NodeOf(z) = m /\ LooksDown(z) /\ r \in RootsOf[NodeOf(Peer[z])]
        BY <4>3, <4>4, WayDown DEF PortsOf
      <4>6. /\ Peer[z] \in Port /\ Peer[Peer[z]] = z /\ ~LooksDown(Peer[z])
            /\ Tier[NodeOf(Peer[z])] = 2
        BY <4>2, <4>5, Ends
      <4>7. NodeOf(Peer[z]) = n
        BY <2>3, <4>1, <4>2, <4>5, <4>6 DEF PlanesApart
      <4> QED
        BY <4>7
    <3>8. S \in SUBSET (Node \ Leaf)
      BY <1>1, <1>4 DEF Leaf
    <3> HIDE DEF T, n, s
    <3>9. ASSUME NEW m \in S, NEW z \in Ways(m, r) PROVE NodeOf(Peer[z]) \in S
      <4>1. CASE m = s
        BY <3>6, <3>9, <4>1
      <4>2. CASE m = n
        BY <2>4, <3>9, <4>2
      <4>3. CASE m \in T
        BY <3>7, <4>3
      <4> QED
        BY <4>1, <4>2, <4>3
    <3>10. s \in S
      OBVIOUS
    <3> HIDE DEF S
    <3>11. ~HasWay(s, r)
      BY <3>8, <3>9, <3>10, NoWayOut
    <3> QED
      BY <3>11 DEF s
  <2> QED
    BY <2>5, <2>6
<1> QED
  BY <1>7, <1>8

(* A leaf blocks no port needlessly: if it has none to send the data of a  *)
(* leaf on that was not restarted, and whose root is not 0, then because   *)
(* the one cable that is cut leaves no way.                                *)
THEOREM NoNeedlessBlock ==
  ASSUME FoldedClos, PlanesApart, TopsReachAll, OneAtATime
  PROVE  Spec => []NoNeedlessDrop
<1>1. IInv /\ OneFault => NoNeedlessDrop
  <2> SUFFICES ASSUME IInv, OneFault, Quiet, NEW a \in Leaf, NEW b \in Leaf \ restarted,
                      a # b, Root[b] # 0, Available(a, Root[b]) = {},
                      NEW x \in OfferedPorts(a) \ cut
               PROVE  ~HasWay(NodeOf(Peer[x]), Root[b])
    BY DEF NoNeedlessDrop
  <2> DEFINE r == Root[b]
  <2>1. r \in RootVID
    BY DEF RootVID, Leaf
  <2>2. CASE Rejoining
    <3>1. x \in Port
      <4>1. a \in Node /\ x \in Uplinks[a]
        BY DEF OfferedPorts, Leaf
      <4> QED
        BY <4>1, LinksOfNode DEF PortsOf, Quiet
    <3>2. r \notin ut[x] /\ rt[x] = {}
      BY <2>2, <3>1, RestartedRoots DEF Rejoining
    <3>3. up[x]
      BY <2>2, <3>1 DEF Quiet, Rejoining
    <3>4. x \in Available(a, r)
      BY <3>2, <3>3 DEF Available, Up, Listed
    <3> QED
      BY <3>4
  <2>3. ASSUME NEW q \in Port, Wave(q), cut = {q, Peer[q]}
        PROVE  ~HasWay(NodeOf(Peer[x]), r)
    BY <2>1, <2>3, NoWayLeft
  <2>4. ASSUME NEW q \in Port, Wave(q), cut = {} PROVE Rejoining
    BY <2>4, HealedWave, CleanIsRejoined
  <2> QED
    BY <2>2, <2>3, <2>4 DEF OneFault, Wave
<1> QED
  BY <1>1, Invariance, OneFaultInvariance, PTL
=============================================================================
