------------------------------- MODULE Fabric -------------------------------
(***************************************************************************)
(* The wiring of a folded-Clos fabric of CMTP switches and the virtual     *)
(* identifiers (VIDs) the switches hand out.                               *)
(*                                                                         *)
(* A switch is a node, one of its control interfaces "eth<k>" is the port  *)
(* <<node, k>>, and a point-to-point cable joins two ports.  A VID is the  *)
(* dotted text "<root>.<k1>.<k2>..."; it is kept here as the sequence of   *)
(* its octets, <<root, k1, k2, ...>>.                                      *)
(***************************************************************************)
EXTENDS Integers, Sequences, FiniteSets, Functions

CONSTANTS
  Node,       \* the switches
  Tier,       \* the "tier" line of each switch's mtp.conf
  TopSpine,   \* the switches whose mtp.conf says isTopSpine
  Port,       \* the control interfaces, as pairs <<node, interface number>>
  Peer,       \* the port at the other end of each port's cable
  Root        \* the third octet of each leaf's compute network

NodeOf(p) == p[1]
Num(p)    == p[2]

(* A switch is a leaf exactly when its tier is 1.                          *)
Leaf == {n \in Node : Tier[n] = 1}

PortsOf(n) == {p \in Port : NodeOf(p) = n}

(* Port q looks down: the switch behind it is one tier below.              *)
LooksDown(q) == Tier[NodeOf(q)] = Tier[NodeOf(Peer[q])] + 1

VID == Seq(Nat) \ {<<>>}

(* The tier that a VID claims: one more than the dots in its text.         *)
TierOf(v) == Len(v)

(* The VID a switch offers through port p to the switch behind p.          *)
Extend(v, p) == Append(v, Num(p))

ASSUME TierAssumption == Tier \in [Node -> Nat \ {0}]

ASSUME PortAssumption == Port \subseteq Node \X Nat

(* A cable joins two ports of switches on adjacent tiers.                  *)
ASSUME CableAssumption ==
  /\ Peer \in [Port -> Port]
  /\ \A p \in Port :
       /\ Peer[Peer[p]] = p
       /\ \/ Tier[NodeOf(p)] = Tier[NodeOf(Peer[p])] + 1
          \/ Tier[NodeOf(Peer[p])] = Tier[NodeOf(p)] + 1

(* Every leaf serves a compute network of its own.                         *)
ASSUME RootAssumption ==
  /\ Root \in [Leaf -> Nat]
  /\ \A m, n \in Leaf : Root[m] = Root[n] => m = n

ASSUME TopSpineAssumption == TopSpine \subseteq Node \ Leaf

(* A top spine is the end of the fabric: it announces nothing, so nobody   *)
(* may be above it.                                                        *)
TopIsLast == \A p \in Port : NodeOf(p) \in TopSpine => LooksDown(p)

=============================================================================
