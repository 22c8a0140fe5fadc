------------------------------ MODULE MCUpdates ------------------------------
(***************************************************************************)
(* Updates on two fabrics of three tiers.                                  *)
(*   Pods: leaves A and B below the spines P1 and Q1, leaf C below P2 and  *)
(*         Q2; T joins the P spines, U the Q spines.  Two leaves have two  *)
(*         ways to each other; a spine that loses its one way up is cut    *)
(*         off.                                                            *)
(*   Twin: leaf A below P1, leaf C below P2, both spines below T and U: a  *)
(*         spine that loses one way up has another.                        *)
(***************************************************************************)
EXTENDS Updates

CONSTANTS A, B, C, P1, P2, Q1, Q2, T, U

TierIn(nodes) ==
  [n \in nodes |-> CASE n \in {A, B, C} -> 1 [] n \in {T, U} -> 3 [] OTHER -> 2]
RootIn(leaves) == [n \in leaves |-> CASE n = A -> 1 [] n = B -> 0 [] n = C -> 3]
Top == {T, U}
Ends(cables) == UNION {{c[1], c[2]} : c \in cables}
Across(cables) ==
  [p \in Ends(cables) |->
     CHOOSE q \in Ends(cables) : <<p, q>> \in cables \/ <<q, p>> \in cables]

PodCables ==
  { <<<<A, 1>>, <<P1, 1>>>>, <<<<A, 2>>, <<Q1, 1>>>>,
    <<<<B, 1>>, <<P1, 2>>>>, <<<<B, 2>>, <<Q1, 2>>>>,
    <<<<C, 1>>, <<P2, 1>>>>, <<<<C, 2>>, <<Q2, 1>>>>,
    <<<<P1, 3>>, <<T, 1>>>>, <<<<P2, 3>>, <<T, 2>>>>,
    <<<<Q1, 3>>, <<U, 1>>>>, <<<<Q2, 3>>, <<U, 2>>>> }
PodNode == {A, B, C, P1, P2, Q1, Q2, T, U}
PodTier == TierIn(PodNode)
PodPort == Ends(PodCables)
PodPeer == Across(PodCables)
PodRoot == RootIn({A, B, C})
PodRootsOf ==
  [n \in PodNode |-> CASE n = A -> {1} [] n = B -> {0} [] n \in {C, P2, Q2} -> {3}
                       [] n \in {P1, Q1} -> {0, 1} [] OTHER -> {0, 1, 3}]

TwinCables ==
  { <<<<A, 1>>, <<P1, 1>>>>, <<<<C, 1>>, <<P2, 1>>>>,
    <<<<P1, 2>>, <<T, 1>>>>, <<<<P2, 2>>, <<T, 2>>>>,
    <<<<P1, 3>>, <<U, 1>>>>, <<<<P2, 3>>, <<U, 2>>>> }
TwinNode == {A, C, P1, P2, T, U}
TwinTier == TierIn(TwinNode)
TwinPort == Ends(TwinCables)
TwinPeer == Across(TwinCables)
TwinRoot == RootIn({A, C})
TwinRootsOf ==
  [n \in TwinNode |-> CASE n \in {A, P1} -> {1} [] n \in {C, P2} -> {3} [] OTHER -> {1, 3}]

(* Both are what the proofs about failures one at a time ask of a fabric.  *)
ASSUME Premises == FoldedClos /\ TopsReachAll /\ PlanesApart
=============================================================================
