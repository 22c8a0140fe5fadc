---------------------------- MODULE MCForwarding ----------------------------
(* Forwarding on Square: leaves A and C, both below the spines P1 and P2,     *)
(* both below T.  A spine hears of the other's failures from above.           *)
EXTENDS Forwarding

CONSTANTS A, C, P1, P2, T

Ends(cables) == UNION {{c[1], c[2]} : c \in cables}

SquareCables ==
  { <<<<A, 1>>, <<P1, 1>>>>, <<<<A, 2>>, <<P2, 1>>>>,
    <<<<C, 1>>, <<P1, 2>>>>, <<<<C, 2>>, <<P2, 2>>>>,
    <<<<P1, 3>>, <<T, 1>>>>, <<<<P2, 3>>, <<T, 2>>>> }
SquareNode == {A, C, P1, P2, T}
SquareTier ==
  [n \in SquareNode |-> CASE n \in {A, C} -> 1 [] n = T -> 3 [] OTHER -> 2]
Top == {T}
SquarePort == Ends(SquareCables)
SquarePeer ==
  [p \in SquarePort |->
     CHOOSE q \in SquarePort : <<p, q>> \in SquareCables \/ <<q, p>> \in SquareCables]
SquareRoot == [n \in {A, C} |-> IF n = A THEN 0 ELSE 3]
SquareRootsOf ==
  [n \in SquareNode |-> CASE n = A -> {0} [] n = C -> {3} [] OTHER -> {0, 3}]

(* Packets do not meet: one is sent.  It goes to C, or from there to A, whose *)
(* root is 0.                                                                 *)
From == [k \in {"data", "zero"} |-> IF k = "data" THEN A ELSE C]
To   == [k \in {"data", "zero"} |-> IF k = "data" THEN Root[C] ELSE Root[A]]

(* P1 and P2 share T, which not all of what is proved about Updates admits.  *)
ASSUME Premises == FoldedClos /\ TopsReachAll /\ ~PlanesApart
=============================================================================
