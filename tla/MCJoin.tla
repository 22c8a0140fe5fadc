------------------------------- MODULE MCJoin -------------------------------
(* Join on two small fabrics of three tiers.                                 *)
(*   Diamond: leaf L1 below the spines S1 and S2, both below top spine T,  *)
(*            so that T has two VIDs of the same root.                     *)
(*   Stem:    leaves L1 and L2 below spine S1, S1 below T, so that a       *)
(*            switch and a port have VIDs of two roots.                    *)
EXTENDS Join

CONSTANTS L1, L2, S1, S2, T

TierIn(nodes) ==
  [n \in nodes |-> CASE n \in {L1, L2} -> 1 [] n \in {S1, S2} -> 2 [] OTHER -> 3]
Top == {T}
Ends(cables) == UNION {{c[1], c[2]} : c \in cables}
Across(cables) ==
  [p \in Ends(cables) |->
     CHOOSE q \in Ends(cables) : <<p, q>> \in cables \/ <<q, p>> \in cables]

DiamondCables ==
  { <<<<L1, 1>>, <<S1, 1>>>>, <<<<L1, 2>>, <<S2, 1>>>>,
    <<<<S1, 3>>, <<T, 1>>>>,  <<<<S2, 3>>, <<T, 2>>>> }
DiamondNode == {L1, S1, S2, T}
DiamondTier == TierIn(DiamondNode)
DiamondPort == Ends(DiamondCables)
DiamondPeer == Across(DiamondCables)
DiamondRoot == [n \in {L1} |-> 1]

StemCables ==
  { <<<<L1, 1>>, <<S1, 1>>>>, <<<<L2, 1>>, <<S1, 2>>>>, <<<<S1, 3>>, <<T, 1>>>> }
StemNode == {L1, L2, S1, T}
StemTier == TierIn(StemNode)
StemPort == Ends(StemCables)
StemPeer == Across(StemCables)
StemRoot == [n \in {L1, L2} |-> IF n = L1 THEN 1 ELSE 2]

(* The proofs about a fabric at rest ask for it.                            *)
ASSUME Premise == TopIsLast
=============================================================================
