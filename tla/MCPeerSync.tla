------------------------------ MODULE MCPeerSync ------------------------------
(***************************************************************************)
(* Instances of PeerSync whose block tree is two branches of given lengths *)
(* on genesis, every block worth one unit.  Blocks are numbers: 1, 2, ...   *)
(* up one branch, -1, -2, ... up the other, genesis is 0.                  *)
(***************************************************************************)
EXTENDS PeerSync

CONSTANTS LengthA, LengthB, MinedA, MinedB, A, B

MCBlocks == (-LengthB..LengthA) \ {0}
MCTree == -LengthB..LengthA
MCParent == [b \in MCBlocks |-> IF b > 0 THEN b - 1 ELSE b + 1]
MCBlockHeight == [b \in MCTree |-> IF b > 0 THEN b ELSE -b]
MCBlockWork == [b \in MCBlocks |-> 1]
MCPathTo ==
    [b \in MCTree |-> IF b > 0 THEN [i \in 1..b |-> i] ELSE [i \in 1..-b |-> -i]]
MCTotalWork == MCBlockHeight
MCNodes == {A, B}
(* B has A as a static peer and A has none: a one-sided static link.       *)
OneSided == [n \in MCNodes |-> IF n = B THEN {A} ELSE {}]
BothWays == [n \in MCNodes |-> MCNodes \ {n}]
MCStartTip == [n \in MCNodes |-> IF n = A THEN MinedA ELSE -MinedB]
=============================================================================
