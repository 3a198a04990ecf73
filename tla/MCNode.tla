-------------------------------- MODULE MCNode --------------------------------
(***************************************************************************)
(* A small instance of Node: a trunk block g1 and three branches on it.    *)
(* a2 and c2 tie, a3 makes the first branch heavier than c2, and the single *)
(* block b2 outweighs a2-a3 at a lower height; every arrival order gives    *)
(* ties, side branches that grow and reorganizations up and down.          *)
(***************************************************************************)
EXTENDS Node, TLC

CONSTANTS g1, a2, a3, b2, c2

MCBlocks == {g1, a2, a3, b2, c2}
MCParent == g1 :> Genesis @@ a2 :> g1 @@ a3 :> a2 @@ b2 :> g1 @@ c2 :> g1
MCBlockHeight ==
    Genesis :> 0 @@ g1 :> 1 @@ a2 :> 2 @@ a3 :> 3 @@ b2 :> 2 @@ c2 :> 2
MCStamp ==
    Genesis :> 0 @@ g1 :> 1 @@ a2 :> 2 @@ a3 :> 2 @@ b2 :> 3 @@ c2 :> 2
MCBlockWork == g1 :> 1 @@ a2 :> 1 @@ a3 :> 1 @@ b2 :> 3 @@ c2 :> 1

(* 1 and 2 spend the trunk coinbase, 3 the coinbase of a2.  4 spends the    *)
(* output of 1, mature at height 4: admissible after a3, not after b2.     *)
MCTxs == 1..4
MCInputs == <<{g1}, {g1}, {a2}, {1}>>
MCSpendableHeight == <<4, 0, 0, 0>>
MCBlockTxs == g1 :> {} @@ a2 :> {} @@ a3 :> {1} @@ b2 :> {1} @@ c2 :> {2}
MCTxBytes == <<1, 1, 1, 2>>

(* The solutions of the defining equations, tabulated.                     *)
MCPathTo ==
    LET path[b \in Tree] ==
            IF b = Genesis THEN <<>> ELSE Append(path[Parent[b]], b)
    IN [b \in Tree |-> path[b]]
MCTotalWork ==
    LET work[b \in Tree] ==
            IF b = Genesis THEN 0 ELSE work[Parent[b]] + BlockWork[b]
    IN [b \in Tree |-> work[b]]
MCStateAt ==
    LET replay[b \in Tree] ==
            IF b = Genesis THEN GenesisState ELSE ApplyBlock(replay[Parent[b]], b)
    IN [b \in Tree |-> replay[b]]
=============================================================================
