------------------------------ MODULE BlockTree ------------------------------
(***************************************************************************)
(* The universe of candidate blocks that miners and peers may hand to a    *)
(* node, as the header fields the fork index reads: the parent a header    *)
(* names, the height and time it claims and the work its target is worth.  *)
(* A block is its block_id; everything hashed into it is fixed with it.    *)
(***************************************************************************)
EXTENDS Integers, Sequences, FiniteSets

CONSTANTS
    Blocks,     \* block identifiers other than genesis
    Genesis,    \* NetworkParams.genesis_hash, a virtual block with no body
    Parent,     \* challenge.previous_block of each block
    BlockHeight,\* challenge.height of each block
    Stamp,      \* challenge.timestamp of each block, and genesis_timestamp
    BlockWork,  \* work of challenge.target: floor(2^256 / (target + 1))
    PathTo,     \* blocks from genesis (excluded) to each block
    TotalWork   \* work of the whole chain below and including each block

Tree == Blocks \cup {Genesis}

(* A header commits to its parent's hash, so parents come first and the    *)
(* universe is a tree; next_work_target never returns 0 and caps targets,  *)
(* so a block is worth at least one unit of work.  PathTo and TotalWork    *)
(* are given by their defining equations, which have one solution (and     *)
(* have one only because there are no cycles).                             *)
ASSUME TreeAssumption ==
    /\ Genesis \notin Blocks
    /\ Parent \in [Blocks -> Tree]
    /\ BlockHeight \in [Tree -> Nat] /\ BlockHeight[Genesis] = 0
    /\ Stamp \in [Tree -> Nat]
    /\ BlockWork \in [Blocks -> Nat \ {0}]

ASSUME PathAssumption ==
    /\ DOMAIN PathTo = Tree /\ \A b \in Tree : PathTo[b] \in Seq(Blocks)
    /\ PathTo[Genesis] = <<>>
    /\ \A b \in Blocks : PathTo[b] = Append(PathTo[Parent[b]], b)

ASSUME WorkAssumption ==
    /\ DOMAIN TotalWork = Tree /\ \A b \in Tree : TotalWork[b] \in Nat
    /\ TotalWork[Genesis] = 0
    /\ \A b \in Blocks : TotalWork[b] = TotalWork[Parent[b]] + BlockWork[b]

-----------------------------------------------------------------------------
(* active_chain holds the virtual genesis at index zero, then path_to.     *)
ChainTo(b) == <<Genesis>> \o PathTo[b]

BlocksOf(chain) == {chain[i] : i \in 1..Len(chain)}

Tip(chain) == chain[Len(chain)]
=============================================================================
