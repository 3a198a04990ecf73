------------------------------ MODULE BestChain ------------------------------
(***************************************************************************)
(* What fork choice with durable storage promises its users, without the   *)
(* log, the index or the crashes: blocks are only ever learned, parents    *)
(* first, and the tip is kept until a block with strictly more work comes. *)
(***************************************************************************)
EXTENDS Integers

CONSTANTS Blocks, Genesis, Parent, Work

VARIABLES known, tip

vars == <<known, tip>>

Init == known = {} /\ tip = Genesis

(* One sync may make several records durable at once.                      *)
Learn(new) ==
    /\ new # {} /\ new \cap known = {}
    /\ \A b \in new : Parent[b] \in known \cup new \cup {Genesis}
    /\ known' = known \cup new
    /\ \/ /\ \A b \in new : Work[b] <= Work[tip]
          /\ UNCHANGED tip
       \/ /\ tip' \in new
          /\ Work[tip'] > Work[tip]
          /\ \A b \in new : Work[b] <= Work[tip']

Next == \E new \in SUBSET Blocks : Learn(new)

Spec == Init /\ [][Next]_vars
=============================================================================
