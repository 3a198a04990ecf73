-------------------------------- MODULE MCPool --------------------------------
(* Symmetric threads, payout labels and nonces of a kind for TLC.          *)
EXTENDS Pool, TLC

Symmetry ==
    Permutations(Conns) \cup Permutations(Payouts)
        \cup Permutations(BlockNonces) \cup Permutations(ShareNonces \ BlockNonces)
=============================================================================
