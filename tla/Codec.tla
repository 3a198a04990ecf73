-------------------------------- MODULE Codec --------------------------------
(***************************************************************************)
(* What both codecs have in common: the result of a writer or a reader of  *)
(* cells, and the largest objects either may carry.                        *)
(***************************************************************************)
EXTENDS Naturals, Sequences

CONSTANTS MaxTransactionBytes,   \* MAX_TRANSACTION_BYTES, in cells, frame included
          MaxBlockBytes          \* MAX_BLOCK_BYTES

(* Result of a writer or a reader: a value or the name of an error. *)
Ok(v) == [ok |-> TRUE, val |-> v]
Err(e) == [ok |-> FALSE, err |-> e]

(* Go on with the value of r, or return its error (the code's `?`). *)
Then(r, Use(_)) == IF r.ok THEN Use(r.val) ELSE r
=============================================================================
