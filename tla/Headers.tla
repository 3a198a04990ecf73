------------------------------- MODULE Headers -------------------------------
(***************************************************************************)
(* A chain of headers whose times are anything the rules of Retarget let   *)
(* through, in or out of order, as local clocks and miners differ.         *)
(***************************************************************************)
EXTENDS Retarget

CONSTANTS Clock,     \* readings of the validator's clock
          MaxLength  \* bound on the length of the chain

VARIABLES raw_timestamps,  \* block times, genesis first
          history,         \* HeaderWork: effective time and target
          work             \* cumulative work

headerVars == <<raw_timestamps, history, work>>

HeadersInit ==
    /\ raw_timestamps = <<GenesisTime>>
    /\ history = <<[timestamp |-> GenesisTime, target |-> PowLimit]>>
    /\ work = 0

(* The header part of validate_block and commit_validated. *)
ExtendHeaders ==
    /\ Len(history) <= MaxLength
    /\ NextWorkTarget(history) # NoTarget
    /\ AddChainWork(work, NextWorkTarget(history)) # WorkOverflow
    /\ \E now \in Clock, timestamp \in 0..(Max(Clock) + MaxFutureOffset) :
        /\ TimestampValid(raw_timestamps, timestamp, now)
        /\ raw_timestamps' = Append(raw_timestamps, timestamp)
        /\ history' = Append(history, [timestamp |-> EffectiveTime(raw_timestamps, timestamp),
                                       target |-> NextWorkTarget(history)])
    /\ work' = AddChainWork(work, NextWorkTarget(history))

HeadersSpec == HeadersInit /\ [][ExtendHeaders]_headerVars
-----------------------------------------------------------------------------

(* Whatever timestamps the median rule lets through, in or out of order,   *)
(* the next target can be computed and lies between one and the limit: the *)
(* chain can always go on.                                                 *)
TargetDerivable == NextWorkTarget(history) \in 1..PowLimit

(* Every block adds work, whatever its target. *)
WorkCounted == work >= Len(history) - 1

(* A next target can be derived from every chain of valid headers, and     *)
(* every block has added work.                                             *)
HeadersGoOn == TargetDerivable /\ WorkCounted
=============================================================================
