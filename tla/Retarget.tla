------------------------------ MODULE Retarget -------------------------------
(***************************************************************************)
(* Block times, targets and work along one chain: the median time rule of  *)
(* ChainState and the retarget of difficulty.rs.                           *)
(***************************************************************************)
EXTENDS Integers, Sequences, FiniteSets, FiniteSetsExt, SequencesExt

CONSTANTS MedianTimeWindow, MaxFutureOffset,
          Spacing,           \* TARGET_SPACING_SECONDS
          DgwWindow, PowLimit, GenesisTime,
          HashSpace,         \* 2^256
          MaxWork            \* largest U512

(* Windows and spacing are not zero, and the easiest target still leaves   *)
(* hashes out.                                                             *)
RetargetAssumption ==
    /\ MedianTimeWindow \in Nat \ {0} /\ DgwWindow \in Nat \ {0} /\ Spacing \in Nat \ {0}
    /\ GenesisTime \in Nat
    /\ HashSpace \in Nat /\ PowLimit \in 1..(HashSpace - 1)

(* From the left, as a function over the prefixes of seq. *)
Folded(op(_, _), base, seq) ==
    LET upTo[i \in 0..Len(seq)] == IF i = 0 THEN base ELSE op(upTo[i - 1], seq[i])
    IN  upTo[Len(seq)]
SumOf(Value(_), seq) == Folded(LAMBDA acc, e : acc + Value(e), 0, seq)
LesserOf(a, b) == IF a < b THEN a ELSE b
LastOf(seq, n) == SubSeq(seq, (IF Len(seq) > n THEN Len(seq) - n ELSE 0) + 1, Len(seq))

(* median_timestamp: of the sorted window, the one in the middle.          *)
Earlier(window, j, i) ==
    window[j] < window[i] \/ (window[j] = window[i] /\ j < i)
SortedPlace(window, i) == Cardinality({j \in 1..Len(window) : Earlier(window, j, i)})
MedianTimestamp(stamps) ==
    LET window == LastOf(stamps, MedianTimeWindow)
    IN  window[CHOOSE i \in 1..Len(window) : SortedPlace(window, i) = Len(window) \div 2]

(* What becomes of the average target: scaled by the time the window took, *)
(* which counts as at least a third and at most three times the expected.  *)
Adjusted(average, measured, expected) ==
    LET least == expected \div 3
        clamped == IF measured < least THEN least ELSE LesserOf(measured, expected * 3)
    IN  LesserOf((average * clamped) \div expected, PowLimit)

NoTarget == 0

(* Mutant of NextWorkTarget: a target that rounds to zero is kept. *)
NextWorkTargetNoFloor(history) ==
    LET window == LastOf(history, DgwWindow)
        count == Len(window)
        Target(h) == h.target
    IN  IF count = 1 THEN LesserOf(window[1].target, PowLimit)
        ELSE Adjusted(SumOf(Target, window) \div count,
                      window[count].timestamp - window[1].timestamp, (count - 1) * Spacing)

(* next_work_target, NoTarget for an error. *)
NextWorkTarget(history) ==
    LET window == LastOf(history, DgwWindow)
        count == Len(window)
        Target(h) == h.target
        adjusted == Adjusted(SumOf(Target, window) \div count,
                             window[count].timestamp - window[1].timestamp,
                             (count - 1) * Spacing)
    IN  CASE \/ \E i \in 1..(count - 1) : window[i + 1].timestamp < window[i].timestamp
             \/ \E i \in 1..count : window[i].target = 0 -> NoTarget
          [] count = 1 -> LesserOf(window[1].target, PowLimit)
          [] OTHER -> IF adjusted = 0 THEN 1 ELSE adjusted

(* The timestamp kept for the retarget: the median of a full window that   *)
(* ends with this block.                                                   *)
EffectiveTime(raw_timestamps, timestamp) ==
    MedianTimestamp(Append(LastOf(raw_timestamps, MedianTimeWindow - 1), timestamp))

TimestampValid(raw_timestamps, timestamp, now) ==
    /\ timestamp > MedianTimestamp(raw_timestamps)
    /\ timestamp <= now + MaxFutureOffset

(* Mutant of BlockWork: the largest hash in place of the number of hashes. *)
BlockWorkTruncated(target) == (HashSpace - 1) \div (target + 1)

(* block_work and add_chain_work. *)
BlockWork(target) == HashSpace \div (target + 1)
WorkOverflow == -1
AddChainWork(work, target) ==
    IF work + BlockWork(target) > MaxWork THEN WorkOverflow ELSE work + BlockWork(target)
=============================================================================
