----------------------------- MODULE LedgerProofs -----------------------------
(***************************************************************************)
(* Proofs about module Ledger, for any catalogue of transactions, any      *)
(* limits and any policy (LedgerAssumption: lists are lists, locks are     *)
(* locks, amounts are unsigned), and about module Headers, for any clocks, *)
(* windows and limit of the target (RetargetAssumption).                   *)
(*                                                                         *)
(* A history is what was created and what was spent, and an overlay reads  *)
(* as a history (Reads): an output that is created and not spent is what   *)
(* Get returns, an open channel is active, a closed one retired. Each      *)
(* operation on an overlay adds to the history it reads as; staging, the   *)
(* removal of inputs and the insertion of outputs are folds, unfolded by   *)
(* instances of module LeftFolds. Tells is the history that transactions   *)
(* and blocks make, from ApplyTransaction to validate_delta; a commit      *)
(* turns what the overlay reads as into the UTXO set (DeltaReads).         *)
(*                                                                         *)
(* The inductive invariant says that the state is the replay of the chain, *)
(* every block of which is valid after the blocks before it, and that a    *)
(* token is what validate_block returned on the replay of some valid       *)
(* chain. Why a stale token cannot commit: a block is identified by all of *)
(* itself, its parent included, so a tip tells the whole chain             *)
(* (TipTellsChain), and a token whose tip is the state's was made for this *)
(* very state.                                                             *)
(*                                                                         *)
(* Value: the history a chain makes also pays (Solvent): each transaction  *)
(* leaves no more than it takes.  What was created is what transactions    *)
(* left and coinbases paid, what was spent is what transactions took, and  *)
(* the coins are the difference; a coinbase pays its subsidy to the last   *)
(* unit.  The subsidies of the declining phase are summed in pairs, each   *)
(* height with its opposite: the divisions of a pair lose one unit, unless *)
(* exact, and Euclid's divisor counts the exact ones.                      *)
(*                                                                         *)
(* Headers: the time kept for the retarget is the median of the chain so   *)
(* far, and a block whose time is above the median of the blocks before it *)
(* never takes the median back (MedianAdvances): were the new median below *)
(* the old, more than half of the new window would be among what stood     *)
(* before the middle of the old one.  So next_work_target finds its times  *)
(* in order, and the sums, clamps and divisions leave a target within the  *)
(* limit.                                                                  *)
(***************************************************************************)
EXTENDS Ledger, Headers, FiniteSums, SequenceTheorems, TLAPS

IsOverlay(ov) ==
    ov = [base |-> ov.base, outputs |-> ov.outputs, active |-> ov.active,
          retired |-> ov.retired, spent |-> ov.spent, fees |-> ov.fees, ok |-> ov.ok]

(* The parts of an overlay that staging leaves alone.                      *)
SameRest(ov, ov2) ==
    ov2.base = ov.base /\ ov2.spent = ov.spent /\ ov2.fees = ov.fees /\ ov2.ok = ov.ok
-----------------------------------------------------------------------------
(* Staging an output changes what is read at its outpoint and nothing else. *)
LEMMA StageOutputReads ==
  ASSUME NEW ov, IsOverlay(ov), NEW o, NEW out
  PROVE  LET ov2 == StageOutput(ov, o, out)
         IN  /\ IsOverlay(ov2) /\ SameRest(ov, ov2)
             /\ \A p : Get(ov2, p) = IF p = o THEN out ELSE Get(ov, p)
             /\ \A c : IsActive(ov2, c) <=> IsActive(ov, c)
             /\ \A c : IsRetired(ov2, c) <=> IsRetired(ov, c)
<1> DEFINE staged == Stage(ov.outputs, o, BaseGet(ov.base, o), out)
<1>1. StageOutput(ov, o, out) =
        [base |-> ov.base, outputs |-> staged, active |-> ov.active,
         retired |-> ov.retired, spent |-> ov.spent, fees |-> ov.fees, ok |-> ov.ok]
  BY DEF StageOutput, IsOverlay
<1>2. /\ o \in DOMAIN staged => staged[o].next = out
      /\ o \notin DOMAIN staged => BaseGet(ov.base, o) = out
  BY DEF Stage, Put, Drop
<1>3. \A p : p # o => /\ p \in DOMAIN staged <=> p \in DOMAIN ov.outputs
                      /\ p \in DOMAIN ov.outputs => staged[p] = ov.outputs[p]
  BY DEF Stage, Put, Drop
<1> QED
  <2> HIDE DEF staged
  <2> QED
    BY <1>1, <1>2, <1>3 DEF Get, IsActive, IsRetired, IsOverlay, SameRest

LEMMA StageActiveReads ==
  ASSUME NEW ov, IsOverlay(ov), NEW c, NEW b \in BOOLEAN
  PROVE  LET ov2 == StageActive(ov, c, b)
         IN  /\ IsOverlay(ov2) /\ SameRest(ov, ov2)
             /\ \A p : Get(ov2, p) = Get(ov, p)
             /\ \A d : d # c => IsActive(ov2, d) <=> IsActive(ov, d)
             /\ IsActive(ov2, c) <=> b
             /\ \A d : IsRetired(ov2, d) <=> IsRetired(ov, d)
<1> DEFINE staged == Stage(ov.active, c, c \in ov.base.active, b)
<1>1. StageActive(ov, c, b) =
        [base |-> ov.base, outputs |-> ov.outputs, active |-> staged,
         retired |-> ov.retired, spent |-> ov.spent, fees |-> ov.fees, ok |-> ov.ok]
  BY DEF StageActive, IsOverlay
<1>2. /\ c \in DOMAIN staged => staged[c].next = b
      /\ c \notin DOMAIN staged => (c \in ov.base.active) = b
  BY DEF Stage, Put, Drop
<1>3. \A p : p # c => /\ p \in DOMAIN staged <=> p \in DOMAIN ov.active
                      /\ p \in DOMAIN ov.active => staged[p] = ov.active[p]
  BY DEF Stage, Put, Drop
<1> QED
  <2> HIDE DEF staged
  <2> QED
    BY <1>1, <1>2, <1>3 DEF Get, IsActive, IsRetired, IsOverlay, SameRest

LEMMA StageRetiredReads ==
  ASSUME NEW ov, IsOverlay(ov), NEW c, NEW b \in BOOLEAN
  PROVE  LET ov2 == StageRetired(ov, c, b)
         IN  /\ IsOverlay(ov2) /\ SameRest(ov, ov2)
             /\ \A p : Get(ov2, p) = Get(ov, p)
             /\ \A d : IsActive(ov2, d) <=> IsActive(ov, d)
             /\ \A d : d # c => IsRetired(ov2, d) <=> IsRetired(ov, d)
             /\ IsRetired(ov2, c) <=> b
<1> DEFINE staged == Stage(ov.retired, c, c \in ov.base.retired, b)
<1>1. StageRetired(ov, c, b) =
        [base |-> ov.base, outputs |-> ov.outputs, active |-> ov.active,
         retired |-> staged, spent |-> ov.spent, fees |-> ov.fees, ok |-> ov.ok]
  BY DEF StageRetired, IsOverlay
<1>2. /\ c \in DOMAIN staged => staged[c].next = b
      /\ c \notin DOMAIN staged => (c \in ov.base.retired) = b
  BY DEF Stage, Put, Drop
<1>3. \A p : p # c => /\ p \in DOMAIN staged <=> p \in DOMAIN ov.retired
                      /\ p \in DOMAIN ov.retired => staged[p] = ov.retired[p]
  BY DEF Stage, Put, Drop
<1> QED
  <2> HIDE DEF staged
  <2> QED
    BY <1>1, <1>2, <1>3 DEF Get, IsActive, IsRetired, IsOverlay, SameRest
-----------------------------------------------------------------------------
(* The folds of the model, as instances of module LeftFolds.               *)
InsertStep(ctx, ov, i) == InsertOutput(ov, <<ctx[1], i - 1>>, ctx[2][i])
RemoveStep(ctx, ov, in) == StageOutput(ov, in.previous, None)

ApplyStep(height, ov, t) == ApplyTransaction(ov, t, height)

Inserting == INSTANCE LeftFolds WITH Step <- InsertStep
Removing == INSTANCE LeftFolds WITH Step <- RemoveStep
Applying == INSTANCE LeftFolds WITH Step <- ApplyStep

(* The overlays that InsertOutputs runs through.                           *)
InsertRun(f, ov, txid, outputs) ==
    /\ f[0] = ov
    /\ \A i \in 1..Len(outputs) : f[i] = InsertOutput(f[i - 1], <<txid, i - 1>>, outputs[i])
    /\ f[Len(outputs)] = InsertOutputs(ov, txid, outputs)

LEMMA InsertOutputsUnfolds ==
  ASSUME NEW ov, NEW txid, NEW outputs, Len(outputs) \in Nat
  PROVE  \E f : InsertRun(f, ov, txid, outputs)
<1> DEFINE n == Len(outputs)
           seq == [i \in 1..n |-> i]
           Runs(f) == f = [i \in 0..Len(seq) |->
                             IF i = 0 THEN ov
                             ELSE InsertOutput(f[i - 1], <<txid, seq[i] - 1>>, outputs[seq[i]])]
           g == CHOOSE f : Runs(f)
<1>1. Len(seq) = n
  <2>1. seq \in Seq(Nat)
    OBVIOUS
  <2> QED
    BY <2>1
<1>2. \E f : Runs(f)
  <2>1. PICK f : Inserting!Unfolds(f, <<txid, outputs>>, ov, seq, n)
    BY Inserting!LeftFoldExists
  <2>2. \A acc, i : InsertStep(<<txid, outputs>>, acc, i)
                       = InsertOutput(acc, <<txid, i - 1>>, outputs[i])
    BY DEF InsertStep
  <2>3. f = [i \in 0..n |-> IF i = 0 THEN ov
                            ELSE InsertStep(<<txid, outputs>>, f[i - 1], seq[i])]
    BY <2>1 DEF Inserting!Unfolds
  <2>4. f = [i \in 0..n |-> IF i = 0 THEN ov
                            ELSE InsertOutput(f[i - 1], <<txid, seq[i] - 1>>, outputs[seq[i]])]
    <3> HIDE DEF seq
    <3>1. \A i \in 0..n : (IF i = 0 THEN ov ELSE InsertStep(<<txid, outputs>>, f[i - 1], seq[i]))
              = (IF i = 0 THEN ov ELSE InsertOutput(f[i - 1], <<txid, seq[i] - 1>>, outputs[seq[i]]))
      BY <2>2, Zenon
    <3> QED
      BY <2>3, <3>1, Zenon
  <2> HIDE DEF seq
  <2> QED
    BY <1>1, <2>4
<1>3. Runs(g)
  BY <1>2
<1>4. InsertOutputs(ov, txid, outputs) = g[Len(seq)]
  BY DEF InsertOutputs, Folded
<1>5. \A i \in 1..n : i \in 0..n /\ i # 0 /\ seq[i] = i
  OBVIOUS
<1> HIDE DEF g
<1>6. g[0] = ov /\ \A i \in 1..n : g[i] = InsertOutput(g[i - 1], <<txid, seq[i] - 1>>, outputs[seq[i]])
  <2> HIDE DEF seq
  <2> QED
    BY <1>1, <1>3, <1>5, SMTT(40)
<1>7. g[n] = InsertOutputs(ov, txid, outputs)
  BY <1>1, <1>4
<1>8. \A i \in 1..n : g[i] = InsertOutput(g[i - 1], <<txid, i - 1>>, outputs[i])
  <2> HIDE DEF seq
  <2> QED
    BY <1>5, <1>6
<1> QED
  BY <1>6, <1>7, <1>8 DEF InsertRun

(* The overlays that the inputs of a transaction leave one by one.         *)
Removed(ov, inputs) == Folded(LAMBDA acc, i : StageOutput(acc, i.previous, None), ov, inputs)
RemovalRun(f, ov, inputs) ==
    /\ f[0] = ov
    /\ \A i \in 1..Len(inputs) : f[i] = StageOutput(f[i - 1], inputs[i].previous, None)
    /\ f[Len(inputs)] = Removed(ov, inputs)

LEMMA RemovalsUnfold ==
  ASSUME NEW ov, NEW inputs, Len(inputs) \in Nat
  PROVE  \E f : RemovalRun(f, ov, inputs)
<1> DEFINE n == Len(inputs)
           Runs(f) == f = [i \in 0..n |-> IF i = 0 THEN ov
                                          ELSE StageOutput(f[i - 1], inputs[i].previous, None)]
           g == CHOOSE f : Runs(f)
<1>1. \E f : Runs(f)
  <2>1. PICK f : Removing!Unfolds(f, 0, ov, inputs, n)
    BY Removing!LeftFoldExists
  <2> QED
    BY <2>1 DEF Removing!Unfolds, RemoveStep
<1>2. Runs(g)
  BY <1>1
<1>3. Removed(ov, inputs) = g[n]
  BY DEF Removed, Folded
<1>4. \A i \in 1..n : i \in 0..n /\ i # 0
  OBVIOUS
<1> HIDE DEF g
<1>5. g[0] = ov /\ \A i \in 1..n : g[i] = StageOutput(g[i - 1], inputs[i].previous, None)
  BY <1>2, <1>4
<1> QED
  BY <1>3, <1>5 DEF RemovalRun

(* The overlays that the transactions of a block are applied in.           *)
ApplyRun(f, u, txids, height) ==
    /\ f[0] = NewOverlay(u)
    /\ \A i \in 1..Len(txids) : f[i] = ApplyTransaction(f[i - 1], txids[i], height)
    /\ f[Len(txids)] = ApplyAll(u, txids, height)

LEMMA ApplyUnfolds ==
  ASSUME NEW u, NEW txids, Len(txids) \in Nat, NEW height
  PROVE  \E f : ApplyRun(f, u, txids, height)
<1> DEFINE n == Len(txids)
           Runs(f) == f = [i \in 0..n |-> IF i = 0 THEN NewOverlay(u)
                                          ELSE ApplyTransaction(f[i - 1], txids[i], height)]
           g == CHOOSE f : Runs(f)
<1>1. \E f : Runs(f)
  <2>1. PICK f : Applying!Unfolds(f, height, NewOverlay(u), txids, n)
    BY Applying!LeftFoldExists
  <2> QED
    BY <2>1 DEF Applying!Unfolds, ApplyStep
<1>2. Runs(g)
  BY <1>1
<1>3. ApplyAll(u, txids, height) = g[n]
  BY DEF ApplyAll, Folded
<1>4. \A i \in 1..n : i \in 0..n /\ i # 0
  OBVIOUS
<1> HIDE DEF g
<1>5. g[0] = NewOverlay(u) /\ \A i \in 1..n : g[i] = ApplyTransaction(g[i - 1], txids[i], height)
  BY <1>2, <1>4
<1> QED
  BY <1>3, <1>5 DEF ApplyRun
-----------------------------------------------------------------------------
IsChannel(lock) == lock[1] = "channel"
WellLocked(out) == IsChannel(out.lock) => out.lock = ChannelLock(out.lock[2])

Record(o, out) == [at |-> o, out |-> out]

(* The created outputs C and the spent outpoints S make a history: at each *)
(* outpoint one output, for each channel one funding.                      *)
History(C, S) ==
    /\ \A r \in C : r = Record(r.at, r.out) /\ r.out # None /\ WellLocked(r.out)
    /\ \A r, q \in C : r.at = q.at => r = q
    /\ \A r, q \in C : IsChannel(r.out.lock) /\ r.out.lock = q.out.lock => r = q
    /\ \A o \in S : \E r \in C : r.at = o

Open(C, S, c) == \E r \in C : r.at \notin S /\ r.out.lock = ChannelLock(c)
Funded(C, c) == \E r \in C : r.out.lock = ChannelLock(c)

(* A list of outputs.                                                      *)
IsOutputs(outputs) ==
    /\ Len(outputs) \in Nat /\ DOMAIN outputs = 1..Len(outputs)
    /\ \A i \in DOMAIN outputs : WellLocked(outputs[i])

(* No output was created under this txid.                                  *)
Unused(C, txid) == \A r \in C : \A i : r.at # <<txid, i>>

(* The overlay reads as that history.                                      *)
Reads(ov, C, S) ==
    /\ IsOverlay(ov)
    /\ \A r \in C : r.at \notin S => Get(ov, r.at) = r.out
    /\ \A o : Get(ov, o) # None => o \notin S /\ \E r \in C : r.at = o
    /\ \A c : IsActive(ov, c) <=> Open(C, S, c)
    /\ \A c : IsRetired(ov, c) <=> Funded(C, c) /\ ~Open(C, S, c)

LEMMA FailedFails ==
  ASSUME NEW ov, IsOverlay(ov)
  PROVE  IsOverlay(Failed(ov)) /\ ~Failed(ov).ok
<1>1. Failed(ov) = [base |-> ov.base, outputs |-> ov.outputs, active |-> ov.active,
                    retired |-> ov.retired, spent |-> ov.spent, fees |-> ov.fees, ok |-> FALSE]
  <2>1. \A v : [ov EXCEPT !.ok = v] =
                 [base |-> ov.base, outputs |-> ov.outputs, active |-> ov.active,
                  retired |-> ov.retired, spent |-> ov.spent, fees |-> ov.fees, ok |-> v]
    BY DEF IsOverlay
  <2> QED
    BY <2>1, Zenon DEF Failed
<1> QED
  BY <1>1 DEF IsOverlay

(* A failed overlay stays failed.                                          *)
LEMMA InsertIsOverlay ==
  ASSUME NEW ov, IsOverlay(ov), NEW o, NEW out
  PROVE  LET ov2 == InsertOutput(ov, o, out) IN IsOverlay(ov2) /\ (ov2.ok => ov.ok)
<1> DEFINE mid == IF out.lock[1] = "channel" THEN StageActive(ov, out.lock[2], TRUE) ELSE ov
<1>1. IsOverlay(Failed(ov)) /\ ~Failed(ov).ok
  BY FailedFails
<1>2. IsOverlay(mid) /\ mid.ok = ov.ok
  <2>1. IsOverlay(StageActive(ov, out.lock[2], TRUE)) /\ SameRest(ov, StageActive(ov, out.lock[2], TRUE))
    BY StageActiveReads
  <2> QED
    BY <2>1 DEF SameRest
<1>3. IsOverlay(StageOutput(mid, o, out)) /\ StageOutput(mid, o, out).ok = ov.ok
  <2> HIDE DEF mid
  <2> QED
    BY <1>2, StageOutputReads DEF SameRest
<1> QED
  BY <1>1, <1>3 DEF InsertOutput

(* An output enters the overlay at a new outpoint.                         *)
LEMMA InsertReads ==
  ASSUME NEW ov, NEW C, NEW S, Reads(ov, C, S), History(C, S),
         NEW o, \A r \in C : r.at # o, NEW out, WellLocked(out),
         InsertOutput(ov, o, out).ok
  PROVE  LET ov2 == InsertOutput(ov, o, out)
             C2 == C \union {Record(o, out)}
         IN  /\ Reads(ov2, C2, S) /\ History(C2, S)
             /\ SameRest(ov, ov2) /\ ov.ok
<1> DEFINE C2 == C \union {Record(o, out)}
           ch == out.lock[2]
           mid == IF IsChannel(out.lock) THEN StageActive(ov, ch, TRUE) ELSE ov
           ov2 == InsertOutput(ov, o, out)
<1>1. /\ ov.ok /\ out.value # 0 /\ Get(ov, o) = None
      /\ IsChannel(out.lock) => MayOpen(ov, ch)
      /\ ov2 = StageOutput(mid, o, out)
  <2>1. IsOverlay(ov)
    BY DEF Reads
  <2>2. Failed(ov).ok = FALSE
    BY <2>1 DEF Failed, IsOverlay
  <2> QED
    BY <2>2 DEF InsertOutput, IsChannel
<1>2. out # None
  <2>1. None.value = 0
    BY DEF None, Output
  <2> QED
    BY <1>1, <2>1
<1>3. o \notin S
  BY DEF History
<1>4. Record(o, out).at = o /\ Record(o, out).out = out
  BY DEF Record
<1>5. ~IsChannel(out.lock) => mid = ov
  OBVIOUS
<1>6. IsChannel(out.lock) =>
         /\ \A p : Get(mid, p) = Get(ov, p)
         /\ \A d : d # ch => IsActive(mid, d) <=> IsActive(ov, d)
         /\ IsActive(mid, ch)
         /\ \A d : IsRetired(mid, d) <=> IsRetired(ov, d)
         /\ IsOverlay(mid) /\ SameRest(ov, mid)
  <2> SUFFICES ASSUME IsChannel(out.lock) PROVE
         /\ \A p : Get(mid, p) = Get(ov, p)
         /\ \A d : d # ch => IsActive(mid, d) <=> IsActive(ov, d)
         /\ IsActive(mid, ch)
         /\ \A d : IsRetired(mid, d) <=> IsRetired(ov, d)
         /\ IsOverlay(mid) /\ SameRest(ov, mid)
    OBVIOUS
  <2>1. mid = StageActive(ov, ch, TRUE) /\ IsOverlay(ov)
    BY DEF Reads
  <2> HIDE DEF mid, ch
  <2> QED
    BY <2>1, StageActiveReads
<1>7. IsOverlay(mid) /\ SameRest(ov, mid) /\ \A p : Get(mid, p) = Get(ov, p)
  BY <1>5, <1>6 DEF Reads, SameRest
<1>8. /\ IsOverlay(ov2) /\ SameRest(mid, ov2)
      /\ \A p : Get(ov2, p) = IF p = o THEN out ELSE Get(mid, p)
      /\ \A c : IsActive(ov2, c) <=> IsActive(mid, c)
      /\ \A c : IsRetired(ov2, c) <=> IsRetired(mid, c)
  <2> HIDE DEF mid, ov2
  <2> QED
    BY <1>1, <1>7, StageOutputReads
<1>9. History(C2, S)
  <2>1. IsChannel(out.lock) => ~Funded(C, ch)
    <3> SUFFICES ASSUME IsChannel(out.lock), Funded(C, ch) PROVE FALSE
      OBVIOUS
    <3> QED
      BY <1>1 DEF MayOpen, Reads
  <2>2. \A r \in C : IsChannel(out.lock) => r.out.lock # out.lock
    BY <2>1 DEF Funded, WellLocked
  <2> QED
    BY <1>2, <1>4, <2>2 DEF History, Record
<1>10. \A c : Open(C2, S, c) <=> Open(C, S, c) \/ out.lock = ChannelLock(c)
  BY <1>3, <1>4 DEF Open
<1>11. \A c : Funded(C2, c) <=> Funded(C, c) \/ out.lock = ChannelLock(c)
  BY <1>4 DEF Funded
<1>12. \A c : out.lock = ChannelLock(c) <=> IsChannel(out.lock) /\ c = ch
  BY DEF WellLocked, ChannelLock, IsChannel
<1>13. Reads(ov2, C2, S)
  <2>1. \A r \in C2 : r.at \notin S => Get(ov2, r.at) = r.out
    BY <1>4, <1>7, <1>8 DEF Reads
  <2>2. \A p : Get(ov2, p) # None => p \notin S /\ \E r \in C2 : r.at = p
    <3> HIDE DEF ov2, mid
    <3> QED
      BY <1>3, <1>4, <1>7, <1>8 DEF Reads
  <2>3. \A c : IsActive(ov2, c) <=> Open(C2, S, c)
    <3> TAKE c
    <3> HIDE DEF C2, mid, ov2
    <3>1. IsActive(ov2, c) <=> IsActive(mid, c)
      BY <1>8
    <3>2. IsActive(ov, c) <=> Open(C, S, c)
      BY DEF Reads
    <3>3. CASE IsChannel(out.lock)
      <4>1. IsActive(mid, c) <=> (IsActive(ov, c) \/ c = ch)
        BY <1>6, <3>3
      <4> QED
        BY <1>10, <1>12, <3>1, <3>2, <3>3, <4>1
    <3>4. CASE ~IsChannel(out.lock)
      BY <1>5, <1>10, <1>12, <3>1, <3>2, <3>4
    <3> QED
      BY <3>3, <3>4
  <2>4. \A c : IsRetired(ov2, c) <=> Funded(C2, c) /\ ~Open(C2, S, c)
    <3> TAKE c
    <3> HIDE DEF C2, mid, ov2
    <3>1. IsRetired(ov2, c) <=> IsRetired(ov, c)
      BY <1>5, <1>6, <1>8
    <3>2. IsRetired(ov, c) <=> Funded(C, c) /\ ~Open(C, S, c)
      BY DEF Reads
    <3>3. IsChannel(out.lock) => ~IsRetired(ov, ch)
      BY <1>1 DEF MayOpen
    <3> QED
      BY <1>10, <1>11, <1>12, <3>1, <3>2, <3>3
  <2> QED
    BY <1>8, <2>1, <2>2, <2>3, <2>4 DEF Reads
<1> QED
  BY <1>1, <1>7, <1>8, <1>9, <1>13 DEF SameRest

(* All outputs of a transaction or coinbase enter the overlay.             *)
LEMMA InsertAllReads ==
  ASSUME NEW ov, NEW C, NEW S, Reads(ov, C, S), History(C, S),
         NEW txid, NEW outputs, IsOutputs(outputs), Unused(C, txid),
         InsertOutputs(ov, txid, outputs).ok
  PROVE  LET ov2 == InsertOutputs(ov, txid, outputs)
             C2 == C \union OutputsOf(txid, outputs)
         IN  Reads(ov2, C2, S) /\ History(C2, S) /\ SameRest(ov, ov2) /\ ov.ok
<1> DEFINE n == Len(outputs)
<1>0. PICK f : InsertRun(f, ov, txid, outputs)
  BY InsertOutputsUnfolds DEF IsOutputs
<1>1. /\ f[0] = ov
      /\ \A i \in 1..n : f[i] = InsertOutput(f[i - 1], <<txid, i - 1>>, outputs[i])
      /\ f[n] = InsertOutputs(ov, txid, outputs)
  BY <1>0 DEF InsertRun
<1> DEFINE Made(k) == {Record(<<txid, i - 1>>, outputs[i]) : i \in 1..k}
           Holds(k) == /\ IsOverlay(f[k])
                       /\ f[k].ok => /\ Reads(f[k], C \union Made(k), S)
                                     /\ History(C \union Made(k), S)
                                     /\ SameRest(ov, f[k]) /\ ov.ok
           Good == {k \in Nat : Holds(k)}
<1>2. 0 \in Good
  <2>1. C \union Made(0) = C
    OBVIOUS
  <2> HIDE DEF Made
  <2> QED
    BY <1>1, <2>1 DEF SameRest, Reads
<1>3. ASSUME NEW k \in Nat, k < n, k \in Good
      PROVE  k + 1 \in Good
  <2> DEFINE o == <<txid, k>>
             out == outputs[k + 1]
  <2>1. k + 1 \in 1..n /\ (k + 1) - 1 = k /\ f[k + 1] = InsertOutput(f[k], o, out)
    <3>1. k + 1 \in 1..n /\ (k + 1) - 1 = k
      BY <1>3
    <3> QED
      BY <1>1, <3>1
  <2>2. C \union Made(k + 1) = (C \union Made(k)) \union {Record(o, out)}
    <3>1. 1..(k + 1) = (1..k) \union {k + 1}
      OBVIOUS
    <3> QED
      BY <2>1, <3>1
  <2>3. \A r \in C \union Made(k) : r.at # o
    <3>1. \A r \in C : r.at # o
      BY <2>1 DEF Unused
    <3>2. \A i \in 1..k : <<txid, i - 1>> # o
      OBVIOUS
    <3> QED
      BY <3>1, <3>2 DEF Record
  <2>4. IsOverlay(f[k + 1]) /\ (f[k + 1].ok => f[k].ok)
    BY <1>3, <2>1, InsertIsOverlay
  <2>5. ASSUME f[k + 1].ok PROVE Holds(k + 1)
    <3>1. Reads(f[k], C \union Made(k), S) /\ History(C \union Made(k), S) /\ SameRest(ov, f[k]) /\ ov.ok
      BY <1>3, <2>4, <2>5
    <3>2. WellLocked(out) /\ InsertOutput(f[k], o, out).ok
      BY <2>1, <2>5 DEF IsOutputs
    <3>3. LET C2 == (C \union Made(k)) \union {Record(o, out)}
          IN  Reads(f[k + 1], C2, S) /\ History(C2, S) /\ SameRest(f[k], f[k + 1])
      <4> DEFINE before == C \union Made(k)
      <4> HIDE DEF Made, o, out, Holds, before
      <4>1. Reads(f[k], before, S) /\ History(before, S) /\ \A r \in before : r.at # o
        BY <2>3, <3>1 DEF before
      <4>2. LET C2 == before \union {Record(o, out)}
                ov2 == InsertOutput(f[k], o, out)
            IN  Reads(ov2, C2, S) /\ History(C2, S) /\ SameRest(f[k], ov2)
        BY <3>2, <4>1, InsertReads, Zenon
      <4> QED
        BY <2>1, <4>2 DEF before
    <3> QED
      BY <2>2, <2>4, <3>1, <3>3 DEF SameRest
  <2> QED
    BY <2>4, <2>5
<1>4. n \in Good
  <2> HIDE DEF Good
  <2>1. \A k \in 0..n : k \in Good
    BY <1>2, <1>3, UpTo DEF IsOutputs
  <2> QED
    BY <2>1 DEF IsOutputs
<1>5. OutputsOf(txid, outputs) = Made(n)
  BY DEF OutputsOf, Record, IsOutputs
<1> HIDE DEF Made
<1> QED
  BY <1>1, <1>4, <1>5
-----------------------------------------------------------------------------
(* A key output is spent: no channel is concerned.                         *)
LEMMA RemoveKeyReads ==
  ASSUME NEW ov, NEW C, NEW S, Reads(ov, C, S), History(C, S),
         NEW q \in C, ~IsChannel(q.out.lock)
  PROVE  LET ov2 == StageOutput(ov, q.at, None)
         IN  Reads(ov2, C, S \union {q.at}) /\ History(C, S \union {q.at}) /\ SameRest(ov, ov2)
<1> DEFINE ov2 == StageOutput(ov, q.at, None)
           S2 == S \union {q.at}
<1>1. /\ IsOverlay(ov2) /\ SameRest(ov, ov2)
      /\ \A p : Get(ov2, p) = IF p = q.at THEN None ELSE Get(ov, p)
      /\ \A c : IsActive(ov2, c) <=> IsActive(ov, c)
      /\ \A c : IsRetired(ov2, c) <=> IsRetired(ov, c)
  BY StageOutputReads DEF Reads
<1>2. \A c : q.out.lock # ChannelLock(c)
  BY DEF IsChannel, ChannelLock
<1>3. \A c : Open(C, S2, c) <=> Open(C, S, c)
  BY <1>2 DEF Open, History
<1> HIDE DEF ov2
<1>4. \A r \in C : r.at \notin S2 => Get(ov2, r.at) = r.out
  BY <1>1 DEF Reads
<1>5. \A o : Get(ov2, o) # None => o \notin S2 /\ \E r \in C : r.at = o
  BY <1>1 DEF Reads
<1>6. History(C, S2)
  BY DEF History
<1>7. \A c : IsRetired(ov2, c) <=> Funded(C, c) /\ ~Open(C, S2, c)
  BY <1>1, <1>3 DEF Reads
<1>8. \A c : IsActive(ov2, c) <=> Open(C, S2, c)
  BY <1>1, <1>3 DEF Reads
<1>9. Reads(ov2, C, S2)
  BY <1>1, <1>4, <1>5, <1>7, <1>8 DEF Reads
<1> QED
  BY <1>1, <1>6, <1>9 DEF ov2

(* A channel is closed: it retires with the output that funded it.         *)
LEMMA CloseReads ==
  ASSUME NEW ov, NEW C, NEW S, Reads(ov, C, S), History(C, S),
         NEW c, NEW q \in C, q.out.lock = ChannelLock(c), q.at \notin S
  PROVE  LET ov2 == StageOutput(StageRetired(StageActive(ov, c, FALSE), c, TRUE), q.at, None)
         IN  Reads(ov2, C, S \union {q.at}) /\ History(C, S \union {q.at}) /\ SameRest(ov, ov2)
<1> DEFINE mid == StageActive(ov, c, FALSE)
           closed == StageRetired(mid, c, TRUE)
           ov2 == StageOutput(closed, q.at, None)
           S2 == S \union {q.at}
<1>1. /\ IsOverlay(mid) /\ SameRest(ov, mid)
      /\ \A p : Get(mid, p) = Get(ov, p)
      /\ \A d : d # c => (IsActive(mid, d) <=> IsActive(ov, d))
      /\ ~IsActive(mid, c)
      /\ \A d : IsRetired(mid, d) <=> IsRetired(ov, d)
  BY StageActiveReads DEF Reads
<1>2. /\ IsOverlay(closed) /\ SameRest(mid, closed)
      /\ \A p : Get(closed, p) = Get(mid, p)
      /\ \A d : IsActive(closed, d) <=> IsActive(mid, d)
      /\ \A d : d # c => (IsRetired(closed, d) <=> IsRetired(mid, d))
      /\ IsRetired(closed, c)
  <2> HIDE DEF mid
  <2> QED
    BY <1>1, StageRetiredReads
<1>3. /\ IsOverlay(ov2) /\ SameRest(closed, ov2)
      /\ \A p : Get(ov2, p) = IF p = q.at THEN None ELSE Get(closed, p)
      /\ \A d : IsActive(ov2, d) <=> IsActive(closed, d)
      /\ \A d : IsRetired(ov2, d) <=> IsRetired(closed, d)
  <2> HIDE DEF closed
  <2> QED
    BY <1>2, StageOutputReads
<1> HIDE DEF mid, closed, ov2
<1>4. \A r \in C : r.at \notin S2 => Get(ov2, r.at) = r.out
  BY <1>1, <1>2, <1>3 DEF Reads
<1>5. \A o : Get(ov2, o) # None => o \notin S2 /\ \E r \in C : r.at = o
  BY <1>1, <1>2, <1>3 DEF Reads
<1>6. History(C, S2)
  BY DEF History
<1>7. \A r \in C : r.out.lock = ChannelLock(c) => r = q
  BY DEF History, ChannelLock, IsChannel
<1>8. \A d : Open(C, S2, d) <=> d # c /\ Open(C, S, d)
  <2>1. ~Open(C, S2, c)
    BY <1>7 DEF Open
  <2>2. \A d : d # c => q.out.lock # ChannelLock(d)
    BY DEF ChannelLock
  <2>3. \A r \in C : r.at = q.at => r = q
    BY DEF History
  <2> QED
    BY <2>1, <2>2, <2>3 DEF Open
<1>9. Funded(C, c)
  BY DEF Funded
<1>10. \A d : IsActive(ov2, d) <=> Open(C, S2, d)
  BY <1>1, <1>2, <1>3, <1>8 DEF Reads
<1>11. \A d : IsRetired(ov2, d) <=> Funded(C, d) /\ ~Open(C, S2, d)
  BY <1>1, <1>2, <1>3, <1>8, <1>9 DEF Reads
<1>12. Reads(ov2, C, S2) /\ SameRest(ov, ov2)
  BY <1>1, <1>2, <1>3, <1>4, <1>5, <1>10, <1>11 DEF Reads, SameRest
<1> QED
  BY <1>6, <1>12 DEF mid, closed, ov2

(* All inputs of a key transaction are spent.                              *)
LEMMA RemoveAllReads ==
  ASSUME NEW ov, NEW C, NEW S, Reads(ov, C, S), History(C, S),
         NEW inputs, Len(inputs) \in Nat, DOMAIN inputs = 1..Len(inputs),
         \A i \in DOMAIN inputs : \E q \in C : q.at = inputs[i].previous /\ ~IsChannel(q.out.lock)
  PROVE  LET ov2 == Removed(ov, inputs)
             S2 == S \union {inputs[i].previous : i \in DOMAIN inputs}
         IN  Reads(ov2, C, S2) /\ History(C, S2) /\ SameRest(ov, ov2)
<1> DEFINE n == Len(inputs)
           Gone(k) == {inputs[i].previous : i \in 1..k}
<1>0. PICK f : RemovalRun(f, ov, inputs)
  BY RemovalsUnfold
<1>1. /\ f[0] = ov
      /\ \A i \in 1..n : f[i] = StageOutput(f[i - 1], inputs[i].previous, None)
      /\ f[n] = Removed(ov, inputs)
  BY <1>0 DEF RemovalRun
<1> DEFINE Holds(k) == /\ Reads(f[k], C, S \union Gone(k)) /\ History(C, S \union Gone(k))
                       /\ SameRest(ov, f[k])
           Good == {k \in Nat : Holds(k)}
<1>2. 0 \in Good
  <2>1. S \union Gone(0) = S
    OBVIOUS
  <2> HIDE DEF Gone
  <2> QED
    BY <1>1, <2>1 DEF SameRest
<1>3. ASSUME NEW k \in Nat, k < n, k \in Good
      PROVE  k + 1 \in Good
  <2>1. k + 1 \in 1..n /\ (k + 1) - 1 = k
    BY <1>3
  <2>2. f[k + 1] = StageOutput(f[k], inputs[k + 1].previous, None)
    BY <1>1, <2>1
  <2>3. PICK q \in C : q.at = inputs[k + 1].previous /\ ~IsChannel(q.out.lock)
    BY <2>1
  <2>4. S \union Gone(k + 1) = (S \union Gone(k)) \union {q.at}
    <3>1. 1..(k + 1) = (1..k) \union {k + 1}
      OBVIOUS
    <3> QED
      BY <2>3, <3>1
  <2> DEFINE before == S \union Gone(k)
  <2> HIDE DEF Gone, before
  <2>5. Reads(f[k], C, before) /\ History(C, before) /\ SameRest(ov, f[k])
    BY <1>3 DEF before
  <2>6. LET S2 == before \union {q.at}
            ov2 == StageOutput(f[k], q.at, None)
        IN  Reads(ov2, C, S2) /\ History(C, S2) /\ SameRest(f[k], ov2)
    BY <2>3, <2>5, RemoveKeyReads, Zenon
  <2>7. Holds(k + 1)
    BY <2>2, <2>3, <2>4, <2>5, <2>6 DEF SameRest, before
  <2> QED
    BY <2>7
<1>4. n \in Good
  <2> HIDE DEF Good
  <2>1. \A k \in 0..n : k \in Good
    BY <1>2, <1>3, UpTo
  <2> QED
    BY <2>1
<1>5. {inputs[i].previous : i \in DOMAIN inputs} = Gone(n)
  OBVIOUS
<1> HIDE DEF Gone
<1> QED
  BY <1>1, <1>4, <1>5
-----------------------------------------------------------------------------
(* What a transaction is known to be.                                      *)
LEMMA TransactionShape ==
  ASSUME LedgerAssumption, NEW t \in DOMAIN Tx
  PROVE  LET ins == Tx[t].inputs
         IN  Len(ins) \in Nat /\ DOMAIN ins = 1..Len(ins) /\ IsOutputs(Tx[t].outputs)
<1>1. Tx[t].inputs \in Seq(ToSet(Tx[t].inputs)) /\ Tx[t].outputs \in Seq(ToSet(Tx[t].outputs))
  BY DEF LedgerAssumption, TransactionAssumption
<1>2. ASSUME NEW i \in DOMAIN Tx[t].outputs PROVE WellLocked(Tx[t].outputs[i])
  <2>1. Tx[t].outputs[i] \in ToSet(Tx[t].outputs)
    BY DEF ToSet
  <2> QED
    BY <2>1 DEF LedgerAssumption, TransactionAssumption, WellLocked, IsChannel, ChannelLock
<1> QED
  BY <1>1, <1>2 DEF IsOutputs

Charged(ov, txid, fee) == [ov EXCEPT !.spent = @ \union Previous(Tx[txid]), !.fees = @ + fee]

(* The fee is counted and the inputs are noted as spent.                   *)
Booked(ov, ov2, txid, fee) ==
    /\ ov2.base = ov.base /\ ov2.ok = ov.ok
    /\ ov2.fees = ov.fees + fee /\ ov2.spent = ov.spent \union Previous(Tx[txid])

LEMMA ChargedIsOverlay ==
  ASSUME NEW ov, IsOverlay(ov), NEW txid, NEW fee
  PROVE  LET ov2 == Charged(ov, txid, fee)
         IN  /\ IsOverlay(ov2) /\ Booked(ov, ov2, txid, fee)
             /\ \A o : Get(ov2, o) = Get(ov, o)
             /\ \A c : IsActive(ov2, c) <=> IsActive(ov, c)
             /\ \A c : IsRetired(ov2, c) <=> IsRetired(ov, c)
<1> DEFINE ov2 == Charged(ov, txid, fee)
<1>1. ov2 = [base |-> ov.base, outputs |-> ov.outputs, active |-> ov.active,
             retired |-> ov.retired, spent |-> ov.spent \union Previous(Tx[txid]),
             fees |-> ov.fees + fee, ok |-> ov.ok]
  <2>1. \A x, y : [ov EXCEPT !.spent = x, !.fees = y] =
                    [base |-> ov.base, outputs |-> ov.outputs, active |-> ov.active,
                     retired |-> ov.retired, spent |-> x, fees |-> y, ok |-> ov.ok]
    <3> TAKE x, y
    <3> DEFINE once == [base |-> ov.base, outputs |-> ov.outputs, active |-> ov.active,
                        retired |-> ov.retired, spent |-> x, fees |-> ov.fees, ok |-> ov.ok]
    <3>1. [ov EXCEPT !.spent = x] = once
      BY DEF IsOverlay
    <3>2. [once EXCEPT !.fees = y] =
             [base |-> ov.base, outputs |-> ov.outputs, active |-> ov.active,
              retired |-> ov.retired, spent |-> x, fees |-> y, ok |-> ov.ok]
      OBVIOUS
    <3>3. [ov EXCEPT !.spent = x, !.fees = y] = [[ov EXCEPT !.spent = x] EXCEPT !.fees = y]
      BY DEF IsOverlay
    <3> QED
      BY <3>1, <3>2, <3>3, Zenon
  <2>2. ov2 = [ov EXCEPT !.spent = ov.spent \union Previous(Tx[txid]), !.fees = ov.fees + fee]
    BY Zenon DEF Charged
  <2> QED
    BY <2>1, <2>2, Zenon
<1> HIDE DEF ov2
<1>2. Booked(ov, ov2, txid, fee)
  BY <1>1 DEF Booked
<1>3. /\ \A o : Get(ov2, o) = Get(ov, o)
      /\ \A c : IsActive(ov2, c) <=> IsActive(ov, c)
      /\ \A c : IsRetired(ov2, c) <=> IsRetired(ov, c)
      /\ IsOverlay(ov2)
  BY <1>1 DEF Get, IsActive, IsRetired, IsOverlay
<1> QED
  BY <1>2, <1>3 DEF ov2

LEMMA ChargeReads ==
  ASSUME NEW ov, NEW C, NEW S, Reads(ov, C, S), NEW txid, NEW fee
  PROVE  LET ov2 == Charged(ov, txid, fee)
         IN  Reads(ov2, C, S) /\ Booked(ov, ov2, txid, fee)
  BY ChargedIsOverlay DEF Reads

(* The inputs are gone, the outputs enter.                                 *)
LEMMA SpendReads ==
  ASSUME LedgerAssumption, NEW t \in DOMAIN Tx, NEW ov, NEW C, NEW S, NEW fee,
         Reads(Removed(ov, Tx[t].inputs), C, S), History(C, S),
         SameRest(ov, Removed(ov, Tx[t].inputs)),
         Unused(C, OfTransaction(t)),
         Spend(ov, t, fee).ok
  PROVE  LET ov2 == Spend(ov, t, fee)
             C2 == C \union OutputsOf(OfTransaction(t), Tx[t].outputs)
         IN  Reads(ov2, C2, S) /\ History(C2, S) /\ Booked(ov, ov2, t, fee)
<1> DEFINE after == Removed(ov, Tx[t].inputs)
           mid == Charged(after, t, fee)
<1>1. Spend(ov, t, fee) = InsertOutputs(mid, OfTransaction(t), Tx[t].outputs)
  BY DEF Spend, Charged, Removed
<1>2. Reads(mid, C, S) /\ Booked(after, mid, t, fee)
  BY ChargeReads
<1> HIDE DEF mid
<1>3. LET ov2 == InsertOutputs(mid, OfTransaction(t), Tx[t].outputs)
          C2 == C \union OutputsOf(OfTransaction(t), Tx[t].outputs)
      IN  Reads(ov2, C2, S) /\ History(C2, S) /\ SameRest(mid, ov2)
  <2> HIDE DEF after
  <2> QED
    BY <1>1, <1>2, TransactionShape, InsertAllReads
<1> HIDE DEF after
<1>4. SameRest(ov, after)
  BY DEF after
<1>5. Booked(ov, InsertOutputs(mid, OfTransaction(t), Tx[t].outputs), t, fee)
  BY <1>2, <1>3, <1>4 DEF SameRest, Booked
<1> QED
  BY <1>1, <1>3, <1>5

(* A transaction that is accepted spends what the overlay has.             *)
LEMMA AcceptedInputs ==
  ASSUME LedgerAssumption, NEW t \in DOMAIN Tx, NEW ov, NEW C, NEW S, NEW height,
         Reads(ov, C, S), History(C, S), ApplyTransaction(ov, t, height).ok
  PROVE  /\ ov.ok /\ Previous(Tx[t]) # {}
         /\ \A o \in Previous(Tx[t]) : o \notin S /\ \E q \in C : q.at = o
<1> DEFINE ins == Tx[t].inputs
<1>1. ~Failed(ov).ok
  BY FailedFails DEF Reads
<1>2. ov.ok /\ ins # <<>>
  BY <1>1 DEF ApplyTransaction
<1>3. Len(ins) \in Nat /\ DOMAIN ins = 1..Len(ins) /\ 1 \in DOMAIN ins
  <2>1. ins \in Seq(ToSet(ins))
    BY DEF LedgerAssumption, TransactionAssumption
  <2> QED
    BY <1>2, <2>1
<1>4. \A i \in DOMAIN ins : Get(ov, ins[i].previous) # None
  <2>1. CASE \E i \in DOMAIN ins : ins[i].witness.kind # "key"
    <3>1. ApplyTransaction(ov, t, height) = ApplyChannelTransaction(ov, t, height)
      BY <1>1, <2>1 DEF ApplyTransaction
    <3>2. Len(ins) = 1 /\ Get(ov, ins[1].previous) # None
      BY <1>1, <3>1 DEF ApplyChannelTransaction, CloseBalanced
    <3> QED
      BY <1>3, <3>2
  <2>2. CASE ~\E i \in DOMAIN ins : ins[i].witness.kind # "key"
    <3>1. ApplyTransaction(ov, t, height) = ApplyKeyTransaction(ov, t, height)
      BY <1>1, <2>2 DEF ApplyTransaction
    <3> QED
      BY <1>1, <3>1 DEF ApplyKeyTransaction, KeyInputValid
  <2> QED
    BY <2>1, <2>2
<1>5. Previous(Tx[t]) = {ins[i].previous : i \in DOMAIN ins}
  BY DEF Previous
<1>6. \A o : Get(ov, o) # None => o \notin S /\ \E q \in C : q.at = o
  BY DEF Reads
<1> HIDE DEF ins
<1>7. Previous(Tx[t]) # {}
  BY <1>3, <1>5
<1>8. ASSUME NEW o \in Previous(Tx[t]) PROVE o \notin S /\ \E q \in C : q.at = o
  <2>1. PICK i \in DOMAIN ins : o = ins[i].previous
    BY <1>5
  <2>2. Get(ov, o) # None
    BY <1>4, <2>1
  <2> QED
    BY <1>6, <2>2, Zenon
<1> QED
  BY <1>2, <1>7, <1>8

(* It takes them away and adds its outputs, in the overlay as in the       *)
(* history.                                                                *)
LEMMA ApplyReads ==
  ASSUME LedgerAssumption, NEW t \in DOMAIN Tx, NEW ov, NEW C, NEW S, NEW height,
         Reads(ov, C, S), History(C, S), ApplyTransaction(ov, t, height).ok,
         Unused(C, OfTransaction(t))
  PROVE  LET ov2 == ApplyTransaction(ov, t, height)
             C2 == C \union OutputsOf(OfTransaction(t), Tx[t].outputs)
             S2 == S \union Previous(Tx[t])
         IN  /\ Reads(ov2, C2, S2) /\ History(C2, S2)
             /\ \E fee : Booked(ov, ov2, t, fee)
<1> DEFINE ins == Tx[t].inputs
           S2 == S \union Previous(Tx[t])
<1>1. ~Failed(ov).ok
  BY FailedFails DEF Reads
<1>2. Len(ins) \in Nat /\ DOMAIN ins = 1..Len(ins)
  BY TransactionShape
<1>3. Previous(Tx[t]) = {ins[i].previous : i \in DOMAIN ins}
  BY DEF Previous
<1>4. \A o \in Previous(Tx[t]) : o \notin S /\ \E q \in C : q.at = o
  BY AcceptedInputs
<1>5. CASE \E i \in DOMAIN ins : ins[i].witness.kind # "key"
  <2> DEFINE c == ins[1].witness.key
             closed == StageRetired(StageActive(ov, c, FALSE), c, TRUE)
  <2>1. ApplyTransaction(ov, t, height) = ApplyChannelTransaction(ov, t, height)
    BY <1>1, <1>5 DEF ApplyTransaction
  <2>2. /\ Len(ins) = 1
        /\ Get(ov, ins[1].previous).lock = ChannelLock(c)
        /\ ApplyTransaction(ov, t, height) = Spend(closed, t, Terms[c].close_fee)
    BY <1>1, <2>1 DEF ApplyChannelTransaction, CloseBalanced
  <2>3. Previous(Tx[t]) = {ins[1].previous}
    BY <1>2, <1>3, <2>2, SMTT(40)
  <2>4. PICK q \in C : q.at = ins[1].previous /\ q.at \notin S
    BY <1>4, <2>3
  <2>5. q.out.lock = ChannelLock(c)
    BY <2>2, <2>4 DEF Reads
  <2>6. Removed(closed, ins) = StageOutput(closed, q.at, None)
    <3>1. PICK f : RemovalRun(f, closed, ins)
      BY <1>2, RemovalsUnfold
    <3> HIDE DEF closed
    <3>2. f[0] = closed /\ f[1] = StageOutput(f[0], ins[1].previous, None) /\ f[1] = Removed(closed, ins)
      BY <2>2, <3>1, SMTT(40) DEF RemovalRun
    <3> QED
      BY <2>4, <3>2
  <2>7. LET ov2 == Removed(closed, ins) IN
        Reads(ov2, C, S2) /\ History(C, S2) /\ SameRest(ov, ov2)
    <3> DEFINE S3 == S \union {q.at}
    <3>1. S3 = S2
      BY <2>3, <2>4
    <3>2. LET ov2 == StageOutput(closed, q.at, None) IN
          Reads(ov2, C, S3) /\ History(C, S3) /\ SameRest(ov, ov2)
      <4> HIDE DEF c
      <4> QED
        BY <2>4, <2>5, CloseReads
    <3> HIDE DEF S2, S3, closed
    <3> QED
      BY <2>6, <3>1, <3>2
  <2>8. SameRest(ov, closed)
    <3>1. IsOverlay(ov)
      BY DEF Reads
    <3>2. IsOverlay(StageActive(ov, c, FALSE)) /\ SameRest(ov, StageActive(ov, c, FALSE))
      BY <3>1, StageActiveReads
    <3>3. SameRest(StageActive(ov, c, FALSE), closed)
      BY <3>2, StageRetiredReads
    <3> QED
      BY <3>2, <3>3 DEF SameRest
  <2>9. SameRest(closed, Removed(closed, ins))
    BY <2>7, <2>8 DEF SameRest
  <2> HIDE DEF closed, S2
  <2>10. PICK fee : ApplyTransaction(ov, t, height) = Spend(closed, t, fee)
    BY <2>2
  <2>11. LET ov2 == Spend(closed, t, fee)
             C2 == C \union OutputsOf(OfTransaction(t), Tx[t].outputs)
         IN  Reads(ov2, C2, S2) /\ History(C2, S2) /\ Booked(closed, ov2, t, fee)
    <3>1. Spend(closed, t, fee).ok
      BY <2>10
    <3> QED
      <4>1. /\ Reads(Removed(closed, Tx[t].inputs), C, S2) /\ History(C, S2)
            /\ SameRest(closed, Removed(closed, Tx[t].inputs))
        BY <2>7, <2>9
      <4> QED
        BY <3>1, <4>1, SpendReads
  <2>12. Booked(ov, Spend(closed, t, fee), t, fee)
    BY <2>8, <2>11 DEF SameRest, Booked
  <2> QED
    BY <2>10, <2>11, <2>12 DEF S2
<1>6. CASE ~\E i \in DOMAIN ins : ins[i].witness.kind # "key"
  <2>1. ApplyTransaction(ov, t, height) = ApplyKeyTransaction(ov, t, height)
    BY <1>1, <1>6 DEF ApplyTransaction
  <2>2. /\ \A i \in DOMAIN ins : KeyInputValid(ov, ins[i], height)
        /\ \E fee : ApplyTransaction(ov, t, height) = Spend(ov, t, fee)
    BY <1>1, <2>1 DEF ApplyKeyTransaction
  <2>3. PICK fee : ApplyTransaction(ov, t, height) = Spend(ov, t, fee)
    BY <2>2
  <2>4. ASSUME NEW i \in DOMAIN ins
        PROVE  \E q \in C : q.at = ins[i].previous /\ ~IsChannel(q.out.lock)
    <3>1. PICK q \in C : q.at = ins[i].previous /\ q.at \notin S
      BY <1>3, <1>4
    <3>2. q.out.lock = KeyLock(ins[i].witness.key)
      BY <2>2, <3>1 DEF Reads, KeyInputValid
    <3> QED
      BY <3>1, <3>2 DEF IsChannel, KeyLock
  <2>5. LET ov2 == Removed(ov, ins) IN
        Reads(ov2, C, S2) /\ History(C, S2) /\ SameRest(ov, ov2)
    <3> DEFINE S3 == S \union {ins[i].previous : i \in DOMAIN ins}
    <3>1. S3 = S2
      BY <1>3
    <3>2. LET ov2 == Removed(ov, ins) IN
          Reads(ov2, C, S3) /\ History(C, S3) /\ SameRest(ov, ov2)
      <4> HIDE DEF ins
      <4> QED
        BY <1>2, <2>4, RemoveAllReads, Zenon
    <3> HIDE DEF S2, S3
    <3> QED
      BY <3>1, <3>2
  <2> QED
    <3>1. Spend(ov, t, fee).ok
      BY <2>3
    <3> HIDE DEF S2
    <3>2. LET ov2 == Spend(ov, t, fee)
              C2 == C \union OutputsOf(OfTransaction(t), Tx[t].outputs)
          IN  Reads(ov2, C2, S2) /\ History(C2, S2) /\ Booked(ov, ov2, t, fee)
      <4>1. /\ Reads(Removed(ov, Tx[t].inputs), C, S2) /\ History(C, S2)
            /\ SameRest(ov, Removed(ov, Tx[t].inputs))
        BY <2>5
      <4> QED
        BY <3>1, <4>1, SpendReads
    <3> QED
      BY <2>3, <3>2 DEF S2
<1> QED
  BY <1>5, <1>6
-----------------------------------------------------------------------------
(* Whatever becomes of it, an overlay stays one, and a failed one failed.  *)
Follows(ov, ov2) == IsOverlay(ov2) /\ (ov2.ok => ov.ok)

LEMMA StagedFollows ==
  ASSUME NEW ov, IsOverlay(ov), NEW x, NEW out, NEW b \in BOOLEAN
  PROVE  /\ Follows(ov, StageOutput(ov, x, out))
         /\ Follows(ov, StageActive(ov, x, b))
         /\ Follows(ov, StageRetired(ov, x, b))
<1>1. IsOverlay(StageOutput(ov, x, out)) /\ SameRest(ov, StageOutput(ov, x, out))
  BY StageOutputReads
<1>2. IsOverlay(StageActive(ov, x, b)) /\ SameRest(ov, StageActive(ov, x, b))
  BY StageActiveReads
<1>3. IsOverlay(StageRetired(ov, x, b)) /\ SameRest(ov, StageRetired(ov, x, b))
  BY StageRetiredReads
<1> QED
  BY <1>1, <1>2, <1>3 DEF Follows, SameRest

LEMMA RunFollows ==
  ASSUME NEW f, NEW n \in Nat, IsOverlay(f[0]),
         \A i \in 1..n : IsOverlay(f[i - 1]) => Follows(f[i - 1], f[i])
  PROVE  \A k \in 0..n : Follows(f[0], f[k])
<1> DEFINE Good == {k \in Nat : Follows(f[0], f[k])}
<1>1. 0 \in Good
  BY DEF Follows
<1>2. ASSUME NEW k \in Nat, k < n, k \in Good
      PROVE  k + 1 \in Good
  <2>1. k + 1 \in 1..n /\ (k + 1) - 1 = k
    BY <1>2
  <2> QED
    BY <1>2, <2>1 DEF Follows
<1>3. \A k \in 0..n : k \in Good
  <2> HIDE DEF Good
  <2> QED
    BY <1>1, <1>2, UpTo
<1> QED
  BY <1>3

LEMMA InsertedFollows ==
  ASSUME NEW ov, IsOverlay(ov), NEW txid, NEW outputs, Len(outputs) \in Nat
  PROVE  Follows(ov, InsertOutputs(ov, txid, outputs))
<1>1. PICK f : InsertRun(f, ov, txid, outputs)
  BY InsertOutputsUnfolds
<1>2. ASSUME NEW i \in 1..Len(outputs), IsOverlay(f[i - 1])
      PROVE  Follows(f[i - 1], f[i])
  <2>1. PICK o, out : f[i] = InsertOutput(f[i - 1], o, out)
    BY <1>1 DEF InsertRun
  <2>2. IsOverlay(f[i]) /\ (f[i].ok => f[i - 1].ok)
    BY <1>2, <2>1, InsertIsOverlay
  <2> QED
    BY <2>2 DEF Follows
<1>3. f[0] = ov /\ f[Len(outputs)] = InsertOutputs(ov, txid, outputs)
  BY <1>1 DEF InsertRun
<1>4. \A k \in 0..Len(outputs) : Follows(f[0], f[k])
  BY <1>2, <1>3, RunFollows
<1> QED
  BY <1>3, <1>4

LEMMA RemovedFollows ==
  ASSUME NEW ov, IsOverlay(ov), NEW inputs, Len(inputs) \in Nat
  PROVE  Follows(ov, Removed(ov, inputs))
<1>1. PICK f : RemovalRun(f, ov, inputs)
  BY RemovalsUnfold
<1>2. ASSUME NEW i \in 1..Len(inputs), IsOverlay(f[i - 1])
      PROVE  Follows(f[i - 1], f[i])
  BY <1>1, <1>2, StagedFollows DEF RemovalRun
<1>3. f[0] = ov /\ f[Len(inputs)] = Removed(ov, inputs)
  BY <1>1 DEF RemovalRun
<1>4. \A k \in 0..Len(inputs) : Follows(f[0], f[k])
  BY <1>2, <1>3, RunFollows
<1> QED
  BY <1>3, <1>4

LEMMA SpendFollows ==
  ASSUME LedgerAssumption, NEW t \in DOMAIN Tx, NEW ov, IsOverlay(ov), NEW fee
  PROVE  Follows(ov, Spend(ov, t, fee))
<1> DEFINE after == Removed(ov, Tx[t].inputs)
           mid == Charged(after, t, fee)
<1>1. Spend(ov, t, fee) = InsertOutputs(mid, OfTransaction(t), Tx[t].outputs)
  BY DEF Spend, Charged, Removed
<1>2. Len(Tx[t].inputs) \in Nat /\ Len(Tx[t].outputs) \in Nat
  BY TransactionShape DEF IsOutputs
<1>3. Follows(ov, after)
  BY <1>2, RemovedFollows
<1> HIDE DEF after
<1>4. IsOverlay(mid) /\ mid.ok = after.ok
  BY <1>3, ChargedIsOverlay DEF Follows, Booked
<1> HIDE DEF mid
<1>5. Follows(mid, InsertOutputs(mid, OfTransaction(t), Tx[t].outputs))
  BY <1>2, <1>4, InsertedFollows
<1> QED
  BY <1>1, <1>3, <1>4, <1>5 DEF Follows

LEMMA ApplyFollows ==
  ASSUME LedgerAssumption, NEW t \in DOMAIN Tx, NEW ov, IsOverlay(ov), NEW height
  PROVE  Follows(ov, ApplyTransaction(ov, t, height))
<1>1. Follows(ov, Failed(ov))
  BY FailedFails DEF Follows
<1>2. Follows(ov, ApplyKeyTransaction(ov, t, height))
  <2>1. \/ ApplyKeyTransaction(ov, t, height) = Failed(ov)
        \/ \E fee : ApplyKeyTransaction(ov, t, height) = Spend(ov, t, fee)
    BY DEF ApplyKeyTransaction
  <2> QED
    BY <1>1, <2>1, SpendFollows
<1>3. Follows(ov, ApplyChannelTransaction(ov, t, height))
  <2> DEFINE c == Tx[t].inputs[1].witness.key
             mid == StageActive(ov, c, FALSE)
             closed == StageRetired(mid, c, TRUE)
  <2>1. Follows(ov, mid)
    BY StagedFollows
  <2> HIDE DEF mid
  <2>2. Follows(mid, closed)
    BY <2>1, StagedFollows DEF Follows
  <2> HIDE DEF closed
  <2>3. \/ ApplyChannelTransaction(ov, t, height) = Failed(ov)
        \/ \E fee : ApplyChannelTransaction(ov, t, height) = Spend(closed, t, fee)
    BY DEF ApplyChannelTransaction, closed, mid
  <2>4. \A fee : Follows(closed, Spend(closed, t, fee))
    BY <2>2, SpendFollows DEF Follows
  <2> QED
    BY <1>1, <2>1, <2>2, <2>3, <2>4 DEF Follows
<1> QED
  BY <1>1, <1>2, <1>3 DEF ApplyTransaction
-----------------------------------------------------------------------------
(***************************************************************************)
(* Amounts.  A transaction pays: what it leaves is no more than what it    *)
(* takes of the created outputs C.                                         *)
(***************************************************************************)
WorthOf(C) == [r \in C |-> r.out.value]
SpentIn(C, t) == {r \in C : r.at \in Previous(Tx[t])}
ListWorth(outputs) == SumOf(Value, outputs)

Pays(C, t) ==
    /\ IsFiniteSet(SpentIn(C, t)) /\ ListWorth(Tx[t].outputs) \in Nat
    /\ ListWorth(Tx[t].outputs) <= SumOver(WorthOf(C), SpentIn(C, t))

(* Under a valid policy amounts are natural and every transaction pays.    *)
Amounts(C) == \A r \in C : r.out.value \in Nat
Solvent(C, txids) == PolicyValid => Amounts(C) /\ \A t \in txids : Pays(C, t)

(* It still does when more is created.                                     *)
LEMMA PaysOn ==
  ASSUME NEW C, NEW S, NEW C2, NEW S2, History(C, S), History(C2, S2), C \subseteq C2,
         NEW t, \A o \in Previous(Tx[t]) : \E q \in C : q.at = o, Amounts(C), Pays(C, t)
  PROVE  Pays(C2, t)
<1>1. SpentIn(C2, t) = SpentIn(C, t)
  <2>1. ASSUME NEW r \in C2, r.at \in Previous(Tx[t]) PROVE r \in C
    <3>1. PICK q \in C : q.at = r.at
      BY <2>1
    <3>2. q = r
      BY <3>1 DEF History
    <3> QED
      BY <3>2
  <2> QED
    BY <2>1 DEF SpentIn
<1>2. SumOver(WorthOf(C2), SpentIn(C2, t)) = SumOver(WorthOf(C), SpentIn(C, t))
  <2> DEFINE D == SpentIn(C, t)
             f == WorthOf(C)
             e == WorthOf(C2)
  <2>1. IsFiniteSet(D)
    BY DEF Pays
  <2>2. \A r \in D : e[r] = f[r]
    BY DEF SpentIn, WorthOf
  <2> HIDE DEF D, e, f
  <2>3. SumOver(e, D) = SumOver(f, D)
    BY <2>1, <2>2, SumAgree
  <2> QED
    BY <1>1, <2>3 DEF D, e, f
<1> QED
  BY <1>1, <1>2 DEF Pays

(* The totals of validate_transaction, as sums.                            *)
AddOutput(ctx, acc, out) == acc + Value(out)
AddInput(ov, acc, in) == acc + Get(ov, in.previous).value

AddingOutputs == INSTANCE LeftFolds WITH Step <- AddOutput
AddingInputs == INSTANCE LeftFolds WITH Step <- AddInput

InputsWorth(ov, inputs) == SumOf(LAMBDA in : Get(ov, in.previous).value, inputs)

LEMMA OutputsAdd ==
  ASSUME NEW outputs, Len(outputs) \in Nat,
         \A i \in 1..Len(outputs) : outputs[i].value \in Nat
  PROVE  ListWorth(outputs)
            = SumOver([i \in 1..Len(outputs) |-> outputs[i].value], 1..Len(outputs))
<1> DEFINE n == Len(outputs)
           v == [i \in 1..n |-> outputs[i].value]
           Runs(f) == f = [i \in 0..n |-> IF i = 0 THEN 0 ELSE f[i - 1] + Value(outputs[i])]
           g == CHOOSE f : Runs(f)
<1>1. \E f : Runs(f)
  <2>1. PICK f : AddingOutputs!Unfolds(f, 0, 0, outputs, n)
    BY AddingOutputs!LeftFoldExists
  <2> QED
    BY <2>1 DEF AddingOutputs!Unfolds, AddOutput
<1>2. Runs(g)
  BY <1>1
<1>3. ListWorth(outputs) = g[n]
  BY DEF ListWorth, SumOf, Folded
<1> HIDE DEF g
<1>4. g[0] = 0 /\ \A i \in 1..n : g[i] = g[i - 1] + v[i]
  <2>1. \A i \in 1..n : i \in 0..n /\ i # 0 /\ v[i] = Value(outputs[i])
    BY DEF Value
  <2>2. 0 \in 0..n
    OBVIOUS
  <2> HIDE DEF v
  <2> QED
    BY <1>2, <2>1, <2>2
<1>5. n \in Nat /\ \A i \in 1..n : v[i] \in Nat
  OBVIOUS
<1> HIDE DEF v, n
<1>6. g[n] = SumOver(v, 1..n)
  BY <1>4, <1>5, RunningTotal
<1> QED
  BY <1>3, <1>6 DEF v, n

LEMMA InputsAdd ==
  ASSUME NEW ov, NEW inputs, Len(inputs) \in Nat,
         \A i \in 1..Len(inputs) : Get(ov, inputs[i].previous).value \in Nat
  PROVE  InputsWorth(ov, inputs)
            = SumOver([i \in 1..Len(inputs) |-> Get(ov, inputs[i].previous).value],
                      1..Len(inputs))
<1> DEFINE n == Len(inputs)
           v == [i \in 1..n |-> Get(ov, inputs[i].previous).value]
           Runs(f) == f = [i \in 0..n |-> IF i = 0 THEN 0
                                          ELSE f[i - 1] + Get(ov, inputs[i].previous).value]
           g == CHOOSE f : Runs(f)
<1>1. \E f : Runs(f)
  <2>1. PICK f : AddingInputs!Unfolds(f, ov, 0, inputs, n)
    BY AddingInputs!LeftFoldExists
  <2> QED
    BY <2>1 DEF AddingInputs!Unfolds, AddInput
<1>2. Runs(g)
  BY <1>1
<1>3. InputsWorth(ov, inputs) = g[n]
  BY DEF InputsWorth, SumOf, Folded
<1> HIDE DEF g
<1>4. g[0] = 0 /\ \A i \in 1..n : g[i] = g[i - 1] + v[i]
  <2>1. \A i \in 1..n : i \in 0..n /\ i # 0 /\ v[i] = Get(ov, inputs[i].previous).value
    OBVIOUS
  <2>2. 0 \in 0..n
    OBVIOUS
  <2> HIDE DEF v
  <2> QED
    BY <1>2, <2>1, <2>2
<1>5. n \in Nat /\ \A i \in 1..n : v[i] \in Nat
  OBVIOUS
<1> HIDE DEF v, n
<1>6. g[n] = SumOver(v, 1..n)
  BY <1>4, <1>5, RunningTotal
<1> QED
  BY <1>3, <1>6 DEF v, n

(* Distinct inputs, still unspent: what they are worth in the overlay is   *)
(* what the history created them with.                                     *)
LEMMA TakesWorth ==
  ASSUME LedgerAssumption, NEW t \in DOMAIN Tx, NEW ov, NEW C, NEW S,
         Reads(ov, C, S), History(C, S), Amounts(C),
         Cardinality(Previous(Tx[t])) = Len(Tx[t].inputs),
         \A o \in Previous(Tx[t]) : o \notin S /\ \E q \in C : q.at = o
  PROVE  /\ IsFiniteSet(SpentIn(C, t))
         /\ InputsWorth(ov, Tx[t].inputs) = SumOver(WorthOf(C), SpentIn(C, t))
<1> DEFINE ins == Tx[t].inputs
           n == Len(ins)
           at == [i \in 1..n |-> ins[i].previous]
           h == [i \in 1..n |-> CHOOSE q \in C : q.at = at[i]]
           v == [i \in 1..n |-> Get(ov, ins[i].previous).value]
<1>1. n \in Nat /\ DOMAIN ins = 1..n
  BY TransactionShape
<1>2. IsFiniteSet(1..n) /\ Cardinality(1..n) = n
  BY <1>1, FS_Interval
<1>3. Previous(Tx[t]) = {at[i] : i \in 1..n}
  BY <1>1 DEF Previous
<1>4. \A i, j \in 1..n : at[i] = at[j] => i = j
  <2> DEFINE T == Previous(Tx[t])
             I == 1..n
  <2>1. at \in Surjection(I, T)
    BY <1>3 DEF Surjection
  <2>2. IsFiniteSet(I) /\ Cardinality(T) = Cardinality(I)
    BY <1>2
  <2> HIDE DEF T, I, at
  <2>3. at \in Injection(I, T)
    BY <2>1, <2>2, FS_Surjection
  <2>4. \A i, j \in I : at[i] = at[j] => i = j
    BY <2>3 DEF Injection, IsInjective
  <2> QED
    BY <2>4 DEF I
<1>5. \A i \in 1..n : at[i] \in Previous(Tx[t]) /\ at[i] = ins[i].previous
  BY <1>3
<1>6. \A i \in 1..n : h[i] \in C /\ h[i].at = at[i]
  <2>1. \A i \in 1..n : \E q \in C : q.at = at[i]
    BY <1>5
  <2> HIDE DEF at
  <2> QED
    BY <2>1
<1>7. \A i, j \in 1..n : h[i] = h[j] => i = j
  <2> HIDE DEF h, at
  <2> QED
    BY <1>4, <1>6
<1>8. ImageOf(h, 1..n) = SpentIn(C, t)
  <2> HIDE DEF h, at
  <2>1. ASSUME NEW r \in SpentIn(C, t) PROVE \E i \in 1..n : r = h[i]
    <3>1. r \in C /\ r.at \in Previous(Tx[t])
      BY DEF SpentIn
    <3>2. PICK i \in 1..n : r.at = at[i]
      BY <1>3, <3>1
    <3>3. h[i] \in C /\ h[i].at = r.at
      BY <1>6, <3>2
    <3>4. r = h[i]
      BY <3>1, <3>3 DEF History
    <3> QED
      BY <3>4
  <2>2. \A i \in 1..n : h[i] \in SpentIn(C, t)
    BY <1>5, <1>6 DEF SpentIn
  <2> QED
    BY <2>1, <2>2 DEF ImageOf
<1>9. ASSUME NEW i \in 1..n
      PROVE  /\ Get(ov, ins[i].previous).value \in Nat /\ v[i] = Get(ov, ins[i].previous).value
             /\ WorthOf(C)[h[i]] = v[i]
  <2> HIDE DEF h, at
  <2>1. h[i] \in C /\ h[i].at = ins[i].previous /\ h[i].at \notin S
    BY <1>5, <1>6
  <2>2. Get(ov, ins[i].previous) = h[i].out
    BY <2>1 DEF Reads
  <2>3. h[i].out.value \in Nat
    BY <2>1 DEF Amounts
  <2>4. WorthOf(C)[h[i]] = h[i].out.value
    BY <2>1 DEF WorthOf
  <2>5. v[i] = Get(ov, ins[i].previous).value
    OBVIOUS
  <2> HIDE DEF v
  <2> QED
    BY <2>2, <2>3, <2>4, <2>5
<1>10. InputsWorth(ov, ins) = SumOver(v, 1..n)
  <2> HIDE DEF ins
  <2> QED
    BY <1>1, <1>9, InputsAdd
<1>11. /\ IsFiniteSet(ImageOf(h, 1..n))
       /\ SumOver(WorthOf(C), ImageOf(h, 1..n)) = SumOver(v, 1..n)
  <2> DEFINE I == 1..n
             e == WorthOf(C)
  <2>1. \A i \in I : v[i] \in Nat /\ e[h[i]] = v[i]
    BY <1>9
  <2>2. IsFiniteSet(I) /\ \A i, j \in I : h[i] = h[j] => i = j
    BY <1>2, <1>7
  <2> HIDE DEF I, e, h, v
  <2>3. IsFiniteSet(ImageOf(h, I)) /\ SumOver(e, ImageOf(h, I)) = SumOver(v, I)
    BY <2>1, <2>2, SumImage
  <2> QED
    BY <2>3 DEF I, e
<1> HIDE DEF h, v, at, ins, n
<1> QED
  BY <1>8, <1>10, <1>11 DEF ins

(* What a transaction leaves are natural amounts.                          *)
LEMMA LeavesNat ==
  ASSUME LedgerAssumption, NEW t \in DOMAIN Tx
  PROVE  /\ \A i \in DOMAIN Tx[t].outputs : Tx[t].outputs[i].value \in Nat
         /\ ListWorth(Tx[t].outputs) \in Nat
<1> DEFINE outs == Tx[t].outputs
           n == Len(outs)
           v == [i \in 1..n |-> outs[i].value]
<1>1. n \in Nat /\ DOMAIN outs = 1..n
  BY TransactionShape DEF IsOutputs
<1>2. ASSUME NEW i \in DOMAIN outs PROVE outs[i].value \in Nat
  <2>1. outs[i] \in ToSet(outs)
    BY DEF ToSet
  <2> QED
    BY <2>1 DEF LedgerAssumption, TransactionAssumption
<1>3. ListWorth(outs) = SumOver(v, 1..n)
  <2> HIDE DEF outs
  <2> QED
    BY <1>1, <1>2, OutputsAdd
<1>4. IsFiniteSet(1..n) /\ \A i \in 1..n : v[i] \in Nat
  <2>1. IsFiniteSet(1..n)
    BY <1>1, FS_Interval
  <2>2. \A i \in 1..n : outs[i].value \in Nat
    BY <1>1, <1>2
  <2> HIDE DEF outs
  <2> QED
    BY <2>1, <2>2
<1> HIDE DEF v, n
<1>5. SumOver(v, 1..n) \in Nat
  BY <1>4, SumNat
<1> QED
  BY <1>2, <1>3, <1>5

(* A channel close leaves the deposit less the closing fee.                *)
LEMMA ClosePays ==
  ASSUME LedgerAssumption, NEW t \in DOMAIN Tx, NEW previous, NEW height,
         NEW w, w = Tx[t].inputs[1].witness,
         w.key \in DOMAIN Terms, w.payment \in Nat, Tx[t].outputs # <<>>,
         CloseBalanced(previous, Tx[t], w, Terms[w.key], height)
  PROVE  ListWorth(Tx[t].outputs) <= previous.value
<1> DEFINE terms == Terms[w.key]
           paid == IF w.kind = "settlement" THEN w.payment ELSE 0
           total == ListWorth(Tx[t].outputs)
           checked == CheckedTotal(Value, Tx[t].outputs)
<1>1. terms.deposit \in Nat /\ terms.close_fee \in Nat /\ total \in Nat /\ paid \in Nat
  BY LeavesNat DEF LedgerAssumption
<1>2. /\ terms.deposit = previous.value /\ checked + terms.close_fee = previous.value
      /\ Tx[t].outputs = ChannelOutputs(paid, terms.deposit - terms.close_fee - paid, terms, height)
      /\ w.kind = "settlement" => w.payment <= terms.deposit - terms.close_fee
  BY DEF CloseBalanced, CloseValid
<1>3. checked = IF total > MaxAmount THEN Overflow ELSE total
  BY DEF CheckedTotal, ListWorth
<1>4. checked # Overflow
  <2> SUFFICES ASSUME checked = Overflow PROVE FALSE
    OBVIOUS
  <2>1. terms.close_fee = terms.deposit + 1
    <3> HIDE DEF terms, checked, total
    <3> QED
      BY <1>1, <1>2 DEF Overflow
  <2>2. w.kind # "settlement"
    <3> HIDE DEF terms, total
    <3> QED
      BY <1>1, <1>2, <2>1
  <2>3. paid = 0 /\ terms.deposit - terms.close_fee - paid = -1
    <3>1. paid = 0
      BY <2>2
    <3> HIDE DEF terms, total, paid
    <3> QED
      BY <1>1, <2>1, <3>1
  <2>4. IfPositive(Output(0, KeyLock(terms.provider), height)) = <<>>
        /\ IfPositive(Output(-1, KeyLock(terms.customer), height)) = <<>>
    BY DEF IfPositive, Output
  <2>5. Tx[t].outputs = ChannelOutputs(0, -1, terms, height)
    <3> HIDE DEF paid, terms
    <3> QED
      BY <1>2, <2>3
  <2>6. Tx[t].outputs = <<>> \o <<>>
    <3> HIDE DEF terms
    <3> QED
      BY <2>4, <2>5 DEF ChannelOutputs
  <2>7. Tx[t].outputs = <<>>
    BY <2>6
  <2> QED
    BY <2>7
<1>5. checked = total
  BY <1>3, <1>4
<1> HIDE DEF terms, checked, total, paid
<1>6. total <= previous.value
  BY <1>1, <1>2, <1>5
<1> QED
  BY <1>6 DEF total

(* A transaction that is accepted leaves no more than it takes.            *)
LEMMA ApplyPays ==
  ASSUME LedgerAssumption, NEW t \in DOMAIN Tx, NEW ov, NEW C, NEW S, NEW height,
         Reads(ov, C, S), History(C, S), Amounts(C), ApplyTransaction(ov, t, height).ok
  PROVE  Pays(C, t)
<1> DEFINE ins == Tx[t].inputs
           in == ins[1]
<1>1. ~Failed(ov).ok
  BY FailedFails DEF Reads
<1>2. Len(ins) \in Nat /\ DOMAIN ins = 1..Len(ins) /\ ListWorth(Tx[t].outputs) \in Nat
  BY TransactionShape, LeavesNat
<1>3. \A o \in Previous(Tx[t]) : o \notin S /\ \E q \in C : q.at = o
  BY AcceptedInputs
<1>4. Tx[t].outputs # <<>>
  BY <1>1 DEF ApplyTransaction
<1>5. /\ FreshInputs(ov, Tx[t])
      /\ ListWorth(Tx[t].outputs) <= InputsWorth(ov, ins)
  <2>1. CASE \E i \in DOMAIN ins : ins[i].witness.kind # "key"
    <3>1. ApplyTransaction(ov, t, height) = ApplyChannelTransaction(ov, t, height)
      BY <1>1, <2>1 DEF ApplyTransaction
    <3>2. /\ Len(ins) = 1 /\ FreshInputs(ov, Tx[t])
          /\ CloseBalanced(Get(ov, in.previous), Tx[t], in.witness, Terms[in.witness.key], height)
      BY <1>1, <3>1 DEF ApplyChannelTransaction
    <3>3. in.witness.kind # "key" /\ in \in ToSet(ins)
      <4>1. PICK i \in DOMAIN ins : ins[i].witness.kind # "key"
        BY <2>1
      <4>2. i = 1
        BY <1>2, <3>2, <4>1
      <4> QED
        BY <4>1, <4>2 DEF ToSet
    <3>4. in.witness.key \in DOMAIN Terms /\ in.witness.payment \in Nat
      BY <3>3 DEF LedgerAssumption, TransactionAssumption
    <3>5. ListWorth(Tx[t].outputs) <= Get(ov, in.previous).value
      <4> DEFINE w == in.witness
                 previous == Get(ov, in.previous)
      <4>1. /\ CloseBalanced(previous, Tx[t], w, Terms[w.key], height)
            /\ w = Tx[t].inputs[1].witness /\ w.key \in DOMAIN Terms /\ w.payment \in Nat
        BY <3>2, <3>4
      <4> HIDE DEF w, previous
      <4>2. ListWorth(Tx[t].outputs) <= previous.value
        BY <1>4, <4>1, ClosePays
      <4> QED
        BY <4>2 DEF previous
    <3>6. InputsWorth(ov, ins) = Get(ov, in.previous).value
      <4> DEFINE x == Get(ov, in.previous).value
                 v == [i \in 1..Len(ins) |-> Get(ov, ins[i].previous).value]
      <4>1. x \in Nat
        <5>1. in.previous \in Previous(Tx[t])
          BY <1>2, <3>2 DEF Previous
        <5>2. PICK q \in C : q.at = in.previous /\ q.at \notin S
          BY <1>3, <5>1
        <5>3. Get(ov, in.previous) = q.out
          BY <5>2 DEF Reads
        <5> QED
          BY <5>2, <5>3 DEF Amounts
      <4>2. InputsWorth(ov, ins) = SumOver(v, 1..Len(ins))
        <5>1. \A i \in 1..Len(ins) : Get(ov, ins[i].previous).value \in Nat
          BY <3>2, <4>1
        <5> HIDE DEF ins
        <5> QED
          BY <1>2, <5>1, InputsAdd
      <4>3. 1..Len(ins) = {} \cup {1} /\ v[1] = x
        BY <3>2
      <4> HIDE DEF v, x
      <4>4. SumOver(v, {} \cup {1}) = SumOver(v, {}) + v[1]
        BY <4>1, <4>3, FS_EmptySet, SumAdd
      <4>5. SumOver(v, {}) = 0
        BY SumEmpty
      <4>6. SumOver(v, {} \cup {1}) = x
        <5>1. SumOver(v, {} \cup {1}) = 0 + x
          BY <4>3, <4>4, <4>5, Zenon
        <5> QED
          BY <4>1, <5>1
      <4>7. SumOver(v, 1..Len(ins)) = SumOver(v, {} \cup {1})
        BY <4>3, Zenon
      <4>8. InputsWorth(ov, ins) = x
        BY <4>2, <4>6, <4>7, Zenon
      <4> QED
        BY <4>8 DEF x
    <3> QED
      BY <3>2, <3>5, <3>6
  <2>2. CASE ~\E i \in DOMAIN ins : ins[i].witness.kind # "key"
    <3>1. ApplyTransaction(ov, t, height) = ApplyKeyTransaction(ov, t, height)
      BY <1>1, <2>2 DEF ApplyTransaction
    <3> DEFINE taken == CheckedTotal(LAMBDA i : Get(ov, i.previous).value, ins)
               left == CheckedTotal(Value, Tx[t].outputs)
    <3>2. /\ FreshInputs(ov, Tx[t]) /\ taken # Overflow /\ left # Overflow /\ left <= taken
      BY <1>1, <3>1 DEF ApplyKeyTransaction
    <3>3. taken = InputsWorth(ov, ins)
      BY <3>2 DEF CheckedTotal, InputsWorth
    <3>4. left = ListWorth(Tx[t].outputs)
      BY <3>2 DEF CheckedTotal, ListWorth
    <3> HIDE DEF taken, left
    <3> QED
      BY <3>2, <3>3, <3>4
  <2> QED
    BY <2>1, <2>2
<1>6. Cardinality(Previous(Tx[t])) = Len(Tx[t].inputs)
  BY <1>5 DEF FreshInputs
<1>7. /\ IsFiniteSet(SpentIn(C, t))
      /\ InputsWorth(ov, ins) = SumOver(WorthOf(C), SpentIn(C, t))
  BY <1>3, <1>6, TakesWorth
<1> QED
  BY <1>2, <1>5, <1>7 DEF Pays
(* Products and quotients of naturals.                                     *)
LEMMA NatTimes ==
  ASSUME NEW a \in Nat, NEW b \in Nat
  PROVE  a * b \in Nat
OBVIOUS

LEMMA NatDivided ==
  ASSUME NEW a \in Nat, NEW b \in Nat \ {0}
  PROVE  a \div b \in Nat
OBVIOUS

(* One output more, if it pays anything.                                   *)
LEMMA ListWorthPlus ==
  ASSUME NEW X, \A x \in X : x.value \in Nat, NEW s \in Seq(X), NEW out \in X
  PROVE  ListWorth(s \o IfPositive(out)) = ListWorth(s) + out.value
<1> DEFINE n == Len(s)
           s2 == Append(s, out)
           v == [i \in 1..(n + 1) |-> s2[i].value]
           v1 == [i \in 1..n |-> s[i].value]
<1>1. n \in Nat /\ s2 \in Seq(X) /\ Len(s2) = n + 1 /\ s2[n + 1] = out
      /\ \A i \in 1..n : s2[i] = s[i] /\ s[i] \in X
  OBVIOUS
<1>2. out.value \in Nat
  OBVIOUS
<1>3. ListWorth(s) = SumOver(v1, 1..n)
  <2>1. \A i \in 1..Len(s) : s[i].value \in Nat
    BY <1>1
  <2> QED
    BY <1>1, <2>1, OutputsAdd
<1>4. ListWorth(s2) = SumOver(v, 1..(n + 1))
  <2>1. \A i \in 1..Len(s2) : s2[i].value \in Nat
    BY <1>1, ElementOfSeq
  <2> HIDE DEF s2
  <2> QED
    BY <1>1, <2>1, OutputsAdd
<1>5. \A i \in 1..n : v1[i] \in Nat /\ v[i] = v1[i]
  <2> HIDE DEF s2
  <2> QED
    BY <1>1
<1>6. 1..(n + 1) = (1..n) \cup {n + 1} /\ n + 1 \notin 1..n /\ IsFiniteSet(1..n)
  <2>1. n \in Nat
    BY <1>1
  <2> HIDE DEF n
  <2>2. IsFiniteSet(1..n)
    BY <2>1, FS_Interval
  <2> QED
    BY <2>1, <2>2
<1>7. v[n + 1] = out.value
  <2> HIDE DEF s2
  <2> QED
    BY <1>1
<1>8. SumOver(v, 1..(n + 1)) = SumOver(v, 1..n) + out.value
  <2> DEFINE T == 1..n
             y == n + 1
  <2>1. IsFiniteSet(T) /\ y \notin T /\ v[y] \in Nat /\ \A z \in T : v[z] \in Nat
    BY <1>2, <1>5, <1>6, <1>7
  <2> HIDE DEF T, y, v
  <2>2. SumOver(v, T \cup {y}) = SumOver(v, T) + v[y]
    BY <2>1, SumAdd
  <2> QED
    BY <1>6, <1>7, <2>2 DEF T, y
<1>9. SumOver(v, 1..n) = SumOver(v1, 1..n)
  <2> HIDE DEF v, v1
  <2> QED
    BY <1>5, <1>6, SumAgree
<1>10. ListWorth(s2) = ListWorth(s) + out.value
  <2> HIDE DEF v, v1, s2, n
  <2> QED
    BY <1>3, <1>4, <1>8, <1>9
<1>11. SumOver(v1, 1..n) \in Nat
  <2> HIDE DEF v, v1, s2, n
  <2> QED
    BY <1>5, <1>6, SumNat
<1>12. CASE out.value > 0
  <2>1. s \o IfPositive(out) = s2
    BY <1>12 DEF IfPositive
  <2> HIDE DEF s2
  <2> QED
    BY <1>10, <2>1
<1>13. CASE ~(out.value > 0)
  <2>1. s \o IfPositive(out) = s /\ out.value = 0
    BY <1>2, <1>13 DEF IfPositive
  <2> HIDE DEF v1
  <2> QED
    BY <1>3, <1>11, <2>1
<1> QED
  BY <1>12, <1>13

(* What the percentages of a subsidy come to.                              *)
LEMMA SharesBounded ==
  ASSUME NEW a \in Nat, NEW p \in Nat, NEW q \in Nat, p + q <= 100
  PROVE  /\ Share(p, a) \in Nat /\ Share(q, a) \in Nat
         /\ Share(p, a) + Share(q, a) <= a
<1>1. a * p \in Nat /\ a * q \in Nat /\ a * (p + q) = a * p + a * q
  OBVIOUS
<1>2. a * (p + q) <= a * 100
  OBVIOUS
<1> DEFINE x == a * p
           y == a * q
<1>3. x \in Nat /\ y \in Nat /\ x + y <= a * 100
  BY <1>1, <1>2
<1> HIDE DEF x, y
<1>4. x \div 100 \in Nat /\ y \div 100 \in Nat /\ (x \div 100) + (y \div 100) <= a
  BY <1>3
<1> QED
  BY <1>4 DEF Share, x, y

LEMMA SubsidyNat ==
  ASSUME LedgerAssumption, PolicyValid, NEW height \in Nat
  PROVE  Subsidy(height) \in Nat
<1> DEFINE b == Policy.tail_height - 1
           e == LesserOf(IF height = 0 THEN 0 ELSE height - 1, b)
           S == Policy.initial_subsidy
<1>1. b \in Nat /\ b > 0 /\ S \in Nat /\ Policy.tail_subsidy \in Nat
  BY DEF LedgerAssumption, PolicyValid
<1>2. e \in Nat /\ e <= b
  <2> HIDE DEF b
  <2> QED
    BY <1>1 DEF LesserOf
<1>3. DecliningSubsidy(height) = (S * (b - e)) \div b
  BY DEF DecliningSubsidy
<1> HIDE DEF b, e, S
<1>4. S * (b - e) \in Nat
  <2>1. b - e \in Nat
    BY <1>1, <1>2
  <2> DEFINE d == b - e
  <2> HIDE DEF d
  <2>2. \A m \in Nat : S * m \in Nat
    BY <1>1, NatTimes
  <2>3. d \in Nat
    BY <2>1 DEF d
  <2> QED
    BY <2>2, <2>3 DEF d
<1>5. (S * (b - e)) \div b \in Nat
  <2> DEFINE m == S * (b - e)
  <2>1. m \in Nat
    BY <1>4
  <2> HIDE DEF m
  <2>2. m \div b \in Nat
    BY <1>1, <2>1, NatDivided
  <2> QED
    BY <2>2 DEF m
<1> QED
  BY <1>1, <1>3, <1>5 DEF Subsidy

(* A coinbase pays the subsidy of its height, to the last unit.            *)
LEMMA CoinbaseWorth ==
  ASSUME LedgerAssumption, PolicyValid, NEW height \in Nat, NEW fees, NEW miner
  PROVE  LET cb == Coinbase(height, Allocation(height, fees), miner)
         IN  /\ \A i \in DOMAIN cb : cb[i].value \in Nat
             /\ ListWorth(cb) = Subsidy(height)
<1> DEFINE al == Allocation(height, fees)
           sub == Subsidy(height)
           a == Output(al.miner, KeyLock(miner), height + CoinbaseMaturity)
           b == Output(al.steward, KeyLock(Steward), height)
           c == Output(al.community, KeyLock(Community), height)
           cb == Coinbase(height, al, miner)
           X == {a, b, c}
<1>1. sub \in Nat
  BY SubsidyNat
<1>2. /\ al.miner \in Nat /\ al.steward \in Nat /\ al.community \in Nat
      /\ al.miner + al.steward + al.community = sub
  <2> DEFINE p == Policy.steward_percent
             q == Policy.community_percent
             tail == height >= Policy.tail_height
             x == IF tail THEN 0 ELSE Share(p, sub)
             y == IF tail THEN 0 ELSE Share(q, sub)
  <2>1. p \in Nat /\ q \in Nat /\ p + q <= 100
    BY DEF LedgerAssumption, PolicyValid
  <2>2. al.steward = x /\ al.community = y /\ al.miner = sub - x - y
    BY DEF Allocation
  <2> HIDE DEF al, sub, p, q
  <2>3. Share(p, sub) \in Nat /\ Share(q, sub) \in Nat /\ Share(p, sub) + Share(q, sub) <= sub
    BY <1>1, <2>1, SharesBounded
  <2>4. x \in Nat /\ y \in Nat /\ x + y <= sub
    BY <1>1, <2>3
  <2> HIDE DEF x, y
  <2> QED
    BY <1>1, <2>2, <2>4
<1>3. a.value = al.miner /\ b.value = al.steward /\ c.value = al.community
  BY DEF Output
<1>4. cb = (<<a>> \o IfPositive(b)) \o IfPositive(c)
  BY DEF Coinbase
<1> HIDE DEF al, sub, a, b, c, cb
<1>5. \A x \in X : x.value \in Nat
  BY <1>2, <1>3
<1>6. <<a>> \in Seq(X) /\ <<>> \in Seq(X) /\ a \in X /\ b \in X /\ c \in X
  OBVIOUS
<1>7. <<a>> \o IfPositive(b) \in Seq(X) /\ cb \in Seq(X)
  <2>1. \A x \in X : IfPositive(x) \in Seq(X)
    <3> SUFFICES ASSUME NEW x \in X PROVE IfPositive(x) \in Seq(X)
      OBVIOUS
    <3>1. <<x>> \in Seq(X) /\ <<>> \in Seq(X)
      OBVIOUS
    <3> QED
      BY <3>1, Zenon DEF IfPositive
  <2> HIDE DEF X
  <2>2. IfPositive(b) \in Seq(X) /\ IfPositive(c) \in Seq(X)
    BY <1>6, <2>1
  <2> QED
    BY <1>4, <1>6, <2>2
<1> HIDE DEF X
<1>8. ListWorth(<<a>>) = a.value
  <2> DEFINE v == [i \in 1..1 |-> <<a>>[i].value]
  <2>1. Len(<<a>>) = 1 /\ \A i \in 1..1 : <<a>>[i].value \in Nat
    BY <1>5, <1>6
  <2>2. ListWorth(<<a>>) = SumOver([i \in 1..Len(<<a>>) |-> <<a>>[i].value], 1..Len(<<a>>))
    BY <2>1, OutputsAdd
  <2>3. 1..1 = {} \cup {1} /\ v[1] = a.value /\ a.value \in Nat
    BY <1>5, <1>6
  <2>4. ListWorth(<<a>>) = SumOver(v, 1..1)
    BY <2>1, <2>2
  <2> HIDE DEF v
  <2>5. SumOver(v, {} \cup {1}) = SumOver(v, {}) + v[1]
    <3>1. v[1] \in Nat /\ IsFiniteSet({}) /\ 1 \notin {}
      BY <2>3, FS_EmptySet
    <3> QED
      BY <3>1, SumAdd
  <2>6. SumOver(v, {} \cup {1}) = 0 + a.value
    BY <2>3, <2>5, SumEmpty, Zenon
  <2>7. ListWorth(<<a>>) = 0 + a.value
    BY <2>3, <2>4, <2>6, Zenon
  <2> QED
    BY <2>3, <2>7
<1>9. ListWorth(<<a>> \o IfPositive(b)) = ListWorth(<<a>>) + b.value
  BY <1>5, <1>6, ListWorthPlus
<1>10. ListWorth((<<a>> \o IfPositive(b)) \o IfPositive(c))
          = ListWorth(<<a>> \o IfPositive(b)) + c.value
  <2> DEFINE s == <<a>> \o IfPositive(b)
  <2>1. s \in Seq(X)
    BY <1>7
  <2> HIDE DEF s
  <2>2. ListWorth(s \o IfPositive(c)) = ListWorth(s) + c.value
    BY <1>5, <1>6, <2>1, ListWorthPlus
  <2> QED
    BY <2>2 DEF s
<1>11. ListWorth(cb) = sub
  <2>1. ListWorth(cb) = (a.value + b.value) + c.value
    BY <1>4, <1>8, <1>9, <1>10, Zenon
  <2> QED
    BY <1>2, <1>3, <2>1
<1>12. \A i \in DOMAIN cb : cb[i].value \in Nat
  BY <1>5, <1>7, ElementOfSeq
<1> QED
  BY <1>11, <1>12 DEF al, sub, cb

-----------------------------------------------------------------------------
(* The history that blocks and the transactions in them make.              *)
OnceEach(txids) ==
    \A t, u \in txids : t # u => Previous(Tx[t]) \intersect Previous(Tx[u]) = {}

Tells(ov, txids, blocks) ==
    /\ txids \subseteq DOMAIN Tx /\ OnceEach(txids)
    /\ Reads(ov, CreatedBy(txids, blocks), SpentBy(txids))
    /\ History(CreatedBy(txids, blocks), SpentBy(txids))
    /\ Solvent(CreatedBy(txids, blocks), txids)

(* What was created under a transaction's id was created by it.            *)
LEMMA OriginOfOutputs ==
  ASSUME NEW txids, NEW blocks
  PROVE  /\ \A t : t \notin txids => Unused(CreatedBy(txids, blocks), OfTransaction(t))
         /\ \A b : b \notin blocks => Unused(CreatedBy(txids, blocks), OfCoinbase(b))
<1>1. ASSUME NEW r \in CreatedBy(txids, blocks)
      PROVE  \/ \E t \in txids : \E j : r.at = <<OfTransaction(t), j>>
             \/ \E b \in blocks : \E j : r.at = <<OfCoinbase(b), j>>
  <2>1. ASSUME NEW id, NEW outputs, r \in OutputsOf(id, outputs)
        PROVE  \E j : r.at = <<id, j>>
    <3>1. PICK i \in DOMAIN outputs : r = [at |-> <<id, i - 1>>, out |-> outputs[i]]
      BY <2>1 DEF OutputsOf
    <3> QED
      BY <3>1
  <2>2. CASE \E t \in txids : r \in OutputsOf(OfTransaction(t), Tx[t].outputs)
    <3>1. PICK t \in txids : r \in OutputsOf(OfTransaction(t), Tx[t].outputs)
      BY <2>2
    <3>2. \E j : r.at = <<OfTransaction(t), j>>
      BY <2>1, <3>1
    <3> QED
      BY <3>2
  <2>3. CASE \E b \in blocks : r \in OutputsOf(OfCoinbase(b), b.coinbase)
    <3>1. PICK b \in blocks : r \in OutputsOf(OfCoinbase(b), b.coinbase)
      BY <2>3
    <3>2. \E j : r.at = <<OfCoinbase(b), j>>
      BY <2>1, <3>1
    <3> QED
      BY <3>2
  <2>4. \/ \E t \in txids : r \in OutputsOf(OfTransaction(t), Tx[t].outputs)
        \/ \E b \in blocks : r \in OutputsOf(OfCoinbase(b), b.coinbase)
    BY <1>1 DEF CreatedBy
  <2> QED
    BY <2>2, <2>3, <2>4
<1>2. \A t, b : OfTransaction(t) # OfCoinbase(b)
  BY DEF OfTransaction, OfCoinbase
<1>3. \A t, u : OfTransaction(t) = OfTransaction(u) => t = u
  BY DEF OfTransaction
<1>4. \A b, d : OfCoinbase(b) = OfCoinbase(d) => b = d
  BY DEF OfCoinbase
<1>5. \A x, y, i, j : <<x, i>> = <<y, j>> => x = y
  OBVIOUS
<1>6. ASSUME NEW t, t \notin txids PROVE Unused(CreatedBy(txids, blocks), OfTransaction(t))
  BY <1>1, <1>2, <1>3, <1>5, <1>6 DEF Unused
<1>7. ASSUME NEW b, b \notin blocks PROVE Unused(CreatedBy(txids, blocks), OfCoinbase(b))
  BY <1>1, <1>2, <1>4, <1>5, <1>7 DEF Unused
<1> QED
  BY <1>6, <1>7

(* A transaction joins it, for the first time.                             *)
LEMMA ApplyTells ==
  ASSUME LedgerAssumption, NEW t \in DOMAIN Tx, NEW ov, NEW txids, NEW blocks, NEW height,
         Tells(ov, txids, blocks), ApplyTransaction(ov, t, height).ok
  PROVE  LET ov2 == ApplyTransaction(ov, t, height)
         IN  /\ t \notin txids
             /\ Tells(ov2, txids \union {t}, blocks)
             /\ \E fee : Booked(ov, ov2, t, fee)
<1> DEFINE C == CreatedBy(txids, blocks)
           S == SpentBy(txids)
           ov2 == ApplyTransaction(ov, t, height)
<1>1. Reads(ov, C, S) /\ History(C, S)
  BY DEF Tells
<1>2. Previous(Tx[t]) # {} /\ \A o \in Previous(Tx[t]) : o \notin S
  <2> HIDE DEF C, S
  <2> QED
    BY <1>1, AcceptedInputs
<1>3. t \notin txids
  BY <1>2 DEF SpentBy
<1>4. Unused(C, OfTransaction(t))
  BY <1>3, OriginOfOutputs
<1>5. /\ Reads(ov2, C \union OutputsOf(OfTransaction(t), Tx[t].outputs), S \union Previous(Tx[t]))
      /\ History(C \union OutputsOf(OfTransaction(t), Tx[t].outputs), S \union Previous(Tx[t]))
      /\ \E fee : Booked(ov, ov2, t, fee)
  <2> HIDE DEF C, S
  <2> QED
    BY <1>1, <1>4, ApplyReads
<1>6. CreatedBy(txids \union {t}, blocks) = C \union OutputsOf(OfTransaction(t), Tx[t].outputs)
  BY DEF CreatedBy
<1>7. SpentBy(txids \union {t}) = S \union Previous(Tx[t])
  BY DEF SpentBy
<1>8. OnceEach(txids \union {t})
  <2>1. ASSUME NEW u \in txids PROVE Previous(Tx[t]) \intersect Previous(Tx[u]) = {}
    BY <1>2 DEF SpentBy
  <2> QED
    BY <2>1 DEF OnceEach, Tells
<1> DEFINE C2 == CreatedBy(txids \union {t}, blocks)
           S2 == SpentBy(txids \union {t})
<1>9. Solvent(C2, txids \union {t})
  <2> SUFFICES ASSUME PolicyValid
               PROVE  Amounts(C2) /\ \A u \in txids \union {t} : Pays(C2, u)
    BY DEF Solvent
  <2>1. Amounts(C) /\ \A u \in txids : Pays(C, u)
    BY DEF Tells, Solvent
  <2>2. Amounts(C2)
    <3>1. \A r \in OutputsOf(OfTransaction(t), Tx[t].outputs) : r.out.value \in Nat
      BY LeavesNat DEF OutputsOf
    <3> HIDE DEF C, C2
    <3> QED
      BY <1>6, <2>1, <3>1 DEF Amounts, C2
  <2>3. History(C2, S2) /\ C \subseteq C2
    <3> HIDE DEF C, S
    <3> QED
      BY <1>5, <1>6, <1>7
  <2>4. Pays(C, t)
    <3> HIDE DEF C, S
    <3> QED
      BY <1>1, <2>1, ApplyPays
  <2>5. \A u \in txids \union {t} : \A o \in Previous(Tx[u]) : \E q \in C : q.at = o
    <3>1. \A o \in Previous(Tx[t]) : \E q \in C : q.at = o
      <4> HIDE DEF C, S
      <4> QED
        BY <1>1, AcceptedInputs
    <3>2. \A u \in txids : Previous(Tx[u]) \subseteq S
      BY DEF SpentBy
    <3> HIDE DEF C, S
    <3> QED
      BY <1>1, <3>1, <3>2 DEF History
  <2> HIDE DEF C, S, C2, S2
  <2>6. ASSUME NEW u \in txids \union {t} PROVE Pays(C2, u)
    <3>1. Pays(C, u) /\ \A o \in Previous(Tx[u]) : \E q \in C : q.at = o
      BY <2>1, <2>4, <2>5
    <3> QED
      BY <1>1, <2>1, <2>3, <3>1, PaysOn
  <2> QED
    BY <2>2, <2>6
<1>10. Tells(ov2, txids \union {t}, blocks)
  <2> HIDE DEF C, S, ov2
  <2> QED
    BY <1>5, <1>6, <1>7, <1>8, <1>9 DEF Tells
<1> QED
  BY <1>3, <1>5, <1>10

(* Unless the overlay failed, it tells that history on top of u.           *)
TellsOn(ov, u, txids, blocks) ==
    IsOverlay(ov) /\ (ov.ok => Tells(ov, txids, blocks) /\ ov.base = u)

(* The transactions of a block join it one after the other.                *)
LEMMA ApplyAllTells ==
  ASSUME LedgerAssumption, NEW u, NEW I, NEW blocks, NEW height,
         NEW txids \in Seq(DOMAIN Tx),
         Tells(NewOverlay(u), I, blocks)
  PROVE  TellsOn(ApplyAll(u, txids, height), u, I \union ToSet(txids), blocks)
<1> DEFINE n == Len(txids)
           Ids(k) == {txids[i] : i \in 1..k}
<1>1. n \in Nat /\ \A i \in 1..n : txids[i] \in DOMAIN Tx
  OBVIOUS
<1>2. PICK f : ApplyRun(f, u, txids, height)
  BY <1>1, ApplyUnfolds
<1>3. /\ f[0] = NewOverlay(u) /\ f[n] = ApplyAll(u, txids, height)
      /\ \A i \in 1..n : f[i] = ApplyTransaction(f[i - 1], txids[i], height)
  BY <1>2 DEF ApplyRun
<1>4. IsOverlay(f[0]) /\ f[0].base = u
  BY <1>3 DEF NewOverlay, IsOverlay
<1> DEFINE Holds(k) == /\ IsOverlay(f[k])
                       /\ f[k].ok => Tells(f[k], I \union Ids(k), blocks) /\ f[k].base = u
           Good == {k \in Nat : Holds(k)}
<1>5. 0 \in Good
  <2>1. I \union Ids(0) = I
    OBVIOUS
  <2> HIDE DEF Ids
  <2> QED
    BY <1>3, <1>4, <2>1
<1>6. ASSUME NEW k \in Nat, k < n, k \in Good
      PROVE  k + 1 \in Good
  <2> DEFINE t == txids[k + 1]
  <2>1. k + 1 \in 1..n /\ (k + 1) - 1 = k
    BY <1>1, <1>6
  <2>2. f[k + 1] = ApplyTransaction(f[k], t, height) /\ t \in DOMAIN Tx
    BY <1>1, <1>3, <2>1
  <2>3. I \union Ids(k + 1) = (I \union Ids(k)) \union {t}
    <3>1. 1..(k + 1) = (1..k) \union {k + 1}
      OBVIOUS
    <3> QED
      BY <3>1
  <2> HIDE DEF t, Ids
  <2>4. IsOverlay(f[k + 1]) /\ (f[k + 1].ok => f[k].ok)
    BY <1>6, <2>2, ApplyFollows DEF Follows
  <2>5. ASSUME f[k + 1].ok
        PROVE  Tells(f[k + 1], I \union Ids(k + 1), blocks) /\ f[k + 1].base = u
    <3>1. Tells(f[k], I \union Ids(k), blocks) /\ f[k].base = u
      BY <1>6, <2>4, <2>5
    <3>2. /\ Tells(f[k + 1], (I \union Ids(k)) \union {t}, blocks)
          /\ \E fee : Booked(f[k], f[k + 1], t, fee)
      <4> DEFINE before == I \union Ids(k)
      <4>1. Tells(f[k], before, blocks) /\ ApplyTransaction(f[k], t, height).ok
        BY <2>2, <2>5, <3>1
      <4> HIDE DEF before
      <4>2. LET ov2 == ApplyTransaction(f[k], t, height)
            IN  /\ Tells(ov2, before \union {t}, blocks)
                /\ \E fee : Booked(f[k], ov2, t, fee)
        BY <2>2, <4>1, ApplyTells
      <4> QED
        BY <2>2, <4>2 DEF before
    <3> QED
      BY <2>3, <3>1, <3>2 DEF Booked
  <2> QED
    BY <2>4, <2>5
<1>7. n \in Good
  <2> HIDE DEF Good
  <2>1. \A k \in 0..n : k \in Good
    BY <1>1, <1>5, <1>6, UpTo
  <2> QED
    BY <1>1, <2>1
<1>8. ToSet(txids) = Ids(n)
  BY DEF ToSet
<1> HIDE DEF Ids
<1> QED
  BY <1>3, <1>7, <1>8 DEF TellsOn

(* What a coinbase pays is locked to keys.                                 *)
LEMMA CoinbaseIsOutputs ==
  ASSUME NEW height, NEW allocation, NEW miner
  PROVE  IsOutputs(Coinbase(height, allocation, miner))
<1> DEFINE a == Output(allocation.miner, KeyLock(miner), height + CoinbaseMaturity)
           b == Output(allocation.steward, KeyLock(Steward), height)
           c == Output(allocation.community, KeyLock(Community), height)
           three == {a, b, c}
<1>1. \A out \in three : WellLocked(out)
  BY DEF Output, KeyLock, WellLocked, IsChannel
<1> HIDE DEF a, b, c
<1>2. <<a>> \in Seq(three) /\ IfPositive(b) \in Seq(three) /\ IfPositive(c) \in Seq(three)
  <2>1. \A out \in three : IfPositive(out) \in Seq(three)
    <3> SUFFICES ASSUME NEW out \in three PROVE IfPositive(out) \in Seq(three)
      OBVIOUS
    <3>1. <<out>> \in Seq(three) /\ <<>> \in Seq(three)
      OBVIOUS
    <3> QED
      BY <3>1, Zenon DEF IfPositive
  <2> QED
    BY <2>1
<1>3. Coinbase(height, allocation, miner) = <<a>> \o IfPositive(b) \o IfPositive(c)
  BY DEF Coinbase, a, b, c
<1>4. Coinbase(height, allocation, miner) \in Seq(three)
  <2> HIDE DEF three
  <2> QED
    BY <1>2, <1>3
<1> HIDE DEF three
<1> QED
  BY <1>1, <1>4 DEF IsOutputs

(* A valid block joins the history with its coinbase.                      *)
LEMMA BlockTells ==
  ASSUME LedgerAssumption, NEW u, NEW I, NEW blocks, NEW block,
         block.txids \in Seq(DOMAIN Tx), block \notin blocks, block.height \in Nat,
         Tells(NewOverlay(u), I, blocks), ValidateDelta(u, block).ok
  PROVE  LET ov2 == ValidateDelta(u, block)
         IN  Tells(ov2, I \union ToSet(block.txids), blocks \union {block}) /\ ov2.base = u
<1> DEFINE ov == ApplyAll(u, block.txids, block.height)
           I2 == I \union ToSet(block.txids)
           C == CreatedBy(I2, blocks)
           S == SpentBy(I2)
           ov2 == ValidateDelta(u, block)
<1>1. IsOverlay(NewOverlay(u))
  BY DEF Tells, Reads
<1>2. ov2 = InsertCoinbase(ov, block)
  BY <1>1, FailedFails DEF ValidateDelta
<1>3. IsOverlay(ov) /\ (ov.ok => Tells(ov, I2, blocks) /\ ov.base = u)
  <2> DEFINE txids == block.txids
             height == block.height
  <2>1. txids \in Seq(DOMAIN Tx)
    OBVIOUS
  <2> HIDE DEF txids, height
  <2>2. TellsOn(ApplyAll(u, txids, height), u, I \union ToSet(txids), blocks)
    BY <2>1, ApplyAllTells
  <2> QED
    BY <2>2 DEF txids, height, TellsOn
<1>4. /\ ov.ok /\ ov2 = InsertOutputs(ov, OfCoinbase(block), block.coinbase)
      /\ ValidateCoinbase(block, Allocation(block.height, ov.fees))
  <2> HIDE DEF ov, ov2
  <2>1. IsOverlay(Failed(ov)) /\ ~Failed(ov).ok
    BY <1>3, FailedFails
  <2>2. ov2.ok
    BY DEF ov2
  <2> QED
    BY <1>2, <2>1, <2>2 DEF InsertCoinbase
<1>5. IsOutputs(block.coinbase)
  BY <1>4, CoinbaseIsOutputs DEF ValidateCoinbase
<1>6. /\ Reads(ov, C, S) /\ History(C, S) /\ I2 \subseteq DOMAIN Tx /\ OnceEach(I2)
      /\ Solvent(C, I2)
  BY <1>3, <1>4 DEF Tells
<1>7. Unused(C, OfCoinbase(block))
  BY OriginOfOutputs
<1>8. /\ Reads(ov2, C \union OutputsOf(OfCoinbase(block), block.coinbase), S)
      /\ History(C \union OutputsOf(OfCoinbase(block), block.coinbase), S)
      /\ SameRest(ov, ov2)
  <2> HIDE DEF C, S, ov
  <2>1. InsertOutputs(ov, OfCoinbase(block), block.coinbase).ok
    BY <1>4
  <2> HIDE DEF ov2
  <2> QED
    BY <1>4, <1>5, <1>6, <1>7, <2>1, InsertAllReads
<1>9. CreatedBy(I2, blocks \union {block}) = C \union OutputsOf(OfCoinbase(block), block.coinbase)
  BY DEF CreatedBy
<1> DEFINE C2 == CreatedBy(I2, blocks \union {block})
<1>10. Solvent(C2, I2)
  <2> SUFFICES ASSUME PolicyValid
               PROVE  Amounts(C2) /\ \A t \in I2 : Pays(C2, t)
    BY DEF Solvent
  <2>1. Amounts(C) /\ \A t \in I2 : Pays(C, t)
    <3> HIDE DEF C, I2
    <3> QED
      BY <1>6 DEF Solvent
  <2>2. Amounts(C2)
    <3>1. \A i \in DOMAIN block.coinbase : block.coinbase[i].value \in Nat
      BY <1>4, CoinbaseWorth DEF ValidateCoinbase
    <3>2. \A r \in OutputsOf(OfCoinbase(block), block.coinbase) : r.out.value \in Nat
      BY <3>1 DEF OutputsOf
    <3> HIDE DEF C, C2
    <3> QED
      BY <1>9, <2>1, <3>2 DEF Amounts, C2
  <2>3. History(C2, S) /\ C \subseteq C2
    <3> HIDE DEF C, S
    <3> QED
      BY <1>8, <1>9
  <2>4. \A t \in I2 : Previous(Tx[t]) \subseteq S
    <3> HIDE DEF I2
    <3> QED
      BY DEF SpentBy
  <2> HIDE DEF C, S, C2, I2
  <2>5. ASSUME NEW t \in I2 PROVE Pays(C2, t)
    <3>1. \A o \in Previous(Tx[t]) : \E q \in C : q.at = o
      BY <1>6, <2>4 DEF History
    <3>2. Pays(C, t) /\ History(C, S)
      BY <1>6, <2>1
    <3> QED
      BY <2>1, <2>3, <3>1, <3>2, PaysOn
  <2> QED
    BY <2>2, <2>5
<1> HIDE DEF C, S, ov, ov2
<1> QED
  <2>1. Tells(ov2, I2, blocks \union {block})
    <3> HIDE DEF I2
    <3> QED
      BY <1>6, <1>8, <1>9, <1>10 DEF Tells, S
  <2>2. ov2.base = u
    BY <1>3, <1>4, <1>8 DEF SameRest
  <2> QED
    BY <2>1, <2>2 DEF ov2, I2
-----------------------------------------------------------------------------
(* No outpoint holds the empty output.                                     *)
Stored(u) == \A o \in DOMAIN u.outputs : u.outputs[o] # None

DeltaOf(ov) == [outputs |-> ov.outputs, active |-> ov.active, retired |-> ov.retired]

(* The changes of an overlay, applied to the set it was made for, give the *)
(* set it reads as.                                                        *)
LEMMA DeltaReads ==
  ASSUME NEW ov, NEW u, IsOverlay(ov), ov.base = u, Stored(u)
  PROVE  LET u2 == ApplyDelta(DeltaOf(ov), u)
         IN  /\ Stored(u2)
             /\ \A o : BaseGet(u2, o) = Get(ov, o)
             /\ \A c : c \in u2.active <=> IsActive(ov, c)
             /\ \A c : c \in u2.retired <=> IsRetired(ov, c)
<1> DEFINE u2 == ApplyDelta(DeltaOf(ov), u)
           kept == DOMAIN u.outputs \ DOMAIN ov.outputs
           made == {o \in DOMAIN ov.outputs : ov.outputs[o].next # None}
           held == [o \in kept \union made |->
                       IF o \in made THEN ov.outputs[o].next ELSE u.outputs[o]]
<1>1. u2 = [outputs |-> held, active |-> Members(u.active, ov.active),
            retired |-> Members(u.retired, ov.retired)]
  BY DEF ApplyDelta, DeltaOf
<1>2. /\ u2.outputs = held
      /\ u2.active = Members(u.active, ov.active)
      /\ u2.retired = Members(u.retired, ov.retired)
  <2> HIDE DEF u2, held
  <2> QED
    BY <1>1
<1>3. \A o : o \in DOMAIN held <=> o \in kept \/ o \in made
  OBVIOUS
<1>4. \A o : o \in made => held[o] = ov.outputs[o].next
  OBVIOUS
<1>5. \A o : o \in kept => held[o] = u.outputs[o]
  OBVIOUS
<1> HIDE DEF u2
<1>6. Stored(u2)
  <2>1. \A o : o \in kept => held[o] # None
    BY <1>5 DEF Stored
  <2>2. \A o : o \in made => held[o] # None
    BY <1>4
  <2> HIDE DEF held, kept, made
  <2> QED
    BY <1>2, <1>3, <2>1, <2>2 DEF Stored
<1>7. ASSUME NEW o PROVE BaseGet(u2, o) = Get(ov, o)
  <2>1. CASE o \in DOMAIN ov.outputs
    <3>1. o \notin kept /\ (o \in made <=> ov.outputs[o].next # None)
      BY <2>1
    <3> HIDE DEF held, kept, made
    <3> QED
      BY <1>2, <1>3, <1>4, <2>1, <3>1 DEF BaseGet, Get
  <2>2. CASE o \notin DOMAIN ov.outputs
    <3>1. o \notin made /\ (o \in kept <=> o \in DOMAIN u.outputs)
      BY <2>2
    <3> HIDE DEF held, kept, made
    <3> QED
      BY <1>2, <1>3, <1>5, <2>2, <3>1 DEF BaseGet, Get
  <2> QED
    BY <2>1, <2>2
<1>8. \A c : c \in u2.active <=> IsActive(ov, c)
  BY <1>2 DEF Members, IsActive
<1>9. \A c : c \in u2.retired <=> IsRetired(ov, c)
  BY <1>2 DEF Members, IsRetired
<1> QED
  BY <1>6, <1>7, <1>8, <1>9 DEF u2

(* A state that holds what the transactions and blocks made.               *)
Keeps(u, txids, blocks) == Tells(NewOverlay(u), txids, blocks) /\ Stored(u)

NewOverlayReads(u) ==
    /\ IsOverlay(NewOverlay(u))
    /\ \A o : Get(NewOverlay(u), o) = BaseGet(u, o)
    /\ \A c : IsActive(NewOverlay(u), c) <=> c \in u.active
    /\ \A c : IsRetired(NewOverlay(u), c) <=> c \in u.retired

LEMMA NewOverlayIsBase ==
  ASSUME NEW u PROVE NewOverlayReads(u)
BY DEF NewOverlayReads, NewOverlay, IsOverlay, Get, IsActive, IsRetired

(* Committing a block to the state it was validated for.                   *)
Fresh(s, I, blocks, block) ==
    /\ block.txids \in Seq(DOMAIN Tx) /\ block \notin blocks /\ s.next_height \in Nat
    /\ Keeps(s.utxos, I, blocks) /\ ValidateBlock(s, block).ok

Extended(s, s2, I, blocks, block) ==
    /\ Keeps(s2.utxos, I \union ToSet(block.txids), blocks \union {block})
    /\ s2.tip = block /\ s2.next_height = s.next_height + 1
    /\ block.height = s.next_height /\ block.previous = s.tip

LEMMA CommitKeeps ==
  ASSUME LedgerAssumption, NEW s, NEW I, NEW blocks, NEW block, Fresh(s, I, blocks, block)
  PROVE  Extended(s, Committed(s, ValidateBlock(s, block)), I, blocks, block)
<1> USE DEF Fresh
<1> DEFINE u == s.utxos
           ov == ValidateDelta(u, block)
           I2 == I \union ToSet(block.txids)
           B2 == blocks \union {block}
           t == ValidateBlock(s, block)
           s2 == Committed(s, t)
           u2 == ApplyDelta(DeltaOf(ov), u)
<1>1. ov.ok /\ t = Token(s, block, ov) /\ HeaderValid(s, block)
  BY DEF ValidateBlock, NoToken, Token
<1>2. t.delta = DeltaOf(ov) /\ t.block = block
  <2> HIDE DEF ov, t
  <2> QED
    BY <1>1 DEF Token, DeltaOf
<1>3. s2.utxos = u2 /\ s2.tip = block /\ s2.next_height = s.next_height + 1
  <2> HIDE DEF ov, t
  <2> QED
    BY <1>2 DEF Committed
<1>4. Tells(ov, I2, B2) /\ ov.base = u
  <2>1. Tells(NewOverlay(u), I, blocks) /\ ov.ok /\ block.height \in Nat
    BY <1>1 DEF Keeps, HeaderValid
  <2> HIDE DEF u
  <2> QED
    BY <2>1, BlockTells
<1> DEFINE C == CreatedBy(I2, B2)
           S == SpentBy(I2)
<1>5. /\ Reads(ov, C, S) /\ History(C, S) /\ I2 \subseteq DOMAIN Tx /\ OnceEach(I2)
      /\ Solvent(C, I2)
  BY <1>4 DEF Tells
<1>6. /\ Stored(u2)
      /\ \A o : BaseGet(u2, o) = Get(ov, o)
      /\ \A c : c \in u2.active <=> IsActive(ov, c)
      /\ \A c : c \in u2.retired <=> IsRetired(ov, c)
  <2>1. IsOverlay(ov) /\ Stored(u)
    BY <1>5 DEF Reads, Keeps
  <2> HIDE DEF ov, u
  <2> QED
    BY <1>4, <2>1, DeltaReads
<1>7. Reads(NewOverlay(u2), C, S)
  <2> HIDE DEF u2, ov, C, S
  <2>1. NewOverlayReads(u2)
    BY NewOverlayIsBase
  <2> QED
    BY <1>5, <1>6, <2>1 DEF Reads, NewOverlayReads
<1>8. Keeps(u2, I2, B2)
  <2> HIDE DEF u2, I2, B2
  <2> QED
    BY <1>5, <1>6, <1>7 DEF Keeps, Tells
<1>9. block.height = s.next_height /\ block.previous = s.tip
  BY <1>1 DEF HeaderValid
<1> HIDE DEF u2, I2, B2
<1>10. Keeps(s2.utxos, I \union ToSet(block.txids), blocks \union {block})
  <2> HIDE DEF s2
  <2> QED
    BY <1>3, <1>8 DEF I2, B2
<1> QED
  BY <1>3, <1>9, <1>10 DEF Extended
-----------------------------------------------------------------------------
(* rebuild_state_to: the states that the blocks of a chain lead through.   *)
RebuildStep(ctx, s, b) == Committed(s, ValidateBlock(s, b))
Rebuilding == INSTANCE LeftFolds WITH Step <- RebuildStep

ReplayRun(f, c) ==
    /\ Rebuilding!Unfolds(f, 0, NewChainState, c, Len(c))
    /\ f[0] = NewChainState
    /\ \A i \in 1..Len(c) : f[i] = Committed(f[i - 1], ValidateBlock(f[i - 1], c[i]))
    /\ f[Len(c)] = Rebuild(c)

LEMMA RebuildUnfolds ==
  ASSUME NEW c, Len(c) \in Nat
  PROVE  \E f : ReplayRun(f, c)
<1> DEFINE n == Len(c)
           Runs(f) == f = [i \in 0..n |-> IF i = 0 THEN NewChainState
                                          ELSE Committed(f[i - 1], ValidateBlock(f[i - 1], c[i]))]
           g == CHOOSE f : Runs(f)
<1>1. \E f : Runs(f)
  <2>1. PICK f : Rebuilding!Unfolds(f, 0, NewChainState, c, n)
    BY Rebuilding!LeftFoldExists
  <2> QED
    BY <2>1 DEF Rebuilding!Unfolds, RebuildStep
<1>2. Runs(g)
  BY <1>1
<1>3. Rebuild(c) = g[n]
  BY DEF Rebuild, Folded
<1>4. \A i \in 1..n : i \in 0..n /\ i # 0
  OBVIOUS
<1>5. Rebuilding!Unfolds(g, 0, NewChainState, c, n)
  <2> HIDE DEF g
  <2> QED
    BY <1>2 DEF Rebuilding!Unfolds, RebuildStep
<1> HIDE DEF g
<1>6. g[0] = NewChainState /\ \A i \in 1..n : g[i] = Committed(g[i - 1], ValidateBlock(g[i - 1], c[i]))
  BY <1>2, <1>4
<1> QED
  BY <1>3, <1>5, <1>6 DEF ReplayRun

(* What was rebuilt from the first blocks does not depend on the others.   *)
LEMMA RebuildPrefix ==
  ASSUME NEW c, NEW d, Len(c) \in Nat, Len(d) \in Nat, Len(c) <= Len(d),
         \A i \in 1..Len(c) : c[i] = d[i], NEW f, ReplayRun(f, d)
  PROVE  f[Len(c)] = Rebuild(c)
<1>1. PICK g : ReplayRun(g, c)
  BY RebuildUnfolds
<1> DEFINE n == Len(c)
           m == Len(d)
<1>2. /\ Rebuilding!Unfolds(g, 0, NewChainState, c, n)
      /\ Rebuilding!Unfolds(f, 0, NewChainState, d, m)
      /\ n \in Nat /\ m \in Nat /\ n <= m /\ \A i \in 1..n : c[i] = d[i]
      /\ g[n] = Rebuild(c)
  BY <1>1 DEF ReplayRun
<1> HIDE DEF n, m
<1>3. \A k \in 0..n : g[k] = f[k]
  BY <1>2, Rebuilding!LeftFoldsAgree
<1> QED
  BY <1>2, <1>3 DEF n

(* One more block.                                                         *)
LEMMA RebuildAppend ==
  ASSUME NEW X, NEW c \in Seq(X), NEW b \in X
  PROVE  Rebuild(Append(c, b)) = Committed(Rebuild(c), ValidateBlock(Rebuild(c), b))
<1> DEFINE d == Append(c, b)
<1>1. /\ Len(c) \in Nat /\ Len(d) = Len(c) + 1 /\ d[Len(c) + 1] = b
      /\ \A i \in 1..Len(c) : c[i] = d[i]
  OBVIOUS
<1> HIDE DEF d
<1>2. PICK f : ReplayRun(f, d)
  BY <1>1, RebuildUnfolds
<1>3. f[Len(c)] = Rebuild(c)
  BY <1>1, <1>2, RebuildPrefix
<1>4. /\ f[Len(d)] = Rebuild(d)
      /\ \A i \in 1..Len(d) : f[i] = Committed(f[i - 1], ValidateBlock(f[i - 1], d[i]))
  BY <1>2 DEF ReplayRun
<1>5. Len(d) \in 1..Len(d) /\ Len(d) - 1 = Len(c) /\ d[Len(d)] = b
  BY <1>1
<1>6. Rebuild(d) = Committed(f[Len(d) - 1], ValidateBlock(f[Len(d) - 1], d[Len(d)]))
  BY <1>4, <1>5
<1> QED
  BY <1>3, <1>5, <1>6 DEF d
-----------------------------------------------------------------------------
(* A chain every block of which is valid after the blocks before it.       *)
Before(c, n) == Rebuild(SubSeq(c, 1, n - 1))
ChainOk(c) ==
    /\ c \in Seq(ToSet(c))
    /\ \A n \in 1..Len(c) : /\ c[n].txids \in Seq(DOMAIN Tx)
                            /\ ValidateBlock(Before(c, n), c[n]).ok

(* What replaying a chain arrives at.                                      *)
TipOf(c, n) == IF n = 0 THEN Genesis ELSE c[n]
Replayed(s, c) ==
    /\ Keeps(s.utxos, Included(c), ToSet(c))
    /\ s.next_height = Len(c) + 1 /\ s.tip = TipOf(c, Len(c))
    /\ \A n \in 1..Len(c) : c[n].height = n /\ c[n].previous = TipOf(c, n - 1)

LEMMA EmptyKeeps ==
  Keeps(EmptyUtxos, {}, {})
<1>1. CreatedBy({}, {}) = {} /\ SpentBy({}) = {}
  BY DEF CreatedBy, SpentBy
<1>2. NewOverlayReads(EmptyUtxos)
  BY NewOverlayIsBase
<1>3. /\ \A o : BaseGet(EmptyUtxos, o) = None
      /\ EmptyUtxos.active = {} /\ EmptyUtxos.retired = {} /\ Stored(EmptyUtxos)
  BY DEF EmptyUtxos, BaseGet, Stored
<1>4. Reads(NewOverlay(EmptyUtxos), {}, {})
  BY <1>2, <1>3 DEF Reads, NewOverlayReads, Open, Funded
<1>5. History({}, {})
  BY DEF History
<1>6. Solvent({}, {})
  BY DEF Solvent, Amounts
<1> QED
  BY <1>1, <1>3, <1>4, <1>5, <1>6 DEF Keeps, Tells, OnceEach

LEMMA ChainReplays ==
  ASSUME LedgerAssumption, NEW c, ChainOk(c)
  PROVE  Replayed(Rebuild(c), c)
<1> DEFINE n == Len(c)
           Ids(k) == UNION {ToSet(c[i].txids) : i \in 1..k}
           Blocks(k) == {c[i] : i \in 1..k}
<1>1. n \in Nat /\ DOMAIN c = 1..n /\ ToSet(c) = Blocks(n)
  BY DEF ChainOk, ToSet
<1>2. PICK f : ReplayRun(f, c)
  BY <1>1, RebuildUnfolds
<1>3. /\ f[0] = NewChainState /\ f[n] = Rebuild(c)
      /\ \A i \in 1..n : f[i] = Committed(f[i - 1], ValidateBlock(f[i - 1], c[i]))
  BY <1>2 DEF ReplayRun
<1> DEFINE Fits(k) == /\ Keeps(f[k].utxos, Ids(k), Blocks(k))
                      /\ f[k].next_height = k + 1 /\ f[k].tip = TipOf(c, k)
                      /\ \A i \in 1..k : c[i].height = i /\ c[i].previous = TipOf(c, i - 1)
           Good == {k \in Nat : Fits(k)}
<1>4. 0 \in Good
  <2>1. Ids(0) = {} /\ Blocks(0) = {}
    OBVIOUS
  <2>2. NewChainState.utxos = EmptyUtxos /\ NewChainState.next_height = 1 /\ NewChainState.tip = Genesis
    BY DEF NewChainState
  <2>3. /\ Keeps(f[0].utxos, Ids(0), Blocks(0))
        /\ f[0].next_height = 0 + 1 /\ f[0].tip = TipOf(c, 0)
    <3>1. Keeps(NewChainState.utxos, Ids(0), Blocks(0))
      <4> HIDE DEF Ids, Blocks
      <4> QED
        BY <2>1, <2>2, EmptyKeeps
    <3>2. NewChainState.next_height = 0 + 1 /\ NewChainState.tip = TipOf(c, 0)
      BY <2>2 DEF TipOf
    <3> HIDE DEF Ids, Blocks
    <3> QED
      BY <1>3, <3>1, <3>2
  <2>4. \A i \in 1..0 : c[i].height = i /\ c[i].previous = TipOf(c, i - 1)
    OBVIOUS
  <2> HIDE DEF Ids, Blocks
  <2> QED
    BY <2>3, <2>4
<1>5. ASSUME NEW k \in Nat, k < n, k \in Good
      PROVE  k + 1 \in Good
  <2> DEFINE b == c[k + 1]
             s == f[k]
  <2>1. k + 1 \in 1..n /\ (k + 1) - 1 = k /\ k + 1 # 0 /\ k \in 0..n
    BY <1>1, <1>5
  <2>2. f[k + 1] = Committed(s, ValidateBlock(s, b))
    BY <1>3, <2>1
  <2>3. s = Before(c, k + 1)
    <3> DEFINE d == SubSeq(c, 1, k)
    <3>1. Len(d) = k /\ \A i \in 1..Len(d) : d[i] = c[i]
      <4>1. c \in Seq(ToSet(c)) /\ k \in 0..Len(c)
        BY <2>1 DEF ChainOk
      <4> QED
        BY <4>1
    <3>2. f[Len(d)] = Rebuild(d)
      <4> HIDE DEF d
      <4> QED
        BY <1>1, <1>2, <1>5, <3>1, RebuildPrefix
    <3> QED
      BY <2>1, <3>1, <3>2 DEF Before
  <2>4. b.txids \in Seq(DOMAIN Tx) /\ ValidateBlock(s, b).ok
    BY <2>1, <2>3 DEF ChainOk
  <2>5. /\ Keeps(s.utxos, Ids(k), Blocks(k))
        /\ s.next_height = k + 1 /\ s.tip = TipOf(c, k)
        /\ \A i \in 1..k : c[i].height = i /\ c[i].previous = TipOf(c, i - 1)
    BY <1>5
  <2>6. 1..(k + 1) = (1..k) \union {k + 1}
    OBVIOUS
  <2>7. Ids(k + 1) = Ids(k) \union ToSet(b.txids) /\ Blocks(k + 1) = Blocks(k) \union {b}
    BY <2>6
  <2>8. b.height = k + 1 /\ b.previous = TipOf(c, k)
    <3>1. HeaderValid(s, b)
      BY <2>4 DEF ValidateBlock, NoToken
    <3> QED
      BY <2>5, <3>1 DEF HeaderValid
  <2>9. b \notin Blocks(k)
    <3> SUFFICES ASSUME NEW i \in 1..k, b = c[i] PROVE FALSE
      OBVIOUS
    <3> HIDE DEF b
    <3> QED
      BY <2>5, <2>8
  <2> DEFINE t == f[k + 1]
             s2 == Committed(s, ValidateBlock(s, b))
  <2>10. /\ Keeps(s2.utxos, Ids(k) \union ToSet(b.txids), Blocks(k) \union {b})
         /\ s2.tip = b /\ s2.next_height = s.next_height + 1
    <3> DEFINE I == Ids(k)
               B == Blocks(k)
    <3> HIDE DEF s, b, Ids, Blocks, s2
    <3>1. Fresh(s, I, B, b)
      <4>1. s.next_height \in Nat
        BY <2>5
      <4> QED
        BY <2>4, <2>5, <2>9, <4>1 DEF Fresh
    <3> HIDE DEF I, B
    <3>2. Extended(s, Committed(s, ValidateBlock(s, b)), I, B, b)
      BY <3>1, CommitKeeps, Zenon
    <3>3. Extended(s, s2, I, B, b)
      BY <3>2, Zenon DEF s2
    <3> QED
      BY <3>3 DEF I, B, Extended
  <2>11. t = s2
    BY <2>2
  <2>12. Keeps(t.utxos, Ids(k + 1), Blocks(k + 1)) /\ t.tip = b /\ t.next_height = (k + 1) + 1
    <3> HIDE DEF t, s2, s, b, Ids, Blocks
    <3> QED
      BY <2>5, <2>7, <2>10, <2>11
  <2>13. t.tip = TipOf(c, k + 1)
    BY <2>1, <2>12 DEF TipOf
  <2>14. \A i \in 1..(k + 1) : c[i].height = i /\ c[i].previous = TipOf(c, i - 1)
    <3> SUFFICES ASSUME NEW i \in 1..(k + 1) PROVE c[i].height = i /\ c[i].previous = TipOf(c, i - 1)
      OBVIOUS
    <3>1. CASE i \in 1..k
      BY <2>5, <3>1
    <3>2. CASE i = k + 1
      BY <2>1, <2>8, <3>2
    <3> QED
      BY <2>6, <3>1, <3>2
  <2> HIDE DEF Ids, Blocks
  <2> QED
    BY <2>12, <2>13, <2>14
<1>6. n \in Good
  <2> HIDE DEF Good
  <2>1. \A k \in 0..n : k \in Good
    BY <1>1, <1>4, <1>5, UpTo
  <2> QED
    BY <1>1, <2>1
<1>7. Included(c) = Ids(n)
  BY <1>1 DEF Included
<1> HIDE DEF Ids, Blocks
<1> QED
  BY <1>1, <1>3, <1>6, <1>7 DEF Replayed

(* A state tells the chain it was reached by: block ids hash their parent. *)
LEMMA TipTellsChain ==
  ASSUME LedgerAssumption, NEW c, NEW d, ChainOk(c), ChainOk(d),
         Rebuild(c).tip = Rebuild(d).tip
  PROVE  c = d
<1> DEFINE n == Len(c)
           m == Len(d)
<1>1. /\ TipOf(c, n) = TipOf(d, m)
      /\ \A i \in 1..n : c[i].height = i /\ c[i].previous = TipOf(c, i - 1)
      /\ \A i \in 1..m : d[i].height = i /\ d[i].previous = TipOf(d, i - 1)
  BY ChainReplays DEF Replayed
<1>2. c \in Seq(ToSet(c)) /\ d \in Seq(ToSet(d)) /\ n \in Nat /\ m \in Nat
  BY DEF ChainOk
<1>3. TipOf(c, n).height = n
  <2>1. n = 0 \/ n \in 1..n
    BY <1>2
  <2> QED
    BY <1>1, <2>1 DEF TipOf, Genesis
<1>4. TipOf(d, m).height = m
  <2>1. m = 0 \/ m \in 1..m
    BY <1>2
  <2> QED
    BY <1>1, <2>1 DEF TipOf, Genesis
<1>5. n = m
  BY <1>1, <1>3, <1>4
<1> DEFINE Good == {j \in Nat : j <= n => TipOf(c, n - j) = TipOf(d, n - j)}
<1>6. 0 \in Good
  BY <1>1, <1>2, <1>5
<1>7. ASSUME NEW j \in Nat, j < n, j \in Good
      PROVE  j + 1 \in Good
  <2>1. n - j \in 1..n /\ n - j # 0 /\ n - (j + 1) = (n - j) - 1 /\ j <= n
    BY <1>2, <1>7
  <2>2. c[n - j] = d[n - j]
    BY <1>7, <2>1 DEF TipOf
  <2>3. TipOf(c, (n - j) - 1) = c[n - j].previous /\ TipOf(d, (n - j) - 1) = d[n - j].previous
    BY <1>1, <1>5, <2>1
  <2>4. TipOf(c, (n - j) - 1) = TipOf(d, (n - j) - 1)
    BY <1>1, <1>5, <2>2, <2>3
  <2>5. TipOf(c, n - (j + 1)) = TipOf(d, n - (j + 1))
    BY <2>1, <2>4, Zenon
  <2> QED
    BY <2>5
<1>8. \A j \in 0..n : j \in Good
  <2> HIDE DEF Good
  <2> QED
    BY <1>2, <1>6, <1>7, UpTo
<1>9. ASSUME NEW i \in 1..n PROVE c[i] = d[i]
  <2>1. n - i \in 0..n /\ n - (n - i) = i /\ i # 0
    BY <1>2
  <2>2. TipOf(c, i) = TipOf(d, i)
    BY <1>2, <1>8, <2>1
  <2> QED
    BY <2>1, <2>2 DEF TipOf
<1>10. /\ c = [i \in 1..n |-> c[i]]
       /\ d = [i \in 1..m |-> d[i]]
  BY <1>2
<1> QED
  BY <1>5, <1>9, <1>10

LEMMA ChainGrows ==
  ASSUME NEW c, ChainOk(c), NEW b, b.txids \in Seq(DOMAIN Tx),
         ValidateBlock(Rebuild(c), b).ok
  PROVE  LET d == Append(c, b)
         IN  ChainOk(d) /\ Rebuild(d) = Committed(Rebuild(c), ValidateBlock(Rebuild(c), b))
<1> DEFINE d == Append(c, b)
           X == ToSet(c) \union {b}
           n == Len(c)
<1>1. c \in Seq(X) /\ b \in X /\ n \in Nat
  <2>1. c \in Seq(ToSet(c))
    BY DEF ChainOk
  <2> HIDE DEF X
  <2>2. ToSet(c) \subseteq X /\ b \in X
    BY DEF X
  <2> QED
    BY <2>1, <2>2
<1>2. Rebuild(d) = Committed(Rebuild(c), ValidateBlock(Rebuild(c), b))
  <2> HIDE DEF X
  <2> QED
    BY <1>1, RebuildAppend
<1>3. d \in Seq(X) /\ Len(d) = n + 1 /\ d[n + 1] = b /\ \A i \in 1..n : d[i] = c[i]
  <2> HIDE DEF X
  <2> QED
    BY <1>1
<1>4. d \in Seq(ToSet(d))
  <2> HIDE DEF d, X
  <2> QED
    BY <1>3 DEF ToSet
<1>5. ASSUME NEW i \in 1..(n + 1) PROVE Before(d, i) = Rebuild(SubSeq(c, 1, i - 1))
  <2>1. SubSeq(d, 1, i - 1) = SubSeq(c, 1, i - 1)
    <3> HIDE DEF d, X
    <3>1. /\ SubSeq(d, 1, i - 1) = [j \in 1..(i - 1) |-> d[j]]
          /\ SubSeq(c, 1, i - 1) = [j \in 1..(i - 1) |-> c[j]]
      BY <1>1, <1>3
    <3>2. \A j \in 1..(i - 1) : d[j] = c[j]
      BY <1>1, <1>3
    <3> QED
      BY <3>1, <3>2
  <2> QED
    BY <2>1 DEF Before
<1>6. SubSeq(c, 1, n) = c
  <2> HIDE DEF X
  <2> QED
    BY <1>1
<1>7. ASSUME NEW i \in 1..Len(d)
      PROVE  d[i].txids \in Seq(DOMAIN Tx) /\ ValidateBlock(Before(d, i), d[i]).ok
  <2> HIDE DEF d, X
  <2>1. i \in 1..n \/ i = n + 1
    BY <1>1, <1>3
  <2>2. CASE i \in 1..n
    <3>1. d[i] = c[i] /\ Before(d, i) = Before(c, i)
      BY <1>3, <1>5, <1>7, <2>2 DEF Before
    <3> QED
      BY <2>2, <3>1 DEF ChainOk
  <2>3. CASE i = n + 1
    <3>1. (n + 1) - 1 = n /\ n + 1 \in 1..(n + 1)
      BY <1>1
    <3>2. Before(d, i) = Rebuild(c) /\ d[i] = b
      BY <1>3, <1>5, <1>6, <2>3, <3>1
    <3> QED
      BY <3>2
  <2> QED
    BY <2>1, <2>2, <2>3, Zenon
<1> HIDE DEF d
<1> QED
  BY <1>2, <1>4, <1>7 DEF ChainOk, d

LEMMA ChainShrinks ==
  ASSUME NEW c, ChainOk(c), c # <<>>
  PROVE  ChainOk(Front(c)) /\ Last(c).txids \in Seq(DOMAIN Tx)
<1> DEFINE d == Front(c)
           n == Len(c)
<1>1. c \in Seq(ToSet(c)) /\ n \in Nat /\ n # 0 /\ n \in 1..n
  <2>1. c \in Seq(ToSet(c))
    BY DEF ChainOk
  <2> QED
    BY <2>1
<1>2. d = SubSeq(c, 1, n - 1) /\ Last(c) = c[n]
  BY DEF Front, Last
<1>3. /\ d \in Seq(ToSet(c)) /\ Len(d) = n - 1
      /\ \A i \in 1..(n - 1) : d[i] = c[i]
  <2> DEFINE X == ToSet(c)
             k == n - 1
  <2>1. c \in Seq(X) /\ k \in Nat /\ k <= Len(c)
    BY <1>1
  <2> HIDE DEF X, k
  <2>2. /\ SubSeq(c, 1, k) \in Seq(X) /\ Len(SubSeq(c, 1, k)) = k
        /\ \A i \in 1..k : SubSeq(c, 1, k)[i] = c[i]
    BY <2>1
  <2> QED
    BY <1>2, <2>2 DEF X, k
<1>4. d \in Seq(ToSet(d))
  <2> HIDE DEF d
  <2> QED
    BY <1>3 DEF ToSet
<1>5. ASSUME NEW i \in 1..(n - 1) PROVE Before(d, i) = Before(c, i)
  <2> HIDE DEF d
  <2>1. /\ SubSeq(d, 1, i - 1) = [j \in 1..(i - 1) |-> d[j]]
        /\ SubSeq(c, 1, i - 1) = [j \in 1..(i - 1) |-> c[j]]
    BY <1>1, <1>3
  <2>2. \A j \in 1..(i - 1) : d[j] = c[j]
    BY <1>1, <1>3
  <2>3. SubSeq(d, 1, i - 1) = SubSeq(c, 1, i - 1)
    BY <2>1, <2>2
  <2> QED
    BY <2>3 DEF Before
<1>6. ASSUME NEW i \in 1..Len(d)
      PROVE  d[i].txids \in Seq(DOMAIN Tx) /\ ValidateBlock(Before(d, i), d[i]).ok
  <2> HIDE DEF d
  <2>1. i \in 1..(n - 1) /\ i \in 1..n
    BY <1>1, <1>3
  <2> QED
    BY <1>3, <1>5, <2>1 DEF ChainOk
<1> HIDE DEF d
<1> QED
  BY <1>1, <1>2, <1>4, <1>6 DEF ChainOk, d
-----------------------------------------------------------------------------
(* The state is the replay of the chain, and a token was made for the      *)
(* replay of some valid chain, not necessarily of this one.                *)
TokenOk(t) ==
    t.ok => \E c : /\ ChainOk(c) /\ t.block.txids \in Seq(DOMAIN Tx)
                   /\ t = ValidateBlock(Rebuild(c), t.block)

IInv ==
    /\ ChainOk(chain) /\ state = Rebuild(chain)
    /\ body \in Seq(DOMAIN Tx) /\ TokenOk(token)

(* What a token that ValidateBlock made says of its state and block.       *)
LEMMA TokenTells ==
  ASSUME NEW s, NEW b, ValidateBlock(s, b).ok
  PROVE  LET t == ValidateBlock(s, b) IN t.block = b /\ t.base.tip = s.tip
<1>1. ValidateBlock(s, b) = Token(s, b, ValidateDelta(s.utxos, b)) /\ ValidateDelta(s.utxos, b).ok
  BY DEF ValidateBlock, NoToken, Token
<1> QED
  BY <1>1 DEF Token

LEMMA InitIInv ==
  ASSUME LedgerAssumption, Init
  PROVE  IInv
<1>1. ChainOk(<<>>)
  BY DEF ChainOk, ToSet
<1>2. Rebuild(<<>>) = NewChainState
  <2>1. Len(<<>>) = 0
    OBVIOUS
  <2>2. PICK f : ReplayRun(f, <<>>)
    BY <2>1, RebuildUnfolds
  <2> QED
    BY <2>1, <2>2 DEF ReplayRun
<1> QED
  BY <1>1, <1>2 DEF Init, IInv, TokenOk, NoToken

LEMMA NextIInv ==
  ASSUME LedgerAssumption, IInv, [Next]_vars
  PROVE  IInv'
<1>1. CASE \E t \in DOMAIN Tx : Choose(t)
  <2>1. PICK t \in DOMAIN Tx : Choose(t)
    BY <1>1
  <2>2. body' \in Seq(DOMAIN Tx)
    BY <2>1 DEF Choose, IInv
  <2> QED
    BY <2>1, <2>2 DEF Choose, IInv, TokenOk
<1>2. ASSUME NEW b, b.txids \in Seq(DOMAIN Tx), Validate(b)
      PROVE  IInv'
  <2>1. token' = ValidateBlock(state, b) /\ token'.ok
    BY <1>2 DEF Validate
  <2>2. token'.block = b
    BY <2>1, TokenTells
  <2>3. TokenOk(token')
    BY <1>2, <2>1, <2>2 DEF TokenOk, IInv
  <2>4. body' = <<>> /\ chain' = chain /\ state' = state
    BY <1>2 DEF Validate
  <2>5. <<>> \in Seq(DOMAIN Tx)
    OBVIOUS
  <2> QED
    BY <2>3, <2>4, <2>5 DEF IInv
<1>3. ASSUME NEW b, b.txids \in Seq(DOMAIN Tx), ValidateAndApply(b)
      PROVE  IInv'
  <2>1. /\ ValidateBlock(state, b).ok /\ state' = Committed(state, ValidateBlock(state, b))
        /\ chain' = Append(chain, b) /\ body' = body /\ token' = token
    BY <1>3 DEF ValidateAndApply
  <2>2. ChainOk(chain') /\ Rebuild(chain') = state'
    BY <1>3, <2>1, ChainGrows DEF IInv
  <2> QED
    BY <2>1, <2>2 DEF IInv
<1>4. CASE Grow
  <2>1. CASE \E b \in Candidates(state, body) : Validate(b)
    <3>1. \A b \in Candidates(state, body) : b.txids = body
      BY DEF Candidates
    <3> QED
      BY <1>2, <2>1, <3>1 DEF IInv
  <2>2. CASE token.ok /\ \E txids \in {<<>>, token.block.txids} :
                \E b \in Candidates(state, txids) : ValidateAndApply(b)
    <3>1. PICK txids \in {<<>>, token.block.txids} :
                 \E b \in Candidates(state, txids) : ValidateAndApply(b)
      BY <2>2
    <3>2. txids \in Seq(DOMAIN Tx)
      <4>1. token.block.txids \in Seq(DOMAIN Tx)
        BY <2>2 DEF IInv, TokenOk
      <4>2. <<>> \in Seq(DOMAIN Tx)
        OBVIOUS
      <4> QED
        BY <4>1, <4>2
    <3>3. \A b \in Candidates(state, txids) : b.txids = txids
      BY DEF Candidates
    <3> QED
      BY <1>3, <3>1, <3>2, <3>3
  <2> QED
    BY <1>4, <2>1, <2>2 DEF Grow
<1>5. CASE CommitValidated
  <2>1. TokenOk(token')
    BY <1>5 DEF CommitValidated, NoToken, TokenOk
  <2>2. CASE NotStale(state, token) /\ state' = Committed(state, token) /\ chain' = Append(chain, token.block)
    <3>1. PICK c : /\ ChainOk(c) /\ token.block.txids \in Seq(DOMAIN Tx)
                   /\ token = ValidateBlock(Rebuild(c), token.block)
      BY <1>5 DEF CommitValidated, IInv, TokenOk
    <3>2. token.base.tip = Rebuild(c).tip /\ token.ok
      <4>1. ValidateBlock(Rebuild(c), token.block).ok
        BY <1>5, <3>1 DEF CommitValidated
      <4> QED
        BY <3>1, <4>1, TokenTells
    <3>3. Rebuild(c).tip = Rebuild(chain).tip
      BY <2>2, <3>2 DEF NotStale, IInv
    <3>4. c = chain
      BY <3>1, <3>3, TipTellsChain DEF IInv
    <3>5. token = ValidateBlock(state, token.block) /\ ValidateBlock(state, token.block).ok
      BY <3>1, <3>2, <3>4 DEF IInv
    <3>6. ChainOk(chain') /\ Rebuild(chain') = state'
      BY <2>2, <3>1, <3>5, ChainGrows DEF IInv
    <3> QED
      BY <1>5, <2>1, <3>6 DEF CommitValidated, IInv
  <2>3. CASE UNCHANGED <<state, chain>>
    BY <1>5, <2>1, <2>3 DEF CommitValidated, IInv
  <2> QED
    BY <1>5, <2>2, <2>3 DEF CommitValidated
<1>6. CASE Replace
  <2> DEFINE parent == Rebuild(Front(chain))
  <2>1. ChainOk(Front(chain)) /\ Last(chain).txids \in Seq(DOMAIN Tx)
    BY <1>6, ChainShrinks DEF Replace, IInv
  <2>2. PICK txids \in {<<>>, Last(chain).txids} :
               \E b \in Candidates(parent, txids) : Reorganize(parent, b)
    BY <1>6 DEF Replace
  <2>3. txids \in Seq(DOMAIN Tx)
    <3>1. <<>> \in Seq(DOMAIN Tx)
      OBVIOUS
    <3> QED
      BY <2>1, <3>1
  <2>4. PICK b \in Candidates(parent, txids) : Reorganize(parent, b)
    BY <2>2
  <2>5. b.txids = txids
    BY DEF Candidates
  <2>6. /\ ValidateBlock(parent, b).ok /\ state' = Committed(parent, ValidateBlock(parent, b))
        /\ chain' = Append(Front(chain), b) /\ body' = body /\ token' = token
    BY <2>4 DEF Reorganize
  <2>7. ChainOk(chain') /\ Rebuild(chain') = state'
    BY <2>1, <2>3, <2>5, <2>6, ChainGrows
  <2> QED
    BY <2>6, <2>7 DEF IInv
<1>7. CASE UNCHANGED vars
  BY <1>7 DEF vars, IInv
<1> QED
  BY <1>1, <1>4, <1>5, <1>6, <1>7 DEF Next
-----------------------------------------------------------------------------
(* Every reachable state is the replay of a valid chain: commit_validated  *)
(* accepts a token exactly on the state it was made for, since only one    *)
(* chain leads to a tip.                                                   *)
THEOREM ReplayInvariant ==
  ASSUME LedgerAssumption
  PROVE  Spec => []IInv
<1>1. Init => IInv
  BY InitIInv
<1>2. IInv /\ [Next]_vars => IInv'
  BY NextIInv
<1> QED
  BY <1>1, <1>2, PTL DEF Spec

(* What the replay of a valid chain says of the committed UTXO set.        *)
LEMMA IInvReplays ==
  ASSUME LedgerAssumption, IInv
  PROVE  LedgerIsReplay
<1> DEFINE u == state.utxos
           S == SpentBy(Included(chain))
           C == Created
<1>1. Replayed(state, chain)
  BY ChainReplays DEF IInv
<1>2. Tells(NewOverlay(u), Included(chain), ToSet(chain)) /\ Stored(u)
  BY <1>1 DEF Replayed, Keeps
<1>3. Reads(NewOverlay(u), C, S) /\ History(C, S) /\ OnceEach(Included(chain))
  BY <1>2 DEF Tells, Created
<1>4. NewOverlayReads(u)
  BY NewOverlayIsBase
<1>5. /\ \A r \in C : r.at \notin S => BaseGet(u, r.at) = r.out
      /\ \A o : BaseGet(u, o) # None => o \notin S /\ \E r \in C : r.at = o
      /\ \A c : c \in u.active <=> Open(C, S, c)
      /\ \A c : c \in u.retired <=> Funded(C, c) /\ ~Open(C, S, c)
  <2> HIDE DEF C, S, u
  <2> QED
    BY <1>3, <1>4 DEF Reads, NewOverlayReads
<1>6. \A r \in C : r = Record(r.at, r.out) /\ r.out # None /\ WellLocked(r.out)
  BY <1>3 DEF History
<1> DEFINE unspent == {r \in C : r.at \notin S}
<1>7. {[at |-> o, out |-> u.outputs[o]] : o \in DOMAIN u.outputs} = unspent
  <2> HIDE DEF C, S, u
  <2>1. ASSUME NEW o \in DOMAIN u.outputs
        PROVE  [at |-> o, out |-> u.outputs[o]] \in unspent
    <3>1. BaseGet(u, o) = u.outputs[o] /\ u.outputs[o] # None
      BY <1>2 DEF BaseGet, Stored
    <3>2. PICK r \in C : r.at = o
      BY <1>5, <3>1
    <3>3. o \notin S /\ r.out = u.outputs[o]
      BY <1>5, <3>1, <3>2
    <3>4. r = [at |-> o, out |-> u.outputs[o]]
      BY <1>6, <3>2, <3>3 DEF Record
    <3> QED
      BY <3>2, <3>3, <3>4
  <2>2. ASSUME NEW r \in unspent
        PROVE  r \in {[at |-> o, out |-> u.outputs[o]] : o \in DOMAIN u.outputs}
    <3>1. BaseGet(u, r.at) = r.out /\ r.out # None /\ r = Record(r.at, r.out)
      BY <1>5, <1>6
    <3>2. r.at \in DOMAIN u.outputs /\ u.outputs[r.at] = r.out
      BY <3>1 DEF BaseGet
    <3> QED
      BY <3>1, <3>2 DEF Record
  <2> HIDE DEF unspent
  <2> QED
    BY <2>1, <2>2
<1>8. \A r \in C : \A c : r.out.lock = ChannelLock(c) <=> r.out.lock[1] = "channel" /\ r.out.lock[2] = c
  BY <1>6 DEF WellLocked, IsChannel, ChannelLock
<1>9. \A c : c \in ChannelsOf(unspent) <=> Open(C, S, c)
  <2> HIDE DEF C, S
  <2> QED
    BY <1>8 DEF ChannelsOf, Open
<1>10. \A c : c \in ChannelsOf(C) <=> Funded(C, c)
  <2> HIDE DEF C, S
  <2> QED
    BY <1>8 DEF ChannelsOf, Funded
<1>11. StateIsReplay
  <2>1. u.active = ChannelsOf(unspent)
    <3> HIDE DEF C, S, u, unspent
    <3> QED
      BY <1>5, <1>9
  <2>2. u.retired = ChannelsOf(C) \ u.active
    <3> HIDE DEF C, S, u, unspent
    <3> QED
      BY <1>5, <1>10
  <2> QED
    BY <1>7, <2>1, <2>2 DEF StateIsReplay
<1>12. SpentOnce
  <2>1. \A r, q \in C : r.out.lock[1] = "channel" /\ r.out.lock = q.out.lock => r.at = q.at
    <3> HIDE DEF C, S
    <3> QED
      BY <1>3 DEF History, IsChannel
  <2> QED
    BY <1>3, <2>1 DEF SpentOnce, OnceEach
<1>13. ChainLinked
  <2>1. chain \in Seq(ToSet(chain))
    BY DEF IInv, ChainOk
  <2>2. \A n \in 1..Len(chain) : chain[n].previous = TipOf(chain, n - 1)
    BY <1>1 DEF Replayed
  <2>3. DOMAIN chain = 1..Len(chain) /\ \A n \in 1..Len(chain) : n - 1 = 0 <=> n = 1
    BY <2>1
  <2> QED
    BY <2>2, <2>3 DEF ChainLinked, TipOf
<1> QED
  BY <1>11, <1>12, <1>13 DEF LedgerIsReplay

(* The committed UTXO set is what a plain reading of the active chain      *)
(* gives, through stale tokens, reorganizations and block-local deltas; no *)
(* output is spent and no channel funded twice.                            *)
THEOREM ReplayedLedger ==
  ASSUME LedgerAssumption
  PROVE  Spec => []LedgerIsReplay
<1>1. IInv => LedgerIsReplay
  BY IInvReplays
<1> QED
  BY <1>1, ReplayInvariant, PTL
-----------------------------------------------------------------------------
(***************************************************************************)
(* Value: coins and fees together are the subsidies.                       *)
(***************************************************************************)

(* Under a valid policy, which Init requires and nothing can change.       *)
PolicyInv == IInv /\ PolicyValid

LEMMA ToSetFinite ==
  ASSUME NEW s, Len(s) \in Nat, DOMAIN s = 1..Len(s)
  PROVE  IsFiniteSet(ToSet(s))
<1> DEFINE h == [i \in 1..Len(s) |-> s[i]]
           I == 1..Len(s)
           T == ToSet(s)
<1>1. IsFiniteSet(I)
  BY FS_Interval
<1>2. h \in Surjection(I, T)
  BY DEF Surjection, ToSet
<1> HIDE DEF h, I, T
<1>3. IsFiniteSet(T)
  BY <1>1, <1>2, FS_Surjection
<1> QED
  BY <1>3 DEF T

(* The outputs that one transaction or coinbase creates.                   *)
LEMMA OutputsWorth ==
  ASSUME NEW id, NEW outputs, Len(outputs) \in Nat, DOMAIN outputs = 1..Len(outputs),
         \A i \in DOMAIN outputs : outputs[i].value \in Nat,
         NEW f, \A r \in OutputsOf(id, outputs) : f[r] = r.out.value
  PROVE  /\ IsFiniteSet(OutputsOf(id, outputs))
         /\ SumOver(f, OutputsOf(id, outputs)) = ListWorth(outputs)
<1> DEFINE n == Len(outputs)
           I == 1..n
           h == [i \in I |-> [at |-> <<id, i - 1>>, out |-> outputs[i]]]
           v == [i \in I |-> outputs[i].value]
<1>1. OutputsOf(id, outputs) = {h[i] : i \in I}
  BY DEF OutputsOf
<1>2. \A i, j \in I : h[i] = h[j] => i = j
  <2> SUFFICES ASSUME NEW i \in I, NEW j \in I, h[i] = h[j] PROVE i = j
    OBVIOUS
  <2>1. h[i].at = <<id, i - 1>> /\ h[j].at = <<id, j - 1>>
    OBVIOUS
  <2>2. i - 1 = j - 1
    <3> HIDE DEF h
    <3> QED
      BY <2>1
  <2> QED
    BY <2>2
<1>3. \A i \in I : v[i] \in Nat /\ v[i] = outputs[i].value /\ h[i].out = outputs[i]
  OBVIOUS
<1>4. IsFiniteSet(I)
  BY FS_Interval
<1>5. ListWorth(outputs) = SumOver(v, I)
  BY OutputsAdd
<1> HIDE DEF h, v, I
<1>6. \A i \in I : v[i] \in Nat /\ f[h[i]] = v[i]
  BY <1>1, <1>3
<1>7. IsFiniteSet(ImageOf(h, I)) /\ SumOver(f, ImageOf(h, I)) = SumOver(v, I)
  BY <1>2, <1>4, <1>6, SumImage
<1> QED
  BY <1>1, <1>5, <1>7 DEF ImageOf

(* A block's overlay is one, whatever its transactions do.                 *)
LEMMA ApplyAllFollows ==
  ASSUME LedgerAssumption, NEW u, NEW txids \in Seq(DOMAIN Tx), NEW height
  PROVE  IsOverlay(ApplyAll(u, txids, height))
<1>1. Len(txids) \in Nat /\ \A i \in 1..Len(txids) : txids[i] \in DOMAIN Tx
  OBVIOUS
<1>2. PICK f : ApplyRun(f, u, txids, height)
  BY <1>1, ApplyUnfolds
<1>3. /\ f[0] = NewOverlay(u) /\ f[Len(txids)] = ApplyAll(u, txids, height)
      /\ \A i \in 1..Len(txids) : f[i] = ApplyTransaction(f[i - 1], txids[i], height)
  BY <1>2 DEF ApplyRun
<1>4. IsOverlay(f[0])
  BY <1>3 DEF NewOverlay, IsOverlay
<1>5. ASSUME NEW i \in 1..Len(txids), IsOverlay(f[i - 1])
      PROVE  Follows(f[i - 1], f[i])
  <2>1. txids[i] \in DOMAIN Tx /\ f[i] = ApplyTransaction(f[i - 1], txids[i], height)
    BY <1>1, <1>3
  <2> DEFINE t == txids[i]
             ov == f[i - 1]
  <2>2. t \in DOMAIN Tx /\ IsOverlay(ov) /\ f[i] = ApplyTransaction(ov, t, height)
    BY <1>5, <2>1
  <2> HIDE DEF t, ov
  <2>3. Follows(ov, f[i])
    BY <2>2, ApplyFollows
  <2> QED
    BY <2>3 DEF ov
<1>6. \A k \in 0..Len(txids) : Follows(f[0], f[k])
  BY <1>1, <1>4, <1>5, RunFollows
<1>7. Len(txids) \in 0..Len(txids)
  BY <1>1
<1> QED
  BY <1>3, <1>6, <1>7 DEF Follows

(* Every block of a valid chain pays the subsidy of its height.            *)
LEMMA ChainPays ==
  ASSUME LedgerAssumption, PolicyValid, NEW c, ChainOk(c), NEW i \in 1..Len(c),
         c[i].height = i
  PROVE  /\ Len(c[i].coinbase) \in Nat /\ DOMAIN c[i].coinbase = 1..Len(c[i].coinbase)
         /\ \A j \in DOMAIN c[i].coinbase : c[i].coinbase[j].value \in Nat
         /\ ListWorth(c[i].coinbase) = Subsidy(i)
<1> DEFINE b == c[i]
           s == Before(c, i)
           ov == ApplyAll(s.utxos, b.txids, b.height)
<1>1. b.txids \in Seq(DOMAIN Tx) /\ ValidateBlock(s, b).ok
  BY DEF ChainOk
<1>2. i \in Nat /\ b.height = i
  BY DEF ChainOk
<1> HIDE DEF s, b
<1>3. ValidateDelta(s.utxos, b).ok
  BY <1>1 DEF ValidateBlock, Token, NoToken
<1>4. InsertCoinbase(ov, b).ok
  <2>1. IsOverlay(NewOverlay(s.utxos))
    BY DEF NewOverlay, IsOverlay
  <2>2. ~Failed(NewOverlay(s.utxos)).ok
    BY <2>1, FailedFails
  <2> QED
    BY <1>3, <2>2 DEF ValidateDelta
<1>5. IsOverlay(ov)
  BY <1>1, ApplyAllFollows
<1> HIDE DEF ov
<1>6. ValidateCoinbase(b, Allocation(b.height, ov.fees))
  <2>1. ~Failed(ov).ok
    BY <1>5, FailedFails
  <2> QED
    BY <1>4, <2>1 DEF InsertCoinbase
<1>7. PICK fees, miner : b.coinbase = Coinbase(i, Allocation(i, fees), miner)
  BY <1>2, <1>6 DEF ValidateCoinbase
<1>8. IsOutputs(b.coinbase)
  BY <1>7, CoinbaseIsOutputs
<1>9. /\ \A j \in DOMAIN b.coinbase : b.coinbase[j].value \in Nat
      /\ ListWorth(b.coinbase) = Subsidy(i)
  BY <1>2, <1>7, CoinbaseWorth
<1> QED
  BY <1>8, <1>9 DEF IsOutputs, b

LEMMA TotalIsSum ==
  ASSUME NEW f, NEW S PROVE TotalOf(f, S) = SumOver(f, S)
  BY DEF TotalOf, SumOver

(* What is created is created by distinct transactions and coinbases, so   *)
(* its worth is what they leave and pay.                                   *)
LEMMA CreatedWorth ==
  ASSUME LedgerAssumption, NEW I \in SUBSET DOMAIN Tx, IsFiniteSet(I), NEW B, IsFiniteSet(B),
         \A b \in B : /\ Len(b.coinbase) \in Nat /\ DOMAIN b.coinbase = 1..Len(b.coinbase)
                      /\ \A j \in DOMAIN b.coinbase : b.coinbase[j].value \in Nat
  PROVE  LET C == CreatedBy(I, B)
         IN  /\ IsFiniteSet(C)
             /\ SumOver(WorthOf(C), C)
                  = SumOver([t \in I |-> ListWorth(Tx[t].outputs)], I)
                    + SumOver([b \in B |-> ListWorth(b.coinbase)], B)
<1> DEFINE C == CreatedBy(I, B)
           f == WorthOf(C)
           left == [t \in I |-> OutputsOf(OfTransaction(t), Tx[t].outputs)]
           paid == [b \in B |-> OutputsOf(OfCoinbase(b), b.coinbase)]
           p == [t \in I |-> ListWorth(Tx[t].outputs)]
           q == [b \in B |-> ListWorth(b.coinbase)]
<1>1. C = Family(left, I) \cup Family(paid, B)
  BY DEF CreatedBy, Family
<1>2. \A r \in C : f[r] = r.out.value
  BY DEF WorthOf
<1> HIDE DEF f, C
<1>3. ASSUME NEW t \in I
      PROVE  /\ IsFiniteSet(left[t]) /\ SumOver(f, left[t]) = p[t]
             /\ \A r \in left[t] : f[r] \in Nat
  <2> DEFINE outs == Tx[t].outputs
             id == OfTransaction(t)
             D == OutputsOf(id, outs)
  <2>1. Len(outs) \in Nat /\ DOMAIN outs = 1..Len(outs)
    BY TransactionShape DEF IsOutputs
  <2>2. \A i \in DOMAIN outs : outs[i].value \in Nat
    BY LeavesNat
  <2>3. left[t] = D /\ p[t] = ListWorth(outs)
    OBVIOUS
  <2>4. left[t] \subseteq C
    BY <1>1 DEF Family
  <2> HIDE DEF left, p, outs, id
  <2>5. \A r \in D : f[r] = r.out.value /\ r.out.value \in Nat
    BY <1>2, <2>2, <2>3, <2>4 DEF OutputsOf
  <2>6. IsFiniteSet(D) /\ SumOver(f, D) = ListWorth(outs)
    BY <2>1, <2>2, <2>5, OutputsWorth
  <2> HIDE DEF D
  <2> QED
    BY <2>3, <2>5, <2>6
<1>4. ASSUME NEW b \in B
      PROVE  /\ IsFiniteSet(paid[b]) /\ SumOver(f, paid[b]) = q[b]
             /\ \A r \in paid[b] : f[r] \in Nat
  <2> DEFINE outs == b.coinbase
             id == OfCoinbase(b)
             D == OutputsOf(id, outs)
  <2>1. Len(outs) \in Nat /\ DOMAIN outs = 1..Len(outs)
        /\ \A i \in DOMAIN outs : outs[i].value \in Nat
    OBVIOUS
  <2>2. paid[b] = D /\ q[b] = ListWorth(outs)
    OBVIOUS
  <2>3. paid[b] \subseteq C
    BY <1>1 DEF Family
  <2> HIDE DEF paid, q, outs, id
  <2>4. \A r \in D : f[r] = r.out.value /\ r.out.value \in Nat
    BY <1>2, <2>1, <2>2, <2>3 DEF OutputsOf
  <2>5. IsFiniteSet(D) /\ SumOver(f, D) = ListWorth(outs)
    BY <2>1, <2>4, OutputsWorth
  <2> HIDE DEF D
  <2> QED
    BY <2>2, <2>4, <2>5
<1>5. /\ \A t \in I : \A r \in left[t] : \E j : r.at = <<OfTransaction(t), j>>
      /\ \A b \in B : \A r \in paid[b] : \E j : r.at = <<OfCoinbase(b), j>>
  BY DEF OutputsOf
<1>6. /\ \A t, b : OfTransaction(t) # OfCoinbase(b)
      /\ \A t, o : OfTransaction(t) = OfTransaction(o) => t = o
      /\ \A b, d : OfCoinbase(b) = OfCoinbase(d) => b = d
      /\ \A x, y, i, j : <<x, i>> = <<y, j>> => x = y
  BY DEF OfTransaction, OfCoinbase
<1> HIDE DEF left, paid
<1>7. /\ \A t, o \in I : t # o => left[t] \cap left[o] = {}
      /\ \A b, d \in B : b # d => paid[b] \cap paid[d] = {}
      /\ \A t \in I : \A b \in B : left[t] \cap paid[b] = {}
  BY <1>5, <1>6
<1>8. /\ IsFiniteSet(Family(left, I))
      /\ SumOver(f, Family(left, I)) = SumOver([t \in I |-> SumOver(f, left[t])], I)
  BY <1>3, <1>7, SumFamily
<1>9. /\ IsFiniteSet(Family(paid, B))
      /\ SumOver(f, Family(paid, B)) = SumOver([b \in B |-> SumOver(f, paid[b])], B)
  BY <1>4, <1>7, SumFamily
<1>10. [t \in I |-> SumOver(f, left[t])] = p
  BY <1>3
<1>11. [b \in B |-> SumOver(f, paid[b])] = q
  BY <1>4
<1>12. /\ Family(left, I) \cap Family(paid, B) = {}
       /\ \A r \in Family(left, I) \cup Family(paid, B) : f[r] \in Nat
  BY <1>3, <1>4, <1>7 DEF Family
<1> HIDE DEF p, q
<1>13. SumOver(f, Family(left, I) \cup Family(paid, B))
         = SumOver(f, Family(left, I)) + SumOver(f, Family(paid, B))
  BY <1>8, <1>9, <1>12, SumDisjoint
<1>14. IsFiniteSet(C)
  BY <1>1, <1>8, <1>9, FS_Union
<1>15. SumOver(f, C) = SumOver(p, I) + SumOver(q, B)
  BY <1>1, <1>8, <1>9, <1>10, <1>11, <1>13, Zenon
<1> QED
  BY <1>14, <1>15 DEF C, f, p, q

(* What is spent is spent by distinct transactions.                        *)
LEMMA SpentWorth ==
  ASSUME NEW I, IsFiniteSet(I), OnceEach(I), NEW C, Amounts(C), \A t \in I : Pays(C, t)
  PROVE  LET spent == {r \in C : r.at \in SpentBy(I)}
         IN  /\ IsFiniteSet(spent)
             /\ SumOver(WorthOf(C), spent)
                  = SumOver([t \in I |-> SumOver(WorthOf(C), SpentIn(C, t))], I)
<1> DEFINE f == WorthOf(C)
           A == [t \in I |-> SpentIn(C, t)]
           spent == {r \in C : r.at \in SpentBy(I)}
<1>1. Family(A, I) = spent
  BY DEF Family, SpentIn, SpentBy
<1>2. \A t \in I : IsFiniteSet(A[t]) /\ \A r \in A[t] : f[r] \in Nat
  BY DEF Pays, SpentIn, WorthOf, Amounts
<1>3. \A t, o \in I : t # o => A[t] \cap A[o] = {}
  BY DEF OnceEach, SpentIn
<1>4. [t \in I |-> SumOver(f, A[t])] = [t \in I |-> SumOver(f, SpentIn(C, t))]
  OBVIOUS
<1> HIDE DEF f, A, spent
<1>5. /\ IsFiniteSet(Family(A, I))
      /\ SumOver(f, Family(A, I)) = SumOver([t \in I |-> SumOver(f, A[t])], I)
  BY <1>2, <1>3, SumFamily
<1> QED
  BY <1>1, <1>4, <1>5 DEF f, spent

LEMMA IncludedFinite ==
  ASSUME NEW c, ChainOk(c)
  PROVE  IsFiniteSet(Included(c)) /\ IsFiniteSet(ToSet(c))
<1> DEFINE J == 1..Len(c)
           h == [i \in J |-> ToSet(c[i].txids)]
           F == {ToSet(c[i].txids) : i \in J}
<1>1. Len(c) \in Nat /\ DOMAIN c = J /\ \A i \in J : c[i].txids \in Seq(DOMAIN Tx)
  BY DEF ChainOk
<1>2. IsFiniteSet(J)
  BY <1>1, FS_Interval
<1>3. \A i \in J : IsFiniteSet(ToSet(c[i].txids))
  <2> TAKE i \in J
  <2> DEFINE s == c[i].txids
  <2>1. s \in Seq(DOMAIN Tx)
    BY <1>1
  <2> HIDE DEF s
  <2>2. Len(s) \in Nat /\ DOMAIN s = 1..Len(s)
    BY <2>1
  <2>3. IsFiniteSet(ToSet(s))
    BY <2>2, ToSetFinite
  <2> QED
    BY <2>3 DEF s
<1>4. h \in Surjection(J, F)
  BY DEF Surjection
<1>5. Included(c) = UNION F
  BY <1>1 DEF Included
<1>6. IsFiniteSet(ToSet(c))
  BY <1>1, ToSetFinite
<1>7. \A T \in F : IsFiniteSet(T)
  BY <1>3
<1> HIDE DEF h, J, F
<1>8. IsFiniteSet(F)
  BY <1>2, <1>4, FS_Surjection
<1>9. IsFiniteSet(UNION F)
  BY <1>7, <1>8, FS_UNION
<1> QED
  BY <1>5, <1>6, <1>9

(* Block by block, a chain issues the scheduled subsidies.                 *)
LEMMA IssuedWorth ==
  ASSUME LedgerAssumption, PolicyValid, NEW c, ChainOk(c),
         \A i \in 1..Len(c) : c[i].height = i
  PROVE  SumOver([b \in ToSet(c) |-> ListWorth(b.coinbase)], ToSet(c))
           = SumOver([i \in 1..Len(c) |-> Subsidy(i)], 1..Len(c))
<1> DEFINE J == 1..Len(c)
           e == [b \in ToSet(c) |-> ListWorth(b.coinbase)]
           f == [i \in J |-> Subsidy(i)]
<1>1. Len(c) \in Nat /\ DOMAIN c = J
  BY DEF ChainOk
<1>2. IsFiniteSet(J)
  BY <1>1, FS_Interval
<1>3. ToSet(c) = ImageOf(c, J)
  BY <1>1 DEF ToSet, ImageOf
<1>4. ASSUME NEW i \in J PROVE f[i] \in Nat /\ e[c[i]] = f[i]
  <2>1. ListWorth(c[i].coinbase) = Subsidy(i)
    BY ChainPays
  <2>2. i \in Nat /\ i >= 1
    BY <1>1
  <2>3. Subsidy(i) \in Nat
    BY <2>2, SubsidyNat
  <2>4. c[i] \in ToSet(c)
    BY <1>3 DEF ImageOf
  <2> QED
    BY <2>1, <2>3, <2>4
<1>5. \A i, j \in J : c[i] = c[j] => i = j
  OBVIOUS
<1> HIDE DEF J, e, f
<1>6. SumOver(e, ImageOf(c, J)) = SumOver(f, J)
  BY <1>2, <1>4, <1>5, SumImage
<1> QED
  BY <1>3, <1>6 DEF J, e, f

(* The coins of a UTXO set are what its records are worth.                 *)
LEMMA CoinsWorth ==
  ASSUME NEW outputs, NEW unspent, IsFiniteSet(unspent), NEW f,
         unspent = {[at |-> o, out |-> outputs[o]] : o \in DOMAIN outputs},
         \A r \in unspent : f[r] = r.out.value /\ r.out.value \in Nat
  PROVE  SumOver([o \in DOMAIN outputs |-> outputs[o].value], DOMAIN outputs)
           = SumOver(f, unspent)
<1> DEFINE e == [o \in DOMAIN outputs |-> outputs[o].value]
           h == [r \in unspent |-> r.at]
<1>1. \A r \in unspent : /\ r.at \in DOMAIN outputs /\ r.out = outputs[r.at]
                         /\ r = [at |-> r.at, out |-> outputs[r.at]]
  OBVIOUS
<1>2. \A r \in unspent : f[r] \in Nat /\ e[h[r]] = f[r]
  BY <1>1
<1>3. \A r, q \in unspent : h[r] = h[q] => r = q
  BY <1>1
<1>4. ImageOf(h, unspent) = DOMAIN outputs
  <2>1. \A o \in DOMAIN outputs : \E r \in unspent : h[r] = o
    <3> TAKE o \in DOMAIN outputs
    <3> DEFINE r == [at |-> o, out |-> outputs[o]]
    <3>1. r \in unspent /\ h[r] = o
      OBVIOUS
    <3> QED
      BY <3>1
  <2>2. \A r \in unspent : h[r] \in DOMAIN outputs
    BY <1>1
  <2> HIDE DEF h
  <2> QED
    BY <2>1, <2>2 DEF ImageOf
<1> HIDE DEF e, h
<1>5. SumOver(e, ImageOf(h, unspent)) = SumOver(f, unspent)
  BY <1>2, <1>3, SumImage
<1> QED
  BY <1>4, <1>5 DEF e

(* What transactions take is what they leave and what they burn.           *)
LEMMA FeesWorth ==
  ASSUME NEW I, IsFiniteSet(I), NEW C, \A t \in I : Pays(C, t), Amounts(C)
  PROVE  LET left == [t \in I |-> ListWorth(Tx[t].outputs)]
             took == [t \in I |-> SumOver(WorthOf(C), SpentIn(C, t))]
             fees == [t \in I |-> FeePaid(C, t)]
         IN  /\ \A t \in I : fees[t] \in Nat
             /\ SumOver(took, I) = SumOver(left, I) + SumOver(fees, I)
<1> DEFINE left == [t \in I |-> ListWorth(Tx[t].outputs)]
           took == [t \in I |-> SumOver(WorthOf(C), SpentIn(C, t))]
           fees == [t \in I |-> FeePaid(C, t)]
<1>1. ASSUME NEW t \in I
      PROVE  left[t] \in Nat /\ fees[t] \in Nat /\ took[t] = left[t] + fees[t]
  <2> DEFINE a == SumOver(WorthOf(C), SpentIn(C, t))
             l == ListWorth(Tx[t].outputs)
  <2>1. IsFiniteSet(SpentIn(C, t)) /\ l \in Nat /\ l <= a
    BY DEF Pays
  <2>2. a \in Nat
    <3> DEFINE D == SpentIn(C, t)
               f == WorthOf(C)
    <3>1. IsFiniteSet(D) /\ \A r \in D : f[r] \in Nat
      BY <2>1 DEF SpentIn, WorthOf, Amounts
    <3> HIDE DEF D, f
    <3>2. SumOver(f, D) \in Nat
      BY <3>1, SumNat
    <3> QED
      BY <3>2 DEF D, f
  <2>3. SpentValue(C, t) = a
    <3>1. SpentValue(C, t) = TotalOf(WorthOf(C), SpentIn(C, t))
      BY DEF SpentValue, WorthOf, SpentIn
    <3> QED
      BY <3>1, TotalIsSum
  <2>4. FeePaid(C, t) = a - l
    BY <2>3 DEF FeePaid, ListWorth
  <2>5. left[t] = l /\ fees[t] = FeePaid(C, t) /\ took[t] = a
    OBVIOUS
  <2> HIDE DEF a, l, left, fees, took
  <2> QED
    BY <2>1, <2>2, <2>4, <2>5
<1> HIDE DEF left, fees, took
<1>2. SumOver(took, I) = SumOver(left, I) + SumOver(fees, I)
  BY <1>1, SumPlus
<1> QED
  BY <1>1, <1>2 DEF left, fees, took

LEMMA IInvConserves ==
  ASSUME LedgerAssumption, PolicyValid, IInv
  PROVE  ValueConserved
<1> DEFINE I == Included(chain)
           B == ToSet(chain)
           C == Created
           S == SpentBy(I)
           f == WorthOf(C)
           spent == {r \in C : r.at \in S}
           unspent == {r \in C : r.at \notin S}
           outputs == state.utxos.outputs
           left == [t \in I |-> ListWorth(Tx[t].outputs)]
           took == [t \in I |-> SumOver(f, SpentIn(C, t))]
           fees == [t \in I |-> FeePaid(C, t)]
           paid == [b \in B |-> ListWorth(b.coinbase)]
           issued == [i \in 1..Len(chain) |-> Subsidy(i)]
           coins == [o \in DOMAIN outputs |-> outputs[o].value]
<1>1. Replayed(state, chain) /\ ChainOk(chain)
  BY ChainReplays DEF IInv
<1>2. /\ I \in SUBSET DOMAIN Tx /\ OnceEach(I)
      /\ Amounts(C) /\ \A t \in I : Pays(C, t)
  BY <1>1 DEF Replayed, Keeps, Tells, Solvent, Created
<1>3. \A i \in 1..Len(chain) : chain[i].height = i
  BY <1>1 DEF Replayed
<1>4. IsFiniteSet(I) /\ IsFiniteSet(B)
  BY <1>1, IncludedFinite
<1>5. C = CreatedBy(I, B)
  BY DEF Created
<1>6. \A b \in B : /\ Len(b.coinbase) \in Nat /\ DOMAIN b.coinbase = 1..Len(b.coinbase)
                   /\ \A j \in DOMAIN b.coinbase : b.coinbase[j].value \in Nat
  <2> TAKE b \in B
  <2>1. PICK i \in 1..Len(chain) : b = chain[i]
    BY <1>1 DEF ToSet, ChainOk
  <2> QED
    BY <1>1, <1>3, <2>1, ChainPays
<1>7. {[at |-> o, out |-> outputs[o]] : o \in DOMAIN outputs} = unspent
  BY IInvReplays DEF LedgerIsReplay, StateIsReplay
<1> HIDE DEF I, B, C, S
<1>8. IsFiniteSet(C) /\ SumOver(f, C) = SumOver(left, I) + SumOver(paid, B)
  <2> HIDE DEF left, paid, f
  <2>1. IsFiniteSet(CreatedBy(I, B))
        /\ SumOver(WorthOf(CreatedBy(I, B)), CreatedBy(I, B))
             = SumOver([t \in I |-> ListWorth(Tx[t].outputs)], I)
               + SumOver([b \in B |-> ListWorth(b.coinbase)], B)
    BY <1>2, <1>4, <1>6, CreatedWorth
  <2> QED
    BY <1>5, <2>1 DEF left, paid, f
<1>9. IsFiniteSet(spent) /\ SumOver(f, spent) = SumOver(took, I)
  <2>1. IsFiniteSet({r \in C : r.at \in SpentBy(I)})
        /\ SumOver(WorthOf(C), {r \in C : r.at \in SpentBy(I)})
             = SumOver([t \in I |-> SumOver(WorthOf(C), SpentIn(C, t))], I)
    BY <1>2, <1>4, SpentWorth
  <2> QED
    BY <2>1 DEF S
<1>10. /\ \A t \in I : fees[t] \in Nat
       /\ SumOver(took, I) = SumOver(left, I) + SumOver(fees, I)
  BY <1>2, <1>4, FeesWorth
<1>11. SumOver(paid, B) = SumOver(issued, 1..Len(chain))
  BY <1>1, <1>3, IssuedWorth DEF B
<1>12. \A r \in C : f[r] = r.out.value /\ r.out.value \in Nat
  BY <1>2 DEF WorthOf, Amounts
<1>13. IsFiniteSet(unspent) /\ spent \cap unspent = {} /\ spent \cup unspent = C
  BY <1>8, FS_Subset
<1>14. SumOver(f, C) = SumOver(f, spent) + SumOver(f, unspent)
  <2>1. \A r \in spent \cup unspent : f[r] \in Nat
    BY <1>12, <1>13
  <2> HIDE DEF f, spent, unspent
  <2>2. SumOver(f, spent \cup unspent) = SumOver(f, spent) + SumOver(f, unspent)
    BY <1>9, <1>13, <2>1, SumDisjoint
  <2> QED
    BY <1>13, <2>2
<1>15. SumOver(coins, DOMAIN coins) = SumOver(f, unspent)
  <2>1. \A r \in unspent : f[r] = r.out.value /\ r.out.value \in Nat
    BY <1>12
  <2>2. DOMAIN coins = DOMAIN outputs
    OBVIOUS
  <2> HIDE DEF f, unspent, outputs
  <2>3. SumOver([o \in DOMAIN outputs |-> outputs[o].value], DOMAIN outputs)
          = SumOver(f, unspent)
    BY <1>7, <1>13, <2>1, CoinsWorth
  <2> QED
    BY <2>2, <2>3
<1>16. \A t \in I : left[t] \in Nat
  BY <1>2 DEF Pays
<1>17. /\ DOMAIN fees = I /\ DOMAIN issued = 1..Len(chain)
  OBVIOUS
<1>18. ValueConserved <=> /\ \A t \in I : fees[t] >= 0
                          /\ TotalOf(coins, DOMAIN coins) + TotalOf(fees, DOMAIN fees)
                               = TotalOf(issued, DOMAIN issued)
  BY DEF ValueConserved, I, C
<1> HIDE DEF f, spent, unspent, outputs, left, took, fees, paid, issued, coins
<1>19. SumOver(left, I) \in Nat /\ SumOver(fees, I) \in Nat
  BY <1>4, <1>10, <1>16, SumNat
<1>20. SumOver(f, unspent) \in Nat /\ SumOver(paid, B) \in Nat
  <2>1. SumOver(f, unspent) \in Nat
    BY <1>12, <1>13, SumNat
  <2>2. \A i \in 1..Len(chain) : issued[i] \in Nat
    <3> TAKE i \in 1..Len(chain)
    <3>1. i \in Nat
      BY <1>1 DEF ChainOk
    <3>2. Subsidy(i) \in Nat
      BY <3>1, SubsidyNat
    <3> QED
      BY <3>2 DEF issued
  <2>3. IsFiniteSet(1..Len(chain))
    BY <1>1, FS_Interval DEF ChainOk
  <2> QED
    BY <1>11, <2>1, <2>2, <2>3, SumNat
<1>21. SumOver(f, unspent) + SumOver(fees, I) = SumOver(paid, B)
  BY <1>8, <1>9, <1>10, <1>14, <1>19, <1>20
<1>22. \A t \in I : fees[t] >= 0
  BY <1>10
<1>23. TotalOf(coins, DOMAIN coins) + TotalOf(fees, DOMAIN fees)
         = TotalOf(issued, DOMAIN issued)
  <2>1. /\ TotalOf(coins, DOMAIN coins) = SumOver(f, unspent)
        /\ TotalOf(fees, DOMAIN fees) = SumOver(fees, I)
        /\ TotalOf(issued, DOMAIN issued) = SumOver(paid, B)
    BY <1>11, <1>15, <1>17, TotalIsSum
  <2> QED
    BY <1>21, <2>1
<1> QED
  BY <1>18, <1>22, <1>23
-----------------------------------------------------------------------------
(***************************************************************************)
(* Supply: the closed form of the declining phase.                         *)
(***************************************************************************)

(* g divides both and is a combination of both.                            *)
IsGcd(g, l, r) ==
    \E s, n \in Nat : \E x, y \in Int : l = g * s /\ r = g * n /\ g = l * x + r * y

(* Division with remainder.                                                 *)
LEMMA QuotientIs ==
  ASSUME NEW d \in Nat \ {0}, NEW k \in Int, NEW r \in 0..(d - 1)
  PROVE  (d * k + r) \div d = k /\ (d * k + r) % d = r
<1> DEFINE a == d * k + r
           q == a \div d
           m == a % d
<1>1. a \in Int /\ q \in Int /\ m \in 0..(d - 1) /\ a = d * q + m
  OBVIOUS
<1>2. d * q + m = d * k + r
  BY <1>1
<1> HIDE DEF q, m, a
<1>3. q = k
  <2>1. CASE q < k
    <3>1. d * (k - q) >= d
      BY <1>1, <2>1
    <3>2. d * (k - q) = d * k - d * q
      BY <1>1
    <3> QED
      BY <1>1, <1>2, <3>1, <3>2
  <2>2. CASE q > k
    <3>1. d * (q - k) >= d
      BY <1>1, <2>2
    <3>2. d * (q - k) = d * q - d * k
      BY <1>1
    <3> QED
      BY <1>1, <1>2, <3>1, <3>2
  <2> QED
    BY <1>1, <2>1, <2>2
<1>4. m = r
  BY <1>1, <1>2, <1>3
<1> QED
  BY <1>3, <1>4 DEF q, m, a

LEMMA DividedBy ==
  ASSUME NEW a \in Nat, NEW d \in Nat \ {0}
  PROVE  /\ a \div d \in Nat /\ a % d \in 0..(d - 1)
         /\ a = d * (a \div d) + (a % d)
OBVIOUS

(* The common divisor of Euclid's next step is that of this one.            *)
LEMMA GcdStep ==
  ASSUME NEW g \in Nat, NEW l \in Nat, NEW r \in Nat \ {0}, IsGcd(g, r, l % r)
  PROVE  IsGcd(g, l, r)
<1> DEFINE q == l \div r
           m == l % r
<1>1. q \in Nat /\ m \in Nat /\ l = r * q + m
  <2>1. q \in Nat /\ m \in 0..(r - 1) /\ l = r * q + m
    BY DividedBy
  <2> HIDE DEF q, m
  <2> QED
    BY <2>1
<1> HIDE DEF q
<1>2. PICK s \in Nat, n \in Nat, x \in Int, y \in Int :
         r = g * s /\ m = g * n /\ g = r * x + m * y
  BY DEF IsGcd
<1> HIDE DEF m
<1>3. s * q + n \in Nat /\ x - q * y \in Int
  BY <1>1
<1>4. l = g * (s * q + n)
  <2>1. g * (s * q + n) = (g * s) * q + g * n
    BY <1>1
  <2> QED
    BY <1>1, <1>2, <2>1
<1>5. g = l * y + r * (x - q * y)
  <2>1. l * y = (r * q) * y + m * y
    BY <1>1
  <2>2. r * (x - q * y) = r * x - (r * q) * y
    BY <1>1
  <2> QED
    BY <1>1, <1>2, <2>1, <2>2
<1> QED
  BY <1>2, <1>3, <1>4, <1>5 DEF IsGcd

LEMMA GcdExists ==
  ASSUME NEW l \in Nat, NEW r \in Nat
  PROVE  \E g \in Nat : IsGcd(g, l, r)
<1> DEFINE Bad == {k \in Nat : \E a \in Nat : \A g \in Nat : ~IsGcd(g, a, k)}
<1>1. Bad = {}
  <2> SUFFICES ASSUME Bad # {} PROVE FALSE
    OBVIOUS
  <2>1. PICK k \in Bad : \A j \in Bad : k <= j
    <3>1. Bad \subseteq Nat
      OBVIOUS
    <3> HIDE DEF Bad
    <3> QED
      BY <3>1, LeastElement
  <2>2. PICK a \in Nat : \A g \in Nat : ~IsGcd(g, a, k)
    OBVIOUS
  <2>3. CASE k = 0
    <3>1. a = a * 1 /\ 0 = a * 0 /\ a = a * 1 + 0 * 0
      OBVIOUS
    <3>2. IsGcd(a, a, 0)
      <4>1. 1 \in Nat /\ 0 \in Nat /\ 1 \in Int /\ 0 \in Int
        OBVIOUS
      <4> QED
        BY <3>1, <4>1 DEF IsGcd
    <3> QED
      BY <2>2, <2>3, <3>2
  <2>4. CASE k # 0
    <3>1. k \in Nat \ {0}
      BY <2>4
    <3> DEFINE m == a % k
    <3>2. m \in Nat /\ m < k
      BY <3>1, DividedBy
    <3>3. m \notin Bad
      <4> HIDE DEF m, Bad
      <4> QED
        BY <2>1, <3>1, <3>2
    <3>4. PICK g \in Nat : IsGcd(g, k, m)
      <4> HIDE DEF m
      <4> QED
        BY <3>1, <3>2, <3>3
    <3>5. IsGcd(g, a, k)
      BY <3>1, <3>4, GcdStep
    <3> QED
      BY <2>2, <3>5
  <2> QED
    BY <2>3, <2>4
<1> QED
  BY <1>1

LEMMA DivideEachOther ==
  ASSUME NEW g \in Nat, NEW h \in Nat, NEW a \in Int, NEW b \in Int, g = h * a, h = g * b
  PROVE  g = h
<1>1. CASE g = 0
  BY <1>1
<1>2. CASE h = 0
  BY <1>2
<1>3. CASE g > 0 /\ h > 0
  <2>1. a >= 1 /\ b >= 1
    <3>1. ASSUME a <= 0 PROVE FALSE
      <4>1. h * a <= 0
        BY <1>3, <3>1
      <4> QED
        BY <1>3, <4>1
    <3>2. ASSUME b <= 0 PROVE FALSE
      <4>1. g * b <= 0
        BY <1>3, <3>2
      <4> QED
        BY <1>3, <4>1
    <3> QED
      BY <3>1, <3>2
  <2>2. h * a >= h /\ g * b >= g
    BY <1>3, <2>1
  <2> QED
    BY <2>2
<1> QED
  BY <1>1, <1>2, <1>3

LEMMA GcdUnique ==
  ASSUME NEW l \in Nat, NEW r \in Nat, NEW g \in Nat, NEW h \in Nat,
         IsGcd(g, l, r), IsGcd(h, l, r)
  PROVE  g = h
<1>1. PICK s \in Nat, n \in Nat, x \in Int, y \in Int :
         l = g * s /\ r = g * n /\ g = l * x + r * y
  BY DEF IsGcd
<1>2. PICK u \in Nat, v \in Nat, z \in Int, w \in Int :
         l = h * u /\ r = h * v /\ h = l * z + r * w
  BY DEF IsGcd
<1>3. g = h * (u * x + v * y)
  <2>1. (h * u) * x + (h * v) * y = h * (u * x + v * y)
    OBVIOUS
  <2> QED
    BY <1>1, <1>2, <2>1
<1>4. h = g * (s * z + n * w)
  <2>1. (g * s) * z + (g * n) * w = g * (s * z + n * w)
    OBVIOUS
  <2> QED
    BY <1>1, <1>2, <2>1
<1>5. u * x + v * y \in Int /\ s * z + n * w \in Int
  OBVIOUS
<1> QED
  BY <1>3, <1>4, <1>5, DivideEachOther

(* What the recursive function computes.                                   *)
LEMMA GcdOf ==
  ASSUME NEW l \in Nat, NEW r \in Nat
  PROVE  /\ GreatestCommonDivisor[<<l, r>>] \in Nat
         /\ IsGcd(GreatestCommonDivisor[<<l, r>>], l, r)
<1> DEFINE G(a, b) == CHOOSE g \in Nat : IsGcd(g, a, b)
           w == [p \in Nat \X Nat |-> G(p[1], p[2])]
           Meets(f) == f = [p \in Nat \X Nat |->
                              IF p[2] = 0 THEN p[1] ELSE f[<<p[2], p[1] % p[2]>>]]
           d == GreatestCommonDivisor
<1>1. \A a, b \in Nat : G(a, b) \in Nat /\ IsGcd(G(a, b), a, b)
  BY GcdExists
<1>2. \A a, b \in Nat : b # 0 => a % b \in Nat
  BY DividedBy
<1>3. \A a, b \in Nat : G(a, b) = IF b = 0 THEN a ELSE G(b, a % b)
  <2> SUFFICES ASSUME NEW a \in Nat, NEW b \in Nat
               PROVE  G(a, b) = IF b = 0 THEN a ELSE G(b, a % b)
    OBVIOUS
  <2> HIDE DEF G
  <2>1. CASE b = 0
    <3>1. a = a * 1 /\ 0 = a * 0 /\ a = a * 1 + 0 * 0
      OBVIOUS
    <3>2. IsGcd(a, a, 0)
      <4>1. 1 \in Nat /\ 0 \in Nat /\ 1 \in Int /\ 0 \in Int
        OBVIOUS
      <4> QED
        BY <3>1, <4>1 DEF IsGcd
    <3> QED
      BY <1>1, <2>1, <3>2, GcdUnique
  <2>2. CASE b # 0
    <3>1. a % b \in Nat
      BY <1>2, <2>2
    <3>2. G(b, a % b) \in Nat /\ IsGcd(G(b, a % b), b, a % b)
      BY <1>1, <3>1
    <3>3. IsGcd(G(b, a % b), a, b)
      BY <2>2, <3>2, GcdStep
    <3> QED
      BY <1>1, <2>2, <3>2, <3>3, GcdUnique
  <2> QED
    BY <2>1, <2>2
<1>4. Meets(w)
  <2> HIDE DEF G
  <2>1. ASSUME NEW p \in Nat \X Nat
        PROVE  G(p[1], p[2]) = IF p[2] = 0 THEN p[1] ELSE w[<<p[2], p[1] % p[2]>>]
    <3>1. p[1] \in Nat /\ p[2] \in Nat
      OBVIOUS
    <3>2. p[2] # 0 => w[<<p[2], p[1] % p[2]>>] = G(p[2], p[1] % p[2])
      BY <1>2, <3>1
    <3> QED
      BY <1>3, <3>1, <3>2
  <2> QED
    BY <2>1
<1>5. Meets(d)
  <2>1. d = CHOOSE f : Meets(f)
    BY DEF GreatestCommonDivisor
  <2> HIDE DEF Meets, d, w
  <2> QED
    BY <1>4, <2>1
<1>6. \A a, b \in Nat : d[<<a, b>>] = IF b = 0 THEN a ELSE d[<<b, a % b>>]
  <2> HIDE DEF d
  <2> QED
    BY <1>5
<1>7. \A b \in Nat : \A a \in Nat : d[<<a, b>>] = G(a, b)
  <2> DEFINE Bad == {b \in Nat : \E a \in Nat : d[<<a, b>>] # G(a, b)}
  <2> HIDE DEF G, d
  <2> SUFFICES ASSUME Bad # {} PROVE FALSE
    OBVIOUS
  <2>1. PICK b \in Bad : \A k \in Bad : b <= k
    <3>1. Bad \subseteq Nat
      OBVIOUS
    <3> HIDE DEF Bad
    <3> QED
      BY <3>1, LeastElement
  <2>2. PICK a \in Nat : d[<<a, b>>] # G(a, b)
    OBVIOUS
  <2>3. b \in Nat /\ b # 0
    BY <1>3, <1>6, <2>2
  <2>4. a % b \in Nat /\ a % b < b
    BY <2>3, DividedBy
  <2>5. a % b \notin Bad
    <3> DEFINE m == a % b
    <3>1. m \in Nat /\ m < b
      BY <2>4
    <3> HIDE DEF m, Bad
    <3>2. m \notin Bad
      BY <2>1, <2>3, <3>1
    <3> QED
      BY <3>2 DEF m
  <2>6. d[<<b, a % b>>] = G(b, a % b)
    BY <2>3, <2>4, <2>5
  <2> QED
    BY <1>3, <1>6, <2>2, <2>3, <2>6
<1> HIDE DEF G, d
<1>8. d[<<l, r>>] = G(l, r)
  BY <1>7
<1> QED
  BY <1>1, <1>8 DEF d

(* What one of two opposite heights pays is what the other is short of all *)
(* but one unit, or of all when the division is exact.                     *)
Exact(a, d) == IF a % d = 0 THEN 1 ELSE 0

LEMMA OppositeShares ==
  ASSUME NEW S \in Nat \ {0}, NEW N \in Nat \ {0}, NEW j \in 1..(N - 1)
  PROVE  /\ (S * j) \div N \in Nat /\ (S * (N - j)) \div N \in Nat
         /\ (S * j) \div N + (S * (N - j)) \div N = (S - 1) + Exact(S * j, N)
<1> DEFINE a == S * j
           q == a \div N
           r == a % N
           b == S * (N - j)
<1>1. j \in Nat /\ N - j \in Nat /\ a \in Nat /\ b \in Nat /\ b = S * N - a
  <2>1. j \in Nat /\ N - j \in Nat
    OBVIOUS
  <2> QED
    BY <2>1, NatTimes
<1>2. q \in Nat /\ r \in 0..(N - 1) /\ a = N * q + r
  <2> HIDE DEF a
  <2> QED
    BY <1>1, DividedBy
<1>3. b \div N \in Nat
  <2> HIDE DEF b
  <2> QED
    BY <1>1, NatDivided
<1>4. Exact(a, N) = IF r = 0 THEN 1 ELSE 0
  BY DEF Exact
<1> HIDE DEF a, b, q, r
<1>5. CASE r = 0
  <2>1. b = N * (S - q) + 0
    <3>1. N * (S - q) = S * N - N * q
      BY <1>2
    <3> QED
      BY <1>1, <1>2, <1>5, <3>1
  <2>2. S - q \in Int /\ 0 \in 0..(N - 1)
    BY <1>2
  <2>3. b \div N = S - q
    BY <2>1, <2>2, QuotientIs
  <2> QED
    BY <1>2, <1>3, <1>4, <1>5, <2>3 DEF a, b, q
<1>6. CASE r # 0
  <2>1. b = N * (S - q - 1) + (N - r)
    <3>1. N * (S - q - 1) = S * N - N * q - N
      BY <1>2
    <3> QED
      BY <1>1, <1>2, <3>1
  <2>2. S - q - 1 \in Int /\ N - r \in 0..(N - 1)
    BY <1>2, <1>6
  <2>3. b \div N = S - q - 1
    BY <2>1, <2>2, QuotientIs
  <2> QED
    BY <1>2, <1>3, <1>4, <1>6, <2>3 DEF a, b, q
<1> QED
  BY <1>5, <1>6

(* The multiples of n are counted by dividing by it.                       *)
LEMMA MultiplesCounted ==
  ASSUME NEW n \in Nat \ {0}, NEW j \in Nat \ {0}
  PROVE  j \div n = (j - 1) \div n + Exact(j, n)
<1> DEFINE k == j \div n
           r == j % n
<1>1. k \in Nat /\ r \in 0..(n - 1) /\ j = n * k + r
  BY DividedBy
<1>2. Exact(j, n) = IF r = 0 THEN 1 ELSE 0
  BY DEF Exact
<1> HIDE DEF k, r
<1>3. CASE r = 0
  <2>1. j - 1 = n * (k - 1) + (n - 1)
    <3>1. n * (k - 1) = n * k - n
      BY <1>1
    <3> QED
      BY <1>1, <1>3, <3>1
  <2>2. k - 1 \in Int /\ n - 1 \in 0..(n - 1)
    BY <1>1
  <2>3. (j - 1) \div n = k - 1
    BY <2>1, <2>2, QuotientIs
  <2> QED
    BY <1>1, <1>2, <1>3, <2>3 DEF k
<1>4. CASE r # 0
  <2>1. j - 1 = n * k + (r - 1)
    BY <1>1
  <2>2. k \in Int /\ r - 1 \in 0..(n - 1)
    BY <1>1, <1>4
  <2>3. (j - 1) \div n = k
    BY <2>1, <2>2, QuotientIs
  <2> QED
    BY <1>1, <1>2, <1>4, <2>3 DEF k
<1> QED
  BY <1>3, <1>4

(* g divides S and is a combination of S and g * n.                        *)
Reduces(S, g, n) == \E s \in Nat : \E x, y \in Int : S = g * s /\ g = S * x + (g * n) * y

(* S * j divides by N just when j divides by N without the common divisor. *)
LEMMA ExactAt ==
  ASSUME NEW S \in Nat \ {0}, NEW g \in Nat \ {0}, NEW n \in Nat \ {0}, Reduces(S, g, n),
         NEW j \in Nat \ {0}
  PROVE  Exact(S * j, g * n) = Exact(j, n)
<1>0. PICK s \in Nat, x \in Int, y \in Int : S = g * s /\ g = S * x + (g * n) * y
  BY DEF Reduces
<1> DEFINE N == g * n
<1>1. N \in Nat \ {0}
  OBVIOUS
<1>2. s * x + n * y = 1
  <2> DEFINE e == s * x + n * y
  <2>1. g * e = (g * s) * x + (g * n) * y
    BY <1>0
  <2>2. g * e = g
    BY <1>0, <2>1
  <2>3. e \in Int
    OBVIOUS
  <2> HIDE DEF e
  <2>4. e = 1
    <3>1. g * (e - 1) = 0
      BY <2>2, <2>3
    <3> QED
      BY <2>3, <3>1
  <2> QED
    BY <2>4 DEF e
<1>3. ASSUME j % n = 0 PROVE (S * j) % N = 0
  <2> DEFINE k == j \div n
  <2>1. k \in Nat /\ j = n * k
    <3>1. k \in Nat /\ j = n * k + (j % n)
      BY DividedBy
    <3> HIDE DEF k
    <3> QED
      BY <1>3, <3>1
  <2> HIDE DEF k
  <2>2. S * j = N * (s * k) + 0
    <3>1. (g * s) * (n * k) = (g * n) * (s * k)
      BY <2>1
    <3> QED
      BY <1>0, <2>1, <3>1
  <2>3. s * k \in Int /\ 0 \in 0..(N - 1)
    BY <1>1, <2>1
  <2> HIDE DEF N
  <2> QED
    BY <1>1, <2>2, <2>3, QuotientIs
<1>4. ASSUME (S * j) % N = 0 PROVE j % n = 0
  <2> DEFINE a == S * j
             k == a \div N
  <2>1. a \in Nat
    BY NatTimes
  <2>2. k \in Nat /\ a = N * k + (a % N)
    <3> HIDE DEF a, N
    <3> QED
      BY <1>1, <2>1, DividedBy
  <2>3. S * j = (g * n) * k
    <3>1. a = N * k
      <4> HIDE DEF k, N
      <4> QED
        BY <1>1, <1>4, <2>2
    <3> QED
      BY <3>1
  <2> HIDE DEF k
  <2>4. s * j = n * k
    <3>1. g * (s * j - n * k) = (g * s) * j - (g * n) * k
      BY <2>2
    <3>2. g * (s * j - n * k) = 0
      BY <1>0, <2>2, <2>3, <3>1
    <3>3. s * j - n * k \in Int
      BY <2>2
    <3> DEFINE e == s * j - n * k
    <3>4. e \in Int /\ g * e = 0
      BY <3>2, <3>3
    <3> HIDE DEF e
    <3>5. e = 0
      BY <3>4
    <3> QED
      BY <2>2, <3>5 DEF e
  <2>5. j = n * (k * x + j * y) + 0
    <3>1. j * (s * x + n * y) = (s * j) * x + n * (j * y)
      OBVIOUS
    <3>2. (n * k) * x + n * (j * y) = n * (k * x + j * y)
      BY <2>2
    <3>3. j * (s * x + n * y) = j
      BY <1>2
    <3>4. (s * j) * x = (n * k) * x
      BY <2>4
    <3>5. n * (k * x + j * y) \in Int
      BY <2>2
    <3> QED
      BY <3>1, <3>2, <3>3, <3>4, <3>5
  <2>6. k * x + j * y \in Int /\ 0 \in 0..(n - 1)
    BY <2>2
  <2> QED
    BY <2>5, <2>6, QuotientIs
<1> QED
  BY <1>3, <1>4 DEF Exact

(* Shares of heights 1..N-1, each with its opposite.                       *)
LEMMA SharesInPairs ==
  ASSUME NEW S \in Nat \ {0}, NEW N \in Nat \ {0}, NEW g \in Nat, IsGcd(g, S, N),
         NEW d, \A j \in 1..(N - 1) : d[j] = (S - 1) + Exact(S * j, N)
  PROVE  SumOver(d, 1..(N - 1)) = (N - 1) * (S - 1) + (g - 1)
<1>1. PICK s \in Nat, n \in Nat, x \in Int, y \in Int :
         S = g * s /\ N = g * n /\ g = S * x + N * y
  BY DEF IsGcd
<1>2. g \in Nat \ {0} /\ n \in Nat \ {0}
  <2>1. g # 0
    BY <1>1
  <2>2. n # 0
    BY <1>1
  <2> QED
    BY <2>1, <2>2
<1> DEFINE m == N - 1
           c == [k \in 0..m |-> k * (S - 1) + k \div n]
           Count(k) == k \div n
<1>3. m \in Nat
  OBVIOUS
<1>4. \A k \in Nat : Count(k) \in Nat
  BY <1>2, NatDivided
<1>5. c[0] = 0
  <2>1. Count(0) = 0
    <3>1. 0 = n * 0 + 0 /\ 0 \in Int /\ 0 \in 0..(n - 1)
      BY <1>2
    <3> QED
      BY <1>2, <3>1, QuotientIs
  <2>2. 0 * (S - 1) = 0
    OBVIOUS
  <2>3. c[0] = 0 * (S - 1) + Count(0)
    BY <1>3
  <2> HIDE DEF c, Count
  <2> QED
    BY <2>1, <2>2, <2>3
<1>6. ASSUME NEW i \in 1..m PROVE d[i] \in Nat /\ c[i] = c[i - 1] + d[i]
  <2>1. i \in Nat \ {0} /\ i \in 1..(N - 1) /\ i \in 0..m /\ i - 1 \in 0..m
    OBVIOUS
  <2>2. Exact(S * i, g * n) = Exact(i, n)
    <3>1. Reduces(S, g, n)
      BY <1>1 DEF Reduces
    <3> QED
      BY <1>2, <2>1, <3>1, ExactAt
  <2>3. d[i] = (S - 1) + Exact(i, n)
    BY <1>1, <2>1, <2>2
  <2>4. Exact(i, n) \in {0, 1}
    BY DEF Exact
  <2>5. Count(i) = Count(i - 1) + Exact(i, n)
    BY <1>2, <2>1, MultiplesCounted
  <2>6. c[i] = i * (S - 1) + Count(i) /\ c[i - 1] = (i - 1) * (S - 1) + Count(i - 1)
    BY <2>1
  <2>7. Count(i) \in Nat /\ Count(i - 1) \in Nat
    <3> HIDE DEF Count
    <3> QED
      BY <1>4, <2>1
  <2>8. i * (S - 1) = (i - 1) * (S - 1) + (S - 1)
    BY <2>1
  <2> HIDE DEF c, Count
  <2> QED
    BY <2>1, <2>3, <2>4, <2>5, <2>6, <2>7, <2>8
<1>7. c[m] = SumOver(d, 1..m)
  <2> HIDE DEF c, m
  <2> QED
    BY <1>3, <1>5, <1>6, RunningTotal
<1>8. Count(m) = g - 1
  <2>1. m = n * (g - 1) + (n - 1)
    BY <1>1, <1>2
  <2>2. g - 1 \in Int /\ n - 1 \in 0..(n - 1)
    BY <1>2
  <2> HIDE DEF m
  <2> QED
    BY <1>2, <2>1, <2>2, QuotientIs
<1>9. c[m] = m * (S - 1) + Count(m)
  BY <1>3
<1> HIDE DEF c, Count
<1> QED
  BY <1>7, <1>8, <1>9

(* The closed form is the sum: twice the shares below N, taken in pairs,   *)
(* and the whole subsidy of the first height.                              *)
LEMMA ClosedForm ==
  ASSUME NEW S \in Nat \ {0}, NEW N \in Nat \ {0},
         NEW pay, \A i \in 1..N : pay[i] = (S * (N - (i - 1))) \div N
  PROVE  SumOver(pay, 1..N) = LinearSupply(S, N)
<1> DEFINE g == GreatestCommonDivisor[<<S, N>>]
           m == N - 1
           q == [j \in 0..N |-> (S * j) \div N]
           p == [j \in 1..m |-> q[N - j]]
           d == [j \in 1..m |-> q[j] + q[N - j]]
           h == [i \in 1..N |-> N - (i - 1)]
           o == [j \in 1..m |-> N - j]
<1>1. g \in Nat /\ IsGcd(g, S, N)
  BY GcdOf
<1>2. m \in Nat /\ m + 1 = N /\ IsFiniteSet(1..m) /\ IsFiniteSet(1..N)
  BY FS_Interval
<1>3. \A j \in 0..N : q[j] \in Nat
  <2> TAKE j \in 0..N
  <2>1. S * j \in Nat
    BY NatTimes
  <2> DEFINE a == S * j
  <2>2. a \in Nat
    BY <2>1
  <2> HIDE DEF a
  <2>3. a \div N \in Nat
    BY <2>2, NatDivided
  <2> QED
    BY <2>3 DEF a
<1>4. q[N] = S
  <2>1. S * N = N * S + 0 /\ S \in Int /\ 0 \in 0..(N - 1)
    OBVIOUS
  <2>2. (S * N) \div N = S
    BY <2>1, QuotientIs
  <2> QED
    BY <2>2
<1>5. SumOver(pay, 1..N) = SumOver(q, 1..N)
  <2>1. \A i \in 1..N : h[i] \in 0..N /\ h[i] = N - (i - 1)
    OBVIOUS
  <2>2. \A i \in 1..N : pay[i] \in Nat /\ q[h[i]] = pay[i]
    <3>1. \A i \in 1..N : q[h[i]] = pay[i]
      BY <2>1
    <3> HIDE DEF q, h
    <3> QED
      BY <1>3, <2>1, <3>1
  <2>3. \A i, j \in 1..N : h[i] = h[j] => i = j
    OBVIOUS
  <2>4. ImageOf(h, 1..N) = 1..N
    <3>1. \A i \in 1..N : h[i] \in 1..N
      OBVIOUS
    <3>2. \A j \in 1..N : \E i \in 1..N : h[i] = j
      <4> TAKE j \in 1..N
      <4>1. N - j + 1 \in 1..N /\ h[N - j + 1] = j
        OBVIOUS
      <4> QED
        BY <4>1
    <3> HIDE DEF h
    <3> QED
      BY <3>1, <3>2 DEF ImageOf
  <2> HIDE DEF q, h
  <2>5. SumOver(q, ImageOf(h, 1..N)) = SumOver(pay, 1..N)
    BY <1>2, <2>2, <2>3, SumImage
  <2> QED
    BY <2>4, <2>5
<1>6. SumOver(q, 1..N) = SumOver(q, 1..m) + S
  <2> DEFINE T == 1..m
  <2>1. 1..N = T \cup {N} /\ N \notin T /\ IsFiniteSet(T)
    BY <1>2
  <2>2. N \in 0..N /\ \A j \in T : j \in 0..N
    OBVIOUS
  <2> HIDE DEF q, T
  <2>3. SumOver(q, T \cup {N}) = SumOver(q, T) + q[N]
    BY <1>3, <2>1, <2>2, SumAdd
  <2> QED
    BY <1>4, <2>1, <2>3 DEF T
<1>7. SumOver(p, 1..m) = SumOver(q, 1..m)
  <2>1. \A j \in 1..m : p[j] = q[o[j]] /\ o[j] \in 0..N
    OBVIOUS
  <2>2. \A i, j \in 1..m : o[i] = o[j] => i = j
    OBVIOUS
  <2>3. ImageOf(o, 1..m) = 1..m
    <3>1. \A i \in 1..m : o[i] \in 1..m
      OBVIOUS
    <3>2. \A j \in 1..m : \E i \in 1..m : o[i] = j
      <4> TAKE j \in 1..m
      <4>1. N - j \in 1..m /\ o[N - j] = j
        OBVIOUS
      <4> QED
        BY <4>1
    <3> HIDE DEF o
    <3> QED
      BY <3>1, <3>2 DEF ImageOf
  <2> HIDE DEF q, o, p
  <2>4. \A j \in 1..m : p[j] \in Nat /\ q[o[j]] = p[j]
    BY <1>3, <2>1
  <2>5. SumOver(q, ImageOf(o, 1..m)) = SumOver(p, 1..m)
    BY <1>2, <2>2, <2>4, SumImage
  <2> QED
    BY <2>3, <2>5
<1>8. SumOver(d, 1..m) = SumOver(q, 1..m) + SumOver(p, 1..m)
  <2>1. \A j \in 1..m : j \in 0..N /\ N - j \in 0..N /\ p[j] = q[N - j] /\ d[j] = q[j] + q[N - j]
    OBVIOUS
  <2> HIDE DEF q, p, d
  <2>2. \A j \in 1..m : q[j] \in Nat /\ p[j] \in Nat /\ d[j] = q[j] + p[j]
    BY <1>3, <2>1
  <2> QED
    BY <1>2, <2>2, SumPlus
<1>9. SumOver(d, 1..m) = m * (S - 1) + (g - 1)
  <2>1. ASSUME NEW j \in 1..(N - 1) PROVE d[j] = (S - 1) + Exact(S * j, N)
    <3>1. d[j] = (S * j) \div N + (S * (N - j)) \div N
      OBVIOUS
    <3> QED
      BY <3>1, OppositeShares
  <2> HIDE DEF d, g
  <2>2. SumOver(d, 1..(N - 1)) = (N - 1) * (S - 1) + (g - 1)
    BY <1>1, <2>1, SharesInPairs
  <2> QED
    BY <2>2
<1>10. SumOver(q, 1..m) \in Nat
  <2>1. \A j \in 1..m : j \in 0..N
    OBVIOUS
  <2> HIDE DEF q
  <2> QED
    BY <1>2, <1>3, <2>1, SumNat
<1>11. LinearSupply(S, N) = (S * N + S - N + g) \div 2
  BY DEF LinearSupply
<1> DEFINE t == SumOver(q, 1..m)
<1>12. t \in Nat /\ t + t = m * (S - 1) + (g - 1)
  <2> HIDE DEF q, p, d
  <2> QED
    BY <1>7, <1>8, <1>9, <1>10
<1>13. SumOver(pay, 1..N) = t + S
  BY <1>5, <1>6
<1> HIDE DEF t, g, q, p, d, h, o
<1>14. S * N + S - N + g = 2 * (t + S)
  <2>1. m * (S - 1) = S * N - S - N + 1
    OBVIOUS
  <2> HIDE DEF m
  <2> QED
    BY <1>1, <1>12, <2>1
<1>15. (2 * (t + S)) \div 2 = t + S
  <2> DEFINE z == t + S
  <2>1. z \in Nat
    BY <1>12
  <2> HIDE DEF z
  <2>2. (2 * z) \div 2 = z
    BY <2>1
  <2> QED
    BY <2>2 DEF z
<1> QED
  BY <1>11, <1>13, <1>14, <1>15

LEMMA IInvOnSchedule ==
  ASSUME LedgerAssumption, PolicyValid, IInv
  PROVE  SupplyOnSchedule
<1> DEFINE N == Policy.tail_height - 1
           S == Policy.initial_subsidy
           paid == [i \in 1..N |-> SumOf(Value, chain[i].coinbase)]
<1>1. N \in Nat \ {0} /\ S \in Nat \ {0} /\ Policy.tail_height = N + 1
  BY DEF LedgerAssumption, PolicyValid
<1>2. Replayed(state, chain) /\ ChainOk(chain)
  BY ChainReplays DEF IInv
<1>3. Len(chain) \in Nat /\ \A i \in 1..Len(chain) : chain[i].height = i
  BY <1>2 DEF Replayed, ChainOk
<1>4. ASSUME Len(chain) >= N, NEW i \in 1..N
      PROVE  paid[i] = (S * (N - (i - 1))) \div N
  <2>1. i \in Nat /\ i \in 1..Len(chain) /\ i >= 1 /\ i <= N /\ i # 0
    <3> HIDE DEF N
    <3> QED
      BY <1>1, <1>3, <1>4
  <2>2. ListWorth(chain[i].coinbase) = Subsidy(i)
    BY <1>2, <1>3, <2>1, ChainPays
  <2>3. LesserOf(IF i = 0 THEN 0 ELSE i - 1, N) = i - 1
    <3> HIDE DEF N
    <3> QED
      BY <1>1, <2>1 DEF LesserOf
  <2>4. DecliningSubsidy(i) = (S * (N - (i - 1))) \div N
    BY <2>3 DEF DecliningSubsidy
  <2>5. Subsidy(i) = DecliningSubsidy(i)
    <3>1. ~(i >= Policy.tail_height)
      <4> HIDE DEF N
      <4> QED
        BY <1>1, <2>1
    <3> QED
      BY <3>1 DEF Subsidy
  <2>6. paid[i] = ListWorth(chain[i].coinbase)
    BY DEF ListWorth
  <2> QED
    BY <2>2, <2>4, <2>5, <2>6, Zenon
<1>5. SupplyOnSchedule <=> (Len(chain) >= N => TotalOf(paid, 1..N) = LinearSupply(S, N))
  BY DEF SupplyOnSchedule
<1>6. ASSUME Len(chain) >= N
      PROVE  TotalOf(paid, 1..N) = LinearSupply(S, N)
  <2>1. \A i \in 1..N : paid[i] = (S * (N - (i - 1))) \div N
    BY <1>4, <1>6
  <2> HIDE DEF N, S, paid
  <2>2. SumOver(paid, 1..N) = LinearSupply(S, N)
    BY <1>1, <2>1, ClosedForm
  <2> QED
    BY <2>2, TotalIsSum
<1> QED
  BY <1>5, <1>6

LEMMA PolicyInvariant ==
  ASSUME LedgerAssumption
  PROVE  Spec => []PolicyInv
<1>1. Init => PolicyInv
  BY InitIInv DEF PolicyInv, Init
<1>2. ASSUME PolicyInv, [Next]_vars
      PROVE  PolicyInv'
  <2>1. IInv'
    BY <1>2, NextIInv DEF PolicyInv
  <2>2. PolicyValid'
    BY <1>2 DEF PolicyInv, PolicyValid
  <2> QED
    BY <2>1, <2>2 DEF PolicyInv
<1> QED
  BY <1>1, <1>2, PTL DEF Spec

(* The coins of the UTXO set and the fees burned are the subsidies paid,   *)
(* and no transaction leaves more than it takes: through validation with   *)
(* checked totals, channel closes, coinbases that share out the subsidy to *)
(* the last unit, stale tokens and reorganizations.  The subsidies of the  *)
(* declining phase add up to scheduled_supply_before_tail.                 *)
THEOREM ConservedLedger ==
  ASSUME LedgerAssumption
  PROVE  Spec => []LedgerConserved
<1>1. PolicyInv => LedgerConserved
  BY IInvConserves, IInvOnSchedule DEF PolicyInv, LedgerConserved
<1> QED
  BY <1>1, PolicyInvariant, PTL
-----------------------------------------------------------------------------
(***************************************************************************)
(* Headers: the median time is defined and never goes back.                *)
(***************************************************************************)

(* What stands before a place of a window when it is sorted.               *)
Ahead(w, i) == {j \in 1..Len(w) : Earlier(w, j, i)}

LEMMA AheadCounted ==
  ASSUME NEW w \in Seq(Nat), NEW i \in 1..Len(w)
  PROVE  /\ IsFiniteSet(Ahead(w, i)) /\ SortedPlace(w, i) = Cardinality(Ahead(w, i))
         /\ SortedPlace(w, i) \in 0..(Len(w) - 1)
         /\ i \notin Ahead(w, i)
<1> DEFINE n == Len(w)
<1>1. n \in Nat /\ i \in 1..n /\ w[i] \in Nat
  BY ElementOfSeq, LenProperties
<1>2. i \notin Ahead(w, i) /\ Ahead(w, i) \subseteq (1..n) \ {i}
  BY <1>1 DEF Ahead, Earlier
<1>3. IsFiniteSet(1..n) /\ Cardinality(1..n) = n
  <2>1. n \in Nat /\ n >= 1
    BY <1>1
  <2> HIDE DEF n
  <2> QED
    BY <2>1, FS_Interval
<1>4. IsFiniteSet((1..n) \ {i}) /\ Cardinality((1..n) \ {i}) = n - 1
  BY <1>1, <1>3, FS_RemoveElement
<1>5. /\ IsFiniteSet(Ahead(w, i)) /\ Cardinality(Ahead(w, i)) <= n - 1
      /\ Cardinality(Ahead(w, i)) \in Nat
  <2>1. Ahead(w, i) \in SUBSET ((1..n) \ {i})
    BY <1>2
  <2>2. IsFiniteSet(Ahead(w, i)) /\ Cardinality(Ahead(w, i)) <= Cardinality((1..n) \ {i})
    BY <1>4, <2>1, FS_Subset
  <2> QED
    BY <1>4, <2>2, FS_CardinalityType
<1>6. SortedPlace(w, i) = Cardinality(Ahead(w, i))
  BY DEF SortedPlace, Ahead
<1> HIDE DEF n
<1>7. Cardinality(Ahead(w, i)) \in 0..(n - 1)
  BY <1>1, <1>5
<1> QED
  BY <1>2, <1>5, <1>6, <1>7 DEF n

(* Of two places one is before the other.                                  *)
LEMMA PlacesOrdered ==
  ASSUME NEW w \in Seq(Nat), NEW i \in 1..Len(w), NEW j \in 1..Len(w), Earlier(w, i, j)
  PROVE  SortedPlace(w, i) < SortedPlace(w, j)
<1>1. /\ IsFiniteSet(Ahead(w, i)) /\ SortedPlace(w, i) = Cardinality(Ahead(w, i))
      /\ IsFiniteSet(Ahead(w, j)) /\ SortedPlace(w, j) = Cardinality(Ahead(w, j))
      /\ SortedPlace(w, i) \in Nat /\ SortedPlace(w, j) \in Nat /\ i \notin Ahead(w, i)
  BY AheadCounted
<1>2. Ahead(w, i) \union {i} \subseteq Ahead(w, j)
  <2>1. w[i] \in Nat /\ w[j] \in Nat
    BY ElementOfSeq
  <2>2. ASSUME NEW k \in Ahead(w, i)
        PROVE  k \in Ahead(w, j)
    <3>1. k \in 1..Len(w) /\ w[k] \in Nat
      BY <2>2, ElementOfSeq DEF Ahead
    <3> QED
      BY <2>1, <2>2, <3>1 DEF Ahead, Earlier
  <2>3. i \in Ahead(w, j)
    BY DEF Ahead
  <2> QED
    BY <2>2, <2>3
<1>3. Cardinality(Ahead(w, i) \union {i}) = Cardinality(Ahead(w, i)) + 1
  BY <1>1, FS_AddElement
<1>4. Cardinality(Ahead(w, i) \union {i}) <= Cardinality(Ahead(w, j))
  BY <1>1, <1>2, FS_Subset
<1> QED
  BY <1>1, <1>3, <1>4

(* Every place of the sorted window is taken.                              *)
LEMMA PlacesTaken ==
  ASSUME NEW w \in Seq(Nat), NEW k \in 0..(Len(w) - 1)
  PROVE  \E i \in 1..Len(w) : SortedPlace(w, i) = k
<1> DEFINE n == Len(w)
           f == [i \in 1..n |-> SortedPlace(w, i)]
<1>1. n \in Nat
  BY LenProperties
<1>2. f \in [1..n -> 0..(n - 1)]
  BY AheadCounted
<1>3. ASSUME NEW i \in 1..n, NEW j \in 1..n, f[i] = f[j]
      PROVE  i = j
  <2>1. w[i] \in Nat /\ w[j] \in Nat /\ SortedPlace(w, i) \in Nat /\ SortedPlace(w, j) \in Nat
    BY ElementOfSeq, AheadCounted
  <2>2. ~Earlier(w, i, j) /\ ~Earlier(w, j, i)
    BY <1>3, <2>1, PlacesOrdered
  <2>3. i \in Nat /\ j \in Nat
    BY <1>1
  <2> QED
    BY <2>1, <2>2, <2>3 DEF Earlier
<1>4. f \in Injection(1..n, 0..(n - 1))
  <2> HIDE DEF f
  <2> QED
    BY <1>2, <1>3 DEF Injection, IsInjective
<1>5. /\ IsFiniteSet(1..n) /\ Cardinality(1..n) = n
      /\ IsFiniteSet(0..(n - 1)) /\ Cardinality(0..(n - 1)) = n
  <2> HIDE DEF n
  <2>1. IsFiniteSet(1..n) /\ Cardinality(1..n) = n
    BY <1>1, FS_Interval
  <2>2. IsFiniteSet(0..(n - 1)) /\ Cardinality(0..(n - 1)) = n
    BY <1>1, FS_Interval
  <2> QED
    BY <2>1, <2>2
<1>6. f \in Surjection(1..n, 0..(n - 1))
  <2> HIDE DEF f, n
  <2> QED
    BY <1>4, <1>5, FS_Injection
<1>7. \E i \in 1..n : f[i] = k
  <2> HIDE DEF f
  <2> QED
    BY <1>6 DEF Surjection
<1> QED
  BY <1>7

(* The last n of a sequence, a suffix of it.                               *)
LEMMA LastOfSuffix ==
  ASSUME NEW X, NEW s \in Seq(X), NEW n \in Nat
  PROVE  /\ LastOf(s, n) \in Seq(X) /\ Len(LastOf(s, n)) \in Nat
         /\ Len(LastOf(s, n)) = (IF Len(s) > n THEN n ELSE Len(s))
         /\ \A i \in 1..Len(LastOf(s, n)) :
               LastOf(s, n)[i] = s[i + (IF Len(s) > n THEN Len(s) - n ELSE 0)]
<1> DEFINE l == Len(s)
           d == IF l > n THEN l - n ELSE 0
<1>1. l \in Nat
  BY LenProperties
<1>2. LastOf(s, n) = SubSeq(s, d + 1, l)
  BY DEF LastOf
<1>3. d \in Nat /\ l - d = (IF l > n THEN n ELSE l) /\ l - d \in Nat
  <2> HIDE DEF l
  <2> QED
    BY <1>1
<1>4. /\ SubSeq(s, d + 1, l) \in Seq(X)
      /\ Len(SubSeq(s, d + 1, l)) = l - d
      /\ \A i \in 1..(l - d) : SubSeq(s, d + 1, l)[i] = s[i + d]
  <2> HIDE DEF d
  <2>1. d + 1 \in Int /\ l \in Int /\ \A i \in (d + 1)..l : s[i] \in X
    <3>1. \A i \in 1..l : s[i] \in X
      BY ElementOfSeq
    <3> HIDE DEF l
    <3> QED
      BY <1>1, <1>3, <3>1
  <2> HIDE DEF l
  <2>2. /\ SubSeq(s, d + 1, l) \in Seq(X)
        /\ Len(SubSeq(s, d + 1, l)) = IF d + 1 <= l THEN l - (d + 1) + 1 ELSE 0
        /\ \A i \in 1..(l - (d + 1) + 1) : SubSeq(s, d + 1, l)[i] = s[d + 1 + i - 1]
    BY <2>1, SubSeqProperties
  <2>3. l - (d + 1) + 1 = l - d /\ (IF d + 1 <= l THEN l - (d + 1) + 1 ELSE 0) = l - d
    BY <1>1, <1>3
  <2>4. \A i \in 1..(l - d) : d + 1 + i - 1 = i + d
    BY <1>1, <1>3
  <2> QED
    BY <2>2, <2>3, <2>4
<1> QED
  <2> HIDE DEF d
  <2>1. Len(LastOf(s, n)) = l - d
    BY <1>2, <1>4
  <2> QED
    BY <1>2, <1>3, <1>4, <2>1 DEF d

LEMMA LastOfReads ==
  ASSUME NEW X, NEW s \in Seq(X), s # <<>>, NEW n \in Nat \ {0}
  PROVE  /\ LastOf(s, n) \in Seq(X) /\ Len(LastOf(s, n)) \in Nat \ {0}
         /\ Len(LastOf(s, n)) = (IF Len(s) > n THEN n ELSE Len(s))
         /\ \A i \in 1..Len(LastOf(s, n)) :
               LastOf(s, n)[i] = s[i + (IF Len(s) > n THEN Len(s) - n ELSE 0)]
<1>1. Len(s) \in Nat \ {0}
  BY EmptySeq, LenProperties
<1> QED
  BY <1>1, LastOfSuffix

(* The middle of the sorted window exists, and is the median.              *)
LEMMA MedianFound ==
  ASSUME NEW s \in Seq(Nat), s # <<>>, MedianTimeWindow \in Nat \ {0},
         NEW w, w = LastOf(s, MedianTimeWindow)
  PROVE  \E c \in 1..Len(w) : SortedPlace(w, c) = Len(w) \div 2 /\ MedianTimestamp(s) = w[c]
<1> DEFINE C(i) == i \in 1..Len(w) /\ SortedPlace(w, i) = Len(w) \div 2
<1>1. w \in Seq(Nat) /\ Len(w) \in Nat \ {0}
  BY LastOfReads
<1>2. Len(w) \div 2 \in 0..(Len(w) - 1)
  BY <1>1
<1>3. \E i \in 1..Len(w) : SortedPlace(w, i) = Len(w) \div 2
  BY <1>1, <1>2, PlacesTaken
<1> DEFINE c == CHOOSE i \in 1..Len(w) : SortedPlace(w, i) = Len(w) \div 2
<1>4. c \in 1..Len(w) /\ SortedPlace(w, c) = Len(w) \div 2
  BY <1>3
<1>5. MedianTimestamp(s) = w[c]
  BY DEF MedianTimestamp
<1> QED
  BY <1>4, <1>5

(* A time above the median of a window, put at its end, leaves a median no *)
(* earlier: more than half of the window would have to be before its half. *)
LEMMA MedianAdvances ==
  ASSUME NEW w \in Seq(Nat), NEW v \in Seq(Nat), NEW d \in Nat,
         Len(v) - 1 + d = Len(w), Len(w) <= Len(v),
         \A i \in 1..(Len(v) - 1) : v[i] = w[i + d],
         NEW c \in 1..Len(w), SortedPlace(w, c) = Len(w) \div 2, w[c] < v[Len(v)],
         NEW b \in 1..Len(v), SortedPlace(v, b) = Len(v) \div 2
  PROVE  w[c] <= v[b]
<1>1. /\ Len(v) \in Nat /\ Len(w) \in Nat /\ w[c] \in Nat /\ v[b] \in Nat
      /\ \A i \in 1..Len(v) : v[i] \in Nat
  BY ElementOfSeq, LenProperties
<1> SUFFICES ASSUME v[b] < w[c] PROVE FALSE
  BY <1>1
<1> DEFINE S == Ahead(v, b) \union {b}
           T == Ahead(w, c)
           f == [i \in S |-> i + d]
<1>2. IsFiniteSet(S) /\ Cardinality(S) = (Len(v) \div 2) + 1
  <2>1. /\ IsFiniteSet(Ahead(v, b)) /\ b \notin Ahead(v, b)
        /\ Cardinality(Ahead(v, b)) = Len(v) \div 2
    BY AheadCounted
  <2> QED
    BY <2>1, FS_AddElement
<1>3. IsFiniteSet(T) /\ Cardinality(T) = Len(w) \div 2
  BY AheadCounted
<1>4. ASSUME NEW i \in S
      PROVE  i \in Nat /\ i + d \in T
  <2>1. i \in 1..Len(v) /\ v[i] \in Nat /\ v[i] <= v[b]
    <3>1. CASE i = b
      BY <1>1, <3>1
    <3>2. CASE i \in Ahead(v, b)
      <4>1. i \in 1..Len(v) /\ Earlier(v, i, b)
        BY <3>2 DEF Ahead
      <4>2. v[i] \in Nat
        BY <1>1, <4>1
      <4> DEFINE x == v[i]  y == v[b]
      <4>3. x < y \/ x = y
        BY <4>1 DEF Earlier
      <4>4. x \in Nat /\ y \in Nat
        BY <1>1, <4>2
      <4> HIDE DEF x, y
      <4>5. x <= y
        BY <4>3, <4>4
      <4> QED
        BY <4>1, <4>2, <4>5 DEF x, y
    <3> QED
      BY <1>4, <3>1, <3>2
  <2> DEFINE x == v[i]  y == v[b]  z == w[c]  n == Len(v)  m == Len(w)
  <2>a. x \in Nat /\ y \in Nat /\ z \in Nat /\ x <= y /\ y < z /\ n \in Nat /\ m \in Nat
        /\ n - 1 + d = m /\ i \in 1..n /\ z < v[n]
    BY <1>1, <2>1
  <2>2. i # n
    <3> SUFFICES ASSUME i = n PROVE FALSE
      OBVIOUS
    <3>1. z < x
      BY <2>a
    <3> HIDE DEF x, y, z
    <3> QED
      BY <2>a, <3>1
  <2>3. i \in 1..(n - 1) /\ i + d \in 1..m
    <3> HIDE DEF n, m, x, y, z
    <3> QED
      BY <2>a, <2>2
  <2>4. w[i + d] < z
    <3>1. w[i + d] = x
      BY <2>3
    <3>2. x < z
      <4> HIDE DEF x, y, z
      <4> QED
        BY <2>a
    <3> QED
      BY <3>1, <3>2
  <2> QED
    BY <2>1, <2>3, <2>4 DEF Ahead, Earlier
<1>5. f \in Injection(S, T)
  <2>1. f \in [S -> T]
    BY <1>4
  <2>2. \A i, j \in S : f[i] = f[j] => i = j
    <3>1. \A i, j \in S : i \in Nat /\ j \in Nat /\ f[i] = i + d /\ f[j] = j + d
      BY <1>4
    <3> SUFFICES ASSUME NEW i \in S, NEW j \in S, f[i] = f[j]
                 PROVE  i = j
      OBVIOUS
    <3>2. i \in Nat /\ j \in Nat /\ i + d = j + d
      BY <3>1
    <3> QED
      BY <3>2
  <2> HIDE DEF f, S, T
  <2> QED
    BY <2>1, <2>2 DEF Injection, IsInjective
<1>6. Cardinality(S) <= Cardinality(T)
  <2> HIDE DEF f, S, T
  <2> QED
    BY <1>3, <1>5, FS_Injection
<1> QED
  <2>1. (Len(v) \div 2) + 1 <= Len(w) \div 2
    <3> HIDE DEF S, T
    <3> QED
      BY <1>2, <1>3, <1>6
  <2> QED
    BY <1>1, <2>1

(* v is w, perhaps without what it begins with, and then t.                *)
Slides(w, v, t) ==
    /\ w \in Seq(Nat) /\ v \in Seq(Nat) /\ Len(w) \in Nat /\ Len(v) \in Nat
    /\ Len(w) <= Len(v) /\ v[Len(v)] = t
    /\ \E d \in Nat : /\ Len(v) - 1 + d = Len(w)
                      /\ \A i \in 1..(Len(v) - 1) : v[i] = w[i + d]

(* The window of the rule with one more time is the window without its     *)
(* first time, where it was full, and then that time.                      *)
LEMMA WindowAdvances ==
  ASSUME NEW s \in Seq(Nat), s # <<>>, NEW t \in Nat, NEW n \in Nat \ {0},
         NEW w, w = LastOf(s, n), NEW v, v = LastOf(Append(s, t), n)
  PROVE  Slides(w, v, t)
<1> DEFINE l == Len(s)
           e == IF l > n THEN l - n ELSE 0
           g == IF l + 1 > n THEN l + 1 - n ELSE 0
           d == IF l >= n THEN 1 ELSE 0
           p == Append(s, t)
<1>1. l \in Nat \ {0}
  BY EmptySeq, LenProperties
<1>2. /\ p \in Seq(Nat) /\ Len(p) = l + 1 /\ p # <<>> /\ p[l + 1] = t
      /\ \A i \in 1..l : p[i] = s[i]
  <2>1. p \in Seq(Nat) /\ Len(p) = l + 1 /\ \A i \in 1..l : p[i] = s[i]
    BY AppendProperties
  <2>2. p[l + 1] = t
    BY AppendProperties
  <2>3. p # <<>>
    BY <1>1, <2>1, EmptySeq
  <2> QED
    BY <2>1, <2>2, <2>3
<1>3. /\ w \in Seq(Nat) /\ Len(w) \in Nat
      /\ Len(w) = (IF l > n THEN n ELSE l)
      /\ \A i \in 1..Len(w) : w[i] = s[i + e]
  BY LastOfReads
<1> HIDE DEF p
<1>4. /\ v \in Seq(Nat) /\ Len(v) \in Nat
      /\ Len(v) = (IF l + 1 > n THEN n ELSE l + 1)
      /\ \A i \in 1..Len(v) : v[i] = p[i + g]
  <2>1. v = LastOf(p, n)
    BY DEF p
  <2> QED
    <3>1. n \in Nat \ {0} /\ p \in Seq(Nat) /\ p # <<>>
      BY <1>2
    <3>2. /\ LastOf(p, n) \in Seq(Nat) /\ Len(LastOf(p, n)) \in Nat \ {0}
          /\ Len(LastOf(p, n)) = (IF Len(p) > n THEN n ELSE Len(p))
          /\ \A i \in 1..Len(LastOf(p, n)) :
                LastOf(p, n)[i] = p[i + (IF Len(p) > n THEN Len(p) - n ELSE 0)]
      BY <3>1, LastOfReads
    <3>3. Len(p) = l + 1
      BY <1>2
    <3> HIDE DEF l, g
    <3>4. (IF Len(p) > n THEN Len(p) - n ELSE 0) = g
      BY <1>1, <3>3 DEF g
    <3> QED
      BY <2>1, <3>2, <3>3, <3>4
<1> HIDE DEF l
<1>5. /\ Len(w) <= Len(v) /\ Len(v) + g = l + 1 /\ d \in Nat /\ Len(v) - 1 + d = Len(w)
      /\ d + e = g /\ e \in Nat /\ g \in Nat /\ Len(v) \in 1..Len(v) /\ Len(w) + e = l
  <2> DEFINE x == Len(w)  y == Len(v)
  <2>1. x = (IF l > n THEN n ELSE l) /\ y = (IF l + 1 > n THEN n ELSE l + 1)
    BY <1>3, <1>4
  <2> HIDE DEF x, y
  <2>2. /\ x <= y /\ y + g = l + 1 /\ d \in Nat /\ y - 1 + d = x
        /\ d + e = g /\ e \in Nat /\ g \in Nat /\ y \in 1..y /\ x + e = l
    BY <1>1, <2>1
  <2> QED
    BY <2>2 DEF x, y
<1>6. v[Len(v)] = t
  BY <1>2, <1>4, <1>5
<1> HIDE DEF e, g, d
<1>7. ASSUME NEW i \in 1..(Len(v) - 1)
      PROVE  v[i] = w[i + d]
  <2>1. /\ i \in 1..Len(v) /\ i + g \in 1..l /\ i + d \in 1..Len(w) /\ (i + d) + e = i + g
    BY <1>1, <1>3, <1>4, <1>5
  <2> QED
    BY <1>2, <1>3, <1>4, <2>1
<1> QED
  BY <1>3, <1>4, <1>5, <1>6, <1>7 DEF Slides

(***************************************************************************)
(* The next target.                                                        *)
(***************************************************************************)
TargetStep(ctx, acc, h) == acc + h.target
Targets == INSTANCE LeftFolds WITH Step <- TargetStep
TargetOf(h) == h.target
TargetSum(window) == SumOf(TargetOf, window)

HeaderWork == [timestamp : Nat, target : 1..PowLimit]

LEMMA TargetsAdd ==
  ASSUME RetargetAssumption, NEW w \in Seq(HeaderWork)
  PROVE  TargetSum(w) \in Nat
<1> DEFINE n == Len(w)
           Runs(f) == f = [i \in 0..n |-> IF i = 0 THEN 0 ELSE f[i - 1] + TargetOf(w[i])]
           g == CHOOSE f : Runs(f)
<1>1. \E f : Runs(f)
  <2>1. PICK f : Targets!Unfolds(f, 0, 0, w, n)
    BY LenProperties, Targets!LeftFoldExists
  <2> QED
    BY <2>1 DEF Targets!Unfolds, TargetStep, TargetOf
<1>2. Runs(g)
  BY <1>1
<1>3. TargetSum(w) = g[n]
  BY DEF TargetSum, SumOf, Folded
<1> HIDE DEF g
<1>4. n \in Nat /\ \A k \in 1..n : w[k].target \in Nat
  <2>1. n \in Nat /\ \A k \in 1..n : w[k] \in HeaderWork
    BY LenProperties, ElementOfSeq
  <2>2. \A r \in HeaderWork : r.target \in Nat
    BY DEF HeaderWork, RetargetAssumption
  <2> QED
    BY <2>1, <2>2
<1> DEFINE Good == {k \in Nat : g[k] \in Nat}
<1>5. 0 \in Good
  BY <1>2, <1>4
<1>6. ASSUME NEW k \in Nat, k < n, k \in Good
      PROVE  k + 1 \in Good
  <2>1. k + 1 \in 0..n /\ k + 1 \in 1..n /\ k + 1 # 0 /\ (k + 1) - 1 = k
    BY <1>4, <1>6
  <2>2. g[k + 1] = g[k] + w[k + 1].target
    BY <1>2, <2>1 DEF TargetOf
  <2>3. g[k] \in Nat /\ w[k + 1].target \in Nat
    BY <1>4, <1>6, <2>1
  <2> QED
    BY <2>1, <2>2, <2>3
<1>7. \A k \in 0..n : k \in Good
  <2> HIDE DEF Good, n
  <2> QED
    BY <1>4, <1>5, <1>6, UpTo
<1> QED
  BY <1>3, <1>4, <1>7

(* A target is at most the limit, and the time of a window is never        *)
(* negative.                                                               *)
LEMMA AdjustedBounded ==
  ASSUME RetargetAssumption, NEW a \in Nat, NEW measured \in Nat, NEW expected \in Nat \ {0}
  PROVE  Adjusted(a, measured, expected) \in 0..PowLimit
<1> DEFINE least == expected \div 3
           clamped == IF measured < least THEN least ELSE LesserOf(measured, expected * 3)
<1>1. least \in Nat /\ expected * 3 \in Nat /\ PowLimit \in Nat
  BY DEF RetargetAssumption
<1>2. clamped \in Nat
  <2> HIDE DEF least
  <2> QED
    BY <1>1 DEF LesserOf
<1>3. Adjusted(a, measured, expected) = LesserOf((a * clamped) \div expected, PowLimit)
  BY DEF Adjusted
<1> HIDE DEF clamped
<1>4. (a * clamped) \div expected \in Nat
  <2>1. a * clamped \in Nat
    BY <1>2, NatTimes
  <2> QED
    BY <2>1, NatDivided
<1> DEFINE x == (a * clamped) \div expected
<1> HIDE DEF x
<1>5. LesserOf(x, PowLimit) \in 0..PowLimit
  BY <1>1, <1>4 DEF LesserOf, x
<1> QED
  BY <1>3, <1>5 DEF x

(* Times in order and targets within the limit give such a target.         *)
InOrder(h) == \A i \in 1..(Len(h) - 1) : h[i].timestamp <= h[i + 1].timestamp

LEMMA NextTargetExists ==
  ASSUME RetargetAssumption, NEW h \in Seq(HeaderWork), h # <<>>, InOrder(h)
  PROVE  NextWorkTarget(h) \in 1..PowLimit
<1> DEFINE w == LastOf(h, DgwWindow)
           n == Len(w)
           adjusted == Adjusted(TargetSum(w) \div n, w[n].timestamp - w[1].timestamp,
                                (n - 1) * Spacing)
<1>1. NextWorkTarget(h) =
        CASE \/ \E i \in 1..(n - 1) : w[i + 1].timestamp < w[i].timestamp
             \/ \E i \in 1..n : w[i].target = 0 -> NoTarget
          [] n = 1 -> LesserOf(w[1].target, PowLimit)
          [] OTHER -> IF adjusted = 0 THEN 1 ELSE adjusted
  BY DEF NextWorkTarget, TargetSum, SumOf, TargetOf
<1> DEFINE d == IF Len(h) > DgwWindow THEN Len(h) - DgwWindow ELSE 0
<1>2. /\ w \in Seq(HeaderWork) /\ n \in Nat \ {0}
      /\ n = (IF Len(h) > DgwWindow THEN DgwWindow ELSE Len(h))
      /\ \A i \in 1..n : w[i] = h[i + d]
  BY LastOfReads DEF RetargetAssumption
<1>3. d \in Nat /\ n + d = Len(h) /\ Len(h) \in Nat
  <2>1. Len(h) \in Nat /\ DgwWindow \in Nat
    BY LenProperties DEF RetargetAssumption
  <2> HIDE DEF n
  <2> QED
    BY <1>2, <2>1
<1> HIDE DEF d, w
<1>4. \A i \in 1..n : w[i].timestamp \in Nat /\ w[i].target \in 1..PowLimit
  <2>1. \A i \in 1..n : w[i] \in HeaderWork
    BY <1>2, ElementOfSeq
  <2> QED
    BY <2>1 DEF HeaderWork
<1>5. \A i \in 1..(n - 1) : w[i].timestamp <= w[i + 1].timestamp
  <2> SUFFICES ASSUME NEW i \in 1..(n - 1)
               PROVE  w[i].timestamp <= w[i + 1].timestamp
    OBVIOUS
  <2>1. i \in 1..n /\ i + 1 \in 1..n /\ i + d \in 1..(Len(h) - 1) /\ (i + 1) + d = (i + d) + 1
    <3> HIDE DEF n
    <3> QED
      BY <1>2, <1>3
  <2>2. w[i] = h[i + d] /\ w[i + 1] = h[(i + d) + 1]
    <3>1. w[i + 1] = h[(i + 1) + d]
      BY <1>2, <2>1
    <3>2. w[i] = h[i + d]
      BY <1>2, <2>1
    <3> QED
      BY <2>1, <3>1, <3>2
  <2> QED
    BY <2>1, <2>2 DEF InOrder
<1>6. w[1].timestamp <= w[n].timestamp
  <2> DEFINE Good == {k \in Nat : k + 1 \in 1..n => w[1].timestamp <= w[k + 1].timestamp}
  <2>1. 0 \in Good
    BY <1>2, <1>4
  <2>2. ASSUME NEW k \in Nat, k < n - 1, k \in Good
        PROVE  k + 1 \in Good
    <3>1. /\ k + 1 \in 1..n /\ k + 1 \in 1..(n - 1) /\ 1 \in 1..n
      <4> HIDE DEF n
      <4> QED
        BY <1>2, <2>2
    <3> DEFINE j == k + 1
               a == w[1].timestamp
               b == w[j].timestamp
               c == w[j + 1].timestamp
    <3>2. a <= b
      BY <2>2, <3>1
    <3>3. j \in 1..(n - 1) /\ j + 1 \in 1..n /\ j \in 1..n
      <4> HIDE DEF n
      <4> QED
        BY <1>2, <3>1
    <3>4. b <= c
      <4> HIDE DEF j
      <4> QED
        BY <1>5, <3>3
    <3>5. a \in Nat /\ b \in Nat /\ c \in Nat
      <4> HIDE DEF j
      <4> QED
        BY <1>4, <3>1, <3>3
    <3>6. a <= c
      <4> HIDE DEF a, b, c
      <4> QED
        BY <3>2, <3>4, <3>5
    <3> QED
      BY <3>6
  <2>3. n - 1 \in Nat /\ n - 1 \in 0..(n - 1) /\ (n - 1) + 1 = n /\ n \in 1..n
    <3> HIDE DEF n
    <3> QED
      BY <1>2
  <2>4. n - 1 \in Good
    <3> HIDE DEF Good, n
    <3> QED
      BY <2>1, <2>2, <2>3, UpTo
  <2> QED
    BY <2>3, <2>4
<1>7. CASE n = 1
  <2>1. w[1].target \in 1..PowLimit /\ w[1].target # 0 /\ PowLimit \in Nat
    BY <1>4, <1>7 DEF RetargetAssumption
  <2>2. NextWorkTarget(h) = LesserOf(w[1].target, PowLimit)
    <3>1. ~ \E i \in 1..(n - 1) : w[i + 1].timestamp < w[i].timestamp
      BY <1>7
    <3>2. ~ \E i \in 1..n : w[i].target = 0
      BY <1>4
    <3> HIDE DEF n, adjusted
    <3> QED
      BY <1>1, <1>7, <3>1, <3>2
  <2> QED
    BY <2>1, <2>2 DEF LesserOf
<1>8. CASE n # 1
  <2>1. adjusted \in 0..PowLimit
    <3>1. TargetSum(w) \div n \in Nat
      <4> HIDE DEF n
      <4> QED
        BY <1>2, TargetsAdd, NatDivided
    <3>2. w[n].timestamp - w[1].timestamp \in Nat
      <4>1. 1 \in 1..n /\ n \in 1..n
        <5> HIDE DEF n
        <5> QED
          BY <1>2
      <4> DEFINE a == w[1].timestamp
                 b == w[n].timestamp
      <4>2. a \in Nat /\ b \in Nat /\ a <= b
        BY <1>4, <1>6, <4>1
      <4> HIDE DEF a, b
      <4>3. b - a \in Nat
        BY <4>2
      <4> QED
        BY <4>3 DEF a, b
    <3>3. (n - 1) * Spacing \in Nat \ {0}
      <4> HIDE DEF n
      <4>1. n - 1 \in Nat \ {0} /\ Spacing \in Nat \ {0}
        BY <1>2, <1>8 DEF RetargetAssumption
      <4> DEFINE a == n - 1
      <4>2. \A x, y \in Nat \ {0} : x * y \in Nat \ {0}
        OBVIOUS
      <4> HIDE DEF a
      <4>3. a * Spacing \in Nat \ {0}
        BY <4>1, <4>2 DEF a
      <4> QED
        BY <4>3 DEF a
    <3> HIDE DEF n
    <3> QED
      BY <3>1, <3>2, <3>3, AdjustedBounded
  <2>2. NextWorkTarget(h) = IF adjusted = 0 THEN 1 ELSE adjusted
    <3>1. ~ \E i \in 1..(n - 1) : w[i + 1].timestamp < w[i].timestamp
      <4> SUFFICES ASSUME NEW i \in 1..(n - 1), w[i + 1].timestamp < w[i].timestamp
                   PROVE  FALSE
        OBVIOUS
      <4>1. i \in 1..n /\ i + 1 \in 1..n
        <5> HIDE DEF n
        <5> QED
          BY <1>2
      <4> DEFINE a == w[i].timestamp
                 b == w[i + 1].timestamp
      <4>2. a \in Nat /\ b \in Nat /\ a <= b /\ b < a
        BY <1>4, <1>5, <4>1
      <4> HIDE DEF a, b
      <4> QED
        BY <4>2
    <3>2. ~ \E i \in 1..n : w[i].target = 0
      BY <1>4
    <3> HIDE DEF n, adjusted
    <3> QED
      BY <1>1, <1>8, <3>1, <3>2
  <2>3. PowLimit \in Nat \ {0}
    BY DEF RetargetAssumption
  <2> HIDE DEF adjusted
  <2> QED
    BY <2>1, <2>2, <2>3
<1> QED
  BY <1>7, <1>8

(***************************************************************************)
(* The chain of headers.                                                   *)
(***************************************************************************)

(* The inductive invariant: the times kept for the retarget are medians,   *)
(* the last of them that of the chain as it stands, and in order.          *)
HeadersInv ==
    /\ raw_timestamps \in Seq(Nat) /\ raw_timestamps # <<>>
    /\ history \in Seq(HeaderWork) /\ history # <<>> /\ InOrder(history)
    /\ history[Len(history)].timestamp = MedianTimestamp(raw_timestamps)
    /\ work \in Nat /\ WorkCounted

LEMMA MedianOfOne ==
  ASSUME RetargetAssumption, NEW t \in Nat
  PROVE  MedianTimestamp(<<t>>) = t
<1> DEFINE s == <<t>>
           w == LastOf(s, MedianTimeWindow)
<1>1. s \in Seq(Nat) /\ s # <<>> /\ Len(s) = 1 /\ s[1] = t
  OBVIOUS
<1>2. MedianTimeWindow \in Nat \ {0}
  BY DEF RetargetAssumption
<1> HIDE DEF s
<1>3. Len(w) = 1 /\ w[1] = s[1]
  <2>1. /\ Len(w) \in Nat \ {0}
        /\ Len(w) = (IF Len(s) > MedianTimeWindow THEN MedianTimeWindow ELSE Len(s))
        /\ \A i \in 1..Len(w) :
             w[i] = s[i + (IF Len(s) > MedianTimeWindow THEN Len(s) - MedianTimeWindow ELSE 0)]
    BY <1>1, <1>2, LastOfReads
  <2> HIDE DEF w
  <2>2. Len(w) = 1 /\ 1 \in 1..Len(w)
    BY <1>1, <1>2, <2>1
  <2>3. 1 + (IF Len(s) > MedianTimeWindow THEN Len(s) - MedianTimeWindow ELSE 0) = 1
    BY <1>1, <1>2
  <2> QED
    BY <2>1, <2>2, <2>3
<1>4. PICK c \in 1..Len(w) : MedianTimestamp(s) = w[c]
  <2> HIDE DEF w
  <2>1. w = LastOf(s, MedianTimeWindow)
    BY DEF w
  <2> QED
    BY <1>1, <1>2, <2>1, MedianFound
<1>5. c = 1
  <2> HIDE DEF w
  <2> QED
    BY <1>3
<1> QED
  BY <1>1, <1>3, <1>4, <1>5 DEF s

(* A block whose time is above the median does not take the median back,   *)
(* and the time kept for it is the median with it.                         *)
LEMMA EffectiveTimeAdvances ==
  ASSUME RetargetAssumption, NEW s \in Seq(Nat), s # <<>>, NEW t \in Nat,
         MedianTimestamp(s) < t
  PROVE  /\ EffectiveTime(s, t) = MedianTimestamp(Append(s, t))
         /\ EffectiveTime(s, t) \in Nat
         /\ MedianTimestamp(s) <= EffectiveTime(s, t)
<1> DEFINE n == MedianTimeWindow
           l == Len(s)
           k == n - 1
           q == LastOf(s, k)
           p == Append(s, t)
           r == Append(q, t)
           v == LastOf(p, n)
           u == LastOf(r, n)
           w == LastOf(s, n)
           e == IF l > k THEN l - k ELSE 0
<1>1. n \in Nat \ {0} /\ l \in Nat \ {0} /\ k \in Nat
  <2>1. n \in Nat \ {0}
    BY DEF RetargetAssumption
  <2>2. l \in Nat \ {0}
    BY EmptySeq, LenProperties
  <2> QED
    BY <2>1, <2>2
<1>2. /\ q \in Seq(Nat) /\ Len(q) = (IF l > k THEN k ELSE l)
      /\ \A i \in 1..Len(q) : q[i] = s[i + e]
  <2> HIDE DEF k
  <2> QED
    BY <1>1, LastOfSuffix
<1>3. /\ p \in Seq(Nat) /\ Len(p) = l + 1 /\ p[l + 1] = t
      /\ \A i \in 1..l : p[i] = s[i]
  BY AppendProperties
<1> HIDE DEF q
<1>4. /\ r \in Seq(Nat) /\ Len(r) = Len(q) + 1 /\ r[Len(q) + 1] = t
      /\ \A i \in 1..Len(q) : r[i] = q[i]
  BY <1>2, AppendProperties
<1> HIDE DEF p, r
<1>5. /\ v \in Seq(Nat) /\ Len(v) = (IF Len(p) > n THEN n ELSE Len(p))
      /\ \A i \in 1..Len(v) : v[i] = p[i + (IF Len(p) > n THEN Len(p) - n ELSE 0)]
  BY <1>1, <1>3, LastOfSuffix
<1>6. /\ u \in Seq(Nat) /\ Len(u) = (IF Len(r) > n THEN n ELSE Len(r))
      /\ \A i \in 1..Len(u) : u[i] = r[i + (IF Len(r) > n THEN Len(r) - n ELSE 0)]
  BY <1>1, <1>4, LastOfSuffix
<1> HIDE DEF u, v, l, n
<1>7. /\ Len(q) \in Nat /\ Len(v) = Len(q) + 1 /\ e \in Nat /\ Len(q) + e = l
      /\ Len(u) = Len(q) + 1
      /\ (IF Len(p) > n THEN Len(p) - n ELSE 0) = e
      /\ (IF Len(r) > n THEN Len(r) - n ELSE 0) = 0
  <2> DEFINE lq == Len(q)  lp == Len(p)  lr == Len(r)  lv == Len(v)  lu == Len(u)
  <2>1. /\ lq = (IF l > k THEN k ELSE l) /\ lp = l + 1 /\ lr = lq + 1
        /\ lv = (IF lp > n THEN n ELSE lp) /\ lu = (IF lr > n THEN n ELSE lr)
    BY <1>2, <1>3, <1>4, <1>5, <1>6
  <2> HIDE DEF lq, lp, lr, lv, lu
  <2>2. /\ lq \in Nat /\ lv = lq + 1 /\ e \in Nat /\ lq + e = l
        /\ lu = lq + 1
        /\ (IF lp > n THEN lp - n ELSE 0) = e
        /\ (IF lr > n THEN lr - n ELSE 0) = 0
    BY <1>1, <2>1
  <2> QED
    BY <2>2 DEF lq, lp, lr, lv, lu
<1> HIDE DEF e, k
<1>8. u = v
  <2>1. Len(u) = Len(v) /\ Len(u) = Len(q) + 1 /\ Len(q) \in Nat
    BY <1>7
  <2>2. ASSUME NEW i \in 1..Len(u)
        PROVE  u[i] = v[i]
    <3>1. u[i] = r[i + 0] /\ v[i] = p[i + e] /\ i + 0 = i
      <4>1. u[i] = r[i + 0]
        BY <1>6, <1>7, <2>2
      <4>2. i \in 1..Len(v)
        BY <2>1
      <4>3. v[i] = p[i + e]
        BY <1>5, <1>7, <4>2
      <4> QED
        BY <2>1, <4>1, <4>3
    <3>2. CASE i \in 1..Len(q)
      <4>1. i + e \in 1..l
        BY <1>1, <1>7, <3>2
      <4> QED
        BY <1>2, <1>3, <1>4, <3>1, <3>2, <4>1
    <3>3. CASE i = Len(q) + 1
      <4>1. i + e = l + 1
        BY <1>1, <1>7, <3>3
      <4> QED
        BY <1>3, <1>4, <3>1, <3>3, <4>1
    <3> QED
      BY <2>1, <3>2, <3>3
  <2> QED
    BY <1>5, <1>6, <2>1, <2>2, SeqEqual
<1>9. EffectiveTime(s, t) = MedianTimestamp(p)
  <2>1. MedianTimestamp(r) = u[CHOOSE i \in 1..Len(u) : SortedPlace(u, i) = Len(u) \div 2]
    BY DEF MedianTimestamp, u, n
  <2>2. MedianTimestamp(p) = v[CHOOSE i \in 1..Len(v) : SortedPlace(v, i) = Len(v) \div 2]
    BY DEF MedianTimestamp, v, n
  <2>3. EffectiveTime(s, t) = MedianTimestamp(r)
    BY DEF EffectiveTime, r, q, k, n
  <2> QED
    BY <1>8, <2>1, <2>2, <2>3
<1>10. /\ MedianTimestamp(p) \in Nat /\ MedianTimestamp(s) <= MedianTimestamp(p)
  <2>1. w = LastOf(s, MedianTimeWindow) /\ MedianTimeWindow \in Nat \ {0}
    BY <1>1 DEF w, n
  <2>2. v = LastOf(Append(s, t), MedianTimeWindow)
    BY DEF v, p, n
  <2>3. p # <<>> /\ v = LastOf(p, MedianTimeWindow)
    <3>1. Len(p) # 0
      BY <1>1, <1>3
    <3> QED
      BY <1>3, <3>1, <2>2, EmptySeq DEF p
  <2> HIDE DEF w
  <2>4. /\ w \in Seq(Nat) /\ v \in Seq(Nat) /\ Len(w) \in Nat /\ Len(v) \in Nat
        /\ Len(w) <= Len(v) /\ v[Len(v)] = t
        /\ \E d \in Nat : /\ Len(v) - 1 + d = Len(w)
                          /\ \A i \in 1..(Len(v) - 1) : v[i] = w[i + d]
    <3>1. Slides(w, v, t)
      BY <2>1, <2>2, WindowAdvances
    <3> QED
      BY <3>1 DEF Slides
  <2>5. PICK c \in 1..Len(w) : SortedPlace(w, c) = Len(w) \div 2 /\ MedianTimestamp(s) = w[c]
    BY <2>1, MedianFound
  <2>6. PICK b \in 1..Len(v) : SortedPlace(v, b) = Len(v) \div 2 /\ MedianTimestamp(p) = v[b]
    BY <1>3, <2>1, <2>3, MedianFound
  <2>7. w[c] < v[Len(v)]
    BY <2>4, <2>5
  <2>8. w[c] <= v[b]
    BY <2>4, <2>5, <2>6, <2>7, MedianAdvances
  <2>9. v[b] \in Nat
    BY <2>4, ElementOfSeq
  <2> QED
    BY <2>5, <2>6, <2>8, <2>9
<1> QED
  BY <1>9, <1>10 DEF p

LEMMA HeadersInitInv ==
  ASSUME RetargetAssumption, HeadersInit
  PROVE  HeadersInv
<1>1. /\ GenesisTime \in Nat /\ PowLimit \in 1..PowLimit
      /\ [timestamp |-> GenesisTime, target |-> PowLimit] \in HeaderWork
  BY DEF RetargetAssumption, HeaderWork
<1>2. /\ raw_timestamps \in Seq(Nat) /\ raw_timestamps # <<>>
      /\ MedianTimestamp(raw_timestamps) = GenesisTime
  BY <1>1, MedianOfOne DEF HeadersInit
<1>3. /\ history \in Seq(HeaderWork) /\ history # <<>> /\ Len(history) = 1
      /\ history[1].timestamp = GenesisTime
  BY <1>1 DEF HeadersInit
<1>4. InOrder(history)
  BY <1>3 DEF InOrder
<1>5. work = 0
  BY DEF HeadersInit
<1> QED
  BY <1>2, <1>3, <1>4, <1>5 DEF HeadersInv, WorkCounted

LEMMA WorkAdded ==
  ASSUME RetargetAssumption, NEW target \in 1..PowLimit
  PROVE  BlockWork(target) \in Nat \ {0}
<1>1. target + 1 \in 1..HashSpace /\ HashSpace \in Nat
  BY DEF RetargetAssumption
<1>2. \A a \in Nat : \A b \in 1..a : a \div b \in Nat \ {0}
  OBVIOUS
<1> QED
  BY <1>1, <1>2 DEF BlockWork

LEMMA HeadersNextInv ==
  ASSUME RetargetAssumption, HeadersInv, [ExtendHeaders]_headerVars
  PROVE  HeadersInv'
<1>1. CASE ExtendHeaders
  <2> DEFINE target == NextWorkTarget(history)
  <2>1. target \in 1..PowLimit
    BY NextTargetExists DEF HeadersInv
  <2> HIDE DEF target
  <2>2. PICK t \in Nat : /\ MedianTimestamp(raw_timestamps) < t
                         /\ raw_timestamps' = Append(raw_timestamps, t)
                         /\ history' = Append(history, [timestamp |-> EffectiveTime(raw_timestamps, t),
                                                        target |-> target])
    BY <1>1 DEF ExtendHeaders, TimestampValid, target
  <2>3. work' = work + BlockWork(target)
    BY <1>1 DEF ExtendHeaders, AddChainWork, target
  <2> DEFINE time == EffectiveTime(raw_timestamps, t)
             h == [timestamp |-> time, target |-> target]
             n == Len(history)
  <2>4. /\ time = MedianTimestamp(raw_timestamps') /\ time \in Nat
        /\ MedianTimestamp(raw_timestamps) <= time
    <3>1. raw_timestamps \in Seq(Nat) /\ raw_timestamps # <<>>
      BY DEF HeadersInv
    <3>2. /\ time = MedianTimestamp(Append(raw_timestamps, t)) /\ time \in Nat
          /\ MedianTimestamp(raw_timestamps) <= time
      BY <2>2, <3>1, EffectiveTimeAdvances
    <3>3. MedianTimestamp(raw_timestamps') = MedianTimestamp(Append(raw_timestamps, t))
      BY <2>2
    <3> QED
      BY <3>2, <3>3
  <2> HIDE DEF time
  <2>5. raw_timestamps' \in Seq(Nat) /\ raw_timestamps' # <<>>
    BY <2>2 DEF HeadersInv
  <2>6. h \in HeaderWork /\ h.timestamp = time
    BY <2>1, <2>4 DEF HeaderWork
  <2>7. history \in Seq(HeaderWork) /\ history # <<>> /\ n \in Nat \ {0}
    BY LenProperties, EmptySeq DEF HeadersInv
  <2>8. history' = Append(history, h)
    BY <2>2 DEF time
  <2> HIDE DEF h
  <2>9. /\ history' \in Seq(HeaderWork) /\ history' # <<>> /\ Len(history') = n + 1
        /\ history'[n + 1] = h /\ \A i \in 1..n : history'[i] = history[i]
    BY <2>6, <2>7, <2>8, AppendProperties
  <2>10. InOrder(history)'
    <3> SUFFICES ASSUME NEW i \in 1..n
                 PROVE  history'[i].timestamp <= history'[i + 1].timestamp
      BY <2>7, <2>9 DEF InOrder
    <3>1. CASE i = n
      <4>1. history[n].timestamp <= time
        BY <2>4 DEF HeadersInv
      <4> QED
        BY <2>6, <2>9, <3>1, <4>1
    <3>2. CASE i # n
      <4>1. i \in 1..(n - 1) /\ i + 1 \in 1..n
        <5> HIDE DEF n
        <5> QED
          BY <2>7, <3>2
      <4>2. history[i].timestamp <= history[i + 1].timestamp
        BY <4>1 DEF HeadersInv, InOrder
      <4> QED
        BY <2>9, <4>1, <4>2
    <3> QED
      BY <3>1, <3>2
  <2>11. work' \in Nat /\ WorkCounted'
    <3>1. BlockWork(target) \in Nat \ {0}
      BY <2>1, WorkAdded
    <3>2. work \in Nat /\ work >= n - 1
      BY DEF HeadersInv, WorkCounted
    <3> DEFINE b == BlockWork(target)
    <3> HIDE DEF b, n
    <3>3. work + b \in Nat /\ work + b >= (n + 1) - 1
      BY <2>7, <3>1, <3>2 DEF b
    <3> QED
      BY <2>3, <2>9, <3>3 DEF b, WorkCounted
  <2>12. history'[Len(history')].timestamp = MedianTimestamp(raw_timestamps')
    BY <2>4, <2>6, <2>9
  <2> QED
    BY <2>5, <2>9, <2>10, <2>11, <2>12 DEF HeadersInv
<1>2. CASE UNCHANGED headerVars
  BY <1>2 DEF headerVars, HeadersInv, WorkCounted, InOrder
<1> QED
  BY <1>1, <1>2

(* Whatever the clocks, the chain of headers keeps its invariant.          *)
THEOREM HeadersInvariant ==
  ASSUME RetargetAssumption
  PROVE  HeadersSpec => []HeadersInv
<1>1. HeadersInit => HeadersInv
  BY HeadersInitInv
<1>2. HeadersInv /\ [ExtendHeaders]_headerVars => HeadersInv'
  BY HeadersNextInv
<1> QED
  BY <1>1, <1>2, PTL DEF HeadersSpec

(* From every chain of valid headers next_work_target returns a target     *)
(* within the limit, and every block has added work.                       *)
THEOREM ChainCanGoOn ==
  ASSUME RetargetAssumption
  PROVE  HeadersSpec => []HeadersGoOn
<1>1. HeadersInv => HeadersGoOn
  <2> SUFFICES ASSUME HeadersInv PROVE TargetDerivable
    BY DEF HeadersGoOn, HeadersInv
  <2> QED
    BY NextTargetExists DEF HeadersInv, TargetDerivable
<1> QED
  BY <1>1, HeadersInvariant, PTL
=============================================================================
