------------------------------ MODULE NodeProofs ------------------------------
(***************************************************************************)
(* Proofs about module Node, for every block tree, transaction set, clock  *)
(* and number of crashes.                                                  *)
(*                                                                         *)
(* The inductive invariant says three things beyond the checked ones: the  *)
(* index is closed under ancestors and every indexed block validates on    *)
(* the state its branch yields; the log is a sequence in which every       *)
(* record can be replayed after the ones before it; and the index holds    *)
(* exactly the logged blocks, up to the record being written and to what a *)
(* failed sync left behind.                                                *)
(***************************************************************************)
EXTENDS Node, FiniteSums, SequenceTheorems, TLAPS

(* Every ancestor of an indexed block is indexed.                          *)
IndexClosed ==
    \A b \in Known : \A i \in 1..Len(PathTo[b]) : PathTo[b][i] \in DOMAIN index

(* Every indexed block is valid after its branch, at its accepted_at.      *)
IndexValid ==
    \A b \in DOMAIN index :
        ValidBlock(StateAt[Parent[b]], b, index[b].accepted_at)

(* Every record of the log can be replayed after the ones before it.       *)
LogReplayable ==
    \A i \in 1..Len(log) :
        LET r == log[i] IN
        /\ r.block \notin LoggedBlocks(i - 1)
        /\ Parent[r.block] \in LoggedBlocks(i - 1) \cup {Genesis}
        /\ ValidBlock(StateAt[Parent[r.block]], r.block, r.accepted_at)

(* How the index relates to the log in each phase of the process.          *)
IndexFromLog ==
    /\ status \in {"down", "corrupt"} =>
          DOMAIN index = {} /\ inflight = None /\ ~storage_faulted
    /\ status = "replaying" =>
          DOMAIN index = LoggedBlocks(replayed) /\ inflight = None
    /\ status = "up" =>
          /\ LoggedBlocks(synced) \subseteq DOMAIN index
          /\ inflight = None /\ ~storage_faulted =>
                DOMAIN index = LoggedBlocks(Len(log))
          /\ inflight # None =>
                /\ ~storage_faulted
                /\ synced < Len(log)
                /\ inflight = log[Len(log)]
                /\ DOMAIN index = LoggedBlocks(Len(log) - 1)

(* The pool is empty in every phase but "up".                              *)
PoolOnlyWhenUp == status # "up" => mempool = {}

ChainInv ==
    /\ TipHasMostWork
    /\ ActiveChainAgrees
    /\ StateMatchesReplay
    /\ state.tip \in Known

LogInv ==
    /\ LogReplayable
    /\ IndexFromLog
    /\ acked \subseteq LoggedBlocks(synced)
    /\ OnlyTornLogFails

PoolInv ==
    /\ PoolOnlyWhenUp
    /\ MempoolIndependent

Inv == TypeOK /\ IndexClosed /\ IndexValid /\ ChainInv /\ LogInv /\ PoolInv

-----------------------------------------------------------------------------
(* The chain to a block is the chain to its parent and the block.          *)
LEMMA ChainToStep ==
  ASSUME NEW b \in Blocks
  PROVE  ChainTo(b) = Append(ChainTo(Parent[b]), b)
<1>1. PathTo[Parent[b]] \in Seq(Tree) /\ PathTo[b] = Append(PathTo[Parent[b]], b)
  BY TreeAssumption, PathAssumption DEF Tree
<1>2. <<Genesis>> \in Seq(Tree) /\ b \in Tree
  BY DEF Tree
<1> QED
  BY <1>1, <1>2 DEF ChainTo

(* Logged blocks of a longer prefix include those of a shorter one.        *)
LEMMA LoggedMonotonic ==
  ASSUME NEW m \in Nat, NEW n \in Nat, m <= n
  PROVE  LoggedBlocks(m) \subseteq LoggedBlocks(n)
  BY DEF LoggedBlocks

(* The state every memory reset produces satisfies the chain invariants.   *)
LEMMA ResetChain ==
  ASSUME ResetMemory
  PROVE  /\ DOMAIN index' = {} /\ index' = EmptyIndex
         /\ IndexClosed' /\ IndexValid' /\ ChainInv'
         /\ mempool' = {} /\ inflight' = None /\ storage_faulted' = FALSE
         /\ replayed' = 0 /\ MempoolIndependent'
<1>1. index' = EmptyIndex /\ DOMAIN index' = {} /\ Known' = {Genesis}
  BY DEF ResetMemory, EmptyIndex, Known
<1>2. state' = GenesisState /\ state'.tip = Genesis
  BY DEF ResetMemory, GenesisState
<1>3. IndexClosed'
  BY <1>1, PathAssumption DEF IndexClosed
<1>4. IndexValid'
  BY <1>1 DEF IndexValid
<1>5. TipHasMostWork'
  BY <1>1 DEF TipHasMostWork
<1>6. ActiveChainAgrees'
  BY <1>1, <1>2, PathAssumption, WorkAssumption
     DEF ActiveChainAgrees, ResetMemory, ChainTo
<1>7. StateMatchesReplay'
  BY <1>2, StateAtAssumption DEF StateMatchesReplay
<1> QED
  BY <1>1, <1>2, <1>3, <1>4, <1>5, <1>6, <1>7
     DEF ChainInv, ResetMemory, MempoolIndependent

(* A block that prepare_block admits is valid after its own branch, also   *)
(* when it was validated against the active state.                         *)
LEMMA PreparedIsValid ==
  ASSUME TypeOK, StateMatchesReplay,
         NEW b \in Blocks, NEW a, PrepareBlock(b, a)
  PROVE  /\ b \notin Known /\ Parent[b] \in Known
         /\ ValidBlock(StateAt[Parent[b]], b, a)
  BY DEF PrepareBlock, StateMatchesReplay

(* prepare_block admits every unknown block with a known parent that is    *)
(* valid after its branch: rebuild_state_to cannot fail on an indexed one. *)
LEMMA ValidIsPrepared ==
  ASSUME StateMatchesReplay, IndexClosed, IndexValid,
         NEW b \in Blocks, NEW a, b \notin Known, Parent[b] \in Known,
         ValidBlock(StateAt[Parent[b]], b, a)
  PROVE  PrepareBlock(b, a)
<1>1. RebuildValid(Parent[b])
  BY DEF RebuildValid, IndexClosed, IndexValid
<1> QED
  BY <1>1 DEF PrepareBlock, StateMatchesReplay

(* commit_prepared preserves the chain invariants and indexes the block.   *)
LEMMA CommitChain ==
  ASSUME TypeOK, IndexClosed, IndexValid, ChainInv,
         NEW b \in Blocks, NEW a \in Times, b \notin Known, Parent[b] \in Known,
         ValidBlock(StateAt[Parent[b]], b, a),
         CommitPrepared(b, a)
  PROVE  /\ DOMAIN index' = DOMAIN index \cup {b}
         /\ index' \in [DOMAIN index' -> [work : Nat, accepted_at : Times]]
         /\ active_chain' \in Seq(Tree) /\ active_work' \in Nat
         /\ state' \in ChainStates
         /\ IndexClosed' /\ IndexValid' /\ ChainInv'
         /\ active_work' > active_work \/ UNCHANGED <<active_chain, active_work, state>>
         /\ state'.tip = state.tip => state' = state
<1> DEFINE w == WorkAt(Parent[b]) + BlockWork[b]
<1>1. /\ DOMAIN index' = DOMAIN index \cup {b}
      /\ index'[b] = [work |-> w, accepted_at |-> a]
      /\ \A x \in DOMAIN index : index'[x] = index[x] /\ x # b
      /\ Known' = Known \cup {b}
  BY DEF CommitPrepared, Known
<1>2. Parent[b] \in Tree /\ b \in Tree /\ BlockWork[b] \in Nat \ {0}
  BY TreeAssumption DEF Tree
<1>3. WorkAt(Parent[b]) = TotalWork[Parent[b]]
  BY WorkAssumption DEF WorkAt, ChainInv, ActiveChainAgrees, Known
<1>4. w = TotalWork[b] /\ w \in Nat
  BY <1>2, <1>3, WorkAssumption DEF Tree
<1>5. index' \in [DOMAIN index' -> [work : Nat, accepted_at : Times]]
  <2>1. index' = [x \in DOMAIN index \cup {b} |->
                     IF x = b THEN [work |-> w, accepted_at |-> a] ELSE index[x]]
    BY DEF CommitPrepared
  <2>2. \A x \in DOMAIN index : index[x] \in [work : Nat, accepted_at : Times]
    BY DEF TypeOK, ChainTypeOK
  <2> QED
    BY <1>4, <2>1, <2>2
<1>6. IndexClosed'
  <2>1. PathTo[b] = Append(PathTo[Parent[b]], b) /\ PathTo[Parent[b]] \in Seq(Blocks)
    BY <1>2, PathAssumption
  <2>2. \A i \in 1..Len(PathTo[b]) : PathTo[b][i] \in DOMAIN index \cup {b}
    BY <2>1 DEF IndexClosed
  <2> QED
    BY <1>1, <2>2 DEF IndexClosed
<1>7. IndexValid'
  BY <1>1 DEF IndexValid
<1>8. \A x \in DOMAIN index' : index'[x].work = TotalWork[x]
  BY <1>1, <1>4 DEF ChainInv, ActiveChainAgrees
<1>9. CASE Activates(w)
  <2>1. /\ active_chain' = Append(ChainTo(Parent[b]), b)
        /\ active_work' = w
        /\ state' = ApplyBlock(StateAt[Parent[b]], b)
    BY <1>9 DEF CommitPrepared, BranchChain, BranchState, ChainInv, StateMatchesReplay
  <2>2. state' = StateAt[b] /\ state'.tip = b /\ state' \in ChainStates
    <3>1. state' = StateAt[b] /\ state' \in ChainStates
      BY <1>2, <2>1, StateAtAssumption
    <3>2. state'.tip = b
      BY <2>1 DEF ApplyBlock
    <3> QED
      BY <3>1, <3>2
  <2>3. active_chain' = ChainTo(b) /\ active_chain' \in Seq(Tree)
    <3>1. active_chain' = ChainTo(b)
      BY <2>1, ChainToStep
    <3>2. PathTo[b] \in Seq(Tree) /\ <<Genesis>> \in Seq(Tree)
      BY <1>2, PathAssumption DEF Tree
    <3>3. ChainTo(b) \in Seq(Tree)
      BY <3>2 DEF ChainTo
    <3> QED
      BY <3>1, <3>3
  <2>4. TipHasMostWork' /\ active_work' > active_work
    <3>1. active_work \in Nat /\ w > active_work
      BY <1>9 DEF TypeOK, ChainTypeOK, Activates
    <3>2. \A x \in DOMAIN index : index[x].work \in Nat /\ index[x].work <= active_work
      BY DEF TypeOK, ChainTypeOK, ChainInv, TipHasMostWork
    <3> QED
      BY <1>1, <1>4, <2>1, <3>1, <3>2 DEF TipHasMostWork
  <2> QED
    BY <1>1, <1>4, <1>5, <1>6, <1>7, <1>8, <2>1, <2>2, <2>3, <2>4
       DEF ChainInv, ActiveChainAgrees, StateMatchesReplay, Known
<1>10. CASE ~Activates(w)
  <2>1. UNCHANGED <<active_chain, active_work, state>>
    BY <1>10 DEF CommitPrepared
  <2>2. TipHasMostWork'
    <3>1. active_work \in Nat /\ w <= active_work
      BY <1>4, <1>10 DEF TypeOK, ChainTypeOK, Activates
    <3> QED
      BY <1>1, <2>1, <3>1 DEF TipHasMostWork, ChainInv
  <2> QED
    BY <1>1, <1>5, <1>6, <1>7, <1>8, <2>1, <2>2
       DEF ChainInv, ActiveChainAgrees, StateMatchesReplay, TypeOK, ChainTypeOK
<1> QED
  BY <1>9, <1>10

-----------------------------------------------------------------------------
(* The initial state satisfies the invariant.                              *)
LEMMA InitInv == Init => Inv
<1> SUFFICES ASSUME Init PROVE Inv
  OBVIOUS
<1>1. index = EmptyIndex /\ DOMAIN index = {} /\ Known = {Genesis}
  BY DEF Init, EmptyIndex, Known
<1>2. GenesisState \in ChainStates /\ GenesisState.tip = Genesis
  <2>1. Genesis \in Tree
    BY DEF Tree
  <2> QED
    BY <2>1, StateAtAssumption DEF GenesisState
<1>3. TypeOK
  <2>1. index \in [DOMAIN index -> [work : Nat, accepted_at : Times]]
    BY <1>1 DEF EmptyIndex
  <2>2. log \in Seq(Records) /\ Len(log) = 0 /\ active_chain \in Seq(Tree)
    BY DEF Init, Tree
  <2>3. DiskTypeOK
    BY <2>2 DEF DiskTypeOK, Init
  <2>4. ChainTypeOK
    BY <1>1, <1>2, <2>1, <2>2 DEF ChainTypeOK, Init
  <2>5. ProcessTypeOK
    BY NodeAssumption DEF ProcessTypeOK, Init
  <2>6. FlagTypeOK
    BY DEF FlagTypeOK, Init
  <2> QED
    BY <2>3, <2>4, <2>5, <2>6 DEF TypeOK
<1>4. IndexClosed /\ IndexValid
  BY <1>1, PathAssumption DEF IndexClosed, IndexValid
<1>5. ChainInv
  <2>1. TipHasMostWork
    BY <1>1 DEF TipHasMostWork
  <2>2. ActiveChainAgrees
    BY <1>1, <1>2, PathAssumption, WorkAssumption DEF ActiveChainAgrees, ChainTo, Init
  <2>3. StateMatchesReplay
    BY <1>2, StateAtAssumption DEF StateMatchesReplay, Init
  <2> QED
    BY <1>1, <1>2, <2>1, <2>2, <2>3 DEF ChainInv, Init
<1>6. LogInv
  BY <1>1 DEF LogInv, LogReplayable, IndexFromLog, OnlyTornLogFails, LoggedBlocks, Init
<1>7. PoolInv
  BY DEF PoolInv, PoolOnlyWhenUp, MempoolIndependent, Init
<1> QED
  BY <1>3, <1>4, <1>5, <1>6, <1>7 DEF Inv

-----------------------------------------------------------------------------
(* A step that leaves the chain alone preserves what is said of it alone.  *)
LEMMA ChainUnchanged ==
  ASSUME ChainTypeOK, IndexClosed, IndexValid, ChainInv, UNCHANGED chain
  PROVE  ChainTypeOK' /\ IndexClosed' /\ IndexValid' /\ ChainInv'
<1>1. /\ index' = index /\ active_chain' = active_chain
      /\ active_work' = active_work /\ state' = state
  BY DEF chain
<1>2. Known' = Known
  BY <1>1 DEF Known
<1>3. ChainTypeOK'
  BY <1>1 DEF ChainTypeOK
<1>4. IndexClosed'
  BY <1>1, <1>2 DEF IndexClosed
<1>5. IndexValid'
  BY <1>1 DEF IndexValid
<1>6. ChainInv'
  BY <1>1, <1>2
     DEF ChainInv, TipHasMostWork, ActiveChainAgrees, StateMatchesReplay
<1> QED
  BY <1>3, <1>4, <1>5, <1>6

(* Two logs with a common prefix log the same blocks in it.                *)
LEMMA CommonPrefix ==
  ASSUME NEW n \in Nat, \A i \in 1..n : log'[i] = log[i], NEW m \in 0..n
  PROVE  LoggedBlocks(m)' = LoggedBlocks(m)
  BY DEF LoggedBlocks

(* A prefix of a replayable log is replayable.                             *)
LEMMA PrefixReplayable ==
  ASSUME LogReplayable, DiskTypeOK, NEW n \in 0..Len(log),
         \A i \in 1..n : log'[i] = log[i]
  PROVE  \A i \in 1..n :
           /\ log'[i].block \notin LoggedBlocks(i - 1)'
           /\ Parent[log'[i].block] \in LoggedBlocks(i - 1)' \cup {Genesis}
           /\ ValidBlock(StateAt[Parent[log'[i].block]], log'[i].block,
                         log'[i].accepted_at)
<1> SUFFICES ASSUME NEW i \in 1..n
             PROVE  /\ log'[i].block \notin LoggedBlocks(i - 1)'
                    /\ Parent[log'[i].block] \in LoggedBlocks(i - 1)' \cup {Genesis}
                    /\ ValidBlock(StateAt[Parent[log'[i].block]], log'[i].block,
                                  log'[i].accepted_at)
  OBVIOUS
<1>1. Len(log) \in Nat /\ n \in Nat /\ i \in 1..Len(log) /\ i - 1 \in 0..n
  BY DEF DiskTypeOK
<1>2. LoggedBlocks(i - 1)' = LoggedBlocks(i - 1)
  BY <1>1, CommonPrefix
<1>3. log'[i] = log[i]
  OBVIOUS
<1> QED
  BY <1>1, <1>2, <1>3 DEF LogReplayable

(* write_all of a new record.                                              *)
LEMMA WriteRecordInv ==
  ASSUME Inv, NEW b \in Blocks, NEW a \in Times, WriteRecord(b, a)
  PROVE  Inv'
<1> DEFINE r == [block |-> b, accepted_at |-> a]
<1>1. /\ status = "up" /\ inflight = None /\ ~storage_faulted
      /\ PrepareBlock(b, a)
      /\ log' = Append(log, r) /\ inflight' = r
      /\ UNCHANGED <<torn, synced, status, chain, pool, storage_faulted,
                     replayed, acked, crashes>>
  BY DEF WriteRecord, AcceptsBlocks, Running, AppendRecord, RecordOf
<1>2. r \in Records /\ r # None /\ log \in Seq(Records) /\ Len(log) \in Nat
  BY NodeAssumption DEF Records, Inv, TypeOK, DiskTypeOK
<1>3. /\ log' \in Seq(Records) /\ Len(log') = Len(log) + 1
      /\ log'[Len(log) + 1] = r
      /\ \A i \in 1..Len(log) : log'[i] = log[i]
  BY <1>1, <1>2
<1>4. b \notin Known /\ Parent[b] \in Known /\ ValidBlock(StateAt[Parent[b]], b, a)
  BY <1>1, PreparedIsValid DEF Inv, ChainInv
<1>5. DOMAIN index = LoggedBlocks(Len(log)) /\ index' = index
  BY <1>1 DEF Inv, LogInv, IndexFromLog, chain
<1>6. \A m \in 0..Len(log) : LoggedBlocks(m)' = LoggedBlocks(m)
  BY <1>2, <1>3, CommonPrefix
<1>7. TypeOK'
  <2>1. DiskTypeOK'
    BY <1>1, <1>2, <1>3 DEF DiskTypeOK, Inv, TypeOK
  <2>2. ChainTypeOK'
    BY <1>1, ChainUnchanged DEF Inv, TypeOK
  <2>3. FlagTypeOK'
    BY <1>1 DEF FlagTypeOK, Inv, TypeOK
  <2>4. ProcessTypeOK'
    BY <1>1, <1>2 DEF ProcessTypeOK, Inv, TypeOK, pool
  <2> QED
    BY <2>1, <2>2, <2>3, <2>4 DEF TypeOK
<1>8. IndexClosed' /\ IndexValid' /\ ChainInv'
  BY <1>1, ChainUnchanged DEF Inv, TypeOK
<1>9. LogReplayable'
  <2>1. ASSUME NEW i \in 1..Len(log)
        PROVE  /\ log'[i].block \notin LoggedBlocks(i - 1)'
               /\ Parent[log'[i].block] \in LoggedBlocks(i - 1)' \cup {Genesis}
               /\ ValidBlock(StateAt[Parent[log'[i].block]], log'[i].block,
                             log'[i].accepted_at)
    <3>1. Len(log) \in 0..Len(log)
      BY <1>2
    <3> QED
      BY <1>3, <3>1, PrefixReplayable DEF Inv, LogInv, TypeOK
  <2>2. PICK n \in Nat : n = Len(log)
    BY <1>2
  <2>3. LoggedBlocks(n)' = DOMAIN index
    BY <1>5, <1>6, <2>2
  <2>4. /\ r.block \notin LoggedBlocks(n)'
        /\ Parent[r.block] \in LoggedBlocks(n)' \cup {Genesis}
        /\ ValidBlock(StateAt[Parent[r.block]], r.block, r.accepted_at)
    BY <1>4, <2>3 DEF Known
  <2>5. SUFFICES ASSUME NEW i \in 1..Len(log')
                 PROVE  /\ log'[i].block \notin LoggedBlocks(i - 1)'
                        /\ Parent[log'[i].block] \in LoggedBlocks(i - 1)' \cup {Genesis}
                        /\ ValidBlock(StateAt[Parent[log'[i].block]], log'[i].block,
                                      log'[i].accepted_at)
    BY DEF LogReplayable
  <2>6. CASE i \in 1..Len(log)
    BY <2>1, <2>6
  <2>7. CASE i = n + 1
    <3>1. log'[i] = r /\ i - 1 = n
      BY <1>3, <2>2, <2>7
    <3> QED
      BY <2>4, <3>1
  <2> QED
    BY <1>2, <1>3, <2>2, <2>6, <2>7
<1>10. IndexFromLog'
  <2>1. LoggedBlocks(synced)' \subseteq DOMAIN index' /\ synced' < Len(log')
    <3>1. synced \in 0..Len(log) /\ synced' = synced
      BY <1>1 DEF Inv, TypeOK, DiskTypeOK
    <3>2. LoggedBlocks(synced)' = LoggedBlocks(synced)
      BY <1>6, <3>1 DEF LoggedBlocks
    <3>3. LoggedBlocks(synced) \subseteq DOMAIN index
      BY <1>1 DEF Inv, LogInv, IndexFromLog
    <3> QED
      BY <1>2, <1>3, <1>5, <3>1, <3>2, <3>3
  <2>2. DOMAIN index' = LoggedBlocks(Len(log) - 1)'
    <3>1. Len(log') - 1 = Len(log) /\ Len(log) \in 0..Len(log)
      BY <1>2, <1>3
    <3>2. LoggedBlocks(Len(log) - 1)' = {log'[i].block : i \in 1..Len(log)}
      BY <3>1 DEF LoggedBlocks
    <3>3. {log'[i].block : i \in 1..Len(log)} = LoggedBlocks(Len(log))
      BY <1>3 DEF LoggedBlocks
    <3> QED
      BY <1>5, <3>2, <3>3
  <2>3. inflight' = log'[Len(log')] /\ inflight' # None
    BY <1>1, <1>2, <1>3
  <2> QED
    BY <1>1, <2>1, <2>2, <2>3 DEF IndexFromLog
<1>11. LogInv'
  <2>1. acked' \subseteq LoggedBlocks(synced)'
    <3>1. synced \in 0..Len(log) /\ synced' = synced /\ acked' = acked
      BY <1>1 DEF Inv, TypeOK, DiskTypeOK
    <3> QED
      BY <1>6, <3>1 DEF Inv, LogInv, LoggedBlocks
  <2>2. OnlyTornLogFails'
    BY <1>1 DEF OnlyTornLogFails
  <2> QED
    BY <1>9, <1>10, <2>1, <2>2 DEF LogInv
<1>12. PoolInv'
  BY <1>1 DEF Inv, PoolInv, PoolOnlyWhenUp, MempoolIndependent, pool, chain
<1> QED
  BY <1>7, <1>8, <1>11, <1>12 DEF Inv

(* A step that leaves the log alone keeps it replayable.                   *)
LEMMA LogUnchanged ==
  ASSUME LogReplayable, log' = log
  PROVE  /\ LogReplayable'
         /\ \A m \in Int : LoggedBlocks(m)' = LoggedBlocks(m)
         /\ synced' = synced => LoggedBlocks(synced)' = LoggedBlocks(synced)
         /\ LoggedBlocks(Len(log))' = LoggedBlocks(Len(log))
         /\ LoggedBlocks(Len(log) - 1)' = LoggedBlocks(Len(log) - 1)
  BY DEF LogReplayable, LoggedBlocks

(* A failed write, with or without part of the record in the file.         *)
LEMMA WriteFailsInv ==
  ASSUME Inv, NEW b \in Blocks, NEW a \in Times, WriteFails(b, a)
  PROVE  Inv'
<1>1. /\ status = "up" /\ inflight = None
      /\ storage_faulted' = TRUE /\ torn' \in BOOLEAN
      /\ UNCHANGED <<log, synced, status, chain, pool, inflight, replayed,
                     acked, crashes>>
  BY DEF WriteFails, AcceptsBlocks, Running
<1>2. TypeOK'
  <2>1. DiskTypeOK'
    BY <1>1 DEF DiskTypeOK, Inv, TypeOK
  <2>2. ChainTypeOK'
    BY <1>1, ChainUnchanged DEF Inv, TypeOK
  <2>3. FlagTypeOK'
    BY <1>1 DEF FlagTypeOK, Inv, TypeOK
  <2>4. ProcessTypeOK'
    BY <1>1 DEF ProcessTypeOK, Inv, TypeOK, pool
  <2> QED
    BY <2>1, <2>2, <2>3, <2>4 DEF TypeOK
<1>3. IndexClosed' /\ IndexValid' /\ ChainInv'
  BY <1>1, ChainUnchanged DEF Inv, TypeOK
<1>4. LogInv'
  <2>1. LogReplayable' /\ LoggedBlocks(synced)' = LoggedBlocks(synced)
    BY <1>1, LogUnchanged DEF Inv, LogInv
  <2>2. index' = index
    BY <1>1 DEF chain
  <2>3. IndexFromLog'
    BY <1>1, <2>1, <2>2 DEF Inv, LogInv, IndexFromLog
  <2>4. OnlyTornLogFails'
    BY <1>1 DEF OnlyTornLogFails
  <2> QED
    BY <1>1, <2>1, <2>3, <2>4 DEF Inv, LogInv
<1>5. PoolInv'
  BY <1>1 DEF Inv, PoolInv, PoolOnlyWhenUp, MempoolIndependent, pool, chain
<1> QED
  BY <1>2, <1>3, <1>4, <1>5 DEF Inv

(* A failed sync_all.                                                      *)
LEMMA SyncFailsInv ==
  ASSUME Inv, SyncFails
  PROVE  Inv'
<1>1. /\ status = "up" /\ inflight # None
      /\ storage_faulted' = TRUE /\ inflight' = None
      /\ UNCHANGED <<disk, status, chain, pool, replayed, acked, crashes>>
  BY DEF SyncFails
<1>2. log' = log /\ synced' = synced /\ torn' = torn
  BY <1>1 DEF disk
<1>3. TypeOK'
  <2>1. DiskTypeOK'
    BY <1>1, <1>2 DEF DiskTypeOK, Inv, TypeOK
  <2>2. ChainTypeOK'
    BY <1>1, ChainUnchanged DEF Inv, TypeOK
  <2>3. FlagTypeOK'
    BY <1>1, <1>2 DEF FlagTypeOK, Inv, TypeOK
  <2>4. ProcessTypeOK'
    BY <1>1 DEF ProcessTypeOK, Inv, TypeOK, pool
  <2> QED
    BY <2>1, <2>2, <2>3, <2>4 DEF TypeOK
<1>4. IndexClosed' /\ IndexValid' /\ ChainInv'
  BY <1>1, ChainUnchanged DEF Inv, TypeOK
<1>5. LogInv'
  <2>1. LogReplayable' /\ LoggedBlocks(synced)' = LoggedBlocks(synced)
    BY <1>2, LogUnchanged DEF Inv, LogInv
  <2>2. index' = index
    BY <1>1 DEF chain
  <2>3. IndexFromLog'
    BY <1>1, <2>1, <2>2 DEF Inv, LogInv, IndexFromLog
  <2>4. OnlyTornLogFails'
    BY <1>1 DEF OnlyTornLogFails
  <2> QED
    BY <1>1, <2>1, <2>3, <2>4 DEF Inv, LogInv
<1>6. PoolInv'
  BY <1>1 DEF Inv, PoolInv, PoolOnlyWhenUp, MempoolIndependent, pool, chain
<1> QED
  BY <1>3, <1>4, <1>5, <1>6 DEF Inv

(* Admission of a transaction.                                             *)
LEMMA SubmitTransactionInv ==
  ASSUME Inv, NEW t \in Txs, SubmitTransaction(t)
  PROVE  Inv'
<1>1. /\ status = "up" /\ inflight = None
      /\ ValidMempoolTransaction(state, t, SpentBy(mempool))
      /\ mempool' = mempool \cup {t}
      /\ UNCHANGED <<disk, status, chain, storage_faulted, inflight, replayed,
                     acked, crashes>>
  BY DEF SubmitTransaction, Running
<1>2. log' = log /\ synced' = synced /\ torn' = torn /\ index' = index
  BY <1>1 DEF disk, chain
<1>3. TypeOK'
  <2>1. DiskTypeOK'
    BY <1>1, <1>2 DEF DiskTypeOK, Inv, TypeOK
  <2>2. ChainTypeOK'
    BY <1>1, ChainUnchanged DEF Inv, TypeOK
  <2>3. FlagTypeOK'
    BY <1>1, <1>2 DEF FlagTypeOK, Inv, TypeOK
  <2>4. ProcessTypeOK'
    BY <1>1 DEF ProcessTypeOK, Inv, TypeOK
  <2> QED
    BY <2>1, <2>2, <2>3, <2>4 DEF TypeOK
<1>4. IndexClosed' /\ IndexValid' /\ ChainInv'
  BY <1>1, ChainUnchanged DEF Inv, TypeOK
<1>5. LogInv'
  <2>1. /\ LogReplayable' /\ LoggedBlocks(synced)' = LoggedBlocks(synced)
        /\ LoggedBlocks(Len(log))' = LoggedBlocks(Len(log))
    BY <1>2, LogUnchanged DEF Inv, LogInv
  <2>2. IndexFromLog'
    BY <1>1, <1>2, <2>1 DEF Inv, LogInv, IndexFromLog
  <2>3. OnlyTornLogFails'
    BY <1>1 DEF OnlyTornLogFails
  <2> QED
    BY <1>1, <2>1, <2>2, <2>3 DEF Inv, LogInv
<1>6. MempoolIndependent'
  <2>1. Inputs[t] \subseteq state.utxos /\ Inputs[t] \cap SpentBy(mempool) = {}
    BY <1>1 DEF ValidMempoolTransaction
  <2>2. \A u \in mempool : Inputs[t] \cap Inputs[u] = {}
    BY <2>1 DEF SpentBy
  <2>3. state' = state
    BY <1>1 DEF chain
  <2> QED
    BY <1>1, <2>1, <2>2, <2>3 DEF Inv, PoolInv, MempoolIndependent
<1>7. PoolInv'
  BY <1>1, <1>6 DEF PoolInv, PoolOnlyWhenUp
<1> QED
  BY <1>3, <1>4, <1>5, <1>7 DEF Inv

(* What revalidate_mempool keeps is conflict-free and spends confirmed     *)
(* outputs of the new state.                                               *)
LEMMA RevalidatedPool ==
  ASSUME mempool \subseteq Txs, NEW confirmed, RevalidateMempool(confirmed)
  PROVE  mempool' \subseteq Txs /\ MempoolIndependent'
<1>1. PICK kept \in SUBSET mempool :
         Retained(state', confirmed, kept) /\ mempool' = kept
  BY DEF RevalidateMempool
<1>2. \A t \in kept :
         /\ Inputs[t] \subseteq state'.utxos
         /\ Inputs[t] \cap SpentBy({u \in kept : u < t}) = {}
  BY <1>1 DEF Retained, ValidMempoolTransaction
<1>3. \A t, u \in kept : u < t => Inputs[t] \cap Inputs[u] = {}
  BY <1>2 DEF SpentBy
<1>4. \A t, u \in kept : t # u => t < u \/ u < t
  BY RulesAssumption
<1> QED
  BY <1>1, <1>2, <1>3, <1>4 DEF MempoolIndependent

(* sync_all succeeds, the block is committed and the pool revalidated.     *)
LEMMA SyncAndCommitInv ==
  ASSUME Inv, SyncAndCommit
  PROVE  Inv' /\ (active_work' > active_work \/ UNCHANGED state)
<1> DEFINE b == inflight.block
           a == inflight.accepted_at
<1>1. /\ status = "up" /\ inflight # None /\ synced' = Len(log)
      /\ CommitPrepared(b, a) /\ inflight' = None /\ acked' = acked \cup {b}
      /\ UNCHANGED <<log, torn, status, storage_faulted, replayed, crashes>>
  BY DEF SyncAndCommit, SyncAll
<1>2. /\ ~storage_faulted /\ inflight = log[Len(log)] /\ synced < Len(log)
      /\ DOMAIN index = LoggedBlocks(Len(log) - 1)
  BY <1>1 DEF Inv, LogInv, IndexFromLog
<1>3. log \in Seq(Records) /\ Len(log) \in 1..Len(log) /\ inflight \in Records
  BY <1>2 DEF Inv, TypeOK, DiskTypeOK
<1>4. b \in Blocks /\ a \in Times
  BY <1>3 DEF Records
<1>5. b \notin Known /\ Parent[b] \in Known /\ ValidBlock(StateAt[Parent[b]], b, a)
  <2>1. /\ b \notin DOMAIN index /\ Parent[b] \in DOMAIN index \cup {Genesis}
        /\ ValidBlock(StateAt[Parent[b]], b, a)
    BY <1>2, <1>3 DEF Inv, LogInv, LogReplayable
  <2> QED
    BY <1>4, <2>1, TreeAssumption DEF Known
<1>6. /\ DOMAIN index' = DOMAIN index \cup {b}
      /\ index' \in [DOMAIN index' -> [work : Nat, accepted_at : Times]]
      /\ active_chain' \in Seq(Tree) /\ active_work' \in Nat
      /\ state' \in ChainStates
      /\ IndexClosed' /\ IndexValid' /\ ChainInv'
      /\ active_work' > active_work \/ UNCHANGED <<active_chain, active_work, state>>
      /\ state'.tip = state.tip => state' = state
  BY <1>1, <1>4, <1>5, CommitChain DEF Inv
<1>7. DOMAIN index' = LoggedBlocks(Len(log))
  <2>1. LoggedBlocks(Len(log)) = LoggedBlocks(Len(log) - 1) \cup {log[Len(log)].block}
    BY <1>3 DEF LoggedBlocks
  <2> QED
    BY <1>2, <1>6, <2>1
<1>8. MempoolIndependent' /\ mempool' \subseteq Txs
  <2>1. CASE state'.tip # state.tip
    <3>1. mempool \subseteq Txs /\ RevalidateMempool(BlockTxs[b])
      BY <2>1 DEF SyncAndCommit, Inv, TypeOK, ProcessTypeOK
    <3> QED
      BY <3>1, RevalidatedPool
  <2>2. CASE state'.tip = state.tip
    <3>1. mempool' = mempool /\ state' = state
      BY <1>6, <2>2 DEF SyncAndCommit, pool
    <3> QED
      BY <3>1 DEF Inv, PoolInv, MempoolIndependent, TypeOK, ProcessTypeOK
  <2> QED
    BY <2>1, <2>2
<1>9. TypeOK'
  <2>1. DiskTypeOK'
    BY <1>1, <1>3 DEF DiskTypeOK, Inv, TypeOK
  <2>2. ChainTypeOK'
    BY <1>4, <1>6 DEF ChainTypeOK, Inv, TypeOK
  <2>3. FlagTypeOK'
    BY <1>1 DEF FlagTypeOK, Inv, TypeOK
  <2>4. ProcessTypeOK'
    BY <1>1, <1>4, <1>8 DEF ProcessTypeOK, Inv, TypeOK
  <2> QED
    BY <2>1, <2>2, <2>3, <2>4 DEF TypeOK
<1>10. LogInv'
  <2>1. LogReplayable'
    BY <1>1, LogUnchanged DEF Inv, LogInv
  <2>2. /\ LoggedBlocks(synced)' = LoggedBlocks(Len(log))
        /\ LoggedBlocks(Len(log))' = LoggedBlocks(Len(log))
    BY <1>1 DEF LoggedBlocks
  <2>3. IndexFromLog'
    BY <1>1, <1>7, <2>2 DEF IndexFromLog
  <2>4. acked' \subseteq LoggedBlocks(synced)'
    <3>1. LoggedBlocks(synced) \subseteq LoggedBlocks(Len(log))
      BY <1>2, <1>3, LoggedMonotonic DEF Inv, TypeOK, DiskTypeOK
    <3> QED
      BY <1>1, <1>6, <1>7, <2>2, <3>1 DEF Inv, LogInv
  <2>5. OnlyTornLogFails'
    BY <1>1 DEF OnlyTornLogFails
  <2> QED
    BY <2>1, <2>3, <2>4, <2>5 DEF LogInv
<1>11. PoolInv'
  BY <1>1, <1>8 DEF PoolInv, PoolOnlyWhenUp
<1> QED
  BY <1>6, <1>9, <1>10, <1>11 DEF Inv

(* One whole record is replayed.                                           *)
LEMMA ReplayRecordInv ==
  ASSUME Inv, ReplayRecord
  PROVE  Inv'
<1> DEFINE r == log[replayed + 1]
<1>1. /\ status = "replaying" /\ replayed < Len(log)
      /\ PrepareBlock(r.block, r.accepted_at)
      /\ CommitPrepared(r.block, r.accepted_at)
      /\ replayed' = replayed + 1
      /\ UNCHANGED <<disk, status, pool, storage_faulted, inflight, acked, crashes>>
  BY DEF ReplayRecord
<1>2. log' = log /\ synced' = synced /\ torn' = torn /\ mempool' = mempool
  BY <1>1 DEF disk, pool
<1>3. /\ log \in Seq(Records) /\ replayed \in Nat /\ replayed + 1 \in 1..Len(log)
      /\ r \in Records /\ r.block \in Blocks /\ r.accepted_at \in Times
  <2>1. log \in Seq(Records) /\ replayed \in Nat /\ replayed + 1 \in 1..Len(log)
    BY <1>1 DEF Inv, TypeOK, DiskTypeOK
  <2>2. r \in Records
    BY <2>1
  <2> QED
    BY <2>1, <2>2 DEF Records
<1>4. /\ r.block \notin Known /\ Parent[r.block] \in Known
      /\ ValidBlock(StateAt[Parent[r.block]], r.block, r.accepted_at)
  BY <1>1, <1>3, PreparedIsValid DEF Inv, ChainInv
<1>5. /\ DOMAIN index' = DOMAIN index \cup {r.block}
      /\ index' \in [DOMAIN index' -> [work : Nat, accepted_at : Times]]
      /\ active_chain' \in Seq(Tree) /\ active_work' \in Nat
      /\ state' \in ChainStates
      /\ IndexClosed' /\ IndexValid' /\ ChainInv'
  BY <1>1, <1>3, <1>4, CommitChain DEF Inv
<1>6. TypeOK'
  <2>1. DiskTypeOK'
    BY <1>1, <1>2, <1>3 DEF DiskTypeOK, Inv, TypeOK
  <2>2. ChainTypeOK'
    BY <1>3, <1>5 DEF ChainTypeOK, Inv, TypeOK
  <2>3. FlagTypeOK'
    BY <1>1, <1>2 DEF FlagTypeOK, Inv, TypeOK
  <2>4. ProcessTypeOK'
    BY <1>1, <1>2 DEF ProcessTypeOK, Inv, TypeOK
  <2> QED
    BY <2>1, <2>2, <2>3, <2>4 DEF TypeOK
<1>7. LogInv'
  <2>1. LogReplayable' /\ LoggedBlocks(synced)' = LoggedBlocks(synced)
    BY <1>2, LogUnchanged DEF Inv, LogInv
  <2>2. DOMAIN index' = LoggedBlocks(replayed)'
    <3>1. DOMAIN index = LoggedBlocks(replayed)
      BY <1>1 DEF Inv, LogInv, IndexFromLog
    <3>2. LoggedBlocks(replayed)' = LoggedBlocks(replayed) \cup {r.block}
      BY <1>1, <1>2, <1>3 DEF LoggedBlocks
    <3> QED
      BY <1>5, <3>1, <3>2
  <2>3. IndexFromLog'
    BY <1>1, <2>2 DEF Inv, LogInv, IndexFromLog
  <2>4. OnlyTornLogFails'
    BY <1>1 DEF OnlyTornLogFails
  <2> QED
    BY <1>1, <2>1, <2>3, <2>4 DEF Inv, LogInv
<1>8. PoolInv'
  BY <1>1, <1>2 DEF Inv, PoolInv, PoolOnlyWhenUp, MempoolIndependent
<1> QED
  BY <1>5, <1>6, <1>7, <1>8 DEF Inv

(* A reset of the memory keeps its types.                                  *)
LEMMA ResetType ==
  ASSUME ResetMemory
  PROVE  /\ ChainTypeOK' /\ mempool' \subseteq Txs /\ inflight' = None
         /\ storage_faulted' \in BOOLEAN
<1>1. index' = EmptyIndex /\ active_chain' = <<Genesis>> /\ active_work' = 0
      /\ state' = GenesisState
  BY DEF ResetMemory
<1>2. GenesisState \in ChainStates /\ Genesis \in Tree
  BY StateAtAssumption DEF Tree
<1>3. ChainTypeOK'
  <2>1. DOMAIN index' = {}
    BY <1>1 DEF EmptyIndex
  <2>2. index' \in [DOMAIN index' -> [work : Nat, accepted_at : Times]]
    BY <1>1, <2>1 DEF EmptyIndex
  <2>3. active_chain' \in Seq(Tree)
    BY <1>1, <1>2
  <2> QED
    BY <1>1, <1>2, <2>1, <2>2, <2>3 DEF ChainTypeOK
<1> QED
  BY <1>3 DEF ResetMemory

(* A step that resets the memory and truncates the log at or after the     *)
(* last synced record preserves the invariant.                             *)
LEMMA ResetInv ==
  ASSUME Inv, ResetMemory, UNCHANGED acked, crashes' \in 0..MaxCrashes,
         status' \in {"down", "replaying", "corrupt"}, torn' \in BOOLEAN,
         OnlyTornLogFails',
         NEW n \in synced..Len(log),
         log' \in Seq(Records), Len(log') = n,
         \A i \in 1..n : log'[i] = log[i],
         synced' \in {synced, n}
  PROVE  Inv'
<1>1. /\ log \in Seq(Records) /\ Len(log) \in Nat /\ synced \in Nat /\ n \in Nat
      /\ synced <= n /\ n \in 0..Len(log) /\ synced' \in 0..n /\ synced <= synced'
  BY DEF Inv, TypeOK, DiskTypeOK
<1>2. /\ DOMAIN index' = {} /\ IndexClosed' /\ IndexValid' /\ ChainInv'
      /\ mempool' = {} /\ inflight' = None /\ storage_faulted' = FALSE
      /\ replayed' = 0 /\ MempoolIndependent'
  BY ResetChain
<1>3. TypeOK'
  <2>1. DiskTypeOK'
    BY <1>1, <1>2 DEF DiskTypeOK
  <2>2. ChainTypeOK' /\ storage_faulted' \in BOOLEAN
    BY ResetType
  <2>3. FlagTypeOK'
    BY <2>2 DEF FlagTypeOK
  <2>4. ProcessTypeOK'
    BY <1>2 DEF ProcessTypeOK, Inv, TypeOK
  <2> QED
    BY <2>1, <2>2, <2>3, <2>4 DEF TypeOK
<1>4. LogReplayable'
  BY <1>1, PrefixReplayable DEF LogReplayable, Inv, LogInv, TypeOK
<1>5. IndexFromLog'
  <2>1. LoggedBlocks(replayed)' = {}
    BY <1>2 DEF LoggedBlocks
  <2> QED
    BY <1>2, <2>1 DEF IndexFromLog
<1>6. acked' \subseteq LoggedBlocks(synced)'
  <2>1. \A i \in 1..synced : log'[i] = log[i] /\ i \in 1..synced'
    BY <1>1
  <2>2. LoggedBlocks(synced) \subseteq LoggedBlocks(synced)'
    BY <2>1 DEF LoggedBlocks
  <2> QED
    BY <2>2 DEF Inv, LogInv
<1>7. PoolInv'
  BY <1>2 DEF PoolInv, PoolOnlyWhenUp
<1> QED
  BY <1>2, <1>3, <1>4, <1>5, <1>6, <1>7 DEF Inv, LogInv

(* Process kill and power loss.                                            *)
LEMMA StopInv ==
  ASSUME Inv, ProcessExit \/ PowerLoss
  PROVE  Inv'
<1>1. /\ ResetMemory /\ UNCHANGED acked /\ status' = "down"
      /\ crashes < MaxCrashes /\ crashes' = crashes + 1
  BY DEF ProcessExit, PowerLoss, Stop
<1>2. crashes' \in 0..MaxCrashes
  BY <1>1, NodeAssumption DEF Inv, TypeOK, ProcessTypeOK
<1>3. OnlyTornLogFails'
  BY <1>1 DEF OnlyTornLogFails
<1>4. log \in Seq(Records) /\ synced \in 0..Len(log) /\ torn \in BOOLEAN
  BY DEF Inv, TypeOK, DiskTypeOK, FlagTypeOK
<1>5. CASE ProcessExit
  <2>1. log' = log /\ synced' = synced /\ torn' = torn
    BY <1>5 DEF ProcessExit, disk
  <2>2. PICK n \in synced..Len(log) : n = Len(log)
    BY <1>4
  <2>3. /\ torn' \in BOOLEAN /\ log' \in Seq(Records) /\ Len(log') = n
        /\ \A i \in 1..n : log'[i] = log[i]
        /\ synced' \in {synced, n}
    BY <1>4, <2>1, <2>2
  <2> QED
    BY <1>1, <1>2, <1>3, <2>3, ResetInv
<1>6. CASE PowerLoss
  <2>1. PICK n \in synced..Len(log) :
          /\ log' = SubSeq(log, 1, n)
          /\ torn' \in IF n < Len(log) \/ torn THEN BOOLEAN ELSE {FALSE}
          /\ synced' = n
    BY <1>6 DEF PowerLoss
  <2>2. torn' \in BOOLEAN
    BY <2>1
  <2>3. n \in Nat /\ n <= Len(log) /\ \A i \in 1..n : log[i] \in Records
    BY <1>4
  <2>4. /\ log' \in Seq(Records) /\ Len(log') = n
        /\ \A i \in 1..n : log'[i] = log[i]
    BY <1>4, <2>1, <2>3
  <2> QED
    BY <1>1, <1>2, <1>3, <2>1, <2>2, <2>4, ResetInv
<1> QED
  BY <1>5, <1>6

(* Node::open, and a replay that fails: it fails only on a torn tail,      *)
(* because prepare_block admits every whole record again.                  *)
LEMMA OpenInv ==
  ASSUME Inv, Open \/ (status = "replaying" /\ ReplayFails)
  PROVE  Inv'
<1>1. /\ ResetMemory /\ UNCHANGED <<disk, acked, crashes>>
      /\ status' \in {"replaying", "corrupt"}
  BY DEF Open, ReplayFails
<1>2. /\ log \in Seq(Records) /\ synced \in 0..Len(log) /\ replayed \in 0..Len(log)
      /\ torn \in BOOLEAN
  BY DEF Inv, TypeOK, DiskTypeOK, FlagTypeOK
<1>3. log' = log /\ synced' = synced /\ torn' = torn /\ torn' \in BOOLEAN
  BY <1>1, <1>2 DEF disk
<1>4. OnlyTornLogFails'
  <2>1. CASE Open
    BY <2>1 DEF Open, OnlyTornLogFails
  <2>2. CASE status = "replaying" /\ ReplayFails
    <3>1. ASSUME replayed < Len(log)
          PROVE  PrepareBlock(log[replayed + 1].block, log[replayed + 1].accepted_at)
      <4> DEFINE r == log[replayed + 1]
      <4>1. replayed + 1 \in 1..Len(log) /\ (replayed + 1) - 1 = replayed
        BY <1>2, <3>1
      <4>2. DOMAIN index = LoggedBlocks(replayed)
        BY <2>2 DEF Inv, LogInv, IndexFromLog
      <4>3. r.block \in Blocks
        <5>1. r \in Records
          BY <1>2, <4>1
        <5> QED
          BY <5>1 DEF Records
      <4>4. /\ r.block \notin DOMAIN index
            /\ Parent[r.block] \in DOMAIN index \cup {Genesis}
            /\ ValidBlock(StateAt[Parent[r.block]], r.block, r.accepted_at)
        BY <4>1, <4>2 DEF Inv, LogInv, LogReplayable
      <4>5. r.block \notin Known /\ Parent[r.block] \in Known
        BY <4>3, <4>4, TreeAssumption DEF Known
      <4> QED
        BY <4>3, <4>4, <4>5, ValidIsPrepared DEF Inv, ChainInv
    <3>2. torn
      BY <2>2, <3>1 DEF ReplayFails, ReplayStuck
    <3> QED
      BY <1>3, <3>2 DEF OnlyTornLogFails
  <2> QED
    BY <2>1, <2>2
<1>5. PICK n \in synced..Len(log) : n = Len(log)
  BY <1>2
<1>6. /\ log' \in Seq(Records) /\ Len(log') = n
      /\ \A i \in 1..n : log'[i] = log[i]
      /\ synced' \in {synced, n}
  BY <1>2, <1>3, <1>5
<1>7. crashes' \in 0..MaxCrashes /\ UNCHANGED acked
  BY <1>1 DEF Inv, TypeOK, ProcessTypeOK
<1>8. status' \in {"down", "replaying", "corrupt"}
  BY <1>1
<1> QED
  BY <1>1, <1>3, <1>4, <1>6, <1>7, <1>8, ResetInv

(* The replay reaches the end of a log with no torn tail.                  *)
LEMMA ReplayDoneInv ==
  ASSUME Inv, ReplayDone
  PROVE  Inv'
<1>1. /\ status = "replaying" /\ replayed = Len(log) /\ status' = "up"
      /\ UNCHANGED <<disk, chain, pool, storage_faulted, inflight, replayed,
                     acked, crashes>>
  BY DEF ReplayDone
<1>2. /\ log' = log /\ synced' = synced /\ torn' = torn
      /\ index' = index /\ state' = state /\ mempool' = mempool
  BY <1>1 DEF disk, chain, pool
<1>3. TypeOK'
  <2>1. DiskTypeOK'
    BY <1>1, <1>2 DEF DiskTypeOK, Inv, TypeOK
  <2>2. ChainTypeOK'
    BY <1>1, ChainUnchanged DEF Inv, TypeOK
  <2>3. FlagTypeOK'
    BY <1>1, <1>2 DEF FlagTypeOK, Inv, TypeOK
  <2>4. ProcessTypeOK'
    BY <1>1, <1>2 DEF ProcessTypeOK, Inv, TypeOK
  <2> QED
    BY <2>1, <2>2, <2>3, <2>4 DEF TypeOK
<1>4. IndexClosed' /\ IndexValid' /\ ChainInv'
  BY <1>1, ChainUnchanged DEF Inv, TypeOK
<1>5. LogInv'
  <2>1. /\ LogReplayable' /\ LoggedBlocks(synced)' = LoggedBlocks(synced)
        /\ LoggedBlocks(Len(log))' = LoggedBlocks(Len(log))
    BY <1>2, LogUnchanged DEF Inv, LogInv
  <2>2. DOMAIN index = LoggedBlocks(Len(log)) /\ inflight = None
    BY <1>1 DEF Inv, LogInv, IndexFromLog
  <2>3. LoggedBlocks(synced) \subseteq LoggedBlocks(Len(log))
    BY LoggedMonotonic DEF Inv, TypeOK, DiskTypeOK
  <2>4. IndexFromLog'
    BY <1>1, <1>2, <2>1, <2>2, <2>3 DEF IndexFromLog
  <2>5. OnlyTornLogFails'
    BY <1>1 DEF OnlyTornLogFails
  <2> QED
    BY <1>1, <2>1, <2>4, <2>5 DEF Inv, LogInv
<1>6. PoolInv'
  BY <1>1, <1>2 DEF Inv, PoolInv, PoolOnlyWhenUp, MempoolIndependent
<1> QED
  BY <1>3, <1>4, <1>5, <1>6 DEF Inv

-----------------------------------------------------------------------------
(* Every step preserves the invariant.                                     *)
LEMMA NextInv == Inv /\ [Next]_vars => Inv'
<1> SUFFICES ASSUME Inv, [Next]_vars PROVE Inv'
  OBVIOUS
<1>1. ASSUME NEW b \in Blocks, NEW a \in Times, WriteRecord(b, a) PROVE Inv'
  BY <1>1, WriteRecordInv
<1>2. ASSUME NEW b \in Blocks, NEW a \in Times, WriteFails(b, a) PROVE Inv'
  BY <1>2, WriteFailsInv
<1>3. CASE SyncAndCommit
  BY <1>3, SyncAndCommitInv
<1>4. CASE SyncFails
  BY <1>4, SyncFailsInv
<1>5. ASSUME NEW t \in Txs, SubmitTransaction(t) PROVE Inv'
  BY <1>5, SubmitTransactionInv
<1>6. CASE ProcessExit \/ PowerLoss
  BY <1>6, StopInv
<1>7. CASE Open
  BY <1>7, OpenInv
<1>8. CASE ReplayRecord
  BY <1>8, ReplayRecordInv
<1>9. CASE ReplayFails
  <2>1. status = "replaying"
    BY <1>9 DEF ReplayFails
  <2> QED
    BY <1>9, <2>1, OpenInv
<1>10. CASE ReplayDone
  BY <1>10, ReplayDoneInv
<1>11. CASE UNCHANGED vars
  <2>1. /\ UNCHANGED disk /\ UNCHANGED chain /\ UNCHANGED pool /\ status' = status
        /\ storage_faulted' = storage_faulted /\ inflight' = inflight
        /\ replayed' = replayed /\ acked' = acked /\ crashes' = crashes
    BY <1>11 DEF vars
  <2>2. /\ log' = log /\ synced' = synced /\ torn' = torn
        /\ index' = index /\ state' = state /\ mempool' = mempool
    BY <2>1 DEF disk, chain, pool
  <2>3. TypeOK'
    <3>1. DiskTypeOK'
      BY <2>1, <2>2 DEF DiskTypeOK, Inv, TypeOK
    <3>2. ChainTypeOK'
      BY <2>1, ChainUnchanged DEF Inv, TypeOK
    <3>3. FlagTypeOK'
      BY <2>1, <2>2 DEF FlagTypeOK, Inv, TypeOK
    <3>4. ProcessTypeOK'
      BY <2>1, <2>2 DEF ProcessTypeOK, Inv, TypeOK
    <3> QED
      BY <3>1, <3>2, <3>3, <3>4 DEF TypeOK
  <2>4. IndexClosed' /\ IndexValid' /\ ChainInv'
    BY <2>1, ChainUnchanged DEF Inv, TypeOK
  <2>5. LogInv'
    BY <2>1, <2>2
       DEF Inv, LogInv, LogReplayable, IndexFromLog, OnlyTornLogFails, LoggedBlocks
  <2>6. PoolInv'
    BY <2>1, <2>2 DEF Inv, PoolInv, PoolOnlyWhenUp, MempoolIndependent
  <2> QED
    BY <2>3, <2>4, <2>5, <2>6 DEF Inv
<1> QED
  BY <1>1, <1>2, <1>3, <1>4, <1>5, <1>6, <1>7, <1>8, <1>9, <1>10, <1>11 DEF Next

(* The inductive invariant holds in every reachable state.                 *)
THEOREM NodeInvariant == Spec => []Inv
  BY InitInv, NextInv, PTL DEF Spec

(* Every field of the node and of its log keeps its type.                  *)
THEOREM TypeCorrect == Spec => []TypeOK
<1>1. Inv => TypeOK
  BY DEF Inv
<1> QED
  BY <1>1, NodeInvariant, PTL

(* Fork choice: commit_prepared and every replay leave the node on a       *)
(* branch no indexed block outweighs, with the index, the chain and the    *)
(* state of a replay from genesis in agreement.                            *)
THEOREM ForkChoice ==
  Spec => [](TipHasMostWork /\ ActiveChainAgrees /\ StateMatchesReplay)
<1>1. Inv => TipHasMostWork /\ ActiveChainAgrees /\ StateMatchesReplay
  BY DEF Inv, ChainInv
<1> QED
  BY <1>1, NodeInvariant, PTL

(* Durability: no acknowledged block leaves the synced log, and a node     *)
(* that is up has indexed all of them.                                     *)
THEOREM Durability == Spec => []AckedNeverLost
<1>1. Inv => AckedNeverLost
  BY DEF Inv, LogInv, IndexFromLog, AckedNeverLost
<1> QED
  BY <1>1, NodeInvariant, PTL

(* replay_log accepts again every record submit_block wrote: only a torn   *)
(* tail makes open fail.                                                   *)
THEOREM Replayable == Spec => []OnlyTornLogFails
<1>1. Inv => OnlyTornLogFails
  BY DEF Inv, LogInv
<1> QED
  BY <1>1, NodeInvariant, PTL

(* The pool never holds a conflicting or a dependent pair.                 *)
THEOREM PoolIndependent == Spec => []MempoolIndependent
<1>1. Inv => MempoolIndependent
  BY DEF Inv, PoolInv
<1> QED
  BY <1>1, NodeInvariant, PTL

(* Action property: a running node leaves its tip only for more work.      *)
THEOREM TipImproves == Spec => TipOnlyImproves
<1> DEFINE Improves == status = "up" /\ status' = "up" /\ state'.tip # state.tip
                          => active_work' > active_work
<1>1. Inv /\ [Next]_vars => [Improves]_vars
  <2> SUFFICES ASSUME Inv, Next PROVE Improves
    OBVIOUS
  <2>1. ASSUME NEW b \in Blocks, NEW a \in Times, WriteRecord(b, a) \/ WriteFails(b, a)
        PROVE  Improves
    BY <2>1 DEF WriteRecord, WriteFails, chain
  <2>2. CASE SyncAndCommit
    BY <2>2, SyncAndCommitInv
  <2>3. CASE SyncFails
    BY <2>3 DEF SyncFails, chain
  <2>4. ASSUME NEW t \in Txs, SubmitTransaction(t) PROVE Improves
    BY <2>4 DEF SubmitTransaction, chain
  <2>5. CASE ProcessExit \/ PowerLoss \/ Open
    BY <2>5 DEF ProcessExit, PowerLoss, Stop, Open
  <2>6. CASE ReplayRecord \/ ReplayFails \/ ReplayDone
    BY <2>6 DEF ReplayRecord, ReplayFails, ReplayDone
  <2> QED
    BY <2>1, <2>2, <2>3, <2>4, <2>5, <2>6 DEF Next
<1> QED
  BY <1>1, NodeInvariant, PTL DEF Spec, TipOnlyImproves

(* Action property: after a storage fault nothing is appended, committed   *)
(* or acknowledged until a restart.                                        *)
THEOREM FaultFreezes == Spec => FaultedIsFrozen
<1> DEFINE Frozen == storage_faulted /\ status' = "up"
                        => UNCHANGED <<chain, log, acked>> /\ storage_faulted'
<1>1. Inv /\ [Next]_vars => [Frozen]_vars
  <2> SUFFICES ASSUME Inv, Next, storage_faulted, status' = "up"
               PROVE  UNCHANGED <<chain, log, acked>> /\ storage_faulted'
    OBVIOUS
  <2>1. ~ \E b \in Blocks, a \in Times : WriteRecord(b, a) \/ WriteFails(b, a)
    BY DEF WriteRecord, WriteFails, AcceptsBlocks
  <2>2. ~SyncAndCommit /\ ~SyncFails
    BY DEF SyncAndCommit, SyncFails, Inv, LogInv, IndexFromLog
  <2>3. ASSUME NEW t \in Txs, SubmitTransaction(t)
        PROVE  UNCHANGED <<chain, log, acked>> /\ storage_faulted'
    BY <2>3 DEF SubmitTransaction, disk
  <2>4. ~ProcessExit /\ ~PowerLoss /\ ~Open
    BY DEF ProcessExit, PowerLoss, Stop, Open
  <2>5. CASE ReplayRecord \/ ReplayFails
    BY <2>5 DEF ReplayRecord, ReplayFails
  <2>6. CASE ReplayDone
    BY <2>6 DEF ReplayDone, disk
  <2> QED
    BY <2>1, <2>2, <2>3, <2>4, <2>5, <2>6 DEF Next
<1> QED
  BY <1>1, NodeInvariant, PTL DEF Spec, FaultedIsFrozen

-----------------------------------------------------------------------------
(* Distinct prefixes of the log hold distinct sets of blocks.              *)
LEMMA PrefixesDiffer ==
  ASSUME DiskTypeOK, LogReplayable, NEW m \in 0..Len(log), NEW n \in 0..Len(log),
         LoggedBlocks(m) = LoggedBlocks(n)
  PROVE  m = n
<1>0. Len(log) \in Nat
  BY DEF DiskTypeOK
<1>1. ASSUME NEW i \in 0..Len(log), NEW j \in 0..Len(log), i < j
      PROVE  LoggedBlocks(i) # LoggedBlocks(j)
  <2>1. i + 1 \in 1..Len(log) /\ i + 1 \in 1..j /\ (i + 1) - 1 = i
    BY <1>0, <1>1
  <2>2. log[i + 1].block \in LoggedBlocks(j)
    BY <2>1 DEF LoggedBlocks
  <2>3. log[i + 1].block \notin LoggedBlocks(i)
    BY <2>1 DEF LogReplayable
  <2> QED
    BY <2>2, <2>3
<1> QED
  BY <1>0, <1>1

(* A prefix of n records logs n blocks.                                    *)
LEMMA PrefixCount ==
  ASSUME DiskTypeOK, LogReplayable, NEW n \in 0..Len(log)
  PROVE  Cardinality(LoggedBlocks(n)) = n
<1>0. n \in Nat /\ Len(log) \in Nat
  BY DEF DiskTypeOK
<1> DEFINE f == [i \in 1..n |-> log[i].block]
<1>1. f \in [1..n -> LoggedBlocks(n)]
  BY DEF LoggedBlocks
<1>2. \A i, j \in 1..n : f[i] = f[j] => i = j
  <2>1. ASSUME NEW i \in 1..n, NEW j \in 1..n, i < j
        PROVE  log[i].block # log[j].block
    <3>1. j \in 1..Len(log) /\ i \in 1..(j - 1)
      BY <1>0, <2>1
    <3>2. log[i].block \in LoggedBlocks(j - 1) /\ log[j].block \notin LoggedBlocks(j - 1)
      BY <3>1 DEF LoggedBlocks, LogReplayable
    <3> QED
      BY <3>2
  <2> QED
    BY <1>0, <2>1
<1>3. \A b \in LoggedBlocks(n) : \E i \in 1..n : f[i] = b
  BY DEF LoggedBlocks
<1>4. f \in Bijection(1..n, LoggedBlocks(n))
  <2> HIDE DEF f
  <2> QED
    BY <1>1, <1>2, <1>3 DEF Bijection, Injection, Surjection, IsInjective
<1>5. ExistsBijection(1..n, LoggedBlocks(n))
  BY <1>4 DEF ExistsBijection
<1> QED
  BY <1>0, <1>5, FS_CountingElements

-----------------------------------------------------------------------------
(* Among the first n records, the active tip is the earliest with maximal  *)
(* work.                                                                   *)
FirstSeenIn(n) ==
    \/ n = 0 /\ state.tip = Genesis
    \/ \E i \in 1..n :
          /\ log[i].block = state.tip
          /\ \A j \in 1..n :
                LET w == TotalWork[log[j].block] IN
                IF j < i THEN w < active_work ELSE w <= active_work

(* The index is that of a prefix of the log, in which the tip came first.  *)
SeenInv ==
    \E n \in 0..Len(log) : DOMAIN index = LoggedBlocks(n) /\ FirstSeenIn(n)

(* A step that leaves the chain alone and the records it stands for in     *)
(* place.                                                                  *)
LEMMA SeenUnchanged ==
  ASSUME Inv, SeenInv, UNCHANGED chain, Inv', Len(log) <= Len(log'),
         \A i \in 1..Len(log) : log'[i] = log[i]
  PROVE  SeenInv'
<1>1. PICK n \in 0..Len(log) : DOMAIN index = LoggedBlocks(n) /\ FirstSeenIn(n)
  BY DEF SeenInv
<1>2. Len(log) \in Nat /\ Len(log') \in Nat
  BY DEF Inv, TypeOK, DiskTypeOK
<1>3. n \in 0..Len(log') /\ \A i \in 1..n : log'[i] = log[i]
  BY <1>2
<1>4. LoggedBlocks(n)' = LoggedBlocks(n)
  BY <1>3 DEF LoggedBlocks
<1>5. index' = index /\ state' = state /\ active_work' = active_work
  BY DEF chain
<1>6. FirstSeenIn(n)'
  BY <1>1, <1>3, <1>5 DEF FirstSeenIn
<1> QED
  BY <1>1, <1>3, <1>4, <1>5, <1>6 DEF SeenInv

(* commit_prepared of the next record moves the tip only to a block that   *)
(* outweighs every earlier one.                                            *)
LEMMA SeenCommit ==
  ASSUME Inv, SeenInv, NEW n \in 0..Len(log), n < Len(log), DOMAIN index = LoggedBlocks(n),
         CommitPrepared(log[n + 1].block, log[n + 1].accepted_at), UNCHANGED log
  PROVE  SeenInv'
<1> DEFINE b == log[n + 1].block
           a == log[n + 1].accepted_at
           w == WorkAt(Parent[b]) + BlockWork[b]
           W(j) == TotalWork[log[j].block]
<1>0. n \in Nat /\ Len(log) \in Nat /\ log \in Seq(Records) /\ n + 1 \in 1..Len(log)
      /\ (n + 1) - 1 = n
  BY DEF Inv, TypeOK, DiskTypeOK
<1>1. \A j \in 1..Len(log) : log[j].block \in Blocks /\ log[j].accepted_at \in Times
  <2>1. \A j \in 1..Len(log) : log[j] \in Records
    BY <1>0
  <2> QED
    BY <2>1 DEF Records
<1>2. FirstSeenIn(n)
  <2>1. PICK k \in 0..Len(log) : DOMAIN index = LoggedBlocks(k) /\ FirstSeenIn(k)
    BY DEF SeenInv
  <2>2. k = n
    BY <2>1, PrefixesDiffer DEF Inv, TypeOK, LogInv
  <2> QED
    BY <2>1, <2>2
<1>3. Parent[b] \in Known
  <2>1. Parent[b] \in LoggedBlocks(n) \cup {Genesis}
    BY <1>0 DEF Inv, LogInv, LogReplayable
  <2> QED
    BY <2>1 DEF Known
<1>4. w = TotalWork[b] /\ w \in Nat /\ w > 0 /\ active_work \in Nat
  <2>1. WorkAt(Parent[b]) = TotalWork[Parent[b]]
    BY <1>3, WorkAssumption DEF WorkAt, Inv, ChainInv, ActiveChainAgrees, Known
  <2>2. b \in Blocks /\ b \in Tree /\ Parent[b] \in Tree /\ BlockWork[b] \in Nat \ {0}
    BY <1>0, <1>1, TreeAssumption DEF Tree
  <2> QED
    BY <2>1, <2>2, WorkAssumption DEF Inv, TypeOK, ChainTypeOK
<1>5. \A j \in 1..n : W(j) \in Nat /\ W(j) <= active_work
  <2> SUFFICES ASSUME NEW j \in 1..n PROVE W(j) \in Nat /\ W(j) <= active_work
    OBVIOUS
  <2>1. log[j].block \in DOMAIN index /\ log[j].block \in Tree
    BY <1>0, <1>1 DEF LoggedBlocks, Tree
  <2>2. index[log[j].block].work = W(j)
    BY <2>1 DEF Inv, ChainInv, ActiveChainAgrees
  <2> QED
    BY <2>1, <2>2, WorkAssumption DEF Inv, ChainInv, TipHasMostWork
<1>6. DOMAIN index' = LoggedBlocks(n + 1)'
  <2>1. DOMAIN index' = DOMAIN index \cup {b}
    BY DEF CommitPrepared
  <2>2. LoggedBlocks(n + 1)' = LoggedBlocks(n) \cup {b}
    BY <1>0 DEF LoggedBlocks
  <2> QED
    BY <2>1, <2>2
<1>7. FirstSeenIn(n + 1)'
  <2>1. CASE Activates(w)
    <3>1. active_work' = w /\ state'.tip = b /\ w > active_work
      BY <2>1 DEF CommitPrepared, ApplyBlock, Activates
    <3>2. \A j \in 1..(n + 1) : IF j < n + 1 THEN W(j) < w ELSE W(j) <= w
      <4>1. \A j \in 1..(n + 1) : j < n + 1 => j \in 1..n
        BY <1>0
      <4>2. \A j \in 1..(n + 1) : ~(j < n + 1) => j = n + 1
        BY <1>0
      <4>3. W(n + 1) = w
        BY <1>4
      <4> HIDE DEF w, W
      <4> QED
        BY <1>4, <1>5, <3>1, <4>1, <4>2, <4>3
    <3> QED
      BY <1>0, <3>1, <3>2 DEF FirstSeenIn
  <2>2. CASE ~Activates(w)
    <3>1. UNCHANGED <<active_work, state>> /\ w <= active_work
      BY <1>4, <2>2 DEF CommitPrepared, Activates
    <3>2. state.tip # Genesis
      <4>1. active_work = TotalWork[state.tip]
        BY DEF Inv, ChainInv, ActiveChainAgrees
      <4>2. active_work # 0
        BY <1>4, <3>1
      <4> QED
        BY <4>1, <4>2, WorkAssumption
    <3>3. PICK i \in 1..n :
            /\ log[i].block = state.tip
            /\ \A j \in 1..n : IF j < i THEN W(j) < active_work ELSE W(j) <= active_work
      BY <1>2, <3>2 DEF FirstSeenIn
    <3>4. \A j \in 1..(n + 1) : IF j < i THEN W(j) < active_work ELSE W(j) <= active_work
      <4>1. W(n + 1) <= active_work
        BY <1>4, <3>1
      <4>2. \A j \in 1..(n + 1) : j \in 1..n \/ (j = n + 1 /\ ~(j < i))
        BY <1>0
      <4> HIDE DEF W
      <4> QED
        BY <3>3, <4>1, <4>2
    <3>5. i \in 1..(n + 1)
      BY <1>0
    <3> QED
      BY <3>1, <3>3, <3>4, <3>5 DEF FirstSeenIn
  <2> QED
    BY <2>1, <2>2
<1> QED
  BY <1>0, <1>6, <1>7 DEF SeenInv

(* A reset node has indexed nothing and is on genesis.                     *)
LEMMA SeenReset ==
  ASSUME ResetMemory, Len(log') \in Nat
  PROVE  SeenInv'
<1>1. DOMAIN index' = {}
  BY ResetChain
<1>2. state'.tip = Genesis
  BY DEF ResetMemory, GenesisState
<1>3. FirstSeenIn(0)'
  BY <1>2 DEF FirstSeenIn
<1>4. LoggedBlocks(0)' = {}
  BY DEF LoggedBlocks
<1>5. 0 \in 0..Len(log')
  OBVIOUS
<1> QED
  BY <1>1, <1>3, <1>4, <1>5 DEF SeenInv

(* Every step keeps the order of first sight.                              *)
LEMMA SeenStep ==
  ASSUME Inv, SeenInv, [Next]_vars
  PROVE  SeenInv'
<1>1. Inv'
  BY NextInv
<1>2. Len(log) \in Nat /\ Len(log') \in Nat /\ log \in Seq(Records)
  BY <1>1 DEF Inv, TypeOK, DiskTypeOK
<1>3. ASSUME NEW b \in Blocks, NEW a \in Times, WriteRecord(b, a)
      PROVE  SeenInv'
  <2>1. log' = Append(log, RecordOf(b, a)) /\ UNCHANGED chain
    BY <1>3 DEF WriteRecord, AppendRecord
  <2>2. Len(log') = Len(log) + 1 /\ \A i \in 1..Len(log) : log'[i] = log[i]
    BY <1>2, <2>1
  <2> QED
    BY <1>1, <1>2, <2>1, <2>2, SeenUnchanged
<1>4. ASSUME UNCHANGED <<log, chain>>
      PROVE  SeenInv'
  <2>1. log' = log /\ UNCHANGED chain
    BY <1>4
  <2> QED
    BY <1>1, <1>2, <2>1, SeenUnchanged
<1>5. ASSUME NEW b \in Blocks, NEW a \in Times, WriteFails(b, a)
      PROVE  SeenInv'
  BY <1>4, <1>5 DEF WriteFails
<1>6. CASE SyncFails
  BY <1>4, <1>6 DEF SyncFails, disk
<1>7. ASSUME NEW t \in Txs, SubmitTransaction(t)
      PROVE  SeenInv'
  BY <1>4, <1>7 DEF SubmitTransaction, disk
<1>8. CASE ReplayDone
  BY <1>4, <1>8 DEF ReplayDone, disk
<1>9. CASE UNCHANGED vars
  BY <1>4, <1>9 DEF vars, disk
<1>10. CASE ProcessExit \/ PowerLoss \/ Open \/ ReplayFails
  <2>1. ResetMemory
    BY <1>10 DEF ProcessExit, PowerLoss, Stop, Open, ReplayFails
  <2> QED
    BY <1>2, <2>1, SeenReset
<1>11. CASE SyncAndCommit
  <2> DEFINE n == Len(log) - 1
  <2>1. /\ inflight # None /\ status = "up" /\ UNCHANGED log
        /\ CommitPrepared(inflight.block, inflight.accepted_at)
    BY <1>11 DEF SyncAndCommit
  <2>2. inflight = log[Len(log)] /\ synced < Len(log) /\ DOMAIN index = LoggedBlocks(n)
    BY <2>1 DEF Inv, LogInv, IndexFromLog
  <2>3. n \in 0..Len(log) /\ n < Len(log) /\ n + 1 = Len(log)
    BY <1>2, <2>2 DEF Inv, TypeOK, DiskTypeOK
  <2>4. CommitPrepared(log[n + 1].block, log[n + 1].accepted_at)
    BY <2>1, <2>2, <2>3
  <2> HIDE DEF n
  <2> QED
    BY <2>1, <2>2, <2>3, <2>4, SeenCommit
<1>12. CASE ReplayRecord
  <2>1. /\ status = "replaying" /\ replayed < Len(log) /\ UNCHANGED log
        /\ CommitPrepared(log[replayed + 1].block, log[replayed + 1].accepted_at)
    BY <1>12 DEF ReplayRecord, disk
  <2>2. DOMAIN index = LoggedBlocks(replayed) /\ replayed \in 0..Len(log)
    BY <2>1 DEF Inv, LogInv, IndexFromLog, TypeOK, DiskTypeOK
  <2> QED
    BY <2>1, <2>2, SeenCommit
<1> QED
  BY <1>3, <1>5, <1>6, <1>7, <1>8, <1>9, <1>10, <1>11, <1>12 DEF Next

(* A node on a fresh data directory has seen nothing.                      *)
LEMMA SeenInit == Init => SeenInv
<1> SUFFICES ASSUME Init PROVE SeenInv
  OBVIOUS
<1>1. DOMAIN index = {} /\ Len(log) = 0
  BY DEF Init, EmptyIndex
<1>2. FirstSeenIn(0)
  BY DEF Init, FirstSeenIn, GenesisState
<1>3. LoggedBlocks(0) = {}
  BY DEF LoggedBlocks
<1>4. 0 \in 0..Len(log)
  BY <1>1
<1> QED
  BY <1>1, <1>2, <1>3, <1>4 DEF SeenInv

(* The index, the chain, the replayed state and the order of the log agree *)
(* on the active branch: among branches of equal work the first accepted   *)
(* one is active, and a restart chooses the same one.                      *)
THEOREM ForkIndex == Spec => []ForkIndexSound
<1>1. Init => Inv /\ SeenInv
  BY InitInv, SeenInit
<1>2. Inv /\ SeenInv /\ [Next]_vars => (Inv /\ SeenInv)'
  BY NextInv, SeenStep
<1>3. Inv /\ SeenInv => ForkIndexSound
  <2> SUFFICES ASSUME Inv, SeenInv PROVE ForkIndexSound
    OBVIOUS
  <2>1. PICK n \in 0..Len(log) : DOMAIN index = LoggedBlocks(n) /\ FirstSeenIn(n)
    BY DEF SeenInv
  <2>2. Cardinality(DOMAIN index) = n
    BY <2>1, PrefixCount DEF Inv, TypeOK, LogInv
  <2>3. FirstSeenTip
    BY <2>1, <2>2 DEF FirstSeenTip, FirstSeenIn
  <2> QED
    BY <2>3 DEF ForkIndexSound, Inv, ChainInv
<1> QED
  BY <1>1, <1>2, <1>3, PTL DEF Spec

-----------------------------------------------------------------------------
(* The byte counter and the mineability of the pool, with what makes the   *)
(* sum in them meaningful: the pool is finite.                             *)
PoolSumInv == IsFiniteSet(mempool) /\ MempoolSound

(* The counter is the sum FiniteSums reasons about.                        *)
LEMMA BytesAreSum ==
  ASSUME NEW S
  PROVE  BytesOf(S) = SumOver(TxBytes, S)
  BY DEF SumOver, BytesOf

(* An empty pool can always be mined.                                      *)
LEMMA EmptyPoolValid ==
  ASSUME NEW s
  PROVE  TransactionsValid(s, {})
<1>1. SpentBy({}) = {}
  BY DEF SpentBy
<1>2. Cardinality(SpentBy({})) = 0
  BY <1>1, FS_EmptySet
<1> QED
  BY <1>2, RulesAssumption DEF TransactionsValid

(* revalidate_mempool checks each transaction with the smaller ones it     *)
(* kept: the last check is of everything that is left.                     *)
LEMMA RevalidatedIsSound ==
  ASSUME mempool \subseteq Txs, IsFiniteSet(mempool), MempoolBytesExact,
         NEW confirmed, RevalidateMempool(confirmed)
  PROVE  IsFiniteSet(mempool') /\ TransactionsValid(state', mempool') /\ MempoolBytesExact'
<1>1. PICK kept \in SUBSET mempool :
         /\ Retained(state', confirmed, kept) /\ mempool' = kept
         /\ mempool_bytes' = BytesOf(kept)
  BY DEF RevalidateMempool
<1>2. IsFiniteSet(kept) /\ kept \subseteq Nat
  BY FS_Subset, RulesAssumption
<1>3. TransactionsValid(state', kept)
  <2>1. CASE kept = {}
    BY <2>1, EmptyPoolValid
  <2>2. CASE kept # {}
    <3>1. PICK c \in Nat : \A k \in kept : k <= c
      BY <1>2, FiniteIsBounded
    <3>2. PICK t \in kept : \A k \in kept : k <= t
      BY <1>2, <2>2, <3>1, GreatestElement
    <3> DEFINE before == {u \in kept : u < t}
    <3>3. TransactionsValid(state', before \cup {t})
      BY <1>1, <3>2 DEF Retained
    <3>4. before \cup {t} = kept
      <4>1. \A k \in kept : k < t \/ k = t
        BY <1>2, <3>2
      <4> QED
        BY <4>1
    <3> QED
      BY <3>3, <3>4
  <2> QED
    BY <2>1, <2>2
<1>4. MempoolBytesExact'
  <2>1. \A t \in mempool : TxBytes[t] \in Nat
    BY NodeAssumption
  <2>2. SumOver(TxBytes, kept) <= SumOver(TxBytes, mempool)
    BY <2>1, SumSubset
  <2>3. SumOver(TxBytes, kept) \in Nat /\ SumOver(TxBytes, mempool) \in Nat
    BY <1>2, <2>1, SumNat
  <2>4. mempool_bytes = SumOver(TxBytes, mempool) /\ mempool_bytes <= MaxMempoolBytes
    BY BytesAreSum DEF MempoolBytesExact
  <2>5. mempool_bytes' = SumOver(TxBytes, kept)
    BY <1>1, BytesAreSum
  <2>6. mempool_bytes' <= MaxMempoolBytes
    BY <2>2, <2>3, <2>4, <2>5, NodeAssumption
  <2>7. mempool_bytes' = BytesOf(mempool')
    BY <1>1
  <2> QED
    BY <2>6, <2>7 DEF MempoolBytesExact
<1> QED
  BY <1>1, <1>2, <1>3, <1>4

(* A node with an empty pool.                                              *)
LEMMA EmptyPoolSound ==
  ASSUME mempool' = {}, mempool_bytes' = 0
  PROVE  PoolSumInv'
<1>1. BytesOf(mempool') = 0
  BY BytesAreSum, SumEmpty
<1>2. TransactionsValid(state', mempool')
  BY EmptyPoolValid
<1>3. IsFiniteSet(mempool')
  BY FS_EmptySet
<1>4. 0 <= MaxMempoolBytes
  BY NodeAssumption
<1> QED
  BY <1>1, <1>2, <1>3, <1>4 DEF PoolSumInv, MempoolSound, MempoolMineable, MempoolBytesExact

(* A step that leaves pool, state and phase alone.                         *)
LEMMA PoolUntouched ==
  ASSUME PoolSumInv, mempool' = mempool, mempool_bytes' = mempool_bytes, state' = state,
         status' = "up" => status = "up"
  PROVE  PoolSumInv'
  BY DEF PoolSumInv, MempoolSound, MempoolMineable, MempoolBytesExact

(* Admission checks the whole pool with the newcomer.                      *)
LEMMA AdmittedIsSound ==
  ASSUME PoolSumInv, NEW t \in Txs, SubmitTransaction(t), mempool \subseteq Txs
  PROVE  PoolSumInv'
<1>1. /\ t \notin mempool /\ mempool_bytes + TxBytes[t] <= MaxMempoolBytes
      /\ TransactionsValid(state, mempool \cup {t})
      /\ mempool' = mempool \cup {t} /\ mempool_bytes' = mempool_bytes + TxBytes[t]
      /\ state' = state
  BY DEF SubmitTransaction, chain
<1>2. IsFiniteSet(mempool) /\ IsFiniteSet(mempool')
  BY <1>1, FS_AddElement DEF PoolSumInv
<1>3. mempool_bytes = SumOver(TxBytes, mempool)
  BY BytesAreSum DEF PoolSumInv, MempoolSound, MempoolBytesExact
<1>4. TxBytes[t] \in Nat /\ \A u \in mempool : TxBytes[u] \in Nat
  BY NodeAssumption
<1>5. SumOver(TxBytes, mempool \cup {t}) = SumOver(TxBytes, mempool) + TxBytes[t]
  BY <1>1, <1>2, <1>4, SumAdd
<1>6. mempool_bytes' = BytesOf(mempool')
  BY <1>1, <1>3, <1>5, BytesAreSum
<1>7. MempoolBytesExact'
  BY <1>1, <1>6 DEF MempoolBytesExact
<1>8. MempoolMineable'
  BY <1>1 DEF MempoolMineable
<1> QED
  BY <1>2, <1>7, <1>8 DEF PoolSumInv, MempoolSound

(* Outside "up" the pool is empty and its counter zero.                    *)
PoolIdle == status # "up" => mempool = {} /\ mempool_bytes = 0

(* Every step keeps the pool mineable and its counter exact.               *)
LEMMA PoolSumStep ==
  ASSUME Inv, PoolSumInv, PoolIdle, [Next]_vars
  PROVE  PoolSumInv' /\ PoolIdle'
<1>1. ASSUME UNCHANGED <<mempool, mempool_bytes, state, status>>
      PROVE  PoolSumInv' /\ PoolIdle'
  BY <1>1, PoolUntouched DEF PoolIdle
<1>2. ASSUME NEW b \in Blocks, NEW a \in Times, WriteRecord(b, a) \/ WriteFails(b, a)
      PROVE  PoolSumInv' /\ PoolIdle'
  BY <1>1, <1>2 DEF WriteRecord, WriteFails, pool, chain
<1>3. CASE SyncFails \/ UNCHANGED vars
  BY <1>1, <1>3 DEF SyncFails, vars, pool, chain
<1>4. ASSUME NEW t \in Txs, SubmitTransaction(t)
      PROVE  PoolSumInv' /\ PoolIdle'
  <2>1. status' = "up"
    BY <1>4 DEF SubmitTransaction, Running
  <2>2. PoolSumInv'
    BY <1>4, AdmittedIsSound DEF Inv, TypeOK, ProcessTypeOK
  <2> QED
    BY <2>1, <2>2 DEF PoolIdle
<1>5. CASE ProcessExit \/ PowerLoss \/ Open \/ ReplayFails
  <2>1. mempool' = {} /\ mempool_bytes' = 0
    BY <1>5 DEF ProcessExit, PowerLoss, Stop, Open, ReplayFails, ResetMemory
  <2> QED
    BY <2>1, EmptyPoolSound DEF PoolIdle
<1>6. CASE ReplayRecord \/ ReplayDone
  <2>1. status = "replaying" /\ UNCHANGED pool
    BY <1>6 DEF ReplayRecord, ReplayDone
  <2>2. mempool' = {} /\ mempool_bytes' = 0
    BY <2>1 DEF PoolIdle, pool
  <2> QED
    BY <2>2, EmptyPoolSound DEF PoolIdle
<1>7. CASE SyncAndCommit
  <2>1. status = "up" /\ status' = "up"
    BY <1>7 DEF SyncAndCommit
  <2>2. CASE state'.tip # state.tip
    <3>1. RevalidateMempool(BlockTxs[inflight.block])
      BY <1>7, <2>2 DEF SyncAndCommit
    <3>2. mempool \subseteq Txs
      BY DEF Inv, TypeOK, ProcessTypeOK
    <3>3. IsFiniteSet(mempool') /\ TransactionsValid(state', mempool') /\ MempoolBytesExact'
      BY <3>1, <3>2, RevalidatedIsSound DEF PoolSumInv, MempoolSound
    <3> QED
      BY <2>1, <3>3 DEF PoolSumInv, MempoolSound, MempoolMineable, PoolIdle
  <2>3. CASE state'.tip = state.tip
    <3>1. UNCHANGED pool
      BY <1>7, <2>3 DEF SyncAndCommit
    <3>2. active_work' > active_work \/ UNCHANGED state
      BY <1>7, SyncAndCommitInv
    <3>3. UNCHANGED state
      <4>1. active_work = TotalWork[state.tip] /\ active_work' = TotalWork[state'.tip]
        BY <1>7, SyncAndCommitInv DEF Inv, ChainInv, ActiveChainAgrees
      <4>2. active_work \in Nat
        BY DEF Inv, TypeOK, ChainTypeOK
      <4>3. active_work' = active_work
        BY <2>3, <4>1
      <4> QED
        BY <3>2, <4>2, <4>3
    <3> QED
      BY <1>1, <2>1, <3>1, <3>3 DEF pool
  <2> QED
    BY <2>2, <2>3
<1> QED
  BY <1>2, <1>3, <1>4, <1>5, <1>6, <1>7 DEF Next

(* What submit_transaction and revalidate_mempool leave can be mined as a  *)
(* whole, also after a reorganization, and its size is what the counter    *)
(* says and within the limit.                                              *)
THEOREM PoolSound == Spec => []MempoolSound
<1> DEFINE All == Inv /\ PoolSumInv /\ PoolIdle
<1>1. Init => All
  <2> SUFFICES ASSUME Init PROVE All
    OBVIOUS
  <2>1. mempool = {} /\ mempool_bytes = 0 /\ status = "down"
    BY DEF Init
  <2>2. mempool_bytes = BytesOf(mempool)
    BY <2>1, BytesAreSum, SumEmpty
  <2>3. mempool_bytes <= MaxMempoolBytes
    BY <2>1, NodeAssumption
  <2>4. PoolSumInv
    BY <2>1, <2>2, <2>3, FS_EmptySet DEF PoolSumInv, MempoolSound, MempoolMineable, MempoolBytesExact
  <2> QED
    BY <2>1, <2>4, InitInv DEF PoolIdle
<1>2. All /\ [Next]_vars => All'
  BY NextInv, PoolSumStep
<1>3. All => MempoolSound
  BY DEF PoolSumInv
<1> HIDE DEF All
<1> QED
  BY <1>1, <1>2, <1>3, PTL DEF Spec

-----------------------------------------------------------------------------
(* m is the first of the n records of lg with the most work.               *)
Earliest(lg, n, m) ==
    /\ m \in 1..n
    /\ \A j \in 1..n :
          /\ TotalWork[lg[j].block] <= TotalWork[lg[m].block]
          /\ j < m => TotalWork[lg[j].block] < TotalWork[lg[m].block]

(* Every record's block is worth something.                                *)
LEMMA RecordWork ==
  ASSUME NEW lg \in Seq(Records), NEW i \in 1..Len(lg)
  PROVE  /\ lg[i].block \in Blocks
         /\ TotalWork[lg[i].block] \in Nat /\ TotalWork[lg[i].block] > 0
<1>1. lg[i] \in Records
  OBVIOUS
<1>2. lg[i].block \in Blocks
  BY <1>1 DEF Records
<1> DEFINE b == lg[i].block
<1>3. b \in Tree /\ Parent[b] \in Tree /\ BlockWork[b] \in Nat \ {0}
  BY <1>2, TreeAssumption DEF Tree
<1> HIDE DEF b
<1>4. TotalWork[b] \in Nat /\ TotalWork[Parent[b]] \in Nat
      /\ TotalWork[b] = TotalWork[Parent[b]] + BlockWork[b]
  BY <1>2, <1>3, WorkAssumption DEF b
<1>5. TotalWork[b] > 0
  BY <1>3, <1>4
<1> QED
  BY <1>2, <1>4, <1>5 DEF b

(* There is such a record in every nonempty prefix.                        *)
LEMMA EarliestExists ==
  ASSUME NEW lg \in Seq(Records), NEW n \in 1..Len(lg)
  PROVE  \E m : Earliest(lg, n, m)
<1> DEFINE W(j) == TotalWork[lg[j].block]
           Bad == {k \in Nat : k \in 1..Len(lg) /\ ~ \E m : Earliest(lg, k, m)}
<1>0. Len(lg) \in Nat /\ \A j \in 1..Len(lg) : W(j) \in Nat
  BY RecordWork
<1>1. Bad = {}
  <2> SUFFICES ASSUME Bad # {} PROVE FALSE
    OBVIOUS
  <2>1. PICK k \in Bad : \A i \in Bad : k <= i
    <3>1. Bad \subseteq Nat
      OBVIOUS
    <3> HIDE DEF Bad
    <3> QED
      BY <3>1, LeastElement
  <2>2. k \in 1..Len(lg) /\ ~ \E m : Earliest(lg, k, m)
    OBVIOUS
  <2>3. CASE k = 1
    <3>1. Earliest(lg, 1, 1)
      <4>1. \A j \in 1..1 : j = 1
        OBVIOUS
      <4>2. W(1) \in Nat
        BY <1>0, <2>2
      <4> QED
        BY <4>1, <4>2 DEF Earliest
    <3> QED
      BY <2>2, <2>3, <3>1
  <2>4. CASE k # 1
    <3>1. k - 1 \in 1..Len(lg) /\ k - 1 \in Nat /\ k - 1 \notin Bad
      <4>1. k \in Nat /\ k - 1 \in 1..Len(lg) /\ k - 1 \in Nat /\ ~(k <= k - 1)
        BY <1>0, <2>2, <2>4
      <4> HIDE DEF Bad
      <4> QED
        BY <2>1, <4>1
    <3>2. PICK m : Earliest(lg, k - 1, m)
      BY <3>1
    <3> HIDE DEF Bad
    <3>3. /\ m \in 1..(k - 1) /\ W(m) \in Nat /\ W(k) \in Nat
          /\ \A j \in 1..(k - 1) : W(j) \in Nat /\ W(j) <= W(m) /\ (j < m => W(j) < W(m))
      BY <1>0, <2>2, <3>1, <3>2 DEF Earliest
    <3>4. \A j \in 1..k : j \in 1..(k - 1) \/ j = k
      BY <2>2
    <3> DEFINE best == IF W(k) > W(m) THEN k ELSE m
    <3>5. best \in 1..k /\ \A j \in 1..k : W(j) <= W(best) /\ (j < best => W(j) < W(best))
      <4>1. CASE W(k) > W(m)
        <5>1. best = k
          BY <4>1
        <5> HIDE DEF W, best
        <5> QED
          BY <2>2, <3>3, <3>4, <4>1, <5>1
      <4>2. CASE ~(W(k) > W(m))
        <5>1. best = m
          BY <4>2
        <5> HIDE DEF W, best
        <5> QED
          BY <2>2, <3>3, <3>4, <4>2, <5>1
      <4> QED
        BY <4>1, <4>2
    <3>6. Earliest(lg, k, best)
      <4> HIDE DEF best
      <4> QED
        BY <3>5 DEF Earliest
    <3> QED
      BY <2>2, <3>6
  <2> QED
    BY <2>3, <2>4
<1> QED
  BY <1>0, <1>1

(* The tip of the first n records of lg.                                   *)
TipOf(lg, n) ==
    LET best == {i \in 1..n : \A j \in 1..n :
                    TotalWork[lg[j].block] <= TotalWork[lg[i].block]}
    IN IF n = 0 THEN Genesis ELSE lg[Min(best)].block

(* It is the block of the earliest record with the most work.              *)
LEMMA TipIsEarliest ==
  ASSUME NEW lg \in Seq(Records), NEW n \in 1..Len(lg), NEW m, Earliest(lg, n, m)
  PROVE  TipOf(lg, n) = lg[m].block
<1> DEFINE best == {i \in 1..n : \A j \in 1..n :
                       TotalWork[lg[j].block] <= TotalWork[lg[i].block]}
<1>1. n \in Nat /\ n # 0 /\ m \in Nat /\ m \in 1..n
      /\ \A j \in 1..n : j \in 1..Len(lg) /\ TotalWork[lg[j].block] \in Nat
  BY RecordWork DEF Earliest
<1>2. m \in best
  BY DEF Earliest
<1>3. ASSUME NEW i \in best PROVE m <= i /\ i \in Nat
  <2>1. i \in 1..n /\ i \in Nat /\ TotalWork[lg[m].block] <= TotalWork[lg[i].block]
    BY <1>1
  <2>2. ~(i < m)
    BY <1>1, <2>1 DEF Earliest
  <2> QED
    BY <1>1, <2>1, <2>2
<1>4. Min(best) = m
  <2> HIDE DEF best
  <2>1. \A i \in best : (\A y \in best : i =< y) => i = m
    BY <1>1, <1>2, <1>3
  <2>2. \E i \in best : \A y \in best : i =< y
    BY <1>2, <1>3
  <2> QED
    BY <2>1, <2>2 DEF Min
<1> QED
  BY <1>1, <1>4 DEF TipOf

(* A synced log that only grows implements BestChain.                      *)
LEMMA DurableStep ==
  ASSUME Inv, Inv', synced <= synced', \A i \in 1..synced : log'[i] = log[i]
  PROVE  [BC!Next]_(BC!vars)
<1> DEFINE s == synced
           s2 == synced'
           lg == log
           lg2 == log'
           W(b) == TotalWork[b]
           new == {lg2[i].block : i \in (s + 1)..s2}
<1>1. /\ lg \in Seq(Records) /\ lg2 \in Seq(Records)
      /\ s \in 0..Len(lg) /\ s2 \in 0..Len(lg2) /\ Len(lg) \in Nat /\ Len(lg2) \in Nat
      /\ s \in Nat /\ s2 \in Nat /\ s <= s2
  BY DEF Inv, TypeOK, DiskTypeOK
<1>2. DurableTip = TipOf(lg, s) /\ DurableTip' = TipOf(lg2, s2)
  BY DEF DurableTip, TipOf
<1>3. LoggedBlocks(synced) = {lg[i].block : i \in 1..s}
      /\ LoggedBlocks(synced)' = {lg2[i].block : i \in 1..s2}
  BY DEF LoggedBlocks
<1>4. \A i \in 1..s : i \in 1..Len(lg) /\ i \in 1..Len(lg2) /\ i \in 1..s2 /\ lg2[i] = lg[i]
  BY <1>1
<1>5. \A i \in 1..s2 : lg2[i].block \in Blocks /\ W(lg2[i].block) \in Nat /\ W(lg2[i].block) > 0
  BY <1>1, RecordWork
<1>6. LoggedBlocks(synced)' = LoggedBlocks(synced) \cup new
  <2>1. \A i \in 1..s2 : i \in 1..s \/ i \in (s + 1)..s2
    BY <1>1
  <2>2. \A i \in (s + 1)..s2 : i \in 1..s2
    BY <1>1
  <2> QED
    BY <1>3, <1>4, <2>1, <2>2
<1>7. CASE s2 = s
  <2>1. new = {}
    BY <1>1, <1>7
  <2>2. DurableTip' = DurableTip
    <3>1. CASE s = 0
      BY <1>2, <1>7, <3>1 DEF TipOf
    <3>2. CASE s # 0
      <4>1. s \in 1..Len(lg) /\ s2 \in 1..Len(lg2)
        BY <1>1, <1>7, <3>2
      <4>2. PICK m : Earliest(lg, s, m)
        BY <1>1, <4>1, EarliestExists
      <4>3. m \in 1..s
        BY <4>2 DEF Earliest
      <4>4. Earliest(lg2, s2, m)
        BY <1>4, <1>7, <4>2, <4>3 DEF Earliest
      <4>5. TipOf(lg, s) = lg[m].block /\ TipOf(lg2, s2) = lg2[m].block
        BY <1>1, <4>1, <4>2, <4>4, TipIsEarliest
      <4> QED
        BY <1>2, <1>4, <4>3, <4>5
    <3> QED
      BY <3>1, <3>2
  <2> QED
    BY <1>6, <2>1, <2>2 DEF BC!vars
<1>8. CASE s < s2
  <2>1. s2 \in 1..Len(lg2) /\ s2 \in 1..s2 /\ s2 \in (s + 1)..s2
    BY <1>1, <1>8
  <2>2. PICK m2 : Earliest(lg2, s2, m2)
    BY <1>1, <2>1, EarliestExists
  <2>3. m2 \in 1..s2 /\ DurableTip' = lg2[m2].block
        /\ \A j \in 1..s2 : W(lg2[j].block) <= W(lg2[m2].block)
    BY <1>1, <1>2, <2>1, <2>2, TipIsEarliest DEF Earliest
  <2>4. new # {} /\ new \in SUBSET Blocks
    <3>1. lg2[s2].block \in new
      BY <2>1
    <3>2. \A i \in (s + 1)..s2 : lg2[i].block \in Blocks
      BY <1>1, <1>5
    <3> QED
      BY <3>1, <3>2
  <2>5. ASSUME NEW i \in (s + 1)..s2
        PROVE  /\ lg2[i].block \notin LoggedBlocks(synced)
               /\ Parent[lg2[i].block] \in LoggedBlocks(synced) \cup new \cup {Genesis}
    <3>1. i \in 1..Len(lg2) /\ \A j \in 1..s : j \in 1..(i - 1)
      BY <1>1
    <3>2. lg2[i].block \notin LoggedBlocks(i - 1)'
          /\ Parent[lg2[i].block] \in LoggedBlocks(i - 1)' \cup {Genesis}
      BY <3>1 DEF Inv, LogInv, LogReplayable
    <3>3. LoggedBlocks(i - 1)' = {lg2[j].block : j \in 1..(i - 1)}
      BY DEF LoggedBlocks
    <3>4. \A j \in 1..(i - 1) : j \in 1..s2
      BY <1>1
    <3>5. LoggedBlocks(i - 1)' \subseteq LoggedBlocks(synced)'
      BY <1>3, <3>3, <3>4
    <3>6. LoggedBlocks(synced) \subseteq LoggedBlocks(i - 1)'
      BY <1>3, <1>4, <3>1, <3>3
    <3> QED
      BY <1>6, <3>2, <3>5, <3>6
  <2>6. new \cap LoggedBlocks(synced) = {}
        /\ \A b \in new : Parent[b] \in LoggedBlocks(synced) \cup new \cup {Genesis}
    BY <2>5
  <2>7. \A b \in new : \E i \in 1..s2 : b = lg2[i].block
    BY <1>1
  <2>8. CASE m2 \in (s + 1)..s2
    <3>1. DurableTip' \in new
      BY <2>3, <2>8
    <3>2. \A b \in new : W(b) <= W(DurableTip')
      BY <2>3, <2>7
    <3>3. W(DurableTip') > W(DurableTip)
      <4>1. CASE s = 0
        <5>1. W(DurableTip) = 0
          BY <1>2, <4>1, WorkAssumption DEF TipOf
        <5> QED
          BY <1>5, <2>3, <5>1
      <4>2. CASE s # 0
        <5>1. s \in 1..Len(lg)
          BY <1>1, <4>2
        <5>2. PICK m : Earliest(lg, s, m)
          BY <1>1, <5>1, EarliestExists
        <5>3. m \in 1..s /\ DurableTip = lg[m].block
          BY <1>1, <1>2, <5>1, <5>2, TipIsEarliest DEF Earliest
        <5>4. m \in 1..s2 /\ m < m2 /\ lg2[m] = lg[m]
          BY <1>1, <1>4, <2>8, <5>3
        <5>5. W(lg2[m].block) < W(lg2[m2].block)
          BY <2>2, <5>4 DEF Earliest
        <5>6. W(lg2[m].block) \in Nat /\ W(lg2[m2].block) \in Nat
          BY <1>5, <2>3, <5>4
        <5> QED
          BY <2>3, <5>3, <5>4, <5>5, <5>6
      <4> QED
        BY <4>1, <4>2
    <3> HIDE DEF new
    <3>4. BC!Learn(new)
      BY <1>6, <2>4, <2>6, <3>1, <3>2, <3>3 DEF BC!Learn
    <3> QED
      BY <2>4, <3>4 DEF BC!Next
  <2>9. CASE m2 \notin (s + 1)..s2
    <3>1. m2 \in 1..s /\ s \in 1..Len(lg)
      BY <1>1, <2>3, <2>9
    <3>2. Earliest(lg, s, m2)
      <4>1. \A j \in 1..s : lg2[j] = lg[j] /\ j \in 1..s2
        BY <1>4
      <4> QED
        BY <2>2, <3>1, <4>1 DEF Earliest
    <3>3. DurableTip = lg[m2].block /\ lg2[m2] = lg[m2]
      BY <1>1, <1>2, <1>4, <3>1, <3>2, TipIsEarliest
    <3>4. DurableTip' = DurableTip /\ \A b \in new : W(b) <= W(DurableTip)
      BY <2>3, <2>7, <3>3
    <3> HIDE DEF new
    <3>5. BC!Learn(new)
      BY <1>6, <2>4, <2>6, <3>4 DEF BC!Learn
    <3> QED
      BY <2>4, <3>5 DEF BC!Next
  <2> QED
    BY <2>8, <2>9
<1> QED
  BY <1>1, <1>7, <1>8

(* The durable prefix of the log only grows: sync_all extends it, and what *)
(* a power loss takes away was never synced.                               *)
LEMMA SyncedGrows ==
  ASSUME Inv, [Next]_vars
  PROVE  synced <= synced' /\ \A i \in 1..synced : log'[i] = log[i]
<1>1. log \in Seq(Records) /\ Len(log) \in Nat /\ synced \in 0..Len(log) /\ synced \in Nat
  BY DEF Inv, TypeOK, DiskTypeOK
<1>2. ASSUME UNCHANGED <<log, synced>>
      PROVE  synced <= synced' /\ \A i \in 1..synced : log'[i] = log[i]
  BY <1>1, <1>2
<1>3. ASSUME NEW b \in Blocks, NEW a \in Times, WriteRecord(b, a)
      PROVE  synced <= synced' /\ \A i \in 1..synced : log'[i] = log[i]
  <2>1. log' = Append(log, RecordOf(b, a)) /\ synced' = synced
    BY <1>3 DEF WriteRecord, AppendRecord
  <2>2. \A i \in 1..synced : i \in 1..Len(log)
    BY <1>1
  <2> QED
    BY <1>1, <2>1, <2>2
<1>4. ASSUME NEW b \in Blocks, NEW a \in Times, WriteFails(b, a)
      PROVE  UNCHANGED <<log, synced>>
  BY <1>4 DEF WriteFails
<1>5. ASSUME NEW t \in Txs, SubmitTransaction(t)
      PROVE  UNCHANGED <<log, synced>>
  BY <1>5 DEF SubmitTransaction, disk
<1>6. CASE SyncFails \/ ProcessExit \/ Open \/ ReplayRecord \/ ReplayFails \/ ReplayDone
  <2>1. UNCHANGED <<log, synced>>
    BY <1>6 DEF SyncFails, ProcessExit, Open, ReplayRecord, ReplayFails, ReplayDone, disk
  <2> QED
    BY <1>2, <2>1
<1>7. CASE UNCHANGED vars
  BY <1>2, <1>7 DEF vars, disk
<1>8. CASE SyncAndCommit
  <2>1. log' = log /\ synced' = Len(log)
    BY <1>8 DEF SyncAndCommit, SyncAll
  <2> QED
    BY <1>1, <2>1
<1>9. CASE PowerLoss
  <2>1. PICK n \in synced..Len(log) : log' = SubSeq(log, 1, n) /\ synced' = n
    BY <1>9 DEF PowerLoss
  <2>2. n \in Nat /\ synced <= n /\ n <= Len(log) /\ \A i \in 1..synced : i \in 1..n
    BY <1>1
  <2>3. \A i \in 1..n : log'[i] = log[i]
    BY <1>1, <2>1, <2>2
  <2> QED
    BY <2>1, <2>2, <2>3
<1> QED
  BY <1>2, <1>3, <1>4, <1>5, <1>6, <1>7, <1>8, <1>9 DEF Next

(* Refinement: through every crash, failed sync and restart the synced log *)
(* implements BestChain, an append-only set of blocks whose tip is left    *)
(* only for strictly more work.                                            *)
THEOREM DurableRefinement == Spec => DurableBestChain
<1>1. Init => BC!Init
  <2> SUFFICES ASSUME Init PROVE BC!Init
    OBVIOUS
  <2>1. synced = 0
    BY DEF Init
  <2>2. LoggedBlocks(synced) = {} /\ DurableTip = Genesis
    BY <2>1 DEF LoggedBlocks, DurableTip
  <2> QED
    BY <2>2 DEF BC!Init
<1>2. Inv /\ [Next]_vars => [BC!Next]_(BC!vars)
  BY NextInv, SyncedGrows, DurableStep
<1> QED
  BY <1>1, <1>2, NodeInvariant, PTL DEF Spec, DurableBestChain, BC!Spec
=============================================================================
