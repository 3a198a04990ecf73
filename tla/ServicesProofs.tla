--------------------------- MODULE ServicesProofs ---------------------------
(***************************************************************************)
(* Proofs about the services of a node's runtime, each for any values of   *)
(* its constants: the wallet mining manager (module WalletMiner), the peer *)
(* listener and poller with their table of observations (module Host,      *)
(* under HostAssumption: the table has a record more than the listener     *)
(* slots) and the RPC service (module Rpc, under RpcAssumption: limits and *)
(* timeouts are positive).                                                 *)
(*                                                                         *)
(* WalletMiner. The argument is about who may write the status. A thread   *)
(* that has not finished is the one control knows or the one a stop is     *)
(* joining, so once neither is alive nobody is left to write: the last     *)
(* writer was a worker on its way out, a stop that joined, or a start that *)
(* failed, and each of them leaves a settled status.                       *)
(*                                                                         *)
(* Host. Why a live session always has its record: every record that is    *)
(* not idle is the record of a live session, live sessions are at most the *)
(* reserved slots and the poller's, and the session that is about to start *)
(* is not one of them. So a full table still has an idle record to evict   *)
(* (RoomToStart). Why the services stop quietly: while the listener runs   *)
(* it holds a handle of every worker, and it leaves its loop after joining *)
(* them; the poller has no session outside its two exchanges.              *)
(*                                                                         *)
(* Rpc. Until a response begins a connection has had no effect and was     *)
(* sent nothing, and what the thread has read is within the limits of the  *)
(* phase it is in; from then on the stream is a response that tells the    *)
(* effect, or at most one part of it before a report of its failure.       *)
(***************************************************************************)
EXTENDS WalletMiner, Host, Rpc, FiniteSums, SequenceTheorems, TLAPS

MiningSteps == {"job", "template", "search", "connect", "connecting", "connected",
                "backoff", "pool", "answer", "leave"}

WorkerThread ==
    [mode : {"Solo", "Pool"}, pc : MiningSteps \cup Finished, stop : BOOLEAN,
     credited : Nat, remote : Nat, session : Nat, earned : Nat, shares : Nat]

(* What the worker has shown, with what its session still owes it, is      *)
(* within what servers have credited.                                      *)
CreditOk(th) ==
    /\ th.remote <= th.session
    /\ th.credited + (th.session - th.remote) <= th.earned

WorkersInv ==
    /\ threads \in Seq(WorkerThread)
    /\ \A t \in 1..Len(threads) : CreditOk(threads[t])

(* The control mutex: a stop holds it exactly while it has a thread in     *)
(* hand, and control is empty meanwhile.                                   *)
ControlInv ==
    /\ holder \in Callers \cup {None} /\ stop_pc \in {"idle", "signal", "join"}
    /\ shutting_down \in BOOLEAN
    /\ active \in 0..Len(threads) /\ taken \in 0..Len(threads)
    /\ (holder = None) <=> (stop_pc = "idle")
    /\ (taken = 0) <=> (stop_pc = "idle")
    /\ taken # 0 => active = 0
    /\ OneWorker

Settled == lifecycle \in {"Stopped", "Error"} /\ pool_connected = FALSE

StatusInv ==
    /\ lifecycle \in {"Stopped", "Starting", "Running", "Stopping", "Error"}
    /\ pool_connected \in BOOLEAN
    /\ holder = None /\ Alive = {} /\ (active = 0 \/ threads[active].pc # "panicked")
         => Settled

MiningInv == WorkersInv /\ ControlInv /\ StatusInv

-----------------------------------------------------------------------------
(* Replacing one thread of the sequence leaves the others as they were.    *)
LEMMA ThreadReplaced ==
    ASSUME NEW ts \in Seq(WorkerThread), NEW t \in 1..Len(ts), NEW r \in WorkerThread,
           NEW us, us = [ts EXCEPT ![t] = r]
    PROVE  /\ us \in Seq(WorkerThread) /\ Len(us) = Len(ts)
           /\ us[t] = r
           /\ \A u \in 1..Len(ts) : u # t => us[u] = ts[u]
  OBVIOUS

(* What every step of a worker does: only a live thread steps, it touches  *)
(* neither control nor another thread, and one that returns has settled    *)
(* the status.                                                             *)
WorkerShape(t) ==
    /\ threads[t].pc \notin Finished
    /\ threads' \in Seq(WorkerThread) /\ Len(threads') = Len(threads)
    /\ \A u \in 1..Len(threads) : u # t => threads'[u] = threads[u]
    /\ CreditOk(threads'[t])
    /\ UNCHANGED control
    /\ lifecycle' \in {"Stopped", "Starting", "Running", "Stopping", "Error"}
    /\ pool_connected' \in BOOLEAN
    /\ threads'[t].pc = "finished" => Settled'

(* Replacing a live thread by one that is as it should be has the shape.   *)
LEMMA ReplacedShape ==
    ASSUME WorkersInv, NEW t \in 1..Len(threads), threads[t].pc \notin Finished,
           NEW r \in WorkerThread, CreditOk(r), threads' = [threads EXCEPT ![t] = r],
           UNCHANGED control,
           lifecycle' \in {"Stopped", "Starting", "Running", "Stopping", "Error"},
           pool_connected' \in BOOLEAN, r.pc = "finished" => Settled'
    PROVE  WorkerShape(t)
  <1>1. threads \in Seq(WorkerThread)
    BY DEF WorkersInv
  <1>2. /\ threads' \in Seq(WorkerThread) /\ Len(threads') = Len(threads)
        /\ threads'[t] = r
        /\ \A u \in 1..Len(threads) : u # t => threads'[u] = threads[u]
    BY <1>1, ThreadReplaced
  <1>3. QED
    BY <1>2 DEF WorkerShape

(* A step that only moves a live thread to another point of its loop has   *)
(* the shape.                                                              *)
LEMMA GoesShape ==
    ASSUME WorkersInv, NEW t \in 1..Len(threads), threads[t].pc \notin Finished,
           NEW p \in MiningSteps \cup Finished, Goes(t, p), UNCHANGED control,
           lifecycle' \in {"Stopped", "Starting", "Running", "Stopping", "Error"},
           pool_connected' \in BOOLEAN, p = "finished" => Settled'
    PROVE  WorkerShape(t)
  <1> DEFINE r == [threads[t] EXCEPT !.pc = p]
  <1>0. threads[t] \in WorkerThread
    BY DEF WorkersInv
  <1>1. r \in WorkerThread
    BY <1>0 DEF WorkerThread
  <1>2. threads' = [threads EXCEPT ![t] = r]
    BY DEF Goes
  <1>3. CreditOk(r) /\ r.pc = p
    BY <1>0 DEF WorkersInv, CreditOk, WorkerThread
  <1>4. QED
    <2> HIDE DEF r
    <2> QED BY <1>1, <1>2, <1>3, ReplacedShape

(* Every step of a worker thread has the shape.                            *)
LEMMA WorkerStepShape ==
    ASSUME MiningInv, NEW t \in 1..Len(threads), WorkerStep(t)
    PROVE  WorkerShape(t)
  <1> USE DEF MiningInv
  <1>0. threads[t] \in WorkerThread /\ CreditOk(threads[t])
    BY DEF WorkersInv
  <1>n. /\ threads[t].credited \in Nat /\ threads[t].remote \in Nat
        /\ threads[t].session \in Nat /\ threads[t].earned \in Nat
        /\ threads[t].shares \in Nat
    BY <1>0 DEF WorkerThread
  <1>1. CASE Leave(t)
    BY <1>1, GoesShape DEF Leave, At, Finished, MiningSteps, Settled
  <1>2. CASE SeesStop(t)
    BY <1>2, GoesShape DEF SeesStop, Finished, MiningSteps, Quiet, control, status, StatusInv
  <1>3. CASE SoloJob(t)
    BY <1>3, GoesShape DEF SoloJob, At, Finished, MiningSteps, StatusInv
  <1>4. CASE PoolConnect(t)
    BY <1>4, GoesShape DEF PoolConnect, At, Finished, MiningSteps, Quiet, control, status, StatusInv
  <1>5. ASSUME threads[t].pc \in {"connecting", "answer"}, ConnectionError(t)
        PROVE  WorkerShape(t)
    BY <1>5, GoesShape DEF ConnectionError, Reconnects, Finished, MiningSteps, Quiet, control,
       status, StatusInv
  <1>6. CASE PoolConnectFails(t) \/ PoolAnswerLost(t)
    BY <1>5, <1>6 DEF PoolConnectFails, PoolAnswerLost, At
  <1>7. CASE PoolConnected(t)
    <2> DEFINE r == [threads[t] EXCEPT !.pc = "pool", !.session = 0, !.remote = 0]
    <2>1. threads' = [threads EXCEPT ![t] = r]
      BY <1>7 DEF PoolConnected
    <2>2. r \in WorkerThread
      BY <1>0 DEF WorkerThread, MiningSteps, Finished
    <2>3. CreditOk(r) /\ r.pc = "pool"
      BY <1>0 DEF WorkerThread, CreditOk
    <2>4. QED
      <3> HIDE DEF r
      <3> QED
        BY <1>7, <2>1, <2>2, <2>3, ReplacedShape DEF PoolConnected, At, Finished
  <1>8. CASE PoolAnswer(t)
    <2> DEFINE r == [threads[t] EXCEPT !.pc = "pool", !.remote = threads[t].session,
                                            !.credited = @ + NewlyCredited(threads[t])]
    <2>1. threads' = [threads EXCEPT ![t] = r]
      BY <1>8 DEF PoolAnswer
    <2>2. r \in WorkerThread
      <3>1. threads[t].credited + NewlyCredited(threads[t]) \in Nat
        BY <1>0, <1>n DEF CreditOk, NewlyCredited
      <3> HIDE DEF NewlyCredited
      <3>2. QED
        BY <1>0, <1>n, <3>1 DEF WorkerThread, MiningSteps, Finished
    <2>3. CreditOk(r) /\ r.pc = "pool"
      BY <1>0, <1>n DEF WorkerThread, CreditOk, NewlyCredited
    <2>4. QED
      <3> HIDE DEF r
      <3> QED
        BY <1>8, <2>1, <2>2, <2>3, ReplacedShape DEF PoolAnswer, At, Finished, StatusInv
  <1>9. CASE LoopHead(t)
    BY <1>9, GoesShape DEF LoopHead, At, Finished, MiningSteps, Quiet, control, status, StatusInv
  <1>10. CASE SoloJobEnds(t) \/ BackoffEnds(t)
    BY <1>10, GoesShape DEF SoloJobEnds, BackoffEnds, At, Finished, MiningSteps, Quiet, control,
       status, StatusInv
  <1>11. CASE WorkerFails(t)
    BY <1>11, GoesShape DEF WorkerFails, FailWorker, Finished, MiningSteps, Settled
  <1>12. CASE Panics(t)
    BY <1>12, GoesShape DEF Panics, Alive, Finished, MiningSteps, Quiet, control, status, StatusInv
  <1>13. ASSUME NEW credit \in {0, 1}, PoolSubmit(t, credit)
         PROVE  WorkerShape(t)
    <2> DEFINE r == [threads[t] EXCEPT !.pc = "answer", !.shares = @ + 1,
                         !.session = @ + credit, !.earned = @ + credit]
    <2>1. threads' = [threads EXCEPT ![t] = r]
      BY <1>13 DEF PoolSubmit
    <2>2. r \in WorkerThread
      <3>1. /\ threads[t].shares + 1 \in Nat
            /\ threads[t].session + credit \in Nat /\ threads[t].earned + credit \in Nat
        BY <1>n
      <3>2. QED
        BY <1>0, <3>1 DEF WorkerThread, MiningSteps, Finished
    <2>3. CreditOk(r) /\ r.pc = "answer"
      BY <1>0 DEF WorkerThread, CreditOk
    <2>4. QED
      <3> HIDE DEF r
      <3> QED
        BY <1>13, <2>1, <2>2, <2>3, ReplacedShape DEF PoolSubmit, At, Finished, Quiet, control, status, StatusInv
  <1>14. QED
    BY <1>1, <1>2, <1>3, <1>4, <1>6, <1>7, <1>8, <1>9, <1>10, <1>11, <1>12, <1>13
       DEF WorkerStep, FairStep

(* A step of that shape keeps the invariant: no thread comes to life, so   *)
(* control still knows the live ones, and the last to finish has settled   *)
(* the status.                                                             *)
LEMMA ShapeKeepsInv ==
    ASSUME MiningInv, NEW t \in 1..Len(threads), WorkerShape(t)
    PROVE  MiningInv'
  <1> USE DEF MiningInv, WorkerShape
  <1>0. 1..Len(threads') = 1..Len(threads)
    OBVIOUS
  <1>1. WorkersInv'
    BY <1>0 DEF WorkersInv
  <1>2. Alive' \subseteq Alive /\ t \in Alive /\ Alive \ {t} \subseteq Alive'
    BY <1>0 DEF Alive
  <1>3. ControlInv'
    BY <1>0, <1>2 DEF ControlInv, OneWorker, control
  <1>4. StatusInv'
    <2> SUFFICES ASSUME holder' = None, Alive' = {},
                        active' = 0 \/ threads'[active'].pc # "panicked"
                 PROVE  Settled'
      BY DEF StatusInv
    <2>1. active = t /\ active' = t
      BY <1>2 DEF ControlInv, OneWorker, control
    <2>2. threads'[t].pc = "finished"
      BY <1>0, <2>1 DEF Alive, Finished
    <2>3. QED
      BY <2>2
  <1>5. QED
    BY <1>1, <1>3, <1>4

-----------------------------------------------------------------------------
(* The inductive invariant of the wallet's mining manager.                 *)
THEOREM WalletMinerInvariant ==
    ASSUME CallersAssumption
    PROVE  Spec => []MiningInv
  <1>1. Init => MiningInv
    <2> SUFFICES ASSUME Init PROVE MiningInv
      OBVIOUS
    <2>1. threads \in Seq(WorkerThread) /\ Len(threads) = 0
      BY EmptySeq DEF Init
    <2>2. WorkersInv
      BY <2>1 DEF WorkersInv
    <2>3. ControlInv
      <3>1. OneWorker
        BY <2>1 DEF OneWorker, Alive
      <3>2. active \in 0..Len(threads) /\ taken \in 0..Len(threads) /\ taken = 0 /\ active = 0
        BY <2>1 DEF Init
      <3>3. holder = None /\ stop_pc = "idle" /\ shutting_down \in BOOLEAN
        BY DEF Init
      <3>4. QED
        BY <3>1, <3>2, <3>3 DEF ControlInv
    <2>4. StatusInv
      BY DEF Init, StatusInv, Settled
    <2>5. QED
      BY <2>2, <2>3, <2>4 DEF MiningInv
  <1>2. MiningInv /\ [Next]_vars => MiningInv'
    <2> SUFFICES ASSUME MiningInv, [Next]_vars PROVE MiningInv'
      OBVIOUS
    <2> USE DEF MiningInv
    <2>1. ASSUME NEW mode \in {"Solo", "Pool"}, Start(mode)
          PROVE  MiningInv'
      <3> DEFINE n == Len(threads) + 1
      <3>0. NewThread(mode) \in WorkerThread /\ CreditOk(NewThread(mode))
        BY DEF NewThread, WorkerThread, CreditOk, MiningSteps
      <3>1. /\ threads \in Seq(WorkerThread) /\ threads' \in Seq(WorkerThread) /\ Len(threads') = n
            /\ threads'[n] = NewThread(mode)
            /\ \A u \in 1..Len(threads) : threads'[u] = threads[u]
        <4> HIDE DEF NewThread
        <4> QED BY <2>1, <3>0, AppendProperties DEF Start, WorkersInv
      <3>2. WorkersInv'
        BY <3>0, <3>1 DEF WorkersInv
      <3>3. NewThread(mode).pc \notin Finished
        BY DEF NewThread, Finished
      <3>4. Alive = {} /\ Alive' = {n}
        <4>1. Alive = {}
          BY <2>1, <3>1 DEF Start, MayStart, ControlInv, OneWorker, Alive
        <4>2. QED
          BY <3>1, <3>3, <4>1 DEF Alive
      <3>5. ControlInv'
        BY <2>1, <3>1, <3>4 DEF Start, ControlInv, OneWorker
      <3>6. StatusInv'
        BY <2>1, <3>4 DEF Start, StatusInv
      <3>7. QED
        BY <3>2, <3>5, <3>6
    <2>2. CASE StartFails
      <3>1. Alive = {} /\ Alive' = {}
        BY <2>2 DEF StartFails, MayStart, ControlInv, OneWorker, Alive
      <3>2. QED
        BY <2>2, <3>1 DEF StartFails, WorkersInv, ControlInv, StatusInv, OneWorker, Settled
    <2>3. ASSUME NEW s \in BOOLEAN, StopIdle(s)
          PROVE  MiningInv'
      BY <2>3 DEF StopIdle, WorkersInv, ControlInv, StatusInv, OneWorker, Alive, Settled
    <2>4. ASSUME NEW s \in BOOLEAN, NEW c \in Callers, StopBegin(c, s)
          PROVE  MiningInv'
      BY <2>4, CallersAssumption
         DEF StopBegin, WorkersInv, ControlInv, StatusInv, OneWorker, Alive, CallersAssumption
    <2>5. CASE StopSignal
      <3> DEFINE r == [threads[taken] EXCEPT !.stop = TRUE]
      <3>0. taken \in 1..Len(threads)
        BY <2>5 DEF StopSignal, ControlInv, WorkersInv
      <3>t. threads[taken] \in WorkerThread /\ CreditOk(threads[taken])
        BY <3>0 DEF WorkersInv
      <3>1. r \in WorkerThread /\ CreditOk(r) /\ r.pc = threads[taken].pc
        BY <3>t DEF WorkerThread, CreditOk
      <3>2. threads' = [threads EXCEPT ![taken] = r]
        BY <2>5 DEF StopSignal
      <3>3. /\ threads' \in Seq(WorkerThread) /\ Len(threads') = Len(threads)
            /\ threads'[taken] = r
            /\ \A u \in 1..Len(threads) : u # taken => threads'[u] = threads[u]
        <4> HIDE DEF r
        <4> QED BY <3>0, <3>1, <3>2, ThreadReplaced DEF WorkersInv
      <3> HIDE DEF r
      <3>4. WorkersInv'
        BY <3>1, <3>3 DEF WorkersInv
      <3>5. Alive' = Alive
        BY <3>1, <3>3 DEF Alive
      <3>6. ControlInv'
        BY <2>5, <3>3, <3>5 DEF StopSignal, ControlInv, OneWorker
      <3>7. StatusInv'
        BY <2>5 DEF StopSignal, StatusInv, ControlInv, status
      <3>8. QED
        BY <3>4, <3>6, <3>7
    <2>6. CASE StopJoin
      <3>1. Alive' = {} /\ Alive = {}
        BY <2>6 DEF StopJoin, ControlInv, OneWorker, Alive
      <3>2. QED
        BY <2>6, <3>1 DEF StopJoin, WorkersInv, ControlInv, StatusInv, OneWorker, Settled
    <2>7. ASSUME NEW t \in 1..Len(threads), WorkerStep(t)
          PROVE  MiningInv'
      BY <2>7, WorkerStepShape, ShapeKeepsInv
    <2>8. CASE UNCHANGED vars
      BY <2>8 DEF vars, control, status, WorkersInv, ControlInv, StatusInv, OneWorker, Alive, Settled
    <2>9. QED
      BY <2>1, <2>2, <2>3, <2>4, <2>5, <2>6, <2>7, <2>8 DEF Next
  <1>3. QED
    BY <1>1, <1>2, PTL DEF Spec

(* One mining thread at a time, however starts and stops race with workers *)
(* that end by themselves; no activity and no pool connection shown once   *)
(* no worker is left; and no credit shown that a server did not give, over *)
(* reconnects and lost answers (start, stop_inner and the worker loops).   *)
THEOREM WorkerIsAccounted ==
    ASSUME CallersAssumption
    PROVE  Spec => []WorkerAccounted
  <1>1. MiningInv => WorkerAccounted
    <2> SUFFICES ASSUME MiningInv PROVE WorkerAccounted
      OBVIOUS
    <2> USE DEF MiningInv
    <2>0. \A t \in 1..Len(threads) : threads[t] \in WorkerThread /\ CreditOk(threads[t])
      BY DEF WorkersInv
    <2>1. TypeOK
      BY <2>0 DEF TypeOK, ControlInv, StatusInv, CreditOk, WorkerThread
    <2>2. SettledStatus
      BY DEF SettledStatus, StatusInv, Settled, At
    <2>3. CreditNotInvented
      BY <2>0 DEF CreditNotInvented, CreditOk, WorkerThread
    <2>4. QED
      BY <2>1, <2>2, <2>3 DEF WorkerAccounted, ControlInv
  <1>2. QED
    BY <1>1, WalletMinerInvariant, PTL

(* After the stop that shutdown issues has returned, no worker is started: *)
(* start refuses, and only live threads take steps.                        *)
THEOREM ShutdownFinal ==
    ASSUME CallersAssumption
    PROVE  Spec => ShutdownIsFinal
  <1>1. MiningInv /\ [Next]_vars
          => [shutting_down /\ holder = None /\ Alive = {} => Alive' = {}]_vars
    <2> SUFFICES ASSUME MiningInv, Next, shutting_down, holder = None, Alive = {}
                 PROVE  Alive' = {}
      OBVIOUS
    <2>1. stop_pc = "idle"
      BY DEF MiningInv, ControlInv
    <2>2. ~ \E t \in 1..Len(threads) : WorkerStep(t)
      BY WorkerStepShape DEF WorkerShape, Alive
    <2>3. UNCHANGED threads
      BY <2>1, <2>2 DEF Next, Start, MayStart, StartFails, StopIdle, StopBegin, StopSignal, StopJoin
    <2>4. QED
      BY <2>3 DEF Alive
  <1>2. QED
    BY <1>1, WalletMinerInvariant, PTL DEF Spec, ShutdownIsFinal
-----------------------------------------------------------------------------
Busy == {"live", "greeted"}
HostSteps == {"none", "begun", "ended"} \cup Busy
Records == [seen : Nat, active : Nat]

(* A table of observations.                                                *)
Table(table) ==
    /\ table \in [DOMAIN table -> Records]
    /\ IsFiniteSet(DOMAIN table) /\ DOMAIN table \subseteq Nat
    /\ Cardinality(DOMAIN table) <= MaxObserved

TypeInv ==
    /\ peers \in Seq(Nat)
    /\ reserved \in 0..MaxPeers
    /\ handles \subseteq Workers
    /\ session \in [Sessions -> HostSteps]
    /\ address \in [Sessions -> Nat]
    /\ turn \in 1..(Len(peers) + 1)
    /\ now \in Nat
    /\ Table(observations)
    /\ DOMAIN observations \subseteq InboundKeys \cup Range(peers)

(* A worker serves an inbound address; the poller has a session in its two *)
(* exchanges only, with the peer whose turn it is.                         *)
KeysInv ==
    /\ \A w \in Workers : session[w] # "none" => address[w] \in InboundKeys
    /\ session[Poller] # "none" =>
          poll \in {"sync", "relay"} /\ turn \in DOMAIN peers /\ address[Poller] = peers[turn]

(* The slots are the workers', and a listener that runs can join them all. *)
ThreadsInv ==
    /\ SlotsExact
    /\ listener = "running" => \A w \in Workers : session[w] # "none" => w \in handles
    /\ listener \in {"off", "done"} => \A w \in Workers : session[w] = "none"

(* How far the services are started or stopped.                            *)
RuntimeInv ==
    /\ host \in {"config", "bind"} => listener = "off"
    /\ host \in {"config", "bind", "spawn_poller"} => poll = "off"
    /\ host = "config" => DOMAIN observations = {}
    /\ poll = "off" => turn = 1
    /\ host \in {"join_listener", "stopped", "stopped_error"} => poll \in {"off", "done"}
    /\ host = "stopped" => listener = "done"

HostInv == TypeInv /\ KeysInv /\ ThreadsInv /\ ObservationsExact /\ RuntimeInv

-----------------------------------------------------------------------------
(* The table of observations.                                              *)

(* Idle records are enough for an eviction: the oldest of them, and of     *)
(* these the one with the least key.                                       *)
LEMMA SomeEvictable ==
    ASSUME NEW table, Table(table), Idle(table) # {}
    PROVE  Evictable(table) # {} /\ Evictable(table) \subseteq Idle(table)
<1> DEFINE seen == {table[k].seen : k \in Idle(table)}
<1>1. \A k \in DOMAIN table : table[k].seen \in Nat /\ k \in Nat
  BY DEF Table, Records
<1>2. seen \subseteq Nat /\ seen # {}
  BY <1>1 DEF Idle
<1>3. PICK oldest \in seen : \A n \in seen : oldest <= n
  <2> HIDE DEF seen
  <2> QED
    BY <1>2, LeastElement
<1> DEFINE keys == {k \in Idle(table) : table[k].seen = oldest}
<1>4. keys \subseteq Nat /\ keys # {}
  BY <1>1, <1>3 DEF Idle
<1>5. PICK least \in keys : \A k \in keys : least <= k
  <2> HIDE DEF keys
  <2> QED
    BY <1>4, LeastElement
<1>6. ASSUME NEW j \in Idle(table)
      PROVE  \/ table[least].seen < table[j].seen
             \/ table[least].seen = table[j].seen /\ least <= j
  <2>1. table[least].seen = oldest /\ oldest <= table[j].seen
    BY <1>3, <1>5
  <2>2. oldest \in Nat /\ table[j].seen \in Nat
    BY <1>1, <1>2, <1>3 DEF Idle
  <2>3. table[j].seen = oldest => least <= j
    BY <1>5
  <2> HIDE DEF seen, keys
  <2> QED
    BY <2>1, <2>2, <2>3
<1>7. least \in Idle(table)
  BY <1>5
<1> QED
  BY <1>6, <1>7 DEF Evictable

(* A key that has a record, or for which there is room or an idle record,  *)
(* has one afterwards; of the other records only an idle one may go.       *)
LEMMA RecordFound ==
    ASSUME NEW table, Table(table), now \in Nat, MaxObserved \in Nat, NEW key \in Nat,
           \/ key \in DOMAIN table
           \/ Cardinality(DOMAIN table) < MaxObserved
           \/ Idle(table) # {}
    PROVE  /\ Table(WithRecord(table, key))
           /\ key \in DOMAIN WithRecord(table, key)
           /\ DOMAIN WithRecord(table, key) \subseteq DOMAIN table \cup {key}
           /\ \A k \in DOMAIN table : table[k].active # 0 => k \in DOMAIN WithRecord(table, key)
           /\ \A k \in DOMAIN WithRecord(table, key) :
                 WithRecord(table, key)[k].active = IF k \in DOMAIN table THEN table[k].active
                                                    ELSE 0
<1>1. CASE key \in DOMAIN table
  <2>1. WithRecord(table, key) = table
    BY <1>1 DEF WithRecord
  <2> QED
    BY <1>1, <2>1
<1>2. CASE key \notin DOMAIN table
  <2> DEFINE victims == IF Cardinality(DOMAIN table) < MaxObserved THEN {} ELSE Evictable(table)
             keys == (DOMAIN table \cup {key}) \ (victims \ {key})
             new == [k \in keys |-> IF k \in DOMAIN table THEN table[k]
                                    ELSE [active |-> 0, seen |-> now]]
  <2>0. Cardinality(DOMAIN table) \in Nat
    BY FS_CardinalityType DEF Table
  <2>1. /\ Cardinality(DOMAIN table) >= MaxObserved => victims # {}
        /\ victims \subseteq Idle(table)
    <3>1. CASE Cardinality(DOMAIN table) < MaxObserved
      BY <2>0, <3>1
    <3>2. CASE ~(Cardinality(DOMAIN table) < MaxObserved)
      <4>1. Evictable(table) # {} /\ Evictable(table) \subseteq Idle(table)
        BY <1>2, <3>2, SomeEvictable
      <4> QED
        BY <3>2, <4>1
    <3> QED
      BY <3>1, <3>2
  <2>2. WithRecord(table, key) = new
    BY <1>2, <2>1 DEF WithRecord
  <2>3. key \in keys /\ keys \subseteq DOMAIN table \cup {key} /\ DOMAIN new = keys
    OBVIOUS
  <2>4. \A k \in DOMAIN table : table[k].active # 0 => k \in keys
    BY <2>1 DEF Idle
  <2>5. new \in [keys -> Records]
    <3>1. \A k \in DOMAIN table : table[k] \in Records
      BY DEF Table
    <3>2. [active |-> 0, seen |-> now] \in Records
      BY DEF Records
    <3> QED
      BY <3>1, <3>2
  <2>6. IsFiniteSet(keys) /\ Cardinality(keys) <= MaxObserved
    <3>0. IsFiniteSet(DOMAIN table) /\ Cardinality(DOMAIN table) \in Nat
          /\ Cardinality(DOMAIN table) <= MaxObserved
      BY FS_CardinalityType DEF Table
    <3>1. CASE Cardinality(DOMAIN table) < MaxObserved
      <4>1. keys = DOMAIN table \cup {key}
        BY <3>1
      <4>2. IsFiniteSet(keys) /\ Cardinality(keys) = Cardinality(DOMAIN table) + 1
        BY <1>2, <3>0, <4>1, FS_AddElement
      <4> HIDE DEF keys
      <4> QED
        BY <3>0, <3>1, <4>2
    <3>2. CASE Cardinality(DOMAIN table) >= MaxObserved
      <4>1. PICK v : v \in victims /\ v \in DOMAIN table
        BY <2>1, <3>2 DEF Idle
      <4>2. keys \subseteq (DOMAIN table \ {v}) \cup {key}
        BY <1>2, <4>1
      <4>3. IsFiniteSet(DOMAIN table \ {v})
            /\ Cardinality(DOMAIN table \ {v}) = Cardinality(DOMAIN table) - 1
        BY <3>0, <4>1, FS_RemoveElement
      <4>4. IsFiniteSet((DOMAIN table \ {v}) \cup {key})
            /\ Cardinality((DOMAIN table \ {v}) \cup {key}) = Cardinality(DOMAIN table)
        <5>1. key \notin DOMAIN table \ {v}
          BY <1>2
        <5>2. Cardinality((DOMAIN table \ {v}) \cup {key}) = Cardinality(DOMAIN table \ {v}) + 1
              /\ IsFiniteSet((DOMAIN table \ {v}) \cup {key})
          BY <4>3, <5>1, FS_AddElement
        <5> QED
          BY <3>0, <4>3, <5>2
      <4> HIDE DEF keys
      <4>5. IsFiniteSet(keys) /\ Cardinality(keys) <= Cardinality(DOMAIN table)
            /\ Cardinality(keys) \in Nat
        BY <4>2, <4>4, FS_Subset, FS_CardinalityType
      <4> QED
        BY <3>0, <4>5
    <3> QED
      BY <3>0, <3>1, <3>2
  <2>7. \A k \in keys : new[k].active = IF k \in DOMAIN table THEN table[k].active ELSE 0
    OBVIOUS
  <2>8. keys \subseteq Nat
    BY <2>3 DEF Table
  <2> HIDE DEF new, keys, victims
  <2>9. Table(new)
    BY <2>3, <2>5, <2>6, <2>8 DEF Table
  <2> QED
    BY <2>2, <2>3, <2>4, <2>7, <2>9
<1> QED
  BY <1>1, <1>2

-----------------------------------------------------------------------------
(* What a step of one session, or of none, leaves alone.                   *)

LEMMA PollerIsNoWorker ==
    ASSUME HostAssumption
    PROVE  Poller \in Sessions /\ Poller \notin Workers /\ Workers \subseteq Sessions
           /\ IsFiniteSet(Workers) /\ IsFiniteSet(Sessions)
<1>1. IsFiniteSet(Workers) /\ Poller \notin Workers
  BY DEF HostAssumption, Poller
<1>2. IsFiniteSet(Workers \cup {Poller})
  BY <1>1, FS_AddElement
<1> QED
  BY <1>1, <1>2 DEF Sessions

LEMMA OneSession ==
    ASSUME TypeInv, NEW s \in Sessions, NEW x \in HostSteps, session' = [session EXCEPT ![s] = x]
    PROVE  /\ session' \in [Sessions -> HostSteps]
           /\ \A r \in Sessions : session'[r] = IF r = s THEN x ELSE session[r]
  BY DEF TypeInv

LEMMA OneAddress ==
    ASSUME TypeInv, NEW s \in Sessions, NEW a \in Nat, address' = [address EXCEPT ![s] = a]
    PROVE  /\ address' \in [Sessions -> Nat]
           /\ \A r \in Sessions : address'[r] = IF r = s THEN a ELSE address[r]
  BY DEF TypeInv

(* The report stays true while the same sessions are alive.                *)
LEMMA ReportKept ==
    ASSUME ObservationsExact, observations' = observations,
           \A r \in Sessions : /\ session'[r] \in Busy <=> session[r] \in Busy
                               /\ session[r] \in Busy => address'[r] = address[r]
    PROVE  ObservationsExact'
<1>1. \A k : LiveSessions(k)' = LiveSessions(k)
  BY DEF LiveSessions, Busy
<1> QED
  BY <1>1 DEF ObservationsExact, Busy

Serving == {w \in Workers : session[w] # "none"}

(* The slots stay exact while the same workers serve.                      *)
LEMMA SlotsKept ==
    ASSUME SlotsExact, reserved' = reserved,
           \A w \in Workers : session'[w] = "none" <=> session[w] = "none"
    PROVE  SlotsExact'
<1>1. Serving' = Serving
  BY DEF Serving
<1> QED
  BY <1>1 DEF SlotsExact, Serving

(* The invariant is about these variables.                                 *)
LEMMA Stutter ==
    ASSUME HostInv, UNCHANGED hostVars
    PROVE  HostInv'
<1> USE DEF hostVars, hosting, listening, polling, recording, sessions
<1>1. TypeInv'
  BY DEF HostInv, TypeInv, Table
<1>2. KeysInv'
  BY DEF HostInv, KeysInv
<1>3. ThreadsInv'
  BY DEF HostInv, ThreadsInv, SlotsExact
<1>4. ObservationsExact'
  BY ReportKept DEF HostInv
<1>5. RuntimeInv'
  BY DEF HostInv, RuntimeInv
<1> QED
  BY <1>1, <1>2, <1>3, <1>4, <1>5 DEF HostInv

(* The clock.                                                              *)
LEMMA TickKeeps ==
    ASSUME HostInv, Tick
    PROVE  HostInv'
<1> USE DEF Tick, hosting, listening, polling, sessions
<1>1. TypeInv'
  BY DEF HostInv, TypeInv, Table
<1>2. KeysInv'
  BY DEF HostInv, KeysInv
<1>3. ThreadsInv'
  BY DEF HostInv, ThreadsInv, SlotsExact
<1>4. ObservationsExact'
  BY ReportKept DEF HostInv
<1>5. RuntimeInv'
  BY DEF HostInv, RuntimeInv
<1> QED
  BY <1>1, <1>2, <1>3, <1>4, <1>5 DEF HostInv

-----------------------------------------------------------------------------
(* Recording a session.                                                    *)

(* While fewer sessions are alive than the table has records, one is idle. *)
LEMMA RoomToStart ==
    ASSUME HostAssumption, TypeInv, SlotsExact, ObservationsExact,
           NEW s \in Sessions, session[s] = "begun"
    PROVE  Cardinality(DOMAIN observations) < MaxObserved \/ Idle(observations) # {}
<1> SUFFICES ASSUME Idle(observations) = {}
             PROVE  Cardinality(DOMAIN observations) < MaxObserved
  OBVIOUS
<1> DEFINE live == {r \in Sessions : session[r] \in Busy}
           at == [r \in live |-> address[r]]
<1>0. reserved \in 0..MaxPeers /\ reserved \in Nat
  BY DEF TypeInv
<1>1. Poller \in Sessions /\ Poller \notin Workers /\ IsFiniteSet(Workers) /\ IsFiniteSet(Sessions)
  BY PollerIsNoWorker
<1>2. IsFiniteSet(live)
  BY <1>1, FS_Subset
<1>3. \A k \in DOMAIN observations : \E r \in live : address[r] = k
  <2> SUFFICES ASSUME NEW k \in DOMAIN observations
               PROVE  \E r \in live : address[r] = k
    OBVIOUS
  <2>1. observations[k].active # 0
    BY DEF Idle
  <2>2. Cardinality(LiveSessions(k)) # 0
    BY <2>1 DEF ObservationsExact
  <2>3. LiveSessions(k) # {}
    BY <2>2, FS_EmptySet
  <2> QED
    BY <2>3 DEF LiveSessions, Busy
<1>4. \A r \in live : address[r] \in DOMAIN observations
  BY DEF ObservationsExact, Busy
<1>5. at \in Surjection(live, DOMAIN observations)
  <2> HIDE DEF live
  <2> QED
    BY <1>3, <1>4 DEF Surjection
<1>6. Cardinality(DOMAIN observations) <= Cardinality(live)
  <2> HIDE DEF live, at
  <2> QED
    BY <1>2, <1>5, FS_Surjection
<1>7. IsFiniteSet(Serving) /\ Poller \notin Serving /\ Cardinality(Serving) = reserved
  <2>1. Serving \in SUBSET Workers
    BY DEF Serving
  <2>2. IsFiniteSet(Serving) /\ Poller \notin Serving
    BY <1>1, <2>1, FS_Subset
  <2> QED
    BY <2>2 DEF SlotsExact, Serving
<1> DEFINE all == Serving \cup {Poller}
<1>8. IsFiniteSet(all) /\ Cardinality(all) = reserved + 1
  BY <1>7, FS_AddElement
<1>9. s \in all /\ live \subseteq all \ {s}
  BY DEF Sessions, Serving, Busy
<1>10. IsFiniteSet(all \ {s}) /\ Cardinality(all \ {s}) = reserved
  <2>1. s \in all
    BY <1>9
  <2> HIDE DEF all, live
  <2> QED
    BY <1>0, <1>8, <2>1, Smaller
<1>11. Cardinality(live) <= reserved
  <2> HIDE DEF all, live
  <2> QED
    BY <1>9, <1>10, FS_Subset
<1>12. Cardinality(live) \in Nat /\ Cardinality(DOMAIN observations) \in Nat
  <2> HIDE DEF live
  <2> QED
    BY <1>2, FS_CardinalityType DEF TypeInv, Table
<1> HIDE DEF live
<1>13. MaxPeers \in Nat /\ MaxObserved \in Nat /\ MaxPeers + 1 <= MaxObserved
  BY DEF HostAssumption
<1> QED
  BY <1>0, <1>6, <1>11, <1>12, <1>13

(* What an event makes of the number of connections of a record.           *)
Counted(n, event) ==
    CASE event = "started" -> n + 1
      [] event = "succeeded" -> n
      [] event = "ended" -> IF n = 0 THEN 0 ELSE n - 1

(* The connections a report shows for a key.                               *)
Shown(key) == IF key \in DOMAIN observations THEN observations[key].active ELSE 0

LEMMA RecordKeeps ==
    ASSUME TypeInv, MaxObserved \in Nat, NEW key \in Nat,
           NEW event \in {"started", "succeeded", "ended"},
           \/ key \in DOMAIN observations
           \/ Cardinality(DOMAIN observations) < MaxObserved
           \/ Idle(observations) # {},
           Record(key, event)
    PROVE  /\ Table(observations')
           /\ key \in DOMAIN observations'
           /\ DOMAIN observations' \subseteq DOMAIN observations \cup {key}
           /\ \A k \in DOMAIN observations :
                 observations[k].active # 0 => k \in DOMAIN observations'
           /\ \A k \in DOMAIN observations' :
                 k # key => observations'[k].active = Shown(k)
           /\ observations'[key].active = Counted(Shown(key), event)
<1> DEFINE table == WithRecord(observations, key)
<1>1. /\ Table(table) /\ key \in DOMAIN table
      /\ DOMAIN table \subseteq DOMAIN observations \cup {key}
      /\ \A k \in DOMAIN observations : observations[k].active # 0 => k \in DOMAIN table
      /\ \A k \in DOMAIN table : table[k].active = Shown(k)
  <2>1. Table(observations) /\ now \in Nat
    BY DEF TypeInv
  <2> HIDE DEF table
  <2>2. /\ Table(WithRecord(observations, key))
        /\ key \in DOMAIN WithRecord(observations, key)
        /\ DOMAIN WithRecord(observations, key) \subseteq DOMAIN observations \cup {key}
        /\ \A k \in DOMAIN observations :
              observations[k].active # 0 => k \in DOMAIN WithRecord(observations, key)
        /\ \A k \in DOMAIN WithRecord(observations, key) :
              WithRecord(observations, key)[k].active =
                 IF k \in DOMAIN observations THEN observations[k].active ELSE 0
    BY <2>1, RecordFound
  <2> QED
    BY <2>2 DEF table, Shown
<1>2. observations' = [table EXCEPT ![key] = Observed(table[key], event)]
  BY <1>1 DEF Record
<1> HIDE DEF table
<1>3. \A k \in DOMAIN table : table[k] \in Records
  BY <1>1 DEF Table
<1>4. table[key].active \in Nat /\ now \in Nat
  BY <1>1, <1>3 DEF Records, TypeInv
<1>5. /\ Observed(table[key], event) \in Records
      /\ Observed(table[key], event).active = Counted(table[key].active, event)
  BY <1>4 DEF Observed, Records, Counted
<1>6. table = [k \in DOMAIN table |-> table[k]]
  BY <1>1 DEF Table
<1>7. /\ DOMAIN observations' = DOMAIN table
      /\ observations'[key] = Observed(table[key], event)
      /\ \A k \in DOMAIN table : k # key => observations'[k] = table[k]
  BY <1>1, <1>2, <1>6
<1>8. observations' = [k \in DOMAIN table |-> observations'[k]]
  BY <1>2, <1>6
<1>9. Table(observations')
  <2>1. \A k \in DOMAIN observations' : observations'[k] \in Records
    BY <1>3, <1>5, <1>7
  <2> QED
    BY <1>1, <1>7, <1>8, <2>1 DEF Table
<1> QED
  BY <1>1, <1>5, <1>7, <1>9

(* The types and the keys survive a record of a session's own key.         *)
LEMMA KeyKnown ==
    ASSUME TypeInv, KeysInv, HostAssumption, NEW s \in Sessions, session[s] # "none"
    PROVE  address[s] \in Nat /\ address[s] \in InboundKeys \cup Range(peers)
<1>1. CASE s \in Workers
  BY <1>1 DEF TypeInv, KeysInv, Sessions
<1>2. CASE s = Poller
  <2>1. address[Poller] = peers[turn] /\ turn \in DOMAIN peers
    BY <1>2 DEF KeysInv
  <2>2. peers[turn] \in Range(peers)
    BY <2>1 DEF Range
  <2> QED
    BY <1>2, <2>1, <2>2 DEF TypeInv
<1> QED
  BY <1>1, <1>2 DEF Sessions

LEMMA LiveFinite ==
    ASSUME HostAssumption, NEW k
    PROVE  IsFiniteSet(LiveSessions(k)) /\ Cardinality(LiveSessions(k)) \in Nat
<1>1. LiveSessions(k) \in SUBSET Sessions /\ IsFiniteSet(Sessions)
  BY PollerIsNoWorker DEF LiveSessions
<1> QED
  BY <1>1, FS_Subset, FS_CardinalityType

(* The number a report shows is the number of live sessions, none without  *)
(* a record.                                                               *)
LEMMA ShownExact ==
    ASSUME ObservationsExact, NEW k
    PROVE  Shown(k) = Cardinality(LiveSessions(k))
<1>1. CASE k \in DOMAIN observations
  BY <1>1 DEF ObservationsExact, Shown
<1>2. CASE k \notin DOMAIN observations
  <2>1. LiveSessions(k) = {}
    BY <1>2 DEF LiveSessions, ObservationsExact
  <2> QED
    BY <1>2, <2>1, FS_EmptySet DEF Shown
<1> QED
  BY <1>1, <1>2

(* A session step that records: what is left to show is that the event     *)
(* counts the session in or out.                                           *)
LEMMA RecordingKeeps ==
    ASSUME HostAssumption, HostInv, NEW s \in Sessions, session[s] # "none",
           NEW event \in {"started", "succeeded", "ended"}, NEW next \in HostSteps \ {"none"},
           \/ address[s] \in DOMAIN observations
           \/ Cardinality(DOMAIN observations) < MaxObserved
           \/ Idle(observations) # {},
           Record(address[s], event), session' = [session EXCEPT ![s] = next],
           UNCHANGED <<hosting, listening, polling, now, address>>,
           Cardinality(LiveSessions(address[s])') = Counted(Shown(address[s]), event)
    PROVE  HostInv'
<1> USE DEF hosting, listening, polling
<1> DEFINE key == address[s]
<1>1. key \in Nat /\ key \in InboundKeys \cup Range(peers)
  BY KeyKnown DEF HostInv
<1>2. /\ session' \in [Sessions -> HostSteps]
      /\ \A r \in Sessions : session'[r] = IF r = s THEN next ELSE session[r]
  BY OneSession DEF HostInv
<1>3. /\ Table(observations') /\ key \in DOMAIN observations'
      /\ DOMAIN observations' \subseteq DOMAIN observations \cup {key}
      /\ \A k \in DOMAIN observations :
            observations[k].active # 0 => k \in DOMAIN observations'
      /\ \A k \in DOMAIN observations' : k # key => observations'[k].active = Shown(k)
      /\ observations'[key].active = Counted(Shown(key), event)
  <2>1. MaxObserved \in Nat /\ TypeInv
    BY DEF HostAssumption, HostInv
  <2> QED
    BY <1>1, <2>1, RecordKeeps
<1>4. TypeInv'
  <2>1. DOMAIN observations' \subseteq InboundKeys \cup Range(peers)
    BY <1>1, <1>3 DEF HostInv, TypeInv
  <2>2. Range(peers') = Range(peers)
    OBVIOUS
  <2> HIDE DEF key
  <2> QED
    BY <1>2, <1>3, <2>1, <2>2 DEF HostInv, TypeInv
<1>5. KeysInv'
  <2>1. \A r \in Sessions : session'[r] # "none" => session[r] # "none"
    BY <1>2
  <2> QED
    BY <2>1, PollerIsNoWorker DEF HostInv, KeysInv
<1>6. ThreadsInv'
  <2>1. \A w \in Workers : session'[w] = "none" <=> session[w] = "none"
    BY <1>2, PollerIsNoWorker
  <2>2. SlotsExact'
    BY <2>1, SlotsKept DEF HostInv, ThreadsInv
  <2> QED
    BY <2>1, <2>2 DEF HostInv, ThreadsInv
<1>7. ObservationsExact'
  <2>1. \A k : k # key => LiveSessions(k)' = LiveSessions(k)
    BY <1>2 DEF LiveSessions
  <2>2. \A k \in DOMAIN observations' :
           observations'[k].active = Cardinality(LiveSessions(k)')
    <3> SUFFICES ASSUME NEW k \in DOMAIN observations'
                 PROVE  observations'[k].active = Cardinality(LiveSessions(k)')
      OBVIOUS
    <3>1. CASE k = key
      BY <1>3, <3>1
    <3>2. CASE k # key
      <4>1. Shown(k) = Cardinality(LiveSessions(k))
        BY ShownExact DEF HostInv
      <4> HIDE DEF key
      <4> QED
        BY <1>3, <2>1, <3>2, <4>1
    <3> QED
      BY <3>1, <3>2
  <2>3. \A r \in Sessions : session'[r] \in Busy => address'[r] \in DOMAIN observations'
    <3> SUFFICES ASSUME NEW r \in Sessions, session'[r] \in Busy
                 PROVE  address[r] \in DOMAIN observations'
      OBVIOUS
    <3>1. CASE address[r] = key
      BY <1>3, <3>1
    <3>2. CASE address[r] # key
      <4>1. r # s /\ session[r] \in Busy
        BY <1>2, <3>2
      <4>2. address[r] \in DOMAIN observations /\ r \in LiveSessions(address[r])
        BY <4>1 DEF HostInv, ObservationsExact, LiveSessions, Busy
      <4>3. observations[address[r]].active = Cardinality(LiveSessions(address[r]))
        BY <4>2 DEF HostInv, ObservationsExact
      <4>4. Cardinality(LiveSessions(address[r])) # 0
        BY <4>2, LiveFinite, FS_EmptySet
      <4> HIDE DEF key
      <4> QED
        BY <1>3, <4>2, <4>3, <4>4
    <3> QED
      BY <3>1, <3>2
  <2> QED
    BY <2>2, <2>3 DEF ObservationsExact, Busy
<1>8. RuntimeInv'
  <2>1. host # "config"
    <3> SUFFICES ASSUME host = "config" PROVE FALSE
      OBVIOUS
    <3>1. listener = "off" /\ poll = "off"
      BY DEF HostInv, RuntimeInv
    <3>2. \A r \in Sessions : session[r] = "none"
      BY <3>1 DEF HostInv, ThreadsInv, KeysInv, Sessions
    <3> QED
      BY <3>2
  <2> QED
    BY <2>1 DEF HostInv, RuntimeInv
<1> QED
  BY <1>4, <1>5, <1>6, <1>7, <1>8 DEF HostInv

-----------------------------------------------------------------------------
(* The steps of a session.                                                 *)

LEMMA StartKeeps ==
    ASSUME HostAssumption, HostInv, NEW s \in Sessions, StartSession(s)
    PROVE  HostInv'
<1> DEFINE key == address[s]
<1>1. session[s] = "begun" /\ Record(key, "started") /\ session' = [session EXCEPT ![s] = "live"]
      /\ UNCHANGED <<hosting, listening, polling, now, address>>
  BY DEF StartSession
<1>2. \A r \in Sessions : session'[r] = IF r = s THEN "live" ELSE session[r]
  BY <1>1, OneSession DEF HostInv, HostSteps, Busy
<1>3. LiveSessions(key)' = LiveSessions(key) \cup {s} /\ s \notin LiveSessions(key)
  BY <1>1, <1>2 DEF LiveSessions
<1>4. Cardinality(LiveSessions(key)') = Cardinality(LiveSessions(key)) + 1
  <2> HIDE DEF key
  <2> QED
    BY <1>3, LiveFinite, FS_AddElement
<1>5. Cardinality(LiveSessions(key)') = Counted(Shown(key), "started")
  <2> HIDE DEF key
  <2> QED
    BY <1>4, ShownExact DEF Counted, HostInv
<1>6. \/ key \in DOMAIN observations
      \/ Cardinality(DOMAIN observations) < MaxObserved
      \/ Idle(observations) # {}
  BY <1>1, RoomToStart DEF HostInv, ThreadsInv
<1>7. "live" \in HostSteps \ {"none"}
  BY DEF HostSteps, Busy
<1> QED
  BY <1>1, <1>5, <1>6, <1>7, RecordingKeeps

LEMMA SucceedKeeps ==
    ASSUME HostAssumption, HostInv, NEW s \in Sessions, Succeed(s)
    PROVE  HostInv'
<1> DEFINE key == address[s]
<1>1. session[s] = "live" /\ Record(key, "succeeded")
      /\ session' = [session EXCEPT ![s] = "greeted"]
      /\ UNCHANGED <<hosting, listening, polling, now, address>>
  BY DEF Succeed
<1>2. \A r \in Sessions : session'[r] = IF r = s THEN "greeted" ELSE session[r]
  BY <1>1, OneSession DEF HostInv, HostSteps, Busy
<1>3. LiveSessions(key)' = LiveSessions(key)
  BY <1>1, <1>2 DEF LiveSessions
<1>4. Cardinality(LiveSessions(key)') = Counted(Shown(key), "succeeded")
  <2> HIDE DEF key
  <2> QED
    BY <1>3, ShownExact DEF Counted, HostInv
<1>5. key \in DOMAIN observations
  BY <1>1 DEF HostInv, ObservationsExact
<1>6. "greeted" \in HostSteps \ {"none"}
  BY DEF HostSteps, Busy
<1> QED
  BY <1>1, <1>4, <1>5, <1>6, RecordingKeeps

LEMMA EndKeeps ==
    ASSUME HostAssumption, HostInv, NEW s \in Sessions, EndSession(s)
    PROVE  HostInv'
<1> DEFINE key == address[s]
<1>1. session[s] \in Busy /\ Record(key, "ended") /\ session' = [session EXCEPT ![s] = "ended"]
      /\ UNCHANGED <<hosting, listening, polling, now, address>>
  BY DEF EndSession, Busy
<1>2. \A r \in Sessions : session'[r] = IF r = s THEN "ended" ELSE session[r]
  BY <1>1, OneSession DEF HostInv, HostSteps
<1>3. LiveSessions(key)' = LiveSessions(key) \ {s} /\ s \in LiveSessions(key)
  BY <1>1, <1>2 DEF LiveSessions, Busy
<1>4. /\ Cardinality(LiveSessions(key)') = Cardinality(LiveSessions(key)) - 1
      /\ Cardinality(LiveSessions(key)) # 0 /\ Cardinality(LiveSessions(key)) \in Nat
  <2> HIDE DEF key
  <2>1. IsFiniteSet(LiveSessions(key))
    BY LiveFinite
  <2> QED
    BY <1>3, <2>1, Smaller, FS_EmptySet
<1>5. Cardinality(LiveSessions(key)') = Counted(Shown(key), "ended")
  <2> HIDE DEF key
  <2> QED
    BY <1>4, ShownExact DEF Counted, HostInv
<1>6. key \in DOMAIN observations
  BY <1>1 DEF HostInv, ObservationsExact, Busy
<1>7. "ended" \in HostSteps \ {"none"} /\ session[s] # "none"
  BY <1>1 DEF HostSteps, Busy
<1> QED
  BY <1>1, <1>5, <1>6, <1>7, RecordingKeeps

(* A session that was never recorded ends.                                 *)
LEMMA LosePeerKeeps ==
    ASSUME HostAssumption, HostInv, NEW w \in Workers, LosePeerAddress(w)
    PROVE  HostInv'
<1> USE DEF LosePeerAddress, hosting, listening, polling, recording
<1>1. w \in Sessions /\ w # Poller /\ Workers \subseteq Sessions
  BY PollerIsNoWorker
<1>2. /\ session' \in [Sessions -> HostSteps]
      /\ \A r \in Sessions : session'[r] = IF r = w THEN "ended" ELSE session[r]
  BY <1>1, OneSession DEF HostInv, HostSteps
<1>3. TypeInv'
  BY <1>2 DEF HostInv, TypeInv, Table
<1>4. KeysInv'
  BY <1>1, <1>2, PollerIsNoWorker DEF HostInv, KeysInv
<1>5. \A v \in Workers : session'[v] = "none" <=> session[v] = "none"
  BY <1>1, <1>2
<1>6. ThreadsInv'
  BY <1>5, SlotsKept DEF HostInv, ThreadsInv
<1>7. ObservationsExact'
  BY <1>2, ReportKept DEF HostInv, Busy
<1>8. RuntimeInv'
  BY DEF HostInv, RuntimeInv
<1> QED
  BY <1>3, <1>4, <1>6, <1>7, <1>8 DEF HostInv

(* The worker's closure returns and gives its slot back.                   *)
LEMMA DropGuardKeeps ==
    ASSUME HostAssumption, HostInv, NEW w \in Workers, DropGuard(w)
    PROVE  HostInv'
<1> USE DEF DropGuard, hosting, polling, recording
<1>1. w \in Sessions /\ w # Poller /\ Workers \subseteq Sessions /\ Poller \in Sessions
  BY PollerIsNoWorker
<1>2. /\ session' \in [Sessions -> HostSteps]
      /\ \A r \in Sessions : session'[r] = IF r = w THEN "none" ELSE session[r]
  BY <1>1, OneSession DEF HostInv, HostSteps
<1>3. /\ address' \in [Sessions -> Nat]
      /\ \A r \in Sessions : address'[r] = IF r = w THEN NoPeer ELSE address[r]
  BY <1>1, OneAddress DEF HostInv, NoPeer
<1>4. SlotsExact' /\ reserved' \in 0..MaxPeers
  <2>1. Serving' = Serving \ {w} /\ w \in Serving
    BY <1>1, <1>2 DEF Serving
  <2>2. IsFiniteSet(Serving)
    BY PollerIsNoWorker, FS_Subset DEF Serving
  <2>3. reserved = Cardinality(Serving)
    BY DEF HostInv, ThreadsInv, SlotsExact, Serving
  <2>4. /\ reserved \in Nat /\ Cardinality(Serving \ {w}) = reserved - 1
        /\ Cardinality(Serving \ {w}) \in Nat
    BY <2>1, <2>2, <2>3, Smaller
  <2>5. SlotsExact'
    BY <2>1, <2>4 DEF SlotsExact, Serving
  <2>6. reserved \in 0..MaxPeers /\ MaxPeers \in Nat
    BY DEF HostInv, TypeInv, HostAssumption
  <2>7. reserved' = reserved - 1 /\ reserved - 1 \in Nat
    BY <2>4
  <2> QED
    BY <2>5, <2>6, <2>7
<1>5. TypeInv'
  BY <1>2, <1>3, <1>4 DEF HostInv, TypeInv, Table
<1>6. KeysInv'
  BY <1>1, <1>2, <1>3, PollerIsNoWorker DEF HostInv, KeysInv
<1>7. ThreadsInv'
  BY <1>1, <1>2, <1>4 DEF HostInv, ThreadsInv
<1>8. ObservationsExact'
  BY <1>2, <1>3, ReportKept DEF HostInv, Busy
<1>9. RuntimeInv'
  BY DEF HostInv, RuntimeInv
<1> QED
  BY <1>5, <1>6, <1>7, <1>8, <1>9 DEF HostInv

-----------------------------------------------------------------------------
(* The listener.                                                           *)
LEMMA AcceptKeeps ==
    ASSUME HostAssumption, HostInv, Accept
    PROVE  HostInv'
<1> USE DEF hosting, polling, recording
<1> DEFINE kept == {w \in handles : ~Reaped(w)}
<1>1. listener = "running" /\ listener' = "running"
      /\ UNCHANGED <<host, peers, stopFlag, pollStop, poll, turn, observations, now>>
  BY DEF Accept
<1>2. kept \subseteq Workers /\ \A w \in Workers : session[w] # "none" => w \in kept
  BY <1>1 DEF HostInv, TypeInv, ThreadsInv, Reaped
<1>3. RuntimeInv'
  BY <1>1 DEF HostInv, RuntimeInv
<1>4. CASE ~Reserve
  <2>1. handles' = kept /\ UNCHANGED <<reserved, session, address>>
    BY <1>4 DEF Accept, sessions
  <2>2. TypeInv'
    BY <1>1, <1>2, <2>1 DEF HostInv, TypeInv, Table
  <2>3. KeysInv'
    BY <1>1, <2>1 DEF HostInv, KeysInv
  <2>4. ThreadsInv'
    <3>1. SlotsExact'
      BY <2>1, SlotsKept DEF HostInv, ThreadsInv
    <3> QED
      BY <1>1, <1>2, <2>1, <3>1 DEF ThreadsInv
  <2>5. ObservationsExact'
    BY <1>1, <2>1, ReportKept DEF HostInv
  <2> QED
    BY <1>3, <2>2, <2>3, <2>4, <2>5 DEF HostInv
<1>5. CASE Reserve
  <2>1. PICK w \in Fresh, a \in InboundKeys :
           /\ handles' = kept \cup {w} /\ reserved' = reserved + 1
           /\ session' = [session EXCEPT ![w] = "begun"]
           /\ address' = [address EXCEPT ![w] = a]
    BY <1>5 DEF Accept
  <2>2. w \in Workers /\ session[w] = "none"
    BY DEF Fresh
  <2>3. w \in Sessions /\ w # Poller /\ Workers \subseteq Sessions /\ Poller \in Sessions
        /\ a \in Nat
    BY <2>2, PollerIsNoWorker DEF HostAssumption
  <2>4. /\ session' \in [Sessions -> HostSteps]
        /\ \A r \in Sessions : session'[r] = IF r = w THEN "begun" ELSE session[r]
    BY <2>1, <2>3, OneSession DEF HostInv, HostSteps
  <2>5. /\ address' \in [Sessions -> Nat]
        /\ \A r \in Sessions : address'[r] = IF r = w THEN a ELSE address[r]
    BY <2>1, <2>3, OneAddress DEF HostInv
  <2>6. SlotsExact' /\ reserved' \in 0..MaxPeers
    <3>1. Serving' = Serving \cup {w} /\ w \notin Serving
      BY <2>2, <2>3, <2>4 DEF Serving
    <3>2. IsFiniteSet(Serving)
      BY PollerIsNoWorker, FS_Subset DEF Serving
    <3>3. reserved = Cardinality(Serving)
      BY DEF HostInv, ThreadsInv, SlotsExact, Serving
    <3>4. Cardinality(Serving \cup {w}) = reserved + 1
      BY <3>1, <3>2, <3>3, FS_AddElement
    <3>5. SlotsExact'
      BY <2>1, <3>1, <3>4 DEF SlotsExact, Serving
    <3>6. reserved \in 0..MaxPeers /\ MaxPeers \in Nat /\ reserved < MaxPeers
      BY <1>5 DEF HostInv, TypeInv, HostAssumption, Reserve
    <3> QED
      BY <2>1, <3>5, <3>6
  <2>7. TypeInv'
    <3>1. handles' \subseteq Workers
      BY <1>2, <2>1, <2>2
    <3> HIDE DEF kept
    <3> QED
      BY <1>1, <2>4, <2>5, <2>6, <3>1 DEF HostInv, TypeInv, Table
  <2>8. KeysInv'
    BY <1>1, <2>2, <2>3, <2>4, <2>5 DEF HostInv, KeysInv
  <2>9. ThreadsInv'
    <3>1. \A v \in Workers : session'[v] # "none" => v \in handles'
      BY <1>2, <2>1, <2>3, <2>4
    <3> QED
      BY <1>1, <2>6, <3>1 DEF ThreadsInv
  <2>10. ObservationsExact'
    BY <1>1, <2>2, <2>4, <2>5, ReportKept DEF HostInv, Busy
  <2> QED
    BY <1>3, <2>7, <2>8, <2>9, <2>10 DEF HostInv
<1> QED
  BY <1>4, <1>5

(* The listener leaves its loop: by an error, or having joined its workers.*)
LEMMA ListenerLeavesKeeps ==
    ASSUME HostAssumption, HostInv, ListenerFails \/ ListenerStops
    PROVE  HostInv'
<1> USE DEF hosting, polling, recording, sessions
<1>1. /\ listener = "running" /\ listener' \in {"failed", "done"} /\ handles' = {}
      /\ listener' = "done" => \A w \in handles : session[w] = "none"
      /\ UNCHANGED <<host, peers, stopFlag, pollStop, reserved, poll, turn, observations, now,
                     session, address>>
  BY DEF ListenerFails, ListenerStops
<1>2. TypeInv'
  BY <1>1 DEF HostInv, TypeInv, Table
<1>3. KeysInv'
  BY <1>1 DEF HostInv, KeysInv
<1>4. ThreadsInv'
  <2>1. SlotsExact'
    BY <1>1, SlotsKept DEF HostInv, ThreadsInv
  <2>2. listener' = "done" => \A w \in Workers : session[w] = "none"
    BY <1>1 DEF HostInv, ThreadsInv
  <2> QED
    BY <1>1, <2>1, <2>2 DEF ThreadsInv
<1>5. ObservationsExact'
  BY <1>1, ReportKept DEF HostInv
<1>6. RuntimeInv'
  BY <1>1 DEF HostInv, RuntimeInv
<1> QED
  BY <1>2, <1>3, <1>4, <1>5, <1>6 DEF HostInv

-----------------------------------------------------------------------------
(* The poller.                                                             *)

(* The poller's steps move its own session, between states in which no     *)
(* exchange is alive.                                                      *)
LEMMA PollerMoves ==
    ASSUME HostAssumption, HostInv, NEW x \in {"none", "begun"}, NEW a \in Nat,
           session[Poller] \notin Busy,
           session' = [session EXCEPT ![Poller] = x],
           address' = [address EXCEPT ![Poller] = a],
           poll \in {"turn", "sync", "relay"}, poll' \in {"turn", "sync", "relay"},
           turn' \in 1..(Len(peers) + 1),
           x # "none" => poll' \in {"sync", "relay"} /\ turn' \in DOMAIN peers /\ a = peers[turn'],
           UNCHANGED <<hosting, listening, recording>>
    PROVE  HostInv'
<1> USE DEF hosting, listening, recording
<1>1. Poller \in Sessions /\ Poller \notin Workers /\ Workers \subseteq Sessions
  BY PollerIsNoWorker
<1>2. /\ session' \in [Sessions -> HostSteps]
      /\ \A r \in Sessions : session'[r] = IF r = Poller THEN x ELSE session[r]
  BY <1>1, OneSession DEF HostInv, HostSteps
<1>3. /\ address' \in [Sessions -> Nat]
      /\ \A r \in Sessions : address'[r] = IF r = Poller THEN a ELSE address[r]
  BY <1>1, OneAddress DEF HostInv
<1>4. TypeInv'
  BY <1>2, <1>3 DEF HostInv, TypeInv, Table
<1>5. KeysInv'
  <2>1. \A w \in Workers : session'[w] = session[w] /\ address'[w] = address[w]
    BY <1>1, <1>2, <1>3
  <2>2. session'[Poller] = x /\ address'[Poller] = a
    BY <1>1, <1>2, <1>3
  <2> QED
    BY <2>1, <2>2 DEF HostInv, KeysInv
<1>6. ThreadsInv'
  <2>1. \A w \in Workers : session'[w] = session[w]
    BY <1>1, <1>2
  <2>2. SlotsExact'
    BY <2>1, SlotsKept DEF HostInv, ThreadsInv
  <2> QED
    BY <2>1, <2>2 DEF HostInv, ThreadsInv
<1>7. ObservationsExact'
  BY <1>2, <1>3, ReportKept DEF HostInv, Busy
<1>8. RuntimeInv'
  BY DEF HostInv, RuntimeInv
<1> QED
  BY <1>4, <1>5, <1>6, <1>7, <1>8 DEF HostInv

(* Its other steps move no session at all.                                 *)
LEMMA PollerRests ==
    ASSUME HostInv, poll \in {"turn", "wait"}, poll' \in {"turn", "wait", "done"},
           turn' \in 1..(Len(peers) + 1),
           UNCHANGED <<hosting, listening, recording, sessions>>
    PROVE  HostInv'
<1> USE DEF hosting, listening, recording, sessions
<1>1. TypeInv'
  BY DEF HostInv, TypeInv, Table
<1>2. KeysInv'
  BY DEF HostInv, KeysInv
<1>3. ThreadsInv'
  BY SlotsKept DEF HostInv, ThreadsInv
<1>4. ObservationsExact'
  BY ReportKept DEF HostInv
<1>5. RuntimeInv'
  BY DEF HostInv, RuntimeInv
<1> QED
  BY <1>1, <1>2, <1>3, <1>4, <1>5 DEF HostInv

LEMMA PollsKeep ==
    ASSUME HostAssumption, HostInv, Polls
    PROVE  HostInv'
<1>0. /\ Len(peers) \in Nat /\ DOMAIN peers = 1..Len(peers) /\ turn \in 1..(Len(peers) + 1)
      /\ \A i \in DOMAIN peers : peers[i] \in Nat
      /\ session \in [Sessions -> HostSteps] /\ address \in [Sessions -> Nat]
  BY DEF HostInv, TypeInv
<1>1. CASE PollTurn
  <2>1. poll = "turn" /\ session[Poller] = "none" /\ UNCHANGED <<hosting, listening, recording>>
    BY <1>1 DEF HostInv, KeysInv, PollTurn
  <2>2. CASE pollStop \/ turn > Len(peers)
    <3>1. poll' \in {"done", "wait"} /\ turn' = 1 /\ UNCHANGED sessions
      BY <1>1, <2>2 DEF PollTurn
    <3>2. turn' \in 1..(Len(peers) + 1)
      BY <1>0, <3>1
    <3> QED
      BY <2>1, <3>1, <3>2, PollerRests
  <2>3. CASE ~(pollStop \/ turn > Len(peers))
    <3>1. /\ poll' = "sync" /\ turn' = turn
          /\ session' = [session EXCEPT ![Poller] = "begun"]
          /\ address' = [address EXCEPT ![Poller] = peers[turn]]
      BY <1>1, <2>3 DEF PollTurn
    <3>2. turn \in DOMAIN peers
      BY <1>0, <2>3
    <3> QED
      BY <1>0, <2>1, <3>1, <3>2, PollerMoves DEF Busy
  <2> QED
    BY <2>2, <2>3
<1>2. CASE PollRelay
  <2>1. /\ poll = "sync" /\ session[Poller] = "ended" /\ poll' = "relay" /\ turn' = turn
        /\ session' = [session EXCEPT ![Poller] = "begun"] /\ address' = address
        /\ UNCHANGED <<hosting, listening, recording>>
    BY <1>2 DEF PollRelay
  <2>2. turn \in DOMAIN peers /\ address[Poller] = peers[turn]
    BY <2>1 DEF HostInv, KeysInv
  <2>3. address' = [address EXCEPT ![Poller] = peers[turn]]
    BY <1>0, <2>1, <2>2
  <2> QED
    BY <1>0, <2>1, <2>2, <2>3, PollerMoves DEF Busy
<1>3. CASE PollNext
  <2>1. /\ poll = "relay" /\ session[Poller] = "ended" /\ poll' = "turn" /\ turn' = turn + 1
        /\ session' = [session EXCEPT ![Poller] = "none"]
        /\ address' = [address EXCEPT ![Poller] = NoPeer]
        /\ UNCHANGED <<hosting, listening, recording>>
    BY <1>3 DEF PollNext
  <2>2. turn \in DOMAIN peers
    BY <2>1 DEF HostInv, KeysInv
  <2>3. turn' \in 1..(Len(peers) + 1) /\ NoPeer \in Nat
    BY <1>0, <2>1, <2>2 DEF NoPeer
  <2> QED
    BY <2>1, <2>3, PollerMoves DEF Busy
<1>4. CASE PollWake
  BY <1>0, <1>4, PollerRests DEF PollWake
<1> QED
  BY <1>1, <1>2, <1>3, <1>4 DEF Polls

-----------------------------------------------------------------------------
(* The hosting runtime.                                                    *)

(* The configured peers; nothing has run before.                           *)
LEMMA ConfigureKeeps ==
    ASSUME HostAssumption, HostInv, Configure
    PROVE  HostInv'
<1> USE DEF listening, polling, recording, sessions
<1>1. /\ host = "config" /\ host' \in {"bind", "failed"} /\ peers' \in Seq(Nat)
      /\ UNCHANGED <<stopFlag, pollStop, listener, handles, reserved, poll, turn, observations,
                     now, session, address>>
  BY DEF Configure, HostAssumption, HostInv, TypeInv
<1>2. /\ listener = "off" /\ poll = "off" /\ turn = 1 /\ DOMAIN observations = {}
      /\ session[Poller] = "none"
  BY <1>1 DEF HostInv, RuntimeInv, KeysInv
<1>3. TypeInv'
  <2>1. turn' \in 1..(Len(peers') + 1)
    BY <1>1, <1>2
  <2>2. DOMAIN observations' \subseteq InboundKeys \cup Range(peers')
    BY <1>1, <1>2
  <2> QED
    BY <1>1, <2>1, <2>2 DEF HostInv, TypeInv, Table
<1>4. KeysInv'
  BY <1>1, <1>2 DEF HostInv, KeysInv
<1>5. ThreadsInv'
  BY <1>1, SlotsKept DEF HostInv, ThreadsInv
<1>6. ObservationsExact'
  BY <1>1, ReportKept DEF HostInv
<1>7. RuntimeInv'
  BY <1>1, <1>2 DEF RuntimeInv
<1> QED
  BY <1>3, <1>4, <1>5, <1>6, <1>7 DEF HostInv

(* The other steps of the runtime move its threads' flags, and the threads *)
(* themselves only as they are spawned.                                    *)
LEMMA RuntimeKeeps ==
    ASSUME HostAssumption, HostInv, Runtime, ~Configure
    PROVE  HostInv'
<1> USE DEF hosting, listening, polling, recording, sessions
<1>1. /\ UNCHANGED <<peers, handles, reserved, turn, observations, now, session, address>>
      /\ host # "config"
      /\ listener' = listener \/ (host = "bind" /\ listener' = "running")
      /\ poll' = poll \/ (host = "spawn_poller" /\ poll' = "turn")
  BY DEF Runtime, SpawnListener, SpawnPoller, StopServices, JoinPoller, JoinListener
<1>2. TypeInv'
  BY <1>1 DEF HostInv, TypeInv, Table
<1>3. KeysInv'
  BY <1>1 DEF HostInv, KeysInv, RuntimeInv
<1>4. ThreadsInv'
  <2>1. SlotsExact'
    BY <1>1, SlotsKept DEF HostInv, ThreadsInv
  <2> QED
    BY <1>1, <2>1 DEF HostInv, ThreadsInv, RuntimeInv
<1>5. ObservationsExact'
  BY <1>1, ReportKept DEF HostInv
<1>6. RuntimeInv'
  BY <1>1 DEF HostInv, RuntimeInv, Runtime, SpawnListener, SpawnPoller, StopServices,
       JoinPoller, JoinListener
<1> QED
  BY <1>2, <1>3, <1>4, <1>5, <1>6 DEF HostInv

-----------------------------------------------------------------------------
LEMMA InitEstablishes ==
    ASSUME HostAssumption, HostInit
    PROVE  HostInv
<1> USE DEF HostInit
<1>1. DOMAIN observations = {} /\ observations \in [{} -> Records]
  OBVIOUS
<1>2. Table(observations)
  <2>1. MaxObserved \in Nat
    BY DEF HostAssumption
  <2> QED
    BY <1>1, <2>1, FS_EmptySet DEF Table
<1>3. TypeInv
  <2>1. peers \in Seq(Nat) /\ Len(peers) = 0
    OBVIOUS
  <2>2. reserved \in 0..MaxPeers
    BY DEF HostAssumption
  <2> QED
    BY <1>1, <1>2, <2>1, <2>2 DEF TypeInv, HostSteps, NoPeer
<1>4. KeysInv
  BY PollerIsNoWorker DEF KeysInv
<1>5. ThreadsInv
  <2>1. \A w \in Workers : session[w] = "none"
    BY PollerIsNoWorker
  <2>2. {w \in Workers : session[w] # "none"} = {}
    BY <2>1
  <2>3. SlotsExact
    BY <2>2, FS_EmptySet DEF SlotsExact
  <2> QED
    BY <2>1, <2>3 DEF ThreadsInv
<1>6. ObservationsExact
  BY <1>1 DEF ObservationsExact
<1>7. RuntimeInv
  BY <1>1 DEF RuntimeInv
<1> QED
  BY <1>3, <1>4, <1>5, <1>6, <1>7 DEF HostInv

LEMMA StepKeeps ==
    ASSUME HostAssumption, HostInv, [HostNext]_hostVars
    PROVE  HostInv'
<1>1. CASE Tick
  BY <1>1, TickKeeps
<1>2. CASE Listen
  BY <1>2, AcceptKeeps, ListenerLeavesKeeps DEF Listen
<1>3. CASE Polls
  BY <1>3, PollsKeep
<1>4. CASE Runtime
  BY <1>4, ConfigureKeeps, RuntimeKeeps
<1>5. CASE \E s \in Sessions : Session(s)
  BY <1>5, StartKeeps, SucceedKeeps, EndKeeps DEF Session
<1>6. CASE \E w \in Workers : DropGuard(w) \/ LosePeerAddress(w)
  BY <1>6, DropGuardKeeps, LosePeerKeeps
<1>7. CASE UNCHANGED hostVars
  BY <1>7, Stutter
<1> QED
  BY <1>1, <1>2, <1>3, <1>4, <1>5, <1>6, <1>7 DEF HostNext

(* Whatever connects, ends, fails or is told to stop, in whatever order,   *)
(* the inductive invariant of the peer services holds.                     *)
THEOREM HostInvariant ==
    ASSUME HostAssumption
    PROVE  HostSpec => []HostInv
<1>1. HostInit => HostInv
  BY InitEstablishes
<1>2. HostInv /\ [HostNext]_hostVars => HostInv'
  BY StepKeeps
<1> QED
  BY <1>1, <1>2, PTL DEF HostSpec

(* The count of inbound connections is the number of guards and within     *)
(* max_peers, a status report shows each peer as connected as often as it  *)
(* is although the table evicts, and a stop that returned without an error *)
(* left no thread of the services behind.                                  *)
THEOREM ConnectionsCounted ==
    ASSUME HostAssumption
    PROVE  HostSpec => []ConnectionsAccounted
<1>1. HostInv => ConnectionsAccounted
  <2> SUFFICES ASSUME HostInv PROVE ConnectionsAccounted
    OBVIOUS
  <2>1. HostTypeOK
    BY DEF HostInv, TypeInv, Table, HostTypeOK
  <2>2. StoppedMeansQuiet
    <3> SUFFICES ASSUME host = "stopped"
                 PROVE  /\ listener = "done" /\ poll \in {"off", "done"}
                        /\ \A s \in Sessions : session[s] = "none"
      BY DEF StoppedMeansQuiet
    <3>1. listener = "done" /\ poll \in {"off", "done"}
      BY DEF HostInv, RuntimeInv
    <3> QED
      BY <3>1 DEF HostInv, ThreadsInv, KeysInv, Sessions
  <2> QED
    BY <2>1, <2>2 DEF ConnectionsAccounted, HostInv, ThreadsInv
<1> QED
  BY <1>1, HostInvariant, PTL
-----------------------------------------------------------------------------
Reading == {"header", "body"}
Unanswered == {"accept", "header", "body", "lock", "route"}
Answering == {"respond", "apologise"}
Part == [status : Nat, part : Nat]

RpcTypes ==
    /\ backlog \in Seq(Clients) /\ client \in Clients \union {NoClient}
    /\ request \in RpcRequest /\ stream \in Seq(Part)
    /\ sent \in Nat /\ got \in Nat /\ elapsed \in Nat /\ wait \in Nat
    /\ reply \in Nat /\ written \in 0..2
    /\ phase \in Unanswered \union Answering
    /\ lock \in {"free", "rpc", "other", "poisoned"}

(* What has been read, and how long it may still take.                     *)
ReadInv ==
    /\ got <= sent
    /\ phase = "accept" => got = 0 /\ elapsed = 0
    /\ elapsed <= TotalTimeout
    /\ phase \in Reading => elapsed + wait <= TotalTimeout
    /\ phase = "header" => got < HeaderLimit
    /\ phase \in {"body", "lock", "route"} =>
          HeaderAccepted(request) /\ request.header <= HeaderLimit /\ got <= Declared
    /\ phase \in {"lock", "route"} => got = Declared

(* A client is known while it is served; only it holds the node.           *)
HolderInv ==
    /\ client = NoClient <=> phase = "accept"
    /\ lock = "rpc" <=> phase = "route"

Truth(code) ==
    /\ code = 200 /\ Mutating(request) => effects # <<>>
    /\ code \in 400..499 => effects = <<>>

(* The stream holds at most one part of a response that was cut off and    *)
(* then the parts of the response being written.                           *)
AnswerInv ==
    /\ phase \in Unanswered => effects = <<>> /\ stream = <<>>
    /\ phase = "respond" =>
          /\ Truth(reply) /\ Len(stream) = written
          /\ \A i \in 1..written : stream[i].status = reply /\ stream[i].part = i
    /\ phase = "apologise" =>
          /\ reply = 500
          /\ \E k \in {0, 1} : /\ Len(stream) = k + written
                               /\ \A i \in 1..written : stream[k + i].part = i
          /\ stream # <<>> => Truth(stream[1].status)

RpcInv == RpcTypes /\ ReadInv /\ HolderInv /\ WholeRequests /\ AnswerInv
-----------------------------------------------------------------------------
(* The timeout of a read never reaches past the deadline.                  *)
LEMMA LeastOfTwo ==
  ASSUME NEW a \in Int, NEW b \in Int
  PROVE  Min({a, b}) = IF a <= b THEN a ELSE b
<1> DEFINE m == IF a <= b THEN a ELSE b
           P(x) == x \in {a, b} /\ \A y \in {a, b} : x <= y
<1>1. P(m) /\ \A x : P(x) => x = m
  OBVIOUS
<1>2. Min({a, b}) = CHOOSE x : P(x)
  BY DEF Min
<1> HIDE DEF m, P
<1>3. P(CHOOSE x : P(x))
  BY <1>1
<1> QED
  BY <1>1, <1>2, <1>3 DEF m

LEMMA ReadWaits ==
  ASSUME RpcAssumption, NEW spent \in Nat, spent <= TotalTimeout
  PROVE  ReadWait(spent) \in Nat /\ spent + ReadWait(spent) <= TotalTimeout
<1>1. ReadTimeout \in Int /\ TotalTimeout - spent \in Int
  BY DEF RpcAssumption
<1> QED
  BY <1>1, LeastOfTwo DEF ReadWait, RpcAssumption

LEMMA Bounds ==
  ASSUME RpcAssumption, NEW r \in RpcRequest
  PROVE  BodyLength(r) \in Nat /\ BodyLimit(r) \in Nat /\ r.header \in Nat
<1>1. r.header \in Nat /\ r.lengths \in Seq(Nat)
  BY DEF RpcRequest
<1>2. BodyLength(r) \in Nat
  <2>1. CASE r.lengths = <<>>
    BY <2>1 DEF BodyLength
  <2>2. CASE r.lengths # <<>>
    BY <1>1, <2>2 DEF BodyLength
  <2> QED
    BY <2>1, <2>2
<1>3. BodyLimit(r) \in Nat
  BY DEF BodyLimit, RpcAssumption
<1> QED
  BY <1>1, <1>2, <1>3

(* The status of a routed mutating request is 200 when and only when the   *)
(* node took it.                                                           *)
LEMMA StatusTruthful ==
  ASSUME NEW r \in RpcRequest, Unfit(r) = 0, NEW v \in Verdicts(r)
  PROVE  /\ RouteStatus(r, v) \in Nat
         /\ Mutating(r) => (RouteStatus(r, v) = 200 <=> v = "ok")
<1> DEFINE V == {"ok", "invalid", "conflict", "policy", "chain", "faulted", "internal"}
<1>1. v \in V
  BY DEF Verdicts
<1>2. ClientStatus(v) \in Nat /\ (ClientStatus(v) = 200 <=> v = "ok")
  BY <1>1 DEF ClientStatus
<1>3. /\ TransactionStatus(v) \in Nat /\ (TransactionStatus(v) = 200 <=> v = "ok")
      /\ BlockStatus(v) \in Nat /\ (BlockStatus(v) = 200 <=> v = "ok")
      /\ TemplateStatus(v) \in Nat /\ (TemplateStatus(v) = 200 <=> v = "ok")
  BY <1>2 DEF TransactionStatus, BlockStatus, TemplateStatus
<1>4. RouteStatus(r, v) \in Nat
  BY <1>2, <1>3 DEF RouteStatus
<1>5. Mutating(r) => r.endpoint # "health"
  BY DEF Mutating, Unfit
<1>6. r.endpoint # "health" => (RouteStatus(r, v) = 200 <=> v = "ok")
  BY <1>2, <1>3 DEF RouteStatus
<1> QED
  BY <1>4, <1>5, <1>6
-----------------------------------------------------------------------------
LEMMA RpcInitEstablishes ==
  ASSUME RpcAssumption, RpcInit
  PROVE  RpcInv
<1>1. NoRequest \in RpcRequest
  BY DEF NoRequest, RpcRequest
<1>2. RpcTypes
  BY <1>1 DEF RpcTypes, RpcInit, Unanswered
<1>3. ReadInv /\ HolderInv
  BY DEF ReadInv, HolderInv, RpcInit, Reading, RpcAssumption
<1>4. WholeRequests
  BY DEF WholeRequests, RpcInit
<1>5. AnswerInv
  BY DEF AnswerInv, RpcInit
<1> QED
  BY <1>2, <1>3, <1>4, <1>5 DEF RpcInv

LEMMA AcceptConnectionKeeps ==
  ASSUME RpcAssumption, RpcInv, AcceptConnection
  PROVE  RpcInv'
<1>1. Head(backlog) \in Clients /\ Tail(backlog) \in Seq(Clients)
  BY DEF RpcInv, RpcTypes, AcceptConnection
<1>2. ReadWait(0) \in Nat /\ ReadWait(0) <= TotalTimeout
  <2>1. ReadWait(0) \in Nat /\ 0 + ReadWait(0) <= TotalTimeout
    BY ReadWaits DEF RpcAssumption
  <2> QED
    BY <2>1 DEF RpcAssumption
<1>3. request' \in RpcRequest
  BY DEF AcceptConnection, RpcAssumption
<1>4. RpcTypes'
  BY <1>1, <1>2, <1>3 DEF RpcInv, RpcTypes, AcceptConnection, Unanswered, node
<1>5. ReadInv'
  BY <1>2 DEF RpcInv, RpcTypes, ReadInv, AcceptConnection, Reading, RpcAssumption
<1>6. HolderInv'
  BY <1>1 DEF RpcInv, HolderInv, AcceptConnection, node, RpcAssumption
<1>7. WholeRequests' /\ AnswerInv'
  <2>1. effects' = <<>> /\ stream' = <<>> /\ phase' = "header"
    BY DEF RpcInv, AnswerInv, AcceptConnection, Unanswered
  <2> QED
    BY <2>1 DEF WholeRequests, AnswerInv
<1> QED
  BY <1>4, <1>5, <1>6, <1>7 DEF RpcInv

(* A response begins: for a request that had no effect yet, or in the      *)
(* place of one that was cut off.                                          *)
LEMMA RefusalKeeps ==
  ASSUME RpcAssumption, RpcInv, phase \in Reading, NEW code \in {400, 500},
         Respond(code, "respond"), UNCHANGED <<connections, peer, client, effects, node>>
  PROVE  RpcInv'
<1>1. RpcTypes'
  BY DEF RpcInv, RpcTypes, Respond, Answering, connections, peer, node, RpcAssumption
<1>2. ReadInv' /\ HolderInv'
  BY DEF RpcInv, RpcTypes, ReadInv, HolderInv, Respond, Reading, peer, node, RpcAssumption
<1>3. WholeRequests'
  BY DEF RpcInv, WholeRequests, peer, Declared
<1>4. AnswerInv'
  <2>1. effects' = <<>> /\ stream' = <<>> /\ phase' = "respond" /\ written' = 0 /\ reply' = code
    BY DEF RpcInv, AnswerInv, Respond, Unanswered, Reading, peer
  <2> QED
    BY <2>1 DEF AnswerInv, Truth, Unanswered
<1> QED
  BY <1>1, <1>2, <1>3, <1>4 DEF RpcInv

(* A read that goes on, or has the whole request.                          *)
LEMMA ProgressKeeps ==
  ASSUME RpcAssumption, RpcInv, phase \in Reading, NEW n \in Nat,
         n <= sent, got' = n, wait' = ReadWait(elapsed),
         UNCHANGED <<connections, peer, client, elapsed, reply, written, effects, node>>,
         \/ phase' = "header" /\ n < HeaderLimit
         \/ /\ HeaderAccepted(request) /\ request.header <= HeaderLimit
            /\ (phase' = "body" /\ n < Declared) \/ (phase' = "lock" /\ n = Declared)
  PROVE  RpcInv'
<1>1. ReadWait(elapsed) \in Nat /\ elapsed + ReadWait(elapsed) <= TotalTimeout
  BY ReadWaits DEF RpcInv, RpcTypes, ReadInv
<1>2. RpcTypes'
  BY <1>1 DEF RpcInv, RpcTypes, Unanswered, connections, peer, node
<1>3. BodyLength(request) \in Nat /\ request.header \in Nat
  BY Bounds DEF RpcInv, RpcTypes
<1>4. request' = request /\ sent' = sent /\ Declared' = Declared /\ Declared \in Nat
  BY <1>3 DEF peer, Declared
<1>5. ReadInv'
  BY <1>1, <1>4 DEF RpcInv, RpcTypes, ReadInv, Reading
<1>6. HolderInv'
  BY DEF RpcInv, HolderInv, Reading, node
<1>7. WholeRequests'
  BY <1>4 DEF RpcInv, WholeRequests
<1>8. AnswerInv'
  <2>1. effects' = <<>> /\ stream' = <<>> /\ phase' \in {"header", "body", "lock"}
    BY DEF RpcInv, AnswerInv, Unanswered, Reading, peer
  <2> QED
    BY <2>1 DEF AnswerInv
<1> QED
  BY <1>2, <1>5, <1>6, <1>7, <1>8 DEF RpcInv

LEMMA ReadHeaderKeeps ==
  ASSUME RpcAssumption, RpcInv, ReadHeader
  PROVE  RpcInv'
<1> DEFINE n == got + Min({Available, ChunkBytes})
<1>1. n \in Nat /\ n <= sent
  <2>1. Available \in Nat /\ ChunkBytes \in Nat
    BY DEF RpcInv, RpcTypes, ReadInv, Available, RpcAssumption
  <2>2. Min({Available, ChunkBytes}) \in Nat /\ Min({Available, ChunkBytes}) <= Available
    BY <2>1, LeastOfTwo
  <2> QED
    BY <2>2 DEF RpcInv, RpcTypes, Available
<1>2. BodyLength(request) \in Nat /\ request.header \in Nat
  BY Bounds DEF RpcInv, RpcTypes
<1>3. AfterHeader(n) /\ phase = "header" /\ UNCHANGED <<connections, peer, client, effects, node>>
  BY DEF ReadHeader
<1> HIDE DEF n
<1>4. CASE Respond(400, "respond")
  BY <1>3, <1>4, RefusalKeeps DEF Reading
<1>5. CASE ~Respond(400, "respond")
  <2>1. /\ got' = n /\ wait' = ReadWait(elapsed) /\ UNCHANGED <<elapsed, reply, written>>
        /\ phase' = IF n < request.header THEN "header" ELSE IF n < Declared THEN "body" ELSE "lock"
        /\ n < request.header => n < HeaderLimit
        /\ n >= request.header =>
              request.header <= HeaderLimit /\ HeaderAccepted(request) /\ n <= Declared
    BY <1>1, <1>2, <1>3, <1>5 DEF AfterHeader, Declared, RpcAssumption
  <2>2. \/ phase' = "header" /\ n < HeaderLimit
        \/ /\ HeaderAccepted(request) /\ request.header <= HeaderLimit
           /\ (phase' = "body" /\ n < Declared) \/ (phase' = "lock" /\ n = Declared)
    BY <1>1, <1>2, <2>1 DEF Declared
  <2> QED
    BY <1>1, <1>3, <2>1, <2>2, ProgressKeeps DEF Reading
<1> QED
  BY <1>4, <1>5

LEMMA ReadBodyKeeps ==
  ASSUME RpcAssumption, RpcInv, ReadBody
  PROVE  RpcInv'
<1> DEFINE n == got + Min({Available, Declared - got})
<1>1. BodyLength(request) \in Nat /\ request.header \in Nat
  BY Bounds DEF RpcInv, RpcTypes
<1>2. n \in Nat /\ n <= sent /\ n <= Declared
  <2>1. Available \in Nat /\ Declared - got \in Nat
    BY <1>1 DEF RpcInv, RpcTypes, ReadInv, Available, ReadBody, Declared
  <2>2. /\ Min({Available, Declared - got}) \in Nat
        /\ Min({Available, Declared - got}) <= Available
        /\ Min({Available, Declared - got}) <= Declared - got
    BY <2>1, LeastOfTwo
  <2> QED
    BY <1>1, <2>2 DEF RpcInv, RpcTypes, Available, Declared
<1>3. /\ got' = n /\ phase' = (IF n = Declared THEN "lock" ELSE "body")
      /\ wait' = ReadWait(elapsed) /\ phase = "body"
      /\ UNCHANGED <<connections, peer, client, elapsed, reply, written, effects, node>>
  BY DEF ReadBody
<1> HIDE DEF n
<1>4. HeaderAccepted(request) /\ request.header <= HeaderLimit
  BY <1>3 DEF RpcInv, ReadInv
<1>5. (phase' = "body" /\ n < Declared) \/ (phase' = "lock" /\ n = Declared)
  BY <1>1, <1>2, <1>3 DEF Declared
<1> QED
  BY <1>2, <1>3, <1>4, <1>5, ProgressKeeps DEF Reading

LEMMA ReadingEndsKeeps ==
  ASSUME RpcAssumption, RpcInv, ReadEnds \/ ReadTimesOut
  PROVE  RpcInv'
<1>1. /\ phase \in Reading /\ UNCHANGED <<connections, peer, client, effects, node>>
      /\ Respond(400, "respond") \/ Respond(500, "respond")
  BY DEF ReadEnds, ReadTimesOut, Reading
<1> QED
  BY <1>1, RefusalKeeps

LEMMA LockKeeps ==
  ASSUME RpcAssumption, RpcInv, Lock
  PROVE  RpcInv'
<1>1. CASE lock = "free"
  <2>1. /\ lock' = "rpc" /\ phase' = "route" /\ phase = "lock"
        /\ UNCHANGED <<connections, peer, client, effects, faulted, got, elapsed, wait, reply, written>>
    BY <1>1 DEF Lock
  <2>2. RpcTypes' /\ ReadInv' /\ HolderInv' /\ WholeRequests'
    BY <2>1 DEF RpcInv, RpcTypes, ReadInv, HolderInv, WholeRequests, connections, peer,
                Unanswered, Reading, Declared
  <2>3. AnswerInv'
    <3>1. effects' = <<>> /\ stream' = <<>>
      BY <2>1 DEF RpcInv, AnswerInv, Unanswered, peer
    <3> QED
      BY <2>1, <3>1 DEF AnswerInv
  <2> QED
    BY <2>2, <2>3 DEF RpcInv
<1>2. CASE lock = "poisoned"
  <2>1. /\ phase = "lock" /\ phase' = "apologise" /\ reply' = 500 /\ written' = 0
        /\ wait' = WriteTimeout /\ got' = 0 /\ elapsed' = 0 /\ lock' = lock
        /\ UNCHANGED <<connections, peer, client, effects, faulted>>
    BY <1>2 DEF Lock, Respond
  <2>2. RpcTypes' /\ ReadInv' /\ HolderInv' /\ WholeRequests'
    BY <1>2, <2>1 DEF RpcInv, RpcTypes, ReadInv, HolderInv, WholeRequests, connections, peer,
                Answering, Reading, Declared, RpcAssumption
  <2>3. AnswerInv'
    <3>1. effects' = <<>> /\ stream' = <<>> /\ Len(stream') = 0
      BY <2>1 DEF RpcInv, AnswerInv, Unanswered, peer
    <3> QED
      BY <2>1, <3>1 DEF AnswerInv, Unanswered
  <2> QED
    BY <2>2, <2>3 DEF RpcInv
<1> QED
  BY <1>1, <1>2 DEF Lock

(* The whole request reaches the node at most once, and the response says  *)
(* what became of it.                                                      *)
LEMMA RouteKeeps ==
  ASSUME RpcAssumption, RpcInv, Route
  PROVE  RpcInv'
<1>1. /\ phase = "route" /\ lock' = "free" /\ UNCHANGED <<connections, peer, client>>
      /\ got = Declared /\ HeaderAccepted(request) /\ got <= sent
      /\ effects = <<>> /\ stream = <<>>
  BY DEF Route, Unlock, RpcInv, ReadInv, AnswerInv, Unanswered
<1>2. BodyLength(request) \in Nat /\ request.header \in Nat
  BY Bounds DEF RpcInv, RpcTypes
<1>3. got - request.header = BodyLength(request)
  BY <1>1, <1>2 DEF Declared
<1>4. PICK code \in Nat :
         /\ Respond(code, "respond")
         /\ \/ effects' = <<>> /\ (Mutating(request) => code # 200)
            \/ effects' = <<BodyLength(request)>> /\ code = 200
  <2>1. CASE Unfit(request) # 0
    <3>1. Unfit(request) \in {405, 404, 415, 400}
      BY <2>1 DEF Unfit
    <3>2. Respond(Unfit(request), "respond") /\ effects' = <<>>
      BY <1>1, <2>1 DEF Route
    <3> QED
      BY <3>1, <3>2
  <2>2. CASE Unfit(request) = 0
    <3>1. PICK v \in Verdicts(request) :
             /\ Respond(RouteStatus(request, v), "respond")
             /\ effects' = IF v = "ok" /\ Mutating(request)
                           THEN Append(effects, got - request.header) ELSE effects
      BY <2>2 DEF Route
    <3>2. /\ RouteStatus(request, v) \in Nat
          /\ Mutating(request) => (RouteStatus(request, v) = 200 <=> v = "ok")
      BY <2>2, StatusTruthful DEF RpcInv, RpcTypes
    <3>3. Append(<<>>, BodyLength(request)) = <<BodyLength(request)>>
      BY <1>2
    <3> QED
      BY <1>1, <1>3, <3>1, <3>2, <3>3
  <2> QED
    BY <2>1, <2>2
<1>5. /\ phase' = "respond" /\ reply' = code /\ written' = 0 /\ wait' = WriteTimeout
      /\ got' = 0 /\ elapsed' = 0
  BY <1>4 DEF Respond
<1>6. RpcTypes'
  BY <1>1, <1>5 DEF RpcInv, RpcTypes, connections, peer, Answering, RpcAssumption
<1>7. ReadInv' /\ HolderInv'
  BY <1>1, <1>5 DEF RpcInv, RpcTypes, ReadInv, HolderInv, Reading, peer, RpcAssumption
<1>8. WholeRequests'
  <2>1. request' = request /\ sent' = sent /\ sent >= Declared
    BY <1>1, <1>2 DEF peer, Declared, RpcInv, RpcTypes
  <2>2. Len(effects') <= 1 /\ \A i \in DOMAIN effects' : effects'[i] = BodyLength(request)
    <3>1. CASE effects' = <<>>
      BY <3>1
    <3>2. CASE effects' = <<BodyLength(request)>>
      BY <3>2
    <3> QED
      BY <1>4, <3>1, <3>2
  <2> QED
    BY <1>1, <2>1, <2>2 DEF WholeRequests, Declared
<1>9. AnswerInv'
  <2>1. stream' = <<>> /\ request' = request
    BY <1>1 DEF peer
  <2>2. Truth(reply)'
    <3>1. CASE effects' = <<>> /\ (Mutating(request) => code # 200)
      BY <1>5, <2>1, <3>1 DEF Truth, Mutating
    <3>2. CASE effects' = <<BodyLength(request)>> /\ code = 200
      <4>1. effects' # <<>>
        BY <1>2, <3>2
      <4> QED
        BY <1>5, <3>2, <4>1 DEF Truth
    <3> QED
      BY <1>4, <3>1, <3>2
  <2> QED
    BY <1>5, <2>1, <2>2 DEF AnswerInv, Unanswered
<1> QED
  BY <1>6, <1>7, <1>8, <1>9 DEF RpcInv

(* A part of a response is taken by the client's socket.                   *)
LEMMA WriteKeeps ==
  ASSUME RpcAssumption, RpcInv, Write
  PROVE  RpcInv'
<1> DEFINE new == [status |-> reply, part |-> written + 1]
<1>1. /\ phase \in Answering /\ written < 2 /\ stream' = Append(stream, new)
      /\ written' = written + 1 /\ wait' = WriteTimeout
      /\ UNCHANGED <<connections, request, sent, phase, client, got, elapsed, reply, effects, node>>
  BY DEF Write, Answering
<1>2. new \in Part /\ stream \in Seq(Part) /\ written \in 0..1 /\ written + 1 \in 1..2
  BY <1>1 DEF RpcInv, RpcTypes, Part
<1>3. /\ stream' \in Seq(Part) /\ Len(stream') = Len(stream) + 1
      /\ stream'[Len(stream) + 1] = new /\ Len(stream) \in Nat
      /\ \A i \in 1..Len(stream) : stream'[i] = stream[i]
  <2> HIDE DEF new
  <2> QED
    BY <1>1, <1>2
<1>4. new.status = reply /\ new.part = written + 1
  OBVIOUS
<1> HIDE DEF new
<1>5. RpcTypes'
  BY <1>1, <1>2, <1>3 DEF RpcInv, RpcTypes, connections, node, RpcAssumption
<1>6. ReadInv' /\ HolderInv' /\ WholeRequests'
  BY <1>1 DEF RpcInv, ReadInv, HolderInv, WholeRequests, Answering, Reading, Declared, node
<1>7. \A code : Truth(code)' <=> Truth(code)
  BY <1>1 DEF Truth, Mutating
<1>8. AnswerInv'
  <2>1. CASE phase = "respond"
    <3>1. /\ Truth(reply) /\ Len(stream) = written
          /\ \A i \in 1..written : stream[i].status = reply /\ stream[i].part = i
      BY <2>1 DEF RpcInv, AnswerInv
    <3>2. \A i \in 1..(written + 1) : i \in 1..written \/ i = written + 1
      BY <1>2
    <3>3. \A i \in 1..(written + 1) : stream'[i].status = reply /\ stream'[i].part = i
      BY <1>3, <1>4, <3>1, <3>2
    <3>4. Truth(reply)'
      BY <1>1, <3>1 DEF Truth, Mutating
    <3> QED
      BY <1>1, <1>3, <2>1, <3>1, <3>3, <3>4 DEF AnswerInv, Unanswered
  <2>2. CASE phase = "apologise"
    <3>1. PICK k \in {0, 1} : /\ Len(stream) = k + written
                              /\ \A i \in 1..written : stream[k + i].part = i
      BY <2>2 DEF RpcInv, AnswerInv
    <3>2. ASSUME NEW i \in 1..(written + 1) PROVE stream'[k + i].part = i
      <4>1. CASE i \in 1..written
        <5>1. k + i \in 1..Len(stream)
          BY <1>2, <3>1, <4>1
        <5> QED
          BY <1>3, <3>1, <4>1, <5>1
      <4>2. CASE i = written + 1
        <5>1. k + i = Len(stream) + 1
          BY <1>2, <3>1, <4>2
        <5> QED
          BY <1>3, <1>4, <4>2, <5>1
      <4> QED
        BY <1>2, <4>1, <4>2
    <3>3. Len(stream') = k + (written + 1)
      BY <1>2, <1>3, <3>1
    <3>4. Truth(stream[1].status)'
      <4>1. CASE stream = <<>>
        <5>1. stream'[1].status = 500
          BY <1>3, <1>4, <2>2, <4>1 DEF RpcInv, AnswerInv
        <5> QED
          BY <5>1 DEF Truth
      <4>2. CASE stream # <<>>
        <5>1. stream'[1] = stream[1] /\ Truth(stream[1].status)
          BY <1>2, <1>3, <2>2, <4>2 DEF RpcInv, AnswerInv
        <5> QED
          BY <1>1, <5>1 DEF Truth, Mutating
      <4> QED
        BY <4>1, <4>2
    <3>5. reply = 500
      BY <2>2 DEF RpcInv, AnswerInv
    <3> QED
      BY <1>1, <2>2, <3>2, <3>3, <3>4, <3>5 DEF AnswerInv, Unanswered
  <2> QED
    BY <1>1, <2>1, <2>2 DEF Answering
<1> QED
  BY <1>5, <1>6, <1>8 DEF RpcInv

LEMMA CloseKeeps ==
  ASSUME RpcAssumption, RpcInv, phase \in Answering, Close
  PROVE  RpcInv'
<1>1. NoRequest \in RpcRequest
  BY DEF NoRequest, RpcRequest
<1>2. RpcTypes'
  BY <1>1 DEF RpcInv, RpcTypes, Close, node, Unanswered
<1>3. ReadInv' /\ HolderInv' /\ WholeRequests' /\ AnswerInv'
  BY DEF RpcInv, RpcTypes, ReadInv, HolderInv, WholeRequests, AnswerInv, Close, node, Answering,
         Reading, RpcAssumption
<1> QED
  BY <1>2, <1>3 DEF RpcInv

(* A response that failed gives way to a report of the failure, once.      *)
LEMMA WriteFailsKeeps ==
  ASSUME RpcAssumption, RpcInv, WriteFails
  PROVE  RpcInv'
<1>1. CASE phase = "respond"
  <2>1. /\ phase' = "apologise" /\ reply' = 500 /\ written' = 0 /\ wait' = WriteTimeout
        /\ got' = 0 /\ elapsed' = 0 /\ written < 2
        /\ UNCHANGED <<connections, peer, client, effects, node>>
    BY <1>1 DEF WriteFails, Respond
  <2>2. RpcTypes'
    BY <2>1 DEF RpcInv, RpcTypes, connections, peer, node, Answering, RpcAssumption
  <2>3. ReadInv' /\ HolderInv' /\ WholeRequests'
    BY <1>1, <2>1 DEF RpcInv, RpcTypes, ReadInv, HolderInv, WholeRequests, peer, node, Reading,
                Declared, RpcAssumption
  <2>4. /\ Truth(reply) /\ Len(stream) = written /\ written \in {0, 1} /\ stream \in Seq(Part)
        /\ \A i \in 1..written : stream[i].status = reply /\ stream[i].part = i
    BY <1>1, <2>1 DEF RpcInv, AnswerInv, RpcTypes
  <2>5. stream # <<>> => Truth(stream[1].status)
    BY <2>4
  <2>6. stream' = stream /\ request' = request /\ effects' = effects
    BY <2>1 DEF peer
  <2>7. AnswerInv'
    <3>1. Len(stream') = written + written'
      BY <2>1, <2>4, <2>6
    <3>2. stream' # <<>> => Truth(stream[1].status)'
      BY <2>5, <2>6 DEF Truth, Mutating
    <3> QED
      BY <2>1, <2>4, <3>1, <3>2 DEF AnswerInv, Unanswered
  <2> QED
    BY <2>2, <2>3, <2>7 DEF RpcInv
<1>2. CASE phase # "respond"
  BY <1>2, CloseKeeps DEF WriteFails, Answering
<1> QED
  BY <1>1, <1>2

LEMMA ClockTickKeeps ==
  ASSUME RpcAssumption, RpcInv, ClockTick
  PROVE  RpcInv'
<1>1. /\ wait \in Nat /\ wait > 0 /\ wait' = wait - 1
      /\ elapsed' = (IF phase \in Reading THEN elapsed + 1 ELSE 0)
      /\ UNCHANGED <<connections, peer, phase, client, got, reply, written, effects, node>>
      /\ phase \in Reading \union Answering
  BY DEF ClockTick, RpcInv, RpcTypes, Reading, Answering
<1>2. RpcTypes'
  BY <1>1 DEF RpcInv, RpcTypes, connections, peer, node
<1>3. ReadInv' /\ HolderInv' /\ WholeRequests'
  BY <1>1 DEF RpcInv, RpcTypes, ReadInv, HolderInv, WholeRequests, peer, node, Reading, Answering,
              Declared, RpcAssumption
<1>4. AnswerInv'
  BY <1>1 DEF RpcInv, AnswerInv, Truth, Mutating, peer
<1> QED
  BY <1>2, <1>3, <1>4 DEF RpcInv

(* Whoever else holds the node, and the clients.                           *)
LEMMA OthersKeep ==
  ASSUME RpcInv, OthersLock \/ OthersUnlock \/ OthersPanic
  PROVE  RpcInv'
<1>1. /\ UNCHANGED <<connections, peer, service, faulted>>
      /\ lock' \in {"free", "other", "poisoned"} /\ lock # "rpc"
  BY DEF OthersLock, OthersUnlock, OthersPanic
<1>2. RpcTypes' /\ ReadInv' /\ HolderInv' /\ WholeRequests'
  BY <1>1 DEF RpcInv, RpcTypes, ReadInv, HolderInv, WholeRequests, connections, peer, service,
              Declared
<1>3. AnswerInv'
  BY <1>1 DEF RpcInv, AnswerInv, Truth, Mutating, peer, service
<1> QED
  BY <1>2, <1>3 DEF RpcInv

LEMMA ClientsKeep ==
  ASSUME RpcAssumption, RpcInv, Send \/ Shutdown \/ Vanish \/ ReadResponse \/ \E c \in Clients : Connect(c)
  PROVE  RpcInv'
<1>1. backlog' \in Seq(Clients)
  BY DEF RpcInv, RpcTypes, Send, Shutdown, Vanish, ReadResponse, Connect, connections
<1>2. sent' \in Nat /\ sent' >= sent
  BY Bounds DEF RpcInv, RpcTypes, Send, Shutdown, Vanish, ReadResponse, Connect, peer, RpcRequest
<1>3. UNCHANGED <<request, stream, service, node>>
  BY DEF Send, Shutdown, Vanish, ReadResponse, Connect, peer
<1>4. RpcTypes'
  BY <1>1, <1>2, <1>3 DEF RpcInv, RpcTypes, service, node
<1>5. ReadInv' /\ HolderInv'
  BY <1>2, <1>3 DEF RpcInv, RpcTypes, ReadInv, HolderInv, service, node, Declared
<1>6. WholeRequests'
  <2>1. BodyLength(request) \in Nat /\ request.header \in Nat /\ sent \in Nat
    BY Bounds DEF RpcInv, RpcTypes
  <2> QED
    BY <1>2, <1>3, <2>1 DEF RpcInv, WholeRequests, service, Declared
<1>7. AnswerInv'
  BY <1>3 DEF RpcInv, AnswerInv, Truth, Mutating, service
<1> QED
  BY <1>4, <1>5, <1>6, <1>7 DEF RpcInv

LEMMA RpcStepKeeps ==
  ASSUME RpcAssumption, RpcInv, [RpcNext]_rpcVars
  PROVE  RpcInv'
<1>1. CASE Thread
  <2>1. CASE Finish
    BY <2>1, CloseKeeps DEF Finish, Answering
  <2> QED
    BY <1>1, <2>1, AcceptConnectionKeeps, ReadHeaderKeeps, ReadBodyKeeps, ReadingEndsKeeps,
       LockKeeps, RouteKeeps, WriteKeeps, WriteFailsKeeps DEF Thread
<1>2. CASE UNCHANGED rpcVars
  <2>1. UNCHANGED <<connections, peer, service, node>>
    BY <1>2 DEF rpcVars
  <2>2. RpcTypes' /\ ReadInv' /\ HolderInv' /\ WholeRequests'
    BY <2>1 DEF RpcInv, RpcTypes, ReadInv, HolderInv, WholeRequests, connections, peer, service,
                node, Declared
  <2>3. UNCHANGED <<phase, effects, stream, reply, written, request>>
    BY <2>1 DEF peer, service
  <2>4. AnswerInv'
    BY <2>3 DEF RpcInv, AnswerInv, Truth, Mutating
  <2> QED
    BY <2>2, <2>4 DEF RpcInv
<1> QED
  BY <1>1, <1>2, ClockTickKeeps, OthersKeep, ClientsKeep DEF RpcNext

(* However clients cut, stall or drop their connections, and whoever else  *)
(* holds the node, the inductive invariant of the RPC service holds.       *)
THEOREM RpcInvariant ==
  ASSUME RpcAssumption
  PROVE  RpcSpec => []RpcInv
<1>1. RpcInit => RpcInv
  BY RpcInitEstablishes
<1>2. RpcInv /\ [RpcNext]_rpcVars => RpcInv'
  BY RpcStepKeeps
<1> QED
  BY <1>1, <1>2, PTL DEF RpcSpec

(* Reading is bounded in time and memory and never holds the node; only    *)
(* whole requests change the node, once; the first status a client sees    *)
(* says whether its request did.                                           *)
THEOREM RpcAnswersTruthfully ==
  ASSUME RpcAssumption
  PROVE  RpcSpec => []RpcSound
<1>1. RpcInv => RpcSound
  <2> SUFFICES ASSUME RpcInv PROVE RpcSound
    OBVIOUS
  <2>1. BodyLength(request) \in Nat /\ BodyLimit(request) \in Nat /\ request.header \in Nat
    BY Bounds DEF RpcInv, RpcTypes
  <2>2. phase \in {"body", "lock", "route"} => got <= HeaderLimit + BodyLimit(request)
    BY <2>1 DEF RpcInv, RpcTypes, ReadInv, HeaderAccepted, Declared, RpcAssumption
  <2>3. ReadBounded
    BY <2>2 DEF RpcInv, ReadInv, ReadBounded
  <2>4. NodeNotHeld
    BY DEF RpcInv, HolderInv, NodeNotHeld
  <2>5. ResponseTruthful
    <3> SUFFICES ASSUME stream # <<>>
                 PROVE  Truth(stream[1].status) /\ (Len(stream) > 2 => stream[2].part = 1)
      BY DEF ResponseTruthful, Truth
    <3>1. stream \in Seq(Part) /\ written \in 0..2
      BY DEF RpcInv, RpcTypes
    <3>2. CASE phase = "respond"
      <4>1. Len(stream) = written /\ 1 \in 1..written
        BY <3>1, <3>2 DEF RpcInv, AnswerInv
      <4> QED
        BY <3>1, <3>2, <4>1 DEF RpcInv, AnswerInv
    <3>3. CASE phase = "apologise"
      <4>1. PICK k \in {0, 1} : /\ Len(stream) = k + written
                                /\ \A i \in 1..written : stream[k + i].part = i
        BY <3>3 DEF RpcInv, AnswerInv
      <4>2. Len(stream) > 2 => k = 1 /\ 1 \in 1..written /\ k + 1 = 2
        BY <3>1, <4>1
      <4>3. Len(stream) > 2 => stream[2].part = 1
        BY <4>1, <4>2
      <4> QED
        BY <3>3, <4>3 DEF RpcInv, AnswerInv
    <3> QED
      BY <3>2, <3>3 DEF RpcInv, RpcTypes, AnswerInv, Answering
  <2> QED
    BY <2>3, <2>4, <2>5 DEF RpcSound, RpcInv
<1> QED
  BY <1>1, RpcInvariant, PTL
=============================================================================
