------------------------------ MODULE WalletMiner -----------------------------
(***************************************************************************)
(* The desktop wallet's mining manager and its worker thread               *)
(* (apps/wallet/src-tauri/src/mining.rs).                                  *)
(*                                                                         *)
(* Commands take the control mutex: start holds it to the end of its body, *)
(* stop until it has joined the thread it cancelled.  The status record is *)
(* behind a mutex of its own that manager and worker take for one update   *)
(* at a time, so the worker's updates fall between the steps of a stop.    *)
(***************************************************************************)
EXTENDS Integers, Sequences

CONSTANTS
    Callers,    \* threads that may issue a stop command
    MaxStarts,  \* bound: workers spawned in one behaviour
    MaxShares,  \* bound: pool shares submitted by one worker
    None

(* A command is not the absence of one.                                    *)
CallersAssumption == None \notin Callers

VARIABLES
    holder,         \* the stop command that holds the control mutex, or None
    stop_pc,        \* where that command is
    shutting_down,
    active,         \* MinerControl.worker: number of the thread, or 0
    taken,          \* the thread a stop command has taken out of control
    threads,        \* every worker thread spawned, with its stop flag
    lifecycle, pool_connected       \* MiningStatus

status == <<lifecycle, pool_connected>>
control == <<holder, stop_pc, shutting_down, active, taken>>
vars == <<control, threads, status>>

Finished == {"finished", "panicked"}
Alive == {t \in 1..Len(threads) : threads[t].pc \notin Finished}

NewThread(mode) ==
    [mode |-> mode, pc |-> IF mode = "Solo" THEN "job" ELSE "connect", stop |-> FALSE,
     credited |-> 0,    \* the worker's credited_atoms
     remote |-> 0,      \* remote_credited_atoms of the connection
     session |-> 0,     \* what the server has credited to the connection
     earned |-> 0,      \* history: what servers have credited to the worker
     shares |-> 0]      \* bound counter

Init ==
    /\ holder = None /\ stop_pc = "idle" /\ shutting_down = FALSE
    /\ active = 0 /\ taken = 0 /\ threads = <<>>
    /\ lifecycle = "Stopped" /\ pool_connected = FALSE

-----------------------------------------------------------------------------
(* MiningManager.                                                          *)

(* Mutant: a worker that runs does not keep start from spawning another.   *)
MayStartTwice == ~shutting_down

(* Mutant: start does not look at shutting_down.                           *)
MayStartAfterShutdown == active \notin Alive

(* A finished worker is reaped; a live one, or a shutdown, refuses.        *)
MayStart == ~shutting_down /\ active \notin Alive

(* start: the status is reset before the thread exists.                    *)
Start(mode) ==
    /\ holder = None /\ MayStart /\ Len(threads) < MaxStarts
    /\ lifecycle' = "Starting" /\ pool_connected' = FALSE
    /\ threads' = Append(threads, NewThread(mode))
    /\ active' = Len(threads) + 1
    /\ UNCHANGED <<holder, stop_pc, shutting_down, taken>>

(* The thread could not be spawned; a finished one is reaped all the same. *)
StartFails ==
    /\ holder = None /\ MayStart
    /\ lifecycle' = "Error" /\ pool_connected' = FALSE
    /\ active' = 0
    /\ UNCHANGED <<holder, stop_pc, shutting_down, taken, threads>>

(* stop_inner without a worker.                                            *)
StopIdle(s) ==
    /\ holder = None /\ active = 0
    /\ shutting_down' = (shutting_down \/ s)
    /\ lifecycle' = "Stopped" /\ pool_connected' = FALSE
    /\ UNCHANGED <<holder, stop_pc, active, taken, threads>>

(* stop_inner takes the worker out of control and keeps the mutex.         *)
StopBegin(c, s) ==
    /\ holder = None /\ active # 0
    /\ holder' = c /\ stop_pc' = "signal"
    /\ shutting_down' = (shutting_down \/ s)
    /\ taken' = active /\ active' = 0
    /\ lifecycle' = "Stopping"
    /\ UNCHANGED <<threads, pool_connected>>

StopSignal ==
    /\ stop_pc = "signal"
    /\ stop_pc' = "join"
    /\ threads' = [threads EXCEPT ![taken].stop = TRUE]
    /\ UNCHANGED <<holder, shutting_down, active, taken, status>>

StopJoin ==
    /\ stop_pc = "join" /\ taken \notin Alive
    /\ lifecycle' = IF threads[taken].pc = "panicked" THEN "Error" ELSE "Stopped"
    /\ pool_connected' = FALSE
    /\ holder' = None /\ stop_pc' = "idle" /\ taken' = 0
    /\ UNCHANGED <<shutting_down, active, threads>>

-----------------------------------------------------------------------------
(* The worker thread.                                                      *)

At(t, pc) == threads[t].pc = pc
Goes(t, pc) == threads' = [threads EXCEPT ![t].pc = pc]
Quiet == UNCHANGED <<control, status>>

(* fail_worker, and the thread returns.                                    *)
FailWorker(t) ==
    /\ lifecycle' = "Error" /\ pool_connected' = FALSE
    /\ Goes(t, "finished")
    /\ UNCHANGED control

(* The end of mining_loop and of pool_mining_loop.                         *)
Leave(t) ==
    /\ At(t, "leave")
    /\ lifecycle' = "Stopped" /\ pool_connected' = FALSE
    /\ Goes(t, "finished")
    /\ UNCHANGED control

(* Mutant of SeesStop: a search does not look at the stop flag.            *)
SeesStopBetweenJobs(t) ==
    /\ threads[t].stop
    /\ threads[t].pc \in {"job", "connect", "backoff", "pool"}
    /\ Goes(t, "leave")
    /\ Quiet

(* Loop heads, searches and backoffs look at the stop flag.                *)
SeesStop(t) ==
    /\ threads[t].stop
    /\ threads[t].pc \in {"job", "search", "connect", "backoff", "pool"}
    /\ Goes(t, "leave")
    /\ Quiet

(* The loop heads of mining_loop and pool_mining_loop: past them the flag  *)
(* may be raised before the iteration's first status update.               *)
LoopHead(t) ==
    /\ ~threads[t].stop
    /\ \/ At(t, "job") /\ Goes(t, "template")
       \/ At(t, "connect") /\ Goes(t, "connecting")
    /\ Quiet

(* mining_loop: a job from the node; only then is the miner Running.       *)
SoloJob(t) ==
    /\ At(t, "template")
    /\ lifecycle' = "Running"
    /\ Goes(t, "search")
    /\ UNCHANGED <<control, pool_connected>>

(* Another job: the tip moved, or a block was submitted or found stale.    *)
(* An exhausted batch on an unmoved tip changes nothing.                   *)
SoloJobEnds(t) ==
    /\ At(t, "search")
    /\ Goes(t, "job")
    /\ Quiet

(* No template, a search error, a failed submission, or a pool error that  *)
(* reconnecting does not cure.                                             *)
WorkerFails(t) ==
    /\ threads[t].pc \in {"template", "search", "connecting", "pool", "answer"}
    /\ FailWorker(t)

(* The fresh server session starts its count at zero.                      *)
PoolConnected(t) ==
    /\ At(t, "connected")
    /\ lifecycle' = "Running" /\ pool_connected' = TRUE
    /\ threads' = [threads EXCEPT ![t].pc = "pool", ![t].session = 0, ![t].remote = 0]
    /\ UNCHANGED control

(* PoolClient::connect has returned a client; the flag is read once more.  *)
PoolConnect(t) ==
    /\ At(t, "connecting")
    /\ Goes(t, IF threads[t].stop THEN "leave" ELSE "connected")
    /\ Quiet

(* mark_pool_reconnecting before the backoff.                              *)
Reconnects(t) ==
    /\ pool_connected' = FALSE
    /\ Goes(t, "backoff")
    /\ UNCHANGED <<control, lifecycle>>

(* A reconnectable error is retried unless the worker was stopped.         *)
ConnectionError(t) ==
    \/ ~threads[t].stop /\ Reconnects(t)
    \/ threads[t].stop /\ Goes(t, "leave") /\ Quiet

PoolConnectFails(t) == At(t, "connecting") /\ ConnectionError(t)

BackoffEnds(t) ==
    /\ At(t, "backoff") /\ ~threads[t].stop
    /\ Goes(t, "connect")
    /\ Quiet

(* A share is found and sent; the server credits it or not.                *)
PoolSubmit(t, credit) ==
    /\ At(t, "pool") /\ threads[t].shares < MaxShares
    /\ threads' = [threads EXCEPT ![t].pc = "answer", ![t].shares = @ + 1,
                                  ![t].session = @ + credit, ![t].earned = @ + credit]
    /\ Quiet

(* Mutant: the session's whole credit is added for each answer.            *)
NewlyCreditedAll(th) == th.session

NewlyCredited(th) == th.session - th.remote

(* The answer brings the session's credit so far.                          *)
PoolAnswer(t) ==
    /\ At(t, "answer")
    /\ threads' = [threads EXCEPT ![t].pc = "pool", ![t].remote = threads[t].session,
                                  ![t].credited = @ + NewlyCredited(threads[t])]
    /\ pool_connected' = TRUE
    /\ UNCHANGED <<control, lifecycle>>

(* The connection breaks, or the answer misses the read timeout: the       *)
(* session and its answer are given up.                                    *)
PoolAnswerLost(t) == At(t, "answer") /\ ConnectionError(t)

(* A panic unwinds the thread and leaves the status as it was.             *)
Panics(t) ==
    /\ t \in Alive /\ Goes(t, "panicked")
    /\ Quiet

(* What ends by itself: flags are polled, the node answers its own process,*)
(* and connecting and reading have timeouts.                               *)
FairStep(t) ==
    \/ Leave(t) \/ SeesStop(t) \/ SoloJob(t)
    \/ PoolConnect(t) \/ PoolConnectFails(t) \/ PoolConnected(t)
    \/ PoolAnswer(t) \/ PoolAnswerLost(t)

WorkerStep(t) ==
    \/ FairStep(t) \/ LoopHead(t) \/ SoloJobEnds(t) \/ BackoffEnds(t)
    \/ WorkerFails(t) \/ Panics(t)
    \/ \E credit \in {0, 1} : PoolSubmit(t, credit)

Next ==
    \/ \E mode \in {"Solo", "Pool"} : Start(mode)
    \/ StartFails
    \/ \E s \in BOOLEAN : StopIdle(s) \/ \E c \in Callers : StopBegin(c, s)
    \/ StopSignal \/ StopJoin
    \/ \E t \in 1..Len(threads) : WorkerStep(t)

Spec == Init /\ [][Next]_vars

(* The stop command and the worker thread are scheduled.                   *)
Fairness ==
    /\ WF_vars(StopSignal) /\ WF_vars(StopJoin)
    /\ \A t \in 1..MaxStarts : WF_vars(t <= Len(threads) /\ FairStep(t))

FairSpec == Spec /\ Fairness

-----------------------------------------------------------------------------
(* Every field keeps its type.                                             *)
TypeOK ==
    /\ holder \in Callers \cup {None} /\ stop_pc \in {"idle", "signal", "join"}
    /\ shutting_down \in BOOLEAN /\ pool_connected \in BOOLEAN
    /\ active \in 0..Len(threads) /\ taken \in 0..Len(threads)
    /\ lifecycle \in {"Stopped", "Starting", "Running", "Stopping", "Error"}
    /\ \A t \in 1..Len(threads) :
          /\ threads[t].remote <= threads[t].session
          /\ threads[t].credited >= 0

(* However starts and stops race with a worker that ends by itself, one    *)
(* thread mines at a time, and control knows it or is stopping it.         *)
OneWorker == Alive \subseteq {active, taken}

(* Once no worker is under control, the status has settled: nothing may    *)
(* leave Starting, Running or Stopping, or a pool connection, on display.  *)
SettledStatus ==
    holder = None /\ Alive = {} /\ (active = 0 \/ ~At(active, "panicked"))
      => lifecycle \in {"Stopped", "Error"} /\ ~pool_connected

(* Credit shown to the user never exceeds what servers credited, over      *)
(* reconnects that start a server session afresh and answers that are lost.*)
CreditNotInvented == \A t \in 1..Len(threads) : threads[t].credited <= threads[t].earned

(* What a user of the manager relies on: one mining thread at a time       *)
(* whatever starts and stops race with it, no activity and no pool         *)
(* connection on display without a worker, and no invented credit.         *)
WorkerAccounted == TypeOK /\ OneWorker /\ SettledStatus /\ CreditNotInvented

(* After the shutdown's stop has returned, no worker is ever started.      *)
ShutdownIsFinal ==
    [][shutting_down /\ holder = None /\ Alive = {} => Alive' = {}]_vars
=============================================================================
