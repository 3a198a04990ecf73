--------------------------------- MODULE Miner --------------------------------
(***************************************************************************)
(* The standalone thin miner (crates/cmfd-miner/src/main.rs): a coordinator*)
(* that fetches a template, runs one thread per GPU on it, watches them    *)
(* through a bounded channel, joins them and submits what they found.      *)
(*                                                                         *)
(* One node stands for the ordered list of configured peers: it is         *)
(* reachable or not, and its tip moves.  A block is named by the number of *)
(* the job that found it.                                                  *)
(***************************************************************************)
EXTENDS Integers, Sequences, FiniteSets, FiniteSetsExt

CONSTANTS
    Devices,    \* selected GPUs
    MaxJobs,    \* bound: templates mined in one behaviour
    MaxTip      \* bound: changes of the node's tip

MinerAssumption == IsFiniteSet(Devices) /\ MaxJobs \in Nat /\ MaxTip \in Nat

VARIABLES
    pc,             \* coordinator: where run_thin_miner and mine_work are
    outcome,        \* JobOutcome of monitor_workers, "Failed" for an error
    job, parent,    \* current job and the tip its template extends
    worker,         \* GPU threads
    queue,          \* the sync_channel between them and the coordinator
    cancel, shutdown,
    blocks_found, stale_jobs,       \* SessionStatistics
    (* the node *)
    reachable, tip,
    tip_job,        \* the job whose block the tip is, or 0
    indexed,        \* jobs whose block the node has taken in
    landed          \* history: jobs whose block became the tip

node == <<reachable, tip, tip_job, indexed, landed>>
minerVars == <<pc, outcome, job, parent, worker, queue, cancel, shutdown,
          blocks_found, stale_jobs, node>>

(* sync_channel(devices.len() * 4, at least 4).                            *)
Capacity == Max({4, 4 * Cardinality(Devices)})
Room == Len(queue) < Capacity
AllDone == \A d \in Devices : worker[d] = "done"

MinerInit ==
    /\ pc = "template" /\ outcome = "none" /\ job = 0 /\ parent = 0
    /\ worker = [d \in Devices |-> "done"] /\ queue = <<>>
    /\ cancel = FALSE /\ shutdown = FALSE
    /\ blocks_found = 0 /\ stale_jobs = 0
    /\ reachable = TRUE /\ tip = 0 /\ tip_job = 0 /\ indexed = {} /\ landed = {}

-----------------------------------------------------------------------------
(* A GPU thread: run_worker inside spawn_worker.                           *)

WorkerGoes(d, next) ==
    /\ worker' = [worker EXCEPT ![d] = next]
    /\ UNCHANGED <<pc, outcome, job, parent, shutdown, blocks_found, stale_jobs, node>>

(* Model upload and the differential canary succeed or fail.               *)
StartDevice(d) ==
    /\ worker[d] = "start"
    /\ \E next \in {"ready", "failing"} : WorkerGoes(d, next)
    /\ UNCHANGED <<queue, cancel>>

(* Mutant: a send that does not wait for room.                             *)
SendWithoutRoom(d) ==
    /\ \/ worker[d] = "ready" /\ queue' = Append(queue, "Ready") /\ WorkerGoes(d, "search")
       \/ worker[d] = "found" /\ queue' = Append(queue, "Found") /\ WorkerGoes(d, "done")
       \/ worker[d] = "failed" /\ queue' = Append(queue, "Failed") /\ WorkerGoes(d, "done")
    /\ UNCHANGED cancel

(* A blocking send waits for room; the receiver outlives every worker.     *)
BlockingSend(d) ==
    /\ Room
    /\ \/ worker[d] = "ready" /\ queue' = Append(queue, "Ready") /\ WorkerGoes(d, "search")
       \/ worker[d] = "found" /\ queue' = Append(queue, "Found") /\ WorkerGoes(d, "done")
       \/ worker[d] = "failed" /\ queue' = Append(queue, "Failed") /\ WorkerGoes(d, "done")
    /\ UNCHANGED cancel

(* The cancel flag is read once per batch, before it.                      *)
SearchTop(d) ==
    /\ worker[d] = "search"
    /\ WorkerGoes(d, IF cancel THEN "done" ELSE "batch")
    /\ UNCHANGED <<queue, cancel>>

(* Exhausted: Progress is only tried, its attempts carry over if it fails. *)
BatchExhausted(d) ==
    /\ worker[d] = "batch"
    /\ queue' = IF Room THEN Append(queue, "Progress") ELSE queue
    /\ WorkerGoes(d, "search")
    /\ UNCHANGED cancel

BatchFound(d) ==
    /\ worker[d] = "batch"
    /\ cancel' = TRUE
    /\ WorkerGoes(d, "found")
    /\ UNCHANGED queue

BatchFails(d) ==
    /\ worker[d] = "batch"
    /\ WorkerGoes(d, "failing")
    /\ UNCHANGED <<queue, cancel>>

CancelOthers(d) ==
    /\ worker[d] = "failing"
    /\ cancel' = TRUE
    /\ WorkerGoes(d, "failed")
    /\ UNCHANGED queue

WorkerStep(d) ==
    \/ StartDevice(d) \/ BlockingSend(d) \/ SearchTop(d)
    \/ BatchExhausted(d) \/ BatchFound(d) \/ BatchFails(d) \/ CancelOthers(d)

-----------------------------------------------------------------------------
(* The coordinator.                                                        *)

(* wait_for_template, then mine_work spawns one worker per device.         *)
FetchTemplate ==
    /\ pc = "template" /\ ~shutdown /\ reachable /\ job < MaxJobs
    /\ job' = job + 1 /\ parent' = tip
    /\ pc' = "monitor" /\ outcome' = "none"
    /\ worker' = [d \in Devices |-> "start"] /\ cancel' = FALSE
    /\ UNCHANGED <<queue, shutdown, blocks_found, stale_jobs, node>>

StopWaiting ==
    /\ pc \in {"template", "retry"} /\ shutdown
    /\ pc' = "stopped"
    /\ UNCHANGED <<outcome, job, parent, worker, queue, cancel, shutdown,
                   blocks_found, stale_jobs, node>>

(* monitor_workers returns; WorkerSet::stop sets the flag in any case.     *)
MonitorReturns(o) ==
    /\ outcome' = o /\ pc' = "join" /\ cancel' = TRUE
    /\ UNCHANGED <<job, parent, worker, shutdown, blocks_found, stale_jobs, node>>

MonitorShutdown ==
    /\ pc = "monitor" /\ shutdown
    /\ MonitorReturns("Shutdown")
    /\ UNCHANGED queue

(* One message, or a timeout on an empty channel, then the status check.   *)
MonitorReceives ==
    /\ pc = "monitor" /\ ~shutdown
    /\ IF queue = <<>> THEN ~AllDone ELSE Head(queue) \in {"Ready", "Progress"}
    /\ queue' = IF queue = <<>> THEN queue ELSE Tail(queue)
    /\ pc' = "check"
    /\ UNCHANGED <<outcome, job, parent, worker, cancel, shutdown,
                   blocks_found, stale_jobs, node>>

MonitorFound ==
    /\ pc = "monitor" /\ ~shutdown /\ queue # <<>> /\ Head(queue) = "Found"
    /\ queue' = Tail(queue)
    /\ MonitorReturns("Found")

(* A failed GPU, or a channel all of whose senders are gone.               *)
MonitorFails ==
    /\ pc = "monitor" /\ ~shutdown
    /\ IF queue = <<>> THEN AllDone ELSE Head(queue) = "Failed"
    /\ queue' = IF queue = <<>> THEN queue ELSE Tail(queue)
    /\ MonitorReturns("Failed")

(* The node was asked less than two seconds ago, or still has the parent.  *)
CheckCurrent ==
    /\ pc = "check"
    /\ pc' = "monitor"
    /\ UNCHANGED <<outcome, job, parent, worker, queue, cancel, shutdown,
                   blocks_found, stale_jobs, node>>

CheckChanged ==
    /\ pc = "check" /\ (reachable => tip # parent)
    /\ MonitorReturns(IF reachable THEN "Stale" ELSE "Disconnected")
    /\ UNCHANGED queue

AfterJoin == [Found |-> "submit", Stale |-> "template", Disconnected |-> "template",
              Shutdown |-> "stopped", Failed |-> "failed"]

(* WorkerSet::stop has joined every thread; the channel is dropped.        *)
Join ==
    /\ pc = "join" /\ AllDone
    /\ pc' = AfterJoin[outcome]
    /\ queue' = <<>>
    /\ stale_jobs' = IF outcome = "Stale" THEN stale_jobs + 1 ELSE stale_jobs
    /\ UNCHANGED <<outcome, job, parent, worker, cancel, shutdown, blocks_found, node>>

(* The node handles the block of the current job, unless it had it.        *)
NodeTakesBlock ==
    LET extends == parent = tip /\ job \notin indexed IN
    /\ extends => tip < MaxTip
    /\ indexed' = indexed \cup {job}
    /\ tip' = IF extends THEN tip + 1 ELSE tip
    /\ tip_job' = IF extends THEN job ELSE tip_job
    /\ landed' = IF extends THEN landed \cup {job} ELSE landed
    /\ UNCHANGED reachable

(* One submission: the node's handler takes the block under its lock and   *)
(* reads the tip for its answer under a second one.                        *)
SubmitTaken ==
    /\ pc \in {"submit", "retry"} /\ reachable
    /\ pc = "retry" => ~shutdown
    /\ NodeTakesBlock
    /\ pc' = "answer"
    /\ UNCHANGED <<outcome, job, parent, worker, queue, cancel, shutdown,
                   blocks_found, stale_jobs>>

(* Mutant: any Accepted or AlreadyKnown answer counts as an active block.  *)
AcknowledgesAny == TRUE

(* block_is_active_acknowledgement: the answer names the block as the tip. *)
Acknowledges == tip_job = job

(* The answer arrives: an active block is counted, any other one is stale. *)
SubmitAnswered ==
    /\ pc = "answer"
    /\ blocks_found' = IF Acknowledges THEN blocks_found + 1 ELSE blocks_found
    /\ stale_jobs' = IF Acknowledges THEN stale_jobs ELSE stale_jobs + 1
    /\ pc' = "template"
    /\ UNCHANGED <<outcome, job, parent, worker, queue, cancel, shutdown, node>>

(* No node was reached, or the session broke after one took the block:     *)
(* retry_found_block tries the same block again.                           *)
SubmitLost ==
    /\ pc \in {"submit", "retry", "answer"}
    /\ pc = "retry" => ~shutdown
    /\ pc' = "retry"
    /\ UNCHANGED <<outcome, job, parent, worker, queue, cancel, shutdown,
                   blocks_found, stale_jobs, node>>

Coordinator ==
    \/ FetchTemplate \/ StopWaiting \/ MonitorShutdown \/ MonitorReceives
    \/ MonitorFound \/ MonitorFails \/ CheckCurrent \/ CheckChanged \/ Join
    \/ SubmitTaken \/ SubmitAnswered \/ SubmitLost

-----------------------------------------------------------------------------
(* The operator and the node's own life.                                   *)
CtrlC ==
    /\ ~shutdown /\ shutdown' = TRUE
    /\ UNCHANGED <<pc, outcome, job, parent, worker, queue, cancel,
                   blocks_found, stale_jobs, node>>

OtherBlock ==
    /\ tip < MaxTip /\ tip' = tip + 1 /\ tip_job' = 0
    /\ UNCHANGED <<pc, outcome, job, parent, worker, queue, cancel, shutdown,
                   blocks_found, stale_jobs, reachable, indexed, landed>>

LinkChanges ==
    /\ reachable' = ~reachable
    /\ UNCHANGED <<pc, outcome, job, parent, worker, queue, cancel, shutdown,
                   blocks_found, stale_jobs, tip, tip_job, indexed, landed>>

MinerNext ==
    \/ Coordinator
    \/ \E d \in Devices : WorkerStep(d)
    \/ CtrlC \/ OtherBlock \/ LinkChanges

MinerSpec == MinerInit /\ [][MinerNext]_minerVars

(* Threads are scheduled; nothing is assumed of the node or the operator.  *)
MinerFairSpec ==
    /\ MinerSpec
    /\ WF_minerVars(Coordinator)
    /\ \A d \in Devices : WF_minerVars(WorkerStep(d))

-----------------------------------------------------------------------------
(* Every field keeps its type; the channel stays within its capacity and   *)
(* is empty outside mine_work.                                             *)
MinerTypeOK ==
    /\ pc \in {"template", "monitor", "check", "join", "submit", "answer",
               "retry", "stopped", "failed"}
    /\ outcome \in {"none", "Found", "Stale", "Disconnected", "Shutdown", "Failed"}
    /\ job \in 0..MaxJobs /\ parent \in 0..MaxTip
    /\ worker \in [Devices -> {"start", "ready", "search", "batch", "found",
                               "failing", "failed", "done"}]
    /\ queue \in Seq({"Ready", "Progress", "Found", "Failed"}) /\ Len(queue) <= Capacity
    /\ cancel \in BOOLEAN /\ shutdown \in BOOLEAN /\ reachable \in BOOLEAN
    /\ blocks_found \in Nat /\ stale_jobs \in Nat
    /\ tip \in 0..MaxTip /\ tip_job \in 0..MaxJobs
    /\ indexed \subseteq 1..MaxJobs /\ landed \subseteq indexed
    /\ pc \notin {"monitor", "check", "join"} => AllDone /\ queue = <<>>

(* BLOCK ACCEPTED is printed, and counted, only for a block that became a  *)
(* node's tip, and once per job, through lost answers and resubmissions.   *)
CountedBlocksLanded ==
    /\ blocks_found <= Cardinality(landed)
    /\ blocks_found + stale_jobs <= job

(* A block in the channel survives a node that goes away: a job that ends  *)
(* as Disconnected leaves no found block behind.                           *)
FoundIsRetained ==
    [][pc = "join" /\ outcome = "Disconnected" /\ pc' = "template"
         => \A i \in 1..Len(queue) : queue[i] # "Found"]_minerVars

(* mine_work returns once its monitor has: cancelled workers end, however  *)
(* full the channel is.                                                    *)
MineWorkReturns == pc = "join" ~> pc # "join"
=============================================================================
