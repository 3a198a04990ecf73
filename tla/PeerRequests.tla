---------------------------- MODULE PeerRequests ----------------------------
(***************************************************************************)
(* The request sessions of p2p.rs that PeerSync leaves out: the mempool    *)
(* pull that closes every synchronization with a static peer, and the two  *)
(* one-request sessions of a thin miner (fetch a template, submit a mined  *)
(* block).  The responder locks its node once per request, so each request *)
(* is one step; both nodes change between requests, the connection may     *)
(* drop at any of them, and the responder's storage may fail and its       *)
(* process restart.  Transactions are numbers in txid order; blocks of the *)
(* responder's chain are heights.                                          *)
(***************************************************************************)
EXTENDS Naturals, Sequences, FiniteSets, SequencesExt

CONSTANTS Txs,             \* transactions, numbered in txid order
          MaxPerSync,      \* MAX_TRANSACTIONS_PER_SYNC
          MaxTip,          \* bound on the responder's height
          MaxLost,         \* bound on dropped connections
          MaxRestarts      \* bound on restarts of the responder

ASSUME RequestsAssumption ==
    /\ Txs \subseteq Nat /\ IsFiniteSet(Txs)
    /\ MaxPerSync \in Nat \ {0} /\ MaxTip \in Nat /\ MaxLost \in Nat
    /\ MaxRestarts \in Nat

VARIABLES tip_height,  \* height of the responder's active chain
          pool,        \* the responder's mempool
          confirmed,   \* transactions in the responder's chain
          cpool,       \* the client's mempool
          cconfirmed,  \* transactions in the client's chain
          refusals,    \* transactions the client's policy refuses
          sess,        \* the client's session
          report,      \* what the last completed pull reported
          mined,       \* the thin miner's last solved block: its parent's height, or NoBlock
          pending,     \* the miner has no answer for that block yet
          stored,      \* the solved block is in the responder's block index
          record,      \* its record in the responder's log: "none", "written", "durable"
          storage,     \* "healthy", "faulted", or "torn": faulted, the log ends in half a record
          durable_tip, \* the tip a restart comes back to if no unsynced record survives
          verdict,     \* history: the last answer given for the solved block, and what
                       \* its record was then
          lost,        \* connections dropped so far
          restarts     \* restarts of the responder so far

chainVars == <<tip_height, durable_tip, storage, stored, record>>
nodeVars == <<pool, confirmed>>
clientVars == <<cpool, cconfirmed, refusals>>
minerVars == <<mined, pending, verdict>>
bounds == <<lost, restarts>>
requestsVars == <<chainVars, nodeVars, clientVars, minerVars, sess, report, bounds>>

NoSession == [kind |-> "none"]
NoReport == [items |-> 0, known |-> 0, requested |-> 0, unseen |-> {}]
NoBlock == MaxTip + 1
NoVerdict == [status |-> "none", record |-> "none"]

RequestsInit ==
    /\ tip_height = 0
    /\ pool = {} /\ cpool = {}
    /\ confirmed \in SUBSET Txs /\ cconfirmed = confirmed
    /\ refusals \in SUBSET Txs
    /\ sess = NoSession
    /\ report = NoReport
    /\ mined = NoBlock /\ pending = FALSE /\ verdict = NoVerdict
    /\ stored = FALSE /\ record = "none"
    /\ storage = "healthy" /\ durable_tip = 0
    /\ lost = 0 /\ restarts = 0

(***************************************************************************)
(* Both nodes, changed by other threads.                                   *)
(***************************************************************************)

(* A transaction enters the responder's mempool, a faulted node's too. *)
Arrive ==
    /\ \E t \in Txs \ (pool \union confirmed) : pool' = pool \union {t}
    /\ UNCHANGED <<chainVars, confirmed, clientVars, sess, report, minerVars, bounds>>

(* What a successful sync_all makes of the solved block's record. *)
Synced(r) == IF r = "written" THEN "durable" ELSE r

(* A block with some of the mempool extends the responder's chain; its     *)
(* sync_all covers every record before its own.                            *)
Extend ==
    /\ storage = "healthy"
    /\ tip_height < MaxTip
    /\ \E included \in SUBSET pool :
        /\ confirmed' = confirmed \union included
        /\ pool' = pool \ included
    /\ tip_height' = tip_height + 1 /\ durable_tip' = tip_height'
    /\ record' = Synced(record)
    /\ UNCHANGED <<storage, stored, clientVars, sess, report, minerVars, bounds>>

(* The append of someone else's block fails and the fault is latched.      *)
StorageFault ==
    /\ storage = "healthy"
    /\ storage' \in {"faulted", "torn"}
    /\ UNCHANGED <<tip_height, durable_tip, stored, record, nodeVars, clientVars, sess,
                   report, minerVars, bounds>>

(* The tip a replay of every record in the log ends on: a record whose     *)
(* sync failed is the last one, and is replayed like any other.            *)
ReplayedTip ==
    IF record = "written" /\ ~stored /\ mined = tip_height THEN tip_height + 1 ELSE tip_height

(* The process ends and starts again: memory is rebuilt from the log, which *)
(* open does not sync. *)
ProcessRestart ==
    /\ tip_height' = ReplayedTip
    /\ UNCHANGED <<durable_tip, record>>

(* The machine loses power: what was not synced is gone or has survived.   *)
PowerLossRestart ==
    \/ /\ record' = Synced(record)
       /\ tip_height' = ReplayedTip /\ durable_tip' = tip_height'
    \/ /\ record' = IF record = "written" THEN "none" ELSE record
       /\ tip_height' = durable_tip
       /\ UNCHANGED durable_tip

(* The mempool is volatile.  A log that ends in half a record does not open *)
(* (module Node).                                                          *)
Restart ==
    /\ restarts < MaxRestarts /\ storage # "torn"
    /\ restarts' = restarts + 1
    /\ ProcessRestart \/ PowerLossRestart
    /\ stored' = (record' # "none")
    /\ storage' = "healthy" /\ pool' = {} /\ sess' = NoSession
    /\ UNCHANGED <<confirmed, clientVars, report, minerVars, lost>>

(* submit_transaction on the client: policy, spent inputs, duplicates. *)
Admits(t) == t \notin refusals \union cconfirmed \union cpool

(* The client's own wallet submits a transaction while a pull is running. *)
LocalSubmit ==
    /\ sess.kind = "transactions"
    /\ \E t \in Txs : Admits(t) /\ cpool' = cpool \union {t}
    /\ UNCHANGED <<chainVars, nodeVars, cconfirmed, refusals, sess, report, minerVars, bounds>>

(* The connection fails: the client's call returns an error. *)
LoseConnection ==
    /\ sess # NoSession
    /\ lost < MaxLost
    /\ lost' = lost + 1
    /\ sess' = NoSession
    /\ UNCHANGED <<chainVars, nodeVars, clientVars, report, minerVars, restarts>>

(***************************************************************************)
(* The mempool pull.                                                       *)
(***************************************************************************)

(* Handshake and block synchronization (module PeerSync): the client       *)
(* follows the responder's chain, and what it confirms leaves its mempool. *)
PullBlocks ==
    /\ sess = NoSession
    /\ cconfirmed' = confirmed
    /\ cpool' = cpool \ confirmed
    /\ sess' = [kind |-> "mempool"]
    /\ report' = NoReport
    /\ UNCHANGED <<chainVars, nodeVars, refusals, minerVars, bounds>>

(* The sequence of the elements of a set of transactions in txid order.    *)
InTxidOrder(S) ==
    CHOOSE f \in [1..Cardinality(S) -> S] :
        ToSet(f) = S /\ \A i, j \in 1..Cardinality(S) : i < j => f[i] < f[j]

FirstN(seq, n) == SubSeq(seq, 1, IF Len(seq) < n THEN Len(seq) ELSE n)

(* Mutant of Wanted: the list is cut before the known ones are taken out.  *)
WantedFromFirst(list) == SelectSeq(FirstN(list, MaxPerSync), LAMBDA t : t \notin cpool)

(* The listed transactions to request: unknown ones first filtered, then   *)
(* cut to MaxPerSync.                                                      *)
Wanted(list) == FirstN(SelectSeq(list, LAMBDA t : t \notin cpool), MaxPerSync)

(* The responder lists its whole mempool in txid order; the client then    *)
(* reads its own.                                                          *)
GetMempool ==
    /\ sess.kind = "mempool"
    /\ sess' = [kind |-> "transactions", list |-> pool, known |-> pool \intersect cpool,
                queue |-> Wanted(InTxidOrder(pool)), requested |-> 0]
    /\ UNCHANGED <<chainVars, nodeVars, clientVars, report, minerVars, bounds>>

(* One GetTransaction: the client's node admits or refuses the answer and  *)
(* the pull goes on.  The responder ends the session if the transaction    *)
(* has left its mempool since it was listed.                               *)
GetTransaction ==
    /\ sess.kind = "transactions"
    /\ sess.queue # <<>>
    /\ LET t == Head(sess.queue)
       IN  \/ /\ t \in pool
              /\ cpool' = IF Admits(t) THEN cpool \union {t} ELSE cpool
              /\ sess' = [sess EXCEPT !.queue = Tail(@), !.requested = @ + 1]
           \/ /\ t \notin pool
              /\ sess' = NoSession
              /\ UNCHANGED cpool
    /\ UNCHANGED <<chainVars, nodeVars, cconfirmed, refusals, report, minerVars, bounds>>

(* The report counts the list, what was known of it and what was asked;    *)
(* "unseen" is what was listed and never looked at.                        *)
PullDone ==
    /\ sess.kind = "transactions"
    /\ sess.queue = <<>>
    /\ report' = [items |-> Cardinality(sess.list), known |-> Cardinality(sess.known),
                  requested |-> sess.requested,
                  unseen |-> LET asked == FirstN(InTxidOrder(sess.list \ sess.known),
                                                 sess.requested)
                             IN  sess.list \ (sess.known \union ToSet(asked))]
    /\ sess' = NoSession
    /\ UNCHANGED <<chainVars, nodeVars, clientVars, minerVars, bounds>>

(* SyncReport::up_to_date, its transaction part. *)
\* Mutant of UpToDate: a full page passes as everything.
UpToDateShortPage(r) == r.requested <= MaxPerSync

UpToDate(r) == (IF r.items < r.known THEN 0 ELSE r.items - r.known) <= r.requested

(***************************************************************************)
(* The thin miner.                                                         *)
(***************************************************************************)

(* The handshake: the responder's hello carries its tip of this moment. *)
TemplateHello ==
    /\ sess = NoSession
    /\ ~pending
    /\ tip_height < MaxTip
    /\ sess' = [kind |-> "template", hello |-> tip_height]
    /\ UNCHANGED <<chainVars, nodeVars, clientVars, report, minerVars, bounds>>

(* The responder builds a template on its tip of this moment, unless its   *)
(* storage is faulted; the miner refuses one that does not extend the tip  *)
(* of the hello, and solves the other.                                     *)
GetMiningTemplate ==
    /\ sess.kind = "template"
    /\ sess' = NoSession
    /\ \/ /\ storage = "healthy" /\ tip_height = sess.hello
          /\ mined' = tip_height /\ pending' = TRUE /\ verdict' = NoVerdict
          /\ stored' = FALSE /\ record' = "none"
       \/ /\ storage # "healthy" \/ tip_height # sess.hello
          /\ UNCHANGED <<minerVars, stored, record>>
    /\ UNCHANGED <<tip_height, durable_tip, storage, nodeVars, clientVars, report, bounds>>

(* submit_block returns an error before it writes: its storage is faulted, *)
(* or prepare_block refuses the block (indexed, its parent lost with the   *)
(* power, its time, its rules: module Node).                               *)
Refuse == UNCHANGED chainVars

(* What prepare_block lets pass is no duplicate and has its parent.        *)
Prepared == storage = "healthy" /\ ~stored /\ mined <= tip_height

(* An error: write_all fails, and leaves part of the record or nothing.    *)
WriteFailed ==
    /\ Prepared
    /\ storage' \in {"faulted", "torn"}
    /\ UNCHANGED <<tip_height, durable_tip, stored, record>>

(* An error: sync_all fails.  The block is not indexed; its record is in   *)
(* the file, and whether it is on the disk is not known.                   *)
SyncFailed ==
    /\ Prepared
    /\ storage' = "faulted" /\ record' = "written"
    /\ UNCHANGED <<tip_height, durable_tip, stored>>

\* Mutant of Store: the block is committed without the sync.
StoreUnsynced ==
    /\ Prepared
    /\ stored' = TRUE /\ record' = "written"
    /\ tip_height' = IF mined = tip_height THEN tip_height + 1 ELSE tip_height
    /\ UNCHANGED <<storage, durable_tip>>

(* Success: the record is durable, the block the new tip or, on an older   *)
(* parent, a side branch.                                                  *)
Store ==
    /\ Prepared
    /\ stored' = TRUE /\ record' = "durable"
    /\ tip_height' = IF mined = tip_height THEN tip_height + 1 ELSE tip_height
    /\ durable_tip' = tip_height'
    /\ UNCHANGED storage

\* Mutant of Known: a block stored before is submitted again, and refused as a duplicate.
KnownNotAsked == FALSE

(* contains_block                                                          *)
Known == stored

Answer(status) ==
    /\ sess' = [kind |-> "answer", status |-> status]
    /\ verdict' = [status |-> status, record |-> record']

(* What the responder does with a submitted block, all under its lock.     *)
SubmitBlock ==
    /\ sess = NoSession
    /\ pending
    /\ \/ Known /\ UNCHANGED chainVars /\ Answer("AlreadyKnown")
       \/ ~Known /\ Store /\ Answer("Accepted")
       \/ ~Known /\ (Refuse \/ WriteFailed \/ SyncFailed) /\ Answer("Rejected")
    /\ UNCHANGED <<nodeVars, clientVars, report, mined, pending, bounds>>

(* An answer arrives, whatever it says, and the miner goes on to a new     *)
(* template; while none does it submits the block again.                   *)
SubmitAnswer ==
    /\ sess.kind = "answer"
    /\ pending' = FALSE
    /\ sess' = NoSession
    /\ UNCHANGED <<chainVars, nodeVars, clientVars, report, mined, verdict, bounds>>

Pull == PullBlocks \/ GetMempool \/ GetTransaction \/ PullDone
Mine == TemplateHello \/ GetMiningTemplate \/ SubmitBlock \/ SubmitAnswer

RequestsNext ==
    \/ Arrive
    \/ Extend
    \/ StorageFault
    \/ Restart
    \/ LocalSubmit
    \/ LoseConnection
    \/ Pull
    \/ Mine

(* The static poller starts a pull every interval, whatever else uses the  *)
(* responder; a session that is not dropped goes on.                       *)
RequestsFairness ==
    /\ SF_requestsVars(PullBlocks)
    /\ WF_requestsVars(GetMempool \/ GetTransaction \/ PullDone)
    /\ WF_requestsVars(GetMiningTemplate \/ SubmitAnswer)

RequestsSpec == RequestsInit /\ [][RequestsNext]_requestsVars /\ RequestsFairness
-----------------------------------------------------------------------------

(* A report that calls the pull up to date has left no listed transaction  *)
(* unlooked at, whatever entered or left either mempool meanwhile.         *)
UpToDateSawAll == UpToDate(report) => report.unseen = {}

(* The responder lists a transaction that the client would take and that   *)
(* fits in a pull: fewer than MaxPerSync refused ones precede it in txid   *)
(* order, which are asked for again every time.                            *)
OnOffer(t) ==
    /\ t \in pool \ refusals
    /\ Cardinality({u \in refusals : u < t}) < MaxPerSync

(* Of an answer under way: it says what the responder's index holds.       *)
VerdictFresh ==
    sess.kind = "answer" => (sess.status \in {"Accepted", "AlreadyKnown"}) = stored

(* Of the last answer a block got, from then on, over restarts and power   *)
(* losses: "Accepted" is for good.  "AlreadyKnown" is too, and "Rejected"  *)
(* means the block will not appear unless it is submitted again, both with *)
(* one exception: a record that was in the log without a successful sync.  *)
VerdictLasts ==
    /\ verdict.status = "Accepted" => stored
    /\ verdict.status = "AlreadyKnown" => stored \/ verdict.record = "written"
    /\ verdict.status = "Rejected" => ~stored \/ verdict.record = "written"

(* A pull that calls itself up to date left no listed transaction unlooked *)
(* at.  The answer to a submission tells whether the node has the block,   *)
(* also when an earlier answer for it was lost, and stays true across      *)
(* storage faults, restarts and power losses; a rejected block turns up    *)
(* later only where its sync failed and a restart replays the record.      *)
AnswersTruthful == UpToDateSawAll /\ VerdictFresh /\ VerdictLasts
=============================================================================
