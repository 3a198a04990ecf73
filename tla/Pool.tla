--------------------------------- MODULE Pool ---------------------------------
(***************************************************************************)
(* The Devnet pool server (crates/cmfd-node/src/pool.rs): a listener, one  *)
(* thread per connection, a current job that follows the node's tip, and a *)
(* bounded in-memory ledger of sessions and payout labels.                 *)
(*                                                                         *)
(* Four mutexes guard the shared state (node, pool state, a job's seen     *)
(* nonces, ledger).  An action is one stretch of code under its locks; the *)
(* evaluation of a nonce runs under none of them, so the tip and the job   *)
(* may change between reading the job and locking the node.                *)
(***************************************************************************)
EXTENDS Integers, Sequences, FiniteSets, Functions, FiniteSetsExt

CONSTANTS
    Conns,              \* connection threads that may exist at once
    Payouts,            \* payout labels clients send
    Nonces,
    ShareNonces,        \* nonces whose digest meets a job's share target
    BlockNonces,        \* ... and also its chain target
    MaxConnections,     \* PoolServerConfig.max_connections
    MaxMessages,        \* POOL_MAX_MESSAGES_PER_SESSION
    MaxSharesPerJob,    \* POOL_MAX_SHARES_PER_JOB
    MaxLedgerSessions,  \* POOL_MAX_LEDGER_SESSIONS
    MaxLedgerPayouts,   \* POOL_MAX_LEDGER_PAYOUTS
    MaxSessions,        \* bound: session ids given out in one behaviour
    MaxTip,             \* bound: changes of the node's tip
    NoPayout

ASSUME PoolAssumption ==
    /\ BlockNonces \subseteq ShareNonces /\ ShareNonces \subseteq Nonces
    /\ MaxConnections \in Nat \ {0}
    /\ MaxMessages \in Nat /\ MaxSharesPerJob \in Nat
    /\ MaxLedgerSessions \in Nat /\ MaxConnections <= MaxLedgerSessions
    /\ MaxLedgerPayouts \in Nat /\ MaxLedgerSessions <= MaxLedgerPayouts
    /\ MaxSessions \in Nat /\ MaxTip \in Nat
    /\ NoPayout \notin Payouts
    /\ IsFiniteSet(Conns) /\ IsFiniteSet(Payouts)

VARIABLES
    node_tip,   \* how many times the node's tip has changed; it never returns
    jobs,       \* every ActiveJob installed so far; the last one is current
    totals,     \* Ledger.accepted_shares, rejected_shares, pool_blocks
    sessions,   \* Ledger.sessions: session id -> record
    payouts,    \* Ledger.payouts: payout label -> record
    next_session_id,
    stop,
    th,         \* connection threads
    credited    \* history: <<job, nonce>> pairs that earned a credit

ledger == <<totals, sessions, payouts>>
vars == <<node_tip, jobs, ledger, next_session_id, stop, th, credited>>

Tallies == [accepted : Nat, rejected : Nat, blocks : Nat]
NoShares == [accepted |-> 0, rejected |-> 0, blocks |-> 0]
Plus(t, u) == [accepted |-> t.accepted + u.accepted,
               rejected |-> t.rejected + u.rejected,
               blocks   |-> t.blocks + u.blocks]

Rejected == [NoShares EXCEPT !.rejected = 1]
Accepted(n) == [accepted |-> 1, rejected |-> 0,
                blocks   |-> IF n \in BlockNonces THEN 1 ELSE 0]

Threads == [pc : {"free", "hello", "register", "greet", "loop", "read", "rotate",
                  "before", "process", "submit", "rotateStale", "rotateBlock",
                  "reject", "answer", "drop", "release"},
            session : 0..MaxSessions, payout : Payouts \cup {NoPayout},
            count : 0..MaxMessages,
            job : Nat, nonce : Nonces \cup {NoPayout},  \* the submitted share
            before : Nat,                   \* current job before process_share
            known : Nat,                    \* last job sent to the client
            stale : BOOLEAN]                \* the answer says stale_job

Free == [pc |-> "free", session |-> 0, payout |-> NoPayout, count |-> 0,
         job |-> 0, nonce |-> NoPayout, before |-> 0, known |-> 0, stale |-> FALSE]

current == Len(jobs)
Busy == {c \in Conns : th[c].pc # "free"}
Goto(c, pc) == th' = [th EXCEPT ![c].pc = pc]

(* handle_connection returns: its locals are gone, the session guard stays.*)
Unwind(c) ==
    th' = [th EXCEPT ![c] = [Free EXCEPT !.pc = "drop", !.session = th[c].session,
                                         !.payout = th[c].payout]]

Init ==
    /\ node_tip = 0
    /\ jobs = <<[previous_block |-> 0, seen |-> {}]>>
    /\ totals = NoShares /\ sessions = <<>> /\ payouts = [p \in {} |-> 0]
    /\ next_session_id = 1
    /\ stop = FALSE
    /\ th = [c \in Conns |-> Free]
    /\ credited = {}

-----------------------------------------------------------------------------
(* Jobs.                                                                   *)

(* rotate_if_tip_changed: under the node and state locks, a job on another *)
(* parent than the tip is replaced by a new one with no seen nonces.       *)
RotateIfTipChanged ==
    jobs' = IF jobs[current].previous_block = node_tip THEN jobs
            ELSE Append(jobs, [previous_block |-> node_tip, seen |-> {}])

(* The listener's own rotation, once per accept poll.                      *)
ListenerRotates ==
    /\ ~stop /\ jobs[current].previous_block # node_tip
    /\ RotateIfTipChanged
    /\ UNCHANGED <<node_tip, ledger, next_session_id, stop, th, credited>>

(* The node takes a block from a peer or another miner.                    *)
PeerBlock ==
    /\ node_tip < MaxTip
    /\ node_tip' = node_tip + 1
    /\ UNCHANGED <<jobs, ledger, next_session_id, stop, th, credited>>

-----------------------------------------------------------------------------
(* Connections and the session ledger.                                     *)

(* pool_listener takes a connection while fewer than max_connections live. *)
AcceptConnection(c) ==
    /\ ~stop /\ th[c].pc = "free" /\ Cardinality(Busy) < MaxConnections
    /\ Goto(c, "hello")
    /\ UNCHANGED <<node_tip, jobs, ledger, next_session_id, stop, credited>>

(* A compatible hello takes the next session id (fetch_add).               *)
Hello(c, p) ==
    /\ th[c].pc = "hello" /\ next_session_id <= MaxSessions
    /\ next_session_id' = next_session_id + 1
    /\ th' = [th EXCEPT ![c] = [Free EXCEPT !.pc = "register",
                                            !.session = next_session_id,
                                            !.payout = p]]
    /\ UNCHANGED <<node_tip, jobs, ledger, stop, credited>>

(* A mismatched, missing or late hello, or a session id past the bound.    *)
HelloRefused(c) ==
    /\ th[c].pc = "hello"
    /\ th' = [th EXCEPT ![c] = [Free EXCEPT !.pc = "release"]]
    /\ UNCHANGED <<node_tip, jobs, ledger, next_session_id, stop, credited>>

Inactive == {s \in DOMAIN sessions : ~sessions[s].connected}
SessionsFull == Cardinality(DOMAIN sessions) >= MaxLedgerSessions

(* Mutant: the oldest record makes room, connected or not.                 *)
PrunedSessionsAny ==
    IF SessionsFull THEN Restrict(sessions, DOMAIN sessions \ {Min(DOMAIN sessions)})
    ELSE sessions

(* The oldest inactive record makes room.  The ledger never holds more     *)
(* than MaxLedgerSessions, so the while loop of register_session runs at   *)
(* most once.                                                              *)
PrunedSessions ==
    IF SessionsFull THEN Restrict(sessions, DOMAIN sessions \ {Min(Inactive)})
    ELSE sessions

(* Mutant: the label pruned is the least recently used one, in use or not. *)
UnreferencedIgnoringSessions(ss) == DOMAIN payouts

(* Payout labels no session record names.                                  *)
Unreferenced(ss) ==
    {p \in DOMAIN payouts : \A s \in DOMAIN ss : ss[s].payout # p}

PayoutsFull(p) ==
    p \notin DOMAIN payouts /\ Cardinality(DOMAIN payouts) >= MaxLedgerPayouts

PrunedPayouts(p, ss) ==
    IF PayoutsFull(p)
    THEN LET oldest == CHOOSE q \in Unreferenced(ss) :
                           \A r \in Unreferenced(ss) : payouts[q].last <= payouts[r].last
         IN Restrict(payouts, DOMAIN payouts \ {oldest})
    ELSE payouts

(* entry(payout).or_default() with the new last_session_id and tally.      *)
Touch(ps, p, s, tally) ==
    [q \in DOMAIN ps \cup {p} |->
        IF q # p THEN ps[q]
        ELSE [last  |-> s,
              tally |-> Plus(IF p \in DOMAIN ps THEN ps[p].tally ELSE NoShares, tally)]]

SessionCapacity == SessionsFull => Inactive # {}
PayoutCapacity(p) == PayoutsFull(p) => Unreferenced(PrunedSessions) # {}

(* register_session.  Its LedgerCapacity errors have no action: they are   *)
(* what NeverAtCapacity rules out.                                         *)
RegisterSession(c) ==
    LET s == th[c].session  p == th[c].payout IN
    /\ th[c].pc = "register"
    /\ SessionCapacity /\ PayoutCapacity(p)
    /\ sessions' = [i \in DOMAIN PrunedSessions \cup {s} |->
                      IF i = s THEN [connected |-> TRUE, payout |-> p, tally |-> NoShares]
                      ELSE PrunedSessions[i]]
    /\ payouts' = Touch(PrunedPayouts(p, PrunedSessions), p, s, NoShares)
    /\ Goto(c, "greet")
    /\ UNCHANGED <<node_tip, jobs, totals, next_session_id, stop, credited>>

(* HelloAck and the first job.                                             *)
Greet(c) ==
    /\ th[c].pc = "greet"
    /\ th' = [th EXCEPT ![c].pc = "loop", ![c].known = current]
    /\ UNCHANGED <<node_tip, jobs, ledger, next_session_id, stop, credited>>

(* SessionGuard is dropped first, the connection count only after it.      *)
DropSession(c) ==
    /\ th[c].pc = "drop"
    /\ sessions' = [sessions EXCEPT ![th[c].session].connected = FALSE]
    /\ th' = [th EXCEPT ![c] = [Free EXCEPT !.pc = "release"]]
    /\ UNCHANGED <<node_tip, jobs, totals, payouts, next_session_id, stop, credited>>

ReleaseConnection(c) ==
    /\ th[c].pc = "release"
    /\ th' = [th EXCEPT ![c] = Free]
    /\ UNCHANGED <<node_tip, jobs, ledger, next_session_id, stop, credited>>

-----------------------------------------------------------------------------
(* The message loop of handle_connection.                                  *)

LoopTop(c) ==
    /\ th[c].pc = "loop" /\ ~stop
    /\ RotateIfTipChanged
    /\ Goto(c, "read")
    /\ UNCHANGED <<node_tip, ledger, next_session_id, stop, credited>>

(* A client submits a nonce for the current job or any earlier one; one    *)
(* message too many ends the session.                                      *)
ReadShare(c, j, n) ==
    /\ th[c].pc = "read"
    /\ IF th[c].count = MaxMessages THEN Unwind(c)
       ELSE th' = [th EXCEPT ![c].pc = "rotate", ![c].count = @ + 1,
                             ![c].job = j, ![c].nonce = n]
    /\ UNCHANGED <<node_tip, jobs, ledger, next_session_id, stop, credited>>

RotateBefore(c) ==
    /\ th[c].pc = "rotate"
    /\ RotateIfTipChanged
    /\ Goto(c, "before")
    /\ UNCHANGED <<node_tip, ledger, next_session_id, stop, credited>>

ReadBefore(c) ==
    /\ th[c].pc = "before"
    /\ th' = [th EXCEPT ![c].pc = "process", ![c].before = current]
    /\ UNCHANGED <<node_tip, jobs, ledger, next_session_id, stop, credited>>

(* process_share up to the evaluation: the share must name the job that is *)
(* current now, and its recomputed digest must meet the share target.      *)
Process(c) ==
    LET fresh == th[c].job = current IN
    /\ th[c].pc = "process"
    /\ th' = [th EXCEPT ![c].stale = ~fresh,
                        ![c].pc = IF fresh /\ th[c].nonce \in ShareNonces
                                  THEN "submit" ELSE "reject"]
    /\ UNCHANGED <<node_tip, jobs, ledger, next_session_id, stop, credited>>

-----------------------------------------------------------------------------
(* process_share under the node lock.                                      *)

Credit(c, tally) ==
    LET s == th[c].session IN
    /\ totals' = Plus(totals, tally)
    /\ sessions' = [sessions EXCEPT ![s].tally = Plus(@, tally)]
    /\ payouts' = Touch(payouts, sessions[s].payout, s, tally)

(* Mutant: the parent is not rechecked once the node is locked.            *)
SubmitsToAnyTip(c) == th[c].pc = "submit"

(* The job's parent is still the tip.                                      *)
SubmitsToTip(c) ==
    th[c].pc = "submit" /\ jobs[th[c].job].previous_block = node_tip

(* The tip moved while the nonce was evaluated.                            *)
SubmitStale(c) ==
    /\ th[c].pc = "submit" /\ ~SubmitsToTip(c)
    /\ th' = [th EXCEPT ![c].pc = "rotateStale", ![c].stale = TRUE]
    /\ UNCHANGED <<node_tip, jobs, ledger, next_session_id, stop, credited>>

(* Mutant: a nonce is not remembered.                                      *)
ReserveForgets(seen, n) == seen

(* reserve_valid_share: Reserved adds the nonce, Duplicate and Full do not.*)
Reserve(seen, n) ==
    IF n \in seen \/ Cardinality(seen) >= MaxSharesPerJob THEN seen ELSE seen \cup {n}

Duplicate(c) == th[c].nonce \in jobs[th[c].job].seen
JobFull(c) == Cardinality(jobs[th[c].job].seen) >= MaxSharesPerJob

(* A duplicate, or a plain share of a job whose nonce set is full.         *)
SubmitRefused(c) ==
    /\ SubmitsToTip(c)
    /\ Duplicate(c) \/ (JobFull(c) /\ th[c].nonce \notin BlockNonces)
    /\ Goto(c, "reject")
    /\ UNCHANGED <<node_tip, jobs, ledger, next_session_id, stop, credited>>

Reserves(c) ==
    /\ SubmitsToTip(c) /\ ~Duplicate(c)
    /\ JobFull(c) => th[c].nonce \in BlockNonces
    /\ jobs' = [jobs EXCEPT ![th[c].job].seen = Reserve(@, th[c].nonce)]

(* A share is credited; a block is first submitted to the node, whose tip  *)
(* it becomes, and credited as well.                                       *)
SubmitAccepted(c) ==
    LET block == th[c].nonce \in BlockNonces IN
    /\ Reserves(c)
    /\ block => node_tip < MaxTip
    /\ node_tip' = IF block THEN node_tip + 1 ELSE node_tip
    /\ Credit(c, Accepted(th[c].nonce))
    /\ credited' = credited \cup {<<th[c].job, th[c].nonce>>}
    /\ Goto(c, IF block THEN "rotateBlock" ELSE "answer")
    /\ UNCHANGED <<next_session_id, stop>>

(* submit_block fails: the session ends and the nonce stays reserved.      *)
SubmitBlockFails(c) ==
    /\ Reserves(c) /\ th[c].nonce \in BlockNonces
    /\ Unwind(c)
    /\ UNCHANGED <<node_tip, ledger, next_session_id, stop, credited>>

(* Rotation after a stale parent or an accepted block.                     *)
RotateAfter(c) ==
    /\ th[c].pc \in {"rotateStale", "rotateBlock"}
    /\ RotateIfTipChanged
    /\ Goto(c, IF th[c].pc = "rotateStale" THEN "reject" ELSE "answer")
    /\ UNCHANGED <<node_tip, ledger, next_session_id, stop, credited>>

(* rejected_result.                                                        *)
Reject(c) ==
    /\ th[c].pc = "reject"
    /\ Credit(c, Rejected)
    /\ Goto(c, "answer")
    /\ UNCHANGED <<node_tip, jobs, next_session_id, stop, credited>>

(* Mutant: only a job that changed during this share is announced.         *)
AnnouncesOnlyChange(c) == th[c].before # current

(* The client is sent the current job first if it changed meanwhile or if  *)
(* the client worked on another one.                                       *)
Announces(c) == th[c].before # current \/ th[c].job # th[c].before

Answer(c) ==
    /\ th[c].pc = "answer"
    /\ th' = [th EXCEPT ![c] =
                 [th[c] EXCEPT !.pc = "loop", !.job = 0, !.nonce = NoPayout,
                               !.before = 0, !.stale = FALSE,
                               !.known = IF Announces(c) THEN current ELSE th[c].known]]
    /\ UNCHANGED <<node_tip, jobs, ledger, next_session_id, stop, credited>>

(* A connection closed or an error returned with `?`: the session ends.    *)
SessionFails(c) ==
    /\ th[c].pc \in {"greet", "loop", "read", "rotate", "rotateStale",
                      "rotateBlock", "answer"}
    /\ Unwind(c)
    /\ UNCHANGED <<node_tip, jobs, ledger, next_session_id, stop, credited>>

(* Mutant: only the loop head looks at the stop flag.                      *)
SeesStopOnlyAtTop(c) == stop /\ th[c].pc = "loop"

(* The loop head and the interruptible read both see the stop flag.        *)
SeesStop(c) == stop /\ th[c].pc \in {"loop", "read"}

SessionStops(c) ==
    /\ SeesStop(c)
    /\ Unwind(c)
    /\ UNCHANGED <<node_tip, jobs, ledger, next_session_id, stop, credited>>

StopServer ==
    /\ ~stop /\ stop' = TRUE
    /\ UNCHANGED <<node_tip, jobs, ledger, next_session_id, th, credited>>

(* What a thread does by itself, without waiting for its client.           *)
ThreadStep(c) ==
    \/ HelloRefused(c)
    \/ RegisterSession(c) \/ Greet(c) \/ DropSession(c) \/ ReleaseConnection(c)
    \/ LoopTop(c) \/ RotateBefore(c) \/ ReadBefore(c) \/ Process(c)
    \/ SubmitStale(c) \/ SubmitRefused(c) \/ SubmitAccepted(c) \/ SubmitBlockFails(c)
    \/ RotateAfter(c) \/ Reject(c) \/ Answer(c) \/ SessionStops(c)

Next ==
    \/ \E c \in Conns :
          \/ ThreadStep(c) \/ AcceptConnection(c) \/ SessionFails(c)
          \/ \E p \in Payouts : Hello(c, p)
          \/ \E j \in 1..current, n \in Nonces : ReadShare(c, j, n)
    \/ ListenerRotates \/ PeerBlock \/ StopServer

Spec == Init /\ [][Next]_vars

(* Threads are scheduled; a hello that never comes is cut off by the read  *)
(* timeout, which HelloRefused stands for.                                 *)
FairSpec == Spec /\ \A c \in Conns : WF_vars(ThreadStep(c))

-----------------------------------------------------------------------------
InSession == {c \in Conns : th[c].pc \notin {"free", "hello", "register", "release"}}

(* Every field keeps its type, the ledger its bounds.                      *)
TypeOK ==
    /\ node_tip \in 0..MaxTip
    /\ jobs \in Seq([previous_block : 0..MaxTip, seen : SUBSET Nonces]) /\ jobs # <<>>
    /\ totals \in Tallies
    /\ DOMAIN sessions \subseteq 1..MaxSessions
    /\ sessions \in [DOMAIN sessions -> [connected : BOOLEAN, payout : Payouts, tally : Tallies]]
    /\ DOMAIN payouts \subseteq Payouts
    /\ payouts \in [DOMAIN payouts -> [last : 1..MaxSessions, tally : Tallies]]
    /\ next_session_id \in 1..(MaxSessions + 1) /\ stop \in BOOLEAN
    /\ th \in [Conns -> Threads]
    /\ credited \subseteq (1..current) \X Nonces
    /\ Cardinality(DOMAIN sessions) <= MaxLedgerSessions
    /\ Cardinality(DOMAIN payouts) <= MaxLedgerPayouts

(* process_share evaluates outside every lock, two sessions may submit the *)
(* same nonce, and a full nonce set lets blocks through unremembered: each *)
(* credited share is still a distinct nonce of a distinct job.             *)
CreditedOnce == totals.accepted = Cardinality(credited)

(* A job pays for at most one block, for that block moves the tip away     *)
(* from the job's parent before any other share of the job is admitted.    *)
OneBlockPerJob ==
    /\ \A x, y \in credited :
          x[1] = y[1] /\ x[2] \in BlockNonces /\ y[2] \in BlockNonces => x = y
    /\ totals.blocks <= node_tip

(* register_session's LedgerCapacity errors cannot happen: every time a    *)
(* session registers, some record is inactive and some label unreferenced. *)
NeverAtCapacity ==
    \A c \in Conns : th[c].pc = "register" => SessionCapacity /\ PayoutCapacity(th[c].payout)

(* Pruning never takes the record or the label of a session in progress,   *)
(* so no share ends in `unknown session` or starts a label's tally afresh. *)
LiveSessionsRecorded ==
    \A c \in InSession :
        /\ th[c].session \in DOMAIN sessions
        /\ sessions[th[c].session].connected
        /\ sessions[th[c].session].payout = th[c].payout
        /\ th[c].payout \in DOMAIN payouts

SessionsOf(ss, p) == {s \in DOMAIN ss : ss[s].payout = p}
SessionSum(ss, p, f) == MapThenSumSet(LAMBDA s : ss[s].tally[f], SessionsOf(ss, p))
PayoutSum(ps, f) == MapThenSumSet(LAMBDA p : ps[p].tally[f], DOMAIN ps)

(* Through pruning of either table, a label's tally covers the sessions    *)
(* recorded under it and the totals cover all labels.                      *)
TalliesNest ==
    \A f \in {"accepted", "rejected", "blocks"} :
        /\ \A p \in DOMAIN payouts : SessionSum(sessions, p, f) <= payouts[p].tally[f]
        /\ PayoutSum(payouts, f) <= totals[f]

(* The ledger's bounded tables: of their types and within their limits,    *)
(* with room for whoever registers, every live session recorded, and the   *)
(* tallies nested.                                                         *)
RecordsSound == TypeOK /\ NeverAtCapacity /\ LiveSessionsRecorded /\ TalliesNest

(* A client told its job is stale has been sent a different one first,     *)
(* however the rotations of other threads fell.                            *)
StaleIsRefreshed ==
    [][\A c \in Conns :
         th[c].pc = "answer" /\ th[c].stale /\ th'[c].pc = "loop"
           => th'[c].known # th[c].job]_vars

(* After stop(), every connection thread ends, so the listener's join      *)
(* returns, whatever its clients do.                                       *)
StopDrains == stop ~> (Busy = {})
=============================================================================
