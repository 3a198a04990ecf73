------------------------------ MODULE FullMiner ------------------------------
(***************************************************************************)
(* The standalone miner in full-node mode: it opens a node of its own,     *)
(* listens for peers, synchronizes with one of the configured peers before *)
(* it starts the GPUs, then mines on its own tip while a poller and the    *)
(* listener move that tip, relays what it finds and stops on Ctrl+C.       *)
(*                                                                         *)
(* A chain is the sequence of its blocks, a block a number, its work 1.    *)
(* A session with a peer takes effect at once (PeerSync models its steps); *)
(* the GPU threads behind one job are one step (Miner models them).        *)
(***************************************************************************)
EXTENDS Integers, Sequences, FiniteSets, FiniteSetsExt, SequencesExt

CONSTANTS
    PeerList,    \* --peer, in the order given
    Start,       \* chains the data directory and the peers may begin with
    PageBlocks,  \* blocks one session transfers (MAX_BLOCKS_PER_SYNC)
    MaxBlocks,   \* bound: block numbers
    MaxFlips     \* bound: peers going down or coming back

ASSUME FullMinerAssumption ==
    /\ MaxBlocks \in Nat /\ PageBlocks \in Nat \ {0} /\ MaxFlips \in Nat
    /\ Start \subseteq Seq(1..MaxBlocks)

Configured == Range(PeerList)
NoPeer == 0

VARIABLES
    active,      \* the miner's own active chain
    index,       \* blocks its node has indexed
    remote,      \* each peer's active chain
    up,          \* whether a peer can be reached
    last_mined,  \* the number of the last block anyone mined
    flips,
    pc,          \* where run_full_node_miner is
    todo,        \* peers left in the current loop over them
    selected,    \* selected_peer of synchronize_before_mining
    promised,    \* the work in the hello of the session under way
    parent,      \* the tip the current job extends
    found,       \* the own blocks counted in blocks_found
    tips,        \* history: own blocks that became the tip when submitted
    inbound,     \* the listener: "runs", "told" to stop, or "joined"
    poller,      \* the poller's thread is running
    shutdown

peers == <<remote, up, last_mined, flips>>
own == <<active, index>>
sync == <<todo, selected, promised>>
tally == <<found, tips>>
services == <<inbound, poller>>
fullMinerVars == <<peers, own, sync, tally, services, pc, parent, shutdown>>

TipOf(c) == IF c = <<>> THEN 0 ELSE Last(c)

\* Where two chains part, and what the first is worth after a session brought
\* it the next blocks of the second.
Common(a, b) == Len(LongestCommonPrefix({a, b}))
Offered(a, b, n) == SubSeq(b, 1, Min({Common(a, b) + n, Len(b)}))
Adopt(a, b) == IF Len(b) > Len(a) THEN b ELSE a

\* sync_from_peer_once and an inbound submission: take blocks from a peer.
Take(p, n) ==
    LET blocks == Offered(active, remote[p], n)
    IN /\ index' = index \cup Range(blocks)
       /\ active' = Adopt(active, blocks)

\* relay_blocks_to_peer_once: nothing is offered past a tip this node does not know.
Give(p) ==
    remote' = IF TipOf(remote[p]) \in index \cup {0}
              THEN [remote EXCEPT ![p] = Adopt(@, Offered(@, active, PageBlocks))]
              ELSE remote

Exit(to) == pc' = to /\ todo' = <<>>

(***************************************************************************)
(* synchronize_before_mining.                                              *)
(***************************************************************************)
\* The selected peer first, then the others in order.
Candidates ==
    (IF selected = NoPeer THEN <<>> ELSE <<selected>>)
        \o SelectSeq(PeerList, LAMBDA p : p # selected)

SyncRound ==
    /\ pc = "sync"
    /\ \/ shutdown /\ Exit("stop_inbound")
       \/ ~shutdown /\ pc' = "contact" /\ todo' = Candidates
    /\ UNCHANGED <<peers, own, selected, promised, tally, services, parent, shutdown>>

\* The peer of the candidate list, or of the relay's list, that is next.
NextIs(p) == todo # <<>> /\ Head(todo) = p

Deselected(p) == IF selected = p THEN NoPeer ELSE selected

\* Mutant of SessionFails: the round ends with the first peer that fails.
SessionFailsBreaks(p) ==
    /\ pc \in {"contact", "pull"} /\ NextIs(p) /\ ~up[p]
    /\ pc' = "contact" /\ todo' = <<>>
    /\ selected' = Deselected(p) /\ promised' = 0
    /\ UNCHANGED <<peers, own, tally, services, parent, shutdown>>

SessionFails(p) ==
    /\ pc \in {"contact", "pull"} /\ NextIs(p) /\ ~up[p]
    /\ pc' = "contact" /\ todo' = Tail(todo)
    /\ selected' = Deselected(p) /\ promised' = 0
    /\ UNCHANGED <<peers, own, tally, services, parent, shutdown>>

Hello(p) ==
    /\ pc = "contact" /\ NextIs(p) /\ up[p]
    /\ pc' = "pull" /\ promised' = Len(remote[p])
    /\ UNCHANGED <<peers, own, todo, selected, tally, services, parent, shutdown>>

\* A session that succeeded ends the round, and the loop once the work caught up.
PullSession(p) ==
    /\ pc = "pull" /\ NextIs(p) /\ up[p]
    /\ Take(p, PageBlocks)
    /\ selected' = p /\ todo' = <<>> /\ promised' = 0
    /\ pc' = IF Len(active') >= promised THEN "spawn_poller" ELSE "sync"
    /\ UNCHANGED <<peers, tally, services, parent, shutdown>>

\* Polling begins, or it cannot and the process returns the error: the listener's
\* handle is dropped, which sets its stop flag and joins nothing.
SpawnPoller ==
    /\ pc = "spawn_poller"
    /\ \/ pc' = "mine" /\ poller' = TRUE /\ UNCHANGED inbound
       \/ pc' = "exited" /\ inbound' = "told" /\ UNCHANGED poller
    /\ UNCHANGED <<peers, own, sync, tally, parent, shutdown>>

NoneReachable ==
    /\ pc = "contact" /\ todo = <<>>
    /\ pc' = "retry"
    /\ UNCHANGED <<peers, own, sync, tally, services, parent, shutdown>>

Retry ==
    /\ pc = "retry"
    /\ pc' = IF shutdown THEN "stop_inbound" ELSE "sync"
    /\ UNCHANGED <<peers, own, sync, tally, services, parent, shutdown>>

(***************************************************************************)
(* continuous_mining.                                                      *)
(***************************************************************************)
\* The template extends the tip of this moment; an error of it ends the miner.
BuildJob ==
    /\ pc = "mine"
    /\ \/ shutdown /\ pc' = "stop_poller" /\ UNCHANGED parent
       \/ ~shutdown /\ pc' = "search" /\ parent' = TipOf(active)
       \/ ~shutdown /\ pc' = "stop_poller" /\ UNCHANGED parent
    /\ UNCHANGED <<peers, own, sync, tally, services, shutdown>>

SearchEnds(to) ==
    /\ pc = "search" /\ pc' = to
    /\ UNCHANGED <<peers, own, sync, tally, services, parent, shutdown>>

SearchShutdown == shutdown /\ SearchEnds("stop_poller")
SearchFails == SearchEnds("stop_poller")
SearchFound == SearchEnds("found")

\* The closure that check_status calls compares the tip with the job's parent.
SearchStale == TipOf(active) # parent /\ SearchEnds("mine")

\* Mutant of StillCurrent: the parent was compared when the search ended, not here.
StillCurrentUnchecked == TRUE

StillCurrent == TipOf(active) = parent

\* The candidate no longer meets the chain target, or the tip has moved on.
Discard ==
    /\ pc = "found" /\ pc' = "mine"
    /\ UNCHANGED <<peers, own, sync, tally, services, parent, shutdown>>

\* submit_block under the same lock as the comparison (a block on another parent would
\* only be indexed: the chain that replaced it is heavier).
SubmitFound ==
    /\ pc = "found" /\ StillCurrent /\ last_mined < MaxBlocks
    /\ last_mined' = last_mined + 1 /\ index' = index \cup {last_mined + 1}
    /\ active' = IF TipOf(active) = parent THEN Append(active, last_mined + 1) ELSE active
    /\ found' = found \cup {last_mined + 1}
    /\ tips' = tips \cup ({last_mined + 1} \cap {TipOf(active')})
    /\ pc' = "relay" /\ todo' = PeerList
    /\ UNCHANGED <<remote, up, flips, selected, promised, services, parent, shutdown>>

\* An error of the block's assembly or of submit_block ends the miner.
SubmitFails ==
    /\ pc = "found" /\ pc' = "stop_poller"
    /\ UNCHANGED <<peers, own, sync, tally, services, parent, shutdown>>

\* Relay to every configured peer, one after the other.
RelayTo(p) ==
    /\ pc = "relay" /\ NextIs(p)
    /\ todo' = Tail(todo)
    /\ IF up[p] THEN Give(p) ELSE UNCHANGED remote
    /\ UNCHANGED <<up, last_mined, flips, own, selected, promised, tally, services, pc,
                   parent, shutdown>>

RelayDone ==
    /\ pc = "relay" /\ todo = <<>>
    /\ pc' = "mine"
    /\ UNCHANGED <<peers, own, sync, tally, services, parent, shutdown>>

(***************************************************************************)
(* The end of run_full_node_miner.                                         *)
(***************************************************************************)
\* Mutant of StopPoller: an early return on the mining error.
StopPollerReturnsEarly ==
    /\ pc = "stop_poller" /\ pc' = "exited" /\ inbound' = "told"
    /\ UNCHANGED <<peers, own, sync, tally, poller, parent, shutdown>>

\* The poller is stopped and joined whatever the mining result was.
StopPoller ==
    /\ pc = "stop_poller" /\ pc' = "stop_inbound" /\ poller' = FALSE
    /\ UNCHANGED <<peers, own, sync, tally, inbound, parent, shutdown>>

StopInbound ==
    /\ pc = "stop_inbound" /\ pc' = "exited" /\ inbound' = "joined"
    /\ UNCHANGED <<peers, own, sync, tally, poller, parent, shutdown>>

(***************************************************************************)
(* Everyone else: the poller, the listener's workers, the peers, Ctrl+C.   *)
(***************************************************************************)
PollPull(p) ==
    /\ poller /\ up[p] /\ Take(p, PageBlocks)
    /\ UNCHANGED <<peers, sync, tally, services, pc, parent, shutdown>>

PollRelay(p) ==
    /\ poller /\ up[p] /\ Give(p)
    /\ UNCHANGED <<up, last_mined, flips, own, sync, tally, services, pc, parent,
                   shutdown>>

PeerSubmits(p) ==
    /\ inbound # "joined" /\ up[p] /\ Take(p, 1)
    /\ UNCHANGED <<peers, sync, tally, services, pc, parent, shutdown>>

PeerMines(p) ==
    /\ last_mined < MaxBlocks /\ last_mined' = last_mined + 1
    /\ remote' = [remote EXCEPT ![p] = Append(@, last_mined + 1)]
    /\ UNCHANGED <<up, flips, own, sync, tally, services, pc, parent, shutdown>>

PeerFlips(p) ==
    /\ flips < MaxFlips /\ flips' = flips + 1
    /\ up' = [up EXCEPT ![p] = ~@]
    /\ UNCHANGED <<remote, last_mined, own, sync, tally, services, pc, parent, shutdown>>

CtrlC ==
    /\ ~shutdown /\ shutdown' = TRUE
    /\ UNCHANGED <<peers, own, sync, tally, services, pc, parent>>

FullMinerInit ==
    /\ active \in Start /\ remote \in [Configured -> Start]
    /\ index = Range(active)
    /\ up = [p \in Configured |-> TRUE] /\ flips \in 0..MaxFlips
    /\ last_mined = Max({0} \cup UNION {Range(c) : c \in Start})
    /\ pc = IF PeerList = <<>> THEN "mine" ELSE "sync"
    /\ todo = <<>> /\ selected = NoPeer /\ promised = 0 /\ parent = 0
    /\ found = {} /\ tips = {}
    /\ inbound = "runs" /\ poller = FALSE /\ shutdown = FALSE

Main ==
    \/ SyncRound \/ SpawnPoller \/ NoneReachable \/ Retry
    \/ \E p \in Configured : SessionFails(p) \/ Hello(p) \/ PullSession(p) \/ RelayTo(p)
    \/ BuildJob \/ Discard \/ SubmitFound
    \/ SubmitFails \/ RelayDone \/ StopPoller \/ StopInbound

\* mine_work returns.
SearchReturns == SearchShutdown \/ SearchStale \/ SearchFound \/ SearchFails

FullMinerNext ==
    \/ Main \/ SearchReturns \/ CtrlC
    \/ \E p \in Configured : PollPull(p) \/ PollRelay(p) \/ PeerSubmits(p)
                        \/ PeerMines(p) \/ PeerFlips(p)

\* The main thread runs outside the search.  Nothing says that the search returns, not
\* even after Ctrl+C or on a stale tip: mine_work joins workers that may be blocked on
\* the channel it no longer reads (module Miner, MineWorkReturns).
FullMinerFairness == WF_fullMinerVars(Main)

FullMinerSpec == FullMinerInit /\ [][FullMinerNext]_fullMinerVars /\ FullMinerFairness

(***************************************************************************)
(* Properties.                                                             *)
(***************************************************************************)
\* Every block the miner reports as found became the tip of its node when it was
\* submitted, though the poller and the inbound workers move the tip all the time.
CountedBlocksWereTips == found = tips

\* On every way out the poller is not running and the listener does not go on; once
\* a GPU had work, a failed GPU or template included, both have been joined.
ExitIsQuiet ==
    pc = "exited" => ~poller /\ inbound # "runs" /\ (parent # 0 => inbound = "joined")

\* Every block counted as found became the node's tip, and the process leaves no
\* poller or listener running on any way out.
MinerAccountable == CountedBlocksWereTips /\ ExitIsQuiet

\* The peers have stopped coming and going, and one of them can be reached.
Settled == flips = MaxFlips /\ \E p \in Configured : up[p]

\* GPUs have been given a job and nobody asked to stop, or the process has ended, or
\* it is inside mine_work, whose return is not assumed.
MinesOrEnded == pc \in {"exited", "search"} \/ (parent # 0 /\ ~shutdown)
=============================================================================
