-------------------------------- MODULE Host --------------------------------
(***************************************************************************)
(* The peer services of a process that hosts a node: the desktop wallet's  *)
(* runtime (and the node's run command, which starts and stops the same    *)
(* services) starts an inbound listener and a static-peer poller, serves,  *)
(* and stops them again.  The listener thread accepts connections, hands   *)
(* each to a worker thread and counts the active ones with an atomic that  *)
(* a guard in the worker gives back; the poller opens one outbound session *)
(* at a time.  All of them record their sessions in the node's bounded     *)
(* table of peer observations, under the node mutex.                       *)
(*                                                                         *)
(* A session is opaque here: it succeeds or not and it ends (PeerSession   *)
(* and PeerSync model it).  Addresses are integers, one per observation    *)
(* key, ordered as the keys are: inbound before outbound.                  *)
(***************************************************************************)
EXTENDS Naturals, FiniteSets, Sequences, SequencesExt

CONSTANTS
    Workers,        \* identities of inbound worker threads, integers
    InboundKeys,    \* source addresses that connect, integers
    PeerLists,      \* peer lists an operator may configure: sequences of addresses
    Private,        \* addresses that are loopback or private
    Unsafe,         \* addresses that are unspecified, multicast or have port 0
    ListenAddress,  \* p2p_bind
    MaxPeers,       \* PeerLimits::max_peers
    MaxObserved,    \* MAX_OBSERVED_PEERS
    MaxTime         \* bound on the observation clock, in seconds

NoPeer == 0
Poller == 0
Sessions == Workers \cup {Poller}

\* Keys are ordered as numbers are; NoPeer is the poller's identity, too, so no worker's.
\* The table holds a record for every session there can be: 16 inbound workers, the
\* default max_peers, and the poller, in 64 records. (StaticPeerConfig::validate would
\* admit 64 peers, too, but nothing in the program configures another number than 16.)
HostAssumption ==
    /\ IsFiniteSet(Workers) /\ Workers \subseteq Nat \ {0}
    /\ InboundKeys \subseteq Nat /\ PeerLists \subseteq Seq(Nat)
    /\ MaxPeers \in Nat /\ MaxObserved \in Nat /\ MaxPeers + 1 <= MaxObserved

VARIABLES
    host,          \* where RuntimeState::start or stop_services is
    peers,         \* config.peers
    listener,      \* the listener thread
    stopFlag,      \* InboundPeerHandle.stop
    handles,       \* JoinHandles in the listener's worker list
    reserved,      \* the atomic count of reserved connections
    session,       \* each worker's and the poller's session step
    address,       \* the observation key of that session
    poll,          \* the poller thread
    turn,          \* index of the peer the poller is at
    pollStop,      \* the flag behind the poller's condvar
    observations,  \* key -> record, for the keys in the table
    now            \* observation_time

hosting == <<host, peers, stopFlag, pollStop>>
listening == <<listener, handles, reserved>>
polling == <<poll, turn>>
recording == <<observations, now>>
sessions == <<session, address>>
hostVars == <<hosting, listening, polling, recording, sessions>>

(***************************************************************************)
(* Peer configuration.                                                     *)
(***************************************************************************)
\* validate_peer_address, under PrivateOnly or AllowPublic.
ValidAddress(a, public) == a \notin Unsafe /\ (a \in Private \/ public)

\* StaticPeerConfig::validate.
ValidConfig(list, public) ==
    /\ ValidAddress(ListenAddress, public)
    /\ Len(list) <= MaxPeers
    /\ \A i \in DOMAIN list : ValidAddress(list[i], public) /\ list[i] # ListenAddress
    /\ IsInjective(list)

(***************************************************************************)
(* The table of peer observations (Node, under its mutex).                 *)
(***************************************************************************)
Idle(table) == {k \in DOMAIN table : table[k].active = 0}

\* Mutant of Evictable: the oldest record goes, active or not.
EvictableAny(table) ==
    {k \in DOMAIN table : \A j \in DOMAIN table :
        \/ table[k].seen < table[j].seen
        \/ table[k].seen = table[j].seen /\ k <= j}

\* The record that is evicted: least last_seen of the inactive ones, then least key.
Evictable(table) ==
    {k \in Idle(table) : \A j \in Idle(table) :
        \/ table[k].seen < table[j].seen
        \/ table[k].seen = table[j].seen /\ k <= j}

\* peer_observation_mut: the table with a record for this key, if there can be one.
WithRecord(table, key) ==
    LET victims == IF key \in DOMAIN table \/ Cardinality(DOMAIN table) < MaxObserved
                   THEN {} ELSE Evictable(table)
        keys == (DOMAIN table \cup {key}) \ (victims \ {key})
    IN IF key \in DOMAIN table THEN table
       ELSE IF Cardinality(DOMAIN table) >= MaxObserved /\ victims = {} THEN table
       ELSE [k \in keys |-> IF k \in DOMAIN table THEN table[k]
                            ELSE [active |-> 0, seen |-> now]]

\* A record as a session starts, succeeds or ends; the times and tallies that no
\* eviction reads are left out.
Observed(record, event) ==
    [seen |-> now,
     active |-> CASE event = "started" -> record.active + 1
                  [] event = "succeeded" -> record.active
                  [] event = "ended" -> IF record.active = 0 THEN 0 ELSE record.active - 1]

\* record_peer_started, _success and _ended: update the record of a key, if
\* peer_observation_mut returned one.
Record(key, event) ==
    LET table == WithRecord(observations, key)
    IN observations' = IF key \in DOMAIN table
                       THEN [table EXCEPT ![key] = Observed(table[key], event)] ELSE table

Tick == now < MaxTime /\ now' = now + 1
        /\ UNCHANGED <<hosting, listening, polling, observations, sessions>>

(***************************************************************************)
(* A session: record_peer_started, the exchange, record_peer_ended.        *)
(***************************************************************************)
StartSession(s) ==
    /\ session[s] = "begun"
    /\ Record(address[s], "started")
    /\ session' = [session EXCEPT ![s] = "live"]
    /\ UNCHANGED <<hosting, listening, polling, now, address>>

\* An inbound session succeeds at the hello, an outbound one at its report.
Succeed(s) ==
    /\ session[s] = "live"
    /\ Record(address[s], "succeeded")
    /\ session' = [session EXCEPT ![s] = "greeted"]
    /\ UNCHANGED <<hosting, listening, polling, now, address>>

\* A live session ends by failing; a greeted one may fail or end well, which only
\* the tallies tell.
EndSession(s) ==
    /\ session[s] \in {"live", "greeted"}
    /\ Record(address[s], "ended")
    /\ session' = [session EXCEPT ![s] = "ended"]
    /\ UNCHANGED <<hosting, listening, polling, now, address>>

\* respond_to_peer fails to read the peer's address: nothing is recorded.
LosePeerAddress(w) ==
    /\ session[w] = "begun"
    /\ session' = [session EXCEPT ![w] = "ended"]
    /\ UNCHANGED <<hosting, listening, polling, recording, address>>

\* Mutant of DropGuard: the slot is given back by the code after a session that ended well.
DropGuardRecordedOnly(w) ==
    /\ session[w] = "ended"
    /\ session' = [session EXCEPT ![w] = "none"]
    /\ address' = [address EXCEPT ![w] = NoPeer]
    /\ reserved' = IF address[w] \in DOMAIN observations THEN reserved - 1 ELSE reserved
    /\ UNCHANGED <<hosting, listener, handles, polling, recording>>

\* ActiveConnectionGuard::drop as the worker's closure returns.
DropGuard(w) ==
    /\ session[w] = "ended"
    /\ session' = [session EXCEPT ![w] = "none"]
    /\ address' = [address EXCEPT ![w] = NoPeer]
    /\ reserved' = reserved - 1
    /\ UNCHANGED <<hosting, listener, handles, polling, recording>>

(***************************************************************************)
(* The listener thread.                                                    *)
(***************************************************************************)
\* Mutant of Reaped: every handle is dropped, finished or not.
ReapedAll(w) == w \in Workers

\* JoinHandle::is_finished, as reap_workers tests it.
Reaped(w) == session[w] = "none"

\* reserve_connection: its compare-exchange loop is one atomic step.
Reserve == reserved < MaxPeers

\* thread::spawn: which of the free identities a thread gets is immaterial.
Fresh == LET free == {w \in Workers : session[w] = "none"}
         IN {w \in free : \A v \in free : w <= v}

\* listener_loop, one accepted connection: reap, reserve, spawn or shut down.
Accept ==
    /\ listener = "running" /\ ~stopFlag
    /\ LET kept == {w \in handles : ~Reaped(w)}
       IN IF Reserve
          THEN \E w \in Fresh, a \in InboundKeys :
                 /\ handles' = kept \cup {w}
                 /\ reserved' = reserved + 1
                 /\ session' = [session EXCEPT ![w] = "begun"]
                 /\ address' = [address EXCEPT ![w] = a]
          ELSE handles' = kept /\ UNCHANGED <<reserved, sessions>>
    /\ UNCHANGED <<hosting, listener, polling, recording>>

\* accept fails with anything but WouldBlock: the loop returns and its worker
\* handles are dropped, so the workers are detached.
ListenerFails ==
    /\ listener = "running" /\ ~stopFlag
    /\ listener' = "failed" /\ handles' = {}
    /\ UNCHANGED <<hosting, reserved, polling, recording, sessions>>

\* The loop sees the stop flag and joins the workers it still has handles of.
ListenerStops ==
    /\ listener = "running" /\ stopFlag
    /\ \A w \in handles : session[w] = "none"
    /\ listener' = "done" /\ handles' = {}
    /\ UNCHANGED <<hosting, reserved, polling, recording, sessions>>

(***************************************************************************)
(* The poller thread: static_peer_poll_loop.                               *)
(***************************************************************************)
\* The top of a round, and of each peer: return if stopped.
PollTurn ==
    /\ poll = "turn"
    /\ IF pollStop THEN poll' = "done" /\ turn' = 1 /\ UNCHANGED sessions
       ELSE IF turn > Len(peers)
       THEN poll' = "wait" /\ turn' = 1 /\ UNCHANGED sessions
       ELSE /\ poll' = "sync" /\ turn' = turn
            /\ session' = [session EXCEPT ![Poller] = "begun"]
            /\ address' = [address EXCEPT ![Poller] = peers[turn]]
    /\ UNCHANGED <<hosting, listening, recording>>

\* The sync session is followed by a relay session with the same peer.
PollRelay ==
    /\ poll = "sync" /\ session[Poller] = "ended"
    /\ poll' = "relay"
    /\ session' = [session EXCEPT ![Poller] = "begun"]
    /\ UNCHANGED <<hosting, listening, recording, turn, address>>

PollNext ==
    /\ poll = "relay" /\ session[Poller] = "ended"
    /\ poll' = "turn" /\ turn' = turn + 1
    /\ session' = [session EXCEPT ![Poller] = "none"]
    /\ address' = [address EXCEPT ![Poller] = NoPeer]
    /\ UNCHANGED <<hosting, listening, recording>>

\* wait_timeout_while: the interval passes or the flag is set and notified.
PollWake ==
    /\ poll = "wait"
    /\ poll' = "turn"
    /\ UNCHANGED <<hosting, listening, recording, turn, sessions>>

(***************************************************************************)
(* The hosting runtime.                                                    *)
(***************************************************************************)
HostInit ==
    /\ host = "config" /\ peers = <<>>
    /\ listener = "off" /\ stopFlag = FALSE /\ handles = {} /\ reserved = 0
    /\ session = [s \in Sessions |-> "none"]
    /\ address = [s \in Sessions |-> NoPeer]
    /\ poll = "off" /\ turn = 1 /\ pollStop = FALSE
    /\ observations = <<>> /\ now = 0

\* NodeRuntimeConfig::parse and Node::open: either may refuse to start.
Configure ==
    /\ host = "config"
    /\ \/ /\ \E list \in PeerLists, public \in BOOLEAN :
                ValidConfig(list, public) /\ peers' = list
          /\ host' = "bind"
       \/ host' = "failed" /\ UNCHANGED peers
    /\ UNCHANGED <<stopFlag, pollStop, listening, polling, recording, sessions>>

\* TcpListener::bind and spawn_inbound_listener.
SpawnListener ==
    /\ host = "bind"
    /\ \/ host' = "failed" /\ UNCHANGED listener
       \/ host' = "spawn_poller" /\ listener' = "running"
    /\ UNCHANGED <<peers, stopFlag, pollStop, handles, reserved, polling, recording, sessions>>

\* No peers: no poller.  A poller that cannot be spawned stops the listener.
SpawnPoller ==
    /\ host = "spawn_poller"
    /\ \/ peers = <<>> /\ host' = "up" /\ UNCHANGED <<poll, stopFlag>>
       \/ peers # <<>> /\ host' = "up" /\ poll' = "turn" /\ UNCHANGED stopFlag
       \/ peers # <<>> /\ host' = "abort" /\ stopFlag' = TRUE /\ UNCHANGED poll
    /\ UNCHANGED <<peers, pollStop, listening, turn, recording, sessions>>

\* Mutant of StopServices: the poller is joined before it is signalled.
StopServicesUnsignalled ==
    /\ host = "up"
    /\ host' = "join_poller"
    /\ UNCHANGED <<peers, stopFlag, pollStop, listening, polling, recording, sessions>>

\* stop_services: the mining manager (module WalletMiner), then the poller ...
StopServices ==
    /\ host = "up"
    /\ host' = "join_poller"
    /\ pollStop' = (poll # "off")
    /\ UNCHANGED <<peers, stopFlag, listening, polling, recording, sessions>>

\* ... is joined, and only then is the listener told to stop ...
JoinPoller ==
    /\ host = "join_poller" /\ poll \in {"off", "done"}
    /\ host' = "join_listener" /\ stopFlag' = TRUE
    /\ UNCHANGED <<peers, pollStop, listening, polling, recording, sessions>>

\* ... and joined: its result is an error if accept had failed.
JoinListener ==
    /\ host \in {"join_listener", "abort"} /\ listener \in {"done", "failed"}
    /\ host' = IF host = "abort" THEN "failed"
               ELSE IF listener = "done" THEN "stopped" ELSE "stopped_error"
    /\ UNCHANGED <<peers, stopFlag, pollStop, listening, polling, recording, sessions>>

Session(s) == StartSession(s) \/ Succeed(s) \/ EndSession(s)
Listen == ListenerFails \/ ListenerStops \/ Accept
Polls == PollTurn \/ PollRelay \/ PollNext \/ PollWake
Runtime == Configure \/ SpawnListener \/ SpawnPoller \/ StopServices \/ JoinPoller \/ JoinListener

HostNext ==
    \/ Tick \/ Listen \/ Polls \/ Runtime
    \/ \E s \in Sessions : Session(s)
    \/ \E w \in Workers : DropGuard(w) \/ LosePeerAddress(w)

(***************************************************************************)
(* The threads run; a session ends because every read and write of it has  *)
(* a deadline (PeerSession!SessionEnds).  Nothing obliges anyone to stop   *)
(* the services, nor a connection to arrive.                               *)
(***************************************************************************)
HostFairness ==
    /\ WF_hostVars(ListenerStops) /\ WF_hostVars(PollTurn) /\ WF_hostVars(PollRelay)
    /\ WF_hostVars(PollNext) /\ WF_hostVars(PollWake) /\ WF_hostVars(JoinPoller) /\ WF_hostVars(JoinListener)
    /\ \A s \in Sessions : WF_hostVars(StartSession(s)) /\ WF_hostVars(EndSession(s))
    /\ \A w \in Workers : WF_hostVars(DropGuard(w))

HostSpec == HostInit /\ [][HostNext]_hostVars /\ HostFairness

-----------------------------------------------------------------------------
LiveSessions(k) == {s \in Sessions : session[s] \in {"live", "greeted"} /\ address[s] = k}

\* Every piece of state has its shape, and never are more inbound connections
\* being served than max_peers (reserve_connection).
HostTypeOK ==
    /\ reserved \in 0..MaxPeers
    /\ handles \subseteq Workers
    /\ DOMAIN observations \subseteq InboundKeys \cup Range(peers)
    /\ Cardinality(DOMAIN observations) <= MaxObserved
    /\ turn \in 1..(Len(peers) + 1)

\* The atomic count is the number of workers that hold a guard: a slot is
\* neither leaked nor given back twice, whatever way a session ends.
SlotsExact == reserved = Cardinality({w \in Workers : session[w] # "none"})

\* A status report shows a peer as connected exactly while sessions with it are
\* alive, and how many, although the table is bounded and evicts: with at least
\* one entry more than max_peers a live session is never evicted or missed.
ObservationsExact ==
    /\ \A k \in DOMAIN observations : observations[k].active = Cardinality(LiveSessions(k))
    /\ \A s \in Sessions : session[s] \in {"live", "greeted"} => address[s] \in DOMAIN observations

\* When stopping the services returned without an error, no thread of theirs is
\* left that could still touch the node.
StoppedMeansQuiet ==
    host = "stopped" =>
        /\ listener = "done" /\ poll \in {"off", "done"}
        /\ \A s \in Sessions : session[s] = "none"

\* The counts, the report and the stop of the peer services agree with the threads
\* there are.
ConnectionsAccounted == HostTypeOK /\ SlotsExact /\ ObservationsExact /\ StoppedMeansQuiet
=============================================================================
