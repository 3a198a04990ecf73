------------------------------- MODULE PeerSync -------------------------------
(***************************************************************************)
(* Static peers exchanging blocks (crates/cmfd-node/src/p2p.rs).  Each node *)
(* has one polling thread, which for its next peer first pulls             *)
(* (sync_from_peer_once) and then relays (relay_blocks_to_peer_once); the  *)
(* peer answers from its listener threads.  A node is locked for one       *)
(* request at a time, so mining, inbound submissions and reorganizations   *)
(* happen between any two steps of a session, and a connection may drop.   *)
(*                                                                         *)
(* A node is its indexed blocks and its active chain; blocks here are      *)
(* valid (module Node has the rest of submit_block).  Mempool exchange, framing  *)
(* and session budgets are not part of this module.                        *)
(***************************************************************************)
EXTENDS BlockTree, FiniteSetsExt

CONSTANTS
    Nodes,
    Peers,            \* static peers each node polls
    StartTip,         \* tip of the branch each node mined in isolation
    MaxBlocksPerSync, \* MAX_BLOCKS_PER_SYNC, bound of locator and inventory
    LocatorDense,     \* locator entries before the step starts doubling (10)
    MaxDrops,         \* bound: dropped connections explored
    NoPrevious        \* the None of previous_block

ASSUME SyncAssumption ==
    /\ Peers \in [Nodes -> SUBSET Nodes] /\ \A n \in Nodes : n \notin Peers[n]
    /\ StartTip \in [Nodes -> Tree]
    /\ MaxBlocksPerSync \in Nat \ {0} /\ LocatorDense \in Nat \ {0}
    /\ MaxDrops \in Nat /\ NoPrevious \notin Tree

VARIABLES
    known,   \* indexed blocks of each node
    chain,   \* active_chain of each node
    session, \* what each node's polling thread is doing
    turn,    \* peers left to poll in the thread's current round
    drops

syncVars == <<known, chain, session, turn, drops>>

tip(n) == Tip(chain[n])
KnownTo(n) == known[n] \cup {Genesis}
Idle == [phase |-> "idle"]

SyncInit ==
    /\ known = [n \in Nodes |-> BlocksOf(PathTo[StartTip[n]])]
    /\ chain = [n \in Nodes |-> ChainTo(StartTip[n])]
    /\ session = [n \in Nodes |-> Idle]
    /\ turn = Peers
    /\ drops = 0

-----------------------------------------------------------------------------
(* Distance from the tip of the k-th locator entry: single steps up to and *)
(* including entry LocatorDense + 1, doubling steps after it.              *)
LocatorOffset(k) ==
    IF k <= LocatorDense + 1 THEN k - 1
    ELSE LocatorDense + 2 ^ (k - LocatorDense) - 2

(* Node::block_locator: newest first, the last entry is genesis.           *)
InLocator(c, max, k) == k < max /\ LocatorOffset(k) \in 0..(Len(c) - 2)

BlockLocator(c, max) ==
    LET n == Cardinality({k \in 1..max : InLocator(c, max, k)})
    IN [k \in 1..(n + 1) |->
           IF InLocator(c, max, k) THEN c[Len(c) - LocatorOffset(k)] ELSE Genesis]

Shorter(a, b) == IF a < b THEN a ELSE b

(* Node::inventory_after: the locator lists blocks of one chain newest     *)
(* first, so its first entry on the active chain c is the highest one.  Up *)
(* to max identifiers follow it, ending early at `stop`.                   *)
InventoryAfter(c, locator, stop, max) ==
    LET from == Max({i \in 1..Len(c) : c[i] \in BlocksOf(locator)})
        upto == Shorter(Len(c), from + max)
    IN SubSeq(c, from + 1, Min({i \in (from + 1)..upto : c[i] = stop} \cup {upto}))

(* Node::relay_inventory_after an indexed peer_tip: walk back from it to   *)
(* the active chain c and offer what follows.                              *)
RelayInventoryAfter(c, peer_tip, max) ==
    LET from == Max({i \in 1..Len(c) : c[i] \in BlocksOf(ChainTo(peer_tip))})
    IN SubSeq(c, from + 1, Shorter(Len(c), from + max))

(* Mutant: only extensions of the tip change it.                           *)
SubmittedNoReorg(n, b) ==
    /\ known' = [known EXCEPT ![n] = @ \cup {b}]
    /\ chain' = IF Parent[b] = tip(n) THEN [chain EXCEPT ![n] = ChainTo(b)] ELSE chain

(* Node::submit_block of a valid block with a known parent.                *)
Submitted(n, b) ==
    /\ known' = [known EXCEPT ![n] = @ \cup {b}]
    /\ chain' = IF TotalWork[b] > TotalWork[tip(n)]
                THEN [chain EXCEPT ![n] = ChainTo(b)] ELSE chain

Enter(n, s) == session' = [session EXCEPT ![n] = s]

-----------------------------------------------------------------------------
(* A miner attached to node n finds a block on its tip.                    *)
MineOnTip(n, b) ==
    /\ b \notin known[n] /\ Parent[b] = tip(n)
    /\ Submitted(n, b)
    /\ UNCHANGED <<session, turn, drops>>

(* static_peer_poll_loop: after the last peer the next round begins.       *)
NextPeer(n, p) ==
    turn' = [turn EXCEPT ![n] = IF @ = {p} THEN Peers[n] ELSE @ \ {p}]

(* The hello and the locator are one snapshot; the peer's hello comes back. *)
PullStart(n, p) ==
    /\ session[n].phase = "idle" /\ p \in turn[n]
    /\ Enter(n, [phase |-> "headers", peer |-> p, stop |-> tip(p),
                 locator |-> BlockLocator(chain[n], MaxBlocksPerSync)])
    /\ UNCHANGED <<known, chain, turn, drops>>

(* GetHeaders is answered from the peer's chain at that moment.            *)
PullInventory(n) ==
    LET s == session[n] IN
    /\ s.phase = "headers"
    /\ Enter(n, [phase |-> "pull", peer |-> s.peer, previous |-> NoPrevious,
                 inventory |-> InventoryAfter(chain[s.peer], s.locator,
                                              s.stop, MaxBlocksPerSync)])
    /\ UNCHANGED <<known, chain, turn, drops>>

(* Mutant: a skipped block is not remembered as the previous one.          *)
PullCheckForgets(n) ==
    LET s == session[n] IN
    /\ s.phase = "pull" /\ s.inventory # <<>>
    /\ IF Head(s.inventory) \in KnownTo(n)
       THEN Enter(n, [s EXCEPT !.inventory = Tail(s.inventory)])
       ELSE Enter(n, [s EXCEPT !.phase = "fetched"])
    /\ UNCHANGED <<known, chain, turn, drops>>

(* contains_block under one lock: a known block is skipped, an unknown one *)
(* is fetched with the lock released.                                      *)
PullCheck(n) ==
    LET s == session[n] IN
    /\ s.phase = "pull" /\ s.inventory # <<>>
    /\ IF Head(s.inventory) \in KnownTo(n)
       THEN Enter(n, [s EXCEPT !.previous = Head(s.inventory),
                               !.inventory = Tail(s.inventory)])
       ELSE Enter(n, [s EXCEPT !.phase = "fetched"])
    /\ UNCHANGED <<known, chain, turn, drops>>

(* The parent must be the previous inventory item, or known for the first. *)
ParentIsOrdered(n) ==
    LET s == session[n] IN
    IF s.previous = NoPrevious THEN Parent[Head(s.inventory)] \in KnownTo(n)
                         ELSE Parent[Head(s.inventory)] = s.previous

(* The body arrives and is submitted under a second lock.  If the block    *)
(* became known meanwhile, DuplicateBlock ends the pull like any error.    *)
PullSubmit(n) ==
    LET s == session[n]
        b == Head(s.inventory) IN
    /\ s.phase = "fetched"
    /\ IF ParentIsOrdered(n) /\ b \notin KnownTo(n)
       THEN /\ Submitted(n, b)
            /\ Enter(n, [s EXCEPT !.phase = "pull", !.previous = b,
                                  !.inventory = Tail(s.inventory)])
       ELSE /\ Enter(n, [phase |-> "pulled", peer |-> s.peer])
            /\ UNCHANGED <<known, chain>>
    /\ UNCHANGED <<turn, drops>>

PullEnd(n) ==
    LET s == session[n] IN
    /\ s.phase = "pull" /\ s.inventory = <<>>
    /\ Enter(n, [phase |-> "pulled", peer |-> s.peer])
    /\ UNCHANGED <<known, chain, turn, drops>>

(* A second connection: the peer's hello names its tip.                    *)
RelayStart(n) ==
    LET s == session[n] IN
    /\ s.phase = "pulled"
    /\ Enter(n, [phase |-> "offer", peer |-> s.peer, peer_tip |-> tip(s.peer)])
    /\ UNCHANGED <<known, chain, turn, drops>>

RelayInventory(n) ==
    LET s == session[n] IN
    /\ s.phase = "offer"
    /\ Enter(n, [phase |-> "relay", peer |-> s.peer,
                 inventory |-> IF s.peer_tip \in KnownTo(n)
                               THEN RelayInventoryAfter(chain[n], s.peer_tip,
                                                        MaxBlocksPerSync)
                               ELSE <<>>])
    /\ UNCHANGED <<known, chain, turn, drops>>

(* SubmitBlock at the peer: AlreadyKnown, Accepted, or Rejected, which     *)
(* ends the relay.                                                         *)
RelayBlock(n) ==
    LET s == session[n]
        b == Head(s.inventory)
        rest == [s EXCEPT !.inventory = Tail(s.inventory)] IN
    /\ s.phase = "relay" /\ s.inventory # <<>>
    /\ IF b \in KnownTo(s.peer)
       THEN Enter(n, rest) /\ UNCHANGED <<known, chain>>
       ELSE IF Parent[b] \in KnownTo(s.peer)
            THEN Enter(n, rest) /\ Submitted(s.peer, b)
            ELSE Enter(n, [s EXCEPT !.inventory = <<>>]) /\ UNCHANGED <<known, chain>>
    /\ UNCHANGED <<turn, drops>>

RelayEnd(n) ==
    LET s == session[n] IN
    /\ s.phase = "relay" /\ s.inventory = <<>>
    /\ Enter(n, Idle)
    /\ NextPeer(n, s.peer)
    /\ UNCHANGED <<known, chain, drops>>

(* A timeout or a disconnect ends the pull or the relay in progress.       *)
Drop(n) ==
    LET s == session[n] IN
    /\ s.phase # "idle" /\ drops < MaxDrops
    /\ drops' = drops + 1
    /\ IF s.phase \in {"headers", "pull", "fetched"}
       THEN /\ Enter(n, [phase |-> "pulled", peer |-> s.peer])
            /\ UNCHANGED turn
       ELSE /\ Enter(n, Idle)
            /\ NextPeer(n, s.peer)
    /\ UNCHANGED <<known, chain>>

-----------------------------------------------------------------------------
Poll(n) ==
    \/ \E p \in Peers[n] : PullStart(n, p)
    \/ PullInventory(n)
    \/ PullCheck(n)
    \/ PullSubmit(n)
    \/ PullEnd(n)
    \/ RelayStart(n)
    \/ RelayInventory(n)
    \/ RelayBlock(n)
    \/ RelayEnd(n)

SyncNext ==
    \E n \in Nodes :
        \/ \E b \in Blocks : MineOnTip(n, b)
        \/ Poll(n)
        \/ Drop(n)

SyncSpec == SyncInit /\ [][SyncNext]_syncVars

(* The polling thread of each node runs for ever; mining and drops may not *)
(* happen at all.                                                          *)
FairSpec == SyncSpec /\ \A n \in Nodes : WF_syncVars(Poll(n))

-----------------------------------------------------------------------------
(* The types, with the bound on a locator and on an inventory.             *)
SyncTypeOK ==
    /\ known \in [Nodes -> SUBSET Blocks]
    /\ \A n \in Nodes : chain[n] = ChainTo(tip(n))
    /\ turn \in [Nodes -> SUBSET Nodes]
    /\ drops \in 0..MaxDrops
    /\ \A n \in Nodes :
          /\ session[n].phase = "headers" => Len(session[n].locator) <= MaxBlocksPerSync
          /\ session[n].phase \in {"pull", "fetched", "relay"} =>
                Len(session[n].inventory) <= MaxBlocksPerSync

(* Between correct nodes no fetched block is out of order and no relayed   *)
(* block is rejected, though both chains may reorganize during a session:  *)
(* the sessions' snapshots stay usable.                                    *)
HonestSessionsSucceed ==
    \A n \in Nodes :
        /\ session[n].phase = "fetched" => ParentIsOrdered(n)
        /\ session[n].phase = "relay" /\ session[n].inventory # <<>> =>
              LET b == Head(session[n].inventory) IN
              b \in KnownTo(session[n].peer) \/ Parent[b] \in KnownTo(session[n].peer)

(* Whatever arrives in whatever order, an indexed block's ancestors are    *)
(* indexed, and the tip is one of the heaviest indexed blocks.             *)
IndexConsistent ==
    \A n \in Nodes :
        /\ tip(n) \in KnownTo(n)
        /\ \A b \in known[n] : /\ Parent[b] \in KnownTo(n)
                               /\ TotalWork[b] <= TotalWork[tip(n)]

(* Between correct nodes no session step is refused for its order or a     *)
(* missing parent, whatever reorganizes meanwhile (a block that became     *)
(* known during its transfer still ends the pull, as a duplicate); indexes *)
(* stay closed under parents with the tip a heaviest block, and locators   *)
(* and inventories keep to their limits.                                   *)
SyncSound == SyncTypeOK /\ HonestSessionsSucceed /\ IndexConsistent

(* Nodes that keep polling end up, once mining stops, on chains of equal   *)
(* work: the lighter one always switches.                                  *)
Converges ==
    <>[](\A n, m \in Nodes : TotalWork[tip(n)] = TotalWork[tip(m)])
=============================================================================
