------------------------------ MODULE MCPeers ------------------------------
(***************************************************************************)
(* What nodes do with one another, model-checked in one run: two nodes     *)
(* that poll each other (PeerSync), the requests a responder answers about *)
(* its mempool and its mining templates (PeerRequests), and a full-node    *)
(* miner between its peers (FullMiner).  The three share no state, so one  *)
(* of them runs in a behaviour and the others stay as they began; fairness *)
(* is asked of the one that runs.  The requests run twice, to keep their   *)
(* states few: "pulls" with every transaction and a thin miner that asks    *)
(* nothing, "mining" with a thin miner and one transaction not yet         *)
(* confirmed.                                                              *)
(***************************************************************************)
EXTENDS MCPeerSync, PeerRequests, FullMiner

VARIABLE part    \* the component that runs

Requests == part \in {"pulls", "mining"}

LastTx == Max(Txs)
MCPeerList == <<1, 2>>
MCStart == {<<1>>, <<1, 2, 3>>}

\* A full-node miner that has ended.
Ended ==
    /\ active = <<>> /\ index = {} /\ remote = [p \in Configured |-> <<>>]
    /\ up = [p \in Configured |-> TRUE] /\ flips = MaxFlips /\ last_mined = MaxBlocks
    /\ pc = "exited" /\ todo = <<>> /\ selected = NoPeer /\ promised = 0 /\ parent = 0
    /\ found = {} /\ tips = {} /\ inbound = "joined" /\ poller = FALSE /\ shutdown = FALSE

PeersInit ==
    /\ SyncInit /\ RequestsInit
    /\ \/ part = "sync" /\ refusals = {} /\ confirmed = {} /\ Ended
       \/ part = "pulls" /\ confirmed = {} /\ Ended
       \/ part = "mining" /\ confirmed = Txs \ {LastTx} /\ Ended
       \/ part = "miner" /\ refusals = {} /\ confirmed = {} /\ FullMinerInit

PeersNext ==
    \/ part = "sync" /\ SyncNext /\ UNCHANGED <<part, requestsVars, fullMinerVars>>
    \/ /\ part = "pulls" /\ RequestsNext /\ sess'.kind # "template"
       /\ UNCHANGED <<part, syncVars, fullMinerVars>>
    \/ part = "mining" /\ RequestsNext /\ UNCHANGED <<part, syncVars, fullMinerVars>>
    \/ part = "miner" /\ FullMinerNext /\ UNCHANGED <<part, syncVars, requestsVars>>

\* The fairness of FairSpec, of PeerRequests and of FullMiner, for the one that runs.
PeersFairness ==
    /\ \A n \in Nodes : WF_syncVars(part = "sync" /\ Poll(n))
    /\ SF_requestsVars(Requests /\ PullBlocks)
    /\ WF_requestsVars(Requests /\ (GetMempool \/ GetTransaction \/ PullDone))
    /\ WF_requestsVars(Requests /\ (GetMiningTemplate \/ SubmitAnswer))
    /\ WF_fullMinerVars(part = "miner" /\ Main)

PeersSpec ==
    PeersInit /\ [][PeersNext]_<<part, syncVars, requestsVars, fullMinerVars>> /\ PeersFairness
-----------------------------------------------------------------------------
\* What must come about for good once nothing stands in its way any more.
Due ==
    \/ part = "sync"
    \/ Requests /\ OnOffer(LastTx)
    \/ part = "miner" /\ (shutdown \/ Settled)

Done ==
    \/ part = "sync" /\ \A n, m \in Nodes : TotalWork[tip(n)] = TotalWork[tip(m)]
    \/ Requests /\ LastTx \in cpool
    \/ part = "miner" /\ MinesOrEnded

\* Nodes that keep polling end up on chains of equal work (Converges); a transaction
\* that the peer keeps offering reaches the client's mempool, even the last one in
\* txid order, whatever is confirmed, submitted, dropped or restarted in between; a
\* full-node miner whose peers have settled with one of them reachable gets to mine
\* though the selected one may be gone, and after Ctrl+C it ends unless it is inside
\* mine_work, which need not return.
EventuallyDone == <>[]Due => <>[]Done
=============================================================================
