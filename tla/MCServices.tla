----------------------------- MODULE MCServices -----------------------------
(***************************************************************************)
(* The services of a process that hosts a node, model-checked in one run:  *)
(* the wallet's mining manager, the peer services and the RPC service.     *)
(* They share no state, so one of them runs in a behaviour while the       *)
(* others stay in an initial state in which no fair step is enabled.       *)
(***************************************************************************)
EXTENDS WalletMiner, Host, Rpc

VARIABLE part  \* the component that runs

\* No peer, two, one that is the listener, one twice, one that is no address.
ConfiguredPeers == {<<>>, <<4, 5>>, <<9>>, <<4, 4>>, <<8>>}

Get(endpoint, header) ==
    [method |-> "GET", endpoint |-> endpoint, parses |-> TRUE, header |-> header,
     lengths |-> <<>>, typed |-> FALSE, payload |-> TRUE, body |-> 0]

Post(endpoint, header, lengths, typed, body) ==
    [method |-> "POST", endpoint |-> endpoint, parses |-> TRUE, header |-> header,
     lengths |-> lengths, typed |-> typed, payload |-> TRUE, body |-> body]

\* A header over the limit, bytes after the body, a wrong type, two lengths, a bad method.
RpcRequests ==
    {Get("health", 2), Get("template", 3), Get("read", 5),
     Post("send", 2, <<1>>, TRUE, 1), Post("transaction", 3, <<2>>, TRUE, 3),
     Post("transaction", 3, <<2>>, FALSE, 2), Post("block", 4, <<3>>, TRUE, 3),
     Post("block", 2, <<1, 3>>, TRUE, 3), Post("mine", 3, <<0>>, FALSE, 0),
     [Get("unknown", 2) EXCEPT !.method = "PUT", !.body = 1]}

ASSUME CallersAssumption /\ HostAssumption /\ RpcAssumption

ServicesInit == part \in {"wallet", "host", "rpc"} /\ Init /\ HostInit /\ RpcInit

ServicesNext ==
    \/ part = "wallet" /\ Next /\ UNCHANGED <<part, hostVars, rpcVars>>
    \/ part = "host" /\ HostNext /\ UNCHANGED <<part, vars, rpcVars>>
    \/ part = "rpc" /\ RpcNext /\ UNCHANGED <<part, vars, hostVars>>

ServicesSpec ==
    /\ ServicesInit /\ [][ServicesNext]_<<part, vars, hostVars, rpcVars>>
    /\ Fairness /\ HostFairness /\ RpcFairness
-----------------------------------------------------------------------------
\* What is asked of a service happens.  A stop command of the wallet's mining manager
\* and a stop of the peer services return, whatever the threads they join are doing;
\* an RPC connection is answered or dropped, whatever the clients before it do.
RequestsAnswered ==
    (\/ part = "wallet" /\ holder # None
     \/ part = "host" /\ host = "join_poller"
     \/ part = "rpc" /\ link[2] = "queued")
    ~>
    (\/ part = "wallet" /\ holder = None
     \/ part = "host" /\ host \in {"stopped", "stopped_error"}
     \/ part = "rpc" /\ link[2] = "closed")
=============================================================================
