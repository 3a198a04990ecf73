----------------------------- MODULE MCProtocols ----------------------------
(***************************************************************************)
(* The two protocols between parties that do not trust each other,         *)
(* model-checked in one run: the inference payment channel and the peer    *)
(* connection.  They share no state: one of them runs in a behaviour while *)
(* the other one stays in an initial state.                                *)
(***************************************************************************)
EXTENDS PaymentChannel, PeerSession, PeerWire

VARIABLE part   \* the protocol that runs

(* Network 0, fingerprint 1; endpoint "b" may be of another network, run   *)
(* another fingerprint or be the same process as "a".                      *)
Hellos == [a |-> {<<0, 1, 1, 0>>},
           b |-> {<<0, 1, 2, 0>>, <<2, 1, 2, 0>>, <<0, 2, 2, 0>>, <<0, 1, 1, 0>>}]

KeyInput == <<7, <<0, <<3, <<4>>>>>>>>
RefundInput == <<8, <<2, <<0, 5>>>>>>
KeyOutput == <<2, <<0, 3>>, 0>>
SampleTx == <<0, 1, <<KeyInput>>, <<KeyOutput>>>>
SampleRefund == <<0, 1, <<RefundInput>>, <<>>>>
SampleBlock == <<1, <<0, 9>>, <<<<2, <<0, 3, 4>>>>>>, <<1, <<KeyOutput>>>>, <<SampleRefund>>>>
SampleTemplate == <<<<0, MerkleRoot(1, <<KeyOutput>>, <<>>), 1, 9>>, 1, <<KeyOutput>>, <<>>>>

(* What the client asks and the responder answers after the handshake. *)
Messages ==
    [a |-> {Message(Kinds.GetHeaders, <<<<5>>, 6>>), Message(Kinds.SubmitBlock, SampleBlock)},
     b |-> {Message(Kinds.Transaction, SampleTx), Message(Kinds.MiningTemplate, SampleTemplate)}]

ProtocolsInit ==
    /\ Init /\ SessionInit
    /\ \/ part = "session" /\ customer = "library"
       \/ part = "channel" /\ session["b"].local = <<0, 1, 2, 0>>

ProtocolsNext ==
    \/ part = "session" /\ SessionNext /\ UNCHANGED <<part, vars>>
    \/ part = "channel" /\ Next /\ UNCHANGED <<part, svars>>

Running(A) == part = "session" /\ A

ProtocolsSpec ==
    /\ ProtocolsInit /\ [][ProtocolsNext]_<<part, vars, svars>>
    /\ WF_svars(Running(Tick))
    /\ \A e \in Endpoints : WF_svars(Running(AppStep(e))) /\ WF_svars(Running(Timeout(e)))
-----------------------------------------------------------------------------
\* Every variable of both protocols keeps its type.
ProtocolsTypeOK == TypeOK /\ SessionTypeOK

\* Every peer connection ends, whatever the other end and the network do.
EveryConnectionEnds == part = "session" => SessionEnds
=============================================================================
