---------------------------- MODULE PeerSession -----------------------------
(***************************************************************************)
(* One peer connection: the session of each endpoint (handshake, sequence  *)
(* numbers, message and byte budgets) over a byte stream in each           *)
(* direction, with the idle and total deadlines of PeerConnection.         *)
(*                                                                         *)
(* The applications are the client functions and the responder loop of     *)
(* p2p.rs, asking and answering with sample messages, and either may drop  *)
(* the connection between two messages.  A write reaches the other side in *)
(* pieces and may stop after any of them.  A peer that does not follow the *)
(* protocol is a bounded number of changes to what an endpoint is writing. *)
(***************************************************************************)
EXTENDS PeerFrame, SequencesExt

CONSTANTS Endpoints,      \* the two ends of the connection
          Client,         \* the end that connected and asks; the other one responds
          LocalHellos,    \* endpoint -> the hellos it may present
          Samples,        \* endpoint -> messages its application sends after the handshake
          MaxMessages,    \* PeerLimits::max_messages_per_peer
          MaxBytes,       \* PeerLimits::max_bytes_per_peer, in cells
          IdleTimeout,    \* PeerLimits::idle_timeout
          TotalTimeout,   \* PeerLimits::total_timeout
          LastSequence,    \* largest u64
          MaxTime,        \* bound on the clock
          MaxFaults       \* bound on protocol violations by a peer

VARIABLES session,    \* endpoint -> its PeerSession
          activity,   \* endpoint -> "app", "writing", "reading" or "closed"
          outbox,     \* endpoint -> bytes of the frame it is writing, not yet on the stream
          stream,     \* endpoint -> bytes that have arrived for it and are not read
          header,     \* endpoint -> the header it has read of the frame being received
          since,      \* endpoint -> when its read or write last made progress
          now,        \* the clock; both connections are made at time 0
          sent,       \* endpoint -> messages it has handed to the writer
          surfaced,   \* endpoint -> messages receive has returned to it
          ended,      \* endpoint -> how its connection ended, "" while open
          cut,        \* endpoint -> it closed with a frame partly written
          faults      \* endpoint -> changes made to what it wrote: "cell", "frame"

svars == <<session, activity, outbox, stream, header, since, now, sent, surfaced, ended,
          cut, faults>>

Other(e) == CHOOSE p \in Endpoints : p # e

Hello(h) == Message(Kinds.Hello, h)

(* The hellos of this connection, and the messages that may be sent on it. *)
AllHellos == UNION {LocalHellos[e] : e \in Endpoints}
Sendable == {Hello(h) : h \in AllHellos} \union UNION {Samples[e] : e \in Endpoints}

(* A connection has two ends, and its limits are natural numbers.          *)
ASSUME SessionAssumption ==
    /\ \E a, b \in Endpoints : a # b /\ Endpoints = {a, b}
    /\ MaxMessages \in Nat /\ MaxBytes \in Nat /\ LastSequence \in Nat
    /\ IdleTimeout \in Nat /\ TotalTimeout \in Nat /\ MaxTime \in Nat

(* What decode_message accepts of the payload that encode_message wrote is *)
(* the message written, a hello only on its own network; and no message's  *)
(* payload is as long as a frame's header (20 bytes).                      *)
Faithful(m) ==
    LET r == EncodePayload(m)
    IN  /\ m = Message(m.kind, m.body)
        /\ m.kind \in KnownKinds
        /\ r.ok =>
            /\ r.val \in Seq(Nat)
            /\ Len(r.val) # PeerHeaderCells
            /\ \A h \in AllHellos :
                LET d == DecodePayload(m.kind, r.val, HelloNetwork(h))
                IN  d.ok => /\ d.val = m
                            /\ m.kind = Kinds.Hello => HelloNetwork(m.body) = HelloNetwork(h)

ASSUME PayloadAssumption == \A m \in Sendable : Faithful(m)

NewSession(hello) == [local |-> hello, remote |-> <<>>, helloSent |-> FALSE,
                      outSeq |-> 0, inSeq |-> 0, messages |-> 0, bytes |-> 0]

SessionInit ==
    /\ \E h \in [Endpoints -> AllHellos] :
        /\ \A e \in Endpoints : h[e] \in LocalHellos[e] /\ ValidateHello(h[e])
        /\ session = [e \in Endpoints |-> NewSession(h[e])]
    /\ activity = [e \in Endpoints |-> "app"]
    /\ outbox = [e \in Endpoints |-> <<>>]
    /\ stream = [e \in Endpoints |-> <<>>]
    /\ header = [e \in Endpoints |-> <<>>]
    /\ since = [e \in Endpoints |-> 0]
    /\ now = 0
    /\ sent = [e \in Endpoints |-> <<>>]
    /\ surfaced = [e \in Endpoints |-> <<>>]
    /\ ended = [e \in Endpoints |-> ""]
    /\ cut = [e \in Endpoints |-> FALSE]
    /\ faults = [e \in Endpoints |-> {}]

(***************************************************************************)
(* PeerSession.                                                            *)
(***************************************************************************)

(* Mutant of EnsureBudget: the byte budget is not checked. *)
EnsureBudgetMessagesOnly(s, bytes) == s.messages + 1 <= MaxMessages

EnsureBudget(s, bytes) ==
    /\ s.messages + 1 <= MaxMessages
    /\ s.bytes + bytes <= MaxBytes

Charge(s, bytes) == [s EXCEPT !.messages = @ + 1, !.bytes = @ + bytes]

(* The session after the frame of m is charged and the frame, or an error. *)
EncodeOutbound(s, m) ==
    LET isHello == m.kind = Kinds.Hello
    IN  CASE isHello /\ s.helloSent -> Err("DuplicateHello")
          [] isHello /\ m.body # s.local -> Err("WrongNetwork")
          [] ~isHello /\ ~s.helloSent -> Err("LocalHelloRequired")
          [] ~isHello /\ s.remote = <<>> -> Err("HandshakeRequired")
          [] s.outSeq = LastSequence -> Err("SequenceExhausted")
          [] OTHER -> Then(EncodePeerFrame(s.outSeq, m), LAMBDA frame :
                IF ~EnsureBudget(s, Len(frame)) THEN Err("PeerBudgetExceeded")
                ELSE Ok([frame |-> frame,
                         session |-> [Charge(s, Len(frame)) EXCEPT
                                         !.outSeq = @ + 1,
                                         !.helloSent = @ \/ s.outSeq = 0]]))

(* Mutant of ExpectedSequence: the sequence number is not compared. *)
ExpectedSequenceAny(s, seq) == TRUE

ExpectedSequence(s, seq) == seq = s.inSeq

(* Mutant of SameRules: the consensus fingerprint is not compared. *)
SameRulesAny(s, hello) == TRUE

SameRules(s, hello) == HelloFingerprint(hello) = HelloFingerprint(s.local)

(* The session after frame b is accepted and its message, or an error. *)
AcceptInbound(s, b) ==
    LET Accepted(msg) ==
            Ok([msg |-> msg,
                session |-> [Charge(s, Len(b)) EXCEPT
                                !.inSeq = @ + 1,
                                !.remote = IF msg.kind = Kinds.Hello THEN <<msg.body>> ELSE @]])
        AcceptHello(msg) ==
            CASE s.remote # <<>> -> Err("DuplicateHello")
              [] ~SameRules(s, msg.body) -> Err("WrongConsensusFingerprint")
              [] HelloNonce(msg.body) = HelloNonce(s.local) -> Err("SelfConnect")
              [] OTHER -> Accepted(msg)
        AcceptOther(msg) ==
            CASE s.remote = <<>> -> Err("RemoteHelloRequired")
              [] ~s.helloSent -> Err("HandshakeRequired")
              [] OTHER -> Accepted(msg)
    IN  IF ~EnsureBudget(s, Len(b)) THEN Err("PeerBudgetExceeded")
        ELSE Then(DecodePeerFrame(b, HelloNetwork(s.local)), LAMBDA f :
            CASE ~ExpectedSequence(s, f.seq) -> Err("UnexpectedSequence")
              [] s.inSeq = LastSequence -> Err("SequenceExhausted")
              [] OTHER -> IF f.msg.kind = Kinds.Hello THEN AcceptHello(f.msg)
                          ELSE AcceptOther(f.msg))

(***************************************************************************)
(* PeerConnection.                                                         *)
(***************************************************************************)

(* Mutant of IoLimit: the total time is forgotten. *)
IoLimitIdleOnly(e) == since[e] + IdleTimeout

(* set_read_timeout / set_write_timeout: what is left of the total time,   *)
(* at most the idle time, counted from the last progress.                  *)
IoLimit(e) == IF since[e] + IdleTimeout < TotalTimeout THEN since[e] + IdleTimeout
              ELSE TotalTimeout

(* The connection is dropped; what was not yet on the stream never is. *)
EndConnection(e, how) ==
    /\ activity' = [activity EXCEPT ![e] = "closed"]
    /\ ended' = [ended EXCEPT ![e] = how]
    /\ header' = [header EXCEPT ![e] = <<>>]
    /\ since' = [since EXCEPT ![e] = 0]
    /\ UNCHANGED now

(* PeerConnection::send and send_hello up to the first write. *)
Send(e, m) ==
    /\ activity[e] = "app"
    /\ \E r \in {EncodeOutbound(session[e], m)} :
           \/ /\ ~r.ok
              /\ EndConnection(e, r.err)
              /\ UNCHANGED <<session, outbox, sent>>
           \/ /\ r.ok /\ now >= TotalTimeout
              /\ session' = [session EXCEPT ![e] = r.val.session]
              /\ EndConnection(e, "TotalTimeout")
              /\ UNCHANGED <<outbox, sent>>
           \/ /\ r.ok /\ now < TotalTimeout
              /\ session' = [session EXCEPT ![e] = r.val.session]
              /\ outbox' = [outbox EXCEPT ![e] = r.val.frame]
              /\ sent' = [sent EXCEPT ![e] = Append(@, m)]
              /\ activity' = [activity EXCEPT ![e] = "writing"]
              /\ since' = [since EXCEPT ![e] = now]
              /\ UNCHANGED <<header, now, ended>>
    /\ UNCHANGED <<stream, surfaced, cut, faults>>

(* write_all_bounded: one write puts some of the bytes on the stream, all  *)
(* of them or (PieceSizes) a first piece; a tampered frame goes out whole. *)
PieceSizes == {1, PeerHeaderCells}
WriteSome(e) ==
    /\ activity[e] = "writing"
    /\ \E n \in {Len(outbox[e])} \union {k \in PieceSizes : faults[e] = {} /\ k < Len(outbox[e])} :
        /\ outbox' = [outbox EXCEPT ![e] = SubSeq(@, n + 1, Len(@))]
        /\ stream' = IF ended[Other(e)] = ""
                     THEN [stream EXCEPT ![Other(e)] = @ \o SubSeq(outbox[e], 1, n)]
                     ELSE stream
        /\ since' = [since EXCEPT ![e] = IF n = Len(outbox[e]) THEN 0 ELSE now,
                                  ![Other(e)] = IF activity[Other(e)] = "reading" THEN now ELSE @]
        /\ activity' = [activity EXCEPT ![e] = IF n = Len(outbox[e]) THEN "app" ELSE @]
        /\ cut' = [cut EXCEPT ![e] = n < Len(outbox[e])]
    /\ UNCHANGED <<session, header, now, sent, surfaced, ended, faults>>

(* A write fails: the socket is gone or has not drained in time. *)
WriteFails(e) ==
    /\ activity[e] = "writing"
    /\ EndConnection(e, "Io")
    /\ outbox' = [outbox EXCEPT ![e] = <<>>]
    /\ UNCHANGED <<session, stream, sent, surfaced, cut, faults>>

(* PeerConnection::receive, up to the first read. *)
BeginReceive(e) ==
    /\ activity[e] = "app"
    /\ \/ /\ now >= TotalTimeout
          /\ EndConnection(e, "TotalTimeout")
       \/ /\ now < TotalTimeout
          /\ activity' = [activity EXCEPT ![e] = "reading"]
          /\ since' = [since EXCEPT ![e] = now]
          /\ UNCHANGED <<header, now, ended>>
    /\ UNCHANGED <<session, outbox, stream, sent, surfaced, cut, faults>>

(* What receive asks of a header before it allocates and reads the payload. *)
HeaderAccepted(e, h) == HeaderValid(h) /\ EnsureBudget(session[e], PeerHeaderCells + h[6])

(* The header has arrived: checked, and the budget with it, before the     *)
(* payload is read.                                                        *)
ReadHeader(e) ==
    /\ activity[e] = "reading"
    /\ header[e] = <<>>
    /\ Len(stream[e]) >= PeerHeaderCells
    /\ LET h == SubSeq(stream[e], 1, PeerHeaderCells)
       IN  \/ /\ HeaderAccepted(e, h)
              /\ header' = [header EXCEPT ![e] = h]
              /\ stream' = [stream EXCEPT ![e] = SubSeq(@, PeerHeaderCells + 1, Len(@))]
              /\ UNCHANGED <<activity, since, ended, now>>
           \/ /\ ~HeaderAccepted(e, h)
              /\ EndConnection(e, "BadHeader")
              /\ stream' = [stream EXCEPT ![e] = <<>>]
    /\ UNCHANGED <<session, outbox, sent, surfaced, cut, faults>>

(* The payload has arrived: accept_inbound decides. *)
ReadPayload(e) ==
    /\ activity[e] = "reading"
    /\ header[e] # <<>>
    /\ Len(stream[e]) >= header[e][6]
    /\ LET b == header[e] \o SubSeq(stream[e], 1, header[e][6])
       IN  \E r \in {AcceptInbound(session[e], b)} :
           \/ /\ r.ok
              /\ session' = [session EXCEPT ![e] = r.val.session]
              /\ surfaced' = [surfaced EXCEPT ![e] = Append(@, r.val.msg)]
              /\ stream' = [stream EXCEPT ![e] = SubSeq(@, header[e][6] + 1, Len(@))]
              /\ header' = [header EXCEPT ![e] = <<>>]
              /\ activity' = [activity EXCEPT ![e] = "app"]
              /\ since' = [since EXCEPT ![e] = 0]
              /\ UNCHANGED <<ended, now>>
           \/ /\ ~r.ok
              /\ EndConnection(e, r.err)
              /\ stream' = [stream EXCEPT ![e] = <<>>]
              /\ UNCHANGED <<session, surfaced>>
    /\ UNCHANGED <<outbox, sent, cut, faults>>

(* The stream has ended before what is needed arrived.  respond_to_peer    *)
(* takes an end before a header's first byte as the peer closing.          *)
CleanEnd(e) ==
    /\ stream[e] = <<>>
    /\ header[e] = <<>> \/ header[e][6] = PeerHeaderCells

ReadEof(e) ==
    /\ activity[e] = "reading"
    /\ ended[Other(e)] # ""
    /\ Len(stream[e]) < IF header[e] = <<>> THEN PeerHeaderCells ELSE header[e][6]
    /\ EndConnection(e, IF CleanEnd(e) THEN "PeerClosed" ELSE "Truncated")
    /\ stream' = [stream EXCEPT ![e] = <<>>]
    /\ UNCHANGED <<session, outbox, sent, surfaced, cut, faults>>

(* Mutant of Timeout: no timeout is set on the socket's writes. *)
TimeoutReadsOnly(e) ==
    /\ activity[e] = "reading"
    /\ now >= IoLimit(e)
    /\ EndConnection(e, IF now >= TotalTimeout THEN "TotalTimeout" ELSE "IdleTimeout")
    /\ outbox' = [outbox EXCEPT ![e] = <<>>]
    /\ stream' = [stream EXCEPT ![e] = <<>>]
    /\ UNCHANGED <<session, sent, surfaced, cut, faults>>

(* timeout_error: a read or write made no progress until its limit. *)
Timeout(e) ==
    /\ activity[e] \in {"reading", "writing"}
    /\ now >= IoLimit(e)
    /\ EndConnection(e, IF now >= TotalTimeout THEN "TotalTimeout" ELSE "IdleTimeout")
    /\ outbox' = [outbox EXCEPT ![e] = <<>>]
    /\ stream' = [stream EXCEPT ![e] = <<>>]
    /\ UNCHANGED <<session, sent, surfaced, cut, faults>>

(* The application is done with the connection and drops it. *)
Finish(e) ==
    /\ activity[e] = "app"
    /\ EndConnection(e, "Done")
    /\ stream' = [stream EXCEPT ![e] = <<>>]
    /\ UNCHANGED <<session, outbox, sent, surfaced, cut, faults>>

(***************************************************************************)
(* The environment.                                                        *)
(***************************************************************************)

(* Time passes, but no read or write blocks past its socket timeout. *)
Tick ==
    /\ now < MaxTime
    /\ \A e \in Endpoints : activity[e] \in {"reading", "writing"} => now < IoLimit(e)
    /\ now' = now + 1
    /\ UNCHANGED <<session, activity, outbox, stream, header, since, sent, surfaced,
                   ended, cut, faults>>

WholeFrame(e) == activity[e] = "writing" /\ ~cut[e]

Raised(o, i) == [o EXCEPT ![i] = @ + 1]

(* e's side sends something the session did not produce: a field changed   *)
(* or missing, a longer payload, or the whole frame left out or repeated.  *)
(* Nothing but the bytes matters to the reader, so this is at time 0.      *)
Tamper(e) ==
    /\ WholeFrame(e)
    /\ now = 0
    /\ faults[e] = {}
    /\ MaxFaults > Cardinality({p \in Endpoints : faults[p] # {}})
    /\ \/ \E i \in 1..Len(outbox[e]) :
            /\ \/ outbox' = [outbox EXCEPT ![e] = Raised(@, i)]
               \/ outbox' = [outbox EXCEPT ![e] = [@ EXCEPT ![i] = 0]]
               \/ outbox' = [outbox EXCEPT ![e] = SubSeq(@, 1, i - 1) \o SubSeq(@, i + 1, Len(@))]
            /\ faults' = [faults EXCEPT ![e] = {"cell"}]
            /\ UNCHANGED activity
       \/ /\ outbox' = [outbox EXCEPT ![e] = Append(Raised(@, PeerHeaderCells), 0)]
          /\ faults' = [faults EXCEPT ![e] = {"cell"}]
          /\ UNCHANGED activity
       \/ /\ outbox' = [outbox EXCEPT ![e] = @ \o @]
          /\ faults' = [faults EXCEPT ![e] = {"frame"}]
          /\ UNCHANGED activity
       \/ /\ outbox' = [outbox EXCEPT ![e] = <<>>]
          /\ faults' = [faults EXCEPT ![e] = {"frame"}]
          /\ activity' = [activity EXCEPT ![e] = "app"]
    /\ UNCHANGED <<session, stream, header, since, now, sent, surfaced, ended, cut>>

(* Both sides open with their hello and wait for the other's.  Then the    *)
(* client sends a request and waits for the answer; the responder waits    *)
(* for a request and answers it.                                           *)
Asked(e) == Len(sent[e])
Heard(e) == Len(surfaced[e])

MaySend(e) ==
    IF e = Client THEN Asked(e) = Heard(e) ELSE Asked(e) = 0 \/ Heard(e) = Asked(e) + 1

AppStep(e) ==
    \/ Finish(e)
    \/ ~MaySend(e) /\ BeginReceive(e)
    \/ MaySend(e) /\ ~session[e].helloSent /\ Send(e, Hello(session[e].local))
    \/ MaySend(e) /\ session[e].helloSent /\ \E m \in Samples[e] : Send(e, m)

IoStep(e) ==
    \/ WriteSome(e)
    \/ WriteFails(e)
    \/ ReadHeader(e)
    \/ ReadPayload(e)
    \/ ReadEof(e)
    \/ Timeout(e)

(* Both connections are gone. *)
Over ==
    /\ \A e \in Endpoints : activity[e] = "closed"
    /\ UNCHANGED svars

SessionNext ==
    \/ \E e \in Endpoints : AppStep(e) \/ IoStep(e) \/ Tamper(e)
    \/ Tick
    \/ Over

(* The clock advances, a socket timeout wakes its thread, and application  *)
(* code goes on; nothing is assumed of the bytes or of the other end.      *)
SessionFairness ==
    /\ WF_svars(Tick)
    /\ \A e \in Endpoints : WF_svars(AppStep(e)) /\ WF_svars(Timeout(e))

ConnectionSpec == SessionInit /\ [][SessionNext]_svars /\ SessionFairness
-----------------------------------------------------------------------------

(* Every piece of state has its shape, sequence numbers stay within the    *)
(* message budget and only a checked header is kept.                       *)
SessionTypeOK ==
    /\ activity \in [Endpoints -> {"app", "writing", "reading", "closed"}]
    /\ now \in 0..MaxTime
    /\ since \in [Endpoints -> 0..MaxTime]
    /\ cut \in [Endpoints -> BOOLEAN]
    /\ \A e \in Endpoints :
        /\ session[e].outSeq \in 0..MaxMessages
        /\ session[e].inSeq \in 0..MaxMessages
        /\ header[e] # <<>> => HeaderValid(header[e]) /\ activity[e] = "reading"
        /\ (outbox[e] # <<>>) = (activity[e] = "writing")
        /\ (ended[e] = "") = (activity[e] # "closed")

(* What an endpoint is given is a prefix of what the other end sent: no    *)
(* frame that is lost, repeated or reordered on the way is passed over.    *)
InOrderDelivery ==
    \A e \in Endpoints :
        "cell" \notin faults[Other(e)] => IsPrefix(surfaced[e], sent[Other(e)])

(* A protocol message surfaces only between compatible nodes that have     *)
(* each seen the other's hello, however the two hellos and the first       *)
(* requests interleave.                                                    *)
MutualHandshake ==
    \A e \in Endpoints :
        /\ \E i \in DOMAIN surfaced[e] : surfaced[e][i].kind # Kinds.Hello
        /\ "cell" \notin faults[Other(e)]
        => LET mine == session[e].local
               theirs == session[Other(e)].local
           IN  /\ session[e].remote = <<theirs>>
               /\ session[Other(e)].remote # <<>>
               /\ HelloNetwork(mine) = HelloNetwork(theirs)
               /\ HelloFingerprint(mine) = HelloFingerprint(theirs)
               /\ HelloNonce(mine) # HelloNonce(theirs)

(* A frame that is accepted, whatever the peer sent, is the one encoding   *)
(* of its message: the node can store and relay what it was given, and no  *)
(* second byte string stands for the same block or transaction.            *)
AcceptedIsCanonical ==
    [][\A e \in Endpoints :
        surfaced'[e] # surfaced[e] =>
            EncodePeerFrame(header[e][5], Last(surfaced'[e]))
                = Ok(header[e] \o SubSeq(stream[e], 1, header[e][6]))]_svars

(* The length of the frame of every hello and sample, and of a sequence of them. *)
FrameSize == [m \in Sendable |-> Len(EncodePeerFrame(0, m).val)]

FramesSize(messages) ==
    LET total[i \in 0..Len(messages)] ==
            IF i = 0 THEN 0 ELSE total[i - 1] + FrameSize[messages[i]]
    IN  total[Len(messages)]

(* The budgets count every frame of both directions exactly once and are   *)
(* never exceeded, refused frames and cut writes included.                 *)
BudgetsExact ==
    \A e \in Endpoints :
        LET s == session[e]
        IN  /\ s.messages = s.outSeq + s.inSeq
            /\ s.messages <= MaxMessages /\ s.bytes <= MaxBytes
            /\ s.outSeq = Len(sent[e]) /\ "cell" \notin faults[Other(e)] =>
                  s.bytes = FramesSize(sent[e]) + FramesSize(surfaced[e])

(* No read or write holds its thread past the total lifetime of the        *)
(* connection, even when a slow peer keeps resetting the idle time.        *)
LifetimeBounded ==
    \A e \in Endpoints : activity[e] \in {"reading", "writing"} => now <= TotalTimeout

(* An end of stream is taken as the peer closing only where no frame was   *)
(* under way.                                                              *)
CleanEndAtBoundary ==
    \A e \in Endpoints :
        ended[e] = "PeerClosed" /\ faults[Other(e)] = {} => ~cut[Other(e)]

(* What an endpoint believes of its connection is so: what it was given,   *)
(* with whom, and whether the peer ended it.                               *)
SessionSound == InOrderDelivery /\ MutualHandshake /\ CleanEndAtBoundary

(* A connection costs no more than its limits: messages, bytes and time.   *)
ResourcesBounded == BudgetsExact /\ LifetimeBounded

(* Every connection ends, whatever its peer does or leaves undone. *)
SessionEnds == <>(\A e \in Endpoints : activity[e] = "closed")
=============================================================================
