-------------------------------- MODULE Rpc --------------------------------
(***************************************************************************)
(* The node's HTTP service: one thread accepts loopback connections in     *)
(* turn, reads one request under a total deadline, locks the node that it  *)
(* shares with the peer services, routes the request, unlocks, writes one  *)
(* response under a write timeout and closes the connection.  Clients send *)
(* their bytes in any pieces, stop in the middle, read slowly or go away.  *)
(* What a client does before it is accepted only fills its socket, so a    *)
(* request, and all that is kept of a client, begins at AcceptConnection.  *)
(*                                                                         *)
(* A request is its header's size, the facts about the header the reader   *)
(* tests, and how many body bytes the client has; byte counts, limits and  *)
(* times are scaled down.  The node is what the handlers see of it: a      *)
(* verdict on each request and the storage fault flag (Node models it).    *)
(***************************************************************************)
EXTENDS Integers, Sequences, FiniteSets, FiniteSetsExt

CONSTANTS
    Clients,          \* connections that may be opened
    Requests,         \* requests a client may send
    HeaderLimit,      \* RPC_HEADER_LIMIT
    ChunkBytes,       \* size of the buffer a header read fills
    BlockLimit,       \* MAX_BLOCK_BYTES
    TransactionLimit, \* MAX_TRANSACTION_BYTES
    WalletLimit,      \* WALLET_JSON_BODY_LIMIT
    ReadTimeout,      \* RPC_READ_TIMEOUT
    TotalTimeout,     \* RPC_TOTAL_READ_TIMEOUT
    WriteTimeout,     \* RPC_WRITE_TIMEOUT
    Window            \* response parts the client's socket holds unread

NoClient == 0

(***************************************************************************)
(* A request is a record:                                                  *)
(*   method    "GET", "POST" or "PUT"                                      *)
(*   endpoint  "health", "read" (status, mempool, wallet), "template",     *)
(*             "send" (send, consolidate), "transaction", "mine", "block"  *)
(*             or "unknown"                                                *)
(*   parses    the header is UTF-8, HTTP/1.1, without Transfer-Encoding    *)
(*   header    bytes up to and including the blank line                    *)
(*   lengths   the Content-Length headers                                  *)
(*   typed     it has the Content-Type the endpoint asks for               *)
(*   payload   the query or body decodes, canonically                      *)
(*   body      bytes the client has after the header                       *)
(***************************************************************************)
RpcRequest ==
    [method : {"GET", "POST", "PUT"},
     endpoint : {"health", "read", "template", "send", "transaction", "mine", "block", "unknown"},
     parses : BOOLEAN, header : Nat, lengths : Seq(Nat), typed : BOOLEAN, payload : BOOLEAN,
     body : Nat]

(* The limits are the constants of lib.rs, none of them 0; what clients    *)
(* send is a request.                                                      *)
RpcAssumption ==
    /\ NoClient \notin Clients /\ \A r \in Requests : r \in RpcRequest
    /\ HeaderLimit \in Nat \ {0} /\ ChunkBytes \in Nat \ {0}
    /\ ReadTimeout \in Nat \ {0} /\ TotalTimeout \in Nat \ {0} /\ WriteTimeout \in Nat \ {0}
    /\ BlockLimit \in Nat /\ TransactionLimit \in Nat /\ WalletLimit \in Nat /\ Window \in Nat

VARIABLES
    link,      \* each connection: "unborn", "queued", "served", "closed"
    backlog,   \* connections the listener has not accepted, oldest first
    request,   \* what the client that is served sends
    sent,      \* bytes of it that are on the wire
    socket,    \* its end: "open", "shut" (no more bytes), "gone"
    stream,    \* response parts delivered to it: status and part
    unread,    \* of those, the parts it has not read
    phase,     \* what the service thread does
    client,    \* the connection it serves
    got,       \* bytes of the request it has read
    elapsed,   \* time since the DeadlineReader was made
    wait,      \* time left in the blocked read or write
    reply,     \* status of the response being written
    written,   \* parts of that response that were written
    effects,   \* body sizes with which this connection changed the node
    lock,      \* the node mutex: "free", "rpc", "other", "poisoned"
    faulted    \* Node.storage_faulted

connections == <<link, backlog>>
peer == <<request, sent, socket, stream, unread>>
service == <<phase, client, got, elapsed, wait, reply, written, effects>>
node == <<lock, faulted>>
rpcVars == <<connections, peer, service, node>>

NoRequest == [method |-> "GET", endpoint |-> "unknown", parses |-> FALSE, header |-> 0,
              lengths |-> <<>>, typed |-> FALSE, payload |-> FALSE, body |-> 0]

(***************************************************************************)
(* Limits and checks of the request reader.                                *)
(***************************************************************************)
\* rpc_body_limit.
BodyLimit(r) ==
    CASE r.method = "GET" -> 0
      [] r.method = "POST" /\ r.endpoint = "mine" -> 0
      [] r.method = "POST" /\ r.endpoint = "transaction" -> TransactionLimit
      [] r.method = "POST" /\ r.endpoint = "send" -> WalletLimit
      [] OTHER -> BlockLimit

BodyLength(r) == IF r.lengths = <<>> THEN 0 ELSE r.lengths[1]

\* The header checks of read_rpc_request; every refusal is InvalidRpcRequest.
HeaderAccepted(r) ==
    /\ r.parses
    /\ Len(r.lengths) <= 1
    /\ BodyLength(r) <= BodyLimit(r)
    /\ r.method = "POST" => r.lengths # <<>>

\* Mutant of ReadWait: each read gets the full timeout, whatever is left of the total.
ReadWaitWhole(spent) == IF spent >= TotalTimeout THEN 0 ELSE ReadTimeout

\* DeadlineReader::read: the timeout of a read issued now, 0 when the deadline passed.
ReadWait(spent) == Min({ReadTimeout, TotalTimeout - spent})

(***************************************************************************)
(* Routing: the status of the response, from the node's verdict.           *)
(***************************************************************************)
\* NodeError::client_error.
ClientStatus(v) == [ok |-> 200, invalid |-> 400, conflict |-> 409, policy |-> 422,
                    chain |-> 422, faulted |-> 503, internal |-> 500][v]

\* Mutant of TransactionStatus: a transaction that is already pending is a success.
TransactionStatusIdempotent(v) ==
    IF v \in {"ok", "conflict"} THEN 200 ELSE ClientStatus(v)

TransactionStatus(v) ==
    IF v \in {"ok", "conflict", "policy", "chain"} THEN ClientStatus(v) ELSE 500

BlockStatus(v) == IF v \in {"ok", "chain"} THEN ClientStatus(v) ELSE 500

TemplateStatus(v) == IF v \in {"ok", "faulted"} THEN ClientStatus(v) ELSE 422

\* What the node may answer to a request that reached one of its methods.
Verdicts(r) ==
    CASE r.endpoint = "template" -> IF faulted THEN {"faulted"} ELSE {"ok", "chain"}
      [] r.endpoint = "send" -> {"ok", "invalid", "conflict", "policy"}
      [] r.endpoint = "transaction" -> {"ok", "conflict", "policy", "internal"}
      [] r.endpoint = "mine" ->
            IF faulted THEN {"faulted"} ELSE {"ok", "invalid", "chain", "internal"}
      [] r.endpoint = "block" ->
            IF faulted THEN {"faulted"} ELSE {"ok", "chain", "conflict", "internal"}
      [] OTHER -> {"ok"}

\* route_rpc_request: answered without the node when the request does not fit.
Unfit(r) ==
    CASE r.method = "PUT" -> 405
      [] \/ r.endpoint = "unknown"
         \/ r.method = "GET" /\ r.endpoint \notin {"health", "read", "template"}
         \/ r.method = "POST" /\ r.endpoint \in {"health", "read", "template"} -> 404
      [] r.endpoint \in {"send", "transaction", "block"} /\ ~r.typed -> 415
      [] ~r.payload -> 400
      [] OTHER -> 0

RouteStatus(r, v) ==
    CASE r.endpoint = "health" -> IF faulted THEN 503 ELSE 200
      [] r.endpoint = "template" -> TemplateStatus(v)
      [] r.endpoint = "transaction" -> TransactionStatus(v)
      [] r.endpoint = "block" -> BlockStatus(v)
      [] OTHER -> ClientStatus(v)

Mutating(r) == r.method = "POST"

(***************************************************************************)
(* Clients: their bytes arrive in any pieces; they may stop or vanish.     *)
(***************************************************************************)
Connect(c) ==
    /\ link[c] = "unborn"
    /\ link' = [link EXCEPT ![c] = "queued"]
    /\ backlog' = Append(backlog, c)
    /\ UNCHANGED <<peer, service, node>>

Send ==
    /\ client # NoClient /\ socket = "open"
    /\ \E n \in 1..(request.header + request.body - sent) : sent' = sent + n
    /\ UNCHANGED <<connections, request, socket, stream, unread, service, node>>

Shutdown ==
    /\ client # NoClient /\ socket = "open" /\ socket' = "shut"
    /\ UNCHANGED <<connections, request, sent, stream, unread, service, node>>

Vanish ==
    /\ client # NoClient /\ socket # "gone" /\ socket' = "gone"
    /\ UNCHANGED <<connections, request, sent, stream, unread, service, node>>

ReadResponse ==
    /\ unread > 0 /\ socket # "gone"
    /\ unread' = unread - 1
    /\ UNCHANGED <<connections, request, sent, socket, stream, service, node>>

(***************************************************************************)
(* The service thread.                                                     *)
(***************************************************************************)
\* serve_rpc_shared, handle_rpc_connection_shared: the next connection, a new deadline.
AcceptConnection ==
    /\ phase = "accept" /\ backlog # <<>>
    /\ client' = Head(backlog) /\ backlog' = Tail(backlog)
    /\ link' = [link EXCEPT ![Head(backlog)] = "served"]
    /\ request' \in Requests
    /\ phase' = "header" /\ wait' = ReadWait(0)
    /\ UNCHANGED <<sent, socket, stream, unread, got, elapsed, reply, written, effects, node>>

\* Start writing a response; its first part is the header, its second the body.
Respond(status, as) ==
    /\ phase' = as /\ reply' = status /\ written' = 0 /\ wait' = WriteTimeout
    /\ got' = 0 /\ elapsed' = 0

Available == sent - got
Declared == request.header + BodyLength(request)

\* After a header read that brought the total to n bytes: read_rpc_request goes on.
AfterHeader(n) ==
    LET r == request
        ended == n >= r.header
        refused == \/ IF ended THEN r.header > HeaderLimit ELSE n >= HeaderLimit
                   \/ ended /\ (~HeaderAccepted(r) \/ n > Declared)
    IN IF refused THEN Respond(400, "respond")
       ELSE /\ phase' = IF ~ended THEN "header" ELSE IF n < Declared THEN "body" ELSE "lock"
            /\ got' = n /\ wait' = ReadWait(elapsed)
            /\ UNCHANGED <<elapsed, reply, written>>

ReadHeader ==
    /\ phase = "header" /\ wait > 0 /\ Available > 0
    /\ AfterHeader(got + Min({Available, ChunkBytes}))
    /\ UNCHANGED <<connections, peer, client, effects, node>>

\* Read::read_exact of the rest of the declared body.
ReadBody ==
    /\ phase = "body" /\ wait > 0 /\ Available > 0
    /\ LET n == got + Min({Available, Declared - got})
       IN /\ got' = n /\ phase' = IF n = Declared THEN "lock" ELSE "body"
          /\ wait' = ReadWait(elapsed)
    /\ UNCHANGED <<connections, peer, client, elapsed, reply, written, effects, node>>

\* End of the stream before the header or the body is whole.
ReadEnds ==
    /\ phase \in {"header", "body"} /\ wait > 0
    /\ Available = 0 /\ socket # "open"
    /\ Respond(400, "respond")
    /\ UNCHANGED <<connections, peer, client, effects, node>>

\* The read timed out, or the next one was issued after the deadline.
ReadTimesOut ==
    /\ phase \in {"header", "body"} /\ wait = 0
    /\ Respond(500, "respond")
    /\ UNCHANGED <<connections, peer, client, effects, node>>

\* shared.lock(): a poisoned mutex makes the handler fail.
Lock ==
    /\ phase = "lock" /\ lock \in {"free", "poisoned"}
    /\ IF lock = "free"
       THEN /\ lock' = "rpc" /\ phase' = "route"
            /\ UNCHANGED <<got, elapsed, wait, reply, written>>
       ELSE Respond(500, "apologise") /\ UNCHANGED lock
    /\ UNCHANGED <<connections, peer, client, effects, faulted>>

\* Mutant of Unlock: the guard lives until the response was written.
UnlockAfterResponse == lock' = lock

\* The guard's scope ends with route_rpc_request.
Unlock == lock' = "free"

\* route_rpc_request, under the lock; a failed append sets the storage fault.
Route ==
    /\ phase = "route"
    /\ IF Unfit(request) # 0
       THEN Respond(Unfit(request), "respond") /\ UNCHANGED <<effects, faulted>>
       ELSE \E v \in Verdicts(request) :
              /\ Respond(RouteStatus(request, v), "respond")
              /\ faulted' = (faulted \/ (v = "internal" /\ request.endpoint \in {"mine", "block"}))
              /\ effects' = IF v = "ok" /\ Mutating(request)
                            THEN Append(effects, got - request.header) ELSE effects
    /\ Unlock
    /\ UNCHANGED <<connections, peer, client>>

\* write_all makes progress when the client's socket has room.
Write ==
    /\ phase \in {"respond", "apologise"} /\ wait > 0 /\ written < 2
    /\ socket # "gone" /\ unread < Window
    /\ stream' = Append(stream, [status |-> reply, part |-> written + 1])
    /\ unread' = unread + 1
    /\ written' = written + 1 /\ wait' = WriteTimeout
    /\ UNCHANGED <<connections, request, sent, socket, phase, client, got, elapsed, reply,
                   effects, node>>

\* The stream is dropped and the thread accepts again.
Close ==
    /\ phase' = "accept" /\ client' = NoClient
    /\ reply' = 0 /\ written' = 0 /\ wait' = 0 /\ got' = 0 /\ elapsed' = 0 /\ effects' = <<>>
    /\ request' = NoRequest /\ sent' = 0 /\ socket' = "open" /\ stream' = <<>> /\ unread' = 0
    /\ link' = [link EXCEPT ![client] = "closed"]
    /\ UNCHANGED <<backlog, node>>

Finish ==
    /\ phase \in {"respond", "apologise"} /\ written = 2
    /\ Close

\* Mutant of WriteFailed: a full socket is retried for ever.
WriteFailedGoneOnly == socket = "gone"

WriteFailed == socket = "gone" \/ wait = 0

\* A failed response: serve_rpc_shared writes the error itself, once, and closes.
WriteFails ==
    /\ phase \in {"respond", "apologise"} /\ written < 2 /\ WriteFailed
    /\ IF phase = "respond"
       THEN /\ Respond(500, "apologise")
            /\ UNCHANGED <<connections, peer, client, effects, node>>
       ELSE Close

\* Time passes while the thread is blocked in a read or a write.
ClockTick ==
    /\ phase \in {"header", "body", "respond", "apologise"} /\ wait > 0
    /\ wait' = wait - 1
    /\ elapsed' = IF phase \in {"header", "body"} THEN elapsed + 1 ELSE 0
    /\ UNCHANGED <<connections, peer, phase, client, got, reply, written, effects, node>>

\* The peer services and the miner use the node too, and one of them may panic under
\* the lock.  What they do while this thread does not want the lock it cannot see.
OthersLock ==
    /\ phase = "lock" /\ lock = "free" /\ lock' = "other"
    /\ UNCHANGED <<connections, peer, service, faulted>>

OthersUnlock ==
    /\ lock = "other" /\ lock' = "free"
    /\ UNCHANGED <<connections, peer, service, faulted>>

OthersPanic ==
    /\ lock = "other" /\ lock' = "poisoned"
    /\ UNCHANGED <<connections, peer, service, faulted>>

RpcInit ==
    /\ link = [c \in Clients |-> "unborn"] /\ backlog = <<>>
    /\ request = NoRequest /\ sent = 0 /\ socket = "open" /\ stream = <<>> /\ unread = 0
    /\ phase = "accept" /\ client = NoClient /\ effects = <<>>
    /\ got = 0 /\ elapsed = 0 /\ wait = 0 /\ reply = 0 /\ written = 0
    /\ lock = "free" /\ faulted = FALSE

Thread == AcceptConnection \/ ReadHeader \/ ReadBody \/ ReadEnds \/ ReadTimesOut
          \/ Lock \/ Route \/ Write \/ Finish \/ WriteFails

RpcNext ==
    \/ Thread \/ ClockTick \/ OthersLock \/ OthersUnlock \/ OthersPanic
    \/ Send \/ Shutdown \/ Vanish \/ ReadResponse
    \/ \E c \in Clients : Connect(c)

\* The thread runs, time passes, and whoever else holds the node lets go of it.
RpcFairness == WF_rpcVars(Thread) /\ WF_rpcVars(ClockTick) /\ WF_rpcVars(OthersUnlock) /\ SF_rpcVars(Lock)

RpcSpec == RpcInit /\ [][RpcNext]_rpcVars /\ RpcFairness

(***************************************************************************)
(* Properties.                                                             *)
(***************************************************************************)
\* No client, however it spaces its bytes, keeps the thread reading past the total
\* deadline or makes it hold more than a header chunk and one endpoint's body.
ReadBounded ==
    /\ elapsed <= TotalTimeout
    /\ phase = "header" => got < HeaderLimit
    /\ phase \in {"body", "lock", "route"} => got <= HeaderLimit + BodyLimit(request)

\* A request changes the node only with the whole body it declared, which its client
\* did send, and at most once, however its bytes were cut into pieces.
WholeRequests ==
    /\ Len(effects) <= 1
    /\ \A i \in DOMAIN effects :
          effects[i] = BodyLength(request) /\ sent >= Declared /\ HeaderAccepted(request)

\* The first status a client sees tells whether its request changed the node: 200 to
\* a mutating request only if it did, a 4xx only if it did not.  A second response
\* follows only one that was cut off.
ResponseTruthful ==
    stream # <<>> =>
        LET first == stream[1].status
        IN /\ first = 200 /\ Mutating(request) => effects # <<>>
           /\ first \in 400..499 => effects = <<>>
           /\ Len(stream) > 2 => stream[2].part = 1

\* A client that stalls never stalls the node: the thread does not hold the mutex
\* while it waits for bytes to arrive or to be taken.
NodeNotHeld == lock = "rpc" => phase = "route"

\* Reading is bounded in time and memory and never holds the node; only whole requests
\* change the node, once, and the status a client sees is true.
RpcSound == ReadBounded /\ NodeNotHeld /\ WholeRequests /\ ResponseTruthful
=============================================================================
