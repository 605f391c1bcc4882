---------------------------- MODULE CoapServer ----------------------------
(***************************************************************************)
(* The CoAP side of the EST server, src/est/est_server_coap.c with the     *)
(* per-session performance timers of src/est/est.c.                        *)
(*                                                                         *)
(* libcoap runs one handler at a time, so a handler is one step.  Between  *)
(* handlers the server keeps one coap_req node per DTLS session in an      *)
(* array sorted by key: the blocks of the request received so far, the     *)
(* whole response once there is one, and which EST request they belong to. *)
(* Peers send any message of Msgs at any time: blocks out of order, late   *)
(* or repeated.  CoapTransfer composes the server with real clients.       *)
(*                                                                         *)
(* Abstractions: the sorted array searched with bsearch is a function of   *)
(* the key with a bound on the nodes in use; the blocks of an upload are   *)
(* its unit of length and a request fits into req_buf; resp_buf is the     *)
(* frame of module Cbor.                                                   *)
(***************************************************************************)
EXTENDS Cbor, FiniteSets

CONSTANTS
    Peers,           \* remote addresses (ip and port)
    KeyOf,           \* [Peers -> key]: the text of the port, then of the ip
    EndpointOf,      \* [Peers -> endpoint]: the listening address they reach
    Certified,       \* peers whose session has a client certificate
    Csrs,            \* certificate requests a client may upload
    Blocks,          \* blocks in an upload
    RespBlocks,      \* blocks in a response
    UploadOps,       \* the requests with a payload: "SEN", "SREN", "SKG"
    FetchOps,        \* the requests without: "CRTS", "ATT"
    EnrollErrors,    \* errors the enroll and fetch operations may return
    Lengths,         \* pairs of lengths the CA's keys and certificates have
    FrameLengths,    \* pairs for which the framing alone is checked
    Options,         \* pairs of Content-Format and Accept values that occur
    SessionMaxes,    \* values the application passes as session_max
    PortNums,        \* ports the application starts the server on
    PERF,            \* perf_timers_enabled
    MaxIssue,        \* bound: certificates the CA issues in one behaviour
    MaxVersion       \* bound: changes of the CA certificates or attributes

OptionValue == {"ok", "missing", "other", "bad"}

ASSUME CoapAssumption ==
    /\ IsFiniteSet(Peers) /\ Certified \subseteq Peers
    /\ DOMAIN KeyOf = Peers /\ DOMAIN EndpointOf = Peers
    /\ Blocks \in Nat \ {0} /\ RespBlocks \in Nat \ {0}
    /\ UploadOps \subseteq {"SEN", "SREN", "SKG"}
    /\ FetchOps \subseteq {"CRTS", "ATT"}
    /\ Lengths \cup FrameLengths \subseteq (Nat \ {0}) \X (Nat \ {0})
    /\ Options \subseteq OptionValue \X OptionValue
    /\ SessionMaxes \subseteq Nat \ {0} /\ PortNums \subseteq Nat
    /\ PERF \in BOOLEAN /\ MaxIssue \in Nat /\ MaxVersion \in Nat

VARIABLES
    coap_req_array,  \* [Keys -> node]
    cur_max,         \* cur_max_coap_req_array
    coap_req_cnt,    \* nodes in use, as the code counts them
    port,            \* coap_server_port_num
    coap_ctx,        \* session_max of each endpoint of the libcoap context
    sessions,        \* peers with an established DTLS session
    issued,          \* certificates the CA has issued
    version,         \* version of what the CRTS and ATT requests return
    last             \* the handler that ran last: its input and its reply

vars == <<coap_req_array, cur_max, coap_req_cnt, port, coap_ctx, sessions,
          issued, version, last>>

Keys == {KeyOf[p] : p \in Peers}
Endpoints == {EndpointOf[p] : p \in Peers}
EST_COAP_REQ == {"RESET"} \cup UploadOps \cup FetchOps
Timer == {"null", "running", "stopped"}

Chunk == [peer : Peers, csr : Csrs, num : 0..(Blocks - 1)]
NoResp == [op |-> "RESET", serial |-> 0, version |-> 0, csr |-> <<>>,
           frame |-> NoFrame]
Response == [op : EST_COAP_REQ, serial : 0..MaxIssue, version : 0..MaxVersion,
             csr : Seq(Chunk), frame : [buf : Seq(Item), len : Nat]]

Node == [used : BOOLEAN, cur_req : EST_COAP_REQ, req_buf : Seq(Chunk),
         resp_buf : Response, session_timer : Timer,
         handle_req_timer : Timer, req_gap_timer : Timer]

\* A node after memzero_s or calloc: its key is the empty string.
EmptyNode == [used |-> FALSE, cur_req |-> "RESET", req_buf |-> <<>>,
              resp_buf |-> NoResp, session_timer |-> "null",
              handle_req_timer |-> "null", req_gap_timer |-> "null"]

Used == {k \in Keys : coap_req_array[k].used}

-----------------------------------------------------------------------------
(* Messages: a part of an upload, or nothing, with the two options whose   *)
(* value the handlers check and the response block that is asked for.      *)

\* A POST: block1 tells whether the option is there, num and m are its fields.
Part(p) ==
    LET chunk(c, i) == [peer |-> p, csr |-> c, num |-> i]
    IN  {[block1 |-> FALSE, num |-> 0, m |-> FALSE,
          data |-> [i \in 1..Blocks |-> chunk(c, i - 1)]] : c \in Csrs}
        \cup {[block1 |-> TRUE, num |-> i, m |-> i < Blocks - 1,
               data |-> <<chunk(c, i)>>] : c \in Csrs, i \in 0..(Blocks - 1)}
        \cup {[block1 |-> TRUE, num |-> i, m |-> i < Blocks - 1,
               data |-> <<>>] : i \in 0..(Blocks - 1)}
        \cup {[block1 |-> FALSE, num |-> 0, m |-> FALSE, data |-> <<>>]}

Msg(p) == {[op |-> o, content_type |-> v[1], accept |-> v[2], part |-> q,
            block2 |-> b] : o \in UploadOps \cup FetchOps, v \in Options,
                            q \in Part(p), b \in 0..(RespBlocks - 1)}

\* est_coap_check_option: 0 is EST_ERR_NONE, else the code of the reply.
ContentTypeError(v) ==
    CASE v = "ok" -> 0
      [] v = "other" -> 400
      [] OTHER -> 402         \* absent, repeated or not a content format

AcceptError(v) ==
    CASE v \in {"ok", "missing"} -> 0
      [] v = "other" -> 406
      [] OTHER -> 402

\* The code for an error of the enroll and fetch operations.
ErrorCode(rc, op) ==
    CASE rc \in {"BAD_PKCS10", "CSR_ATTR_MISSING", "NO_SSL_CTX"} ->
              IF op \in UploadOps THEN 400 ELSE 500
      [] rc = "HTTP_BAD_REQ" -> 400
      [] rc = "HTTP_NO_CONTENT" -> IF op \in UploadOps THEN 204 ELSE 205
      [] rc = "HTTP_NOT_FOUND" -> 404
      [] rc = "AUTH_FAIL_TLSUID" -> IF op \in UploadOps THEN 401 ELSE 500
      [] rc = "AUTH_FAIL" -> 401
      [] rc = "HTTP_UNSUPPORTED" -> 502
      [] rc \in {"CA_ENROLL_RETRY", "HTTP_LOCKED"} -> 503
      [] rc = "IP_CONNECT" -> 504
      [] OTHER -> 500

-----------------------------------------------------------------------------
(* Timers.  A stopped timer keeps its tag and start time: is_started stays *)
(* true until null_timer.                                                  *)

is_started(t) == t # "null"
is_running(t) == t = "running"

start_coap_req_timers(n) ==
    CASE ~PERF -> n
      [] PERF /\ n.cur_req = "RESET" ->
            IF is_started(n.session_timer) THEN n
            ELSE [n EXCEPT !.session_timer = "running",
                           !.req_gap_timer = "running"]
      [] OTHER ->
            IF is_started(n.handle_req_timer) THEN n
            ELSE [n EXCEPT !.handle_req_timer = "running"]

\* Mutant: the gap timer is not started.
EnterWaitWithoutGap(n) ==
    IF ~PERF \/ n.cur_req = "RESET" THEN n
    ELSE [n EXCEPT !.handle_req_timer = IF is_started(@) THEN "stopped" ELSE @]

enter_wait_coap_req_timers(n) ==
    IF ~PERF \/ n.cur_req = "RESET" THEN n
    ELSE [n EXCEPT
            !.handle_req_timer = IF is_started(@) THEN "stopped" ELSE @,
            !.req_gap_timer    = IF is_started(@) THEN @ ELSE "running"]

-----------------------------------------------------------------------------
(* The coap_req array *)

\* Mutant: the response of the previous request is not cleared.
ReinitKeepsResponse(n, new_req) ==
    start_coap_req_timers(
        [n EXCEPT !.req_buf = <<>>, !.cur_req = new_req,
                  !.handle_req_timer = "null", !.req_gap_timer = "null"])

reinit_coap_req(n, new_req) ==
    start_coap_req_timers(
        [n EXCEPT !.req_buf = <<>>, !.resp_buf = NoResp, !.cur_req = new_req,
                  !.handle_req_timer = "null", !.req_gap_timer = "null"])

\* The node get_coap_req returns for key k: the one there is, reinitialized
\* when it belongs to another request, or a new one.
get_coap_req(k, incoming_req) ==
    LET n == coap_req_array[k]
    IN  CASE ~n.used ->
                start_coap_req_timers([EmptyNode EXCEPT
                    !.used = TRUE, !.cur_req = incoming_req])
          [] n.used /\ incoming_req \notin {n.cur_req, "RESET"} ->
                reinit_coap_req(n, incoming_req)
          [] OTHER -> n

\* get_coap_req returns NULL when the key is new and no node is free.
NodeAvailable(k) == coap_req_array[k].used \/ Cardinality(Used) < cur_max

\* The node of k becomes n; a node that was not in use is counted.
Store(k, n) ==
    /\ coap_req_array' = [coap_req_array EXCEPT ![k] = n]
    /\ coap_req_cnt' = IF coap_req_array[k].used THEN coap_req_cnt
                                                 ELSE coap_req_cnt + 1

\* Mutant: every block with a payload starts a request.
StartsWithAnyBlock(part) == part.data # <<>>

\* A payload without block1 option, or in block 0, starts a request.
StartsRequest(part) == part.data # <<>> /\ (~part.block1 \/ part.num = 0)

Reply(p, msg, code, body) ==
    last' = [peer |-> p, op |-> msg.op, starts |-> StartsRequest(msg.part),
             code |-> code, body |-> body]

NoMsg == [op |-> "RESET", content_type |-> "ok", accept |-> "ok",
          part |-> [block1 |-> FALSE, num |-> 0, m |-> FALSE, data |-> <<>>],
          block2 |-> 0]

-----------------------------------------------------------------------------
(* What every request handler does in the end: reply with an error, or with*)
(* a block of the stored response.  The request is over (the timers change *)
(* to the gap between requests) on an error and on the last block.         *)

Refuse(p, msg, code) ==
    /\ Reply(p, msg, code, NoResp)
    /\ UNCHANGED <<coap_req_array, coap_req_cnt, issued>>

FailWith(p, msg, n, code) ==
    /\ Store(KeyOf[p], enter_wait_coap_req_timers(n))
    /\ Reply(p, msg, code, NoResp)

Fail(p, msg, n, code) == FailWith(p, msg, n, code) /\ UNCHANGED issued

Respond(p, msg, n) ==
    /\ Store(KeyOf[p], IF msg.block2 = RespBlocks - 1
                       THEN enter_wait_coap_req_timers(n) ELSE n)
    /\ Reply(p, msg, IF msg.op \in UploadOps THEN 204 ELSE 205, n.resp_buf)

-----------------------------------------------------------------------------
(* est_coap_sen_handler and est_coap_skg_handler *)

\* The node at the start of the handler: a payload that starts a request
\* drops whatever the node still holds.
UploadNode(k, msg) ==
    LET n == get_coap_req(k, msg.op)
    IN  IF n.req_buf # <<>> /\ StartsRequest(msg.part)
        THEN reinit_coap_req(n, msg.op) ELSE n

\* Mutant: a message with a payload is processed again.
StoredUnlessPayload(n, part) == n.resp_buf # NoResp /\ part.data = <<>>

\* The handler answers from the buffer, whatever the message carries.
StoredResponse(n, part) == n.resp_buf # NoResp

\* Mutant: the block that comes next is taken for one already seen.
PlacementNextSeen(n, part) ==
    CASE ~part.block1 -> IF part.data # <<>> THEN "replace" ELSE "none"
      [] part.block1 /\ part.data = <<>> -> "none"
      [] part.num = 0 -> "replace"
      [] OTHER -> IF part.num <= Len(n.req_buf) THEN "duplicate" ELSE "gap"

\* Where the handler puts the payload: "gap" is answered with 408, a block
\* that lies below the end of the buffer is taken for a duplicate.
Placement(n, part) ==
    CASE ~part.block1 -> IF part.data # <<>> THEN "replace" ELSE "none"
      [] part.block1 /\ part.data = <<>> -> "none"
      [] part.num = 0 -> "replace"
      [] part.num > Len(n.req_buf) -> "gap"
      [] part.num < Len(n.req_buf) -> "duplicate"
      [] OTHER -> "append"

Received(n, part) ==
    [n EXCEPT !.req_buf = CASE Placement(n, part) = "replace" -> part.data
                            [] Placement(n, part) = "append" -> @ \o part.data
                            [] OTHER -> @]

\* The CA returned a certificate in base64, for a keygen request after a key:
\* what goes into resp_buf, NoFrame when it does not fit.
SenFrame(lens) == CertFrame(lens[2])
SkgFrame(lens) == KeygenFrame(lens[1], lens[2])
Frame(op, lens) == IF op = "SKG" THEN SkgFrame(lens) ELSE SenFrame(lens)

\* The request is complete: the CA issues a certificate, whose frame is stored
\* or too long, or there is an error.
Enroll(p, msg, n) ==
    \/ /\ issued < MaxIssue
       /\ issued' = issued + 1
       /\ \E lens \in Lengths :
            LET f == Frame(msg.op, lens)
            IN  IF f = NoFrame THEN FailWith(p, msg, n, 500)
                ELSE Respond(p, msg,
                        [n EXCEPT !.resp_buf =
                            [op |-> msg.op, serial |-> issued + 1, version |-> 0,
                             csr |-> n.req_buf, frame |-> f]])
    \/ \E rc \in EnrollErrors : Fail(p, msg, n, ErrorCode(rc, msg.op))

UploadBody(p, msg) ==
    LET k == KeyOf[p]
        n == UploadNode(k, msg)
        part == msg.part
    IN  IF StoredResponse(n, part)
        THEN Respond(p, msg, n) /\ UNCHANGED issued
        ELSE CASE AcceptError(msg.accept) # 0 ->
                    Fail(p, msg, n, AcceptError(msg.accept))
               [] AcceptError(msg.accept) = 0 /\ Placement(n, part) = "gap" ->
                    Fail(p, msg, n, 408)
               [] OTHER ->
                    LET r == Received(n, part)
                    IN  CASE part.block1 /\ part.m ->
                               /\ Store(k, r)
                               /\ Reply(p, msg, 231, NoResp)
                               /\ UNCHANGED issued
                          [] ~part.block1 /\ part.data = <<>> ->
                               Fail(p, msg, r, 400)
                          [] r.req_buf = <<>> -> Fail(p, msg, r, 400)
                          [] OTHER -> Enroll(p, msg, r)

\* The checks in front of both handlers: the Content-Format, the client
\* certificate and a node.
Upload(p, msg) ==
    /\ p \in sessions
    /\ CASE ContentTypeError(msg.content_type) # 0 ->
              Refuse(p, msg, ContentTypeError(msg.content_type))
         [] ContentTypeError(msg.content_type) = 0 /\ p \notin Certified ->
              Refuse(p, msg, 401)
         [] OTHER ->
              IF NodeAvailable(KeyOf[p]) THEN UploadBody(p, msg)
                                         ELSE Refuse(p, msg, 500)
    /\ UNCHANGED <<cur_max, port, coap_ctx, sessions, version>>

est_coap_sen_handler(p, msg) == msg.op \in {"SEN", "SREN"} /\ Upload(p, msg)

est_coap_skg_handler(p, msg) == msg.op = "SKG" /\ Upload(p, msg)

-----------------------------------------------------------------------------
(* est_coap_crts_handler and est_coap_att_handler *)

\* What est_server_handle_cacerts and est_handle_csr_attrs return now.
Content(op) == [NoResp EXCEPT !.op = op, !.version = version]

Fetched(p, msg, n) ==
    \/ Respond(p, msg, [n EXCEPT !.resp_buf = Content(msg.op)]) /\ UNCHANGED issued
    \/ \E rc \in EnrollErrors : Fail(p, msg, n, ErrorCode(rc, msg.op))

FetchBody(p, msg) ==
    LET n == get_coap_req(KeyOf[p], msg.op)
    IN  CASE n.resp_buf # NoResp -> Respond(p, msg, n) /\ UNCHANGED issued
          [] n.resp_buf = NoResp /\ AcceptError(msg.accept) # 0 ->
               Fail(p, msg, n, AcceptError(msg.accept))
          [] OTHER -> Fetched(p, msg, n)

Fetch(p, msg) ==
    /\ p \in sessions /\ msg.part = NoMsg.part
    /\ IF NodeAvailable(KeyOf[p]) THEN FetchBody(p, msg) ELSE Refuse(p, msg, 500)
    /\ UNCHANGED <<cur_max, port, coap_ctx, sessions, version>>

est_coap_crts_handler(p, msg) == msg.op = "CRTS" /\ Fetch(p, msg)

\* Attributes may also be empty: a 205 without payload, nothing is stored.
AttBody(p, msg) ==
    LET n == get_coap_req(KeyOf[p], msg.op)
    IN  \/ FetchBody(p, msg)
        \/ /\ n.resp_buf = NoResp /\ AcceptError(msg.accept) = 0
           /\ Fail(p, msg, n, 205)

est_coap_att_handler(p, msg) ==
    /\ msg.op = "ATT" /\ p \in sessions /\ msg.part = NoMsg.part
    /\ IF NodeAvailable(KeyOf[p]) THEN AttBody(p, msg) ELSE Refuse(p, msg, 500)
    /\ UNCHANGED <<cur_max, port, coap_ctx, sessions, version>>

-----------------------------------------------------------------------------
(* est_coap_event_handler, and the sessions libcoap admits *)

\* A handshake ends.  Each endpoint admits its own session_max sessions.
Connected(p) ==
    /\ EndpointOf[p] \in DOMAIN coap_ctx /\ p \notin sessions
    /\ Cardinality({q \in sessions : EndpointOf[q] = EndpointOf[p]})
            < coap_ctx[EndpointOf[p]]
    /\ sessions' = sessions \cup {p}
    /\ IF NodeAvailable(KeyOf[p])
       THEN Store(KeyOf[p], get_coap_req(KeyOf[p], "RESET"))
       ELSE UNCHANGED <<coap_req_array, coap_req_cnt>>
    /\ Reply(p, NoMsg, 0, NoResp)
    /\ UNCHANGED <<cur_max, port, coap_ctx, issued, version>>

\* Mutant: the node of a closed session is not removed.
ClosedKeepsNode(p) ==
    /\ p \in sessions
    /\ sessions' = sessions \ {p}
    /\ Reply(p, NoMsg, 0, NoResp)
    /\ UNCHANGED <<coap_req_array, coap_req_cnt, cur_max, port, coap_ctx, issued,
                   version>>

\* libcoap frees a session: the node is looked up (and allocated if there is
\* none) and then removed.
Closed(p) ==
    LET k == KeyOf[p]
        cnt == IF coap_req_array[k].used THEN coap_req_cnt
                                         ELSE coap_req_cnt + 1
    IN  /\ p \in sessions
        /\ sessions' = sessions \ {p}
        /\ IF NodeAvailable(k) /\ cnt # 0
           THEN /\ coap_req_array' = [coap_req_array EXCEPT ![k] = EmptyNode]
                /\ coap_req_cnt' = cnt - 1
           ELSE UNCHANGED <<coap_req_array, coap_req_cnt>>
        /\ Reply(p, NoMsg, 0, NoResp)
        /\ UNCHANGED <<cur_max, port, coap_ctx, issued, version>>

-----------------------------------------------------------------------------
(* Configuration by the application *)

\* Mutant: one entry too many.
SetSessionMaxPlusOne(n) ==
    /\ port = 0
    /\ cur_max' = n + 1
    /\ coap_req_array' = [k \in Keys |-> EmptyNode]
    /\ UNCHANGED <<coap_req_cnt, port, coap_ctx, sessions, issued, version, last>>

est_server_set_dtls_session_max(n) ==
    /\ port = 0
    /\ cur_max' = n
    /\ coap_req_array' = [k \in Keys |-> EmptyNode]
    /\ UNCHANGED <<coap_req_cnt, port, coap_ctx, sessions, issued, version, last>>

NoContext == <<>>

\* The contexts est_server_coap_get_context may return: one endpoint for each
\* address getaddrinfo lists, every one with the whole session_max; none when
\* libcoap fails for any of them.
est_server_coap_get_context(max) ==
    {NoContext} \cup {[e \in es |-> max] : es \in SUBSET Endpoints \ {{}}}

\* The port is stored first; creating the libcoap context may then fail.
est_server_coap_init_start(pt) ==
    /\ coap_ctx = NoContext
    /\ port' = pt
    /\ coap_ctx' \in est_server_coap_get_context(cur_max)
    /\ UNCHANGED <<coap_req_array, cur_max, coap_req_cnt, sessions, issued,
                   version, last>>

\* The CA certificates or attributes the application hands out change.
NewVersion ==
    /\ version < MaxVersion
    /\ version' = version + 1
    /\ UNCHANGED <<coap_req_array, cur_max, coap_req_cnt, port, coap_ctx, sessions,
                   issued, last>>

-----------------------------------------------------------------------------
Init ==
    /\ coap_req_array = [k \in Keys |-> EmptyNode]
    /\ cur_max \in SessionMaxes
    /\ coap_req_cnt = 0
    /\ port = 0
    /\ coap_ctx = NoContext
    /\ sessions = {}
    /\ issued = 0
    /\ version = 0
    /\ last \in [peer : Peers, op : {"RESET"}, starts : {FALSE}, code : {0},
                 body : {NoResp}]

\* libcoap calls the handler that est_server_coap_init_resources registered.
Request(p) == \E msg \in Msg(p) :
    \/ est_coap_sen_handler(p, msg) \/ est_coap_skg_handler(p, msg)
    \/ est_coap_crts_handler(p, msg) \/ est_coap_att_handler(p, msg)

Next ==
    \/ \E p \in Peers : Request(p) \/ Connected(p) \/ Closed(p)
    \/ \E n \in SessionMaxes : est_server_set_dtls_session_max(n)
    \/ \E pt \in PortNums : est_server_coap_init_start(pt)
    \/ NewVersion

Spec == Init /\ [][Next]_vars

-----------------------------------------------------------------------------
(* Properties *)

\* Every variable holds what its C declaration and use allow.
TypeOK ==
    /\ coap_req_array \in [Keys -> Node]
    /\ cur_max \in SessionMaxes
    /\ coap_req_cnt \in Nat
    /\ port \in PortNums \cup {0}
    /\ DOMAIN coap_ctx \subseteq Endpoints
    /\ \A e \in DOMAIN coap_ctx : coap_ctx[e] \in SessionMaxes
    /\ sessions \subseteq Peers
    /\ issued \in 0..MaxIssue /\ version \in 0..MaxVersion
    /\ last \in [peer : Peers, op : EST_COAP_REQ, starts : BOOLEAN,
                 code : Nat, body : Response]

\* get_coap_req and remove_coap_req: coap_req_cnt is the number of nodes in
\* use, at every moment, and never exceeds the array.
\* Nodes belong to open sessions.  Behind a single endpoint every open session
\* has one, so no handler runs out of nodes; each further endpoint admits
\* session_max sessions of its own (line 2929) and may leave some without.
NodePerSession ==
    /\ coap_req_cnt = Cardinality(Used) /\ coap_req_cnt <= cur_max
    /\ Used \subseteq {KeyOf[p] : p \in sessions}
    /\ Cardinality(DOMAIN coap_ctx) = 1 => Used = {KeyOf[p] : p \in sessions}

\* A stored response answers the request the node is working on; that of an
\* upload is the certificate of precisely the bytes still in req_buf.  These,
\* whatever the order in which blocks arrive (lines 720-763), are consecutive
\* blocks of this peer from the first on.
ResponseAnswersRequest ==
    \A k \in Used :
        LET n == coap_req_array[k]
        IN  /\ n.resp_buf # NoResp =>
                /\ n.resp_buf.op = n.cur_req
                /\ n.cur_req \in UploadOps =>
                     n.resp_buf.csr = n.req_buf /\ n.req_buf # <<>>
            /\ \A i \in DOMAIN n.req_buf :
                 n.req_buf[i].num = i - 1 /\ KeyOf[n.req_buf[i].peer] = k

\* With timers on, at each moment either the handling of a request or the gap
\* between requests is timed, never both; the session as a whole is timed too,
\* unless it found no node when it opened.
OneTimerRuns ==
    PERF => \A k \in Used :
        LET n == coap_req_array[k]
        IN  /\ Cardinality(DOMAIN coap_ctx) = 1 => is_running(n.session_timer)
            /\ is_running(n.handle_req_timer) <=> ~is_running(n.req_gap_timer)

\* What a node keeps answers the request it was made for, and only that one.
\* A session that holds a certificate gets another one from the CA only when a
\* message starts a new request or asks for another operation; repeated and
\* late blocks are answered from the buffer.  What crts and att are answered
\* with is the application's content of this moment, or what this session was
\* already answered to the same request; never what some other session got.
AnsweredFromOwnBuffer ==
    [][ LET n == coap_req_array[KeyOf[last'.peer]]
        IN  /\ issued' # issued =>
                \/ ~n.used \/ n.resp_buf = NoResp
                \/ last'.starts \/ n.cur_req # last'.op
            /\ (last'.op \in FetchOps /\ last'.body # NoResp /\ last' # last) =>
                last'.body.version = version \/ last'.body = n.resp_buf ]_vars

\* The keygen answer a node holds is read back by a CBOR decoder as the two
\* identifiers, the key and the certificate, each whole; the counted length is
\* that of the bytes written and within resp_buf.  At the boundaries of the
\* length encodings and of the buffer, an answer is refused exactly when it
\* does not fit.
KeygenAnswerDecodes ==
    /\ \A k \in Used :
        LET resp == coap_req_array[k].resp_buf
        IN  resp.op = "SKG" =>
                /\ Decodes(resp.frame.buf)
                /\ resp.frame.len = WireLength(resp.frame.buf)
                /\ resp.frame.len <= COAP_REQ_NODE_BUF_LEN_MAX
    /\ \A lens \in FrameLengths :
        LET f == SkgFrame(lens)
        IN  IF Needs(lens[1], lens[2]) > COAP_REQ_NODE_BUF_LEN_MAX
            THEN f = NoFrame
            ELSE Decodes(f.buf) /\ f.len = Needs(lens[1], lens[2])
=============================================================================
