------------------------------ MODULE EstProxy ------------------------------
(***************************************************************************)
(* The EST proxy, src/src/est/est_proxy.c: a registration authority that   *)
(* answers EST clients like a server and asks an upstream EST server like  *)
(* a client.  Every thread that serves a request asks through an EST       *)
(* client context of its own, which get_client_ctx finds, or puts, in an   *)
(* array that all threads share without a lock.                            *)
(*                                                                         *)
(* A step is one access to what the threads share: a search, a sort or a   *)
(* write of the array, an exchange with the upstream server, a write or a  *)
(* read of a field of the proxy's context.  What the server side does      *)
(* before (authentication, the checks of the CSR) is in EstServer, what an *)
(* exchange does inside the client context in EstClient; here both are     *)
(* seen through their results.  Error codes have lost their EST_ERR_.      *)
(***************************************************************************)
EXTENDS Integers, Sequences, FiniteSets, TLC

CONSTANTS
    Threads,        \* threads, by their pthread_self()
    Deployments,    \* what the application makes of the proxy, what its clients ask
                    \* for, and a bound on the number of requests
    Segments,       \* path segments
    NULL,           \* no path segment
    Failures,       \* codes an exchange can fail with before there is an answer
    Statuses,       \* codes of the answers that carry nothing
    Delays,         \* Retry-After values of the upstream server
    InitialCtxs,    \* INITIAL_PROXY_CLIENT_CTXS
    Spaced,         \* do the first requests of the threads come one after the other?
    MaxArray,       \* bound: entries of the array
    MaxClients,     \* bound: client contexts ever made
    MaxChains,      \* bound: CA chains the upstream server has had
    MaxInits        \* bound: lives of the proxy

VARIABLES
    setup,              \* the deployment
    phase,              \* "setup", "up" or "down"
    ctx,                \* the proxy's EST_CTX
    cur_max_ctx_array,  \* static, survives the context
    clients,            \* the client contexts, numbered as they were made
    pc,                 \* where each thread stands
    req,                \* the request it serves
    chain,              \* the CA chain of the upstream server, a version
    requests,           \* requests so far
    inits               \* est_proxy_init so far

vars == <<setup, phase, ctx, cur_max_ctx_array, clients, pc, req, chain, requests, inits>>

-----------------------------------------------------------------------------
(* Data.                                                                   *)

HttpModes == {"BASIC", "DIGEST", "TOKEN"}
Enrollments == {"simpleenroll", "simplereenroll", "serverkeygen"}
\* "retrieve" is est_proxy_retrieve_cacerts, called by the application.
Operations == Enrollments \cup {"cacerts", "csrattrs", "retrieve"}

\* CLIENT_CTX_LU_NODE_T; thread 0 and client 0 are memzero_s's.
Node(t, c) == [threadid |-> t, client_ctx |-> c]
Empty == Node(0, 0)

\* A pointer into the array: the array it was taken from, by its size (an
\* array that is freed is followed by a larger one), and the index, 0 for
\* the null pointer.
Pointer(len, i) == [len |-> len, i |-> i]

\* "got" is what the last upstream answer carried and "told" what the client
\* was sent: a delay, a CA chain, or the number of times that attributes ask
\* for a challengePassword; -1 is nothing.  "began" is the mode of the client
\* context when the request was first sent, "asked" the one the first 401
\* asked for, "sent" the segment sent upstream, "up" the last result of the
\* exchange.  "overtaken": another thread wrote the context's field that this
\* request is about to read.
NewRequest(op, seg) ==
    [op |-> op, path_seg |-> seg, node |-> Pointer(0, 0), client |-> 0, tries |-> 0,
     began |-> "NONE", asked |-> "NONE", sent |-> NULL, up |-> "none", got |-> -1,
     told |-> -1, rv |-> "NONE", overtaken |-> FALSE]

NoRequest == NewRequest("none", NULL)

ASSUME ProxyAssumption ==
    /\ Threads \subseteq Nat \ {0}
    /\ \A d \in Deployments :
         /\ d.workers \subseteq Threads /\ d.apps \subseteq Threads \ d.workers
         /\ d.transport_mode \in {"EST_HTTP", "EST_COAP"}
         /\ d.transport_mode = "EST_COAP" => Cardinality(d.workers) = 1
         /\ d.est_port_num \in Nat /\ d.auth_mode \in HttpModes
         /\ d.max_requests \in Nat /\ d.ops \subseteq Operations \cup {"refused"}
         /\ d.server_enable_pop \in BOOLEAN /\ d.ca_certs \in BOOLEAN
         /\ d.uri_path_segment \in Segments \cup {NULL} /\ d.segments \subseteq Segments
    /\ NULL \notin Segments /\ Delays \subseteq Nat
    /\ InitialCtxs \in Nat \ {0} /\ Spaced \in BOOLEAN

Lookup == {"found", "create", "grow", "swap", "sort_grown", "set_id", "set_ctx", "sort"}
Labels == Lookup \cup {"idle", "search", "segment", "send", "wait", "store", "attrs_found",
                       "attrs_add", "reply", "done"}

-----------------------------------------------------------------------------
(* The application: est_proxy_init, the setters, start, stop, est_destroy. *)

NewArray(n) == [i \in 1 .. n |-> Empty]

\* est_proxy_init, after its checks of the parameters.  Chain 0 is the one
\* the application gave it for /cacerts, -1 is none.
est_proxy_init(d, n) ==
    [est_port_num |-> 0, auth_mode |-> "BASIC", server_enable_pop |-> d.server_enable_pop,
     uri_path_segment |-> NULL, ca_certs |-> IF d.ca_certs THEN 0 ELSE -1,
     retry_after_delay |-> 0, csr_pop_present |-> FALSE, client_ctx_array |-> NewArray(n)]

Init ==
    /\ setup \in Deployments
    /\ phase = "setup"
    /\ cur_max_ctx_array = InitialCtxs
    /\ ctx = est_proxy_init(setup, InitialCtxs)
    /\ clients = <<>>
    /\ pc = [t \in Threads |-> "idle"]
    /\ req = [t \in Threads |-> NoRequest]
    /\ chain = 1
    /\ requests = 0
    /\ inits = 1

Serving == <<cur_max_ctx_array, clients, pc, req, chain, requests, inits>>

\* A server name that is too long, or a bad port, is refused.
est_proxy_set_server ==
    /\ phase = "setup" /\ setup.est_port_num # 0
    /\ ctx' = [ctx EXCEPT !.est_port_num = setup.est_port_num]
    /\ UNCHANGED <<setup, phase, Serving>>

\* AUTH_DIGEST is refused in FIPS mode, AUTH_NONE and AUTH_FAIL always.
est_proxy_set_auth_mode ==
    /\ phase = "setup"
    /\ ctx' = [ctx EXCEPT !.auth_mode = setup.auth_mode]
    /\ UNCHANGED <<setup, phase, Serving>>

\* A segment that is empty, too long, or does not parse is refused.
est_proxy_store_path_segment ==
    /\ phase = "setup" /\ setup.uri_path_segment # NULL
    /\ ctx' = [ctx EXCEPT !.uri_path_segment = setup.uri_path_segment]
    /\ UNCHANGED <<setup, phase, Serving>>

\* est_proxy_start, or est_proxy_coap_init_start, when all is set.
est_proxy_start ==
    /\ phase = "setup"
    /\ ctx.est_port_num = setup.est_port_num /\ ctx.auth_mode = setup.auth_mode
    /\ ctx.uri_path_segment = setup.uri_path_segment
    /\ phase' = "up"
    /\ UNCHANGED <<setup, ctx, Serving>>

\* Mutant: the array is taken to have the size it once had.
CleanupInitial(cs) ==
    [c \in DOMAIN cs |->
        IF \E i \in 1 .. InitialCtxs : ctx.client_ctx_array[i].client_ctx = c
        THEN [cs[c] EXCEPT !.alive = FALSE] ELSE cs[c]]

\* Every client context in the array is destroyed.
proxy_cleanup(cs) ==
    [c \in DOMAIN cs |->
        IF \E i \in 1 .. cur_max_ctx_array : ctx.client_ctx_array[i].client_ctx = c
        THEN [cs[c] EXCEPT !.alive = FALSE] ELSE cs[c]]

\* The application stops the threads, calls est_proxy_stop and est_destroy.
est_proxy_stop ==
    /\ phase = "up" /\ \A t \in Threads : pc[t] = "idle"
    /\ phase' = "down"
    /\ clients' = proxy_cleanup(clients)
    /\ ctx' = [ctx EXCEPT !.client_ctx_array = <<>>]
    /\ UNCHANGED <<setup, cur_max_ctx_array, pc, req, chain, requests, inits>>

\* A second life: the new array has the size the old one had grown to.
InitAgain ==
    /\ phase = "down" /\ inits < MaxInits
    /\ phase' = "setup"
    /\ ctx' = est_proxy_init(setup, cur_max_ctx_array)
    /\ inits' = inits + 1
    /\ UNCHANGED <<setup, cur_max_ctx_array, clients, pc, req, chain, requests>>

-----------------------------------------------------------------------------
(* est_proxy_http_request: a request arrives, and may be refused.          *)

Goto(t, label) == pc' = [pc EXCEPT ![t] = label]

\* The rest of a request that is answered without asking upstream.
Answer(t, r) ==
    /\ Goto(t, "reply")
    /\ req' = [req EXCEPT ![t] = r]

AskUpstream(t, r) ==
    /\ Goto(t, "search")
    /\ req' = [req EXCEPT ![t] = r]

Arrives(t, threads, ops) ==
    /\ phase = "up" /\ t \in threads /\ pc[t] = "idle" /\ requests < setup.max_requests
    /\ ops \cap setup.ops # {}
    /\ requests' = requests + 1
    /\ UNCHANGED <<setup, phase, ctx, cur_max_ctx_array, clients, chain, inits>>

\* The CoAP handlers pass no path segment.
UriSegments == {NULL} \cup (IF setup.transport_mode = "EST_HTTP" THEN setup.segments ELSE {})

\* The URI does not parse or names no operation, the method is wrong, an
\* enrollment has no Content-Type or no body.
RefuseRequest(t) ==
    /\ Arrives(t, setup.workers, {"refused"})
    /\ \E code \in {"HTTP_NOT_FOUND", "WRONG_METHOD", "BAD_PKCS10"} :
         Answer(t, [NewRequest("none", NULL) EXCEPT !.rv = code])

\* A /cacerts request, answered from the context when it has the chain.
CacertsRequest(t) ==
    /\ Arrives(t, setup.workers, {"cacerts"})
    /\ \E seg \in UriSegments :
         LET r == NewRequest("cacerts", seg)
         IN IF ctx.ca_certs # -1
            THEN Answer(t, [r EXCEPT !.told = ctx.ca_certs])
            ELSE AskUpstream(t, r)

\* A /csrattrs request.
AttrsRequest(t) ==
    /\ Arrives(t, setup.workers, {"csrattrs"})
    /\ \E seg \in UriSegments : AskUpstream(t, NewRequest("csrattrs", seg))

\* What est_enroll_auth and the checks of the CSR make of an enrollment: the
\* media type, the client's authentication, the CSR, proof of possession.
Checked == {"NONE", "BAD_CONTENT_TYPE", "AUTH_PENDING", "AUTH_FAIL", "BAD_PKCS10",
            "AUTH_FAIL_TLSUID"}

EnrollChecks(t, r) ==
    \E rv \in Checked :
        IF rv = "NONE" THEN AskUpstream(t, r) ELSE Answer(t, [r EXCEPT !.rv = rv])

\* A /simpleenroll request.
EnrollRequest(t) ==
    /\ Arrives(t, setup.workers, {"simpleenroll"})
    /\ \E seg \in UriSegments : EnrollChecks(t, NewRequest("simpleenroll", seg))

\* A /simplereenroll request.
ReenrollRequest(t) ==
    /\ Arrives(t, setup.workers, {"simplereenroll"})
    /\ \E seg \in UriSegments : EnrollChecks(t, NewRequest("simplereenroll", seg))

\* A /serverkeygen request, through the same checks.
KeygenRequest(t) ==
    /\ Arrives(t, setup.workers, {"serverkeygen"})
    /\ \E seg \in UriSegments : EnrollChecks(t, NewRequest("serverkeygen", seg))

\* est_proxy_retrieve_cacerts, on a thread of the application.
RetrieveCacerts(t) ==
    /\ Arrives(t, setup.apps, {"retrieve"})
    /\ AskUpstream(t, NewRequest("retrieve", NULL))

-----------------------------------------------------------------------------
(* get_client_ctx.                                                         *)

\* How two thread ids compare: pthread_self() plus the process id, unsigned.
bsearch_compare(a, b) == a - b

\* The C library's bsearch among the first n entries: the index found, or 0.
bsearch(array, n, key) ==
    LET look[l \in 0 .. n, u \in 0 .. n] ==
            LET i == (l + u) \div 2 + 1
                c == bsearch_compare(key, array[i].threadid)
            IN CASE l >= u -> 0
                 [] l < u /\ c < 0 -> look[l, i - 1]
                 [] l < u /\ c > 0 -> look[i, u]
                 [] OTHER -> i
    IN look[0, n]

qsort(array) == SortSeq(array, LAMBDA x, y : bsearch_compare(x.threadid, y.threadid) < 0)

\* Another thread that has doubled cur_max_ctx_array but not yet replaced the
\* array makes bsearch read past it; that is not followed further.
Readable == cur_max_ctx_array = Len(ctx.client_ctx_array)

Search(t) ==
    /\ pc[t] = "search" /\ Readable
    /\ Spaced => \A u \in Threads \ {t} : pc[u] \notin Lookup
    /\ LET i == bsearch(ctx.client_ctx_array, cur_max_ctx_array, t)
       IN /\ req' = [req EXCEPT ![t].node = Pointer(cur_max_ctx_array, i)]
          /\ Goto(t, IF i = 0 THEN "create" ELSE "found")
    /\ UNCHANGED <<setup, phase, ctx, cur_max_ctx_array, clients, chain, requests, inits>>

\* c_ctx = found_node->client_ctx: whatever is there by now, and anything when
\* the array has been freed.
Found(t) ==
    /\ pc[t] = "found"
    /\ \E c \in 1 .. Len(clients) :
         /\ req[t].node.len = Len(ctx.client_ctx_array)
              => c = ctx.client_ctx_array[req[t].node.i].client_ctx
         /\ req' = [req EXCEPT ![t].client = c]
    /\ Goto(t, "segment")
    /\ UNCHANGED <<setup, phase, ctx, cur_max_ctx_array, clients, chain, requests, inits>>

\* est_client_init, est_client_set_auth and the other setters.
NewClient(t) ==
    [owner |-> t, auth_mode |-> "NONE", uri_path_segment |-> NULL, retry_after_delay |-> 0,
     retrieved_ca_certs |-> -1, est_client_initialized |-> TRUE, alive |-> TRUE]

\* The client context cannot be made: est_client_set_server refuses a proxy
\* that was given no server, and memory may run out.
CreateFails(t) ==
    /\ pc[t] = "create"
    /\ Answer(t, [req[t] EXCEPT !.rv = "NO_CTX"])
    /\ UNCHANGED <<setup, phase, ctx, cur_max_ctx_array, clients, chain, requests, inits>>

\* It is made, and an empty entry looked for.
Create(t) ==
    /\ pc[t] = "create" /\ Readable /\ ctx.est_port_num # 0 /\ Len(clients) < MaxClients
    /\ clients' = Append(clients, NewClient(t))
    /\ LET i == bsearch(ctx.client_ctx_array, cur_max_ctx_array, 0)
       IN /\ req' = [req EXCEPT ![t].client = Len(clients) + 1,
                                ![t].node = Pointer(cur_max_ctx_array, i)]
          /\ Goto(t, IF i = 0 THEN "grow" ELSE "set_id")
    /\ UNCHANGED <<setup, phase, ctx, cur_max_ctx_array, chain, requests, inits>>

Grow(t) ==
    /\ pc[t] = "grow" /\ 2 * cur_max_ctx_array <= MaxArray
    /\ cur_max_ctx_array' = 2 * cur_max_ctx_array
    /\ Goto(t, "swap")
    /\ UNCHANGED <<setup, phase, ctx, clients, req, chain, requests, inits>>

\* The entries are copied, the old array is freed.
Swap(t) ==
    /\ pc[t] = "swap" /\ cur_max_ctx_array = 2 * Len(ctx.client_ctx_array)
    /\ ctx' = [ctx EXCEPT !.client_ctx_array = @ \o NewArray(Len(@))]
    /\ Goto(t, "sort_grown")
    /\ UNCHANGED <<setup, phase, cur_max_ctx_array, clients, req, chain, requests, inits>>

SearchAgain(t) ==
    /\ pc[t] = "sort_grown" /\ Readable
    /\ LET array == qsort(ctx.client_ctx_array)
           i == bsearch(array, cur_max_ctx_array, 0)
       IN /\ ctx' = [ctx EXCEPT !.client_ctx_array = array]
          /\ req' = [req EXCEPT ![t].node = Pointer(cur_max_ctx_array, i)]
    /\ Goto(t, "set_id")
    /\ UNCHANGED <<setup, phase, cur_max_ctx_array, clients, chain, requests, inits>>

SetThreadId(t) ==
    /\ pc[t] = "set_id" /\ req[t].node.i # 0
    /\ ctx' = [ctx EXCEPT !.client_ctx_array[req[t].node.i].threadid = t]
    /\ Goto(t, "set_ctx")
    /\ UNCHANGED <<setup, phase, cur_max_ctx_array, clients, req, chain, requests, inits>>

SetClientCtx(t) ==
    /\ pc[t] = "set_ctx"
    /\ ctx' = [ctx EXCEPT !.client_ctx_array[req[t].node.i].client_ctx = req[t].client]
    /\ Goto(t, "sort")
    /\ UNCHANGED <<setup, phase, cur_max_ctx_array, clients, req, chain, requests, inits>>

SortEntries(array) == qsort(array)

Sort(t) ==
    /\ pc[t] = "sort"
    /\ ctx' = [ctx EXCEPT !.client_ctx_array = SortEntries(@)]
    /\ Goto(t, "segment")
    /\ UNCHANGED <<setup, phase, cur_max_ctx_array, clients, req, chain, requests, inits>>

-----------------------------------------------------------------------------
(* The exchange with the upstream server.                                  *)

SetClient(t, c) == clients' = [clients EXCEPT ![req[t].client] = c]
Client(t) == clients[req[t].client]

\* The segment a request should go upstream with: the client's, else the one
\* in the proxy's context.
Segment(t) == IF req[t].path_seg # NULL THEN req[t].path_seg ELSE ctx.uri_path_segment

\* est_store_path_segment, for the client context.
est_proxy_set_path_segment(c, seg) == [c EXCEPT !.uri_path_segment = seg]

\* No segment leaves the client context with the one it has.
SetSegment(t) ==
    /\ pc[t] = "segment"
    /\ IF req[t].op = "retrieve" \/ Segment(t) = NULL THEN UNCHANGED clients
       ELSE SetClient(t, est_proxy_set_path_segment(Client(t), Segment(t)))
    /\ Goto(t, "send")
    /\ UNCHANGED <<setup, phase, ctx, cur_max_ctx_array, req, chain, requests, inits>>

\* The exchange ends with a code, before the proxy has looked at it.
Ended(r, code) == [r EXCEPT !.up = code, !.got = -1]

\* est_client_get_cacerts begins with a check of the client context.
Uninitialized(t) ==
    req[t].op \in {"cacerts", "retrieve"} /\ ~Client(t).est_client_initialized

\* est_client_connect, then the request is written.
Sent(t) ==
    [req[t] EXCEPT !.sent = Client(t).uri_path_segment,
                   !.tries = IF @ < 3 THEN @ + 1 ELSE @,
                   !.began = IF req[t].tries = 0 THEN Client(t).auth_mode ELSE @]

Send(t) ==
    /\ pc[t] = "send"
    /\ req' = [req EXCEPT ![t] = IF Uninitialized(t) THEN Ended(@, "CLIENT_NOT_INITIALIZED")
                                 ELSE Sent(t)]
    /\ Goto(t, IF Uninitialized(t) THEN "store" ELSE "wait")
    /\ UNCHANGED <<setup, phase, ctx, cur_max_ctx_array, clients, chain, requests, inits>>

\* The server cannot be reached, is not who it should be, or fails on the way.
ExchangeFails(t) ==
    /\ pc[t] = "wait"
    /\ \E code \in Failures : req' = [req EXCEPT ![t] = Ended(@, code)]
    /\ Goto(t, "store")
    /\ UNCHANGED <<setup, phase, ctx, cur_max_ctx_array, clients, chain, requests, inits>>

\* Mutant: the client waits for the answer as long as it takes.
NoReadTimeout(t) == FALSE /\ UNCHANGED vars

\* The read timeout of the client context.
ReadTimeout(t) ==
    /\ pc[t] = "wait"
    /\ req' = [req EXCEPT ![t] = Ended(@, "SSL_READ")]
    /\ Goto(t, "store")
    /\ UNCHANGED <<setup, phase, ctx, cur_max_ctx_array, clients, chain, requests, inits>>

\* An answer that is not a success, a delay or a challenge.
ReadStatus(t) ==
    /\ pc[t] = "wait"
    /\ \E code \in Statuses : req' = [req EXCEPT ![t] = Ended(@, code)]
    /\ Goto(t, "store")
    /\ UNCHANGED <<setup, phase, ctx, cur_max_ctx_array, clients, chain, requests, inits>>

\* 202: the delay, or 0 when there is none that can be read.  No other answer
\* touches the delay.
ReadRetryAfter(t) ==
    /\ pc[t] = "wait"
    /\ \/ \E d \in Delays :
            /\ SetClient(t, [Client(t) EXCEPT !.retry_after_delay = d])
            /\ req' = [req EXCEPT ![t] = [Ended(@, "CA_ENROLL_RETRY") EXCEPT !.got = d]]
       \/ /\ SetClient(t, [Client(t) EXCEPT !.retry_after_delay = 0])
          /\ req' = [req EXCEPT ![t] = Ended(@, "INVALID_RETRY_VALUE")]
    /\ Goto(t, "store")
    /\ UNCHANGED <<setup, phase, ctx, cur_max_ctx_array, chain, requests, inits>>

\* Mutant: a second challenge is taken for the first.
ChallengeAgain(c, mode) == [c EXCEPT !.auth_mode = mode]

\* 401: the mode the challenge asks for, or AUTH_FAIL when the challenge is
\* no good or credentials were sent already.
Challenged(c, mode) == [c EXCEPT !.auth_mode = IF @ \in HttpModes THEN "FAIL" ELSE mode]

ReadChallenge(t) ==
    /\ pc[t] = "wait"
    /\ \E mode \in {"BASIC", "DIGEST", "FAIL"} :
         /\ SetClient(t, Challenged(Client(t), mode))
         /\ req' = [req EXCEPT ![t] = [Ended(@, "AUTH_FAIL") EXCEPT
                                         !.asked = IF req[t].tries = 1 THEN mode ELSE @]]
    /\ Goto(t, "store")
    /\ UNCHANGED <<setup, phase, ctx, cur_max_ctx_array, chain, requests, inits>>

\* 200, with a certificate, attributes (none, or asking for a challenge
\* password or not) or the CA chain.
ReadSuccess(t) ==
    /\ pc[t] = "wait"
    /\ LET Got(n) == req' = [req EXCEPT ![t] = [Ended(@, "NONE") EXCEPT !.got = n]]
       IN \/ req[t].op \in Enrollments /\ Got(0) /\ UNCHANGED clients
          \/ req[t].op = "csrattrs" /\ (\E n \in {-1, 0, 1} : Got(n)) /\ UNCHANGED clients
          \/ /\ req[t].op \in {"cacerts", "retrieve"} /\ Got(chain)
             /\ SetClient(t, [Client(t) EXCEPT !.retrieved_ca_certs = chain])
    /\ Goto(t, "store")
    /\ UNCHANGED <<setup, phase, ctx, cur_max_ctx_array, chain, requests, inits>>

\* The upstream CA is given a new chain (followed where somebody asks for it).
UpstreamRotates ==
    /\ phase = "up" /\ chain < MaxChains /\ setup.ops \cap {"cacerts", "retrieve"} # {}
    /\ chain' = chain + 1
    /\ UNCHANGED <<setup, phase, ctx, cur_max_ctx_array, clients, pc, req, requests, inits>>

-----------------------------------------------------------------------------
(* What a handler makes of the result.                                     *)

\* Mutant: the code of the exchange is the code of the answer.
Unmapped(code) == code

\* The handlers' switch: what becomes of a code the upstream exchange ended
\* with.  504 for a server out of reach, 502 for one that cannot be talked
\* to, the server's own refusals as they are, 500 for the rest.
Mapped(code) ==
    CASE code \in {"IP_GETADDR", "IP_CONNECT", "SSL_READ"} -> "IP_CONNECT"
      [] code \in {"SSL_CONNECT", "FQDN_MISMATCH", "SSL_WRITE", "ZERO_LENGTH_BUF",
                   "MULTIPART_PARSE", "UNKNOWN", "BUF_EXCEEDS_MAX_LEN",
                   "HTTP_UNSUPPORTED"} -> "HTTP_UNSUPPORTED"
      [] code \in {"NONE", "HTTP_BAD_REQ", "HTTP_NO_CONTENT", "HTTP_NOT_FOUND", "AUTH_FAIL",
                   "HTTP_LOCKED", "CA_ENROLL_RETRY"} -> code
      [] OTHER -> "UNKNOWN"

\* Mutant: the first delay is kept.
FirstDelay(t) == IF ctx.retry_after_delay # 0 THEN ctx
                 ELSE [ctx EXCEPT !.retry_after_delay = Client(t).retry_after_delay]

\* ctx->retry_after_delay = client_ctx->retry_after_delay, whatever the result.
StoredDelay(t) == [ctx EXCEPT !.retry_after_delay = Client(t).retry_after_delay]

\* Who is about to read the delay, and who csr_pop_present.
ReadsDelay(u) == pc[u] = "reply" /\ req[u].rv = "CA_ENROLL_RETRY"
ReadsPopPresent(u) == pc[u] = "attrs_add"

Overtake(t, Reads(_), rs) ==
    [u \in Threads |-> IF u # t /\ Reads(u) THEN [rs[u] EXCEPT !.overtaken = TRUE] ELSE rs[u]]

TriesAgain(t) ==
    req[t].up = "AUTH_FAIL" /\ ctx.auth_mode \in HttpModes /\ Client(t).auth_mode # "FAIL"

\* est_proxy_handle_simple_enroll and est_proxy_handle_server_keygen.
EnrollResult(t) ==
    /\ pc[t] = "store" /\ req[t].op \in Enrollments
    /\ ctx' = StoredDelay(t)
    /\ IF TriesAgain(t)
       THEN /\ Goto(t, "send")
            /\ req' = Overtake(t, ReadsDelay, req)
            /\ UNCHANGED clients
       ELSE /\ Goto(t, "reply")
            /\ req' = Overtake(t, ReadsDelay, [req EXCEPT ![t].rv = Mapped(req[t].up)])
            /\ SetClient(t, [Client(t) EXCEPT !.auth_mode = "NONE"])
    /\ UNCHANGED <<setup, phase, cur_max_ctx_array, chain, requests, inits>>

\* Over CoAP the chain moves into the proxy's context, for good.
WithChain(t) ==
    IF setup.transport_mode = "EST_COAP"
    THEN [StoredDelay(t) EXCEPT !.ca_certs = Client(t).retrieved_ca_certs]
    ELSE StoredDelay(t)

\* est_proxy_handle_cacerts.
CacertsResult(t) ==
    /\ pc[t] = "store" /\ req[t].op = "cacerts"
    /\ IF req[t].up = "NONE"
       THEN /\ ctx' = WithChain(t)
            /\ req' = Overtake(t, ReadsDelay, [req EXCEPT ![t].told = Client(t).retrieved_ca_certs])
            /\ IF setup.transport_mode = "EST_COAP"
               THEN SetClient(t, [Client(t) EXCEPT !.retrieved_ca_certs = -1])
               ELSE UNCHANGED clients
       ELSE /\ ctx' = StoredDelay(t)
            /\ req' = Overtake(t, ReadsDelay, [req EXCEPT ![t].rv = Mapped(req[t].up)])
            /\ UNCHANGED clients
    /\ Goto(t, "reply")
    /\ UNCHANGED <<setup, phase, cur_max_ctx_array, chain, requests, inits>>

\* est_client_copy_cacerts resets the client context, and it is put back.
Copied(c) == [c EXCEPT !.est_client_initialized = TRUE]

\* est_proxy_retrieve_cacerts: the application gets the code as it is.
RetrieveResult(t) ==
    /\ pc[t] = "store" /\ req[t].op = "retrieve"
    /\ IF req[t].up = "NONE"
       THEN /\ SetClient(t, Copied(Client(t)))
            /\ req' = [req EXCEPT ![t].told = Client(t).retrieved_ca_certs]
       ELSE /\ req' = [req EXCEPT ![t].rv = req[t].up]
            /\ UNCHANGED clients
    /\ Goto(t, "done")
    /\ UNCHANGED <<setup, phase, ctx, cur_max_ctx_array, chain, requests, inits>>

\* est_proxy_handle_csr_attrs, to the search for the challengePassword.  No
\* content upstream is an answer to add to when the proxy asks for PoP.
AttrsResult(t) ==
    /\ pc[t] = "store" /\ req[t].op = "csrattrs"
    /\ IF req[t].up = "NONE" \/ (req[t].up = "HTTP_NO_CONTENT" /\ ctx.server_enable_pop)
       THEN /\ ctx' = [StoredDelay(t) EXCEPT !.csr_pop_present = FALSE]
            /\ Goto(t, IF ctx.server_enable_pop THEN "attrs_found" ELSE "reply")
            /\ req' = Overtake(t, LAMBDA u : ReadsDelay(u) \/ ReadsPopPresent(u),
                               [req EXCEPT ![t].told = req[t].got])
       ELSE /\ ctx' = StoredDelay(t)
            /\ Goto(t, "reply")
            /\ req' = Overtake(t, ReadsDelay, [req EXCEPT ![t].rv = Mapped(req[t].up)])
    /\ UNCHANGED <<setup, phase, cur_max_ctx_array, clients, chain, requests, inits>>

\* ctx->csr_pop_present = pop_present, unless memory runs out.
AttrsFound(t) ==
    /\ pc[t] = "attrs_found"
    /\ \/ /\ ctx' = [ctx EXCEPT !.csr_pop_present = (req[t].got = 1)]
          /\ Goto(t, "attrs_add")
          /\ req' = Overtake(t, ReadsPopPresent, req)
       \/ /\ Answer(t, [req[t] EXCEPT !.rv = "HTTP_NO_CONTENT"])
          /\ UNCHANGED ctx
    /\ UNCHANGED <<setup, phase, cur_max_ctx_array, clients, chain, requests, inits>>

\* The canned attributes, or est_add_challengePassword.
WithChallenge(n, present) == CASE present -> n [] ~present /\ n = -1 -> 1 [] OTHER -> n + 1

AttrsAdd(t) ==
    /\ pc[t] = "attrs_add"
    /\ \/ Answer(t, [req[t] EXCEPT !.told = WithChallenge(req[t].got, ctx.csr_pop_present)])
       \/ /\ ~ctx.csr_pop_present
          /\ Answer(t, [req[t] EXCEPT !.rv = "HTTP_NO_CONTENT"])
    /\ UNCHANGED <<setup, phase, ctx, cur_max_ctx_array, clients, chain, requests, inits>>

\* The certificate, the attributes or the chain is written to the client, or
\* est_send_http_error sends what became of the code.  The delay of a 202 is
\* read from the proxy's context.
Reply(t) ==
    /\ pc[t] = "reply" /\ ~(req[t].op = "serverkeygen" /\ req[t].rv = "NONE")
    /\ \/ req' = IF req[t].rv = "CA_ENROLL_RETRY" /\ setup.transport_mode = "EST_HTTP"
                 THEN [req EXCEPT ![t].told = ctx.retry_after_delay] ELSE req
       \/ /\ req[t].rv = "NONE" /\ setup.transport_mode = "EST_HTTP"
          /\ req' = [req EXCEPT ![t].rv = "HTTP_WRITE"]
    /\ Goto(t, "done")
    /\ UNCHANGED <<setup, phase, ctx, cur_max_ctx_array, clients, chain, requests, inits>>

\* The key and the certificate are written in parts; any part may fail.  Over
\* CoAP the handler gets both.
ReplyKeygen(t) ==
    /\ pc[t] = "reply" /\ req[t].op = "serverkeygen" /\ req[t].rv = "NONE"
    /\ \/ UNCHANGED req
       \/ /\ setup.transport_mode = "EST_HTTP"
          /\ req' = [req EXCEPT ![t].rv = "HTTP_WRITE"]
    /\ Goto(t, "done")
    /\ UNCHANGED <<setup, phase, ctx, cur_max_ctx_array, clients, chain, requests, inits>>

Finish(t) ==
    /\ pc[t] = "done"
    /\ req' = [req EXCEPT ![t] = NoRequest]
    /\ Goto(t, "idle")
    /\ UNCHANGED <<setup, phase, ctx, cur_max_ctx_array, clients, chain, requests, inits>>

-----------------------------------------------------------------------------
(* The specification.                                                      *)

\* What a thread does by itself once a request is there.
ThreadStep(t) ==
    \/ Search(t) \/ Found(t) \/ CreateFails(t) \/ Create(t) \/ Grow(t) \/ Swap(t)
    \/ SearchAgain(t) \/ SetThreadId(t) \/ SetClientCtx(t) \/ Sort(t) \/ SetSegment(t)
    \/ Send(t) \/ ReadTimeout(t)
    \/ EnrollResult(t) \/ CacertsResult(t) \/ RetrieveResult(t)
    \/ AttrsResult(t) \/ AttrsFound(t) \/ AttrsAdd(t) \/ Reply(t) \/ ReplyKeygen(t)
    \/ Finish(t)

Request(t) ==
    \/ RefuseRequest(t) \/ CacertsRequest(t) \/ AttrsRequest(t) \/ EnrollRequest(t)
    \/ ReenrollRequest(t) \/ KeygenRequest(t) \/ RetrieveCacerts(t)

Upstream(t) ==
    ExchangeFails(t) \/ ReadStatus(t) \/ ReadRetryAfter(t) \/ ReadChallenge(t) \/ ReadSuccess(t)

Next ==
    \/ est_proxy_set_server \/ est_proxy_set_auth_mode \/ est_proxy_store_path_segment
    \/ est_proxy_start \/ est_proxy_stop \/ InitAgain \/ UpstreamRotates
    \/ \E t \in Threads : Request(t) \/ ThreadStep(t) \/ Upstream(t)

\* A thread that can go on does; nothing is asked of clients or of upstream.
Fairness == \A t \in Threads : WF_vars(ThreadStep(t))

Spec == Init /\ [][Next]_vars /\ Fairness

-----------------------------------------------------------------------------
(* Properties.                                                             *)

\* What a client can be told, and est_proxy_retrieve_cacerts can return.
ClientCodes == {"NONE", "HTTP_NOT_FOUND", "WRONG_METHOD", "NO_CTX", "IP_CONNECT",
                "HTTP_UNSUPPORTED", "HTTP_BAD_REQ", "HTTP_NO_CONTENT", "HTTP_LOCKED",
                "CA_ENROLL_RETRY", "UNKNOWN", "HTTP_WRITE"} \cup Checked
UpstreamCodes == Failures \cup Statuses \cup {"NONE", "SSL_READ", "CA_ENROLL_RETRY",
                    "INVALID_RETRY_VALUE", "AUTH_FAIL", "CLIENT_NOT_INITIALIZED"}
AuthModes == HttpModes \cup {"NONE", "FAIL"}

(***************************************************************************)
(* Types.  A client is told only codes that est_send_http_error and the    *)
(* CoAP handlers have an answer for, whatever the exchange ended with.     *)
(***************************************************************************)
TypeOK ==
    /\ phase \in {"setup", "up", "down"} /\ setup \in Deployments
    /\ cur_max_ctx_array \in 1 .. MaxArray /\ chain \in 1 .. MaxChains
    /\ ctx.ca_certs \in -1 .. MaxChains /\ ctx.retry_after_delay \in Delays \cup {0}
    /\ ctx.auth_mode \in HttpModes /\ ctx.csr_pop_present \in BOOLEAN
    /\ \A i \in DOMAIN ctx.client_ctx_array :
         /\ ctx.client_ctx_array[i].threadid \in Threads \cup {0}
         /\ ctx.client_ctx_array[i].client_ctx \in 0 .. Len(clients)
    /\ \A c \in DOMAIN clients :
         /\ clients[c].owner \in Threads /\ clients[c].auth_mode \in AuthModes
         /\ clients[c].uri_path_segment \in Segments \cup {NULL}
    /\ pc \in [Threads -> Labels]
    /\ \A t \in Threads :
         /\ req[t].op \in Operations \cup {"none"} /\ req[t].client \in 0 .. Len(clients)
         /\ req[t].up \in UpstreamCodes \cup {"none"} /\ req[t].tries \in 0 .. 3
         /\ req[t].rv \in ClientCodes \cup (IF req[t].op = "retrieve" THEN UpstreamCodes ELSE {})

(***************************************************************************)
(* "The key for the search is the current thread id and the value returned *)
(* is the client context that's been created for this thread"              *)
(* (est_proxy.c:75): a thread never works with the client context of       *)
(* another, nor with one that was destroyed.                               *)
(***************************************************************************)
OwnContext ==
    \A t \in Threads : pc[t] \in {"segment", "send", "wait", "store"} =>
        Client(t).owner = t /\ Client(t).alive

(***************************************************************************)
(* Between two lookups the array is sorted, as bsearch needs it, and holds *)
(* every client context there is exactly once, under its thread: growing,  *)
(* inserting and sorting lose none, and no thread has two.                 *)
(***************************************************************************)
ContextsIndexed ==
    phase = "up" /\ (\A t \in Threads : pc[t] \notin Lookup) =>
        LET a == ctx.client_ctx_array
        IN /\ \A i, j \in DOMAIN a : i < j => a[i].threadid <= a[j].threadid
           /\ \A i, j \in DOMAIN a : a[i].threadid = a[j].threadid => i = j \/ a[i] = Empty
           /\ \A c \in DOMAIN clients : clients[c].alive =>
                \E i \in DOMAIN a : a[i] = Node(clients[c].owner, c)

(***************************************************************************)
(* est_destroy of a proxy leaves no client context behind, however far the *)
(* array had grown, in this life of the proxy and in the next one.         *)
(***************************************************************************)
NothingLost == phase = "down" => \A c \in DOMAIN clients : ~clients[c].alive

(***************************************************************************)
(* A request for which the client or the proxy names a path segment goes   *)
(* upstream with that segment, not with that of an earlier request.        *)
(***************************************************************************)
SegmentGiven ==
    \A t \in Threads : pc[t] = "wait" /\ req[t].op # "retrieve" /\ Segment(t) # NULL =>
        req[t].sent = Segment(t)

(***************************************************************************)
(* "Try one more time if proxy has auth creds" (est_proxy.c:818): whatever *)
(* the upstream server answers, an enrollment goes upstream at most twice. *)
(***************************************************************************)
TriedAtMostTwice == \A t \in Threads : req[t].tries <= 2

(***************************************************************************)
(* A 401 that upstream answers with reaches the client only after the      *)
(* proxy has sent its credentials, or when the challenge cannot be         *)
(* answered.                                                               *)
(***************************************************************************)
ChallengeAnswered ==
    \A t \in Threads :
        /\ pc[t] = "done" /\ req[t].op \in Enrollments
        /\ req[t].rv = "AUTH_FAIL" /\ req[t].up = "AUTH_FAIL"
        => req[t].tries = 2 \/ req[t].asked = "FAIL" \/ req[t].began \in HttpModes

(***************************************************************************)
(* A Retry-After that the proxy sends is the one that upstream sent for    *)
(* this request, unless another thread stored its own in between.          *)
(***************************************************************************)
DelayRelayed ==
    \A t \in Threads :
        /\ pc[t] = "done" /\ req[t].rv = "CA_ENROLL_RETRY" /\ ~req[t].overtaken
        /\ setup.transport_mode = "EST_HTTP" /\ req[t].op # "retrieve"
        => req[t].told = req[t].got

(***************************************************************************)
(* A proxy that checks PoP asks its clients for the challengePassword      *)
(* exactly once, whether the upstream attributes ask for it, do not, or    *)
(* are missing, unless another thread changed csr_pop_present in between.  *)
(***************************************************************************)
PopAskedOnce ==
    \A t \in Threads :
        /\ pc[t] = "done" /\ req[t].op = "csrattrs" /\ req[t].rv = "NONE"
        /\ ctx.server_enable_pop /\ ~req[t].overtaken
        => req[t].told = 1

(***************************************************************************)
(* Over HTTP, a proxy without a chain of its own answers /cacerts with the *)
(* chain that upstream sent for this request: none is kept.                *)
(***************************************************************************)
CacertsRelayed ==
    \A t \in Threads :
        /\ pc[t] = "done" /\ req[t].op = "cacerts" /\ req[t].rv = "NONE"
        /\ setup.transport_mode = "EST_HTTP" /\ ~setup.ca_certs
        => req[t].up = "NONE" /\ req[t].told = req[t].got

(***************************************************************************)
(* "we're going to put this client context back into the initialized       *)
(* state" (est_proxy.c:435): fetching the chain for the application never  *)
(* makes a later request fail for want of an initialized client context.   *)
(***************************************************************************)
AlwaysInitialized == \A t \in Threads : req[t].up # "CLIENT_NOT_INITIALIZED"

(***************************************************************************)
(* The client contexts through the life of a proxy: each thread has its own, *)
(* the array finds it, no use of it leaves it unusable, the end destroys it. *)
(***************************************************************************)
ContextsKept == OwnContext /\ ContextsIndexed /\ AlwaysInitialized /\ NothingLost

(***************************************************************************)
(* An enrollment that upstream challenges is sent once more, with credentials *)
(* where the challenge can be answered, and never a third time.            *)
(***************************************************************************)
RetriedOnce == TriedAtMostTwice /\ ChallengeAnswered

(***************************************************************************)
(* What goes upstream is what this request names, what comes back is what  *)
(* upstream said to this request: nothing of another one is left in the    *)
(* contexts that carry them.                                               *)
(***************************************************************************)
RelayedAsItIs == SegmentGiven /\ DelayRelayed /\ PopAskedOnce /\ CacertsRelayed

(***************************************************************************)
(* Every request is answered and its thread is free again, even when the   *)
(* upstream server never answers or answers with challenges only.          *)
(***************************************************************************)
RequestAnswered == \A t \in Threads : pc[t] # "idle" ~> pc[t] = "idle"
=============================================================================
