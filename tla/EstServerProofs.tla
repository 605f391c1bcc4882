--------------------------- MODULE EstServerProofs ---------------------------
(***************************************************************************)
(* Proofs about EstServer, for any number of workers and of requests.      *)
(*                                                                         *)
(* What the CA may rely on was decided many steps earlier, so the          *)
(* invariant carries each fact from the step that establishes it to the    *)
(* call of the CA.  All of it speaks of one worker; what workers share is  *)
(* the context, and it enters only through the settings a request has seen *)
(* switched off.                                                           *)
(***************************************************************************)
EXTENDS EstServer, TLAPS

\* The steps after authentication, up to the call of the CA.
Late == {"parse_csr", "keygen", "check_csr", "check_pop", "check_attrs", "ca_cb"}

\* A request is on record from reading it to answering it, and the answer is
\* the step into "keep_alive".
Progress(w) ==
    /\ pc[w] \in {"idle", "read"} => req[w] = NoRequest
    /\ pc[w] \notin {"idle", "read", "keep_alive"} =>
          req[w].op \in Operations /\ req[w].responses = 0
    /\ pc[w] = "keep_alive" => req[w].responses = 1
    /\ req[w].attrs # 2

\* A setting that is off now has been seen off by every request in progress.
EasedSeen(w) == req[w].op # "none" => Off(ctx) \subseteq req[w].eased

Authenticated(w) ==
    /\ pc[w] = "auth_cb" => conn[w].tls # "bogus"
    /\ pc[w] \in Late =>
         /\ conn[w].tls # "bogus"
         /\ conn[w].tls \in {"valid", "no_crl", "srp"} \/ req[w].app = "accepted"
         /\ req[w].op = "simpleenroll"
                /\ req[w].eased \cap {"require_http_auth", "est_http_auth_cb"} = {}
              => req[w].app = "accepted"

\* Only two places see a user id that was not accepted: the callback that is
\* about to judge it, and the end of a request that closes the connection.
UserOk(w) == conn[w].user_id \in accepted[w] \cup {NoUser}
UserKnown(w) ==
    /\ pc[w] = "auth_cb" => req[w].app = "header" \/ UserOk(w)
    /\ pc[w] = "keep_alive" => should_close(w) \/ UserOk(w)
    /\ pc[w] \notin {"auth_cb", "keep_alive"} => UserOk(w)

CsrChecked(w) ==
    /\ pc[w] \in {"check_pop", "check_attrs", "ca_cb"} =>
          req[w].whole \/ req[w].op = "serverkeygen"
    /\ pc[w] \in {"check_attrs", "ca_cb"} =>
          conn[w].ra \/ "server_enable_pop" \in req[w].eased \/ req[w].pop = "bound"

WInv(w) == Progress(w) /\ EasedSeen(w) /\ Authenticated(w) /\ UserKnown(w) /\ CsrChecked(w)

IInv == TypeOK /\ \A w \in Workers : WInv(w)

-----------------------------------------------------------------------------
\* The step of worker w touches no other worker and no setting.
Frame(w) ==
    /\ \A v \in Workers \ {w} : /\ pc'[v] = pc[v] /\ conn'[v] = conn[v]
                                /\ req'[v] = req[v] /\ accepted'[v] = accepted[v]
    /\ Off(ctx') = Off(ctx)

Good(w) == TypeOK' /\ WInv(w)' /\ Frame(w)

\* Every error has a status between 202 and 500.
LEMMA ErrorStatus ==
    ASSUME NEW code
    PROVE  est_send_http_error(code) \in {202, 204, 400, 401, 404, 500}
  BY DEF est_send_http_error

\* Assigning a Boolean to a field of a connection or of a request.
LEMMA SetAlive ==
    \A c \in Connections, b \in BOOLEAN : [c EXCEPT !.alive = b] \in Connections
  BY DEF Connections

\* Closing a connection, or not, keeps it typed.
LEMMA SetMustClose ==
    \A c \in Connections, b \in BOOLEAN : [c EXCEPT !.must_close = b] \in Connections
  BY DEF Connections

\* Marking the CSR as parsed keeps the request typed.
LEMMA SetParsed ==
    \A r \in Requests, b \in BOOLEAN : [r EXCEPT !.parsed = b] \in Requests
  BY DEF Requests

\* Counting the answer of a request changes nothing else of it.
LEMMA SetResponses ==
    \A r \in Requests :
        LET q == [r EXCEPT !.responses = 1]
        IN  /\ q \in Requests /\ q.responses = 1 /\ q.attrs = r.attrs
            /\ q.op = r.op /\ q.eased = r.eased
  BY DEF Requests

\* The outcome of the PoP check is recorded, and nothing else.
LEMMA SetPop ==
    \A r \in Requests, pop \in {"bound", "absent"} :
        LET q == [r EXCEPT !.pop = pop]
        IN  /\ q \in Requests /\ q.pop = pop
            /\ q.app = r.app /\ q.op = r.op /\ q.eased = r.eased
            /\ q.attrs = r.attrs /\ q.responses = r.responses /\ q.whole = r.whole
  BY DEF Requests

\* Parsing an Authorization header marks the request, and nothing else.
LEMMA SetHeader ==
    \A r \in Requests :
        LET q == [r EXCEPT !.app = "header"]
        IN  /\ q \in Requests /\ q.app = "header" /\ q.op = r.op /\ q.eased = r.eased
            /\ q.attrs = r.attrs /\ q.responses = r.responses
  BY DEF Requests

\* Storing a user id leaves the TLS peer of the connection alone.
LEMMA SetUserId ==
    \A c \in Connections, u \in Users \cup {NoUser} :
        LET d == [c EXCEPT !.user_id = u] IN d \in Connections /\ d.tls = c.tls
  BY DEF Connections

\* The types of what a worker works on.
LEMMA Typed ==
    ASSUME IInv
    PROVE  /\ conn \in [Workers -> Connections] /\ req \in [Workers -> Requests]
           /\ pc \in [Workers -> Labels]
  BY DEF IInv, TypeOK

\* A new connection is typed and has no user id.
LEMMA FreshTyped ==
    \A tls \in TlsPeers, ra, alive \in BOOLEAN :
        Fresh(tls, ra, alive) \in Connections /\ Fresh(tls, ra, alive).user_id = NoUser
<1> TAKE tls \in TlsPeers, ra \in BOOLEAN, alive \in BOOLEAN
<1>1. \A b \in BOOLEAN :
        [tls |-> tls, ra |-> ra, user_id |-> NoUser, status_code |-> 0,
         must_close |-> b, alive |-> alive, requests |-> 0] \in Connections
  BY EstServerAssumption DEF Connections
<1>2. FALSE \in BOOLEAN
  BY Zenon
<1>3. Fresh(tls, ra, alive) \in Connections
  BY <1>1, <1>2, Zenon DEF Fresh
<1> QED BY <1>3 DEF Fresh

\* A request that was just read is typed and not answered.
LEMMA RequestTyped ==
    \A op \in Operations \cup {"none"}, whole \in BOOLEAN, eased \in SUBSET Settings :
        /\ NewRequest(op, whole, eased) \in Requests
        /\ NewRequest(op, whole, eased).op = op
        /\ NewRequest(op, whole, eased).attrs # 2
        /\ NewRequest(op, whole, eased).responses = 0
        /\ NewRequest(op, whole, eased).eased = eased
<1> TAKE op \in Operations \cup {"none"}, whole \in BOOLEAN, eased \in SUBSET Settings
<1>1. \A b \in BOOLEAN :
        [op |-> op, whole |-> whole, parsed |-> b, app |-> "none", pop |-> "unknown",
         attrs |-> NULL, asked |-> NULL, eased |-> eased, responses |-> 0] \in Requests
  BY DEF Requests, Attributes
<1>2. FALSE \in BOOLEAN
  BY Zenon
<1>3. NewRequest(op, whole, eased) \in Requests
  BY <1>1, <1>2, Zenon DEF NewRequest
<1> QED BY <1>3, EstServerAssumption DEF NewRequest

\* A closed connection and the absence of a request are typed.
LEMMA NoneTyped ==
    /\ NoConnection \in Connections /\ NoConnection.user_id = NoUser
    /\ NoRequest \in Requests /\ NoRequest.op = "none" /\ NoRequest.attrs # 2
    /\ NoRequest.responses = 0
<1>1. FALSE \in BOOLEAN /\ TRUE \in BOOLEAN
  BY Zenon
<1>2. NoConnection \in Connections /\ NoConnection.user_id = NoUser
  BY <1>1, "none" \in TlsPeers, FreshTyped, Zenon DEF NoConnection, TlsPeers
<1>3. "none" \in Operations \cup {"none"} /\ {} \in SUBSET Settings
  OBVIOUS
<1>4. NoRequest \in Requests
  BY <1>1, <1>3, RequestTyped, Zenon DEF NoRequest
<1>5. NoRequest.op = "none" /\ NoRequest.attrs # 2 /\ NoRequest.responses = 0
  BY EstServerAssumption DEF NoRequest, NewRequest
<1> QED BY <1>2, <1>4, <1>5

\* The initial state satisfies the invariant.
LEMMA InitIInv == Init => IInv
<1> SUFFICES ASSUME Init PROVE IInv
  OBVIOUS
<1> USE EstServerAssumption DEF Init
<1>1. NoConnection \in Connections /\ NoRequest \in Requests
  BY NoneTyped
<1>3. TypeOK
  BY <1>1 DEF TypeOK, Labels
<1>4. ASSUME NEW w \in Workers PROVE WInv(w)
  BY <1>4, NoneTyped DEF WInv, Progress, EasedSeen, Authenticated, UserKnown, CsrChecked,
                         UserOk, Late
<1> QED
  BY <1>3, <1>4 DEF IInv

\* A connection that breaks stays what it was, but for its status.
LEMMA BrokenConnection ==
    \A c \in Connections :
        /\ Broken(c) \in Connections
        /\ Broken(c).tls = c.tls /\ Broken(c).ra = c.ra
        /\ Broken(c).user_id = c.user_id /\ Broken(c).must_close = c.must_close
        /\ Broken(c).status_code = 500
<1> TAKE c \in Connections
<1>1. est_send_http_error("EST_ERR_HTTP_WRITE") = 500
  BY DEF est_send_http_error
<1>2. FALSE \in BOOLEAN
  BY Zenon
<1>3. [c EXCEPT !.status_code = 500] \in Connections
  BY DEF Connections
<1>4. PICK d \in Connections : d = [c EXCEPT !.status_code = 500]
  BY <1>3, Zenon
<1>5. [d EXCEPT !.alive = FALSE] \in Connections
  BY <1>2, SetAlive, Zenon
<1>6. Broken(c) = [d EXCEPT !.alive = FALSE]
  BY <1>1, <1>4 DEF Broken
<1>7. Broken(c) \in Connections
  BY <1>5, <1>6, Zenon
<1> QED BY <1>4, <1>6, <1>7 DEF Connections

\* A worker that has read a request and answers it, with a status that keeps
\* the connection only if its user id was accepted.
LEMMA RespondOver ==
    ASSUME IInv, NEW w \in Workers,
           NEW status \in {200, 202, 204, 400, 401, 404, 500},
           pc[w] \notin {"idle", "read", "keep_alive"},
           UserOk(w) \/ status \in {202, 400, 401, 404, 500},
           Respond(w, status),
           ctx' \in Contexts, Off(ctx') = Off(ctx),
           UNCHANGED <<accepted, changes>>
    PROVE  Good(w)
<1>t. conn \in [Workers -> Connections] /\ req \in [Workers -> Requests]
  BY Typed
<1> USE DEF IInv
<1>2. /\ conn' \in [Workers -> Connections]
      /\ \A v \in Workers \ {w} : conn'[v] = conn[v]
      /\ conn'[w].tls = conn[w].tls /\ conn'[w].ra = conn[w].ra
      /\ conn'[w].user_id = conn[w].user_id /\ conn'[w].must_close = conn[w].must_close
      /\ UserOk(w) \/ conn'[w].status_code \in {202, 400, 401, 404, 500}
  <2>1. CASE conn' = conn /\ status = 200
    BY <2>1 DEF TypeOK
  <2>2. CASE conn' = [conn EXCEPT ![w].status_code = status] /\ status # 200
    <3>1. conn' = [conn EXCEPT ![w] = [conn[w] EXCEPT !.status_code = status]]
      BY <2>2
    <3>2. status \in {202, 204, 400, 401, 404, 500}
      BY <2>2
    <3> DEFINE d == [conn[w] EXCEPT !.status_code = status]
    <3>3. conn[w] \in Connections
      BY <1>t
    <3>5. /\ d \in Connections
          /\ d.status_code = status /\ d.tls = conn[w].tls /\ d.ra = conn[w].ra
          /\ d.user_id = conn[w].user_id /\ d.must_close = conn[w].must_close
      BY <3>2, <3>3 DEF Connections
    <3>6. conn' = [conn EXCEPT ![w] = d]
      BY <3>1
    <3> HIDE DEF d
    <3>4. /\ conn' \in [Workers -> Connections] /\ conn'[w] = d
          /\ \A v \in Workers \ {w} : conn'[v] = conn[v]
      BY <1>t, <3>5, <3>6
    <3> QED BY <3>4, <3>5
  <2>3. CASE conn' = [conn EXCEPT ![w] = Broken(@)]
    BY <2>3, BrokenConnection DEF TypeOK
  <2> QED BY <2>1, <2>2, <2>3 DEF Respond
<1>3. /\ pc' = [pc EXCEPT ![w] = "keep_alive"]
      /\ req' = [req EXCEPT ![w].responses = @ + 1]
  BY DEF Respond, Goto
<1>4. req[w].responses = 0
  BY DEF WInv, Progress
<1>5. req' = [req EXCEPT ![w] = [req[w] EXCEPT !.responses = 1]]
  BY <1>3, <1>4
<1>6. TypeOK'
  <2>1. req' \in [Workers -> Requests]
    BY <1>5, <1>t, SetResponses
  <2>2. pc' \in [Workers -> Labels]
    BY <1>3 DEF TypeOK, Labels
  <2> QED BY <1>2, <2>1, <2>2 DEF TypeOK
<1>7. /\ req'[w].responses = 1 /\ req'[w].attrs = req[w].attrs
      /\ req'[w].op = req[w].op /\ req'[w].eased = req[w].eased
  BY <1>5, <1>t, SetResponses
<1>8. should_close(w)' \/ UserOk(w)'
  BY <1>2 DEF UserOk, should_close
<1>9. WInv(w)'
  BY <1>3, <1>7, <1>8 DEF TypeOK, WInv, Progress, EasedSeen, Authenticated, UserKnown,
                          CsrChecked, Late
<1>10. Frame(w)
  BY <1>2, <1>3, <1>5 DEF Frame, TypeOK
<1> QED BY <1>6, <1>9, <1>10 DEF Good

\* An error answer: of the six statuses all but 204 close the connection.
LEMMA FailOver ==
    ASSUME IInv, NEW w \in Workers, NEW code,
           pc[w] \notin {"idle", "read", "keep_alive"},
           UserOk(w) \/ code # "EST_ERR_HTTP_NO_CONTENT",
           Fail(w, code),
           ctx' \in Contexts, Off(ctx') = Off(ctx),
           UNCHANGED <<accepted, changes>>
    PROVE  Good(w)
<1> DEFINE st == est_send_http_error(code)
<1>1. st \in {202, 204, 400, 401, 404, 500}
  BY ErrorStatus
<1>2. code # "EST_ERR_HTTP_NO_CONTENT" => st # 204
  BY DEF est_send_http_error
<1>3. Respond(w, st)
  BY DEF Fail
<1> HIDE DEF st
<1> QED BY <1>1, <1>2, <1>3, RespondOver

\* An answer that leaves the context alone.
LEMMA RespondGood ==
    ASSUME IInv, NEW w \in Workers,
           NEW status \in {200, 202, 204, 400, 401, 404, 500},
           pc[w] \notin {"idle", "read", "keep_alive"},
           UserOk(w) \/ status \in {202, 400, 401, 404, 500},
           Respond(w, status),
           UNCHANGED <<ctx, accepted, changes>>
    PROVE  Good(w)
<1>1. ctx' \in Contexts /\ Off(ctx') = Off(ctx)
  BY DEF IInv, TypeOK
<1> QED BY <1>1, RespondOver

\* An error answer that leaves the context alone.
LEMMA FailGood ==
    ASSUME IInv, NEW w \in Workers, NEW code,
           pc[w] \notin {"idle", "read", "keep_alive"},
           UserOk(w) \/ code # "EST_ERR_HTTP_NO_CONTENT",
           Fail(w, code),
           UNCHANGED <<ctx, accepted, changes>>
    PROVE  Good(w)
<1>1. ctx' \in Contexts /\ Off(ctx') = Off(ctx)
  BY DEF IInv, TypeOK
<1> QED BY <1>1, FailOver

\* What a worker must know of the client to go on to the CSR.
Identified(w) ==
    /\ conn[w].tls # "bogus"
    /\ conn[w].tls \in {"valid", "no_crl", "srp"} \/ req[w].app = "accepted"
    /\ req[w].op = "simpleenroll"
           /\ req[w].eased \cap {"require_http_auth", "est_http_auth_cb"} = {}
         => req[w].app = "accepted"

\* The handlers go on with an authenticated client and answer any other with
\* an error that closes the connection.
LEMMA AuthorizedGood ==
    ASSUME IInv, NEW w \in Workers, NEW rv,
           pc[w] \in {"enroll_auth", "auth_cb"},
           rv \in {"EST_HTTP_AUTH", "EST_SRP_AUTH", "EST_CERT_AUTH"} =>
               Identified(w) /\ UserOk(w),
           Authorized(w, rv),
           UNCHANGED <<ctx, accepted, changes>>
    PROVE  Good(w)
<1>1. CASE rv \in {"EST_HTTP_AUTH", "EST_SRP_AUTH", "EST_CERT_AUTH"}
  <2>1. pc' = [pc EXCEPT ![w] = "parse_csr"] /\ conn' = conn /\ req' = req
    BY <1>1 DEF Authorized, Goto
  <2>2. TypeOK' /\ Frame(w)
    BY <2>1 DEF IInv, TypeOK, Labels, Frame
  <2>3. WInv(w)'
    BY <1>1, <2>1 DEF IInv, TypeOK, WInv, Progress, EasedSeen, Authenticated, UserKnown,
                      CsrChecked, UserOk, Identified, Late
  <2> QED BY <2>2, <2>3 DEF Good
<1>2. CASE rv \notin {"EST_HTTP_AUTH", "EST_SRP_AUTH", "EST_CERT_AUTH"}
  <2>1. \/ Fail(w, "EST_ERR_BAD_PKCS10")
        \/ Fail(w, "EST_ERR_AUTH_FAIL")
    BY <1>2 DEF Authorized
  <2> QED BY <2>1, FailGood
<1> QED BY <1>1, <1>2

-----------------------------------------------------------------------------
\* The connection loop: connecting, reading and closing.
LEMMA ConnectGood ==
    ASSUME IInv, NEW w \in Workers, est_server_handle_request(w)
    PROVE  Good(w)
<1>1. PICK tls \in TlsPeers, ra \in BOOLEAN :
        /\ conn' = [conn EXCEPT ![w] = Fresh(tls, ra, TRUE)]
        /\ pc' = [pc EXCEPT ![w] = "read"]
        /\ pc[w] = "idle"
        /\ UNCHANGED <<ctx, req, accepted, changes>>
  BY DEF est_server_handle_request, Goto
<1>2. TRUE \in BOOLEAN
  BY Zenon
<1>3. Fresh(tls, ra, TRUE) \in Connections /\ Fresh(tls, ra, TRUE).user_id = NoUser
  BY <1>2, FreshTyped, Zenon
<1>4. TypeOK' /\ Frame(w)
  BY <1>1, <1>3 DEF IInv, TypeOK, Labels, Frame
<1>5. WInv(w)'
  BY <1>1, <1>3 DEF IInv, TypeOK, WInv, Progress, EasedSeen, Authenticated, UserKnown,
                    CsrChecked, UserOk, Late
<1> QED BY <1>4, <1>5 DEF Good

\* Close: whatever led to it, the worker is left with nothing.
LEMMA CloseGood ==
    ASSUME IInv, NEW w \in Workers, Close(w)
    PROVE  Good(w)
<1> USE DEF Close, Goto
<1>1. NoConnection \in Connections /\ NoRequest \in Requests
  BY NoneTyped
<1>2. TypeOK' /\ Frame(w)
  BY <1>1 DEF IInv, TypeOK, Labels, Frame
<1>3. NoConnection.user_id = NoUser /\ NoRequest.op = "none" /\ NoRequest.attrs # 2
  BY NoneTyped
<1>4. WInv(w)'
  BY <1>3 DEF IInv, TypeOK, WInv, Progress, EasedSeen, Authenticated, UserKnown,
              CsrChecked, UserOk, Late
<1> QED BY <1>2, <1>4 DEF Good

\* Resetting the per-request attributes keeps the user id, and the TLS facts.
LEMMA ResetTyped ==
    \A c \in Connections :
        c.requests < MaxRequests =>
            /\ reset_per_request_attributes(c) \in Connections
            /\ reset_per_request_attributes(c).user_id = c.user_id
<1> TAKE c \in Connections
<1> HAVE c.requests < MaxRequests
<1> DEFINE d == [c EXCEPT !.status_code = -1]
<1>1. d \in Connections /\ d.user_id = c.user_id /\ d.requests = c.requests
  BY DEF Connections
<1> HIDE DEF d
<1> DEFINE e == [d EXCEPT !.must_close = FALSE]
<1>2. e \in Connections
  <2>1. FALSE \in BOOLEAN
    BY Zenon
  <2> QED BY <1>1, <2>1, SetMustClose, Zenon
<1>3. e.user_id = c.user_id /\ e.requests = c.requests
  BY <1>1 DEF Connections
<1> HIDE DEF e
<1> DEFINE f == [e EXCEPT !.requests = c.requests + 1]
<1>4. f \in Connections /\ f.user_id = c.user_id
  BY <1>2, <1>3, EstServerAssumption DEF Connections
<1>5. reset_per_request_attributes(c) = f
  BY <1>1, <1>2, <1>3 DEF reset_per_request_attributes, f, e, d
<1> QED BY <1>4, <1>5

\* A request the HTTP layer refuses: its status closes the connection.
LEMMA ReadRefusedGood ==
    ASSUME IInv, NEW w \in Workers, ReadRefused(w)
    PROVE  Good(w)
<1> DEFINE c == reset_per_request_attributes(conn[w])
           r == [NoRequest EXCEPT !.responses = 1]
<1>1. PICK st \in {400, 413, 505} :
        conn' = [conn EXCEPT ![w] = [c EXCEPT !.status_code = st]]
  BY DEF ReadRefused
<1>2. /\ pc' = [pc EXCEPT ![w] = "keep_alive"]
      /\ req' = [req EXCEPT ![w] = r]
      /\ UNCHANGED <<ctx, accepted, changes>>
  BY DEF ReadRefused, Goto
<1>3. c \in Connections
  BY ResetTyped DEF ReadRefused, IInv, TypeOK
<1>4. r \in Requests /\ r.op = "none" /\ r.attrs # 2 /\ r.responses = 1
  BY NoneTyped DEF Requests
<1> HIDE DEF c, r
<1>5. [c EXCEPT !.status_code = st] \in Connections
      /\ [c EXCEPT !.status_code = st].status_code >= 400
  BY <1>3 DEF Connections
<1>6. TypeOK' /\ Frame(w)
  BY <1>1, <1>2, <1>4, <1>5 DEF IInv, TypeOK, Labels, Frame
<1>7. WInv(w)'
  BY <1>1, <1>2, <1>4, <1>5 DEF IInv, TypeOK, WInv, Progress, EasedSeen, Authenticated,
                                UserKnown, CsrChecked, should_close, Late
<1> QED BY <1>6, <1>7 DEF Good

\* Reading a request: its eased settings start as those off in the context.
LEMMA ReadRequestGood ==
    ASSUME IInv, NEW w \in Workers, ReadRequest(w)
    PROVE  Good(w)
<1> DEFINE c == reset_per_request_attributes(conn[w])
<1>1. PICK op \in Operations, whole \in BOOLEAN, timeout \in BOOLEAN :
        /\ conn' = [conn EXCEPT ![w] = [c EXCEPT !.must_close = timeout]]
        /\ req' = [req EXCEPT ![w] = NewRequest(op, whole, Off(ctx))]
  BY DEF ReadRequest
<1> DEFINE r == NewRequest(op, whole, Off(ctx))
<1>2. /\ pc[w] = "read" /\ pc' = [pc EXCEPT ![w] = "request"]
      /\ UNCHANGED <<ctx, accepted, changes>>
  BY DEF ReadRequest, Goto
<1>3. c \in Connections /\ c.user_id = conn[w].user_id
  BY ResetTyped DEF ReadRequest, IInv, TypeOK
<1>4. Off(ctx) \in SUBSET Settings
  BY DEF Off
<1>5. /\ r \in Requests /\ r.op \in Operations /\ r.attrs # 2
      /\ r.responses = 0 /\ r.eased = Off(ctx)
  BY <1>4, RequestTyped
<1> HIDE DEF c, r
<1>6. [c EXCEPT !.must_close = timeout] \in Connections
      /\ [c EXCEPT !.must_close = timeout].user_id = conn[w].user_id
  BY <1>3 DEF Connections
<1>7. req' = [req EXCEPT ![w] = r]
  BY <1>1 DEF r
<1>8. TypeOK' /\ Frame(w)
  BY <1>1, <1>2, <1>5, <1>6, <1>7 DEF IInv, TypeOK, Labels, Frame
<1>9. WInv(w)'
  BY <1>1, <1>2, <1>5, <1>6, <1>7 DEF IInv, TypeOK, WInv, Progress, EasedSeen, Authenticated,
                                UserKnown, UserOk, CsrChecked, Late
<1> QED BY <1>8, <1>9 DEF Good

\* The next turn of the loop: a status that keeps the connection leaves an
\* accepted user id.
LEMMA KeepAliveGood ==
    ASSUME IInv, NEW w \in Workers, KeepAlive(w)
    PROVE  Good(w)
<1>1. TypeOK' /\ Frame(w)
  BY NoneTyped DEF KeepAlive, Goto, IInv, TypeOK, Labels, Frame
<1>2. UserOk(w)
  BY DEF KeepAlive, IInv, WInv, UserKnown
<1>3. WInv(w)'
  BY <1>2, NoneTyped DEF KeepAlive, Goto, IInv, TypeOK, WInv, Progress, EasedSeen,
                         Authenticated, UserKnown, UserOk, CsrChecked, Late
<1> QED BY <1>1, <1>3 DEF Good

-----------------------------------------------------------------------------
\* Routing, the CA certificates and the CSR attributes.
LEMMA RouteGood ==
    ASSUME IInv, NEW w \in Workers,
           RefuseRequest(w) \/ RouteRequest(w) \/ est_server_handle_cacerts(w)
    PROVE  Good(w)
<1>0. pc[w] \in {"request", "handler"} => UserOk(w)
  BY DEF IInv, WInv, UserKnown
<1>1. CASE RefuseRequest(w)
  BY <1>0, <1>1, FailGood DEF RefuseRequest
<1>2. CASE RouteRequest(w)
  <2>1. TypeOK' /\ Frame(w)
    BY <1>2 DEF RouteRequest, Goto, IInv, TypeOK, Labels, Frame
  <2>2. WInv(w)'
    BY <1>2 DEF RouteRequest, Goto, IInv, TypeOK, WInv, Progress, EasedSeen, Authenticated,
                UserKnown, UserOk, CsrChecked, Late
  <2> QED BY <2>1, <2>2 DEF Good
<1>3. CASE est_server_handle_cacerts(w)
  <2>1. /\ pc[w] = "handler" /\ UNCHANGED <<ctx, accepted, changes>>
        /\ Respond(w, 200) \/ Fail(w, "EST_ERR_HTTP_NO_CONTENT")
    BY <1>3 DEF est_server_handle_cacerts
  <2>2. CASE Respond(w, 200)
    BY <1>0, <2>1, <2>2, RespondGood
  <2>3. CASE Fail(w, "EST_ERR_HTTP_NO_CONTENT")
    BY <1>0, <2>1, <2>3, FailGood
  <2> QED BY <2>1, <2>2, <2>3
<1> QED BY <1>1, <1>2, <1>3

\* Sending attributes is one answer and changes nothing else of the request.
LEMMA AskedTyped ==
    \A r \in Requests, attrs \in Attributes :
        r.responses = 0 =>
            /\ Asked(r, attrs) \in Requests
            /\ Asked(r, attrs).op = r.op /\ Asked(r, attrs).eased = r.eased
            /\ Asked(r, attrs).attrs = r.attrs /\ Asked(r, attrs).responses = 1
<1> TAKE r \in Requests, attrs \in Attributes
<1> HAVE r.responses = 0
<1> DEFINE d == [r EXCEPT !.responses = 1]
<1>1. /\ d \in Requests /\ d.op = r.op /\ d.eased = r.eased /\ d.attrs = r.attrs
      /\ d.responses = 1
  BY DEF Requests
<1>2. Asked(r, attrs) = [d EXCEPT !.asked = attrs]
  BY DEF Asked
<1> HIDE DEF d
<1>3. [d EXCEPT !.asked = attrs] \in Requests
  BY <1>1 DEF Requests
<1> QED BY <1>1, <1>2, <1>3 DEF Requests

\* Sending CSR attributes answers the request; the context's csr_pop_present
\* is no setting.
LEMMA SendAttrsGood ==
    ASSUME IInv, NEW w \in Workers, NEW attrs \in Attributes,
           pc[w] \in {"handler", "attrs_add"},
           est_send_csrattr_data(w, attrs),
           ctx' \in Contexts, Off(ctx') = Off(ctx),
           UNCHANGED <<accepted, changes>>
    PROVE  Good(w)
<1>1. UserOk(w) /\ req[w].responses = 0
  BY DEF IInv, WInv, UserKnown, Progress
<1>2. CASE Fail(w, "EST_ERR_HTTP_NO_CONTENT")
  BY <1>1, <1>2, FailOver
<1>3. CASE /\ Goto(w, "keep_alive")
           /\ req' = [req EXCEPT ![w] = Asked(@, attrs)]
           /\ conn' = conn \/ conn' = [conn EXCEPT ![w] = Broken(@)]
  <2>1. /\ conn' \in [Workers -> Connections]
        /\ \A v \in Workers \ {w} : conn'[v] = conn[v]
        /\ conn'[w].user_id = conn[w].user_id
    BY <1>3, BrokenConnection DEF IInv, TypeOK
  <2>2. /\ req'[w] = Asked(req[w], attrs)
        /\ \A v \in Workers \ {w} : req'[v] = req[v]
        /\ req' \in [Workers -> Requests]
    BY <1>1, <1>3, AskedTyped DEF IInv, TypeOK
  <2>3. /\ req'[w].op = req[w].op /\ req'[w].eased = req[w].eased
        /\ req'[w].attrs = req[w].attrs /\ req'[w].responses = 1
    BY <1>1, <2>2, AskedTyped DEF IInv, TypeOK
  <2>4. pc' = [pc EXCEPT ![w] = "keep_alive"]
    BY <1>3 DEF Goto
  <2>5. TypeOK' /\ Frame(w)
    BY <2>1, <2>2, <2>4 DEF IInv, TypeOK, Labels, Frame
  <2>6. WInv(w)'
    BY <1>1, <2>1, <2>3, <2>4, ZenonT(60)
       DEF IInv, TypeOK, WInv, Progress, EasedSeen, Authenticated,
           UserKnown, UserOk, CsrChecked, Late
  <2> QED BY <2>5, <2>6 DEF Good
<1> QED BY <1>2, <1>3 DEF est_send_csrattr_data

\* csr_pop_present is no setting.
LEMMA SetPopPresent ==
    \A c \in Contexts, b \in BOOLEAN :
        /\ [c EXCEPT !.csr_pop_present = b] \in Contexts
        /\ Off([c EXCEPT !.csr_pop_present = b]) = Off(c)
<1> TAKE c \in Contexts, b \in BOOLEAN
<1> DEFINE d == [c EXCEPT !.csr_pop_present = b]
<1>1. d \in Contexts
  BY DEF Contexts
<1>2. \A s \in Settings : d[s] = c[s]
  BY DEF Contexts, Settings
<1>3. Off(d) = Off(c)
  BY <1>2 DEF Off
<1> QED BY <1>1, <1>3

\* est_handle_csr_attrs without a callback.
LEMMA AttrsContextGood ==
    ASSUME IInv, NEW w \in Workers, CsrAttrsFromContext(w)
    PROVE  Good(w)
<1>1. PICK attrs \in Attributes : est_send_csrattr_data(w, attrs)
  BY DEF CsrAttrsFromContext, Attributes, Contexts, IInv, TypeOK
<1>2. ctx' \in Contexts /\ Off(ctx') = Off(ctx)
  BY DEF CsrAttrsFromContext, IInv, TypeOK
<1> QED BY <1>1, <1>2, SendAttrsGood DEF CsrAttrsFromContext

\* est_handle_csr_attrs with the application's attributes.
LEMMA AttrsAppGood ==
    ASSUME IInv, NEW w \in Workers, CsrAttrsFromApp(w)
    PROVE  Good(w)
<1>1. /\ pc[w] = "handler" /\ UNCHANGED <<accepted, changes>>
      /\ UserOk(w) /\ req[w].op \in Operations /\ req[w].responses = 0
  BY DEF CsrAttrsFromApp, IInv, WInv, UserKnown, Progress
<1>2. ASSUME NEW code \in {"EST_ERR_INVALID_PARAMETERS", "EST_ERR_BAD_ASN1_HEX"},
             Fail(w, code), UNCHANGED ctx
      PROVE  Good(w)
  BY <1>1, <1>2, FailGood
<1>3. ASSUME NEW attrs \in {0, 1, NULL}, ctx' = [ctx EXCEPT !.csr_pop_present = FALSE],
             \/ /\ req' = [req EXCEPT ![w].attrs = attrs]
                /\ Goto(w, "attrs_found") /\ UNCHANGED conn
             \/ est_send_csrattr_data(w, attrs)
      PROVE  Good(w)
  <2>1. ctx' \in Contexts /\ Off(ctx') = Off(ctx)
    <3>1. FALSE \in BOOLEAN /\ ctx \in Contexts
      BY Zenon DEF IInv, TypeOK
    <3>2. /\ [ctx EXCEPT !.csr_pop_present = FALSE] \in Contexts
          /\ Off([ctx EXCEPT !.csr_pop_present = FALSE]) = Off(ctx)
      BY <3>1, SetPopPresent, Zenon
    <3> QED BY <3>2, <1>3, Zenon
  <2>2. CASE est_send_csrattr_data(w, attrs)
    BY <1>1, <2>1, <2>2, SendAttrsGood DEF Attributes
  <2>3. CASE /\ req' = [req EXCEPT ![w].attrs = attrs]
             /\ Goto(w, "attrs_found") /\ UNCHANGED conn
    <3>1. /\ req' \in [Workers -> Requests]
          /\ \A v \in Workers \ {w} : req'[v] = req[v]
          /\ req'[w].op = req[w].op /\ req'[w].eased = req[w].eased
          /\ req'[w].attrs # 2 /\ req'[w].responses = req[w].responses
      <4>1. attrs \in Attributes /\ attrs # 2
        BY EstServerAssumption DEF Attributes
      <4>2. req' = [req EXCEPT ![w].attrs = attrs] /\ req \in [Workers -> Requests]
        BY <2>3 DEF IInv, TypeOK
      <4>3. [req[w] EXCEPT !.attrs = attrs] \in Requests
        BY <4>1, <4>2 DEF Requests
      <4> QED BY <4>1, <4>2, <4>3 DEF Requests
    <3>2. TypeOK' /\ Frame(w)
      BY <1>1, <2>1, <2>3, <3>1 DEF IInv, TypeOK, Labels, Frame, Goto
    <3>3. WInv(w)'
      BY <1>1, <2>1, <2>3, <3>1 DEF Goto, IInv, TypeOK, WInv, Progress, EasedSeen,
                 Authenticated, UserKnown, UserOk, CsrChecked, Late
    <3> QED BY <3>2, <3>3 DEF Good
  <2> QED BY <1>3, <2>2, <2>3
<1> QED BY <1>1, <1>2, <1>3 DEF CsrAttrsFromApp

\* The assignment to csr_pop_present, or its failure.
LEMMA AttrsFoundGood ==
    ASSUME IInv, NEW w \in Workers, CsrAttrsFound(w)
    PROVE  Good(w)
<1>0. pc[w] = "attrs_found" /\ UNCHANGED <<accepted, changes>>
  BY DEF CsrAttrsFound
<1>1. CASE Fail(w, "EST_ERR_MALLOC") /\ UNCHANGED ctx
  BY <1>0, <1>1, FailGood
<1>2. CASE /\ ctx' = [ctx EXCEPT !.csr_pop_present = (req[w].attrs = 1)]
           /\ Goto(w, "attrs_add")
           /\ UNCHANGED <<conn, req>>
  <2>1. ctx' \in Contexts /\ Off(ctx') = Off(ctx)
    <3>1. (req[w].attrs = 1) \in BOOLEAN /\ ctx \in Contexts
      BY Zenon DEF IInv, TypeOK
    <3> QED BY <1>2, <3>1, SetPopPresent, Zenon
  <2>2. /\ pc' = [pc EXCEPT ![w] = "attrs_add"]
        /\ UNCHANGED <<conn, req>>
    BY <1>2 DEF Goto
  <2>3. TypeOK' /\ Frame(w)
    BY <1>0, <2>1, <2>2 DEF IInv, TypeOK, Labels, Frame
  <2>4. WInv(w)'
    BY <1>0, <2>1, <2>2 DEF IInv, TypeOK, WInv, Progress, EasedSeen,
                Authenticated, UserKnown, UserOk, CsrChecked, Late
  <2> QED BY <2>3, <2>4 DEF Good
<1> QED BY <1>1, <1>2 DEF CsrAttrsFound

\* est_add_challengePassword and the answer, or its failure.
LEMMA AttrsAddGood ==
    ASSUME IInv, NEW w \in Workers, CsrAttrsAdd(w)
    PROVE  Good(w)
<1>0. pc[w] = "attrs_add" /\ UNCHANGED <<ctx, accepted, changes>>
  BY DEF CsrAttrsAdd
<1>1. req[w].attrs \in {0, 1, NULL}
  <2>1. req[w].attrs \in Attributes
    BY Typed DEF Requests
  <2>2. req[w].attrs # 2
    BY <1>0 DEF IInv, WInv, Progress
  <2> QED BY <2>1, <2>2 DEF Attributes
<1>2. WithChallenge(req[w].attrs, ctx.csr_pop_present) \in Attributes
  BY <1>1 DEF WithChallenge, Attributes
<1>3. ctx' \in Contexts /\ Off(ctx') = Off(ctx)
  BY <1>0 DEF IInv, TypeOK
<1>4. CASE est_send_csrattr_data(w, WithChallenge(req[w].attrs, ctx.csr_pop_present))
  BY <1>0, <1>2, <1>3, <1>4, SendAttrsGood
<1>5. CASE Fail(w, "EST_ERR_MALLOC")
  BY <1>0, <1>5, FailGood
<1> QED BY <1>4, <1>5 DEF CsrAttrsAdd

-----------------------------------------------------------------------------
\* Authentication.
LEMMA EnrollChecksGood ==
    ASSUME IInv, NEW w \in Workers, EnrollChecks(w)
    PROVE  Good(w)
<1>1. pc[w] = "handler" /\ UserOk(w) /\ UNCHANGED <<ctx, accepted, changes>>
  BY DEF EnrollChecks, IInv, WInv, UserKnown
<1>2. CASE Fail(w, "EST_ERR_NULL_CALLBACK") \/ Fail(w, "EST_ERR_BAD_CONTENT_TYPE")
  BY <1>1, <1>2, FailGood
<1>3. CASE Goto(w, "enroll_auth") /\ UNCHANGED <<conn, req>>
  <2>1. TypeOK' /\ Frame(w)
    BY <1>1, <1>3 DEF Goto, IInv, TypeOK, Labels, Frame
  <2>2. WInv(w)'
    BY <1>1, <1>3 DEF Goto, IInv, TypeOK, WInv, Progress, EasedSeen,
              Authenticated, UserKnown, UserOk, CsrChecked, Late
  <2> QED BY <2>1, <2>2 DEF Good
<1> QED BY <1>2, <1>3 DEF EnrollChecks

\* TLS alone suffices only while one of the two settings is off.
LEMMA AuthByTlsGood ==
    ASSUME IInv, NEW w \in Workers, AuthByTls(w)
    PROVE  Good(w)
<1>1. /\ pc[w] = "enroll_auth" /\ UserOk(w) /\ UNCHANGED <<ctx, accepted, changes>>
      /\ req[w].op \in Operations
  BY DEF AuthByTls, IInv, WInv, UserKnown, Progress
<1>2. ASSUME TlsAuth(w) \in {"EST_HTTP_AUTH", "EST_SRP_AUTH", "EST_CERT_AUTH"}
      PROVE  Identified(w)
  <2>1. conn[w].tls \in {"valid", "no_crl", "srp"}
    BY <1>2 DEF TlsAuth
  <2>2. ~ctx.est_http_auth_cb \/ ~ctx.require_http_auth
    BY <1>2, <2>1 DEF AuthByTls, TryHttpAuth
  <2>3. Off(ctx) \subseteq req[w].eased
    BY <1>1 DEF IInv, WInv, EasedSeen, Operations, Enrollments
  <2>4. "est_http_auth_cb" \in Off(ctx) \/ "require_http_auth" \in Off(ctx)
    BY <2>2 DEF Off, Settings
  <2> QED BY <2>1, <2>3, <2>4 DEF Identified
<1> QED BY <1>1, <1>2, AuthorizedGood, SMTT(60) DEF AuthByTls

\* A bad header leaves the decision to the certificate, but not for a first
\* enrollment.
LEMMA BadHeaderGood ==
    ASSUME IInv, NEW w \in Workers, pc[w] = "enroll_auth", BadHeader(w),
           UNCHANGED <<ctx, accepted, changes>>
    PROVE  Good(w)
<1> DEFINE rv == IF req[w].op # "simpleenroll" /\ TlsAuth(w) = "EST_CERT_AUTH"
                 THEN "EST_CERT_AUTH" ELSE "EST_UNAUTHORIZED"
<1>1. UserOk(w)
  BY DEF IInv, WInv, UserKnown
<1>2. ASSUME rv \in {"EST_HTTP_AUTH", "EST_SRP_AUTH", "EST_CERT_AUTH"}
      PROVE  Identified(w)
  BY <1>2 DEF TlsAuth, Identified
<1>3. PICK v : v = rv
  OBVIOUS
<1>4. Authorized(w, v)
  BY <1>3 DEF BadHeader
<1> HIDE DEF rv
<1> QED BY <1>1, <1>2, <1>3, <1>4, AuthorizedGood

\* A good header puts a user id on the connection that is not accepted yet.
LEMMA ParseHeaderGood ==
    ASSUME IInv, NEW w \in Workers, mg_parse_auth_header(w)
    PROVE  Good(w)
<1>1. /\ pc[w] = "enroll_auth" /\ UserOk(w) /\ UNCHANGED <<ctx, accepted, changes>>
      /\ conn[w].tls # "bogus" /\ req[w].op \in Operations /\ req[w].responses = 0
  BY DEF mg_parse_auth_header, TryHttpAuth, IInv, WInv, UserKnown, Progress
<1>2. CASE Respond(w, 401)
  BY <1>1, <1>2, RespondGood
<1>3. CASE BadHeader(w)
  BY <1>1, <1>3, BadHeaderGood
<1>4. CASE /\ \E user \in Users :
                conn' = [conn EXCEPT ![w].user_id = IF ctx.auth_mode = "token" THEN @ ELSE user]
           /\ req' = [req EXCEPT ![w].app = "header"]
           /\ Goto(w, "auth_cb")
  <2>1. PICK u : /\ conn' = [conn EXCEPT ![w].user_id = u]
                 /\ u \in Users \/ u = conn[w].user_id
    BY <1>4
  <2>2. u \in Users \cup {NoUser}
    <3>1. conn[w].user_id \in Users \cup {NoUser}
      BY Typed DEF Connections
    <3> QED BY <2>1, <3>1
  <2>3. /\ conn' \in [Workers -> Connections]
        /\ \A v \in Workers \ {w} : conn'[v] = conn[v]
        /\ conn'[w].tls = conn[w].tls
    <3>1. conn' = [conn EXCEPT ![w] = [conn[w] EXCEPT !.user_id = u]]
      BY <2>1
    <3> QED BY <2>2, <3>1, SetUserId, Typed
  <2>4. /\ req' \in [Workers -> Requests]
        /\ \A v \in Workers \ {w} : req'[v] = req[v]
        /\ req'[w].app = "header" /\ req'[w].op = req[w].op
        /\ req'[w].eased = req[w].eased /\ req'[w].attrs = req[w].attrs
        /\ req'[w].responses = req[w].responses
    <3>1. req' = [req EXCEPT ![w] = [req[w] EXCEPT !.app = "header"]]
      BY <1>4
    <3> QED BY <3>1, SetHeader, Typed
  <2>5. pc' = [pc EXCEPT ![w] = "auth_cb"]
    BY <1>4 DEF Goto
  <2>6. TypeOK' /\ Frame(w)
    BY <1>1, <2>3, <2>4, <2>5 DEF IInv, TypeOK, Labels, Frame
  <2>7. WInv(w)'
    BY <1>1, <2>3, <2>4, <2>5, ZenonT(60)
       DEF IInv, TypeOK, WInv, Progress, EasedSeen, Authenticated,
           UserKnown, CsrChecked, Late
  <2> QED BY <2>6, <2>7 DEF Good
<1> QED BY <1>2, <1>3, <1>4 DEF mg_parse_auth_header

\* An identity taken from the certificate keeps the request typed.
LEMMA FromCertTyped ==
    \A r \in Requests, b \in BOOLEAN :
        /\ FromCert(r, b) \in Requests
        /\ FromCert(r, b).app = "cert" /\ FromCert(r, b).op = r.op
        /\ FromCert(r, b).eased = r.eased /\ FromCert(r, b).attrs = r.attrs
        /\ FromCert(r, b).responses = r.responses
<1> TAKE r \in Requests, b \in BOOLEAN
<1> DEFINE d == [r EXCEPT !.app = "cert"]
<1>1. /\ d \in Requests /\ d.app = "cert" /\ d.op = r.op /\ d.eased = r.eased
      /\ d.attrs = r.attrs /\ d.responses = r.responses
  BY DEF Requests
<1>2. FromCert(r, b) = [d EXCEPT !.parsed = b]
  BY DEF FromCert
<1> HIDE DEF d
<1>3. [d EXCEPT !.parsed = b] \in Requests
  BY <1>1, SetParsed
<1> QED BY <1>1, <1>2, <1>3 DEF Requests

\* Enhanced certificate authentication leaves the user id alone.
LEMMA EnhancedGood ==
    ASSUME IInv, NEW w \in Workers, handle_enhanced_cert_auth(w)
    PROVE  Good(w)
<1>1. /\ pc[w] = "enroll_auth" /\ UserOk(w) /\ UNCHANGED <<ctx, accepted, changes>>
      /\ conn[w].tls # "bogus" /\ req[w].op \in Operations /\ req[w].responses = 0
  BY DEF handle_enhanced_cert_auth, TryHttpAuth, IInv, WInv, UserKnown, Progress
<1>2. CASE Authorized(w, "EST_UNAUTHORIZED") \/ Authorized(w, "EST_CSR_PARSE_FAIL")
  BY <1>1, <1>2, AuthorizedGood
<1>3. CASE BadHeader(w)
  BY <1>1, <1>3, BadHeaderGood
<1>4. CASE /\ req' = [req EXCEPT ![w] = FromCert(@, ctx.enhanced_cert_auth = "csr_check")]
           /\ Goto(w, "auth_cb") /\ UNCHANGED conn
  <2>1. PICK b \in BOOLEAN : b = (ctx.enhanced_cert_auth = "csr_check")
    BY Zenon
  <2>2. req' = [req EXCEPT ![w] = FromCert(req[w], b)]
    BY <1>4, <2>1
  <2>3. /\ req' \in [Workers -> Requests]
        /\ \A v \in Workers \ {w} : req'[v] = req[v]
        /\ req'[w].app = "cert" /\ req'[w].op = req[w].op
        /\ req'[w].eased = req[w].eased /\ req'[w].attrs = req[w].attrs
        /\ req'[w].responses = req[w].responses
    BY <2>2, FromCertTyped DEF IInv, TypeOK
  <2>4. TypeOK' /\ Frame(w)
    BY <1>1, <1>4, <2>3 DEF Goto, IInv, TypeOK, Labels, Frame
  <2>5. WInv(w)'
    BY <1>1, <1>4, <2>3, ZenonT(120)
       DEF Goto, IInv, TypeOK, WInv, Progress, EasedSeen, Authenticated,
           UserKnown, UserOk, CsrChecked, Late
  <2> QED BY <2>4, <2>5 DEF Good
<1> QED BY <1>2, <1>3, <1>4 DEF handle_enhanced_cert_auth

\* The callback judges the user id; when it rejects, the connection ends.
LEMMA AuthCallbackGood ==
    ASSUME IInv, NEW w \in Workers, est_http_auth_cb(w)
    PROVE  Good(w)
<1>1. /\ pc[w] = "auth_cb" /\ UNCHANGED <<ctx, changes>> /\ conn[w].tls # "bogus"
      /\ req[w].app = "header" \/ UserOk(w)
      /\ req[w].op \in Operations /\ req[w].responses = 0
  BY DEF est_http_auth_cb, IInv, WInv, UserKnown, Progress, Authenticated
<1>2. CASE Authorized(w, "EST_UNAUTHORIZED") /\ UNCHANGED accepted
  BY <1>1, <1>2, AuthorizedGood, SMTT(30)
<1>3. CASE /\ accepted' = IF req[w].app = "header" /\ conn[w].user_id # NoUser
                          THEN [accepted EXCEPT ![w] = @ \cup {conn[w].user_id}] ELSE accepted
           /\ req' = [req EXCEPT ![w].app = "accepted"]
           /\ Goto(w, "parse_csr") /\ UNCHANGED conn
  <2>1. /\ accepted' \in [Workers -> SUBSET Users]
        /\ \A v \in Workers \ {w} : accepted'[v] = accepted[v]
        /\ conn[w].user_id \in accepted'[w] \cup {NoUser}
    <3>1. conn[w].user_id \in Users \cup {NoUser}
      BY Typed DEF Connections
    <3>2. CASE req[w].app = "header" /\ conn[w].user_id # NoUser
      BY <1>3, <3>1, <3>2 DEF IInv, TypeOK
    <3>3. CASE ~(req[w].app = "header" /\ conn[w].user_id # NoUser)
      BY <1>1, <1>3, <3>3 DEF IInv, TypeOK, UserOk
    <3> QED BY <3>2, <3>3
  <2>2. /\ req' \in [Workers -> Requests]
        /\ \A v \in Workers \ {w} : req'[v] = req[v]
        /\ req'[w].app = "accepted" /\ req'[w].op = req[w].op
        /\ req'[w].eased = req[w].eased /\ req'[w].attrs = req[w].attrs
        /\ req'[w].responses = req[w].responses
    <3>1. req' = [req EXCEPT ![w].app = "accepted"] /\ req \in [Workers -> Requests]
      BY <1>3 DEF IInv, TypeOK
    <3>2. req'[w] = [req[w] EXCEPT !.app = "accepted"] /\ req[w] \in Requests
      BY <3>1
    <3>3. req'[w] \in Requests
      BY <3>2 DEF Requests
    <3> QED BY <3>1, <3>2, <3>3 DEF Requests
  <2>3. TypeOK' /\ Frame(w)
    BY <1>1, <1>3, <2>1, <2>2 DEF Goto, IInv, TypeOK, Labels, Frame
  <2>4. pc'[w] = "parse_csr" /\ conn'[w] = conn[w]
    BY <1>3 DEF Goto, IInv, TypeOK
  <2>5. UserOk(w)'
    BY <2>1, <2>4 DEF UserOk
  <2>6. WInv(w)'
    BY <1>1, <2>2, <2>4, <2>5 DEF IInv, WInv, Progress, EasedSeen, Authenticated, UserKnown,
                                  CsrChecked, Late
  <2> QED BY <2>3, <2>6 DEF Good
<1> QED BY <1>2, <1>3 DEF est_http_auth_cb

-----------------------------------------------------------------------------
\* The CSR.
LEMMA ParseCsrGood ==
    ASSUME IInv, NEW w \in Workers, est_server_parse_csr(w)
    PROVE  Good(w)
<1>1. pc[w] = "parse_csr" /\ UserOk(w) /\ UNCHANGED <<ctx, accepted, changes>>
  BY DEF est_server_parse_csr, IInv, WInv, UserKnown
<1>2. CASE Fail(w, "EST_ERR_BAD_PKCS10")
  BY <1>1, <1>2, FailGood
<1>3. CASE /\ req' = [req EXCEPT ![w].parsed = TRUE]
           /\ Goto(w, IF req[w].op = "serverkeygen" THEN "keygen" ELSE "check_csr")
           /\ UNCHANGED conn
  <2>1. PICK r \in Requests : r = req[w]
    BY DEF IInv, TypeOK
  <2>2. [r EXCEPT !.parsed = TRUE] \in Requests
    <3>1. TRUE \in BOOLEAN
      BY Zenon
    <3> QED BY <3>1, SetParsed, Zenon
  <2>3. req' = [req EXCEPT ![w] = [r EXCEPT !.parsed = TRUE]]
    BY <1>3, <2>1 DEF IInv, TypeOK
  <2>4. /\ req' \in [Workers -> Requests]
        /\ \A v \in Workers \ {w} : req'[v] = req[v]
    BY <2>2, <2>3 DEF IInv, TypeOK
  <2>5. /\ req'[w].app = req[w].app /\ req'[w].op = req[w].op
        /\ req'[w].eased = req[w].eased /\ req'[w].attrs = req[w].attrs
        /\ req'[w].responses = req[w].responses
    <3>1. req'[w] = [r EXCEPT !.parsed = TRUE]
      BY <2>3, Typed
    <3> QED BY <2>1, <3>1 DEF Requests
  <2>6. PICK l \in {"keygen", "check_csr"} : pc' = [pc EXCEPT ![w] = l]
    BY <1>3 DEF Goto
  <2>7. TypeOK' /\ Frame(w)
    BY <1>1, <1>3, <2>4, <2>6 DEF IInv, TypeOK, Labels, Frame
  <2>8. pc'[w] = l /\ conn'[w] = conn[w]
    BY <1>3, <2>6 DEF IInv, TypeOK
  <2>9. WInv(w)'
    BY <1>1, <2>5, <2>6, <2>8, ZenonT(60)
       DEF IInv, WInv, Progress, EasedSeen, Authenticated, UserKnown,
           UserOk, CsrChecked, Late
  <2> QED BY <2>7, <2>9 DEF Good
<1> QED BY <1>2, <1>3 DEF est_server_parse_csr

\* The steps that test the CSR and go on, or fail.
LEMMA CheckCsrGood ==
    ASSUME IInv, NEW w \in Workers,
           KeyGeneration(w) \/ est_server_check_csr(w) \/ CheckAttrs(w)
    PROVE  Good(w)
<1>1. /\ pc[w] \in {"keygen", "check_csr", "check_attrs"} /\ UserOk(w)
      /\ UNCHANGED <<ctx, accepted, changes>>
  BY DEF KeyGeneration, est_server_check_csr, CheckAttrs, IInv, WInv, UserKnown
<1>2. CASE \E code \in {"EST_ERR_NO_KEY", "EST_ERR_BAD_PKCS10", "EST_ERR_CSR_ATTR_MISSING"} :
             Fail(w, code)
  BY <1>1, <1>2, FailGood
<1>3. ASSUME NEW l \in {"check_csr", "check_pop", "check_attrs", "ca_cb"},
             Goto(w, l), UNCHANGED <<conn, req>>,
             \/ l = "check_csr"
             \/ l = "check_pop" /\ SignatureVerifies(w)
             \/ l = "check_attrs" /\ SignatureVerifies(w) /\ conn[w].ra
             \/ l = "ca_cb" /\ pc[w] = "check_attrs"
      PROVE  Good(w)
  <2>1. TypeOK' /\ Frame(w)
    BY <1>1, <1>3 DEF Goto, IInv, TypeOK, Labels, Frame
  <2>2. WInv(w)'
    BY <1>1, <1>3, ZenonT(60)
       DEF Goto, IInv, TypeOK, WInv, Progress, EasedSeen, Authenticated,
           UserKnown, UserOk, CsrChecked, Late, SignatureVerifies
  <2> QED BY <2>1, <2>2 DEF Good
<1>4. CASE KeyGeneration(w)
  BY <1>2, <1>3, <1>4 DEF KeyGeneration
<1>5. CASE est_server_check_csr(w)
  BY <1>2, <1>3, <1>5 DEF est_server_check_csr
<1>6. CASE CheckAttrs(w)
  BY <1>2, <1>3, <1>6 DEF CheckAttrs
<1> QED BY <1>4, <1>5, <1>6

\* A CSR without the TLS unique id passes only while PoP is off.
LEMMA TlsUidGood ==
    ASSUME IInv, NEW w \in Workers, est_tls_uid_auth(w)
    PROVE  Good(w)
<1>1. /\ pc[w] = "check_pop" /\ UserOk(w) /\ UNCHANGED <<ctx, accepted, changes>>
      /\ req[w].op \in Operations
  BY DEF est_tls_uid_auth, IInv, WInv, UserKnown, Progress
<1>2. CASE Fail(w, "EST_ERR_AUTH_FAIL_TLSUID")
  BY <1>1, <1>2, FailGood
<1>3. ASSUME NEW pop \in {"bound", "absent"},
             pop = "absent" => ~ctx.server_enable_pop,
             req' = [req EXCEPT ![w].pop = pop],
             Goto(w, "check_attrs"), UNCHANGED conn
      PROVE  Good(w)
  <2>1. /\ req' \in [Workers -> Requests]
        /\ \A v \in Workers \ {w} : req'[v] = req[v]
        /\ req'[w].app = req[w].app /\ req'[w].op = req[w].op
        /\ req'[w].eased = req[w].eased /\ req'[w].attrs = req[w].attrs
        /\ req'[w].responses = req[w].responses /\ req'[w].whole = req[w].whole
        /\ req'[w].pop = pop
    <3>1. req \in [Workers -> Requests]
      BY DEF IInv, TypeOK
    <3>2. req' = [req EXCEPT ![w] = [req[w] EXCEPT !.pop = pop]]
      BY <1>3
    <3> QED BY <3>1, <3>2, SetPop, ZenonT(60)
  <2>2. pop = "bound" \/ "server_enable_pop" \in req[w].eased
    <3>1. Off(ctx) \subseteq req[w].eased
      BY <1>1 DEF IInv, WInv, EasedSeen, Operations, Enrollments
    <3>2. pop = "absent" => "server_enable_pop" \in Off(ctx)
      BY <1>3 DEF Off, Settings
    <3> QED BY <3>1, <3>2
  <2>3. TypeOK' /\ Frame(w)
    BY <1>1, <1>3, <2>1 DEF Goto, IInv, TypeOK, Labels, Frame
  <2>4. pc'[w] = "check_attrs" /\ conn'[w] = conn[w]
    BY <1>3 DEF Goto, IInv, TypeOK
  <2>5. WInv(w)'
    BY <1>1, <2>1, <2>2, <2>4, ZenonT(60)
       DEF IInv, WInv, Progress, EasedSeen, Authenticated, UserKnown,
           UserOk, CsrChecked, Late
  <2> QED BY <2>3, <2>5 DEF Good
<1> QED BY <1>1, <1>2, <1>3 DEF est_tls_uid_auth

\* The CA answers with a certificate, a retry or an error.
LEMMA CaGood ==
    ASSUME IInv, NEW w \in Workers, CaCallback(w)
    PROVE  Good(w)
<1>1. pc[w] = "ca_cb" /\ UserOk(w) /\ UNCHANGED <<ctx, accepted, changes>>
  BY DEF CaCallback, IInv, WInv, UserKnown
<1>2. PICK st \in {200, 202, 500} : Respond(w, st)
  BY DEF CaCallback, EnrollCodes, est_send_http_error
<1> QED BY <1>1, <1>2, RespondGood

-----------------------------------------------------------------------------
\* The application may change a setting at any moment: requests in progress
\* have then seen it off, and that weakens what is promised about them.
LEMMA ReconfigureGood ==
    ASSUME IInv, NEW c \in Contexts, Reconfigure(c)
    PROVE  IInv'
<1>1. /\ ctx' = c /\ changes' = changes + 1 /\ changes < MaxChanges
      /\ UNCHANGED <<pc, conn, accepted>>
  BY DEF Reconfigure
<1>2. Off(c) \subseteq Settings
  BY DEF Off
<1>3. \A w \in Workers :
        req'[w] = [req[w] EXCEPT !.eased = IF req[w].op = "none" THEN @ ELSE @ \cup Off(c)]
  BY DEF Reconfigure
<1>4. ASSUME NEW w \in Workers
      PROVE  /\ req'[w] \in Requests /\ req[w] \in Requests
             /\ req[w].op = "none" => req'[w] = req[w]
             /\ req[w].op # "none" => req'[w].eased = req[w].eased \cup Off(c)
             /\ req'[w].op = req[w].op /\ req'[w].app = req[w].app
             /\ req'[w].whole = req[w].whole /\ req'[w].pop = req[w].pop
             /\ req'[w].attrs = req[w].attrs /\ req'[w].responses = req[w].responses
  <2>1. req[w] \in Requests
    BY <1>4 DEF IInv, TypeOK
  <2>2. CASE req[w].op = "none"
    <3>1. req'[w] = [req[w] EXCEPT !.eased = req[w].eased]
      BY <1>3, <1>4, <2>2
    <3>2. req'[w] = req[w]
      BY <2>1, <3>1 DEF Requests
    <3> QED BY <2>1, <2>2, <3>2
  <2>3. CASE req[w].op # "none"
    <3>1. PICK e \in SUBSET Settings : e = req[w].eased \cup Off(c)
      BY <1>2, <2>1 DEF Requests
    <3>2. req'[w] = [req[w] EXCEPT !.eased = e]
      BY <1>3, <1>4, <2>3, <3>1
    <3>3. req'[w] \in Requests
      BY <2>1, <3>2 DEF Requests
    <3> QED BY <2>1, <2>3, <3>1, <3>2, <3>3 DEF Requests
  <2> QED BY <2>2, <2>3
<1>5. TypeOK'
  <2>1. DOMAIN req' = Workers /\ req' = [w \in Workers |-> req'[w]]
    BY DEF Reconfigure
  <2>2. req' \in [Workers -> Requests]
    BY <1>4, <2>1
  <2> QED BY <1>1, <2>2, EstServerAssumption DEF IInv, TypeOK
<1>6. ASSUME NEW w \in Workers PROVE WInv(w)'
  <2>1. WInv(w)
    BY <1>6 DEF IInv
  <2>2. Progress(w)'
    BY <1>1, <1>4, <1>6, <2>1, NoneTyped DEF WInv, Progress
  <2>3. EasedSeen(w)'
    BY <1>1, <1>4, <1>6 DEF EasedSeen
  <2>4. Authenticated(w)'
    BY <1>1, <1>4, <1>6, <2>1 DEF WInv, Authenticated
  <2>5. UserKnown(w)'
    BY <1>1, <1>4, <1>6, <2>1, ZenonT(60) DEF WInv, UserKnown, UserOk, should_close
  <2>6. CsrChecked(w)'
    BY <1>1, <1>4, <1>6, <2>1 DEF WInv, CsrChecked
  <2> QED BY <2>2, <2>3, <2>4, <2>5, <2>6 DEF WInv
<1> QED BY <1>5, <1>6 DEF IInv

\* The application's setters preserve the invariant.
LEMMA ApplicationGood == IInv /\ Application => IInv'
<1> SUFFICES ASSUME IInv, Application PROVE IInv'
  OBVIOUS
<1>1. PICK c \in Contexts : c = ctx
  BY DEF IInv, TypeOK
<1>2. TRUE \in BOOLEAN /\ FALSE \in BOOLEAN
  BY Zenon
<1>3. /\ \A b \in BOOLEAN : [c EXCEPT !.server_enable_pop = b] \in Contexts
      /\ \A b \in BOOLEAN : [c EXCEPT !.require_http_auth = b] \in Contexts
      /\ \A x \in {"disabled", "enabled", "csr_check"} :
            [c EXCEPT !.enhanced_cert_auth = x] \in Contexts
  BY DEF Contexts
<1>4. /\ [c EXCEPT !.server_enable_pop = TRUE] \in Contexts
      /\ [c EXCEPT !.server_enable_pop = FALSE] \in Contexts
      /\ [c EXCEPT !.require_http_auth = ~c.require_http_auth] \in Contexts
  <2>1. (~c.require_http_auth) \in BOOLEAN
    BY Zenon
  <2> QED BY <1>2, <1>3, <2>1, Zenon
<1>5. CASE est_server_enable_pop
  BY <1>1, <1>4, <1>5, ReconfigureGood DEF est_server_enable_pop
<1>6. CASE est_server_disable_pop
  BY <1>1, <1>4, <1>6, ReconfigureGood DEF est_server_disable_pop
<1>7. CASE est_set_http_auth_required
  BY <1>1, <1>4, <1>7, ReconfigureGood DEF est_set_http_auth_required
<1>8. CASE est_server_enable_enhanced_cert_auth
  BY <1>1, <1>3, <1>8, ReconfigureGood DEF est_server_enable_enhanced_cert_auth
<1>9. CASE est_server_disable_enhanced_cert_auth
  BY <1>1, <1>3, <1>9, ReconfigureGood DEF est_server_disable_enhanced_cert_auth
<1> QED BY <1>5, <1>6, <1>7, <1>8, <1>9 DEF Application

\* Every step of a worker is good for the worker.
LEMMA WorkerGood ==
    ASSUME IInv, NEW w \in Workers, Worker(w)
    PROVE  Good(w)
<1>1. CASE ReadNothing(w) \/ CloseAfterResponse(w)
  BY <1>1, CloseGood DEF ReadNothing, CloseAfterResponse
<1> QED
  BY <1>1, ConnectGood, ReadRefusedGood, ReadRequestGood, KeepAliveGood, RouteGood,
     AttrsContextGood, AttrsAppGood, AttrsFoundGood, AttrsAddGood, EnrollChecksGood,
     AuthByTlsGood, ParseHeaderGood, EnhancedGood, AuthCallbackGood, ParseCsrGood,
     CheckCsrGood, TlsUidGood, CaGood DEF Worker

\* Every step preserves the inductive invariant.
LEMMA NextIInv == IInv /\ [Next]_vars => IInv'
<1> SUFFICES ASSUME IInv, [Next]_vars PROVE IInv'
  OBVIOUS
<1>1. ASSUME NEW w \in Workers, Worker(w) PROVE IInv'
  <2>1. Good(w)
    BY <1>1, WorkerGood
  <2>2. ASSUME NEW v \in Workers \ {w} PROVE WInv(v)'
    <3>1. /\ pc'[v] = pc[v] /\ conn'[v] = conn[v] /\ req'[v] = req[v]
          /\ accepted'[v] = accepted[v] /\ Off(ctx') = Off(ctx)
      BY <2>1, <2>2 DEF Good, Frame
    <3>2. WInv(v)
      BY <2>2 DEF IInv
    <3>3. Progress(v)' /\ EasedSeen(v)'
      BY <3>1, <3>2 DEF WInv, Progress, EasedSeen
    <3>4. Authenticated(v)' /\ CsrChecked(v)'
      BY <3>1, <3>2 DEF WInv, Authenticated, CsrChecked
    <3>5. UserKnown(v)'
      BY <3>1, <3>2, ZenonT(60) DEF WInv, UserKnown, UserOk, should_close
    <3> QED BY <3>3, <3>4, <3>5 DEF WInv
  <2> QED BY <2>1, <2>2 DEF Good, IInv
<1>2. CASE UNCHANGED vars
  BY <1>2, ZenonT(60)
     DEF vars, IInv, TypeOK, WInv, Progress, EasedSeen, Authenticated, UserKnown,
         UserOk, CsrChecked, should_close
<1> QED BY <1>1, <1>2, ApplicationGood DEF Next

\* The invariant holds in every reachable state.
LEMMA Invariance == Spec => []IInv
  BY InitIInv, NextIInv, PTL DEF Spec

\* The variables of the HTTPS server keep their types, for any number of
\* workers, users and requests.
THEOREM TypeCorrect == Spec => []TypeOK
<1>1. IInv => TypeOK
  BY DEF IInv
<1> QED BY Invariance, <1>1, PTL

\* est_enroll_auth: whatever the workers, the clients and the application do
\* and in whatever order, the CA callback is reached only by a client that TLS
\* identified or the application accepted, with HTTP credentials where they
\* were required all along, and is given a user id that was accepted.
THEOREM Authentication ==
    Spec => []OnlyAuthenticated
<1>1. IInv => OnlyAuthenticated
  BY DEF IInv, WInv, Authenticated, UserKnown, UserOk, Late, AtCa, CaSeesAuthenticated,
         RequiredHttpAuthDone, UserIdWasAccepted, OnlyAuthenticated
<1> QED BY Invariance, <1>1, PTL

\* est_server_check_csr and est_tls_uid_auth: a CSR that reaches the CA arrived
\* whole and, where PoP was on all along, is bound to its TLS session.
THEOREM CsrIsBound == Spec => []OnlyCheckedCsr
<1>1. IInv => OnlyCheckedCsr
  BY DEF IInv, WInv, CsrChecked, AtCa, PopIsBound, CsrArrivedWhole, OnlyCheckedCsr
<1> QED BY Invariance, <1>1, PTL

\* est_http_request and the handlers: no request is left without an answer and
\* none is answered twice.
THEOREM OneAnswer == Spec => []AnsweredOnce
<1>1. IInv => AnsweredOnce
  BY DEF IInv, WInv, Progress, AnsweredOnce
<1> QED BY Invariance, <1>1, PTL
=============================================================================
