------------------------------ MODULE EstServer ------------------------------
(***************************************************************************)
(* The EST server over HTTPS: the keep-alive connection loop of            *)
(* est_server_http.c (process_new_connection and what it calls) and the    *)
(* request handlers of est_server.c (est_http_request, the authentication  *)
(* of est_enroll_auth, the checks of the CSR, the calls into the CA).      *)
(*                                                                         *)
(* Every worker serves one TLS connection at a time, and a connection      *)
(* carries several requests.  Two things outlive a request: the user id    *)
(* that the Authorization header left on the connection, and the EST       *)
(* context ctx that all workers share and that the application             *)
(* reconfigures while requests are served.                                 *)
(*                                                                         *)
(* What a peer sends is chosen where the code first looks at it.  Text,    *)
(* encodings and key material are left out; BRSKI is not compiled in.      *)
(***************************************************************************)
EXTENDS Integers, FiniteSets

CONSTANTS
    Workers,        \* threads inside est_server_handle_request
    Users,          \* user ids a client can put into an Authorization header
    NULL,           \* no CSR attributes
    NoUser,         \* the empty user_id of a connection made by calloc
    Configs,        \* contexts the application may start the server with
    MaxRequests,    \* bound: requests read from one connection
    MaxChanges      \* bound: times the application reconfigures the server

VARIABLES
    ctx,            \* the EST_CTX
    pc,             \* where each worker stands
    conn,           \* its struct mg_connection
    req,            \* the request it handles
    accepted,       \* history: user ids the application accepted on this connection
    changes         \* reconfigurations so far

vars == <<ctx, pc, conn, req, accepted, changes>>

-----------------------------------------------------------------------------
(* Data.                                                                   *)

Enrollments == {"simpleenroll", "simplereenroll", "serverkeygen"}
Operations == Enrollments \cup {"cacerts", "csrattrs"}

\* What the TLS layer knows of the client: SSL_get_peer_certificate,
\* SSL_get_verify_result and SSL_get_srp_username.
TlsPeers == {"none", "valid", "no_crl", "bogus", "srp"}

\* CSR attributes, by the number of times they ask for a challengePassword.
Attributes == {0, 1, 2, NULL}

Contexts == [
    est_http_auth_cb : BOOLEAN,         \* is the callback installed?
    require_http_auth : BOOLEAN,
    auth_mode : {"user", "token"},      \* AUTH_BASIC and AUTH_DIGEST, AUTH_TOKEN
    enhanced_cert_auth : {"disabled", "enabled", "csr_check"},
    server_enable_pop : BOOLEAN,
    enforce_csrattrs : BOOLEAN,
    est_get_csr_cb : BOOLEAN,
    server_csrattrs : Attributes,
    csr_pop_present : BOOLEAN,
    est_enroll_cb : BOOLEAN]            \* the CA callbacks

ASSUME EstServerAssumption ==
    /\ Configs \subseteq Contexts
    /\ NULL \notin {0, 1, 2} /\ NoUser \notin Users
    /\ MaxRequests \in Nat /\ MaxChanges \in Nat

\* A connection as calloc leaves it, but for what the TLS layer knows.
Fresh(tls, ra, alive) ==
    [tls |-> tls, ra |-> ra, user_id |-> NoUser, status_code |-> 0,
     must_close |-> FALSE, alive |-> alive, requests |-> 0]

NoConnection == Fresh("none", FALSE, FALSE)

\* A request that was just read.
NewRequest(op, whole, eased) ==
    [op |-> op, whole |-> whole, parsed |-> FALSE, app |-> "none", pop |-> "unknown",
     attrs |-> NULL, asked |-> NULL, eased |-> eased, responses |-> 0]

NoRequest == NewRequest("none", TRUE, {})

\* A request fact that is about the request's whole life: the settings that
\* were off at some moment of it.
Settings == {"server_enable_pop", "require_http_auth", "est_http_auth_cb"}
Off(c) == {s \in Settings : ~c[s]}

EnrollCodes == {"EST_ERR_NONE", "EST_ERR_CA_ENROLL_RETRY", "EST_ERR_CA_ENROLL_FAIL"}

\* The status est_send_http_error answers an EST_ERROR with.
est_send_http_error(code) ==
    CASE code = "EST_ERR_CA_ENROLL_RETRY" -> 202
      [] code = "EST_ERR_HTTP_NO_CONTENT" -> 204
      [] code \in {"EST_ERR_HTTP_BAD_REQ", "EST_ERR_CSR_ATTR_MISSING",
                   "EST_ERR_BAD_ASN1_HEX", "EST_ERR_BAD_PKCS10", "EST_ERR_BAD_CONTENT_TYPE",
                   "EST_ERR_WRONG_METHOD"} -> 400
      [] code \in {"EST_ERR_AUTH_FAIL", "EST_ERR_AUTH_FAIL_TLSUID"} -> 401
      [] code = "EST_ERR_HTTP_INVALID_PATH_SEGMENT" -> 404
      [] OTHER -> 500

Labels == {"idle", "read", "request", "handler", "enroll_auth", "auth_cb", "parse_csr",
           "keygen", "check_csr", "check_pop", "check_attrs", "ca_cb", "attrs_found",
           "attrs_add", "keep_alive"}

Connections == [tls : TlsPeers, ra : BOOLEAN, user_id : Users \cup {NoUser},
                status_code : {-1, 0, 202, 204, 400, 401, 404, 413, 500, 505},
                must_close : BOOLEAN, alive : BOOLEAN, requests : 0 .. MaxRequests]

Requests == [op : Operations \cup {"none"}, whole : BOOLEAN, parsed : BOOLEAN,
             app : {"none", "header", "cert", "accepted"},
             pop : {"unknown", "bound", "absent"}, attrs : Attributes, asked : Attributes,
             eased : SUBSET Settings, responses : 0 .. 2]

\* est_server_init and the setters an application calls before est_server_start.
Init ==
    /\ ctx \in Configs
    /\ pc = [w \in Workers |-> "idle"]
    /\ conn = [w \in Workers |-> NoConnection]
    /\ req = [w \in Workers |-> NoRequest]
    /\ accepted = [w \in Workers |-> {}]
    /\ changes = 0

-----------------------------------------------------------------------------
(* The connection loop, est_server_http.c.                                 *)

Goto(w, label) == pc' = [pc EXCEPT ![w] = label]

\* When the write of a 200 fails, the handler returns EST_ERR_HTTP_WRITE and
\* the 500 that follows goes to a connection that is gone.
Broken(c) == [c EXCEPT !.status_code = est_send_http_error("EST_ERR_HTTP_WRITE"),
                       !.alive = FALSE]

\* Answer the request with a status.  mg_send_http_error, the 401 challenge
\* and the 202 record it on the connection, a 200 is only written.
Respond(w, status) ==
    /\ Goto(w, "keep_alive")
    /\ req' = [req EXCEPT ![w].responses = @ + 1]
    /\ \/ conn' = IF status = 200 THEN conn ELSE [conn EXCEPT ![w].status_code = status]
       \/ status = 200 /\ conn' = [conn EXCEPT ![w] = Broken(@)]

Fail(w, code) == Respond(w, est_send_http_error(code))

\* A client connects and the TLS handshake succeeds; the connection is zeroed
\* memory.
est_server_handle_request(w) ==
    /\ pc[w] = "idle"
    /\ \E tls \in TlsPeers, ra \in BOOLEAN :
         /\ ra => tls \in {"valid", "no_crl", "bogus"}
         /\ conn' = [conn EXCEPT ![w] = Fresh(tls, ra, TRUE)]
    /\ Goto(w, "read")
    /\ UNCHANGED <<ctx, req, accepted, changes>>

\* SSL_shutdown; the connection is wiped and freed.
Close(w) ==
    /\ Goto(w, "idle")
    /\ conn' = [conn EXCEPT ![w] = NoConnection]
    /\ req' = [req EXCEPT ![w] = NoRequest]
    /\ accepted' = [accepted EXCEPT ![w] = {}]
    /\ UNCHANGED <<ctx, changes>>

\* The per-request attributes; the user id is not one of them.
reset_per_request_attributes(c) ==
    [c EXCEPT !.status_code = -1, !.must_close = FALSE, !.requests = @ + 1]

\* read_request gave up: the client closed, or was silent for too long.
ReadNothing(w) ==
    /\ pc[w] = "read"
    /\ Close(w)

\* A request that the HTTP layer refuses by itself.
ReadRefused(w) ==
    /\ pc[w] = "read" /\ conn[w].alive /\ conn[w].requests < MaxRequests
    /\ \E status \in {400, 413, 505} :
         conn' = [conn EXCEPT ![w] = [reset_per_request_attributes(@)
                                        EXCEPT !.status_code = status]]
    /\ req' = [req EXCEPT ![w] = [NoRequest EXCEPT !.responses = 1]]
    /\ Goto(w, "keep_alive")
    /\ UNCHANGED <<ctx, accepted, changes>>

\* A request for an EST operation.  est_mg_handler ignores what mg_read
\* returns: when the body stops arriving, the rest of the buffer is whatever
\* malloc left there, and a timeout marks the connection for closing.
ReadRequest(w) ==
    /\ pc[w] = "read" /\ conn[w].alive /\ conn[w].requests < MaxRequests
    /\ \E op \in Operations, whole, timeout \in BOOLEAN :
         /\ timeout => ~whole
         /\ conn' = [conn EXCEPT ![w] = [reset_per_request_attributes(@)
                                           EXCEPT !.must_close = timeout]]
         /\ req' = [req EXCEPT ![w] = NewRequest(op, whole, Off(ctx))]
    /\ Goto(w, "request")
    /\ UNCHANGED <<ctx, accepted, changes>>

\* Mutant: only the client and a read timeout end a connection.
CloseOnlyWhenMarked(w) == conn[w].must_close

\* must the server close the connection, whatever the client wants?
should_close(w) ==
    conn[w].must_close \/ conn[w].status_code = 202 \/ conn[w].status_code >= 400

\* The end of the loop's body.  The client may ask for closing too, by a
\* Connection header or by speaking HTTP/1.0.
KeepAlive(w) ==
    /\ pc[w] = "keep_alive"
    /\ ~should_close(w)
    /\ Goto(w, "read")
    /\ req' = [req EXCEPT ![w] = NoRequest]
    /\ UNCHANGED <<ctx, conn, accepted, changes>>

CloseAfterResponse(w) ==
    /\ pc[w] = "keep_alive"
    /\ Close(w)

-----------------------------------------------------------------------------
(* est_http_request: routing.                                              *)

\* The URI does not parse, the method is wrong, or an enrollment has no
\* Content-Type.
RefuseRequest(w) ==
    /\ pc[w] = "request"
    /\ \E code \in {"EST_ERR_HTTP_INVALID_PATH_SEGMENT", "EST_ERR_HTTP_BAD_REQ",
                    "EST_ERR_WRONG_METHOD", "EST_ERR_BAD_CONTENT_TYPE"} :
         /\ code = "EST_ERR_BAD_CONTENT_TYPE" => req[w].op \in Enrollments
         /\ Fail(w, code)
    /\ UNCHANGED <<ctx, accepted, changes>>

RouteRequest(w) ==
    /\ pc[w] = "request"
    /\ Goto(w, "handler")
    /\ UNCHANGED <<ctx, conn, req, accepted, changes>>

\* The CA certificates come from the application or from the context; either
\* may have none.
est_server_handle_cacerts(w) ==
    /\ pc[w] = "handler" /\ req[w].op = "cacerts"
    /\ \/ Respond(w, 200)
       \/ Fail(w, "EST_ERR_HTTP_NO_CONTENT")
    /\ UNCHANGED <<ctx, accepted, changes>>

-----------------------------------------------------------------------------
(* est_handle_csr_attrs.                                                   *)

Asked(r, attrs) == [r EXCEPT !.responses = @ + 1, !.asked = attrs]

\* Send attributes, or 204 when there are none.
est_send_csrattr_data(w, attrs) ==
    IF attrs = NULL THEN Fail(w, "EST_ERR_HTTP_NO_CONTENT")
    ELSE /\ Goto(w, "keep_alive")
         /\ req' = [req EXCEPT ![w] = Asked(@, attrs)]
         /\ \/ UNCHANGED conn
            \/ conn' = [conn EXCEPT ![w] = Broken(@)]

\* No callback: the context's attributes, or the canned ones for PoP.
CsrAttrsFromContext(w) ==
    /\ pc[w] = "handler" /\ req[w].op = "csrattrs" /\ ~ctx.est_get_csr_cb
    /\ LET attrs == IF ctx.server_csrattrs = NULL /\ ctx.server_enable_pop THEN 1
                    ELSE ctx.server_csrattrs
       IN est_send_csrattr_data(w, attrs)
    /\ UNCHANGED <<ctx, accepted, changes>>

\* The application's attributes for this path segment.  NULL stands for an
\* empty answer, which is not parsed.  csr_pop_present is cleared here.
CsrAttrsFromApp(w) ==
    /\ pc[w] = "handler" /\ req[w].op = "csrattrs" /\ ctx.est_get_csr_cb
    /\ \/ /\ \E code \in {"EST_ERR_INVALID_PARAMETERS", "EST_ERR_BAD_ASN1_HEX"} : Fail(w, code)
          /\ UNCHANGED ctx
       \/ \E attrs \in {0, 1, NULL} :
            /\ ctx' = [ctx EXCEPT !.csr_pop_present = FALSE]
            /\ IF ctx.server_enable_pop
               THEN /\ req' = [req EXCEPT ![w].attrs = attrs]
                    /\ Goto(w, "attrs_found")
                    /\ UNCHANGED conn
               ELSE est_send_csrattr_data(w, attrs)
    /\ UNCHANGED <<accepted, changes>>

\* csr_pop_present = pop_present, in the context of all workers, unless
\* est_is_challengePassword_present runs out of memory.
CsrAttrsFound(w) ==
    /\ pc[w] = "attrs_found"
    /\ \/ /\ ctx' = [ctx EXCEPT !.csr_pop_present = (req[w].attrs = 1)]
          /\ Goto(w, "attrs_add")
          /\ UNCHANGED <<conn, req>>
       \/ /\ Fail(w, "EST_ERR_MALLOC")
          /\ UNCHANGED ctx
    /\ UNCHANGED <<accepted, changes>>

\* Mutant: nothing is added when the application has no attributes.
ChallengeIfAny(attrs, present) ==
    IF present \/ attrs = NULL THEN attrs ELSE attrs + 1

\* est_add_challengePassword, when csr_pop_present says it is not there.
WithChallenge(attrs, present) ==
    CASE present -> attrs
      [] ~present /\ attrs = NULL -> 1
      [] OTHER -> attrs + 1

CsrAttrsAdd(w) ==
    /\ pc[w] = "attrs_add"
    /\ \/ est_send_csrattr_data(w, WithChallenge(req[w].attrs, ctx.csr_pop_present))
       \/ ~ctx.csr_pop_present /\ Fail(w, "EST_ERR_MALLOC")
    /\ UNCHANGED <<ctx, accepted, changes>>

-----------------------------------------------------------------------------
(* Authentication: est_enroll_auth.                                        *)

\* check_for_TLS_cert_auth and the SRP login that follows it.
TlsAuth(w) ==
    CASE conn[w].tls \in {"valid", "no_crl"} -> "EST_CERT_AUTH"
      [] conn[w].tls = "srp" -> "EST_SRP_AUTH"
      [] OTHER -> "EST_UNAUTHORIZED"

\* HTTP authentication is tried when TLS did not identify the client, or when
\* the application requires it in addition; never after a bogus certificate.
TryHttpAuth(w) ==
    /\ conn[w].tls # "bogus"
    /\ ctx.est_http_auth_cb
    /\ TlsAuth(w) = "EST_UNAUTHORIZED" \/ ctx.require_http_auth

\* The handlers' switch on the result of est_enroll_auth.
Authorized(w, rv) ==
    CASE rv \in {"EST_HTTP_AUTH", "EST_SRP_AUTH", "EST_CERT_AUTH"} ->
           Goto(w, "parse_csr") /\ UNCHANGED <<conn, req>>
      [] rv = "EST_CSR_PARSE_FAIL" -> Fail(w, "EST_ERR_BAD_PKCS10")
      [] OTHER -> Fail(w, "EST_ERR_AUTH_FAIL")

\* The handlers' first checks: the CA callback and the media type.
EnrollChecks(w) ==
    /\ pc[w] = "handler" /\ req[w].op \in Enrollments
    /\ \/ /\ ~ctx.est_enroll_cb
          /\ Fail(w, "EST_ERR_NULL_CALLBACK")
       \/ /\ ctx.est_enroll_cb
          /\ Fail(w, "EST_ERR_BAD_CONTENT_TYPE")
       \/ /\ ctx.est_enroll_cb
          /\ Goto(w, "enroll_auth")
          /\ UNCHANGED <<conn, req>>
    /\ UNCHANGED <<ctx, accepted, changes>>

\* TLS alone decides.
AuthByTls(w) ==
    /\ pc[w] = "enroll_auth"
    /\ ~TryHttpAuth(w)
    /\ Authorized(w, TlsAuth(w))
    /\ UNCHANGED <<ctx, accepted, changes>>

\* A header that is malformed or of another mode than the server's: a
\* certificate is enough, except for a first enrollment.
BadHeader(w) ==
    Authorized(w, IF req[w].op # "simpleenroll" /\ TlsAuth(w) = "EST_CERT_AUTH"
                  THEN "EST_CERT_AUTH" ELSE "EST_UNAUTHORIZED")

UseEnhancedCertAuth(w) ==
    ctx.enhanced_cert_auth # "disabled" /\ TlsAuth(w) = "EST_CERT_AUTH"

\* Mutant: the handler takes the challenge for an answer still to be given.
ChallengeThenError(w) ==
    /\ pc[w] = "enroll_auth"
    /\ TryHttpAuth(w) /\ ~UseEnhancedCertAuth(w)
    /\ Goto(w, "keep_alive")
    /\ conn' = [conn EXCEPT ![w].status_code = est_send_http_error("EST_ERR_AUTH_FAIL")]
    /\ req' = [req EXCEPT ![w].responses = @ + 2]
    /\ UNCHANGED <<ctx, accepted, changes>>

\* mg_parse_auth_header: the user id is stored on the connection before
\* anyone has looked at the password.  A token carries no user id.
mg_parse_auth_header(w) ==
    /\ pc[w] = "enroll_auth"
    /\ TryHttpAuth(w) /\ ~UseEnhancedCertAuth(w)
    /\ \/ \* EST_AUTH_HDR_MISSING: a 401 challenge, and EST_ERR_AUTH_PENDING
          Respond(w, 401)
       \/ \* EST_AUTH_HDR_BAD
          BadHeader(w)
       \/ \* EST_AUTH_HDR_GOOD
          /\ \E user \in Users :
               conn' = [conn EXCEPT ![w].user_id = IF ctx.auth_mode = "token" THEN @ ELSE user]
          /\ req' = [req EXCEPT ![w].app = "header"]
          /\ Goto(w, "auth_cb")
    /\ UNCHANGED <<ctx, accepted, changes>>

FromCert(r, parsed) == [r EXCEPT !.app = "cert", !.parsed = parsed]

\* handle_enhanced_cert_auth: the identity is a subject field of the
\* certificate.  The CSR check parses the CSR and compares the field.
handle_enhanced_cert_auth(w) ==
    /\ pc[w] = "enroll_auth"
    /\ TryHttpAuth(w) /\ UseEnhancedCertAuth(w)
    /\ \/ \* EST_AUTH_ECA_ERR
          Authorized(w, "EST_UNAUTHORIZED")
       \/ \* the search for the manufacturer failed: EST_AUTH_HDR_BAD
          BadHeader(w)
       \/ /\ ctx.enhanced_cert_auth = "csr_check"
          /\ \/ Authorized(w, "EST_CSR_PARSE_FAIL")
             \/ \* EST_AUTH_ECA_CSR_CHECK_FAIL
                Authorized(w, "EST_UNAUTHORIZED")
       \/ \* EST_AUTH_HDR_GOOD
          /\ req' = [req EXCEPT ![w] = FromCert(@, ctx.enhanced_cert_auth = "csr_check")]
          /\ Goto(w, "auth_cb")
          /\ UNCHANGED conn
    /\ UNCHANGED <<ctx, accepted, changes>>

\* est_http_auth_cb: the application accepts the credentials or rejects them.
est_http_auth_cb(w) ==
    /\ pc[w] = "auth_cb"
    /\ \/ /\ accepted' = IF req[w].app = "header" /\ conn[w].user_id # NoUser
                         THEN [accepted EXCEPT ![w] = @ \cup {conn[w].user_id}] ELSE accepted
          /\ req' = [req EXCEPT ![w].app = "accepted"]
          /\ Goto(w, "parse_csr")
          /\ UNCHANGED conn
       \/ /\ Authorized(w, "EST_UNAUTHORIZED")
          /\ UNCHANGED accepted
    /\ UNCHANGED <<ctx, changes>>

-----------------------------------------------------------------------------
(* The CSR: est_handle_simple_enroll and est_handle_server_keygen.         *)

\* est_server_parse_csr, unless the enhanced certificate check did it.  A
\* body that did not arrive whole may still parse.
est_server_parse_csr(w) ==
    /\ pc[w] = "parse_csr"
    /\ \/ /\ ~req[w].parsed
          /\ Fail(w, "EST_ERR_BAD_PKCS10")
       \/ /\ req' = [req EXCEPT ![w].parsed = TRUE]
          /\ Goto(w, IF req[w].op = "serverkeygen" THEN "keygen" ELSE "check_csr")
          /\ UNCHANGED conn
    /\ UNCHANGED <<ctx, accepted, changes>>

\* keygen_cb makes a key pair, and the CSR is signed again with it.
KeyGeneration(w) ==
    /\ pc[w] = "keygen"
    /\ \/ \E code \in {"EST_ERR_NO_KEY", "EST_ERR_BAD_PKCS10"} : Fail(w, code)
       \/ Goto(w, "check_csr") /\ UNCHANGED <<conn, req>>
    /\ UNCHANGED <<ctx, accepted, changes>>

\* X509_REQ_verify: the signature is the client's over what it sent, or the
\* server's own over what it parsed.
SignatureVerifies(w) == req[w].whole \/ req[w].op = "serverkeygen"

est_server_check_csr(w) ==
    /\ pc[w] = "check_csr"
    /\ \/ Fail(w, "EST_ERR_BAD_PKCS10")
       \/ /\ SignatureVerifies(w)
          /\ Goto(w, IF conn[w].ra THEN "check_attrs" ELSE "check_pop")
          /\ UNCHANGED <<conn, req>>
    /\ UNCHANGED <<ctx, accepted, changes>>

\* Mutant: a CSR without challengePassword has nothing to compare.
PopOnlyWhenPresent(w) ==
    /\ pc[w] = "check_pop"
    /\ \/ Fail(w, "EST_ERR_AUTH_FAIL_TLSUID")
       \/ \E pop \in {"bound", "absent"} :
            /\ req' = [req EXCEPT ![w].pop = pop]
            /\ Goto(w, "check_attrs")
            /\ UNCHANGED conn
    /\ UNCHANGED <<ctx, accepted, changes>>

\* est_tls_uid_auth: the challengePassword is this TLS session's unique id;
\* it may be left out when the server does not ask for PoP.
est_tls_uid_auth(w) ==
    /\ pc[w] = "check_pop"
    /\ \/ Fail(w, "EST_ERR_AUTH_FAIL_TLSUID")
       \/ \E pop \in {"bound", "absent"} :
            /\ pop = "absent" => ~ctx.server_enable_pop
            /\ req' = [req EXCEPT ![w].pop = pop]
            /\ Goto(w, "check_attrs")
            /\ UNCHANGED conn
    /\ UNCHANGED <<ctx, accepted, changes>>

\* est_server_all_csrattrs_present.
CheckAttrs(w) ==
    /\ pc[w] = "check_attrs"
    /\ \/ /\ ctx.enforce_csrattrs
          /\ ctx.est_get_csr_cb \/ ctx.server_csrattrs # NULL
          /\ Fail(w, "EST_ERR_CSR_ATTR_MISSING")
       \/ Goto(w, "ca_cb") /\ UNCHANGED <<conn, req>>
    /\ UNCHANGED <<ctx, accepted, changes>>

\* The CA callback, given conn->user_id.  Any code but success with a
\* certificate and retry becomes EST_ERR_CA_ENROLL_FAIL.
CaCallback(w) ==
    /\ pc[w] = "ca_cb"
    /\ \E rv \in EnrollCodes :
         Respond(w, IF rv = "EST_ERR_NONE" THEN 200 ELSE est_send_http_error(rv))
    /\ UNCHANGED <<ctx, accepted, changes>>

-----------------------------------------------------------------------------
(* The application reconfigures the context while requests are served.     *)

Reconfigure(c) ==
    /\ changes < MaxChanges
    /\ ctx' = c
    /\ req' = [w \in Workers |-> [req[w] EXCEPT
                 !.eased = IF req[w].op = "none" THEN @ ELSE @ \cup Off(c)]]
    /\ changes' = changes + 1
    /\ UNCHANGED <<pc, conn, accepted>>

est_server_enable_pop == ~ctx.server_enable_pop /\ Reconfigure([ctx EXCEPT !.server_enable_pop = TRUE])
est_server_disable_pop == ctx.server_enable_pop /\ Reconfigure([ctx EXCEPT !.server_enable_pop = FALSE])

est_set_http_auth_required ==
    Reconfigure([ctx EXCEPT !.require_http_auth = ~@])

est_server_enable_enhanced_cert_auth ==
    /\ ctx.enhanced_cert_auth = "disabled"
    /\ \E eca \in {"enabled", "csr_check"} : Reconfigure([ctx EXCEPT !.enhanced_cert_auth = eca])

est_server_disable_enhanced_cert_auth ==
    /\ ctx.enhanced_cert_auth # "disabled"
    /\ Reconfigure([ctx EXCEPT !.enhanced_cert_auth = "disabled"])

-----------------------------------------------------------------------------
Worker(w) ==
    \/ est_server_handle_request(w)
    \/ ReadNothing(w) \/ ReadRefused(w) \/ ReadRequest(w)
    \/ RefuseRequest(w) \/ RouteRequest(w)
    \/ est_server_handle_cacerts(w)
    \/ CsrAttrsFromContext(w) \/ CsrAttrsFromApp(w) \/ CsrAttrsFound(w) \/ CsrAttrsAdd(w)
    \/ EnrollChecks(w) \/ AuthByTls(w) \/ mg_parse_auth_header(w)
    \/ handle_enhanced_cert_auth(w) \/ est_http_auth_cb(w)
    \/ est_server_parse_csr(w) \/ KeyGeneration(w) \/ est_server_check_csr(w)
    \/ est_tls_uid_auth(w) \/ CheckAttrs(w) \/ CaCallback(w)
    \/ KeepAlive(w) \/ CloseAfterResponse(w)

Application ==
    \/ est_server_enable_pop \/ est_server_disable_pop
    \/ est_set_http_auth_required
    \/ est_server_enable_enhanced_cert_auth \/ est_server_disable_enhanced_cert_auth

Next == (\E w \in Workers : Worker(w)) \/ Application

Spec == Init /\ [][Next]_vars

-----------------------------------------------------------------------------
(* Correctness.                                                            *)

\* Every variable holds what its C declaration and use allow; the status of a
\* connection is -1 from the start of a request until an answer other than
\* 200 is written.
TypeOK ==
    /\ ctx \in Contexts
    /\ pc \in [Workers -> Labels]
    /\ conn \in [Workers -> Connections]
    /\ req \in [Workers -> Requests]
    /\ accepted \in [Workers -> SUBSET Users]
    /\ changes \in 0 .. MaxChanges

AtCa(w) == pc[w] = "ca_cb"

\* The CA is asked only for a client that TLS identified or that the
\* application accepted in this very request; a certificate that did not
\* verify never gets there, whatever else the client sends.
CaSeesAuthenticated ==
    \A w \in Workers : AtCa(w) =>
        /\ conn[w].tls # "bogus"
        /\ conn[w].tls \in {"valid", "no_crl", "srp"} \/ req[w].app = "accepted"

\* est_set_http_auth_required: while HTTP authentication was required, and a
\* callback installed, during the whole request, a first enrollment reaches
\* the CA only with credentials the application accepted in this request.
RequiredHttpAuthDone ==
    \A w \in Workers :
        AtCa(w) /\ req[w].op = "simpleenroll"
                /\ req[w].eased \cap {"require_http_auth", "est_http_auth_cb"} = {}
            => req[w].app = "accepted"

\* The user id the CA is given was accepted by the application on this
\* connection, although mg_parse_auth_header stores it before the password is
\* checked and no request resets it: a rejected request ends the connection.
UserIdWasAccepted ==
    \A w \in Workers : AtCa(w) => conn[w].user_id \in accepted[w] \cup {NoUser}

\* Who the CA is asked for: an authenticated client, by HTTP too where that was
\* required, under a name that was accepted.
OnlyAuthenticated == CaSeesAuthenticated /\ RequiredHttpAuthDone /\ UserIdWasAccepted

\* Proof of possession: unless the client is an RA, or the check was off at
\* some moment of the request, the CSR the CA sees is bound to this TLS
\* session.
PopIsBound ==
    \A w \in Workers :
        AtCa(w) /\ ~conn[w].ra /\ "server_enable_pop" \notin req[w].eased
            => req[w].pop = "bound"

\* est_mg_handler ignores a body that stops arriving, but its signature check
\* keeps such a CSR from the CA (server-side key generation signs it anew,
\* and is left out).
CsrArrivedWhole ==
    \A w \in Workers : AtCa(w) /\ req[w].op # "serverkeygen" => req[w].whole

\* What the CA is asked for: a CSR that arrived whole, from the client at the
\* other end of this TLS session.
OnlyCheckedCsr == PopIsBound /\ CsrArrivedWhole

\* Every request that ends without the connection breaking was answered
\* exactly once: no error path is silent and none follows another answer.
AnsweredOnce ==
    \A w \in Workers : pc[w] = "keep_alive" => req[w].responses = 1

\* est_add_challengePassword is for attributes that do not ask for PoP yet:
\* with PoP on all along, whatever attributes the application has and whatever
\* the requests before left in csr_pop_present, the client is asked for a
\* challengePassword exactly once; unless another worker, which uses the same
\* csr_pop_present, is asked for attributes too.
AsksForPopOnce ==
    \A w \in Workers :
        (/\ pc[w] = "keep_alive" /\ req[w].op = "csrattrs"
         /\ conn[w].status_code \in {-1, 204}
         /\ ctx.est_get_csr_cb /\ "server_enable_pop" \notin req[w].eased
         /\ \A u \in Workers \ {w} : req[u].op # "csrattrs")
            => req[w].asked = 1

=============================================================================
