------------------------------- MODULE EstClient -------------------------------
(***************************************************************************)
(* The EST client: the calls an application makes on a client context      *)
(* (est_client.c), the reading of the server's answers (est_client_http.c) *)
(* and the TCP connections below them (est_client_proxy.c).                *)
(*                                                                         *)
(* The application makes one call at a time.  A call opens one connection  *)
(* for each request it sends, and an enrollment that is refused with a     *)
(* challenge is sent once more.  A call is cut where it waits for somebody *)
(* else: for the TCP connection, for the TLS handshake, for the answer.    *)
(* What outlives a call is the context: the authentication mode the last   *)
(* challenge left, the PoP the last CSR attributes asked for, the          *)
(* certificate and key not yet copied out, the TLS session to resume.      *)
(*                                                                         *)
(* Errors are the EST_ERR_ codes without the prefix.  Running out of       *)
(* memory is left out, and so is BRSKI, which is not compiled in.          *)
(***************************************************************************)
EXTENDS Integers, FiniteSets, HostCheck, Multipart

CONSTANTS
    Hosts,          \* names for est_client_set_server
    Peers,          \* servers that may answer there, see the assumption below
    NoPeer,         \* no server
    Roots,          \* trust anchors
    NULL,           \* a buffer or store that is not there
    Deployments,    \* how applications are set up, with the calls and hosts they use
    AddressLists,   \* what getaddrinfo finds, each address by what becomes of it
    Answers,        \* answers to requests other than for key generation
    KeygenAnswers,  \* answers to requests for key generation
    KeyPairs,       \* the pairs of key and certificate a server makes
    Arguments,      \* faults of the arguments the application passes
    CertMax,        \* EST_MAX_CLIENT_CERT_LEN
    CaMax,          \* EST_CA_MAX
    IntMax,         \* INT_MAX
    MaxCalls        \* bound: calls in the life of the application

VARIABLES
    setup,          \* the deployment, which does not change
    ctx,            \* the EST_CTX
    pc,             \* where the call stands
    call,           \* the call the application made last
    pops,           \* the challengePassword attributes of its CSR, by connection
    sock,           \* ctx->tcw_sock
    fds,            \* descriptors the process has open
    ssl,            \* the TLS connection of the call
    sent,           \* history: the requests of the call
    asked           \* history: what servers told this context

vars == <<setup, ctx, pc, call, pops, sock, fds, ssl, sent, asked>>

--------------------------------------------------------------------------------
(* Data.                                                                   *)

Modes == {"NONE", "BASIC", "DIGEST", "TOKEN", "FAIL"}
Answerable == {"BASIC", "DIGEST", "TOKEN"}

\* The calls that send requests.  The last takes the first three parts of it.
ByName == {"enroll", "keygen"}                          \* est_client_enroll_internal
ByCsr == {"enroll_csr", "keygen_csr", "enroll_signed"}  \* est_client_enroll_csr_internal
Enrollments == ByName \cup ByCsr \cup {"reenroll"}
Apis == Enrollments \cup {"cacerts", "csrattrs", "provision"}
Keygens == {"keygen", "keygen_csr"}

ASSUME ClientAssumption ==
    /\ \A p \in Peers : p.root \in Roots /\ p.error \in STRING
    /\ NoPeer \notin Peers
    /\ \A d \in Deployments : d.fips \in BOOLEAN /\ d.enable_srp \in BOOLEAN
    /\ CertMax \in Nat /\ CaMax \in Nat /\ IntMax \in Nat /\ MaxCalls \in Nat

NoSsl == [conn |-> 0, peer |-> NoPeer]
NoCert == [call |-> 0, data |-> <<>>]
NothingAsked == [modes |-> {}, first |-> "NONE", pop |-> FALSE, delay |-> 0]

\* est_client_init and est_client_set_server, in a process that trusts root.
Context(root, host) ==
    [initialized |-> TRUE, auth_mode |-> "NONE", csr_pop_required |-> FALSE,
     client_force_pop |-> FALSE, est_server |-> host, enrolled_client_cert |-> NoCert,
     server_gen_client_priv_key |-> NoCert, retrieved_ca_certs |-> NULL,
     retrieved_csrattrs |-> FALSE, retry_after_delay |-> 0, sess |-> NoPeer,
     trusted_certs_store |-> NULL, cert_store |-> root]

NoCall(n) == [api |-> "none", op |-> "none", n |-> n, attempt |-> 1, rv |-> "NONE",
              began |-> "NONE"]

Init ==
    /\ setup \in Deployments
    /\ \E host \in setup.hosts : ctx = Context(setup.root, host)
    /\ pc = "idle" /\ call = NoCall(0) /\ pops = <<>>
    /\ sock = "closed" /\ fds = 0 /\ ssl = NoSsl
    /\ sent = <<>> /\ asked = NothingAsked

--------------------------------------------------------------------------------
(***************************************************************************)
(* A call begins.  The checks of each call in their order: the first that  *)
(* fails is the result, and nothing is sent.                               *)
(***************************************************************************)
Checks(api) ==
    CASE api \in ByName -> <<"CLIENT_NOT_INITIALIZED", "NO_KEY">>
      [] api = "reenroll" -> <<"NO_CERT", "NO_KEY", "CLIENT_NOT_INITIALIZED", "BAD_X509",
                               "CLIENT_INVALID_KEY", "NO_CSR">>
      [] api = "keygen_csr" -> <<"NO_KEY", "NO_CSR", "CLIENT_NOT_INITIALIZED">>
      [] api \in ByCsr \ Keygens -> <<"NO_CSR", "CLIENT_NOT_INITIALIZED">>
      [] api = "cacerts" -> <<"CLIENT_NOT_INITIALIZED", "INVALID_PARAMETERS">>
      [] api = "csrattrs" -> <<"INVALID_PARAMETERS">>
      [] api = "provision" -> <<"INVALID_PARAMETERS", "CLIENT_NOT_INITIALIZED", "NO_KEY">>

FirstFailure(api, fault) ==
    LET failed == SelectSeq(Checks(api), LAMBDA c :
                      (c = fault) \/ (c = "CLIENT_NOT_INITIALIZED" /\ ~ ctx.initialized))
    IN IF failed = <<>> THEN "NONE" ELSE failed[1]

\* The request a call begins with.
FirstOp(api) == IF api = "provision" THEN "cacerts" ELSE api

(***************************************************************************)
(* The application calls.  A CSR of its own may hold a challengePassword   *)
(* already (of connection 0).                                              *)
(***************************************************************************)
Call(api, fault, own) ==
    LET rv == FirstFailure(api, fault)
    IN /\ pc = "idle" /\ call.n < MaxCalls /\ api \in setup.calls
       /\ call' = [api |-> api, op |-> FirstOp(api), n |-> call.n + 1, attempt |-> 1,
                   rv |-> rv, began |-> ctx.auth_mode]
       /\ pc' = IF rv = "NONE" THEN "connect" ELSE "returned"
       /\ pops' = IF api \in ByCsr THEN own ELSE <<>>
       /\ UNCHANGED <<setup, ctx, sock, fds, ssl, sent, asked>>

--------------------------------------------------------------------------------
(***************************************************************************)
(* est_client_proxy.c.  A direct connection tries the addresses in turn    *)
(* and closes the descriptor of each that refuses.  The result: the error, *)
(* and the descriptors left open.                                          *)
(***************************************************************************)
tcw_direct_connect(addrs) ==
    IF addrs = <<>> THEN [err |-> "RESOLV", open |-> 0]     \* getaddrinfo failed
    ELSE FoldLeft(LAMBDA r, a : IF r.err = "OK" THEN r
                                ELSE CASE a = "no_socket" -> [r EXCEPT !.err = "SOCKET"]
                                       [] a = "refuses" -> [r EXCEPT !.err = "CONNECT"]
                                       [] a = "connects" -> [err |-> "OK", open |-> r.open + 1],
                  [err |-> "CONNECT", open |-> 0], addrs)

\* Through a proxy libcurl connects; any failure closes its handle.  The socket
\* it hands over is made blocking again, which may fail too.
CurlSetupFails == {[err |-> "OTHER", open |-> 0]}
set_blocking_mode(r) == {r, [err |-> "OTHER", open |-> 0]}

tcw_curl_connect ==
    CurlSetupFails \cup {[err |-> "RESOLV", open |-> 0], [err |-> "CONNECT", open |-> 0]}
    \cup set_blocking_mode([err |-> "OK", open |-> 1])

tcw_connect ==
    IF setup.use_proxy THEN tcw_curl_connect
    ELSE {tcw_direct_connect(addrs) : addrs \in AddressLists}

(* Mutant: the descriptor is forgotten and stays open. *)
ForgetSocket == sock' = "closed" /\ UNCHANGED fds

tcw_close ==
    /\ sock' = "closed"
    /\ fds' = IF sock = "closed" THEN fds ELSE fds - 1

(***************************************************************************)
(* A connection that fails ends the call: every caller frees what is there *)
(* of the TLS connection and returns the error.                            *)
(***************************************************************************)
Return(rv) ==
    /\ pc' = "returned"
    /\ call' = [call EXCEPT !.rv = rv]

\* est_client_connect up to the handshake.  With the TCP connection there,
\* the keep-alive option, the BIO or the SSL object may fail to be made.
TcpConnect ==
    /\ pc = "connect"
    /\ \E r \in tcw_connect :
          \/ /\ r.err # "OK"
             /\ Return(IF r.err = "RESOLV" THEN "IP_GETADDR" ELSE "IP_CONNECT")
             /\ sock' = "closed" /\ fds' = fds + r.open
          \/ /\ r.err = "OK"
             /\ \E rv \in {"IP_CONNECT", "SSL_NEW"} : Return(rv)
             /\ sock' = "closed" /\ fds' = fds + r.open - 1
          \/ /\ r.err = "OK"
             /\ pc' = "handshake" /\ UNCHANGED call
             /\ sock' = "open" /\ fds' = fds + r.open
    /\ UNCHANGED <<setup, ctx, pops, ssl, sent, asked>>

--------------------------------------------------------------------------------
(***************************************************************************)
(* cert_verify_cb: OpenSSL reports what is wrong with the server's chain,  *)
(* and the callback may approve it nevertheless.                           *)
(***************************************************************************)
VerifyError(peer) ==
    IF peer.root = ctx.cert_store THEN peer.error ELSE "SELF_SIGNED_CERT_IN_CHAIN"

cert_verify_cb(error) ==
    CASE error = "OK" -> TRUE
      [] error \in {"CERT_UNTRUSTED", "SELF_SIGNED_CERT_IN_CHAIN", "UNABLE_TO_GET_CRL"} ->
            IF setup.manual_cert_verify_cb # NULL THEN setup.manual_cert_verify_cb[error]
            ELSE error = "UNABLE_TO_GET_CRL"
      [] OTHER -> FALSE

\* SSL_connect: the session of an earlier connection may be resumed, then the
\* chain is not verified again.  Without a certificate only SRP gets through.
HandshakeSucceeds(peer, resumed) ==
    IF resumed THEN peer = ctx.sess
    ELSE IF peer.cert THEN cert_verify_cb(VerifyError(peer))
    ELSE setup.enable_srp

(* Mutant: a resumed session is taken to have been checked. *)
CheckFqdnOfNewSessions(peer, resumed) ==
    IF peer.cert /\ ~ resumed THEN est_client_verifyhost(ctx.est_server, peer)
    ELSE IF resumed \/ setup.enable_srp THEN "NONE" ELSE "FQDN_MISMATCH"

est_client_check_fqdn(peer, resumed) ==
    IF peer.cert THEN est_client_verifyhost(ctx.est_server, peer)
    ELSE IF setup.enable_srp THEN "NONE" ELSE "FQDN_MISMATCH"

\* est_client_disconnect, of a connection to peer: it keeps the session.
est_client_disconnect(peer) == [ctx EXCEPT !.sess = peer]

Connections == Len(sent) + 1

(***************************************************************************)
(* est_client_connect from the handshake on.                               *)
(***************************************************************************)
TlsConnect ==
    /\ pc = "handshake"
    /\ \E peer \in Peers, resumed \in BOOLEAN :
         /\ HandshakeSucceeds(peer, resumed)
         /\ IF est_client_check_fqdn(peer, resumed) = "NONE"
            THEN /\ pc' = "request" /\ ssl' = [conn |-> Connections, peer |-> peer]
                 /\ UNCHANGED <<ctx, call, sock, fds>>
            ELSE /\ Return("FQDN_MISMATCH")
                 /\ ctx' = est_client_disconnect(peer)
                 /\ tcw_close
                 /\ UNCHANGED ssl
    /\ UNCHANGED <<setup, pops, sent, asked>>

\* SSL_connect fails: the chain was refused, or the peer went away.
TlsConnectFails ==
    /\ pc = "handshake"
    /\ Return("SSL_CONNECT")
    /\ tcw_close
    /\ UNCHANGED <<setup, ctx, pops, ssl, sent, asked>>

--------------------------------------------------------------------------------
(***************************************************************************)
(* The CSR.  A CSR made for a name is new at every attempt; the CSR of the *)
(* application, and the one a reenrollment makes, serves both attempts.    *)
(***************************************************************************)
PopWanted == ctx.csr_pop_required \/ ctx.client_force_pop

(* Mutant: the challengePassword of the first attempt stays in the CSR. *)
KeepCsrPop(csr) == csr

est_client_clear_csr_pop(csr) == <<>>

populate_x509_request == IF PopWanted THEN <<ssl.conn>> ELSE <<>>

est_client_enroll_pkcs10(csr) ==
    est_client_clear_csr_pop(csr) \o IF PopWanted THEN <<ssl.conn>> ELSE <<>>

BuiltCsr ==
    CASE call.op \in ByName -> populate_x509_request       \* est_client_enroll_cn
      [] call.op \in {"reenroll", "enroll_csr", "keygen_csr"} -> est_client_enroll_pkcs10(pops)
      [] OTHER -> pops

\* What may go wrong while the CSR is built and signed.
BuildErrors ==
    CASE call.op \in ByName -> {"AUTH_FAIL_TLSUID", "X509_ATTR", "X509_SIGN"}
      [] call.op \in {"reenroll", "enroll_csr", "keygen_csr"} ->
             {"X509_SIGN"} \cup IF PopWanted THEN {"AUTH_FAIL_TLSUID", "X509_ATTR"} ELSE {}
      [] OTHER -> {}

(***************************************************************************)
(* est_client_add_auth_hdr: the mode of the Authorization header, and      *)
(* where the credentials in it come from.                                  *)
(***************************************************************************)
est_client_retrieve_credentials == IF setup.auth_credentials_cb THEN "callback" ELSE "empty"

est_client_add_auth_hdr ==
    CASE ctx.auth_mode \in {"BASIC", "DIGEST"} ->
            [mode |-> ctx.auth_mode,
             from |-> IF setup.userid THEN "set_auth" ELSE est_client_retrieve_credentials]
      [] ctx.auth_mode = "TOKEN" ->
            [mode |-> "TOKEN", from |-> est_client_retrieve_credentials]
      [] OTHER -> [mode |-> "NONE", from |-> "empty"]

\* A request for the CA certificates carries no Authorization header.
est_client_build_cacerts_header == [mode |-> "NONE", from |-> "empty"]
est_client_build_csr_header == est_client_add_auth_hdr
est_client_build_enroll_header == est_client_add_auth_hdr

Request(csr) ==
    [op |-> call.op, conn |-> ssl.conn, pops |-> csr,
     auth |-> CASE call.op = "cacerts" -> est_client_build_cacerts_header
                [] call.op = "csrattrs" -> est_client_build_csr_header
                [] OTHER -> est_client_build_enroll_header]

(***************************************************************************)
(* A request has ended with rv and left the context c, the connection is   *)
(* closed.  An enrollment refused with a challenge the client can answer   *)
(* starts again, once.  Only est_client_enroll_internal resets the mode.   *)
(***************************************************************************)
ResetAuthMode(c) == IF call.op \in ByName THEN [c EXCEPT !.auth_mode = "NONE"] ELSE c

TriesAgain(c, rv) ==
    /\ call.op \in Enrollments /\ call.attempt = 1
    /\ rv = "AUTH_FAIL" /\ c.auth_mode \in Answerable

\* The next part of est_client_provision_cert.
Continue(op) ==
    /\ pc' = "connect"
    /\ call' = [call EXCEPT !.op = op, !.attempt = 1]

\* est_client_provision_cert loads the new trust anchors into the context.
LoadTrustAnchors(c) ==
    [c EXCEPT !.initialized = TRUE, !.trusted_certs_store = c.retrieved_ca_certs.root]

Finish(c, rv) ==
    CASE TriesAgain(c, rv) /\ c.auth_mode = "DIGEST" /\ setup.fips ->
            Return("BAD_MODE") /\ ctx' = c
      [] TriesAgain(c, rv) /\ ~ (c.auth_mode = "DIGEST" /\ setup.fips) ->
            /\ pc' = "connect" /\ ctx' = c
            /\ call' = [call EXCEPT !.attempt = 2]
      [] call.api = "provision" /\ call.op = "cacerts" /\ rv = "NONE" ->
            \* est_client_copy_cacerts, est_convert_p7b64_to_pem, est_load_trusted_certs
            \/ /\ Return("PEM_READ")
               /\ ctx' = [c EXCEPT !.initialized = FALSE]
            \/ /\ Return("LOAD_TRUST_CERTS")
               /\ ctx' = [LoadTrustAnchors(c) EXCEPT !.initialized = FALSE]
            \/ Continue("csrattrs") /\ ctx' = LoadTrustAnchors(c)
      [] call.api = "provision" /\ call.op = "csrattrs" /\ rv \in {"NONE", "HTTP_NO_CONTENT"} ->
            /\ ctx' = c
            /\ IF c.initialized THEN Continue("enroll") ELSE Return("CLIENT_NOT_INITIALIZED")
      [] OTHER -> Return(rv) /\ ctx' = ResetAuthMode(c)

Close == tcw_close /\ ssl' = NoSsl

(***************************************************************************)
(* The CSR is built and the request is sent; or something fails on the way *)
(* and the call ends.                                                      *)
(***************************************************************************)
\* est_client_get_csrattrs drops the attributes it has once it is connected.
Sending == IF call.op = "csrattrs" THEN [ctx EXCEPT !.retrieved_csrattrs = FALSE] ELSE ctx

SendRequest ==
    /\ pc = "request"
    /\ pc' = "answer" /\ ctx' = Sending /\ pops' = BuiltCsr
    /\ sent' = Append(sent, Request(BuiltCsr))
    /\ UNCHANGED <<setup, call, sock, fds, ssl, asked>>

SendFails ==
    /\ pc = "request"
    /\ \E rv \in BuildErrors \cup {"HTTP_CANNOT_BUILD_HEADER", "SSL_WRITE"} :
          Finish([Sending EXCEPT !.sess = ssl.peer], rv)
    /\ pops' = BuiltCsr
    /\ Close
    /\ UNCHANGED <<setup, sent, asked>>

--------------------------------------------------------------------------------
(***************************************************************************)
(* est_client_http.c: what an answer means.  The parameters of a challenge *)
(* are read up to the first that is invalid.                               *)
(***************************************************************************)
est_io_parse_auth_tokens(tokens) ==
    IF \E i \in DOMAIN tokens :
          \/ tokens[i].name \in {"realm", "nonce", "error", "error_description"}
             /\ tokens[i].value \in {"missing", "too_long"}
          \/ tokens[i].name = "qop" /\ tokens[i].value = "missing"
          \/ tokens[i].name = "algorithm" /\ tokens[i].value = "unsupported"
    THEN "INVALID_TOKEN" ELSE "NONE"

est_io_parse_http_auth_request(www) ==
    CASE www.scheme \notin {"Basic", "Digest", "Bearer"} -> "FAIL"
      [] est_io_parse_auth_tokens(www.tokens) # "NONE" -> "FAIL"
      [] www.scheme = "Basic" -> "BASIC"
      [] www.scheme = "Digest" -> "DIGEST"
      [] www.scheme = "Bearer" -> "TOKEN"

\* The delay of a 202: after says what the Retry-After header holds, "digits"
\* of value secs, or something the client does not take.
(* Mutant: the delay is not compared with INT_MAX. *)
RetryAfterUnbounded(a) == IF a.after = "digits" THEN a.secs ELSE 0

RetryAfter(a) == IF a.after = "digits" /\ a.secs <= IntMax THEN a.secs ELSE 0

DelayAfter(a, delay) == IF a.status = 202 THEN RetryAfter(a) ELSE delay

est_io_parse_http_retry_after_resp(a) ==
    IF a.after = "digits" /\ a.secs <= IntMax THEN "CA_ENROLL_RETRY" ELSE "INVALID_RETRY_VALUE"

\* est_io_parse_response_status_code knows these; anything else is -1.
StatusError(a) ==
    CASE a.status = 200 -> "NONE"
      [] a.status = 202 -> est_io_parse_http_retry_after_resp(a)
      [] a.status = 204 -> "HTTP_NO_CONTENT"
      [] a.status = 400 -> "HTTP_BAD_REQ"
      [] a.status = 401 -> "AUTH_FAIL"
      [] a.status = 404 -> "HTTP_NOT_FOUND"
      [] a.status = 423 -> "HTTP_LOCKED"
      [] a.status \in {500, 502, 504, -1} -> "UNKNOWN"

\* "Check if we've already tried authenticating, if so, then bail."
ModeAfter(a, mode) ==
    IF a.status # 401 THEN mode
    ELSE IF mode \in Answerable THEN "FAIL"
    ELSE est_io_parse_http_auth_request(a.www)

\* The headers and the length of an answer with one body.
est_io_check_http_hdrs(a) ==
    IF a.ct # "expected" \/ ~ a.has_cl THEN "HTTP_UNSUPPORTED" ELSE "NONE"

ContentError(a) ==
    IF est_io_check_http_hdrs(a) # "NONE" \/ a.cl > CaMax \/ a.cl < 0 \/ a.cl # Len(a.body)
    THEN "HTTP_UNSUPPORTED" ELSE "NONE"

\* est_io_get_response_internal: an answer with one body, an answer with two.
est_io_get_response(a) ==
    IF a.empty THEN "HTTP_NOT_FOUND"
    ELSE IF StatusError(a) # "NONE" THEN StatusError(a) ELSE ContentError(a)

ParsedBodies == [b \in {a.body : a \in KeygenAnswers} |-> parse_remaining_multipart_payload(b)]

est_io_get_multipart_response(a) ==
    LET hdrs == parse_and_split_keygen_rsp(a.multi, a.boundary)
    IN IF a.empty THEN NoPayload("HTTP_NOT_FOUND")
       ELSE IF hdrs = "error" THEN NoPayload("MULTIPART_PARSE")
       ELSE IF StatusError(a) # "NONE" THEN NoPayload(StatusError(a))
       ELSE IF hdrs = "no_boundary" THEN NoPayload("NONE")
       ELSE ParsedBodies[a.body]

\* The mode and the delay change only with an answer whose headers are read.
HeadersRead(a) ==
    /\ ~ a.empty
    /\ call.op \in Keygens => parse_and_split_keygen_rsp(a.multi, a.boundary) # "error"

Answered(a) ==
    [ctx EXCEPT !.sess = ssl.peer,
                !.auth_mode = IF HeadersRead(a) THEN ModeAfter(a, @) ELSE @,
                !.retry_after_delay = IF HeadersRead(a) THEN DelayAfter(a, @) ELSE @]

--------------------------------------------------------------------------------
(***************************************************************************)
(* What the requests do with their answers: the context and the result.    *)
(***************************************************************************)
SizeError(data, max) ==
    IF data = <<>> THEN "ZERO_LENGTH_BUF"
    ELSE IF Len(data) > max THEN "BUF_EXCEEDS_MAX_LEN" ELSE "NONE"

StoredCert(data) == [call |-> call.n, data |-> data]

\* (A key beyond its limit does not get here, see part_data_cb.)
est_client_send_enroll_request_internal(rv, cert) ==
    IF rv # "NONE" THEN rv ELSE SizeError(cert, CertMax)

est_client_enroll_req(a) ==
    LET rv == est_client_send_enroll_request_internal(est_io_get_response(a), a.body)
    IN [rv |-> rv,
        ctx |-> IF rv # "NONE" THEN Answered(a)
                ELSE [Answered(a) EXCEPT !.enrolled_client_cert = StoredCert(a.body)]]

\* est_base64_decode stops at a NUL.
Decoded(data) == SelectSeq(data, LAMBDA c : c # "NUL")

est_client_verify_key_and_cert(key, cert) ==
    IF [key |-> Decoded(key), cert |-> Decoded(cert)] \in KeyPairs THEN "NONE" ELSE "VALIDATION"

\* The pair is stored, then verified: one that does not match stays.
StorePair(a, r) ==
    LET rv == est_client_send_enroll_request_internal(r.rv, r.cert)
    IN IF rv # "NONE" THEN [ctx |-> Answered(a), rv |-> rv]
       ELSE [ctx |-> [Answered(a) EXCEPT !.enrolled_client_cert = StoredCert(r.cert),
                                         !.server_gen_client_priv_key = StoredCert(r.key)],
             rv |-> est_client_verify_key_and_cert(r.key, r.cert)]

KeygenReq(a) == StorePair(a, est_io_get_multipart_response(a))

(***************************************************************************)
(* verify_cacert_resp: every certificate of the answer must lead to a self *)
(* signed one in it; the CRLs are taken out.                               *)
(***************************************************************************)
Selfsigned(certs) == {i \in DOMAIN certs : certs[i].subject = certs[i].issuer}

Verified(certs) == \* X509_verify_cert, with the self signed certificates as trusted
    FoldLeft(LAMBDA V, step : V \cup {i \in DOMAIN certs : certs[i].good /\
                                 \E j \in V : certs[j].subject = certs[i].issuer},
             {i \in Selfsigned(certs) : certs[i].good}, certs)

create_PKCS7(chain) == IF chain.pkcs7 = "garbage" THEN "LOAD_CACERTS" ELSE "NONE"
PKCS7_to_stack(chain) == IF chain.pkcs7 = "no_certs" THEN "CACERT_VERIFICATION" ELSE "NONE"

verify_cacert_resp(chain) ==
    IF create_PKCS7(chain) # "NONE" THEN create_PKCS7(chain)
    ELSE IF PKCS7_to_stack(chain) # "NONE" THEN PKCS7_to_stack(chain)
    ELSE IF Verified(chain.certs) # DOMAIN chain.certs THEN "CACERT_VERIFICATION"
    ELSE "NONE"

est_client_remove_crls(chain) == [chain EXCEPT !.crls = FALSE]

est_client_send_cacerts_request(a) ==
    LET read == est_io_get_response(a)
        rv == IF read # "NONE" THEN read ELSE SizeError(a.body, CaMax - 1)
        valid == verify_cacert_resp(a.chain)
    IN IF rv # "NONE" THEN [ctx |-> Answered(a), rv |-> rv]
       ELSE [ctx |-> [Answered(a) EXCEPT !.retrieved_ca_certs =
                          IF valid = "NONE" THEN est_client_remove_crls(a.chain) ELSE NULL],
             rv |-> valid]

\* The attributes say whether the CSR needs a challengePassword; those that
\* cannot be parsed are dropped, but what was found of it counts.
est_client_send_csrattrs_request(a) == est_io_get_response(a)

est_client_get_csrattrs(a) ==
    LET rv == est_client_send_csrattrs_request(a)
    IN IF rv # "NONE" \/ a.body = <<>> THEN [ctx |-> Answered(a), rv |-> rv]
       ELSE [ctx |-> [Answered(a) EXCEPT !.retrieved_csrattrs = a.attrs.valid,
                                         !.csr_pop_required = a.attrs.pop],
             rv |-> IF a.attrs.valid THEN "NONE" ELSE "BAD_ASN1"]

Outcome(a) ==
    CASE call.op \in Keygens -> KeygenReq(a)
      [] call.op \in Enrollments \ Keygens -> est_client_enroll_req(a)
      [] call.op = "cacerts" -> est_client_send_cacerts_request(a)
      [] call.op = "csrattrs" -> est_client_get_csrattrs(a)

\* History: the challenges (meant is the mode the server has in mind), the PoP
\* the last CSR attributes asked for, the delay of the last 202.
Noted(a) ==
    [modes |-> IF a.status = 401 THEN asked.modes \cup ({a.www.meant} \ {"NONE"}) ELSE asked.modes,
     first |-> IF a.status = 401 /\ call.op \in Enrollments /\ call.attempt = 1 /\ ~ a.empty
               THEN a.www.meant ELSE asked.first,
     pop |-> IF call.op = "csrattrs" /\ est_io_get_response(a) = "NONE" /\ a.body # <<>>
             THEN a.attrs.pop ELSE asked.pop,
     delay |-> IF a.status = 202 THEN a.secs ELSE asked.delay]

(***************************************************************************)
(* The answer arrives, whole or cut short by the end of the connection.    *)
(***************************************************************************)
ReceiveAnswer ==
    /\ pc = "answer"
    /\ \E a \in IF call.op \in Keygens THEN KeygenAnswers ELSE Answers :
          /\ \E o \in {Outcome(a)} : Finish(o.ctx, o.rv)
          /\ asked' = Noted(a)
    /\ Close
    /\ UNCHANGED <<setup, pops, sent>>

(* Mutant: the socket is read without the poll that bounds the wait. *)
WaitForEver == FALSE

\* est_ssl_read: nothing arrives within ctx->read_timeout, or reading fails.
est_ssl_read_fails == pc = "answer"

ReadFails ==
    /\ est_ssl_read_fails
    /\ \E rv \in {"SSL_READ", "READ_BUFFER_TOO_SMALL"} :
          Finish([ctx EXCEPT !.sess = ssl.peer], rv)
    /\ Close
    /\ UNCHANGED <<setup, pops, sent, asked>>

\* The call returns to the application.
Returned ==
    /\ pc = "returned"
    /\ pc' = "idle" /\ call' = NoCall(call.n)
    /\ pops' = <<>> /\ sent' = <<>>
    /\ asked' = [asked EXCEPT !.first = "NONE", !.delay = 0]
    /\ UNCHANGED <<setup, ctx, sock, fds, ssl>>

--------------------------------------------------------------------------------
(***************************************************************************)
(* The calls that send nothing.                                            *)
(***************************************************************************)
Configure(name, c, known) ==
    /\ pc = "idle" /\ call.n < MaxCalls /\ name \in setup.calls
    /\ call' = NoCall(call.n + 1)
    /\ ctx' = c /\ asked' = known
    /\ UNCHANGED <<setup, pc, pops, sock, fds, ssl, sent>>

\* A context may be destroyed and another made, with the anchors the
\* application has: the ones it began with or the ones it copied out.
est_client_init(root, host) == Configure("init", Context(root, host), NothingAsked)

est_client_set_auth ==
    Configure("set_auth", [ctx EXCEPT !.auth_mode = "NONE"], [asked EXCEPT !.modes = {}])

est_client_enable_basic_auth_hint ==
    Configure("basic_auth_hint", [ctx EXCEPT !.auth_mode = "BASIC"], [asked EXCEPT !.modes = @ \cup {"BASIC"}])

est_client_force_pop(force) == Configure("force_pop", [ctx EXCEPT !.client_force_pop = force], asked)

est_client_set_server(host) ==
    ctx.initialized /\ Configure("set_server", [ctx EXCEPT !.est_server = host], asked)

est_client_copy_enrolled_cert ==
    /\ ctx.initialized /\ ctx.enrolled_client_cert # NoCert
    /\ Configure("copy_enrolled_cert", [ctx EXCEPT !.enrolled_client_cert = NoCert], asked)

est_client_copy_server_generated_key ==
    /\ ctx.initialized /\ ctx.server_gen_client_priv_key # NoCert
    /\ Configure("copy_key", [ctx EXCEPT !.server_gen_client_priv_key = NoCert], asked)

est_client_copy_cacerts ==
    /\ ctx.initialized /\ ctx.retrieved_ca_certs # NULL
    /\ Configure("copy_cacerts", [ctx EXCEPT !.initialized = FALSE], asked)

est_client_copy_retry_after ==
    /\ ctx.initialized
    /\ Configure("copy_retry_after", [ctx EXCEPT !.retry_after_delay = 0], asked)

--------------------------------------------------------------------------------
Next ==
    \/ \E api \in Apis, fault \in Arguments, own \in {<<>>, <<0>>} : Call(api, fault, own)
    \/ TcpConnect
    \/ TlsConnect
    \/ TlsConnectFails
    \/ SendRequest
    \/ SendFails
    \/ ReceiveAnswer
    \/ ReadFails
    \/ Returned
    \/ \E root \in Roots, host \in setup.hosts : est_client_init(root, host)
    \/ est_client_set_auth
    \/ est_client_enable_basic_auth_hint
    \/ \E force \in BOOLEAN : est_client_force_pop(force)
    \/ \E host \in setup.hosts : est_client_set_server(host)
    \/ est_client_copy_enrolled_cert
    \/ est_client_copy_server_generated_key
    \/ est_client_copy_cacerts
    \/ est_client_copy_retry_after

(***************************************************************************)
(* The thread of the application runs, getaddrinfo and connect return, and *)
(* est_ssl_read gives up after its timeout.  Nothing bounds the handshake: *)
(* SSL_connect reads a blocking socket without a timeout.                  *)
(***************************************************************************)
Fairness == WF_vars(TcpConnect \/ SendRequest \/ SendFails \/ ReadFails \/ Returned)

Spec == Init /\ [][Next]_vars /\ Fairness

--------------------------------------------------------------------------------
(* Properties.                                                             *)

TypeOK ==
    /\ setup \in Deployments
    /\ ctx.initialized \in BOOLEAN /\ ctx.auth_mode \in Modes
    /\ ctx.csr_pop_required \in BOOLEAN /\ ctx.client_force_pop \in BOOLEAN
    /\ ctx.est_server \in Hosts /\ ctx.sess \in Peers \cup {NoPeer}
    /\ ctx.enrolled_client_cert.call \in 0..MaxCalls
    /\ ctx.server_gen_client_priv_key.call \in 0..MaxCalls
    /\ ctx.retry_after_delay \in 0..IntMax
    /\ ctx.cert_store \in Roots /\ ctx.trusted_certs_store \in Roots \cup {NULL}
    /\ pc \in {"idle", "connect", "handshake", "request", "answer", "returned"}
    /\ call.api \in Apis \cup {"none"} /\ call.n \in 0..MaxCalls /\ call.attempt \in 1..2
    /\ sock \in {"open", "closed"} /\ fds \in 0..1

(***************************************************************************)
(* est_client_connect, est_client_check_fqdn: a request is sent only to a  *)
(* server whose certificate names the host set at the time, by the rules   *)
(* of HostCheck's reference, and whose chain the anchors of this context   *)
(* or the application's callback accepted, also when the session is that   *)
(* of an earlier connection to another host.  Without a certificate, SRP   *)
(* must be enabled.                                                        *)
(***************************************************************************)
VerifiedServer ==
    pc \in {"request", "answer"} =>
        IF ssl.peer.cert
        THEN Identifies(ssl.peer, ctx.est_server) /\ cert_verify_cb(VerifyError(ssl.peer))
        ELSE setup.enable_srp

(***************************************************************************)
(* est_client_verifyhost: a server is refused for its name only when its   *)
(* certificate does not name the host.  (The session of the refused        *)
(* connection is kept, which tells the server.)                            *)
(***************************************************************************)
RefusesOnlyOthers ==
    pc = "returned" /\ call.rv = "FQDN_MISMATCH" =>
        ~ (ctx.sess.cert /\ Identifies(ctx.sess, ctx.est_server))

(***************************************************************************)
(* The CSR on the wire holds exactly one challengePassword, that of the    *)
(* connection it is sent on, when the last CSR attributes this context got *)
(* or the application asked for it, and none otherwise; whatever the CSR   *)
(* held before, and also in the second attempt.  A CSR that the            *)
(* application signed is sent as it is.                                    *)
(***************************************************************************)
PopAsAsked ==
    pc = "answer" /\ call.op \in Enrollments \ {"enroll_signed"} =>
        Last(sent).pops = IF asked.pop \/ ctx.client_force_pop THEN <<ssl.conn>> ELSE <<>>

(***************************************************************************)
(* Whatever fails on the way, a call that returns leaves no descriptor     *)
(* open and no TLS connection behind.                                      *)
(***************************************************************************)
NothingLeftOpen ==
    pc \in {"idle", "returned"} => fds = 0 /\ sock = "closed" /\ ssl = NoSsl

(***************************************************************************)
(* An enrollment that succeeds leaves the whole certificate the server     *)
(* sent in this call in the context, also when the answer is cut short.    *)
(***************************************************************************)
EnrolledCertificateIsWhole ==
    pc = "returned" /\ call.rv = "NONE" /\ call.op \in Enrollments \ Keygens =>
        /\ ctx.enrolled_client_cert.call = call.n
        /\ Decoded(ctx.enrolled_client_cert.data) \in {p.cert : p \in KeyPairs}

(***************************************************************************)
(* A key generation that succeeds leaves a key and the certificate of that *)
(* key in the context, both of this call.                                  *)
(***************************************************************************)
KeygenPairMatches ==
    pc = "returned" /\ call.rv = "NONE" /\ call.op \in Keygens =>
        /\ ctx.enrolled_client_cert.call = call.n /\ ctx.server_gen_client_priv_key.call = call.n
        /\ \E p \in KeyPairs : /\ Decoded(ctx.enrolled_client_cert.data) = p.cert
                              /\ Decoded(ctx.server_gen_client_priv_key.data) = p.key

(***************************************************************************)
(* multipart_parser_execute and its callbacks never take one part for the  *)
(* other: what is stored as the key comes from the part with the key, what *)
(* is stored as the certificate from the part with the certificate,        *)
(* whatever the order of the parts and wherever the body ends.             *)
(***************************************************************************)
PartsKeptApart ==
    pc = "returned" /\ call.op \in Keygens /\ ctx.server_gen_client_priv_key.call = call.n =>
        /\ \E p \in KeyPairs : IsPrefix(Decoded(ctx.enrolled_client_cert.data), p.cert)
        /\ \E p \in KeyPairs : IsPrefix(Decoded(ctx.server_gen_client_priv_key.data), p.key)

(***************************************************************************)
(* A call that begins without an authentication mode answers the challenge *)
(* of the server: it gives up with EST_ERR_AUTH_FAIL only after a request  *)
(* with the credentials the challenge asked for.                           *)
(***************************************************************************)
ChallengeAnswered ==
    (/\ pc = "returned" /\ call.op \in Enrollments /\ call.rv = "AUTH_FAIL"
     /\ call.began \in {"NONE", "FAIL"} /\ asked.first \in Answerable)
        => \E i \in DOMAIN sent : sent[i].auth.mode = asked.first

(***************************************************************************)
(* Credentials are sent only in the mode a server asked for, or the        *)
(* application hinted at, since the last est_client_set_auth.              *)
(***************************************************************************)
CredentialsOnlyWhenAsked ==
    \A i \in DOMAIN sent : sent[i].auth.mode \in asked.modes \cup {"NONE"}

(***************************************************************************)
(* The delay est_client_copy_retry_after hands out after a 202 is that of  *)
(* this answer, and 0 when its Retry-After header cannot be used.          *)
(***************************************************************************)
DelayOfThisAnswer ==
    pc = "returned" =>
        /\ call.rv = "CA_ENROLL_RETRY" => ctx.retry_after_delay = asked.delay
        /\ call.rv = "INVALID_RETRY_VALUE" => ctx.retry_after_delay = 0

(***************************************************************************)
(* est_client_provision_cert: the reset of the context by                  *)
(* est_client_copy_cacerts never fails a call that already sent a request. *)
(***************************************************************************)
InitializedThroughout ==
    pc = "returned" /\ call.rv = "CLIENT_NOT_INITIALIZED" => sent = <<>>

(***************************************************************************)
(* verify_cacert_resp: of the CA certificates kept in the context every    *)
(* one leads to a self signed one among them.  Stated without the search:  *)
(* each group of them has a good member that is self signed or is issued   *)
(* outside the group.                                                      *)
(***************************************************************************)
AnchorsVerified ==
    ctx.retrieved_ca_certs # NULL =>
        LET certs == ctx.retrieved_ca_certs.certs
        IN /\ ~ ctx.retrieved_ca_certs.crls
           /\ \A group \in SUBSET DOMAIN certs \ {{}} :
                 \E i \in group :
                    /\ certs[i].good
                    /\ \/ certs[i].subject = certs[i].issuer
                       \/ \E j \in DOMAIN certs \ group : certs[j].subject = certs[i].issuer

(***************************************************************************)
(* Which server the client talks to: the one its certificate names and the *)
(* anchors vouch for, and every such server.                               *)
(***************************************************************************)
TheRightServer == VerifiedServer /\ RefusesOnlyOthers

(***************************************************************************)
(* What the answers of the server make the client do: put a PoP into its   *)
(* CSR, authenticate, wait.  What an earlier call or attempt was told is not *)
(* taken for the answer to this one.                                       *)
(***************************************************************************)
ActsOnAnswers ==
    PopAsAsked /\ ChallengeAnswered /\ CredentialsOnlyWhenAsked /\ DelayOfThisAnswer

(***************************************************************************)
(* What a call that succeeds has put into the context is all of what the   *)
(* server sent in this call, each part in its place.                       *)
(***************************************************************************)
ResultIsWhole == EnrolledCertificateIsWhole /\ KeygenPairMatches /\ PartsKeptApart

(***************************************************************************)
(* What a call leaves behind, however it ends, is fit for the next one: no *)
(* connection, a context that stays initialized, CA certificates that lead to *)
(* anchors.                                                                *)
(***************************************************************************)
ContextLeftSound == NothingLeftOpen /\ InitializedThroughout /\ AnchorsVerified

(***************************************************************************)
(* est_client_provision_cert: "All future EST operations will then be      *)
(* using this new trust anchor", so a request goes only to a server whose  *)
(* chain ends in it.                                                       *)
(***************************************************************************)
NewAnchorUsed ==
    pc \in {"request", "answer"} /\ ctx.trusted_certs_store # NULL /\ ssl.peer.cert
    /\ setup.manual_cert_verify_cb = NULL => ssl.peer.root = ctx.trusted_certs_store

(***************************************************************************)
(* A call returns, whatever the server does, unless the handshake hangs:   *)
(* there SSL_connect waits for as long as the server is silent.            *)
(***************************************************************************)
CallEnds == (pc # "idle") ~> (pc \in {"idle", "handshake"})
================================================================================
