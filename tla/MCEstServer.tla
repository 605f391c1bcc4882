---------------------------- MODULE MCEstServer ----------------------------
(***************************************************************************)
(* Instances of EstServer for TLC.                                         *)
(***************************************************************************)
EXTENDS EstServer, TLC

\* est_server_init's defaults, with the callbacks of the example server.
Default == [est_http_auth_cb |-> TRUE, require_http_auth |-> TRUE, auth_mode |-> "user",
            enhanced_cert_auth |-> "disabled", server_enable_pop |-> TRUE,
            enforce_csrattrs |-> FALSE, est_get_csr_cb |-> TRUE, server_csrattrs |-> NULL,
            csr_pop_present |-> FALSE, est_enroll_cb |-> TRUE]

\* Deployments: the defaults, PoP off with local attributes enforced, token
\* authentication, enhanced certificate authentication, no HTTP
\* authentication at all, a server without a CA.
MCConfigs == {
    Default,
    [Default EXCEPT !.server_enable_pop = FALSE, !.est_get_csr_cb = FALSE,
                    !.server_csrattrs = 0, !.enforce_csrattrs = TRUE],
    [Default EXCEPT !.auth_mode = "token", !.est_get_csr_cb = FALSE],
    [Default EXCEPT !.enhanced_cert_auth = "csr_check"],
    [Default EXCEPT !.est_http_auth_cb = FALSE],
    [Default EXCEPT !.est_enroll_cb = FALSE]}

Symmetry == Permutations(Workers) \cup Permutations(Users)
=============================================================================
