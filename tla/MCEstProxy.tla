---------------------------- MODULE MCEstProxy ----------------------------
(***************************************************************************)
(* Deployments of the proxy to check: two HTTP workers with one entry in   *)
(* the array, so that it grows; one worker whose clients name segments; an *)
(* HTTP worker beside an application that fetches the chain; a CoAP proxy, *)
(* which has one thread; a proxy that was given no server.                 *)
(***************************************************************************)
EXTENDS EstProxy

CONSTANTS s1, s2

Plain == [workers |-> {4, 5}, apps |-> {}, transport_mode |-> "EST_HTTP", est_port_num |-> 1,
          auth_mode |-> "BASIC", server_enable_pop |-> TRUE, ca_certs |-> FALSE,
          uri_path_segment |-> NULL, segments |-> {}, ops |-> {"simpleenroll", "csrattrs"},
          max_requests |-> 2]

MCDeployments == {
    Plain,
    [Plain EXCEPT !.workers = {4}, !.auth_mode = "DIGEST", !.segments = {s1, s2},
                  !.ops = Enrollments \cup {"csrattrs", "cacerts"}],
    [Plain EXCEPT !.workers = {5}, !.apps = {4}, !.server_enable_pop = FALSE,
                  !.ops = {"csrattrs", "cacerts", "retrieve"}],
    [Plain EXCEPT !.workers = {5}, !.transport_mode = "EST_COAP", !.uri_path_segment = s1,
                  !.ops = Operations],
    [Plain EXCEPT !.workers = {4}, !.est_port_num = 0, !.ca_certs = TRUE,
                  !.ops = {"simpleenroll", "cacerts", "refused"}]}

TwoWorkers == {[Plain EXCEPT !.ops = {"simpleenroll"}, !.max_requests = 3]}
=============================================================================
