---------------------------- MODULE EnhancedAuth ----------------------------
(***************************************************************************)
(* Enhanced certificate authentication: src/est/est_enhcd_cert_auth.c and  *)
(* its callers in src/est/est_server.c.  EstServer has these functions as  *)
(* one step with an arbitrary outcome; this module looks inside.           *)
(*                                                                         *)
(* The application registers manufacturers, each with a truststore and the *)
(* subject field that names its devices.  A worker searches the list for   *)
(* the manufacturer of the client certificate, compares that field in the  *)
(* CSR and takes the user name from it.  All workers share the list and    *)
(* one X509_STORE_CTX per manufacturer, and nothing locks them, so every   *)
(* use of them is a step.  A certificate enrolled this way is what its     *)
(* owner presents next.                                                    *)
(*                                                                         *)
(* Verifying with a store context that another worker initialised, cleaned *)
(* up or freed has an arbitrary verdict; walking through a freed list ends *)
(* the request with an arbitrary result (in a build it may also crash).    *)
(***************************************************************************)
EXTENDS Integers, Functions

CONSTANTS
    Workers,            \* threads of the server
    NUM_SUPPORTED_MFG,  \* entries of the list
    Mfgs,               \* manufacturers
    Nids,               \* subject fields
    NidOf,              \* [Mfgs -> Nids]: the field registered for each
    Devices,            \* devices, with a certificate of their manufacturer
    MadeBy,             \* [Devices -> Mfgs]
    Value,              \* contents of a subject field
    Subject,            \* [Devices -> [Nids -> Value]]: in their certificates
    Csrs,               \* subjects clients ask for: a subset of [Nids -> Value]
    LocalNids,          \* fields the application sets for the local PKI domain
    Absent,             \* a Value: the subject has no such field
    NoOne,              \* no worker, no manufacturer
    MaxRequests,        \* bound: requests in one behaviour
    MaxChanges          \* bound: calls that change or remove the list

ASSUME EnhancedAssumption ==
    /\ NUM_SUPPORTED_MFG \in Nat \ {0}
    /\ NoOne \notin Workers \cup Mfgs
    /\ NidOf \in [Mfgs -> Nids] /\ MadeBy \in [Devices -> Mfgs]
    /\ \A d \in Devices : Subject[d] \in [Nids -> Value]
    /\ Csrs \subseteq [Nids -> Value]
    /\ Absent \in Value /\ Nids # {} /\ Devices # {} /\ Csrs # {}
    /\ LocalNids \subseteq Nids
    /\ MaxRequests \in Nat /\ MaxChanges \in Nat

VARIABLES
    eca,        \* enhanced_cert_auth_enabled, csr_check and the local NID
    list,       \* enchd_cert_mfgs_info_list: a sequence, NoList when NULL
    store_ctx,  \* whose certificate each entry's store context holds
    local,      \* certificates enrolled in the local PKI domain
    pc, req,    \* the step and the request of each worker
    requests,   \* counted against MaxRequests
    changes     \* counted against MaxChanges

vars == <<eca, list, store_ctx, local, pc, req, requests, changes>>

Indices == 1..NUM_SUPPORTED_MFG

\* A certificate: who signed it (NoOne: the local CA), for which device, with
\* which subject.  kept, history: the field whose value every enrollment since
\* the manufacturer's certificate was checked for.
Cert == [mfg : Mfgs \cup {NoOne}, device : Devices, subject : [Nids -> Value],
         kept : Nids \cup {Absent}]
DeviceCert(d) == [mfg |-> MadeBy[d], device |-> d, subject |-> Subject[d],
                  kept |-> Absent]

\* An entry of the list: calloc leaves truststore and store_ctx NULL.
Free == [mfg |-> NoOne, nid |-> CHOOSE n \in Nids : TRUE]
Entry == [mfg : Mfgs \cup {NoOne}, nid : Nids]
NoList == <<>>
Registered(i) == list[i].mfg # NoOne
RegisteredNids == {list[i].nid : i \in {j \in DOMAIN list : Registered(j)}}

\* The index counts from 1; 0 stands for the code's -1.  disturbed, history:
\* another worker or the application changed what the request was using, or
\* OpenSSL met an internal error.
Request == [cert : Cert, csr : [Nids -> Value], check : BOOLEAN,
            i : 1..NUM_SUPPORTED_MFG + 1, mfg_index : 0..NUM_SUPPORTED_MFG,
            user : Value, kept : Nids \cup {Absent}, disturbed : BOOLEAN]

\* handle_enhanced_cert_auth is called with the check's flag as it is now.
NewRequest(cert, csr, check) ==
    [cert |-> cert, csr |-> csr, check |-> check, i |-> 1, mfg_index |-> 0,
     user |-> Absent, kept |-> Absent, disturbed |-> FALSE]
NoRequest == NewRequest(DeviceCert(CHOOSE d \in Devices : TRUE),
                        CHOOSE csr \in Csrs : TRUE, FALSE)

Steps == {"idle", "get_mfg", "scan", "verify", "matched", "failed",
          "csr_check", "header", "auth_cb"}
InFlight == {w \in Workers : pc[w] # "idle"}

-----------------------------------------------------------------------------
(* The application *)

\* A change under the feet of the requests in flight.
Change(e, l, s) ==
    /\ eca' = e /\ list' = l /\ store_ctx' = s
    /\ changes' = IF list = l /\ (eca.enabled => e.enabled) THEN changes
                  ELSE changes + 1
    /\ changes' <= MaxChanges
    /\ req' = [w \in Workers |-> IF w \in InFlight /\ <<e, l>> # <<eca, list>>
                                 THEN [req[w] EXCEPT !.disturbed = TRUE] ELSE req[w]]
    /\ UNCHANGED <<local, pc, requests>>

NoneLoaded == [i \in Indices |-> NoOne]

\* The field of the local domain is set before the other parameters are found
\* to be good.
est_server_enable_enhanced_cert_auth(nid, check, good) ==
    /\ ~eca.enabled
    /\ Change(IF good THEN [enabled |-> TRUE, csr_check |-> check, local_nid |-> nid]
              ELSE [eca EXCEPT !.local_nid = nid], list, store_ctx)

mfg_info_list_create == [i \in Indices |-> Free]

\* The free entries before which none is free: one or none.
FirstFree(l) ==
    {i \in Indices : l[i].mfg = NoOne /\ \A j \in 1..(i - 1) : l[j].mfg # NoOne}

\* Mutant: a full list gives its last entry.
NextOrLast(l) ==
    IF FirstFree(l) = {} THEN NUM_SUPPORTED_MFG ELSE CHOOSE i \in FirstFree(l) : TRUE

\* The first free entry, 0 when the list is full.
get_next_mfg_info_ind(l) ==
    IF FirstFree(l) = {} THEN 0 ELSE CHOOSE i \in FirstFree(l) : TRUE

\* A list that is full is left alone.  When the certificates cannot be loaded,
\* the entry has no truststore and so is still free: its field is not read.
load_enhcd_cert_auth_manufacturer(l, m, loaded) ==
    LET i == get_next_mfg_info_ind(l)
    IN  IF i = 0 \/ ~loaded THEN l
        ELSE [l EXCEPT ![i] = [mfg |-> m, nid |-> NidOf[m]]]

est_server_enhanced_cert_auth_add_mfg_info(m, loaded) ==
    /\ eca.enabled
    /\ Change(eca, load_enhcd_cert_auth_manufacturer(
                       IF list = NoList THEN mfg_info_list_create ELSE list, m, loaded),
              store_ctx)

\* mfg_info_list_destroy frees the list and every store context in it.
est_server_disable_enhanced_cert_auth ==
    /\ eca.enabled
    /\ Change([eca EXCEPT !.enabled = FALSE], NoList, NoneLoaded)

-----------------------------------------------------------------------------
(* A worker: est_enroll_auth, handle_enhanced_cert_auth *)

\* Entry i of the shared store contexts becomes x and the request of w becomes
\* r: another worker that relies on its own certificate being there is disturbed.
Touch(w, i, x, r) ==
    /\ store_ctx' = [store_ctx EXCEPT ![i] = x]
    /\ req' = [v \in Workers |->
                 IF v = w THEN r
                 ELSE IF pc[v] = "verify" /\ req[v].i = i
                      THEN [req[v] EXCEPT !.disturbed = TRUE] ELSE req[v]]

AppFrame == UNCHANGED <<eca, list, changes, requests>>
Frame == AppFrame /\ UNCHANGED <<store_ctx, local>>

Goto(w, step) == pc' = [pc EXCEPT ![w] = step]
To(w, step, r) == Goto(w, step) /\ req' = [req EXCEPT ![w] = r]

\* EST_UNAUTHORIZED or EST_CSR_PARSE_FAIL: no certificate.
Refused(w) == To(w, "idle", NoRequest)

\* EST_HTTP_AUTH or EST_CERT_AUTH: the local CA signs what the CSR asks for.
Enrolled(w, kept) ==
    /\ To(w, "idle", NoRequest)
    /\ local' = local \cup {[mfg |-> NoOne, device |-> req[w].cert.device,
                            subject |-> req[w].csr, kept |-> kept]}

\* EST_AUTH_HDR_BAD: over HTTP the certificate alone will do for a request
\* that is not a simple enrollment.
BadHeader(w) ==
    /\ (Refused(w) /\ UNCHANGED local) \/ Enrolled(w, Absent)
    /\ AppFrame /\ UNCHANGED store_ctx

\* The list is gone: the request ends with some result.
Undefined(w) ==
    /\ list = NoList
    /\ (Refused(w) /\ UNCHANGED local) \/ Enrolled(w, Absent)
    /\ AppFrame /\ UNCHANGED store_ctx

\* A request of a client whose certificate TLS has verified.
est_enroll_auth(w) ==
    /\ pc[w] = "idle" /\ eca.enabled
    /\ requests < MaxRequests /\ requests' = requests + 1
    /\ \E cert \in {DeviceCert(d) : d \in Devices} \cup local, csr \in Csrs :
          To(w, "get_mfg", NewRequest(cert, csr, eca.csr_check))
    /\ UNCHANGED <<eca, list, store_ctx, local, changes>>

\* est_enhcd_cert_auth_get_mfg before its loop.
get_mfg(w) ==
    /\ pc[w] = "get_mfg"
    /\ \/ \* no certificate chain: EST_AUTH_ECA_ERR
          Refused(w)
       \/ To(w, IF list = NoList THEN "csr_check" ELSE "scan", req[w])
    /\ Frame

\* Mutant: the search starts at the second entry.
ScanFromSecond(w) ==
    LET r == req[w]
        i == IF r.i = 1 THEN 2 ELSE r.i
    IN  /\ pc[w] = "scan" /\ list # NoList
        /\ \/ /\ i > NUM_SUPPORTED_MFG
              /\ To(w, "csr_check", r) /\ Frame
           \/ /\ i \in Indices /\ ~Registered(i)
              /\ To(w, "scan", [r EXCEPT !.i = i + 1]) /\ Frame
           \/ /\ i \in Indices /\ Registered(i)
              /\ Touch(w, i, w, r) /\ Goto(w, "verify")
              /\ AppFrame /\ UNCHANGED local

\* One turn of the loop up to X509_verify_cert.  X509_STORE_CTX_init may fail
\* with EST_ERR_MALLOC, which ends in EST_AUTH_HDR_BAD.
Scan(w) ==
    LET r == req[w]
    IN  /\ pc[w] = "scan" /\ list # NoList
        /\ \/ /\ r.i > NUM_SUPPORTED_MFG
              /\ To(w, "csr_check", r) /\ Frame
           \/ /\ r.i \in Indices /\ ~Registered(r.i)
              /\ To(w, "scan", [r EXCEPT !.i = @ + 1]) /\ Frame
           \/ /\ r.i \in Indices /\ Registered(r.i)
              /\ Touch(w, r.i, w, r) /\ Goto(w, "verify")
              /\ AppFrame /\ UNCHANGED local
           \/ /\ r.i \in Indices /\ Registered(r.i)
              /\ BadHeader(w)

\* X509_verify_cert: 1 or 0, and -1 (which counts as verified) when it meets
\* an internal error.  Another certificate in the store context: any of them.
Verify(w) ==
    LET r == req[w]
        own == store_ctx[r.i] = w /\ list # NoList
        signed == r.cert.mfg = list[r.i].mfg
    IN  /\ pc[w] = "verify"
        /\ \/ (own => signed) /\ To(w, "matched", r)
           \/ (own => ~signed) /\ To(w, "failed", r)
           \/ To(w, "matched", [r EXCEPT !.disturbed = TRUE])
        /\ Frame

\* Mutant: a certificate that fails is tried with the same entry again.
CleanupStay(w) ==
    /\ pc[w] \in {"matched", "failed"}
    /\ Touch(w, req[w].i, NoOne, IF pc[w] = "matched"
                                 THEN [req[w] EXCEPT !.mfg_index = req[w].i]
                                 ELSE req[w])
    /\ Goto(w, IF pc[w] = "matched" THEN "csr_check" ELSE "scan")
    /\ AppFrame /\ UNCHANGED local

\* X509_STORE_CTX_cleanup; the first entry that verifies ends the search.
Cleanup(w) ==
    LET r == req[w]
    IN  /\ \/ /\ pc[w] = "matched" /\ Goto(w, "csr_check")
              /\ Touch(w, r.i, NoOne, [r EXCEPT !.mfg_index = r.i])
           \/ /\ pc[w] = "failed" /\ Goto(w, "scan")
              /\ Touch(w, r.i, NoOne, [r EXCEPT !.i = @ + 1])
        /\ AppFrame /\ UNCHANGED local

SameField(r, n) == r.cert.subject[n] # Absent /\ r.cert.subject[n] = r.csr[n]

\* Mutant: a certificate of the local domain is not compared.
CheckManufacturersOnly(r) ==
    r.mfg_index > 0 => SameField(r, list[r.mfg_index].nid)

\* perform_enhanced_cert_auth_csr_check with a list: the field of the
\* certificate's manufacturer, for a local certificate that of any of them; a
\* list without manufacturers compares nothing.
csr_check_passes(r) ==
    IF r.mfg_index > 0 THEN SameField(r, list[r.mfg_index].nid)
    ELSE RegisteredNids = {} \/ \E n \in RegisteredNids : SameField(r, n)

\* The field the check has kept: with several it may be any of them.
Kept(r) ==
    {n \in RegisteredNids :
        /\ RegisteredNids = {n} /\ ~r.disturbed
        /\ r.cert.mfg # NoOne \/ r.cert.kept = n}
KeptField(r) == IF Kept(r) = {} THEN Absent ELSE CHOOSE n \in Kept(r) : TRUE

CsrCheck(w) ==
    LET r == req[w]
    IN  /\ pc[w] = "csr_check"
        /\ \/ ~r.check /\ To(w, "header", r)
           \/ \* the CSR does not parse, there is no list or the fields differ
              r.check /\ Refused(w)
           \/ /\ r.check /\ list # NoList /\ csr_check_passes(r)
              /\ To(w, "header", [r EXCEPT !.kept = KeptField(r)])
        /\ Frame

\* build_enhanced_cert_auth_header: a missing field is EST_AUTH_ECA_ERR.
build_enhanced_cert_auth_header(w) ==
    LET r == req[w]
        nid == IF r.mfg_index > 0 THEN list[r.mfg_index].nid ELSE eca.local_nid
    IN  /\ pc[w] = "header" /\ (r.mfg_index > 0 => list # NoList)
        /\ IF r.cert.subject[nid] = Absent THEN Refused(w)
           ELSE To(w, "auth_cb", [r EXCEPT !.user = r.cert.subject[nid]])
        /\ Frame

\* The application decides on the user; an authorized request is enrolled.
est_http_auth_cb(w) ==
    /\ pc[w] = "auth_cb"
    /\ Enrolled(w, req[w].kept) \/ (Refused(w) /\ UNCHANGED local)
    /\ AppFrame /\ UNCHANGED store_ctx

\* The steps that read the list after the check for NULL.
Walks(w) == pc[w] = "scan" \/ (pc[w] = "header" /\ req[w].mfg_index > 0)

WorkerStep(w) ==
    \/ get_mfg(w) \/ Scan(w) \/ Verify(w) \/ Cleanup(w) \/ CsrCheck(w)
    \/ build_enhanced_cert_auth_header(w) \/ est_http_auth_cb(w)
    \/ (Walks(w) /\ Undefined(w))

\* The lists k calls for different manufacturers make.
SetUp(k) ==
    {[i \in Indices |-> IF i <= k THEN [mfg |-> f[i], nid |-> NidOf[f[i]]] ELSE Free] :
        f \in Injection(1..k, Mfgs)}

\* The application has enabled the feature and registered manufacturers before
\* it started the server, or has done neither.
Init ==
    /\ \/ /\ \E n \in LocalNids, check \in BOOLEAN :
                 eca = [enabled |-> TRUE, csr_check |-> check, local_nid |-> n]
          /\ list \in {NoList} \cup UNION {SetUp(k) : k \in Indices}
       \/ /\ eca = [enabled |-> FALSE, csr_check |-> FALSE,
                    local_nid |-> CHOOSE n \in Nids : TRUE]
          /\ list = NoList
    /\ store_ctx = NoneLoaded /\ local = {}
    /\ pc = [w \in Workers |-> "idle"]
    /\ req = [w \in Workers |-> NoRequest]
    /\ requests = 0 /\ changes = 0

Application ==
    \/ \E n \in LocalNids, check, good \in BOOLEAN :
          est_server_enable_enhanced_cert_auth(n, check, good)
    \/ \E m \in Mfgs, loaded \in BOOLEAN :
          est_server_enhanced_cert_auth_add_mfg_info(m, loaded)
    \/ est_server_disable_enhanced_cert_auth

Next == Application \/ \E w \in Workers : est_enroll_auth(w) \/ WorkerStep(w)

\* A worker that has a request goes on with it; nothing waits here.
Spec == Init /\ [][Next]_vars /\ \A w \in Workers : WF_vars(WorkerStep(w))

-----------------------------------------------------------------------------
(* Properties *)

\* Every variable holds what its C declaration and use allow.
TypeOK ==
    /\ eca \in [enabled : BOOLEAN, csr_check : BOOLEAN, local_nid : Nids]
    /\ list = NoList \/ list \in [Indices -> Entry]
    /\ store_ctx \in [Indices -> Workers \cup {NoOne}]
    /\ local \subseteq Cert
    /\ pc \in [Workers -> Steps] /\ req \in [Workers -> Request]
    /\ requests \in 0..MaxRequests /\ changes \in 0..MaxChanges

\* The entries of the list that signed the client's certificate.
Signers(r) == {i \in DOMAIN list : Registered(i) /\ list[i].mfg = r.cert.mfg}

\* The user name the application is asked about is the field of the client's
\* own certificate that its manufacturer registered, or the field of the local
\* domain when no entry of the list signed it; unless another worker used the
\* store context at the same time or the application changed the list.
UserFromOwnCertificate ==
    \A w \in Workers : pc[w] = "auth_cb" /\ ~req[w].disturbed =>
        /\ \A i \in Signers(req[w]) :
              (\A j \in Signers(req[w]) : i <= j)
                  => req[w].user = req[w].cert.subject[list[i].nid]
        /\ Signers(req[w]) = {} => req[w].user = req[w].cert.subject[eca.local_nid]

\* est_server.c 3643-3645: "If there is only one unique manufacturer NID then
\* it can be ensured that identifying information from the manufacturer cert
\* was copied into the local PKI domain and will continue to be copied".  A
\* chain of enrollments, each with the check on, one field registered and the
\* list left alone meanwhile, keeps the device's value of that field.
IdentityPropagates ==
    \A c \in local : c.kept # Absent
        => c.subject[c.kept] = Subject[c.device][c.kept] /\ c.subject[c.kept] # Absent

\* A manufacturer once registered stays where it is until the feature is
\* disabled, also when more are added than the list holds and when the
\* truststore of a later one cannot be loaded.
RegistrationsKept ==
    [][ \A i \in DOMAIN list :
            Registered(i) => (IF list' = NoList THEN ~eca'.enabled
                              ELSE list'[i] = list[i]) ]_vars

\* Every request gets a result, however many manufacturers its certificate
\* fails to verify against and whatever other workers do to the store contexts.
RequestDecided == \A w \in Workers : pc[w] # "idle" ~> pc[w] = "idle"
=============================================================================
