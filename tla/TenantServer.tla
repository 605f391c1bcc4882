---------------------------- MODULE TenantServer ----------------------------
(***************************************************************************)
(* The certificate callbacks of the example server:                        *)
(* process_pkcs10_enrollment, process_srvr_side_keygen_pkcs10_enrollment   *)
(* and lookup_pkcs10_request (src/example/server/estserver.c), with the    *)
(* tenant pipelines they route to, multi_tenant_enroll and                 *)
(* multi_tenant_cacerts (src/example/server/multi_tenant_enrollment.c).    *)
(*                                                                         *)
(* Several worker threads run the callbacks at once.  The enrollment       *)
(* pipeline keeps its intermediate results in files with fixed names in    *)
(* the tenant's directory and runs one external tool per file, any of      *)
(* which may fail; a global mutex m serialises it.  The CA-certificate     *)
(* pipeline uses a file with a fixed name too, and takes no mutex.  The    *)
(* process may die at any point: the files and the tenant CAs stay.        *)
(*                                                                         *)
(* A request is identified by the public key of its CSR.  A key pair that  *)
(* the server generates itself is new in every request.                    *)
(***************************************************************************)
EXTENDS Naturals, FiniteSets

CONSTANTS
    Threads,        \* the worker threads
    Tenants,        \* gateway, iot, freeradius: the tenants with a CA
    DefaultTenant,  \* "gateway": whose CA certificates an empty path gets
    BadTenant,      \* a path segment that names no tenant
    NoTenant,       \* a request without a path segment
    ClientKeys,     \* keys of the CSRs clients send
    NoOne,          \* no thread: the mutex is free
    Kinds,          \* operations offered: enroll, keygen, cacerts
    MaxRequests,    \* bound: requests served
    MaxFailures,    \* bound: external tools or file operations that fail
    MaxCrashes      \* bound: deaths of the process

ASSUME TenantAssumption ==
    /\ DefaultTenant \in Tenants
    /\ BadTenant \notin Tenants /\ NoTenant \notin Tenants /\ BadTenant # NoTenant
    /\ NoOne \notin Threads
    /\ Kinds \subseteq {"enroll", "keygen", "cacerts"}
    /\ MaxRequests \in Nat /\ MaxFailures \in Nat /\ MaxCrashes \in Nat

VARIABLES
    manual_enroll, \* command line option: approve every CSR by hand
    m,          \* the enrollment mutex: its owner or NoOne
    pc,         \* where each thread stands
    req,        \* the request each thread works on
    reply,      \* what the thread's last callback returned
    bio,        \* the PKCS7 the thread holds in memory: a set of certificates
    tmp,        \* the pipeline's files of each tenant: their contents
    ca,         \* the certificates each CA has issued
    lookup_root,\* keys waiting for manual approval
    entry,      \* cacerts_response.pkcs7 of each tenant: an inode or 0
    inode,      \* what each inode holds
    fd,         \* the inode each thread has open
    retried,    \* history: keys that were told to come back later
    served,     \* requests accepted so far
    failures,
    crashes

vars == <<manual_enroll, m, pc, req, reply, bio, tmp, ca, lookup_root, entry, inode, fd,
          retried, served, failures, crashes>>

-----------------------------------------------------------------------------
(* Data.  A file holds the set of things in it: keys for a CSR, in any of  *)
(* its encodings, certificates once signed.  A missing file holds nothing. *)

TmpFiles == {"b64", "der", "pem", "cert", "p7", "p7.der"}

Segments == Tenants \cup {BadTenant, NoTenant}
CAs == Tenants \cup {NoTenant}      \* NoTenant: the CA of ossl_simple_enroll

\* Keys: the clients', and the n-th request's own one for key generation.
Keys == ClientKeys \cup [generated : 1 .. MaxRequests]
Requests == [kind : Kinds, tenant : Segments, key : Keys]
Certificates == [ca : CAs, key : Keys, serial : 1 .. MaxRequests]

Inodes == 1 .. MaxRequests
Codes == {"none", "EST_ERR_NONE", "EST_ERR_CA_ENROLL_RETRY",
          "EST_ERR_CA_ENROLL_FAIL", "EST_ERR_AUTH_FAIL",
          "cacerts", "no_cacerts"}

NoRequest == [kind |-> "none"]
Answer(code, pkcs7) == [code |-> code, pkcs7 |-> pkcs7]

Pipeline == {"b64", "decode", "pem", "sign", "bundle", "p7der", "read", "purge"}
Locked == Pipeline \cup {"standard"}
CacertsSteps == {"create", "write", "open", "fread"}
Labels == {"idle", "find", "approve", "postpone", "lock", "result"}
              \cup Locked \cup CacertsSteps

Init ==
    /\ manual_enroll \in BOOLEAN
    /\ m = NoOne
    /\ pc = [t \in Threads |-> "idle"]
    /\ req = [t \in Threads |-> NoRequest]
    /\ reply = [t \in Threads |-> Answer("none", {})]
    /\ bio = [t \in Threads |-> {}]
    /\ tmp = [tn \in Tenants |-> [f \in TmpFiles |-> {}]]
    /\ ca = [c \in CAs |-> {}]
    /\ lookup_root = {}
    /\ entry = [tn \in Tenants |-> 0]
    /\ inode = [i \in Inodes |-> "free"]
    /\ fd = [t \in Threads |-> 0]
    /\ retried = {}
    /\ served = 0
    /\ failures = 0
    /\ crashes = 0

-----------------------------------------------------------------------------
(* Control.                                                                *)

Goto(t, label) == pc' = [pc EXCEPT ![t] = label]

\* The callback returns to libest.
Return(t, answer) ==
    /\ Goto(t, "idle")
    /\ reply' = [reply EXCEPT ![t] = answer]

Fails == failures < MaxFailures /\ failures' = failures + 1
Works == UNCHANGED failures

\* libest calls back with a request.  Key generation checks the tenant
\* before anything else; enrollment leaves that to the pipeline.
Request(t, kind, tenant, key) ==
    /\ pc[t] = "idle" /\ served < MaxRequests
    /\ served' = served + 1
    /\ req' = [req EXCEPT ![t] =
                [kind |-> kind, tenant |-> tenant,
                 key |-> IF kind = "keygen" THEN [generated |-> served'] ELSE key]]
    /\ bio' = [bio EXCEPT ![t] = {}]
    /\ \/ /\ kind = "keygen" /\ tenant \notin Tenants
          /\ Return(t, Answer("EST_ERR_AUTH_FAIL", {}))
       \/ /\ kind = "enroll" \/ (kind = "keygen" /\ tenant \in Tenants)
          /\ Goto(t, IF manual_enroll THEN "find" ELSE "lock")
          /\ reply' = [reply EXCEPT ![t] = Answer("none", {})]
       \/ /\ kind = "cacerts"
          /\ Goto(t, "create")
          /\ reply' = [reply EXCEPT ![t] = Answer("none", {})]
    /\ UNCHANGED <<m, tmp, ca, lookup_root, entry, inode, fd, retried,
                   failures, crashes>>

-----------------------------------------------------------------------------
(* lookup_pkcs10_request: the search and the update of the table are two   *)
(* steps, without a mutex.                                                 *)

\* Mutant: the search reports a match whatever the table holds.
FindAnything(t) ==
    /\ pc[t] = "find"
    /\ Goto(t, "approve")
    /\ UNCHANGED <<m, req, reply, bio, tmp, ca, lookup_root, entry, inode, fd,
                   retried, served, failures, crashes>>

\* Mutant: the callback waits for the approval instead of returning.
FindWaits(t) ==
    /\ pc[t] = "find"
    /\ Goto(t, IF req[t].key \in lookup_root THEN "approve" ELSE "find")
    /\ UNCHANGED <<m, req, reply, bio, tmp, ca, lookup_root, entry, inode, fd,
                   retried, served, failures, crashes>>

\* tfind
Find(t) ==
    /\ pc[t] = "find"
    /\ Goto(t, IF req[t].key \in lookup_root THEN "approve" ELSE "postpone")
    /\ UNCHANGED <<m, req, reply, bio, tmp, ca, lookup_root, entry, inode, fd,
                   retried, served, failures, crashes>>

\* tdelete: the request was seen before, the enrollment goes on.
Approve(t) ==
    /\ pc[t] = "approve"
    /\ lookup_root' = lookup_root \ {req[t].key}
    /\ Goto(t, "lock")
    /\ UNCHANGED <<m, req, reply, bio, tmp, ca, entry, inode, fd, retried,
                   served, failures, crashes>>

\* tsearch: the request is remembered, the client is told to retry.
Postpone(t) ==
    /\ pc[t] = "postpone"
    /\ lookup_root' = lookup_root \cup {req[t].key}
    /\ retried' = retried \cup {req[t].key}
    /\ Return(t, Answer("EST_ERR_CA_ENROLL_RETRY", {}))
    /\ UNCHANGED <<m, req, bio, tmp, ca, entry, inode, fd, served, failures,
                   crashes>>

-----------------------------------------------------------------------------
(* The enrollment under the mutex.                                         *)

\* pthread_mutex_lock, then the path segment chooses the pipeline.  An
\* unknown tenant comes straight back with NULL.
Lock(t) ==
    /\ pc[t] = "lock" /\ m = NoOne
    /\ m' = t
    /\ Goto(t, CASE req[t].tenant \in Tenants -> "b64"
                 [] req[t].tenant = NoTenant -> "standard"
                 [] OTHER -> "purge")
    /\ UNCHANGED <<req, reply, bio, tmp, ca, lookup_root, entry, inode, fd,
                   retried, served, failures, crashes>>

\* pthread_mutex_unlock on either path; without a result the callback fails.
Unlock(t) ==
    /\ m' = NoOne
    /\ IF bio'[t] = {}
       THEN Return(t, Answer("EST_ERR_CA_ENROLL_FAIL", {}))
       ELSE Goto(t, "result") /\ UNCHANGED reply

Issue(c, key) ==
    [ca |-> c, key |-> key, serial |-> Cardinality(ca[c]) + 1]

\* ossl_simple_enroll, by what its result is to this callback (module
\* CaDatabase has its steps).
Standard(t) ==
    /\ pc[t] = "standard"
    /\ \/ /\ Works
          /\ LET cert == Issue(NoTenant, req[t].key)
             IN  /\ ca' = [ca EXCEPT ![NoTenant] = @ \cup {cert}]
                 /\ bio' = [bio EXCEPT ![t] = {cert}]
       \/ /\ Fails
          /\ UNCHANGED <<ca, bio>>
    /\ Unlock(t)
    /\ UNCHANGED <<req, tmp, lookup_root, entry, inode, fd, retried, served,
                   crashes>>

\* One step of multi_tenant_enroll: either it writes its output file and
\* goes on, or it fails, leaving what it may, and the files are purged.
PipelineFrame(t) ==
    UNCHANGED <<m, req, reply, lookup_root, entry, inode, fd, retried, served,
                crashes>>

Dir(t) == tmp[req[t].tenant]
Write(t, file, content) ==
    tmp' = [tmp EXCEPT ![req[t].tenant][file] = content]

\* A tool run over the file "in" writes "out"; a missing input is refused,
\* and a failure may or may not leave an output behind.
Convert(t, label, in, out, next) ==
    /\ pc[t] = label
    /\ \/ /\ Works /\ Dir(t)[in] # {}
          /\ Write(t, out, Dir(t)[in])
          /\ Goto(t, next)
       \/ /\ IF Dir(t)[in] # {} THEN Fails ELSE Works
          /\ \/ UNCHANGED tmp
             \/ Write(t, out, {})
          /\ Goto(t, "purge")
    /\ UNCHANGED <<ca, bio>>
    /\ PipelineFrame(t)

\* fopen and fwrite of the CSR as the client sent it.
WriteB64(t) ==
    /\ pc[t] = "b64"
    /\ \/ /\ Works
          /\ Write(t, "b64", {req[t].key})
          /\ Goto(t, "decode")
       \/ /\ Fails
          /\ \/ UNCHANGED tmp                    \* fopen failed
             \/ Write(t, "b64", {req[t].key})    \* fwrite came up short
          /\ Goto(t, "purge")
    /\ UNCHANGED <<ca, bio>>
    /\ PipelineFrame(t)

\* base64 -d; either way the input is unlinked.
DecodeB64(t) ==
    /\ pc[t] = "decode"
    /\ \/ /\ Works /\ Dir(t)["b64"] # {}
          /\ tmp' = [tmp EXCEPT ![req[t].tenant] =
                        [@ EXCEPT !["der"] = Dir(t)["b64"], !["b64"] = {}]]
          /\ Goto(t, "pem")
       \/ /\ IF Dir(t)["b64"] # {} THEN Fails ELSE Works
          /\ tmp' = [tmp EXCEPT ![req[t].tenant] =
                        [@ EXCEPT !["der"] = {}, !["b64"] = {}]]
          /\ Goto(t, "purge")
    /\ UNCHANGED <<ca, bio>>
    /\ PipelineFrame(t)

\* openssl req
DerToPem(t) == Convert(t, "pem", "der", "pem", "sign")

\* Mutant: the exit status of openssl ca is not looked at.
SignUnchecked(t) ==
    /\ pc[t] = "sign"
    /\ LET tn   == req[t].tenant
           cert == Issue(tn, CHOOSE k \in Dir(t)["pem"] : TRUE)
       IN  \/ /\ Works /\ Dir(t)["pem"] # {}
              /\ ca' = [ca EXCEPT ![tn] = @ \cup {cert}]
              /\ Write(t, "cert", {cert})
           \/ /\ Fails
              /\ UNCHANGED <<ca, tmp>>
    /\ Goto(t, "bundle")
    /\ UNCHANGED bio
    /\ PipelineFrame(t)

\* openssl ca with the tenant's configuration: a failure may come before or
\* after the CA has recorded the certificate.
Sign(t) ==
    /\ pc[t] = "sign"
    /\ LET tn   == req[t].tenant
           cert == Issue(tn, CHOOSE k \in Dir(t)["pem"] : TRUE)
           Record == ca' = [ca EXCEPT ![tn] = @ \cup {cert}]
       IN  \/ /\ Works /\ Dir(t)["pem"] # {}
              /\ Record
              /\ Write(t, "cert", {cert})
              /\ Goto(t, "bundle")
           \/ /\ IF Dir(t)["pem"] # {} THEN Fails ELSE Works
              /\ \/ UNCHANGED ca
                 \/ Dir(t)["pem"] # {} /\ Record
              /\ UNCHANGED tmp
              /\ Goto(t, "purge")
    /\ UNCHANGED bio
    /\ PipelineFrame(t)

\* Mutant: the bundle is made of the CSR's file.
BundleCsr(t) == Convert(t, "bundle", "pem", "p7", "p7der")

\* openssl crl2pkcs7, then openssl pkcs7 -outform DER
Bundle(t) == Convert(t, "bundle", "cert", "p7", "p7der")
P7ToDer(t) == Convert(t, "p7der", "p7", "p7.der", "read")

\* The DER file is read into a memory BIO.
ReadP7(t) ==
    /\ pc[t] = "read"
    /\ \/ /\ Works /\ Dir(t)["p7.der"] # {}
          /\ bio' = [bio EXCEPT ![t] = Dir(t)["p7.der"]]
       \/ /\ IF Dir(t)["p7.der"] # {} THEN Fails ELSE Works
          /\ UNCHANGED bio
    /\ Goto(t, "purge")
    /\ UNCHANGED <<tmp, ca>>
    /\ PipelineFrame(t)

\* Mutant: the cleanup forgets the converted PKCS7.
PurgeSome(files) ==
    [f \in TmpFiles |-> IF f \in {"b64", "p7.der"} THEN files[f] ELSE {}]

\* The unlinks at the end of multi_tenant_enroll, the same on success and
\* on the cleanup path; the base64 file is not one of them.
PurgedFiles(files) ==
    [f \in TmpFiles |-> IF f = "b64" THEN files[f] ELSE {}]

Purge(t) ==
    /\ pc[t] = "purge"
    /\ tmp' = IF req[t].tenant \in Tenants
              THEN [tmp EXCEPT ![req[t].tenant] = PurgedFiles(@)]
              ELSE tmp
    /\ UNCHANGED bio
    /\ Unlock(t)
    /\ UNCHANGED <<req, ca, lookup_root, entry, inode, fd, retried, served,
                   failures, crashes>>

\* The BIO is copied out if its length is below MAX_CERT_LEN.
CopiedResult(t, fits) == IF fits THEN bio[t] ELSE {}

\* Enrollment returns success with nothing copied when it is not; key
\* generation fails.
Result(t, fits) ==
    /\ pc[t] = "result"
    /\ \/ fits /\ Works
       \/ ~fits /\ Fails
    /\ Return(t, Answer(IF ~fits /\ req[t].kind = "keygen"
                        THEN "EST_ERR_CA_ENROLL_FAIL" ELSE "EST_ERR_NONE",
                        CopiedResult(t, fits)))
    /\ UNCHANGED <<m, req, bio, tmp, ca, lookup_root, entry, inode, fd,
                   retried, served, crashes>>

-----------------------------------------------------------------------------
(* multi_tenant_cacerts.                                                   *)

CacertsTenant(t) ==
    IF req[t].tenant = NoTenant THEN DefaultTenant ELSE req[t].tenant

CacertsFrame(t) ==
    UNCHANGED <<m, req, bio, tmp, ca, lookup_root, retried, served, crashes>>

Unlink(t) == entry' = [entry EXCEPT ![CacertsTenant(t)] = 0]
NoCacerts(t) == Return(t, Answer("no_cacerts", {}))

\* Mutant: a bundle that is already there is not made again.
CreateOnce(t) ==
    /\ pc[t] = "create"
    /\ \/ /\ CacertsTenant(t) \notin Tenants
          /\ Works
          /\ NoCacerts(t)
          /\ UNCHANGED <<entry, inode, fd>>
       \/ /\ CacertsTenant(t) \in Tenants /\ entry[CacertsTenant(t)] # 0
          /\ Works
          /\ Goto(t, "open")
          /\ UNCHANGED <<reply, entry, inode, fd>>
       \/ /\ CacertsTenant(t) \in Tenants /\ entry[CacertsTenant(t)] = 0
          /\ Works
          /\ LET i == CHOOSE j \in Inodes : inode[j] = "free"
             IN  /\ entry' = [entry EXCEPT ![CacertsTenant(t)] = i]
                 /\ inode' = [inode EXCEPT ![i] = "empty"]
                 /\ fd' = [fd EXCEPT ![t] = i]
          /\ Goto(t, "write")
          /\ UNCHANGED reply
    /\ CacertsFrame(t)

\* access(), then openssl crl2pkcs7 creates or truncates its output file.  A
\* tool that fails leaves the file as it is.
Create(t) ==
    /\ pc[t] = "create"
    /\ \/ /\ CacertsTenant(t) \notin Tenants
          /\ Works
          /\ NoCacerts(t)
          /\ UNCHANGED <<entry, inode, fd>>
       \/ /\ CacertsTenant(t) \in Tenants
          /\ Fails
          /\ NoCacerts(t)
          /\ UNCHANGED <<entry, inode, fd>>
       \/ /\ CacertsTenant(t) \in Tenants
          /\ Works
          /\ LET tn == CacertsTenant(t)
                 i  == IF entry[tn] # 0 THEN entry[tn]
                       ELSE CHOOSE j \in Inodes : inode[j] = "free"
             IN  /\ entry' = [entry EXCEPT ![tn] = i]
                 /\ inode' = [inode EXCEPT ![i] = "empty"]
                 /\ fd' = [fd EXCEPT ![t] = i]
          /\ Goto(t, "write")
          /\ UNCHANGED reply
    /\ CacertsFrame(t)

\* crl2pkcs7 writes the bundle to the file it has open and exits.
WriteBundle(t) ==
    /\ pc[t] = "write"
    /\ inode' = [inode EXCEPT ![fd[t]] = "full"]
    /\ fd' = [fd EXCEPT ![t] = 0]
    /\ Goto(t, "open")
    /\ UNCHANGED <<reply, entry, failures>>
    /\ CacertsFrame(t)

\* fopen by name, and the size the file has now.
Open(t) ==
    /\ pc[t] = "open"
    /\ LET i == entry[CacertsTenant(t)]
       IN  IF i # 0 /\ inode[i] = "full"
           THEN /\ fd' = [fd EXCEPT ![t] = i]
                /\ Goto(t, "fread")
                /\ UNCHANGED <<reply, entry>>
           ELSE /\ Unlink(t)
                /\ NoCacerts(t)
                /\ UNCHANGED fd
    /\ UNCHANGED <<inode, failures>>
    /\ CacertsFrame(t)

\* fread must return the size seen before; the file is removed either way.
Fread(t) ==
    /\ pc[t] = "fread"
    /\ IF inode[fd[t]] = "full"
       THEN Return(t, Answer("cacerts", {}))
       ELSE NoCacerts(t)
    /\ fd' = [fd EXCEPT ![t] = 0]
    /\ Unlink(t)
    /\ UNCHANGED <<inode, failures>>
    /\ CacertsFrame(t)

\* The process dies and is started again: files and CAs are as they were,
\* the table of keys waiting for approval and the mutex are new.
Crash ==
    /\ crashes < MaxCrashes
    /\ crashes' = crashes + 1
    /\ m' = NoOne
    /\ pc' = [t \in Threads |-> "idle"]
    /\ req' = [t \in Threads |-> NoRequest]
    /\ reply' = [t \in Threads |-> Answer("none", {})]
    /\ bio' = [t \in Threads |-> {}]
    /\ fd' = [t \in Threads |-> 0]
    /\ lookup_root' = {}
    /\ UNCHANGED <<tmp, ca, entry, inode, retried, served, failures>>

\* What a thread does once it has a request.
Enroll(t) ==
    \/ WriteB64(t) \/ DecodeB64(t) \/ DerToPem(t) \/ Sign(t)
    \/ Bundle(t) \/ P7ToDer(t) \/ ReadP7(t) \/ Purge(t)
    \/ Standard(t)
    \/ \E fits \in BOOLEAN : Result(t, fits)
Cacerts(t) == Create(t) \/ WriteBundle(t) \/ Open(t) \/ Fread(t)
Lookup(t) == Find(t) \/ Approve(t) \/ Postpone(t)

Step(t) ==
    \/ \E kind \in Kinds, tenant \in Segments, key \in ClientKeys :
           Request(t, kind, tenant, key)
    \/ Lookup(t) \/ Lock(t) \/ Enroll(t) \/ Cacerts(t)

\* All requests are served: the server waits for the next one.
Idle ==
    /\ served = MaxRequests /\ \A t \in Threads : pc[t] = "idle"
    /\ UNCHANGED vars

Next ==
    \/ (Crash \/ \E t \in Threads : Step(t)) /\ UNCHANGED manual_enroll
    \/ Idle

Spec == Init /\ [][Next]_vars

\* A thread inside a callback keeps running, and gets the mutex when it is
\* free again and again.
Fairness ==
    \A t \in Threads :
        /\ WF_vars((Lookup(t) \/ Enroll(t) \/ Cacerts(t)) /\ UNCHANGED manual_enroll)
        /\ SF_vars(Lock(t) /\ UNCHANGED manual_enroll)

FairSpec == Spec /\ Fairness

-----------------------------------------------------------------------------
(* Properties.                                                             *)

\* Types, and: exactly the owner of the mutex is inside the enrollment.
TypeOK ==
    /\ manual_enroll \in BOOLEAN
    /\ m \in Threads \cup {NoOne}
    /\ pc \in [Threads -> Labels]
    /\ req \in [Threads -> Requests \cup {NoRequest}]
    /\ reply \in [Threads -> [code : Codes, pkcs7 : SUBSET Certificates]]
    /\ bio \in [Threads -> SUBSET Certificates]
    /\ lookup_root \subseteq Keys /\ retried \subseteq Keys
    /\ DOMAIN tmp = Tenants
    /\ \A tn \in Tenants :
           /\ DOMAIN tmp[tn] = TmpFiles
           /\ \A f \in {"b64", "der", "pem"} : tmp[tn][f] \subseteq Keys
           /\ \A f \in {"cert", "p7", "p7.der"} : tmp[tn][f] \subseteq Certificates
    /\ ca \in [CAs -> SUBSET Certificates]
    /\ entry \in [Tenants -> Inodes \cup {0}]
    /\ fd \in [Threads -> Inodes \cup {0}]
    /\ inode \in [Inodes -> {"free", "empty", "full"}]
    /\ served \in 0 .. MaxRequests
    /\ failures \in 0 .. MaxFailures /\ crashes \in 0 .. MaxCrashes

\* What a client gets back is for its own key, from the CA of the tenant it
\* asked, recorded there, and given to nobody else: whatever other threads,
\* failed enrollments and crashes left in the pipeline's fixed file names
\* never reaches a later request.
OwnCertificate ==
    \A t \in Threads :
        /\ \A c \in reply[t].pkcs7 :
               /\ c.key = req[t].key /\ c.ca = req[t].tenant
               /\ c \in ca[c.ca]
        /\ \A u \in Threads \ {t} : reply[t].pkcs7 \cap reply[u].pkcs7 = {}

\* "Cleaning up all temporary files": with the mutex free and no crash
\* behind it, no tenant has a pipeline file left, whatever step failed.  The
\* base64 file of a short fwrite is the exception the cleanup path has.
TempFilesPurged ==
    m = NoOne /\ crashes = 0 =>
        \A tn \in Tenants, f \in TmpFiles :
            tmp[tn][f] # {} => f = "b64" /\ failures > 0

\* Manual enrollment: no CA ever signs for a key whose owner was not first
\* told to come back later.
ApprovedAfterRetry ==
    manual_enroll =>
        \A c \in CAs : \A cert \in ca[c] : cert.key \in retried

\* Every callback returns, whichever of its steps fail: no error path keeps
\* the mutex from the threads waiting for it.
EveryRequestAnswered ==
    \A t \in Threads : pc[t] # "idle" ~> pc[t] = "idle"

\* A tenant's CA certificates are there for whoever asks while the tools work,
\* whatever a crash in the middle of an earlier request left in the file with
\* the fixed name; unless another thread was asked for the same tenant's, since
\* the two then truncate and remove each other's file.
CacertsServed ==
    \A t \in Threads :
        (/\ pc[t] = "idle" /\ req[t].kind = "cacerts"
         /\ CacertsTenant(t) \in Tenants /\ failures = 0
         /\ \A u \in Threads \ {t} :
                req[u].kind = "cacerts" => CacertsTenant(u) # CacertsTenant(t))
            => reply[t].code = "cacerts"
=============================================================================
