------------------------- MODULE TenantServerProofs -------------------------
(***************************************************************************)
(* Proofs about TenantServer, for any threads, tenants and keys and any    *)
(* number of requests, failures and crashes.                               *)
(*                                                                         *)
(* The pipeline's files have fixed names, so what a thread reads is its    *)
(* own only because it holds the mutex and because every file is written   *)
(* before it is read.  The invariant follows the request from file to      *)
(* file, and says of the certificate a thread has in hand, in a file, in   *)
(* memory or in its answer, that no other thread has it.                   *)
(***************************************************************************)
EXTENDS TenantServer, FiniteSetTheorems, TLAPS

Certs == [ca : CAs, key : Keys, serial : Nat]

\* The types the proof needs.
Shape ==
    /\ m \in Threads \cup {NoOne}
    /\ pc \in [Threads -> Labels]
    /\ req \in [Threads -> Requests \cup {NoRequest}]
    /\ reply \in [Threads -> [code : Codes, pkcs7 : SUBSET Certs]]
    /\ bio \in [Threads -> SUBSET Certs]
    /\ tmp \in [Tenants -> [TmpFiles -> SUBSET (Keys \cup Certs)]]
    /\ ca \in [CAs -> SUBSET Certs]
    /\ served \in 0 .. MaxRequests /\ failures \in Nat /\ crashes \in Nat

\* Where the request of a thread is.
Place(t) ==
    /\ pc[t] # "idle" => req[t] \in Requests
    /\ pc[t] \in Locked => m = t
    /\ pc[t] \in Pipeline \ {"purge"} => req[t].tenant \in Tenants
    /\ pc[t] = "standard" => req[t].tenant = NoTenant
    /\ pc[t] = "decode" => Dir(t)["b64"] = {req[t].key}
    /\ pc[t] = "pem" => Dir(t)["der"] = {req[t].key}
    /\ pc[t] = "sign" => Dir(t)["pem"] = {req[t].key}

\* The certificates a thread has: in a file, in memory and in its answer.
InHand(t) ==
    IF pc[t] = "bundle" THEN Dir(t)["cert"]
    ELSE IF pc[t] = "p7der" THEN Dir(t)["p7"]
    ELSE IF pc[t] = "read" THEN Dir(t)["p7.der"] ELSE {}
Mine(t) == reply[t].pkcs7 \cup bio[t] \cup InHand(t)

Owned(c, r) == c \in Certs /\ c.key = r.key /\ c.ca = r.tenant /\ c \in ca[c.ca]
Own(t) == \A c \in Mine(t) : Owned(c, req[t])
Apart == \A t \in Threads : \A u \in Threads \ {t} : Mine(t) \cap Mine(u) = {}

\* A CA has used the serial numbers up to the number of its certificates.
Numbered ==
    \A c \in CAs : /\ IsFiniteSet(ca[c])
                   /\ \A x \in ca[c] : x.serial <= Cardinality(ca[c])

\* The inductive invariant.
IInv == Shape /\ (\A t \in Threads : Place(t) /\ Own(t)) /\ Apart /\ Numbered

-----------------------------------------------------------------------------
(* The other threads *)

\* What a step of t does to the rest: the files are written by the owner of the
\* mutex, and a certificate that was issued stays issued.
Frame(t) ==
    /\ \A u \in Threads \ {t} : /\ pc'[u] = pc[u] /\ req'[u] = req[u]
                                /\ reply'[u] = reply[u] /\ bio'[u] = bio[u]
    /\ tmp' = tmp \/ m = t
    /\ m' = m \/ m \in {NoOne, t}
    /\ \A c \in CAs : ca[c] \subseteq ca'[c]

\* Such a step leaves another thread what it has.
LEMMA OthersKeep ==
    ASSUME IInv, NEW t \in Threads, Frame(t), NEW u \in Threads \ {t}
    PROVE  Place(u)' /\ Mine(u)' = Mine(u) /\ Own(u)'
  <1>1. /\ pc'[u] = pc[u] /\ req'[u] = req[u] /\ reply'[u] = reply[u] /\ bio'[u] = bio[u]
        /\ Place(u) /\ Own(u) /\ u \in Threads /\ u # t
    BY DEF Frame, IInv
  <1>2. pc[u] \in Locked => m' = u /\ tmp' = tmp
    BY <1>1, TenantAssumption DEF Frame, Place
  <1>3. Dir(u)' = Dir(u) \/ pc[u] \notin Locked
    BY <1>1, <1>2 DEF Dir
  <1>4. Place(u)'
    BY <1>1, <1>2, <1>3 DEF Place, Locked, Pipeline
  <1>5. InHand(u)' = InHand(u)
    BY <1>1, <1>3 DEF InHand, Locked, Pipeline
  <1>6. Mine(u)' = Mine(u)
    BY <1>1, <1>5 DEF Mine
  <1>7. \A c \in Certs : c \in ca[c.ca] => c \in ca'[c.ca]
    BY DEF Frame, Certs
  <1>8. Own(u)'
    BY <1>1, <1>6, <1>7 DEF Own, Owned
  <1> QED BY <1>4, <1>6, <1>8

\* The invariant after a step of t, if it holds of t, and what t has now it had
\* before or is a certificate just issued.
LEMMA AfterStep ==
    ASSUME IInv, NEW t \in Threads, Frame(t), Shape', Place(t)', Own(t)', Numbered',
           \A c \in Mine(t)' : c \in Mine(t) \/ c \notin ca[c.ca]
    PROVE  IInv'
  <1>1. \A u \in Threads \ {t} : Place(u)' /\ Own(u)' /\ Mine(u)' = Mine(u)
    BY OthersKeep
  <1>2. \A u \in Threads \ {t} : Mine(t)' \cap Mine(u) = {}
    BY DEF IInv, Apart, Own, Owned
  <1>3. Apart'
    <2> SUFFICES ASSUME NEW v \in Threads, NEW u \in Threads \ {v}
                 PROVE  Mine(v)' \cap Mine(u)' = {}
      BY DEF Apart
    <2>1. CASE v = t
      BY <1>1, <1>2, <2>1
    <2>2. CASE u = t
      BY <1>1, <1>2, <2>2
    <2>3. CASE v # t /\ u # t
      BY <1>1, <2>3 DEF IInv, Apart
    <2> QED BY <2>1, <2>2, <2>3
  <1> QED BY <1>1, <1>3 DEF IInv

\* The numbers stay right when the CAs do not change.
LEMMA SameCa == ASSUME Numbered, ca' = ca PROVE Numbered'
  BY DEF Numbered

\* A certificate that is issued is new, and the numbers stay right.
LEMMA Issued ==
    ASSUME IInv, NEW c \in CAs, NEW k \in Keys, ca' = [ca EXCEPT ![c] = @ \cup {Issue(c, k)}]
    PROVE  /\ Issue(c, k) \in Certs /\ Issue(c, k) \notin ca[c] /\ Issue(c, k) \in ca'[c]
           /\ Issue(c, k).ca = c /\ Issue(c, k).key = k
           /\ Numbered' /\ ca' \in [CAs -> SUBSET Certs] /\ \A d \in CAs : ca[d] \subseteq ca'[d]
  <1> DEFINE x == Issue(c, k)
             n == Cardinality(ca[c])
  <1>1. IsFiniteSet(ca[c]) /\ ca \in [CAs -> SUBSET Certs]
    BY DEF IInv, Numbered, Shape
  <1>2. n \in Nat
    BY <1>1, FS_CardinalityType
  <1>3. x = [ca |-> c, key |-> k, serial |-> n + 1]
    BY DEF Issue
  <1>4. x.ca = c /\ x.key = k /\ x.serial = n + 1 /\ x \in Certs
    BY <1>2, <1>3 DEF Certs
  <1>5. x \notin ca[c]
    <2>1. \A y \in ca[c] : y.serial <= n
      BY DEF IInv, Numbered
    <2> HIDE DEF x, n
    <2> QED BY <1>2, <1>4, <2>1
  <1> HIDE DEF x
  <1>6. /\ ca'[c] = ca[c] \cup {x} /\ ca' \in [CAs -> SUBSET Certs]
        /\ \A d \in CAs \ {c} : ca'[d] = ca[d]
    BY <1>1, <1>4 DEF x
  <1>7. IsFiniteSet(ca[c] \cup {x}) /\ Cardinality(ca[c] \cup {x}) = n + 1
    BY <1>1, <1>5, FS_AddElement
  <1>8. \A y \in ca'[c] : y.serial <= Cardinality(ca'[c])
    <2>1. \A y \in ca[c] : y.serial <= n /\ y.serial \in Nat
      BY <1>1 DEF IInv, Numbered, Certs
    <2> HIDE DEF n
    <2> QED BY <1>2, <1>4, <1>6, <1>7, <2>1
  <1>9. Numbered'
    BY <1>6, <1>7, <1>8, Zenon DEF IInv, Numbered
  <1> QED BY <1>4, <1>5, <1>6, <1>9 DEF x

-----------------------------------------------------------------------------
(* The steps of a thread *)

TmpType == [Tenants -> [TmpFiles -> SUBSET (Keys \cup Certs)]]

\* The invariant after a step of t that goes on with the same request.
LEMMA Moves ==
    ASSUME IInv, NEW t \in Threads, Frame(t), Shape', Place(t)', Numbered', req'[t] = req[t],
           \A c \in Mine(t)' : c \in Mine(t) \/ (c \notin ca[c.ca] /\ Owned(c, req[t])')
    PROVE  IInv'
  <1>1. ASSUME NEW c \in Mine(t) PROVE Owned(c, req[t])'
    <2>1. Owned(c, req[t])
      BY DEF IInv, Own
    <2>2. c.ca \in CAs
      BY <2>1 DEF Owned, Certs
    <2> QED BY <2>1, <2>2 DEF Owned, Frame
  <1>2. Own(t)'
    BY <1>1 DEF Own
  <1> QED BY <1>2, AfterStep

\* A file of the tenant of t is written.
LEMMA Written ==
    ASSUME Shape, NEW t \in Threads, req[t].tenant \in Tenants, NEW f \in TmpFiles,
           NEW x \in SUBSET (Keys \cup Certs), Write(t, f, x)
    PROVE  tmp' \in TmpType /\ tmp'[req[t].tenant][f] = x
  BY DEF Shape, TmpType, Write

\* A step of t between two places of the pipeline.
LEMMA PipeStep ==
    ASSUME IInv, NEW t \in Threads, pc[t] \in Pipeline \ {"purge"}, PipelineFrame(t),
           NEW l \in Pipeline, Goto(t, l), tmp' \in TmpType, Works \/ Fails,
           bio' \in [Threads -> SUBSET Certs], \A u \in Threads \ {t} : bio'[u] = bio[u],
           ca' \in [CAs -> SUBSET Certs], \A c \in CAs : ca[c] \subseteq ca'[c], Numbered',
           l = "decode" => tmp'[req[t].tenant]["b64"] = {req[t].key},
           l = "pem" => tmp'[req[t].tenant]["der"] = {req[t].key},
           l = "sign" => tmp'[req[t].tenant]["pem"] = {req[t].key},
           \A c \in Mine(t)' : c \in Mine(t) \/ (c \notin ca[c.ca] /\ Owned(c, req[t])')
    PROVE  IInv'
  <1>1. /\ m' = m /\ req' = req /\ reply' = reply /\ served' = served /\ crashes' = crashes
        /\ pc' = [pc EXCEPT ![t] = l] /\ failures' \in Nat /\ l \in Labels
    BY DEF PipelineFrame, Goto, Works, Fails, IInv, Shape, Labels, Locked
  <1>2. Shape'
    BY <1>1 DEF IInv, Shape, TmpType
  <1>3. pc[t] \in Locked /\ Place(t) /\ pc'[t] = l
    BY <1>1 DEF Locked, IInv, Shape
  <1>4. m = t /\ req[t] \in Requests /\ req[t].tenant \in Tenants
    BY <1>3 DEF Place, Locked, Pipeline
  <1>5. Frame(t)
    BY <1>1, <1>4 DEF Frame, IInv, Shape
  <1>6. l # "standard"
    BY DEF Pipeline
  <1>7. Place(t)'
    BY <1>1, <1>3, <1>4, <1>6 DEF Place, Dir
  <1> QED BY <1>1, <1>2, <1>5, <1>7, Moves

\* One run of a tool.
LEMMA ConvertStep ==
    ASSUME IInv, NEW t \in Threads, NEW label \in Pipeline \ {"purge"}, NEW in \in TmpFiles,
           NEW out \in TmpFiles, NEW next \in Pipeline, Convert(t, label, in, out, next),
           next \notin {"decode", "pem"},
           next = "sign" => out = "pem" /\ Dir(t)[in] = {req[t].key},
           pc[t] = label /\ next = "p7der" => out = "p7" /\ in = "cert" /\ label = "bundle",
           next = "read" => out = "p7.der" /\ in = "p7" /\ label = "p7der",
           next # "bundle"
    PROVE  IInv'
  <1>1. /\ pc[t] = label /\ PipelineFrame(t) /\ ca' = ca /\ bio' = bio /\ (Works \/ Fails)
        /\ req' = req /\ reply' = reply /\ Numbered'
    BY SameCa DEF Convert, PipelineFrame, IInv
  <1>2. req[t].tenant \in Tenants
    BY <1>1 DEF IInv, Place
  <1>3. Dir(t)[in] \in SUBSET (Keys \cup Certs)
    BY <1>2 DEF IInv, Shape, Dir
  <1>4. ca' \in [CAs -> SUBSET Certs] /\ bio' \in [Threads -> SUBSET Certs]
    BY <1>1 DEF IInv, Shape
  <1>5. CASE Goto(t, next) /\ Write(t, out, Dir(t)[in])
    <2>1. tmp' \in TmpType /\ tmp'[req[t].tenant][out] = Dir(t)[in]
      BY <1>2, <1>3, <1>5, Written DEF IInv
    <2>2. pc'[t] = next
      BY <1>5 DEF Goto, IInv, Shape
    <2>3. Dir(t)'[out] = Dir(t)[in]
      BY <1>1, <2>1 DEF Dir
    <2>4. InHand(t)' \subseteq InHand(t)
      BY <1>1, <2>2, <2>3 DEF InHand
    <2>5. \A c \in Mine(t)' : c \in Mine(t)
      BY <1>1, <2>4 DEF Mine
    <2>6. next = "sign" => tmp'[req[t].tenant]["pem"] = {req[t].key}
      BY <2>1
    <2> QED BY <1>1, <1>4, <1>5, <2>1, <2>5, <2>6, PipeStep
  <1>6. CASE Goto(t, "purge") /\ (tmp' = tmp \/ Write(t, out, {}))
    <2>1. tmp' \in TmpType
      BY <1>2, <1>6, Written DEF IInv, Shape, TmpType
    <2>2. pc'[t] = "purge" /\ "purge" \in Pipeline
      BY <1>6 DEF Goto, IInv, Shape, Pipeline
    <2>3. InHand(t)' = {}
      BY <2>2 DEF InHand
    <2>4. \A c \in Mine(t)' : c \in Mine(t)
      BY <1>1, <2>3 DEF Mine
    <2> QED BY <1>1, <1>4, <1>6, <2>1, <2>2, <2>4, PipeStep
  <1> QED BY <1>5, <1>6 DEF Convert

\* What the steps of the pipeline share.
LEMMA InPipeline ==
    ASSUME IInv, NEW t \in Threads, pc[t] \in Pipeline \ {"purge"}
    PROVE  /\ Place(t) /\ Shape /\ req[t] \in Requests /\ req[t].tenant \in Tenants
           /\ req[t].key \in Keys /\ m = t /\ tmp \in TmpType
           /\ bio \in [Threads -> SUBSET Certs] /\ ca \in [CAs -> SUBSET Certs]
  <1>1. Place(t) /\ Shape /\ pc[t] \in Locked
    BY DEF IInv, Locked
  <1> QED BY <1>1 DEF Place, Shape, Pipeline, Requests, TmpType

\* The file the CSR is written to holds the key of this request.
LEMMA WriteB64Step == ASSUME IInv, NEW t \in Threads, WriteB64(t) PROVE IInv'
  <1>1. pc[t] = "b64" /\ pc[t] \in Pipeline \ {"purge"}
    BY DEF WriteB64, Pipeline
  <1>2. /\ PipelineFrame(t) /\ ca' = ca /\ bio' = bio /\ (Works \/ Fails)
        /\ req' = req /\ reply' = reply /\ Numbered'
    BY SameCa DEF WriteB64, PipelineFrame, IInv
  <1>3. PICK l \in {"decode", "purge"} : Goto(t, l)
    BY DEF WriteB64
  <1>4. pc'[t] = l /\ l \in Pipeline
    BY <1>3 DEF Goto, IInv, Shape, Pipeline
  <1>5. \A c \in Mine(t)' : c \in Mine(t)
    BY <1>2, <1>4 DEF Mine, InHand
  <1>6. tmp' \in TmpType /\ (l = "decode" => tmp'[req[t].tenant]["b64"] = {req[t].key})
    <2>1. "b64" \in TmpFiles
      BY DEF TmpFiles
    <2>2. tmp' = tmp \/ Write(t, "b64", {req[t].key})
      BY DEF WriteB64
    <2>3. l = "decode" => Write(t, "b64", {req[t].key})
      BY <1>3, <1>4 DEF WriteB64, Goto, IInv, Shape
    <2>4. {req[t].key} \in SUBSET (Keys \cup Certs)
      BY <1>1, InPipeline
    <2> QED BY <1>1, <2>1, <2>2, <2>3, <2>4, InPipeline, Written
  <1> QED BY <1>1, <1>2, <1>3, <1>4, <1>5, <1>6, InPipeline, PipeStep

LEMMA DecodeB64Step == ASSUME IInv, NEW t \in Threads, DecodeB64(t) PROVE IInv'
  <1>1. pc[t] = "decode" /\ pc[t] \in Pipeline \ {"purge"}
    BY DEF DecodeB64, Pipeline
  <1>2. /\ PipelineFrame(t) /\ ca' = ca /\ bio' = bio /\ (Works \/ Fails)
        /\ req' = req /\ reply' = reply /\ Numbered'
    BY SameCa DEF DecodeB64, PipelineFrame, IInv
  <1>3. PICK l \in {"pem", "purge"} : Goto(t, l)
    BY DEF DecodeB64
  <1>4. pc'[t] = l /\ l \in Pipeline
    BY <1>3 DEF Goto, IInv, Shape, Pipeline
  <1>5. \A c \in Mine(t)' : c \in Mine(t)
    BY <1>2, <1>4 DEF Mine, InHand
  <1>6. Dir(t)["b64"] = {req[t].key}
    BY <1>1 DEF IInv, Place
  <1>7. PICK x \in SUBSET {req[t].key} :
           /\ tmp' = [tmp EXCEPT ![req[t].tenant] = [@ EXCEPT !["der"] = x, !["b64"] = {}]]
           /\ l = "pem" => x = {req[t].key}
    BY <1>3, <1>4, <1>6, Zenon DEF DecodeB64, Goto, IInv, Shape
  <1>8. tmp' \in TmpType /\ (l = "pem" => tmp'[req[t].tenant]["der"] = {req[t].key})
    <2>1. req[t].key \in Keys /\ req[t].tenant \in Tenants /\ tmp \in TmpType
      BY <1>1, InPipeline
    <2>2. x \in SUBSET (Keys \cup Certs)
      BY <2>1
    <2> QED BY <1>7, <2>1, <2>2 DEF TmpType, TmpFiles
  <1> QED BY <1>1, <1>2, <1>3, <1>4, <1>5, <1>8, InPipeline, PipeStep

LEMMA DerToPemStep == ASSUME IInv, NEW t \in Threads, DerToPem(t) PROVE IInv'
  <1>1. pc[t] = "pem"
    BY DEF DerToPem, Convert
  <1>2. Dir(t)["der"] = {req[t].key}
    BY <1>1 DEF IInv, Place
  <1> QED BY <1>2, ConvertStep DEF DerToPem, Pipeline, TmpFiles

LEMMA BundleStep == ASSUME IInv, NEW t \in Threads, Bundle(t) PROVE IInv'
  BY ConvertStep DEF Bundle, Pipeline, TmpFiles

LEMMA P7ToDerStep == ASSUME IInv, NEW t \in Threads, P7ToDer(t) PROVE IInv'
  BY ConvertStep DEF P7ToDer, Pipeline, TmpFiles

\* What is read into memory is the file that the step before wrote.
LEMMA ReadP7Step == ASSUME IInv, NEW t \in Threads, ReadP7(t) PROVE IInv'
  <1>1. pc[t] = "read" /\ pc[t] \in Pipeline \ {"purge"}
    BY DEF ReadP7, Pipeline
  <1>2. /\ PipelineFrame(t) /\ ca' = ca /\ tmp' = tmp /\ (Works \/ Fails)
        /\ req' = req /\ reply' = reply /\ Numbered' /\ Goto(t, "purge")
    BY SameCa DEF ReadP7, PipelineFrame, IInv
  <1>3. pc'[t] = "purge" /\ "purge" \in Pipeline
    BY <1>2 DEF Goto, IInv, Shape, Pipeline
  <1>4. InHand(t) = Dir(t)["p7.der"] /\ InHand(t)' = {}
    BY <1>1, <1>3 DEF InHand
  <1>5. bio' = bio \/ bio' = [bio EXCEPT ![t] = InHand(t)]
    BY <1>4 DEF ReadP7
  <1>6. InHand(t) \subseteq Certs
    BY DEF IInv, Own, Mine, Owned
  <1>7. /\ bio' \in [Threads -> SUBSET Certs] /\ \A u \in Threads \ {t} : bio'[u] = bio[u]
        /\ bio'[t] \subseteq bio[t] \cup InHand(t)
    BY <1>5, <1>6 DEF IInv, Shape
  <1>8. \A c \in Mine(t)' : c \in Mine(t)
    BY <1>2, <1>4, <1>7 DEF Mine
  <1> QED BY <1>1, <1>2, <1>3, <1>7, <1>8, InPipeline, PipeStep

\* The CA is given the file with the key of this request, and what it issues is
\* new.
LEMMA SignStep == ASSUME IInv, NEW t \in Threads, Sign(t) PROVE IInv'
  <1> DEFINE tn == req[t].tenant
  <1>0. PICK cert : cert = Issue(tn, req[t].key)
    OBVIOUS
  <1>1. pc[t] = "sign" /\ pc[t] \in Pipeline \ {"purge"}
    BY DEF Sign, Pipeline
  <1>2. /\ PipelineFrame(t) /\ bio' = bio /\ (Works \/ Fails) /\ req' = req /\ reply' = reply
    BY DEF Sign, PipelineFrame
  <1>3. Dir(t)["pem"] = {req[t].key} /\ (CHOOSE k \in Dir(t)["pem"] : TRUE) = req[t].key
    <2>1. Dir(t)["pem"] = {req[t].key}
      BY <1>1 DEF IInv, Place
    <2>2. \A x : (CHOOSE k \in {x} : TRUE) = x
      OBVIOUS
    <2> QED BY <2>1, <2>2
  <1>4. /\ ca' = ca \/ ca' = [ca EXCEPT ![tn] = @ \cup {cert}]
        /\ \/ Goto(t, "purge") /\ tmp' = tmp
           \/ /\ Goto(t, "bundle") /\ Write(t, "cert", {cert})
              /\ ca' = [ca EXCEPT ![tn] = @ \cup {cert}]
    BY <1>0, <1>3, Zenon DEF Sign
  <1>5. tn \in CAs /\ tn \in Tenants /\ req[t].key \in Keys
    BY <1>1, InPipeline DEF CAs
  <1>6. ca' = ca => Numbered' /\ ca' \in [CAs -> SUBSET Certs] /\ \A c \in CAs : ca[c] \subseteq ca'[c]
    BY <1>1, InPipeline, SameCa DEF IInv
  <1>7. ca' = [ca EXCEPT ![tn] = @ \cup {cert}] =>
           /\ Numbered' /\ ca' \in [CAs -> SUBSET Certs] /\ \A c \in CAs : ca[c] \subseteq ca'[c]
           /\ cert \in Certs /\ cert \notin ca[tn] /\ cert \in ca'[tn]
           /\ cert.ca = tn /\ cert.key = req[t].key
    <2> SUFFICES ASSUME ca' = [ca EXCEPT ![tn] = @ \cup {cert}]
                 PROVE  /\ Numbered' /\ ca' \in [CAs -> SUBSET Certs]
                        /\ \A c \in CAs : ca[c] \subseteq ca'[c]
                        /\ cert \in Certs /\ cert \notin ca[tn] /\ cert \in ca'[tn]
                        /\ cert.ca = tn /\ cert.key = req[t].key
      OBVIOUS
    <2>1. ca' = [ca EXCEPT ![tn] = @ \cup {Issue(tn, req[t].key)}]
      BY <1>0
    <2> HIDE DEF tn
    <2>2. /\ Issue(tn, req[t].key) \in Certs /\ Issue(tn, req[t].key) \notin ca[tn]
          /\ Issue(tn, req[t].key) \in ca'[tn] /\ Issue(tn, req[t].key).ca = tn
          /\ Issue(tn, req[t].key).key = req[t].key
          /\ Numbered' /\ ca' \in [CAs -> SUBSET Certs] /\ \A d \in CAs : ca[d] \subseteq ca'[d]
      BY <1>5, <2>1, Issued, Zenon
    <2> QED BY <1>0, <2>2
  <1>8. CASE Goto(t, "purge") /\ tmp' = tmp
    <2>1. pc'[t] = "purge" /\ "purge" \in Pipeline
      BY <1>8 DEF Goto, IInv, Shape, Pipeline
    <2>2. \A c \in Mine(t)' : c \in Mine(t)
      BY <1>2, <2>1 DEF Mine, InHand
    <2> QED BY <1>1, <1>2, <1>4, <1>6, <1>7, <1>8, <2>1, <2>2, InPipeline, PipeStep, Zenon
  <1>9. CASE Goto(t, "bundle") /\ Write(t, "cert", {cert}) /\ ca' = [ca EXCEPT ![tn] = @ \cup {cert}]
    <2>1. pc'[t] = "bundle" /\ "bundle" \in Pipeline /\ "cert" \in TmpFiles
      BY <1>9 DEF Goto, IInv, Shape, Pipeline, TmpFiles
    <2>2. tmp' \in TmpType /\ tmp'[tn]["cert"] = {cert}
      <3>1. {cert} \in SUBSET (Keys \cup Certs)
        BY <1>7, <1>9
      <3>2. Shape
        BY DEF IInv
      <3> QED BY <1>5, <1>9, <2>1, <3>1, <3>2, Written
    <2>3. InHand(t)' = {cert}
      BY <1>2, <2>1, <2>2 DEF InHand, Dir
    <2>4. cert \notin ca[cert.ca] /\ Owned(cert, req[t])'
      BY <1>2, <1>7, <1>9 DEF Owned
    <2>5. \A c \in Mine(t)' : c \in Mine(t) \/ (c \notin ca[c.ca] /\ Owned(c, req[t])')
      BY <1>2, <2>3, <2>4 DEF Mine
    <2> QED BY <1>1, <1>2, <1>7, <1>9, <2>1, <2>2, <2>5, InPipeline, PipeStep, Zenon
  <1> QED BY <1>4, <1>8, <1>9

\* A step of t that issues nothing and ends at a place without a file in hand.
LEMMA QuietStep ==
    ASSUME IInv, NEW t \in Threads, pc[t] # "idle", NEW l \in Labels, Goto(t, l),
           l \notin {"decode", "pem", "sign", "bundle", "p7der", "read"},
           UNCHANGED <<req, bio, ca, served, crashes>>, Works \/ Fails,
           tmp' \in TmpType, tmp' = tmp \/ m = t,
           m' \in Threads \cup {NoOne}, m' = m \/ m \in {NoOne, t},
           l \in Locked => m' = t, l = "b64" => req[t].tenant \in Tenants,
           l = "standard" => req[t].tenant = NoTenant,
           NEW a \in [code : Codes, pkcs7 : SUBSET Certs], a.pkcs7 \subseteq Mine(t),
           reply' = [reply EXCEPT ![t] = a]
    PROVE  IInv'
  <1>1. Shape /\ Place(t) /\ req[t] \in Requests
    BY DEF IInv, Place
  <1>2. pc'[t] = l /\ reply'[t].pkcs7 = a.pkcs7
    BY <1>1 DEF Goto, Shape
  <1>3. failures' \in Nat
    <2>1. failures \in Nat
      BY <1>1 DEF Shape
    <2> QED BY <2>1 DEF Works, Fails
  <1>4. Shape'
    BY <1>1, <1>3 DEF Shape, TmpType, Goto
  <1>5. Frame(t)
    BY <1>1 DEF Frame, Shape, Goto
  <1>6. Place(t)'
    BY <1>1, <1>2, Zenon DEF Place, Pipeline
  <1>7. InHand(t)' = {}
    BY <1>2, Zenon DEF InHand
  <1>8. \A c \in Mine(t)' : c \in Mine(t)
    BY <1>2, <1>7 DEF Mine
  <1>9. Numbered'
    BY SameCa, Zenon DEF IInv
  <1> QED BY <1>4, <1>5, <1>6, <1>8, <1>9, Moves

\* The answers without a certificate, and the answer there already is.
LEMMA Answers ==
    ASSUME Shape, NEW t \in Threads
    PROVE  /\ \A code \in Codes : /\ Answer(code, {}) \in [code : Codes, pkcs7 : SUBSET Certs]
                                  /\ Answer(code, {}).pkcs7 \subseteq Mine(t)
           /\ reply[t] \in [code : Codes, pkcs7 : SUBSET Certs] /\ reply[t].pkcs7 \subseteq Mine(t)
           /\ reply = [reply EXCEPT ![t] = reply[t]]
           /\ tmp \in TmpType /\ m \in Threads \cup {NoOne}
  BY Zenon DEF Shape, Mine, Answer, TmpType

LEMMA LookupStep == ASSUME IInv, NEW t \in Threads, Lookup(t) PROVE IInv'
  <1>1. Shape /\ pc[t] # "idle" /\ m' = m /\ tmp' = tmp /\ UNCHANGED <<req, bio, ca, served, crashes>>
    BY Zenon DEF IInv, Lookup, Find, Approve, Postpone
  <1>2. Works
    BY DEF Lookup, Find, Approve, Postpone, Works
  <1>3. CASE Find(t) \/ Approve(t)
    <2>1. PICK l \in {"approve", "postpone", "lock"} : Goto(t, l)
      BY <1>3 DEF Find, Approve
    <2>2. reply' = reply
      BY <1>3 DEF Find, Approve
    <2>3. l \in Labels \ Locked
      BY DEF Labels, Locked, Pipeline
    <2>4. \E a \in [code : Codes, pkcs7 : SUBSET Certs] :
             a.pkcs7 \subseteq Mine(t) /\ reply' = [reply EXCEPT ![t] = a]
      BY <1>1, <2>2, Answers
    <2> QED BY <1>1, <1>2, <2>1, <2>3, <2>4, Answers, QuietStep, Zenon DEF Locked, Pipeline
  <1>4. CASE Postpone(t)
    <2>1. Goto(t, "idle") /\ reply' = [reply EXCEPT ![t] = Answer("EST_ERR_CA_ENROLL_RETRY", {})]
      BY <1>4 DEF Postpone, Return
    <2>2. "idle" \in Labels \ Locked /\ "EST_ERR_CA_ENROLL_RETRY" \in Codes
      BY DEF Labels, Locked, Pipeline, Codes
    <2> QED BY <1>1, <1>2, <2>1, <2>2, Answers, QuietStep, Zenon
  <1> QED BY <1>3, <1>4 DEF Lookup

LEMMA LockStep == ASSUME IInv, NEW t \in Threads, Lock(t) PROVE IInv'
  <1>1. /\ Shape /\ pc[t] = "lock" /\ m = NoOne /\ m' = t /\ tmp' = tmp /\ reply' = reply
        /\ UNCHANGED <<req, bio, ca, served, crashes>> /\ Works
    BY DEF IInv, Lock, Works
  <1>2. PICK l \in {"b64", "standard", "purge"} :
           /\ Goto(t, l) /\ (l = "b64" => req[t].tenant \in Tenants)
           /\ (l = "standard" => req[t].tenant = NoTenant)
    BY DEF Lock
  <1>3. l \in Labels
    BY DEF Labels, Locked, Pipeline
  <1>4. \E a \in [code : Codes, pkcs7 : SUBSET Certs] :
           a.pkcs7 \subseteq Mine(t) /\ reply' = [reply EXCEPT ![t] = a]
    BY <1>1, Answers
  <1> QED BY <1>1, <1>2, <1>3, <1>4, Answers, QuietStep, Zenon

LEMMA PurgeStep == ASSUME IInv, NEW t \in Threads, Purge(t) PROVE IInv'
  <1>1. /\ Shape /\ pc[t] = "purge" /\ m' = NoOne /\ bio' = bio
        /\ UNCHANGED <<req, bio, ca, served, crashes>> /\ Works
    BY DEF IInv, Purge, Works, Unlock
  <1>2. m = t
    BY <1>1 DEF IInv, Place, Locked, Pipeline
  <1>3. tmp' \in TmpType
    <2>1. \A tn \in Tenants : PurgedFiles(tmp[tn]) \in [TmpFiles -> SUBSET (Keys \cup Certs)]
      BY <1>1 DEF PurgedFiles, Shape
    <2> HIDE DEF TmpFiles
    <2> QED BY <1>1, <2>1 DEF Purge, Shape, TmpType
  <1>4. PICK l \in {"idle", "result"}, a \in [code : Codes, pkcs7 : SUBSET Certs] :
           /\ Goto(t, l) /\ a.pkcs7 \subseteq Mine(t) /\ reply' = [reply EXCEPT ![t] = a]
    <2>1. "EST_ERR_CA_ENROLL_FAIL" \in Codes
      BY DEF Codes
    <2>2. CASE bio'[t] = {}
      BY <1>1, <2>1, <2>2, Answers DEF Purge, Unlock, Return
    <2>3. CASE bio'[t] # {}
      BY <1>1, <2>3, Answers DEF Purge, Unlock
    <2> QED BY <2>2, <2>3
  <1>5. l \in Labels \ Locked
    BY DEF Labels, Locked, Pipeline
  <1> QED BY <1>1, <1>2, <1>3, <1>4, <1>5, QuietStep, Zenon DEF Locked, Pipeline

\* The answer is what the thread has in memory.
LEMMA ResultStep == ASSUME IInv, NEW t \in Threads, NEW fits \in BOOLEAN, Result(t, fits) PROVE IInv'
  <1>1. /\ Shape /\ pc[t] = "result" /\ m' = m /\ tmp' = tmp
        /\ UNCHANGED <<req, bio, ca, served, crashes>> /\ (Works \/ Fails)
    BY DEF IInv, Result
  <1>2. PICK code \in Codes : Return(t, Answer(code, CopiedResult(t, fits)))
    BY DEF Result, Codes
  <1>3. CopiedResult(t, fits) \subseteq bio[t] /\ bio[t] \subseteq Certs
    BY <1>1 DEF CopiedResult, Shape
  <1>4. /\ Answer(code, CopiedResult(t, fits)) \in [code : Codes, pkcs7 : SUBSET Certs]
        /\ Answer(code, CopiedResult(t, fits)).pkcs7 \subseteq Mine(t)
    BY <1>3 DEF Answer, Mine
  <1>5. "idle" \in Labels \ Locked
    BY DEF Labels, Locked, Pipeline
  <1> QED BY <1>1, <1>2, <1>4, <1>5, Answers, QuietStep, Zenon DEF Return

LEMMA CacertsStep == ASSUME IInv, NEW t \in Threads, Cacerts(t) PROVE IInv'
  <1>1. /\ Shape /\ pc[t] # "idle" /\ m' = m /\ tmp' = tmp
        /\ UNCHANGED <<req, bio, ca, served, crashes>>
    BY DEF IInv, Cacerts, Create, WriteBundle, Open, Fread, CacertsFrame
  <1>2. Works \/ Fails
    BY DEF Cacerts, Create, WriteBundle, Open, Fread, Works
  <1>3. PICK l \in {"idle", "write", "open", "fread"},
             a \in [code : Codes, pkcs7 : SUBSET Certs] :
           /\ Goto(t, l) /\ a.pkcs7 \subseteq Mine(t) /\ reply' = [reply EXCEPT ![t] = a]
    <2>1. "no_cacerts" \in Codes /\ "cacerts" \in Codes
      BY DEF Codes
    <2>2. CASE NoCacerts(t)
      BY <1>1, <2>1, <2>2, Answers, Zenon DEF NoCacerts, Return
    <2>3. CASE Return(t, Answer("cacerts", {}))
      BY <1>1, <2>1, <2>3, Answers, Zenon DEF Return
    <2>4. CASE reply' = reply /\ (Goto(t, "write") \/ Goto(t, "open") \/ Goto(t, "fread"))
      BY <1>1, <2>4, Answers
    <2> QED BY <2>2, <2>3, <2>4 DEF Cacerts, Create, WriteBundle, Open, Fread
  <1>4. l \in Labels \ Locked
    BY DEF Labels, CacertsSteps, Locked, Pipeline
  <1> QED BY <1>1, <1>2, <1>3, <1>4, Answers, QuietStep, Zenon DEF Locked, Pipeline

\* The CA without a tenant issues a certificate that is new.
LEMMA StandardStep == ASSUME IInv, NEW t \in Threads, Standard(t) PROVE IInv'
  <1>0. PICK cert : cert = Issue(NoTenant, req[t].key)
    OBVIOUS
  <1>1. /\ Shape /\ Place(t) /\ pc[t] = "standard" /\ m' = NoOne /\ (Works \/ Fails)
        /\ UNCHANGED <<req, tmp, served, crashes>>
    BY Zenon DEF IInv, Standard, Unlock
  <1>2. /\ m = t /\ req[t] \in Requests /\ req[t].tenant = NoTenant /\ req[t].key \in Keys
        /\ NoTenant \in CAs
    BY <1>1 DEF Place, Locked, Requests, CAs
  <1>3. \/ ca' = ca /\ bio' = bio
        \/ ca' = [ca EXCEPT ![NoTenant] = @ \cup {cert}] /\ bio' = [bio EXCEPT ![t] = {cert}]
    BY <1>0 DEF Standard
  <1>4. ca' = [ca EXCEPT ![NoTenant] = @ \cup {cert}] =>
           /\ cert \in Certs /\ cert \notin ca[NoTenant] /\ cert \in ca'[NoTenant]
           /\ cert.ca = NoTenant /\ cert.key = req[t].key
           /\ Numbered' /\ ca' \in [CAs -> SUBSET Certs] /\ \A d \in CAs : ca[d] \subseteq ca'[d]
    <2> SUFFICES ASSUME ca' = [ca EXCEPT ![NoTenant] = @ \cup {cert}]
                 PROVE  /\ cert \in Certs /\ cert \notin ca[NoTenant] /\ cert \in ca'[NoTenant]
                        /\ cert.ca = NoTenant /\ cert.key = req[t].key /\ Numbered'
                        /\ ca' \in [CAs -> SUBSET Certs] /\ \A d \in CAs : ca[d] \subseteq ca'[d]
      OBVIOUS
    <2>1. ca' = [ca EXCEPT ![NoTenant] = @ \cup {Issue(NoTenant, req[t].key)}]
      BY <1>0
    <2>2. LET x == Issue(NoTenant, req[t].key)
          IN  /\ x \in Certs /\ x \notin ca[NoTenant] /\ x \in ca'[NoTenant]
              /\ x.ca = NoTenant /\ x.key = req[t].key /\ Numbered'
              /\ ca' \in [CAs -> SUBSET Certs] /\ \A d \in CAs : ca[d] \subseteq ca'[d]
      BY <1>2, <2>1, Issued, ZenonT(30)
    <2> QED BY <1>0, <2>2
  <1>5. Numbered' /\ ca' \in [CAs -> SUBSET Certs] /\ \A d \in CAs : ca[d] \subseteq ca'[d]
    BY <1>1, <1>3, <1>4, SameCa, Zenon DEF IInv, Shape
  <1>6. /\ bio' \in [Threads -> SUBSET Certs] /\ \A u \in Threads \ {t} : bio'[u] = bio[u]
        /\ \A c \in bio'[t] : c \in bio[t] \/ (c = cert /\ c \notin ca[c.ca] /\ Owned(c, req[t])')
    <2>1. ca' = [ca EXCEPT ![NoTenant] = @ \cup {cert}] => cert \notin ca[cert.ca] /\ Owned(cert, req[t])'
      BY <1>1, <1>2, <1>4 DEF Owned
    <2>2. bio \in [Threads -> SUBSET Certs]
      BY <1>1 DEF Shape
    <2>3. CASE bio' = bio
      BY <2>2, <2>3
    <2>4. CASE ca' = [ca EXCEPT ![NoTenant] = @ \cup {cert}] /\ bio' = [bio EXCEPT ![t] = {cert}]
      <3>1. bio'[t] = {cert} /\ cert \in Certs
        BY <1>4, <2>2, <2>4
      <3> QED BY <2>1, <2>2, <2>4, <3>1
    <2> QED BY <1>3, <2>3, <2>4
  <1>7. PICK l \in {"idle", "result"}, a \in [code : Codes, pkcs7 : SUBSET Certs] :
           /\ Goto(t, l) /\ a.pkcs7 \subseteq reply[t].pkcs7 /\ reply' = [reply EXCEPT ![t] = a]
    <2>1. /\ Answer("EST_ERR_CA_ENROLL_FAIL", {}) \in [code : Codes, pkcs7 : SUBSET Certs]
          /\ Answer("EST_ERR_CA_ENROLL_FAIL", {}).pkcs7 = {}
      BY DEF Codes, Answer
    <2>2. CASE bio'[t] = {}
      BY <1>1, <2>1, <2>2 DEF Standard, Unlock, Return
    <2>3. CASE bio'[t] # {}
      BY <1>1, <2>3, Answers DEF Standard, Unlock
    <2> QED BY <2>2, <2>3
  <1>8. l \in Labels \ Locked /\ pc'[t] = l /\ reply'[t] = a
    BY <1>1, <1>7 DEF Goto, Shape, Labels, Locked, Pipeline
  <1>9. Shape'
    <2>1. failures' \in Nat
      BY <1>1 DEF Works, Fails, Shape
    <2>2. reply' \in [Threads -> [code : Codes, pkcs7 : SUBSET Certs]] /\ pc' \in [Threads -> Labels]
      BY <1>1, <1>7, <1>8 DEF Goto, Shape
    <2> QED BY <1>1, <1>5, <1>6, <2>1, <2>2 DEF Shape
  <1>10. Frame(t)
    BY <1>1, <1>2, <1>5, <1>6, <1>7, Zenon DEF Frame, Goto, Shape
  <1>11. Place(t)'
    BY <1>1, <1>2, <1>7, <1>8, Zenon DEF Place, Locked, Pipeline
  <1>12. \A c \in Mine(t)' : c \in Mine(t) \/ (c \notin ca[c.ca] /\ Owned(c, req[t])')
    <2>1. InHand(t)' = {}
      BY <1>7, <1>8 DEF InHand
    <2> QED BY <1>6, <1>7, <1>8, <2>1, Zenon DEF Mine
  <1> QED BY <1>1, <1>5, <1>9, <1>10, <1>11, <1>12, Moves

\* A new request starts with nothing in hand.
LEMMA RequestStep ==
    ASSUME IInv, NEW t \in Threads, NEW kind \in Kinds, NEW tenant \in Segments,
           NEW key \in ClientKeys, Request(t, kind, tenant, key)
    PROVE  IInv'
  <1>1. /\ Shape /\ UNCHANGED <<m, tmp, ca, failures, crashes>>
        /\ bio' = [bio EXCEPT ![t] = {}] /\ served' = served + 1 /\ served < MaxRequests
    BY DEF IInv, Request
  <1>2. served \in Nat /\ MaxRequests \in Nat /\ served' \in 1 .. MaxRequests
    BY <1>1, TenantAssumption DEF Shape
  <1>3. PICK r \in Requests : req' = [req EXCEPT ![t] = r]
    <2> DEFINE k == IF kind = "keygen" THEN [generated |-> served'] ELSE key
    <2>1. k \in Keys
      BY <1>2 DEF Keys
    <2>2. req' = [req EXCEPT ![t] = [kind |-> kind, tenant |-> tenant, key |-> k]]
      BY DEF Request
    <2> HIDE DEF k
    <2> QED BY <2>1, <2>2, Zenon DEF Requests
  <1>4. PICK l \in {"idle", "find", "lock", "create"}, code \in Codes :
           Goto(t, l) /\ reply' = [reply EXCEPT ![t] = Answer(code, {})]
    BY DEF Request, Return, Codes
  <1>5. /\ Answer(code, {}) \in [code : Codes, pkcs7 : SUBSET Certs] /\ Answer(code, {}).pkcs7 = {}
        /\ l \in Labels \ Locked
    BY Zenon DEF Answer, Labels, CacertsSteps, Locked, Pipeline
  <1>6. pc'[t] = l /\ reply'[t].pkcs7 = {} /\ bio'[t] = {} /\ req'[t] \in Requests
    BY <1>1, <1>3, <1>4, <1>5 DEF Goto, Shape
  <1>7. Shape'
    BY <1>1, <1>2, <1>3, <1>4, <1>5 DEF Goto, Shape
  <1>8. Frame(t)
    BY <1>1, <1>3, <1>4 DEF Goto, Shape, Frame
  <1>9. Place(t)'
    BY <1>4, <1>6, Zenon DEF Place, Locked, Pipeline
  <1>10. Mine(t)' = {}
    BY <1>4, <1>6, Zenon DEF Mine, InHand
  <1>11. Own(t)' /\ Numbered'
    BY <1>1, <1>10, SameCa, Zenon DEF Own, IInv
  <1> QED BY <1>7, <1>8, <1>9, <1>10, <1>11, AfterStep

\* After a restart no thread has anything, whatever the files hold.
LEMMA Restarted ==
    ASSUME pc' = [t \in Threads |-> "idle"], bio' = [t \in Threads |-> {}],
           reply' = [t \in Threads |-> Answer("none", {})], m' = NoOne,
           req' = [t \in Threads |-> NoRequest], tmp' \in TmpType, Numbered',
           ca' \in [CAs -> SUBSET Certs], served' \in 0 .. MaxRequests, failures' \in Nat,
           crashes' \in Nat
    PROVE  IInv'
  <1>1. Shape'
    BY DEF Shape, TmpType, Labels, Codes, Answer
  <1>2. \A t \in Threads : Place(t)' /\ Mine(t)' = {}
    BY DEF Place, Locked, Pipeline, Mine, InHand, Answer
  <1> QED BY <1>1, <1>2 DEF IInv, Own, Apart

LEMMA CrashStep == ASSUME IInv, Crash PROVE IInv'
  <1>1. Shape /\ Numbered'
    BY SameCa DEF IInv, Crash
  <1> QED BY <1>1, Restarted DEF Crash, Shape, TmpType

LEMMA InitIInv == Init => IInv
  <1> SUFFICES ASSUME Init PROVE IInv
    OBVIOUS
  <1>1. Numbered
    BY FS_EmptySet DEF Init, Numbered
  <1>2. Shape
    <2>1. /\ "idle" \in Labels /\ Answer("none", {}) \in [code : Codes, pkcs7 : SUBSET Certs]
          /\ 0 \in 0 .. MaxRequests
      BY TenantAssumption DEF Labels, Codes, Answer
    <2>2. /\ pc \in [Threads -> Labels] /\ bio \in [Threads -> SUBSET Certs]
          /\ reply \in [Threads -> [code : Codes, pkcs7 : SUBSET Certs]]
      BY <2>1 DEF Init
    <2>3. tmp \in [Tenants -> [TmpFiles -> SUBSET (Keys \cup Certs)]] /\ ca \in [CAs -> SUBSET Certs]
      BY DEF Init
    <2> QED BY <2>1, <2>2, <2>3 DEF Init, Shape
  <1>3. \A t \in Threads : Place(t) /\ Mine(t) = {}
    BY Zenon DEF Init, Place, Locked, Pipeline, Mine, InHand, Answer
  <1> QED BY <1>1, <1>2, <1>3 DEF IInv, Own, Apart

\* What is in a thread's answer is its own.
LEMMA IInvOwn == IInv => OwnCertificate
  <1> SUFFICES ASSUME IInv PROVE OwnCertificate
    OBVIOUS
  <1>1. \A t \in Threads : reply[t].pkcs7 \subseteq Mine(t)
    BY Zenon DEF Mine
  <1>2. \A t \in Threads : \A c \in reply[t].pkcs7 : Owned(c, req[t])
    BY <1>1 DEF IInv, Own
  <1>3. \A t \in Threads : \A u \in Threads \ {t} : reply[t].pkcs7 \cap reply[u].pkcs7 = {}
    BY <1>1 DEF IInv, Apart
  <1> QED BY <1>2, <1>3, Zenon DEF OwnCertificate, Owned

LEMMA NextIInv == IInv /\ [Next]_vars => IInv'
  <1> SUFFICES ASSUME IInv, [Next]_vars PROVE IInv'
    OBVIOUS
  <1>1. CASE UNCHANGED vars
    <2>1. UNCHANGED <<m, pc, req, reply, bio, tmp, ca, served, failures, crashes>>
      BY <1>1 DEF vars
    <2>2. Shape' /\ Numbered'
      BY <2>1, SameCa, Zenon DEF IInv, Shape
    <2>3. \A t \in Threads : Mine(t)' = Mine(t) /\ (Place(t) => Place(t)')
      <3>1. \A t \in Threads : Dir(t)' = Dir(t)
        BY <2>1 DEF Dir
      <3>2. \A t \in Threads : Mine(t)' = Mine(t)
        BY <2>1, <3>1 DEF Mine, InHand
      <3>3. \A t \in Threads : Place(t) => Place(t)'
        BY <2>1, <3>1, ZenonT(30) DEF Place
      <3> QED BY <3>2, <3>3
    <2>4. \A t \in Threads : Own(t) => Own(t)'
      BY <2>1, <2>3 DEF Own, Owned
    <2> QED BY <2>2, <2>3, <2>4 DEF IInv, Apart
  <1>2. CASE Crash
    BY <1>2, CrashStep
  <1>3. ASSUME NEW t \in Threads, Step(t) PROVE IInv'
    <2>1. CASE \E kind \in Kinds, tenant \in Segments, key \in ClientKeys :
                  Request(t, kind, tenant, key)
      BY <2>1, RequestStep
    <2>2. CASE Enroll(t)
      BY <2>2, WriteB64Step, DecodeB64Step, DerToPemStep, SignStep, BundleStep, P7ToDerStep,
         ReadP7Step, PurgeStep, StandardStep, ResultStep DEF Enroll
    <2> QED BY <1>3, <2>1, <2>2, LookupStep, LockStep, CacertsStep DEF Step
  <1> QED BY <1>1, <1>2, <1>3 DEF Next, Idle

\* A client gets back certificates for its own key, from the CA of the tenant it
\* asked, recorded there and given to nobody else: whatever the threads, failed
\* tools and crashes before left in the pipeline's fixed file names
\* (multi_tenant_enroll) never reaches a later request.
THEOREM EachItsOwn == Spec => []OwnCertificate
  BY InitIInv, NextIInv, IInvOwn, PTL DEF Spec

-----------------------------------------------------------------------------
(* Manual approval *)

\* The places behind the approval.
Beyond == Locked \cup {"approve", "lock"}

\* What waits for approval was told to come back, and so was what is approved.
Approved ==
    manual_enroll => /\ lookup_root \subseteq retried
                     /\ \A t \in Threads : pc[t] \in Beyond => req[t].key \in retried
                     /\ ApprovedAfterRetry

\* A step of t that does not bring a new key behind the approval.
LEMMA StaysApproved ==
    ASSUME IInv, Approved, manual_enroll' = manual_enroll, NEW t \in Threads, NEW l,
           Goto(t, l), \A u \in Threads \ {t} : req'[u] = req[u], retried \subseteq retried',
           manual_enroll => lookup_root' \subseteq retried',
           manual_enroll /\ l \in Beyond => req'[t].key \in retried',
           manual_enroll => \A c \in CAs : \A x \in ca'[c] : x \in ca[c] \/ x.key \in retried'
    PROVE  Approved'
  <1> SUFFICES ASSUME manual_enroll
               PROVE  /\ \A u \in Threads : pc'[u] \in Beyond => req'[u].key \in retried'
                      /\ \A c \in CAs : \A x \in ca'[c] : x.key \in retried'
    BY DEF Approved, ApprovedAfterRetry
  <1>1. pc'[t] = l /\ \A u \in Threads \ {t} : pc'[u] = pc[u]
    BY Zenon DEF Goto, IInv, Shape
  <1>2. \A u \in Threads : pc'[u] \in Beyond => req'[u].key \in retried'
    BY <1>1 DEF Approved
  <1>3. \A c \in CAs : \A x \in ca'[c] : x.key \in retried'
    BY DEF Approved, ApprovedAfterRetry
  <1> QED BY <1>2, <1>3

\* The pipeline signs for the key of its request.
LEMMA SignedKey ==
    ASSUME IInv, NEW t \in Threads, Enroll(t)
    PROVE  /\ pc[t] \in Locked \cup {"result"}
           /\ \A c \in CAs : \A x \in ca'[c] : x \in ca[c] \/ (x.key = req[t].key /\ pc[t] \in Locked)
  <1>1. pc[t] \in Locked \cup {"result"}
    BY Zenon DEF Enroll, WriteB64, DecodeB64, DerToPem, Sign, Bundle, P7ToDer, ReadP7, Purge, Standard,
           Result, Convert, Locked, Pipeline
  <1>2. ca' = ca \/ Sign(t) \/ Standard(t)
    BY Zenon DEF Enroll, WriteB64, DecodeB64, DerToPem, Bundle, P7ToDer, ReadP7, Purge, Result, Convert
  <1>3. \A c \in CAs : \A k : Issue(c, k).key = k
    BY DEF Issue
  <1>4. ca \in [CAs -> SUBSET Certs]
    BY DEF IInv, Shape
  <1> DEFINE Adds(d) == ca' = ca \/ ca' = [ca EXCEPT ![d] = @ \cup {Issue(d, req[t].key)}]
  <1>5. ASSUME NEW d \in CAs, Adds(d)
        PROVE  \A c \in CAs : \A x \in ca'[c] : x \in ca[c] \/ x.key = req[t].key
    <2>1. \A c \in CAs : ca'[c] = ca[c] \/ ca'[c] = ca[c] \cup {Issue(d, req[t].key)}
      BY <1>4, <1>5
    <2> QED BY <1>3, <2>1
  <1>6. CASE Sign(t)
    <2>1. pc[t] = "sign" /\ pc[t] \in Pipeline \ {"purge"} /\ pc[t] \in Locked
      BY <1>6, Zenon DEF Sign, Locked, Pipeline
    <2>2. Dir(t)["pem"] = {req[t].key} /\ req[t].tenant \in CAs
      BY <2>1 DEF IInv, Place, CAs
    <2>3. (CHOOSE k \in Dir(t)["pem"] : TRUE) = req[t].key
      <3>1. \A x : (CHOOSE k \in {x} : TRUE) = x
        OBVIOUS
      <3> QED BY <2>2, <3>1
    <2>4. Adds(req[t].tenant)
      BY <1>6, <2>3, Zenon DEF Sign
    <2> HIDE DEF Adds
    <2> QED BY <1>1, <1>5, <2>1, <2>2, <2>4
  <1>7. CASE Standard(t)
    <2>1. NoTenant \in CAs /\ pc[t] \in Locked
      BY <1>7, Zenon DEF CAs, Standard, Locked
    <2>2. Adds(NoTenant)
      BY <1>7, Zenon DEF Standard
    <2> HIDE DEF Adds
    <2> QED BY <1>1, <1>5, <2>1, <2>2
  <1> QED BY <1>1, <1>2, <1>6, <1>7, Zenon

LEMMA EnrollApproved ==
    ASSUME IInv, Approved, manual_enroll' = manual_enroll, NEW t \in Threads, Enroll(t)
    PROVE  Approved'
  <1>1. UNCHANGED <<req, retried, lookup_root>>
    BY Zenon DEF Enroll, WriteB64, DecodeB64, DerToPem, Sign, Bundle, P7ToDer, ReadP7, Purge, Standard,
           Result, Convert, PipelineFrame
  <1>2. PICK l \in Pipeline \cup {"idle", "result"} : Goto(t, l)
    BY Zenon DEF Enroll, WriteB64, DecodeB64, DerToPem, Sign, Bundle, P7ToDer, ReadP7, Purge, Standard,
           Result, Convert, Unlock, Return, Pipeline
  <1>3. pc[t] \in Locked => pc[t] \in Beyond
    BY DEF Beyond
  <1>4. pc[t] = "result" => l = "idle"
    <2>1. pc[t] = "result" => \E fits \in BOOLEAN : Result(t, fits)
      BY Zenon DEF Enroll, WriteB64, DecodeB64, DerToPem, Sign, Bundle, P7ToDer, ReadP7, Purge, Standard,
             Convert
    <2>2. pc[t] = "result" => Goto(t, "idle")
      BY <2>1, Zenon DEF Result, Return
    <2> QED BY <1>2, <2>2 DEF Goto, IInv, Shape
  <1>5. l \in Beyond => pc[t] \in Locked
    BY <1>4, SignedKey, Zenon DEF Beyond, Locked, Pipeline
  <1>6. manual_enroll /\ pc[t] \in Locked => req[t].key \in retried
    BY <1>3, Zenon DEF Approved
  <1>7. manual_enroll => lookup_root \subseteq retried
    BY Zenon DEF Approved
  <1> QED BY <1>1, <1>2, <1>5, <1>6, <1>7, SignedKey, StaysApproved

LEMMA ThreadApproved ==
    ASSUME IInv, Approved, manual_enroll' = manual_enroll, NEW t \in Threads, Step(t)
    PROVE  Approved'
  <1>0. manual_enroll => lookup_root \subseteq retried
    BY DEF Approved
  <1>1. ASSUME NEW kind \in Kinds, NEW tenant \in Segments, NEW key \in ClientKeys,
               Request(t, kind, tenant, key)
        PROVE  Approved'
    <2>1. UNCHANGED <<retried, lookup_root, ca>> /\ \A u \in Threads \ {t} : req'[u] = req[u]
      BY <1>1 DEF Request, IInv, Shape
    <2>2. PICK l \in {"idle", "find", "lock", "create"} : Goto(t, l) /\ (manual_enroll => l # "lock")
      BY <1>1 DEF Request, Return
    <2>3. manual_enroll => l \notin Beyond
      BY <2>2 DEF Beyond, Locked, Pipeline
    <2> QED BY <1>0, <2>1, <2>2, <2>3, StaysApproved, Zenon
  <1>2. CASE Find(t)
    <2>1. UNCHANGED <<req, retried, lookup_root, ca>>
      BY <1>2, Zenon DEF Find
    <2>2. PICK l \in {"approve", "postpone"} :
             Goto(t, l) /\ (l = "approve" => req[t].key \in lookup_root)
      BY <1>2 DEF Find
    <2>3. l \in Beyond => l = "approve"
      BY DEF Beyond, Locked, Pipeline
    <2> QED BY <1>0, <2>1, <2>2, <2>3, StaysApproved
  <1>3. CASE Approve(t)
    <2>1. UNCHANGED <<req, retried, ca>> /\ lookup_root' \subseteq lookup_root /\ Goto(t, "lock")
      BY <1>3 DEF Approve
    <2>2. manual_enroll => req[t].key \in retried
      BY <1>3 DEF Approve, Approved, Beyond
    <2> QED BY <1>0, <2>1, <2>2, StaysApproved
  <1>4. CASE Postpone(t)
    <2>1. /\ UNCHANGED <<req, ca>> /\ Goto(t, "idle") /\ "idle" \notin Beyond
          /\ lookup_root' = lookup_root \cup {req[t].key} /\ retried' = retried \cup {req[t].key}
      BY <1>4, Zenon DEF Postpone, Return, Beyond, Locked, Pipeline
    <2> QED BY <1>0, <2>1, StaysApproved
  <1>5. CASE Lock(t)
    <2>1. UNCHANGED <<req, retried, lookup_root, ca>> /\ \E l : Goto(t, l)
      BY <1>5 DEF Lock
    <2>2. manual_enroll => req[t].key \in retried
      BY <1>5 DEF Lock, Approved, Beyond
    <2> QED BY <1>0, <2>1, <2>2, StaysApproved, Zenon
  <1>6. CASE Cacerts(t)
    <2>1. UNCHANGED <<req, retried, lookup_root, ca>>
      BY <1>6 DEF Cacerts, Create, WriteBundle, Open, Fread, CacertsFrame
    <2>2. PICK l \in {"idle", "write", "open", "fread"} : Goto(t, l)
      BY <1>6 DEF Cacerts, Create, WriteBundle, Open, Fread, NoCacerts, Return
    <2>3. l \notin Beyond
      BY DEF Beyond, Locked, Pipeline
    <2> QED BY <1>0, <2>1, <2>2, <2>3, StaysApproved, Zenon
  <1> QED BY <1>1, <1>2, <1>3, <1>4, <1>5, <1>6, EnrollApproved DEF Step, Lookup

LEMMA NextApproved == IInv /\ Approved /\ [Next]_vars => Approved'
  <1> SUFFICES ASSUME IInv, Approved, [Next]_vars PROVE Approved'
    OBVIOUS
  <1>1. CASE UNCHANGED vars
    BY <1>1, Zenon DEF vars, Approved, ApprovedAfterRetry
  <1>2. CASE Crash /\ manual_enroll' = manual_enroll
    <2>1. \A t \in Threads : pc'[t] \notin Beyond
      BY <1>2 DEF Crash, Beyond, Locked, Pipeline
    <2> QED BY <1>2, <2>1, Zenon DEF Crash, Approved, ApprovedAfterRetry
  <1>3. ASSUME NEW t \in Threads, Step(t), manual_enroll' = manual_enroll PROVE Approved'
    BY <1>3, ThreadApproved
  <1> QED BY <1>1, <1>2, <1>3 DEF Next, Idle

\* With manual approval no CA ever signs for a key whose owner was not first
\* told to come back later (lookup_pkcs10_request), in any interleaving of the
\* threads and after any number of restarts.
THEOREM RetryFirst == Spec => []ApprovedAfterRetry
  <1>1. Init => Approved
    BY DEF Init, Approved, ApprovedAfterRetry, Beyond, Locked, Pipeline
  <1>2. Approved => ApprovedAfterRetry
    BY DEF Approved, ApprovedAfterRetry
  <1> QED BY <1>1, <1>2, InitIInv, NextIInv, NextApproved, PTL DEF Spec

-----------------------------------------------------------------------------
(* The temporary files *)

Left(f) == f = "b64" /\ failures > 0
InUse(tn, f) == /\ m \in Threads /\ pc[m] \in Pipeline /\ req[m].tenant = tn
                /\ f = "b64" => pc[m] = "decode"

\* Until a crash, a file that is there is in use by the owner of the mutex, or
\* is the base64 file of a write that failed.
Tidy ==
    crashes = 0 =>
        \A tn \in Tenants, f \in TmpFiles : tmp[tn][f] # {} => Left(f) \/ InUse(tn, f)

LEMMA Counts == ASSUME Shape, Works \/ Fails PROVE \A f : Left(f) => Left(f)'
  BY DEF Shape, Works, Fails, Left

\* A step outside the pipeline leaves the files alone.
LEMMA TidyOutside ==
    ASSUME IInv, Tidy, NEW t \in Threads, pc[t] \notin Pipeline, NEW l, Goto(t, l), tmp' = tmp,
           \A u \in Threads \ {t} : req'[u] = req[u], crashes' = crashes, Works \/ Fails,
           m' = m \/ m \in {NoOne, t}
    PROVE  Tidy'
  <1> SUFFICES ASSUME crashes = 0, NEW tn \in Tenants, NEW f \in TmpFiles, tmp[tn][f] # {}
               PROVE  Left(f)' \/ InUse(tn, f)'
    BY Zenon DEF Tidy
  <1>1. Left(f) \/ InUse(tn, f)
    BY DEF Tidy
  <1>2. InUse(tn, f) => InUse(tn, f)'
    <2>1. \A u \in Threads \ {t} : pc'[u] = pc[u]
      BY Zenon DEF Goto, IInv, Shape
    <2> QED BY <2>1, TenantAssumption DEF InUse
  <1> QED BY <1>1, <1>2, Counts, Zenon DEF IInv

\* A step inside it writes the files of its own tenant.
LEMMA TidyInside ==
    ASSUME IInv, Tidy, NEW t \in Threads, pc[t] \in Pipeline, NEW l \in Pipeline, Goto(t, l),
           m' = m, req' = req, crashes' = crashes, Works \/ Fails,
           \A tn \in Tenants \ {req[t].tenant} : tmp'[tn] = tmp[tn],
           tmp'[req[t].tenant]["b64"] # {} => l = "decode" \/ Left("b64")'
               \/ (pc[t] # "decode" /\ tmp'[req[t].tenant]["b64"] = tmp[req[t].tenant]["b64"])
    PROVE  Tidy'
  <1> SUFFICES ASSUME crashes = 0, NEW tn \in Tenants, NEW f \in TmpFiles, tmp'[tn][f] # {}
               PROVE  Left(f)' \/ InUse(tn, f)'
    BY Zenon DEF Tidy
  <1>1. m = t /\ pc'[t] = l
    <2>1. pc[t] \in Locked
      BY Zenon DEF Locked
    <2> QED BY <2>1, Zenon DEF IInv, Place, Goto, Shape
  <1>2. CASE tn # req[t].tenant
    <2>1. Left(f) \/ InUse(tn, f)
      BY <1>2, Zenon DEF Tidy
    <2> QED BY <1>1, <1>2, <2>1, Counts, Zenon DEF InUse, IInv
  <1>3. CASE tn = req[t].tenant /\ (f # "b64" \/ l = "decode")
    BY <1>1, <1>3, Zenon DEF InUse
  <1>4. CASE tn = req[t].tenant /\ f = "b64" /\ l # "decode"
    <2>1. Left("b64")' \/ (pc[t] # "decode" /\ tmp[tn]["b64"] # {})
      BY <1>4, Zenon
    <2>2. pc[t] # "decode" /\ tmp[tn]["b64"] # {} => Left("b64")
      BY <1>1, <1>4, Zenon DEF Tidy, InUse
    <2> QED BY <1>4, <2>1, <2>2, Counts, Zenon DEF IInv
  <1> QED BY <1>2, <1>3, <1>4, Zenon

\* A file of the tenant of t is written, and no other.
LEMMA OneFile ==
    ASSUME Shape, NEW t \in Threads, req[t].tenant \in Tenants, NEW f \in TmpFiles, NEW x,
           tmp' = tmp \/ Write(t, f, x)
    PROVE  /\ \A tn \in Tenants \ {req[t].tenant} : tmp'[tn] = tmp[tn]
           /\ \A g \in TmpFiles \ {f} : tmp'[req[t].tenant][g] = tmp[req[t].tenant][g]
  <1> DEFINE tn == req[t].tenant
  <1>1. tmp' = tmp \/ tmp' = [tmp EXCEPT ![tn] = [tmp[tn] EXCEPT ![f] = x]]
    BY DEF Write
  <1>2. tmp \in [Tenants -> [TmpFiles -> SUBSET (Keys \cup Certs)]] /\ tn \in Tenants
    BY DEF Shape
  <1> HIDE DEF tn
  <1>3. /\ \A tm \in Tenants \ {tn} : tmp'[tm] = tmp[tm]
        /\ tmp'[tn] = tmp[tn] \/ tmp'[tn] = [tmp[tn] EXCEPT ![f] = x]
    BY <1>1, <1>2
  <1>4. tmp[tn] \in [TmpFiles -> SUBSET (Keys \cup Certs)]
    BY <1>2
  <1>5. \A g \in TmpFiles \ {f} : tmp'[tn][g] = tmp[tn][g]
    BY <1>3, <1>4
  <1> QED BY <1>3, <1>5 DEF tn

LEMMA ConvertTidy ==
    ASSUME IInv, Tidy, NEW t \in Threads, NEW label \in Pipeline \ {"purge", "decode"},
           NEW in \in TmpFiles, NEW out \in TmpFiles \ {"b64"}, NEW next \in Pipeline,
           Convert(t, label, in, out, next)
    PROVE  Tidy'
  <1>1. /\ pc[t] = label /\ m' = m /\ req' = req /\ crashes' = crashes /\ (Works \/ Fails)
        /\ (tmp' = tmp \/ Write(t, out, Dir(t)[in]) \/ Write(t, out, {}))
    BY Zenon DEF Convert, PipelineFrame
  <1>2. PICK l \in Pipeline : Goto(t, l)
    BY DEF Convert, Pipeline
  <1>3. Shape /\ req[t].tenant \in Tenants /\ "b64" \in TmpFiles
    BY <1>1, InPipeline DEF TmpFiles
  <1>4. /\ \A tn \in Tenants \ {req[t].tenant} : tmp'[tn] = tmp[tn]
        /\ tmp'[req[t].tenant]["b64"] = tmp[req[t].tenant]["b64"]
    <2>1. \E x : tmp' = tmp \/ Write(t, out, x)
      BY <1>1
    <2>2. "b64" \in TmpFiles \ {out} /\ out \in TmpFiles
      BY <1>3
    <2> QED BY <1>3, <2>1, <2>2, OneFile
  <1> QED BY <1>1, <1>2, <1>4, TidyInside

LEMMA EnrollTidy == ASSUME IInv, Tidy, NEW t \in Threads, Enroll(t) PROVE Tidy'
  <1>0. Shape
    BY DEF IInv
  <1>1. CASE WriteB64(t)
    <2>1. pc[t] = "b64" /\ pc[t] \in Pipeline \ {"purge"} /\ "b64" \in TmpFiles
      BY <1>1 DEF WriteB64, Pipeline, TmpFiles
    <2>2. /\ m' = m /\ req' = req /\ crashes' = crashes /\ (Works \/ Fails)
          /\ (tmp' = tmp \/ Write(t, "b64", {req[t].key}))
      BY <1>1, Zenon DEF WriteB64, PipelineFrame
    <2>3. PICK l \in {"decode", "purge"} : Goto(t, l) /\ (l = "purge" => Fails)
      BY <1>1 DEF WriteB64
    <2>4. l \in Pipeline /\ (l = "purge" => Left("b64")')
      BY <1>0, <2>3 DEF Pipeline, Left, Fails, Shape
    <2>5. \A tn \in Tenants \ {req[t].tenant} : tmp'[tn] = tmp[tn]
      BY <1>0, <2>1, <2>2, InPipeline, OneFile, Zenon
    <2> QED BY <2>1, <2>2, <2>3, <2>4, <2>5, TidyInside, Zenon
  <1>2. CASE DecodeB64(t)
    <2>1. pc[t] = "decode" /\ pc[t] \in Pipeline \ {"purge"}
      BY <1>2 DEF DecodeB64, Pipeline
    <2>2. m' = m /\ req' = req /\ crashes' = crashes /\ (Works \/ Fails)
      BY <1>2 DEF DecodeB64, PipelineFrame
    <2>3. PICK l \in Pipeline : Goto(t, l)
      BY <1>2 DEF DecodeB64, Pipeline
    <2>4. \E x : tmp' = [tmp EXCEPT ![req[t].tenant] = [@ EXCEPT !["der"] = x, !["b64"] = {}]]
      BY <1>2, Zenon DEF DecodeB64
    <2>5. /\ \A tn \in Tenants \ {req[t].tenant} : tmp'[tn] = tmp[tn]
          /\ tmp'[req[t].tenant]["b64"] = {}
      <3>1. req[t].tenant \in Tenants /\ tmp \in TmpType
        BY <2>1, InPipeline
      <3>2. "b64" \in TmpFiles /\ "der" \in TmpFiles
        BY DEF TmpFiles
      <3> QED BY <2>4, <3>1, <3>2 DEF TmpType
    <2> QED BY <2>1, <2>2, <2>3, <2>5, TidyInside, Zenon
  <1>3. CASE DerToPem(t) \/ Bundle(t) \/ P7ToDer(t)
    BY <1>3, ConvertTidy DEF DerToPem, Bundle, P7ToDer, Pipeline, TmpFiles
  <1>4. CASE Sign(t) \/ ReadP7(t)
    <2>1. pc[t] \in Pipeline \ {"purge", "decode"}
      BY <1>4, Zenon DEF Sign, ReadP7, Pipeline
    <2>2. m' = m /\ req' = req /\ crashes' = crashes /\ (Works \/ Fails)
      BY <1>4, Zenon DEF Sign, ReadP7, PipelineFrame
    <2>3. PICK l \in Pipeline : Goto(t, l)
      BY <1>4, Zenon DEF Sign, ReadP7, Pipeline
    <2>4. \E x : tmp' = tmp \/ Write(t, "cert", x)
      BY <1>4, Zenon DEF Sign, ReadP7
    <2>5. "cert" \in TmpFiles /\ "b64" \in TmpFiles \ {"cert"}
      BY DEF TmpFiles
    <2>6. /\ \A tn \in Tenants \ {req[t].tenant} : tmp'[tn] = tmp[tn]
          /\ tmp'[req[t].tenant]["b64"] = tmp[req[t].tenant]["b64"]
      BY <1>0, <2>1, <2>4, <2>5, InPipeline, OneFile
    <2> QED BY <2>1, <2>2, <2>3, <2>6, TidyInside
  <1>5. CASE Purge(t)
    <2> SUFFICES ASSUME crashes = 0, NEW tn \in Tenants, NEW f \in TmpFiles, tmp'[tn][f] # {}
                 PROVE  Left(f)'
      BY <1>5, Zenon DEF Tidy, Purge
    <2>1. m = t /\ pc[t] = "purge" /\ failures' = failures
      BY <1>5, Zenon DEF Purge, IInv, Place, Locked, Pipeline
    <2>2. tmp[tn][f] # {} /\ (tn = req[t].tenant => f = "b64")
      BY <1>0, <1>5 DEF Purge, PurgedFiles, Shape
    <2>3. Left(f) \/ InUse(tn, f)
      BY <2>2, Zenon DEF Tidy
    <2>4. ~ InUse(tn, f)
      BY <2>1, <2>2 DEF InUse
    <2> QED BY <2>1, <2>3, <2>4 DEF Left
  <1>6. CASE Standard(t)
    <2>1. /\ pc[t] = "standard" /\ pc[t] \notin Pipeline /\ req' = req /\ tmp' = tmp
          /\ crashes' = crashes /\ (Works \/ Fails)
      BY <1>6, Zenon DEF Standard, Pipeline
    <2>2. m = t
      BY <2>1 DEF IInv, Place, Locked
    <2>3. \E l : Goto(t, l)
      BY <1>6 DEF Standard, Unlock, Return
    <2> QED BY <2>1, <2>2, <2>3, TidyOutside
  <1>7. ASSUME NEW fits \in BOOLEAN, Result(t, fits) PROVE Tidy'
    <2>1. /\ pc[t] \notin Pipeline /\ req' = req /\ tmp' = tmp /\ m' = m /\ crashes' = crashes
          /\ (Works \/ Fails) /\ Goto(t, "idle")
      BY <1>7, Zenon DEF Result, Return, Pipeline
    <2> QED BY <2>1, TidyOutside
  <1> QED BY <1>1, <1>2, <1>3, <1>4, <1>5, <1>6, <1>7 DEF Enroll

LEMMA ThreadTidy == ASSUME IInv, Tidy, NEW t \in Threads, Step(t) PROVE Tidy'
  <1>1. ASSUME NEW kind \in Kinds, NEW tenant \in Segments, NEW key \in ClientKeys,
               Request(t, kind, tenant, key)
        PROVE  Tidy'
    <2>1. /\ pc[t] \notin Pipeline /\ tmp' = tmp /\ m' = m /\ crashes' = crashes /\ Works
          /\ \A u \in Threads \ {t} : req'[u] = req[u]
      BY <1>1 DEF Request, Pipeline, Works, IInv, Shape
    <2>2. \E l : Goto(t, l)
      BY <1>1 DEF Request, Return
    <2> QED BY <2>1, <2>2, TidyOutside, Zenon
  <1>2. CASE Lookup(t) \/ Lock(t)
    <2>1. /\ pc[t] \notin Pipeline /\ tmp' = tmp /\ (m' = m \/ m = NoOne) /\ crashes' = crashes
          /\ Works /\ req' = req
      BY <1>2 DEF Lookup, Find, Approve, Postpone, Lock, Pipeline, Works
    <2>2. \E l : Goto(t, l)
      BY <1>2 DEF Lookup, Find, Approve, Postpone, Lock, Return
    <2> QED BY <2>1, <2>2, TidyOutside
  <1>3. CASE Cacerts(t)
    <2>1. pc[t] \notin Pipeline /\ tmp' = tmp /\ m' = m /\ crashes' = crashes /\ req' = req
      BY <1>3 DEF Cacerts, Create, WriteBundle, Open, Fread, CacertsFrame, Pipeline
    <2>2. Works \/ Fails
      BY <1>3 DEF Cacerts, Create, WriteBundle, Open, Fread, Works
    <2>3. \E l : Goto(t, l)
      BY <1>3 DEF Cacerts, Create, WriteBundle, Open, Fread, NoCacerts, Return
    <2> QED BY <2>1, <2>2, <2>3, TidyOutside, Zenon
  <1> QED BY <1>1, <1>2, <1>3, EnrollTidy DEF Step

LEMMA NextTidy == IInv /\ Tidy /\ [Next]_vars => Tidy'
  <1> SUFFICES ASSUME IInv, Tidy, [Next]_vars PROVE Tidy'
    OBVIOUS
  <1>1. CASE UNCHANGED vars
    BY <1>1, Zenon DEF vars, Tidy, Left, InUse
  <1>2. CASE Crash
    <2>1. crashes \in Nat /\ crashes' = crashes + 1
      BY <1>2 DEF Crash, IInv, Shape
    <2>2. crashes' # 0
      BY <2>1
    <2> QED BY <2>2 DEF Tidy
  <1> QED BY <1>1, <1>2, ThreadTidy DEF Next, Idle

\* Whenever the mutex is free and the process has not died, no tenant has a
\* pipeline file left, whichever steps failed before: only the base64 file of a
\* write that came up short stays, which the cleanup of multi_tenant_enroll
\* does not unlink.
THEOREM CleanedUp == Spec => []TempFilesPurged
  <1>1. Init => Tidy
    BY DEF Init, Tidy
  <1>2. Tidy => TempFilesPurged
    BY TenantAssumption DEF Tidy, TempFilesPurged, Left, InUse
  <1> QED BY <1>1, <1>2, InitIInv, NextIInv, NextTidy, PTL DEF Spec
=============================================================================
