------------------------- MODULE EnhancedAuthProofs -------------------------
(***************************************************************************)
(* Proofs about EnhancedAuth, for any number of workers, manufacturers,    *)
(* devices and requests and any length of the list.                        *)
(*                                                                         *)
(* The user name and the field that was kept are decided when the search   *)
(* is over, so the invariant says what the search has found out so far: no *)
(* entry before the present one has signed the certificate.  It is about   *)
(* requests nobody has disturbed; for the identity of an enrolled          *)
(* certificate it also carries where the certificate presented came from.  *)
(***************************************************************************)
EXTENDS EnhancedAuth, TLAPS

Signs(r, i) == Registered(i) /\ list[i].mfg = r.cert.mfg
NoneUpTo(r, k) == \A j \in 1..k : ~Signs(r, j)

\* What a search that is over has found.
Found(r) ==
    IF r.mfg_index = 0 THEN list = NoList \/ NoneUpTo(r, NUM_SUPPORTED_MFG)
    ELSE /\ list # NoList /\ Signs(r, r.mfg_index)
         /\ NoneUpTo(r, r.mfg_index - 1)

NidFor(r) == IF r.mfg_index = 0 THEN eca.local_nid ELSE list[r.mfg_index].nid

InLoop == {"verify", "matched", "failed"}

\* Where the search stands, whoever may have interfered.
Place(w) ==
    /\ pc[w] \in InLoop \cup {"get_mfg", "scan"} => req[w].mfg_index = 0
    /\ pc[w] = "get_mfg" => req[w].i = 1
    /\ pc[w] \in InLoop => req[w].i \in Indices

\* What it knows, if nobody did.
Known(w) ==
    ~req[w].disturbed =>
        /\ pc[w] \in InLoop \cup {"scan"}
               => list # NoList /\ NoneUpTo(req[w], req[w].i - 1)
        /\ pc[w] = "verify" => store_ctx[req[w].i] = w /\ Registered(req[w].i)
        /\ pc[w] = "matched" => Signs(req[w], req[w].i)
        /\ pc[w] = "failed" => ~Signs(req[w], req[w].i)
        /\ pc[w] \in {"csr_check", "header", "auth_cb"} => Found(req[w])
        /\ pc[w] = "auth_cb" => req[w].user = req[w].cert.subject[NidFor(req[w])]

\* A certificate of a manufacturer is the device's, and a field that was kept
\* is the device's.
HasField(subject, d, n) == subject[n] = Subject[d][n] /\ subject[n] # Absent
Genuine(c) ==
    /\ c.mfg # NoOne => c.subject = Subject[c.device]
    /\ c.kept # Absent => HasField(c.subject, c.device, c.kept)

Identity(w) ==
    /\ Genuine(req[w].cert)
    /\ req[w].kept # Absent => HasField(req[w].csr, req[w].cert.device, req[w].kept)

WInv(w) == Place(w) /\ Known(w) /\ Identity(w)

IInv ==
    /\ TypeOK
    /\ \A w \in Workers : WInv(w)
    /\ \A c \in local : Genuine(c)

-----------------------------------------------------------------------------
(* Types *)

\* The bounds are numbers.
LEMMA Bounds == NUM_SUPPORTED_MFG \in Nat \ {0} /\ MaxRequests \in Nat /\ MaxChanges \in Nat
  BY EnhancedAssumption

\* The index after one of the list's, and the indices up to it.
LEMMA IndexAfter ==
    ASSUME NEW i \in Indices
    PROVE  /\ i # 0 /\ i + 1 \in 1..NUM_SUPPORTED_MFG + 1 /\ (i + 1) - 1 = i
           /\ \A j \in 1..i : j \in 1..(i - 1) \/ j = i
  BY Bounds DEF Indices

\* No list is not a list.
LEMMA ListDomain ==
    /\ DOMAIN NoList = {}
    /\ \A l \in [Indices -> Entry] : l # NoList /\ DOMAIN l = Indices
  BY EnhancedAssumption DEF NoList, Indices

\* What TypeOK says of the list, with its domain.
LEMMA ListType ==
    ASSUME TypeOK, list # NoList
    PROVE  list \in [Indices -> Entry] /\ DOMAIN list = Indices
  BY ListDomain DEF TypeOK

\* A device's own certificate is a certificate.
LEMMA DeviceCertType == \A d \in Devices : DeviceCert(d) \in Cert /\ Genuine(DeviceCert(d))
  BY EnhancedAssumption DEF DeviceCert, Cert, Genuine

\* A request begins typed.
LEMMA NewRequestType ==
    ASSUME NEW cert \in Cert, NEW csr \in [Nids -> Value], NEW check \in BOOLEAN
    PROVE  NewRequest(cert, csr, check) \in Request
  BY EnhancedAssumption DEF NewRequest, Request

\* The request of a worker that is idle is typed, and claims nothing.
LEMMA NoRequestType ==
    NoRequest \in Request /\ Genuine(NoRequest.cert) /\ NoRequest.kept = Absent
  <1> DEFINE d == CHOOSE d \in Devices : TRUE
             c == CHOOSE csr \in Csrs : TRUE
  <1>1. d \in Devices /\ c \in [Nids -> Value]
    BY EnhancedAssumption
  <1>2. NewRequest(DeviceCert(d), c, FALSE) \in Request
    BY <1>1, DeviceCertType, NewRequestType
  <1> QED BY <1>1, <1>2, DeviceCertType DEF NoRequest, NewRequest

\* The updates of a request the steps make.
LEMMA UpdateType ==
    ASSUME NEW r \in Request
    PROVE  /\ [r EXCEPT !.disturbed = TRUE] \in Request
           /\ \A i \in 1..NUM_SUPPORTED_MFG + 1 : [r EXCEPT !.i = i] \in Request
           /\ \A i \in Indices : [r EXCEPT !.mfg_index = i] \in Request
           /\ \A u \in Value : [r EXCEPT !.user = u] \in Request
           /\ \A n \in Nids \cup {Absent} : [r EXCEPT !.kept = n] \in Request
  <1>1. [r EXCEPT !.disturbed = TRUE] \in Request
    BY DEF Request
  <1>2. \A i \in 1..NUM_SUPPORTED_MFG + 1 : [r EXCEPT !.i = i] \in Request
    BY DEF Request
  <1>3. \A i \in Indices : [r EXCEPT !.mfg_index = i] \in Request
    <2>1. Indices \subseteq 0..NUM_SUPPORTED_MFG
      BY EnhancedAssumption DEF Indices
    <2> QED BY <2>1 DEF Request
  <1>4. \A u \in Value : [r EXCEPT !.user = u] \in Request
    BY DEF Request
  <1>5. \A n \in Nids \cup {Absent} : [r EXCEPT !.kept = n] \in Request
    BY DEF Request
  <1> QED BY <1>1, <1>2, <1>3, <1>4, <1>5

-----------------------------------------------------------------------------
(* The other workers *)

\* A step of w leaves another worker alone, or disturbs it.
Aside(v) ==
    /\ pc'[v] = pc[v]
    /\ \/ req'[v] = [req[v] EXCEPT !.disturbed = TRUE]
       \/ /\ req'[v] = req[v]
          /\ pc[v] = "verify" => store_ctx'[req[v].i] = store_ctx[req[v].i]
Others(w) == list' = list /\ eca' = eca /\ \A v \in Workers \ {w} : Aside(v)

\* Disturbing a request changes nothing else of it.
LEMMA Disturbed ==
    ASSUME NEW r \in Request
    PROVE  LET s == [r EXCEPT !.disturbed = TRUE]
           IN  /\ s.disturbed /\ s.cert = r.cert /\ s.csr = r.csr /\ s.kept = r.kept
               /\ s.i = r.i /\ s.mfg_index = r.mfg_index /\ s.user = r.user
  BY DEF Request

\* The identity of a request rests on its certificate, its CSR and the field
\* that was kept.
LEMMA IdentityKept ==
    ASSUME NEW v, Identity(v), req'[v].cert = req[v].cert,
           req'[v].csr = req[v].csr, req'[v].kept = req[v].kept
    PROVE  Identity(v)'
  BY DEF Identity, Genuine, HasField

\* What a search has found rests on its certificate and on the list.
LEMMA SearchKept ==
    ASSUME NEW v, list' = list, req'[v].cert = req[v].cert
    PROVE  /\ \A k : Signs(req[v], k)' <=> Signs(req[v], k)
           /\ \A k : NoneUpTo(req[v], k)' <=> NoneUpTo(req[v], k)
           /\ req'[v].mfg_index = req[v].mfg_index => (Found(req[v])' <=> Found(req[v]))
  <1>1. \A k : Signs(req[v], k)' <=> Signs(req[v], k)
    BY DEF Signs, Registered
  <1>2. \A k : NoneUpTo(req[v], k)' <=> NoneUpTo(req[v], k)
    BY <1>1 DEF NoneUpTo
  <1>3. req'[v].mfg_index = req[v].mfg_index => (Found(req[v])' <=> Found(req[v]))
    BY <1>1, <1>2 DEF Found
  <1> QED BY <1>1, <1>2, <1>3

\* What holds of the other workers goes on to hold.
LEMMA OthersKeep ==
    ASSUME IInv, NEW w, Others(w), NEW v \in Workers \ {w}
    PROVE  WInv(v)'
  <1> USE DEF IInv
  <1>1. req[v] \in Request /\ WInv(v) /\ pc'[v] = pc[v] /\ list' = list /\ eca' = eca
    BY DEF TypeOK, Others, Aside
  <1>2. CASE req'[v] = [req[v] EXCEPT !.disturbed = TRUE]
    <2>1. /\ req'[v].disturbed /\ req'[v].cert = req[v].cert
          /\ req'[v].csr = req[v].csr /\ req'[v].kept = req[v].kept
          /\ req'[v].i = req[v].i /\ req'[v].mfg_index = req[v].mfg_index
      BY <1>1, <1>2, Disturbed
    <2>2. Place(v)' /\ Known(v)'
      BY <1>1, <2>1 DEF WInv, Place, Known
    <2>3. Identity(v)'
      BY <1>1, <2>1, IdentityKept DEF WInv
    <2> QED BY <2>2, <2>3 DEF WInv
  <1>3. CASE /\ req'[v] = req[v]
             /\ pc[v] = "verify" => store_ctx'[req[v].i] = store_ctx[req[v].i]
    <2>1. Place(v)'
      BY <1>1, <1>3 DEF WInv, Place
    <2>2. Identity(v)'
      BY <1>1, <1>3, IdentityKept DEF WInv
    <2>3. Known(v)'
      <3>1. NidFor(req[v])' = NidFor(req[v]) /\ (Registered(req[v].i)' <=> Registered(req[v].i))
        BY <1>1, <1>3 DEF NidFor, Registered
      <3> QED BY <1>1, <1>3, <3>1, SearchKept DEF WInv, Known
    <2> QED BY <2>1, <2>2, <2>3 DEF WInv
  <1> QED BY <1>2, <1>3 DEF Others, Aside

\* A step that only moves w and its request.
LEMMA Moves ==
    ASSUME IInv, NEW w \in Workers, NEW step, NEW r, To(w, step, r),
           UNCHANGED <<eca, list, store_ctx>>
    PROVE  Others(w) /\ pc'[w] = step /\ req'[w] = r
  BY DEF IInv, TypeOK, To, Goto, Others, Aside

\* A step of w on the store context of entry i.
LEMMA Touches ==
    ASSUME IInv, NEW w \in Workers, NEW step, NEW r, NEW i \in Indices, NEW x,
           Touch(w, i, x, r), Goto(w, step), UNCHANGED <<eca, list>>
    PROVE  Others(w) /\ pc'[w] = step /\ req'[w] = r /\ store_ctx'[i] = x
  <1>1. pc'[w] = step /\ req'[w] = r /\ store_ctx'[i] = x
    BY DEF IInv, TypeOK, Touch, Goto
  <1>2. ASSUME NEW v \in Workers \ {w} PROVE Aside(v)
    <2>1. pc'[v] = pc[v]
      BY DEF IInv, TypeOK, Goto
    <2>2. CASE pc[v] = "verify" /\ req[v].i = i
      BY <2>1, <2>2 DEF Touch, Aside
    <2>3. CASE ~(pc[v] = "verify" /\ req[v].i = i)
      BY <2>1, <2>3 DEF IInv, TypeOK, Touch, Aside
    <2> QED BY <2>2, <2>3
  <1> QED BY <1>1, <1>2 DEF Others

-----------------------------------------------------------------------------
(* The steps of a worker *)

\* The invariant after a step that moves w and its request, if it holds of w.
LEMMA AfterMove ==
    ASSUME IInv, NEW w \in Workers, NEW step \in Steps, NEW r \in Request,
           To(w, step, r), UNCHANGED <<eca, list, store_ctx, changes>>,
           requests' \in 0..MaxRequests, local' \subseteq Cert,
           \A c \in local' : Genuine(c), WInv(w)'
    PROVE  IInv'
  <1>1. Others(w)
    BY Moves
  <1>2. \A v \in Workers : WInv(v)'
    BY <1>1, OthersKeep
  <1>3. TypeOK'
    BY DEF IInv, TypeOK, To, Goto
  <1> QED BY <1>2, <1>3 DEF IInv, Genuine, HasField

\* The same after a step on a store context.
LEMMA AfterTouch ==
    ASSUME IInv, NEW w \in Workers, NEW step \in Steps, NEW r \in Request,
           NEW i \in Indices, NEW x \in Workers \cup {NoOne},
           Touch(w, i, x, r), Goto(w, step), AppFrame, UNCHANGED local, WInv(w)'
    PROVE  IInv'
  <1>1. Others(w)
    BY Touches DEF AppFrame
  <1>2. \A v \in Workers : WInv(v)'
    BY <1>1, OthersKeep
  <1>3. req' \in [Workers -> Request]
    <2>1. \A v \in Workers : req[v] \in Request /\ [req[v] EXCEPT !.disturbed = TRUE] \in Request
      BY UpdateType DEF IInv, TypeOK
    <2> QED BY <2>1 DEF Touch
  <1>4. store_ctx' \in [Indices -> Workers \cup {NoOne}] /\ pc' \in [Workers -> Steps]
    BY DEF IInv, TypeOK, Touch, Goto
  <1>5. TypeOK'
    BY <1>3, <1>4 DEF IInv, TypeOK, AppFrame
  <1> QED BY <1>2, <1>5 DEF IInv, Genuine, HasField

\* A request ends without a certificate.
LEMMA AfterRefusal ==
    ASSUME IInv, NEW w \in Workers, Refused(w), AppFrame, UNCHANGED <<store_ctx, local>>
    PROVE  IInv'
  <1>1. pc'[w] = "idle" /\ req'[w] = NoRequest
    BY Moves DEF Refused, AppFrame
  <1>2. WInv(w)'
    BY <1>1, NoRequestType DEF WInv, Place, Known, Identity, Genuine, HasField, InLoop
  <1> QED BY <1>2, AfterMove, NoRequestType DEF Refused, AppFrame, IInv, TypeOK, Steps

\* A request ends with a certificate in which the field kept is the device's.
LEMMA AfterEnrollment ==
    ASSUME IInv, NEW w \in Workers, NEW kept \in Nids \cup {Absent},
           kept # Absent => HasField(req[w].csr, req[w].cert.device, kept),
           Enrolled(w, kept), AppFrame, UNCHANGED store_ctx
    PROVE  IInv'
  <1> DEFINE c == [mfg |-> NoOne, device |-> req[w].cert.device,
                   subject |-> req[w].csr, kept |-> kept]
  <1>1. c \in Cert
    BY DEF IInv, TypeOK, Request, Cert
  <1>2. Genuine(c)
    BY DEF Genuine
  <1>3. local' = local \cup {c}
    BY DEF Enrolled
  <1>4. local' \subseteq Cert /\ \A d \in local' : Genuine(d)
    BY <1>1, <1>2, <1>3 DEF IInv, TypeOK
  <1>5. To(w, "idle", NoRequest)
    BY DEF Enrolled
  <1>6. pc'[w] = "idle" /\ req'[w] = NoRequest
    BY <1>5, Moves DEF AppFrame
  <1>7. WInv(w)'
    BY <1>6, NoRequestType DEF WInv, Place, Known, Identity, Genuine, HasField, InLoop
  <1> QED BY <1>4, <1>5, <1>7, AfterMove, NoRequestType DEF AppFrame, IInv, TypeOK, Steps

\* A request ends either way, with no field kept.
LEMMA AfterSome ==
    ASSUME IInv, NEW w \in Workers,
           (Refused(w) /\ UNCHANGED local) \/ Enrolled(w, Absent),
           AppFrame, UNCHANGED store_ctx
    PROVE  IInv'
  BY AfterRefusal, AfterEnrollment

\* A new request claims nothing, and its certificate is genuine.
LEMMA EnrollAuthStep ==
    ASSUME IInv, NEW w \in Workers, est_enroll_auth(w)
    PROVE  IInv'
  <1>1. PICK cert \in {DeviceCert(d) : d \in Devices} \cup local, csr \in Csrs :
          To(w, "get_mfg", NewRequest(cert, csr, eca.csr_check))
    BY DEF est_enroll_auth
  <1> DEFINE r == NewRequest(cert, csr, eca.csr_check)
  <1>2. cert \in Cert /\ Genuine(cert)
    BY DeviceCertType DEF IInv, TypeOK
  <1>3. r \in Request
    BY <1>2, NewRequestType, EnhancedAssumption DEF IInv, TypeOK
  <1>4. pc'[w] = "get_mfg" /\ req'[w] = r
    BY <1>1, Moves DEF est_enroll_auth
  <1>5. r.cert = cert /\ r.kept = Absent /\ r.i = 1 /\ r.mfg_index = 0
    BY DEF NewRequest
  <1>6. WInv(w)'
    BY <1>2, <1>4, <1>5 DEF WInv, Place, Known, Identity, Genuine, HasField, InLoop
  <1>7. requests' \in 0..MaxRequests
    <2>1. requests \in 0..MaxRequests /\ requests < MaxRequests /\ requests' = requests + 1
      BY DEF est_enroll_auth, IInv, TypeOK
    <2> QED BY <2>1, Bounds
  <1> QED BY <1>1, <1>3, <1>6, <1>7, AfterMove DEF est_enroll_auth, IInv, TypeOK, Steps

\* The search begins before the first entry, or has nothing to search.
LEMMA GetMfgStep ==
    ASSUME IInv, NEW w \in Workers, get_mfg(w)
    PROVE  IInv'
  <1>1. CASE Refused(w)
    BY <1>1, AfterRefusal DEF get_mfg, Frame
  <1>2. CASE To(w, IF list = NoList THEN "csr_check" ELSE "scan", req[w])
    <2> DEFINE step == IF list = NoList THEN "csr_check" ELSE "scan"
    <2>1. pc'[w] = step /\ req'[w] = req[w] /\ list' = list
      BY <1>2, Moves DEF get_mfg, Frame, AppFrame
    <2>2. req[w] \in Request /\ req[w].i = 1 /\ req[w].mfg_index = 0 /\ Identity(w)
      BY DEF get_mfg, IInv, TypeOK, WInv, Place
    <2>3. Place(w)' /\ Identity(w)'
      BY <2>1, <2>2 DEF Place, Identity, Genuine, HasField, InLoop
    <2>4. Known(w)'
      BY <2>1, <2>2 DEF Known, Found, NoneUpTo, InLoop
    <2> QED
      BY <1>2, <2>2, <2>3, <2>4, AfterMove DEF get_mfg, Frame, AppFrame, IInv, TypeOK, Steps, WInv
  <1> QED BY <1>1, <1>2 DEF get_mfg

\* The loop goes past an entry that is not registered, and ends after the last.
LEMMA ScanStep ==
    ASSUME IInv, NEW w \in Workers, Scan(w)
    PROVE  IInv'
  <1> DEFINE r == req[w]
  <1>1. /\ r \in Request /\ pc[w] = "scan" /\ list # NoList /\ Place(w) /\ Known(w)
        /\ Identity(w) /\ r.mfg_index = 0 /\ r.i \in 1..NUM_SUPPORTED_MFG + 1
    BY DEF Scan, IInv, TypeOK, WInv, Place, Request
  <1>2. CASE r.i > NUM_SUPPORTED_MFG /\ To(w, "csr_check", r) /\ Frame
    <2>1. pc'[w] = "csr_check" /\ req'[w] = r /\ list' = list
      BY <1>2, Moves DEF Frame, AppFrame
    <2>2. ~r.disturbed => NoneUpTo(r, NUM_SUPPORTED_MFG)
      <3>1. r.i - 1 = NUM_SUPPORTED_MFG
        <4>1. r.i \in 1..NUM_SUPPORTED_MFG + 1 /\ r.i > NUM_SUPPORTED_MFG
          BY <1>1, <1>2
        <4> QED BY <4>1, Bounds
      <3> QED BY <1>1, <3>1 DEF Known
    <2>3. WInv(w)'
      BY <1>1, <2>1, <2>2
      DEF WInv, Place, Known, Identity, Genuine, HasField, InLoop, Found, NoneUpTo, Signs, Registered
    <2> QED BY <1>1, <1>2, <2>3, AfterMove DEF Frame, AppFrame, IInv, TypeOK, Steps
  <1>3. CASE /\ r.i \in Indices /\ ~Registered(r.i)
             /\ To(w, "scan", [r EXCEPT !.i = @ + 1]) /\ Frame
    <2> DEFINE s == [r EXCEPT !.i = r.i + 1]
    <2>1. s \in Request
      <3>1. r.i + 1 \in 1..NUM_SUPPORTED_MFG + 1
        BY <1>3, IndexAfter
      <3> QED BY <1>1, <3>1, UpdateType
    <2>2. s.i = r.i + 1 /\ s.cert = r.cert /\ s.csr = r.csr /\ s.kept = r.kept
          /\ s.mfg_index = 0 /\ s.disturbed = r.disturbed
      BY <1>1 DEF Request
    <2>3. pc'[w] = "scan" /\ req'[w] = s /\ list' = list
      BY <1>3, Moves DEF Frame, AppFrame
    <2>4. ~r.disturbed => NoneUpTo(r, r.i)
      <3>1. ~r.disturbed => NoneUpTo(r, r.i - 1) /\ ~Signs(r, r.i)
        BY <1>1, <1>3 DEF Known, Signs
      <3>2. \A j \in 1..r.i : j \in 1..(r.i - 1) \/ j = r.i
        BY <1>3, IndexAfter
      <3> QED BY <3>1, <3>2 DEF NoneUpTo
    <2>5. WInv(w)'
      <3>1. Place(w)'
        BY <2>2, <2>3 DEF Place, InLoop
      <3>2. Identity(w)'
        BY <1>1, <2>2, <2>3, IdentityKept
      <3>3. s.i - 1 = r.i
        BY <1>3, <2>2, IndexAfter
      <3>4. \A k : k = r.i /\ ~r.disturbed => NoneUpTo(req[w], k)'
        BY <2>2, <2>3, <2>4, SearchKept
      <3>5. Known(w)'
        BY <1>1, <2>2, <2>3, <3>3, <3>4 DEF Known, InLoop
      <3> QED BY <3>1, <3>2, <3>5 DEF WInv
    <2> QED BY <1>1, <1>3, <2>1, <2>5, AfterMove DEF Frame, AppFrame, IInv, TypeOK, Steps
  <1>4. CASE /\ r.i \in Indices /\ Registered(r.i) /\ Touch(w, r.i, w, r)
             /\ Goto(w, "verify") /\ AppFrame /\ UNCHANGED local
    <2>1. pc'[w] = "verify" /\ req'[w] = r /\ store_ctx'[r.i] = w /\ list' = list
      <3>1. UNCHANGED <<eca, list>>
        BY <1>4 DEF AppFrame
      <3>2. r.i \in Indices /\ Touch(w, r.i, w, r) /\ Goto(w, "verify")
        BY <1>4
      <3> HIDE DEF r
      <3> QED BY <3>1, <3>2, Touches, SMTT(30)
    <2>2. Place(w)' /\ Identity(w)'
      BY <1>1, <1>4, <2>1, IdentityKept DEF Place, InLoop
    <2>3. Known(w)'
      BY <1>1, <1>4, <2>1, SearchKept DEF Known, InLoop, Registered
    <2> QED BY <1>1, <1>4, <2>2, <2>3, AfterTouch DEF Steps, WInv
  <1>5. CASE BadHeader(w)
    BY <1>5, AfterSome DEF BadHeader
  <1> QED BY <1>2, <1>3, <1>4, <1>5 DEF Scan

\* With its own certificate in the store context the verdict is right.
LEMMA VerifyStep ==
    ASSUME IInv, NEW w \in Workers, Verify(w)
    PROVE  IInv'
  <1> DEFINE r == req[w]
             own == store_ctx[r.i] = w /\ list # NoList
             signed == r.cert.mfg = list[r.i].mfg
             s == [r EXCEPT !.disturbed = TRUE]
  <1>1. /\ r \in Request /\ pc[w] = "verify" /\ Place(w) /\ Known(w) /\ Identity(w)
        /\ Frame
    BY DEF Verify, IInv, TypeOK, WInv
  <1>2. ~r.disturbed => own /\ Registered(r.i) /\ NoneUpTo(r, r.i - 1)
    BY <1>1 DEF Known, InLoop
  <1>3. CASE (own => signed) /\ To(w, "matched", r)
    <2>1. pc'[w] = "matched" /\ req'[w] = r /\ list' = list
      BY <1>1, <1>3, Moves DEF Frame, AppFrame
    <2>2. WInv(w)'
      BY <1>1, <1>2, <1>3, <2>1
      DEF WInv, Place, Known, Identity, Genuine, HasField, InLoop, NoneUpTo, Signs, Registered
    <2> QED BY <1>1, <1>3, <2>2, AfterMove DEF Frame, AppFrame, IInv, TypeOK, Steps
  <1>4. CASE (own => ~signed) /\ To(w, "failed", r)
    <2>1. pc'[w] = "failed" /\ req'[w] = r /\ list' = list
      BY <1>1, <1>4, Moves DEF Frame, AppFrame
    <2>2. WInv(w)'
      BY <1>1, <1>2, <1>4, <2>1
      DEF WInv, Place, Known, Identity, Genuine, HasField, InLoop, NoneUpTo, Signs, Registered
    <2> QED BY <1>1, <1>4, <2>2, AfterMove DEF Frame, AppFrame, IInv, TypeOK, Steps
  <1>5. CASE To(w, "matched", s)
    <2>1. pc'[w] = "matched" /\ req'[w] = s
      BY <1>1, <1>5, Moves DEF Frame, AppFrame
    <2>2. /\ s.disturbed /\ s.cert = r.cert /\ s.csr = r.csr /\ s.kept = r.kept
          /\ s.i = r.i /\ s.mfg_index = r.mfg_index
      BY <1>1, Disturbed
    <2>3. WInv(w)'
      <3>1. Place(w)' /\ Known(w)'
        BY <1>1, <2>1, <2>2 DEF Place, Known, InLoop
      <3>2. Identity(w)'
        BY <1>1, <2>1, <2>2, IdentityKept
      <3> QED BY <3>1, <3>2 DEF WInv
    <2> QED BY <1>1, <1>5, <2>3, AfterMove, UpdateType DEF Frame, AppFrame, IInv, TypeOK, Steps
  <1> QED BY <1>3, <1>4, <1>5 DEF Verify

\* The entry that matched is the first to sign; one that failed is passed by.
LEMMA CleanupStep ==
    ASSUME IInv, NEW w \in Workers, Cleanup(w)
    PROVE  IInv'
  <1> DEFINE r == req[w]
  <1>1. /\ r \in Request /\ r.i \in Indices /\ r.mfg_index = 0 /\ pc[w] \in InLoop
        /\ Place(w) /\ Known(w) /\ Identity(w) /\ AppFrame /\ UNCHANGED local
    BY DEF Cleanup, IInv, TypeOK, WInv, Place, InLoop
  <1>2. CASE /\ pc[w] = "matched" /\ Goto(w, "csr_check")
             /\ Touch(w, r.i, NoOne, [r EXCEPT !.mfg_index = r.i])
    <2> DEFINE s == [r EXCEPT !.mfg_index = r.i]
    <2>1. s \in Request
      BY <1>1, UpdateType
    <2>2. s.mfg_index = r.i /\ s.cert = r.cert /\ s.csr = r.csr /\ s.kept = r.kept
          /\ s.i = r.i /\ s.disturbed = r.disturbed
      BY <1>1 DEF Request
    <2>3. pc'[w] = "csr_check" /\ req'[w] = s /\ list' = list
      BY <1>1, <1>2, Touches DEF AppFrame
    <2>4. ~r.disturbed => list # NoList /\ Signs(r, r.i) /\ NoneUpTo(r, r.i - 1)
      BY <1>1, <1>2 DEF Known, InLoop
    <2>5. r.i # 0
      BY <1>1, IndexAfter
    <2>6. WInv(w)'
      <3>1. Place(w)' /\ Identity(w)'
        BY <1>1, <2>2, <2>3, IdentityKept DEF Place, InLoop
      <3>2. ~r.disturbed => Found(req[w])'
        BY <2>2, <2>3, <2>4, <2>5, SearchKept DEF Found
      <3>3. Known(w)'
        BY <2>2, <2>3, <3>2 DEF Known, InLoop
      <3> QED BY <3>1, <3>3 DEF WInv
    <2> QED BY <1>1, <1>2, <2>1, <2>6, AfterTouch DEF Steps
  <1>3. CASE /\ pc[w] = "failed" /\ Goto(w, "scan")
             /\ Touch(w, r.i, NoOne, [r EXCEPT !.i = @ + 1])
    <2> DEFINE s == [r EXCEPT !.i = r.i + 1]
    <2>1. s \in Request
      <3>1. r.i + 1 \in 1..NUM_SUPPORTED_MFG + 1
        BY <1>1, IndexAfter
      <3> QED BY <1>1, <3>1, UpdateType
    <2>2. s.i = r.i + 1 /\ s.mfg_index = 0 /\ s.cert = r.cert /\ s.csr = r.csr
          /\ s.kept = r.kept /\ s.disturbed = r.disturbed
      BY <1>1 DEF Request
    <2>3. pc'[w] = "scan" /\ req'[w] = s /\ list' = list
      BY <1>1, <1>3, Touches DEF AppFrame
    <2>4. ~r.disturbed => list # NoList /\ NoneUpTo(r, r.i)
      <3>1. ~r.disturbed => list # NoList /\ NoneUpTo(r, r.i - 1) /\ ~Signs(r, r.i)
        BY <1>1, <1>3 DEF Known, InLoop
      <3>2. \A j \in 1..r.i : j \in 1..(r.i - 1) \/ j = r.i
        BY <1>1, IndexAfter
      <3> QED BY <3>1, <3>2 DEF NoneUpTo
    <2>5. s.i - 1 = r.i
      BY <1>1, <2>2, IndexAfter
    <2>6. WInv(w)'
      <3>1. Place(w)' /\ Identity(w)'
        BY <1>1, <2>2, <2>3, IdentityKept DEF Place, InLoop
      <3>2. Known(w)'
        <4>1. \A k : k = r.i /\ ~r.disturbed => NoneUpTo(req[w], k)'
          BY <2>2, <2>3, <2>4, SearchKept
        <4> QED BY <2>2, <2>3, <2>4, <2>5, <4>1 DEF Known, InLoop
      <3> QED BY <3>1, <3>2 DEF WInv
    <2> QED BY <1>1, <1>3, <2>1, <2>6, AfterTouch DEF Steps
  <1> QED BY <1>2, <1>3 DEF Cleanup

\* A field that the check has kept is the same in the certificate and in the
\* CSR, and in a genuine certificate it is the device's.
LEMMA KeptIsTheDevices ==
    ASSUME IInv, NEW w \in Workers, pc[w] = "csr_check", list # NoList,
           csr_check_passes(req[w])
    PROVE  /\ KeptField(req[w]) \in Nids \cup {Absent}
           /\ KeptField(req[w]) # Absent
                => HasField(req[w].csr, req[w].cert.device, KeptField(req[w]))
  <1> DEFINE r == req[w]
             k == KeptField(r)
  <1>1. /\ r \in Request /\ r.cert \in Cert /\ Known(w) /\ Identity(w)
        /\ list \in [Indices -> Entry] /\ DOMAIN list = Indices
    BY ListType DEF IInv, TypeOK, WInv, Request
  <1>2. RegisteredNids \subseteq Nids
    BY <1>1 DEF RegisteredNids, Entry
  <1>3. CASE Kept(r) = {}
    BY <1>3 DEF KeptField
  <1>4. CASE Kept(r) # {}
    <2>1. k \in Kept(r)
      BY <1>4 DEF KeptField
    <2>2. /\ k \in Nids /\ RegisteredNids = {k} /\ ~r.disturbed
          /\ r.cert.mfg # NoOne \/ r.cert.kept = k
      BY <1>2, <2>1 DEF Kept
    <2>3. SameField(r, k)
      <3>1. CASE r.mfg_index > 0
        <4>1. Registered(r.mfg_index) /\ r.mfg_index \in Indices
          <5>1. r.mfg_index \in 0..NUM_SUPPORTED_MFG
            BY <1>1 DEF Request
          <5>2. r.mfg_index # 0 /\ r.mfg_index \in Indices
            BY <3>1, <5>1, Bounds DEF Indices
          <5>3. Found(r)
            BY <1>1, <2>2 DEF Known
          <5> QED BY <5>2, <5>3 DEF Found, Signs
        <4>2. list[r.mfg_index].nid \in RegisteredNids
          BY <1>1, <4>1 DEF RegisteredNids
        <4> QED BY <2>2, <3>1, <4>2 DEF csr_check_passes
      <3>2. CASE ~(r.mfg_index > 0)
        BY <2>2, <3>2 DEF csr_check_passes
      <3> QED BY <3>1, <3>2
    <2>4. k # Absent => HasField(r.cert.subject, r.cert.device, k)
      BY <1>1, <2>2, <2>3 DEF Identity, Genuine, HasField, SameField
    <2> QED BY <2>2, <2>3, <2>4 DEF HasField, SameField
  <1> QED BY <1>3, <1>4

\* The check ends the request or leaves what the search has found.
LEMMA CsrCheckStep ==
    ASSUME IInv, NEW w \in Workers, CsrCheck(w)
    PROVE  IInv'
  <1> DEFINE r == req[w]
             s == [r EXCEPT !.kept = KeptField(r)]
  <1>1. /\ r \in Request /\ pc[w] = "csr_check" /\ Known(w) /\ Identity(w) /\ Frame
    BY DEF CsrCheck, IInv, TypeOK, WInv
  <1>2. CASE To(w, "header", r)
    <2>1. pc'[w] = "header" /\ req'[w] = r /\ list' = list
      BY <1>1, <1>2, Moves DEF Frame, AppFrame
    <2>2. Place(w)' /\ Identity(w)'
      BY <1>1, <2>1, IdentityKept DEF Place, InLoop
    <2>3. Known(w)'
      BY <1>1, <2>1, SearchKept DEF Known, InLoop
    <2> QED BY <1>1, <1>2, <2>2, <2>3, AfterMove DEF WInv, Frame, AppFrame, IInv, TypeOK, Steps
  <1>3. CASE Refused(w)
    BY <1>1, <1>3, AfterRefusal DEF Frame
  <1>4. CASE list # NoList /\ csr_check_passes(r) /\ To(w, "header", s)
    <2>1. /\ KeptField(r) \in Nids \cup {Absent}
          /\ KeptField(r) # Absent => HasField(r.csr, r.cert.device, KeptField(r))
      BY <1>1, <1>4, KeptIsTheDevices
    <2>2. s \in Request
      BY <1>1, <2>1, UpdateType
    <2>3. s.kept = KeptField(r) /\ s.cert = r.cert /\ s.csr = r.csr
          /\ s.mfg_index = r.mfg_index /\ s.disturbed = r.disturbed
      BY <1>1 DEF Request
    <2>4. pc'[w] = "header" /\ req'[w] = s /\ list' = list
      BY <1>1, <1>4, Moves DEF Frame, AppFrame
    <2>5. Place(w)' /\ Identity(w)'
      <3>1. Genuine(req[w].cert)'
        BY <1>1, <2>3, <2>4 DEF Identity, Genuine, HasField
      <3>2. Place(w)'
        BY <2>4 DEF Place, InLoop
      <3> QED BY <2>1, <2>3, <2>4, <3>1, <3>2 DEF Identity, HasField
    <2>6. Known(w)'
      BY <1>1, <2>3, <2>4, SearchKept DEF Known, InLoop
    <2> QED BY <1>1, <1>4, <2>2, <2>5, <2>6, AfterMove DEF WInv, Frame, AppFrame, IInv, TypeOK, Steps
  <1> QED BY <1>2, <1>3, <1>4 DEF CsrCheck

\* The user is the field that belongs to what the search has found.
LEMMA HeaderStep ==
    ASSUME IInv, NEW w \in Workers, build_enhanced_cert_auth_header(w)
    PROVE  IInv'
  <1> DEFINE r == req[w]
             nid == IF r.mfg_index > 0 THEN list[r.mfg_index].nid ELSE eca.local_nid
             s == [r EXCEPT !.user = r.cert.subject[nid]]
  <1>1. /\ r \in Request /\ pc[w] = "header" /\ Known(w) /\ Identity(w) /\ Frame
        /\ r.mfg_index > 0 => list # NoList
    BY DEF build_enhanced_cert_auth_header, IInv, TypeOK, WInv
  <1>2. CASE Refused(w)
    BY <1>1, <1>2, AfterRefusal DEF Frame
  <1>3. CASE To(w, "auth_cb", s)
    <2>1. r.mfg_index \in 0..NUM_SUPPORTED_MFG
      BY <1>1 DEF Request
    <2>2. nid \in Nids /\ nid = NidFor(r)
      <3>1. CASE r.mfg_index > 0
        <4>1. r.mfg_index \in Indices /\ list \in [Indices -> Entry]
          <5>1. r.mfg_index \in Indices
            BY <2>1, <3>1, Bounds DEF Indices
          <5> QED BY <1>1, <3>1, <5>1, ListType DEF IInv
        <4> QED BY <2>1, <3>1, <4>1 DEF Entry, NidFor
      <3>2. CASE ~(r.mfg_index > 0)
        <4>1. r.mfg_index = 0
          BY <2>1, <3>2, Bounds
        <4>2. eca.local_nid \in Nids
          BY DEF IInv, TypeOK
        <4> QED BY <3>2, <4>1, <4>2 DEF NidFor
      <3> QED BY <3>1, <3>2
    <2>3. r.cert.subject[nid] \in Value
      BY <1>1, <2>2 DEF Request, Cert
    <2>4. s \in Request
      BY <1>1, <2>3, UpdateType
    <2>5. /\ s.user = r.cert.subject[nid] /\ s.cert = r.cert /\ s.csr = r.csr
          /\ s.kept = r.kept /\ s.mfg_index = r.mfg_index /\ s.disturbed = r.disturbed
      BY <1>1 DEF Request
    <2> HIDE DEF s
    <2>6. pc'[w] = "auth_cb" /\ req'[w] = s /\ list' = list /\ eca' = eca
      BY <1>1, <1>3, Moves DEF Frame, AppFrame
    <2>7. Place(w)' /\ Identity(w)'
      BY <1>1, <2>5, <2>6, IdentityKept DEF Place, InLoop
    <2>8. Known(w)'
      <3>1. ~r.disturbed => Found(req[w])'
        BY <1>1, <2>5, <2>6, SearchKept DEF Known
      <3>2. NidFor(req[w])' = NidFor(r)
        BY <2>5, <2>6 DEF NidFor
      <3> QED BY <2>2, <2>5, <2>6, <3>1, <3>2 DEF Known, InLoop
    <2> QED BY <1>1, <1>3, <2>4, <2>7, <2>8, AfterMove DEF WInv, Frame, AppFrame, IInv, TypeOK, Steps
  <1> QED BY <1>2, <1>3 DEF build_enhanced_cert_auth_header

\* An authorized request is enrolled with the field that was kept.
LEMMA AuthCbStep ==
    ASSUME IInv, NEW w \in Workers, est_http_auth_cb(w)
    PROVE  IInv'
  <1>1. /\ req[w].kept \in Nids \cup {Absent}
        /\ req[w].kept # Absent => HasField(req[w].csr, req[w].cert.device, req[w].kept)
    BY DEF IInv, TypeOK, Request, WInv, Identity
  <1> QED BY <1>1, AfterEnrollment, AfterRefusal DEF est_http_auth_cb

\* Every step of a worker.
LEMMA WorkerKeeps ==
    ASSUME IInv, NEW w \in Workers, est_enroll_auth(w) \/ WorkerStep(w)
    PROVE  IInv'
  <1>1. CASE Walks(w) /\ Undefined(w)
    BY <1>1, AfterSome DEF Undefined
  <1> QED
    BY <1>1, EnrollAuthStep, GetMfgStep, ScanStep, VerifyStep, CleanupStep,
       CsrCheckStep, HeaderStep, AuthCbStep DEF WorkerStep

-----------------------------------------------------------------------------
(* The application *)

\* A change disturbs every request in flight, or changes nothing they use.
LEMMA ChangeKeeps ==
    ASSUME IInv, NEW e \in [enabled : BOOLEAN, csr_check : BOOLEAN, local_nid : Nids],
           NEW l, l = NoList \/ l \in [Indices -> Entry],
           NEW s \in [Indices -> Workers \cup {NoOne}],
           s = store_ctx \/ <<e, l>> # <<eca, list>>, Change(e, l, s)
    PROVE  IInv'
  <1>1. \A v \in Workers : req[v] \in Request /\ [req[v] EXCEPT !.disturbed = TRUE] \in Request
    BY UpdateType DEF IInv, TypeOK
  <1>2. TypeOK'
    <2>1. req' \in [Workers -> Request]
      BY <1>1 DEF Change
    <2>2. changes' \in 0..MaxChanges
      <3>1. /\ changes \in 0..MaxChanges /\ changes' <= MaxChanges
            /\ changes' \in {changes, changes + 1}
        BY DEF Change, IInv, TypeOK
      <3> QED BY <3>1, Bounds
    <2> QED BY <2>1, <2>2 DEF Change, IInv, TypeOK
  <1>3. ASSUME NEW v \in Workers PROVE WInv(v)'
    <2>1. req[v] \in Request /\ WInv(v) /\ pc'[v] = pc[v]
      BY <1>1 DEF Change, IInv
    <2>2. CASE v \in InFlight /\ <<e, l>> # <<eca, list>>
      <3>1. /\ req'[v].disturbed /\ req'[v].cert = req[v].cert
            /\ req'[v].csr = req[v].csr /\ req'[v].kept = req[v].kept
            /\ req'[v].i = req[v].i /\ req'[v].mfg_index = req[v].mfg_index
        BY <2>1, <2>2, Disturbed DEF Change
      <3>2. Place(v)' /\ Known(v)'
        BY <2>1, <3>1 DEF WInv, Place, Known
      <3>3. Identity(v)'
        BY <2>1, <3>1, IdentityKept DEF WInv
      <3> QED BY <3>2, <3>3 DEF WInv
    <2>3. CASE v \notin InFlight
      <3>1. req'[v] = req[v] /\ pc[v] = "idle"
        BY <2>3 DEF Change, InFlight
      <3> QED BY <2>1, <3>1 DEF WInv, Place, Known, Identity, Genuine, HasField, InLoop
    <2>4. CASE <<e, l>> = <<eca, list>>
      <3>1. req'[v] = req[v] /\ list' = list /\ eca' = eca /\ store_ctx' = store_ctx
        BY <2>4 DEF Change
      <3>2. Place(v)' /\ Identity(v)'
        BY <2>1, <3>1, IdentityKept DEF WInv, Place
      <3>3. Known(v)'
        <4>1. NidFor(req[v])' = NidFor(req[v]) /\ (Registered(req[v].i)' <=> Registered(req[v].i))
          BY <3>1 DEF NidFor, Registered
        <4> QED BY <2>1, <3>1, <4>1, SearchKept DEF WInv, Known
      <3> QED BY <3>2, <3>3 DEF WInv
    <2> QED BY <2>2, <2>3, <2>4
  <1> QED BY <1>2, <1>3 DEF IInv, Change, Genuine, HasField

\* Adding a manufacturer to a list makes a list, in which only a free entry
\* has changed.
LEMMA LoadMakesList ==
    ASSUME NEW l \in [Indices -> Entry], NEW m \in Mfgs, NEW loaded
    PROVE  LET k == load_enhcd_cert_auth_manufacturer(l, m, loaded)
           IN  /\ k \in [Indices -> Entry]
               /\ \A i \in Indices : l[i].mfg # NoOne => k[i] = l[i]
  <1> DEFINE i == get_next_mfg_info_ind(l)
             e == [mfg |-> m, nid |-> NidOf[m]]
  <1>1. CASE i = 0 \/ ~loaded
    BY <1>1 DEF load_enhcd_cert_auth_manufacturer
  <1>2. CASE i # 0 /\ loaded
    <2>1. i \in Indices /\ l[i].mfg = NoOne
      BY <1>2 DEF get_next_mfg_info_ind, FirstFree
    <2>2. e \in Entry
      BY EnhancedAssumption DEF Entry
    <2>3. load_enhcd_cert_auth_manufacturer(l, m, loaded) = [l EXCEPT ![i] = e]
      BY <1>2 DEF load_enhcd_cert_auth_manufacturer
    <2> QED BY <2>1, <2>2, <2>3
  <1> QED BY <1>1, <1>2

\* The list the application starts from is a list.
LEMMA CreateMakesList == mfg_info_list_create \in [Indices -> Entry]
  BY EnhancedAssumption DEF mfg_info_list_create, Free, Entry

\* The list after est_server_enhanced_cert_auth_add_mfg_info.
LEMMA AddMakesList ==
    ASSUME IInv, NEW m \in Mfgs, NEW loaded
    PROVE  LET l == IF list = NoList THEN mfg_info_list_create ELSE list
               k == load_enhcd_cert_auth_manufacturer(l, m, loaded)
           IN  /\ k \in [Indices -> Entry]
               /\ \A i \in DOMAIN list : Registered(i) => k[i] = list[i]
  <1> DEFINE l == IF list = NoList THEN mfg_info_list_create ELSE list
             k == load_enhcd_cert_auth_manufacturer(l, m, loaded)
  <1>1. l \in [Indices -> Entry]
    BY ListType, CreateMakesList DEF IInv
  <1>2. k \in [Indices -> Entry] /\ \A i \in Indices : l[i].mfg # NoOne => k[i] = l[i]
    BY <1>1, LoadMakesList
  <1>3. CASE list = NoList
    BY <1>2, <1>3, ListDomain
  <1>4. CASE list # NoList
    BY <1>2, <1>4, ListType DEF IInv, Registered
  <1> QED BY <1>3, <1>4

\* Every call of the application.
LEMMA ApplicationKeeps ==
    ASSUME IInv, Application
    PROVE  IInv'
  <1> DEFINE E == [enabled : BOOLEAN, csr_check : BOOLEAN, local_nid : Nids]
  <1>1. /\ eca \in E /\ (list = NoList \/ list \in [Indices -> Entry])
        /\ store_ctx \in [Indices -> Workers \cup {NoOne}]
    BY DEF IInv, TypeOK
  <1>2. ASSUME NEW n \in LocalNids, NEW check \in BOOLEAN, NEW good \in BOOLEAN,
               est_server_enable_enhanced_cert_auth(n, check, good)
        PROVE  IInv'
    <2> DEFINE e == IF good THEN [enabled |-> TRUE, csr_check |-> check, local_nid |-> n]
                    ELSE [eca EXCEPT !.local_nid = n]
    <2>1. n \in Nids
      BY EnhancedAssumption
    <2>2. e \in E
      BY <1>1, <2>1
    <2>3. Change(e, list, store_ctx)
      BY <1>2 DEF est_server_enable_enhanced_cert_auth
    <2> QED BY <1>1, <2>2, <2>3, ChangeKeeps
  <1>3. ASSUME NEW m \in Mfgs, NEW loaded \in BOOLEAN,
               est_server_enhanced_cert_auth_add_mfg_info(m, loaded)
        PROVE  IInv'
    <2> DEFINE l == IF list = NoList THEN mfg_info_list_create ELSE list
               k == load_enhcd_cert_auth_manufacturer(l, m, loaded)
    <2>1. k \in [Indices -> Entry]
      BY AddMakesList
    <2>2. Change(eca, k, store_ctx)
      BY <1>3 DEF est_server_enhanced_cert_auth_add_mfg_info
    <2> QED BY <1>1, <2>1, <2>2, ChangeKeeps
  <1>4. CASE est_server_disable_enhanced_cert_auth
    <2> DEFINE e == [eca EXCEPT !.enabled = FALSE]
    <2>1. e \in E
      BY <1>1
    <2>2. e # eca
      BY <1>1, <1>4 DEF est_server_disable_enhanced_cert_auth
    <2>3. NoneLoaded \in [Indices -> Workers \cup {NoOne}]
      BY DEF NoneLoaded
    <2>4. Change(e, NoList, NoneLoaded)
      BY <1>4 DEF est_server_disable_enhanced_cert_auth
    <2> QED BY <2>1, <2>2, <2>3, <2>4, ChangeKeeps
  <1> QED BY <1>2, <1>3, <1>4 DEF Application

\* The lists an application may have set up are lists.
LEMMA SetUpMakesList == \A k \in Indices : SetUp(k) \subseteq [Indices -> Entry]
  <1> SUFFICES ASSUME NEW k \in Indices, NEW f \in Injection(1..k, Mfgs)
               PROVE  [i \in Indices |-> IF i <= k THEN [mfg |-> f[i], nid |-> NidOf[f[i]]]
                                         ELSE Free] \in [Indices -> Entry]
    BY DEF SetUp
  <1>1. f \in [1..k -> Mfgs]
    BY DEF Injection
  <1>2. Free \in Entry
    BY EnhancedAssumption DEF Free, Entry
  <1>3. \A i \in Indices : i <= k => [mfg |-> f[i], nid |-> NidOf[f[i]]] \in Entry
    <2> SUFFICES ASSUME NEW i \in Indices, i <= k
                 PROVE  [mfg |-> f[i], nid |-> NidOf[f[i]]] \in Entry
      OBVIOUS
    <2>1. i \in 1..k
      BY EnhancedAssumption DEF Indices
    <2>2. f[i] \in Mfgs /\ NidOf[f[i]] \in Nids
      BY <1>1, <2>1, EnhancedAssumption
    <2> QED BY <2>2 DEF Entry
  <1> QED BY <1>2, <1>3

\* The invariant holds at the start.
LEMMA InitHolds == Init => IInv
  <1> SUFFICES ASSUME Init PROVE IInv
    OBVIOUS
  <1>1. list = NoList \/ list \in [Indices -> Entry]
    BY SetUpMakesList DEF Init
  <1>2. eca \in [enabled : BOOLEAN, csr_check : BOOLEAN, local_nid : Nids]
    <2>1. ASSUME NEW n \in LocalNids, NEW check \in BOOLEAN,
                 eca = [enabled |-> TRUE, csr_check |-> check, local_nid |-> n]
          PROVE  eca \in [enabled : BOOLEAN, csr_check : BOOLEAN, local_nid : Nids]
      BY <2>1, EnhancedAssumption
    <2>2. (CHOOSE n \in Nids : TRUE) \in Nids
      BY EnhancedAssumption
    <2>3. CASE eca = [enabled |-> FALSE, csr_check |-> FALSE,
                      local_nid |-> CHOOSE n \in Nids : TRUE]
      BY <2>2, <2>3
    <2> QED BY <2>1, <2>3 DEF Init
  <1>3. TypeOK
    <2>1. req \in [Workers -> Request] /\ pc \in [Workers -> Steps]
      BY NoRequestType DEF Init, Steps
    <2>2. store_ctx \in [Indices -> Workers \cup {NoOne}]
      BY DEF Init, NoneLoaded
    <2>3. requests \in 0..MaxRequests /\ changes \in 0..MaxChanges /\ local \subseteq Cert
      <3>1. requests = 0 /\ changes = 0 /\ local = {}
        BY DEF Init
      <3> QED BY <3>1, Bounds
    <2> QED BY <1>1, <1>2, <2>1, <2>2, <2>3 DEF TypeOK
  <1>4. \A w \in Workers : WInv(w)
    BY NoRequestType DEF Init, WInv, Place, Known, Identity, InLoop
  <1> QED BY <1>3, <1>4 DEF IInv, Init

-----------------------------------------------------------------------------
(* The theorems *)

\* The invariant holds for ever.
LEMMA InvHolds == Spec => []IInv
  <1>1. IInv /\ [Next]_vars => IInv'
    <2> SUFFICES ASSUME IInv, [Next]_vars PROVE IInv'
      OBVIOUS
    <2>1. CASE Next
      BY <2>1, WorkerKeeps, ApplicationKeeps DEF Next
    <2>2. CASE UNCHANGED vars
      <3>1. TypeOK'
        BY <2>2 DEF vars, IInv, TypeOK
      <3>2. ASSUME NEW w \in Workers PROVE WInv(w)'
        <4>1. WInv(w) /\ UNCHANGED <<eca, list, store_ctx, pc, req>>
          BY <2>2 DEF vars, IInv
        <4>2. Place(w)' /\ Identity(w)'
          BY <4>1 DEF WInv, Place, InLoop, Identity, Genuine
        <4>3. Known(w)'
          BY <4>1 DEF WInv, Known, Found, NoneUpTo, Signs, NidFor, Registered, InLoop
        <4> QED BY <4>2, <4>3 DEF WInv
      <3>3. \A c \in local' : Genuine(c)
        BY <2>2 DEF vars, IInv
      <3> QED BY <3>1, <3>2, <3>3 DEF IInv, Genuine, HasField
    <2> QED BY <2>1, <2>2
  <1> QED BY <1>1, InitHolds, PTL DEF Spec

\* Every variable keeps its type: in particular the index of the search stays
\* within the list, whatever the application does to it meanwhile.
THEOREM TypeCorrect == Spec => []TypeOK
  BY InvHolds, PTL DEF IInv

\* However many workers, manufacturers and entries: the user name of a request
\* nobody disturbed is the field of its own certificate that the first
\* manufacturer to have signed it registered, or the local domain's.
THEOREM UserIsOwn == Spec => []UserFromOwnCertificate
  <1>1. IInv => UserFromOwnCertificate
    <2> SUFFICES ASSUME IInv, NEW w \in Workers, pc[w] = "auth_cb", ~req[w].disturbed
                 PROVE  /\ \A i \in Signers(req[w]) :
                              (\A j \in Signers(req[w]) : i <= j)
                                  => req[w].user = req[w].cert.subject[list[i].nid]
                        /\ Signers(req[w]) = {}
                              => req[w].user = req[w].cert.subject[eca.local_nid]
      BY DEF UserFromOwnCertificate
    <2> DEFINE r == req[w]
    <2>1. /\ Found(r) /\ r.user = r.cert.subject[NidFor(r)]
          /\ r.mfg_index \in 0..NUM_SUPPORTED_MFG
      BY DEF IInv, TypeOK, Request, WInv, Known
    <2>2. CASE r.mfg_index = 0
      <3>1. Signers(r) = {}
        BY <2>1, <2>2, ListType, ListDomain DEF IInv, Found, NoneUpTo, Signs, Signers, Indices
      <3> QED BY <2>1, <2>2, <3>1 DEF NidFor
    <2>3. CASE r.mfg_index # 0
      <3>1. r.mfg_index \in Indices /\ list # NoList
        BY <2>1, <2>3, EnhancedAssumption DEF Indices, Found
      <3>2. r.mfg_index \in Signers(r)
        BY <2>1, <2>3, <3>1, ListType DEF IInv, Found, Signs, Signers
      <3>3. \A j \in 1..(r.mfg_index - 1) : j \notin Signers(r)
        BY <2>1, <2>3 DEF Found, NoneUpTo, Signs, Signers
      <3>4. ASSUME NEW i \in Signers(r), \A j \in Signers(r) : i <= j
            PROVE  i = r.mfg_index
        <4>1. i \in Indices
          BY <3>1, ListType DEF IInv, Signers
        <4>2. i <= r.mfg_index
          BY <3>2, <3>4
        <4>3. i \notin 1..(r.mfg_index - 1)
          BY <3>3, <3>4
        <4>4. \A m \in Indices : i <= m /\ i \notin 1..(m - 1) => i = m
          BY <4>1, EnhancedAssumption DEF Indices
        <4> QED BY <3>1, <4>2, <4>3, <4>4
      <3> QED BY <2>1, <2>3, <3>2, <3>4 DEF NidFor
    <2> QED BY <2>2, <2>3
  <1> QED BY <1>1, InvHolds, PTL

\* However long the chain of enrollments, in however many workers at a time:
\* a field that was kept all along is the device's own.
THEOREM IdentityIsKept == Spec => []IdentityPropagates
  <1>1. IInv => IdentityPropagates
    BY DEF IInv, IdentityPropagates, Genuine, HasField
  <1> QED BY <1>1, InvHolds, PTL

\* For any length of the list a manufacturer stays registered, in its entry,
\* until the feature is disabled.
THEOREM Registrations == Spec => RegistrationsKept
  <1> DEFINE A == \A i \in DOMAIN list :
                    Registered(i) => (IF list' = NoList THEN ~eca'.enabled
                                      ELSE list'[i] = list[i])
  <1>1. IInv /\ [Next]_vars => [A]_vars
    <2> SUFFICES ASSUME IInv, Next PROVE A
      OBVIOUS
    <2>1. CASE list' = list
      BY <2>1, ListDomain
    <2>2. ASSUME NEW m \in Mfgs, NEW loaded \in BOOLEAN,
                 est_server_enhanced_cert_auth_add_mfg_info(m, loaded)
          PROVE  A
      <3> DEFINE l == IF list = NoList THEN mfg_info_list_create ELSE list
                 k == load_enhcd_cert_auth_manufacturer(l, m, loaded)
      <3>1. list' = k
        BY <2>2 DEF est_server_enhanced_cert_auth_add_mfg_info, Change
      <3> QED BY <3>1, AddMakesList, ListDomain
    <2>3. CASE est_server_disable_enhanced_cert_auth
      <3>1. list' = NoList /\ eca' = [eca EXCEPT !.enabled = FALSE]
        BY <2>3 DEF est_server_disable_enhanced_cert_auth, Change
      <3> QED BY <3>1 DEF IInv, TypeOK
    <2>4. ASSUME NEW w \in Workers, est_enroll_auth(w) \/ WorkerStep(w)
          PROVE  list' = list
      BY <2>4
      DEF est_enroll_auth, WorkerStep, get_mfg, Scan, Verify, Cleanup, CsrCheck,
          build_enhanced_cert_auth_header, est_http_auth_cb, Undefined, BadHeader,
          Frame, AppFrame
    <2>5. ASSUME NEW n \in LocalNids, NEW check \in BOOLEAN, NEW good \in BOOLEAN,
                 est_server_enable_enhanced_cert_auth(n, check, good)
          PROVE  list' = list
      BY <2>5 DEF est_server_enable_enhanced_cert_auth, Change
    <2> QED BY <2>1, <2>2, <2>3, <2>4, <2>5 DEF Next, Application
  <1> QED BY <1>1, InvHolds, PTL DEF Spec, RegistrationsKept
=============================================================================
