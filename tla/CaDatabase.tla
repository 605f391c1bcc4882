---------------------------- MODULE CaDatabase ----------------------------
(***************************************************************************)
(* The certificate authority of the example server: ossl_simple_enroll and *)
(* the serial and index files it keeps, example/server/ossl_srv.c.         *)
(*                                                                         *)
(* The caller holds a mutex, so one enrollment runs at a time.  It reads   *)
(* both files, signs, writes the new contents beside them and then renames *)
(* the files one after the other.  Every write and rename is a step: the   *)
(* process may crash between two of them, and a call may fail, in which    *)
(* case the code renames back what it can.                                 *)
(*                                                                         *)
(* A serial file is a number, an index file a set of rows.  A write that   *)
(* is reported as a success is assumed to be complete.  The attr file holds*)
(* the unique_subject setting, which never changes: its presence counts.   *)
(***************************************************************************)
EXTENDS Naturals, FiniteSets

CONSTANTS
    Names,          \* subject names of the certificate requests
    Unique,         \* unique_subject
    FirstSerial,    \* content of the serial file at the start
    MaxSigned,      \* bound: certificates signed in one behaviour
    MaxFaults       \* bound: crashes and failed calls in one behaviour

ASSUME CaAssumption ==
    /\ Unique \in BOOLEAN
    /\ FirstSerial \in Nat /\ MaxSigned \in Nat /\ MaxFaults \in Nat

VARIABLES
    files,          \* [File -> Content]
    pc,             \* where ossl_simple_enroll is
    cert,           \* the certificate it has signed
    db,             \* its copy of the index, with that certificate
    delivered,      \* history: the certificates handed to the caller
    signed,         \* number of certificates signed
    faults          \* number of crashes and failed calls

vars == <<files, pc, cert, db, delivered, signed, faults>>

File == {"serial", "serial.new", "serial.old", "index", "index.new",
         "index.old", "attr", "attr.new", "attr.old"}

Row == [serial : Nat, name : Names]
Content == [there : BOOLEAN, num : Nat, rows : SUBSET Row]

NoFile == [there |-> FALSE, num |-> 0, rows |-> {}]
Number(n) == [NoFile EXCEPT !.there = TRUE, !.num = n]
Rows(rs) == [NoFile EXCEPT !.there = TRUE, !.rows = rs]

PC == {"idle", "save_serial", "save_index", "rotate_serial", "serial.new",
       "rotate_index", "index.new", "attr", "attr.new", "pkcs7"}

\* rename(a, b) on a file system whose contents are fs; a may be missing.
Rename(fs, a, b) ==
    IF fs[a].there THEN [fs EXCEPT ![b] = fs[a], ![a] = NoFile] ELSE fs

Fault == faults < MaxFaults /\ faults' = faults + 1

\* The files that renaming back may leave: each rename of the sequence <<a, b>>
\* works or does not.
Undo1(fs, a, b) == {fs, Rename(fs, a, b)}
Undo2(fs, a, b, c, d) == UNION {Undo1(g, c, d) : g \in Undo1(fs, a, b)}

\* The call fails and the enrollment ends without a certificate, with the
\* files one of outcomes.
Abort(outcomes) ==
    /\ Fault
    /\ pc' = "idle"
    /\ files' \in outcomes
    /\ UNCHANGED <<cert, db, delivered, signed>>

-----------------------------------------------------------------------------
\* TXT_DB_insert and do_body refuse a serial number that is in the index and,
\* with unique_subject, a subject that is.
Insertable(rows, c) ==
    \A r \in rows : r.serial # c.serial /\ (Unique => r.name # c.name)

load_index == files["index"].there
load_serial == files["serial"].there

\* Mutant: the index is not searched for the serial number and the subject.
CertifyUnchecked(n) ==
    LET c == [serial |-> files["serial"].num, name |-> n]
    IN  /\ pc = "idle" /\ signed < MaxSigned
        /\ load_index /\ load_serial
        /\ cert' = c
        /\ db' = files["index"].rows \cup {c}
        /\ signed' = signed + 1
        /\ pc' = "save_serial"
        /\ UNCHANGED <<files, delivered, faults>>

\* load_index, load_serial, certify: nothing is written yet.  An enrollment
\* that fails here leaves no trace.
Certify(n) ==
    LET c == [serial |-> files["serial"].num, name |-> n]
    IN  /\ pc = "idle" /\ signed < MaxSigned
        /\ load_index /\ load_serial
        /\ Insertable(files["index"].rows, c)
        /\ cert' = c
        /\ db' = files["index"].rows \cup {c}
        /\ signed' = signed + 1
        /\ pc' = "save_serial"
        /\ UNCHANGED <<files, delivered, faults>>

\* Mutant: the number of this certificate is saved, not the next.
SaveSameSerial ==
    /\ pc = "save_serial"
    /\ \/ /\ files' = [files EXCEPT !["serial.new"] = Number(cert.serial)]
          /\ pc' = "save_index"
          /\ UNCHANGED <<cert, db, delivered, signed, faults>>
       \/ Abort({files})

save_serial ==
    /\ pc = "save_serial"
    /\ \/ /\ files' = [files EXCEPT !["serial.new"] = Number(cert.serial + 1)]
          /\ pc' = "save_index"
          /\ UNCHANGED <<cert, db, delivered, signed, faults>>
       \/ Abort({files})

\* The index and then the attr file; the first may be there without the second.
save_index ==
    LET index == [files EXCEPT !["index.new"] = Rows(db)]
    IN  /\ pc = "save_index"
        /\ \/ /\ files' = [index EXCEPT !["attr.new"] = Number(1)]
              /\ pc' = "rotate_serial"
              /\ UNCHANGED <<cert, db, delivered, signed, faults>>
           \/ Abort({files, index})

\* The next rename of the rotation, from a to b, and what a failure undoes.
Step(here, a, b, next, outcomes) ==
    /\ pc = here
    /\ \/ /\ files' = Rename(files, a, b)
          /\ pc' = next
          /\ UNCHANGED <<cert, db, delivered, signed, faults>>
       \/ Abort(outcomes)

rotate_serial ==
    \/ Step("rotate_serial", "serial", "serial.old", "serial.new", {files})
    \/ Step("serial.new", "serial.new", "serial", "rotate_index",
            Undo1(files, "serial.old", "serial"))

\* Mutant: the old index is discarded before the new one is in place.
RotateIndexDiscards ==
    \/ /\ pc = "rotate_index"
       /\ files' = [files EXCEPT !["index"] = NoFile]
       /\ pc' = "index.new"
       /\ UNCHANGED <<cert, db, delivered, signed, faults>>
    \/ Step("index.new", "index.new", "index", "attr",
            Undo1(files, "index.old", "index"))
    \/ Step("attr", "attr", "attr.old", "attr.new", {files})
    \/ Step("attr.new", "attr.new", "attr", "pkcs7", {files})

rotate_index ==
    LET undo(fs) == Undo2(fs, "index", "index.new", "index.old", "index")
    IN  \/ Step("rotate_index", "index", "index.old", "index.new", {files})
        \/ Step("index.new", "index.new", "index", "attr",
                Undo1(files, "index.old", "index"))
        \/ Step("attr", "attr", "attr.old", "attr.new", undo(files))
        \/ Step("attr.new", "attr.new", "attr", "pkcs7",
                UNION {undo(fs) : fs \in Undo1(files, "attr.old", "attr")})

\* ossl_get_certs_pkcs7 converts the certificate, or fails.
ossl_get_certs_pkcs7 ==
    /\ pc = "pkcs7"
    /\ \/ /\ delivered' = delivered \cup {cert}
          /\ pc' = "idle"
          /\ UNCHANGED <<files, cert, db, signed, faults>>
       \/ Abort({files})

\* The process dies and is started again: the files are all that is left.
Crash ==
    /\ pc # "idle"
    /\ Abort({files})

Init ==
    /\ files = [f \in File |-> CASE f = "serial" -> Number(FirstSerial)
                                 [] f = "index" -> Rows({})
                                 [] f = "attr" -> Number(1)
                                 [] OTHER -> NoFile]
    /\ pc = "idle"
    /\ cert \in [serial : {0}, name : Names]
    /\ db = {}
    /\ delivered = {}
    /\ signed = 0
    /\ faults = 0

Next ==
    \/ \E n \in Names : Certify(n)
    \/ save_serial \/ save_index \/ rotate_serial \/ rotate_index
    \/ ossl_get_certs_pkcs7
    \/ Crash

Spec == Init /\ [][Next]_vars

-----------------------------------------------------------------------------
(* Properties *)

\* Every file and variable holds what its use allows.
TypeOK ==
    /\ files \in [File -> Content]
    /\ pc \in PC
    /\ cert \in Row /\ db \in SUBSET Row
    /\ delivered \in SUBSET Row
    /\ signed \in 0..MaxSigned /\ faults \in 0..MaxFaults

\* The serial file is rotated before the index: whatever crashes and fails, it
\* is ahead of every certificate in the index.  A rotation cut short may leave
\* no serial file, and then the CA refuses to work; serial.old is there, and
\* restoring it repeats no number of the index.
SerialIsAhead ==
    LET s == IF files["serial"].there THEN files["serial"] ELSE files["serial.old"]
    IN  /\ s.there
        /\ files["index"].there => \A r \in files["index"].rows : r.serial < s.num

\* Every certificate that left the CA is in the index; where a rotation was
\* cut short and there is no index, it is in index.old.
DeliveredIsRecorded ==
    delivered \subseteq (IF files["index"].there THEN files["index"].rows
                                                 ELSE files["index.old"].rows)

\* ossl_simple_enroll implements the promise of a certificate authority.
CA == INSTANCE CertAuthority WITH
    Names <- Names, Unique <- Unique, issued <- delivered
ImplementsCertAuthority == CA!Spec
=============================================================================
