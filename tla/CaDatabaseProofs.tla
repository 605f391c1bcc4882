-------------------------- MODULE CaDatabaseProofs --------------------------
(***************************************************************************)
(* Proofs about CaDatabase, for any subject names, any number of           *)
(* enrollments and any number of crashes and failed calls.                 *)
(*                                                                         *)
(* Between two enrollments the files are in one of three conditions, Safe: *)
(* all is well, or the serial file is missing, or the index is, and in the *)
(* last two no enrollment begins.  During an enrollment the invariant      *)
(* tells for each place in the code which of the files are the old ones    *)
(* and which the new; each such state is Safe too, so that a crash may     *)
(* come at any time.                                                       *)
(***************************************************************************)
EXTENDS CaDatabase, TLAPS

\* The number is beyond every serial number in the rows.
Ahead(n, rows) == \A r \in rows : r.serial < n

\* The files are as the next start of the program may find them.
Safe(fs) ==
    \/ /\ fs["serial"].there /\ fs["index"].there
       /\ delivered \subseteq fs["index"].rows
       /\ Ahead(fs["serial"].num, fs["index"].rows)
    \/ /\ ~fs["serial"].there /\ fs["serial.old"].there /\ fs["index"].there
       /\ delivered \subseteq fs["index"].rows
       /\ Ahead(fs["serial.old"].num, fs["index"].rows)
    \/ /\ fs["serial"].there /\ ~fs["index"].there
       /\ delivered \subseteq fs["index.old"].rows

\* The certificate just signed clashes with none that was handed out.
Fresh ==
    /\ cert \in db /\ Ahead(cert.serial + 1, db)
    /\ delivered \subseteq db /\ Insertable(delivered, cert)

\* A file with the serial number of this enrollment, of the next one, with the
\* index of before, and with the index of after.
OldSerial(f) == files[f].there /\ files[f].num = cert.serial
NewSerial(f) == files[f].there /\ files[f].num = cert.serial + 1
OldIndex(f) ==
    /\ files[f].there /\ delivered \subseteq files[f].rows
    /\ Ahead(cert.serial, files[f].rows)
NewIndex(f) == files[f].there /\ files[f].rows = db

\* What is in which file at each place of ossl_simple_enroll.
Place ==
    /\ pc = "idle" => Safe(files)
    /\ pc # "idle" => Fresh
    /\ pc \in {"save_serial", "save_index", "rotate_serial"}
          => OldSerial("serial") /\ OldIndex("index")
    /\ pc \in {"save_index", "rotate_serial", "serial.new"} => NewSerial("serial.new")
    /\ pc \in {"rotate_serial", "serial.new", "rotate_index", "index.new"}
          => NewIndex("index.new")
    /\ pc = "serial.new"
          => ~files["serial"].there /\ OldSerial("serial.old") /\ OldIndex("index")
    /\ pc \in {"rotate_index", "index.new", "attr", "attr.new", "pkcs7"}
          => NewSerial("serial")
    /\ pc = "rotate_index" => OldIndex("index")
    /\ pc = "index.new" => ~files["index"].there
    /\ pc \in {"index.new", "attr", "attr.new"} => OldIndex("index.old")
    /\ pc \in {"attr", "attr.new", "pkcs7"} => NewIndex("index")

\* The inductive invariant.
IInv == TypeOK /\ Place

-----------------------------------------------------------------------------
(* Files *)

\* A file that is not there, a number and rows are contents.
LEMMA Contents ==
    /\ NoFile \in Content /\ ~NoFile.there
    /\ \A n \in Nat : Number(n) \in Content /\ Number(n).there /\ Number(n).num = n
    /\ \A rs \in SUBSET Row : Rows(rs) \in Content /\ Rows(rs).there /\ Rows(rs).rows = rs
  BY DEF NoFile, Number, Rows, Content

\* The names of the files, as facts.
LEMMA FileNames ==
    /\ "serial" \in File /\ "serial.new" \in File /\ "serial.old" \in File
    /\ "index" \in File /\ "index.new" \in File /\ "index.old" \in File
    /\ "attr" \in File /\ "attr.new" \in File /\ "attr.old" \in File
  BY DEF File

\* What a rename from a to b does to the files.
Moved(fs, gs, a, b) ==
    /\ gs \in [File -> Content]
    /\ \A f \in File \ {a, b} : gs[f] = fs[f]
    /\ ~fs[a].there => gs = fs
    /\ fs[a].there => gs[b] = fs[a] /\ ~gs[a].there

\* A rename does just this.
LEMMA Renamed ==
    ASSUME NEW fs \in [File -> Content], NEW a \in File, NEW b \in File, a # b
    PROVE  Moved(fs, Rename(fs, a, b), a, b)
  BY Contents DEF Rename, Moved

\* Every place in an enrollment is one at which the process may die.
LEMMA PlaceIsSafe == IInv => Safe(files)
  <1> SUFFICES ASSUME IInv, pc # "idle" PROVE Safe(files)
    BY DEF IInv, Place
  <1>1. cert.serial \in Nat /\ \A f \in File : files[f].num \in Nat /\ files[f].rows \subseteq Row
    BY DEF IInv, TypeOK, Row, Content
  <1>2. \A f \in File : OldIndex(f) => Ahead(cert.serial + 1, files[f].rows)
    BY <1>1 DEF OldIndex, Ahead, Row
  <1>3. pc \in PC /\ Fresh
    BY DEF IInv, TypeOK, Place
  <1>4. CASE pc \in {"save_serial", "save_index", "rotate_serial"}
    BY <1>4 DEF IInv, Place, Safe, OldSerial, OldIndex
  <1>5. CASE pc = "serial.new"
    BY <1>5 DEF IInv, Place, Safe, OldSerial, OldIndex
  <1>6. CASE pc = "rotate_index"
    BY <1>2, <1>6 DEF IInv, Place, Safe, NewSerial, OldIndex, File
  <1>7. CASE pc = "index.new"
    BY <1>7 DEF IInv, Place, Safe, NewSerial, OldIndex
  <1>8. CASE pc \in {"attr", "attr.new", "pkcs7"}
    BY <1>3, <1>8 DEF IInv, Place, Safe, NewSerial, NewIndex, Fresh
  <1> QED BY <1>3, <1>4, <1>5, <1>6, <1>7, <1>8 DEF PC

\* An enrollment that ends with the files safe keeps the invariant.
LEMMA AbortKeeps ==
    ASSUME IInv, NEW outcomes, Abort(outcomes),
           \A fs \in outcomes : fs \in [File -> Content] /\ Safe(fs)
    PROVE  IInv'
  <1>1. files' \in [File -> Content] /\ Safe(files') /\ pc' = "idle"
        /\ UNCHANGED <<cert, db, delivered, signed>>
    BY DEF Abort
  <1>2. faults' \in 0..MaxFaults
    <2>1. faults \in 0..MaxFaults /\ faults < MaxFaults /\ faults' = faults + 1
      BY DEF Abort, Fault, IInv, TypeOK
    <2> QED BY <2>1, CaAssumption
  <1>3. TypeOK'
    BY <1>1, <1>2 DEF IInv, TypeOK, PC
  <1>4. Place'
    BY <1>1 DEF Place, Safe, Ahead
  <1> QED BY <1>3, <1>4 DEF IInv

-----------------------------------------------------------------------------
(* The steps *)

\* What a step of an enrollment that goes on leaves alone.
Goes(next) == pc' = next /\ UNCHANGED <<cert, db, delivered, signed, faults>>

\* The types after such a step.
LEMMA GoesType ==
    ASSUME IInv, NEW next \in PC, Goes(next), files' \in [File -> Content]
    PROVE  TypeOK'
  BY DEF IInv, TypeOK, Goes

\* A rename of a rotation goes on, or ends the enrollment.
LEMMA StepCases ==
    ASSUME NEW here, NEW a, NEW b, NEW next, NEW outcomes,
           Step(here, a, b, next, outcomes)
    PROVE  /\ pc = here
           /\ Abort(outcomes) \/ (Goes(next) /\ files' = Rename(files, a, b))
  BY DEF Step, Goes

\* Both files are there and safe when an enrollment begins.
LEMMA CertifyStep ==
    ASSUME IInv, NEW n \in Names, Certify(n)
    PROVE  IInv'
  <1> DEFINE c == [serial |-> files["serial"].num, name |-> n]
             rows == files["index"].rows
  <1>1. files \in [File -> Content] /\ c \in Row /\ rows \subseteq Row /\ c.serial \in Nat
    BY DEF IInv, TypeOK, File, Content, Row
  <1>2. /\ pc = "idle" /\ files["serial"].there /\ files["index"].there
        /\ cert' = c /\ db' = rows \cup {c} /\ pc' = "save_serial"
        /\ UNCHANGED <<files, delivered, faults>> /\ Insertable(rows, c)
    BY DEF Certify, load_index, load_serial
  <1>3. delivered \subseteq rows /\ Ahead(c.serial, rows)
    BY <1>2 DEF IInv, Place, Safe
  <1>4. signed' \in 0..MaxSigned
    <2>1. signed \in 0..MaxSigned /\ signed < MaxSigned /\ signed' = signed + 1
      BY DEF Certify, IInv, TypeOK
    <2> QED BY <2>1, CaAssumption
  <1>5. TypeOK'
    BY <1>1, <1>2, <1>4 DEF IInv, TypeOK, PC
  <1>6. Ahead(c.serial + 1, rows \cup {c})
    BY <1>1, <1>3 DEF Ahead, Row
  <1>7. Fresh'
    BY <1>2, <1>3, <1>6 DEF Fresh, Insertable, Ahead
  <1>8. OldSerial("serial")' /\ OldIndex("index")'
    BY <1>2, <1>3 DEF OldSerial, OldIndex, Ahead
  <1> QED BY <1>2, <1>5, <1>7, <1>8 DEF IInv, Place

\* The new serial number and the new index are written beside the files.
LEMMA SaveStep ==
    ASSUME IInv, save_serial \/ save_index
    PROVE  IInv'
  <1>1. files \in [File -> Content] /\ cert.serial + 1 \in Nat /\ db \in SUBSET Row
    BY DEF IInv, TypeOK, Row
  <1>2. CASE save_serial
    <2> DEFINE gs == [files EXCEPT !["serial.new"] = Number(cert.serial + 1)]
    <2>1. CASE Abort({files})
      BY <1>1, <2>1, AbortKeeps, PlaceIsSafe
    <2>2. CASE files' = gs /\ Goes("save_index")
      <3>1. /\ gs \in [File -> Content] /\ NewSerial("serial.new")'
            /\ \A f \in File \ {"serial.new"} : files'[f] = files[f]
        BY <1>1, <2>2, Contents DEF File, NewSerial, Goes
      <3>2. TypeOK'
        BY <2>2, <3>1, GoesType DEF PC
      <3>3. OldSerial("serial")' /\ OldIndex("index")' /\ Fresh'
        BY <1>2, <2>2, <3>1
        DEF save_serial, IInv, Place, OldSerial, OldIndex, Ahead, Fresh, Insertable, Goes, File
      <3> QED BY <2>2, <3>1, <3>2, <3>3 DEF IInv, Place, Goes
    <2> QED BY <1>2, <2>1, <2>2 DEF save_serial, Goes
  <1>3. CASE save_index
    <2> DEFINE is == [files EXCEPT !["index.new"] = Rows(db)]
               gs == [is EXCEPT !["attr.new"] = Number(1)]
    <2>1. /\ is \in [File -> Content] /\ \A f \in File \ {"index.new"} : is[f] = files[f]
          /\ is["index.new"] = Rows(db)
      BY <1>1, Contents DEF File
    <2>2. CASE Abort({files, is})
      <3>1. Safe(files) => Safe(is)
        BY <2>1 DEF Safe, File
      <3> QED BY <1>1, <2>1, <2>2, <3>1, AbortKeeps, PlaceIsSafe
    <2>3. CASE files' = gs /\ Goes("rotate_serial")
      <3>1. /\ files' \in [File -> Content] /\ files'["index.new"] = Rows(db)
            /\ \A f \in File \ {"index.new", "attr.new"} : files'[f] = files[f]
        BY <2>1, <2>3, Contents DEF File
      <3>2. TypeOK'
        BY <2>3, <3>1, GoesType DEF PC
      <3>3. OldSerial("serial")' /\ NewSerial("serial.new")' /\ OldIndex("index")' /\ Fresh'
        BY <1>3, <2>3, <3>1
        DEF save_index, IInv, Place, OldSerial, NewSerial, OldIndex, Ahead, Fresh,
            Insertable, Goes, File
      <3>4. NewIndex("index.new")'
        BY <1>1, <2>3, <3>1, Contents DEF NewIndex, Goes
      <3> QED BY <2>3, <3>2, <3>3, <3>4 DEF IInv, Place, Goes
    <2> QED BY <1>3, <2>2, <2>3 DEF save_index, Goes
  <1> QED BY <1>2, <1>3

\* A step of an enrollment that goes on has signed nothing and handed nothing
\* out, and what it did not rename it left.
LEMMA Keeps ==
    ASSUME NEW next, Goes(next)
    PROVE  /\ Fresh => Fresh'
           /\ \A f, g : files'[g] = files[f] =>
                /\ OldSerial(f) => OldSerial(g)'
                /\ NewSerial(f) => NewSerial(g)'
                /\ OldIndex(f) => OldIndex(g)'
                /\ NewIndex(f) => NewIndex(g)'
  BY DEF Goes, Fresh, Insertable, Ahead, OldSerial, NewSerial, OldIndex, NewIndex

\* The serial file becomes serial.old, and serial.new becomes the serial file.
LEMMA RotateSerialStep ==
    ASSUME IInv, rotate_serial
    PROVE  IInv'
  <1>1. files \in [File -> Content]
    BY DEF IInv, TypeOK
  <1>2. CASE Step("rotate_serial", "serial", "serial.old", "serial.new", {files})
    <2>1. CASE Abort({files})
      BY <1>1, <2>1, AbortKeeps, PlaceIsSafe
    <2>2. CASE Goes("serial.new") /\ files' = Rename(files, "serial", "serial.old")
      <3>1. /\ pc = "rotate_serial" /\ Fresh /\ OldSerial("serial") /\ OldIndex("index")
            /\ NewSerial("serial.new") /\ NewIndex("index.new") /\ files["serial"].there
        BY <1>2, StepCases DEF IInv, Place, OldSerial
      <3>2. /\ files' \in [File -> Content] /\ ~files'["serial"].there
            /\ files'["serial.old"] = files["serial"] /\ files'["serial.new"] = files["serial.new"]
            /\ files'["index"] = files["index"] /\ files'["index.new"] = files["index.new"]
        <4>1. Moved(files, files', "serial", "serial.old")
          BY <1>1, <2>2, Renamed, FileNames
        <4> QED BY <3>1, <4>1, FileNames DEF Moved
      <3>3. TypeOK'
        BY <2>2, <3>2, GoesType DEF PC
      <3>4. /\ Fresh' /\ OldSerial("serial.old")' /\ OldIndex("index")'
            /\ NewSerial("serial.new")' /\ NewIndex("index.new")'
        BY <2>2, <3>1, <3>2, Keeps
      <3> QED BY <2>2, <3>2, <3>3, <3>4 DEF IInv, Place, Goes
    <2> QED BY <1>2, <2>1, <2>2, StepCases
  <1>3. CASE Step("serial.new", "serial.new", "serial", "rotate_index",
                  Undo1(files, "serial.old", "serial"))
    <2>1. /\ pc = "serial.new" /\ Fresh /\ OldSerial("serial.old") /\ OldIndex("index")
          /\ NewSerial("serial.new") /\ NewIndex("index.new")
          /\ files["serial.old"].there /\ files["serial.new"].there
      BY <1>3, StepCases DEF IInv, Place, OldSerial, NewSerial
    <2>2. CASE Abort(Undo1(files, "serial.old", "serial"))
      <3> DEFINE gs == Rename(files, "serial.old", "serial")
      <3>1. /\ gs \in [File -> Content] /\ gs["serial"] = files["serial.old"]
            /\ gs["index"] = files["index"]
        <4>1. Moved(files, gs, "serial.old", "serial")
          BY <1>1, Renamed, FileNames
        <4> HIDE DEF gs
        <4> QED BY <2>1, <4>1, FileNames DEF Moved
      <3> HIDE DEF gs
      <3>2. Safe(gs)
        BY <2>1, <3>1 DEF Safe, OldSerial, OldIndex
      <3> QED BY <1>1, <2>2, <3>1, <3>2, AbortKeeps, PlaceIsSafe DEF Undo1, gs
    <2>3. CASE Goes("rotate_index") /\ files' = Rename(files, "serial.new", "serial")
      <3>1. /\ files' \in [File -> Content] /\ files'["serial"] = files["serial.new"]
            /\ files'["index"] = files["index"] /\ files'["index.new"] = files["index.new"]
        <4>1. Moved(files, files', "serial.new", "serial")
          BY <1>1, <2>3, Renamed, FileNames
        <4> QED BY <2>1, <4>1, FileNames DEF Moved
      <3>2. TypeOK'
        BY <2>3, <3>1, GoesType DEF PC
      <3>3. Fresh' /\ NewSerial("serial")' /\ OldIndex("index")' /\ NewIndex("index.new")'
        BY <2>1, <2>3, <3>1, Keeps
      <3> QED BY <2>3, <3>2, <3>3 DEF IInv, Place, Goes
    <2> QED BY <1>3, <2>2, <2>3, StepCases
  <1> QED BY <1>2, <1>3 DEF rotate_serial

\* Whatever of the rotation of the index is undone, the files are safe.
LEMMA UndoIsSafe ==
    ASSUME IInv, pc \in {"attr", "attr.new"}, NEW fs \in [File -> Content],
           \A f \in {"serial", "index", "index.old"} : fs[f] = files[f],
           NEW hs \in Undo2(fs, "index", "index.new", "index.old", "index")
    PROVE  hs \in [File -> Content] /\ Safe(hs)
  <1>1. /\ NewSerial("serial") /\ OldIndex("index.old") /\ NewIndex("index") /\ Fresh
        /\ cert.serial \in Nat /\ files \in [File -> Content]
    BY DEF IInv, Place, TypeOK, Row
  <1>2. PICK gs \in {fs, Rename(fs, "index", "index.new")} :
          hs \in {gs, Rename(gs, "index.old", "index")}
    BY DEF Undo2, Undo1
  <1>3. fs["index"].there /\ fs["index.old"].there /\ fs["serial"].there
    BY <1>1 DEF NewSerial, OldIndex, NewIndex
  <1>4. /\ gs \in [File -> Content] /\ gs["serial"] = files["serial"]
        /\ gs["index.old"] = files["index.old"]
        /\ gs["index"] = files["index"] \/ ~gs["index"].there
    <2>1. Moved(fs, Rename(fs, "index", "index.new"), "index", "index.new")
      BY Renamed, FileNames
    <2>2. gs = fs \/ Moved(fs, gs, "index", "index.new")
      BY <1>2, <2>1
    <2> QED BY <1>3, <2>2, FileNames DEF Moved
  <1>5. /\ hs \in [File -> Content] /\ hs["serial"] = files["serial"]
        /\ \/ hs["index"] = files["index"]
           \/ hs["index"] = files["index.old"]
           \/ ~hs["index"].there /\ hs["index.old"] = files["index.old"]
    <2>1. Moved(gs, Rename(gs, "index.old", "index"), "index.old", "index")
      BY <1>4, Renamed, FileNames
    <2>2. hs = gs \/ Moved(gs, hs, "index.old", "index")
      BY <1>2, <2>1
    <2>3. files["index.old"].there
      BY <1>1 DEF OldIndex
    <2> QED BY <1>4, <2>2, <2>3, FileNames DEF Moved
  <1>6. /\ files["serial"].there /\ files["serial"].num = cert.serial + 1
        /\ \A f \in {"index", "index.old"} :
             files[f].there /\ delivered \subseteq files[f].rows /\ Ahead(cert.serial + 1, files[f].rows)
    <2>1. \A r \in files["index.old"].rows : r.serial \in Nat
      BY <1>1 DEF File, Content, Row
    <2>2. Ahead(cert.serial + 1, files["index.old"].rows)
      BY <1>1, <2>1 DEF OldIndex, Ahead
    <2> QED BY <1>1, <2>2 DEF NewSerial, OldIndex, NewIndex, Fresh
  <1> QED BY <1>5, <1>6 DEF Safe

\* The index becomes index.old, index.new becomes the index, and the attr file
\* follows.
LEMMA RotateIndexStep ==
    ASSUME IInv, rotate_index
    PROVE  IInv'
  <1> DEFINE undo(fs) == Undo2(fs, "index", "index.new", "index.old", "index")
             ended == UNION {undo(fs) : fs \in Undo1(files, "attr.old", "attr")}
  <1>1. files \in [File -> Content]
    BY DEF IInv, TypeOK
  <1>2. CASE Step("rotate_index", "index", "index.old", "index.new", {files})
    <2>1. CASE Abort({files})
      BY <1>1, <2>1, AbortKeeps, PlaceIsSafe
    <2>2. CASE Goes("index.new") /\ files' = Rename(files, "index", "index.old")
      <3>1. /\ pc = "rotate_index" /\ Fresh /\ NewSerial("serial") /\ OldIndex("index")
            /\ NewIndex("index.new") /\ files["index"].there
        BY <1>2, StepCases DEF IInv, Place, OldIndex
      <3>2. /\ files' \in [File -> Content] /\ ~files'["index"].there
            /\ files'["index.old"] = files["index"] /\ files'["index.new"] = files["index.new"]
            /\ files'["serial"] = files["serial"]
        <4>1. Moved(files, files', "index", "index.old")
          BY <1>1, <2>2, Renamed, FileNames
        <4> QED BY <3>1, <4>1, FileNames DEF Moved
      <3>3. TypeOK'
        BY <2>2, <3>2, GoesType DEF PC
      <3>4. /\ Fresh' /\ NewSerial("serial")' /\ OldIndex("index.old")' /\ NewIndex("index.new")'
        BY <2>2, <3>1, <3>2, Keeps
      <3> QED BY <2>2, <3>2, <3>3, <3>4 DEF IInv, Place, Goes
    <2> QED BY <1>2, <2>1, <2>2, StepCases
  <1>3. CASE Step("index.new", "index.new", "index", "attr", Undo1(files, "index.old", "index"))
    <2>1. /\ pc = "index.new" /\ Fresh /\ NewSerial("serial") /\ OldIndex("index.old")
          /\ NewIndex("index.new") /\ files["index.old"].there /\ files["index.new"].there
          /\ cert.serial \in Nat
      BY <1>3, StepCases DEF IInv, Place, OldIndex, NewIndex, TypeOK, Row
    <2>2. CASE Abort(Undo1(files, "index.old", "index"))
      <3> DEFINE gs == Rename(files, "index.old", "index")
      <3>1. /\ gs \in [File -> Content] /\ gs["index"] = files["index.old"]
            /\ gs["serial"] = files["serial"]
        <4>1. Moved(files, gs, "index.old", "index")
          BY <1>1, Renamed, FileNames
        <4> HIDE DEF gs
        <4> QED BY <2>1, <4>1, FileNames DEF Moved
      <3> HIDE DEF gs
      <3>2. \A r \in files["index.old"].rows : r.serial \in Nat
        BY <1>1 DEF File, Content, Row
      <3>3. Ahead(cert.serial + 1, files["index.old"].rows)
        BY <2>1, <3>2 DEF OldIndex, Ahead
      <3>4. Safe(gs)
        BY <2>1, <3>1, <3>3 DEF Safe, NewSerial, OldIndex
      <3> QED BY <1>1, <2>2, <3>1, <3>4, AbortKeeps, PlaceIsSafe DEF Undo1, gs
    <2>3. CASE Goes("attr") /\ files' = Rename(files, "index.new", "index")
      <3>1. /\ files' \in [File -> Content] /\ files'["index"] = files["index.new"]
            /\ files'["index.old"] = files["index.old"] /\ files'["serial"] = files["serial"]
        <4>1. Moved(files, files', "index.new", "index")
          BY <1>1, <2>3, Renamed, FileNames
        <4> QED BY <2>1, <4>1, FileNames DEF Moved
      <3>2. TypeOK'
        BY <2>3, <3>1, GoesType DEF PC
      <3>3. Fresh' /\ NewSerial("serial")' /\ OldIndex("index.old")' /\ NewIndex("index")'
        BY <2>1, <2>3, <3>1, Keeps
      <3> QED BY <2>3, <3>2, <3>3 DEF IInv, Place, Goes
    <2> QED BY <1>3, <2>2, <2>3, StepCases
  <1>4. CASE \/ Step("attr", "attr", "attr.old", "attr.new", undo(files))
             \/ Step("attr.new", "attr.new", "attr", "pkcs7", ended)
    <2>1. /\ pc \in {"attr", "attr.new"} /\ Fresh /\ NewSerial("serial")
          /\ OldIndex("index.old") /\ NewIndex("index")
      BY <1>4, StepCases DEF IInv, Place
    <2>2. CASE Abort(undo(files))
      <3> HIDE DEF undo
      <3>1. \A hs \in undo(files) : hs \in [File -> Content] /\ Safe(hs)
        BY <1>1, <2>1, UndoIsSafe DEF undo
      <3> QED BY <2>2, <3>1, AbortKeeps
    <2>3. CASE Abort(ended)
      <3>1. ASSUME NEW fs \in Undo1(files, "attr.old", "attr"), NEW hs \in undo(fs)
            PROVE  hs \in [File -> Content] /\ Safe(hs)
        <4>1. /\ fs \in [File -> Content]
              /\ \A f \in {"serial", "index", "index.old"} : fs[f] = files[f]
          <5>1. Moved(files, Rename(files, "attr.old", "attr"), "attr.old", "attr")
            BY <1>1, Renamed, FileNames
          <5>2. fs = files \/ Moved(files, fs, "attr.old", "attr")
            BY <5>1 DEF Undo1
          <5> QED BY <1>1, <5>2, FileNames DEF Moved
        <4> QED BY <2>1, <4>1, UndoIsSafe
      <3> HIDE DEF undo
      <3>2. \A hs \in ended : hs \in [File -> Content] /\ Safe(hs)
        BY <3>1
      <3> HIDE DEF ended
      <3> QED BY <2>3, <3>2, AbortKeeps
    <2>4. ASSUME NEW a \in {"attr", "attr.new"}, NEW b \in {"attr", "attr.old"}, a # b,
                 NEW next \in {"attr.new", "pkcs7"}, Goes(next), files' = Rename(files, a, b)
          PROVE  IInv'
      <3>1. /\ files' \in [File -> Content] /\ files'["index"] = files["index"]
            /\ files'["index.old"] = files["index.old"] /\ files'["serial"] = files["serial"]
        <4>1. a \in File /\ b \in File
          BY FileNames
        <4>2. Moved(files, files', a, b)
          BY <1>1, <2>4, <4>1, Renamed
        <4> QED BY <4>2, FileNames DEF Moved
      <3>2. TypeOK'
        BY <2>4, <3>1, GoesType DEF PC
      <3>3. Fresh' /\ NewSerial("serial")' /\ OldIndex("index.old")' /\ NewIndex("index")'
        BY <2>1, <2>4, <3>1, Keeps
      <3> QED BY <2>4, <3>2, <3>3 DEF IInv, Place, Goes
    <2> HIDE DEF undo, ended
    <2> QED BY <1>4, <2>2, <2>3, <2>4, StepCases
  <1> QED BY <1>2, <1>3, <1>4 DEF rotate_index

\* The certificate handed out is in the index, and the serial number is ahead.
LEMMA DeliverStep ==
    ASSUME IInv, ossl_get_certs_pkcs7
    PROVE  IInv'
  <1>1. /\ pc = "pkcs7" /\ Fresh /\ NewSerial("serial") /\ NewIndex("index")
        /\ files \in [File -> Content]
    BY DEF ossl_get_certs_pkcs7, IInv, Place, TypeOK
  <1>2. CASE Abort({files})
    BY <1>1, <1>2, AbortKeeps, PlaceIsSafe
  <1>3. CASE /\ delivered' = delivered \cup {cert} /\ pc' = "idle"
             /\ UNCHANGED <<files, cert, db, signed, faults>>
    <2>1. TypeOK'
      BY <1>3 DEF IInv, TypeOK, PC
    <2>2. Safe(files)'
      BY <1>1, <1>3 DEF Safe, Fresh, NewSerial, NewIndex, Ahead
    <2> QED BY <1>3, <2>1, <2>2 DEF IInv, Place
  <1> QED BY <1>2, <1>3 DEF ossl_get_certs_pkcs7

\* The invariant holds at the start.
LEMMA InitHolds == Init => IInv
  <1> SUFFICES ASSUME Init PROVE IInv
    OBVIOUS
  <1>1. /\ Number(FirstSerial) \in Content /\ Number(FirstSerial).there
        /\ Rows({}) \in Content /\ Rows({}).there /\ Rows({}).rows = {}
        /\ Number(1) \in Content /\ NoFile \in Content
    BY Contents, CaAssumption
  <1>2. /\ files \in [File -> Content] /\ files["serial"] = Number(FirstSerial)
        /\ files["index"] = Rows({})
    BY <1>1 DEF Init, File
  <1>3. signed \in 0..MaxSigned /\ faults \in 0..MaxFaults
    <2>1. signed = 0 /\ faults = 0
      BY DEF Init
    <2> QED BY <2>1, CaAssumption
  <1>4. TypeOK
    BY <1>2, <1>3 DEF Init, TypeOK, PC, Row
  <1>5. Safe(files)
    BY <1>1, <1>2 DEF Init, Safe, Ahead
  <1> QED BY <1>4, <1>5 DEF IInv, Place, Init

\* Every step of an enrollment, and a crash at any of them, keeps it.
LEMMA NextHolds == IInv /\ [Next]_vars => IInv'
  <1> SUFFICES ASSUME IInv, [Next]_vars PROVE IInv'
    OBVIOUS
  <1>1. CASE Crash
    <2>1. Abort({files}) /\ files \in [File -> Content]
      BY <1>1 DEF Crash, IInv, TypeOK
    <2> QED BY <2>1, AbortKeeps, PlaceIsSafe
  <1>2. CASE UNCHANGED vars
    <2>1. TypeOK'
      BY <1>2 DEF vars, IInv, TypeOK
    <2>2. Place'
      BY <1>2 DEF vars, IInv, Place, Safe, Fresh, Insertable, Ahead,
                  OldSerial, NewSerial, OldIndex, NewIndex
    <2> QED BY <2>1, <2>2 DEF IInv
  <1> QED
    BY <1>1, <1>2, CertifyStep, SaveStep, RotateSerialStep, RotateIndexStep, DeliverStep DEF Next

-----------------------------------------------------------------------------
(* The theorems *)

\* ossl_simple_enroll keeps every file and variable in its type.
THEOREM TypeCorrect == Spec => []TypeOK
  <1>1. IInv => TypeOK
    BY DEF IInv
  <1> QED BY InitHolds, NextHolds, <1>1, PTL DEF Spec

\* Whatever crashes and fails between the renames of rotate_serial and
\* rotate_index, the serial file is ahead of the index, a certificate that was
\* handed out is recorded, and the old serial file can be restored.
THEOREM FilesAreSafe == Spec => [](SerialIsAhead /\ DeliveredIsRecorded)
  <1>1. IInv => SerialIsAhead /\ DeliveredIsRecorded
    <2> SUFFICES ASSUME Safe(files) PROVE SerialIsAhead /\ DeliveredIsRecorded
      BY PlaceIsSafe
    <2> QED BY DEF Safe, Ahead, SerialIsAhead, DeliveredIsRecorded
  <1> QED BY InitHolds, NextHolds, <1>1, PTL DEF Spec

\* Whatever crashes and fails, ossl_simple_enroll hands out no serial number
\* twice and, with unique_subject, no subject twice.
THEOREM Refines == Spec => ImplementsCertAuthority
  <1>1. Init => CA!Init
    BY DEF Init, CA!Init
  <1>2. IInv /\ [Next]_vars => [CA!Next]_delivered
    <2> SUFFICES ASSUME IInv, Next, delivered' # delivered PROVE CA!Next
      BY DEF vars
    <2>1. pc = "pkcs7" /\ delivered' = delivered \cup {cert}
      BY DEF Next, Certify, save_serial, save_index, rotate_serial, rotate_index, Step,
             ossl_get_certs_pkcs7, Crash, Abort
    <2>2. cert \in Row /\ Insertable(delivered, cert)
      BY <2>1 DEF IInv, TypeOK, Place, Fresh
    <2>3. cert \in delivered' \ delivered
      BY <2>1
    <2> QED BY <2>1, <2>2, <2>3 DEF CA!Next, CA!Issue, CA!Certificate, Row, Insertable
  <1> QED BY InitHolds, NextHolds, <1>1, <1>2, PTL DEF Spec, ImplementsCertAuthority, CA!Spec
=============================================================================
