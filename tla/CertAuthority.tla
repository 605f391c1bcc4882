-------------------------- MODULE CertAuthority --------------------------
(***************************************************************************)
(* What a certificate authority promises to the EST server: certificates   *)
(* are handed out one at a time, no two of them have the same serial       *)
(* number and, when subjects are unique, no two have the same subject.     *)
(* CaDatabase is shown to implement it in spite of crashes.                *)
(***************************************************************************)
EXTENDS Naturals

CONSTANTS
    Names,      \* subject names
    Unique      \* subjects are unique

VARIABLE
    issued      \* the certificates handed out: [serial, name]

Init == issued = {}

Certificate == [serial : Nat, name : Names]

\* A certificate that clashes with none handed out before is added to them.
Issue(c) ==
    /\ c \in Certificate
    /\ \A d \in issued : d.serial # c.serial /\ (Unique => d.name # c.name)
    /\ issued' = issued \cup {c}

Next == \E c \in issued' \ issued : Issue(c)

Spec == Init /\ [][Next]_issued
=============================================================================
