------------------------------- MODULE HostCheck -------------------------------
(***************************************************************************)
(* The check of the server's certificate against the configured server     *)
(* name, in src/src/est/est_client.c (est_client_check_fqdn and what it    *)
(* calls).  A name is a sequence of labels, a label a sequence of          *)
(* characters; the dots stand between the labels.  A host is a name and    *)
(* the fact that inet_pton takes it for an address.  A certificate has     *)
(* alternative names ([kind, name], in order) and common names.            *)
(***************************************************************************)
EXTENDS Naturals, Sequences, SequencesExt

(***************************************************************************)
(* The letters the instances use, with their capitals.                     *)
(***************************************************************************)
Capital == [a |-> "A", e |-> "E", w |-> "W", x |-> "X"]

est_client_Curl_raw_toupper(c) == IF c \in DOMAIN Capital THEN Capital[c] ELSE c

(***************************************************************************)
(* Equality of two strings without regard to case, and of their first max  *)
(* characters.                                                             *)
(***************************************************************************)
UpperLabel(l) == [i \in DOMAIN l |-> est_client_Curl_raw_toupper(l[i])]

est_client_Curl_raw_equal(first, second) ==
    /\ Len(first) = Len(second)
    /\ \A i \in DOMAIN first : UpperLabel(first[i]) = UpperLabel(second[i])

est_client_Curl_raw_nequal(first, second, max) ==
    \A i \in 1..max : /\ i <= Len(first) /\ i <= Len(second)
                      /\ UpperLabel(first)[i] = UpperLabel(second)[i]

(***************************************************************************)
(* pattern_wildcard: the label and the place of the first '*'.             *)
(***************************************************************************)
HasWildcard(name) == \E i \in DOMAIN name : Contains(name[i], "*")
WildcardPlace(label) == SelectInSeq(label, LAMBDA c : c = "*")

(***************************************************************************)
(* wildcard_enabled: two dots at least, the '*' in the leftmost label, and *)
(* no internationalised label.                                             *)
(***************************************************************************)
WildcardEnabled(pattern) ==
    /\ Len(pattern) >= 3
    /\ Contains(pattern[1], "*")
    /\ ~ est_client_Curl_raw_nequal(pattern[1], <<"x", "n", "-", "-">>, 4)

(***************************************************************************)
(* "The wildcard must match at least one character": the leftmost label of *)
(* the host is at least as long as that of the pattern.                    *)
(***************************************************************************)
WildcardMatchesSome(p, h) == Len(h) >= Len(p)

est_client_hostmatch(host, pattern) ==
    IF ~ HasWildcard(pattern) THEN est_client_Curl_raw_equal(pattern, host.name)
    ELSE IF host.ip THEN FALSE
    ELSE IF ~ WildcardEnabled(pattern)
         THEN est_client_Curl_raw_equal(pattern, host.name)
    ELSE LET p == pattern[1]
             h == host.name[1]
             prefixlen == WildcardPlace(p) - 1
             suffixlen == Len(p) - WildcardPlace(p)
         IN /\ Len(host.name) >= 2
            /\ est_client_Curl_raw_equal(Tail(pattern), Tail(host.name))
            /\ WildcardMatchesSome(p, h)
            /\ est_client_Curl_raw_nequal(p, h, prefixlen)
            /\ est_client_Curl_raw_nequal(SubSeq(p, prefixlen + 2, Len(p)),
                                          SubSeq(h, Len(h) - suffixlen + 1, Len(h)),
                                          suffixlen)

est_client_cert_hostcheck(pattern, host) ==
    /\ pattern # <<>>
    /\ \/ est_client_Curl_raw_equal(host.name, pattern)
       \/ est_client_hostmatch(host, pattern)

(***************************************************************************)
(* The loop over the alternative names: it ends at the first match (1);    *)
(* the last DNS or IP name that did not match leaves 0, and names of other *)
(* kinds leave "matched" as it was, -1 at first.                           *)
(***************************************************************************)
AltMatches(host, alt) ==
    \/ alt.kind = "dns" /\ est_client_cert_hostcheck(alt.name, host)
    \/ alt.kind = "ip" /\ host.ip /\ alt.name = host.name

AltResult(host, alts) ==
    FoldLeft(LAMBDA matched, alt : IF matched = 1 \/ alt.kind = "other" THEN matched
                                   ELSE IF AltMatches(host, alt) THEN 1 ELSE 0,
             2, alts)

(***************************************************************************)
(* est_client_verifyhost: the alternative names decide if there are any of *)
(* the two kinds, else the last common name does.  (2 stands for -1.)      *)
(***************************************************************************)
est_client_verifyhost(host, cert) ==
    CASE AltResult(host, cert.alts) = 1 -> "NONE"
      [] AltResult(host, cert.alts) = 0 -> "FQDN_MISMATCH"
      [] OTHER -> IF cert.cn # <<>> /\ est_client_cert_hostcheck(Last(cert.cn), host)
                  THEN "NONE" ELSE "FQDN_MISMATCH"

--------------------------------------------------------------------------------
(***************************************************************************)
(* The reference: the rules of RFC 6125 (6.4.3) and RFC 2818 (3.1) that    *)
(* the comments before est_client_hostmatch and est_client_verifyhost      *)
(* quote, stated without the code's positions and lengths.  A wildcard     *)
(* stands for one fragment or more of the leftmost label and nothing else. *)
(***************************************************************************)
SameLabel(l, m) == UpperLabel(l) = UpperLabel(m)
SameName(n, m) == Len(n) = Len(m) /\ \A i \in DOMAIN n : SameLabel(n[i], m[i])

LabelStandsFor(p, h) ==
    \E i \in DOMAIN p, from \in DOMAIN h : \E to \in from..Len(h) :
       /\ p[i] = "*" /\ \A j \in 1..(i - 1) : p[j] # "*"
       /\ SameLabel(SubSeq(p, 1, i - 1), SubSeq(h, 1, from - 1))
       /\ SameLabel(SubSeq(p, i + 1, Len(p)), SubSeq(h, to + 1, Len(h)))

Names(pattern, host) ==
    \/ SameName(pattern, host.name)
    \/ /\ ~ host.ip
       /\ Len(pattern) >= 3 /\ Len(host.name) = Len(pattern)
       /\ Len(pattern[1]) < 4 \/ SubSeq(UpperLabel(pattern[1]), 1, 4) # <<"X", "n", "-", "-">>
       /\ LabelStandsFor(pattern[1], host.name[1])
       /\ \A i \in 2..Len(pattern) : SameLabel(pattern[i], host.name[i])

Identifies(cert, host) ==
    LET known == {i \in DOMAIN cert.alts : cert.alts[i].kind # "other"}
        named(i) == IF cert.alts[i].kind = "dns" THEN Names(cert.alts[i].name, host)
                    ELSE host.ip /\ cert.alts[i].name = host.name
    IN IF known # {} THEN \E i \in known : named(i)
       ELSE cert.cn # <<>> /\ Names(Last(cert.cn), host)
================================================================================
