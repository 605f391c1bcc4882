------------------------------ MODULE MCEstClient ------------------------------
(***************************************************************************)
(* Instances of EstClient for TLC.                                         *)
(***************************************************************************)
EXTENDS EstClient, TLC

CONSTANTS r1, r2

\* Two hosts of one domain, and an address.
www == [ip |-> FALSE, name |-> <<<<"w", "w">>, <<"e">>, <<"x">>>>]
wap == [ip |-> FALSE, name |-> <<<<"w">>, <<"E">>, <<"x">>>>]
addr == [ip |-> TRUE, name |-> <<<<"1">>, <<"2">>>>]

MCHosts == {www, wap, addr}

Dns(name) == [kind |-> "dns", name |-> name]

\* The servers that answer: one for www and the address, one with a wildcard
\* that covers www and not wap, one with only a common name under another
\* root, one with a chain OpenSSL finds no CRL for, one without a certificate.
wild == <<<<"w", "*">>, <<"e">>, <<"x">>>>
MCPeers == {
    [cert |-> TRUE, root |-> r1, error |-> "OK", cn |-> <<wap.name>>,
     alts |-> <<[kind |-> "other", name |-> <<>>], Dns(www.name),
                [kind |-> "ip", name |-> addr.name]>>],
    [cert |-> TRUE, root |-> r1, error |-> "UNABLE_TO_GET_CRL", cn |-> <<>>,
     alts |-> <<Dns(wild)>>],
    [cert |-> TRUE, root |-> r2, error |-> "OK", cn |-> <<www.name, wap.name>>, alts |-> <<>>],
    [cert |-> FALSE, root |-> r2, error |-> "OK", cn |-> <<>>, alts |-> <<>>]}

App(hosts, calls) ==
    [fips |-> FALSE, enable_srp |-> FALSE, use_proxy |-> FALSE, manual_cert_verify_cb |-> NULL,
     userid |-> TRUE, auth_credentials_cb |-> TRUE, root |-> r1, hosts |-> hosts, calls |-> calls]

\* Applications: one that asks for the attributes and enrolls its own CSR; one
\* that moves between servers, with SRP and a callback that approves untrusted
\* chains; one in FIPS mode behind a proxy, without credentials; one that
\* provisions and starts afresh with the anchors it got; two that have the
\* server generate keys.
MCDeployments == {
    App({www}, {"csrattrs", "enroll_csr", "reenroll", "force_pop"}),
    [App({www, wap, addr}, {"enroll_signed", "set_server"}) EXCEPT
        !.enable_srp = TRUE, !.userid = FALSE,
        !.manual_cert_verify_cb = [CERT_UNTRUSTED |-> TRUE, SELF_SIGNED_CERT_IN_CHAIN |-> TRUE,
                                   UNABLE_TO_GET_CRL |-> FALSE]],
    [App({addr}, {"enroll", "set_auth", "basic_auth_hint", "cacerts", "copy_cacerts"}) EXCEPT
        !.fips = TRUE, !.use_proxy = TRUE, !.userid = FALSE, !.auth_credentials_cb = FALSE],
    App({www}, {"provision", "init"}),
    [App({wap}, {"keygen", "reenroll", "copy_enrolled_cert", "copy_retry_after"}) EXCEPT !.root = r2],
    App({www, wap}, {"keygen_csr", "copy_key", "set_server"})}

\* An application that provisions its context.
ProvisionDeployments == {App({www}, {"provision"})}

MCAddressLists == {<<>>, <<"no_socket">>, <<"refuses">>, <<"refuses", "no_socket", "connects">>}

--------------------------------------------------------------------------------
key1 == <<"k1", "k2">>
cert1 == <<"c1", "c2">>
key2 == <<"j1", "j2">>
cert2 == <<"d1", "d2">>
MCKeyPairs == {[key |-> key1, cert |-> cert1], [key |-> key2, cert |-> cert2]}

NoChallenge == [scheme |-> "absent", tokens |-> <<>>, meant |-> "NONE"]
Token(name, value) == [name |-> name, value |-> value]
Challenges == {
    NoChallenge,
    [scheme |-> "Basic", tokens |-> <<Token("realm", "ok")>>, meant |-> "BASIC"],
    [scheme |-> "Digest", tokens |-> <<Token("realm", "ok"), Token("algorithm", "MD5")>>,
     meant |-> "DIGEST"],
    [scheme |-> "Digest", tokens |-> <<Token("algorithm", "unsupported")>>, meant |-> "NONE"],
    [scheme |-> "Bearer", tokens |-> <<Token("realm", "ok")>>, meant |-> "TOKEN"],
    [scheme |-> "Negotiate", tokens |-> <<>>, meant |-> "NONE"]}

\* CA certificates: a root and an issuer below it, in any order; the issuer's
\* certificate forged; an issuer whose root is missing before a root.
Cert(subject, issuer, good) == [subject |-> subject, issuer |-> issuer, good |-> good]
Chain(root, certs, crls) == [pkcs7 |-> "certs", root |-> root, certs |-> certs, crls |-> crls]
NoChain == [pkcs7 |-> "garbage", root |-> r1, certs |-> <<>>, crls |-> FALSE]
Chains == {
    NoChain, [NoChain EXCEPT !.pkcs7 = "no_certs"],
    Chain(r2, <<Cert("sub", "ca", TRUE), Cert("leaf", "sub", TRUE), Cert("ca", "ca", TRUE)>>, TRUE),
    Chain(r1, <<Cert("sub", "ca", FALSE), Cert("ca", "ca", TRUE)>>, FALSE),
    Chain(r1, <<Cert("sub", "no", TRUE), Cert("ca", "ca", TRUE)>>, FALSE)}

Good == [empty |-> FALSE, status |-> 200, www |-> NoChallenge, after |-> "absent", secs |-> 0,
         ct |-> "expected", has_cl |-> TRUE, cl |-> 2, body |-> cert1, multi |-> "absent",
         boundary |-> <<>>, chain |-> NoChain, attrs |-> [valid |-> TRUE, pop |-> FALSE]]

\* Whole answers, and answers that cannot be used: cut short, without headers,
\* too long, with a status that carries no content.
MCAnswers ==
    {[Good EXCEPT !.chain = c] : c \in Chains}
    \cup {[Good EXCEPT !.attrs.pop = TRUE], [Good EXCEPT !.attrs = [valid |-> FALSE, pop |-> TRUE]],
          [Good EXCEPT !.empty = TRUE], [Good EXCEPT !.body = <<"c1">>],
          [Good EXCEPT !.ct = "other"], [Good EXCEPT !.has_cl = FALSE], [Good EXCEPT !.cl = -1],
          [Good EXCEPT !.cl = 0, !.body = <<>>],
          [Good EXCEPT !.cl = 3, !.body = <<"c1", "c2", "c3">>],
          [Good EXCEPT !.cl = 5, !.body = <<"c1", "c2", "c3", "c4", "c5">>]}
    \cup {[Good EXCEPT !.status = s] : s \in {204, 400, 404, 423, 500, -1}}
    \cup {[Good EXCEPT !.status = 401, !.www = c] : c \in Challenges}
    \cup {[Good EXCEPT !.status = 202, !.after = "digits", !.secs = n] : n \in {1, 2}}
    \cup {[Good EXCEPT !.status = 202, !.after = "date"]}

\* Answers to a key generation: the parts in both orders, with parts that do
\* not belong together or lack a header, and every beginning of the first.
Part(ct, data) ==
    <<"-", "-", "B", "CR", "LF", "CT", ":", " ", ct, "CR", "LF",
      "CTE", ":", " ", "b64", "CR", "LF", "CR", "LF">> \o data \o <<"CR", "LF">>
End == <<"-", "-", "B", "-", "-">>
Untyped == <<"-", "-", "B", "CR", "LF", "CTE", ":", "b64", "CR", "LF", "CR", "LF">>
               \o cert1 \o <<"CR", "LF">>
Whole == Part("p8", key1) \o Part("p7", cert1) \o End
Bodies ==
    {Part("p7", cert2) \o Part("p8", key2) \o End,
     Part("p8", key1) \o Part("p7", cert2) \o End,
     Part("p8", key1) \o Part("text", cert1) \o End,
     Part("p8", key1) \o Part("p7", <<" ", " ">>) \o End,
     Part("p8", <<"k1">>) \o Part("p7", cert1) \o End,
     Part("p8", key1) \o Untyped \o End,
     Part("p8", key1) \o Untyped \o Part("p7", cert1) \o End}
    \cup {SubSeq(Whole, 1, n) : n \in 3..Len(Whole)}

Boundaries == {<<"B">>, <<"QUOTE", "B", "QUOTE", " ", ";", "x">>, <<>>, <<"*", "B">>,
               <<"B", "B", "B", "B">>}

Mixed(body) == [Good EXCEPT !.multi = "mixed", !.boundary = <<"B">>, !.body = body]
MCKeygenAnswers ==
    {Mixed(b) : b \in Bodies}
    \cup {[Mixed(Whole) EXCEPT !.boundary = b] : b \in Boundaries}
    \cup {Good, [Good EXCEPT !.multi = "other"]}
    \cup {[Good EXCEPT !.status = 401, !.www = c] : c \in Challenges}
    \cup {[Good EXCEPT !.status = 202, !.after = "digits", !.secs = 1]}

MCArguments == {"none", "NO_KEY", "NO_CERT", "NO_CSR", "BAD_X509", "CLIENT_INVALID_KEY",
                "INVALID_PARAMETERS"}
================================================================================
