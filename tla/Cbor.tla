-------------------------------- MODULE Cbor --------------------------------
(***************************************************************************)
(* The payload of an enrollment answered over CoAP: the base64 decoding of *)
(* what the CA returned (est_base64_decode, src/est/est.c) and the CBOR    *)
(* frame that holds a generated key and its certificate                    *)
(* (src/est/est_server_coap.c).                                            *)
(*                                                                         *)
(* A buffer is a sequence of items: a byte that the code writes, or a key  *)
(* or certificate of n bytes copied as a whole.                            *)
(***************************************************************************)
EXTENDS Integers, Sequences, SequencesExt

COAP_REQ_NODE_BUF_LEN_MAX == 16384
KEY_CONTENT_FORMAT_IDENTIFIER == 284
CERT_CONTENT_FORMAT_IDENTIFIER == 281

Item == [kind : {"byte", "key", "cert"}, n : Nat]
Byte(b) == [kind |-> "byte", n |-> b]
Data(kind, len) == [kind |-> kind, n |-> len]

Min2(a, b) == IF a < b THEN a ELSE b
DivUp(a, b) == (a + b - 1) \div b

\* The length of len bytes in base64.
Encoded(len) == 4 * DivUp(len, 3)

\* What est_base64_decode returns for the base64 text of len bytes and room
\* for dst_size: the number of bytes, or 0 for an error.  The first check
\* compares groups of four characters, BIO_read stops at dst_size.
est_base64_decode(len, dst_size) ==
    IF Encoded(len) > Encoded(dst_size) \/ Min2(len, dst_size) # len
    THEN 0 ELSE len

\* Mutant: lengths up to 24 are put into the initial byte.
SmallUpTo24(len) ==
    IF len <= 24 THEN [initial_byte |-> 64 + len, n_length |-> 0]
    ELSE IF len <= 255 THEN [initial_byte |-> 88, n_length |-> 1]
    ELSE [initial_byte |-> 89, n_length |-> 2]

makeCborBytestring(len) ==
    CASE len <= 23 -> [initial_byte |-> 64 + len, n_length |-> 0]
      [] len \in 24..255 -> [initial_byte |-> 88, n_length |-> 1]
      [] len \in 256..65535 -> [initial_byte |-> 89, n_length |-> 2]
      [] OTHER -> [initial_byte |-> 90, n_length |-> 4]   \* len is an int

\* The initial byte, the length with its high byte first, and the data.
writeCborBytestring(kind, len) ==
    LET cbor == makeCborBytestring(len)
        k == cbor.n_length
    IN  <<Byte(cbor.initial_byte)>>
        \o [i \in 1..k |-> Byte((len \div 256^(k - i)) % 256)]
        \o <<Data(kind, len)>>

\* A uint16: the content format that follows.
FormatIdentifier(id) == <<Byte(25), Byte(id \div 256), Byte(id % 256)>>

NoFrame == [buf |-> <<>>, len |-> 0]

\* The frame of a key and a certificate with its counted length, or NoFrame
\* when one of them is too long.  The room for the certificate is what the
\* key leaves; it may be negative, and then malloc fails.
KeygenFrame(key_len, cert_len) ==
    LET room(used, len) == Min2(Encoded(len), COAP_REQ_NODE_BUF_LEN_MAX - used)
        key_der_len == est_base64_decode(key_len, room(5, key_len))
        len1 == 5 + makeCborBytestring(key_der_len).n_length + key_der_len + 4
        cert_room == room(len1, cert_len)
        cert_der_len == est_base64_decode(cert_len, cert_room)
        cbor_len == len1 + makeCborBytestring(cert_der_len).n_length + cert_der_len
    IN  IF \/ key_der_len <= 0 \/ cert_room < 0 \/ cert_der_len <= 0
           \/ cbor_len > COAP_REQ_NODE_BUF_LEN_MAX
        THEN NoFrame
        ELSE [buf |-> <<Byte(132)>>
                      \o FormatIdentifier(KEY_CONTENT_FORMAT_IDENTIFIER)
                      \o writeCborBytestring("key", key_der_len)
                      \o FormatIdentifier(CERT_CONTENT_FORMAT_IDENTIFIER)
                      \o writeCborBytestring("cert", cert_der_len),
              len |-> cbor_len]

\* The answer to an enrollment is the certificate alone.
CertFrame(cert_len) ==
    LET len == est_base64_decode(cert_len,
                   Min2(Encoded(cert_len), COAP_REQ_NODE_BUF_LEN_MAX))
    IN  IF len <= 0 THEN NoFrame ELSE [buf |-> <<Data("cert", len)>>, len |-> len]

-----------------------------------------------------------------------------
(* Reference: RFC 8949 as a receiver reads it.                             *)

\* The head of the data item at position i: its major type, its argument and
\* the position after it.
HeadAt(buf, i) ==
    LET info == buf[i].n % 32
        k == IF info < 24 THEN 0 ELSE 2^(info - 24)
        arg[j \in 0..k] == IF j = 0 THEN 0 ELSE arg[j - 1] * 256 + buf[i + j].n
    IN  [major |-> buf[i].n \div 32, next |-> i + k + 1,
         arg |-> IF k = 0 THEN info ELSE arg[k]]

IsByteString(buf, h, kind) ==
    /\ h.major = 2 /\ h.next \in DOMAIN buf
    /\ buf[h.next] = Data(kind, h.arg)

\* buf is an array of four items: 284, the key, 281 and the certificate.
Decodes(buf) ==
    LET array == HeadAt(buf, 1)
        id1 == HeadAt(buf, array.next)
        key == HeadAt(buf, id1.next)
        id2 == HeadAt(buf, key.next + 1)
        cert == HeadAt(buf, id2.next)
    IN  /\ array.major = 4 /\ array.arg = 4
        /\ id1.major = 0 /\ id1.arg = 284
        /\ IsByteString(buf, key, "key")
        /\ id2.major = 0 /\ id2.arg = 281
        /\ IsByteString(buf, cert, "cert") /\ cert.next = Len(buf)

\* The bytes of a buffer on the wire.
WireLength(buf) ==
    FoldLeft(LAMBDA sum, x : sum + (IF x.kind = "byte" THEN 1 ELSE x.n), 0, buf)

\* The bytes a frame needs: five of head and one or more for each length.
LengthBytes(len) == CASE len < 24 -> 0 [] len \in 24..255 -> 1 [] OTHER -> 2
Needs(key_len, cert_len) ==
    9 + LengthBytes(key_len) + key_len + LengthBytes(cert_len) + cert_len
=============================================================================
