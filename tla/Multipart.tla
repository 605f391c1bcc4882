------------------------------- MODULE Multipart -------------------------------
(***************************************************************************)
(* The parser of the multipart answer to a server side key generation:     *)
(* src/src/est/multipart_parser.c and its callbacks in                     *)
(* src/src/est/est_client_http.c.  A body is a sequence of symbols, one    *)
(* for each character the parser tells apart: CR, LF, "-", ":", " ", the   *)
(* boundary "B" (of length 1), a header name ("CT", "CTE", "other"), a     *)
(* header value ("p8", "p7", "b64", "text") and data.  The parser runs in  *)
(* steps, one for each turn of its loop, of which there are at most two    *)
(* for a symbol.                                                           *)
(***************************************************************************)
EXTENDS Naturals, Sequences, SequencesExt

CONSTANTS
    DataMax,    \* MULTIPART_PARSE_DATA_MAX
    MinLen,     \* EST_MIN_CLIENT_PKEY_LEN, EST_MIN_CLIENT_CERT_LEN
    BoundaryMax \* MAX_MULTI_BOUNDARY_LEN

ASSUME MultipartAssumption == DataMax \in Nat /\ MinLen \in Nat /\ BoundaryMax \in Nat

(***************************************************************************)
(* multipart_parser_init.  "name" is the name of the header being read,    *)
(* "hdrs" the headers accepted since the last part, "parsed" the result of *)
(* multipart_parser_execute, or 0 while it runs.  i counts from 1.         *)
(***************************************************************************)
multipart_parser_init ==
    [state |-> "start", i |-> 1, mark |-> 1, seen_headers |-> FALSE,
     num_payloads |-> 0, index |-> 0, name |-> <<>>, hdrs |-> <<>>,
     key |-> <<>>, cert |-> <<>>, running |-> TRUE]

Stop(p) == [p EXCEPT !.running = FALSE]
NextSymbol(p) == [p EXCEPT !.i = @ + 1]
Go(p, state) == NextSymbol([p EXCEPT !.state = state])
SymbolAt(buf, i) == IF i \in DOMAIN buf THEN buf[i] ELSE "NUL"

(***************************************************************************)
(* read_header_name, read_header_value: a value other than the expected    *)
(* ones, or a value of another header, is dropped together with its name.  *)
(***************************************************************************)
multipart_parser_set_hdr_value(p, value) ==
    IF \/ SymbolAt(p.name, 1) = "CT" /\ SymbolAt(value, 1) \in {"p8", "p7"}
       \/ SymbolAt(p.name, 1) = "CTE" /\ SymbolAt(value, 1) = "b64"
    THEN [p EXCEPT !.hdrs = Append(@, [name |-> p.name[1], value |-> value[1]])]
    ELSE p

multipart_get_data(p, name) == \* the last header of that name, or NULL
    LET values == SelectSeq(p.hdrs, LAMBDA h : h.name = name)
    IN IF values = <<>> THEN "NULL" ELSE Last(values).value

multipart_parser_both_key_and_cert_populated(p) == p.key # <<>> /\ p.cert # <<>>

(***************************************************************************)
(* part_data_cb.  Returning other than 0 stops the parser: with both parts *)
(* there, with a part that is only white space, with one that is too long. *)
(***************************************************************************)
IsBlank(data) == \A j \in DOMAIN data : data[j] \in {" ", "CR", "LF"}

(* Mutant: the headers of a part are kept for the next one. *)
KeepHeaders(p) == p

multipart_reset_hdrs(p) == [p EXCEPT !.hdrs = <<>>]

part_data_cb(p, data) ==
    LET ct == multipart_get_data(p, "CT")
        q == IF ct = "p8" THEN [p EXCEPT !.key = data] ELSE [p EXCEPT !.cert = data]
    IN IF ct = "NULL" \/ multipart_get_data(p, "CTE") = "NULL" THEN p
       ELSE IF Len(data) > DataMax \/ IsBlank(data) THEN Stop(p)
       ELSE IF multipart_parser_both_key_and_cert_populated(q) THEN Stop(q)
       ELSE multipart_reset_hdrs(q)

Emit(p, buf, last) == part_data_cb(p, SubSeq(buf, p.mark, last))
IfRunning(p, q) == IF p.running THEN q ELSE p

(***************************************************************************)
(* The states of multipart_parser_execute.                                 *)
(***************************************************************************)
StartBoundary(p, c) ==
    CASE p.index = 1 /\ c = "CR" -> NextSymbol([p EXCEPT !.index = 2])
      [] p.index = 1 /\ c = "-" -> Go([p EXCEPT !.index = 2], "final_hyphen")
      [] p.index = 1 /\ c \notin {"CR", "-"} -> Stop(p)
      [] p.index = 2 /\ c = "LF" ->
            Go([p EXCEPT !.index = 0, !.seen_headers = FALSE], "header_field_start")
      [] p.index = 2 /\ c # "LF" -> Stop(p)
      [] OTHER -> NextSymbol([p EXCEPT !.index = @ + 1])

HeaderField(p, buf, c) ==
    CASE c = "CR" -> Go(p, "headers_almost_done")
      [] c = ":" -> Go([p EXCEPT !.seen_headers = TRUE,
                                 !.name = SubSeq(buf, p.mark, p.i - 1)],
                       "header_value_start")
      [] c \in {" ", "LF", "NUL"} -> Stop(p)
      [] OTHER -> NextSymbol(p)

HeadersAlmostDone(p, c) ==
    IF c # "LF" THEN Stop(p)
    ELSE Go(p, IF p.seen_headers THEN "part_data_start" ELSE "header_field_start")

HeaderValue(p, buf, c) ==
    IF c = "CR"
    THEN Go(multipart_parser_set_hdr_value(p, SubSeq(buf, p.mark, p.i - 1)),
            "header_value_almost_done")
    ELSE NextSymbol(p)

HeaderValueStart(p, buf, c) ==
    IF c = " " THEN NextSymbol(p)
    ELSE HeaderValue([p EXCEPT !.mark = p.i, !.state = "header_value"], buf, c)

HeaderValueAlmostDone(p, buf, c) ==
    CASE c # "LF" -> Stop(p)
      [] c = "LF" /\ SymbolAt(buf, p.i + 1) = "-" ->
            [p EXCEPT !.state = "start_boundary", !.i = @ + 3]
      [] OTHER -> Go(p, "header_field_start")

PartData(p, buf, c) ==
    CASE c = "CR" /\ "-" \in {SymbolAt(buf, p.i + 1), SymbolAt(buf, p.i + 2)} ->
            LET q == Emit([p EXCEPT !.num_payloads = @ + 1], buf, p.i - 1)
            IN IfRunning(q, Go([q EXCEPT !.mark = p.i], "almost_boundary"))
      [] p.i = Len(buf) -> LET q == Emit(p, buf, p.i) IN IfRunning(q, NextSymbol(q))
      [] OTHER -> NextSymbol(p)

PartDataAlmostBoundary(p, c) ==
    IF c = "LF"
    THEN [p EXCEPT !.index = 0, !.i = @ + 3,
                   !.state = IF p.num_payloads = 2 THEN "boundary" ELSE "start_boundary"]
    ELSE LET q == part_data_cb(p, <<"CR">>)
         IN IfRunning(q, [q EXCEPT !.state = "part_data", !.mark = p.i])

PartDataBoundary(p, c) ==
    IF c # "B"
    THEN LET q == part_data_cb(p, <<"CR", "LF">>)
         IN IfRunning(q, [q EXCEPT !.state = "header_field_start", !.mark = p.i])
    ELSE Go([p EXCEPT !.index = 1], "almost_end")

PartDataEnd(p, c) ==
    CASE p.state = "almost_end" /\ c = "-" -> Go(p, "final_hyphen")
      [] p.state = "almost_end" /\ c = "CR" -> Go(p, "part_data_end")
      [] p.state = "final_hyphen" /\ c = "-" -> Go(p, "end")
      [] p.state = "part_data_end" /\ c = "LF" -> Go(p, "header_field_start")
      [] p.state = "end" -> NextSymbol(p)
      [] OTHER -> Stop(p)

ParserStep(p, buf) ==
    LET c == buf[p.i]
    IN CASE p.state = "start" ->
                StartBoundary([p EXCEPT !.index = 0, !.state = "start_boundary"], c)
         [] p.state = "start_boundary" -> StartBoundary(p, c)
         [] p.state = "header_field_start" ->
                HeaderField([p EXCEPT !.mark = p.i, !.state = "header_field"], buf, c)
         [] p.state = "header_field" -> HeaderField(p, buf, c)
         [] p.state = "headers_almost_done" -> HeadersAlmostDone(p, c)
         [] p.state = "header_value_start" -> HeaderValueStart(p, buf, c)
         [] p.state = "header_value" -> HeaderValue(p, buf, c)
         [] p.state = "header_value_almost_done" -> HeaderValueAlmostDone(p, buf, c)
         [] p.state = "part_data_start" ->
                PartData([p EXCEPT !.mark = p.i, !.state = "part_data"], buf, c)
         [] p.state = "part_data" -> PartData(p, buf, c)
         [] p.state = "almost_boundary" -> PartDataAlmostBoundary(p, c)
         [] p.state = "boundary" -> PartDataBoundary(p, c)
         [] OTHER -> PartDataEnd(p, c)

\* The loop, in blocks of ten turns to keep the folds short.
TenTurns(p, buf) ==
    FoldLeft(LAMBDA q, n : IF q.running /\ q.i <= Len(buf) THEN ParserStep(q, buf) ELSE q,
             p, [n \in 1..10 |-> n])

(***************************************************************************)
(* multipart_parser_execute skips the hyphens at the start of the buffer   *)
(* without shortening it: that many NUL characters follow the body.        *)
(***************************************************************************)
multipart_parser_execute(body) ==
    LET skip == CHOOSE n \in 0..Len(body) :
                    SymbolAt(body, n + 1) # "-" /\ \A j \in 1..n : body[j] = "-"
        buf == [j \in DOMAIN body |-> SymbolAt(body, j + skip)]
    IN FoldLeft(LAMBDA p, n : IF p.running THEN TenTurns(p, buf) ELSE p,
                multipart_parser_init, [n \in 1..(Len(buf) \div 5 + 1) |-> n])

(***************************************************************************)
(* parse_remaining_multipart_payload and the checks of                     *)
(* est_io_get_response_internal on the two payloads.                       *)
(***************************************************************************)
NoPayload(rv) == [rv |-> rv, key |-> <<>>, cert |-> <<>>]

Payloads(p) ==
    IF ~ multipart_parser_both_key_and_cert_populated(p)
    THEN NoPayload(IF p.running THEN "ZERO_LENGTH_BUF" ELSE "MULTIPART_PARSE")
    ELSE IF Len(p.key) < MinLen \/ Len(p.cert) < MinLen
    THEN NoPayload("ZERO_LENGTH_BUF")
    ELSE [rv |-> "NONE", key |-> p.key, cert |-> p.cert]

parse_remaining_multipart_payload(body) == Payloads(multipart_parser_execute(body))

(***************************************************************************)
(* The boundary parameter of the Content-Type header, up to the end of the *)
(* line: what follows a ';' is cut off, then spaces at the end, then a     *)
(* pair of quotes.                                                         *)
(***************************************************************************)
sanitize_boundary(b) ==
    LET semi == SelectInSeq(b, LAMBDA c : c = ";")
        cut == IF semi = 0 THEN b ELSE SubSeq(b, 1, semi - 1)
        end == CHOOSE n \in 0..Len(cut) :
                   /\ \A j \in (n + 1)..Len(cut) : cut[j] = " "
                   /\ n > 0 => cut[n] # " "
        bare == SubSeq(cut, 1, end)
    IN IF Len(bare) >= 2 /\ bare[1] = "QUOTE" /\ Last(bare) = "QUOTE"
       THEN SubSeq(bare, 2, Len(bare) - 1) ELSE bare

validate_boundary_string(b) == \A j \in DOMAIN b : b[j] \notin {"QUOTE", "*", ";"}

\* parse_and_split_keygen_rsp: multi says what the header is, "mixed" with the
\* boundary b, "other" for another multipart subtype, "absent" for none.
parse_and_split_keygen_rsp(multi, b) ==
    CASE multi = "other" -> "error"
      [] multi = "absent" -> "no_boundary"
      [] multi = "mixed" ->
            LET s == sanitize_boundary(b)
            IN IF s # <<>> /\ Len(s) <= BoundaryMax /\ validate_boundary_string(s)
               THEN "boundary" ELSE "error"
================================================================================
