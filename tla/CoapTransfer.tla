--------------------------- MODULE CoapTransfer ---------------------------
(***************************************************************************)
(* CoapServer composed with a client and the network between them.  The    *)
(* client is external to this repository: it follows RFC 7959 as the       *)
(* handlers of est_server_coap.c expect it to.  It uploads one request     *)
(* after the other, a block at a time or in one message, waits for the     *)
(* answer to each message, sends it again when it waits too long, and then *)
(* collects the response block by block.  Datagrams may be lost; when      *)
(* Reorder holds they may also overtake each other.                        *)
(***************************************************************************)
EXTENDS CoapServer

CONSTANTS
    Client,        \* the one peer that talks to the server
    Plan,          \* the certificate requests it uploads, one after the other
    Single,        \* the upload is one message without block1 option
    Reorder,       \* the network may deliver datagrams out of order
    MaxTries       \* bound: transmissions of one message

ASSUME TransferAssumption ==
    /\ Client \in Certified
    /\ Plan \in Seq(Csrs)
    /\ {Single, Reorder} \subseteq BOOLEAN
    /\ MaxTries \in Nat \ {0}

VARIABLES
    client,        \* the client's state
    requests,      \* datagrams on their way to the server
    replies,       \* datagrams on their way to the client
    faulty         \* history: a datagram was lost, an answer was an error, or
                   \* the client lost patience

tvars == <<client, requests, replies, faulty>>
allvars == <<vars, tvars>>

\* The client works on request up of the plan; step "put" uploads block num,
\* "get" collects block num, until it is "done" or has "failed".
Id(c) == [up |-> c.up, step |-> c.step, num |-> c.num]

\* The message of the client's current step.
ClientMsg(c) ==
    LET chunk(i) == [peer |-> Client, csr |-> Plan[c.up], num |-> i]
        empty == NoMsg.part
        part == CASE c.step = "get" -> empty
                  [] c.step = "put" /\ Single ->
                        [empty EXCEPT !.data = [i \in 1..Blocks |-> chunk(i - 1)]]
                  [] OTHER ->
                        [block1 |-> TRUE, num |-> c.num,
                         m |-> c.num < Blocks - 1, data |-> <<chunk(c.num)>>]
    IN  [NoMsg EXCEPT !.op = "SEN", !.part = part,
                      !.block2 = IF c.step = "get" THEN c.num ELSE 0]

\* Send the current message, for the first time or again.
ClientSend ==
    /\ Client \in sessions
    /\ client.step \in {"put", "get"}
    /\ client.tries < MaxTries
    /\ client' = [client EXCEPT !.tries = @ + 1]
    /\ requests' = Append(requests, [id |-> Id(client), msg |-> ClientMsg(client)])
    /\ UNCHANGED <<vars, replies, faulty>>

\* What the answer to the current message makes of the client.
Advance(c, r) ==
    CASE c.step = "put" /\ r.code = 231 ->
            [c EXCEPT !.num = @ + 1, !.tries = 0]
      [] r.code = 204 /\ r.body # NoResp ->
            LET got == Append(c.got, r.body.serial)
            IN  [c EXCEPT !.got = got, !.tries = 0, !.num = Len(got),
                          !.step = IF Len(got) = RespBlocks THEN "done" ELSE "get"]
      [] OTHER -> [c EXCEPT !.step = "failed"]

\* An answer arrives; one to an earlier message is dropped.
ClientReceive ==
    /\ replies # <<>>
    /\ replies' = Tail(replies)
    /\ client' = IF Head(replies).id = Id(client)
                 THEN Advance(client, Head(replies)) ELSE client
    /\ UNCHANGED <<vars, requests, faulty>>

\* The client gives up on a message it has sent MaxTries times.
ClientGiveUp ==
    /\ client.step \in {"put", "get"}
    /\ client.tries = MaxTries
    /\ client' = [client EXCEPT !.step = "failed"]
    /\ faulty' = TRUE
    /\ UNCHANGED <<vars, requests, replies>>

\* The next request of the plan starts when the one before it is over.
ClientNext ==
    /\ client.step \in {"done", "failed"}
    /\ client.up < Len(Plan)
    /\ client' = [up |-> client.up + 1, step |-> "put", num |-> 0, tries |-> 0,
                  got |-> <<>>]
    /\ UNCHANGED <<vars, requests, replies, faulty>>

Without(s, i) == [j \in 1..(Len(s) - 1) |-> IF j < i THEN s[j] ELSE s[j + 1]]

Deliverable == IF Reorder THEN DOMAIN requests ELSE {1} \cap DOMAIN requests

\* A request reaches its handler, whose reply goes on its way.
Deliver ==
    \E i \in Deliverable :
        /\ est_coap_sen_handler(Client, requests[i].msg)
        /\ requests' = Without(requests, i)
        /\ replies' = Append(replies, [id |-> requests[i].id,
                                       code |-> last'.code, body |-> last'.body])
        /\ faulty' = (faulty \/ last'.code \in {ErrorCode(rc, "SEN") : rc \in EnrollErrors})
        /\ UNCHANGED client

Lose ==
    /\ faulty' = TRUE
    /\ \/ requests # <<>> /\ requests' = Tail(requests) /\ UNCHANGED replies
       \/ replies # <<>> /\ replies' = Tail(replies) /\ UNCHANGED requests
    /\ UNCHANGED <<vars, client>>

Setup ==
    /\ \/ \E pt \in PortNums : est_server_coap_init_start(pt)
       \/ Connected(Client)
    /\ UNCHANGED tvars

TransferInit ==
    /\ Init
    /\ client = [up |-> 1, step |-> "put", num |-> 0, tries |-> 0, got |-> <<>>]
    /\ requests = <<>>
    /\ replies = <<>>
    /\ faulty = FALSE

TransferNext ==
    \/ ClientSend \/ ClientReceive \/ ClientGiveUp \/ ClientNext
    \/ Deliver \/ Lose \/ Setup

TransferSpec == TransferInit /\ [][TransferNext]_allvars

\* Every message is sent at least once, what is not lost is delivered and
\* handled, and the server is started and reached in the end.
TransferFairness ==
    /\ WF_allvars(ClientSend /\ client.tries = 0)
    /\ WF_allvars(ClientReceive) /\ WF_allvars(ClientNext)
    /\ WF_allvars(Deliver)
    /\ SF_allvars(Setup /\ coap_ctx' # NoContext)

FairTransferSpec == TransferSpec /\ TransferFairness

-----------------------------------------------------------------------------
(* Properties *)

\* The whole request of the plan the client is working on, as the server
\* should have assembled it.
Whole(u) == [i \in 1..Blocks |-> [peer |-> Client, csr |-> Plan[u], num |-> i - 1]]

\* However often messages are sent again, the response that answers the
\* client's current message is for the request it is uploading now.
AnswerIsForUpload ==
    \A i \in DOMAIN replies :
        (replies[i].body # NoResp /\ replies[i].id = Id(client))
            => replies[i].body.csr = Whole(client.up)

\* The blocks of the response that the client puts together belong to one and
\* the same certificate: lines 649-652 restart a request only for a "new
\* request", and lines 670-675 let the client collect what is stored.
ResponseIsOneCertificate ==
    \A i, j \in DOMAIN client.got : client.got[i] = client.got[j]

\* As long as nothing is lost, the CA issues and the client is patient,
\* repeated transmissions never make an upload fail: every request of the plan
\* ends with a whole certificate.
EveryUploadSucceeds ==
    [](~faulty) =>
        /\ \A u \in 1..Len(Plan) : <>(client.up = u /\ client.step = "done")
        /\ [](client.step # "failed")

\* Lines 746-749: a block below the end of req_buf is one "we've already seen",
\* as long as the network keeps datagrams in order.
DuplicateWasSeen ==
    \A i \in Deliverable :
        LET msg == requests[i].msg
            n == UploadNode(KeyOf[Client], msg)
        IN  (Client \in sessions /\ n.resp_buf = NoResp
                /\ Placement(n, msg.part) = "duplicate")
            => /\ msg.part.num < Len(n.req_buf)
               /\ n.req_buf[msg.part.num + 1] = msg.part.data[1]

\* Through retransmissions and losses the server keeps the uploads of a session
\* apart: in the answers it gives, in the response blocks the client collects,
\* and in what it takes for a block already seen.
UploadsKeptApart == AnswerIsForUpload /\ ResponseIsOneCertificate /\ DuplicateWasSeen
=============================================================================
