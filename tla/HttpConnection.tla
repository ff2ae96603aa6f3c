--------------------------- MODULE HttpConnection ---------------------------
(***************************************************************************)
(* One client connection: the keep-alive loop of handle_connection         *)
(* (src/main.rs), the request reading and response writing of src/http.rs, *)
(* and the handlers of route seen through what they read from and write to *)
(* the connection.                                                         *)
(*                                                                         *)
(* The connection is a sequence of items: a request head, or one unit of a *)
(* body, tagged with the request it belongs to.  A client may pipeline,    *)
(* stop in the middle of a request, or close.  What a handler computes is  *)
(* left out: a route says whether it reads a body and how it answers.      *)
(***************************************************************************)
EXTENDS Integers, Sequences

CONSTANTS
    MaxRequests,   \* bound: requests a client sends
    MaxLen,        \* bound: largest Content-Length
    JsonMax,       \* the limit handlers pass to read_body (16 MiB)
    MaxDrain,      \* MAX_DRAIN_BYTES (1 MiB)
    MaxFile        \* bound: units in a downloaded file

ASSUME BoundsAssumption ==
    /\ MaxRequests \in Nat /\ MaxLen \in Nat /\ JsonMax \in Nat
    /\ MaxDrain \in Nat /\ MaxFile \in Nat

\* "plain" never looks at the body; "json" is exec, processes and sandboxes;
\* "upload" and "download" are files/write and files/read.
Routes == {"plain", "json", "upload", "download", "proxy"}

VARIABLES
    client,    \* "open" or "closed" (its sending side)
    sent,      \* requests the client started
    owed,      \* body items it has still to send
    wire,      \* items sent and not yet read
    pc,        \* where the connection's thread is
    req,       \* the current Request; n = 0 before the first
    got,       \* body units a handler took off the wire
    consumed,  \* body_consumed
    todo,      \* what drain_body still has to discard
    resp,      \* the last response: its framing and the units still missing
    answers,   \* the request each response was for; 0: for none of the client's
    heads,     \* history: the heads read; n = 0 where the client sent none
    broken     \* a write to the client failed

vars ==
    <<client, sent, owed, wire, pc, req, got, consumed, todo, resp, answers, heads, broken>>

ClientVars == <<client, sent, owed>>

ServerVars == <<pc, req, got, consumed, todo, resp, answers, heads, broken>>

NoRequest == [n |-> 0, route |-> "plain", te |-> FALSE, len |-> 0, ka |-> TRUE]

Requests ==
    [n : 0 .. MaxRequests, route : Routes, te : BOOLEAN, len : 0 .. MaxLen, ka : BOOLEAN]

HeadItem(r) == [part |-> "head", request |-> r]
BodyItem(chunked) == [part |-> "body", te |-> chunked]
BadItem == [part |-> "bad"]
PartialItem == [part |-> "partial"]

Init ==
    /\ client = "open" /\ sent = 0 /\ owed = <<>> /\ wire = <<>>
    /\ pc = "head"
    /\ req = NoRequest
    /\ got = 0 /\ consumed = 0 /\ todo = 0
    /\ resp = [framing |-> "none", left |-> 0]
    /\ answers = <<>> /\ heads = <<>>
    /\ broken = FALSE

-----------------------------------------------------------------------------
(* The client *)

\* A well-formed head.  One with Transfer-Encoding has no Content-Length
\* (parse_head refuses both) and a body of its own framing, here two units.
SendHead(r) ==
    /\ client = "open" /\ owed = <<>> /\ sent < MaxRequests
    /\ r.n = sent + 1
    /\ r.te => r.len = 0
    /\ sent' = r.n
    /\ wire' = Append(wire, HeadItem(r))
    /\ owed' = [i \in 1 .. (IF r.te THEN 2 ELSE r.len) |-> BodyItem(r.te)]
    /\ UNCHANGED <<client, ServerVars>>

SendBody ==
    /\ client = "open" /\ owed # <<>>
    /\ wire' = Append(wire, Head(owed))
    /\ owed' = Tail(owed)
    /\ UNCHANGED <<client, sent, ServerVars>>

\* A head that parse_head refuses or that exceeds MAX_HEADER_BYTES.
SendBadHead ==
    /\ client = "open" /\ owed = <<>> /\ sent < MaxRequests
    /\ sent' = sent + 1
    /\ wire' = Append(wire, BadItem)
    /\ UNCHANGED <<client, owed, ServerVars>>

\* The client closes: between requests, within a body, or within a head.
ClientCloses ==
    /\ client = "open"
    /\ client' = "closed"
    /\ \/ UNCHANGED wire
       \/ owed = <<>> /\ wire' = Append(wire, PartialItem)
    /\ UNCHANGED <<sent, owed, ServerVars>>
-----------------------------------------------------------------------------
(* read_request *)

\* What the thread does to the response framing when it answers at once.
FixedSent == [framing |-> "fixed", left |-> 0]

Waiting == wire = <<>> /\ client = "open"
AtEof == client = "closed" /\ wire \in {<<>>, <<PartialItem>>}

\* The thread leaves the loop; the socket closes with it.
Close ==
    /\ pc' = "closed"
    /\ UNCHANGED <<req, got, consumed, todo, resp, heads>>

\* A head is taken off the wire and parsed into r.
TakeHead(r) ==
    /\ req' = r
    /\ heads' = Append(heads, [n |-> r.n, te |-> r.te])
    /\ wire' = Tail(wire)
    /\ got' = 0 /\ consumed' = 0 /\ todo' = 0
    /\ resp' = [framing |-> "none", left |-> 0]
    /\ pc' = "route"
    /\ UNCHANGED <<ClientVars, answers, broken>>

ReadHead ==
    /\ pc = "head" /\ wire # <<>> /\ Head(wire).part = "head"
    /\ TakeHead(Head(wire).request)

\* Something that the client did not send as a request was served as one.
Strayed == \E k \in DOMAIN heads : heads[k].n = 0

\* What lies here is the body of a request with Transfer-Encoding.  It is parsed
\* as a head like everything else, and from then on the borders between requests
\* are no longer the client's.
OffBoundary == Strayed \/ Head(wire).part = "body"

\* It may be one ...
ReadStray ==
    /\ pc = "head" /\ wire # <<>> /\ OffBoundary
    /\ \E r \in Requests : r.n = 0 /\ (r.te => r.len = 0) /\ TakeHead(r)

\* ... or not.  InvalidData: 400 and close.
ReadBadHead ==
    /\ pc = "head" /\ wire # <<>> /\ (Head(wire).part = "bad" \/ OffBoundary)
    /\ wire' = Tail(wire)
    /\ answers' = Append(answers, 0)
    /\ Close
    /\ UNCHANGED <<ClientVars, broken>>

\* Ok(None), or UnexpectedEof in a head: nothing to say.
HeadEof ==
    /\ pc = "head" /\ AtEof
    /\ Close
    /\ UNCHANGED <<ClientVars, wire, answers, broken>>

\* Mutant: no read timeout on the head.
HeadTimeout_Never == FALSE

\* Mutant: the loop goes on after a timeout.
HeadTimeout_GoesOn ==
    /\ pc = "head" /\ Waiting /\ Len(answers) < MaxRequests
    /\ answers' = Append(answers, 0)
    /\ UNCHANGED <<ClientVars, wire, pc, req, got, consumed, todo, resp, heads, broken>>

\* HEAD_TIMEOUT: 408 and close, also on an idle keep-alive connection.
HeadTimeout ==
    /\ pc = "head" /\ Waiting
    /\ answers' = Append(answers, 0)
    /\ Close
    /\ UNCHANGED <<ClientVars, wire, broken>>

-----------------------------------------------------------------------------
(* route and the handlers *)

\* A response of fixed size, sent at once.  Before the body was looked at:
\* every refusal (403, 411, 404, 400, 409, 502) and the plain routes.  After
\* it was read: the answers of the json and upload routes.
AnswerFixed ==
    /\ pc \in {"route", "answer"}
    /\ resp' = FixedSent
    /\ answers' = Append(answers, req.n)
    /\ pc' = "finish"
    /\ UNCHANGED <<ClientVars, wire, req, got, consumed, todo, heads, broken>>

Reaches(route) == pc = "route" /\ ~req.te /\ req.route = route

\* read_body, or stream_body once the file is open.
BeginBody ==
    /\ \/ Reaches("json") /\ req.len <= JsonMax
       \/ Reaches("upload")
    /\ pc' = "body"
    /\ UNCHANGED <<ClientVars, wire, req, got, consumed, todo, resp, answers, heads, broken>>

\* read_body refuses before reading; its error leaves the handler by ?.
JsonTooLarge ==
    /\ Reaches("json") /\ req.len > JsonMax
    /\ Close
    /\ UNCHANGED <<ClientVars, wire, answers, broken>>

MoreBody == pc = "body" /\ got < req.len

\* read_body keeps the bytes and counts them when it has them all.
JsonChunk ==
    /\ MoreBody /\ req.route = "json" /\ wire # <<>>
    /\ wire' = Tail(wire)
    /\ got' = got + 1
    /\ UNCHANGED <<ClientVars, pc, req, consumed, todo, resp, answers, heads, broken>>

\* stream_body writes a chunk to the file and counts it.
UploadChunk ==
    /\ MoreBody /\ req.route = "upload" /\ wire # <<>>
    /\ wire' = Tail(wire)
    /\ got' = got + 1
    /\ consumed' = consumed + 1
    /\ UNCHANGED <<ClientVars, pc, req, todo, resp, answers, heads, broken>>

\* Mutant: a failed write is answered with an error, on a connection that
\* then goes on.
UploadFails_Answered ==
    /\ MoreBody /\ req.route = "upload" /\ wire # <<>>
    /\ wire' = Tail(wire)
    /\ got' = got + 1
    /\ pc' = "answer"
    /\ UNCHANGED <<ClientVars, req, consumed, todo, resp, answers, heads, broken>>

\* Writing the chunk fails: it is off the wire and not counted.
UploadFails ==
    /\ MoreBody /\ req.route = "upload" /\ wire # <<>>
    /\ wire' = Tail(wire)
    /\ Close
    /\ UNCHANGED <<ClientVars, answers, broken>>

\* EOF in the body, or BODY_TIMEOUT without another byte.
BodyFails ==
    /\ MoreBody /\ (Waiting \/ AtEof)
    /\ Close
    /\ UNCHANGED <<ClientVars, wire, answers, broken>>

BodyDone ==
    /\ pc = "body" /\ got = req.len
    /\ consumed' = IF req.route = "json" THEN req.len ELSE consumed
    /\ pc' = "answer"
    /\ UNCHANGED <<ClientVars, wire, req, got, todo, resp, answers, heads, broken>>

\* handle_read promises the length it saw and sends the file after it.
StartDownload ==
    /\ Reaches("download")
    /\ \E length \in 0 .. MaxFile : resp' = [framing |-> "fixed", left |-> length]
    /\ answers' = Append(answers, req.n)
    /\ pc' = "send"
    /\ UNCHANGED <<ClientVars, wire, req, got, consumed, todo, heads, broken>>

SendRaw ==
    /\ pc = "send" /\ resp.left > 0
    /\ resp' = [resp EXCEPT !.left = @ - 1]
    /\ UNCHANGED <<ClientVars, wire, pc, req, got, consumed, todo, answers, heads, broken>>

\* Mutant: a short file ends the handler with Ok.
FileShrank_Ok ==
    /\ pc = "send" /\ resp.left > 0
    /\ pc' = "finish"
    /\ UNCHANGED <<ClientVars, wire, req, got, consumed, todo, resp, answers, heads, broken>>

\* The file ends before the promised length: Err.
FileShrank ==
    /\ pc = "send" /\ resp.left > 0
    /\ Close
    /\ UNCHANGED <<ClientVars, wire, answers, broken>>

SendDone ==
    /\ pc = "send" /\ resp.left = 0
    /\ pc' = "finish"
    /\ UNCHANGED <<ClientVars, wire, req, got, consumed, todo, resp, answers, heads, broken>>

\* handle_exec streams chunks until the command exits; only finish ends them.
StartStream ==
    /\ pc = "answer" /\ req.route = "json"
    /\ resp' = [framing |-> "chunked", left |-> 1]
    /\ answers' = Append(answers, req.n)
    /\ pc' = "stream"
    /\ UNCHANGED <<ClientVars, wire, req, got, consumed, todo, heads, broken>>

StreamEnds ==
    /\ pc = "stream"
    /\ pc' = "finish"
    /\ UNCHANGED <<ClientVars, wire, req, got, consumed, todo, resp, answers, heads, broken>>

\* handle_proxy takes the socket; the backend answers through the tunnel.
Hijack ==
    /\ Reaches("proxy")
    /\ answers' = Append(answers, req.n)
    /\ pc' = "tunnel"
    /\ UNCHANGED <<ClientVars, wire, req, got, consumed, todo, resp, heads, broken>>

\* handle_connection leaves its loop when resp.hijacked.
TunnelEnds ==
    /\ pc = "tunnel"
    /\ Close
    /\ UNCHANGED <<ClientVars, wire, answers, broken>>

\* Errors that leave these handlers by ? before a response: metadata, seek,
\* cloning a socket, replaying the request to the backend.
HandlerFails ==
    /\ Reaches("download") \/ Reaches("proxy")
    /\ Close
    /\ UNCHANGED <<ClientVars, wire, answers, broken>>

\* Any write of a response may fail, and ends the connection.
WriteFails ==
    /\ \/ pc \in {"route", "answer", "send", "stream"}
       \/ pc = "finish" /\ resp.framing = "chunked"
    /\ broken' = TRUE
    /\ Close
    /\ UNCHANGED <<ClientVars, wire, answers>>

-----------------------------------------------------------------------------
(* The end of a request: finish, drain_body, keep_alive *)

Finish ==
    /\ pc = "finish"
    /\ resp' = [resp EXCEPT !.left = IF resp.framing = "chunked" THEN 0 ELSE @]
    /\ todo' = req.len - consumed
    /\ pc' = "drain"
    /\ UNCHANGED <<ClientVars, wire, req, got, consumed, answers, heads, broken>>

Draining == pc = "drain" /\ todo \in 1 .. MaxDrain

\* Too much is left to be worth reading.
DrainRefused ==
    /\ pc = "drain" /\ todo > MaxDrain
    /\ Close
    /\ UNCHANGED <<ClientVars, wire, answers, broken>>

DrainChunk ==
    /\ Draining /\ wire # <<>>
    /\ wire' = Tail(wire)
    /\ todo' = todo - 1
    /\ UNCHANGED <<ClientVars, pc, req, got, consumed, resp, answers, heads, broken>>

DrainTimeout ==
    /\ Draining /\ Waiting
    /\ Close
    /\ UNCHANGED <<ClientVars, wire, answers, broken>>

\* io::copy also ends, with Ok, at EOF.
DrainDone ==
    /\ pc = "drain"
    /\ todo = 0 \/ (Draining /\ AtEof)
    /\ pc' = IF req.ka THEN "head" ELSE "closed"
    /\ UNCHANGED <<ClientVars, wire, req, got, consumed, todo, resp, answers, heads, broken>>

-----------------------------------------------------------------------------
ClientStep == (\E r \in Requests : SendHead(r)) \/ SendBody \/ SendBadHead \/ ClientCloses

ServerStep ==
    \/ ReadHead \/ ReadStray \/ ReadBadHead \/ HeadEof \/ HeadTimeout
    \/ AnswerFixed \/ BeginBody \/ JsonTooLarge
    \/ JsonChunk \/ UploadChunk \/ UploadFails \/ BodyFails \/ BodyDone
    \/ StartDownload \/ SendRaw \/ FileShrank \/ SendDone
    \/ StartStream \/ Hijack \/ HandlerFails \/ WriteFails
    \/ Finish \/ DrainRefused \/ DrainChunk \/ DrainTimeout \/ DrainDone

Next == ClientStep \/ ServerStep \/ StreamEnds \/ TunnelEnds

Spec == Init /\ [][Next]_vars

\* The thread keeps running: every read and every write of it has a timeout.
\* A stream and a tunnel last as long as the command and the backend do.
FairSpec == Spec /\ WF_vars(ServerStep)

-----------------------------------------------------------------------------
(* Properties *)

\* When the loop goes back to read_request, what it reads next is the start
\* of a request: no handler that left its body unread, read part of it, or
\* failed while reading makes bytes of a body with a Content-Length pass for
\* the next request, unless the body of a request with Transfer-Encoding has
\* already done so.
AtMessageBoundary ==
    pc = "head" /\ wire # <<>> /\ Head(wire).part = "body" => Head(wire).te \/ Strayed

\* When the loop reads another request, the last response was complete by its
\* own framing: the promised number of bytes, or the final chunk.
ResponseComplete ==
    pc = "head" /\ heads # <<>> => resp.framing # "none" /\ resp.left = 0

\* The k-th response answers the k-th head that was read, and none is left
\* unanswered when the next one is read; only a final 400 or 408 answers none.
\* The k-th head is the client's k-th request, unless a request with
\* Transfer-Encoding came before and part of its body was served as a request.
AnswersInOrder ==
    /\ \A k \in DOMAIN answers :
         \/ k \in DOMAIN heads /\ answers[k] = heads[k].n
         \/ answers[k] = 0 /\ k = Len(answers) /\ pc = "closed"
    /\ pc = "head" => Len(answers) = Len(heads)
    /\ Strayed \/ \A k \in DOMAIN heads : heads[k].n = k
    /\ Strayed => \E k \in DOMAIN heads : heads[k].te

\* A client that stops sending or reading never keeps the connection's thread
\* and slot: without a running stream or tunnel, the thread ends.
ConnectionReleased == pc = "head" ~> pc \in {"closed", "stream", "tunnel"}

\* parse_head: a head that left the body's length open meant "the body was
\* then read as the next request on a keep-alive connection", so "this one
\* refuses rather than guesses".
NeverReadsBodyAsHead ==
    pc = "head" /\ wire # <<>> => Head(wire).part # "body"
=============================================================================
