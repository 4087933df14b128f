----------------------------- MODULE HttpServer -----------------------------
(***************************************************************************)
(* One connection of the HTTP server, from conn.serve down: the requests a *)
(* client writes on it, the goroutine that reads them, the handler it      *)
(* calls, and the response the handler builds.                             *)
(*                                                                         *)
(* The handler is any program: it may read the body, set header fields,    *)
(* write, flush, hijack, panic or return, in any order.  Payload is        *)
(* counted in units.  The client may send requests ahead, hold a body back *)
(* or go away; a read deadline that passes is like a client that is gone.  *)
(***************************************************************************)
EXTENDS Transfer, SequencesExt

CONSTANTS
    Requests,        \* for each place on the connection, what a client may send there
    ReplyHeaders,    \* header fields a handler may set: Connection, Content-Length,
                     \* Transfer-Encoding, and whether it sets a Content-Type
    Codes,           \* status codes a handler may send
    WriteSizes,      \* sizes of a handler's writes
    MaxWritten,      \* bound on the units a handler writes
    SniffLen,        \* sniffLen: capacity of conn.body
    MaxPostRead,     \* maxPostHandlerReadBytes
    LateReads,       \* may a handler ask for an expected body behind its reply?
    Nil

ASSUME ServerAssumption ==
    /\ MaxWritten \in Nat /\ SniffLen \in Nat \ {0}
    /\ MaxPostRead \in Nat \ {0} /\ WriteSizes \subseteq Nat
    /\ Codes \subseteq Nat
    /\ Requests \in Seq(SUBSET
          [method : STRING, proto : {"1.0", "1.1"}, conn : STRING,
           body : Nat \cup {NoBody}, declared : Int, expect : {"no", "continue", "other"},
           fault : {"no", "malformed", "coding"}, timed : BOOLEAN])
    \* HTTP/1.0 has no chunks: such a client knows the length of its body
    /\ \A r \in UNION Range(Requests) :
          r.proto = "1.0" /\ r.body # NoBody => r.declared >= 0
    /\ ReplyHeaders \subseteq [conn : STRING, cl : Int, te : STRING, ct : BOOLEAN]
    /\ LateReads \in BOOLEAN

MaxRequests == Len(Requests)

VARIABLES
    in,      \* tokens on their way from the client
    sent,    \* number of requests the client sent
    unsent,  \* tokens of the last request that the client holds back
    client,  \* "open" or "gone"
    pc,      \* where the serving goroutine is
    req,     \* the request being served, or Nil
    body,    \* its body reader
    got,     \* units that WriteHeader read past the handler
    w,       \* the response
    out,     \* tokens of the response to the current or last request
    held,    \* are there tokens in conn.buf that were not flushed?
    conn,    \* "open", "hijacked" or "closed"
    call     \* the call that waits for WriteHeader: [then, n]

clientVars == <<in, sent, unsent, client>>
replyVars == <<w, out, held>>
svars == <<in, sent, unsent, client, pc, req, body, got, w, out, held, conn, call>>

NoCall == [then |-> "handler", n |-> 0]

\* The response that readRequest makes.
NewResponse ==
    [wroteHeader |-> FALSE, wroteContinue |-> FALSE, chunking |-> FALSE, written |-> 0,
     contentLength |-> -1, status |-> 0, needSniff |-> FALSE, sniffed |-> 0,
     closeAfterReply |-> FALSE, limitHit |-> FALSE,
     header |-> [conn |-> "", cl |-> NoLength, te |-> "", ct |-> FALSE]]

Init ==
    /\ in = <<>> /\ sent = 0 /\ unsent = <<>> /\ client = "open"
    /\ pc = "read" /\ req = Nil /\ body = BodyReader("limited", 0) /\ got = 0
    /\ w = NewResponse /\ out = <<>> /\ held = FALSE
    /\ conn = "open" /\ call = NoCall

-----------------------------------------------------------------------------
(***************************************************************************)
(* The client.                                                             *)
(***************************************************************************)

\* The head of a request as it goes over the wire.
Head11(r, id) ==
    LET h == TransferHeader(newTransferWriter(r), r.method)
    IN [kind |-> "head", id |-> id, n |-> 0, r |-> r, cl |-> h.cl, trailer |-> {},
        te |-> IF r.fault = "coding" THEN <<"gzip">> ELSE h.te]

\* Request.write: the head at once, the body when the client gets to it; a
\* client that expects "100 Continue" holds it back for a while.
SendHead(r) ==
    /\ client = "open" /\ unsent = <<>> /\ sent < MaxRequests /\ r \in Requests[sent + 1]
    /\ ~newTransferWriter(r).err
    /\ sent' = sent + 1
    /\ in' = Append(in, Head11(r, sent'))
    /\ unsent' = BodyTokens(sent', newTransferWriter(r))
    /\ client' = IF WrongLength(newTransferWriter(r)) THEN "failing" ELSE client
    /\ UNCHANGED <<pc, req, body, got, replyVars, conn, call>>

\* A client that notices that the body has the wrong length closes.
SendBody ==
    /\ unsent # <<>> \/ client = "failing"
    /\ in' = in \o unsent /\ unsent' = <<>>
    /\ client' = IF client = "failing" THEN "gone" ELSE client
    /\ UNCHANGED <<sent, pc, req, body, got, replyVars, conn, call>>

\* The client closes, or ReadTimeout passes.
ClientGone ==
    /\ client = "open" /\ client' = "gone"
    /\ unsent' = <<>>
    /\ UNCHANGED <<in, sent, pc, req, body, got, replyVars, conn, call>>

ReadFails == in = <<>> /\ client = "gone"

-----------------------------------------------------------------------------
(***************************************************************************)
(* WriteHeader: it decides about keep-alive, reads what the handler left   *)
(* of the request body, and then writes the header.                        *)
(***************************************************************************)
Wraps(q) == q.r.expect = "continue" /\ q.r.proto = "1.1"

wantsHttp10KeepAlive(q) == q.r.proto = "1.0" /\ q.r.conn = "keep-alive"

BeginHeader(v, code) ==
    LET keep == wantsHttp10KeepAlive(req) /\ (req.r.method = "HEAD" \/ v.header.cl >= 0)
        c == IF keep /\ v.header.conn = "" THEN "keep-alive" ELSE v.header.conn
    IN [v EXCEPT !.wroteHeader = TRUE, !.status = code, !.header.conn = c,
                 !.header.cl = IF @ = BadLength THEN NoLength ELSE @,
                 !.closeAfterReply = \/ @ \/ c = "close"
                                     \/ ~keep /\ req.r.proto # "1.1"]

NeedsDrain(v) ==
    req.len # 0 /\ ~v.closeAfterReply /\ (~Wraps(req) \/ v.wroteContinue)

\* requestTooLarge: stop reading from this connection.
requestTooLarge(v) ==
    [v EXCEPT !.closeAfterReply = TRUE, !.limitHit = TRUE,
              !.header.conn = IF v.wroteHeader THEN @ ELSE "close"]

\* The rest of WriteHeader, behind the reading of the body.
EndHeader(v) ==
    LET h  == IF v.status = 304 THEN [v.header EXCEPT !.cl = NoLength, !.te = ""] ELSE v.header
        both == v.header.cl >= 0 /\ h.te \notin {"", "identity"}
        hasCL == v.header.cl >= 0 /\ ~both
        plain == req.r.method = "HEAD" \/ v.status = 304
        chunk == ~plain /\ ~hasCL /\ req.r.proto = "1.1"
        close == v.closeAfterReply \/ (~plain /\ ~hasCL /\ ~chunk)
    IN [v EXCEPT
          !.needSniff = v.status # 304 /\ ~v.header.ct /\ req.r.method # "HEAD",
          !.contentLength = IF ~plain /\ hasCL THEN v.header.cl ELSE @,
          !.chunking = chunk,
          !.closeAfterReply = close,
          !.header = [h EXCEPT !.cl = IF both \/ chunk THEN NoLength ELSE @,
                               !.te = IF chunk THEN "chunked" ELSE IF plain THEN @ ELSE "",
                               !.conn = IF close THEN "close" ELSE @]]

HeaderTokens(v) ==
    <<[kind |-> "head", id |-> req.id, n |-> 0, code |-> v.status, proto |-> req.r.proto,
       conn |-> v.header.conn, cl |-> v.header.cl,
       te |-> IF v.header.te = "" THEN <<>> ELSE <<v.header.te>>]>>
    \o (IF v.needSniff THEN <<>> ELSE <<Token("end", req.id, 0)>>)

PutHeader(v) ==
    /\ w' = EndHeader(v)
    /\ out' = out \o HeaderTokens(w') /\ held' = TRUE

\* Runs WriteHeader(code) on response v, unless the header is out already, and
\* goes on at "then".
WithHeader(v, code, then, n) ==
    /\ call' = [then |-> then, n |-> n]
    /\ got' = 0
    /\ \/ v.wroteHeader /\ pc' = then /\ w' = v /\ UNCHANGED <<out, held>>
       \/ LET b == BeginHeader(v, code) IN
          /\ ~v.wroteHeader
          /\ \/ NeedsDrain(b) /\ pc' = "drain" /\ w' = b /\ UNCHANGED <<out, held>>
             \/ ~NeedsDrain(b) /\ pc' = then /\ PutHeader(b)

BodyStuck == body.closed \/ AtEnd(body) \/ body.at = "error" \/ ReadFails

\* One read from the wire for the body.
TakeToken ==
    /\ ~BodyStuck /\ in # <<>>
    /\ in' = Tail(in) /\ body' = BodyStep(body, Head(in))

\* io.CopyN(ioutil.Discard, w.req.Body, maxPostHandlerReadBytes+1)
DrainStep ==
    /\ pc = "drain" /\ got <= MaxPostRead
    /\ TakeToken
    /\ got' = IF IsPayload(body) THEN got + 1 ELSE got
    /\ UNCHANGED <<sent, unsent, client, pc, req, replyVars, conn, call>>

DrainedTooMuch(v) == [requestTooLarge(v) EXCEPT !.header.conn = "close"]

\* This variant waits for the end of the body, which the copy does not reach.
DrainEnd ==
    /\ pc = "drain" /\ BodyStuck
    /\ PutHeader(w) /\ body' = [body EXCEPT !.closed = TRUE]
    /\ pc' = call.then
    /\ UNCHANGED <<clientVars, req, got, conn, call>>
DrainDone ==
    /\ pc = "drain" /\ (got > MaxPostRead \/ BodyStuck)
    /\ \/ got >= MaxPostRead /\ PutHeader(DrainedTooMuch(w)) /\ UNCHANGED body
       \/ got < MaxPostRead /\ PutHeader(w) /\ body' = [body EXCEPT !.closed = TRUE]
    /\ pc' = call.then
    /\ UNCHANGED <<clientVars, req, got, conn, call>>

-----------------------------------------------------------------------------
(***************************************************************************)
(* Body.Close reads up to the end of the body.  body.res is never set, so  *)
(* it does so also behind requestTooLarge.                                 *)
(***************************************************************************)
CloseStep ==
    /\ pc = "closeBody" /\ TakeToken
    /\ UNCHANGED <<sent, unsent, client, pc, req, got, replyVars, conn, call>>

CloseDone ==
    /\ pc = "closeBody" /\ BodyStuck
    /\ body' = [body EXCEPT !.closed = TRUE] /\ pc' = call.then
    /\ UNCHANGED <<clientVars, req, got, replyVars, conn, call>>

-----------------------------------------------------------------------------
(***************************************************************************)
(* Writing the body of the response.                                       *)
(***************************************************************************)
bodyAllowed(v) == v.status # 304 /\ req.r.method # "HEAD"

Data(v, n) ==
    IF n = 0 THEN <<>>
    ELSE IF v.chunking THEN <<Token("size", req.id, n), Token("data", req.id, n),
                              Token("crlf", req.id, 0)>>
    ELSE <<Token("data", req.id, n)>>

\* sniff ends the header and writes what conn.body holds back.
Sniff(v) == [v EXCEPT !.needSniff = FALSE]
SniffTokens(v) ==
    IF v.needSniff THEN <<Token("end", req.id, 0)>> \o Data(v, v.sniffed) ELSE <<>>

\* response.Write behind its call of WriteHeader: n units.
Write(v, n) ==
    LET m == IF v.needSniff THEN (IF SniffLen - v.sniffed < n THEN SniffLen - v.sniffed ELSE n)
             ELSE 0
        counted == [v EXCEPT !.written = @ + n]
    IN CASE n = 0 \/ ~bodyAllowed(v) -> [w |-> v, toks |-> <<>>]
         [] OTHER ->
            CASE v.contentLength # -1 /\ counted.written > v.contentLength ->
                    [w |-> counted, toks |-> <<>>]
              [] OTHER ->
                 CASE v.needSniff /\ m = n ->
                         [w |-> [counted EXCEPT !.sniffed = @ + m], toks |-> <<>>]
                   [] OTHER ->
                         LET full == [counted EXCEPT !.sniffed = @ + m]
                         IN [w |-> Sniff(full),
                             toks |-> SniffTokens(full) \o Data(full, n - m)]

PutWrite(v, n) ==
    LET r == Write(v, n)
    IN w' = r.w /\ out' = out \o r.toks /\ held' = (held \/ r.toks # <<>>)

DoWrite ==
    /\ pc = "write" /\ pc' = "handler"
    /\ PutWrite(w, call.n)
    /\ UNCHANGED <<clientVars, req, body, got, conn, call>>

\* response.Flush
DoFlush ==
    /\ pc = "flush" /\ pc' = "handler"
    /\ w' = Sniff(w) /\ out' = out \o SniffTokens(w) /\ held' = FALSE
    /\ UNCHANGED <<clientVars, req, body, got, conn, call>>

\* response.ReadFrom: with a known length and no sniffing the data goes to the
\* connection past Write, and past its check of the length.
DoReadFrom ==
    /\ pc = "readFrom" /\ pc' = "handler"
    /\ LET direct == ~w.chunking /\ bodyAllowed(w) /\ ~w.needSniff IN
       \/ /\ direct
          /\ w' = [w EXCEPT !.written = @ + call.n]
          /\ out' = out \o Data(w, call.n) /\ held' = FALSE
       \/ /\ ~direct
          /\ PutWrite(w, call.n)
    /\ UNCHANGED <<clientVars, req, body, got, conn, call>>

-----------------------------------------------------------------------------
(***************************************************************************)
(* The loop of conn.serve.                                                 *)
(***************************************************************************)
Malformed(tok) == tok.r.fault = "malformed" \/ RequestTransfer(tok).err

AtRequest == pc = "read" /\ conn = "open" /\ in # <<>>

\* What readRequest makes of a token.
Parse(tok) ==
    [id |-> tok.id, r |-> tok.r, len |-> RequestTransfer(tok).len]

BeginRequest(tok) ==
    /\ in' = Tail(in)
    /\ req' = Parse(tok) /\ body' = RequestTransfer(tok).body
    /\ out' = <<>> /\ got' = 0

\* A request that the handler gets, or the timeoutHandler around it.
AcceptRequest ==
    /\ AtRequest /\ Head(in).kind = "head" /\ ~Malformed(Head(in))
    /\ LET r == Head(in).r IN
       /\ r.expect = "no" \/ (r.expect = "continue" /\ RequestTransfer(Head(in)).len # 0)
       /\ pc' = IF r.timed THEN "timed" ELSE "handler"
    /\ BeginRequest(Head(in))
    /\ w' \in {[NewResponse EXCEPT !.header = h] : h \in ReplyHeaders}
    /\ UNCHANGED <<sent, unsent, client, held, conn, call>>

\* 400 for "100-continue" without a body, 417 for another expectation; both
\* announce the end of the connection.
RefuseExpectation ==
    /\ AtRequest /\ Head(in).kind = "head" /\ ~Malformed(Head(in))
    /\ LET tok == Head(in) IN
       /\ tok.r.expect = "other" \/ (tok.r.expect = "continue" /\ RequestTransfer(tok).len = 0)
       /\ BeginRequest(tok)
       /\ w' = [NewResponse EXCEPT !.header.conn = "close",
                                   !.status = IF tok.r.expect = "other" THEN 417 ELSE 400]
    /\ pc' = "refuse" /\ call' = NoCall
    /\ UNCHANGED <<sent, unsent, client, held, conn>>

\* A request line or header that does not parse, or is too long, gets a bare
\* status line; so does whatever else stands where a request should.
RejectRequest ==
    /\ AtRequest
    /\ Head(in).kind = "head" => Malformed(Head(in))
    /\ in' = Tail(in) /\ conn' = "closed" /\ pc' = "stop"
    /\ UNCHANGED <<sent, unsent, client, req, body, got, replyVars, call>>

\* EOF or a deadline: no reply.
EndOfRequests ==
    /\ pc = "read" /\ ReadFails
    /\ conn' = "closed" /\ pc' = "stop"
    /\ UNCHANGED <<clientVars, req, body, got, replyVars, call>>

\* finishRequest up to its call of WriteHeader.
Finishing(v) ==
    LET u == IF v.written = 0 /\ v.header.cl = NoLength THEN [v EXCEPT !.header.cl = 0] ELSE v
    IN IF wantsHttp10KeepAlive(req) /\ u.header.cl # NoLength /\ u.header.conn = "keep-alive"
       THEN [u EXCEPT !.closeAfterReply = FALSE] ELSE u

FinishRequest == WithHeader(Finishing(w), 200, "finish", 0)

Refuse ==
    /\ pc = "refuse"
    /\ WithHeader(w, w.status, "finish", 0)
    /\ UNCHANGED <<clientVars, req, body, conn>>

\* Two variants: without Body.Close, and with the flush left to it.
FinishWithoutClose ==
    /\ pc = "finish"
    /\ w' = Sniff(w)
    /\ out' = out \o SniffTokens(w)
                  \o (IF w.chunking THEN <<Token("size", req.id, 0), Token("crlf", req.id, 0)>>
                      ELSE <<>>)
    /\ held' = FALSE
    /\ call' = [then |-> "next", n |-> 0] /\ pc' = "next"
    /\ UNCHANGED <<clientVars, req, body, got, conn>>
FinishWithoutFlush ==
    /\ pc = "finish"
    /\ w' = Sniff(w) /\ out' = out \o SniffTokens(w) /\ held' = TRUE
    /\ call' = [then |-> "next", n |-> 0]
    /\ pc' = IF w.closeAfterReply THEN "next" ELSE "closeBody"
    /\ UNCHANGED <<clientVars, req, body, got, conn>>
\* finishRequest behind it: the end of the body, the flush, and only then
\* Body.Close, which may have to wait for the client.
FinishBody ==
    /\ pc = "finish"
    /\ w' = Sniff(w)
    /\ out' = out \o SniffTokens(w)
                  \o (IF w.chunking THEN <<Token("size", req.id, 0), Token("crlf", req.id, 0)>>
                      ELSE <<>>)
    /\ held' = FALSE
    /\ call' = [then |-> "next", n |-> 0]
    /\ pc' = IF w.closeAfterReply THEN "next" ELSE "closeBody"
    /\ UNCHANGED <<clientVars, req, body, got, conn>>

\* This variant keeps the connection behind a reply that is too short.
NextAnyway ==
    /\ pc = "next"
    /\ \/ w.closeAfterReply /\ conn' = "closed" /\ pc' = "stop"
       \/ ~w.closeAfterReply /\ pc' = "read" /\ UNCHANGED conn
    /\ UNCHANGED <<clientVars, req, body, got, replyVars, call>>
\* The end of finishRequest, and of the round of serve's loop.
NextRequest ==
    /\ pc = "next"
    /\ LET close == w.closeAfterReply \/ (w.contentLength # -1 /\ w.contentLength # w.written) IN
       \/ close /\ conn' = "closed" /\ pc' = "stop"
       \/ ~close /\ pc' = "read" /\ UNCHANGED conn
    /\ UNCHANGED <<clientVars, req, body, got, replyVars, call>>

-----------------------------------------------------------------------------
(***************************************************************************)
(* What a handler may do.  Behind Hijack, WriteHeader and Write only log,  *)
(* and Flush panics.                                                       *)
(***************************************************************************)
Handling == pc = "handler" /\ conn = "open"

HandlerWriteHeader(code) ==
    /\ Handling /\ ~w.wroteHeader
    /\ WithHeader(w, code, "handler", 0)
    /\ UNCHANGED <<clientVars, req, body, conn>>

HandlerWrite(n) ==
    /\ Handling /\ w.written + n <= MaxWritten
    /\ WithHeader(w, 200, "write", n)
    /\ UNCHANGED <<clientVars, req, body, conn>>

HandlerReadFrom(n) ==
    /\ Handling /\ w.written + n <= MaxWritten
    /\ WithHeader(w, 200, "readFrom", n)
    /\ UNCHANGED <<clientVars, req, body, conn>>

HandlerFlush ==
    /\ Handling
    /\ ~w.wroteHeader \/ w.needSniff \/ held
    /\ WithHeader(w, 200, "flush", 0)
    /\ UNCHANGED <<clientVars, req, body, conn>>

\* The first Read of an expected body asks the client for it.
HandlerAsks ==
    /\ Handling /\ Wraps(req) /\ ~w.wroteContinue /\ ~body.closed
    /\ w.wroteHeader => LateReads
    /\ w' = [w EXCEPT !.wroteContinue = TRUE]
    /\ out' = Append(out, Token("continue", req.id, 0)) /\ held' = FALSE
    /\ UNCHANGED <<clientVars, pc, req, body, got, conn, call>>

HandlerReads ==
    /\ pc = "handler" /\ (Wraps(req) => w.wroteContinue \/ conn = "hijacked")
    /\ TakeToken
    /\ UNCHANGED <<sent, unsent, client, pc, req, got, replyVars, conn, call>>

\* MaxBytesReader runs into its limit.
HandlerReadsTooMuch ==
    /\ Handling /\ req.len # 0 /\ ~w.limitHit
    /\ w' = requestTooLarge(w)
    /\ UNCHANGED <<clientVars, pc, req, body, got, out, held, conn, call>>

HandlerClosesBody ==
    /\ pc = "handler" /\ ~body.closed
    /\ pc' = "closeBody" /\ call' = NoCall
    /\ UNCHANGED <<clientVars, req, body, got, replyVars, conn>>

Hijack ==
    /\ Handling
    /\ conn' = "hijacked"
    /\ UNCHANGED <<clientVars, pc, req, body, got, replyVars, call>>

\* serve recovers; what conn.buf held is lost.
HandlerPanics ==
    /\ pc = "handler"
    /\ conn' = IF conn = "hijacked" THEN conn ELSE "closed"
    /\ pc' = "stop"
    /\ UNCHANGED <<clientVars, req, body, got, replyVars, call>>

\* This variant does not look at hijacked.
ReturnsToServe ==
    /\ pc = "handler" /\ FinishRequest
    /\ UNCHANGED <<clientVars, req, body, conn>>
HandlerReturns ==
    /\ pc = "handler"
    /\ \/ /\ conn = "hijacked" /\ pc' = "stop"
          /\ UNCHANGED <<got, replyVars, call>>
       \/ conn = "open" /\ FinishRequest
    /\ UNCHANGED <<clientVars, req, body, conn>>

\* Once the connection is not the server's any more the client is of no interest.
ClientStep ==
    conn = "open" /\ ((\E r \in UNION Range(Requests) : SendHead(r)) \/ SendBody \/ ClientGone)

HandlerStep ==
    \/ \E code \in Codes : HandlerWriteHeader(code)
    \/ \E n \in WriteSizes : HandlerWrite(n) \/ HandlerReadFrom(n)
    \/ HandlerFlush \/ HandlerAsks \/ HandlerReads \/ HandlerReadsTooMuch
    \/ HandlerClosesBody \/ Hijack \/ HandlerPanics \/ HandlerReturns

\* What serve does beside AcceptRequest and RefuseExpectation.
ServeStep ==
    \/ RejectRequest \/ EndOfRequests
    \/ DrainStep \/ DrainDone \/ CloseStep \/ CloseDone
    \/ DoWrite \/ DoFlush \/ DoReadFrom
    \/ Refuse \/ FinishBody \/ NextRequest
=============================================================================
