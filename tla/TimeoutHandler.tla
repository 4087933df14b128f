--------------------------- MODULE TimeoutHandler ---------------------------
(***************************************************************************)
(* The server with timeoutHandler around some of its handlers: the wrapped *)
(* handler h runs in a goroutine of its own and writes through a           *)
(* timeoutWriter, which looks at timedOut under its lock and then, without *)
(* the lock, calls the response.  Serving goes on when h is done or when   *)
(* the time is over, whichever select sees first.                          *)
(*                                                                         *)
(* A timed request has no body, so that a call of the response is one      *)
(* step; what a data race inside the response could do is not modelled.    *)
(***************************************************************************)
EXTENDS HttpServer

VARIABLE
    tw    \* the timeoutWriter and its goroutine, for each request

vars == <<svars, tw>>

\* at: "none", "run", in a call ("header", "write"), "done", or "crashed"
\* raced: h was in a call when the time ran out
\* late: what a write on the response does once the request is over
NewWriter ==
    [at |-> "none", n |-> 0, timedOut |-> FALSE, wroteHeader |-> FALSE, raced |-> FALSE,
     late |-> "refused"]

TInit == Init /\ tw = [i \in 1 .. MaxRequests |-> NewWriter]

\* ServeHTTP starts the goroutine.
Starts ==
    /\ pc = "timed" /\ tw[req.id].at = "none"
    /\ tw' = [tw EXCEPT ![req.id].at = "run"]
    /\ UNCHANGED svars

\* timeoutWriter.WriteHeader and Write, up to the unlock.
CallsWriteHeader(i, code) ==
    /\ tw[i].at = "run" /\ ~tw[i].timedOut /\ ~tw[i].wroteHeader
    /\ tw' = [tw EXCEPT ![i].at = "header", ![i].n = code, ![i].wroteHeader = TRUE]
    /\ UNCHANGED svars

CallsWrite(i, n) ==
    /\ tw[i].at = "run" /\ ~tw[i].timedOut
    /\ w.written + n <= MaxWritten
    /\ tw' = [tw EXCEPT ![i].at = "write", ![i].n = n]
    /\ UNCHANGED svars

\* WriteHeader on a response whose request has no body.
HeaderOn(v, code) == IF v.wroteHeader THEN v ELSE EndHeader(BeginHeader(v, code))
HeaderOut(v, code) == IF v.wroteHeader THEN <<>> ELSE HeaderTokens(HeaderOn(v, code))

PutReply(code, n) ==
    LET v == HeaderOn(w, code)
        toks == HeaderOut(w, code) \o Write(v, n).toks
    IN w' = Write(v, n).w /\ out' = out \o toks /\ held' = (held \/ toks # <<>>)

\* The call of the response, while it is still the current one.
Writes(i) ==
    /\ tw[i].at \in {"header", "write"} /\ req.id = i /\ conn = "open"
    /\ IF tw[i].at = "header" THEN PutReply(tw[i].n, 0) ELSE PutReply(200, tw[i].n)
    /\ tw' = [tw EXCEPT ![i].at = "run"]
    /\ UNCHANGED <<clientVars, pc, req, body, got, conn, call>>

\* The same behind the end of the request: the header is out; a chunked
\* response takes the write, into whatever is being written now, one with a
\* length refuses it.
WritesLate(i) ==
    /\ tw[i].at \in {"header", "write"} /\ req.id # i /\ conn = "open"
    /\ tw' = [tw EXCEPT ![i].at = "run"]
    /\ out' = IF tw[i].at = "write" /\ tw[i].late = "taken"
              THEN Append(out, Token("late", i, tw[i].n)) ELSE out
    /\ UNCHANGED <<clientVars, pc, req, body, got, w, held, conn, call>>

\* conn.close made conn.buf nil: a write panics in a goroutine without recover,
\* unless the response refuses it before.  (Behind a panic of another handler only
\* rwc is closed and the write would fail; the crash is allowed there too.)
WritesOnClosed(i) ==
    /\ tw[i].at \in {"header", "write"} /\ conn # "open"
    /\ LET refused == IF req.id = i THEN Write(w, tw[i].n).toks = <<>>
                      ELSE tw[i].late = "refused" IN
       tw' = [tw EXCEPT ![i].at = IF tw[i].at = "write" /\ ~refused THEN "crashed" ELSE "run"]
    /\ UNCHANGED svars

\* h returns and sends on done; behind a timeout nobody receives from it, and
\* the goroutine stays where it is.
Finishes(i) ==
    /\ tw[i].at = "run" /\ ~tw[i].timedOut
    /\ tw' = [tw EXCEPT ![i].at = "done"]
    /\ UNCHANGED svars

\* case <-done
Done ==
    /\ pc = "timed" /\ tw[req.id].at = "done"
    /\ pc' = "served"
    /\ UNCHANGED <<clientVars, req, body, got, replyVars, conn, call, tw>>

\* case <-h.timeout()
TimesOut ==
    /\ pc = "timed" /\ tw[req.id].at # "none"
    /\ tw' = [tw EXCEPT ![req.id].timedOut = TRUE,
                        ![req.id].raced = @ \/ tw[req.id].at \in {"header", "write"}]
    /\ IF tw[req.id].wroteHeader THEN UNCHANGED replyVars ELSE PutReply(503, 1)
    /\ pc' = "served"
    /\ UNCHANGED <<clientVars, req, body, got, conn, call>>

\* Back in serve.
Served ==
    /\ pc = "served" /\ FinishRequest
    /\ UNCHANGED <<clientVars, req, body, conn, tw>>

\* A new request makes a new response; the old one is left to its goroutine.
NewRequest ==
    /\ AcceptRequest \/ RefuseExpectation
    /\ tw' = IF req = Nil THEN tw
             ELSE [tw EXCEPT ![req.id].late = IF w.chunking THEN "taken" ELSE "refused"]

TimeoutStep ==
    \/ Starts \/ Done \/ TimesOut \/ Served
    \/ \E i \in 1 .. MaxRequests :
          \/ \E code \in Codes : CallsWriteHeader(i, code)
          \/ \E n \in WriteSizes : CallsWrite(i, n)
          \/ Writes(i) \/ WritesLate(i) \/ WritesOnClosed(i) \/ Finishes(i)

ServerStep ==
    \/ NewRequest \/ TimeoutStep
    \/ (ServeStep \/ HandlerStep) /\ UNCHANGED tw

Next == ServerStep \/ (ClientStep /\ UNCHANGED tw)

Spec == TInit /\ [][Next]_vars

-----------------------------------------------------------------------------
(***************************************************************************)
(* Fairness.  The serving goroutine runs on and the timer of a timed       *)
(* request fires; any other handler returns or panics at last; a client    *)
(* sends the rest of a request it began, or goes away.                     *)
(***************************************************************************)
Fairness ==
    /\ WF_vars(NewRequest) /\ WF_vars(ServeStep /\ UNCHANGED tw)
    /\ WF_vars(Starts \/ Done \/ TimesOut \/ Served)
    /\ SF_vars((HandlerReturns \/ HandlerPanics) /\ UNCHANGED tw)
    /\ WF_vars(conn = "open" /\ SendBody /\ UNCHANGED tw)

FairSpec == Spec /\ Fairness

-----------------------------------------------------------------------------
(***************************************************************************)
(* Properties.                                                             *)
(***************************************************************************)

\* The variables of the connection keep their types; a body reader never counts
\* below zero, and no handler is called for a request that was not sent.
TypeOK ==
    /\ sent \in 0 .. MaxRequests /\ client \in {"open", "failing", "gone"}
    /\ pc \in {"read", "handler", "timed", "served", "refuse", "drain", "closeBody", "write",
               "readFrom", "flush", "finish", "next", "stop"}
    /\ req = Nil \/ req.id \in 1 .. sent
    /\ body.n \in Nat /\ got \in Nat
    /\ w.status \in Codes \cup {0, 200, 400, 417, 503}
    /\ held \in BOOLEAN /\ conn \in {"open", "hijacked", "closed"}
    /\ DOMAIN tw = 1 .. MaxRequests

Raced == \E i \in 1 .. MaxRequests : tw[i].raced

\* The server reads a request where the client wrote one and a body where the
\* client wrote that request's body, however much of it the handler read, and
\* whether or not the client waited for "100 Continue".
StreamInSync ==
    in # <<>> /\ conn = "open" =>
        /\ pc = "read" => Head(in).kind = "head"
        /\ ~BodyStuck /\ pc \in {"handler", "drain", "closeBody"} => Head(in).id = req.id
        /\ body.at # "error"

\* The units of payload that the client takes from the tokens of a reply, and
\* the reply behind "100 Continue".
Payload(toks) ==
    LET upto[i \in 0 .. Len(toks)] ==
            IF i = 0 THEN 0
            ELSE upto[i - 1] + (IF toks[i].kind = "data" THEN toks[i].n ELSE 0)
    IN upto[Len(toks)]

FromHead(toks) == IF toks # <<>> /\ Head(toks).kind = "continue" THEN Tail(toks) ELSE toks

WellChunked(toks) ==
    /\ Len(toks) % 3 = 2
    /\ \A i \in DOMAIN toks :
         CASE i % 3 = 1 -> /\ toks[i].kind = "size"
                           /\ toks[i].n = IF i = Len(toks) - 1 THEN 0 ELSE toks[i + 1].n
           [] i % 3 = 2 -> toks[i].kind = IF i = Len(toks) THEN "crlf" ELSE "data"
           [] i % 3 = 0 -> toks[i].kind = "crlf"

\* When the server waits for another request, the client knows that it may send
\* one: by its own reading of the reply it found the end of the reply, got all
\* that the handler wrote, and was not told that the connection closes.  This
\* holds short of a call that was under way when a timeout struck.
ReplyIsDelimited ==
    pc = "read" /\ conn = "open" /\ req # Nil /\ ~Raced =>
        LET toks == FromHead(out)
            t == ResponseTransfer(req.r.method, toks[1])
            rest == SubSeq(toks, 3, Len(toks))
        IN /\ \A i \in DOMAIN out : out[i].kind = "continue" => i = 1
           /\ toks[2].kind = "end"
           /\ ~t.close
           /\ CASE t.body = "chunked" -> WellChunked(rest) /\ Payload(rest) = w.written
                [] t.body # "chunked" ->
                     /\ Payload(rest) = IF noBodyExpected(req.r.method) THEN 0 ELSE t.len
                     /\ \A i \in DOMAIN rest : rest[i].kind = "data"

\* The server never waits for the client with a reply in its buffer that the
\* client may be waiting for.
NothingHeldBack ==
    ~Raced /\ (pc = "read" \/ (pc = "closeBody" /\ call.then = "next")) => ~held

\* Hijacker: behind Hijack the server does not touch the connection, also when
\* the handler panics.
HijackedIsLeftAlone ==
    [][conn = "hijacked" => conn' = conn /\ out' = out
                            /\ (in' = in \/ HandlerReads \/ CloseStep \/ ClientStep)]_vars

\* Every request that was sent is read, unless the connection ended before.
RequestIsRead ==
    \A i \in 1 .. MaxRequests :
        sent >= i ~> conn # "open" \/ (req # Nil /\ req.id >= i)

\* TimeoutHandler: after a timeout, writes by h return ErrHandlerTimeout.
TimedOutWritesFail ==
    [][\A i \in 1 .. MaxRequests :
          tw[i].at = "write" /\ tw[i].timedOut => out' = out /\ tw'[i].at # "crashed"]_vars
=============================================================================
