---------------------------- MODULE ServerProofs ----------------------------
(***************************************************************************)
(* Theorems about a connection of the server, with timeoutHandler around   *)
(* some of its handlers.                                                   *)
(***************************************************************************)
EXTENDS TimeoutHandler, DataLemmas

-----------------------------------------------------------------------------
(***************************************************************************)
(* Where the goroutines are.  The handler of a timed request runs beside   *)
(* its own request only, until the time is over; if it is in a call then,  *)
(* the call races with what serve does next.  A call of WriteHeader goes   *)
(* back to where it came from, Body.Close to the handler or to the end of  *)
(* finishRequest.  A hijacked connection has left serve to the handler.    *)
(***************************************************************************)
Writer == [at : {"none", "run", "header", "write", "done", "crashed"}, n : Nat,
           timedOut : BOOLEAN, wroteHeader : BOOLEAN, raced : BOOLEAN,
           late : {"taken", "refused"}]

WritersTyped == tw \in [1 .. MaxRequests -> Writer]

WriterOK ==
    \A i \in 1 .. MaxRequests : tw[i].at \in {"run", "header", "write"} =>
        IF tw[i].timedOut THEN tw[i].at = "run" \/ tw[i].raced
        ELSE pc = "timed" /\ req.id = i

\* Where a caller of WriteHeader goes on.
Callback == {"handler", "write", "readFrom", "flush", "finish"}

CallOK == /\ pc = "drain" => call.then \in Callback
          /\ pc = "closeBody" => call.then \in {"handler", "next"}

HijackOK ==
    conn = "hijacked" => pc \in {"handler", "stop"} \/ (pc = "closeBody" /\ call.then = "handler")

\* The reply is flushed before serve waits for the client.
AtEndOfReply == pc \in {"read", "next"} \/ (pc = "closeBody" /\ call.then = "next")
Flushed == ~Raced /\ AtEndOfReply => ~held

ControlInv == WritersTyped /\ WriterOK /\ CallOK /\ HijackOK /\ Flushed

-----------------------------------------------------------------------------
\* Steps of serve and of a handler that is not timed meet no running timed handler.
LEMMA WritersStay ==
    ASSUME ControlInv, pc # "timed", UNCHANGED tw
    PROVE  WritersTyped' /\ WriterOK' /\ Raced' = Raced
<1>1. WritersTyped' /\ Raced' = Raced
  BY DEF ControlInv, WritersTyped, Raced
<1>2. WriterOK'
  BY DEF ControlInv, WriterOK
<1>3. QED
  BY <1>1, <1>2

LEMMA WithHeaderGoes ==
    ASSUME NEW v, NEW code, NEW then, NEW n, WithHeader(v, code, then, n)
    PROVE  call'.then = then /\ pc' \in {then, "drain"}
  BY DEF WithHeader

\* A call of WriteHeader for somebody who does not wait for the client.
LEMMA ControlWithHeader ==
    ASSUME ControlInv, pc # "timed", UNCHANGED <<conn, tw>>, conn # "hijacked",
           NEW v, NEW code, NEW then \in Callback, NEW n, WithHeader(v, code, then, n)
    PROVE  ControlInv'
<1>1. call'.then \in Callback /\ pc' \in Callback \cup {"drain"}
  BY WithHeaderGoes
<1>2. CallOK' /\ HijackOK' /\ Flushed'
  BY <1>1 DEF CallOK, HijackOK, Flushed, AtEndOfReply, Callback
<1>3. QED
  BY <1>2, WritersStay DEF ControlInv

LEMMA ControlServe ==
    ASSUME ControlInv, ServeStep, UNCHANGED tw
    PROVE  ControlInv'
<1>1. CASE Refuse
  <2>1. conn # "hijacked" /\ pc = "refuse"
    BY <1>1 DEF Refuse, ControlInv, HijackOK
  <2>2. QED
    BY <1>1, <2>1, ControlWithHeader DEF Refuse, Callback
<1>2. CASE ~Refuse
  <2>1. pc # "timed"
    BY <1>2 DEF ServeStep, RejectRequest, EndOfRequests, AtRequest, DrainStep, DrainDone, CloseStep, CloseDone, DoWrite, DoFlush, DoReadFrom,
       FinishBody, NextRequest
  <2>2. WritersTyped' /\ WriterOK' /\ Raced' = Raced
    BY <2>1, WritersStay
  <2>3. CASE RejectRequest \/ EndOfRequests
    <3>1. pc' = "stop" /\ conn' = "closed"
      BY <2>3 DEF RejectRequest, EndOfRequests
    <3>2. QED
      BY <2>2, <3>1 DEF ControlInv, CallOK, HijackOK, Flushed, AtEndOfReply
  <2>4. CASE DrainStep \/ CloseStep
    BY <2>2, <2>4 DEF DrainStep, CloseStep, replyVars, ControlInv, CallOK, HijackOK, Flushed,
       AtEndOfReply
  <2>5. CASE DrainDone
    <3>1. pc = "drain" /\ pc' = call.then /\ UNCHANGED <<conn, call>>
      BY <2>5 DEF DrainDone
    <3>2. QED
      BY <2>2, <3>1 DEF ControlInv, CallOK, HijackOK, Flushed, AtEndOfReply, Callback
  <2>6. CASE CloseDone
    <3>1. pc = "closeBody" /\ pc' = call.then /\ UNCHANGED <<conn, call, held>>
      BY <2>6 DEF CloseDone, replyVars
    <3>2. QED
      BY <2>2, <3>1 DEF ControlInv, CallOK, HijackOK, Flushed, AtEndOfReply
  <2>7. CASE DoWrite \/ DoFlush \/ DoReadFrom
    <3>1. pc \in {"write", "flush", "readFrom"} /\ pc' = "handler" /\ UNCHANGED conn
      BY <2>7 DEF DoWrite, DoFlush, DoReadFrom
    <3>2. QED
      BY <2>2, <3>1 DEF ControlInv, CallOK, HijackOK, Flushed, AtEndOfReply
  <2>8. CASE FinishBody
    <3>1. /\ pc = "finish" /\ pc' \in {"next", "closeBody"} /\ call'.then = "next"
          /\ held' = FALSE /\ UNCHANGED conn
      BY <2>8 DEF FinishBody
    <3>2. QED
      BY <2>2, <3>1 DEF ControlInv, CallOK, HijackOK, Flushed, AtEndOfReply
  <2>9. CASE NextRequest
    <3>1. /\ pc = "next" /\ pc' \in {"read", "stop"} /\ conn' \in {conn, "closed"}
          /\ UNCHANGED held
      BY <2>9 DEF NextRequest, replyVars
    <3>2. QED
      BY <2>2, <3>1 DEF ControlInv, CallOK, HijackOK, Flushed, AtEndOfReply
  <2>10. QED
    BY <1>2, <2>3, <2>4, <2>5, <2>6, <2>7, <2>8, <2>9 DEF ServeStep
<1>3. QED
  BY <1>1, <1>2

LEMMA ControlHandler ==
    ASSUME ControlInv, HandlerStep, UNCHANGED tw
    PROVE  ControlInv'
<1>1. ASSUME NEW code \in Codes, HandlerWriteHeader(code) PROVE ControlInv'
  BY <1>1, ControlWithHeader DEF HandlerWriteHeader, Handling, Callback
<1>2. ASSUME NEW n \in WriteSizes, HandlerWrite(n) PROVE ControlInv'
  BY <1>2, ControlWithHeader DEF HandlerWrite, Handling, Callback
<1>3. ASSUME NEW n \in WriteSizes, HandlerReadFrom(n) PROVE ControlInv'
  BY <1>3, ControlWithHeader DEF HandlerReadFrom, Handling, Callback
<1>4. CASE HandlerFlush
  BY <1>4, ControlWithHeader DEF HandlerFlush, Handling, Callback
<1>5. CASE HandlerReturns /\ conn # "hijacked"
  BY <1>5, ControlWithHeader DEF HandlerReturns, FinishRequest, Callback
<1>6. CASE \/ HandlerAsks \/ HandlerReads \/ HandlerReadsTooMuch \/ HandlerClosesBody
           \/ Hijack \/ HandlerPanics \/ (HandlerReturns /\ conn = "hijacked")
  <2>1. /\ pc = "handler"
        /\ pc' \in {"handler", "stop"} \/ (pc' = "closeBody" /\ call'.then = "handler")
    BY <1>6 DEF HandlerAsks, HandlerReads, HandlerReadsTooMuch, HandlerClosesBody, Hijack,
       HandlerPanics, HandlerReturns, Handling, NoCall
  <2>2. WritersTyped' /\ WriterOK'
    BY <2>1, WritersStay
  <2>3. QED
    BY <2>1, <2>2 DEF ControlInv, CallOK, HijackOK, Flushed, AtEndOfReply
<1>7. QED
  BY <1>1, <1>2, <1>3, <1>4, <1>5, <1>6 DEF HandlerStep

\* The writer of request i moves; what serve sees of it stays.
LEMMA WriterMoves ==
    ASSUME ControlInv, NEW i \in 1 .. MaxRequests, tw' \in [1 .. MaxRequests -> Writer],
           \A j \in 1 .. MaxRequests \ {i} : tw'[j] = tw[j],
           tw'[i].timedOut = tw[i].timedOut, tw'[i].raced = tw[i].raced,
           tw'[i].at \in {"run", "header", "write"} => tw[i].at \in {"run", "header", "write"},
           tw[i].timedOut => tw'[i].at \in {"run", "crashed"},
           UNCHANGED <<pc, req>>
    PROVE  WritersTyped' /\ WriterOK' /\ Raced' = Raced
<1>1. WritersTyped'
  BY DEF WritersTyped
<1>2. WriterOK'
  BY DEF ControlInv, WriterOK
<1>3. \A j \in 1 .. MaxRequests : tw'[j].raced = tw[j].raced
  OBVIOUS
<1>4. Raced' = Raced
  BY <1>3 DEF Raced
<1>5. QED
  BY <1>1, <1>2, <1>4

LEMMA WriterSteps ==
    ASSUME ControlInv, NEW i \in 1 .. MaxRequests,
           \/ \E code \in Codes : CallsWriteHeader(i, code)
           \/ \E n \in WriteSizes : CallsWrite(i, n)
           \/ Writes(i) \/ WritesLate(i) \/ WritesOnClosed(i) \/ Finishes(i)
    PROVE  /\ WritersTyped' /\ WriterOK' /\ Raced' = Raced
           /\ UNCHANGED <<pc, req, conn, call>>
           /\ UNCHANGED held \/ Writes(i)
<1>1. UNCHANGED <<pc, req, conn, call>> /\ (UNCHANGED held \/ Writes(i))
  BY DEF CallsWriteHeader, CallsWrite, Writes, WritesLate, WritesOnClosed, Finishes, svars
<1>2. tw[i] \in Writer /\ tw \in [1 .. MaxRequests -> Writer]
  BY DEF ControlInv, WritersTyped
<1>3. ASSUME NEW code \in Codes, CallsWriteHeader(i, code)
      PROVE  WritersTyped' /\ WriterOK' /\ Raced' = Raced
  <2>1. code \in Nat
    BY ServerAssumption
  <2>2. /\ tw[i].at = "run" /\ ~tw[i].timedOut
        /\ tw' = [tw EXCEPT ![i].at = "header", ![i].n = code, ![i].wroteHeader = TRUE]
    BY <1>3 DEF CallsWriteHeader
  <2>3. /\ tw' \in [1 .. MaxRequests -> Writer] /\ tw'[i].at = "header"
        /\ tw'[i].timedOut = tw[i].timedOut /\ tw'[i].raced = tw[i].raced
        /\ \A j \in 1 .. MaxRequests \ {i} : tw'[j] = tw[j]
    BY <1>2, <2>1, <2>2 DEF Writer
  <2>4. QED
    BY <1>1, <2>2, <2>3, WriterMoves
<1>4. ASSUME NEW n \in WriteSizes, CallsWrite(i, n)
      PROVE  WritersTyped' /\ WriterOK' /\ Raced' = Raced
  <2>1. n \in Nat
    BY ServerAssumption
  <2>2. /\ tw[i].at = "run" /\ ~tw[i].timedOut
        /\ tw' = [tw EXCEPT ![i].at = "write", ![i].n = n]
    BY <1>4 DEF CallsWrite
  <2>3. /\ tw' \in [1 .. MaxRequests -> Writer] /\ tw'[i].at = "write"
        /\ tw'[i].timedOut = tw[i].timedOut /\ tw'[i].raced = tw[i].raced
        /\ \A j \in 1 .. MaxRequests \ {i} : tw'[j] = tw[j]
    BY <1>2, <2>1, <2>2 DEF Writer
  <2>4. QED
    BY <1>1, <2>2, <2>3, WriterMoves
<1>5. CASE Writes(i) \/ WritesLate(i) \/ WritesOnClosed(i)
  <2>1. /\ tw[i].at \in {"header", "write"}
        /\ \E at \in {"run", "crashed"} : tw' = [tw EXCEPT ![i].at = at]
    BY <1>5 DEF Writes, WritesLate, WritesOnClosed
  <2>2. PICK at \in {"run", "crashed"} : tw' = [tw EXCEPT ![i].at = at]
    BY <2>1
  <2>3. /\ tw' \in [1 .. MaxRequests -> Writer] /\ tw'[i].at = at
        /\ tw'[i].timedOut = tw[i].timedOut /\ tw'[i].raced = tw[i].raced
        /\ \A j \in 1 .. MaxRequests \ {i} : tw'[j] = tw[j]
    BY <1>2, <2>2 DEF Writer
  <2>4. QED
    BY <1>1, <2>1, <2>3, WriterMoves
<1>6. CASE Finishes(i)
  <2>1. tw[i].at = "run" /\ ~tw[i].timedOut /\ tw' = [tw EXCEPT ![i].at = "done"]
    BY <1>6 DEF Finishes
  <2>2. /\ tw' \in [1 .. MaxRequests -> Writer] /\ tw'[i].at = "done"
        /\ tw'[i].timedOut = tw[i].timedOut /\ tw'[i].raced = tw[i].raced
        /\ \A j \in 1 .. MaxRequests \ {i} : tw'[j] = tw[j]
    BY <1>2, <2>1 DEF Writer
  <2>3. QED
    BY <1>1, <2>1, <2>2, WriterMoves
<1>7. QED
  BY <1>1, <1>3, <1>4, <1>5, <1>6

LEMMA ControlWriter ==
    ASSUME ControlInv, NEW i \in 1 .. MaxRequests,
           \/ \E code \in Codes : CallsWriteHeader(i, code)
           \/ \E n \in WriteSizes : CallsWrite(i, n)
           \/ Writes(i) \/ WritesLate(i) \/ WritesOnClosed(i) \/ Finishes(i)
    PROVE  ControlInv'
<1>1. /\ WritersTyped' /\ WriterOK' /\ Raced' = Raced
      /\ UNCHANGED <<pc, req, conn, call>>
      /\ UNCHANGED held \/ Writes(i)
  BY WriterSteps
<1>2. Writes(i) => Raced \/ pc = "timed"
  BY DEF Writes, ControlInv, WriterOK, Raced
<1>3. Flushed'
  BY <1>1, <1>2 DEF ControlInv, Flushed, AtEndOfReply
<1>4. QED
  BY <1>1, <1>3 DEF ControlInv, CallOK, HijackOK

LEMMA TimedOutWriter ==
    ASSUME tw \in [1 .. MaxRequests -> Writer], NEW i, NEW r \in BOOLEAN,
           tw' = [tw EXCEPT ![i].timedOut = TRUE, ![i].raced = r]
    PROVE  /\ tw' \in [1 .. MaxRequests -> Writer]
           /\ \A j \in 1 .. MaxRequests : IF j = i
                   THEN tw'[j].at = tw[j].at /\ tw'[j].timedOut = TRUE /\ tw'[j].raced = r
                   ELSE tw'[j] = tw[j]
  BY DEF Writer

\* Between the start of a timed handler and its end, or the end of its time.
LEMMA ControlTimed ==
    ASSUME ControlInv, Starts \/ Done \/ TimesOut \/ Served
    PROVE  ControlInv'
<1>1. tw \in [1 .. MaxRequests -> Writer] /\ \A j \in 1 .. MaxRequests : tw[j] \in Writer
  BY DEF ControlInv, WritersTyped
<1>2. CASE Starts
  <2>1. /\ pc = "timed" /\ tw' = [tw EXCEPT ![req.id].at = "run"]
        /\ UNCHANGED <<pc, req, conn, call>>
    BY <1>2 DEF Starts, svars
  <2>2. /\ tw' \in [1 .. MaxRequests -> Writer]
        /\ \A j \in 1 .. MaxRequests : IF j = req.id
                THEN tw'[j].at = "run" /\ tw'[j].timedOut = tw[j].timedOut
                ELSE tw'[j] = tw[j]
    BY <1>1, <2>1 DEF Writer
  <2>3. WritersTyped' /\ WriterOK'
    BY <2>1, <2>2 DEF ControlInv, WritersTyped, WriterOK
  <2>4. QED
    BY <2>1, <2>3 DEF ControlInv, CallOK, HijackOK, Flushed, AtEndOfReply
<1>3. CASE Done
  <2>1. /\ pc = "timed" /\ tw[req.id].at = "done" /\ pc' = "served"
        /\ UNCHANGED <<conn, tw>>
    BY <1>3 DEF Done
  <2>2. WritersTyped' /\ WriterOK'
    BY <2>1 DEF ControlInv, WritersTyped, WriterOK
  <2>3. QED
    BY <2>1, <2>2 DEF ControlInv, CallOK, HijackOK, Flushed, AtEndOfReply
<1>4. CASE TimesOut
  <2>1. /\ pc = "timed" /\ pc' = "served" /\ UNCHANGED conn
        /\ tw' = [tw EXCEPT ![req.id].timedOut = TRUE,
                            ![req.id].raced = @ \/ tw[req.id].at \in {"header", "write"}]
    BY <1>4 DEF TimesOut
  <2> DEFINE r == tw[req.id].raced \/ tw[req.id].at \in {"header", "write"}
  <2>2. /\ r \in BOOLEAN
        /\ tw' = [tw EXCEPT ![req.id].timedOut = TRUE, ![req.id].raced = r]
    BY <2>1
  <2> HIDE DEF r
  <2>3. /\ tw' \in [1 .. MaxRequests -> Writer]
        /\ \A j \in 1 .. MaxRequests : IF j = req.id
                THEN tw'[j].at = tw[j].at /\ tw'[j].timedOut = TRUE /\ tw'[j].raced = r
                ELSE tw'[j] = tw[j]
    BY <1>1, <2>2, TimedOutWriter
  <2>4. \A j \in 1 .. MaxRequests : tw[j].at \in {"run", "header", "write"} =>
           IF j = req.id THEN tw[j].at = "run" \/ r ELSE tw[j].timedOut
    BY <2>1 DEF ControlInv, WriterOK, r
  <2>5. WritersTyped' /\ WriterOK'
    BY <2>3, <2>4 DEF ControlInv, WritersTyped, WriterOK
  <2>6. QED
    BY <2>1, <2>5 DEF ControlInv, CallOK, HijackOK, Flushed, AtEndOfReply
<1>5. CASE Served
  <2>1. conn # "hijacked" /\ pc = "served"
    BY <1>5 DEF Served, ControlInv, HijackOK
  <2>2. QED
    BY <1>5, <2>1, ControlWithHeader DEF Served, FinishRequest, Callback
<1>6. QED
  BY <1>2, <1>3, <1>4, <1>5

LEMMA ControlNewRequest ==
    ASSUME ControlInv, NewRequest
    PROVE  ControlInv'
<1>1. /\ pc = "read" /\ pc' \in {"handler", "timed", "refuse"}
      /\ UNCHANGED conn /\ conn # "hijacked"
  BY DEF NewRequest, AcceptRequest, RefuseExpectation, AtRequest
<1>2. tw \in [1 .. MaxRequests -> Writer] /\ \A j \in 1 .. MaxRequests : tw[j] \in Writer
  BY DEF ControlInv, WritersTyped
<1>3. UNCHANGED tw \/ \E late \in {"taken", "refused"} : tw' = [tw EXCEPT ![req.id].late = late]
  BY DEF NewRequest
<1>4. /\ tw' \in [1 .. MaxRequests -> Writer]
      /\ \A j \in 1 .. MaxRequests : /\ tw'[j].at = tw[j].at /\ tw'[j].raced = tw[j].raced
                                     /\ tw'[j].timedOut = tw[j].timedOut
  <2>1. CASE UNCHANGED tw
    BY <1>2, <2>1
  <2>2. ASSUME NEW late \in {"taken", "refused"}, tw' = [tw EXCEPT ![req.id].late = late]
        PROVE  /\ tw' \in [1 .. MaxRequests -> Writer]
               /\ \A j \in 1 .. MaxRequests :
                     /\ tw'[j].at = tw[j].at /\ tw'[j].raced = tw[j].raced
                     /\ tw'[j].timedOut = tw[j].timedOut
    BY <1>2, <2>2 DEF Writer
  <2>3. QED
    BY <1>3, <2>1, <2>2
<1>5. WritersTyped' /\ WriterOK'
  BY <1>1, <1>4 DEF ControlInv, WritersTyped, WriterOK
<1>6. QED
  BY <1>1, <1>5 DEF ControlInv, CallOK, HijackOK, Flushed, AtEndOfReply

LEMMA ControlInit ==
    ASSUME TInit
    PROVE  ControlInv
<1>1. tw \in [1 .. MaxRequests -> Writer] /\ \A i \in 1 .. MaxRequests : tw[i].at = "none"
  BY DEF TInit, NewWriter, Writer
<1>2. QED
  BY <1>1 DEF TInit, Init, ControlInv, WritersTyped, WriterOK, CallOK, HijackOK, Flushed

LEMMA ControlNext ==
    ASSUME ControlInv, [Next]_vars
    PROVE  ControlInv'
<1>1. CASE NewRequest
  BY <1>1, ControlNewRequest
<1>2. CASE TimeoutStep
  BY <1>2, ControlTimed, ControlWriter DEF TimeoutStep
<1>3. CASE (ServeStep \/ HandlerStep) /\ UNCHANGED tw
  BY <1>3, ControlServe, ControlHandler
<1>4. CASE UNCHANGED vars \/ (ClientStep /\ UNCHANGED tw)
  <2>1. UNCHANGED <<pc, req, held, conn, call, tw>>
    BY <1>4 DEF ClientStep, SendHead, SendBody, ClientGone, replyVars, vars, svars
  <2>2. QED
    BY <2>1 DEF ControlInv, WritersTyped, WriterOK, CallOK, HijackOK, Flushed, AtEndOfReply,
       Raced
<1>5. QED
  BY <1>1, <1>2, <1>3, <1>4 DEF Next, ServerStep

LEMMA ControlInvariant == Spec => []ControlInv
  BY ControlInit, ControlNext, PTL DEF Spec

\* The server never waits for a request, nor for the rest of a body behind its reply,
\* with a part of that reply in conn.buf: finishRequest flushes before it calls
\* Body.Close, and nothing but a call that a timeout overtook writes behind it.
THEOREM NothingIsHeldBack == Spec => []NothingHeldBack
<1>1. ControlInv => NothingHeldBack
  BY DEF ControlInv, Flushed, AtEndOfReply, NothingHeldBack
<1>2. QED
  BY <1>1, ControlInvariant, PTL

\* Once a handler has hijacked the connection neither serve, nor a late write of a
\* timed-out handler, nor the recovery from a panic touches it, whatever the handler
\* does before it returns.
THEOREM HijackedStaysAlone == Spec => HijackedIsLeftAlone
<1> DEFINE P == conn = "hijacked" => /\ conn' = conn /\ out' = out
                                     /\ (in' = in \/ HandlerReads \/ CloseStep \/ ClientStep)
<1>1. ASSUME ControlInv, [Next]_vars PROVE [P]_vars
  <2>1. SUFFICES ASSUME conn = "hijacked", Next PROVE P
    BY <1>1
  <2>2. pc \in {"handler", "stop", "closeBody"}
    BY <1>1, <2>1 DEF ControlInv, HijackOK
  <2>3. CASE ServeStep
    BY <2>1, <2>2, <2>3 DEF ServeStep, RejectRequest, EndOfRequests, AtRequest, DrainStep, DrainDone, CloseStep, CloseDone, DoWrite, DoFlush,
       DoReadFrom, Refuse, FinishBody, NextRequest, clientVars, replyVars
  <2>4. CASE HandlerStep
    BY <2>1, <2>2, <2>4 DEF HandlerStep, HandlerWriteHeader, HandlerWrite, HandlerReadFrom,
       HandlerFlush, HandlerAsks, HandlerReads, HandlerReadsTooMuch, HandlerClosesBody, Hijack,
       HandlerPanics, HandlerReturns, Handling, clientVars, replyVars
  <2>5. CASE TimeoutStep
    BY <2>1, <2>2, <2>5 DEF TimeoutStep, Starts, Done, TimesOut, Served, CallsWriteHeader,
       CallsWrite, Writes, WritesLate, WritesOnClosed, Finishes, svars
  <2>6. CASE NewRequest \/ ClientStep
    BY <2>1, <2>6 DEF NewRequest, AcceptRequest, RefuseExpectation, AtRequest, ClientStep
  <2>7. QED
    BY <2>1, <2>3, <2>4, <2>5, <2>6 DEF Next, ServerStep
<1>2. QED
  BY <1>1, ControlInvariant, PTL DEF Spec, HijackedIsLeftAlone

-----------------------------------------------------------------------------
(***************************************************************************)
(* Types.  The response is a record whose status is 0 or a code; a reader  *)
(* of a chunked body stands at data only while the chunk has some left.    *)
(***************************************************************************)
StatusCode == Codes \cup {0, 200, 400, 417, 503}

ResponseFields == {"wroteHeader", "wroteContinue", "chunking", "written", "contentLength",
                   "status", "needSniff", "sniffed", "closeAfterReply", "limitHit", "header"}

IsResponse(v) == DOMAIN v = ResponseFields /\ v.status \in StatusCode

ReplyTyped == IsResponse(w) /\ held \in BOOLEAN

LEMMA ResponseChanges ==
    ASSUME NEW v, IsResponse(v)
    PROVE  /\ \A code \in StatusCode : IsResponse(BeginHeader(v, code))
           /\ IsResponse(EndHeader(v)) /\ IsResponse(requestTooLarge(v))
           /\ IsResponse(DrainedTooMuch(v)) /\ IsResponse(Finishing(v)) /\ IsResponse(Sniff(v))
<1>1. \A code \in StatusCode : IsResponse(BeginHeader(v, code))
  BY DEF BeginHeader, IsResponse, ResponseFields
<1>2. IsResponse(EndHeader(v))
  BY DEF EndHeader, IsResponse, ResponseFields
<1>3. IsResponse(requestTooLarge(v)) /\ IsResponse(DrainedTooMuch(v))
  BY DEF requestTooLarge, DrainedTooMuch, IsResponse, ResponseFields
<1>4. IsResponse(Finishing(v))
  BY DEF Finishing, IsResponse, ResponseFields
<1>5. IsResponse(Sniff(v))
  BY DEF Sniff, IsResponse, ResponseFields
<1>6. QED
  BY <1>1, <1>2, <1>3, <1>4, <1>5

LEMMA WriteKeepsResponse ==
    ASSUME NEW v, IsResponse(v), NEW n
    PROVE  IsResponse(Write(v, n).w)
  BY DEF Write, Sniff, IsResponse, ResponseFields

LEMMA HeaderTyped ==
    ASSUME ReplyTyped, NEW v, IsResponse(v), NEW code \in StatusCode, NEW then, NEW n,
           WithHeader(v, code, then, n)
    PROVE  ReplyTyped' /\ got' = 0
<1>1. IsResponse(BeginHeader(v, code)) /\ IsResponse(EndHeader(BeginHeader(v, code)))
  BY ResponseChanges
<1>2. got' = 0
  BY DEF WithHeader
<1>3. CASE w' = v /\ UNCHANGED held
  BY <1>2, <1>3 DEF ReplyTyped
<1>4. CASE w' = BeginHeader(v, code) /\ UNCHANGED held
  BY <1>1, <1>2, <1>4 DEF ReplyTyped
<1>5. CASE w' = EndHeader(BeginHeader(v, code)) /\ held' = TRUE
  BY <1>1, <1>2, <1>5 DEF ReplyTyped
<1>6. QED
  BY <1>3, <1>4, <1>5 DEF WithHeader, PutHeader

LEMMA PutReplyTyped ==
    ASSUME ReplyTyped, NEW code \in StatusCode, NEW n, PutReply(code, n)
    PROVE  ReplyTyped'
<1>1. IsResponse(HeaderOn(w, code))
  BY ResponseChanges DEF HeaderOn, ReplyTyped
<1>2. /\ w' = Write(HeaderOn(w, code), n).w
      /\ held' \in BOOLEAN
  BY DEF PutReply
<1>3. QED
  BY <1>1, <1>2, WriteKeepsResponse DEF ReplyTyped

LEMMA PutWriteTyped ==
    ASSUME ReplyTyped, NEW n, PutWrite(w, n)
    PROVE  ReplyTyped'
<1>1. w' = Write(w, n).w /\ held' \in BOOLEAN
  BY DEF PutWrite
<1>2. QED
  BY <1>1, WriteKeepsResponse DEF ReplyTyped


-----------------------------------------------------------------------------
(***************************************************************************)
(* The wire.  What a step does to the tokens on their way, to the request  *)
(* and to the reader of its body is one of six things: nothing, a token    *)
(* for the body, the end of reading the body, a request, a request that is *)
(* not one, or a step of the client.                                       *)
(***************************************************************************)
inputVars == <<in, sent, unsent, client, req, body>>

ReadsBody == TakeToken /\ UNCHANGED <<sent, unsent, client, req>>

ClosesBody ==
    /\ BodyStuck /\ body' = [body EXCEPT !.closed = TRUE]
    /\ UNCHANGED <<clientVars, req>>

ReadsRequest ==
    /\ AtRequest /\ Head(in).kind = "head" /\ ~Malformed(Head(in))
    /\ in' = Tail(in) /\ req' = Parse(Head(in)) /\ body' = RequestTransfer(Head(in)).body
    /\ UNCHANGED <<sent, unsent, client, conn>>

LEMMA InputEffect ==
    ASSUME [Next]_vars, got \in Nat
    PROVE  UNCHANGED inputVars \/ ReadsBody \/ ClosesBody \/ ReadsRequest \/ RejectRequest
           \/ ClientStep
<1>1. CASE UNCHANGED vars
  BY <1>1 DEF vars, svars, inputVars
<1>2. CASE AcceptRequest \/ RefuseExpectation
  BY <1>2 DEF AcceptRequest, RefuseExpectation, BeginRequest, ReadsRequest, AtRequest
<1>3. CASE DrainStep \/ CloseStep \/ HandlerReads
  BY <1>3 DEF DrainStep, CloseStep, HandlerReads, ReadsBody
<1>4. CASE DrainDone \/ CloseDone
  BY <1>4, ServerAssumption DEF DrainDone, CloseDone, ClosesBody, inputVars, clientVars
<1>5. CASE EndOfRequests \/ DoWrite \/ DoFlush \/ DoReadFrom \/ Refuse \/ FinishBody \/ NextRequest
  BY <1>5 DEF EndOfRequests, DoWrite, DoFlush, DoReadFrom, Refuse, FinishBody, NextRequest,
     inputVars, clientVars
<1>6. CASE HandlerStep /\ ~HandlerReads
  BY <1>6 DEF HandlerStep, HandlerWriteHeader, HandlerWrite, HandlerReadFrom, HandlerFlush,
     HandlerAsks, HandlerReadsTooMuch, HandlerClosesBody, Hijack, HandlerPanics, HandlerReturns,
     inputVars, clientVars
<1>7. CASE TimeoutStep
  BY <1>7 DEF TimeoutStep, Starts, Done, TimesOut, Served, CallsWriteHeader, CallsWrite, Writes,
     WritesLate, WritesOnClosed, Finishes, svars, inputVars, clientVars
<1>8. QED
  BY <1>1, <1>2, <1>3, <1>4, <1>5, <1>6, <1>7 DEF Next, ServerStep, NewRequest, ServeStep


\* The tokens of the requests 1 .. s.  Of a head the server looks at the fields that
\* declare the length of the body.
Part(s) == [kind : {"size", "byte", "crlf"}, id : 1 .. s, n : Nat]
HeadOf(s) == [kind : {"head"}, id : 1 .. s, n : {0}, r : UNION Range(Requests), cl : Int,
              trailer : {{}}, te : {<<>>, <<"chunked">>, <<"gzip">>}]
Wire(s) == Part(s) \cup HeadOf(s)

WireTyped ==
    /\ sent \in 0 .. MaxRequests /\ client \in {"open", "failing", "gone"}
    /\ in \in Seq(Wire(sent)) /\ unsent \in Seq(Part(sent))

\* A reader inside a chunk has some of it left.
Reader(b) ==
    /\ b \in [kind : {"limited", "chunked"}, n : Nat,
              at : {"data", "size", "crlf", "trailer", "error"}, end : BOOLEAN, closed : BOOLEAN]
    /\ b.kind = "limited" => b.at = "data"
    /\ b.kind = "chunked" /\ b.at = "data" => b.n # 0

RequestTyped == req = Nil \/ req.id \in 1 .. sent

InputTyped == WireTyped /\ Reader(body) /\ RequestTyped

LEMMA NumberOfRequests == MaxRequests \in Nat
  BY ServerAssumption, LenProperties DEF MaxRequests

LEMMA WireGrows ==
    ASSUME NEW s \in Nat, NEW t \in Nat, s <= t
    PROVE  Part(s) \subseteq Part(t) /\ Wire(s) \subseteq Wire(t)
<1>1. 1 .. s \subseteq 1 .. t
  OBVIOUS
<1>2. Part(s) \subseteq Part(t)
  BY <1>1 DEF Part
<1>3. HeadOf(s) \subseteq HeadOf(t)
  BY <1>1 DEF HeadOf
<1>4. QED
  BY <1>2, <1>3 DEF Wire

\* What readTransfer makes of a header is a reader, whatever the header says.
LEMMA TransferReader ==
    ASSUME NEW tok, tok.cl \in Int
    PROVE  Reader(RequestTransfer(tok).body) /\ ~RequestTransfer(tok).body.closed
<1> DEFINE te == fixTransferEncoding("GET", tok.te)
           n == fixLength(FALSE, 200, "GET", tok.cl, te)
<1> HIDE DEF te
<1>1. n \in Int
  BY DEF fixLength
<1> HIDE DEF n
<1>2. RequestTransfer(tok).body = IF te = "chunked" THEN BodyReader("chunked", 0)
                                  ELSE BodyReader("limited", IF n > 0 THEN n ELSE 0)
  BY DEF RequestTransfer, te, n
<1>3. Reader(BodyReader("chunked", 0)) /\ ~BodyReader("chunked", 0).closed
  BY DEF BodyReader, Reader
<1>4. \A k \in Nat : Reader(BodyReader("limited", k)) /\ ~BodyReader("limited", k).closed
  BY DEF BodyReader, Reader
<1>5. QED
  BY <1>1, <1>2, <1>3, <1>4

\* One token for a reader that is not at its end.
LEMMA BodyStepReader ==
    ASSUME NEW b, Reader(b), ~AtEnd(b), b.at # "error", NEW tok, tok.n \in Nat
    PROVE  Reader(BodyStep(b, tok)) /\ BodyStep(b, tok).closed = b.closed
<1>1. CASE b.at = "data"
  <2>1. BodyStep(b, tok) = ReadUnit(b) /\ b.n # 0
    BY <1>1 DEF BodyStep, AtEnd, Reader
  <2>2. b.n - 1 \in Nat /\ (b.n # 1 => b.n - 1 # 0)
    BY <2>1 DEF Reader
  <2>3. QED
    BY <1>1, <2>1, <2>2 DEF ReadUnit, Reader
<1>2. CASE b.at = "size"
  BY <1>2 DEF BodyStep, BeginChunk, Reader
<1>3. CASE b.at = "crlf"
  BY <1>3 DEF BodyStep, Reader
<1>4. CASE b.at = "trailer"
  BY <1>4 DEF BodyStep, readTrailer, Reader
<1>5. QED
  BY <1>1, <1>2, <1>3, <1>4 DEF Reader


\* The requests that clients send.
LEMMA RequestFields ==
    ASSUME NEW r \in UNION Range(Requests)
    PROVE  /\ r.proto \in {"1.0", "1.1"} /\ r.body \in Nat \cup {NoBody} /\ r.declared \in Int
           /\ r.fault \in {"no", "malformed", "coding"}
<1>1. PICK i \in DOMAIN Requests : r \in Requests[i]
  BY DEF Range
<1>2. QED
  BY <1>1, ServerAssumption, ElementOfSeq, LenProperties

LEMMA WriterFields ==
    ASSUME NEW r \in UNION Range(Requests)
    PROVE  /\ newTransferWriter(r).body \in Nat \cup {NoBody}
           /\ newTransferWriter(r).len \in Int
           /\ newTransferWriter(r).chunked \in BOOLEAN
           /\ newTransferWriter(r).chunked => newTransferWriter(r).body # NoBody
<1>1. r.body \in Nat \cup {NoBody} /\ r.declared \in Int
  BY RequestFields
<1> DEFINE probe == r.body # NoBody /\ r.proto = "1.1" /\ r.declared = 0
           body1 == IF probe /\ r.body = 0 THEN NoBody ELSE r.body
           len1 == IF probe /\ r.body > 0 THEN -1 ELSE r.declared
           chunked1 == body1 # NoBody /\ r.proto = "1.1" /\ len1 < 0
<1>2. body1 \in Nat \cup {NoBody} /\ len1 \in Int
  BY <1>1
<1>3. /\ newTransferWriter(r).body = body1 /\ newTransferWriter(r).chunked = chunked1
      /\ newTransferWriter(r).len = IF ~chunked1 /\ body1 = NoBody THEN 0 ELSE len1
  BY DEF newTransferWriter
<1>4. chunked1 \in BOOLEAN /\ (chunked1 => body1 # NoBody)
  OBVIOUS
<1> HIDE DEF body1, len1, chunked1
<1>5. newTransferWriter(r).len \in Int
  <2>1. CASE ~chunked1 /\ body1 = NoBody
    BY <1>3, <2>1
  <2>2. CASE ~(~chunked1 /\ body1 = NoBody)
    BY <1>2, <1>3, <2>2
  <2>3. QED
    BY <2>1, <2>2
<1>6. QED
  BY <1>2, <1>3, <1>4, <1>5
\* The body of a request, as the client writes it.
Framed(t) == IF t.len >= 0 /\ t.len < t.body THEN t.len ELSE t.body

LEMMA ConcatAt ==
    ASSUME NEW S, NEW s \in Seq(S), NEW t \in Seq(S)
    PROVE  /\ s \o t \in Seq(S) /\ Len(s \o t) = Len(s) + Len(t)
           /\ Len(s) \in Nat /\ Len(t) \in Nat
           /\ \A i \in 1 .. Len(s) : (s \o t)[i] = s[i]
           /\ \A j \in 1 .. Len(t) : (s \o t)[Len(s) + j] = t[j]
<1>1. Len(s) \in Nat /\ Len(t) \in Nat
  BY LenProperties
<1>2. /\ \A i \in 1 .. Len(s) : i \in 1 .. Len(s) + Len(t) /\ i <= Len(s)
      /\ \A j \in 1 .. Len(t) : /\ Len(s) + j \in 1 .. Len(s) + Len(t)
                                /\ ~(Len(s) + j <= Len(s)) /\ (Len(s) + j) - Len(s) = j
  BY <1>1
<1>3. QED
  BY <1>1, <1>2, ConcatProperties

LEMMA ChunkTokenAt ==
    ASSUME NEW id, NEW n \in Nat
    PROVE  /\ ChunkTokens(id, n) \in Seq([kind : {"size", "byte", "crlf"}, id : {id}, n : Nat])
           /\ Len(ChunkTokens(id, n)) = 3 * n + 2
           /\ \A i \in 1 .. 3 * n :
                 /\ i % 3 = 1 => ChunkTokens(id, n)[i] = Token("size", id, 1)
                 /\ i % 3 = 2 => ChunkTokens(id, n)[i] = Token("byte", id, 1)
                 /\ i % 3 = 0 => ChunkTokens(id, n)[i] = Token("crlf", id, 0)
           /\ ChunkTokens(id, n)[3 * n + 1] = Token("size", id, 0)
           /\ ChunkTokens(id, n)[3 * n + 2] = Token("crlf", id, 0)
<1> DEFINE S == [kind : {"size", "byte", "crlf"}, id : {id}, n : Nat]
           m == 3 * n
           f == [i \in 1 .. m |-> CASE i % 3 = 1 -> Token("size", id, 1)
                                    [] i % 3 = 2 -> Token("byte", id, 1)
                                    [] i % 3 = 0 -> Token("crlf", id, 0)]
           g == <<Token("size", id, 0), Token("crlf", id, 0)>>
<1>1. m \in Nat
  OBVIOUS
<1>2. g \in Seq(S) /\ Len(g) = 2 /\ g[1] = Token("size", id, 0) /\ g[2] = Token("crlf", id, 0)
  BY DEF Token
<1>3. f \in Seq(S) /\ Len(f) = m
  <2>1. \A i \in 1 .. m : i % 3 \in {0, 1, 2}
    BY <1>1
  <2>2. f \in [1 .. m -> S]
    BY <2>1 DEF Token
  <2> HIDE DEF f, S, m
  <2>3. QED
    BY <1>1, <2>2, SeqDef, LenProperties
<1>4. ChunkTokens(id, n) = f \o g
  BY DEF ChunkTokens
<1> HIDE DEF m, f, g, S
<1>5. /\ f \o g \in Seq(S) /\ Len(f \o g) = m + 2
      /\ \A i \in 1 .. m : (f \o g)[i] = f[i]
      /\ (f \o g)[m + 1] = g[1] /\ (f \o g)[m + 2] = g[2]
  <2>1. ASSUME NEW s \in Seq(S), NEW t \in Seq(S), Len(s) = m, Len(t) = 2
        PROVE  /\ s \o t \in Seq(S) /\ Len(s \o t) = m + 2
               /\ \A i \in 1 .. m : (s \o t)[i] = s[i]
               /\ (s \o t)[m + 1] = t[1] /\ (s \o t)[m + 2] = t[2]
    <3>1. /\ s \o t \in Seq(S) /\ Len(s \o t) = Len(s) + Len(t)
          /\ \A i \in 1 .. Len(s) : (s \o t)[i] = s[i]
          /\ \A j \in 1 .. Len(t) : (s \o t)[Len(s) + j] = t[j]
      BY ConcatAt
    <3>2. 1 \in 1 .. Len(t) /\ 2 \in 1 .. Len(t)
      BY <2>1
    <3>3. (s \o t)[m + 1] = t[1] /\ (s \o t)[m + 2] = t[2]
      <4>1. (s \o t)[Len(s) + 1] = t[1] /\ (s \o t)[Len(s) + 2] = t[2]
        BY <3>1, <3>2
      <4>2. QED
        BY <4>1, <2>1
    <3>4. QED
      BY <3>1, <3>3, <2>1
  <2>2. QED
    BY <1>2, <1>3, <2>1
<1>6. \A i \in 1 .. m : /\ i % 3 = 1 => f[i] = Token("size", id, 1)
                        /\ i % 3 = 2 => f[i] = Token("byte", id, 1)
                        /\ i % 3 = 0 => f[i] = Token("crlf", id, 0)
  BY DEF f
<1>7. QED
  BY <1>2, <1>4, <1>5, <1>6 DEF m, S

LEMMA PlainTokens ==
    ASSUME NEW id, NEW n \in Nat
    PROVE  /\ [i \in 1 .. n |-> Token("byte", id, 1)]
                 \in Seq([kind : {"size", "byte", "crlf"}, id : {id}, n : Nat])
           /\ Len([i \in 1 .. n |-> Token("byte", id, 1)]) = n
<1>1. [i \in 1 .. n |-> Token("byte", id, 1)]
         \in [1 .. n -> [kind : {"size", "byte", "crlf"}, id : {id}, n : Nat]]
  BY DEF Token
<1>2. QED
  BY <1>1, SeqDef, LenProperties


LEMMA BodyTokensTyped ==
    ASSUME NEW r \in UNION Range(Requests), NEW s \in Nat \ {0}
    PROVE  BodyTokens(s, newTransferWriter(r)) \in Seq(Part(s))
<1> DEFINE t == newTransferWriter(r)
           S == [kind : {"size", "byte", "crlf"}, id : {s}, n : Nat]
<1>1. t.body \in Nat \cup {NoBody} /\ t.len \in Int /\ t.chunked \in BOOLEAN
  BY WriterFields
<1>2. S \subseteq Part(s)
  BY DEF Part
<1> HIDE DEF t
<1>3. BodyTokens(s, t) \in Seq(S)
  <2>1. CASE t.body = NoBody
    BY <2>1 DEF BodyTokens
  <2>2. CASE t.body # NoBody /\ t.chunked
    BY <1>1, <2>2, ChunkTokenAt DEF BodyTokens
  <2>3. CASE t.body # NoBody /\ ~t.chunked
    <3>1. Framed(t) \in Nat
      BY <1>1, <2>3 DEF Framed
    <3>2. BodyTokens(s, t) = [i \in 1 .. Framed(t) |-> Token("byte", s, 1)]
      BY <2>3 DEF BodyTokens, Framed
    <3>3. QED
      BY <3>1, <3>2, PlainTokens
  <2>4. QED
    BY <1>1, <2>1, <2>2, <2>3
<1>4. QED
  BY <1>2, <1>3, SeqMonotonic DEF t

LEMMA HeadTyped ==
    ASSUME NEW r \in UNION Range(Requests), NEW s \in Nat \ {0}
    PROVE  Head11(r, s) \in HeadOf(s)
<1> DEFINE t == newTransferWriter(r)
           h == TransferHeader(t, r.method)
<1>1. t.len \in Int
  BY WriterFields
<1> HIDE DEF t
<1>2. h.cl \in Int /\ h.te \in {<<>>, <<"chunked">>}
  BY <1>1 DEF TransferHeader, NoLength, BadLength
<1>3. Head11(r, s) = [kind |-> "head", id |-> s, n |-> 0, r |-> r, cl |-> h.cl, trailer |-> {},
                      te |-> IF r.fault = "coding" THEN <<"gzip">> ELSE h.te]
  BY DEF Head11, t
<1> HIDE DEF h
<1>4. s \in 1 .. s
  OBVIOUS
<1>5. QED
  BY <1>2, <1>3, <1>4 DEF HeadOf

LEMMA SendHeadTyped ==
    ASSUME InputTyped, NEW r \in UNION Range(Requests), SendHead(r)
    PROVE  InputTyped'
<1>1. /\ sent \in Nat /\ sent' = sent + 1 /\ sent' \in 0 .. MaxRequests /\ sent' \in Nat \ {0}
      /\ sent <= sent'
  BY NumberOfRequests DEF SendHead, InputTyped, WireTyped
<1>2. in \in Seq(Wire(sent'))
  BY <1>1, WireGrows, SeqMonotonic DEF InputTyped, WireTyped
<1>3. in' = Append(in, Head11(r, sent')) /\ unsent' = BodyTokens(sent', newTransferWriter(r))
  BY DEF SendHead
<1>4. in' \in Seq(Wire(sent'))
  BY <1>1, <1>2, <1>3, HeadTyped, AppendProperties DEF Wire
<1>5. unsent' \in Seq(Part(sent'))
  BY <1>1, <1>3, BodyTokensTyped
<1>6. client' \in {"open", "failing", "gone"} /\ UNCHANGED <<req, body>>
  BY DEF SendHead, InputTyped, WireTyped
<1>7. QED
  BY <1>1, <1>4, <1>5, <1>6 DEF InputTyped, WireTyped, RequestTyped

LEMMA TokenFields ==
    ASSUME NEW s, NEW tok \in Wire(s)
    PROVE  /\ tok.id \in 1 .. s /\ tok.n \in Nat
           /\ tok.kind = "head" => tok \in HeadOf(s) /\ tok.cl \in Int
  BY DEF Wire, Part, HeadOf

LEMMA InputTypedNext ==
    ASSUME InputTyped, [Next]_vars, got \in Nat
    PROVE  InputTyped'
<1>1. CASE UNCHANGED inputVars
  BY <1>1 DEF inputVars, InputTyped, WireTyped, RequestTyped
<1>2. CASE ReadsBody
  <2>1. Head(in) \in Wire(sent) /\ in' \in Seq(Wire(sent))
    BY <1>2, ReceiveType DEF ReadsBody, TakeToken, InputTyped, WireTyped
  <2>2. Reader(body')
    BY <1>2, <2>1, TokenFields, BodyStepReader DEF ReadsBody, TakeToken, InputTyped, BodyStuck
  <2>3. QED
    BY <1>2, <2>1, <2>2 DEF ReadsBody, InputTyped, WireTyped, RequestTyped
<1>3. CASE ClosesBody
  BY <1>3 DEF ClosesBody, clientVars, InputTyped, WireTyped, RequestTyped, Reader
<1>4. CASE ReadsRequest
  <2>1. Head(in) \in Wire(sent) /\ in' \in Seq(Wire(sent))
    BY <1>4, ReceiveType DEF ReadsRequest, AtRequest, InputTyped, WireTyped
  <2>2. Reader(body') /\ req'.id \in 1 .. sent
    BY <1>4, <2>1, TokenFields, TransferReader DEF ReadsRequest, Parse
  <2>3. QED
    BY <1>4, <2>1, <2>2 DEF ReadsRequest, InputTyped, WireTyped, RequestTyped
<1>5. CASE RejectRequest
  BY <1>5, ReceiveType DEF RejectRequest, AtRequest, InputTyped, WireTyped, RequestTyped
<1>6. CASE ClientStep
  <2>1. CASE \E r \in UNION Range(Requests) : SendHead(r)
    BY <2>1, SendHeadTyped
  <2>2. CASE SendBody
    <3>1. unsent \in Seq(Wire(sent)) /\ in \in Seq(Wire(sent))
      BY SeqMonotonic DEF InputTyped, WireTyped, Wire
    <3>2. in' \in Seq(Wire(sent)) /\ unsent' = <<>> /\ client' \in {client, "gone"}
      BY <2>2, <3>1, ConcatAt DEF SendBody
    <3>3. QED
      BY <2>2, <3>2 DEF SendBody, InputTyped, WireTyped, RequestTyped
  <2>3. CASE ClientGone
    BY <2>3 DEF ClientGone, InputTyped, WireTyped, RequestTyped
  <2>4. QED
    BY <1>6, <2>1, <2>2, <2>3 DEF ClientStep
<1>7. QED
  BY <1>1, <1>2, <1>3, <1>4, <1>5, <1>6, InputEffect


\* The rest of the state.  A status that waits in a timed handler's call is a code.
Place == {"read", "handler", "timed", "served", "refuse", "drain", "closeBody", "write",
          "readFrom", "flush", "finish", "next", "stop"}

PlaceTyped == pc \in Place /\ conn \in {"open", "hijacked", "closed"} /\ got \in Nat

CodesTyped == \A i \in 1 .. MaxRequests : tw[i].at = "header" => tw[i].n \in Codes

ReplyInv == ReplyTyped /\ PlaceTyped /\ CodesTyped

LEMMA HeaderStepTyped ==
    ASSUME ReplyInv, NEW v, IsResponse(v), NEW code \in StatusCode,
           NEW then \in Callback, NEW n, WithHeader(v, code, then, n), UNCHANGED <<conn, tw>>
    PROVE  ReplyInv'
<1>1. ReplyTyped' /\ got' = 0
  BY HeaderTyped DEF ReplyInv
<1>2. pc' \in Place
  BY WithHeaderGoes DEF Callback, Place
<1>3. QED
  BY <1>1, <1>2 DEF ReplyInv, PlaceTyped, CodesTyped

LEMMA ReplyServe ==
    ASSUME ReplyInv, ControlInv, ServeStep, UNCHANGED tw
    PROVE  ReplyInv'
<1>1. CASE Refuse
  <2>1. w.status \in StatusCode /\ IsResponse(w) /\ "finish" \in Callback
    BY DEF ReplyInv, ReplyTyped, IsResponse, Callback
  <2>2. QED
    BY <1>1, <2>1, HeaderStepTyped DEF Refuse
<1>2. CASE RejectRequest \/ EndOfRequests \/ DrainStep \/ CloseStep \/ NextRequest
  <2>1. UNCHANGED <<w, held>> /\ got' \in {got, got + 1}
    BY <1>2 DEF RejectRequest, EndOfRequests, DrainStep, CloseStep, NextRequest, replyVars
  <2>2. pc' \in {pc, "read", "stop"} /\ conn' \in {conn, "closed"}
    BY <1>2 DEF RejectRequest, EndOfRequests, DrainStep, CloseStep, NextRequest
  <2>3. QED
    BY <2>1, <2>2 DEF ReplyInv, ReplyTyped, PlaceTyped, CodesTyped, Place
<1>3. CASE DrainDone
  <2>1. pc' \in Place /\ UNCHANGED <<conn, got>>
    BY <1>3 DEF DrainDone, ControlInv, CallOK, Callback, Place
  <2>2. IsResponse(EndHeader(w)) /\ IsResponse(EndHeader(DrainedTooMuch(w)))
    BY ResponseChanges DEF ReplyInv, ReplyTyped
  <2>3. w' \in {EndHeader(w), EndHeader(DrainedTooMuch(w))} /\ held' = TRUE
    BY <1>3 DEF DrainDone, PutHeader
  <2>4. QED
    BY <2>1, <2>2, <2>3 DEF ReplyInv, ReplyTyped, PlaceTyped, CodesTyped
<1>4. CASE CloseDone
  <2>1. pc' \in Place /\ UNCHANGED <<w, held, conn, got>>
    BY <1>4 DEF CloseDone, ControlInv, CallOK, Place, replyVars
  <2>2. QED
    BY <2>1 DEF ReplyInv, ReplyTyped, PlaceTyped, CodesTyped
<1>5. CASE DoWrite \/ DoReadFrom \/ DoFlush \/ FinishBody
  <2>1. pc' \in {"handler", "next", "closeBody"} /\ UNCHANGED <<conn, got>>
    BY <1>5 DEF DoWrite, DoReadFrom, DoFlush, FinishBody
  <2>2. CASE PutWrite(w, call.n)
    BY <2>1, <2>2, PutWriteTyped DEF ReplyInv, PlaceTyped, CodesTyped, Place
  <2>3. CASE w' = Sniff(w) /\ held' = FALSE
    <3>1. IsResponse(w')
      BY <2>3, ResponseChanges DEF ReplyInv, ReplyTyped
    <3>2. QED
      BY <2>1, <2>3, <3>1 DEF ReplyInv, ReplyTyped, PlaceTyped, CodesTyped, Place
  <2>4. CASE w' = [w EXCEPT !.written = @ + call.n] /\ held' = FALSE
    <3>1. IsResponse(w')
      BY <2>4 DEF ReplyInv, ReplyTyped, IsResponse, ResponseFields
    <3>2. QED
      BY <2>1, <2>4, <3>1 DEF ReplyInv, ReplyTyped, PlaceTyped, CodesTyped, Place
  <2>5. QED
    BY <1>5, <2>2, <2>3, <2>4 DEF DoWrite, DoReadFrom, DoFlush, FinishBody
<1>6. QED
  BY <1>1, <1>2, <1>3, <1>4, <1>5 DEF ServeStep

LEMMA ReplyHandler ==
    ASSUME ReplyInv, HandlerStep, UNCHANGED tw
    PROVE  ReplyInv'
<1>1. /\ IsResponse(w) /\ IsResponse(Finishing(w)) /\ IsResponse(requestTooLarge(w))
      /\ Codes \subseteq StatusCode /\ 200 \in StatusCode
      /\ {"handler", "write", "readFrom", "flush", "finish"} \subseteq Callback
  BY ResponseChanges DEF ReplyInv, ReplyTyped, StatusCode, Callback
<1>2. ASSUME NEW code \in Codes, HandlerWriteHeader(code) PROVE ReplyInv'
  BY <1>1, <1>2, HeaderStepTyped DEF HandlerWriteHeader
<1>3. ASSUME NEW n \in WriteSizes, HandlerWrite(n) \/ HandlerReadFrom(n) PROVE ReplyInv'
  BY <1>1, <1>3, HeaderStepTyped DEF HandlerWrite, HandlerReadFrom
<1>4. CASE HandlerFlush
  BY <1>1, <1>4, HeaderStepTyped DEF HandlerFlush
<1>5. CASE HandlerReturns
  <2>1. CASE conn = "hijacked" /\ pc' = "stop" /\ UNCHANGED <<got, replyVars, call, conn>>
    BY <2>1 DEF replyVars, ReplyInv, ReplyTyped, PlaceTyped, CodesTyped, Place
  <2>2. CASE FinishRequest /\ UNCHANGED conn
    BY <1>1, <2>2, HeaderStepTyped DEF FinishRequest
  <2>3. QED
    BY <1>5, <2>1, <2>2 DEF HandlerReturns
<1>6. CASE HandlerAsks \/ HandlerReadsTooMuch
  <2>1. UNCHANGED <<pc, conn, got>> /\ held' \in {held, FALSE}
        /\ w' \in {requestTooLarge(w), [w EXCEPT !.wroteContinue = TRUE]}
    BY <1>6 DEF HandlerAsks, HandlerReadsTooMuch
  <2>2. IsResponse([w EXCEPT !.wroteContinue = TRUE])
    BY <1>1 DEF IsResponse, ResponseFields
  <2>3. QED
    BY <1>1, <2>1, <2>2 DEF ReplyInv, ReplyTyped, PlaceTyped, CodesTyped
<1>7. CASE HandlerReads \/ HandlerClosesBody \/ Hijack \/ HandlerPanics
  <2>1. UNCHANGED <<w, held, got>> /\ pc' \in {pc, "closeBody", "stop"}
        /\ conn' \in {conn, "hijacked", "closed"}
    BY <1>7 DEF HandlerReads, HandlerClosesBody, Hijack, HandlerPanics, replyVars
  <2>2. QED
    BY <2>1 DEF ReplyInv, ReplyTyped, PlaceTyped, CodesTyped, Place
<1>8. QED
  BY <1>2, <1>3, <1>4, <1>5, <1>6, <1>7 DEF HandlerStep


LEMMA ReplyNewRequest ==
    ASSUME ReplyInv, WritersTyped, NewRequest
    PROVE  ReplyInv'
<1>0. IsResponse(NewResponse)
  BY DEF NewResponse, IsResponse, ResponseFields, StatusCode
<1>1. ASSUME AcceptRequest PROVE ReplyTyped' /\ PlaceTyped'
  <2>1. pc' \in {"timed", "handler"} /\ got' = 0 /\ UNCHANGED <<held, conn>>
    BY <1>1 DEF AcceptRequest, BeginRequest
  <2>2. PICK h \in ReplyHeaders : w' = [NewResponse EXCEPT !.header = h]
    BY <1>1 DEF AcceptRequest
  <2>3. IsResponse(w')
    BY <1>0, <2>2 DEF IsResponse, ResponseFields
  <2>4. QED
    BY <2>1, <2>3 DEF ReplyInv, ReplyTyped, PlaceTyped, Place
<1>2. ASSUME RefuseExpectation PROVE ReplyTyped' /\ PlaceTyped'
  <2>1. pc' = "refuse" /\ got' = 0 /\ UNCHANGED <<held, conn>>
    BY <1>2 DEF RefuseExpectation, BeginRequest
  <2>2. PICK code \in {400, 417} :
            w' = [NewResponse EXCEPT !.header.conn = "close", !.status = code]
    BY <1>2 DEF RefuseExpectation
  <2>3. IsResponse(w')
    BY <1>0, <2>2 DEF IsResponse, ResponseFields, StatusCode
  <2>4. QED
    BY <2>1, <2>3 DEF ReplyInv, ReplyTyped, PlaceTyped, Place
<1>3. CodesTyped'
  <2>1. \A i \in 1 .. MaxRequests : tw'[i].at = tw[i].at /\ tw'[i].n = tw[i].n
    BY DEF NewRequest, WritersTyped, Writer
  <2>2. QED
    BY <2>1 DEF ReplyInv, CodesTyped
<1>4. QED
  BY <1>1, <1>2, <1>3 DEF NewRequest, ReplyInv

LEMMA ReplyTimed ==
    ASSUME ReplyInv, WritersTyped, InputTyped, TimeoutStep
    PROVE  ReplyInv'
<1>1. /\ IsResponse(w) /\ IsResponse(Finishing(w)) /\ Codes \subseteq StatusCode
      /\ {200, 503} \subseteq StatusCode /\ "finish" \in Callback
  BY ResponseChanges DEF ReplyInv, ReplyTyped, StatusCode, Callback
<1>2. CASE Starts
  BY <1>2 DEF Starts, svars, ReplyInv, ReplyTyped, PlaceTyped, CodesTyped, WritersTyped, Writer
<1>3. CASE Done
  BY <1>3 DEF Done, replyVars, ReplyInv, ReplyTyped, PlaceTyped, CodesTyped, Place
<1>4. CASE TimesOut
  <2>1. pc' = "served" /\ UNCHANGED <<got, conn>>
    BY <1>4 DEF TimesOut
  <2>2. ReplyTyped'
    <3>1. CASE UNCHANGED replyVars
      BY <3>1 DEF replyVars, ReplyInv, ReplyTyped
    <3>2. CASE PutReply(503, 1)
      BY <1>1, <3>2, PutReplyTyped DEF ReplyInv
    <3>3. QED
      BY <1>4, <3>1, <3>2 DEF TimesOut
  <2>3. \A i \in 1 .. MaxRequests : tw'[i].at = tw[i].at /\ tw'[i].n = tw[i].n
    BY <1>4 DEF TimesOut, WritersTyped, Writer
  <2>4. QED
    BY <2>1, <2>2, <2>3 DEF ReplyInv, PlaceTyped, CodesTyped, Place
<1>5. CASE Served
  BY <1>1, <1>5, HeaderStepTyped DEF Served, FinishRequest
<1>6. ASSUME NEW i \in 1 .. MaxRequests
      PROVE  /\ \A code \in Codes : CallsWriteHeader(i, code) => ReplyInv'
             /\ \A n \in WriteSizes : CallsWrite(i, n) => ReplyInv'
             /\ Writes(i) \/ WritesLate(i) \/ WritesOnClosed(i) \/ Finishes(i) => ReplyInv'
  <2>1. tw[i] \in Writer
    BY DEF WritersTyped
  <2>2. ASSUME NEW code \in Codes, CallsWriteHeader(i, code) PROVE ReplyInv'
    BY <2>1, <2>2 DEF CallsWriteHeader, svars, ReplyInv, ReplyTyped, PlaceTyped, CodesTyped,
       WritersTyped, Writer
  <2>3. ASSUME NEW n \in WriteSizes, CallsWrite(i, n) PROVE ReplyInv'
    BY <2>1, <2>3 DEF CallsWrite, svars, ReplyInv, ReplyTyped, PlaceTyped, CodesTyped,
       WritersTyped, Writer
  <2>4. CASE Writes(i)
    <3>1. UNCHANGED <<got, conn, pc>> /\ tw' = [tw EXCEPT ![i].at = "run"]
      BY <2>4 DEF Writes
    <3>2. ReplyTyped'
      BY <1>1, <2>4, PutReplyTyped DEF Writes, ReplyInv, CodesTyped
    <3>3. QED
      BY <3>1, <3>2 DEF ReplyInv, PlaceTyped, CodesTyped, WritersTyped, Writer
  <2>5. CASE WritesLate(i) \/ WritesOnClosed(i) \/ Finishes(i)
    <3>1. UNCHANGED <<got, conn, pc, w, held>>
      BY <2>5 DEF WritesLate, WritesOnClosed, Finishes, svars
    <3>2. CodesTyped'
      BY <2>5 DEF WritesLate, WritesOnClosed, Finishes, ReplyInv, CodesTyped, WritersTyped, Writer
    <3>3. QED
      BY <3>1, <3>2 DEF ReplyInv, ReplyTyped, PlaceTyped
  <2>6. QED
    BY <2>2, <2>3, <2>4, <2>5
<1>7. QED
  BY <1>2, <1>3, <1>4, <1>5, <1>6 DEF TimeoutStep

ServerInv == ControlInv /\ InputTyped /\ ReplyInv

LEMMA ServerInit ==
    ASSUME TInit
    PROVE  ServerInv
<1>1. InputTyped
  BY NumberOfRequests DEF TInit, Init, InputTyped, WireTyped, RequestTyped, Reader, BodyReader
<1>2. ReplyInv
  <2>1. IsResponse(w) /\ held \in BOOLEAN
    BY DEF TInit, Init, NewResponse, IsResponse, ResponseFields, StatusCode
  <2>2. PlaceTyped /\ CodesTyped
    BY DEF TInit, Init, PlaceTyped, Place, CodesTyped, NewWriter
  <2>3. QED
    BY <2>1, <2>2 DEF ReplyInv, ReplyTyped
<1>3. QED
  BY <1>1, <1>2, ControlInit DEF ServerInv

LEMMA ServerNext ==
    ASSUME ServerInv, [Next]_vars
    PROVE  ServerInv'
<1>1. ControlInv' /\ InputTyped'
  BY ControlNext, InputTypedNext DEF ServerInv, ReplyInv, PlaceTyped
<1>2. ReplyInv'
  <2>1. ReplyInv /\ ControlInv /\ InputTyped /\ WritersTyped
    BY DEF ServerInv, ControlInv
  <2>2. CASE NewRequest
    BY <2>1, <2>2, ReplyNewRequest
  <2>3. CASE TimeoutStep
    BY <2>1, <2>3, ReplyTimed
  <2>4. CASE HandlerStep /\ UNCHANGED tw
    BY <2>1, <2>4, ReplyHandler
  <2>5. CASE ServeStep /\ UNCHANGED tw
    BY <2>1, <2>5, ReplyServe
  <2>6. CASE UNCHANGED vars \/ (ClientStep /\ UNCHANGED tw)
    <3>1. UNCHANGED <<w, held, pc, conn, got, tw>>
      BY <2>6 DEF ClientStep, SendHead, SendBody, ClientGone, replyVars, vars, svars
    <3>2. QED
      BY <2>1, <3>1 DEF ReplyInv, ReplyTyped, PlaceTyped, CodesTyped
  <2>7. QED
    BY <2>2, <2>3, <2>4, <2>5, <2>6 DEF Next, ServerStep
<1>3. QED
  BY <1>1, <1>2 DEF ServerInv

\* The variables of a connection keep their types; in particular no reader of a body
\* counts below zero, whatever the client declared and the handler left unread.
THEOREM ServerTypesAreKept == Spec => []TypeOK
<1>1. ServerInv => TypeOK
  BY DEF ServerInv, ControlInv, WritersTyped, InputTyped, WireTyped, RequestTyped, Reader,
     ReplyInv, ReplyTyped, IsResponse, StatusCode, PlaceTyped, Place, TypeOK
<1>2. QED
  BY <1>1, ServerInit, ServerNext, PTL DEF Spec


-----------------------------------------------------------------------------
(***************************************************************************)
(* The stream.  Everything on its way, and what the client still holds     *)
(* back, is read in step: there is a reader in front of each token, its    *)
(* body belongs to the request the token is part of, and a head stands     *)
(* where the reader before it is at its end.  This goes on up to a request *)
(* that does not parse, where serve gives up.                              *)
(***************************************************************************)
Stream == in \o unsent

\* Reader b of the body of request o takes tok and becomes c, of request q.
Follows(b, o, tok, c, q) ==
    IF tok.kind = "head"
    THEN AtEnd(b) /\ ~Malformed(tok) /\ c = RequestTransfer(tok).body /\ q = tok.id
    ELSE ~AtEnd(b) /\ tok.id = o /\ c = BodyStep(b, tok) /\ c.at # "error" /\ q = o

\* rd[k] and own[k] are the reader in front of token k, up to token p.
InStep(s, p, rd, own) ==
    /\ p \in 0 .. Len(s)
    /\ \A k \in 1 .. p : Follows(rd[k], own[k], s[k], rd[k + 1], own[k + 1])
    /\ p < Len(s) => s[p + 1].kind = "head" /\ Malformed(s[p + 1]) /\ AtEnd(rd[p + 1])

Whole(s, p, rd) == p = Len(s) => AtEnd(rd[p + 1])

StreamOK ==
    conn = "open" =>
        /\ body.at # "error"
        /\ \E p, rd, own : /\ InStep(Stream, p, rd, own) /\ rd[1] = body /\ own[1] = req.id
                           /\ client = "open" => Whole(Stream, p, rd)

LEMMA RecordedOne ==
    ASSUME NEW x, x # "identity"
    PROVE  Recorded(<<x>>) = <<x>>
<1> DEFINE P(k) == /\ \A i \in 1 .. k : <<x>>[i] # "identity"
                   /\ k < Len(<<x>>) => <<x>>[k + 1] = "identity"
<1>1. P(1) /\ ~P(0)
  OBVIOUS
<1>2. 0 .. Len(<<x>>) = {0, 1}
  OBVIOUS
<1>3. (CHOOSE k \in 0 .. Len(<<x>>) : P(k)) = 1
  <2> HIDE DEF P
  <2>1. QED
    BY <1>1, <1>2
<1>4. Recorded(<<x>>) = SubSeq(<<x>>, 1, 1)
  BY <1>3 DEF Recorded
<1>5. QED
  BY <1>4

\* The three encodings of the requests.
LEMMA EncodingRead ==
    /\ fixTransferEncoding("GET", <<>>) = "none"
    /\ fixTransferEncoding("GET", <<"chunked">>) = "chunked"
    /\ fixTransferEncoding("GET", <<"gzip">>) = "error"
<1>1. fixTransferEncoding("GET", <<>>) = "none"
  BY DEF fixTransferEncoding
<1>2. Recorded(<<"chunked">>) = <<"chunked">> /\ Recorded(<<"gzip">>) = <<"gzip">>
  BY RecordedOne
<1>3. fixTransferEncoding("GET", <<"chunked">>) = "chunked"
  BY <1>2 DEF fixTransferEncoding, noBodyExpected
<1>4. fixTransferEncoding("GET", <<"gzip">>) = "error"
  BY <1>2 DEF fixTransferEncoding, noBodyExpected
<1>5. QED
  BY <1>1, <1>3, <1>4


\* What the server makes of the head of a request is what the client meant: the body
\* comes in chunks, or has the length the client will not exceed.
LEMMA PlainLength ==
    ASSUME NEW r \in UNION Range(Requests), ~newTransferWriter(r).chunked
    PROVE  newTransferWriter(r).len \in Nat
<1>1. /\ r.body \in Nat \cup {NoBody} /\ r.declared \in Int /\ r.proto \in {"1.0", "1.1"}
      /\ r.proto = "1.0" /\ r.body # NoBody => r.declared >= 0
  BY RequestFields, ServerAssumption
<1> DEFINE probe == r.body # NoBody /\ r.proto = "1.1" /\ r.declared = 0
           body1 == IF probe /\ r.body = 0 THEN NoBody ELSE r.body
           len1 == IF probe /\ r.body > 0 THEN -1 ELSE r.declared
           chunked1 == body1 # NoBody /\ r.proto = "1.1" /\ len1 < 0
<1>2. /\ newTransferWriter(r).chunked = chunked1
      /\ newTransferWriter(r).len = IF ~chunked1 /\ body1 = NoBody THEN 0 ELSE len1
  BY DEF newTransferWriter
<1>3. ~chunked1
  BY <1>2
<1>4. body1 # NoBody => len1 \in Nat
  <2>1. SUFFICES ASSUME body1 # NoBody PROVE len1 \in Nat
    OBVIOUS
  <2>2. CASE r.proto = "1.1"
    BY <1>1, <1>3, <2>1, <2>2
  <2>3. CASE r.proto = "1.0"
    BY <1>1, <2>1, <2>3
  <2>4. QED
    BY <1>1, <2>2, <2>3
<1> HIDE DEF body1, len1, chunked1
<1>5. QED
  BY <1>2, <1>3, <1>4

LEMMA HeadRead ==
    ASSUME NEW r \in UNION Range(Requests), NEW id, ~Malformed(Head11(r, id))
    PROVE  RequestTransfer(Head11(r, id)).body =
              IF newTransferWriter(r).chunked THEN BodyReader("chunked", 0)
              ELSE BodyReader("limited", newTransferWriter(r).len)
<1> DEFINE t == newTransferWriter(r)
           h == TransferHeader(t, r.method)
           tok == Head11(r, id)
           te == fixTransferEncoding("GET", tok.te)
           n == fixLength(FALSE, 200, "GET", tok.cl, te)
<1>1. t.len \in Int /\ (~t.chunked => t.len \in Nat)
  BY WriterFields, PlainLength
<1> HIDE DEF t
<1>2. /\ tok.cl = h.cl /\ tok.te = IF r.fault = "coding" THEN <<"gzip">> ELSE h.te
      /\ tok.r = r
  BY DEF Head11, t
<1>3. /\ RequestTransfer(tok).body = IF te = "chunked" THEN BodyReader("chunked", 0)
                                     ELSE BodyReader("limited", IF n > 0 THEN n ELSE 0)
      /\ te = "error" => RequestTransfer(tok).err
  BY DEF RequestTransfer
<1> HIDE DEF tok
<1>4. te # "error" /\ tok.te = h.te
  BY <1>2, <1>3, EncodingRead DEF Malformed, tok
<1>5. CASE t.chunked
  <2>1. h.te = <<"chunked">>
    BY <1>5 DEF TransferHeader
  <2>2. te = "chunked"
    BY <1>4, <2>1, EncodingRead
  <2>3. QED
    BY <1>3, <1>5, <2>2 DEF t, tok
<1>6. CASE ~t.chunked
  <2>1. h.te = <<>> /\ h.cl = IF t.len > 0 \/ r.method \in {"POST", "PUT"} THEN t.len ELSE NoLength
    BY <1>1, <1>6 DEF TransferHeader, shouldSendContentLength
  <2>2. te = "none"
    BY <1>4, <2>1, EncodingRead
  <2>3. n = IF tok.cl # NoLength THEN tok.cl ELSE 0
    <3>1. 200 \div 100 # 1
      OBVIOUS
    <3> HIDE DEF te
    <3>2. QED
      BY <2>2, <3>1 DEF fixLength, noBodyExpected
  <2> HIDE DEF n, te, h
  <2>4. n = t.len
    <3>1. t.len \in Nat /\ tok.cl = h.cl
      BY <1>1, <1>2, <1>6
    <3>2. CASE t.len > 0 \/ r.method \in {"POST", "PUT"}
      BY <2>1, <2>3, <3>1, <3>2 DEF NoLength
    <3>3. CASE ~(t.len > 0 \/ r.method \in {"POST", "PUT"})
      BY <2>1, <2>3, <3>1, <3>3 DEF NoLength
    <3>4. QED
      BY <3>2, <3>3
  <2>5. (IF n > 0 THEN n ELSE 0) = t.len
    BY <1>1, <1>6, <2>4
  <2>6. QED
    BY <1>3, <1>6, <2>2, <2>5 DEF t, tok
<1>7. QED
  BY <1>5, <1>6


\* The places of a reader in a body of chunks of one unit.
ChunkReader(at, n) ==
    [kind |-> "chunked", n |-> n, at |-> at, end |-> FALSE, closed |-> FALSE]

ChunksDone == [ChunkReader("trailer", 0) EXCEPT !.end = TRUE]

ChunkAt(n, j) ==
    IF j = 3 * n + 2 THEN ChunksDone
    ELSE IF j = 3 * n + 1 THEN ChunkReader("trailer", 0)
    ELSE IF j % 3 = 0 THEN ChunkReader("size", 0)
    ELSE IF j % 3 = 1 THEN ChunkReader("data", 1)
    ELSE ChunkReader("crlf", 0)

LEMMA ChunkSteps ==
    ASSUME NEW id
    PROVE  /\ BodyReader("chunked", 0) = ChunkReader("size", 0)
           /\ BodyStep(ChunkReader("size", 0), Token("size", id, 1))
                 = ChunkReader("data", 1)
           /\ BodyStep(ChunkReader("data", 1), Token("byte", id, 1))
                 = ChunkReader("crlf", 0)
           /\ BodyStep(ChunkReader("crlf", 0), Token("crlf", id, 0))
                 = ChunkReader("size", 0)
           /\ BodyStep(ChunkReader("size", 0), Token("size", id, 0))
                 = ChunkReader("trailer", 0)
           /\ BodyStep(ChunkReader("trailer", 0), Token("crlf", id, 0))
                 = ChunksDone
<1>1. BodyReader("chunked", 0) = ChunkReader("size", 0)
  BY DEF BodyReader, ChunkReader
<1>2. BodyStep(ChunkReader("size", 0), Token("size", id, 1)) = ChunkReader("data", 1)
  <2> DEFINE b == ChunkReader("size", 0)
             t == Token("size", id, 1)
  <2>1. b.at = "size" /\ t.kind = "size" /\ t.n = 1
    BY DEF ChunkReader, Token
  <2>2. BodyStep(b, t) = [b EXCEPT !.n = 1, !.at = "data"]
    <3> HIDE DEF b, t
    <3>1. QED
      BY <2>1 DEF BodyStep, BeginChunk
  <2>3. QED
    BY <2>2 DEF ChunkReader
<1>3. BodyStep(ChunkReader("data", 1), Token("byte", id, 1)) = ChunkReader("crlf", 0)
  <2> DEFINE b == ChunkReader("data", 1)
  <2>1. b.at = "data" /\ b.n = 1 /\ b.kind = "chunked"
    BY DEF ChunkReader
  <2>2. BodyStep(b, Token("byte", id, 1)) = [b EXCEPT !.n = 0, !.at = "crlf"]
    <3> HIDE DEF b
    <3>1. QED
      BY <2>1 DEF BodyStep, ReadUnit
  <2>3. QED
    BY <2>2 DEF ChunkReader
<1>4. BodyStep(ChunkReader("crlf", 0), Token("crlf", id, 0)) = ChunkReader("size", 0)
  BY DEF BodyStep, ChunkReader, Token
<1>5. BodyStep(ChunkReader("size", 0), Token("size", id, 0))
         = ChunkReader("trailer", 0)
  BY DEF BodyStep, BeginChunk, ChunkReader, Token
<1>6. BodyStep(ChunkReader("trailer", 0), Token("crlf", id, 0))
         = ChunksDone
  BY DEF BodyStep, readTrailer, ChunkReader, ChunksDone, Token
<1>7. QED
  BY <1>1, <1>2, <1>3, <1>4, <1>5, <1>6

LEMMA ChunkEnds ==
    ASSUME NEW at, NEW n
    PROVE  /\ ~AtEnd(ChunkReader(at, n)) /\ ChunkReader(at, n).at = at
           /\ AtEnd(ChunksDone) /\ ChunksDone.at = "trailer"
  BY DEF AtEnd, ChunkReader, ChunksDone

\* A token of the body of request id, which the reader br[j - 1] takes to become br[j].
Taken(br, j, tok, id) ==
    /\ tok.kind # "head" /\ tok.id = id /\ ~AtEnd(br[j - 1])
    /\ br[j] = BodyStep(br[j - 1], tok) /\ br[j].at # "error"

LEMMA ChunksTaken ==
    ASSUME NEW id, NEW n \in Nat, NEW br, \A j \in Nat : br[j] = ChunkAt(n, j)
    PROVE  /\ br[0] = BodyReader("chunked", 0)
           /\ \A j \in 1 .. 3 * n + 2 : Taken(br, j, ChunkTokens(id, n)[j], id)
           /\ AtEnd(br[3 * n + 2])
<1> DEFINE m == 3 * n
           q == ChunkTokens(id, n)
<1>1. m \in Nat /\ m % 3 = 0 /\ 0 % 3 = 0
  OBVIOUS
<1>2. /\ \A i \in 1 .. m : /\ i % 3 = 1 => q[i] = Token("size", id, 1)
                           /\ i % 3 = 2 => q[i] = Token("byte", id, 1)
                           /\ i % 3 = 0 => q[i] = Token("crlf", id, 0)
      /\ q[m + 1] = Token("size", id, 0) /\ q[m + 2] = Token("crlf", id, 0)
  BY ChunkTokenAt
<1>3. \A j \in Nat : br[j] = IF j = m + 2 THEN ChunksDone
                             ELSE IF j = m + 1 THEN ChunkReader("trailer", 0)
                             ELSE IF j % 3 = 0 THEN ChunkReader("size", 0)
                             ELSE IF j % 3 = 1 THEN ChunkReader("data", 1)
                             ELSE ChunkReader("crlf", 0)
  BY DEF ChunkAt
<1> HIDE DEF m, q
<1>4. /\ br[m + 1] = ChunkReader("trailer", 0) /\ br[m + 2] = ChunksDone
      /\ \A j \in 0 .. m : /\ j % 3 = 0 => br[j] = ChunkReader("size", 0)
                           /\ j % 3 = 1 => br[j] = ChunkReader("data", 1)
                           /\ j % 3 = 2 => br[j] = ChunkReader("crlf", 0)
  <2>1. /\ m + 1 \in Nat /\ m + 2 \in Nat /\ m + 1 # m + 2
        /\ \A j \in 0 .. m : j \in Nat /\ j # m + 1 /\ j # m + 2
    BY <1>1
  <2>2. QED
    BY <1>3, <2>1
<1>5. ASSUME NEW j \in 1 .. m PROVE Taken(br, j, q[j], id)
  <2>1. /\ j \in 0 .. m /\ j - 1 \in 0 .. m
        /\ \/ (j % 3 = 1 /\ (j - 1) % 3 = 0) \/ (j % 3 = 2 /\ (j - 1) % 3 = 1)
           \/ (j % 3 = 0 /\ (j - 1) % 3 = 2)
    BY <1>1
  <2>2. \/ /\ br[j - 1] = ChunkReader("size", 0) /\ br[j] = ChunkReader("data", 1)
           /\ q[j] = Token("size", id, 1)
        \/ /\ br[j - 1] = ChunkReader("data", 1) /\ br[j] = ChunkReader("crlf", 0)
           /\ q[j] = Token("byte", id, 1)
        \/ /\ br[j - 1] = ChunkReader("crlf", 0) /\ br[j] = ChunkReader("size", 0)
           /\ q[j] = Token("crlf", id, 0)
    BY <1>2, <1>4, <2>1
  <2>3. Token("size", id, 1).kind # "head" /\ Token("byte", id, 1).kind # "head"
        /\ Token("crlf", id, 0).kind # "head" /\ Token("size", id, 1).id = id
        /\ Token("byte", id, 1).id = id /\ Token("crlf", id, 0).id = id
    BY DEF Token
  <2>4. QED
    BY <2>2, <2>3, ChunkSteps, ChunkEnds DEF Taken
<1>6. Taken(br, m + 1, q[m + 1], id)
  <2>1. (m + 1) - 1 = m /\ m \in 0 .. m
    BY <1>1
  <2>2. br[m] = ChunkReader("size", 0)
    BY <1>1, <1>4, <2>1
  <2>3. QED
    BY <1>2, <1>4, <2>1, <2>2, ChunkSteps, ChunkEnds DEF Taken, Token
<1>7. Taken(br, m + 2, q[m + 2], id)
  <2>1. (m + 2) - 1 = m + 1
    BY <1>1
  <2>2. QED
    BY <1>2, <1>4, <2>1, ChunkSteps, ChunkEnds DEF Taken, Token
<1>8. br[0] = BodyReader("chunked", 0) /\ AtEnd(br[m + 2])
  <2>1. 0 \in 0 .. m
    BY <1>1
  <2>2. br[0] = ChunkReader("size", 0)
    BY <1>1, <1>4, <2>1
  <2>3. QED
    BY <1>4, <2>2, ChunkSteps, ChunkEnds
<1>9. \A j \in 1 .. m + 2 : j \in 1 .. m \/ j = m + 1 \/ j = m + 2
  BY <1>1
<1>10. \A j \in 1 .. m + 2 : Taken(br, j, q[j], id)
  BY <1>5, <1>6, <1>7, <1>9
<1>11. QED
  BY <1>8, <1>10 DEF m, q


LEMMA PlainTaken ==
    ASSUME NEW id, NEW len \in Nat, NEW c \in 0 .. len, NEW br,
           \A j \in 0 .. len : br[j] = BodyReader("limited", len - j)
    PROVE  /\ br[0] = BodyReader("limited", len)
           /\ \A j \in 1 .. c : Taken(br, j, Token("byte", id, 1), id)
           /\ c = len => AtEnd(br[c])
<1>1. br[0] = BodyReader("limited", len)
  OBVIOUS
<1>2. \A n \in Nat : AtEnd(BodyReader("limited", n)) <=> n = 0
  BY DEF AtEnd, BodyReader
<1>3. \A n \in Nat \ {0} : /\ BodyStep(BodyReader("limited", n), Token("byte", id, 1))
                                 = BodyReader("limited", n - 1)
                           /\ BodyReader("limited", n - 1).at # "error"
  BY DEF BodyStep, ReadUnit, BodyReader
<1>4. Token("byte", id, 1).kind # "head" /\ Token("byte", id, 1).id = id
  BY DEF Token
<1>5. ASSUME NEW j \in 1 .. c PROVE Taken(br, j, Token("byte", id, 1), id)
  <2>1. /\ j - 1 \in 0 .. len /\ j \in 0 .. len /\ len - (j - 1) \in Nat \ {0}
        /\ (len - (j - 1)) - 1 = len - j
    OBVIOUS
  <2>2. br[j - 1] = BodyReader("limited", len - (j - 1)) /\ br[j] = BodyReader("limited", len - j)
    BY <2>1
  <2>3. QED
    BY <1>2, <1>3, <1>4, <2>1, <2>2 DEF Taken
<1>6. c = len => AtEnd(br[c])
  <2>1. len - len = 0 /\ len \in 0 .. len
    OBVIOUS
  <2>2. QED
    BY <1>2, <2>1
<1>7. QED
  BY <1>1, <1>5, <1>6

\* The tokens of a body are taken by the reader that the head of the request calls for;
\* with the last of them it is at its end, unless the body is too short or too long.
LEMMA BodyTaken ==
    ASSUME NEW r \in UNION Range(Requests), NEW id, ~Malformed(Head11(r, id)),
           NEW t, t = newTransferWriter(r)
    PROVE  \E br : /\ br[0] = RequestTransfer(Head11(r, id)).body
                   /\ \A j \in 1 .. Len(BodyTokens(id, t)) : Taken(br, j, BodyTokens(id, t)[j], id)
                   /\ ~WrongLength(t) => AtEnd(br[Len(BodyTokens(id, t))])
<1>1. /\ t.body \in Nat \cup {NoBody} /\ t.len \in Int /\ t.chunked \in BOOLEAN
      /\ t.chunked => t.body # NoBody
      /\ ~t.chunked => t.len \in Nat
  BY WriterFields, PlainLength
<1>2. CASE t.chunked
  <2>1. /\ BodyTokens(id, t) = ChunkTokens(id, t.body) /\ t.body \in Nat
        /\ Len(ChunkTokens(id, t.body)) = 3 * t.body + 2
    BY <1>1, <1>2, ChunkTokenAt DEF BodyTokens
  <2> DEFINE br == [j \in Nat |-> ChunkAt(t.body, j)]
  <2>2. \A j \in Nat : br[j] = ChunkAt(t.body, j)
    OBVIOUS
  <2>3. RequestTransfer(Head11(r, id)).body = BodyReader("chunked", 0)
    BY <1>2, HeadRead
  <2> HIDE DEF br
  <2>4. /\ br[0] = BodyReader("chunked", 0)
        /\ \A j \in 1 .. 3 * t.body + 2 : Taken(br, j, ChunkTokens(id, t.body)[j], id)
        /\ AtEnd(br[3 * t.body + 2])
    BY <2>1, <2>2, ChunksTaken
  <2>5. QED
    BY <2>1, <2>3, <2>4
<1>3. CASE ~t.chunked
  <2> DEFINE c == IF t.body = NoBody THEN 0 ELSE Framed(t)
             br == [j \in Nat |-> BodyReader("limited", t.len - j)]
             q == BodyTokens(id, t)
  <2>1. t.len \in Nat /\ c \in 0 .. t.len
    BY <1>1, <1>3 DEF Framed, NoBody
  <2>2. Len(q) = c /\ \A j \in 1 .. c : q[j] = Token("byte", id, 1)
    <3>1. CASE t.body = NoBody
      BY <3>1 DEF BodyTokens
    <3>2. CASE t.body # NoBody
      <4>1. q = [i \in 1 .. Framed(t) |-> Token("byte", id, 1)] /\ Framed(t) \in Nat
        BY <1>1, <1>3, <3>2 DEF BodyTokens, Framed
      <4>2. QED
        BY <3>2, <4>1, PlainTokens
    <3>3. QED
      BY <3>1, <3>2
  <2>3. \A j \in 0 .. t.len : br[j] = BodyReader("limited", t.len - j)
    BY <2>1
  <2>4. RequestTransfer(Head11(r, id)).body = BodyReader("limited", t.len)
    BY <1>3, HeadRead
  <2>5. ~WrongLength(t) => c = t.len \/ t.body = NoBody
    BY <1>1, <1>3, <2>1 DEF WrongLength, Framed, NoBody
  <2>6. t.body = NoBody => t.len = 0
    BY <1>3 DEF newTransferWriter
  <2> HIDE DEF br, q, c
  <2>7. /\ br[0] = BodyReader("limited", t.len)
        /\ \A j \in 1 .. c : Taken(br, j, Token("byte", id, 1), id)
        /\ c = t.len => AtEnd(br[c])
    BY <2>1, <2>3, PlainTaken
  <2>8. ~WrongLength(t) => c = t.len
    BY <2>1, <2>5, <2>6 DEF c
  <2>9. QED
    BY <2>2, <2>4, <2>7, <2>8 DEF q
<1>4. QED
  BY <1>1, <1>2, <1>3


\* The stream moves by one when serve takes a token.
LEMMA StreamAt ==
    ASSUME InputTyped
    PROVE  /\ Stream \in Seq(Wire(sent)) /\ Len(Stream) = Len(in) + Len(unsent)
           /\ in \in Seq(Wire(sent)) /\ unsent \in Seq(Wire(sent))
           /\ Len(in) \in Nat /\ Len(unsent) \in Nat
           /\ \A i \in 1 .. Len(in) : Stream[i] = in[i]
           /\ \A j \in 1 .. Len(unsent) : Stream[Len(in) + j] = unsent[j]
<1>1. in \in Seq(Wire(sent)) /\ unsent \in Seq(Wire(sent))
  BY SeqMonotonic DEF InputTyped, WireTyped, Wire
<1>2. QED
  BY <1>1, ConcatAt DEF Stream

LEMMA InStepShift ==
    ASSUME NEW S, NEW s \in Seq(S), NEW u \in Seq(S), Len(s) = Len(u) + 1,
           \A k \in 1 .. Len(u) : u[k] = s[k + 1],
           NEW p, NEW rd, NEW own, InStep(s, p, rd, own), p # 0
    PROVE  \E rd2, own2 : /\ InStep(u, p - 1, rd2, own2) /\ rd2[1] = rd[2] /\ own2[1] = own[2]
                          /\ Whole(s, p, rd) => Whole(u, p - 1, rd2)
<1> DEFINE rd2 == [k \in Nat |-> rd[k + 1]]
           own2 == [k \in Nat |-> own[k + 1]]
<1>1. Len(u) \in Nat /\ p \in Nat /\ p - 1 \in 0 .. Len(u) /\ (p - 1) + 1 = p
  BY LenProperties DEF InStep
<1>2. \A k \in Nat : rd2[k] = rd[k + 1] /\ own2[k] = own[k + 1]
  OBVIOUS
<1> HIDE DEF rd2, own2
<1>3. ASSUME NEW k \in 1 .. p - 1
      PROVE  Follows(rd2[k], own2[k], u[k], rd2[k + 1], own2[k + 1])
  <2>1. k \in Nat /\ k + 1 \in Nat /\ k + 1 \in 1 .. p /\ k \in 1 .. Len(u)
    BY <1>1
  <2>2. Follows(rd[k + 1], own[k + 1], s[k + 1], rd[(k + 1) + 1], own[(k + 1) + 1])
    BY <2>1 DEF InStep
  <2>3. u[k] = s[k + 1]
    BY <2>1
  <2>4. QED
    BY <1>2, <2>1, <2>2, <2>3
<1>4. ASSUME p - 1 < Len(u)
      PROVE  u[p].kind = "head" /\ Malformed(u[p]) /\ AtEnd(rd2[p])
  <2>1. p < Len(s) /\ p \in 1 .. Len(u)
    BY <1>1, <1>4
  <2>2. u[p] = s[p + 1] /\ rd2[p] = rd[p + 1]
    BY <1>1, <1>2, <2>1
  <2>3. QED
    BY <2>1, <2>2 DEF InStep
<1>5. InStep(u, p - 1, rd2, own2)
  BY <1>1, <1>3, <1>4 DEF InStep
<1>6. Whole(s, p, rd) => Whole(u, p - 1, rd2)
  <2>1. (p - 1 = Len(u) => p = Len(s)) /\ rd2[(p - 1) + 1] = rd[p + 1]
    BY <1>1, <1>2
  <2>2. QED
    BY <2>1 DEF Whole
<1>7. rd2[1] = rd[2] /\ own2[1] = own[2]
  BY <1>2
<1>8. QED
  BY <1>5, <1>6, <1>7

\* The client goes away: what it held back is never sent.
LEMMA InStepPrefix ==
    ASSUME NEW S, NEW s \in Seq(S), NEW u \in Seq(S), Len(u) <= Len(s),
           \A k \in 1 .. Len(u) : u[k] = s[k],
           NEW p, NEW rd, NEW own, InStep(s, p, rd, own)
    PROVE  \E p2 : InStep(u, p2, rd, own)
<1>1. Len(u) \in Nat /\ Len(s) \in Nat /\ p \in 0 .. Len(s)
  BY LenProperties DEF InStep
<1>2. CASE p < Len(u)
  <2>1. p + 1 \in 1 .. Len(u) /\ p < Len(s) /\ p \in 0 .. Len(u)
        /\ \A k \in 1 .. p : k \in 1 .. Len(u)
    BY <1>1, <1>2
  <2>2. InStep(u, p, rd, own)
    BY <2>1 DEF InStep
  <2>3. QED
    BY <2>2
<1>3. CASE ~(p < Len(u))
  <2>1. Len(u) \in 0 .. Len(u) /\ ~(Len(u) < Len(u)) /\ \A k \in 1 .. Len(u) : k \in 1 .. p
    BY <1>1, <1>3
  <2>2. InStep(u, Len(u), rd, own)
    BY <2>1 DEF InStep
  <2>3. QED
    BY <2>2
<1>4. QED
  BY <1>2, <1>3

\* u is s with a request behind it: tok is its head, q its body.
Extended(u, s, tok, q) ==
    /\ Len(u) = (Len(s) + 1) + Len(q) /\ \A k \in 1 .. Len(s) : u[k] = s[k]
    /\ u[Len(s) + 1] = tok /\ \A j \in 1 .. Len(q) : u[(Len(s) + 1) + j] = q[j]

\* br are the readers in the body of that request, unless it does not parse.
TakesBody(br, tok, q) ==
    ~Malformed(tok) => /\ br[0] = RequestTransfer(tok).body
                       /\ \A j \in 1 .. Len(q) : Taken(br, j, q[j], tok.id)

\* The client sends a request.
LEMMA InStepExtend ==
    ASSUME NEW S, NEW s \in Seq(S), NEW u \in Seq(S), NEW q \in Seq(S), NEW tok,
           tok.kind = "head", Extended(u, s, tok, q),
           NEW p, NEW rd, NEW own, InStep(s, p, rd, own), Whole(s, p, rd),
           NEW br, TakesBody(br, tok, q)
    PROVE  \E p2, rd2, own2 : /\ InStep(u, p2, rd2, own2) /\ rd2[1] = rd[1] /\ own2[1] = own[1]
                              /\ Malformed(tok) \/ AtEnd(br[Len(q)]) => Whole(u, p2, rd2)
<1> DEFINE n == Len(s)
           m == Len(q)
<1>1. n \in Nat /\ m \in Nat /\ Len(u) = (n + 1) + m /\ p \in 0 .. n /\ p \in Nat
  BY LenProperties DEF InStep, Extended
<1> HIDE DEF n, m
<1>2. CASE p < n \/ Malformed(tok)
  <2>1. p < Len(u) /\ p # Len(u) /\ p \in 0 .. Len(u)
    BY <1>1
  <2>2. \A k \in 1 .. p : u[k] = s[k]
    BY <1>1 DEF n, Extended
  <2>3. u[p + 1].kind = "head" /\ Malformed(u[p + 1]) /\ AtEnd(rd[p + 1])
    <3>1. CASE p < n
      <4>1. p + 1 \in 1 .. n
        BY <1>1, <3>1
      <4>2. u[p + 1] = s[p + 1]
        BY <4>1 DEF n, Extended
      <4>3. QED
        BY <3>1, <4>2 DEF InStep, n
    <3>2. CASE ~(p < n)
      <4>1. p = n /\ Malformed(tok)
        BY <1>1, <1>2, <3>2
      <4>2. QED
        BY <4>1 DEF Whole, n, Extended
    <3>3. QED
      BY <3>1, <3>2
  <2>4. InStep(u, p, rd, own)
    BY <2>1, <2>2, <2>3 DEF InStep
  <2>5. Whole(u, p, rd)
    BY <2>1 DEF Whole
  <2>6. QED
    BY <2>4, <2>5
<1>3. CASE ~(p < n) /\ ~Malformed(tok)
  <2> DEFINE rd2 == [k \in Nat |-> IF k <= n + 1 THEN rd[k] ELSE br[k - (n + 2)]]
             own2 == [k \in Nat |-> IF k <= n + 1 THEN own[k] ELSE tok.id]
             p2 == (n + 1) + m
  <2>1. p = n /\ AtEnd(rd[n + 1]) /\ p2 = Len(u) /\ p2 \in 0 .. Len(u)
    <3>1. p = n /\ p2 = Len(u) /\ p2 \in 0 .. Len(u)
      BY <1>1, <1>3
    <3>2. AtEnd(rd[n + 1])
      BY <3>1 DEF Whole, n
    <3>3. QED
      BY <3>1, <3>2
  <2>2. /\ \A k \in 1 .. n + 1 : rd2[k] = rd[k] /\ own2[k] = own[k]
        /\ \A j \in 0 .. m : rd2[(n + 2) + j] = br[j] /\ own2[(n + 2) + j] = tok.id
    <3>1. /\ \A k \in 1 .. n + 1 : k \in Nat /\ k <= n + 1
          /\ \A j \in 0 .. m : /\ (n + 2) + j \in Nat /\ ~((n + 2) + j <= n + 1)
                               /\ ((n + 2) + j) - (n + 2) = j
      BY <1>1
    <3>2. QED
      BY <3>1
  <2> HIDE DEF rd2, own2, p2
  <2>3. ASSUME NEW k \in 1 .. n PROVE Follows(rd2[k], own2[k], u[k], rd2[k + 1], own2[k + 1])
    <3>1. k \in 1 .. p /\ k \in 1 .. n + 1 /\ k + 1 \in 1 .. n + 1 /\ u[k] = s[k]
      BY <1>1, <2>1 DEF n, Extended
    <3>2. Follows(rd[k], own[k], s[k], rd[k + 1], own[k + 1])
      BY <3>1 DEF InStep
    <3>3. QED
      BY <2>2, <3>1, <3>2
  <2>4. Follows(rd2[n + 1], own2[n + 1], u[n + 1], rd2[(n + 1) + 1], own2[(n + 1) + 1])
    <3>1. /\ n + 1 \in 1 .. n + 1 /\ (n + 1) + 1 = (n + 2) + 0 /\ 0 \in 0 .. m /\ u[n + 1] = tok
      BY <1>1 DEF n, Extended
    <3>2. rd2[n + 1] = rd[n + 1] /\ rd2[(n + 1) + 1] = br[0] /\ own2[(n + 1) + 1] = tok.id
      BY <2>2, <3>1
    <3>3. QED
      BY <1>3, <2>1, <3>1, <3>2 DEF Follows, TakesBody
  <2>5. ASSUME NEW j \in 1 .. m
        PROVE  Follows(rd2[(n + 1) + j], own2[(n + 1) + j], u[(n + 1) + j],
                       rd2[((n + 1) + j) + 1], own2[((n + 1) + j) + 1])
    <3>1. /\ j - 1 \in 0 .. m /\ j \in 0 .. m /\ (n + 1) + j = (n + 2) + (j - 1)
          /\ ((n + 1) + j) + 1 = (n + 2) + j
      BY <1>1
    <3>2. /\ rd2[(n + 1) + j] = br[j - 1] /\ own2[(n + 1) + j] = tok.id
          /\ rd2[((n + 1) + j) + 1] = br[j] /\ own2[((n + 1) + j) + 1] = tok.id
      BY <2>2, <3>1
    <3>3. u[(n + 1) + j] = q[j] /\ Taken(br, j, q[j], tok.id)
      BY <1>3 DEF n, m, Extended, TakesBody
    <3>4. QED
      BY <3>2, <3>3 DEF Taken, Follows
  <2>6. \A k \in 1 .. p2 : k \in 1 .. n \/ k = n + 1 \/ \E j \in 1 .. m : k = (n + 1) + j
    <3>1. SUFFICES ASSUME NEW k \in 1 .. p2, ~(k \in 1 .. n), k # n + 1
                   PROVE  k - (n + 1) \in 1 .. m /\ k = (n + 1) + (k - (n + 1))
      OBVIOUS
    <3>2. QED
      BY <1>1, <3>1 DEF p2
  <2>7. \A k \in 1 .. p2 : Follows(rd2[k], own2[k], u[k], rd2[k + 1], own2[k + 1])
    BY <2>3, <2>4, <2>5, <2>6
  <2>8. InStep(u, p2, rd2, own2)
    <3>1. ~(p2 < Len(u))
      BY <1>1, <2>1
    <3>2. QED
      BY <2>1, <2>7, <3>1 DEF InStep
  <2>9. AtEnd(br[Len(q)]) => Whole(u, p2, rd2)
    <3>1. p2 + 1 = (n + 2) + m /\ m \in 0 .. m
      BY <1>1 DEF p2
    <3>2. rd2[p2 + 1] = br[m]
      BY <2>2, <3>1
    <3>3. QED
      BY <1>3, <3>2 DEF Whole, m
  <2>10. rd2[1] = rd[1] /\ own2[1] = own[1]
    BY <1>1, <2>2
  <2>11. QED
    BY <1>3, <2>8, <2>9, <2>10
<1>4. QED
  BY <1>2, <1>3


-----------------------------------------------------------------------------
(***************************************************************************)
(* A reader is closed, and serve goes back to reading requests, only where *)
(* the reader is at the end of the body or there is nothing more to read,  *)
(* unless the connection is about to be closed.                            *)
(***************************************************************************)
AtRest == AtEnd(body) \/ ReadFails

GoneOK == client = "gone" => unsent = <<>>

RestOK ==
    conn = "open" =>
        /\ body.closed => AtRest
        /\ pc = "read" => AtRest
        /\ pc = "next" => w.closeAfterReply \/ AtRest

SyncInv == StreamOK /\ GoneOK /\ RestOK

\* A connection that serve gave up or gave away does not come back.
LEMMA ConnStaysLost ==
    ASSUME [Next]_vars, conn' = "open"
    PROVE  conn = "open"
<1>1. CASE UNCHANGED vars
  BY <1>1 DEF vars, svars
<1>2. CASE NewRequest \/ ClientStep
  BY <1>2 DEF NewRequest, AcceptRequest, RefuseExpectation, AtRequest, ClientStep
<1>3. CASE ServeStep
  BY <1>3 DEF ServeStep, RejectRequest, EndOfRequests, DrainStep, DrainDone, CloseStep, CloseDone,
     DoWrite, DoFlush, DoReadFrom, Refuse, FinishBody, NextRequest
<1>4. CASE HandlerStep
  BY <1>4 DEF HandlerStep, HandlerWriteHeader, HandlerWrite, HandlerReadFrom, HandlerFlush,
     HandlerAsks, HandlerReads, HandlerReadsTooMuch, HandlerClosesBody, Hijack, HandlerPanics,
     HandlerReturns
<1>5. CASE TimeoutStep
  BY <1>5 DEF TimeoutStep, Starts, Done, TimesOut, Served, CallsWriteHeader, CallsWrite, Writes,
     WritesLate, WritesOnClosed, Finishes, svars
<1>6. QED
  BY <1>1, <1>2, <1>3, <1>4, <1>5 DEF Next, ServerStep

\* In front of the head of a request, and of a token of a body.
LEMMA InStepHead ==
    ASSUME InputTyped, in # <<>>, NEW p, NEW rd, NEW own, InStep(Stream, p, rd, own),
           rd[1] = body
    PROVE  /\ Stream[1] = Head(in) /\ 1 \in 1 .. Len(Stream) /\ p \in Nat
           /\ Head(in).kind = "head" => AtEnd(body)
           /\ Head(in).kind # "head" \/ ~Malformed(Head(in)) =>
                 p # 0 /\ Follows(body, own[1], Head(in), rd[2], own[2])
<1>1. Len(in) \in Nat /\ Len(in) # 0 /\ Head(in) = in[1]
  BY StreamAt, EmptySeq, LenProperties, HeadTailProperties
<1>2. 1 \in 1 .. Len(in) /\ 1 \in 1 .. Len(Stream) /\ Len(Stream) \in Nat /\ 0 < Len(Stream)
  BY <1>1, StreamAt
<1>3. Stream[1] = Head(in)
  BY <1>1, <1>2, StreamAt
<1>4. p \in Nat
  BY DEF InStep
<1>5. CASE p = 0
  BY <1>2, <1>3, <1>4, <1>5 DEF InStep
<1>6. CASE p # 0
  <2>1. 1 \in 1 .. p
    BY <1>4, <1>6
  <2>2. Follows(rd[1], own[1], Stream[1], rd[1 + 1], own[1 + 1])
    BY <2>1 DEF InStep
  <2>3. QED
    BY <1>2, <1>3, <1>4, <1>6, <2>2 DEF Follows
<1>7. QED
  BY <1>5, <1>6

\* Tail of the stream.
LEMMA StreamShift ==
    ASSUME InputTyped, InputTyped', in # <<>>, in' = Tail(in), UNCHANGED <<sent, unsent>>
    PROVE  /\ Stream \in Seq(Wire(sent)) /\ Stream' \in Seq(Wire(sent))
           /\ Len(Stream) = Len(Stream') + 1
           /\ \A k \in 1 .. Len(Stream') : Stream'[k] = Stream[k + 1]
<1> DEFINE n == Len(in')
           m == Len(unsent)
<1>1. /\ Stream \in Seq(Wire(sent)) /\ Len(Stream) = Len(in) + m
      /\ in \in Seq(Wire(sent)) /\ m \in Nat
      /\ \A i \in 1 .. Len(in) : Stream[i] = in[i]
      /\ \A j \in 1 .. m : Stream[Len(in) + j] = unsent[j]
  BY StreamAt
<1>2. /\ Stream' \in Seq(Wire(sent)) /\ Len(Stream') = n + m
      /\ n \in Nat
      /\ \A i \in 1 .. n : Stream'[i] = in'[i]
      /\ \A j \in 1 .. m : Stream'[n + j] = unsent[j]
  <2>1. in' \in Seq(Wire(sent)) /\ unsent \in Seq(Wire(sent)) /\ Stream' = in' \o unsent
    BY SeqMonotonic DEF InputTyped, WireTyped, Wire, Stream
  <2>2. QED
    BY <2>1, ConcatAt
<1>3. Len(in) = n + 1 /\ \A i \in 1 .. n : in'[i] = in[i + 1]
  BY <1>1, HeadTailProperties, EmptySeq, LenProperties
<1> HIDE DEF n, m
<1>4. ASSUME NEW k \in 1 .. Len(Stream') PROVE Stream'[k] = Stream[k + 1]
  <2>1. CASE k <= n
    <3>1. k \in 1 .. n /\ k + 1 \in 1 .. Len(in)
      BY <1>2, <1>3, <2>1
    <3>2. QED
      BY <1>1, <1>2, <1>3, <3>1
  <2>2. CASE ~(k <= n)
    <3>1. k - n \in 1 .. m /\ n + (k - n) = k /\ Len(in) + (k - n) = k + 1
      BY <1>1, <1>2, <1>3, <2>2
    <3>2. QED
      BY <1>1, <1>2, <3>1
  <2>3. QED
    BY <2>1, <2>2
<1>5. QED
  BY <1>1, <1>2, <1>3, <1>4


LEMMA StreamReads ==
    ASSUME InputTyped, InputTyped', StreamOK, conn = "open", ReadsBody \/ ReadsRequest
    PROVE  StreamOK'
<1>1. PICK p, rd, own : /\ InStep(Stream, p, rd, own) /\ rd[1] = body /\ own[1] = req.id
                        /\ client = "open" => Whole(Stream, p, rd)
  BY DEF StreamOK
<1>2. in # <<>> /\ in' = Tail(in) /\ UNCHANGED <<sent, unsent, client>>
  BY DEF ReadsBody, TakeToken, ReadsRequest, AtRequest
<1>3. p # 0 /\ rd[2] = body' /\ own[2] = req'.id /\ body'.at # "error"
  <2>1. CASE ReadsBody
    <3>1. ~AtEnd(body) /\ body' = BodyStep(body, Head(in)) /\ UNCHANGED req
      BY <2>1 DEF ReadsBody, TakeToken, BodyStuck
    <3>2. Head(in).kind # "head"
      BY <1>1, <1>2, <3>1, InStepHead
    <3>3. p # 0 /\ Follows(body, own[1], Head(in), rd[2], own[2])
      BY <1>1, <1>2, <3>2, InStepHead
    <3>4. QED
      BY <1>1, <3>1, <3>2, <3>3 DEF Follows
  <2>2. CASE ReadsRequest
    <3>1. /\ Head(in).kind = "head" /\ ~Malformed(Head(in)) /\ req' = Parse(Head(in))
          /\ body' = RequestTransfer(Head(in)).body
      BY <2>2 DEF ReadsRequest
    <3>2. p # 0 /\ Follows(body, own[1], Head(in), rd[2], own[2])
      BY <1>1, <1>2, <3>1, InStepHead
    <3>3. rd[2] = body' /\ own[2] = Head(in).id
      BY <3>1, <3>2 DEF Follows
    <3>4. body'.at # "error"
      BY <3>1 DEF RequestTransfer, BodyReader
    <3>5. QED
      BY <3>1, <3>2, <3>3, <3>4 DEF Parse
  <2>3. QED
    BY <2>1, <2>2
<1>4. PICK rd2, own2 : /\ InStep(Stream', p - 1, rd2, own2) /\ rd2[1] = rd[2] /\ own2[1] = own[2]
                       /\ Whole(Stream, p, rd) => Whole(Stream', p - 1, rd2)
  <2>1. /\ Stream \in Seq(Wire(sent)) /\ Stream' \in Seq(Wire(sent))
        /\ Len(Stream) = Len(Stream') + 1
        /\ \A k \in 1 .. Len(Stream') : Stream'[k] = Stream[k + 1]
    BY <1>2, StreamShift
  <2>2. PICK S, s, u : s \in Seq(S) /\ u \in Seq(S) /\ s = Stream /\ u = Stream'
    BY <2>1
  <2>3. /\ Len(s) = Len(u) + 1 /\ \A k \in 1 .. Len(u) : u[k] = s[k + 1]
        /\ InStep(s, p, rd, own) /\ p # 0
    BY <1>1, <1>3, <2>1, <2>2
  <2>4. \E rd2, own2 : /\ InStep(u, p - 1, rd2, own2) /\ rd2[1] = rd[2] /\ own2[1] = own[2]
                       /\ Whole(s, p, rd) => Whole(u, p - 1, rd2)
    BY <2>2, <2>3, InStepShift
  <2>5. QED
    BY <2>2, <2>4
<1>5. QED
  BY <1>1, <1>2, <1>3, <1>4 DEF StreamOK

\* Closing a reader changes nothing for the tokens behind the body.
LEMMA StreamCloses ==
    ASSUME InputTyped, StreamOK, GoneOK, RestOK, conn = "open", ClosesBody
    PROVE  StreamOK' /\ AtRest /\ AtRest'
<1>1. PICK p, rd, own : /\ InStep(Stream, p, rd, own) /\ rd[1] = body /\ own[1] = req.id
                        /\ client = "open" => Whole(Stream, p, rd)
  BY DEF StreamOK
<1>2. /\ UNCHANGED <<in, unsent, client, req>> /\ Stream' = Stream
      /\ body' = [body EXCEPT !.closed = TRUE]
  BY DEF ClosesBody, clientVars, Stream
<1>3. AtRest /\ body.at # "error"
  BY DEF ClosesBody, BodyStuck, StreamOK, RestOK, AtRest
<1>4. AtEnd(body') = AtEnd(body) /\ body'.at = body.at
  BY <1>2 DEF AtEnd, InputTyped, Reader
<1>5. AtRest'
  BY <1>2, <1>3, <1>4 DEF AtRest, ReadFails
<1> DEFINE rd2 == [k \in Nat |-> IF k = 1 THEN body' ELSE rd[k]]
<1>6. rd2[1] = body' /\ \A k \in Nat : k # 1 => rd2[k] = rd[k]
  OBVIOUS
<1> HIDE DEF rd2
<1>7. Len(Stream) \in Nat /\ p \in Nat /\ p \in 0 .. Len(Stream)
  BY <1>1, StreamAt, LenProperties DEF InStep
<1>8. CASE AtEnd(body)
  <2>1. ASSUME NEW k \in 1 .. p
        PROVE  Follows(rd2[k], own[k], Stream[k], rd2[k + 1], own[k + 1])
    <3>1. k \in Nat /\ k + 1 \in Nat /\ k + 1 # 1
      BY <1>7
    <3>2. Follows(rd[k], own[k], Stream[k], rd[k + 1], own[k + 1]) /\ rd2[k + 1] = rd[k + 1]
      BY <1>1, <1>6, <3>1 DEF InStep
    <3>3. CASE k = 1
      BY <1>1, <1>4, <1>6, <1>8, <3>2, <3>3 DEF Follows
    <3>4. CASE k # 1
      BY <1>6, <3>1, <3>2, <3>4
    <3>5. QED
      BY <3>3, <3>4
  <2>2. p + 1 \in Nat /\ (AtEnd(rd[p + 1]) => AtEnd(rd2[p + 1]))
    <3>1. p + 1 \in Nat
      BY <1>7
    <3>2. QED
      BY <1>4, <1>6, <1>8, <3>1
  <2>3. InStep(Stream, p, rd2, own) /\ (Whole(Stream, p, rd) => Whole(Stream, p, rd2))
    BY <1>1, <1>7, <2>1, <2>2 DEF InStep, Whole
  <2>4. QED
    BY <1>1, <1>2, <1>3, <1>4, <1>5, <1>6, <2>3 DEF StreamOK
<1>9. CASE ReadFails
  <2>1. Len(Stream) = 0 /\ client = "gone"
    <3>1. in = <<>> /\ unsent = <<>> /\ client = "gone"
      BY <1>9 DEF ReadFails, GoneOK
    <3>2. Len(in) = 0 /\ Len(unsent) = 0
      BY <3>1
    <3>3. QED
      BY <3>1, <3>2, StreamAt
  <2>2. InStep(Stream, 0, rd2, own)
    BY <2>1 DEF InStep
  <2>3. QED
    BY <1>1, <1>2, <1>3, <1>4, <1>5, <1>6, <2>1, <2>2 DEF StreamOK
<1>10. QED
  BY <1>3, <1>8, <1>9 DEF AtRest


LEMMA StreamSends ==
    ASSUME InputTyped, InputTyped', StreamOK, conn = "open", NEW r \in UNION Range(Requests),
           SendHead(r)
    PROVE  StreamOK'
<1>1. PICK p, rd, own : /\ InStep(Stream, p, rd, own) /\ rd[1] = body /\ own[1] = req.id
                        /\ client = "open" => Whole(Stream, p, rd)
  BY DEF StreamOK
<1>2. PICK t : t = newTransferWriter(r)
  OBVIOUS
<1>3. /\ client = "open" /\ unsent = <<>> /\ UNCHANGED <<req, body, conn>>
      /\ in' = Append(in, Head11(r, sent')) /\ unsent' = BodyTokens(sent', t)
      /\ client' = "open" => ~WrongLength(t)
  BY <1>2 DEF SendHead
<1>4. PICK S, s, u, q, tok, z :
          /\ S = Wire(sent') /\ s = in /\ u = Stream' /\ q = unsent' /\ tok = Head11(r, sent')
          /\ z = in'
  OBVIOUS
<1>5. tok.kind = "head" /\ tok.id = sent'
  BY <1>4 DEF Head11
<1>6. s \in Seq(S) /\ tok \in S /\ q \in Seq(S) /\ z \in Seq(S) /\ u = z \o q /\ z = Append(s, tok)
  <2>1. sent \in Nat /\ sent' \in Nat \ {0} /\ sent <= sent'
    BY NumberOfRequests DEF SendHead, InputTyped, WireTyped
  <2>2. s \in Seq(S)
    BY <1>4, <2>1, WireGrows, SeqMonotonic DEF InputTyped, WireTyped
  <2>3. tok \in S
    BY <1>4, <2>1, HeadTyped DEF Wire
  <2>4. q \in Seq(S) /\ z \in Seq(S)
    BY <1>4, SeqMonotonic DEF InputTyped, WireTyped, Wire
  <2>5. QED
    BY <1>3, <1>4, <2>2, <2>3, <2>4 DEF Stream
<1>7. u \in Seq(S) /\ Extended(u, s, tok, q)
  <2>1. /\ Len(z) = Len(s) + 1 /\ z[Len(s) + 1] = tok /\ \A k \in 1 .. Len(s) : z[k] = s[k]
        /\ Len(s) \in Nat
    BY <1>6, AppendProperties, LenProperties
  <2>2. /\ u \in Seq(S) /\ Len(u) = Len(z) + Len(q)
        /\ \A i \in 1 .. Len(z) : u[i] = z[i]
        /\ \A j \in 1 .. Len(q) : u[Len(z) + j] = q[j]
    BY <1>6, ConcatAt
  <2>3. Len(s) + 1 \in 1 .. Len(s) + 1 /\ \A k \in 1 .. Len(s) : k \in 1 .. Len(s) + 1
    BY <2>1
  <2>4. QED
    BY <2>1, <2>2, <2>3 DEF Extended
<1>8. InStep(s, p, rd, own) /\ Whole(s, p, rd)
  <2>1. Stream = in
    BY <1>3, ConcatEmptySeq, StreamAt DEF Stream
  <2>2. QED
    BY <1>1, <1>3, <1>4, <2>1
<1>9. PICK br : TakesBody(br, tok, q) /\ (~WrongLength(t) /\ ~Malformed(tok) => AtEnd(br[Len(q)]))
  <2>1. CASE ~Malformed(tok)
    BY <1>2, <1>3, <1>4, <1>5, <2>1, BodyTaken DEF TakesBody
  <2>2. CASE Malformed(tok)
    BY <2>2 DEF TakesBody
  <2>3. QED
    BY <2>1, <2>2
<1>10. \E p2, rd2, own2 : /\ InStep(u, p2, rd2, own2) /\ rd2[1] = rd[1] /\ own2[1] = own[1]
                          /\ Malformed(tok) \/ AtEnd(br[Len(q)]) => Whole(u, p2, rd2)
  <2>1. /\ s \in Seq(S) /\ u \in Seq(S) /\ q \in Seq(S) /\ tok.kind = "head"
        /\ Extended(u, s, tok, q) /\ InStep(s, p, rd, own) /\ Whole(s, p, rd)
        /\ TakesBody(br, tok, q)
    BY <1>5, <1>6, <1>7, <1>8, <1>9
  <2>2. QED
    BY <2>1, InStepExtend
<1>11. QED
  BY <1>1, <1>3, <1>4, <1>9, <1>10 DEF StreamOK

LEMMA StreamClient ==
    ASSUME InputTyped, InputTyped', StreamOK, GoneOK, ClientStep
    PROVE  StreamOK' /\ GoneOK' /\ (AtRest => AtRest') /\ UNCHANGED <<body, pc, w>>
<1>1. conn = "open" /\ UNCHANGED <<body, pc, w, conn, req>>
  BY DEF ClientStep, SendHead, SendBody, ClientGone, replyVars
<1>2. ReadFails => FALSE
  <2>1. SUFFICES ASSUME in = <<>>, client = "gone" PROVE FALSE
    BY DEF ReadFails
  <2>2. QED
    BY <2>1 DEF ClientStep, SendHead, SendBody, ClientGone, GoneOK
<1>3. AtRest => AtRest'
  BY <1>1, <1>2 DEF AtRest
<1>4. PICK p, rd, own : /\ InStep(Stream, p, rd, own) /\ rd[1] = body /\ own[1] = req.id
                        /\ client = "open" => Whole(Stream, p, rd)
  BY <1>1 DEF StreamOK
<1>5. ASSUME NEW r \in UNION Range(Requests), SendHead(r) PROVE StreamOK' /\ GoneOK'
  <2>1. client' # "gone"
    BY <1>5 DEF SendHead
  <2>2. QED
    BY <1>1, <1>5, <2>1, StreamSends DEF GoneOK
<1>6. ASSUME SendBody PROVE StreamOK' /\ GoneOK'
  <2>1. Stream' = Stream
    <3>1. in' = in \o unsent /\ unsent' = <<>>
      BY <1>6 DEF SendBody
    <3>2. Stream' = (in \o unsent) \o <<>>
      BY <3>1 DEF Stream
    <3>3. QED
      BY <3>2, StreamAt, ConcatEmptySeq DEF Stream
  <2>2. unsent' = <<>> /\ (client' = "open" => client = "open")
    BY <1>6 DEF SendBody
  <2>3. QED
    BY <1>1, <1>4, <2>1, <2>2 DEF StreamOK, GoneOK
<1>7. ASSUME ClientGone PROVE StreamOK' /\ GoneOK'
  <2>1. unsent' = <<>> /\ client' = "gone" /\ UNCHANGED <<in, sent>>
    BY <1>7 DEF ClientGone
  <2>2. PICK S, s, u : s = Stream /\ u = in /\ s \in Seq(S) /\ u \in Seq(S)
    BY StreamAt
  <2>3. Stream' = u
    <3>1. Stream' = in \o <<>>
      BY <2>1 DEF Stream
    <3>2. QED
      BY <2>2, <3>1, ConcatEmptySeq
  <2>4. Len(u) <= Len(s) /\ \A k \in 1 .. Len(u) : u[k] = s[k]
    BY <2>2, StreamAt
  <2>5. \E p2 : InStep(u, p2, rd, own)
    BY <1>4, <2>2, <2>4, InStepPrefix
  <2>6. QED
    BY <1>1, <1>4, <2>1, <2>3, <2>5 DEF StreamOK, GoneOK
<1>8. QED
  BY <1>1, <1>3, <1>5, <1>6, <1>7 DEF ClientStep


\* A response that closes the connection goes on doing so, whatever is written.
LEMMA KeepsClosing ==
    ASSUME NEW v, IsResponse(v), v.closeAfterReply = TRUE, NEW code, NEW n
    PROVE  Write(HeaderOn(v, code), n).w.closeAfterReply = TRUE /\ Sniff(v).closeAfterReply = TRUE
<1>1. BeginHeader(v, code).closeAfterReply = TRUE
      /\ DOMAIN BeginHeader(v, code) = ResponseFields
  BY DEF BeginHeader, IsResponse, ResponseFields
<1>2. EndHeader(BeginHeader(v, code)).closeAfterReply = TRUE
      /\ DOMAIN EndHeader(BeginHeader(v, code)) = ResponseFields
  <2> DEFINE b == BeginHeader(v, code)
  <2>1. b.closeAfterReply = TRUE /\ DOMAIN b = ResponseFields
    BY <1>1
  <2> HIDE DEF b
  <2>2. EndHeader(b).closeAfterReply = TRUE /\ DOMAIN EndHeader(b) = ResponseFields
    BY <2>1 DEF EndHeader, ResponseFields
  <2>3. QED
    BY <2>2 DEF b
<1>3. PICK u : u = HeaderOn(v, code)
  OBVIOUS
<1>4. u.closeAfterReply = TRUE /\ DOMAIN u = ResponseFields
  BY <1>2, <1>3 DEF HeaderOn, IsResponse
<1>5. Write(u, n).w.closeAfterReply = TRUE
  BY <1>4 DEF Write, Sniff, ResponseFields
<1>6. Sniff(v).closeAfterReply = TRUE
  BY DEF Sniff, IsResponse, ResponseFields
<1>7. QED
  BY <1>3, <1>5, <1>6


\* How serve gets to its next read of a request.
LEMMA BackToRead ==
    ASSUME ServerInv, [Next]_vars, pc' = "read"
    PROVE  \/ NextRequest
           \/ pc = "read" /\ (UNCHANGED inputVars \/ ClientStep)
<1>1. CASE UNCHANGED vars
  BY <1>1 DEF vars, svars, inputVars
<1>2. CASE ClientStep
  BY <1>2 DEF ClientStep, SendHead, SendBody, ClientGone
<1>3. CASE NewRequest
  BY <1>3 DEF NewRequest, AcceptRequest, RefuseExpectation
<1>4. CASE ServeStep
  <2>1. ~DrainDone /\ ~CloseDone
    BY DEF DrainDone, CloseDone, ServerInv, ControlInv, CallOK, Callback
  <2>2. ~Refuse
    BY WithHeaderGoes DEF Refuse
  <2>3. QED
    BY <1>4, <2>1, <2>2 DEF ServeStep, RejectRequest, EndOfRequests, DrainStep, CloseStep,
       DoWrite, DoFlush, DoReadFrom, FinishBody
<1>5. CASE HandlerStep
  <2>1. \A code, n : ~HandlerWriteHeader(code) /\ ~HandlerWrite(n) /\ ~HandlerReadFrom(n)
    BY WithHeaderGoes DEF HandlerWriteHeader, HandlerWrite, HandlerReadFrom
  <2>2. ~HandlerFlush /\ ~HandlerReturns
    BY WithHeaderGoes DEF HandlerFlush, HandlerReturns, FinishRequest
  <2>3. QED
    BY <1>5, <2>1, <2>2 DEF HandlerStep, HandlerAsks, HandlerReads, HandlerReadsTooMuch, Handling,
       HandlerClosesBody, Hijack, HandlerPanics
<1>6. CASE TimeoutStep
  <2>1. ~Served
    BY WithHeaderGoes DEF Served, FinishRequest
  <2>2. QED
    BY <1>6, <2>1 DEF TimeoutStep, Starts, Done, TimesOut, CallsWriteHeader, CallsWrite,
       Writes, WritesLate, WritesOnClosed, Finishes, svars, inputVars, clientVars
<1>7. QED
  BY <1>1, <1>2, <1>3, <1>4, <1>5, <1>6 DEF Next, ServerStep

\* How it gets to the end of finishRequest, and what happens there meanwhile.
LEMMA BackToNext ==
    ASSUME ServerInv, [Next]_vars, pc' = "next"
    PROVE  \/ ClosesBody
           \/ w.closeAfterReply = TRUE /\ w'.closeAfterReply = TRUE
           \/ /\ pc = "next" /\ (UNCHANGED inputVars \/ ClientStep)
              /\ w.closeAfterReply = TRUE => w'.closeAfterReply = TRUE
<1>0. IsResponse(w) /\ got \in Nat
  BY DEF ServerInv, ReplyInv, ReplyTyped, PlaceTyped
<1>1. CASE UNCHANGED vars
  BY <1>1 DEF vars, svars, inputVars
<1>2. CASE ClientStep
  BY <1>2 DEF ClientStep, SendHead, SendBody, ClientGone, replyVars
<1>3. CASE NewRequest
  BY <1>3 DEF NewRequest, AcceptRequest, RefuseExpectation
<1>4. CASE ServeStep
  <2>1. ~DrainDone
    BY DEF DrainDone, ServerInv, ControlInv, CallOK, Callback
  <2>2. ~Refuse
    BY WithHeaderGoes DEF Refuse
  <2>3. CASE CloseDone
    BY <2>3 DEF CloseDone, ClosesBody, clientVars
  <2>4. CASE FinishBody
    BY <1>0, <2>4, KeepsClosing DEF FinishBody
  <2>5. QED
    BY <1>4, <2>1, <2>2, <2>3, <2>4 DEF ServeStep, RejectRequest, EndOfRequests, DrainStep,
       CloseStep, DoWrite, DoFlush, DoReadFrom, NextRequest
<1>5. CASE HandlerStep
  <2>1. \A code, n : ~HandlerWriteHeader(code) /\ ~HandlerWrite(n) /\ ~HandlerReadFrom(n)
    BY WithHeaderGoes DEF HandlerWriteHeader, HandlerWrite, HandlerReadFrom
  <2>2. ~HandlerFlush /\ ~HandlerReturns
    BY WithHeaderGoes DEF HandlerFlush, HandlerReturns, FinishRequest
  <2>3. QED
    BY <1>5, <2>1, <2>2 DEF HandlerStep, HandlerAsks, HandlerReads, HandlerReadsTooMuch, Handling,
       HandlerClosesBody, Hijack, HandlerPanics
<1>6. CASE TimeoutStep
  <2>1. ~Served
    BY WithHeaderGoes DEF Served, FinishRequest
  <2>2. ASSUME NEW i \in 1 .. MaxRequests, Writes(i)
        PROVE  /\ pc = "next" /\ UNCHANGED inputVars
               /\ w.closeAfterReply = TRUE => w'.closeAfterReply = TRUE
    <3>1. pc = "next" /\ UNCHANGED inputVars
      BY <2>2 DEF Writes, inputVars, clientVars
    <3>2. PICK code, n : PutReply(code, n)
      BY <2>2 DEF Writes
    <3>3. w' = Write(HeaderOn(w, code), n).w
      BY <3>2 DEF PutReply
    <3>4. QED
      BY <1>0, <3>1, <3>3, KeepsClosing
  <2>3. QED
    BY <1>6, <2>1, <2>2 DEF TimeoutStep, Starts, Done, TimesOut, CallsWriteHeader, CallsWrite,
       WritesLate, WritesOnClosed, Finishes, svars, inputVars, clientVars
<1>7. QED
  BY <1>1, <1>2, <1>3, <1>4, <1>5, <1>6 DEF Next, ServerStep

LEMMA RestNext ==
    ASSUME ServerInv, ServerInv', SyncInv, [Next]_vars, conn' = "open"
    PROVE  /\ body'.closed => AtRest'
           /\ pc' = "read" => AtRest'
           /\ pc' = "next" => w'.closeAfterReply \/ AtRest'
<1>1. /\ conn = "open" /\ InputTyped /\ InputTyped' /\ StreamOK /\ GoneOK /\ got \in Nat
      /\ RestOK /\ Reader(body)
  BY ConnStaysLost DEF ServerInv, SyncInv, ReplyInv, PlaceTyped, InputTyped
<1>2. UNCHANGED inputVars => (AtRest => AtRest') /\ UNCHANGED body
  BY DEF inputVars, AtRest, ReadFails
<1>3. ClientStep => (AtRest => AtRest') /\ UNCHANGED body
  BY <1>1, StreamClient
<1>4. ClosesBody => AtRest'
  BY <1>1, StreamCloses
<1>5. body'.closed => AtRest'
  <2>1. CASE ReadsBody
    <3>1. Head(in) \in Wire(sent)
      BY <1>1, <2>1, ReceiveType DEF ReadsBody, TakeToken, InputTyped, WireTyped
    <3>2. body'.closed = body.closed /\ ~body.closed
      BY <1>1, <2>1, <3>1, TokenFields, BodyStepReader DEF ReadsBody, TakeToken, BodyStuck
    <3>3. QED
      BY <3>2
  <2>2. CASE ReadsRequest
    <3>1. Head(in) \in Wire(sent)
      BY <1>1, <2>2, ReceiveType DEF ReadsRequest, AtRequest, InputTyped, WireTyped
    <3>2. QED
      BY <2>2, <3>1, TokenFields, TransferReader DEF ReadsRequest
  <2>3. CASE RejectRequest
    BY <2>3 DEF RejectRequest
  <2>4. CASE UNCHANGED inputVars \/ ClientStep
    BY <1>1, <1>2, <1>3, <2>4 DEF RestOK
  <2>5. QED
    BY <1>1, <1>4, <2>1, <2>2, <2>3, <2>4, InputEffect
<1>6. pc' = "read" => AtRest'
  <2>1. CASE NextRequest /\ pc' = "read"
    <3>1. pc = "next" /\ ~w.closeAfterReply /\ UNCHANGED inputVars
      BY <2>1 DEF NextRequest, inputVars, clientVars
    <3>2. QED
      BY <1>1, <1>2, <3>1 DEF RestOK
  <2>2. QED
    BY <1>1, <1>2, <1>3, <2>1, BackToRead DEF RestOK
<1>7. pc' = "next" => w'.closeAfterReply \/ AtRest'
  <2>1. SUFFICES ASSUME pc' = "next" PROVE w'.closeAfterReply \/ AtRest'
    OBVIOUS
  <2>2. CASE w'.closeAfterReply = TRUE
    BY <2>2
  <2>3. CASE pc = "next" /\ (UNCHANGED inputVars \/ ClientStep) /\ w.closeAfterReply # TRUE
    BY <1>1, <1>2, <1>3, <2>3 DEF RestOK
  <2>4. QED
    BY <1>4, <2>1, <2>2, <2>3, BackToNext
<1>8. QED
  BY <1>5, <1>6, <1>7


LEMMA SyncNext ==
    ASSUME ServerInv, ServerInv', SyncInv, [Next]_vars
    PROVE  SyncInv'
<1>1. /\ InputTyped /\ InputTyped' /\ StreamOK /\ GoneOK /\ RestOK /\ got \in Nat
  BY DEF ServerInv, SyncInv, ReplyInv, PlaceTyped
<1>2. RestOK'
  BY RestNext DEF RestOK
<1>3. GoneOK'
  <2>1. CASE ClientStep
    BY <1>1, <2>1, StreamClient
  <2>2. CASE ~ClientStep
    <3>1. UNCHANGED <<client, unsent>>
      BY <1>1, <2>2, InputEffect DEF inputVars, ReadsBody, ClosesBody, clientVars, ReadsRequest,
         RejectRequest
    <3>2. QED
      BY <1>1, <3>1 DEF GoneOK
  <2>3. QED
    BY <2>1, <2>2
<1>4. StreamOK'
  <2>1. SUFFICES ASSUME conn' = "open" PROVE StreamOK'
    BY DEF StreamOK
  <2>2. conn = "open"
    BY <2>1, ConnStaysLost
  <2>3. CASE UNCHANGED inputVars
    <3>1. Stream' = Stream /\ UNCHANGED <<body, client, req>>
      BY <2>3 DEF inputVars, Stream
    <3>2. QED
      BY <1>1, <2>2, <3>1 DEF StreamOK
  <2>4. CASE ReadsBody \/ ReadsRequest
    BY <1>1, <2>2, <2>4, StreamReads
  <2>5. CASE ClosesBody
    BY <1>1, <2>2, <2>5, StreamCloses
  <2>6. CASE RejectRequest
    BY <2>1, <2>6 DEF RejectRequest
  <2>7. CASE ClientStep
    BY <1>1, <2>7, StreamClient
  <2>8. QED
    BY <1>1, <2>3, <2>4, <2>5, <2>6, <2>7, InputEffect
<1>5. QED
  BY <1>2, <1>3, <1>4 DEF SyncInv

LEMMA SyncInit ==
    ASSUME TInit
    PROVE  SyncInv
<1>1. /\ in = <<>> /\ unsent = <<>> /\ client = "open"
      /\ body = BodyReader("limited", 0)
  BY DEF TInit, Init
<1>2. AtEnd(body) /\ body.at # "error" /\ ~body.closed
  BY <1>1 DEF BodyReader, AtEnd
<1>3. Stream = <<>> /\ Len(Stream) = 0
  BY <1>1 DEF Stream
<1> DEFINE rd == [k \in Nat |-> body]
           own == [k \in Nat |-> req.id]
<1>4. rd[1] = body /\ own[1] = req.id
  OBVIOUS
<1> HIDE DEF rd, own
<1>5. InStep(Stream, 0, rd, own) /\ Whole(Stream, 0, rd)
  BY <1>2, <1>3, <1>4 DEF InStep, Whole
<1>6. StreamOK
  BY <1>2, <1>4, <1>5 DEF StreamOK
<1>7. RestOK /\ GoneOK
  BY <1>1, <1>2 DEF RestOK, AtRest, GoneOK
<1>8. QED
  BY <1>6, <1>7 DEF SyncInv

\* The server reads a request where the client wrote one, and a body where the client
\* wrote the body of that request: for every mix of framings, however much of a body
\* the handler, WriteHeader and Body.Close read, and wherever the client stops.
THEOREM StreamStaysInSync == Spec => []StreamInSync
<1>1. ASSUME InputTyped, SyncInv PROVE StreamInSync
  <2>1. SUFFICES ASSUME in # <<>>, conn = "open"
                 PROVE  /\ pc = "read" => Head(in).kind = "head"
                        /\ ~BodyStuck /\ pc \in {"handler", "drain", "closeBody"}
                              => Head(in).id = req.id
                        /\ body.at # "error"
    BY DEF StreamInSync
  <2>2. PICK p, rd, own : /\ InStep(Stream, p, rd, own) /\ rd[1] = body /\ own[1] = req.id
                          /\ client = "open" => Whole(Stream, p, rd)
    BY <1>1, <2>1 DEF SyncInv, StreamOK
  <2>3. body.at # "error"
    BY <1>1, <2>1 DEF SyncInv, StreamOK
  <2>4. Head(in).kind # "head" => ~AtEnd(body) /\ Head(in).id = req.id
    BY <1>1, <2>1, <2>2, InStepHead DEF Follows
  <2>5. Head(in).kind = "head" => AtEnd(body)
    BY <1>1, <2>1, <2>2, InStepHead
  <2>6. pc = "read" => AtEnd(body)
    BY <1>1, <2>1 DEF SyncInv, RestOK, AtRest, ReadFails
  <2>7. QED
    BY <2>3, <2>4, <2>5, <2>6 DEF BodyStuck
<1>2. ServerInv /\ SyncInv => StreamInSync
  BY <1>1 DEF ServerInv
<1>3. TInit => ServerInv /\ SyncInv
  BY ServerInit, SyncInit
<1>4. ServerInv /\ SyncInv /\ [Next]_vars => ServerInv' /\ SyncInv'
  BY ServerNext, SyncNext
<1>5. QED
  BY <1>2, <1>3, <1>4, PTL DEF Spec

-----------------------------------------------------------------------------
(***************************************************************************)
(* Replies.  The tokens of a reply, and how their payload adds up.         *)
(***************************************************************************)
Connections == {"", "keep-alive", "close"}
Codings == {h.te : h \in ReplyHeaders} \cup {"", "chunked"}

Heads == [kind : {"head"}, id : Nat, n : {0}, code : Nat, proto : {"1.0", "1.1"},
          conn : Connections, cl : Int, te : Seq(Codings)]
Piece == Heads \cup [kind : {"continue", "end", "data", "size", "crlf"}, id : Nat, n : Nat]

Units(tok) == IF tok.kind = "data" THEN tok.n ELSE 0

LEMMA UnitsTyped == \A x \in Piece : Units(x) \in Nat
  BY DEF Piece, Heads, Units

\* f adds the payload of toks up.
Adds(f, toks) ==
    f[0] = 0 /\ \A i \in 1 .. Len(toks) : f[i] = f[i - 1] + Units(toks[i])

LEMMA PayloadAdds ==
    ASSUME NEW toks \in Seq(Piece)
    PROVE  \E f \in [0 .. Len(toks) -> Nat] : Payload(toks) = f[Len(toks)] /\ Adds(f, toks)
<1> DEFINE n == Len(toks)
           E(g) == [i \in 0 .. n |->
                      IF i = 0 THEN 0 ELSE g[i - 1] + (IF toks[i].kind = "data" THEN toks[i].n ELSE 0)]
<1>1. n \in Nat /\ \A i \in 1 .. n : Units(toks[i]) \in Nat
  BY LenProperties, ElementOfSeq, UnitsTyped
<1>2. \E g : g = E(g)
  <2> DEFINE a == [i \in 1 .. n |-> Units(toks[i])]
  <2>1. a \in [1 .. n -> Nat] /\ \A i \in 1 .. n : a[i] = Units(toks[i])
    BY <1>1
  <2> HIDE DEF a, n
  <2>2. PICK g \in [0 .. n -> Nat] : g[0] = 0 /\ \A i \in 1 .. n : g[i] = g[i - 1] + a[i]
    BY <1>1, <2>1, SumsExist
  <2>3. \A i \in 1 .. n : g[i] = g[i - 1] + Units(toks[i])
    BY <2>1, <2>2
  <2>4. g = E(g)
    <3>1. \A i \in 0 .. n : g[i] = E(g)[i]
      BY <1>1, <2>2, <2>3 DEF Units
    <3>2. g = [i \in 0 .. n |-> g[i]]
      OBVIOUS
    <3>3. QED
      BY <3>1, <3>2
  <2>5. QED
    BY <2>4
<1>3. PICK f : Payload(toks) = f[n] /\ f = E(f)
  BY <1>2 DEF Payload
<1>4. DOMAIN f = 0 .. n /\ f[0] = 0 /\ \A i \in 1 .. n : f[i] = f[i - 1] + Units(toks[i])
  <2>1. \A i \in 0 .. n : f[i] = E(f)[i]
    BY <1>3
  <2>2. DOMAIN f = 0 .. n
    BY <1>3
  <2>3. QED
    BY <1>1, <2>1, <2>2 DEF Units
<1>5. \A i \in 0 .. n : f[i] \in Nat
  <2> DEFINE P == {i \in 0 .. n : f[i] \in Nat}
  <2>1. 0 \in P
    BY <1>1, <1>4
  <2>2. \A i \in 1 .. n : i - 1 \in P => i \in P
    BY <1>1, <1>4
  <2>3. \A i \in 0 .. n : i \in P
    <3> HIDE DEF P, n
    <3>1. QED
      BY <1>1, <2>1, <2>2, UpTo
  <2>4. QED
    BY <2>3
<1>6. f \in [0 .. n -> Nat]
  <2>1. f = [i \in 0 .. n |-> f[i]]
    BY <1>3
  <2> HIDE DEF n
  <2>2. QED
    BY <1>5, <2>1
<1>7. QED
  BY <1>3, <1>4, <1>6 DEF Adds

\* Payload of a concatenation.
LEMMA PayloadConcat ==
    ASSUME NEW s \in Seq(Piece), NEW t \in Seq(Piece)
    PROVE  /\ Payload(s) \in Nat /\ Payload(t) \in Nat
           /\ Payload(s \o t) = Payload(s) + Payload(t)
<1> DEFINE m == Len(s)
           n == Len(t)
<1>1. /\ s \o t \in Seq(Piece) /\ Len(s \o t) = m + n /\ m \in Nat /\ n \in Nat
      /\ \A i \in 1 .. m : (s \o t)[i] = s[i]
      /\ \A j \in 1 .. n : (s \o t)[m + j] = t[j]
      /\ \A i \in 1 .. m : Units(s[i]) \in Nat
      /\ \A i \in 1 .. n : Units(t[i]) \in Nat
  BY ConcatAt, ElementOfSeq, UnitsTyped
<1>2. PICK f \in [0 .. m -> Nat] : Payload(s) = f[m] /\ Adds(f, s)
  BY PayloadAdds
<1>3. PICK g \in [0 .. n -> Nat] : Payload(t) = g[n] /\ Adds(g, t)
  BY PayloadAdds
<1>4. PICK h \in [0 .. (m + n) -> Nat] : Payload(s \o t) = h[m + n] /\ Adds(h, s \o t)
  BY <1>1, PayloadAdds
<1> HIDE DEF m, n
<1>5. h[m] = f[m]
  <2> DEFINE P == {i \in 0 .. m : h[i] = f[i]}
  <2>1. 0 \in P
    BY <1>1, <1>2, <1>4 DEF Adds
  <2>2. \A i \in 1 .. m : i - 1 \in P => i \in P
    BY <1>1, <1>2, <1>4 DEF Adds, m
  <2>3. \A i \in 0 .. m : i \in P
    <3> HIDE DEF P
    <3>1. QED
      BY <1>1, <2>1, <2>2, UpTo
  <2>4. QED
    BY <1>1, <2>3
<1>6. h[m + n] = f[m] + g[n]
  <2> DEFINE P == {j \in 0 .. n : h[m + j] = f[m] + g[j]}
  <2>1. 0 \in P
    BY <1>1, <1>2, <1>3, <1>5 DEF Adds
  <2>2. \A j \in 1 .. n : j - 1 \in P => j \in P
    <3> SUFFICES ASSUME NEW j \in 1 .. n, j - 1 \in P PROVE j \in P
      OBVIOUS
    <3>0. /\ m + j \in 1 .. Len(s \o t) /\ (m + j) - 1 = m + (j - 1)
          /\ j - 1 \in 0 .. n /\ m \in 0 .. m
      BY <1>1
    <3>1. h[m + j] = h[m + (j - 1)] + Units((s \o t)[m + j])
      <4>1. \A i \in 1 .. Len(s \o t) : h[i] = h[i - 1] + Units((s \o t)[i])
        BY <1>4 DEF Adds
      <4>2. h[m + j] = h[(m + j) - 1] + Units((s \o t)[m + j])
        BY <3>0, <4>1
      <4>3. QED
        BY <3>0, <4>2
    <3>2. g[j] = g[j - 1] + Units(t[j])
      BY <1>3 DEF Adds, n
    <3>3. f[m] \in Nat /\ g[j - 1] \in Nat /\ Units(t[j]) \in Nat
      BY <1>1, <1>2, <1>3, <3>0
    <3>4. h[m + (j - 1)] = f[m] + g[j - 1]
      OBVIOUS
    <3>5. (s \o t)[m + j] = t[j]
      BY <1>1
    <3>6. h[m + j] = (f[m] + g[j - 1]) + Units(t[j])
      BY <3>1, <3>4, <3>5
    <3>7. h[m + j] = f[m] + g[j]
      BY <3>2, <3>3, <3>6
    <3>8. QED
      BY <3>7
  <2>3. \A i \in 0 .. n : i \in P
    <3> HIDE DEF P
    <3>1. QED
      BY <1>1, <2>1, <2>2, UpTo
  <2>4. QED
    BY <1>1, <2>3
<1>7. f[m] \in Nat /\ g[n] \in Nat
  BY <1>1, <1>2, <1>3
<1>8. QED
  BY <1>2, <1>3, <1>4, <1>6, <1>7

LEMMA PayloadShort ==
    /\ Payload(<<>>) = 0
    /\ \A x \in Piece : Payload(<<x>>) = Units(x)
<1>1. Payload(<<>>) = 0
  <2>1. <<>> \in Seq(Piece) /\ Len(<<>>) = 0
    OBVIOUS
  <2>2. PICK f \in [0 .. 0 -> Nat] : Payload(<<>>) = f[0] /\ Adds(f, <<>>)
    BY <2>1, PayloadAdds
  <2>3. QED
    BY <2>2 DEF Adds
<1>2. ASSUME NEW x \in Piece PROVE Payload(<<x>>) = Units(x)
  <2>1. <<x>> \in Seq(Piece) /\ Len(<<x>>) = 1 /\ <<x>>[1] = x
    OBVIOUS
  <2>2. PICK f \in [0 .. 1 -> Nat] : Payload(<<x>>) = f[1] /\ Adds(f, <<x>>)
    BY <2>1, PayloadAdds
  <2>3. QED
    BY <2>1, <2>2, UnitsTyped DEF Adds
<1>3. QED
  BY <1>1, <1>2

-----------------------------------------------------------------------------
(***************************************************************************)
(* A response and what it has written.  Until WriteHeader is called        *)
(* nothing but "100 Continue" is out; while WriteHeader reads the rest of  *)
(* the body it has decided about the connection; then the header is out,   *)
(* in front of an open body that says the same as the response; behind     *)
(* finishRequest the body is closed.                                       *)
(***************************************************************************)
HeaderFields == {"conn", "cl", "te", "ct"}

Typed(v) ==
    /\ DOMAIN v = ResponseFields /\ DOMAIN v.header = HeaderFields
    /\ v.status \in StatusCode /\ v.written \in Nat /\ v.sniffed \in Nat
    /\ v.contentLength \in Int
    /\ v.header.conn \in Connections /\ v.header.cl \in Int /\ v.header.te \in Codings

\* v and u have written the same.
Alike(v, u) ==
    /\ v.written = u.written /\ v.sniffed = u.sniffed /\ v.contentLength = u.contentLength
    /\ v.chunking = u.chunking /\ v.needSniff = u.needSniff
    /\ v.wroteContinue = u.wroteContinue

\* What the handlers of the theorem do not do: read a body behind their reply, set a
\* Connection header of their own making, or declare a length with a code that has none.
BodyCode(code) == code \div 100 # 1 /\ code # 204

OrderlyHandlers ==
    /\ ~LateReads
    /\ \A h \in ReplyHeaders : h.conn \in Connections
    /\ (\E h \in ReplyHeaders : h.cl > 0) => \A code \in Codes : BodyCode(code)

Known == req.id \in Nat /\ req.r.proto \in {"1.0", "1.1"}

Asked(v) == IF v.wroteContinue THEN <<Token("continue", req.id, 0)>> ELSE <<>>

Unsent(v, o) ==
    /\ Typed(v)
    /\ v.written = 0 /\ v.sniffed = 0 /\ v.contentLength = -1 /\ ~v.chunking /\ ~v.needSniff
    /\ o = Asked(v)

Fresh(v, o) ==
    /\ Unsent(v, o) /\ ~v.wroteHeader
    /\ v.header.cl > 0 => \A code \in Codes : BodyCode(code)

Begun(v, o) ==
    /\ Unsent(v, o) /\ v.wroteHeader
    /\ v.header.conn = "close" => v.closeAfterReply
    /\ req.r.proto = "1.0" /\ ~v.closeAfterReply => v.header.conn = "keep-alive"
    /\ v.header.cl > 0 => BodyCode(v.status)

LEMMA CodesKnown == StatusCode \subseteq Nat /\ \A code \in {0, 200, 400, 417, 503} : BodyCode(code)
  BY ServerAssumption DEF StatusCode, BodyCode

LEMMA FreshBegins ==
    ASSUME NEW v, NEW o, Fresh(v, o), Known, NEW code \in StatusCode
    PROVE  Begun(BeginHeader(v, code), o)
<1> DEFINE keep == wantsHttp10KeepAlive(req) /\ (req.r.method = "HEAD" \/ v.header.cl >= 0)
           c == IF keep /\ v.header.conn = "" THEN "keep-alive" ELSE v.header.conn
           b == BeginHeader(v, code)
<1>1. Typed(v)
  BY DEF Fresh, Unsent
<1>2. c \in Connections
  BY <1>1 DEF Typed, Connections
<1>3. /\ DOMAIN b = ResponseFields /\ DOMAIN b.header = HeaderFields /\ Alike(b, v)
      /\ b.wroteHeader /\ b.status = code /\ b.header.conn = c /\ b.header.te = v.header.te
      /\ b.header.cl = (IF v.header.cl = BadLength THEN NoLength ELSE v.header.cl)
      /\ b.closeAfterReply <=> (v.closeAfterReply \/ c = "close" \/ (~keep /\ req.r.proto # "1.1"))
  <2>1. DOMAIN v = ResponseFields /\ DOMAIN v.header = HeaderFields
    BY <1>1 DEF Typed
  <2>2. DOMAIN b = ResponseFields
    BY <2>1 DEF BeginHeader
  <2>3. Alike(b, v)
    BY <2>1 DEF BeginHeader, ResponseFields, Alike
  <2>4. b.wroteHeader /\ b.status = code
    BY <2>1 DEF BeginHeader, ResponseFields
  <2>5. b.header = [v.header EXCEPT !.conn = c, !.cl = IF @ = BadLength THEN NoLength ELSE @]
    BY <2>1 DEF BeginHeader, ResponseFields, HeaderFields
  <2>6. /\ DOMAIN b.header = HeaderFields /\ b.header.conn = c /\ b.header.te = v.header.te
        /\ b.header.cl = (IF v.header.cl = BadLength THEN NoLength ELSE v.header.cl)
    <3> HIDE DEF b, c
    <3>1. QED
      BY <2>1, <2>5 DEF HeaderFields
  <2>7. b.closeAfterReply = (v.closeAfterReply \/ c = "close" \/ (~keep /\ req.r.proto # "1.1"))
    BY <2>1 DEF BeginHeader, ResponseFields
  <2>8. QED
    BY <2>2, <2>3, <2>4, <2>6, <2>7
<1> HIDE DEF keep, c, b
<1>4. Typed(b)
  BY <1>1, <1>2, <1>3 DEF Typed, Alike, BadLength, NoLength
<1>5. Unsent(b, o)
  BY <1>2, <1>3, <1>4 DEF Fresh, Unsent, Alike, Asked
<1>6. req.r.proto = "1.0" /\ ~b.closeAfterReply => b.header.conn = "keep-alive"
  <2>1. SUFFICES ASSUME req.r.proto = "1.0", ~b.closeAfterReply PROVE c = "keep-alive"
    BY <1>3
  <2>2. keep /\ c # "close"
    BY <1>3, <2>1
  <2>3. QED
    BY <1>2, <2>2 DEF c, Connections
<1>7. b.header.cl > 0 => BodyCode(b.status)
  BY <1>1, <1>3, CodesKnown DEF Fresh, Typed, StatusCode, BadLength, NoLength
<1>8. Begun(b, o)
  BY <1>3, <1>5, <1>6, <1>7 DEF Begun
<1>9. QED
  BY <1>8 DEF b

\* requestTooLarge, and finishRequest in front of WriteHeader.
LEMMA TooLargeFields ==
    ASSUME NEW v, Typed(v)
    PROVE  LET b == requestTooLarge(v) IN
           /\ Typed(b) /\ Alike(b, v) /\ b.wroteHeader = v.wroteHeader /\ b.status = v.status
           /\ b.header.conn = (IF v.wroteHeader THEN v.header.conn ELSE "close")
           /\ b.header.cl = v.header.cl /\ b.header.te = v.header.te /\ b.closeAfterReply = TRUE
<1> DEFINE b == requestTooLarge(v)
           c == IF v.wroteHeader THEN v.header.conn ELSE "close"
<1>1. DOMAIN v = ResponseFields /\ DOMAIN v.header = HeaderFields
  BY DEF Typed
<1>2. DOMAIN b = ResponseFields /\ b.header = [v.header EXCEPT !.conn = c]
  BY <1>1 DEF requestTooLarge, ResponseFields
<1>3. Alike(b, v)
  BY <1>1 DEF requestTooLarge, ResponseFields, Alike
<1>4. b.wroteHeader = v.wroteHeader /\ b.status = v.status /\ b.closeAfterReply = TRUE
  BY <1>1 DEF requestTooLarge, ResponseFields
<1>5. c \in Connections
  BY DEF Typed, Connections
<1> HIDE DEF b, c
<1>6. /\ DOMAIN b.header = HeaderFields /\ b.header.conn = c
      /\ b.header.cl = v.header.cl /\ b.header.te = v.header.te
  BY <1>1, <1>2 DEF HeaderFields
<1>7. Typed(b)
  BY <1>2, <1>3, <1>4, <1>5, <1>6 DEF Typed, Alike
<1>8. QED
  BY <1>3, <1>4, <1>6, <1>7 DEF b, c

LEMMA BegunTooMuch ==
    ASSUME NEW v, NEW o, Begun(v, o)
    PROVE  Begun(DrainedTooMuch(v), o)
<1>1. Typed(v)
  BY DEF Begun, Unsent
<1> DEFINE b == DrainedTooMuch(v)
<1>2. /\ DOMAIN b = ResponseFields /\ DOMAIN b.header = HeaderFields /\ Alike(b, v)
      /\ b.wroteHeader = v.wroteHeader /\ b.status = v.status /\ b.closeAfterReply = TRUE
      /\ b.header.conn = "close" /\ b.header.cl = v.header.cl /\ b.header.te = v.header.te
  <2> DEFINE u == requestTooLarge(v)
  <2>1. /\ Typed(u) /\ Alike(u, v) /\ u.wroteHeader = v.wroteHeader /\ u.status = v.status
        /\ u.header.cl = v.header.cl /\ u.header.te = v.header.te /\ u.closeAfterReply = TRUE
    BY <1>1, TooLargeFields
  <2>2. b = [u EXCEPT !.header.conn = "close"]
    BY DEF DrainedTooMuch
  <2> HIDE DEF u, b
  <2>3. DOMAIN u = ResponseFields /\ DOMAIN u.header = HeaderFields
    BY <2>1 DEF Typed
  <2>4. DOMAIN b = ResponseFields /\ b.header = [u.header EXCEPT !.conn = "close"]
    BY <2>2, <2>3 DEF ResponseFields
  <2>5. Alike(b, u)
    BY <2>2, <2>3 DEF ResponseFields, Alike
  <2>6. /\ b.wroteHeader = u.wroteHeader /\ b.status = u.status
        /\ b.closeAfterReply = u.closeAfterReply
    BY <2>2, <2>3 DEF ResponseFields
  <2>7. /\ DOMAIN b.header = HeaderFields /\ b.header.conn = "close"
        /\ b.header.cl = u.header.cl /\ b.header.te = u.header.te
    BY <2>3, <2>4 DEF HeaderFields
  <2>8. Alike(b, v)
    BY <2>1, <2>5 DEF Alike
  <2>9. QED
    BY <2>1, <2>4, <2>6, <2>7, <2>8
<1> HIDE DEF b
<1>3. Typed(b)
  BY <1>1, <1>2 DEF Typed, Alike, Connections
<1>4. Unsent(b, o)
  BY <1>2, <1>3 DEF Begun, Unsent, Alike, Asked
<1>5. Begun(b, o)
  BY <1>2, <1>4 DEF Begun
<1>6. QED
  BY <1>5 DEF b

LEMMA FinishingFields ==
    ASSUME NEW v, Typed(v)
    PROVE  LET b == Finishing(v) IN
           /\ Typed(b) /\ Alike(b, v) /\ b.wroteHeader = v.wroteHeader /\ b.status = v.status
           /\ b.header.conn = v.header.conn /\ b.header.cl \in {v.header.cl, 0}
           /\ (b.closeAfterReply <=> v.closeAfterReply) \/ v.header.conn = "keep-alive"
<1> DEFINE u == IF v.written = 0 /\ v.header.cl = NoLength THEN [v EXCEPT !.header.cl = 0] ELSE v
           b == Finishing(v)
<1>1. /\ DOMAIN u = ResponseFields /\ DOMAIN u.header = HeaderFields /\ Alike(u, v)
      /\ u.wroteHeader = v.wroteHeader /\ u.status = v.status
      /\ u.closeAfterReply = v.closeAfterReply
      /\ u.header.conn = v.header.conn /\ u.header.cl \in {v.header.cl, 0}
      /\ u.header.te = v.header.te
  <2>1. CASE v.written = 0 /\ v.header.cl = NoLength
    <3>1. u = [v EXCEPT !.header.cl = 0]
      BY <2>1
    <3> HIDE DEF u
    <3>2. QED
      BY <3>1 DEF Typed, ResponseFields, HeaderFields, Alike
  <2>2. CASE ~(v.written = 0 /\ v.header.cl = NoLength)
    <3>1. u = v
      BY <2>2
    <3> HIDE DEF u
    <3>2. QED
      BY <3>1 DEF Typed, Alike
  <2>3. QED
    BY <2>1, <2>2
<1>2. b = u \/ (b = [u EXCEPT !.closeAfterReply = FALSE] /\ u.header.conn = "keep-alive")
  BY DEF Finishing
<1> HIDE DEF u, b
<1>3. /\ DOMAIN b = ResponseFields /\ b.header = u.header /\ Alike(b, u)
      /\ b.wroteHeader = u.wroteHeader /\ b.status = u.status
      /\ b.closeAfterReply = u.closeAfterReply \/ u.header.conn = "keep-alive"
  BY <1>1, <1>2 DEF ResponseFields, Alike
<1>4. Alike(b, v)
  BY <1>1, <1>3 DEF Alike
<1>5. Typed(b)
  BY <1>1, <1>3, <1>4 DEF Typed, Alike
<1>6. QED
  BY <1>1, <1>3, <1>4, <1>5 DEF b

LEMMA FreshStays ==
    ASSUME NEW v, NEW o, Fresh(v, o)
    PROVE  Fresh(requestTooLarge(v), o) /\ Fresh(Finishing(v), o)
<1>1. Typed(v)
  BY DEF Fresh, Unsent
<1>2. ASSUME NEW b, Typed(b), Alike(b, v), b.wroteHeader = v.wroteHeader,
             b.header.conn \in {v.header.conn, "close"}, b.header.cl \in {v.header.cl, 0}
      PROVE  Fresh(b, o)
  <2>1. Unsent(b, o)
    BY <1>2 DEF Fresh, Unsent, Alike, Asked
  <2>2. ~b.wroteHeader
    BY <1>2 DEF Fresh
  <2>3. b.header.cl > 0 => \A code \in Codes : BodyCode(code)
    BY <1>1, <1>2 DEF Fresh, Typed
  <2>4. QED
    BY <2>1, <2>2, <2>3 DEF Fresh
<1>3. QED
  <2>1. Fresh(requestTooLarge(v), o)
    <3> DEFINE b == requestTooLarge(v)
    <3>1. /\ Typed(b) /\ Alike(b, v) /\ b.wroteHeader = v.wroteHeader
          /\ b.header.conn \in {v.header.conn, "close"} /\ b.header.cl = v.header.cl
      BY <1>1, TooLargeFields
    <3> HIDE DEF b
    <3>2. Fresh(b, o)
      BY <1>2, <3>1
    <3>3. QED
      BY <3>2 DEF b
  <2>2. Fresh(Finishing(v), o)
    <3> DEFINE b == Finishing(v)
    <3>1. /\ Typed(b) /\ Alike(b, v) /\ b.wroteHeader = v.wroteHeader
          /\ b.header.conn = v.header.conn /\ b.header.cl \in {v.header.cl, 0}
      BY <1>1, FinishingFields
    <3> HIDE DEF b
    <3>2. Fresh(b, o)
      BY <1>2, <3>1
    <3>3. QED
      BY <3>2 DEF b
  <2>3. QED
    BY <2>1, <2>2

-----------------------------------------------------------------------------
(***************************************************************************)
(* The body of a reply: whole chunks, or nothing but data.                 *)
(***************************************************************************)
Chunks(toks) ==
    /\ Len(toks) % 3 = 0
    /\ \A i \in 1 .. Len(toks) :
         /\ i % 3 = 1 => toks[i].kind = "size" /\ toks[i].n = toks[i + 1].n
         /\ i % 3 = 2 => toks[i].kind = "data"
         /\ i % 3 = 0 => toks[i].kind = "crlf"

AllData(toks) == \A i \in 1 .. Len(toks) : toks[i].kind = "data"

LEMMA Thirds ==
    ASSUME NEW m \in Nat, m % 3 = 0, NEW j \in Nat
    PROVE  /\ (m + j) % 3 = j % 3
           /\ j < m /\ j % 3 = 1 => j + 1 < m
  OBVIOUS

LEMMA ChunksConcat ==
    ASSUME NEW s \in Seq(Piece), NEW t \in Seq(Piece), Chunks(s), Chunks(t)
    PROVE  Chunks(s \o t)
<1> DEFINE m == Len(s)
           n == Len(t)
           c == s \o t
<1>1. /\ Len(c) = m + n /\ m \in Nat /\ n \in Nat
      /\ \A i \in 1 .. m : c[i] = s[i]
      /\ \A j \in 1 .. n : c[m + j] = t[j]
  BY ConcatAt
<1>2. m % 3 = 0 /\ n % 3 = 0
  BY DEF Chunks
<1>3. (m + n) % 3 = 0
  <2> HIDE DEF m, n
  <2>1. QED
    BY <1>1, <1>2, Thirds
<1>4. ASSUME NEW i \in 1 .. (m + n)
      PROVE  /\ i % 3 = 1 => c[i].kind = "size" /\ c[i].n = c[i + 1].n
             /\ i % 3 = 2 => c[i].kind = "data"
             /\ i % 3 = 0 => c[i].kind = "crlf"
  <2>1. CASE i \in 1 .. m
    <3>1. i % 3 = 1 => i + 1 \in 1 .. m
      <4> HIDE DEF m, n
      <4>1. QED
        BY <1>1, <1>2, <2>1, Thirds
    <3>2. c[i] = s[i] /\ (i % 3 = 1 => c[i + 1] = s[i + 1])
      BY <1>1, <2>1, <3>1
    <3> HIDE DEF c
    <3>3. QED
      BY <2>1, <3>2 DEF Chunks
  <2>2. CASE i \notin 1 .. m
    <3> DEFINE j == i - m
    <3>1. j \in 1 .. n /\ i = m + j
      <4> HIDE DEF m, n
      <4>1. QED
        BY <1>1, <2>2
    <3>2. i % 3 = j % 3 /\ (j % 3 = 1 => j + 1 \in 1 .. n /\ m + (j + 1) = i + 1)
      <4> HIDE DEF m, n, j
      <4>1. j \in Nat /\ j <= n /\ m + (j + 1) = i + 1
        BY <1>1, <3>1
      <4>2. i % 3 = j % 3
        BY <1>1, <1>2, <3>1, <4>1, Thirds
      <4>3. j % 3 = 1 => j + 1 <= n
        BY <1>1, <1>2, <4>1
      <4>4. QED
        BY <1>1, <4>1, <4>2, <4>3
    <3>3. c[i] = t[j] /\ (j % 3 = 1 => c[i + 1] = t[j + 1])
      BY <1>1, <3>1, <3>2
    <3> HIDE DEF c, j
    <3>4. QED
      BY <3>1, <3>2, <3>3 DEF Chunks
  <2>3. QED
    BY <2>1, <2>2
<1> HIDE DEF c, m, n
<1>5. Chunks(c)
  BY <1>1, <1>3, <1>4 DEF Chunks
<1>6. QED
  BY <1>5 DEF c

\* The zero chunk ends a body.
LEMMA ChunksEnd ==
    ASSUME NEW s \in Seq(Piece), Chunks(s), NEW id \in Nat
    PROVE  WellChunked(s \o <<Token("size", id, 0), Token("crlf", id, 0)>>)
<1> DEFINE m == Len(s)
           z == <<Token("size", id, 0), Token("crlf", id, 0)>>
           c == s \o z
<1>1. z \in Seq(Piece) /\ Len(z) = 2 /\ z[1] = Token("size", id, 0) /\ z[2] = Token("crlf", id, 0)
  BY DEF Piece, Token
<1>2. /\ Token("size", id, 0).kind = "size" /\ Token("size", id, 0).n = 0
      /\ Token("crlf", id, 0).kind = "crlf"
  BY DEF Token
<1> HIDE DEF z
<1>3. /\ c \in Seq(Piece) /\ Len(c) = m + 2 /\ m \in Nat
      /\ \A i \in 1 .. m : c[i] = s[i]
      /\ c[m + 1] = z[1] /\ c[m + 2] = z[2]
  <2>1. 1 \in 1 .. Len(z) /\ 2 \in 1 .. Len(z) /\ Len(z) = 2
    BY <1>1
  <2>2. /\ c \in Seq(Piece) /\ Len(c) = m + Len(z) /\ m \in Nat
        /\ \A i \in 1 .. m : c[i] = s[i]
        /\ \A j \in 1 .. Len(z) : c[m + j] = z[j]
    <3>1. z \in Seq(Piece)
      BY <1>1
    <3>2. QED
      BY <3>1, ConcatAt
  <2> HIDE DEF c, m
  <2>3. QED
    BY <2>1, <2>2
<1>4. DOMAIN c = 1 .. (m + 2)
  BY <1>3, LenProperties
<1>5. m % 3 = 0
  BY DEF Chunks
<1>6. (m + 2) % 3 = 2 /\ (m + 1) % 3 = 1
  <2> HIDE DEF m
  <2>1. QED
    BY <1>3, <1>5
<1>7. ASSUME NEW i \in 1 .. m
      PROVE  /\ i # m + 2 /\ i # m + 1 /\ i % 3 \in 0 .. 2
             /\ i % 3 = 1 => c[i].kind = "size" /\ c[i].n = c[i + 1].n
             /\ i % 3 = 2 => c[i].kind = "data"
             /\ i % 3 = 0 => c[i].kind = "crlf"
  <2>1. i # m + 2 /\ i # m + 1 /\ i % 3 \in 0 .. 2 /\ (i % 3 = 1 => i + 1 \in 1 .. m)
    <3> HIDE DEF m
    <3>1. QED
      BY <1>3, <1>5, Thirds
  <2>2. c[i] = s[i] /\ (i % 3 = 1 => c[i + 1] = s[i + 1])
    BY <1>3, <2>1
  <2> HIDE DEF c
  <2>3. QED
    BY <2>1, <2>2 DEF Chunks
<1> HIDE DEF c, m
<1>8. Len(c) % 3 = 2
  BY <1>3, <1>6
<1>9. ASSUME NEW i \in DOMAIN c
      PROVE  CASE i % 3 = 1 -> /\ c[i].kind = "size"
                               /\ c[i].n = IF i = Len(c) - 1 THEN 0 ELSE c[i + 1].n
               [] i % 3 = 2 -> c[i].kind = IF i = Len(c) THEN "crlf" ELSE "data"
               [] i % 3 = 0 -> c[i].kind = "crlf"
  <2>1. Len(c) - 1 = m + 1 /\ Len(c) = m + 2
    BY <1>3
  <2>2. i \in 1 .. m \/ i = m + 1 \/ i = m + 2
    BY <1>3, <1>4
  <2>3. CASE i \in 1 .. m
    <3>1. /\ i # Len(c) - 1 /\ i # Len(c)
          /\ i % 3 = 0 \/ i % 3 = 1 \/ i % 3 = 2
          /\ i % 3 = 1 => c[i].kind = "size" /\ c[i].n = c[i + 1].n
          /\ i % 3 = 2 => c[i].kind = "data"
          /\ i % 3 = 0 => c[i].kind = "crlf"
      BY <1>7, <2>1, <2>3
    <3>2. CASE i % 3 = 0
      BY <3>1, <3>2
    <3>3. CASE i % 3 = 1
      BY <3>1, <3>3
    <3>4. CASE i % 3 = 2
      BY <3>1, <3>4
    <3>5. QED
      BY <3>1, <3>2, <3>3, <3>4
  <2>4. CASE i = m + 1
    BY <1>1, <1>2, <1>3, <1>6, <2>1, <2>4
  <2>5. CASE i = m + 2
    BY <1>1, <1>2, <1>3, <1>6, <2>1, <2>5
  <2>6. QED
    BY <2>2, <2>3, <2>4, <2>5
<1>10. WellChunked(c)
  BY <1>8, <1>9 DEF WellChunked
<1>11. QED
  BY <1>10 DEF c, z

LEMMA DataConcat ==
    ASSUME NEW s \in Seq(Piece), NEW t \in Seq(Piece), AllData(s), AllData(t)
    PROVE  AllData(s \o t)
<1>1. /\ Len(s \o t) = Len(s) + Len(t) /\ Len(s) \in Nat /\ Len(t) \in Nat
      /\ \A i \in 1 .. Len(s) : (s \o t)[i] = s[i]
      /\ \A j \in 1 .. Len(t) : (s \o t)[Len(s) + j] = t[j]
  BY ConcatAt
<1>2. ASSUME NEW i \in 1 .. (Len(s) + Len(t)) PROVE (s \o t)[i].kind = "data"
  <2>1. CASE i \in 1 .. Len(s)
    BY <1>1, <2>1 DEF AllData
  <2>2. CASE i \notin 1 .. Len(s)
    <3>1. (i - Len(s)) \in 1 .. Len(t) /\ Len(s) + (i - Len(s)) = i
      BY <1>1, <2>2
    <3>2. (s \o t)[i] = t[i - Len(s)]
      BY <1>1, <3>1
    <3>3. QED
      BY <3>1, <3>2 DEF AllData
  <2>3. QED
    BY <2>1, <2>2
<1>3. QED
  BY <1>1, <1>2 DEF AllData

LEMMA Singles ==
    ASSUME NEW S, NEW a \in S, NEW b \in S, NEW c \in S
    PROVE  <<a>> \o <<b>> = <<a, b>> /\ <<a>> \o (<<b>> \o <<c>>) = <<a, b, c>>
<1>1. ASSUME NEW x \in S
      PROVE  <<x>> \in Seq(S) /\ Len(<<x>>) = 1 /\ <<x>>[1] = x
  OBVIOUS
<1>2. ASSUME NEW x \in S, NEW y \in S PROVE <<x>> \o <<y>> = <<x, y>>
  <2> DEFINE s == <<x, y>>
             t == <<x>> \o <<y>>
  <2>1. s \in Seq(S) /\ Len(s) = 2 /\ s[1] = x /\ s[2] = y
    BY <1>2
  <2>2. t \in Seq(S) /\ Len(t) = 2 /\ t[1] = x /\ t[2] = y
    BY <1>1, <1>2, ConcatProperties
  <2> HIDE DEF s, t
  <2>3. s = t
    BY <2>1, <2>2, SeqEqual
  <2>4. QED
    BY <2>3 DEF s, t
<1>3. <<a>> \o (<<b>> \o <<c>>) = <<a, b, c>>
  <2> DEFINE s == <<a, b, c>>
             t == <<a>> \o <<b, c>>
             u == <<b, c>>
  <2>1. s \in Seq(S) /\ Len(s) = 3 /\ s[1] = a /\ s[2] = b /\ s[3] = c
    OBVIOUS
  <2>2. u \in Seq(S) /\ Len(u) = 2 /\ u[1] = b /\ u[2] = c
    OBVIOUS
  <2>3. t \in Seq(S) /\ Len(t) = 3 /\ t[1] = a /\ t[2] = b /\ t[3] = c
    <3> HIDE DEF u
    <3>1. t = <<a>> \o u
      BY DEF u
    <3> HIDE DEF t
    <3>2. QED
      BY <1>1, <2>2, <3>1, ConcatProperties
  <2> HIDE DEF s, t, u
  <2>4. s = t
    BY <2>1, <2>3, SeqEqual
  <2>5. QED
    BY <1>2, <2>4 DEF s, t
<1>4. QED
  BY <1>2, <1>3

\* What Data puts down.
LEMMA DataFits ==
    ASSUME NEW v, NEW n \in Nat, Known
    PROVE  /\ Data(v, n) \in Seq(Piece) /\ Payload(Data(v, n)) = n
           /\ IF v.chunking THEN Chunks(Data(v, n)) ELSE AllData(Data(v, n))
<1> DEFINE a == Token("size", req.id, n)
           d == Token("data", req.id, n)
           z == Token("crlf", req.id, 0)
<1>1. /\ a \in Piece /\ d \in Piece /\ z \in Piece
      /\ a.kind = "size" /\ d.kind = "data" /\ z.kind = "crlf" /\ a.n = n /\ d.n = n
  BY DEF Piece, Token, Known
<1>2. Units(a) = 0 /\ Units(d) = n /\ Units(z) = 0
  BY <1>1 DEF Units
<1>3. CASE n = 0
  <2>1. Data(v, n) = <<>>
    BY <1>3 DEF Data
  <2>2. <<>> \in Seq(Piece) /\ Len(<<>>) = 0
    OBVIOUS
  <2>3. Chunks(<<>>) /\ AllData(<<>>)
    BY <2>2 DEF Chunks, AllData
  <2>4. QED
    BY <1>3, <2>1, <2>2, <2>3, PayloadShort
<1>4. CASE n # 0 /\ v.chunking
  <2> HIDE DEF a, d, z
  <2>1. Data(v, n) = <<a, d, z>>
    BY <1>4 DEF Data, a, d, z
  <2>2. <<a, d, z>> \in Seq(Piece) /\ Chunks(<<a, d, z>>)
    BY <1>1 DEF Chunks
  <2>3. Payload(<<a, d, z>>) = n
    <3> DEFINE sa == <<a>>
               sd == <<d>>
               sz == <<z>>
    <3>1. sa \in Seq(Piece) /\ sd \in Seq(Piece) /\ sz \in Seq(Piece)
      BY <1>1
    <3>2. <<a, d, z>> = sa \o (sd \o sz)
      BY <1>1, Singles
    <3>3. Payload(sa) = 0 /\ Payload(sd) = n /\ Payload(sz) = 0
      BY <1>1, <1>2, PayloadShort
    <3> HIDE DEF sa, sd, sz
    <3>4. sd \o sz \in Seq(Piece)
      BY <3>1, ConcatProperties
    <3>5. Payload(sd \o sz) = n
      BY <3>1, <3>3, PayloadConcat
    <3>6. Payload(sa \o (sd \o sz)) = Payload(sa) + Payload(sd \o sz)
      BY <3>1, <3>4, PayloadConcat
    <3>6a. Payload(sa \o (sd \o sz)) = n
      BY <3>3, <3>5, <3>6
    <3>7. QED
      BY <3>2, <3>6a
  <2>4. QED
    BY <1>4, <2>1, <2>2, <2>3
<1>5. CASE n # 0 /\ ~v.chunking
  <2> HIDE DEF a, d, z
  <2>1. Data(v, n) = <<d>>
    BY <1>5 DEF Data, d
  <2>2. <<d>> \in Seq(Piece) /\ AllData(<<d>>)
    BY <1>1 DEF AllData
  <2>3. QED
    BY <1>1, <1>2, <1>5, <2>1, <2>2, PayloadShort
<1>6. QED
  BY <1>3, <1>4, <1>5

-----------------------------------------------------------------------------
(***************************************************************************)
(* A response whose header is out.  h is the header, rest the body so far. *)
(***************************************************************************)
End == Token("end", req.id, 0)

HeadFits(v, h) ==
    /\ h.proto = req.r.proto /\ h.code = v.status /\ h.conn = v.header.conn
    /\ h.conn = "close" => v.closeAfterReply
    /\ req.r.proto = "1.0" => h.conn \in {"close", "keep-alive"}
    /\ v.chunking => bodyAllowed(v) /\ h.te = <<"chunked">> /\ v.contentLength = -1
    /\ ~bodyAllowed(v) => v.contentLength = -1 /\ (v.status = 304 => h.te = <<>>)
    /\ bodyAllowed(v) /\ ~v.chunking =>
          /\ h.te = <<>>
          /\ IF v.contentLength = -1 THEN h.conn = "close"
             ELSE h.cl = v.contentLength /\ h.cl >= 0 /\ (h.cl > 0 => BodyCode(h.code))

\* Within the declared length, if there is one.
Within(v) == v.contentLength = -1 \/ v.written <= v.contentLength

Buffered(v) == IF v.needSniff THEN v.sniffed ELSE 0

BodyFits(v, rest) ==
    /\ ~bodyAllowed(v) \/ v.needSniff => rest = <<>>
    /\ v.needSniff => bodyAllowed(v)
    /\ IF v.chunking THEN Chunks(rest) ELSE AllData(rest)
    /\ v.sniffed <= SniffLen
    /\ bodyAllowed(v) /\ Within(v) => Payload(rest) + Buffered(v) = v.written

Sent(v, h, rest) == (Asked(v) \o <<h>>) \o (IF v.needSniff THEN <<>> ELSE <<End>> \o rest)

Open(v, o) ==
    /\ Typed(v) /\ v.wroteHeader
    /\ \E h \in Heads, rest \in Seq(Piece) :
          HeadFits(v, h) /\ BodyFits(v, rest) /\ o = Sent(v, h, rest)

\* What stays as it is once the header is out.
KeptHead(u, v) ==
    /\ u.wroteHeader = v.wroteHeader /\ u.wroteContinue = v.wroteContinue
    /\ u.status = v.status /\ u.header.conn = v.header.conn
    /\ u.chunking = v.chunking /\ u.contentLength = v.contentLength
    /\ (v.closeAfterReply => u.closeAfterReply) \/ v.header.conn = "keep-alive"

SameHead(u, v) == KeptHead(u, v) /\ u.closeAfterReply = v.closeAfterReply

LEMMA SameHeads ==
    ASSUME NEW a, NEW b, NEW c, SameHead(a, b)
    PROVE  /\ KeptHead(a, b) /\ SameHead(b, a)
           /\ SameHead(b, c) => SameHead(a, c)
  BY DEF SameHead, KeptHead

LEMMA HeadKept ==
    ASSUME NEW v, NEW u, NEW h, HeadFits(v, h), KeptHead(u, v)
    PROVE  HeadFits(u, h) /\ (bodyAllowed(u) <=> bodyAllowed(v)) /\ Asked(u) = Asked(v)
<1>1. (bodyAllowed(u) <=> bodyAllowed(v)) /\ Asked(u) = Asked(v)
  BY DEF bodyAllowed, Asked, KeptHead
<1>2. h.proto = req.r.proto /\ h.code = u.status /\ h.conn = u.header.conn
  BY DEF HeadFits, KeptHead
<1>3. h.conn = "close" => u.closeAfterReply
  BY DEF HeadFits, KeptHead
<1>4. u.chunking => bodyAllowed(u) /\ h.te = <<"chunked">> /\ u.contentLength = -1
  BY <1>1 DEF HeadFits, KeptHead
<1>5. ~bodyAllowed(u) => u.contentLength = -1 /\ (u.status = 304 => h.te = <<>>)
  BY <1>1 DEF HeadFits, KeptHead
<1>6. bodyAllowed(u) /\ ~u.chunking =>
        /\ h.te = <<>>
        /\ IF u.contentLength = -1 THEN h.conn = "close"
           ELSE h.cl = u.contentLength /\ h.cl >= 0 /\ (h.cl > 0 => BodyCode(h.code))
  BY <1>1 DEF HeadFits, KeptHead
<1>7. req.r.proto = "1.0" => h.conn \in {"close", "keep-alive"}
  BY DEF HeadFits
<1>8. QED
  BY <1>1, <1>2, <1>3, <1>4, <1>5, <1>6, <1>7 DEF HeadFits

\* A change that writes nothing.
LEMMA OpenKept ==
    ASSUME NEW v, NEW u, NEW o, Open(v, o), Typed(u), KeptHead(u, v),
           u.needSniff <=> v.needSniff, u.sniffed <= SniffLen,
           \/ u.written = v.written /\ u.sniffed = v.sniffed
           \/ v.needSniff /\ \E n \in Nat : u.written = v.written + n /\ u.sniffed = v.sniffed + n
           \/ u.contentLength # -1 /\ u.written > u.contentLength
    PROVE  Open(u, o)
<1>1. PICK h \in Heads, rest \in Seq(Piece) :
        HeadFits(v, h) /\ BodyFits(v, rest) /\ o = Sent(v, h, rest)
  BY DEF Open
<1>2. HeadFits(u, h) /\ (bodyAllowed(u) <=> bodyAllowed(v)) /\ Asked(u) = Asked(v)
  BY <1>1, HeadKept
<1>3. o = Sent(u, h, rest)
  BY <1>1, <1>2 DEF Sent
<1>4. /\ v.written \in Nat /\ v.sniffed \in Nat /\ u.written \in Nat /\ u.sniffed \in Nat
      /\ v.contentLength \in Int /\ u.contentLength = v.contentLength /\ Payload(rest) \in Nat
  BY PayloadConcat DEF Open, Typed, KeptHead
<1>5. bodyAllowed(u) /\ Within(u) => Payload(rest) + Buffered(u) = u.written
  <2>1. SUFFICES ASSUME bodyAllowed(u), Within(u) PROVE Payload(rest) + Buffered(u) = u.written
    OBVIOUS
  <2>2. ~(u.contentLength # -1 /\ u.written > u.contentLength)
    BY <1>4, <2>1 DEF Within
  <2>3. CASE u.written = v.written /\ u.sniffed = v.sniffed
    <3>1. Within(v) /\ Buffered(u) = Buffered(v)
      BY <1>4, <2>1, <2>3 DEF Within, Buffered
    <3>2. QED
      BY <1>1, <1>2, <2>1, <2>3, <3>1 DEF BodyFits
  <2>4. CASE v.needSniff /\ \E n \in Nat : u.written = v.written + n /\ u.sniffed = v.sniffed + n
    <3>1. PICK n \in Nat : u.written = v.written + n /\ u.sniffed = v.sniffed + n
      BY <2>4
    <3>2. Within(v)
      BY <1>4, <2>1, <3>1 DEF Within
    <3>3. Payload(rest) + v.sniffed = v.written
      BY <1>1, <1>2, <2>1, <2>4, <3>2 DEF BodyFits, Buffered
    <3>4. Buffered(u) = u.sniffed
      BY <2>4 DEF Buffered
    <3>5. QED
      BY <1>4, <3>1, <3>3, <3>4
  <2>5. QED
    BY <2>2, <2>3, <2>4
<1>6. BodyFits(u, rest)
  <2>1. /\ ~bodyAllowed(u) \/ u.needSniff => rest = <<>>
        /\ u.needSniff => bodyAllowed(u)
    BY <1>1, <1>2 DEF BodyFits
  <2>2. IF u.chunking THEN Chunks(rest) ELSE AllData(rest)
    BY <1>1 DEF BodyFits, KeptHead
  <2>3. QED
    BY <1>5, <2>1, <2>2 DEF BodyFits
<1>7. u.wroteHeader
  BY DEF Open, KeptHead
<1>8. QED
  BY <1>2, <1>3, <1>6, <1>7 DEF Open

\* Tokens of Data behind the body so far.
LEMMA BodyGrows ==
    ASSUME NEW v, NEW rest \in Seq(Piece), NEW n \in Nat, Known,
           IF v.chunking THEN Chunks(rest) ELSE AllData(rest)
    PROVE  /\ rest \o Data(v, n) \in Seq(Piece)
           /\ IF v.chunking THEN Chunks(rest \o Data(v, n)) ELSE AllData(rest \o Data(v, n))
           /\ Payload(rest \o Data(v, n)) = Payload(rest) + n
<1> DEFINE d == Data(v, n)
<1>1. d \in Seq(Piece) /\ Payload(d) = n /\ (IF v.chunking THEN Chunks(d) ELSE AllData(d))
  BY DataFits
<1> HIDE DEF d
<1>2. rest \o d \in Seq(Piece)
  BY <1>1, ConcatProperties
<1>3. Payload(rest \o d) = Payload(rest) + n
  BY <1>1, PayloadConcat
<1>4. IF v.chunking THEN Chunks(rest \o d) ELSE AllData(rest \o d)
  BY <1>1, ChunksConcat, DataConcat
<1>5. QED
  BY <1>2, <1>3, <1>4 DEF d

LEMMA SniffFields ==
    ASSUME NEW v, Typed(v)
    PROVE  /\ Typed(Sniff(v)) /\ SameHead(Sniff(v), v) /\ Sniff(v).needSniff = FALSE
           /\ Sniff(v).written = v.written /\ Sniff(v).sniffed = v.sniffed
<1> DEFINE u == Sniff(v)
<1>1. DOMAIN v = ResponseFields
  BY DEF Typed
<1>2. DOMAIN u = ResponseFields /\ u.header = v.header
  BY <1>1 DEF Sniff, ResponseFields
<1>3. /\ u.written = v.written /\ u.sniffed = v.sniffed /\ u.contentLength = v.contentLength
      /\ u.status = v.status /\ u.needSniff = FALSE
  BY <1>1 DEF Sniff, ResponseFields
<1>4. /\ u.wroteHeader = v.wroteHeader /\ u.wroteContinue = v.wroteContinue
      /\ u.chunking = v.chunking /\ u.closeAfterReply = v.closeAfterReply
  BY <1>1 DEF Sniff, ResponseFields
<1> HIDE DEF u
<1>5. Typed(u)
  BY <1>2, <1>3 DEF Typed
<1>6. SameHead(u, v)
  BY <1>2, <1>3, <1>4 DEF SameHead, KeptHead, KeptHead
<1>7. QED
  BY <1>3, <1>5, <1>6 DEF u

Counted(v, n) == [v EXCEPT !.written = @ + n]
BufferedMore(v, m) == [v EXCEPT !.sniffed = @ + m]

LEMMA CountedFields ==
    ASSUME NEW v, Typed(v), NEW n \in Nat
    PROVE  /\ Typed(Counted(v, n)) /\ SameHead(Counted(v, n), v)
           /\ Counted(v, n).needSniff = v.needSniff
           /\ Counted(v, n).written = v.written + n /\ Counted(v, n).sniffed = v.sniffed
<1> DEFINE u == Counted(v, n)
<1>1. DOMAIN v = ResponseFields
  BY DEF Typed
<1>2. DOMAIN u = ResponseFields /\ u.header = v.header
  BY <1>1 DEF Counted, ResponseFields
<1>3. /\ u.written = v.written + n /\ u.sniffed = v.sniffed /\ u.contentLength = v.contentLength
      /\ u.status = v.status /\ u.needSniff = v.needSniff
  BY <1>1 DEF Counted, ResponseFields
<1>4. /\ u.wroteHeader = v.wroteHeader /\ u.wroteContinue = v.wroteContinue
      /\ u.chunking = v.chunking /\ u.closeAfterReply = v.closeAfterReply
  BY <1>1 DEF Counted, ResponseFields
<1> HIDE DEF u
<1>5. Typed(u)
  BY <1>2, <1>3 DEF Typed
<1>6. SameHead(u, v)
  BY <1>2, <1>3, <1>4 DEF SameHead, KeptHead, KeptHead
<1>7. QED
  BY <1>3, <1>5, <1>6 DEF u

LEMMA BufferedFields ==
    ASSUME NEW v, Typed(v), NEW m \in Nat
    PROVE  /\ Typed(BufferedMore(v, m)) /\ SameHead(BufferedMore(v, m), v)
           /\ BufferedMore(v, m).needSniff = v.needSniff
           /\ BufferedMore(v, m).written = v.written
           /\ BufferedMore(v, m).sniffed = v.sniffed + m
<1> DEFINE u == BufferedMore(v, m)
<1>1. DOMAIN v = ResponseFields
  BY DEF Typed
<1>2. DOMAIN u = ResponseFields /\ u.header = v.header
  BY <1>1 DEF BufferedMore, ResponseFields
<1>3. /\ u.written = v.written /\ u.sniffed = v.sniffed + m /\ u.contentLength = v.contentLength
      /\ u.status = v.status /\ u.needSniff = v.needSniff
  BY <1>1 DEF BufferedMore, ResponseFields
<1>4. /\ u.wroteHeader = v.wroteHeader /\ u.wroteContinue = v.wroteContinue
      /\ u.chunking = v.chunking /\ u.closeAfterReply = v.closeAfterReply
  BY <1>1 DEF BufferedMore, ResponseFields
<1> HIDE DEF u
<1>5. Typed(u)
  BY <1>2, <1>3 DEF Typed
<1>6. SameHead(u, v)
  BY <1>2, <1>3, <1>4 DEF SameHead, KeptHead, KeptHead
<1>7. QED
  BY <1>3, <1>5, <1>6 DEF u

\* What stands in front of the body is a sequence of tokens.
LEMMA LeadTyped ==
    ASSUME NEW v, NEW h \in Heads, Known
    PROVE  Asked(v) \in Seq(Piece) /\ Asked(v) \o <<h>> \in Seq(Piece) /\ <<End>> \in Seq(Piece)
<1>1. Token("continue", req.id, 0) \in Piece /\ End \in Piece /\ h \in Piece
  BY DEF Token, End, Piece, Known
<1>2. Asked(v) \in Seq(Piece) /\ <<End>> \in Seq(Piece) /\ <<h>> \in Seq(Piece)
  BY <1>1 DEF Asked
<1>3. QED
  BY <1>2, ConcatProperties

\* The body takes n more units, written at once.
LEMMA OpenData ==
    ASSUME NEW v, NEW o, NEW n \in Nat, Known, Open(v, o), ~v.needSniff, bodyAllowed(v)
    PROVE  Open(Counted(v, n), o \o Data(v, n))
<1>1. PICK h \in Heads, rest \in Seq(Piece) :
        HeadFits(v, h) /\ BodyFits(v, rest) /\ o = Sent(v, h, rest)
  BY DEF Open
<1> DEFINE u == Counted(v, n)
           d == Data(v, n)
           lead == Asked(v) \o <<h>>
<1>2. /\ Typed(u) /\ SameHead(u, v) /\ ~u.needSniff
      /\ u.written = v.written + n /\ u.sniffed = v.sniffed
  BY CountedFields DEF Open
<1> HIDE DEF u
<1>3. HeadFits(u, h) /\ bodyAllowed(u) /\ Asked(u) = Asked(v)
  BY <1>1, <1>2, HeadKept, SameHeads
<1>4. IF v.chunking THEN Chunks(rest) ELSE AllData(rest)
  BY <1>1 DEF BodyFits
<1>5. /\ rest \o d \in Seq(Piece) /\ Payload(rest \o d) = Payload(rest) + n
      /\ IF v.chunking THEN Chunks(rest \o d) ELSE AllData(rest \o d)
  BY <1>4, BodyGrows
<1>6. lead \in Seq(Piece) /\ <<End>> \in Seq(Piece) /\ d \in Seq(Piece)
  BY DataFits, LeadTyped
<1> HIDE DEF lead, d
<1>7. o = lead \o (<<End>> \o rest)
  BY <1>1 DEF Sent, lead
<1>8. o \o d = lead \o (<<End>> \o (rest \o d))
  <2>1. <<End>> \o rest \in Seq(Piece)
    BY <1>6, ConcatProperties
  <2>2. (<<End>> \o rest) \o d = <<End>> \o (rest \o d)
    BY <1>6, ConcatAssociative
  <2>3. (lead \o (<<End>> \o rest)) \o d = lead \o ((<<End>> \o rest) \o d)
    BY <1>6, <2>1, ConcatAssociative
  <2>4. QED
    BY <1>7, <2>2, <2>3
<1>9. o \o d = Sent(u, h, rest \o d)
  BY <1>2, <1>3, <1>8 DEF Sent, lead
<1>10. /\ v.written \in Nat /\ v.contentLength \in Int /\ u.contentLength = v.contentLength
       /\ Payload(rest) \in Nat
  BY <1>2, PayloadConcat DEF Open, Typed, SameHead, KeptHead
<1>11. Within(u) => Payload(rest \o d) + Buffered(u) = u.written
  <2>1. SUFFICES ASSUME Within(u) PROVE Payload(rest \o d) + Buffered(u) = u.written
    OBVIOUS
  <2>2. Within(v)
    BY <1>2, <1>10, <2>1 DEF Within
  <2>3. Payload(rest) = v.written /\ Buffered(u) = 0
    BY <1>1, <1>2, <1>10, <2>2 DEF BodyFits, Buffered
  <2>4. QED
    BY <1>2, <1>5, <1>10, <2>3
<1>12. BodyFits(u, rest \o d)
  <2>1. IF u.chunking THEN Chunks(rest \o d) ELSE AllData(rest \o d)
    BY <1>2, <1>5 DEF SameHead, KeptHead, KeptHead
  <2>2. u.sniffed <= SniffLen
    BY <1>1, <1>2 DEF BodyFits
  <2>3. QED
    BY <1>2, <1>3, <1>11, <2>1, <2>2 DEF BodyFits
<1>13. u.wroteHeader
  BY <1>2 DEF Open, SameHead, KeptHead
<1>14. Open(u, o \o d)
  BY <1>2, <1>3, <1>5, <1>9, <1>12, <1>13 DEF Open
<1>15. QED
  BY <1>14 DEF u, d

\* sniff ends the header and writes what was held back.
LEMMA OpenSniffs ==
    ASSUME NEW v, NEW o, Known, Open(v, o)
    PROVE  Open(Sniff(v), o \o SniffTokens(v))
<1>1. PICK h \in Heads, rest \in Seq(Piece) :
        HeadFits(v, h) /\ BodyFits(v, rest) /\ o = Sent(v, h, rest)
  BY DEF Open
<1> DEFINE u == Sniff(v)
           lead == Asked(v) \o <<h>>
<1>2. /\ Typed(u) /\ SameHead(u, v) /\ u.needSniff = FALSE
      /\ u.written = v.written /\ u.sniffed = v.sniffed
  BY SniffFields DEF Open
<1> HIDE DEF u
<1>3. HeadFits(u, h) /\ (bodyAllowed(u) <=> bodyAllowed(v)) /\ Asked(u) = Asked(v)
  BY <1>1, <1>2, HeadKept, SameHeads
<1>4. lead \in Seq(Piece) /\ <<End>> \in Seq(Piece)
  BY LeadTyped
<1>5. u.wroteHeader
  BY <1>2 DEF Open, SameHead, KeptHead
<1>6. /\ v.written \in Nat /\ v.sniffed \in Nat /\ v.contentLength \in Int
      /\ u.contentLength = v.contentLength /\ Payload(rest) \in Nat
  BY <1>2, PayloadConcat DEF Open, Typed, SameHead, KeptHead
<1>7. CASE v.needSniff
  <2> DEFINE d == Data(v, v.sniffed)
  <2>1. d \in Seq(Piece) /\ Payload(d) = v.sniffed /\ (IF v.chunking THEN Chunks(d) ELSE AllData(d))
    BY <1>6, DataFits
  <2>2. SniffTokens(v) = <<End>> \o d
    BY <1>7 DEF SniffTokens, End
  <2> HIDE DEF d, lead
  <2>3. o = lead /\ rest = <<>> /\ bodyAllowed(u)
    <3>1. o = lead \o <<>>
      BY <1>1, <1>7 DEF Sent, lead
    <3>2. QED
      BY <1>1, <1>3, <1>4, <1>7, <3>1, ConcatEmptySeq DEF BodyFits
  <2>4. o \o SniffTokens(v) = Sent(u, h, d)
    BY <1>2, <1>3, <2>2, <2>3 DEF Sent, lead
  <2>5. Within(u) => Payload(d) + Buffered(u) = u.written
    <3>1. SUFFICES ASSUME Within(u) PROVE Payload(d) + Buffered(u) = u.written
      OBVIOUS
    <3>2. Within(v)
      BY <1>2, <1>6, <3>1 DEF Within
    <3>3. Payload(rest) + v.sniffed = v.written
      BY <1>1, <1>3, <1>7, <2>3, <3>2 DEF BodyFits, Buffered
    <3>4. Payload(rest) = 0 /\ Buffered(u) = 0
      BY <1>2, <2>3, PayloadShort DEF Buffered
    <3>5. QED
      BY <1>2, <1>6, <2>1, <3>3, <3>4
  <2>6. BodyFits(u, d)
    <3>1. IF u.chunking THEN Chunks(d) ELSE AllData(d)
      BY <1>2, <2>1 DEF SameHead, KeptHead, KeptHead
    <3>2. u.sniffed <= SniffLen
      BY <1>1, <1>2 DEF BodyFits
    <3>3. QED
      BY <1>2, <2>3, <2>5, <3>1, <3>2 DEF BodyFits
  <2>7. Open(u, o \o SniffTokens(v))
    BY <1>2, <1>3, <1>5, <2>1, <2>4, <2>6 DEF Open
  <2>8. QED
    BY <2>7 DEF u
<1>8. CASE ~v.needSniff
  <2>1. SniffTokens(v) = <<>>
    BY <1>8 DEF SniffTokens
  <2> HIDE DEF lead
  <2>2. o = lead \o (<<End>> \o rest)
    BY <1>1, <1>8 DEF Sent, lead
  <2>3. o \in Seq(Piece)
    BY <1>4, <2>2, ConcatProperties
  <2>4. o \o SniffTokens(v) = Sent(u, h, rest)
    BY <1>2, <1>3, <2>1, <2>2, <2>3, ConcatEmptySeq DEF Sent, lead
  <2>5. BodyFits(u, rest)
    <3>1. IF u.chunking THEN Chunks(rest) ELSE AllData(rest)
      BY <1>1, <1>2 DEF SameHead, KeptHead, BodyFits
    <3>2. u.sniffed <= SniffLen
      BY <1>1, <1>2 DEF BodyFits
    <3>3. Within(u) = Within(v) /\ Buffered(u) = 0 /\ Buffered(v) = 0
      BY <1>2, <1>6, <1>8 DEF Within, Buffered
    <3>4. QED
      BY <1>1, <1>2, <1>3, <3>1, <3>2, <3>3 DEF BodyFits
  <2>6. Open(u, o \o SniffTokens(v))
    BY <1>2, <1>3, <1>5, <2>4, <2>5 DEF Open
  <2>7. QED
    BY <2>6 DEF u
<1>9. QED
  BY <1>7, <1>8

LEMMA OpenIsSeq ==
    ASSUME NEW v, NEW o, Known, Open(v, o)
    PROVE  o \in Seq(Piece)
<1>1. PICK h \in Heads, rest \in Seq(Piece) : o = Sent(v, h, rest)
  BY DEF Open
<1> DEFINE lead == Asked(v) \o <<h>>
<1>2. lead \in Seq(Piece) /\ <<End>> \in Seq(Piece)
  BY LeadTyped
<1> HIDE DEF lead
<1>3. <<End>> \o rest \in Seq(Piece) /\ <<>> \in Seq(Piece)
  BY <1>2, ConcatProperties, EmptySeq
<1>4. lead \o (<<End>> \o rest) \in Seq(Piece) /\ lead \o <<>> \in Seq(Piece)
  BY <1>2, <1>3, ConcatProperties
<1>5. QED
  BY <1>1, <1>4 DEF Sent, lead

LEMMA DataAlike ==
    ASSUME NEW u, NEW v, u.chunking = v.chunking
    PROVE  \A n : Data(u, n) = Data(v, n)
  BY DEF Data

LEMMA OpenWrites ==
    ASSUME NEW v, NEW o, NEW n \in Nat, Known, Open(v, o)
    PROVE  Open(Write(v, n).w, o \o Write(v, n).toks) /\ Write(v, n).toks \in Seq(Piece)
<1> DEFINE m == IF v.needSniff THEN (IF SniffLen - v.sniffed < n THEN SniffLen - v.sniffed ELSE n)
                ELSE 0
           c == Counted(v, n)
           full == BufferedMore(c, m)
<1>1. Typed(v) /\ v.sniffed <= SniffLen /\ v.sniffed \in Nat /\ v.written \in Nat
      /\ SniffLen \in Nat
  BY ServerAssumption DEF Open, Typed, BodyFits
<1>2. m \in Nat /\ m <= n
  BY <1>1
<1>3. /\ Typed(c) /\ SameHead(c, v) /\ (c.needSniff <=> v.needSniff)
      /\ c.written = v.written + n /\ c.sniffed = v.sniffed
  BY <1>1, CountedFields
<1>4. /\ Typed(full) /\ SameHead(full, c) /\ (full.needSniff <=> v.needSniff)
      /\ full.written = v.written + n /\ full.sniffed = v.sniffed + m
  <2> HIDE DEF c, m
  <2>1. QED
    BY <1>2, <1>3, BufferedFields
<1>5. SameHead(full, v)
  <2> HIDE DEF c, full
  <2>1. QED
    BY <1>3, <1>4, SameHeads
<1>6. o \in Seq(Piece) /\ o \o <<>> = o /\ <<>> \in Seq(Piece)
  BY OpenIsSeq, ConcatEmptySeq, EmptySeq
<1>7. CASE n = 0 \/ ~bodyAllowed(v)
  <2>1. Write(v, n) = [w |-> v, toks |-> <<>>]
    BY <1>7 DEF Write
  <2>2. QED
    BY <1>6, <2>1
<1>8. CASE ~(n = 0 \/ ~bodyAllowed(v)) /\ v.contentLength # -1 /\ c.written > v.contentLength
  <2>1. Write(v, n) = [w |-> c, toks |-> <<>>]
    BY <1>8 DEF Write, Counted
  <2> HIDE DEF c
  <2>2. c.contentLength = v.contentLength
    BY <1>3 DEF SameHead, KeptHead
  <2>3. Open(c, o)
    BY <1>1, <1>3, <1>8, <2>2, OpenKept, SameHeads
  <2>4. QED
    BY <1>6, <2>1, <2>3
<1>9. CASE /\ ~(n = 0 \/ ~bodyAllowed(v)) /\ ~(v.contentLength # -1 /\ c.written > v.contentLength)
           /\ v.needSniff /\ m = n
  <2>1. Write(v, n) = [w |-> full, toks |-> <<>>]
    BY <1>9 DEF Write, Counted, BufferedMore
  <2>2. full.sniffed <= SniffLen
    <3>1. n <= SniffLen - v.sniffed
      BY <1>1, <1>9
    <3> HIDE DEF full, m
    <3>2. QED
      BY <1>1, <1>4, <1>9, <3>1
  <2>3. full.written = v.written + n /\ full.sniffed = v.sniffed + n
    <3> HIDE DEF full, m
    <3>1. QED
      BY <1>4, <1>9
  <2> HIDE DEF full
  <2>4. Open(full, o)
    BY <1>4, <1>5, <1>9, <2>2, <2>3, OpenKept, SameHeads
  <2>5. QED
    BY <1>6, <2>1, <2>4
<1>10. CASE /\ ~(n = 0 \/ ~bodyAllowed(v)) /\ ~(v.contentLength # -1 /\ c.written > v.contentLength)
            /\ ~(v.needSniff /\ m = n)
  <2>1. /\ Write(v, n).w = Sniff(full)
        /\ Write(v, n).toks = SniffTokens(full) \o Data(full, n - m)
    <3>1. Write(v, n) = [w |-> Sniff(full), toks |-> SniffTokens(full) \o Data(full, n - m)]
      BY <1>10 DEF Write, Counted, BufferedMore
    <3> HIDE DEF full, m
    <3>2. QED
      BY <3>1
  <2>2. /\ Typed(Sniff(full)) /\ SameHead(Sniff(full), v) /\ ~Sniff(full).needSniff
        /\ Sniff(full).written = v.written + n /\ Sniff(full).sniffed = v.sniffed + m
    <3> HIDE DEF full
    <3>1. QED
      BY <1>4, <1>5, SniffFields, SameHeads
  <2>3. full.chunking = v.chunking
    <3> HIDE DEF full
    <3>1. QED
      BY <1>5 DEF SameHead, KeptHead
  <2>4. n - m \in Nat
    <3> HIDE DEF m
    <3>1. QED
      BY <1>2
  <2> HIDE DEF full, c
  <2>4a. SniffTokens(full) \o Data(full, n - m) \in Seq(Piece)
    <3> HIDE DEF m
    <3>1. full.sniffed \in Nat
      BY <1>1, <1>2, <1>4
    <3>2. Data(full, n - m) \in Seq(Piece) /\ Data(full, full.sniffed) \in Seq(Piece)
      BY <2>4, <3>1, DataFits
    <3>3. <<End>> \in Seq(Piece) /\ <<>> \in Seq(Piece)
      BY <1>6 DEF Known, End, Token, Piece
    <3>4. <<End>> \o Data(full, full.sniffed) \in Seq(Piece)
      BY <3>2, <3>3, ConcatProperties
    <3>5. SniffTokens(full) \in Seq(Piece)
      BY <3>3, <3>4 DEF SniffTokens, End
    <3>6. QED
      BY <3>2, <3>5, ConcatProperties
  <2>5. CASE ~v.needSniff
    <3>1. m = 0 /\ SniffTokens(full) = <<>>
      BY <1>4, <2>5 DEF SniffTokens
    <3>2. Open(c, o \o Data(v, n))
      BY <1>10, <2>5, OpenData DEF c
    <3>3. SniffTokens(full) \o Data(full, n - m) = Data(v, n)
      <4>1. Data(v, n) \in Seq(Piece) /\ Data(full, n - m) = Data(v, n)
        BY <2>3, <3>1, DataFits, DataAlike
      <4>2. QED
        BY <3>1, <4>1, ConcatEmptySeq
    <3>4. SameHead(Sniff(full), c)
      BY <1>4, SniffFields, SameHeads
    <3>5. /\ ~Sniff(full).needSniff /\ ~c.needSniff /\ Sniff(full).sniffed <= SniffLen
          /\ Sniff(full).written = c.written /\ Sniff(full).sniffed = c.sniffed
      BY <1>1, <1>3, <2>2, <2>5, <3>1
    <3>6. Open(Sniff(full), o \o Data(v, n))
      BY <2>2, <3>2, <3>4, <3>5, OpenKept, SameHeads
    <3> HIDE DEF m
    <3>7. QED
      BY <2>1, <2>4a, <3>3, <3>6
  <2>6. CASE v.needSniff
    <3> DEFINE k == Counted(v, m)
               u == BufferedMore(k, m)
               s == Sniff(u)
               e == Counted(s, n - m)
    <3>1. m = SniffLen - v.sniffed /\ v.sniffed + m = SniffLen
      BY <1>1, <1>10, <2>6
    <3> HIDE DEF m
    <3>2. /\ Typed(k) /\ SameHead(k, v) /\ (k.needSniff <=> v.needSniff)
          /\ k.written = v.written + m /\ k.sniffed = v.sniffed
      BY <1>1, <1>2, CountedFields
    <3> HIDE DEF k
    <3>3. /\ Typed(u) /\ SameHead(u, v) /\ u.needSniff
          /\ u.written = v.written + m /\ u.sniffed = v.sniffed + m
      BY <1>2, <2>6, <3>2, BufferedFields, SameHeads
    <3> HIDE DEF u
    <3>4. Open(u, o)
      BY <1>1, <1>2, <2>6, <3>1, <3>3, OpenKept, SameHeads
    <3>5. SniffTokens(full) = SniffTokens(u)
      <4>1. full.needSniff /\ full.sniffed = u.sniffed /\ u.chunking = v.chunking
        BY <1>4, <2>6, <3>3 DEF SameHead, KeptHead
      <4>2. Data(full, full.sniffed) = Data(u, u.sniffed)
        BY <2>3, <4>1, DataAlike
      <4>3. QED
        BY <3>3, <4>1, <4>2 DEF SniffTokens
    <3>6. Open(s, o \o SniffTokens(u))
      BY <3>4, OpenSniffs
    <3>7. /\ Typed(s) /\ SameHead(s, v) /\ ~s.needSniff
          /\ s.written = v.written + m /\ s.sniffed = v.sniffed + m
      BY <3>3, SniffFields, SameHeads
    <3> HIDE DEF s
    <3>8. bodyAllowed(s) /\ s.chunking = v.chunking
      BY <1>10, <3>7 DEF bodyAllowed, SameHead, KeptHead
    <3>9. Open(e, (o \o SniffTokens(u)) \o Data(s, n - m))
      BY <2>4, <3>6, <3>7, <3>8, OpenData
    <3>10. /\ Typed(e) /\ SameHead(e, s) /\ ~e.needSniff
           /\ e.written = s.written + (n - m) /\ e.sniffed = s.sniffed
      BY <2>4, <3>7, CountedFields
    <3> HIDE DEF e
    <3>11. SameHead(Sniff(full), e)
      BY <2>2, <3>7, <3>10, SameHeads
    <3>12. /\ (Sniff(full).needSniff <=> e.needSniff) /\ Sniff(full).sniffed <= SniffLen
           /\ Sniff(full).written = e.written /\ Sniff(full).sniffed = e.sniffed
      BY <1>1, <1>2, <2>2, <3>1, <3>7, <3>10
    <3>13. Open(Sniff(full), (o \o SniffTokens(u)) \o Data(s, n - m))
      BY <2>2, <3>9, <3>11, <3>12, OpenKept, SameHeads
    <3>14. (o \o SniffTokens(u)) \o Data(s, n - m) = o \o (SniffTokens(full) \o Data(full, n - m))
      <4>1. Data(s, n - m) = Data(full, n - m)
        BY <2>3, <3>8, DataAlike
      <4>2. Data(s, n - m) \in Seq(Piece) /\ SniffTokens(u) \in Seq(Piece)
        <5>1. Data(s, n - m) \in Seq(Piece) /\ Data(u, u.sniffed) \in Seq(Piece)
          BY <1>1, <1>2, <2>4, <3>3, DataFits
        <5>2. SniffTokens(u) = <<End>> \o Data(u, u.sniffed)
          BY <3>3 DEF SniffTokens, End
        <5>3. <<End>> \in Seq(Piece)
          BY DEF Known, End, Token, Piece
        <5>4. QED
          BY <5>1, <5>2, <5>3, ConcatProperties
      <4>3. QED
        BY <1>6, <3>5, <4>1, <4>2, ConcatAssociative
    <3>15. QED
      BY <2>1, <2>4a, <3>13, <3>14
  <2>7. QED
    BY <2>5, <2>6
<1>11. QED
  BY <1>7, <1>8, <1>9, <1>10

\* requestTooLarge, and finishRequest, behind the header.
LEMMA OpenStays ==
    ASSUME NEW v, NEW o, Open(v, o)
    PROVE  Open(requestTooLarge(v), o) /\ Open(Finishing(v), o)
<1>1. Typed(v) /\ v.wroteHeader /\ v.sniffed <= SniffLen
  BY DEF Open, BodyFits
<1>2. ASSUME NEW b, Typed(b), Alike(b, v), KeptHead(b, v) PROVE Open(b, o)
  <2>1. /\ (b.needSniff <=> v.needSniff) /\ b.sniffed <= SniffLen
        /\ b.written = v.written /\ b.sniffed = v.sniffed
    BY <1>1, <1>2 DEF Alike
  <2>2. QED
    BY <1>2, <2>1, OpenKept
<1>3. Open(requestTooLarge(v), o)
  <2> DEFINE b == requestTooLarge(v)
  <2>1. /\ Typed(b) /\ Alike(b, v) /\ b.wroteHeader = v.wroteHeader /\ b.status = v.status
        /\ b.header.conn = v.header.conn /\ b.closeAfterReply = TRUE
    BY <1>1, TooLargeFields
  <2> HIDE DEF b
  <2>2. KeptHead(b, v)
    BY <2>1 DEF KeptHead, Alike
  <2>3. Open(b, o)
    BY <1>2, <2>1, <2>2
  <2>4. QED
    BY <2>3 DEF b
<1>4. Open(Finishing(v), o)
  <2> DEFINE b == Finishing(v)
  <2>1. /\ Typed(b) /\ Alike(b, v) /\ b.wroteHeader = v.wroteHeader /\ b.status = v.status
        /\ b.header.conn = v.header.conn
        /\ (b.closeAfterReply <=> v.closeAfterReply) \/ v.header.conn = "keep-alive"
    BY <1>1, FinishingFields
  <2> HIDE DEF b
  <2>2. KeptHead(b, v)
    BY <2>1 DEF KeptHead, Alike
  <2>3. Open(b, o)
    BY <1>2, <2>1, <2>2
  <2>4. QED
    BY <2>3 DEF b
<1>5. QED
  BY <1>3, <1>4

\* The rest of WriteHeader.
LEMMA BegunOpens ==
    ASSUME NEW v, NEW o, Known, Begun(v, o)
    PROVE  /\ Open(EndHeader(v), o \o HeaderTokens(EndHeader(v)))
           /\ HeaderTokens(EndHeader(v)) \in Seq(Piece) /\ o \in Seq(Piece)
<1> DEFINE g == IF v.status = 304 THEN [v.header EXCEPT !.cl = NoLength, !.te = ""] ELSE v.header
           both == v.header.cl >= 0 /\ g.te \notin {"", "identity"}
           hasCL == v.header.cl >= 0 /\ ~both
           plain == req.r.method = "HEAD" \/ v.status = 304
           chunk == ~plain /\ ~hasCL /\ req.r.proto = "1.1"
           close == v.closeAfterReply \/ (~plain /\ ~hasCL /\ ~chunk)
           e == EndHeader(v)
           f == [g EXCEPT !.cl = IF both \/ chunk THEN NoLength ELSE @,
                          !.te = IF chunk THEN "chunked" ELSE IF plain THEN @ ELSE "",
                          !.conn = IF close THEN "close" ELSE @]
<1>1. /\ Typed(v) /\ DOMAIN v = ResponseFields /\ DOMAIN v.header = HeaderFields
      /\ v.header.conn \in Connections /\ v.header.cl \in Int /\ v.header.te \in Codings
  BY DEF Begun, Unsent, Typed
<1>1a. "" \in Codings /\ "chunked" \in Codings
  BY DEF Codings
<1>2. /\ DOMAIN g = HeaderFields /\ g.conn = v.header.conn /\ g.cl \in Int /\ g.te \in Codings
      /\ v.status = 304 => g.te = "" /\ g.cl = -1
      /\ v.status # 304 => g.te = v.header.te /\ g.cl = v.header.cl
  <2>1. CASE v.status = 304
    <3>1. g = [v.header EXCEPT !.cl = NoLength, !.te = ""]
      BY <2>1
    <3> HIDE DEF g
    <3>2. DOMAIN g = HeaderFields /\ g.conn = v.header.conn /\ g.cl = NoLength /\ g.te = ""
      BY <1>1, <3>1 DEF HeaderFields
    <3>3. NoLength = -1 /\ -1 \in Int
      BY DEF NoLength
    <3>4. QED
      BY <1>1a, <2>1, <3>2, <3>3
  <2>2. CASE v.status # 304
    <3>1. g = v.header
      BY <2>2
    <3> HIDE DEF g
    <3>2. QED
      BY <1>1, <2>2, <3>1
  <2>3. QED
    BY <2>1, <2>2
<1>3. /\ DOMAIN f = HeaderFields
      /\ f.conn = (IF close THEN "close" ELSE v.header.conn)
      /\ f.cl = (IF both \/ chunk THEN NoLength ELSE g.cl)
      /\ f.te = (IF chunk THEN "chunked" ELSE IF plain THEN g.te ELSE "")
  <2> HIDE DEF g, both, hasCL, plain, chunk, close
  <2>1. QED
    BY <1>2 DEF HeaderFields
<1>4. DOMAIN e = ResponseFields /\ e.header = f
  BY <1>1 DEF EndHeader, ResponseFields
<1>5. /\ e.written = v.written /\ e.sniffed = v.sniffed /\ e.status = v.status
      /\ e.wroteHeader = v.wroteHeader /\ e.wroteContinue = v.wroteContinue
  BY <1>1 DEF EndHeader, ResponseFields
<1>6. /\ e.needSniff = (v.status # 304 /\ ~v.header.ct /\ req.r.method # "HEAD")
      /\ e.chunking = chunk /\ e.closeAfterReply = close
  BY <1>1 DEF EndHeader, ResponseFields
<1>7. e.contentLength = IF ~plain /\ hasCL THEN v.header.cl ELSE v.contentLength
  BY <1>1 DEF EndHeader, ResponseFields
<1>8. v.written = 0 /\ v.sniffed = 0 /\ v.contentLength = -1 /\ v.wroteHeader /\ o = Asked(v)
  BY DEF Begun, Unsent
<1> HIDE DEF e, f
<1>9. Typed(e)
  <2>1. f.conn \in Connections /\ f.cl \in Int /\ f.te \in Codings
    <3> HIDE DEF g, both, hasCL, plain, chunk, close
    <3>1. f.conn \in Connections
      BY <1>1, <1>3 DEF Connections
    <3>2. f.cl \in Int
      <4>1. NoLength \in Int
        BY DEF NoLength
      <4>2. f.cl = NoLength \/ f.cl = g.cl
        BY <1>3
      <4>3. QED
        BY <1>2, <4>1, <4>2
    <3>3. f.te \in Codings
      BY <1>1a, <1>2, <1>3
    <3>4. QED
      BY <3>1, <3>2, <3>3
  <2>2. e.contentLength \in Int
    <3> HIDE DEF hasCL, plain
    <3>1. QED
      BY <1>1, <1>7, <1>8
  <2>3. QED
    BY <1>1, <1>3, <1>4, <1>5, <1>8, <2>1, <2>2 DEF Typed
<1> DEFINE te == IF f.te = "" THEN <<>> ELSE <<f.te>>
           h == [kind |-> "head", id |-> req.id, n |-> 0, code |-> e.status,
                 proto |-> req.r.proto, conn |-> f.conn, cl |-> f.cl, te |-> te]
<1>10. /\ te \in Seq(Codings) /\ (f.te = "" => te = <<>>)
       /\ (f.te = "chunked" => te = <<"chunked">>)
  <2>1. f.te \in Codings
    BY <1>4, <1>9 DEF Typed
  <2>2. CASE f.te = ""
    <3>1. te = <<>>
      BY <2>2
    <3>2. "" # "chunked" /\ <<>> \in Seq(Codings)
      BY EmptySeq
    <3> HIDE DEF te
    <3>3. QED
      BY <2>2, <3>1, <3>2
  <2>3. CASE f.te # ""
    <3>1. te = <<f.te>>
      BY <2>3
    <3>2. <<f.te>> \in Seq(Codings)
      BY <2>1
    <3>3. f.te = "chunked" => <<f.te>> = <<"chunked">>
      OBVIOUS
    <3> HIDE DEF te
    <3>4. QED
      BY <2>3, <3>1, <3>2, <3>3, Zenon
  <2>4. QED
    BY <2>2, <2>3
<1> HIDE DEF te
<1>11. h \in Heads
  <2>1. f.conn \in Connections /\ f.cl \in Int /\ e.status \in Nat
    BY <1>4, <1>9, CodesKnown DEF Typed
  <2>2. QED
    BY <1>10, <2>1 DEF Heads, Known
<1>12. bodyAllowed(e) <=> ~plain
  BY <1>5 DEF bodyAllowed
<1>13. HeadFits(e, h)
  <2>1. h.proto = req.r.proto /\ h.code = e.status /\ h.conn = e.header.conn
    BY <1>4
  <2>2. h.conn = "close" => e.closeAfterReply
    BY <1>3, <1>6 DEF Begun
  <2>3. req.r.proto = "1.0" => h.conn \in {"close", "keep-alive"}
    BY <1>3 DEF Begun
  <2>4. e.chunking => bodyAllowed(e) /\ h.te = <<"chunked">> /\ e.contentLength = -1
    BY <1>3, <1>6, <1>7, <1>8, <1>10, <1>12
  <2>5. ~bodyAllowed(e) => e.contentLength = -1 /\ (e.status = 304 => h.te = <<>>)
    BY <1>2, <1>3, <1>5, <1>7, <1>8, <1>10, <1>12
  <2>6. bodyAllowed(e) /\ ~e.chunking =>
          /\ h.te = <<>>
          /\ IF e.contentLength = -1 THEN h.conn = "close"
             ELSE h.cl = e.contentLength /\ h.cl >= 0 /\ (h.cl > 0 => BodyCode(h.code))
    <3>1. SUFFICES ASSUME ~plain, ~chunk
          PROVE  /\ h.te = <<>>
                 /\ IF e.contentLength = -1 THEN h.conn = "close"
                    ELSE h.cl = e.contentLength /\ h.cl >= 0 /\ (h.cl > 0 => BodyCode(h.code))
      BY <1>6, <1>12
    <3>2. h.te = <<>>
      BY <1>3, <1>10, <3>1
    <3>3. CASE hasCL
      <4>0. ~both /\ v.header.cl >= 0 /\ v.status # 304
        BY <3>1, <3>3
      <4>1. /\ e.contentLength = v.header.cl /\ h.cl = v.header.cl /\ v.header.cl >= 0
            /\ v.header.cl # -1 /\ h.code = v.status
        <5>1. f.cl = g.cl /\ g.cl = v.header.cl
          <6> HIDE DEF g, both, chunk
          <6>1. QED
            BY <1>2, <1>3, <3>1, <4>0
        <5>2. e.contentLength = v.header.cl
          <6> HIDE DEF hasCL, plain
          <6>1. QED
            BY <1>7, <3>1, <3>3
        <5>3. h.cl = f.cl /\ h.code = e.status
          OBVIOUS
        <5>4. v.header.cl # -1
          <6>1. \A k \in Int : k >= 0 => k # -1
            OBVIOUS
          <6>2. v.header.cl \in Int
            BY <1>1
          <6>3. QED
            BY <4>0, <6>1, <6>2
        <5> HIDE DEF h
        <5>5. QED
          BY <1>5, <4>0, <5>1, <5>2, <5>3, <5>4
      <4>2. v.header.cl > 0 => BodyCode(v.status)
        BY DEF Begun
      <4>3. QED
        BY <3>2, <4>1, <4>2
    <3>4. CASE ~hasCL
      <4>1. e.contentLength = -1 /\ close
        BY <1>7, <1>8, <3>1, <3>4
      <4>2. QED
        BY <1>3, <3>2, <4>1
    <3>5. QED
      BY <3>3, <3>4
  <2>7. QED
    BY <2>1, <2>2, <2>3, <2>4, <2>5, <2>6 DEF HeadFits
<1>14. BodyFits(e, <<>>)
  <2>1. Chunks(<<>>) /\ AllData(<<>>)
    BY DEF Chunks, AllData
  <2>2. e.needSniff => bodyAllowed(e)
    BY <1>6, <1>12
  <2>3. Payload(<<>>) + Buffered(e) = e.written /\ e.sniffed <= SniffLen
    BY <1>5, <1>8, PayloadShort, ServerAssumption DEF Buffered
  <2>4. QED
    BY <2>1, <2>2, <2>3 DEF BodyFits
<1> HIDE DEF h
<1>15. HeaderTokens(e) = <<h>> \o (IF e.needSniff THEN <<>> ELSE <<End>>)
  BY <1>4 DEF HeaderTokens, h, te, End
<1>16. /\ o \o HeaderTokens(e) = Sent(e, h, <<>>)
       /\ HeaderTokens(e) \in Seq(Piece) /\ o \in Seq(Piece)
  <2>1. /\ Asked(v) \in Seq(Piece) /\ <<h>> \in Seq(Piece) /\ <<End>> \in Seq(Piece)
        /\ <<>> \in Seq(Piece) /\ Asked(e) = Asked(v) /\ <<End>> \o <<>> = <<End>>
    <3>1. Asked(v) \in Seq(Piece) /\ <<End>> \in Seq(Piece)
      BY <1>11, LeadTyped
    <3>2. <<h>> \in Seq(Piece) /\ <<>> \in Seq(Piece)
      BY <1>11 DEF Piece
    <3>3. Asked(e) = Asked(v)
      BY <1>5 DEF Asked
    <3>4. <<End>> \o <<>> = <<End>>
      BY <3>1, ConcatEmptySeq
    <3>5. QED
      BY <3>1, <3>2, <3>3, <3>4
  <2> DEFINE t == IF e.needSniff THEN <<>> ELSE <<End>>
  <2>2. t \in Seq(Piece)
    BY <2>1
  <2>3. Sent(e, h, <<>>) = (Asked(v) \o <<h>>) \o t
    BY <2>1 DEF Sent
  <2> HIDE DEF t
  <2>4. Asked(v) \o (<<h>> \o t) = (Asked(v) \o <<h>>) \o t
    BY <2>1, <2>2, ConcatAssociative
  <2>5. <<h>> \o t \in Seq(Piece)
    BY <2>1, <2>2, ConcatProperties
  <2>6. QED
    BY <1>8, <1>15, <2>1, <2>3, <2>4, <2>5 DEF t
<1>17. /\ e.wroteHeader /\ <<>> \in Seq(Piece)
  BY <1>5, <1>8
<1>18. Open(e, o \o HeaderTokens(e))
  BY <1>9, <1>11, <1>13, <1>14, <1>16, <1>17 DEF Open
<1>19. QED
  BY <1>16, <1>18 DEF e

-----------------------------------------------------------------------------
(***************************************************************************)
(* A reply whose body has ended, and what the client makes of it.          *)
(***************************************************************************)
Closed(v, o) ==
    /\ Typed(v)
    /\ \E h \in Heads, rest \in Seq(Piece) :
          /\ HeadFits(v, h) /\ o = (Asked(v) \o <<h>>) \o (<<End>> \o rest)
          /\ IF v.chunking THEN WellChunked(rest) ELSE AllData(rest)
          /\ ~bodyAllowed(v) => rest = <<>>
          /\ bodyAllowed(v) /\ Within(v) => Payload(rest) = v.written

ZeroChunk == <<Token("size", req.id, 0), Token("crlf", req.id, 0)>>

LEMMA ZeroChunkTyped ==
    ASSUME Known
    PROVE  ZeroChunk \in Seq(Piece) /\ Payload(ZeroChunk) = 0
<1> DEFINE a == Token("size", req.id, 0)
           b == Token("crlf", req.id, 0)
<1>1. a \in Piece /\ b \in Piece /\ Units(a) = 0 /\ Units(b) = 0
  BY DEF Token, Piece, Units, Known
<1>2. ZeroChunk = <<a, b>>
  BY DEF ZeroChunk
<1> HIDE DEF a, b
<1> DEFINE s == <<a>>
           t == <<b>>
<1>3. ZeroChunk = s \o t /\ s \in Seq(Piece) /\ t \in Seq(Piece)
  <2>1. <<a>> \o <<b>> = <<a, b>>
    BY <1>1, Singles
  <2>2. <<a>> \in Seq(Piece) /\ <<b>> \in Seq(Piece)
    BY <1>1
  <2>3. QED
    BY <1>2, <2>1, <2>2
<1>4. Payload(s) = 0 /\ Payload(t) = 0
  BY <1>1, PayloadShort
<1> HIDE DEF s, t
<1>5. s \o t \in Seq(Piece) /\ Payload(s \o t) = 0
  BY <1>3, <1>4, PayloadConcat, ConcatProperties
<1>6. QED
  BY <1>3, <1>5

LEMMA OpenCloses ==
    ASSUME NEW v, NEW o, Known, Open(v, o)
    PROVE  Closed(Sniff(v), (o \o SniffTokens(v)) \o (IF v.chunking THEN ZeroChunk ELSE <<>>))
<1> DEFINE u == Sniff(v)
           p == o \o SniffTokens(v)
<1>1. Open(u, p) /\ ~u.needSniff /\ u.chunking = v.chunking
  BY OpenSniffs, SniffFields DEF SameHead, KeptHead, Open
<1> HIDE DEF u, p
<1>2. PICK h \in Heads, rest \in Seq(Piece) :
        HeadFits(u, h) /\ BodyFits(u, rest) /\ p = Sent(u, h, rest)
  BY <1>1 DEF Open
<1> DEFINE lead == Asked(u) \o <<h>>
<1>3. p = lead \o (<<End>> \o rest)
  BY <1>1, <1>2 DEF Sent
<1>4. lead \in Seq(Piece) /\ <<End>> \in Seq(Piece) /\ Payload(rest) \in Nat
  BY LeadTyped, PayloadConcat
<1>5. bodyAllowed(u) /\ Within(u) => Payload(rest) = u.written
  BY <1>1, <1>2, <1>4 DEF BodyFits, Buffered
<1>6. Typed(u)
  BY <1>1 DEF Open
<1>7. CASE v.chunking
  <2>1. ZeroChunk \in Seq(Piece) /\ Payload(ZeroChunk) = 0
    BY ZeroChunkTyped
  <2>2. Chunks(rest) /\ bodyAllowed(u)
    BY <1>1, <1>2, <1>7 DEF BodyFits, HeadFits
  <2>3. WellChunked(rest \o ZeroChunk)
    BY <2>2, ChunksEnd DEF ZeroChunk, Known
  <2>4. rest \o ZeroChunk \in Seq(Piece) /\ Payload(rest \o ZeroChunk) = Payload(rest)
    <3>1. Payload(rest \o ZeroChunk) = Payload(rest) + 0
      BY <2>1, PayloadConcat
    <3>2. QED
      BY <1>4, <2>1, <3>1, ConcatProperties
  <2> HIDE DEF lead
  <2>5. p \o ZeroChunk = lead \o (<<End>> \o (rest \o ZeroChunk))
    <3>1. <<End>> \o rest \in Seq(Piece)
      BY <1>4, ConcatProperties
    <3>2. (<<End>> \o rest) \o ZeroChunk = <<End>> \o (rest \o ZeroChunk)
      BY <1>4, <2>1, ConcatAssociative
    <3>3. (lead \o (<<End>> \o rest)) \o ZeroChunk = lead \o ((<<End>> \o rest) \o ZeroChunk)
      <4> DEFINE t == <<End>> \o rest
      <4>1. t \in Seq(Piece) /\ lead \in Seq(Piece) /\ ZeroChunk \in Seq(Piece)
        BY <1>4, <2>1, <3>1
      <4> HIDE DEF t
      <4>2. (lead \o t) \o ZeroChunk = lead \o (t \o ZeroChunk)
        BY <4>1, ConcatAssociative
      <4>3. QED
        BY <4>2 DEF t
    <3>4. QED
      BY <1>3, <3>2, <3>3
  <2>6. Closed(u, p \o ZeroChunk)
    BY <1>1, <1>2, <1>5, <1>6, <1>7, <2>2, <2>3, <2>4, <2>5 DEF Closed, lead
  <2>7. QED
    BY <1>7, <2>6 DEF u, p
<1>8. CASE ~v.chunking
  <2>1. AllData(rest) /\ (~bodyAllowed(u) => rest = <<>>)
    BY <1>1, <1>2, <1>8 DEF BodyFits
  <2>2. p \o <<>> = p
    BY <1>1, OpenIsSeq, ConcatEmptySeq
  <2>3. Closed(u, p)
    BY <1>1, <1>2, <1>3, <1>5, <1>6, <1>8, <2>1 DEF Closed
  <2>4. QED
    BY <1>8, <2>2, <2>3 DEF u, p
<1>9. QED
  BY <1>7, <1>8

\* How the client reads the header.
LEMMA ReplyRead ==
    ASSUME NEW v, NEW h \in Heads, Typed(v), HeadFits(v, h), Known, ~v.closeAfterReply,
           v.contentLength = -1 \/ v.contentLength = v.written
    PROVE  LET t == ResponseTransfer(req.r.method, h) IN
           /\ ~t.close /\ (t.body = "chunked" <=> v.chunking)
           /\ ~v.chunking => IF bodyAllowed(v) THEN t.len = v.written ELSE t.len = 0
           /\ Within(v)
<1> DEFINE m == req.r.method
           te == fixTransferEncoding(m, h.te)
           n == fixLength(TRUE, h.code, m, h.cl, te)
           t == ResponseTransfer(m, h)
<1>1. /\ t.len = n
      /\ t.close = (shouldClose(h.proto, h.conn)
                      \/ (n = -1 /\ te # "chunked" /\ bodyAllowedForStatus(h.code)))
      /\ t.body = "chunked" <=> te = "chunked"
  <2> HIDE DEF te, n
  <2>1. QED
    BY DEF ResponseTransfer, te, n
<1>2. ~shouldClose(h.proto, h.conn)
  BY DEF HeadFits, shouldClose, Known
<1>3. Within(v)
  BY DEF Typed, Within
<1>4. CASE v.chunking
  <2>1. h.te = <<"chunked">> /\ m # "HEAD"
    BY <1>4 DEF HeadFits, bodyAllowed
  <2>2. te = "chunked"
    <3>1. Recorded(<<"chunked">>) = <<"chunked">>
      BY RecordedOne
    <3>2. <<"chunked">> # <<>>
      OBVIOUS
    <3>3. QED
      BY <2>1, <3>1, <3>2 DEF fixTransferEncoding, noBodyExpected
  <2> HIDE DEF te, n, t
  <2>3. QED
    BY <1>1, <1>2, <1>3, <1>4, <2>2 DEF m, t
<1>5. CASE ~v.chunking /\ bodyAllowed(v)
  <2>1. /\ h.te = <<>> /\ m # "HEAD" /\ h.code # 304 /\ h.code = v.status
        /\ h.cl = v.contentLength /\ h.cl >= 0 /\ (h.cl > 0 => BodyCode(h.code))
    BY <1>5 DEF HeadFits, bodyAllowed
  <2>2. te = "none"
    BY <2>1 DEF fixTransferEncoding
  <2>3. h.cl \in Int /\ h.code \in Nat /\ h.cl # -1 /\ h.cl = v.written
    BY <2>1 DEF Heads
  <2> HIDE DEF te
  <2>4. n = h.cl
    <3>1. CASE BodyCode(h.code)
      BY <2>1, <2>2, <2>3, <3>1 DEF fixLength, noBodyExpected, BodyCode, NoLength
    <3>2. CASE ~BodyCode(h.code)
      <4>1. h.cl = 0
        BY <2>1, <2>3, <3>2
      <4>2. QED
        BY <2>1, <3>2, <4>1 DEF fixLength, BodyCode
    <3>3. QED
      BY <3>1, <3>2
  <2> HIDE DEF n, t
  <2>5. ~t.close
    BY <1>1, <1>2, <2>3, <2>4
  <2>6. QED
    BY <1>1, <1>3, <1>5, <2>2, <2>3, <2>4, <2>5 DEF m, t
<1>6. CASE ~v.chunking /\ ~bodyAllowed(v)
  <2>1. m = "HEAD" \/ (h.code = 304 /\ h.te = <<>>)
    BY <1>6 DEF HeadFits, bodyAllowed
  <2>2. te = "none"
    BY <2>1 DEF fixTransferEncoding, noBodyExpected
  <2>3. n = 0
    BY <2>1 DEF fixLength, noBodyExpected
  <2> HIDE DEF te, n, t
  <2>4. ~t.close
    <3>1. n # -1
      BY <2>3
    <3>2. QED
      BY <1>1, <1>2, <3>1
  <2>5. QED
    BY <1>1, <1>3, <1>6, <2>2, <2>3, <2>4 DEF m, t
<1>7. QED
  BY <1>4, <1>5, <1>6

\* The place of the parts of a reply.
LEMMA PartsOfReply ==
    ASSUME NEW h \in Heads, NEW rest \in Seq(Piece), Known
    PROVE  LET toks == <<h>> \o (<<End>> \o rest) IN
           /\ toks \in Seq(Piece) /\ toks # <<>> /\ Len(toks) = Len(rest) + 2 /\ Len(rest) \in Nat
           /\ toks[1] = h /\ toks[2] = End /\ SubSeq(toks, 3, Len(toks)) = rest
           /\ \A j \in 1 .. Len(rest) : toks[j + 2] = rest[j]
<1> DEFINE e == <<End>> \o rest
           toks == <<h>> \o e
           sub == SubSeq(toks, 3, Len(toks))
<1>1. /\ <<h>> \in Seq(Piece) /\ Len(<<h>>) = 1 /\ <<h>>[1] = h
      /\ <<End>> \in Seq(Piece) /\ Len(<<End>>) = 1 /\ <<End>>[1] = End
  BY DEF Piece, End, Token, Known
<1>2. /\ e \in Seq(Piece) /\ Len(e) = 1 + Len(rest) /\ Len(rest) \in Nat
      /\ e[1] = End /\ \A j \in 1 .. Len(rest) : e[1 + j] = rest[j]
  <2>1. /\ <<End>> \o rest \in Seq(Piece) /\ Len(<<End>> \o rest) = Len(<<End>>) + Len(rest)
        /\ Len(rest) \in Nat
        /\ \A i \in 1 .. Len(<<End>>) : (<<End>> \o rest)[i] = <<End>>[i]
        /\ \A j \in 1 .. Len(rest) : (<<End>> \o rest)[Len(<<End>>) + j] = rest[j]
    <3>1. <<End>> \in Seq(Piece)
      BY <1>1
    <3>2. QED
      BY <3>1, ConcatAt
  <2> HIDE DEF e
  <2>2. QED
    BY <1>1, <2>1 DEF e
<1> HIDE DEF e
<1>3. /\ toks \in Seq(Piece) /\ Len(toks) = 1 + Len(e)
      /\ toks[1] = h /\ \A j \in 1 .. Len(e) : toks[1 + j] = e[j]
  <2>1. /\ <<h>> \o e \in Seq(Piece) /\ Len(<<h>> \o e) = Len(<<h>>) + Len(e)
        /\ \A i \in 1 .. Len(<<h>>) : (<<h>> \o e)[i] = <<h>>[i]
        /\ \A j \in 1 .. Len(e) : (<<h>> \o e)[Len(<<h>>) + j] = e[j]
    <3>1. <<h>> \in Seq(Piece) /\ e \in Seq(Piece)
      BY <1>1, <1>2
    <3>2. QED
      BY <3>1, ConcatAt
  <2> HIDE DEF toks
  <2>2. QED
    BY <1>1, <2>1 DEF toks
<1> HIDE DEF toks
<1>4. Len(toks) = Len(rest) + 2 /\ toks[2] = End
  <2>1. 1 \in 1 .. Len(e) /\ 1 + 1 = 2
    BY <1>2
  <2>2. toks[1 + 1] = e[1]
    BY <1>3, <2>1
  <2>3. QED
    BY <1>2, <1>3, <2>1, <2>2
<1>5. ASSUME NEW j \in 1 .. Len(rest) PROVE toks[j + 2] = rest[j]
  <2>1. 1 + j \in 1 .. Len(e) /\ 1 + (1 + j) = j + 2
    BY <1>2
  <2>2. toks[1 + (1 + j)] = e[1 + j]
    BY <1>3, <2>1
  <2>3. QED
    BY <1>2, <2>1, <2>2
<1>6. toks # <<>>
  BY <1>2, <1>4, EmptySeq
<1>7. sub = rest
  <2>1. \A i \in 3 .. Len(toks) : toks[i] \in Piece
    BY <1>2, <1>3, <1>4, ElementOfSeq
  <2>2. /\ sub \in Seq(Piece)
        /\ Len(sub) = IF 3 <= Len(toks) THEN Len(toks) - 3 + 1 ELSE 0
        /\ \A i \in 1 .. Len(toks) - 3 + 1 : sub[i] = toks[3 + i - 1]
    <3>1. 3 \in Int /\ Len(toks) \in Int
      BY <1>2, <1>4
    <3>2. QED
      BY <2>1, <3>1, SubSeqProperties
  <2> HIDE DEF sub
  <2>3. Len(sub) = Len(rest)
    BY <1>2, <1>4, <2>2
  <2>4. ASSUME NEW i \in 1 .. Len(sub) PROVE sub[i] = rest[i]
    <3>1. i \in 1 .. Len(rest) /\ i \in 1 .. Len(toks) - 3 + 1 /\ 3 + i - 1 = i + 2
      BY <1>2, <1>4, <2>3
    <3>2. sub[i] = toks[i + 2]
      BY <2>2, <3>1
    <3>3. QED
      BY <1>5, <3>1, <3>2
  <2>5. QED
    BY <2>2, <2>3, <2>4, SeqEqual
<1>8. QED
  BY <1>2, <1>3, <1>4, <1>5, <1>6, <1>7 DEF toks, e, sub

LEMMA TailOfOne ==
    ASSUME NEW S, NEW x \in S, NEW s \in Seq(S)
    PROVE  /\ <<x>> \o s # <<>> /\ Head(<<x>> \o s) = x /\ Tail(<<x>> \o s) = s
           /\ \A i \in 1 .. Len(<<x>> \o s) : i # 1 => (<<x>> \o s)[i] = s[i - 1] /\ i - 1 \in 1 .. Len(s)
<1> DEFINE t == <<x>> \o s
<1>1. <<x>> \in Seq(S) /\ Len(<<x>>) = 1 /\ <<x>>[1] = x
  OBVIOUS
<1>2. /\ t \in Seq(S) /\ Len(t) = 1 + Len(s) /\ Len(s) \in Nat
      /\ t[1] = x /\ \A j \in 1 .. Len(s) : t[1 + j] = s[j]
  <2>1. /\ <<x>> \o s \in Seq(S) /\ Len(<<x>> \o s) = Len(<<x>>) + Len(s) /\ Len(s) \in Nat
        /\ \A i \in 1 .. Len(<<x>>) : (<<x>> \o s)[i] = <<x>>[i]
        /\ \A j \in 1 .. Len(s) : (<<x>> \o s)[Len(<<x>>) + j] = s[j]
    <3>1. <<x>> \in Seq(S)
      BY <1>1
    <3>2. QED
      BY <3>1, ConcatAt
  <2> HIDE DEF t
  <2>2. QED
    BY <1>1, <2>1 DEF t
<1> HIDE DEF t
<1>3. t # <<>> /\ Head(t) = x
  BY <1>2, EmptySeq
<1>4. /\ Tail(t) \in Seq(S) /\ Len(Tail(t)) = Len(s)
      /\ \A i \in 1 .. Len(Tail(t)) : Tail(t)[i] = t[i + 1]
  BY <1>2, <1>3, HeadTailProperties
<1>5. \A i \in 1 .. Len(Tail(t)) : Tail(t)[i] = s[i]
  <2>1. \A i \in 1 .. Len(s) : 1 + i = i + 1
    BY <1>2
  <2>2. QED
    BY <1>2, <1>4, <2>1
<1>6. Tail(t) = s
  BY <1>4, <1>5, SeqEqual
<1>7. ASSUME NEW i \in 1 .. Len(t), i # 1 PROVE t[i] = s[i - 1] /\ i - 1 \in 1 .. Len(s)
  <2>1. i - 1 \in 1 .. Len(s) /\ 1 + (i - 1) = i
    BY <1>2, <1>7
  <2>2. QED
    BY <1>2, <2>1
<1>8. QED
  BY <1>3, <1>6, <1>7 DEF t

\* A client that reads a closed reply finds its end.
LEMMA ClosedIsDelimited ==
    ASSUME Closed(w, out), Known, ~w.closeAfterReply,
           w.contentLength = -1 \/ w.contentLength = w.written
    PROVE  ReplyIsDelimited
<1>1. PICK h \in Heads, rest \in Seq(Piece) :
        /\ HeadFits(w, h) /\ out = (Asked(w) \o <<h>>) \o (<<End>> \o rest)
        /\ IF w.chunking THEN WellChunked(rest) ELSE AllData(rest)
        /\ ~bodyAllowed(w) => rest = <<>>
        /\ bodyAllowed(w) /\ Within(w) => Payload(rest) = w.written
  BY DEF Closed
<1> DEFINE toks == <<h>> \o (<<End>> \o rest)
           c == Token("continue", req.id, 0)
           t == ResponseTransfer(req.r.method, h)
<1>2. /\ toks \in Seq(Piece) /\ toks # <<>> /\ Len(toks) = Len(rest) + 2 /\ Len(rest) \in Nat
      /\ toks[1] = h /\ toks[2] = End /\ SubSeq(toks, 3, Len(toks)) = rest
      /\ \A j \in 1 .. Len(rest) : toks[j + 2] = rest[j]
  BY PartsOfReply
<1>3. c \in Piece /\ c.kind = "continue" /\ End.kind = "end" /\ h.kind = "head"
  BY DEF Token, Piece, Known, End, Heads
<1>4. \A i \in 1 .. Len(toks) : toks[i].kind # "continue"
  <2>1. \A j \in 1 .. Len(rest) : rest[j].kind # "continue"
    <3>1. DOMAIN rest = 1 .. Len(rest)
      BY LenProperties
    <3>2. CASE w.chunking
      <4>1. \A j \in 1 .. Len(rest) : j % 3 = 0 \/ j % 3 = 1 \/ j % 3 = 2
        BY <1>2
      <4>0. WellChunked(rest) /\ Len(rest) \in Nat
        BY <1>1, <1>2, <3>2
      <4>2. ASSUME NEW j \in 1 .. Len(rest) PROVE rest[j].kind # "continue"
        <5>0. (CASE j % 3 = 1 -> /\ rest[j].kind = "size"
                                 /\ rest[j].n = IF j = Len(rest) - 1 THEN 0 ELSE rest[j + 1].n
                 [] j % 3 = 2 -> rest[j].kind = IF j = Len(rest) THEN "crlf" ELSE "data"
                 [] j % 3 = 0 -> rest[j].kind = "crlf")
          BY <3>1, <4>0 DEF WellChunked
        <5>1. CASE j % 3 = 0
          <6>1. rest[j].kind = "crlf"
            BY <5>0, <5>1
          <6>2. QED
            BY <6>1
        <5>2. CASE j % 3 = 1
          <6>1. rest[j].kind = "size"
            <7>1. 1 # 2 /\ 1 # 0 /\ 2 # 0
              OBVIOUS
            <7>2. QED
              BY <5>0, <5>2, <7>1, Zenon
          <6>2. QED
            BY <6>1
        <5>3. CASE j % 3 = 2
          <6>1. rest[j].kind = IF j = Len(rest) THEN "crlf" ELSE "data"
            <7>1. 1 # 2 /\ 1 # 0 /\ 2 # 0
              OBVIOUS
            <7>2. QED
              BY <5>0, <5>3, <7>1, Zenon
          <6>2. QED
            BY <6>1
        <5>4. QED
          BY <4>1, <5>1, <5>2, <5>3
      <4>3. QED
        BY <4>2
    <3>3. CASE ~w.chunking
      BY <1>1, <3>3 DEF AllData
    <3>4. QED
      BY <3>2, <3>3
  <2> HIDE DEF toks
  <2>2. ASSUME NEW i \in 1 .. Len(toks) PROVE toks[i].kind # "continue"
    <3>1. i = 1 \/ i = 2 \/ (i - 2 \in 1 .. Len(rest) /\ (i - 2) + 2 = i)
      BY <1>2
    <3>2. CASE i = 1
      BY <1>2, <1>3, <3>2
    <3>3. CASE i = 2
      BY <1>2, <1>3, <3>3
    <3>4. CASE i - 2 \in 1 .. Len(rest) /\ (i - 2) + 2 = i
      <4>1. toks[i] = rest[i - 2]
        BY <1>2, <3>4
      <4>2. QED
        BY <2>1, <3>4, <4>1
    <3>5. QED
      BY <3>1, <3>2, <3>3, <3>4
  <2>3. QED
    BY <2>2
<1>5. out = Asked(w) \o toks
  <2>1. <<h>> \in Seq(Piece) /\ <<End>> \in Seq(Piece) /\ Asked(w) \in Seq(Piece)
    BY LeadTyped DEF Piece
  <2>2. <<End>> \o rest \in Seq(Piece)
    BY <2>1, ConcatProperties
  <2>3. QED
    BY <1>1, <2>1, <2>2, ConcatAssociative
<1> HIDE DEF toks, c
<1>6. /\ FromHead(out) = toks
      /\ \A i \in DOMAIN out : out[i].kind = "continue" => i = 1
  <2>1. CASE w.wroteContinue
    <3>1. out = <<c>> \o toks
      BY <1>5, <2>1 DEF Asked, c
    <3>2. /\ out # <<>> /\ Head(out) = c /\ Tail(out) = toks
          /\ \A i \in 1 .. Len(out) : i # 1 => out[i] = toks[i - 1] /\ i - 1 \in 1 .. Len(toks)
      BY <1>2, <1>3, <3>1, TailOfOne
    <3>3. DOMAIN out = 1 .. Len(out)
      <4>1. <<c>> \in Seq(Piece)
        BY <1>3
      <4>2. out \in Seq(Piece)
        BY <1>2, <3>1, <4>1, ConcatProperties
      <4>3. QED
        BY <4>2, LenProperties
    <3>4. \A i \in DOMAIN out : out[i].kind = "continue" => i = 1
      BY <1>4, <3>2, <3>3
    <3>5. QED
      BY <1>3, <3>2, <3>4 DEF FromHead
  <2>2. CASE ~w.wroteContinue
    <3>1. out = toks
      BY <1>2, <1>5, <2>2, ConcatEmptySeq DEF Asked
    <3>2. Head(toks) = h /\ DOMAIN toks = 1 .. Len(toks)
      BY <1>2, LenProperties
    <3>3. QED
      BY <1>2, <1>3, <1>4, <3>1, <3>2 DEF FromHead
  <2>3. QED
    BY <2>1, <2>2
<1>7. /\ ~t.close /\ (t.body = "chunked" <=> w.chunking)
      /\ ~w.chunking => IF bodyAllowed(w) THEN t.len = w.written ELSE t.len = 0
      /\ Within(w)
  BY <1>1, ReplyRead DEF Closed
<1> HIDE DEF t
<1>8. t.body = "chunked" => WellChunked(rest) /\ Payload(rest) = w.written
  <2>1. w.chunking => bodyAllowed(w)
    BY <1>1 DEF HeadFits
  <2>2. QED
    BY <1>1, <1>7, <2>1
<1>9. t.body # "chunked" =>
        /\ Payload(rest) = IF noBodyExpected(req.r.method) THEN 0 ELSE t.len
        /\ \A i \in DOMAIN rest : rest[i].kind = "data"
  <2>1. SUFFICES ASSUME ~w.chunking
                 PROVE  /\ Payload(rest) = IF noBodyExpected(req.r.method) THEN 0 ELSE t.len
                        /\ \A i \in DOMAIN rest : rest[i].kind = "data"
    BY <1>7
  <2>2. \A i \in DOMAIN rest : rest[i].kind = "data"
    BY <1>1, <2>1, LenProperties DEF AllData
  <2>3. CASE bodyAllowed(w)
    BY <1>1, <1>7, <2>1, <2>2, <2>3 DEF bodyAllowed, noBodyExpected
  <2>4. CASE ~bodyAllowed(w)
    BY <1>1, <1>7, <2>1, <2>2, <2>4, PayloadShort
  <2>5. QED
    BY <2>3, <2>4
<1>10. QED
  BY <1>2, <1>3, <1>6, <1>7, <1>8, <1>9 DEF ReplyIsDelimited, t

-----------------------------------------------------------------------------
(***************************************************************************)
(* The stages of a reply along the steps of the server.                    *)
(***************************************************************************)
AtHandler ==
    pc \in {"handler", "timed", "served", "refuse"} \/ (pc = "closeBody" /\ call.then = "handler")

Behind == {"write", "readFrom", "flush", "finish"}

ReplyStage ==
    /\ pc = "drain" => Begun(w, out)
    /\ pc \in Behind => Open(w, out)
    /\ AtHandler => Fresh(w, out) \/ Open(w, out)
    /\ AtEndOfReply => Closed(w, out)
    /\ pc = "read" => ~w.closeAfterReply /\ (w.contentLength = -1 \/ w.contentLength = w.written)

ReplyFits ==
    /\ req # Nil => Known
    /\ call.n \in Nat
    /\ ~Raced /\ req # Nil => ReplyStage

LEMMA FreshPrimed ==
    ASSUME UNCHANGED req, Fresh(w', out')
    PROVE  Fresh(w, out)'
  BY DEF Fresh, Unsent, Typed, Asked

LEMMA BegunPrimed ==
    ASSUME UNCHANGED req, Begun(w', out')
    PROVE  Begun(w, out)'
  BY DEF Begun, Unsent, Typed, Asked

LEMMA HeadFitsPrimed ==
    ASSUME UNCHANGED req, NEW h, HeadFits(w', h)
    PROVE  HeadFits(w, h)'
  BY DEF HeadFits, bodyAllowed

LEMMA OpenPrimed ==
    ASSUME UNCHANGED req, Open(w', out')
    PROVE  Open(w, out)'
<1>1. PICK h \in Heads, rest \in Seq(Piece) :
        HeadFits(w', h) /\ BodyFits(w', rest) /\ out' = Sent(w', h, rest)
  BY DEF Open
<1>2. HeadFits(w, h)'
  BY <1>1, HeadFitsPrimed
<1>3. BodyFits(w, rest)'
  BY <1>1 DEF BodyFits, bodyAllowed, Within, Buffered
<1>4. (out = Sent(w, h, rest))'
  BY <1>1 DEF Sent, Asked, End
<1>5. (Typed(w) /\ w.wroteHeader)'
  BY DEF Open, Typed
<1>6. QED
  BY <1>2, <1>3, <1>4, <1>5 DEF Open

LEMMA ClosedPrimed ==
    ASSUME UNCHANGED req, Closed(w', out')
    PROVE  Closed(w, out)'
<1>1. PICK h \in Heads, rest \in Seq(Piece) :
        /\ HeadFits(w', h) /\ out' = (Asked(w') \o <<h>>) \o (<<End>> \o rest)
        /\ IF w'.chunking THEN WellChunked(rest) ELSE AllData(rest)
        /\ ~bodyAllowed(w') => rest = <<>>
        /\ bodyAllowed(w') /\ Within(w') => Payload(rest) = w'.written
  BY DEF Closed
<1>2. HeadFits(w, h)'
  BY <1>1, HeadFitsPrimed
<1>3. (out = (Asked(w) \o <<h>>) \o (<<End>> \o rest))'
  BY <1>1 DEF Asked, End
<1>4. /\ IF w'.chunking THEN WellChunked(rest) ELSE AllData(rest)
      /\ (~bodyAllowed(w))' => rest = <<>>
      /\ (bodyAllowed(w) /\ Within(w))' => Payload(rest) = w'.written
  BY <1>1 DEF bodyAllowed, Within
<1>5. Typed(w)'
  BY DEF Closed, Typed
<1>6. QED
  BY <1>2, <1>3, <1>4, <1>5 DEF Closed

\* WriteHeader, called on a response that may have its header already.
LEMMA WithHeaderFits ==
    ASSUME NEW v, Fresh(v, out) \/ Open(v, out), Known, NEW code \in StatusCode, NEW then, NEW n,
           WithHeader(v, code, then, n), UNCHANGED req
    PROVE  /\ (pc' = "drain" /\ Begun(w, out)') \/ (pc' = then /\ Open(w, out)')
           /\ call' = [then |-> then, n |-> n]
<1>1. call' = [then |-> then, n |-> n]
  BY DEF WithHeader
<1>2. CASE v.wroteHeader
  <2>1. pc' = then /\ w' = v /\ out' = out
    BY <1>2 DEF WithHeader
  <2>2. Open(w', out')
    BY <1>2, <2>1 DEF Fresh
  <2>3. QED
    BY <1>1, <2>1, <2>2, OpenPrimed
<1>3. CASE ~v.wroteHeader
  <2> DEFINE b == BeginHeader(v, code)
  <2>1. Begun(b, out)
    BY <1>3, FreshBegins DEF Open
  <2> HIDE DEF b
  <2>2. CASE pc' = "drain" /\ w' = b /\ UNCHANGED out
    BY <1>1, <2>1, <2>2, BegunPrimed
  <2>3. CASE pc' = then /\ PutHeader(b)
    <3>1. w' = EndHeader(b) /\ out' = out \o HeaderTokens(EndHeader(b))
      BY <2>3 DEF PutHeader
    <3>2. Open(w', out')
      BY <2>1, <3>1, BegunOpens
    <3>3. QED
      BY <1>1, <2>3, <3>2, OpenPrimed
  <2>4. QED
    BY <1>3, <2>2, <2>3 DEF WithHeader, b
<1>4. QED
  BY <1>2, <1>3

LEMMA PutReplyFits ==
    ASSUME Fresh(w, out) \/ Open(w, out), Known, NEW code \in StatusCode, NEW n \in Nat,
           PutReply(code, n), UNCHANGED req
    PROVE  Open(w, out)'
<1> DEFINE v == HeaderOn(w, code)
           h == HeaderOut(w, code)
<1>1. Open(v, out \o h) /\ h \in Seq(Piece) /\ out \in Seq(Piece)
  <2>1. CASE w.wroteHeader
    <3>1. v = w /\ h = <<>> /\ Open(w, out)
      BY <2>1 DEF HeaderOn, HeaderOut, Fresh
    <3>2. out \in Seq(Piece) /\ out \o <<>> = out /\ <<>> \in Seq(Piece)
      BY <3>1, OpenIsSeq, ConcatEmptySeq, EmptySeq
    <3>3. QED
      BY <3>1, <3>2
  <2>2. CASE ~w.wroteHeader
    <3>1. Begun(BeginHeader(w, code), out)
      BY <2>2, FreshBegins DEF Open
    <3>2. v = EndHeader(BeginHeader(w, code)) /\ h = HeaderTokens(v)
      BY <2>2 DEF HeaderOn, HeaderOut
    <3>3. QED
      BY <3>1, <3>2, BegunOpens
  <2>3. QED
    BY <2>1, <2>2
<1> DEFINE x == Write(v, n).toks
<1>2. Open(Write(v, n).w, (out \o h) \o x) /\ x \in Seq(Piece)
  <2> HIDE DEF v, h
  <2>1. QED
    BY <1>1, OpenWrites
<1>3. w' = Write(v, n).w /\ out' = out \o (h \o x)
  BY DEF PutReply
<1> HIDE DEF v, h, x
<1>4. out \o (h \o x) = (out \o h) \o x
  <2>1. out \in Seq(Piece) /\ h \in Seq(Piece) /\ x \in Seq(Piece)
    BY <1>1, <1>2
  <2>2. QED
    BY <2>1, ConcatAssociative
<1>5. Open(w', out')
  BY <1>2, <1>3, <1>4
<1>6. QED
  BY <1>5, OpenPrimed

\* A call that was under way when a timeout struck is remembered.
LEMMA RacedStays ==
    ASSUME ControlInv, [Next]_vars, Raced
    PROVE  Raced'
<1>1. PICK i \in 1 .. MaxRequests : tw[i].raced
  BY DEF Raced
<1>2. tw \in [1 .. MaxRequests -> Writer]
  BY DEF ControlInv, WritersTyped
<1>3. CASE UNCHANGED tw
  BY <1>1, <1>3 DEF Raced
<1>4. CASE \E k, l : tw' = [tw EXCEPT ![k].late = l]
  <2>1. PICK k, l : tw' = [tw EXCEPT ![k].late = l]
    BY <1>4
  <2>2. tw'[i].raced
    BY <1>1, <1>2, <2>1 DEF Writer
  <2>3. QED
    BY <2>2 DEF Raced
<1>5. CASE Starts
  <2>1. tw' = [tw EXCEPT ![req.id].at = "run"]
    BY <1>5 DEF Starts
  <2>2. tw'[i].raced
    BY <1>1, <1>2, <2>1 DEF Writer
  <2>3. QED
    BY <2>2 DEF Raced
<1>6. CASE TimesOut
  <2> DEFINE r == tw[req.id].raced \/ tw[req.id].at \in {"header", "write"}
  <2>1. tw' = [tw EXCEPT ![req.id].timedOut = TRUE, ![req.id].raced = r]
    BY <1>2, <1>6 DEF TimesOut, Writer
  <2>2. CASE i = req.id
    <3>1. r
      BY <1>1, <2>2
    <3> HIDE DEF r
    <3>2. tw'[i].raced
      BY <1>2, <2>1, <2>2, <3>1 DEF Writer
    <3>3. QED
      BY <3>2 DEF Raced
  <2>3. CASE i # req.id
    <3> HIDE DEF r
    <3>1. tw'[i].raced
      BY <1>1, <1>2, <2>1, <2>3
    <3>2. QED
      BY <3>1 DEF Raced
  <2>4. QED
    BY <2>2, <2>3
<1>7. ASSUME NEW k \in 1 .. MaxRequests,
             \/ \E code \in Codes : CallsWriteHeader(k, code)
             \/ \E n \in WriteSizes : CallsWrite(k, n)
             \/ Writes(k) \/ WritesLate(k) \/ WritesOnClosed(k) \/ Finishes(k)
      PROVE  Raced'
  BY <1>7, WriterSteps
<1>8. CASE NewRequest
  BY <1>3, <1>4, <1>8 DEF NewRequest
<1>9. CASE Done \/ Served
  BY <1>3, <1>9 DEF Done, Served
<1>10. CASE TimeoutStep
  BY <1>5, <1>6, <1>7, <1>9, <1>10 DEF TimeoutStep
<1>11. CASE UNCHANGED vars
  BY <1>3, <1>11 DEF vars
<1>12. QED
  BY <1>3, <1>8, <1>10, <1>11 DEF Next, ServerStep

\* A step that leaves the reply alone.
LEMMA StageMoves ==
    ASSUME ReplyStage, UNCHANGED <<req, w, out>>, pc' # "drain" \/ pc = "drain",
           pc' \in Behind => pc \in Behind, AtHandler' => AtHandler,
           AtEndOfReply' => AtEndOfReply, pc' = "read" => pc = "read"
    PROVE  ReplyStage'
<1>1. /\ Begun(w, out) => Begun(w, out)'
      /\ Open(w, out) => Open(w, out)'
      /\ Fresh(w, out) => Fresh(w, out)'
      /\ Closed(w, out) => Closed(w, out)'
  BY BegunPrimed, OpenPrimed, FreshPrimed, ClosedPrimed
<1>2. (pc = "drain" => Begun(w, out))'
  BY <1>1 DEF ReplyStage
<1>3. (pc \in Behind => Open(w, out))'
  BY <1>1 DEF ReplyStage, Behind
<1>4. (AtHandler => Fresh(w, out) \/ Open(w, out))'
  BY <1>1 DEF ReplyStage
<1>5. (AtEndOfReply => Closed(w, out))'
  BY <1>1 DEF ReplyStage
<1>6. (pc = "read" =>
          ~w.closeAfterReply /\ (w.contentLength = -1 \/ w.contentLength = w.written))'
  BY DEF ReplyStage
<1>7. QED
  BY <1>2, <1>3, <1>4, <1>5, <1>6 DEF ReplyStage

\* A call of WriteHeader.
LEMMA StageWithHeader ==
    ASSUME Known, NEW v, Fresh(v, out) \/ Open(v, out), NEW code \in StatusCode,
           NEW then \in Callback, NEW n \in Nat, WithHeader(v, code, then, n), UNCHANGED req
    PROVE  ReplyStage' /\ call'.n \in Nat
<1>1. /\ (pc' = "drain" /\ Begun(w, out)') \/ (pc' = then /\ Open(w, out)')
      /\ call' = [then |-> then, n |-> n]
  BY WithHeaderFits
<1>2. call'.n \in Nat
  BY <1>1
<1>3. CASE pc' = "drain" /\ Begun(w, out)'
  BY <1>2, <1>3 DEF ReplyStage, AtHandler, AtEndOfReply, Behind
<1>4. CASE pc' = then /\ Open(w, out)'
  BY <1>2, <1>4 DEF ReplyStage, AtHandler, AtEndOfReply, Behind, Callback
<1>5. QED
  BY <1>1, <1>3, <1>4

\* A step of serve or of the handler behind which the reply is open.
LEMMA StageOpens ==
    ASSUME Open(w', out'), UNCHANGED req, pc' # "drain", ~AtEndOfReply'
    PROVE  ReplyStage'
<1>1. Open(w, out)'
  BY OpenPrimed
<1>2. pc' # "read"
  BY DEF AtEndOfReply
<1>3. QED
  BY <1>1, <1>2 DEF ReplyStage

LEMMA StageServe ==
    ASSUME ServerInv, ReplyFits, ~Raced, req # Nil, ServeStep
    PROVE  ReplyStage'
<1>0. Known /\ ReplyStage /\ call.n \in Nat
  BY DEF ReplyFits
<1>1. CASE Refuse
  <2>1. /\ Fresh(w, out) \/ Open(w, out)
        /\ w.status \in StatusCode /\ "finish" \in Callback /\ 0 \in Nat
    BY <1>0, <1>1 DEF Refuse, ReplyStage, AtHandler, ServerInv, ReplyInv, ReplyTyped, IsResponse, Callback
  <2>2. WithHeader(w, w.status, "finish", 0) /\ UNCHANGED req
    BY <1>1 DEF Refuse
  <2>3. QED
    BY <1>0, <2>1, <2>2, StageWithHeader
<1>2. CASE RejectRequest \/ EndOfRequests
  <2>1. UNCHANGED <<req, w, out>> /\ pc' = "stop"
    BY <1>2 DEF RejectRequest, EndOfRequests, replyVars
  <2>2. QED
    BY <2>1 DEF ReplyStage, AtHandler, AtEndOfReply, Behind
<1>3. CASE DrainStep \/ CloseStep
  <2>1. UNCHANGED <<req, w, out, pc, call>>
    BY <1>3 DEF DrainStep, CloseStep, replyVars
  <2>2. QED
    BY <1>0, <2>1, StageMoves DEF AtHandler, AtEndOfReply
<1>4. CASE DrainDone
  <2>1. /\ pc' \in Callback /\ UNCHANGED req /\ Begun(w, out)
        /\ PutHeader(w) \/ PutHeader(DrainedTooMuch(w))
    BY <1>0, <1>4 DEF DrainDone, ServerInv, ControlInv, CallOK, ReplyStage
  <2>2. Begun(DrainedTooMuch(w), out)
    BY <2>1, BegunTooMuch
  <2>3. Open(w', out')
    BY <1>0, <2>1, <2>2, BegunOpens DEF PutHeader
  <2>4. pc' # "drain" /\ ~AtEndOfReply'
    BY <2>1 DEF AtEndOfReply, Callback
  <2>5. QED
    BY <2>1, <2>3, <2>4, StageOpens
<1>5. CASE CloseDone
  <2>1. /\ pc = "closeBody" /\ pc' = call.then /\ UNCHANGED <<req, w, out, call>>
        /\ call.then \in {"handler", "next"}
    BY <1>5 DEF CloseDone, replyVars, ServerInv, ControlInv, CallOK
  <2>2. QED
    BY <1>0, <2>1, StageMoves DEF AtHandler, AtEndOfReply, Behind
<1>6. CASE DoWrite \/ DoReadFrom \/ DoFlush
  <2>1. pc' = "handler" /\ UNCHANGED req /\ Open(w, out)
    BY <1>0, <1>6 DEF DoWrite, DoReadFrom, DoFlush, ReplyStage, Behind
  <2>2. CASE PutWrite(w, call.n)
    <3>1. w' = Write(w, call.n).w /\ out' = out \o Write(w, call.n).toks
      BY <2>2 DEF PutWrite
    <3>2. Open(w', out')
      BY <1>0, <2>1, <3>1, OpenWrites
    <3>3. QED
      BY <2>1, <3>2, StageOpens DEF AtEndOfReply
  <2>3. CASE w' = Sniff(w) /\ out' = out \o SniffTokens(w)
    <3>1. Open(w', out')
      BY <1>0, <2>1, <2>3, OpenSniffs
    <3>2. QED
      BY <2>1, <3>1, StageOpens DEF AtEndOfReply
  <2>4. CASE /\ bodyAllowed(w) /\ ~w.needSniff
             /\ w' = [w EXCEPT !.written = @ + call.n] /\ out' = out \o Data(w, call.n)
    <3>1. Open(Counted(w, call.n), out \o Data(w, call.n))
      BY <1>0, <2>1, <2>4, OpenData
    <3>2. Open(w', out')
      BY <2>4, <3>1 DEF Counted
    <3>3. QED
      BY <2>1, <3>2, StageOpens DEF AtEndOfReply
  <2>5. QED
    BY <1>6, <2>2, <2>3, <2>4 DEF DoWrite, DoReadFrom, DoFlush
<1>7. CASE FinishBody
  <2>1. /\ Open(w, out) /\ UNCHANGED req /\ w' = Sniff(w)
        /\ out' = (out \o SniffTokens(w)) \o (IF w.chunking THEN ZeroChunk ELSE <<>>)
        /\ pc' \in {"next", "closeBody"} /\ call'.then = "next"
    BY <1>0, <1>7 DEF FinishBody, ReplyStage, Behind, ZeroChunk
  <2>2. Closed(w', out')
    BY <1>0, <2>1, OpenCloses
  <2>3. Closed(w, out)'
    BY <2>1, <2>2, ClosedPrimed
  <2>4. QED
    BY <2>1, <2>3 DEF ReplyStage, AtHandler, AtEndOfReply, Behind
<1>8. CASE NextRequest
  <2>1. /\ UNCHANGED <<req, w, out>> /\ pc' \in {"read", "stop"} /\ Closed(w, out)
        /\ pc' = "read" => ~w.closeAfterReply /\ (w.contentLength = -1 \/ w.contentLength = w.written)
    BY <1>0, <1>8 DEF NextRequest, replyVars, ReplyStage, AtEndOfReply
  <2>2. Closed(w, out)'
    BY <2>1, ClosedPrimed
  <2>3. QED
    BY <2>1, <2>2 DEF ReplyStage, AtHandler, AtEndOfReply, Behind
<1>9. QED
  BY <1>1, <1>2, <1>3, <1>4, <1>5, <1>6, <1>7, <1>8 DEF ServeStep

LEMMA StageHandler ==
    ASSUME ServerInv, ReplyFits, OrderlyHandlers, ~Raced, req # Nil, HandlerStep
    PROVE  ReplyStage' /\ call'.n \in Nat
<1>0. /\ Known /\ ReplyStage /\ call.n \in Nat /\ pc = "handler"
      /\ Fresh(w, out) \/ Open(w, out)
  <2>1. pc = "handler"
    BY DEF HandlerStep, HandlerWriteHeader, HandlerWrite, HandlerReadFrom, HandlerFlush, Handling,
       HandlerAsks, HandlerReads, HandlerReadsTooMuch, HandlerClosesBody, Hijack, HandlerPanics,
       HandlerReturns
  <2>2. QED
    BY <2>1 DEF ReplyFits, ReplyStage, AtHandler
<1>1. /\ Codes \subseteq StatusCode /\ 200 \in StatusCode /\ 0 \in Nat /\ WriteSizes \subseteq Nat
      /\ {"handler", "write", "readFrom", "flush", "finish"} \subseteq Callback
  BY ServerAssumption DEF StatusCode, Callback
<1>2. ASSUME NEW code \in Codes, HandlerWriteHeader(code) PROVE ReplyStage' /\ call'.n \in Nat
  <2>1. WithHeader(w, code, "handler", 0) /\ UNCHANGED req
    BY <1>2 DEF HandlerWriteHeader
  <2>2. QED
    BY <1>0, <1>1, <2>1, StageWithHeader
<1>3. ASSUME NEW n \in WriteSizes, HandlerWrite(n) \/ HandlerReadFrom(n)
      PROVE  ReplyStage' /\ call'.n \in Nat
  <2>1. /\ WithHeader(w, 200, "write", n) \/ WithHeader(w, 200, "readFrom", n)
        /\ UNCHANGED req /\ n \in Nat
    BY <1>1, <1>3 DEF HandlerWrite, HandlerReadFrom
  <2>2. QED
    BY <1>0, <1>1, <2>1, StageWithHeader
<1>4. CASE HandlerFlush
  <2>1. WithHeader(w, 200, "flush", 0) /\ UNCHANGED req
    BY <1>4 DEF HandlerFlush
  <2>2. QED
    BY <1>0, <1>1, <2>1, StageWithHeader
<1>5. CASE pc' = "stop" /\ UNCHANGED <<req, w, out, call>>
  BY <1>0, <1>5 DEF ReplyStage, AtHandler, AtEndOfReply, Behind
<1>6. CASE HandlerReturns
  <2>1. CASE pc' = "stop" /\ UNCHANGED <<req, w, out, call>>
    BY <1>5, <2>1
  <2>2. CASE WithHeader(Finishing(w), 200, "finish", 0) /\ UNCHANGED req
    <3>1. Fresh(Finishing(w), out) \/ Open(Finishing(w), out)
      BY <1>0, FreshStays, OpenStays
    <3>2. QED
      BY <1>0, <1>1, <2>2, <3>1, StageWithHeader
  <2>3. QED
    BY <1>6, <2>1, <2>2 DEF HandlerReturns, FinishRequest, replyVars
<1>7. CASE HandlerPanics
  BY <1>5, <1>7 DEF HandlerPanics, replyVars
<1>8. CASE HandlerReads \/ Hijack
  <2>1. UNCHANGED <<req, w, out, pc, call>>
    BY <1>8 DEF HandlerReads, Hijack, replyVars
  <2>2. QED
    BY <1>0, <2>1, StageMoves DEF AtHandler, AtEndOfReply
<1>9. CASE HandlerClosesBody
  <2>1. UNCHANGED <<req, w, out>> /\ pc' = "closeBody" /\ call' = [then |-> "handler", n |-> 0]
    BY <1>9 DEF HandlerClosesBody, replyVars, NoCall
  <2>2. call'.n \in Nat /\ call'.then = "handler"
    BY <2>1
  <2>3. QED
    BY <1>0, <2>1, <2>2, StageMoves DEF AtHandler, AtEndOfReply, Behind
<1>10. CASE HandlerReadsTooMuch
  <2>1. w' = requestTooLarge(w) /\ UNCHANGED <<req, pc, out, call>>
    BY <1>10 DEF HandlerReadsTooMuch
  <2>2. Fresh(w', out') \/ Open(w', out')
    BY <1>0, <2>1, FreshStays, OpenStays
  <2>3. Fresh(w, out)' \/ Open(w, out)'
    BY <2>1, <2>2, FreshPrimed, OpenPrimed
  <2>4. QED
    BY <1>0, <2>1, <2>3 DEF ReplyStage, AtEndOfReply, Behind
<1>11. CASE HandlerAsks
  <2>1. /\ ~w.wroteContinue /\ ~w.wroteHeader
        /\ w' = [w EXCEPT !.wroteContinue = TRUE]
        /\ out' = Append(out, Token("continue", req.id, 0)) /\ UNCHANGED <<req, pc, call>>
    BY <1>11 DEF HandlerAsks, OrderlyHandlers
  <2>2. Fresh(w, out) /\ out = <<>>
    BY <1>0, <2>1 DEF Open, Fresh, Unsent, Asked
  <2>3. /\ DOMAIN w' = ResponseFields /\ w'.header = w.header /\ w'.wroteContinue
        /\ w'.status = w.status /\ w'.written = w.written /\ w'.sniffed = w.sniffed
        /\ w'.contentLength = w.contentLength /\ w'.wroteHeader = w.wroteHeader
        /\ w'.chunking = w.chunking /\ w'.needSniff = w.needSniff
    BY <2>1, <2>2 DEF Fresh, Unsent, Typed, ResponseFields
  <2>4. out' = Asked(w')
    BY <2>1, <2>2, <2>3 DEF Asked
  <2>5. Typed(w')
    BY <2>2, <2>3 DEF Fresh, Unsent, Typed
  <2>6. Fresh(w', out')
    BY <2>2, <2>3, <2>4, <2>5 DEF Fresh, Unsent
  <2>7. Fresh(w, out)'
    BY <2>1, <2>6, FreshPrimed
  <2>8. QED
    BY <1>0, <2>1, <2>7 DEF ReplyStage, AtEndOfReply, Behind
<1>12. QED
  BY <1>2, <1>3, <1>4, <1>6, <1>7, <1>8, <1>9, <1>10, <1>11 DEF HandlerStep

LEMMA StageTimed ==
    ASSUME ServerInv, ReplyFits, ~Raced, req # Nil, Starts \/ Done \/ TimesOut \/ Served
    PROVE  ReplyStage' /\ call'.n \in Nat
<1>0. /\ Known /\ ReplyStage /\ call.n \in Nat
      /\ pc \in {"timed", "served"} /\ (Fresh(w, out) \/ Open(w, out))
  <2>1. pc \in {"timed", "served"}
    BY DEF Starts, Done, TimesOut, Served
  <2>2. QED
    BY <2>1 DEF ReplyFits, ReplyStage, AtHandler
<1>1. CASE pc' \in {"timed", "served"} /\ UNCHANGED <<req, w, out, call>>
  BY <1>0, <1>1, StageMoves DEF AtHandler, AtEndOfReply, Behind
<1>2. CASE Starts \/ Done
  BY <1>0, <1>1, <1>2 DEF Starts, Done, svars, replyVars
<1>3. CASE TimesOut
  <2>1. pc' = "served" /\ UNCHANGED <<req, call>>
    BY <1>3 DEF TimesOut
  <2>2. CASE UNCHANGED replyVars
    BY <1>1, <2>1, <2>2 DEF replyVars
  <2>3. CASE PutReply(503, 1)
    <3>1. Open(w, out)'
      BY <1>0, <2>1, <2>3, PutReplyFits DEF StatusCode
    <3>2. QED
      BY <1>0, <2>1, <3>1 DEF ReplyStage, AtEndOfReply, Behind
  <2>4. QED
    BY <1>3, <2>2, <2>3 DEF TimesOut
<1>4. CASE Served
  <2>1. WithHeader(Finishing(w), 200, "finish", 0) /\ UNCHANGED req
    BY <1>4 DEF Served, FinishRequest
  <2>2. Fresh(Finishing(w), out) \/ Open(Finishing(w), out)
    BY <1>0, FreshStays, OpenStays
  <2>3. 200 \in StatusCode /\ "finish" \in Callback /\ 0 \in Nat
    BY DEF StatusCode, Callback
  <2>4. QED
    BY <1>0, <2>1, <2>2, <2>3, StageWithHeader
<1>5. QED
  BY <1>2, <1>3, <1>4

LEMMA StageWriter ==
    ASSUME ServerInv, ReplyFits, ~Raced, req # Nil, NEW i \in 1 .. MaxRequests,
           \/ \E code \in Codes : CallsWriteHeader(i, code)
           \/ \E n \in WriteSizes : CallsWrite(i, n)
           \/ Writes(i) \/ WritesLate(i) \/ WritesOnClosed(i) \/ Finishes(i)
    PROVE  ReplyStage' /\ call'.n \in Nat
<1>0. Known /\ ReplyStage /\ call.n \in Nat
  BY DEF ReplyFits
<1>1. CASE UNCHANGED <<req, w, out, pc, call>>
  BY <1>0, <1>1, StageMoves DEF AtHandler, AtEndOfReply
<1>2. tw[i].at \in {"header", "write"} => pc = "timed" /\ req.id = i
  BY DEF ServerInv, ControlInv, WriterOK, Raced
<1>3. CASE Writes(i)
  <2>1. pc = "timed" /\ UNCHANGED <<req, pc, call>>
    BY <1>2, <1>3 DEF Writes
  <2>2. Fresh(w, out) \/ Open(w, out)
    BY <1>0, <2>1 DEF ReplyStage, AtHandler
  <2>3. PICK code \in StatusCode, n \in Nat : PutReply(code, n)
    <3>1. tw[i].n \in Nat /\ (tw[i].at = "header" => tw[i].n \in StatusCode) /\ 200 \in StatusCode
      BY DEF ServerInv, ControlInv, WritersTyped, Writer, ReplyInv, CodesTyped, StatusCode
    <3>2. QED
      BY <1>3, <3>1 DEF Writes
  <2>4. Open(w, out)'
    BY <1>0, <2>1, <2>2, <2>3, PutReplyFits
  <2>5. QED
    BY <1>0, <2>1, <2>4 DEF ReplyStage, AtEndOfReply, Behind
<1>4. ~WritesLate(i)
  BY <1>2 DEF WritesLate
<1>5. QED
  BY <1>1, <1>3, <1>4 DEF CallsWriteHeader, CallsWrite, WritesOnClosed, Finishes, svars

\* A new request has a response that nothing was written on.
LEMMA StageNewRequest ==
    ASSUME ServerInv, ReplyFits, OrderlyHandlers, NewRequest
    PROVE  (Known /\ ReplyStage)' /\ call'.n \in Nat
<1>1. PICK tok : tok = Head(in)
  OBVIOUS
<1>2. /\ tok.kind = "head" /\ in # <<>> /\ pc' \in {"timed", "handler", "refuse"}
      /\ req' = [id |-> tok.id, r |-> tok.r, len |-> RequestTransfer(tok).len] /\ out' = <<>>
  BY <1>1 DEF NewRequest, AcceptRequest, RefuseExpectation, AtRequest, BeginRequest, Parse
<1>3. Known'
  <2>1. tok \in Wire(sent) /\ sent \in Nat
    BY <1>1, <1>2, NumberOfRequests DEF ServerInv, InputTyped, WireTyped
  <2>2. tok.id \in Nat /\ tok.r \in UNION Range(Requests)
    BY <1>2, <2>1, TokenFields DEF HeadOf
  <2>3. QED
    BY <1>2, <2>2, RequestFields DEF Known
<1>4. call'.n \in Nat
  BY DEF NewRequest, AcceptRequest, RefuseExpectation, NoCall, ReplyFits
<1>5. (Fresh(w, out))'
  <2>1. CASE AcceptRequest
    <3>1. PICK h \in ReplyHeaders : w' = [NewResponse EXCEPT !.header = h]
      BY <2>1 DEF AcceptRequest
    <3>2. /\ h \in [conn : STRING, cl : Int, te : STRING, ct : BOOLEAN] /\ h.conn \in Connections
          /\ h.cl > 0 => \A code \in Codes : BodyCode(code)
      BY ServerAssumption DEF OrderlyHandlers
    <3>3. /\ DOMAIN h = HeaderFields /\ h.cl \in Int /\ h.te \in Codings
      BY <3>2 DEF HeaderFields, Codings
    <3>4. /\ DOMAIN w' = ResponseFields /\ w'.header = h /\ ~w'.wroteContinue /\ ~w'.wroteHeader
          /\ w'.status = 0 /\ w'.written = 0 /\ w'.sniffed = 0 /\ w'.contentLength = -1
          /\ ~w'.chunking /\ ~w'.needSniff
      BY <3>1 DEF NewResponse, ResponseFields
    <3>5. Typed(w)'
      BY <3>2, <3>3, <3>4 DEF Typed, StatusCode
    <3>6. (out = Asked(w))'
      BY <1>2, <3>4 DEF Asked
    <3>7. QED
      BY <3>2, <3>4, <3>5, <3>6 DEF Fresh, Unsent
  <2>2. CASE RefuseExpectation
    <3>1. PICK code \in {400, 417} :
            w' = [NewResponse EXCEPT !.header.conn = "close", !.status = code]
      BY <2>2 DEF RefuseExpectation
    <3>2. /\ DOMAIN w' = ResponseFields /\ ~w'.wroteContinue /\ ~w'.wroteHeader
          /\ w'.status = code /\ w'.written = 0 /\ w'.sniffed = 0 /\ w'.contentLength = -1
          /\ ~w'.chunking /\ ~w'.needSniff
      BY <3>1 DEF NewResponse, ResponseFields
    <3>3. DOMAIN w'.header = HeaderFields /\ w'.header.conn = "close" /\ w'.header.te = ""
      BY <3>1 DEF NewResponse, HeaderFields
    <3>3a. w'.header.cl \in Int /\ ~(w'.header.cl > 0)
      <4>1. w'.header.cl = NewResponse.header.cl
        BY <3>1 DEF NewResponse
      <4>2. NewResponse.header.cl = NoLength
        BY DEF NewResponse
      <4>3. NoLength \in Int /\ ~(NoLength > 0)
        BY DEF NoLength
      <4>4. QED
        BY <4>1, <4>2, <4>3
    <3>4. Typed(w)'
      <4>1. w'.status \in StatusCode
        BY <3>2 DEF StatusCode
      <4>2. w'.written \in Nat /\ w'.sniffed \in Nat /\ w'.contentLength \in Int
        BY <3>2
      <4>3. w'.header.conn \in Connections /\ w'.header.te \in Codings
        BY <3>3 DEF Connections, Codings
      <4>4. QED
        BY <3>2, <3>3, <3>3a, <4>1, <4>2, <4>3 DEF Typed
    <3>5. (out = Asked(w))'
      BY <1>2, <3>2 DEF Asked
    <3>6. Unsent(w, out)'
      BY <3>2, <3>4, <3>5 DEF Unsent
    <3>7. QED
      BY <3>2, <3>3a, <3>6 DEF Fresh
  <2>3. QED
    BY <2>1, <2>2 DEF NewRequest
<1>6. QED
  BY <1>2, <1>3, <1>4, <1>5 DEF ReplyStage, AtEndOfReply, Behind

LEMMA ReplyFitsInit ==
    ASSUME TInit
    PROVE  ReplyFits
  BY DEF TInit, Init, ReplyFits, NoCall

LEMMA ReplyFitsNext ==
    ASSUME ServerInv, ReplyFits, OrderlyHandlers, [Next]_vars
    PROVE  ReplyFits'
<1>1. Raced => Raced'
  BY RacedStays DEF ServerInv
<1>2. CASE NewRequest
  BY <1>2, StageNewRequest DEF ReplyFits
<1>3. ASSUME UNCHANGED req, call'.n \in Nat, ~Raced /\ req # Nil => ReplyStage' PROVE ReplyFits'
  BY <1>1, <1>3 DEF ReplyFits, Known
<1>4. CASE TimeoutStep
  <2>1. UNCHANGED req
    BY <1>4 DEF TimeoutStep, Starts, Done, TimesOut, Served, CallsWriteHeader, CallsWrite, Writes,
       WritesLate, WritesOnClosed, Finishes, svars
  <2>2. call'.n \in Nat
    <3>1. CASE Served
      <4>1. call' = [then |-> "finish", n |-> 0]
        BY <3>1 DEF Served, FinishRequest, WithHeader
      <4>2. QED
        BY <4>1
    <3>2. CASE ~Served
      <4>1. UNCHANGED call
        BY <1>4, <3>2 DEF TimeoutStep, Starts, Done, TimesOut, CallsWriteHeader, CallsWrite, Writes,
           WritesLate, WritesOnClosed, Finishes, svars
      <4>2. QED
        BY <4>1 DEF ReplyFits
    <3>3. QED
      BY <3>1, <3>2
  <2>3. ~Raced /\ req # Nil => ReplyStage'
    BY <1>4, StageTimed, StageWriter DEF TimeoutStep
  <2>4. QED
    BY <1>3, <2>1, <2>2, <2>3
<1>5. CASE ServeStep
  <2>1. UNCHANGED req /\ call'.n \in {call.n, 0}
    BY <1>5 DEF ServeStep, RejectRequest, EndOfRequests, DrainStep, DrainDone, CloseStep, CloseDone,
       DoWrite, DoFlush, DoReadFrom, Refuse, WithHeader, FinishBody, NextRequest
  <2>2. QED
    BY <1>3, <1>5, <2>1, StageServe DEF ReplyFits
<1>6. CASE HandlerStep
  <2>1. UNCHANGED req
    BY <1>6 DEF HandlerStep, HandlerWriteHeader, HandlerWrite, HandlerReadFrom, HandlerFlush,
       HandlerAsks, HandlerReads, HandlerReadsTooMuch, HandlerClosesBody, Hijack, HandlerPanics,
       HandlerReturns
  <2>2. call'.n \in Nat
    <3>1. call'.n \in {call.n, 0} \cup WriteSizes
      BY <1>6 DEF HandlerStep, HandlerWriteHeader, HandlerWrite, HandlerReadFrom, HandlerFlush,
         HandlerAsks, HandlerReads, HandlerReadsTooMuch, HandlerClosesBody, Hijack, HandlerPanics,
         HandlerReturns, WithHeader, FinishRequest, NoCall
    <3>2. call.n \in Nat /\ 0 \in Nat /\ WriteSizes \subseteq Nat
      BY ServerAssumption DEF ReplyFits
    <3>3. QED
      BY <3>1, <3>2
  <2>3. QED
    BY <1>3, <1>6, <2>1, <2>2, StageHandler
<1>7. CASE ClientStep \/ UNCHANGED vars
  <2>1. UNCHANGED <<req, w, out, pc, call>>
    BY <1>7 DEF ClientStep, SendHead, SendBody, ClientGone, replyVars, vars, svars
  <2>2. ReplyStage => ReplyStage'
    BY <2>1, StageMoves DEF AtHandler, AtEndOfReply
  <2>3. QED
    BY <1>3, <2>1, <2>2 DEF ReplyFits
<1>8. QED
  BY <1>2, <1>4, <1>5, <1>6, <1>7 DEF Next, ServerStep

\* When serve waits for another request, the reply before it tells the client so: by
\* its own reading of the header (Transfer-Encoding, Content-Length, Connection, the
\* status and the method) the client finds the end of the reply exactly where
\* finishRequest left it, with all that the handler wrote, and no "close".  It holds for
\* any handler that does not ask for the body behind its own reply, that sets no
\* Connection value but "close" and "keep-alive", and that declares no length with a
\* code that has no body; a timeout that strikes within a call is the exception that
\* the property names.
THEOREM RepliesAreDelimited == OrderlyHandlers => (Spec => []ReplyIsDelimited)
<1>1. ASSUME ServerInv, ReplyFits PROVE ReplyIsDelimited
  <2>1. CASE pc = "read" /\ req # Nil /\ ~Raced
    <3>1. /\ Closed(w, out) /\ Known /\ ~w.closeAfterReply
          /\ w.contentLength = -1 \/ w.contentLength = w.written
      BY <1>1, <2>1 DEF ReplyFits, ReplyStage, AtEndOfReply
    <3>2. QED
      BY <3>1, ClosedIsDelimited
  <2>2. CASE ~(pc = "read" /\ req # Nil /\ ~Raced)
    BY <2>2 DEF ReplyIsDelimited
  <2>3. QED
    BY <2>1, <2>2
<1>2. TInit => ServerInv /\ ReplyFits
  BY ServerInit, ReplyFitsInit
<1>3. OrderlyHandlers /\ ServerInv /\ ReplyFits /\ [Next]_vars => ServerInv' /\ ReplyFits'
  BY ServerNext, ReplyFitsNext
<1>4. ASSUME OrderlyHandlers PROVE Spec => []ReplyIsDelimited
  <2>1. ServerInv /\ ReplyFits /\ [Next]_vars => (ServerInv /\ ReplyFits)'
    BY <1>3, <1>4
  <2>2. ServerInv /\ ReplyFits => ReplyIsDelimited
    BY <1>1
  <2>3. QED
    BY <1>2, <2>1, <2>2, PTL DEF Spec
<1>5. QED
  BY <1>4
=============================================================================
