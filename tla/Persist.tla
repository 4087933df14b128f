------------------------------ MODULE Persist -------------------------------
(***************************************************************************)
(* httputil.ClientConn and httputil.ServerConn at the two ends of one      *)
(* connection.  Every request is sent by a goroutine of its own that calls *)
(* Do, and answered by a goroutine of its own that calls ServerConn.Write; *)
(* one goroutine calls ServerConn.Read in a loop until it fails.           *)
(*                                                                         *)
(* A message on the connection is a head and, if it has a body, the body   *)
(* behind it.  textproto.Pipeline is a library: it hands out numbers and   *)
(* lets requests, and responses, proceed in the order of their numbers.    *)
(***************************************************************************)
EXTENDS Integers, Sequences

CONSTANTS
    Requests,
    ReqBody,       \* the requests that have a body
    ReqClose,      \* the requests with Close set
    RespKinds,     \* kinds of responses: records [body, close]
    Nil

ASSUME PersistAssumption ==
    /\ ReqBody \subseteq Requests /\ ReqClose \subseteq Requests
    /\ RespKinds \subseteq [body : BOOLEAN, close : BOOLEAN]
    /\ Nil \notin {"eof", "err", "closed"}

VARIABLES
    cc, sc,          \* the fields of the ClientConn and of the ServerConn
    cpipe, spipe,    \* their textproto.Pipelines
    client,          \* for each request: the goroutine in Do, and the request whose response it got
    reader,          \* the goroutine in ServerConn.Read
    handler,         \* for each request: the goroutine in ServerConn.Write
    link,            \* the connection: messages up and down, and the ends that are open
    sent             \* history: the requests in the order in which they were written

vars == <<cc, sc, cpipe, spipe, client, reader, handler, link, sent>>

NewConn ==
    [c |-> TRUE, re |-> Nil, we |-> Nil, lastbody |-> FALSE, nread |-> 0, nwritten |-> 0,
     pipereq |-> [r \in Requests |-> Nil]]

Pipeline == [next |-> 0, request |-> 0, response |-> 0]

Init ==
    /\ cc = NewConn /\ sc = NewConn
    /\ cpipe = Pipeline /\ spipe = Pipeline
    /\ client = [r \in Requests |-> [at |-> "new", id |-> Nil, resp |-> Nil]]
    /\ reader = [at |-> "idle", id |-> Nil]
    /\ handler = [r \in Requests |-> [at |-> "none", resp |-> Nil]]
    /\ link = [up |-> <<>>, down |-> <<>>, client |-> TRUE, server |-> TRUE]
    /\ sent = <<>>

-----------------------------------------------------------------------------
(***************************************************************************)
(* The pipeline and the connection.                                        *)
(***************************************************************************)
EndRequest(pipe)  == [pipe EXCEPT !.request = @ + 1]
EndResponse(pipe) == [pipe EXCEPT !.response = @ + 1]

Message(r, kind) ==
    <<[of |-> r, part |-> "head", body |-> kind.body, close |-> kind.close]>>
    \o (IF kind.body THEN <<[of |-> r, part |-> "body", body |-> FALSE, close |-> FALSE]>>
                     ELSE <<>>)

\* What ReadRequest makes of a request: readTransfer leaves its Close unset, so that
\* only the client's side knows that it is the last one.
ReqKind(r) == [body |-> r \in ReqBody, close |-> FALSE]

\* A variant that leaves the last body to the user.
NotDrained(stream, lastbody) == stream

\* lastbody.Close() takes what is left of the last body off the stream.
Drained(stream, lastbody) ==
    IF lastbody /\ stream # <<>> /\ Head(stream).part = "body" THEN Tail(stream) ELSE stream

\* What is read is the start of a message.
Parses(stream) == stream # <<>> /\ Head(stream).part = "head"

\* The error that stands in the way of an operation, or Nil.
FirstError(a, b, open) ==
    CASE a # Nil -> a [] a = Nil /\ b # Nil -> b [] a = Nil /\ b = Nil /\ ~open -> "closed"
      [] OTHER -> Nil

-----------------------------------------------------------------------------
(***************************************************************************)
(* ClientConn.Write.                                                       *)
(***************************************************************************)
WriteNext(r) ==
    /\ client[r].at = "new"
    /\ cpipe' = [cpipe EXCEPT !.next = @ + 1]
    /\ client' = [client EXCEPT ![r].at = "turn", ![r].id = cpipe.next]
    /\ UNCHANGED <<cc, sc, spipe, reader, handler, link, sent>>

WriteBegin(r) ==
    LET err == FirstError(cc.re, cc.we, cc.c) IN
    /\ client[r].at = "turn" /\ cpipe.request = client[r].id
    /\ \/ /\ err = Nil
          /\ cc' = [cc EXCEPT !.we = IF r \in ReqClose THEN "eof" ELSE @]
          /\ client' = [client EXCEPT ![r].at = "writing"]
          /\ UNCHANGED cpipe
       \/ /\ err # Nil
          /\ cpipe' = EndRequest(cpipe)
          /\ client' = [client EXCEPT ![r].at = "skip"]
          /\ UNCHANGED cc
    /\ UNCHANGED <<sc, spipe, reader, handler, link, sent>>

\* What is written to a connection whose other end is closed is lost.
WriteEnd(r) ==
    /\ client[r].at = "writing" /\ link.client
    /\ link' = IF link.server THEN [link EXCEPT !.up = @ \o Message(r, ReqKind(r))] ELSE link
    /\ sent' = Append(sent, r)
    /\ cc' = [cc EXCEPT !.nwritten = @ + 1, !.pipereq[r] = client[r].id]
    /\ cpipe' = EndRequest(cpipe)
    /\ client' = [client EXCEPT ![r].at = "written"]
    /\ UNCHANGED <<sc, spipe, reader, handler>>

\* A variant that returns without taking its turn among the responses.
FailsAtOnce(r) ==
    /\ client[r].at = "writing" /\ ~(link.client /\ link.server)
    /\ cc' = [cc EXCEPT !.we = "err"]
    /\ cpipe' = EndRequest(cpipe)
    /\ client' = [client EXCEPT ![r].at = "done"]
    /\ UNCHANGED <<sc, spipe, reader, handler, link, sent>>

WriteFails(r) ==
    /\ client[r].at = "writing" /\ ~(link.client /\ link.server)
    /\ cc' = [cc EXCEPT !.we = "err"]
    /\ cpipe' = EndRequest(cpipe)
    /\ client' = [client EXCEPT ![r].at = "skip"]
    /\ UNCHANGED <<sc, spipe, reader, handler, link, sent>>

\* A request that was not written still takes its turn among the responses.
SkipResponse(r) ==
    /\ client[r].at = "skip" /\ cpipe.response = client[r].id
    /\ cpipe' = EndResponse(cpipe)
    /\ client' = [client EXCEPT ![r].at = "done"]
    /\ UNCHANGED <<cc, sc, spipe, reader, handler, link, sent>>

-----------------------------------------------------------------------------
(***************************************************************************)
(* ClientConn.Read.                                                        *)
(***************************************************************************)
ReadBegin(r) ==
    LET err == FirstError(cc.re, Nil, cc.c) IN
    /\ client[r].at = "written" /\ cpipe.response = cc.pipereq[r]
    /\ cc' = [cc EXCEPT !.pipereq[r] = Nil]
    /\ \/ /\ err = Nil
          /\ client' = [client EXCEPT ![r].at = "reading"]
          /\ UNCHANGED cpipe
       \/ /\ err # Nil
          /\ cpipe' = EndResponse(cpipe)
          /\ client' = [client EXCEPT ![r].at = "done"]
    /\ UNCHANGED <<sc, spipe, reader, handler, link, sent>>

ReadEnd(r) ==
    LET stream == Drained(link.down, cc.lastbody)
        resp   == Head(stream)
    IN
    /\ client[r].at = "reading" /\ link.client /\ Parses(stream)
    /\ link' = [link EXCEPT !.down = Tail(stream)]
    /\ cc' = [cc EXCEPT !.lastbody = resp.body, !.nread = @ + 1,
                        !.re = IF resp.close THEN "eof" ELSE @]
    /\ cpipe' = EndResponse(cpipe)
    /\ client' = [client EXCEPT ![r].at = "done", ![r].resp = resp.of]
    /\ UNCHANGED <<sc, spipe, reader, handler, sent>>

\* The connection has ended, or what is on it is not a response.
ReadFails(r) ==
    LET stream == Drained(link.down, cc.lastbody) IN
    /\ client[r].at = "reading"
    /\ \/ ~link.client
       \/ stream = <<>> /\ ~link.server
       \/ stream # <<>> /\ ~Parses(stream)
    /\ link' = [link EXCEPT !.down = stream]
    /\ cc' = [cc EXCEPT !.lastbody = FALSE, !.re = "err"]
    /\ cpipe' = EndResponse(cpipe)
    /\ client' = [client EXCEPT ![r].at = "done"]
    /\ UNCHANGED <<sc, spipe, reader, handler, sent>>

\* A caller reads the body of its response, while no other is in Read.
ReadBody(r) ==
    /\ client[r].at = "done" /\ client[r].resp # Nil
    /\ \A q \in Requests : client[q].at # "reading"
    /\ link.client /\ link.down # <<>>
    /\ Head(link.down).part = "body" /\ Head(link.down).of = client[r].resp
    /\ link' = [link EXCEPT !.down = Tail(@)]
    /\ UNCHANGED <<cc, sc, cpipe, spipe, client, reader, handler, sent>>

-----------------------------------------------------------------------------
(***************************************************************************)
(* ServerConn.Read.                                                        *)
(***************************************************************************)
ReadRequestBegin ==
    LET err == FirstError(sc.we, sc.re, sc.c) IN
    /\ reader.at = "idle" /\ spipe.request = spipe.next
    /\ \/ /\ err = Nil
          /\ reader' = [at |-> "reading", id |-> spipe.next]
          /\ spipe' = [spipe EXCEPT !.next = @ + 1]
       \/ /\ err # Nil
          /\ reader' = [at |-> "skip", id |-> spipe.next]
          /\ spipe' = EndRequest([spipe EXCEPT !.next = @ + 1])
    /\ UNCHANGED <<cc, sc, cpipe, client, handler, link, sent>>

ReadRequestEnd ==
    LET stream == Drained(link.up, sc.lastbody)
        req    == Head(stream)
    IN
    /\ reader.at = "reading" /\ link.server /\ Parses(stream)
    /\ link' = [link EXCEPT !.up = Tail(stream)]
    /\ sc' = [sc EXCEPT !.lastbody = req.body, !.nread = @ + 1, !.pipereq[req.of] = reader.id,
                        !.re = IF req.close THEN "eof" ELSE @]
    /\ spipe' = EndRequest(spipe)
    /\ handler' = [handler EXCEPT ![req.of].at = "handling"]
    /\ reader' = [at |-> IF req.close THEN "ended" ELSE "idle", id |-> Nil]
    /\ UNCHANGED <<cc, cpipe, client, sent>>

\* The connection has ended, or what is on it is not a request.  Only a head that is cut
\* off would count as ErrPersistEOF; on this connection messages come whole.
ReadRequestFails ==
    LET stream == Drained(link.up, sc.lastbody) IN
    /\ reader.at = "reading"
    /\ \/ ~link.server
       \/ stream = <<>> /\ ~link.client
       \/ stream # <<>> /\ ~Parses(stream)
    /\ link' = [link EXCEPT !.up = stream]
    /\ sc' = [sc EXCEPT !.lastbody = FALSE, !.re = "err"]
    /\ spipe' = EndRequest(spipe)
    /\ reader' = [reader EXCEPT !.at = "skip"]
    /\ UNCHANGED <<cc, cpipe, client, handler, sent>>

\* A Read without a request takes its turn among the responses, behind all of them.
ReaderSkips ==
    /\ reader.at = "skip" /\ spipe.response = reader.id
    /\ spipe' = EndResponse(spipe)
    /\ reader' = [at |-> "ended", id |-> Nil]
    /\ UNCHANGED <<cc, sc, cpipe, client, handler, link, sent>>

\* A handler reads the body of its request, while the reader is not in Read.
ReadRequestBody(r) ==
    /\ handler[r].at = "handling" /\ reader.at # "reading"
    /\ link.server /\ link.up # <<>> /\ Head(link.up).part = "body" /\ Head(link.up).of = r
    /\ link' = [link EXCEPT !.up = Tail(@)]
    /\ UNCHANGED <<cc, sc, cpipe, spipe, client, reader, handler, sent>>

-----------------------------------------------------------------------------
(***************************************************************************)
(* ServerConn.Write.                                                       *)
(***************************************************************************)
\* A variant that does not wait for its turn.
RespondAtOnce(r, kind) ==
    /\ handler[r].at = "handling" /\ FirstError(sc.we, Nil, sc.c) = Nil
    /\ sc' = [sc EXCEPT !.pipereq[r] = Nil, !.re = IF kind.close THEN "eof" ELSE @]
    /\ handler' = [handler EXCEPT ![r].at = "writing", ![r].resp = kind]
    /\ UNCHANGED <<cc, cpipe, spipe, client, reader, link, sent>>

RespondBegin(r, kind) ==
    LET err == FirstError(sc.we, Nil, sc.c) IN
    /\ handler[r].at = "handling" /\ spipe.response = sc.pipereq[r]
    /\ \/ /\ err = Nil /\ sc.nread > sc.nwritten
          /\ sc' = [sc EXCEPT !.pipereq[r] = Nil, !.re = IF kind.close THEN "eof" ELSE @]
          /\ handler' = [handler EXCEPT ![r].at = "writing", ![r].resp = kind]
          /\ UNCHANGED spipe
       \/ /\ err # Nil \/ sc.nread <= sc.nwritten
          /\ sc' = [sc EXCEPT !.pipereq[r] = Nil]
          /\ spipe' = EndResponse(spipe)
          /\ handler' = [handler EXCEPT ![r].at = "failed"]
    /\ UNCHANGED <<cc, cpipe, client, reader, link, sent>>

RespondEnd(r) ==
    /\ handler[r].at = "writing" /\ link.server
    /\ link' = IF link.client THEN [link EXCEPT !.down = @ \o Message(r, handler[r].resp)]
                              ELSE link
    /\ sc' = [sc EXCEPT !.nwritten = @ + 1]
    /\ spipe' = EndResponse(spipe)
    /\ handler' = [handler EXCEPT ![r].at = "answered", ![r].resp = Nil]
    /\ UNCHANGED <<cc, cpipe, client, reader, sent>>

\* A variant that takes back a count it has not made.
RespondUncounts(r) ==
    /\ handler[r].at = "writing" /\ ~(link.server /\ link.client)
    /\ sc' = [sc EXCEPT !.we = "err", !.nwritten = @ - 1]
    /\ spipe' = EndResponse(spipe)
    /\ handler' = [handler EXCEPT ![r].at = "failed", ![r].resp = Nil]
    /\ UNCHANGED <<cc, cpipe, client, reader, link, sent>>

RespondFails(r) ==
    /\ handler[r].at = "writing" /\ ~(link.server /\ link.client)
    /\ sc' = [sc EXCEPT !.we = "err"]
    /\ spipe' = EndResponse(spipe)
    /\ handler' = [handler EXCEPT ![r].at = "failed", ![r].resp = Nil]
    /\ UNCHANGED <<cc, cpipe, client, reader, link, sent>>

-----------------------------------------------------------------------------
(***************************************************************************)
(* Hijack takes the connection away from the ClientConn or ServerConn;     *)
(* Close then closes it.  Either may come while operations are under way.  *)
(***************************************************************************)
HijackClient ==
    /\ cc.c /\ cc' = [cc EXCEPT !.c = FALSE]
    /\ UNCHANGED <<sc, cpipe, spipe, client, reader, handler, link, sent>>

CloseClient ==
    /\ ~cc.c /\ link.client /\ link' = [link EXCEPT !.client = FALSE]
    /\ UNCHANGED <<cc, sc, cpipe, spipe, client, reader, handler, sent>>

HijackServer ==
    /\ sc.c /\ sc' = [sc EXCEPT !.c = FALSE]
    /\ UNCHANGED <<cc, cpipe, spipe, client, reader, handler, link, sent>>

CloseServer ==
    /\ ~sc.c /\ link.server /\ link' = [link EXCEPT !.server = FALSE]
    /\ UNCHANGED <<cc, sc, cpipe, spipe, client, reader, handler, sent>>

-----------------------------------------------------------------------------
Do(r) ==
    \/ WriteNext(r) \/ WriteBegin(r) \/ WriteEnd(r) \/ WriteFails(r) \/ SkipResponse(r)
    \/ ReadBegin(r) \/ ReadEnd(r) \/ ReadFails(r)

Serve == ReadRequestBegin \/ ReadRequestEnd \/ ReadRequestFails \/ ReaderSkips

Respond(r) == RespondEnd(r) \/ RespondFails(r) \/ \E kind \in RespKinds : RespondBegin(r, kind)

Next ==
    \/ \E r \in Requests : Do(r) \/ ReadBody(r) \/ ReadRequestBody(r) \/ Respond(r)
    \/ Serve
    \/ HijackClient \/ CloseClient \/ HijackServer \/ CloseServer

\* The server's user closes once Read has failed and every request is dealt with.
ServerIdle == reader.at = "ended" /\ \A r \in Requests : handler[r].at \notin {"handling", "writing"}

\* Goroutines are scheduled, handlers write their responses, Close gets to its end,
\* and a server that reads no more closes the connection.
Fairness ==
    /\ \A r \in Requests : WF_vars(Do(r)) /\ WF_vars(Respond(r))
    /\ WF_vars(Serve) /\ WF_vars(CloseClient) /\ WF_vars(CloseServer)
    /\ WF_vars(ServerIdle /\ HijackServer)

Spec == Init /\ [][Next]_vars /\ Fairness

-----------------------------------------------------------------------------
(***************************************************************************)
(* Properties.                                                             *)
(***************************************************************************)
Errors == {Nil, "eof", "err", "closed"}
Tokens == [of : Requests, part : {"head", "body"}, body : BOOLEAN, close : BOOLEAN]
Numbers == Nat \cup {Nil}

\* The fields of the two connections, of the pipelines and of the goroutines keep
\* their types.
TypeOK ==
    /\ {cc, sc} \subseteq [c : BOOLEAN, re : Errors, we : Errors, lastbody : BOOLEAN, nread : Nat,
                           nwritten : Nat, pipereq : [Requests -> Numbers]]
    /\ {cpipe, spipe} \subseteq [next : Nat, request : Nat, response : Nat]
    /\ client \in [Requests -> [at : {"new", "turn", "writing", "skip", "written", "reading",
                                      "done"},
                                id : Numbers, resp : Requests \cup {Nil}]]
    /\ reader \in [at : {"idle", "reading", "skip", "ended"}, id : Numbers]
    /\ handler \in [Requests -> [at : {"none", "handling", "writing", "answered", "failed"},
                                 resp : RespKinds \cup {Nil}]]
    /\ link \in [up : Seq(Tokens), down : Seq(Tokens), client : BOOLEAN, server : BOOLEAN]
    /\ sent \in Seq(Requests)

\* Neither side ever takes the middle of a message for its start, although a user
\* may leave the last body unread: lastbody.Close comes before the next message.
StreamsInSync ==
    /\ (\E r \in Requests : client[r].at = "reading") =>
          LET s == Drained(link.down, cc.lastbody) IN s # <<>> => Parses(s)
    /\ reader.at = "reading" =>
          LET s == Drained(link.up, sc.lastbody) IN s # <<>> => Parses(s)

\* Together the two connections implement a pipelined link: one order for requests,
\* receptions, answers and deliveries, and to each caller the answer to its request.
Link == INSTANCE PipelinedLink WITH
    None <- Nil,
    received <- sc.nread,
    answered <- sc.nwritten,
    delivered <- cc.nread,
    got <- [r \in Requests |-> client[r].resp]

ImplementsPipelinedLink == Link!Spec

\* Do returns, whatever fails, and whoever closes, in whatever order the requests
\* behind it and before it do: no request waits for ever for its turn.
DoReturns == \A r \in Requests : client[r].at # "new" ~> client[r].at = "done"
=============================================================================
