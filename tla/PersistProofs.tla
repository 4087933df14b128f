--------------------------- MODULE PersistProofs ----------------------------
(***************************************************************************)
(* Theorems about the two ends of a pipelined connection: their types,     *)
(* that neither takes the middle of a message for its start, and that      *)
(* together they implement PipelinedLink.                                  *)
(***************************************************************************)
EXTENDS Persist, DataLemmas

-----------------------------------------------------------------------------
(***************************************************************************)
(* Types.  A handler that writes has chosen its response.                  *)
(***************************************************************************)
Conn == [c : BOOLEAN, re : Errors, we : Errors, lastbody : BOOLEAN, nread : Nat,
         nwritten : Nat, pipereq : [Requests -> Numbers]]
Pipe == [next : Nat, request : Nat, response : Nat]
CallerAt == {"new", "turn", "writing", "skip", "written", "reading", "done"}
HandlerAt == {"none", "handling", "writing", "answered", "failed"}
ReaderAt == {"idle", "reading", "skip", "ended"}
Caller == [at : CallerAt, id : Numbers, resp : Requests \cup {Nil}]
Handler == [at : HandlerAt, resp : RespKinds \cup {Nil}]
Reader == [at : ReaderAt, id : Numbers]
Wire == [up : Seq(Tokens), down : Seq(Tokens), client : BOOLEAN, server : BOOLEAN]

KindChosen == \A r \in Requests : handler[r].at = "writing" => handler[r].resp \in RespKinds

TypeInv == TypeOK /\ KindChosen

LEMMA Types ==
    ASSUME TypeInv
    PROVE  /\ cc \in Conn /\ sc \in Conn /\ cpipe \in Pipe /\ spipe \in Pipe
           /\ client \in [Requests -> Caller] /\ handler \in [Requests -> Handler]
           /\ reader \in Reader
           /\ link \in Wire
           /\ sent \in Seq(Requests)
           /\ KindChosen
  BY DEF TypeInv, TypeOK, Conn, Pipe, Caller, Handler, Reader, Wire, CallerAt, HandlerAt,
         ReaderAt

LEMMA TypesIntro ==
    ASSUME cc' \in Conn, sc' \in Conn, cpipe' \in Pipe, spipe' \in Pipe,
           client' \in [Requests -> Caller], handler' \in [Requests -> Handler],
           reader' \in Reader,
           link' \in Wire,
           sent' \in Seq(Requests), KindChosen'
    PROVE  TypeInv'
  BY DEF TypeInv, TypeOK, Conn, Pipe, Caller, Handler, Reader, Wire, CallerAt, HandlerAt,
         ReaderAt

LEMMA PipeEnds ==
    ASSUME NEW p \in Pipe
    PROVE  /\ EndRequest(p) \in Pipe /\ EndRequest(p).request = p.request + 1
           /\ EndRequest(p).next = p.next /\ EndRequest(p).response = p.response
           /\ EndResponse(p) \in Pipe /\ EndResponse(p).response = p.response + 1
           /\ EndResponse(p).next = p.next /\ EndResponse(p).request = p.request
  BY DEF EndRequest, EndResponse, Pipe

LEMMA FirstErrorIsNil ==
    ASSUME NEW a, NEW b, NEW open \in BOOLEAN
    PROVE  FirstError(a, b, open) = Nil <=> a = Nil /\ b = Nil /\ open
  BY PersistAssumption DEF FirstError

\* A message is a head, or a head and a body.
LEMMA MessageTokens ==
    ASSUME NEW r \in Requests, NEW kind \in [body : BOOLEAN, close : BOOLEAN]
    PROVE  /\ Message(r, kind) \in Seq(Tokens)
           /\ Len(Message(r, kind)) = IF kind.body THEN 2 ELSE 1
           /\ Message(r, kind)[1] = [of |-> r, part |-> "head", body |-> kind.body,
                                     close |-> kind.close]
           /\ kind.body => Message(r, kind)[2] = [of |-> r, part |-> "body", body |-> FALSE,
                                                  close |-> FALSE]
<1> DEFINE h == [of |-> r, part |-> "head", body |-> kind.body, close |-> kind.close]
           b == [of |-> r, part |-> "body", body |-> FALSE, close |-> FALSE]
<1>1. h \in Tokens /\ b \in Tokens
  BY DEF Tokens
<1>2. CASE kind.body
  <2>1. Message(r, kind) = <<h>> \o <<b>>
    BY <1>2 DEF Message
  <2> HIDE DEF h, b
  <2>2. <<h>> \in Seq(Tokens) /\ <<b>> \in Seq(Tokens) /\ Len(<<h>>) = 1 /\ Len(<<b>>) = 1
    BY <1>1
  <2>3. /\ <<h>> \o <<b>> \in Seq(Tokens) /\ Len(<<h>> \o <<b>>) = 2
        /\ (<<h>> \o <<b>>)[1] = h /\ (<<h>> \o <<b>>)[2] = b
    BY <2>2, ConcatProperties
  <2>4. QED
    BY <1>2, <2>1, <2>3 DEF h, b
<1>3. CASE ~kind.body
  <2>1. Message(r, kind) = <<h>> \o <<>>
    BY <1>3 DEF Message
  <2> HIDE DEF h, b
  <2>2. <<h>> \o <<>> = <<h>>
    OBVIOUS
  <2>3. <<h>> \in Seq(Tokens) /\ Len(<<h>>) = 1 /\ <<h>>[1] = h
    BY <1>1
  <2>4. QED
    BY <1>3, <2>1, <2>2, <2>3 DEF h
<1>4. QED
  BY <1>2, <1>3

LEMMA DrainedType ==
    ASSUME NEW q \in Seq(Tokens), NEW lastbody
    PROVE  /\ Drained(q, lastbody) \in Seq(Tokens)
           /\ Parses(Drained(q, lastbody)) => /\ Head(Drained(q, lastbody)) \in Tokens
                                              /\ Tail(Drained(q, lastbody)) \in Seq(Tokens)
  BY ReceiveType DEF Drained, Parses

LEMMA ReqKindType ==
    \A r \in Requests : ReqKind(r) \in [body : BOOLEAN, close : BOOLEAN]
  BY DEF ReqKind


-----------------------------------------------------------------------------
(***************************************************************************)
(* What each operation of the client changes, field by field.              *)
(***************************************************************************)
OtherCallers(r)  == \A q \in Requests \ {r} : client'[q] = client[q]
OtherHandlers(r) == \A q \in Requests \ {r} : handler'[q] = handler[q]

LEMMA WriteNextEffect ==
    ASSUME TypeInv, NEW r \in Requests, WriteNext(r)
    PROVE  /\ client' \in [Requests -> Caller] /\ OtherCallers(r)
           /\ client'[r].at = "turn" /\ client'[r].id = cpipe.next
           /\ client'[r].resp = client[r].resp
           /\ cpipe' \in Pipe /\ cpipe'.next = cpipe.next + 1
           /\ cpipe'.request = cpipe.request /\ cpipe'.response = cpipe.response
           /\ client[r].at = "new"
           /\ UNCHANGED <<cc, sc, spipe, reader, handler, link, sent>>
<1>1. client \in [Requests -> Caller] /\ cpipe \in Pipe
  BY Types
<1>2. cpipe.next \in Numbers /\ "turn" \in CallerAt
  BY <1>1 DEF Pipe, Numbers, CallerAt
<1>3. /\ client[r].at = "new"
      /\ client' = [client EXCEPT ![r].at = "turn", ![r].id = cpipe.next]
      /\ cpipe' = [cpipe EXCEPT !.next = @ + 1]
      /\ UNCHANGED <<cc, sc, spipe, reader, handler, link, sent>>
  BY DEF WriteNext
<1>4. /\ client' \in [Requests -> Caller] /\ OtherCallers(r)
      /\ client'[r].at = "turn" /\ client'[r].id = cpipe.next
      /\ client'[r].resp = client[r].resp
  BY <1>1, <1>2, <1>3 DEF Caller, OtherCallers
<1>5. /\ cpipe' \in Pipe /\ cpipe'.next = cpipe.next + 1
      /\ cpipe'.request = cpipe.request /\ cpipe'.response = cpipe.response
  BY <1>1, <1>3 DEF Pipe
<1>6. QED
  BY <1>3, <1>4, <1>5

LEMMA WriteBeginEffect ==
    ASSUME TypeInv, NEW r \in Requests, WriteBegin(r)
    PROVE  /\ client[r].at = "turn" /\ client[r].id = cpipe.request
           /\ client' \in [Requests -> Caller] /\ OtherCallers(r)
           /\ client'[r].id = client[r].id /\ client'[r].resp = client[r].resp
           /\ cc' \in Conn /\ cc'.re = cc.re /\ cc'.c = cc.c /\ cc'.lastbody = cc.lastbody
           /\ cc'.nread = cc.nread /\ cc'.pipereq = cc.pipereq
           /\ cc.we # Nil => cc'.we # Nil
           /\ \/ /\ FirstError(cc.re, cc.we, cc.c) = Nil
                 /\ client'[r].at = "writing" /\ cpipe' = cpipe
              \/ /\ FirstError(cc.re, cc.we, cc.c) # Nil
                 /\ client'[r].at = "skip" /\ cpipe' = EndRequest(cpipe) /\ cc' = cc
           /\ UNCHANGED <<sc, spipe, reader, handler, link, sent>>
<1>1. client \in [Requests -> Caller] /\ cc \in Conn
  BY Types
<1>2. "writing" \in CallerAt /\ "skip" \in CallerAt
  BY DEF CallerAt
<1>3. /\ client[r].at = "turn" /\ client[r].id = cpipe.request
      /\ UNCHANGED <<sc, spipe, reader, handler, link, sent>>
      /\ \/ /\ FirstError(cc.re, cc.we, cc.c) = Nil
            /\ cc' = [cc EXCEPT !.we = IF r \in ReqClose THEN "eof" ELSE @]
            /\ client' = [client EXCEPT ![r].at = "writing"]
            /\ cpipe' = cpipe
         \/ /\ FirstError(cc.re, cc.we, cc.c) # Nil
            /\ cpipe' = EndRequest(cpipe)
            /\ client' = [client EXCEPT ![r].at = "skip"]
            /\ cc' = cc
  BY DEF WriteBegin
<1>4. CASE FirstError(cc.re, cc.we, cc.c) = Nil
  <2>1. /\ cc' = [cc EXCEPT !.we = IF r \in ReqClose THEN "eof" ELSE @]
        /\ client' = [client EXCEPT ![r].at = "writing"] /\ cpipe' = cpipe
    BY <1>3, <1>4
  <2>2. /\ client' \in [Requests -> Caller] /\ OtherCallers(r) /\ client'[r].id = client[r].id
        /\ client'[r].resp = client[r].resp /\ client'[r].at = "writing"
    BY <1>1, <1>2, <2>1 DEF Caller, OtherCallers
  <2>3. /\ cc' \in Conn /\ cc'.re = cc.re /\ cc'.c = cc.c /\ cc'.lastbody = cc.lastbody
        /\ cc'.nread = cc.nread /\ cc'.pipereq = cc.pipereq /\ (cc.we # Nil => cc'.we # Nil)
    BY <1>1, <2>1, PersistAssumption DEF Conn, Errors
  <2>4. QED
    BY <1>3, <1>4, <2>1, <2>2, <2>3
<1>5. CASE FirstError(cc.re, cc.we, cc.c) # Nil
  <2>1. cpipe' = EndRequest(cpipe) /\ client' = [client EXCEPT ![r].at = "skip"] /\ cc' = cc
    BY <1>3, <1>5
  <2>2. /\ client' \in [Requests -> Caller] /\ OtherCallers(r) /\ client'[r].id = client[r].id
        /\ client'[r].resp = client[r].resp /\ client'[r].at = "skip"
    BY <1>1, <1>2, <2>1 DEF Caller, OtherCallers
  <2>3. QED
    BY <1>1, <1>3, <1>5, <2>1, <2>2
<1>6. QED
  BY <1>4, <1>5

LEMMA WriteEndEffect ==
    ASSUME TypeInv, NEW r \in Requests, WriteEnd(r)
    PROVE  /\ client[r].at = "writing" /\ link.client
           /\ client' \in [Requests -> Caller] /\ OtherCallers(r)
           /\ client'[r].at = "written" /\ client'[r].id = client[r].id
           /\ client'[r].resp = client[r].resp
           /\ cc' \in Conn /\ cc'.re = cc.re /\ cc'.we = cc.we /\ cc'.c = cc.c
           /\ cc'.lastbody = cc.lastbody /\ cc'.nread = cc.nread
           /\ cc'.pipereq = [cc.pipereq EXCEPT ![r] = client[r].id]
           /\ cpipe' = EndRequest(cpipe) /\ sent' = Append(sent, r)
           /\ link' \in Wire /\ link'.client = link.client /\ link'.server = link.server
           /\ link'.down = link.down
           /\ link.server => link'.up = link.up \o Message(r, ReqKind(r))
           /\ UNCHANGED <<sc, spipe, reader, handler>>
<1>1. client \in [Requests -> Caller] /\ cc \in Conn /\ link \in Wire
  BY Types
<1>2. "written" \in CallerAt /\ client[r].id \in Numbers
  BY <1>1 DEF CallerAt, Caller
<1>3. /\ client[r].at = "writing" /\ link.client
      /\ link' = IF link.server THEN [link EXCEPT !.up = @ \o Message(r, ReqKind(r))] ELSE link
      /\ cc' = [cc EXCEPT !.nwritten = @ + 1, !.pipereq[r] = client[r].id]
      /\ client' = [client EXCEPT ![r].at = "written"]
      /\ cpipe' = EndRequest(cpipe) /\ sent' = Append(sent, r)
      /\ UNCHANGED <<sc, spipe, reader, handler>>
  BY DEF WriteEnd
<1>4. /\ client' \in [Requests -> Caller] /\ OtherCallers(r)
      /\ client'[r].at = "written" /\ client'[r].id = client[r].id
      /\ client'[r].resp = client[r].resp
  BY <1>1, <1>2, <1>3 DEF Caller, OtherCallers
<1>5. /\ cc' \in Conn /\ cc'.re = cc.re /\ cc'.we = cc.we /\ cc'.c = cc.c
      /\ cc'.lastbody = cc.lastbody /\ cc'.nread = cc.nread
      /\ cc'.pipereq = [cc.pipereq EXCEPT ![r] = client[r].id]
  <2>1. cc.pipereq \in [Requests -> Numbers] /\ cc.nwritten + 1 \in Nat
    BY <1>1 DEF Conn
  <2>2. [cc.pipereq EXCEPT ![r] = client[r].id] \in [Requests -> Numbers]
    BY <1>2, <2>1
  <2>3. cc' = [cc EXCEPT !.nwritten = cc.nwritten + 1,
                         !.pipereq = [cc.pipereq EXCEPT ![r] = client[r].id]]
    BY <1>1, <1>3 DEF Conn
  <2>4. QED
    BY <1>1, <2>1, <2>2, <2>3 DEF Conn
<1>6. /\ link' \in Wire /\ link'.client = link.client /\ link'.server = link.server
      /\ link'.down = link.down
      /\ link.server => link'.up = link.up \o Message(r, ReqKind(r))
  <2>1. link.up \in Seq(Tokens)
    BY <1>1 DEF Wire
  <2>2. link.up \o Message(r, ReqKind(r)) \in Seq(Tokens)
    BY <2>1, MessageTokens, ReqKindType, ConcatProperties
  <2>3. QED
    BY <1>1, <1>3, <2>2 DEF Wire
<1>7. QED
  BY <1>3, <1>4, <1>5, <1>6

LEMMA WriteFailsEffect ==
    ASSUME TypeInv, NEW r \in Requests, WriteFails(r)
    PROVE  /\ client[r].at = "writing"
           /\ client' \in [Requests -> Caller] /\ OtherCallers(r)
           /\ client'[r].at = "skip" /\ client'[r].id = client[r].id
           /\ client'[r].resp = client[r].resp
           /\ cc' \in Conn /\ cc'.re = cc.re /\ cc'.we # Nil /\ cc'.c = cc.c
           /\ cc'.lastbody = cc.lastbody /\ cc'.nread = cc.nread /\ cc'.pipereq = cc.pipereq
           /\ cpipe' = EndRequest(cpipe)
           /\ UNCHANGED <<sc, spipe, reader, handler, link, sent>>
<1>1. client \in [Requests -> Caller] /\ cc \in Conn
  BY Types
<1>2. "skip" \in CallerAt
  BY DEF CallerAt
<1>3. /\ client[r].at = "writing"
      /\ cc' = [cc EXCEPT !.we = "err"]
      /\ client' = [client EXCEPT ![r].at = "skip"]
      /\ cpipe' = EndRequest(cpipe)
      /\ UNCHANGED <<sc, spipe, reader, handler, link, sent>>
  BY DEF WriteFails
<1>4. /\ client' \in [Requests -> Caller] /\ OtherCallers(r)
      /\ client'[r].at = "skip" /\ client'[r].id = client[r].id
      /\ client'[r].resp = client[r].resp
  BY <1>1, <1>2, <1>3 DEF Caller, OtherCallers
<1>5. /\ cc' \in Conn /\ cc'.re = cc.re /\ cc'.we # Nil /\ cc'.c = cc.c
      /\ cc'.lastbody = cc.lastbody /\ cc'.nread = cc.nread /\ cc'.pipereq = cc.pipereq
  BY <1>1, <1>3, PersistAssumption DEF Conn, Errors
<1>6. QED
  BY <1>3, <1>4, <1>5

LEMMA SkipResponseEffect ==
    ASSUME TypeInv, NEW r \in Requests, SkipResponse(r)
    PROVE  /\ client[r].at = "skip" /\ client[r].id = cpipe.response
           /\ client' \in [Requests -> Caller] /\ OtherCallers(r)
           /\ client'[r].at = "done" /\ client'[r].id = client[r].id
           /\ client'[r].resp = client[r].resp
           /\ cpipe' = EndResponse(cpipe)
           /\ UNCHANGED <<cc, sc, spipe, reader, handler, link, sent>>
<1>1. client \in [Requests -> Caller] /\ "done" \in CallerAt
  BY Types DEF CallerAt
<1>2. /\ client[r].at = "skip" /\ client[r].id = cpipe.response
      /\ client' = [client EXCEPT ![r].at = "done"]
      /\ cpipe' = EndResponse(cpipe)
      /\ UNCHANGED <<cc, sc, spipe, reader, handler, link, sent>>
  BY DEF SkipResponse
<1>3. QED
  BY <1>1, <1>2 DEF Caller, OtherCallers

LEMMA ReadBeginEffect ==
    ASSUME TypeInv, NEW r \in Requests, ReadBegin(r)
    PROVE  /\ client[r].at = "written" /\ cc.pipereq[r] = cpipe.response
           /\ client' \in [Requests -> Caller] /\ OtherCallers(r)
           /\ client'[r].id = client[r].id /\ client'[r].resp = client[r].resp
           /\ cc' \in Conn /\ cc'.re = cc.re /\ cc'.we = cc.we /\ cc'.c = cc.c
           /\ cc'.lastbody = cc.lastbody /\ cc'.nread = cc.nread
           /\ cc'.pipereq = [cc.pipereq EXCEPT ![r] = Nil]
           /\ \/ /\ FirstError(cc.re, Nil, cc.c) = Nil
                 /\ client'[r].at = "reading" /\ cpipe' = cpipe
              \/ /\ FirstError(cc.re, Nil, cc.c) # Nil
                 /\ client'[r].at = "done" /\ cpipe' = EndResponse(cpipe)
           /\ UNCHANGED <<sc, spipe, reader, handler, link, sent>>
<1>1. client \in [Requests -> Caller] /\ cc \in Conn
  BY Types
<1>2. "reading" \in CallerAt /\ "done" \in CallerAt
  BY DEF CallerAt
<1>3. /\ client[r].at = "written" /\ cc.pipereq[r] = cpipe.response
      /\ cc' = [cc EXCEPT !.pipereq[r] = Nil]
      /\ UNCHANGED <<sc, spipe, reader, handler, link, sent>>
      /\ \/ /\ FirstError(cc.re, Nil, cc.c) = Nil
            /\ client' = [client EXCEPT ![r].at = "reading"]
            /\ cpipe' = cpipe
         \/ /\ FirstError(cc.re, Nil, cc.c) # Nil
            /\ cpipe' = EndResponse(cpipe)
            /\ client' = [client EXCEPT ![r].at = "done"]
  BY DEF ReadBegin
<1>4. /\ cc' \in Conn /\ cc'.re = cc.re /\ cc'.we = cc.we /\ cc'.c = cc.c
      /\ cc'.lastbody = cc.lastbody /\ cc'.nread = cc.nread
      /\ cc'.pipereq = [cc.pipereq EXCEPT ![r] = Nil]
  BY <1>1, <1>3 DEF Conn, Numbers
<1>5. CASE FirstError(cc.re, Nil, cc.c) = Nil
  <2>1. client' = [client EXCEPT ![r].at = "reading"] /\ cpipe' = cpipe
    BY <1>3, <1>5
  <2>2. /\ client' \in [Requests -> Caller] /\ OtherCallers(r) /\ client'[r].id = client[r].id
        /\ client'[r].resp = client[r].resp /\ client'[r].at = "reading"
    BY <1>1, <1>2, <2>1 DEF Caller, OtherCallers
  <2>3. QED
    BY <1>3, <1>4, <1>5, <2>1, <2>2
<1>6. CASE FirstError(cc.re, Nil, cc.c) # Nil
  <2>1. client' = [client EXCEPT ![r].at = "done"] /\ cpipe' = EndResponse(cpipe)
    BY <1>3, <1>6
  <2>2. /\ client' \in [Requests -> Caller] /\ OtherCallers(r) /\ client'[r].id = client[r].id
        /\ client'[r].resp = client[r].resp /\ client'[r].at = "done"
    BY <1>1, <1>2, <2>1 DEF Caller, OtherCallers
  <2>3. QED
    BY <1>3, <1>4, <1>6, <2>1, <2>2
<1>7. QED
  BY <1>5, <1>6

LEMMA ReadEndEffect ==
    ASSUME TypeInv, NEW r \in Requests, ReadEnd(r)
    PROVE  LET t == Drained(link.down, cc.lastbody) IN
           /\ client[r].at = "reading" /\ link.client /\ Parses(t)
           /\ Head(t) \in Tokens /\ Tail(t) \in Seq(Tokens)
           /\ client' \in [Requests -> Caller] /\ OtherCallers(r)
           /\ client'[r].at = "done" /\ client'[r].id = client[r].id
           /\ client'[r].resp = Head(t).of
           /\ cc' \in Conn /\ (cc.re # Nil => cc'.re # Nil) /\ cc'.we = cc.we /\ cc'.c = cc.c
           /\ cc'.lastbody = Head(t).body /\ cc'.nread = cc.nread + 1 /\ cc'.pipereq = cc.pipereq
           /\ cpipe' = EndResponse(cpipe)
           /\ link' \in Wire /\ link'.client = link.client /\ link'.server = link.server
           /\ link'.up = link.up /\ link'.down = Tail(t)
           /\ UNCHANGED <<sc, spipe, reader, handler, sent>>
<1> DEFINE t == Drained(link.down, cc.lastbody)
<1>1. client \in [Requests -> Caller] /\ cc \in Conn /\ link \in Wire
  BY Types
<1>2. /\ client[r].at = "reading" /\ link.client /\ Parses(t)
      /\ link' = [link EXCEPT !.down = Tail(t)]
      /\ cc' = [cc EXCEPT !.lastbody = Head(t).body, !.nread = @ + 1,
                          !.re = IF Head(t).close THEN "eof" ELSE @]
      /\ client' = [client EXCEPT ![r].at = "done", ![r].resp = Head(t).of]
      /\ cpipe' = EndResponse(cpipe)
      /\ UNCHANGED <<sc, spipe, reader, handler, sent>>
  BY DEF ReadEnd
<1>3. Head(t) \in Tokens /\ Tail(t) \in Seq(Tokens)
  <2>1. link.down \in Seq(Tokens)
    BY <1>1 DEF Wire
  <2>2. QED
    BY <1>2, <2>1, DrainedType
<1> HIDE DEF t
<1>4. Head(t).of \in Requests \cup {Nil} /\ Head(t).body \in BOOLEAN /\ "done" \in CallerAt
  BY <1>3 DEF Tokens, CallerAt
<1>5. /\ client' \in [Requests -> Caller] /\ OtherCallers(r)
      /\ client'[r].at = "done" /\ client'[r].id = client[r].id
      /\ client'[r].resp = Head(t).of
  BY <1>1, <1>2, <1>4 DEF Caller, OtherCallers
<1>6. /\ cc' \in Conn /\ (cc.re # Nil => cc'.re # Nil) /\ cc'.we = cc.we /\ cc'.c = cc.c
      /\ cc'.lastbody = Head(t).body /\ cc'.nread = cc.nread + 1 /\ cc'.pipereq = cc.pipereq
  <2> DEFINE e == IF Head(t).close THEN "eof" ELSE cc.re
  <2>1. cc.nread + 1 \in Nat /\ e \in Errors /\ (cc.re # Nil => e # Nil)
    BY <1>1, PersistAssumption DEF Conn, Errors
  <2>2. cc' = [cc EXCEPT !.lastbody = Head(t).body, !.nread = cc.nread + 1, !.re = e]
    BY <1>1, <1>2 DEF Conn
  <2> HIDE DEF e
  <2>3. QED
    BY <1>1, <1>4, <2>1, <2>2 DEF Conn
<1>7. /\ link' \in Wire /\ link'.client = link.client /\ link'.server = link.server
      /\ link'.up = link.up /\ link'.down = Tail(t)
  BY <1>1, <1>2, <1>3 DEF Wire
<1>8. QED
  BY <1>2, <1>3, <1>5, <1>6, <1>7 DEF t

LEMMA ReadFailsEffect ==
    ASSUME TypeInv, NEW r \in Requests, ReadFails(r)
    PROVE  /\ client[r].at = "reading"
           /\ client' \in [Requests -> Caller] /\ OtherCallers(r)
           /\ client'[r].at = "done" /\ client'[r].id = client[r].id
           /\ client'[r].resp = client[r].resp
           /\ cc' \in Conn /\ cc'.re # Nil /\ cc'.we = cc.we /\ cc'.c = cc.c
           /\ cc'.lastbody = FALSE /\ cc'.nread = cc.nread /\ cc'.pipereq = cc.pipereq
           /\ cpipe' = EndResponse(cpipe)
           /\ link' \in Wire /\ link'.client = link.client /\ link'.server = link.server
           /\ link'.up = link.up /\ link'.down = Drained(link.down, cc.lastbody)
           /\ UNCHANGED <<sc, spipe, reader, handler, sent>>
<1>1. client \in [Requests -> Caller] /\ cc \in Conn /\ link \in Wire
  BY Types
<1>2. /\ client[r].at = "reading"
      /\ link' = [link EXCEPT !.down = Drained(link.down, cc.lastbody)]
      /\ cc' = [cc EXCEPT !.lastbody = FALSE, !.re = "err"]
      /\ client' = [client EXCEPT ![r].at = "done"]
      /\ cpipe' = EndResponse(cpipe)
      /\ UNCHANGED <<sc, spipe, reader, handler, sent>>
  BY DEF ReadFails
<1>3. Drained(link.down, cc.lastbody) \in Seq(Tokens) /\ "done" \in CallerAt
  BY <1>1, DrainedType DEF Wire, CallerAt
<1>4. /\ client' \in [Requests -> Caller] /\ OtherCallers(r)
      /\ client'[r].at = "done" /\ client'[r].id = client[r].id
      /\ client'[r].resp = client[r].resp
  BY <1>1, <1>2, <1>3 DEF Caller, OtherCallers
<1>5. /\ cc' \in Conn /\ cc'.re # Nil /\ cc'.we = cc.we /\ cc'.c = cc.c
      /\ cc'.lastbody = FALSE /\ cc'.nread = cc.nread /\ cc'.pipereq = cc.pipereq
  BY <1>1, <1>2, PersistAssumption DEF Conn, Errors
<1>6. /\ link' \in Wire /\ link'.client = link.client /\ link'.server = link.server
      /\ link'.up = link.up /\ link'.down = Drained(link.down, cc.lastbody)
  BY <1>1, <1>2, <1>3 DEF Wire
<1>7. QED
  BY <1>2, <1>4, <1>5, <1>6

LEMMA ReadBodyEffect ==
    ASSUME TypeInv, NEW r \in Requests, ReadBody(r)
    PROVE  /\ link.down # <<>> /\ Head(link.down).part = "body"
           /\ link' \in Wire /\ link'.client = link.client /\ link'.server = link.server
           /\ link'.up = link.up /\ link'.down = Tail(link.down)
           /\ UNCHANGED <<cc, sc, cpipe, spipe, client, reader, handler, sent>>
<1>1. link \in Wire
  BY Types
<1>2. link.down # <<>> => Tail(link.down) \in Seq(Tokens)
  BY <1>1, ReceiveType DEF Wire
<1>3. QED
  BY <1>1, <1>2 DEF ReadBody, Wire

-----------------------------------------------------------------------------
(***************************************************************************)
(* What each operation of the server changes, and Hijack and Close.        *)
(***************************************************************************)
LEMMA ReadRequestBeginEffect ==
    ASSUME TypeInv, ReadRequestBegin
    PROVE  /\ reader.at = "idle" /\ spipe.request = spipe.next
           /\ reader' \in Reader /\ reader'.id = spipe.next /\ spipe' \in Pipe
           /\ spipe'.next = spipe.next + 1 /\ spipe'.response = spipe.response
           /\ \/ reader'.at = "reading" /\ spipe'.request = spipe.request
              \/ reader'.at = "skip"
           /\ UNCHANGED <<cc, sc, cpipe, client, handler, link, sent>>
<1>1. spipe \in Pipe
  BY Types
<1>2. [spipe EXCEPT !.next = @ + 1] \in Pipe
  BY <1>1 DEF Pipe
<1>3. /\ reader.at = "idle" /\ spipe.request = spipe.next
      /\ UNCHANGED <<cc, sc, cpipe, client, handler, link, sent>>
      /\ \/ /\ reader' = [at |-> "reading", id |-> spipe.next]
            /\ spipe' = [spipe EXCEPT !.next = @ + 1]
         \/ /\ reader' = [at |-> "skip", id |-> spipe.next]
            /\ spipe' = EndRequest([spipe EXCEPT !.next = @ + 1])
  BY DEF ReadRequestBegin
<1>4. /\ spipe' \in Pipe /\ spipe'.next = spipe.next + 1 /\ spipe'.response = spipe.response
      /\ spipe' = [spipe EXCEPT !.next = @ + 1] => spipe'.request = spipe.request
  BY <1>1, <1>2, <1>3, PipeEnds DEF Pipe
<1>5. spipe.next \in Numbers
  BY <1>1 DEF Pipe, Numbers
<1>6. reader' \in Reader /\ reader'.id = spipe.next
  BY <1>3, <1>5 DEF Reader, ReaderAt
<1>7. QED
  BY <1>3, <1>4, <1>6

LEMMA ReadRequestEndEffect ==
    ASSUME TypeInv, ReadRequestEnd
    PROVE  LET t == Drained(link.up, sc.lastbody) IN
           /\ reader.at = "reading" /\ link.server /\ Parses(t)
           /\ Head(t) \in Tokens /\ Tail(t) \in Seq(Tokens)
           /\ handler' \in [Requests -> Handler] /\ OtherHandlers(Head(t).of)
           /\ handler'[Head(t).of].at = "handling"
           /\ sc' \in Conn /\ sc'.we = sc.we /\ sc'.c = sc.c /\ sc'.lastbody = Head(t).body
           /\ sc'.nread = sc.nread + 1 /\ sc'.nwritten = sc.nwritten
           /\ sc'.pipereq = [sc.pipereq EXCEPT ![Head(t).of] = reader.id]
           /\ spipe' = EndRequest(spipe)
           /\ reader' \in Reader /\ reader'.at \in {"idle", "ended"}
           /\ link' \in Wire /\ link'.client = link.client /\ link'.server = link.server
           /\ link'.down = link.down /\ link'.up = Tail(t)
           /\ UNCHANGED <<cc, cpipe, client, sent>>
<1> DEFINE t == Drained(link.up, sc.lastbody)
           q == Head(t).of
           e == IF Head(t).close THEN "eof" ELSE sc.re
<1>1. handler \in [Requests -> Handler] /\ sc \in Conn /\ link \in Wire /\ reader \in Reader
  BY Types
<1>2. /\ reader.at = "reading" /\ link.server /\ Parses(t)
      /\ link' = [link EXCEPT !.up = Tail(t)]
      /\ sc' = [sc EXCEPT !.lastbody = Head(t).body, !.nread = @ + 1, !.pipereq[q] = reader.id,
                          !.re = IF Head(t).close THEN "eof" ELSE @]
      /\ spipe' = EndRequest(spipe)
      /\ handler' = [handler EXCEPT ![q].at = "handling"]
      /\ reader' = [at |-> IF Head(t).close THEN "ended" ELSE "idle", id |-> Nil]
      /\ UNCHANGED <<cc, cpipe, client, sent>>
  BY DEF ReadRequestEnd
<1>3. Head(t) \in Tokens /\ Tail(t) \in Seq(Tokens)
  <2>1. link.up \in Seq(Tokens)
    BY <1>1 DEF Wire
  <2>2. QED
    BY <1>2, <2>1, DrainedType
<1> HIDE DEF t
<1>4. q \in Requests /\ Head(t).body \in BOOLEAN /\ reader.id \in Numbers /\ "handling" \in HandlerAt
  BY <1>1, <1>3 DEF Tokens, Reader, HandlerAt
<1> HIDE DEF q
<1>5. /\ handler' \in [Requests -> Handler] /\ OtherHandlers(q)
      /\ handler'[q].at = "handling"
  BY <1>1, <1>2, <1>4 DEF Handler, OtherHandlers
<1>6. /\ sc' \in Conn /\ sc'.we = sc.we /\ sc'.c = sc.c /\ sc'.lastbody = Head(t).body
      /\ sc'.nread = sc.nread + 1 /\ sc'.nwritten = sc.nwritten
      /\ sc'.pipereq = [sc.pipereq EXCEPT ![q] = reader.id]
  <2>1. sc.nread + 1 \in Nat /\ e \in Errors /\ sc.pipereq \in [Requests -> Numbers]
    BY <1>1 DEF Conn, Errors
  <2>2. [sc.pipereq EXCEPT ![q] = reader.id] \in [Requests -> Numbers]
    BY <1>4, <2>1
  <2>3. sc' = [sc EXCEPT !.lastbody = Head(t).body, !.nread = sc.nread + 1,
                         !.pipereq = [sc.pipereq EXCEPT ![q] = reader.id], !.re = e]
    BY <1>1, <1>2 DEF Conn
  <2> HIDE DEF e
  <2>4. QED
    BY <1>1, <1>4, <2>1, <2>2, <2>3 DEF Conn
<1>7. /\ link' \in Wire /\ link'.client = link.client /\ link'.server = link.server
      /\ link'.down = link.down /\ link'.up = Tail(t)
  BY <1>1, <1>2, <1>3 DEF Wire
<1>8. reader' \in Reader /\ reader'.at \in {"idle", "ended"}
  BY <1>2 DEF Reader, ReaderAt, Numbers
<1>9. QED
  BY <1>2, <1>3, <1>5, <1>6, <1>7, <1>8 DEF t, q

LEMMA ReadRequestFailsEffect ==
    ASSUME TypeInv, ReadRequestFails
    PROVE  /\ reader.at = "reading"
           /\ sc' \in Conn /\ sc'.we = sc.we /\ sc'.c = sc.c /\ sc'.lastbody = FALSE
           /\ sc'.nread = sc.nread /\ sc'.nwritten = sc.nwritten /\ sc'.pipereq = sc.pipereq
           /\ spipe' = EndRequest(spipe)
           /\ reader' \in Reader /\ reader'.at = "skip" /\ reader'.id = reader.id
           /\ link' \in Wire /\ link'.client = link.client /\ link'.server = link.server
           /\ link'.down = link.down /\ link'.up = Drained(link.up, sc.lastbody)
           /\ UNCHANGED <<cc, cpipe, client, handler, sent>>
<1>1. sc \in Conn /\ link \in Wire /\ reader \in Reader
  BY Types
<1>2. /\ reader.at = "reading"
      /\ link' = [link EXCEPT !.up = Drained(link.up, sc.lastbody)]
      /\ sc' = [sc EXCEPT !.lastbody = FALSE, !.re = "err"]
      /\ spipe' = EndRequest(spipe)
      /\ reader' = [reader EXCEPT !.at = "skip"]
      /\ UNCHANGED <<cc, cpipe, client, handler, sent>>
  BY DEF ReadRequestFails
<1>3. Drained(link.up, sc.lastbody) \in Seq(Tokens)
  BY <1>1, DrainedType DEF Wire
<1>4. /\ sc' \in Conn /\ sc'.we = sc.we /\ sc'.c = sc.c /\ sc'.lastbody = FALSE
      /\ sc'.nread = sc.nread /\ sc'.nwritten = sc.nwritten /\ sc'.pipereq = sc.pipereq
  BY <1>1, <1>2 DEF Conn, Errors
<1>5. /\ link' \in Wire /\ link'.client = link.client /\ link'.server = link.server
      /\ link'.down = link.down /\ link'.up = Drained(link.up, sc.lastbody)
  BY <1>1, <1>2, <1>3 DEF Wire
<1>6. reader' \in Reader /\ reader'.at = "skip" /\ reader'.id = reader.id
  BY <1>1, <1>2 DEF Reader, ReaderAt
<1>7. QED
  BY <1>2, <1>4, <1>5, <1>6

LEMMA ReaderSkipsEffect ==
    ASSUME TypeInv, ReaderSkips
    PROVE  /\ reader.at = "skip" /\ spipe.response = reader.id
           /\ reader' \in Reader /\ reader'.at = "ended"
           /\ spipe' = EndResponse(spipe)
           /\ UNCHANGED <<cc, sc, cpipe, client, handler, link, sent>>
  BY DEF ReaderSkips, Reader, ReaderAt, Numbers

LEMMA ReadRequestBodyEffect ==
    ASSUME TypeInv, NEW r \in Requests, ReadRequestBody(r)
    PROVE  /\ link.up # <<>> /\ Head(link.up).part = "body"
           /\ link' \in Wire /\ link'.client = link.client /\ link'.server = link.server
           /\ link'.down = link.down /\ link'.up = Tail(link.up)
           /\ UNCHANGED <<cc, sc, cpipe, spipe, client, reader, handler, sent>>
<1>1. link \in Wire
  BY Types
<1>2. link.up # <<>> => Tail(link.up) \in Seq(Tokens)
  BY <1>1, ReceiveType DEF Wire
<1>3. QED
  BY <1>1, <1>2 DEF ReadRequestBody, Wire

LEMMA RespondBeginEffect ==
    ASSUME TypeInv, NEW r \in Requests, NEW kind \in RespKinds, RespondBegin(r, kind)
    PROVE  /\ handler[r].at = "handling" /\ spipe.response = sc.pipereq[r]
           /\ handler' \in [Requests -> Handler] /\ OtherHandlers(r)
           /\ sc' \in Conn /\ sc'.we = sc.we /\ sc'.c = sc.c /\ sc'.lastbody = sc.lastbody
           /\ sc'.nread = sc.nread /\ sc'.nwritten = sc.nwritten
           /\ sc'.pipereq = [sc.pipereq EXCEPT ![r] = Nil]
           /\ \/ /\ FirstError(sc.we, Nil, sc.c) = Nil /\ sc.nread > sc.nwritten
                 /\ handler'[r].at = "writing" /\ handler'[r].resp = kind /\ spipe' = spipe
              \/ /\ FirstError(sc.we, Nil, sc.c) # Nil \/ sc.nread <= sc.nwritten
                 /\ handler'[r].at = "failed" /\ spipe' = EndResponse(spipe)
           /\ UNCHANGED <<cc, cpipe, client, reader, link, sent>>
<1> DEFINE ok == FirstError(sc.we, Nil, sc.c) = Nil /\ sc.nread > sc.nwritten
           e == IF kind.close THEN "eof" ELSE sc.re
<1>1. handler \in [Requests -> Handler] /\ sc \in Conn
  BY Types
<1>2. /\ handler[r].at = "handling" /\ spipe.response = sc.pipereq[r]
      /\ UNCHANGED <<cc, cpipe, client, reader, link, sent>>
      /\ \/ /\ FirstError(sc.we, Nil, sc.c) = Nil /\ sc.nread > sc.nwritten
            /\ sc' = [sc EXCEPT !.pipereq[r] = Nil, !.re = IF kind.close THEN "eof" ELSE @]
            /\ handler' = [handler EXCEPT ![r].at = "writing", ![r].resp = kind]
            /\ spipe' = spipe
         \/ /\ FirstError(sc.we, Nil, sc.c) # Nil \/ sc.nread <= sc.nwritten
            /\ sc' = [sc EXCEPT !.pipereq[r] = Nil]
            /\ spipe' = EndResponse(spipe)
            /\ handler' = [handler EXCEPT ![r].at = "failed"]
  BY DEF RespondBegin
<1>3. /\ sc.pipereq \in [Requests -> Numbers] /\ e \in Errors
      /\ "writing" \in HandlerAt /\ "failed" \in HandlerAt
  BY <1>1 DEF Conn, Errors, HandlerAt
<1>4. [sc.pipereq EXCEPT ![r] = Nil] \in [Requests -> Numbers]
  BY <1>3 DEF Numbers
<1>5. ASSUME /\ FirstError(sc.we, Nil, sc.c) = Nil /\ sc.nread > sc.nwritten
             /\ sc' = [sc EXCEPT !.pipereq[r] = Nil, !.re = IF kind.close THEN "eof" ELSE @]
             /\ handler' = [handler EXCEPT ![r].at = "writing", ![r].resp = kind]
             /\ spipe' = spipe
      PROVE  /\ handler' \in [Requests -> Handler] /\ OtherHandlers(r)
             /\ handler'[r].at = "writing" /\ handler'[r].resp = kind
             /\ sc' \in Conn /\ sc'.we = sc.we /\ sc'.c = sc.c /\ sc'.lastbody = sc.lastbody
             /\ sc'.nread = sc.nread /\ sc'.nwritten = sc.nwritten
             /\ sc'.pipereq = [sc.pipereq EXCEPT ![r] = Nil]
  <2>1. sc' = [sc EXCEPT !.pipereq = [sc.pipereq EXCEPT ![r] = Nil], !.re = e]
    BY <1>1, <1>5 DEF Conn
  <2> HIDE DEF e
  <2>2. /\ sc' \in Conn /\ sc'.we = sc.we /\ sc'.c = sc.c /\ sc'.lastbody = sc.lastbody
        /\ sc'.nread = sc.nread /\ sc'.nwritten = sc.nwritten
        /\ sc'.pipereq = [sc.pipereq EXCEPT ![r] = Nil]
    BY <1>1, <1>3, <1>4, <2>1 DEF Conn
  <2>3. /\ handler' \in [Requests -> Handler] /\ OtherHandlers(r)
        /\ handler'[r].at = "writing" /\ handler'[r].resp = kind
    BY <1>1, <1>3, <1>5 DEF Handler, OtherHandlers
  <2>4. QED
    BY <2>2, <2>3
<1>6. ASSUME /\ sc' = [sc EXCEPT !.pipereq[r] = Nil]
             /\ handler' = [handler EXCEPT ![r].at = "failed"]
      PROVE  /\ handler' \in [Requests -> Handler] /\ OtherHandlers(r)
             /\ handler'[r].at = "failed"
             /\ sc' \in Conn /\ sc'.we = sc.we /\ sc'.c = sc.c /\ sc'.lastbody = sc.lastbody
             /\ sc'.nread = sc.nread /\ sc'.nwritten = sc.nwritten
             /\ sc'.pipereq = [sc.pipereq EXCEPT ![r] = Nil]
  <2>1. /\ sc' \in Conn /\ sc'.we = sc.we /\ sc'.c = sc.c /\ sc'.lastbody = sc.lastbody
        /\ sc'.nread = sc.nread /\ sc'.nwritten = sc.nwritten
        /\ sc'.pipereq = [sc.pipereq EXCEPT ![r] = Nil]
    BY <1>1, <1>4, <1>6 DEF Conn
  <2>2. /\ handler' \in [Requests -> Handler] /\ OtherHandlers(r)
        /\ handler'[r].at = "failed"
    BY <1>1, <1>3, <1>6 DEF Handler, OtherHandlers
  <2>3. QED
    BY <2>1, <2>2
<1>7. QED
  BY <1>2, <1>5, <1>6

LEMMA RespondEndEffect ==
    ASSUME TypeInv, NEW r \in Requests, RespondEnd(r)
    PROVE  /\ handler[r].at = "writing" /\ link.server
           /\ handler[r].resp \in [body : BOOLEAN, close : BOOLEAN]
           /\ handler' \in [Requests -> Handler] /\ OtherHandlers(r)
           /\ handler'[r].at = "answered"
           /\ sc' \in Conn /\ sc'.we = sc.we /\ sc'.c = sc.c /\ sc'.lastbody = sc.lastbody
           /\ sc'.nread = sc.nread /\ sc'.nwritten = sc.nwritten + 1 /\ sc'.pipereq = sc.pipereq
           /\ spipe' = EndResponse(spipe)
           /\ link' \in Wire /\ link'.client = link.client /\ link'.server = link.server
           /\ link'.up = link.up
           /\ link.client => link'.down = link.down \o Message(r, handler[r].resp)
           /\ UNCHANGED <<cc, cpipe, client, reader, sent>>
<1>1. handler \in [Requests -> Handler] /\ sc \in Conn /\ link \in Wire /\ KindChosen
  BY Types
<1>2. /\ handler[r].at = "writing" /\ link.server
      /\ link' = IF link.client THEN [link EXCEPT !.down = @ \o Message(r, handler[r].resp)]
                                ELSE link
      /\ sc' = [sc EXCEPT !.nwritten = @ + 1]
      /\ spipe' = EndResponse(spipe)
      /\ handler' = [handler EXCEPT ![r].at = "answered", ![r].resp = Nil]
      /\ UNCHANGED <<cc, cpipe, client, reader, sent>>
  BY DEF RespondEnd
<1>3. handler[r].resp \in [body : BOOLEAN, close : BOOLEAN] /\ "answered" \in HandlerAt
  BY <1>1, <1>2, PersistAssumption DEF KindChosen, HandlerAt
<1>4. handler' \in [Requests -> Handler] /\ OtherHandlers(r) /\ handler'[r].at = "answered"
  BY <1>1, <1>2, <1>3 DEF Handler, OtherHandlers
<1>5. /\ sc' \in Conn /\ sc'.we = sc.we /\ sc'.c = sc.c /\ sc'.lastbody = sc.lastbody
      /\ sc'.nread = sc.nread /\ sc'.nwritten = sc.nwritten + 1 /\ sc'.pipereq = sc.pipereq
  BY <1>1, <1>2 DEF Conn
<1>6. /\ link' \in Wire /\ link'.client = link.client /\ link'.server = link.server
      /\ link'.up = link.up
      /\ link.client => link'.down = link.down \o Message(r, handler[r].resp)
  <2>1. link.down \in Seq(Tokens)
    BY <1>1 DEF Wire
  <2>2. link.down \o Message(r, handler[r].resp) \in Seq(Tokens)
    BY <1>3, <2>1, MessageTokens, ConcatProperties
  <2>3. QED
    BY <1>1, <1>2, <2>2 DEF Wire
<1>7. QED
  BY <1>2, <1>3, <1>4, <1>5, <1>6

LEMMA RespondFailsEffect ==
    ASSUME TypeInv, NEW r \in Requests, RespondFails(r)
    PROVE  /\ handler[r].at = "writing"
           /\ handler' \in [Requests -> Handler] /\ OtherHandlers(r)
           /\ handler'[r].at = "failed"
           /\ sc' \in Conn /\ sc'.we # Nil /\ sc'.c = sc.c /\ sc'.lastbody = sc.lastbody
           /\ sc'.nread = sc.nread /\ sc'.nwritten = sc.nwritten /\ sc'.pipereq = sc.pipereq
           /\ spipe' = EndResponse(spipe)
           /\ UNCHANGED <<cc, cpipe, client, reader, link, sent>>
<1>1. handler \in [Requests -> Handler] /\ sc \in Conn /\ "failed" \in HandlerAt
  BY Types DEF HandlerAt
<1>2. /\ handler[r].at = "writing"
      /\ sc' = [sc EXCEPT !.we = "err"]
      /\ spipe' = EndResponse(spipe)
      /\ handler' = [handler EXCEPT ![r].at = "failed", ![r].resp = Nil]
      /\ UNCHANGED <<cc, cpipe, client, reader, link, sent>>
  BY DEF RespondFails
<1>3. handler' \in [Requests -> Handler] /\ OtherHandlers(r) /\ handler'[r].at = "failed"
  BY <1>1, <1>2 DEF Handler, OtherHandlers
<1>4. /\ sc' \in Conn /\ sc'.we # Nil /\ sc'.c = sc.c /\ sc'.lastbody = sc.lastbody
      /\ sc'.nread = sc.nread /\ sc'.nwritten = sc.nwritten /\ sc'.pipereq = sc.pipereq
  BY <1>1, <1>2, PersistAssumption DEF Conn, Errors
<1>5. QED
  BY <1>2, <1>3, <1>4

\* Hijack leaves everything but c alone, Close everything but the end it closes.
LEMMA ClosesEffect ==
    ASSUME TypeInv, HijackClient \/ CloseClient \/ HijackServer \/ CloseServer
    PROVE  /\ cc' \in Conn /\ cc'.re = cc.re /\ cc'.we = cc.we /\ (cc'.c => cc.c)
           /\ cc'.lastbody = cc.lastbody /\ cc'.nread = cc.nread /\ cc'.pipereq = cc.pipereq
           /\ sc' \in Conn /\ sc'.we = sc.we /\ (sc'.c => sc.c) /\ sc'.lastbody = sc.lastbody
           /\ sc'.nread = sc.nread /\ sc'.nwritten = sc.nwritten /\ sc'.pipereq = sc.pipereq
           /\ link' \in Wire /\ (link'.client => link.client) /\ (link'.server => link.server)
           /\ link'.up = link.up /\ link'.down = link.down
           /\ UNCHANGED <<cpipe, spipe, client, reader, handler, sent>>
<1>1. cc \in Conn /\ sc \in Conn /\ link \in Wire
  BY Types
<1>2. CASE HijackClient
  BY <1>1, <1>2 DEF HijackClient, Conn
<1>3. CASE CloseClient
  BY <1>1, <1>3 DEF CloseClient, Wire
<1>4. CASE HijackServer
  BY <1>1, <1>4 DEF HijackServer, Conn
<1>5. CASE CloseServer
  BY <1>1, <1>5 DEF CloseServer, Wire
<1>6. QED
  BY <1>2, <1>3, <1>4, <1>5

-----------------------------------------------------------------------------
LEMMA TypeNext ==
    ASSUME TypeInv, [Next]_vars
    PROVE  TypeInv'
<1>1. /\ cc \in Conn /\ sc \in Conn /\ cpipe \in Pipe /\ spipe \in Pipe
      /\ client \in [Requests -> Caller] /\ handler \in [Requests -> Handler]
      /\ reader \in Reader /\ link \in Wire /\ sent \in Seq(Requests) /\ KindChosen
  BY Types
<1>2. UNCHANGED handler => KindChosen'
  BY <1>1 DEF KindChosen
<1>3. /\ EndRequest(cpipe) \in Pipe /\ EndResponse(cpipe) \in Pipe
      /\ EndRequest(spipe) \in Pipe /\ EndResponse(spipe) \in Pipe
  BY <1>1, PipeEnds
<1>4. ASSUME NEW q \in Requests, OtherHandlers(q),
             handler'[q].at = "writing" => handler'[q].resp \in RespKinds
      PROVE  KindChosen'
  BY <1>1, <1>4 DEF KindChosen, OtherHandlers
<1>5. ASSUME NEW r \in Requests, Do(r) PROVE TypeInv'
  <2>1. CASE WriteNext(r)
    BY <1>1, <1>2, <2>1, WriteNextEffect, TypesIntro
  <2>2. CASE WriteBegin(r)
    BY <1>1, <1>2, <1>3, <2>2, WriteBeginEffect, TypesIntro
  <2>3. CASE WriteEnd(r)
    <3>1. Append(sent, r) \in Seq(Requests)
      BY <1>1, AppendProperties
    <3>2. QED
      BY <1>1, <1>2, <1>3, <2>3, <3>1, WriteEndEffect, TypesIntro
  <2>4. CASE WriteFails(r)
    BY <1>1, <1>2, <1>3, <2>4, WriteFailsEffect, TypesIntro
  <2>5. CASE SkipResponse(r)
    BY <1>1, <1>2, <1>3, <2>5, SkipResponseEffect, TypesIntro
  <2>6. CASE ReadBegin(r)
    BY <1>1, <1>2, <1>3, <2>6, ReadBeginEffect, TypesIntro
  <2>7. CASE ReadEnd(r)
    BY <1>1, <1>2, <1>3, <2>7, ReadEndEffect, TypesIntro
  <2>8. CASE ReadFails(r)
    BY <1>1, <1>2, <1>3, <2>8, ReadFailsEffect, TypesIntro
  <2>9. QED
    BY <1>5, <2>1, <2>2, <2>3, <2>4, <2>5, <2>6, <2>7, <2>8 DEF Do
<1>6. ASSUME NEW r \in Requests, ReadBody(r) \/ ReadRequestBody(r) PROVE TypeInv'
  BY <1>1, <1>2, <1>6, ReadBodyEffect, ReadRequestBodyEffect, TypesIntro
<1>7. ASSUME Serve PROVE TypeInv'
  <2>1. CASE ReadRequestBegin
    BY <1>1, <1>2, <2>1, ReadRequestBeginEffect, TypesIntro
  <2>2. CASE ReadRequestEnd
    <3>1. Head(Drained(link.up, sc.lastbody)).of \in Requests
      BY <2>2, ReadRequestEndEffect DEF Tokens
    <3>2. KindChosen'
      BY <1>4, <2>2, <3>1, ReadRequestEndEffect
    <3>3. QED
      BY <1>1, <1>3, <2>2, <3>2, ReadRequestEndEffect, TypesIntro
  <2>3. CASE ReadRequestFails
    BY <1>1, <1>2, <1>3, <2>3, ReadRequestFailsEffect, TypesIntro
  <2>4. CASE ReaderSkips
    BY <1>1, <1>2, <1>3, <2>4, ReaderSkipsEffect, TypesIntro
  <2>5. QED
    BY <1>7, <2>1, <2>2, <2>3, <2>4 DEF Serve
<1>8. ASSUME NEW r \in Requests, Respond(r) PROVE TypeInv'
  <2>1. ASSUME NEW kind \in RespKinds, RespondBegin(r, kind) PROVE TypeInv'
    <3>1. handler'[r].at = "writing" => handler'[r].resp \in RespKinds
      BY <2>1, RespondBeginEffect
    <3>2. KindChosen'
      BY <1>4, <2>1, <3>1, RespondBeginEffect
    <3>3. QED
      BY <1>1, <1>3, <2>1, <3>2, RespondBeginEffect, TypesIntro
  <2>2. CASE RespondEnd(r)
    <3>1. KindChosen'
      BY <1>4, <2>2, RespondEndEffect
    <3>2. QED
      BY <1>1, <1>3, <2>2, <3>1, RespondEndEffect, TypesIntro
  <2>3. CASE RespondFails(r)
    <3>1. KindChosen'
      BY <1>4, <2>3, RespondFailsEffect
    <3>2. QED
      BY <1>1, <1>3, <2>3, <3>1, RespondFailsEffect, TypesIntro
  <2>4. QED
    BY <1>8, <2>1, <2>2, <2>3 DEF Respond
<1>9. CASE HijackClient \/ CloseClient \/ HijackServer \/ CloseServer
  BY <1>1, <1>2, <1>9, ClosesEffect, TypesIntro
<1>10. CASE UNCHANGED vars
  BY <1>1, <1>2, <1>10, TypesIntro DEF vars
<1>11. QED
  BY <1>5, <1>6, <1>7, <1>8, <1>9, <1>10 DEF Next

LEMMA TypeInit == Init => TypeInv
<1>1. SUFFICES ASSUME Init PROVE TypeInv
  OBVIOUS
<1>2. cc \in Conn /\ sc \in Conn /\ cpipe \in Pipe /\ spipe \in Pipe
  BY <1>1 DEF Init, NewConn, Pipeline, Conn, Pipe, Errors, Numbers
<1>3. client \in [Requests -> Caller] /\ handler \in [Requests -> Handler] /\ KindChosen
  BY <1>1 DEF Init, Caller, Handler, CallerAt, HandlerAt, Numbers, KindChosen
<1>4. /\ reader \in Reader
      /\ link \in Wire
      /\ sent \in Seq(Requests)
  BY <1>1 DEF Init, Reader, ReaderAt, Wire, Numbers
<1>5. QED
  BY <1>2, <1>3, <1>4 DEF TypeInv, TypeOK, Conn, Pipe, Caller, Handler, Reader, Wire, CallerAt, HandlerAt,
         ReaderAt

\* The fields of ClientConn, ServerConn and their Pipelines keep their types:
\* no operation, in whatever order and with whatever failures, reads a number
\* or a message that is not there.
THEOREM TypesAreKept == Spec => []TypeOK
<1>1. TypeInv => TypeOK
  BY DEF TypeInv
<1>2. QED
  BY <1>1, TypeInit, TypeNext, PTL DEF Spec

-----------------------------------------------------------------------------
(***************************************************************************)
(* The client side.  Numbers are handed out once and in order.  Once a     *)
(* request is skipped, no later one is written, because the error that     *)
(* made it so stays; so the requests that were written have the numbers    *)
(* from 0 on without gaps, and it is their place in sent that the turns    *)
(* among the responses follow.                                             *)
(***************************************************************************)
CannotWrite == cc.re # Nil \/ cc.we # Nil \/ ~cc.c
CannotRead  == cc.re # Nil \/ ~cc.c
NobodyWrites == \A r \in Requests : client[r].at # "writing"
NobodyReads  == \A r \in Requests : client[r].at # "reading"

Numbered ==
    /\ cpipe.request <= cpipe.next /\ cpipe.response <= cpipe.next
    /\ \A r \in Requests : client[r].at # "new" => client[r].id \in Nat /\ client[r].id < cpipe.next
    /\ \A r, q \in Requests : client[r].at # "new" /\ client[q].at # "new" /\ r # q
                                 => client[r].id # client[q].id

WriteTurns ==
    \A r \in Requests :
        /\ client[r].at = "turn" => client[r].id >= cpipe.request
        /\ client[r].at = "writing" => client[r].id = cpipe.request
        /\ client[r].at \in {"skip", "written", "reading", "done"} => client[r].id < cpipe.request

ReadTurns ==
    \A r \in Requests :
        /\ client[r].at \in {"turn", "writing", "skip", "written"} => client[r].id >= cpipe.response
        /\ client[r].at = "reading" => client[r].id = cpipe.response
        /\ client[r].at = "written" => cc.pipereq[r] = client[r].id

SentInOrder ==
    /\ \A k \in 1..Len(sent) : /\ client[sent[k]].at \in {"written", "reading", "done"}
                               /\ client[sent[k]].id = k - 1
    /\ \A r \in Requests : client[r].at \in {"written", "reading"} =>
          client[r].id < Len(sent) /\ sent[client[r].id + 1] = r

AllWrittenSoFar == cpipe.request = Len(sent) \/ (CannotWrite /\ NobodyWrites)

AllReadSoFar ==
    \/ cpipe.response = cc.nread
    \/ NobodyReads /\ (CannotRead \/ (CannotWrite /\ NobodyWrites /\ Len(sent) <= cpipe.response))

ClientInv == Numbered /\ WriteTurns /\ ReadTurns /\ SentInOrder /\ AllWrittenSoFar /\ AllReadSoFar

LEMMA Sizes ==
    ASSUME TypeInv
    PROVE  /\ cpipe.next \in Nat /\ cpipe.request \in Nat /\ cpipe.response \in Nat
           /\ spipe.next \in Nat /\ spipe.request \in Nat /\ spipe.response \in Nat
           /\ cc.nread \in Nat /\ sc.nread \in Nat /\ sc.nwritten \in Nat /\ Len(sent) \in Nat
           /\ \A k \in 1..Len(sent) : sent[k] \in Requests
<1>1. cpipe \in Pipe /\ spipe \in Pipe /\ cc \in Conn /\ sc \in Conn /\ sent \in Seq(Requests)
  BY Types
<1>2. QED
  BY <1>1, LenProperties, ElementOfSeq DEF Pipe, Conn

\* A request that is in sent is past its turn to write.
LEMMA SentIsWritten ==
    ASSUME TypeInv, ClientInv, NEW r \in Requests, client[r].at \in {"new", "turn", "writing", "skip"}
    PROVE  \A k \in 1..Len(sent) : sent[k] # r
  BY DEF ClientInv, SentInOrder

LEMMA ClientInvWriteNext ==
    ASSUME TypeInv, ClientInv, NEW r \in Requests, WriteNext(r)
    PROVE  ClientInv'
<1>1. /\ OtherCallers(r) /\ client[r].at = "new" /\ client'[r].at = "turn" /\ client'[r].id = cpipe.next
      /\ cpipe'.next = cpipe.next + 1 /\ cpipe'.request = cpipe.request
      /\ cpipe'.response = cpipe.response
      /\ UNCHANGED <<cc, sent>>
  BY WriteNextEffect
<1>2. cpipe.next \in Nat /\ cpipe.request \in Nat /\ cpipe.response \in Nat
  BY Sizes
<1>3. \A q \in Requests : q = r \/ client'[q] = client[q]
  BY <1>1 DEF OtherCallers
<1>4. Numbered'
  BY <1>1, <1>2, <1>3 DEF ClientInv, Numbered
<1>5. WriteTurns'
  BY <1>1, <1>2, <1>3 DEF ClientInv, Numbered, WriteTurns
<1>6. ReadTurns'
  BY <1>1, <1>2, <1>3 DEF ClientInv, Numbered, ReadTurns
<1>7. SentInOrder'
  BY <1>1, <1>3, SentIsWritten, Sizes DEF ClientInv, SentInOrder
<1>8. AllWrittenSoFar' /\ AllReadSoFar'
  BY <1>1, <1>3 DEF ClientInv, AllWrittenSoFar, AllReadSoFar, NobodyWrites, NobodyReads, CannotWrite,
     CannotRead
<1>9. QED
  BY <1>4, <1>5, <1>6, <1>7, <1>8 DEF ClientInv

LEMMA ClientInvWriteBegin ==
    ASSUME TypeInv, ClientInv, NEW r \in Requests, WriteBegin(r)
    PROVE  ClientInv'
<1>1. /\ OtherCallers(r) /\ client[r].at = "turn" /\ client[r].id = cpipe.request
      /\ client'[r].id = client[r].id /\ UNCHANGED sent
      /\ cc'.re = cc.re /\ cc'.c = cc.c /\ (cc.we # Nil => cc'.we # Nil)
      /\ cc'.nread = cc.nread /\ cc'.pipereq = cc.pipereq
      /\ \/ /\ FirstError(cc.re, cc.we, cc.c) = Nil
            /\ client'[r].at = "writing" /\ cpipe' = cpipe
         \/ /\ FirstError(cc.re, cc.we, cc.c) # Nil
            /\ client'[r].at = "skip" /\ cpipe' = EndRequest(cpipe) /\ cc' = cc
  BY WriteBeginEffect
<1>2. cpipe.next \in Nat /\ cpipe.request \in Nat /\ cpipe.response \in Nat
  BY Sizes
<1>3. \A q \in Requests : q = r \/ client'[q] = client[q]
  BY <1>1 DEF OtherCallers
<1>4. FirstError(cc.re, cc.we, cc.c) # Nil <=> CannotWrite
  BY Types, FirstErrorIsNil DEF CannotWrite, Conn
<1>5. CASE ~CannotWrite
  <2>1. client'[r].at = "writing" /\ cpipe' = cpipe
    BY <1>1, <1>4, <1>5
  <2>2. Numbered' /\ WriteTurns'
    BY <1>1, <1>2, <1>3, <2>1 DEF ClientInv, Numbered, WriteTurns
  <2>3. ReadTurns'
    BY <1>1, <1>2, <1>3, <2>1 DEF ClientInv, ReadTurns
  <2>4. SentInOrder'
    BY <1>1, <1>3, <2>1, SentIsWritten, Sizes DEF ClientInv, SentInOrder
  <2>5. cpipe.request = Len(sent) /\ cpipe.response = cc.nread
    BY <1>5 DEF ClientInv, AllWrittenSoFar, AllReadSoFar, CannotWrite, CannotRead
  <2>6. AllWrittenSoFar' /\ AllReadSoFar'
    BY <1>1, <2>1, <2>5 DEF AllWrittenSoFar, AllReadSoFar
  <2>7. QED
    BY <2>2, <2>3, <2>4, <2>6 DEF ClientInv
<1>6. CASE CannotWrite
  <2>1. /\ client'[r].at = "skip" /\ cc' = cc
        /\ cpipe'.request = cpipe.request + 1 /\ cpipe'.next = cpipe.next
        /\ cpipe'.response = cpipe.response
    BY <1>1, <1>4, <1>6, PipeEnds, Types
  <2>2. Numbered'
    BY <1>1, <1>2, <1>3, <2>1 DEF ClientInv, Numbered
  <2>3. WriteTurns'
    BY <1>1, <1>2, <1>3, <2>1 DEF ClientInv, Numbered, WriteTurns
  <2>4. ReadTurns'
    BY <1>1, <1>2, <1>3, <2>1 DEF ClientInv, ReadTurns
  <2>5. SentInOrder'
    BY <1>1, <1>3, <2>1, SentIsWritten, Sizes DEF ClientInv, SentInOrder
  <2>6. NobodyWrites'
    BY <1>1, <1>3, <2>1 DEF ClientInv, Numbered, WriteTurns, NobodyWrites
  <2>7. AllWrittenSoFar'
    BY <1>6, <2>1, <2>6 DEF AllWrittenSoFar, CannotWrite
  <2>8. AllReadSoFar'
    BY <1>1, <1>3, <2>1, <2>6 DEF ClientInv, AllReadSoFar, NobodyReads, CannotRead, CannotWrite
  <2>9. QED
    BY <2>2, <2>3, <2>4, <2>5, <2>7, <2>8 DEF ClientInv
<1>7. QED
  BY <1>5, <1>6

\* The request that is written next has the number of its place in sent.
LEMMA WriterIsNext ==
    ASSUME TypeInv, ClientInv, NEW r \in Requests, client[r].at = "writing"
    PROVE  cpipe.request = Len(sent) /\ client[r].id = Len(sent)
  BY DEF ClientInv, AllWrittenSoFar, NobodyWrites, WriteTurns

LEMMA ClientInvWriteEnd ==
    ASSUME TypeInv, ClientInv, NEW r \in Requests, WriteEnd(r)
    PROVE  ClientInv'
<1>1. /\ OtherCallers(r) /\ client[r].at = "writing" /\ client'[r].id = client[r].id
      /\ client'[r].at = "written" /\ sent' = Append(sent, r)
      /\ cc'.re = cc.re /\ cc'.c = cc.c /\ cc'.we = cc.we /\ cc'.nread = cc.nread
      /\ cc'.pipereq = [cc.pipereq EXCEPT ![r] = client[r].id]
      /\ cpipe' = EndRequest(cpipe)
  BY WriteEndEffect
<1>2. cpipe.next \in Nat /\ cpipe.request \in Nat /\ cpipe.response \in Nat /\ Len(sent) \in Nat
  BY Sizes
<1>3. \A q \in Requests : q = r \/ client'[q] = client[q]
  BY <1>1 DEF OtherCallers
<1>4. cpipe.request = Len(sent) /\ client[r].id = Len(sent)
  BY <1>1, WriterIsNext
<1>5. /\ cpipe'.request = cpipe.request + 1 /\ cpipe'.next = cpipe.next
      /\ cpipe'.response = cpipe.response
  BY <1>1, PipeEnds, Types
<1>6. /\ Len(sent') = Len(sent) + 1 /\ sent'[Len(sent) + 1] = r
      /\ \A k \in 1..Len(sent) : sent'[k] = sent[k]
  BY <1>1, Types, AppendProperties
<1>7. /\ cc'.pipereq[r] = client[r].id
      /\ \A q \in Requests : q # r => cc'.pipereq[q] = cc.pipereq[q]
  <2>1. cc.pipereq \in [Requests -> Numbers]
    BY Types DEF Conn
  <2>2. QED
    BY <1>1, <2>1
<1>8. Numbered'
  BY <1>1, <1>2, <1>3, <1>4, <1>5 DEF ClientInv, Numbered
<1>9. WriteTurns'
  BY <1>1, <1>2, <1>3, <1>4, <1>5 DEF ClientInv, Numbered, WriteTurns
<1>10. ReadTurns'
  BY <1>1, <1>2, <1>3, <1>5, <1>7 DEF ClientInv, ReadTurns
<1>11. SentInOrder'
  <2>1. ASSUME NEW k \in 1..(Len(sent) + 1)
        PROVE  /\ client'[sent'[k]].at \in {"written", "reading", "done"}
               /\ client'[sent'[k]].id = k - 1
    <3>1. CASE k = Len(sent) + 1
      BY <1>1, <1>2, <1>4, <1>6, <3>1
    <3>2. CASE k \in 1..Len(sent)
      <4>1. sent'[k] = sent[k] /\ sent[k] \in Requests /\ sent[k] # r
        BY <1>1, <1>6, <3>2, SentIsWritten, Sizes
      <4>2. QED
        BY <1>3, <3>2, <4>1 DEF ClientInv, SentInOrder
    <3>3. QED
      BY <1>2, <3>1, <3>2
  <2>2. ASSUME NEW q \in Requests, client'[q].at \in {"written", "reading"}
        PROVE  client'[q].id < Len(sent) + 1 /\ sent'[client'[q].id + 1] = q
    <3>1. CASE q = r
      BY <1>1, <1>2, <1>4, <1>6, <3>1
    <3>2. CASE q # r
      <4>1. client'[q] = client[q] /\ client[q].id \in Nat /\ client[q].id < Len(sent)
        BY <1>3, <2>2, <3>2 DEF ClientInv, SentInOrder, Numbered
      <4>2. client[q].id + 1 \in 1..Len(sent) /\ sent[client[q].id + 1] = q
        BY <1>2, <2>2, <4>1 DEF ClientInv, SentInOrder
      <4>3. QED
        BY <1>2, <1>6, <4>1, <4>2
    <3>3. QED
      BY <3>1, <3>2
  <2>3. QED
    BY <1>6, <2>1, <2>2 DEF SentInOrder
<1>12. AllWrittenSoFar'
  BY <1>4, <1>5, <1>6 DEF AllWrittenSoFar
<1>13. AllReadSoFar'
  BY <1>1, <1>3, <1>5 DEF ClientInv, AllReadSoFar, NobodyReads, NobodyWrites, CannotRead, CannotWrite
<1>14. QED
  BY <1>8, <1>9, <1>10, <1>11, <1>12, <1>13 DEF ClientInv

LEMMA ClientInvWriteFails ==
    ASSUME TypeInv, ClientInv, NEW r \in Requests, WriteFails(r)
    PROVE  ClientInv'
<1>1. /\ OtherCallers(r) /\ client[r].at = "writing" /\ client'[r].id = client[r].id
      /\ client'[r].at = "skip" /\ UNCHANGED sent
      /\ cc'.re = cc.re /\ cc'.we # Nil /\ cc'.c = cc.c /\ cc'.nread = cc.nread
      /\ cc'.pipereq = cc.pipereq
      /\ cpipe' = EndRequest(cpipe)
  BY WriteFailsEffect
<1>2. cpipe.next \in Nat /\ cpipe.request \in Nat /\ cpipe.response \in Nat
  BY Sizes
<1>3. \A q \in Requests : q = r \/ client'[q] = client[q]
  BY <1>1 DEF OtherCallers
<1>4. /\ cpipe'.request = cpipe.request + 1 /\ cpipe'.next = cpipe.next
      /\ cpipe'.response = cpipe.response
  BY <1>1, PipeEnds, Types
<1>5. Numbered' /\ WriteTurns'
  BY <1>1, <1>2, <1>3, <1>4 DEF ClientInv, Numbered, WriteTurns
<1>6. ReadTurns'
  BY <1>1, <1>2, <1>3, <1>4 DEF ClientInv, ReadTurns
<1>7. SentInOrder'
  BY <1>1, <1>3, SentIsWritten, Sizes DEF ClientInv, SentInOrder
<1>8. NobodyWrites'
  BY <1>1, <1>3 DEF ClientInv, Numbered, WriteTurns, NobodyWrites
<1>9. AllWrittenSoFar'
  BY <1>1, <1>8 DEF AllWrittenSoFar, CannotWrite
<1>10. AllReadSoFar'
  BY <1>1, <1>3, <1>4, <1>8 DEF ClientInv, AllReadSoFar, NobodyReads, CannotRead, CannotWrite
<1>11. QED
  BY <1>5, <1>6, <1>7, <1>9, <1>10 DEF ClientInv

\* When the turn comes to a request that was skipped, everything that was written has
\* had its turn.
LEMMA SkippedIsPastSent ==
    ASSUME TypeInv, ClientInv, NEW r \in Requests, client[r].at = "skip"
    PROVE  Len(sent) <= client[r].id /\ CannotWrite /\ NobodyWrites
<1>1. client[r].id \in Nat /\ Len(sent) \in Nat /\ cpipe.request \in Nat
  BY Sizes DEF ClientInv, Numbered
<1>2. Len(sent) <= client[r].id
  <2>1. SUFFICES ASSUME client[r].id + 1 \in 1..Len(sent) PROVE FALSE
    BY <1>1
  <2> DEFINE q == sent[client[r].id + 1]
  <2>2. q \in Requests
    BY <2>1, Sizes
  <2>3. client[q].at \in {"written", "reading", "done"} /\ client[q].id = (client[r].id + 1) - 1
    BY <2>1 DEF ClientInv, SentInOrder
  <2> HIDE DEF q
  <2>4. client[q].id = client[r].id
    BY <1>1, <2>3
  <2>5. QED
    BY <2>2, <2>3, <2>4 DEF ClientInv, Numbered
<1>3. client[r].id < cpipe.request
  BY DEF ClientInv, WriteTurns
<1>4. QED
  BY <1>1, <1>2, <1>3 DEF ClientInv, AllWrittenSoFar

\* The turn passes from r, the only one whose turn it was, to the next number.
LEMMA ResponseTurnEnds ==
    ASSUME TypeInv, ClientInv, NEW r \in Requests, OtherCallers(r),
           client[r].at \in {"skip", "written", "reading"}, client[r].id = cpipe.response,
           client'[r].id = client[r].id, client'[r].at = "done",
           cpipe' = EndResponse(cpipe), UNCHANGED sent,
           \A q \in Requests : q # r => cc'.pipereq[q] = cc.pipereq[q]
    PROVE  Numbered' /\ WriteTurns' /\ ReadTurns' /\ SentInOrder' /\ NobodyReads'
<1>1. cpipe.next \in Nat /\ cpipe.request \in Nat /\ cpipe.response \in Nat
  BY Sizes
<1>2. \A q \in Requests : q = r \/ client'[q] = client[q]
  BY DEF OtherCallers
<1>3. /\ cpipe'.response = cpipe.response + 1 /\ cpipe'.next = cpipe.next
      /\ cpipe'.request = cpipe.request
  BY PipeEnds, Types
<1>4. Numbered'
  BY <1>1, <1>2, <1>3 DEF ClientInv, Numbered
<1>5. WriteTurns'
  BY <1>1, <1>2, <1>3 DEF ClientInv, WriteTurns
<1>6. ReadTurns'
  BY <1>1, <1>2, <1>3 DEF ClientInv, Numbered, ReadTurns
<1>7. SentInOrder'
  BY <1>2, Sizes DEF ClientInv, SentInOrder
<1>8. NobodyReads'
  BY <1>2 DEF ClientInv, Numbered, ReadTurns, NobodyReads
<1>9. QED
  BY <1>4, <1>5, <1>6, <1>7, <1>8

LEMMA ClientInvSkipResponse ==
    ASSUME TypeInv, ClientInv, NEW r \in Requests, SkipResponse(r)
    PROVE  ClientInv'
<1>1. /\ OtherCallers(r) /\ client[r].at = "skip" /\ client[r].id = cpipe.response
      /\ client'[r].id = client[r].id /\ client'[r].at = "done"
      /\ cpipe' = EndResponse(cpipe) /\ UNCHANGED <<cc, sent>>
  BY SkipResponseEffect
<1>2. Numbered' /\ WriteTurns' /\ ReadTurns' /\ SentInOrder' /\ NobodyReads'
  BY <1>1, ResponseTurnEnds
<1>3. Len(sent) <= cpipe.response /\ CannotWrite /\ NobodyWrites
  BY <1>1, SkippedIsPastSent
<1>4. NobodyWrites'
  BY <1>1, <1>3 DEF NobodyWrites, OtherCallers
<1>5. AllWrittenSoFar'
  BY <1>1, <1>3, <1>4 DEF AllWrittenSoFar, CannotWrite
<1>6. cpipe'.response = cpipe.response + 1 /\ cpipe.response \in Nat /\ Len(sent) \in Nat
  BY <1>1, PipeEnds, Types, Sizes
<1>7. Len(sent') <= cpipe'.response
  BY <1>1, <1>3, <1>6
<1>8. AllReadSoFar'
  BY <1>1, <1>2, <1>3, <1>4, <1>7 DEF AllReadSoFar, CannotWrite
<1>9. QED
  BY <1>2, <1>5, <1>8 DEF ClientInv

LEMMA ClientInvReadBegin ==
    ASSUME TypeInv, ClientInv, NEW r \in Requests, ReadBegin(r)
    PROVE  ClientInv'
<1>1. /\ OtherCallers(r) /\ client[r].at = "written" /\ cc.pipereq[r] = cpipe.response
      /\ client'[r].id = client[r].id /\ UNCHANGED sent
      /\ cc'.re = cc.re /\ cc'.we = cc.we /\ cc'.c = cc.c /\ cc'.nread = cc.nread
      /\ cc'.pipereq = [cc.pipereq EXCEPT ![r] = Nil]
      /\ \/ /\ FirstError(cc.re, Nil, cc.c) = Nil
            /\ client'[r].at = "reading" /\ cpipe' = cpipe
         \/ /\ FirstError(cc.re, Nil, cc.c) # Nil
            /\ client'[r].at = "done" /\ cpipe' = EndResponse(cpipe)
  BY ReadBeginEffect
<1>2. \A q \in Requests : q # r => cc'.pipereq[q] = cc.pipereq[q]
  BY <1>1, Types DEF Conn
<1>3. \A q \in Requests : q = r \/ client'[q] = client[q]
  BY <1>1 DEF OtherCallers
<1>4. FirstError(cc.re, Nil, cc.c) # Nil <=> CannotRead
  BY Types, FirstErrorIsNil DEF CannotRead, Conn
<1>5. client[r].id = cpipe.response /\ client[r].id < Len(sent)
  BY <1>1 DEF ClientInv, ReadTurns, SentInOrder
<1>6. NobodyWrites => NobodyWrites'
  BY <1>1, <1>3 DEF NobodyWrites
<1>7. CASE ~CannotRead
  <2>1. client'[r].at = "reading" /\ cpipe' = cpipe
    BY <1>1, <1>4, <1>7
  <2>2. Numbered' /\ WriteTurns'
    BY <1>1, <1>3, <2>1 DEF ClientInv, Numbered, WriteTurns
  <2>3. SentInOrder'
    <3>1. client[r].at = "written" /\ client'[r].id = client[r].id /\ UNCHANGED sent
      BY <1>1
    <3>2. \A k \in 1..Len(sent) : sent[k] \in Requests
      BY Sizes
    <3>3. QED
      BY <1>3, <2>1, <3>1, <3>2 DEF ClientInv, SentInOrder
  <2>4. ReadTurns'
    BY <1>2, <1>3, <1>5, <1>1, <2>1 DEF ClientInv, ReadTurns
  <2>5. AllWrittenSoFar'
    BY <1>1, <1>6, <2>1 DEF ClientInv, AllWrittenSoFar, CannotWrite
  <2>6. cpipe.response = cc.nread
    <3>1. cpipe.response \in Nat /\ Len(sent) \in Nat
      BY Sizes
    <3>2. QED
      BY <1>5, <1>7, <3>1 DEF ClientInv, AllReadSoFar
  <2>7. AllReadSoFar'
    BY <1>1, <2>1, <2>6 DEF AllReadSoFar
  <2>8. QED
    BY <2>2, <2>3, <2>4, <2>5, <2>7 DEF ClientInv
<1>8. CASE CannotRead
  <2>1. client'[r].at = "done" /\ cpipe' = EndResponse(cpipe)
    BY <1>1, <1>4, <1>8
  <2>2. Numbered' /\ WriteTurns' /\ ReadTurns' /\ SentInOrder' /\ NobodyReads'
    BY <1>1, <1>2, <1>5, <2>1, ResponseTurnEnds
  <2>3. AllWrittenSoFar'
    BY <1>1, <1>6, <2>1, PipeEnds, Types DEF ClientInv, AllWrittenSoFar, CannotWrite
  <2>4. AllReadSoFar'
    BY <1>1, <1>8, <2>2 DEF AllReadSoFar, CannotRead
  <2>5. QED
    BY <2>2, <2>3, <2>4 DEF ClientInv
<1>9. QED
  BY <1>7, <1>8

\* Whoever reads a response has its turn, and is the sender of the next request in sent.
LEMMA ReaderIsNext ==
    ASSUME TypeInv, ClientInv, NEW r \in Requests, client[r].at = "reading"
    PROVE  /\ cpipe.response = cc.nread /\ client[r].id = cpipe.response
           /\ cc.nread < Len(sent) /\ sent[cc.nread + 1] = r
  BY DEF ClientInv, AllReadSoFar, NobodyReads, ReadTurns, SentInOrder

LEMMA ClientInvReadEnd ==
    ASSUME TypeInv, ClientInv, NEW r \in Requests, ReadEnd(r) \/ ReadFails(r)
    PROVE  ClientInv'
<1>1. /\ OtherCallers(r) /\ client[r].at = "reading" /\ client'[r].id = client[r].id
      /\ client'[r].at = "done" /\ cpipe' = EndResponse(cpipe) /\ UNCHANGED sent
      /\ (cc.re # Nil => cc'.re # Nil) /\ cc'.we = cc.we /\ cc'.c = cc.c /\ cc'.pipereq = cc.pipereq
      /\ cc'.nread = cc.nread + 1 \/ cc'.re # Nil
  BY ReadEndEffect, ReadFailsEffect
<1>2. cpipe.response = cc.nread /\ client[r].id = cpipe.response
  BY <1>1, ReaderIsNext
<1>3. Numbered' /\ WriteTurns' /\ ReadTurns' /\ SentInOrder' /\ NobodyReads'
  BY <1>1, <1>2, ResponseTurnEnds
<1>4. cpipe'.response = cpipe.response + 1 /\ cpipe'.request = cpipe.request
  BY <1>1, PipeEnds, Types
<1>5. NobodyWrites => NobodyWrites'
  BY <1>1 DEF NobodyWrites, OtherCallers
<1>6. AllWrittenSoFar'
  BY <1>1, <1>4, <1>5 DEF ClientInv, AllWrittenSoFar, CannotWrite
<1>7. AllReadSoFar'
  BY <1>1, <1>2, <1>3, <1>4 DEF AllReadSoFar, CannotRead
<1>8. QED
  BY <1>3, <1>6, <1>7 DEF ClientInv

\* What the server does, Hijack and Close touch nothing of this but the errors.
LEMMA ClientInvFrame ==
    ASSUME TypeInv, ClientInv, UNCHANGED <<client, cpipe, sent>>,
           cc'.re = cc.re, cc'.we = cc.we, cc'.c => cc.c, cc'.nread = cc.nread,
           cc'.pipereq = cc.pipereq
    PROVE  ClientInv'
<1>1. Numbered' /\ WriteTurns' /\ ReadTurns' /\ SentInOrder'
  BY DEF ClientInv, Numbered, WriteTurns, ReadTurns, SentInOrder
<1>2. (NobodyWrites => NobodyWrites') /\ (NobodyReads => NobodyReads')
  BY DEF NobodyWrites, NobodyReads
<1>3. AllWrittenSoFar' /\ AllReadSoFar'
  BY <1>2 DEF ClientInv, AllWrittenSoFar, AllReadSoFar, CannotWrite, CannotRead
<1>4. QED
  BY <1>1, <1>3 DEF ClientInv

-----------------------------------------------------------------------------
(***************************************************************************)
(* The server side.  Requests are received in the order of sent, and the   *)
(* turn of a response is the place of its request.                         *)
(***************************************************************************)
CannotRespond == sc.we # Nil \/ ~sc.c
NobodyAnswers == \A r \in Requests : handler[r].at # "writing"
NobodyHandles == \A r \in Requests : handler[r].at # "handling"

ReaderTurn ==
    /\ reader.at = "idle" => spipe.next = sc.nread /\ spipe.request = sc.nread
    /\ reader.at = "reading" => /\ reader.id = sc.nread /\ spipe.next = sc.nread + 1
                                /\ spipe.request = sc.nread
    /\ reader.at = "skip" => reader.id = sc.nread
    /\ reader.at # "ended" => spipe.response <= sc.nread

Received ==
    /\ sc.nwritten <= sc.nread /\ sc.nread <= Len(sent)
    /\ \A r \in Requests : handler[r].at = "handling" =>
          /\ sc.pipereq[r] \in Nat /\ spipe.response <= sc.pipereq[r] /\ sc.pipereq[r] < sc.nread
          /\ sent[sc.pipereq[r] + 1] = r
    /\ \A r \in Requests : handler[r].at = "writing" =>
          spipe.response < sc.nread /\ sent[spipe.response + 1] = r

AllAnsweredSoFar ==
    \/ spipe.response = sc.nwritten
    \/ NobodyAnswers /\ (CannotRespond \/ (reader.at = "ended" /\ NobodyHandles))

ServerInv == ReaderTurn /\ Received /\ AllAnsweredSoFar

LEMMA ServerInvReadBegins ==
    ASSUME TypeInv, ServerInv, ReadRequestBegin
    PROVE  ServerInv'
<1>1. /\ reader.at = "idle" /\ reader'.id = spipe.next
      /\ spipe'.next = spipe.next + 1 /\ spipe'.response = spipe.response
      /\ (reader'.at = "reading" /\ spipe'.request = spipe.request) \/ reader'.at = "skip"
      /\ UNCHANGED <<sc, handler, sent>>
  BY ReadRequestBeginEffect
<1>2. ReaderTurn'
  BY <1>1, Sizes DEF ServerInv, ReaderTurn
<1>3. Received'
  BY <1>1 DEF ServerInv, Received
<1>4. AllAnsweredSoFar'
  BY <1>1 DEF ServerInv, AllAnsweredSoFar, NobodyAnswers, CannotRespond
<1>5. QED
  BY <1>2, <1>3, <1>4 DEF ServerInv

LEMMA ServerInvReadEnds ==
    ASSUME TypeInv, ServerInv, ReadRequestEnd, sc.nread < Len(sent),
           Head(Drained(link.up, sc.lastbody)).of = sent[sc.nread + 1]
    PROVE  ServerInv'
<1> DEFINE q == Head(Drained(link.up, sc.lastbody)).of
<1>1. /\ reader.at = "reading" /\ OtherHandlers(q) /\ handler'[q].at = "handling"
      /\ sc'.we = sc.we /\ sc'.c = sc.c
      /\ sc'.nread = sc.nread + 1 /\ sc'.nwritten = sc.nwritten
      /\ sc'.pipereq = [sc.pipereq EXCEPT ![q] = reader.id]
      /\ spipe' = EndRequest(spipe) /\ reader'.at \in {"idle", "ended"} /\ UNCHANGED sent
      /\ Head(Drained(link.up, sc.lastbody)) \in Tokens
  BY ReadRequestEndEffect
<1>2. q \in Requests
  BY <1>1 DEF Tokens
<1>3. q = sent[sc.nread + 1]
  OBVIOUS
<1> HIDE DEF q
<1>4. /\ sc'.pipereq[q] = reader.id
      /\ \A p \in Requests : p # q => sc'.pipereq[p] = sc.pipereq[p] /\ handler'[p] = handler[p]
  BY <1>1, <1>2, Types DEF Conn, OtherHandlers
<1>5. /\ spipe'.request = spipe.request + 1 /\ spipe'.next = spipe.next
      /\ spipe'.response = spipe.response
  BY <1>1, PipeEnds, Types
<1>6. sc.nread \in Nat /\ sc.nwritten \in Nat /\ spipe.response \in Nat /\ Len(sent) \in Nat
  BY Sizes
<1>7. reader.id = sc.nread /\ spipe.response <= sc.nread
  BY <1>1 DEF ServerInv, ReaderTurn
<1>8. ReaderTurn'
  BY <1>1, <1>5, <1>6, <1>7 DEF ServerInv, ReaderTurn
<1>9. Received'
  <2>1. ASSUME NEW p \in Requests, handler'[p].at = "handling"
        PROVE  /\ sc'.pipereq[p] \in Nat /\ spipe.response <= sc'.pipereq[p]
               /\ sc'.pipereq[p] < sc.nread + 1 /\ sent[sc'.pipereq[p] + 1] = p
    <3>1. CASE p = q
      BY <1>3, <1>4, <1>6, <1>7, <3>1
    <3>2. CASE p # q
      BY <1>4, <1>6, <2>1, <3>2 DEF ServerInv, Received
    <3>3. QED
      BY <3>1, <3>2
  <2>2. ASSUME NEW p \in Requests, handler'[p].at = "writing"
        PROVE  spipe.response < sc.nread + 1 /\ sent[spipe.response + 1] = p
    <3>1. p # q
      BY <1>1, <2>2
    <3>2. QED
      BY <1>4, <1>6, <2>2, <3>1 DEF ServerInv, Received
  <2>3. sc.nwritten <= sc.nread + 1 /\ sc.nread + 1 <= Len(sent)
    BY <1>6 DEF ServerInv, Received
  <2>4. QED
    BY <1>1, <1>5, <2>1, <2>2, <2>3 DEF Received
<1>10. AllAnsweredSoFar'
  <2>1. NobodyAnswers => NobodyAnswers'
    BY <1>1, <1>4 DEF NobodyAnswers
  <2>2. QED
    BY <1>1, <1>5, <2>1 DEF ServerInv, AllAnsweredSoFar, CannotRespond
<1>11. QED
  BY <1>8, <1>9, <1>10 DEF ServerInv

LEMMA ServerInvReadFails ==
    ASSUME TypeInv, ServerInv, ReadRequestFails
    PROVE  ServerInv'
<1>1. /\ reader.at = "reading" /\ reader'.at = "skip" /\ reader'.id = reader.id
      /\ sc'.we = sc.we /\ sc'.c = sc.c /\ sc'.nread = sc.nread /\ sc'.nwritten = sc.nwritten
      /\ sc'.pipereq = sc.pipereq /\ spipe' = EndRequest(spipe) /\ UNCHANGED <<handler, sent>>
  BY ReadRequestFailsEffect
<1>2. spipe'.response = spipe.response
  BY <1>1, PipeEnds, Types
<1>3. ReaderTurn'
  BY <1>1, <1>2 DEF ServerInv, ReaderTurn
<1>4. Received'
  BY <1>1, <1>2 DEF ServerInv, Received
<1>5. AllAnsweredSoFar'
  BY <1>1, <1>2 DEF ServerInv, AllAnsweredSoFar, NobodyAnswers, CannotRespond
<1>6. QED
  BY <1>3, <1>4, <1>5 DEF ServerInv

\* The Read without a request comes last: when its turn is there, no handler is left.
LEMMA ServerInvReaderSkips ==
    ASSUME TypeInv, ServerInv, ReaderSkips
    PROVE  ServerInv'
<1>1. /\ reader.at = "skip" /\ spipe.response = reader.id /\ reader'.at = "ended"
      /\ spipe' = EndResponse(spipe) /\ UNCHANGED <<sc, handler, sent>>
  BY ReaderSkipsEffect
<1>2. sc.nread \in Nat /\ spipe.response \in Nat /\ spipe.response = sc.nread
  BY <1>1, Sizes DEF ServerInv, ReaderTurn
<1>3. \A r \in Requests : handler[r].at # "handling" /\ handler[r].at # "writing"
  <2>1. ASSUME NEW r \in Requests, handler[r].at = "handling" PROVE FALSE
    <3>1. sc.pipereq[r] \in Nat /\ spipe.response <= sc.pipereq[r] /\ sc.pipereq[r] < sc.nread
      BY <2>1 DEF ServerInv, Received
    <3>2. QED
      BY <1>2, <3>1
  <2>2. ASSUME NEW r \in Requests, handler[r].at = "writing" PROVE FALSE
    BY <1>2, <2>2 DEF ServerInv, Received
  <2>3. QED
    BY <2>1, <2>2
<1>4. ReaderTurn'
  BY <1>1 DEF ReaderTurn
<1>5. Received'
  BY <1>1, <1>3 DEF ServerInv, Received
<1>6. AllAnsweredSoFar'
  BY <1>1, <1>3 DEF AllAnsweredSoFar, NobodyAnswers, NobodyHandles
<1>7. QED
  BY <1>4, <1>5, <1>6 DEF ServerInv

\* The turn passes from r, whose place it was, to the next place.
LEMMA AnswerTurnEnds ==
    ASSUME TypeInv, ServerInv, NEW r \in Requests, OtherHandlers(r),
           sent[spipe.response + 1] = r, spipe.response < sc.nread,
           handler'[r].at \notin {"handling", "writing"},
           spipe' = EndResponse(spipe), UNCHANGED <<reader, sent>>,
           sc'.nread = sc.nread, sc'.nwritten <= sc'.nread,
           \A q \in Requests : q # r => sc'.pipereq[q] = sc.pipereq[q]
    PROVE  ReaderTurn' /\ Received' /\ NobodyAnswers'
<1>1. sc.nread \in Nat /\ spipe.response \in Nat
  BY Sizes
<1>2. spipe'.response = spipe.response + 1 /\ spipe'.request = spipe.request /\ spipe'.next = spipe.next
  BY PipeEnds, Types
<1>3. \A q \in Requests : q # r => handler'[q] = handler[q]
  BY DEF OtherHandlers
<1>4. ReaderTurn'
  BY <1>1, <1>2 DEF ServerInv, ReaderTurn
<1>5. NobodyAnswers'
  BY <1>3 DEF ServerInv, Received, NobodyAnswers
<1>6. ASSUME NEW q \in Requests, handler'[q].at = "handling"
      PROVE  /\ sc'.pipereq[q] \in Nat /\ spipe'.response <= sc'.pipereq[q]
             /\ sc'.pipereq[q] < sc.nread /\ sent[sc'.pipereq[q] + 1] = q
  <2>1. q # r
    BY <1>6
  <2>2. /\ sc.pipereq[q] \in Nat /\ spipe.response <= sc.pipereq[q]
        /\ sc.pipereq[q] < sc.nread /\ sent[sc.pipereq[q] + 1] = q
    BY <1>3, <1>6, <2>1 DEF ServerInv, Received
  <2>3. spipe.response # sc.pipereq[q]
    BY <2>1, <2>2
  <2>4. QED
    BY <1>1, <1>2, <2>1, <2>2, <2>3
<1>7. Received'
  BY <1>5, <1>6 DEF ServerInv, Received, NobodyAnswers
<1>8. QED
  BY <1>4, <1>5, <1>7

LEMMA ServerInvRespondBegin ==
    ASSUME TypeInv, ServerInv, NEW r \in Requests, NEW kind \in RespKinds, RespondBegin(r, kind)
    PROVE  ServerInv'
<1>1. /\ handler[r].at = "handling" /\ spipe.response = sc.pipereq[r] /\ OtherHandlers(r)
      /\ sc'.we = sc.we /\ sc'.c = sc.c /\ sc'.nread = sc.nread /\ sc'.nwritten = sc.nwritten
      /\ sc'.pipereq = [sc.pipereq EXCEPT ![r] = Nil]
      /\ \/ /\ FirstError(sc.we, Nil, sc.c) = Nil /\ sc.nread > sc.nwritten
            /\ handler'[r].at = "writing" /\ spipe' = spipe
         \/ /\ FirstError(sc.we, Nil, sc.c) # Nil \/ sc.nread <= sc.nwritten
            /\ handler'[r].at = "failed" /\ spipe' = EndResponse(spipe)
      /\ UNCHANGED <<reader, sent>>
  BY RespondBeginEffect
<1>2. \A q \in Requests : q # r => sc'.pipereq[q] = sc.pipereq[q] /\ handler'[q] = handler[q]
  BY <1>1, Types DEF Conn, OtherHandlers
<1>3. FirstError(sc.we, Nil, sc.c) # Nil <=> CannotRespond
  BY Types, FirstErrorIsNil DEF CannotRespond, Conn
<1>4. sc.nread \in Nat /\ sc.nwritten \in Nat /\ spipe.response \in Nat
  BY Sizes
<1>5. spipe.response < sc.nread /\ sent[spipe.response + 1] = r
  BY <1>1 DEF ServerInv, Received
<1>6. ~CannotRespond => spipe.response = sc.nwritten
  BY <1>1 DEF ServerInv, AllAnsweredSoFar, NobodyHandles
<1>7. CASE handler'[r].at = "writing" /\ spipe' = spipe /\ ~CannotRespond
  <2>1. ReaderTurn'
    BY <1>1, <1>7 DEF ServerInv, ReaderTurn
  <2>2. Received'
    BY <1>1, <1>2, <1>4, <1>5, <1>7 DEF ServerInv, Received
  <2>3. AllAnsweredSoFar'
    BY <1>1, <1>6, <1>7 DEF AllAnsweredSoFar
  <2>4. QED
    BY <2>1, <2>2, <2>3 DEF ServerInv
<1>8. CASE handler'[r].at = "failed" /\ spipe' = EndResponse(spipe) /\ CannotRespond
  <2>1. sc'.nwritten <= sc'.nread
    BY <1>1 DEF ServerInv, Received
  <2>2. ReaderTurn' /\ Received' /\ NobodyAnswers'
    BY <1>1, <1>2, <1>5, <1>8, <2>1, AnswerTurnEnds
  <2>3. AllAnsweredSoFar'
    BY <1>1, <1>8, <2>2 DEF AllAnsweredSoFar, CannotRespond
  <2>4. QED
    BY <2>2, <2>3 DEF ServerInv
<1>9. QED
  BY <1>1, <1>3, <1>4, <1>5, <1>6, <1>7, <1>8

\* Whoever writes a response answers the next request in sent.
LEMMA AnswererIsNext ==
    ASSUME TypeInv, ServerInv, NEW r \in Requests, handler[r].at = "writing"
    PROVE  /\ spipe.response = sc.nwritten /\ sc.nwritten < sc.nread
           /\ sent[sc.nwritten + 1] = r
  BY DEF ServerInv, AllAnsweredSoFar, NobodyAnswers, Received

LEMMA ServerInvRespondEnd ==
    ASSUME TypeInv, ServerInv, NEW r \in Requests, RespondEnd(r) \/ RespondFails(r)
    PROVE  ServerInv'
<1>1. /\ handler[r].at = "writing" /\ OtherHandlers(r)
      /\ handler'[r].at \notin {"handling", "writing"}
      /\ sc'.nread = sc.nread /\ sc'.pipereq = sc.pipereq
      /\ sc'.nwritten = sc.nwritten + 1 \/ (sc'.nwritten = sc.nwritten /\ sc'.we # Nil)
      /\ spipe' = EndResponse(spipe) /\ UNCHANGED <<reader, sent>>
  BY RespondEndEffect, RespondFailsEffect
<1>2. /\ spipe.response = sc.nwritten /\ sc.nwritten < sc.nread
      /\ sent[sc.nwritten + 1] = r
  BY <1>1, AnswererIsNext
<1>3. sc'.nwritten <= sc'.nread
  BY <1>1, <1>2, Sizes
<1>4. ReaderTurn' /\ Received' /\ NobodyAnswers'
  BY <1>1, <1>2, <1>3, AnswerTurnEnds
<1>5. spipe'.response = spipe.response + 1
  BY <1>1, PipeEnds, Types
<1>6. AllAnsweredSoFar'
  BY <1>1, <1>2, <1>4, <1>5 DEF AllAnsweredSoFar, CannotRespond
<1>7. QED
  BY <1>4, <1>6 DEF ServerInv

\* What the client does, Hijack and Close only add to sent or to the errors.
LEMMA ServerInvFrame ==
    ASSUME TypeInv, ServerInv, UNCHANGED <<handler, reader, spipe>>,
           sc'.we = sc.we, sc'.c => sc.c, sc'.nread = sc.nread, sc'.nwritten = sc.nwritten,
           sc'.pipereq = sc.pipereq,
           Len(sent) <= Len(sent'), Len(sent') \in Nat, \A k \in 1..Len(sent) : sent'[k] = sent[k]
    PROVE  ServerInv'
<1>1. ReaderTurn' /\ AllAnsweredSoFar'
  BY DEF ServerInv, ReaderTurn, AllAnsweredSoFar, NobodyAnswers, NobodyHandles, CannotRespond
<1>2. /\ sc.nread \in Nat /\ sc.nwritten \in Nat /\ spipe.response \in Nat /\ Len(sent) \in Nat
      /\ sc.nread <= Len(sent)
  BY Sizes DEF ServerInv, Received
<1>3. \A k \in Nat : k < sc.nread => k + 1 \in 1..Len(sent)
  BY <1>2
<1>4. Received'
  BY <1>2, <1>3 DEF ServerInv, Received
<1>5. QED
  BY <1>1, <1>4 DEF ServerInv

-----------------------------------------------------------------------------
(***************************************************************************)
(* The streams.  A body in front is one that lastbody knows of, and any    *)
(* other follows its head.  InOrder(q, n, s, m): q holds the messages      *)
(* about the requests from the first n to the first m of s, or the body    *)
(* of the n-th and then those.                                             *)
(***************************************************************************)
WellFramed(q, lastbody) ==
    /\ q # <<>> /\ q[1].part = "body" => lastbody
    /\ \A i \in 1..(Len(q) - 1) : q[i + 1].part = "body" => q[i].part = "head" /\ q[i].body

InOrder(q, n, s, m) ==
    /\ n <= m
    /\ q = <<>> => n = m
    /\ q # <<>> => /\ q[1].part = "head" => n < m /\ q[1].of = s[n + 1]
                   /\ q[1].part = "body" => 0 < n /\ q[1].of = s[n]
                   /\ q[Len(q)].of = s[m]
    /\ \A i \in 1..(Len(q) - 1) :
          /\ q[i + 1].part = "body" => q[i + 1].of = q[i].of
          /\ q[i + 1].part = "head" => \E k \in 1..(m - 1) : q[i].of = s[k] /\ q[i + 1].of = s[k + 1]

StreamInv ==
    /\ WellFramed(link.up, sc.lastbody) /\ WellFramed(link.down, cc.lastbody)
    /\ link.server => InOrder(link.up, sc.nread, sent, Len(sent))
    /\ link.client => InOrder(link.down, cc.nread, sent, sc.nwritten)

LinkInv == TypeInv /\ ClientInv /\ ServerInv /\ StreamInv

\* The elements of what is left once the first one is taken.
LEMMA TailElements ==
    ASSUME NEW S, NEW q \in Seq(S), q # <<>>
    PROVE  /\ Tail(q) \in Seq(S) /\ Head(q) = q[1] /\ q[1] \in S
           /\ Len(q) \in Nat /\ Len(q) >= 1 /\ Len(Tail(q)) = Len(q) - 1
           /\ Tail(q) = <<>> <=> Len(q) = 1
           /\ \A i \in 1..(Len(q) - 1) : Tail(q)[i] = q[i + 1] /\ q[i + 1] \in S
<1>1. /\ Len(q) \in Nat /\ Len(q) # 0 /\ \A i \in 1..Len(q) : q[i] \in S
  BY LenProperties, EmptySeq, ElementOfSeq
<1>2. /\ Tail(q) \in Seq(S) /\ Len(Tail(q)) = Len(q) - 1 /\ Head(q) = q[1]
      /\ \A i \in 1..(Len(q) - 1) : Tail(q)[i] = q[i + 1]
  BY HeadTailProperties
<1>3. Tail(q) = <<>> <=> Len(Tail(q)) = 0
  BY <1>2, EmptySeq
<1>4. \A i \in 1..(Len(q) - 1) : i + 1 \in 1..Len(q)
  BY <1>1
<1>5. 1 \in 1..Len(q) /\ Len(q) >= 1
  BY <1>1
<1>6. Tail(q) = <<>> <=> Len(q) = 1
  BY <1>1, <1>2, <1>3
<1>7. QED
  BY <1>1, <1>2, <1>4, <1>5, <1>6

LEMMA FirstToken ==
    ASSUME NEW q \in Seq(Tokens), q # <<>>
    PROVE  Head(q) = q[1] /\ q[1].part \in {"head", "body"}
<1>1. Head(q) = q[1] /\ q[1] \in Tokens
  BY TailElements
<1>2. QED
  BY <1>1 DEF Tokens

\* Taking a part of a message off the front leaves a body there only behind its head.
LEMMA TailFramed ==
    ASSUME NEW q \in Seq(Tokens), q # <<>>, NEW lastbody, WellFramed(q, lastbody)
    PROVE  /\ q[1].part = "head" => WellFramed(Tail(q), q[1].body)
           /\ q[1].part = "body" => \A b : WellFramed(Tail(q), b)
<1> DEFINE t == Tail(q)
<1>1. /\ Len(q) \in Nat /\ Len(q) >= 1 /\ Len(t) = Len(q) - 1 /\ (t = <<>> <=> Len(q) = 1)
      /\ \A i \in 1..(Len(q) - 1) : t[i] = q[i + 1]
  BY TailElements
<1> HIDE DEF t
<1>2. \A i \in 1..(Len(t) - 1) : t[i + 1].part = "body" => t[i].part = "head" /\ t[i].body
  <2>1. SUFFICES ASSUME NEW i \in 1..(Len(q) - 2), t[i + 1].part = "body"
                 PROVE  t[i].part = "head" /\ t[i].body
    BY <1>1
  <2>2. i \in 1..(Len(q) - 1) /\ i + 1 \in 1..(Len(q) - 1)
    BY <1>1
  <2>3. t[i] = q[i + 1] /\ t[i + 1] = q[(i + 1) + 1]
    BY <1>1, <2>2
  <2>4. QED
    BY <2>1, <2>2, <2>3 DEF WellFramed
<1>3. ASSUME t # <<>>, t[1].part = "body" PROVE q[1].part = "head" /\ q[1].body
  <2>1. 1 \in 1..(Len(q) - 1)
    BY <1>1, <1>3
  <2>2. t[1] = q[1 + 1]
    BY <1>1, <2>1
  <2>3. QED
    BY <1>3, <2>1, <2>2 DEF WellFramed
<1>4. q[1].part = "head" => WellFramed(t, q[1].body)
  BY <1>2, <1>3 DEF WellFramed
<1>5. q[1].part = "body" => \A b : WellFramed(t, b)
  BY <1>2, <1>3 DEF WellFramed
<1>6. QED
  BY <1>4, <1>5 DEF t

\* Taking off a head is taking off one request, taking off a body is taking off none.
LEMMA TailInOrder ==
    ASSUME NEW q \in Seq(Tokens), q # <<>>, NEW lastbody, WellFramed(q, lastbody),
           NEW n \in Nat, NEW m \in Nat, NEW s, InOrder(q, n, s, m),
           \A j, k \in 1..m : s[j] = s[k] => j = k
    PROVE  /\ q[1].part = "head" => InOrder(Tail(q), n + 1, s, m)
           /\ q[1].part = "body" => InOrder(Tail(q), n, s, m)
<1> DEFINE t == Tail(q)
           p == IF q[1].part = "head" THEN n + 1 ELSE n
<1>1. /\ Len(q) \in Nat /\ Len(q) >= 1 /\ Len(t) = Len(q) - 1 /\ (t = <<>> <=> Len(q) = 1)
      /\ \A i \in 1..(Len(q) - 1) : t[i] = q[i + 1] /\ q[i + 1] \in Tokens
      /\ q[1] \in Tokens
  BY TailElements
<1>2. q[1].part \in {"head", "body"}
  BY <1>1 DEF Tokens
<1>3. p \in 1..m /\ q[1].of = s[p] /\ n \in Nat
  BY <1>2 DEF InOrder
<1> HIDE DEF t, p
<1>4. ASSUME t = <<>> PROVE p = m
  <2>1. q[Len(q)].of = s[m] /\ Len(q) = 1
    BY <1>1, <1>4 DEF InOrder
  <2>2. m \in 1..m
    BY <1>3
  <2>3. QED
    BY <1>3, <2>1, <2>2
<1>5. ASSUME t # <<>>
      PROVE  /\ t[1].part = "head" => p < m /\ t[1].of = s[p + 1]
             /\ t[1].part = "body" => 0 < p /\ t[1].of = s[p]
             /\ t[Len(t)].of = s[m]
  <2>1. 1 \in 1..(Len(q) - 1) /\ Len(q) - 1 \in 1..(Len(q) - 1) /\ (Len(q) - 1) + 1 = Len(q)
    BY <1>1, <1>5
  <2>2. t[1] = q[1 + 1] /\ t[Len(t)] = q[Len(q)]
    BY <1>1, <2>1
  <2>3. t[Len(t)].of = s[m]
    BY <2>2 DEF InOrder
  <2>4. t[1].part = "body" => t[1].of = s[p]
    BY <1>3, <2>1, <2>2 DEF InOrder
  <2>5. ASSUME t[1].part = "head" PROVE p < m /\ t[1].of = s[p + 1]
    <3>1. PICK k \in 1..(m - 1) : q[1].of = s[k] /\ q[1 + 1].of = s[k + 1]
      BY <2>1, <2>2, <2>5 DEF InOrder
    <3>2. k \in 1..m
      BY <3>1
    <3>3. k = p
      BY <1>3, <3>1, <3>2
    <3>4. QED
      BY <2>2, <3>1, <3>3
  <2>6. QED
    BY <1>3, <2>3, <2>4, <2>5
<1>6. ASSUME NEW i \in 1..(Len(t) - 1)
      PROVE  /\ t[i + 1].part = "body" => t[i + 1].of = t[i].of
             /\ t[i + 1].part = "head" => \E k \in 1..(m - 1) : t[i].of = s[k] /\ t[i + 1].of = s[k + 1]
  <2>1. i \in 1..(Len(q) - 1) /\ i + 1 \in 1..(Len(q) - 1)
    BY <1>1
  <2>2. t[i] = q[i + 1] /\ t[i + 1] = q[(i + 1) + 1]
    BY <1>1, <2>1
  <2>3. QED
    BY <2>1, <2>2 DEF InOrder
<1>7. InOrder(t, p, s, m)
  BY <1>3, <1>4, <1>5, <1>6 DEF InOrder
<1>8. QED
  BY <1>7 DEF t, p

\* Once the last body is drained, the start of a message is in front.
LEMMA DrainedIsFramed ==
    ASSUME NEW q \in Seq(Tokens), NEW lastbody \in BOOLEAN, WellFramed(q, lastbody)
    PROVE  /\ Drained(q, lastbody) \in Seq(Tokens)
           /\ WellFramed(Drained(q, lastbody), FALSE)
           /\ Drained(q, lastbody) # <<>> => /\ Parses(Drained(q, lastbody))
                                             /\ Drained(q, lastbody)[1].part = "head"
<1> DEFINE t == Drained(q, lastbody)
<1>1. t \in Seq(Tokens)
  BY DrainedType
<1>2. q # <<>> => Head(q) = q[1] /\ q[1].part \in {"head", "body"}
  BY FirstToken
<1>3. WellFramed(t, FALSE)
  <2>1. CASE q # <<>> /\ q[1].part = "body"
    <3>1. t = Tail(q)
      BY <1>2, <2>1 DEF Drained, WellFramed
    <3>2. QED
      BY <2>1, <3>1, TailFramed
  <2>2. CASE ~(q # <<>> /\ q[1].part = "body")
    <3>1. t = q
      BY <1>2, <2>2 DEF Drained
    <3>2. QED
      BY <2>2, <3>1 DEF WellFramed
  <2>3. QED
    BY <2>1, <2>2
<1> HIDE DEF t
<1>4. ASSUME t # <<>> PROVE Parses(t) /\ t[1].part = "head"
  <2>1. Head(t) = t[1] /\ t[1].part \in {"head", "body"}
    BY <1>1, <1>4, FirstToken
  <2>2. t[1].part # "body"
    BY <1>3, <1>4 DEF WellFramed
  <2>3. QED
    BY <1>4, <2>1, <2>2 DEF Parses
<1>5. QED
  BY <1>1, <1>3, <1>4 DEF t

LEMMA DrainedInOrder ==
    ASSUME NEW q \in Seq(Tokens), NEW lastbody \in BOOLEAN, WellFramed(q, lastbody),
           NEW n \in Nat, NEW m \in Nat, NEW s, InOrder(q, n, s, m),
           \A j, k \in 1..m : s[j] = s[k] => j = k
    PROVE  InOrder(Drained(q, lastbody), n, s, m)
<1>1. CASE lastbody /\ q # <<>> /\ Head(q).part = "body"
  BY <1>1, TailInOrder, TailElements DEF Drained
<1>2. CASE ~(lastbody /\ q # <<>> /\ Head(q).part = "body")
  BY <1>2 DEF Drained
<1>3. QED
  BY <1>1, <1>2

\* A message is put behind what is there.
LEMMA MessageBehind ==
    ASSUME NEW q \in Seq(Tokens), NEW r \in Requests, NEW kind \in [body : BOOLEAN, close : BOOLEAN]
    PROVE  LET g == q \o Message(r, kind)
               l == Len(q)
           IN
           /\ g \in Seq(Tokens) /\ g # <<>> /\ l \in Nat
           /\ Len(g) = l + (IF kind.body THEN 2 ELSE 1)
           /\ \A i \in 1..l : g[i] = q[i]
           /\ g[l + 1].part = "head" /\ g[l + 1].of = r /\ g[l + 1].body = kind.body
           /\ kind.body => g[l + 2].part = "body" /\ g[l + 2].of = r
<1> DEFINE e == Message(r, kind)
           g == q \o e
<1>1. /\ e \in Seq(Tokens) /\ Len(e) = (IF kind.body THEN 2 ELSE 1)
      /\ e[1].part = "head" /\ e[1].of = r /\ e[1].body = kind.body
      /\ kind.body => e[2].part = "body" /\ e[2].of = r
  <2>1. /\ e \in Seq(Tokens) /\ Len(e) = (IF kind.body THEN 2 ELSE 1)
        /\ e[1] = [of |-> r, part |-> "head", body |-> kind.body, close |-> kind.close]
        /\ kind.body => e[2] = [of |-> r, part |-> "body", body |-> FALSE, close |-> FALSE]
    BY MessageTokens
  <2> HIDE DEF e
  <2>2. QED
    BY <2>1
<1> HIDE DEF e
<1>2. Len(q) \in Nat /\ kind.body \in BOOLEAN
  BY LenProperties
<1>3. /\ g \in Seq(Tokens) /\ Len(g) = Len(q) + Len(e)
      /\ \A i \in 1..(Len(q) + Len(e)) : g[i] = IF i <= Len(q) THEN q[i] ELSE e[i - Len(q)]
  <2>1. e \in Seq(Tokens)
    BY <1>1
  <2>2. QED
    BY <2>1, ConcatProperties
<1> HIDE DEF g
<1>4. \A i \in 1..Len(q) : g[i] = q[i]
  BY <1>1, <1>2, <1>3
<1>5. g[Len(q) + 1] = e[1] /\ (kind.body => g[Len(q) + 2] = e[2])
  <2>1. Len(q) + 1 \in 1..(Len(q) + Len(e)) /\ ~(Len(q) + 1 <= Len(q)) /\ (Len(q) + 1) - Len(q) = 1
    BY <1>1, <1>2
  <2>2. kind.body => /\ Len(q) + 2 \in 1..(Len(q) + Len(e)) /\ ~(Len(q) + 2 <= Len(q))
                     /\ (Len(q) + 2) - Len(q) = 2
    BY <1>1, <1>2
  <2>3. QED
    BY <1>3, <2>1, <2>2
<1>6. g # <<>>
  BY <1>1, <1>2, <1>3, EmptySeq
<1>7. QED
  BY <1>1, <1>2, <1>3, <1>4, <1>5, <1>6 DEF g, e

LEMMA MessageFramed ==
    ASSUME NEW q \in Seq(Tokens), NEW r \in Requests, NEW kind \in [body : BOOLEAN, close : BOOLEAN],
           NEW lastbody, WellFramed(q, lastbody)
    PROVE  WellFramed(q \o Message(r, kind), lastbody)
<1> DEFINE g == q \o Message(r, kind)
           l == Len(q)
<1>1. /\ l \in Nat /\ Len(g) = l + (IF kind.body THEN 2 ELSE 1) /\ kind.body \in BOOLEAN
      /\ \A i \in 1..l : g[i] = q[i]
      /\ g[l + 1].part = "head" /\ g[l + 1].body = kind.body
  BY MessageBehind
<1>2. q = <<>> <=> l = 0
  BY EmptySeq
<1> HIDE DEF g, l
<1>3. g[1].part = "body" => lastbody
  <2>1. CASE l = 0
    BY <1>1, <2>1
  <2>2. CASE l # 0
    BY <1>1, <1>2, <2>2 DEF WellFramed
  <2>3. QED
    BY <2>1, <2>2
<1>4. ASSUME NEW i \in 1..(Len(g) - 1), g[i + 1].part = "body"
      PROVE  g[i].part = "head" /\ g[i].body
  <2>1. CASE i \in 1..(l - 1)
    <3>1. i \in 1..l /\ i + 1 \in 1..l
      BY <1>1, <2>1
    <3>2. q[i + 1].part = "body" /\ g[i] = q[i]
      BY <1>1, <1>4, <3>1
    <3>3. QED
      BY <2>1, <3>2 DEF WellFramed, l
  <2>2. CASE i = l
    BY <1>1, <1>4, <2>2
  <2>3. CASE i = l + 1
    <3>1. kind.body
      BY <1>1, <2>3
    <3>2. QED
      BY <1>1, <2>3, <3>1
  <2>4. QED
    BY <1>1, <2>1, <2>2, <2>3
<1>5. QED
  BY <1>3, <1>4 DEF WellFramed, g

LEMMA MessageInOrder ==
    ASSUME NEW q \in Seq(Tokens), NEW r \in Requests, NEW kind \in [body : BOOLEAN, close : BOOLEAN],
           NEW n \in Nat, NEW m \in Nat, NEW s, NEW z, InOrder(q, n, s, m),
           \A k \in 1..m : z[k] = s[k], z[m + 1] = r
    PROVE  InOrder(q \o Message(r, kind), n, z, m + 1)
<1> DEFINE g == q \o Message(r, kind)
           l == Len(q)
<1>1. /\ l \in Nat /\ Len(g) = l + (IF kind.body THEN 2 ELSE 1) /\ kind.body \in BOOLEAN
      /\ \A i \in 1..l : g[i] = q[i]
      /\ g[l + 1].part = "head" /\ g[l + 1].of = r
      /\ kind.body => g[l + 2].part = "body" /\ g[l + 2].of = r
      /\ g # <<>>
  BY MessageBehind
<1>2. q = <<>> <=> l = 0
  BY EmptySeq
<1>3. q # <<>> => q[1].part \in {"head", "body"}
  BY FirstToken
<1>4. n <= m /\ (q = <<>> => n = m) /\ (q # <<>> => m \in 1..m /\ q[l].of = s[m])
  BY <1>3 DEF InOrder
<1> HIDE DEF g, l
<1>5. g[1].part = "head" => n < m + 1 /\ g[1].of = z[n + 1]
  <2>1. CASE l = 0
    BY <1>1, <1>2, <1>4, <2>1
  <2>2. CASE l # 0
    <3>1. g[1] = q[1] /\ q # <<>>
      BY <1>1, <1>2, <2>2
    <3>2. q[1].part = "head" => n < m /\ q[1].of = s[n + 1]
      BY <3>1 DEF InOrder
    <3>3. n < m => n + 1 \in 1..m
      OBVIOUS
    <3>4. QED
      BY <3>1, <3>2, <3>3
  <2>3. QED
    BY <2>1, <2>2
<1>6. g[1].part = "body" => 0 < n /\ g[1].of = z[n]
  <2>1. CASE l = 0
    BY <1>1, <2>1
  <2>2. CASE l # 0
    <3>1. g[1] = q[1] /\ q # <<>>
      BY <1>1, <1>2, <2>2
    <3>2. q[1].part = "body" => 0 < n /\ q[1].of = s[n]
      BY <3>1 DEF InOrder
    <3>3. 0 < n => n \in 1..m
      BY <1>4
    <3>4. QED
      BY <3>1, <3>2, <3>3
  <2>3. QED
    BY <2>1, <2>2
<1>7. g[Len(g)].of = z[m + 1]
  BY <1>1
<1>8. ASSUME NEW i \in 1..(Len(g) - 1)
      PROVE  /\ g[i + 1].part = "body" => g[i + 1].of = g[i].of
             /\ g[i + 1].part = "head" => \E k \in 1..((m + 1) - 1) : g[i].of = z[k] /\ g[i + 1].of = z[k + 1]
  <2>1. CASE i \in 1..(l - 1)
    <3>1. i \in 1..l /\ i + 1 \in 1..l
      BY <1>1, <2>1
    <3>2. g[i + 1] = q[i + 1] /\ g[i] = q[i]
      BY <1>1, <3>1
    <3>3. g[i + 1].part = "body" => g[i + 1].of = g[i].of
      BY <2>1, <3>2 DEF InOrder, l
    <3>4. ASSUME g[i + 1].part = "head"
          PROVE  \E k \in 1..((m + 1) - 1) : g[i].of = z[k] /\ g[i + 1].of = z[k + 1]
      <4>1. PICK k \in 1..(m - 1) : q[i].of = s[k] /\ q[i + 1].of = s[k + 1]
        BY <2>1, <3>2, <3>4 DEF InOrder, l
      <4>2. k \in 1..m /\ k + 1 \in 1..m /\ k \in 1..((m + 1) - 1)
        BY <4>1
      <4>3. QED
        BY <3>2, <4>1, <4>2
    <3>5. QED
      BY <3>3, <3>4
  <2>2. CASE i = l
    <3>1. q # <<>> /\ g[i] = q[l]
      BY <1>1, <1>2, <2>2
    <3>2. m \in 1..((m + 1) - 1) /\ g[i].of = z[m] /\ g[i + 1].of = z[m + 1]
      BY <1>1, <1>4, <2>2, <3>1
    <3>3. g[i + 1].part # "body"
      BY <1>1, <2>2
    <3>4. QED
      BY <3>2, <3>3
  <2>3. CASE i = l + 1
    <3>1. kind.body /\ i + 1 = l + 2
      BY <1>1, <2>3
    <3>2. QED
      BY <1>1, <2>3, <3>1
  <2>4. QED
    BY <1>1, <2>1, <2>2, <2>3
<1>9. n <= m + 1
  BY <1>4
<1>10. QED
  BY <1>1, <1>5, <1>6, <1>7, <1>8, <1>9 DEF InOrder, g

\* The order depends on nothing but the first m requests.
LEMMA InOrderSame ==
    ASSUME NEW q \in Seq(Tokens), NEW n \in Nat, NEW m \in Nat, NEW s, NEW z, InOrder(q, n, s, m),
           \A k \in 1..m : z[k] = s[k]
    PROVE  InOrder(q, n, z, m)
<1>1. q # <<>> => q[1].part \in {"head", "body"}
  BY FirstToken
<1>2. ASSUME q # <<>>
      PROVE  /\ q[1].part = "head" => n < m /\ q[1].of = z[n + 1]
             /\ q[1].part = "body" => 0 < n /\ q[1].of = z[n]
             /\ q[Len(q)].of = z[m]
  <2>1. /\ q[1].part = "head" => n < m /\ q[1].of = s[n + 1]
        /\ q[1].part = "body" => 0 < n /\ q[1].of = s[n]
        /\ q[Len(q)].of = s[m] /\ n <= m
    BY <1>2 DEF InOrder
  <2>2. (n < m => n + 1 \in 1..m) /\ (0 < n => n \in 1..m) /\ m \in 1..m
    BY <1>1, <1>2, <2>1
  <2>3. QED
    BY <2>1, <2>2
<1>3. ASSUME NEW i \in 1..(Len(q) - 1), q[i + 1].part = "head"
      PROVE  \E k \in 1..(m - 1) : q[i].of = z[k] /\ q[i + 1].of = z[k + 1]
  <2>1. PICK k \in 1..(m - 1) : q[i].of = s[k] /\ q[i + 1].of = s[k + 1]
    BY <1>3 DEF InOrder
  <2>2. k \in 1..m /\ k + 1 \in 1..m
    BY <2>1
  <2>3. QED
    BY <2>1, <2>2
<1>4. QED
  BY <1>2, <1>3 DEF InOrder

-----------------------------------------------------------------------------
(***************************************************************************)
(* Every step keeps the streams in order.                                  *)
(***************************************************************************)
LEMMA SentOnce ==
    ASSUME TypeInv, ClientInv
    PROVE  \A j, k \in 1..Len(sent) : sent[j] = sent[k] => j = k
<1>1. SUFFICES ASSUME NEW j \in 1..Len(sent), NEW k \in 1..Len(sent), sent[j] = sent[k]
               PROVE  j = k
  OBVIOUS
<1>2. client[sent[j]].id = j - 1 /\ client[sent[k]].id = k - 1
  BY DEF ClientInv, SentInOrder
<1>3. j - 1 = k - 1 /\ j \in Int /\ k \in Int
  BY <1>1, <1>2, Sizes
<1>4. QED
  BY <1>3

LEMMA StreamTypes ==
    ASSUME TypeInv
    PROVE  /\ link.up \in Seq(Tokens) /\ link.down \in Seq(Tokens)
           /\ cc.lastbody \in BOOLEAN /\ sc.lastbody \in BOOLEAN
           /\ cc.nread \in Nat /\ sc.nread \in Nat /\ sc.nwritten \in Nat /\ Len(sent) \in Nat
<1>1. link \in Wire /\ cc \in Conn /\ sc \in Conn
  BY Types
<1>2. QED
  BY <1>1, Sizes DEF Wire, Conn

\* Requests that were answered were sent, and each once.
LEMMA AnsweredOnce ==
    ASSUME TypeInv, ClientInv, ServerInv
    PROVE  /\ sc.nwritten <= sc.nread /\ sc.nread <= Len(sent) /\ 1..sc.nwritten \subseteq 1..Len(sent)
           /\ \A j, k \in 1..sc.nwritten : sent[j] = sent[k] => j = k
<1>1. sc.nwritten <= sc.nread /\ sc.nread <= Len(sent)
  BY DEF ServerInv, Received
<1>2. 1..sc.nwritten \subseteq 1..Len(sent)
  BY <1>1, StreamTypes
<1>3. QED
  BY <1>1, <1>2, SentOnce

LEMMA StreamFrame ==
    ASSUME StreamInv, link'.up = link.up, link'.down = link.down,
           link'.client => link.client, link'.server => link.server, UNCHANGED sent,
           cc'.lastbody = cc.lastbody, cc'.nread = cc.nread,
           sc'.lastbody = sc.lastbody, sc'.nread = sc.nread, sc'.nwritten = sc.nwritten
    PROVE  StreamInv'
  BY DEF StreamInv

LEMMA StreamWriteEnd ==
    ASSUME LinkInv, NEW r \in Requests, WriteEnd(r)
    PROVE  StreamInv'
<1>1. TypeInv /\ ClientInv /\ ServerInv /\ StreamInv
  BY DEF LinkInv
<1>2. /\ cc'.lastbody = cc.lastbody /\ cc'.nread = cc.nread /\ sc' = sc
      /\ sent' = Append(sent, r)
      /\ link'.client = link.client /\ link'.server = link.server /\ link'.down = link.down
      /\ link.server => link'.up = link.up \o Message(r, ReqKind(r))
      /\ ~link.server => link' = link
  BY <1>1, WriteEndEffect DEF WriteEnd
<1>3. /\ Len(sent') = Len(sent) + 1 /\ sent'[Len(sent) + 1] = r
      /\ \A k \in 1..Len(sent) : sent'[k] = sent[k]
  BY <1>1, <1>2, Types, AppendProperties
<1>4. ReqKind(r) \in [body : BOOLEAN, close : BOOLEAN]
  BY ReqKindType
<1>5. WellFramed(link'.up, sc.lastbody)
  <2>1. CASE link.server
    BY <1>1, <1>2, <1>4, <2>1, StreamTypes, MessageFramed DEF StreamInv
  <2>2. CASE ~link.server
    BY <1>1, <1>2, <2>2 DEF StreamInv
  <2>3. QED
    BY <2>1, <2>2
<1>6. link.server => InOrder(link'.up, sc.nread, sent', Len(sent) + 1)
  <2>1. SUFFICES ASSUME link.server PROVE InOrder(link'.up, sc.nread, sent', Len(sent) + 1)
    OBVIOUS
  <2>2. InOrder(link.up, sc.nread, sent, Len(sent))
    BY <1>1, <2>1 DEF StreamInv
  <2>3. link.up \in Seq(Tokens) /\ sc.nread \in Nat /\ Len(sent) \in Nat
    BY <1>1, StreamTypes
  <2>4. InOrder(link.up \o Message(r, ReqKind(r)), sc.nread, sent', Len(sent) + 1)
    BY <1>3, <1>4, <2>2, <2>3, MessageInOrder
  <2>5. QED
    BY <1>2, <2>1, <2>4
<1>7. link.client => InOrder(link.down, cc.nread, sent', sc.nwritten)
  <2>1. SUFFICES ASSUME link.client PROVE InOrder(link.down, cc.nread, sent', sc.nwritten)
    OBVIOUS
  <2>2. InOrder(link.down, cc.nread, sent, sc.nwritten)
    BY <1>1, <2>1 DEF StreamInv
  <2>3. \A k \in 1..sc.nwritten : sent'[k] = sent[k]
    BY <1>1, <1>3, AnsweredOnce
  <2>4. QED
    BY <1>1, <2>2, <2>3, StreamTypes, InOrderSame
<1>8. QED
  BY <1>1, <1>2, <1>3, <1>5, <1>6, <1>7 DEF StreamInv

\* A response is put on the stream in the place of its request.
LEMMA StreamRespondEnd ==
    ASSUME LinkInv, NEW r \in Requests, RespondEnd(r)
    PROVE  StreamInv'
<1>1. TypeInv /\ ClientInv /\ ServerInv /\ StreamInv
  BY DEF LinkInv
<1>2. /\ handler[r].at = "writing" /\ handler[r].resp \in [body : BOOLEAN, close : BOOLEAN]
      /\ sc'.lastbody = sc.lastbody /\ sc'.nread = sc.nread /\ sc'.nwritten = sc.nwritten + 1
      /\ link'.client = link.client /\ link'.server = link.server /\ link'.up = link.up
      /\ link.client => link'.down = link.down \o Message(r, handler[r].resp)
      /\ ~link.client => link' = link
      /\ UNCHANGED <<cc, sent>>
  BY <1>1, RespondEndEffect DEF RespondEnd
<1>3. sent[sc.nwritten + 1] = r
  BY <1>1, <1>2, AnswererIsNext
<1>4. WellFramed(link'.down, cc.lastbody)
  <2>1. CASE link.client
    BY <1>1, <1>2, <2>1, StreamTypes, MessageFramed DEF StreamInv
  <2>2. CASE ~link.client
    BY <1>1, <1>2, <2>2 DEF StreamInv
  <2>3. QED
    BY <2>1, <2>2
<1>5. link.client => InOrder(link'.down, cc.nread, sent, sc.nwritten + 1)
  <2>1. SUFFICES ASSUME link.client PROVE InOrder(link'.down, cc.nread, sent, sc.nwritten + 1)
    OBVIOUS
  <2>2. InOrder(link.down, cc.nread, sent, sc.nwritten)
    BY <1>1, <2>1 DEF StreamInv
  <2>3. /\ link.down \in Seq(Tokens) /\ cc.nread \in Nat /\ sc.nwritten \in Nat
        /\ \A k \in 1..sc.nwritten : sent[k] = sent[k]
    BY <1>1, StreamTypes
  <2>4. InOrder(link.down \o Message(r, handler[r].resp), cc.nread, sent, sc.nwritten + 1)
    BY <1>2, <1>3, <2>2, <2>3, MessageInOrder
  <2>5. QED
    BY <1>2, <2>1, <2>4
<1>6. QED
  BY <1>1, <1>2, <1>4, <1>5 DEF StreamInv

\* What the server reads is the next request in sent.
LEMMA StreamReadRequestEnd ==
    ASSUME LinkInv, ReadRequestEnd
    PROVE  /\ StreamInv' /\ sc.nread < Len(sent)
           /\ Head(Drained(link.up, sc.lastbody)).of = sent[sc.nread + 1]
<1> DEFINE t == Drained(link.up, sc.lastbody)
<1>1. TypeInv /\ ClientInv /\ ServerInv /\ StreamInv
  BY DEF LinkInv
<1>2. /\ link.server /\ Parses(t)
      /\ sc'.lastbody = Head(t).body /\ sc'.nread = sc.nread + 1 /\ sc'.nwritten = sc.nwritten
      /\ link'.client = link.client /\ link'.server = link.server
      /\ link'.down = link.down /\ link'.up = Tail(t) /\ UNCHANGED <<cc, sent>>
  BY <1>1, ReadRequestEndEffect
<1>3. t \in Seq(Tokens) /\ WellFramed(t, FALSE) /\ (t # <<>> => t[1].part = "head")
  BY <1>1, StreamTypes, DrainedIsFramed DEF StreamInv
<1>4. InOrder(t, sc.nread, sent, Len(sent))
  <2>1. InOrder(link.up, sc.nread, sent, Len(sent)) /\ WellFramed(link.up, sc.lastbody)
    BY <1>1, <1>2 DEF StreamInv
  <2>2. QED
    BY <1>1, <2>1, StreamTypes, SentOnce, DrainedInOrder
<1> HIDE DEF t
<1>5. t # <<>> /\ Head(t) = t[1] /\ t[1].part = "head"
  BY <1>2, <1>3, FirstToken DEF Parses
<1>6. sc.nread < Len(sent) /\ Head(t).of = sent[sc.nread + 1]
  BY <1>4, <1>5 DEF InOrder
<1>7. WellFramed(Tail(t), Head(t).body)
  BY <1>3, <1>5, TailFramed
<1>8. InOrder(Tail(t), sc.nread + 1, sent, Len(sent))
  BY <1>1, <1>3, <1>4, <1>5, StreamTypes, SentOnce, TailInOrder
<1>9. StreamInv'
  BY <1>1, <1>2, <1>7, <1>8 DEF StreamInv
<1>10. QED
  BY <1>6, <1>9 DEF t

\* What a caller of Do reads is the response to the next request in sent: its own.
LEMMA StreamReadEnd ==
    ASSUME LinkInv, NEW r \in Requests, ReadEnd(r)
    PROVE  /\ StreamInv' /\ cc.nread < sc.nwritten /\ sent[cc.nread + 1] = r
           /\ Head(Drained(link.down, cc.lastbody)).of = r
<1> DEFINE t == Drained(link.down, cc.lastbody)
<1>1. TypeInv /\ ClientInv /\ ServerInv /\ StreamInv
  BY DEF LinkInv
<1>2. /\ client[r].at = "reading" /\ link.client /\ Parses(t)
      /\ cc'.lastbody = Head(t).body /\ cc'.nread = cc.nread + 1
      /\ link'.client = link.client /\ link'.server = link.server
      /\ link'.up = link.up /\ link'.down = Tail(t) /\ UNCHANGED <<sc, sent>>
  BY <1>1, ReadEndEffect
<1>3. t \in Seq(Tokens) /\ WellFramed(t, FALSE) /\ (t # <<>> => t[1].part = "head")
  BY <1>1, StreamTypes, DrainedIsFramed DEF StreamInv
<1>4. InOrder(t, cc.nread, sent, sc.nwritten)
  <2>1. InOrder(link.down, cc.nread, sent, sc.nwritten) /\ WellFramed(link.down, cc.lastbody)
    BY <1>1, <1>2 DEF StreamInv
  <2>2. QED
    BY <1>1, <2>1, StreamTypes, AnsweredOnce, DrainedInOrder
<1> HIDE DEF t
<1>5. t # <<>> /\ Head(t) = t[1] /\ t[1].part = "head"
  BY <1>2, <1>3, FirstToken DEF Parses
<1>6. cc.nread < sc.nwritten /\ Head(t).of = sent[cc.nread + 1]
  BY <1>4, <1>5 DEF InOrder
<1>7. sent[cc.nread + 1] = r
  BY <1>1, <1>2, ReaderIsNext
<1>8. WellFramed(Tail(t), Head(t).body)
  BY <1>3, <1>5, TailFramed
<1>9. InOrder(Tail(t), cc.nread + 1, sent, sc.nwritten)
  BY <1>1, <1>3, <1>4, <1>5, StreamTypes, AnsweredOnce, TailInOrder
<1>10. StreamInv'
  BY <1>1, <1>2, <1>8, <1>9 DEF StreamInv
<1>11. QED
  BY <1>6, <1>7, <1>10 DEF t

\* A Read that fails has drained the last body.
LEMMA StreamReadFails ==
    ASSUME LinkInv, ReadRequestFails \/ \E r \in Requests : ReadFails(r)
    PROVE  StreamInv'
<1>1. TypeInv /\ ClientInv /\ ServerInv /\ StreamInv
  BY DEF LinkInv
<1>2. /\ WellFramed(link.up, sc.lastbody) /\ WellFramed(link.down, cc.lastbody)
      /\ link.server => InOrder(link.up, sc.nread, sent, Len(sent))
      /\ link.client => InOrder(link.down, cc.nread, sent, sc.nwritten)
  BY <1>1 DEF StreamInv
<1>3. CASE ReadRequestFails
  <2>1. /\ sc'.lastbody = FALSE /\ sc'.nread = sc.nread /\ sc'.nwritten = sc.nwritten
        /\ link'.client = link.client /\ link'.server = link.server
        /\ link'.down = link.down /\ link'.up = Drained(link.up, sc.lastbody)
        /\ UNCHANGED <<cc, sent>>
    BY <1>1, <1>3, ReadRequestFailsEffect
  <2>2. WellFramed(Drained(link.up, sc.lastbody), FALSE)
    BY <1>1, <1>2, StreamTypes, DrainedIsFramed
  <2>3. link.server => InOrder(Drained(link.up, sc.lastbody), sc.nread, sent, Len(sent))
    BY <1>1, <1>2, StreamTypes, SentOnce, DrainedInOrder
  <2>4. QED
    BY <1>2, <2>1, <2>2, <2>3 DEF StreamInv
<1>4. ASSUME NEW r \in Requests, ReadFails(r) PROVE StreamInv'
  <2>1. /\ cc'.lastbody = FALSE /\ cc'.nread = cc.nread
        /\ link'.client = link.client /\ link'.server = link.server
        /\ link'.up = link.up /\ link'.down = Drained(link.down, cc.lastbody)
        /\ UNCHANGED <<sc, sent>>
    BY <1>1, <1>4, ReadFailsEffect
  <2>2. WellFramed(Drained(link.down, cc.lastbody), FALSE)
    BY <1>1, <1>2, StreamTypes, DrainedIsFramed
  <2>3. link.client => InOrder(Drained(link.down, cc.lastbody), cc.nread, sent, sc.nwritten)
    BY <1>1, <1>2, StreamTypes, AnsweredOnce, DrainedInOrder
  <2>4. QED
    BY <1>2, <2>1, <2>2, <2>3 DEF StreamInv
<1>5. QED
  BY <1>3, <1>4

\* A body that is read by its user leaves the start of a message in front.
LEMMA StreamReadBody ==
    ASSUME LinkInv, NEW r \in Requests, ReadBody(r) \/ ReadRequestBody(r)
    PROVE  StreamInv'
<1>1. TypeInv /\ ClientInv /\ ServerInv /\ StreamInv
  BY DEF LinkInv
<1>2. /\ WellFramed(link.up, sc.lastbody) /\ WellFramed(link.down, cc.lastbody)
      /\ link.server => InOrder(link.up, sc.nread, sent, Len(sent))
      /\ link.client => InOrder(link.down, cc.nread, sent, sc.nwritten)
  BY <1>1 DEF StreamInv
<1>3. CASE ReadRequestBody(r)
  <2>1. /\ link.up # <<>> /\ Head(link.up).part = "body"
        /\ link'.client = link.client /\ link'.server = link.server
        /\ link'.down = link.down /\ link'.up = Tail(link.up) /\ UNCHANGED <<cc, sc, sent>>
    BY <1>1, <1>3, ReadRequestBodyEffect
  <2>2. link.up[1].part = "body" /\ link.up \in Seq(Tokens)
    BY <1>1, <2>1, StreamTypes, FirstToken
  <2>3. WellFramed(Tail(link.up), sc.lastbody)
    BY <1>2, <2>1, <2>2, TailFramed
  <2>4. link.server => InOrder(Tail(link.up), sc.nread, sent, Len(sent))
    BY <1>1, <1>2, <2>1, <2>2, StreamTypes, SentOnce, TailInOrder
  <2>5. QED
    BY <1>2, <2>1, <2>3, <2>4 DEF StreamInv
<1>4. CASE ReadBody(r)
  <2>1. /\ link.down # <<>> /\ Head(link.down).part = "body"
        /\ link'.client = link.client /\ link'.server = link.server
        /\ link'.up = link.up /\ link'.down = Tail(link.down) /\ UNCHANGED <<cc, sc, sent>>
    BY <1>1, <1>4, ReadBodyEffect
  <2>2. link.down[1].part = "body" /\ link.down \in Seq(Tokens)
    BY <1>1, <2>1, StreamTypes, FirstToken
  <2>3. WellFramed(Tail(link.down), cc.lastbody)
    BY <1>2, <2>1, <2>2, TailFramed
  <2>4. link.client => InOrder(Tail(link.down), cc.nread, sent, sc.nwritten)
    BY <1>1, <1>2, <2>1, <2>2, StreamTypes, AnsweredOnce, TailInOrder
  <2>5. QED
    BY <1>2, <2>1, <2>3, <2>4 DEF StreamInv
<1>5. QED
  BY <1>3, <1>4

-----------------------------------------------------------------------------
(***************************************************************************)
(* LinkInv is an invariant.                                                *)
(***************************************************************************)
LEMMA LinkDo ==
    ASSUME LinkInv, NEW r \in Requests, Do(r)
    PROVE  ClientInv' /\ ServerInv' /\ StreamInv'
<1>1. TypeInv /\ ClientInv /\ ServerInv /\ StreamInv
  BY DEF LinkInv
<1>2. Len(sent) \in Nat
  BY <1>1, Sizes
<1>3. ASSUME UNCHANGED <<sc, spipe, reader, handler, sent>> PROVE ServerInv'
  BY <1>1, <1>2, <1>3, ServerInvFrame
<1>4. CASE WriteNext(r)
  <2>1. UNCHANGED <<cc, sc, spipe, reader, handler, link, sent>>
    BY <1>1, <1>4, WriteNextEffect
  <2>2. QED
    BY <1>1, <1>3, <1>4, <2>1, ClientInvWriteNext, StreamFrame
<1>5. CASE WriteBegin(r)
  <2>1. /\ cc'.lastbody = cc.lastbody /\ cc'.nread = cc.nread
        /\ UNCHANGED <<sc, spipe, reader, handler, link, sent>>
    BY <1>1, <1>5, WriteBeginEffect
  <2>2. QED
    BY <1>1, <1>3, <1>5, <2>1, ClientInvWriteBegin, StreamFrame
<1>6. CASE WriteEnd(r)
  <2>1. sent' = Append(sent, r) /\ UNCHANGED <<sc, spipe, reader, handler>>
    BY <1>1, <1>6, WriteEndEffect
  <2>2. Len(sent') = Len(sent) + 1 /\ \A k \in 1..Len(sent) : sent'[k] = sent[k]
    BY <1>1, <2>1, Types, AppendProperties
  <2>3. Len(sent) <= Len(sent') /\ Len(sent') \in Nat
    BY <1>2, <2>2
  <2>4. ServerInv'
    BY <1>1, <2>1, <2>2, <2>3, ServerInvFrame
  <2>5. QED
    BY <1>1, <1>6, <2>4, ClientInvWriteEnd, StreamWriteEnd
<1>7. CASE WriteFails(r)
  <2>1. /\ cc'.lastbody = cc.lastbody /\ cc'.nread = cc.nread
        /\ UNCHANGED <<sc, spipe, reader, handler, link, sent>>
    BY <1>1, <1>7, WriteFailsEffect
  <2>2. QED
    BY <1>1, <1>3, <1>7, <2>1, ClientInvWriteFails, StreamFrame
<1>8. CASE SkipResponse(r)
  <2>1. UNCHANGED <<cc, sc, spipe, reader, handler, link, sent>>
    BY <1>1, <1>8, SkipResponseEffect
  <2>2. QED
    BY <1>1, <1>3, <1>8, <2>1, ClientInvSkipResponse, StreamFrame
<1>9. CASE ReadBegin(r)
  <2>1. /\ cc'.lastbody = cc.lastbody /\ cc'.nread = cc.nread
        /\ UNCHANGED <<sc, spipe, reader, handler, link, sent>>
    BY <1>1, <1>9, ReadBeginEffect
  <2>2. QED
    BY <1>1, <1>3, <1>9, <2>1, ClientInvReadBegin, StreamFrame
<1>10. CASE ReadEnd(r)
  <2>1. UNCHANGED <<sc, spipe, reader, handler, sent>>
    BY <1>1, <1>10, ReadEndEffect
  <2>2. QED
    BY <1>1, <1>3, <1>10, <2>1, ClientInvReadEnd, StreamReadEnd
<1>11. CASE ReadFails(r)
  <2>1. UNCHANGED <<sc, spipe, reader, handler, sent>>
    BY <1>1, <1>11, ReadFailsEffect
  <2>2. QED
    BY <1>1, <1>3, <1>11, <2>1, ClientInvReadEnd, StreamReadFails
<1>12. QED
  BY <1>4, <1>5, <1>6, <1>7, <1>8, <1>9, <1>10, <1>11 DEF Do

LEMMA LinkServer ==
    ASSUME LinkInv, Serve \/ \E r \in Requests : Respond(r)
    PROVE  ClientInv' /\ ServerInv' /\ StreamInv'
<1>1. TypeInv /\ ClientInv /\ ServerInv /\ StreamInv
  BY DEF LinkInv
<1>2. ASSUME UNCHANGED <<cc, cpipe, client, sent>> PROVE ClientInv'
  BY <1>1, <1>2, ClientInvFrame
<1>3. CASE ReadRequestBegin
  <2>1. UNCHANGED <<cc, sc, cpipe, client, handler, link, sent>>
    BY <1>1, <1>3, ReadRequestBeginEffect
  <2>2. QED
    BY <1>1, <1>2, <1>3, <2>1, ServerInvReadBegins, StreamFrame
<1>4. CASE ReadRequestEnd
  <2>1. UNCHANGED <<cc, cpipe, client, sent>>
    BY <1>1, <1>4, ReadRequestEndEffect
  <2>2. QED
    BY <1>1, <1>2, <1>4, <2>1, StreamReadRequestEnd, ServerInvReadEnds
<1>5. CASE ReadRequestFails
  <2>1. UNCHANGED <<cc, cpipe, client, sent>>
    BY <1>1, <1>5, ReadRequestFailsEffect
  <2>2. QED
    BY <1>1, <1>2, <1>5, <2>1, ServerInvReadFails, StreamReadFails
<1>6. CASE ReaderSkips
  <2>1. UNCHANGED <<cc, sc, cpipe, client, handler, link, sent>>
    BY <1>1, <1>6, ReaderSkipsEffect
  <2>2. QED
    BY <1>1, <1>2, <1>6, <2>1, ServerInvReaderSkips, StreamFrame
<1>7. ASSUME NEW r \in Requests, NEW kind \in RespKinds, RespondBegin(r, kind)
      PROVE  ClientInv' /\ ServerInv' /\ StreamInv'
  <2>1. /\ sc'.lastbody = sc.lastbody /\ sc'.nread = sc.nread /\ sc'.nwritten = sc.nwritten
        /\ UNCHANGED <<cc, cpipe, client, reader, link, sent>>
    BY <1>1, <1>7, RespondBeginEffect
  <2>2. QED
    BY <1>1, <1>2, <1>7, <2>1, ServerInvRespondBegin, StreamFrame
<1>8. ASSUME NEW r \in Requests, RespondEnd(r)
      PROVE  ClientInv' /\ ServerInv' /\ StreamInv'
  <2>1. UNCHANGED <<cc, cpipe, client, reader, sent>>
    BY <1>1, <1>8, RespondEndEffect
  <2>2. QED
    BY <1>1, <1>2, <1>8, <2>1, ServerInvRespondEnd, StreamRespondEnd
<1>9. ASSUME NEW r \in Requests, RespondFails(r)
      PROVE  ClientInv' /\ ServerInv' /\ StreamInv'
  <2>1. /\ sc'.lastbody = sc.lastbody /\ sc'.nread = sc.nread /\ sc'.nwritten = sc.nwritten
        /\ UNCHANGED <<cc, cpipe, client, reader, link, sent>>
    BY <1>1, <1>9, RespondFailsEffect
  <2>2. QED
    BY <1>1, <1>2, <1>9, <2>1, ServerInvRespondEnd, StreamFrame
<1>10. QED
  BY <1>3, <1>4, <1>5, <1>6, <1>7, <1>8, <1>9 DEF Serve, Respond

LEMMA LinkNext ==
    ASSUME LinkInv, [Next]_vars
    PROVE  LinkInv'
<1>1. TypeInv /\ ClientInv /\ ServerInv /\ StreamInv /\ Len(sent) \in Nat
  BY Sizes DEF LinkInv
<1>2. TypeInv'
  BY <1>1, TypeNext
<1>3. ASSUME NEW r \in Requests, ReadBody(r) \/ ReadRequestBody(r)
      PROVE  ClientInv' /\ ServerInv' /\ StreamInv'
  <2>1. UNCHANGED <<cc, sc, cpipe, spipe, client, reader, handler, sent>>
    BY <1>1, <1>3, ReadBodyEffect, ReadRequestBodyEffect
  <2>2. QED
    BY <1>1, <1>3, <2>1, ClientInvFrame, ServerInvFrame, StreamReadBody
<1>4. ASSUME HijackClient \/ CloseClient \/ HijackServer \/ CloseServer
      PROVE  ClientInv' /\ ServerInv' /\ StreamInv'
  <2>1. /\ cc'.re = cc.re /\ cc'.we = cc.we /\ (cc'.c => cc.c)
        /\ cc'.lastbody = cc.lastbody /\ cc'.nread = cc.nread /\ cc'.pipereq = cc.pipereq
        /\ sc'.we = sc.we /\ (sc'.c => sc.c) /\ sc'.lastbody = sc.lastbody
        /\ sc'.nread = sc.nread /\ sc'.nwritten = sc.nwritten /\ sc'.pipereq = sc.pipereq
        /\ (link'.client => link.client) /\ (link'.server => link.server)
        /\ link'.up = link.up /\ link'.down = link.down
        /\ UNCHANGED <<cpipe, spipe, client, reader, handler, sent>>
    BY <1>1, <1>4, ClosesEffect
  <2>2. ClientInv'
    BY <1>1, <2>1, ClientInvFrame
  <2>3. ServerInv'
    BY <1>1, <2>1, ServerInvFrame
  <2>4. StreamInv'
    BY <1>1, <2>1, StreamFrame
  <2>5. QED
    BY <2>2, <2>3, <2>4
<1>5. ASSUME UNCHANGED vars PROVE ClientInv' /\ ServerInv' /\ StreamInv'
  BY <1>1, <1>5, ClientInvFrame, ServerInvFrame, StreamFrame DEF vars
<1>6. QED
  BY <1>2, <1>3, <1>4, <1>5, LinkDo, LinkServer DEF Next, LinkInv

LEMMA LinkInit == Init => LinkInv
<1>1. SUFFICES ASSUME Init PROVE LinkInv
  OBVIOUS
<1>2. TypeInv
  BY <1>1, TypeInit
<1>3. /\ cc = NewConn /\ sc = NewConn /\ cpipe = Pipeline /\ spipe = Pipeline
      /\ \A r \in Requests : client[r].at = "new" /\ handler[r].at = "none"
      /\ reader.at = "idle" /\ sent = <<>>
      /\ link.up = <<>> /\ link.down = <<>>
  BY <1>1 DEF Init
<1>4. /\ cc.nread = 0 /\ sc.nread = 0 /\ sc.nwritten = 0 /\ Len(sent) = 0
      /\ cpipe.next = 0 /\ cpipe.request = 0 /\ cpipe.response = 0
      /\ spipe.next = 0 /\ spipe.request = 0 /\ spipe.response = 0
  BY <1>3 DEF NewConn, Pipeline
<1>5. ClientInv
  BY <1>3, <1>4 DEF ClientInv, Numbered, WriteTurns, ReadTurns, SentInOrder, AllWrittenSoFar,
     AllReadSoFar
<1>6. ServerInv
  BY <1>3, <1>4 DEF ServerInv, ReaderTurn, Received, AllAnsweredSoFar
<1>7. \A b : WellFramed(<<>>, b)
  BY DEF WellFramed
<1>8. \A s : InOrder(<<>>, 0, s, 0)
  BY DEF InOrder
<1>9. StreamInv
  BY <1>3, <1>4, <1>7, <1>8 DEF StreamInv
<1>10. QED
  BY <1>2, <1>5, <1>6, <1>9 DEF LinkInv

\* Neither ClientConn.Read nor ServerConn.Read takes the middle of a message for its
\* start, whatever bodies their users leave unread and whoever closes: what is in
\* front once lastbody is drained is a head, for any number of pipelined requests.
THEOREM MessagesStayWhole == Spec => []StreamsInSync
<1>1. LinkInv => StreamsInSync
  <2>1. SUFFICES ASSUME LinkInv PROVE StreamsInSync
    OBVIOUS
  <2>2. TypeInv /\ WellFramed(link.up, sc.lastbody) /\ WellFramed(link.down, cc.lastbody)
    BY <2>1 DEF LinkInv, StreamInv
  <2>3. Drained(link.down, cc.lastbody) # <<>> => Parses(Drained(link.down, cc.lastbody))
    BY <2>2, StreamTypes, DrainedIsFramed
  <2>4. Drained(link.up, sc.lastbody) # <<>> => Parses(Drained(link.up, sc.lastbody))
    BY <2>2, StreamTypes, DrainedIsFramed
  <2>5. QED
    BY <2>3, <2>4 DEF StreamsInSync
<1>2. QED
  BY <1>1, LinkInit, LinkNext, PTL DEF Spec

-----------------------------------------------------------------------------
(***************************************************************************)
(* The refinement of PipelinedLink.                                        *)
(***************************************************************************)
LEMMA LinkRefinedInit == Init => Link!Init
  BY DEF Init, NewConn, Link!Init

LEMMA LinkRefinedNext ==
    ASSUME LinkInv, [Next]_vars
    PROVE  [Link!Next]_(Link!vars)
<1> DEFINE got == [r \in Requests |-> client[r].resp]
<1>1. TypeInv /\ ClientInv /\ ServerInv /\ StreamInv
  BY DEF LinkInv
<1>2. client \in [Requests -> Caller] /\ sent \in Seq(Requests)
  BY <1>1, Types
<1>3. ASSUME sc'.nread = sc.nread, sc'.nwritten = sc.nwritten, cc'.nread = cc.nread, UNCHANGED sent,
             \A q \in Requests : client'[q].resp = client[q].resp
      PROVE  UNCHANGED Link!vars
  BY <1>3 DEF Link!vars
<1>4. ASSUME NEW r \in Requests, WriteEnd(r) PROVE Link!Next
  <2>1. /\ sent' = Append(sent, r) /\ UNCHANGED sc /\ cc'.nread = cc.nread
        /\ client[r].at = "writing" /\ OtherCallers(r) /\ client'[r].resp = client[r].resp
    BY <1>1, <1>4, WriteEndEffect
  <2>2. got' = got
    BY <2>1 DEF OtherCallers
  <2>3. \A i \in DOMAIN sent : sent[i] # r
    <3>1. DOMAIN sent = 1..Len(sent)
      BY <1>2, LenProperties
    <3>2. QED
      BY <1>1, <2>1, <3>1, SentIsWritten
  <2>4. Link!Send(r)
    BY <2>1, <2>2, <2>3 DEF Link!Send
  <2>5. QED
    BY <2>4 DEF Link!Next
<1>5. ASSUME NEW r \in Requests, ReadEnd(r) PROVE Link!Next
  <2>1. /\ cc'.nread = cc.nread + 1 /\ UNCHANGED <<sc, sent>> /\ OtherCallers(r)
        /\ client'[r].resp = Head(Drained(link.down, cc.lastbody)).of
    BY <1>1, <1>5, ReadEndEffect
  <2>2. /\ cc.nread < sc.nwritten /\ sent[cc.nread + 1] = r
        /\ Head(Drained(link.down, cc.lastbody)).of = r
    BY <1>5, StreamReadEnd
  <2>3. got' = [got EXCEPT ![r] = r]
    BY <2>1, <2>2 DEF OtherCallers
  <2>4. Link!Deliver
    BY <2>1, <2>2, <2>3 DEF Link!Deliver
  <2>5. QED
    BY <2>4 DEF Link!Next
<1>6. ASSUME ReadRequestEnd PROVE Link!Next
  <2>1. /\ sc'.nread = sc.nread + 1 /\ sc'.nwritten = sc.nwritten /\ UNCHANGED <<cc, client, sent>>
    BY <1>1, <1>6, ReadRequestEndEffect
  <2>2. sc.nread < Len(sent)
    BY <1>6, StreamReadRequestEnd
  <2>3. QED
    BY <2>1, <2>2 DEF Link!Next, Link!Receive
<1>7. ASSUME NEW r \in Requests, RespondEnd(r) PROVE Link!Next
  <2>1. /\ sc'.nread = sc.nread /\ sc'.nwritten = sc.nwritten + 1 /\ UNCHANGED <<cc, client, sent>>
        /\ handler[r].at = "writing"
    BY <1>1, <1>7, RespondEndEffect
  <2>2. sc.nwritten < sc.nread
    BY <1>1, <2>1, AnswererIsNext
  <2>3. QED
    BY <2>1, <2>2 DEF Link!Next, Link!Answer
<1>8. ASSUME NEW r \in Requests,
             \/ WriteNext(r) \/ WriteBegin(r) \/ WriteFails(r) \/ SkipResponse(r)
             \/ ReadBegin(r) \/ ReadFails(r) \/ ReadBody(r) \/ ReadRequestBody(r)
      PROVE  UNCHANGED Link!vars
  <2>1. /\ UNCHANGED <<sc, sent>> /\ cc'.nread = cc.nread
        /\ UNCHANGED client \/ (OtherCallers(r) /\ client'[r].resp = client[r].resp)
    BY <1>1, <1>8, WriteNextEffect, WriteBeginEffect, WriteFailsEffect, SkipResponseEffect,
       ReadBeginEffect, ReadFailsEffect, ReadBodyEffect, ReadRequestBodyEffect
  <2>2. \A q \in Requests : client'[q].resp = client[q].resp
    BY <2>1 DEF OtherCallers
  <2>3. QED
    BY <1>3, <2>1, <2>2
<1>9. ASSUME \/ ReadRequestBegin \/ ReadRequestFails \/ ReaderSkips
             \/ HijackClient \/ CloseClient \/ HijackServer \/ CloseServer
      PROVE  UNCHANGED Link!vars
  <2>1. /\ sc'.nread = sc.nread /\ sc'.nwritten = sc.nwritten /\ cc'.nread = cc.nread
        /\ UNCHANGED <<client, sent>>
    BY <1>1, <1>9, ReadRequestBeginEffect, ReadRequestFailsEffect, ReaderSkipsEffect, ClosesEffect
  <2>2. QED
    BY <1>3, <2>1
<1>10. ASSUME NEW r \in Requests, RespondFails(r) \/ \E kind \in RespKinds : RespondBegin(r, kind)
       PROVE  UNCHANGED Link!vars
  <2>1. /\ sc'.nread = sc.nread /\ sc'.nwritten = sc.nwritten /\ UNCHANGED <<cc, client, sent>>
    BY <1>1, <1>10, RespondFailsEffect, RespondBeginEffect
  <2>2. QED
    BY <1>3, <2>1
<1>11. CASE UNCHANGED vars
  BY <1>3, <1>11 DEF vars
<1>12. QED
  BY <1>4, <1>5, <1>6, <1>7, <1>8, <1>9, <1>10, <1>11 DEF Next, Do, Serve, Respond

\* A ClientConn and a ServerConn on one connection implement PipelinedLink: requests of
\* any number of goroutines form one order, are received, answered and delivered in
\* that order, and each caller of Do gets the response to its own request or an error.
THEOREM PipeliningIsRefined == Spec => ImplementsPipelinedLink
<1>1. Spec => []LinkInv
  BY LinkInit, LinkNext, PTL DEF Spec
<1>2. QED
  BY <1>1, LinkRefinedInit, LinkRefinedNext, PTL DEF Spec, ImplementsPipelinedLink, Link!Spec
=============================================================================
