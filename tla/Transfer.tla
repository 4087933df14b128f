------------------------------ MODULE Transfer ------------------------------
(***************************************************************************)
(* Framing of HTTP messages: what a reader of a message concludes from its *)
(* header about the length of its body, and the reader of such a body.     *)
(*                                                                         *)
(* The wire is a sequence of tokens.  A token stands for one line or for   *)
(* one unit of payload; it carries the number of the message it is part    *)
(* of, which no code looks at:                                             *)
(*   head     request or status line and header, up to the empty line      *)
(*   size     a chunk-size line, n the size                                *)
(*   byte     one unit of payload                                          *)
(*   crlf     the line end behind a chunk, or the empty line at the end of *)
(*            a chunked body                                               *)
(*   trailer  the trailer fields with the empty line behind them           *)
(* A Content-Length header is a number, NoLength or BadLength; a           *)
(* Transfer-Encoding header is the sequence of its comma separated values. *)
(***************************************************************************)
EXTENDS Integers, Sequences, FiniteSets

NoLength == -1
BadLength == -2

Token(kind, id, n) == [kind |-> kind, id |-> id, n |-> n]

-----------------------------------------------------------------------------
(***************************************************************************)
(* Header to body length.                                                  *)
(***************************************************************************)
noBodyExpected(method) == method = "HEAD"

bodyAllowedForStatus(status) == status \notin (100 .. 199) \cup {204, 304}

\* The encodings in front of the first "identity", which is not recorded.
Recorded(te) ==
    SubSeq(te, 1, CHOOSE k \in 0 .. Len(te) :
                      /\ \A i \in 1 .. k : te[i] # "identity"
                      /\ k < Len(te) => te[k + 1] = "identity")

\* "chunked", "none", or "error" for an encoding or a stack of encodings that
\* is not supported.
fixTransferEncoding(method, te) ==
    LET rec == Recorded(te)
    IN CASE te = <<>> \/ noBodyExpected(method) -> "none"
         [] OTHER -> CASE rec = <<>> -> "none"
                       [] rec = <<"chunked">> -> "chunked"
                       [] OTHER -> "error"

\* BadLength stands for the error.  (That a response of type multipart/byteranges needs
\* a length is left out.)
fixLength(isResponse, status, method, cl, te) ==
    CASE noBodyExpected(method) \/ status \div 100 = 1 \/ status \in {204, 304} -> 0
      [] OTHER -> CASE te = "chunked" -> -1
                    [] te # "chunked" /\ cl # NoLength -> cl
                    [] OTHER -> IF ~isResponse /\ method = "GET" THEN 0 ELSE -1

\* The trailer map stays empty whatever the header lists, so only a forbidden
\* key has an effect.
fixTrailer(trailer) ==
    IF trailer \cap {"Transfer-Encoding", "Trailer", "Content-Length"} # {}
    THEN "error" ELSE "none"

shouldClose(proto, connection) ==
    \/ proto = "1.0" /\ connection # "keep-alive"
    \/ proto = "1.1" /\ connection = "close"

(***************************************************************************)
(* readTransfer for a request: like a 200 answer to a GET.  The result is  *)
(* the state of a body reader: the kind of reader, where it stands in the  *)
(* chunked coding, the units it may still take (of the body, or of the     *)
(* current chunk), whether it met the end, and whether it was closed.      *)
(***************************************************************************)
BodyReader(kind, n) ==
    [kind |-> kind, n |-> n, at |-> IF kind = "chunked" THEN "size" ELSE "data",
     end |-> FALSE, closed |-> FALSE]

RequestTransfer(h) ==
    LET te == fixTransferEncoding("GET", h.te)
        n  == fixLength(FALSE, 200, "GET", h.cl, te)
        tr == fixTrailer(h.trailer)
    IN [err  |-> te = "error" \/ n = BadLength \/ tr = "error",
        len  |-> n,
        body |-> IF te = "chunked" THEN BodyReader("chunked", 0)
                 ELSE BodyReader("limited", IF n > 0 THEN n ELSE 0)]

\* readTransfer for a response to a request with that method: how the client
\* finds the end of the body, and whether it closes the connection behind it.
ResponseTransfer(method, h) ==
    LET te == fixTransferEncoding(method, h.te)
        n  == fixLength(TRUE, h.code, method, h.cl, te)
        unbounded == n = -1 /\ te # "chunked" /\ bodyAllowedForStatus(h.code)
    IN [len   |-> n,
        close |-> shouldClose(h.proto, h.conn) \/ unbounded,
        body  |-> CASE te = "chunked" -> "chunked"
                    [] te # "chunked" /\ n >= 0 -> "limited"
                    [] OTHER -> "eof"]

-----------------------------------------------------------------------------
(***************************************************************************)
(* body.Read, chunkedReader.Read and readTrailer, one token at a time.     *)
(* A limited reader at zero and a chunked reader behind its trailer are at *)
(* the end.                                                                *)
(***************************************************************************)
NoEnd(b) == b.end   \* a variant that only looks at the flag
AtEnd(b) == b.end \/ (b.kind = "limited" /\ b.n = 0)

\* Does this token carry payload that the caller of Read gets?
IsPayload(b) == b.at = "data"

\* beginChunk on a chunk-size line; the zero chunk leads to the trailer.
BeginChunk(b, tok) ==
    [b EXCEPT !.n = tok.n, !.at = IF tok.n = 0 THEN "trailer" ELSE "data"]

\* One unit of the chunk, or of the body.
ReadUnit(b) ==
    [b EXCEPT !.n = @ - 1,
              !.at = IF b.kind = "chunked" /\ b.n = 1 THEN "crlf" ELSE "data"]

\* readTrailer takes the empty line, or the trailer fields.
readTrailer(b, tok) ==
    IF tok.kind \in {"crlf", "trailer"} THEN [b EXCEPT !.end = TRUE] ELSE [b EXCEPT !.at = "error"]

BodyStep(b, tok) ==
    CASE b.at = "data" -> ReadUnit(b)
      [] b.at = "size" -> IF tok.kind = "size" THEN BeginChunk(b, tok) ELSE [b EXCEPT !.at = "error"]
      [] b.at = "crlf" -> [b EXCEPT !.at = IF tok.kind = "crlf" THEN "size" ELSE "error"]
      [] b.at = "trailer" -> readTrailer(b, tok)

-----------------------------------------------------------------------------
(***************************************************************************)
(* The writing side.  A request to send has a method, a protocol version,  *)
(* a Body of that many units, or NoBody, and the ContentLength its author  *)
(* declared (zero also when it was left unset).  newTransferWriter looks   *)
(* for a first unit when the length is zero, to tell unset from empty.     *)
(***************************************************************************)
NoBody == -1

newTransferWriter(r) ==
    LET atLeastHTTP11 == r.proto = "1.1"
        probe == r.body # NoBody /\ atLeastHTTP11 /\ r.declared = 0
        body  == IF probe /\ r.body = 0 THEN NoBody ELSE r.body
        len   == IF probe /\ r.body > 0 THEN -1 ELSE r.declared
        chunked == body # NoBody /\ atLeastHTTP11 /\ len < 0
    IN [err |-> r.declared # 0 /\ r.body = NoBody,
        body |-> body, chunked |-> chunked,
        len |-> IF ~chunked /\ body = NoBody THEN 0 ELSE len]

shouldSendContentLength(t, method) ==
    ~t.chunked /\ (t.len > 0 \/ method \in {"POST", "PUT"})

\* transferWriter.WriteHeader: the framing fields of the header.
TransferHeader(t, method) ==
    [cl |-> IF shouldSendContentLength(t, method)
            THEN (IF t.len < 0 THEN BadLength ELSE t.len) ELSE NoLength,
     te |-> IF t.chunked THEN <<"chunked">> ELSE <<>>]

\* chunkedWriter.Write never writes an empty chunk; Close writes the zero chunk
\* and WriteBody the empty line behind it.
ChunkTokens(id, n) ==
    [i \in 1 .. 3 * n |-> CASE i % 3 = 1 -> Token("size", id, 1)
                            [] i % 3 = 2 -> Token("byte", id, 1)
                            [] i % 3 = 0 -> Token("crlf", id, 0)]
    \o <<Token("size", id, 0), Token("crlf", id, 0)>>

\* WriteBody copies no more than the declared length, and reports an error when
\* the body has another length; the sender then gives the connection up.
BodyTokens(id, t) ==
    CASE t.body = NoBody -> <<>>
      [] t.body # NoBody /\ t.chunked -> ChunkTokens(id, t.body)
      [] OTHER -> [i \in 1 .. (IF t.len >= 0 /\ t.len < t.body THEN t.len ELSE t.body)
                      |-> Token("byte", id, 1)]

WrongLength(t) == t.len # -1 /\ t.body # NoBody /\ t.len # t.body
=============================================================================
