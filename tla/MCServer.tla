------------------------------ MODULE MCServer ------------------------------
(***************************************************************************)
(* Instances of the server's connection.                                   *)
(***************************************************************************)
EXTENDS TimeoutHandler

Plain == [method |-> "GET", proto |-> "1.1", conn |-> "", body |-> NoBody, declared |-> 0,
          expect |-> "no", fault |-> "no", timed |-> FALSE]

Post(n) == [Plain EXCEPT !.method = "POST", !.body = n]

\* Every framing of a request, on both protocol versions, and every fault.
FirstRequests ==
    {Plain,
     [Plain EXCEPT !.method = "HEAD", !.proto = "1.0", !.conn = "keep-alive"],
     [Plain EXCEPT !.proto = "1.0", !.conn = "keep-alive"],
     [Plain EXCEPT !.timed = TRUE],
     [Plain EXCEPT !.fault = "malformed"],
     [Plain EXCEPT !.expect = "other"],
     [Plain EXCEPT !.expect = "continue"],
     [Plain EXCEPT !.fault = "coding"],
     Post(1),
     [Post(1) EXCEPT !.proto = "1.0", !.declared = 1, !.conn = "keep-alive"],
     [Post(4) EXCEPT !.declared = 4],
     [Post(1) EXCEPT !.declared = 2],
     [Post(1) EXCEPT !.expect = "continue"]}

AllRequests == <<FirstRequests, {Plain, Post(1)}>>

TimedRequests == <<{[Plain EXCEPT !.timed = TRUE]}, {Plain}>>

NoFields == [conn |-> "", cl |-> NoLength, te |-> "", ct |-> FALSE]

AllReplyHeaders ==
    {NoFields,
     [NoFields EXCEPT !.cl = 1, !.ct = TRUE],
     [NoFields EXCEPT !.cl = 1, !.te = "chunked", !.conn = "keep-alive"]}

PlainReply == {NoFields}
=============================================================================
