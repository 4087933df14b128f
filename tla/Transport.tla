----------------------------- MODULE Transport ------------------------------
(***************************************************************************)
(* Transport: the pool of idle connections, and the persistent connections *)
(* with their readLoop goroutines, between the goroutines that call        *)
(* RoundTrip and the servers at the other end.                             *)
(*                                                                         *)
(* A request is known by its caller and number; a response carries the     *)
(* request it answers, which no code looks at.  Connect methods (scheme,   *)
(* address and proxy) are opaque keys.                                     *)
(***************************************************************************)
EXTENDS Integers, Sequences, FiniteSets, SequencesExt

CONSTANTS
    Callers,          \* goroutines that call RoundTrip
    Conns,            \* connections that may be dialled
    Keys, KeyOf,      \* connectMethod strings, and the one of each caller's requests
    MaxRequests,      \* the number of requests of each caller
    MaxIdle,          \* MaxIdleConnsPerHost
    KeepAlives,       \* ~DisableKeepAlives
    Replies,          \* kinds of responses: ContentLength # 0, Close on either side,
                      \* a body that is not the gzip its header announces
    BodyUses,         \* what a caller does with a body: Close it, Read it to its end, or
                      \* neither (also: a body whose Read and Close fail half way)
    RepliesTo,        \* those that a request may get
    Unasked,          \* those that may come on a connection without a request
    MaxEvents,        \* bound on calls of CloseIdleConnections and unsolicited responses
    Nil

ASSUME TransportAssumption ==
    /\ KeyOf \in [Callers -> Keys] /\ MaxRequests \in [Callers -> Nat \ {0}]
    /\ MaxIdle \in Nat \ {0} /\ MaxEvents \in Nat /\ KeepAlives \in BOOLEAN
    /\ Unasked \in [Conns -> SUBSET Replies]
    /\ Replies \subseteq [body : BOOLEAN, close : BOOLEAN, err : BOOLEAN]
    /\ \A r \in Replies : r.err => r.body
    /\ BodyUses \subseteq {"close", "eof", "abandon"}

Ids == UNION {{c} \X (1 .. MaxRequests[c]) : c \in Callers}

\* What an unsolicited response carries in place of a request.
NoRequest == <<Nil, 0>>
Responses == [id : Ids \cup {Nil, NoRequest}, body : BOOLEAN, close : BOOLEAN, err : BOOLEAN]

\* Nil stands for no connection, no response and no caller.
ASSUME NilAssumption == Nil \notin Callers \cup Conns \cup Keys \cup Responses

VARIABLES
    idle,      \* idleConn: for each key, the idle connections, oldest first
    pconn,     \* for each connection: state, key, numExpectedResponses, reqch
    loop,      \* for each connection: where readLoop is, its rc, its alive, lastbody
    signal,    \* for each connection: the bodyEOFSignal of its last body
    caller,    \* for each caller: where it is, its request's number, connection, result
    wire,      \* for each connection: requests and responses under way, the far end, and
               \* a history variable (see Overtaken)
    reap,      \* connections that CloseIdleConnections still has to close
    events     \* CloseIdleConnections called, and unsolicited responses sent

vars == <<idle, pconn, loop, signal, caller, wire, reap, events>>

Id(c) == <<c, caller[c].num>>

Init ==
    /\ idle = [k \in Keys |-> <<>>]
    /\ pconn = [p \in Conns |-> [state |-> "none", key |-> Nil, expected |-> 0, reqch |-> <<>>]]
    /\ loop = [p \in Conns |-> [at |-> "none", rc |-> Nil, resp |-> Nil, alive |-> TRUE,
                                lastbody |-> FALSE]]
    /\ signal = [p \in Conns |-> [fn |-> FALSE, closed |-> FALSE]]
    /\ caller = [c \in Callers |-> [at |-> "start", num |-> 1, conn |-> Nil, result |-> Nil]]
    /\ wire = [p \in Conns |-> [requests |-> <<>>, responses |-> <<>>, peer |-> "open",
                                overtaken |-> FALSE]]
    /\ reap = {} /\ events = 0

-----------------------------------------------------------------------------
(***************************************************************************)
(* The pool.                                                               *)
(***************************************************************************)
isBroken(p) == pconn[p].state = "closed"

\* close and closeLocked, as a change to pconn.
Closed(p) == [pconn EXCEPT ![p].state = IF @ = "none" THEN @ ELSE "closed"]

\* What putIdleConn answers, the pool and the connections behind it.
CanKeep(p) == KeepAlives /\ ~isBroken(p) /\ Len(idle[pconn[p].key]) < MaxIdle

putIdleConn(p) ==
    \/ /\ CanKeep(p)
       /\ idle' = [idle EXCEPT ![pconn[p].key] = Append(@, p)]
       /\ UNCHANGED pconn
    \/ /\ ~CanKeep(p)
       /\ pconn' = Closed(p)
       /\ UNCHANGED idle

\* getIdleConn pops from the end until it finds a connection that is not broken.
Usable(k) == {i \in DOMAIN idle[k] : ~isBroken(idle[k][i])}
LastUsable(k) == {i \in Usable(k) : \A j \in Usable(k) : j <= i}

\* A variant that leaves the pool as it is until its connections are closed.
CloseInPlace ==
    /\ events < MaxEvents /\ reap = {}
    /\ events' = events + 1
    /\ reap' = UNION {ToSet(idle[k]) : k \in Keys}
    /\ UNCHANGED <<idle, pconn, loop, signal, caller, wire>>

\* CloseIdleConnections empties the pool and then closes what was in it.
CloseIdleConnections ==
    /\ events < MaxEvents /\ reap = {}
    /\ events' = events + 1
    /\ reap' = UNION {ToSet(idle[k]) : k \in Keys}
    /\ idle' = [k \in Keys |-> <<>>]
    /\ UNCHANGED <<pconn, loop, signal, caller, wire>>

CloseIdle(p) ==
    /\ p \in reap
    /\ reap' = reap \ {p} /\ pconn' = Closed(p)
    /\ UNCHANGED <<idle, loop, signal, caller, wire, events>>

-----------------------------------------------------------------------------
(***************************************************************************)
(* RoundTrip, in the goroutine of a caller.                                *)
(***************************************************************************)
Goto(c, at) == caller' = [caller EXCEPT ![c].at = at]
Leave(c)    == caller' = [caller EXCEPT ![c].at = "done", ![c].conn = Nil,
                                         ![c].result = Nil]

\* RoundTrip returns; only a response with a body keeps the caller at its connection.
Return(c, result) ==
    LET body == result # Nil /\ result.body /\ ~result.err IN
    caller' = [caller EXCEPT ![c].result = Nil, ![c].conn = IF body THEN @ ELSE Nil,
                             ![c].at = IF body THEN "body" ELSE "done"]

\* A variant that leaves the connection it finds in the pool.
BorrowIdleConn(c) ==
    LET k == KeyOf[c] IN
    /\ caller[c].at = "start"
    /\ \E i \in LastUsable(k) :
          caller' = [caller EXCEPT ![c].at = "count", ![c].conn = idle[k][i]]
    /\ UNCHANGED <<idle, pconn, loop, signal, wire, reap, events>>

\* getConn finds an idle connection.
GetIdleConn(c) ==
    LET k == KeyOf[c] IN
    /\ caller[c].at = "start"
    /\ \E i \in LastUsable(k) :
          /\ caller' = [caller EXCEPT ![c].at = "count", ![c].conn = idle[k][i]]
          /\ idle' = [idle EXCEPT ![k] = SubSeq(@, 1, i - 1)]
    /\ UNCHANGED <<pconn, loop, signal, wire, reap, events>>

NoIdleConn(c) ==
    /\ caller[c].at = "start" /\ Usable(KeyOf[c]) = {}
    /\ idle' = [idle EXCEPT ![KeyOf[c]] = <<>>]

Fresh == {p \in Conns : pconn[p].state = "none"}

\* There is none; dial, the CONNECT to a proxy and the handshake all succeed.
Dial(c) ==
    LET p == CHOOSE q \in Fresh : TRUE IN
    /\ NoIdleConn(c) /\ Fresh # {}
    /\ caller' = [caller EXCEPT ![c].at = "count", ![c].conn = p]
    /\ pconn' = [pconn EXCEPT ![p].state = "open", ![p].key = KeyOf[c]]
    /\ loop' = [loop EXCEPT ![p].at = "peek"]
    /\ UNCHANGED <<signal, wire, reap, events>>

\* One of them fails.
DialFails(c) ==
    /\ NoIdleConn(c)
    /\ Return(c, Nil)
    /\ UNCHANGED <<pconn, loop, signal, wire, reap, events>>

\* An unsolicited response that readLoop has not yet dealt with.
UnaskedWaits(p) ==
    \E i \in DOMAIN wire[p].responses : wire[p].responses[i].id = NoRequest

\* If one waits now, it will be taken for the answer: the history of p records it.
CountRequest(c) ==
    LET p == caller[c].conn IN
    /\ caller[c].at = "count"
    /\ pconn' = [pconn EXCEPT ![p].expected = @ + 1]
    /\ Goto(c, "write")
    /\ wire' = [wire EXCEPT ![p].overtaken = @ \/ UnaskedWaits(p)]
    /\ UNCHANGED <<idle, loop, signal, reap, events>>

\* The request is written into a buffer and flushed; the result of the flush is
\* not looked at, so on a closed connection the request is lost without notice
\* unless it is larger than the buffer.
WriteRequest(c) ==
    LET p == caller[c].conn IN
    /\ caller[c].at = "write"
    /\ Goto(c, "send")
    /\ wire' = IF pconn[p].state = "open" /\ wire[p].peer = "open"
               THEN [wire EXCEPT ![p].requests = Append(@, Id(c))] ELSE wire
    /\ UNCHANGED <<idle, pconn, loop, signal, reap, events>>

WriteFails(c) ==
    LET p == caller[c].conn IN
    /\ caller[c].at = "write" /\ (isBroken(p) \/ wire[p].peer = "closed")
    /\ pconn' = Closed(p)
    /\ Return(c, Nil)
    /\ UNCHANGED <<idle, loop, signal, wire, reap, events>>

SendRequest(c) ==
    /\ caller[c].at = "send"
    /\ pconn' = [pconn EXCEPT ![caller[c].conn].reqch = Append(@, c)]
    /\ caller' = [caller EXCEPT ![c].at = "receive", ![c].result = Nil]
    /\ UNCHANGED <<idle, loop, signal, wire, reap, events>>

\* The channel of the request holds its answer.
Answered(c) == caller[c].at = "receive" /\ caller[c].result # Nil

\* A variant that counts a response once for its header and once for its body.
ReceiveCountingBody(c) ==
    /\ Answered(c)
    /\ pconn' = [pconn EXCEPT ![caller[c].conn].expected =
                    @ - (IF caller[c].result.body THEN 2 ELSE 1)]
    /\ Return(c, caller[c].result)
    /\ UNCHANGED <<idle, loop, signal, wire, reap, events>>

ReceiveAnswer(c) ==
    /\ Answered(c)
    /\ pconn' = [pconn EXCEPT ![caller[c].conn].expected = @ - 1]
    /\ Return(c, caller[c].result)
    /\ UNCHANGED <<idle, loop, signal, wire, reap, events>>

NextRequest(c) ==
    /\ caller[c].at = "done" /\ caller[c].num < MaxRequests[c]
    /\ caller' = [caller EXCEPT ![c] = [at |-> "start", num |-> @.num + 1, conn |-> Nil,
                                        result |-> Nil]]
    /\ UNCHANGED <<idle, pconn, loop, signal, wire, reap, events>>

-----------------------------------------------------------------------------
(***************************************************************************)
(* The body of a response.  The function in its bodyEOFSignal gives the    *)
(* connection back and then waits for readLoop to take notice.             *)
(***************************************************************************)

\* fn up to its send, called while readLoop is at the given place: alive is shared.
GiveBack(p, at) ==
    LET kept == loop[p].alive /\ CanKeep(p) IN
    /\ loop' = [loop EXCEPT ![p].alive = kept, ![p].at = at]
    /\ \/ kept /\ putIdleConn(p)
       \/ ~kept /\ pconn' = Closed(p) /\ UNCHANGED idle

\* Close marks the signal before it runs the function, Read at the end of the
\* body clears the function behind it.
UseBody(c, use) ==
    LET p == caller[c].conn IN
    /\ caller[c].at = "body" /\ use \in BodyUses
    /\ \/ /\ use = "abandon" /\ Leave(c)
          /\ UNCHANGED <<idle, pconn, loop, signal>>
       \/ /\ use # "abandon" /\ Goto(c, "signal")
          /\ signal' = [signal EXCEPT ![p].closed = use = "close"]
          /\ GiveBack(p, loop[p].at)
    /\ UNCHANGED <<wire, reap, events>>

\* waitForBodyRead <- true
Signal(c) ==
    LET p == caller[c].conn IN
    /\ caller[c].at = "signal" /\ loop[p].at = "wait"
    /\ loop' = [loop EXCEPT ![p].at = "round"]
    /\ Goto(c, "clear")
    /\ UNCHANGED <<idle, pconn, signal, wire, reap, events>>

\* es.fn = nil
ClearSignal(c) ==
    /\ caller[c].at = "clear"
    /\ signal' = [signal EXCEPT ![caller[c].conn].fn = FALSE]
    /\ Leave(c)
    /\ UNCHANGED <<idle, pconn, loop, wire, reap, events>>

-----------------------------------------------------------------------------
(***************************************************************************)
(* readLoop, one goroutine for each connection.                            *)
(***************************************************************************)
At(p, at) == loop[p].at = at

\* A variant that waits for data only.
PeekData(p) ==
    /\ At(p, "peek") /\ wire[p].responses # <<>>
    /\ loop' = [loop EXCEPT ![p].at = "peeked"]
    /\ UNCHANGED <<idle, pconn, signal, caller, wire, reap, events>>

\* Peek comes back with data, with the end of the stream, or because the
\* connection has been closed on this side.
Peek(p) ==
    /\ At(p, "peek")
    /\ wire[p].responses # <<>> \/ wire[p].peer = "closed" \/ isBroken(p)
    /\ loop' = [loop EXCEPT ![p].at = "peeked"]
    /\ UNCHANGED <<idle, pconn, signal, caller, wire, reap, events>>

\* Nobody is waiting for an answer: the loop ends.
NothingExpected(p) ==
    /\ At(p, "peeked") /\ pconn[p].expected = 0
    /\ pconn' = Closed(p)
    /\ loop' = [loop EXCEPT ![p].at = "exit"]
    /\ UNCHANGED <<idle, signal, caller, wire, reap, events>>

TakeRequest(p) ==
    /\ At(p, "peeked") /\ pconn[p].expected # 0 /\ pconn[p].reqch # <<>>
    /\ pconn' = [pconn EXCEPT ![p].reqch = Tail(@)]
    /\ loop' = [loop EXCEPT ![p].at = "advance", ![p].rc = Head(pconn[p].reqch)]
    /\ UNCHANGED <<idle, signal, caller, wire, reap, events>>

\* lastbody.Close().  When the reader of the body has not cleared fn yet, it runs
\* a second time, and its send waits for the very goroutine that makes it.
CloseLastBody(p) ==
    LET again == loop[p].lastbody /\ ~signal[p].closed /\ signal[p].fn IN
    /\ At(p, "advance")
    /\ signal' = [signal EXCEPT ![p].closed = @ \/ loop[p].lastbody]
    /\ \/ again /\ GiveBack(p, "stuck")
       \/ /\ ~again
          /\ loop' = [loop EXCEPT ![p].at = "read", ![p].lastbody = FALSE]
          /\ UNCHANGED <<idle, pconn>>
    /\ UNCHANGED <<caller, wire, reap, events>>

\* A variant that gives every connection back at once.
ReadAndGiveBack(p) ==
    LET resp  == Head(wire[p].responses)
        alive == loop[p].alive /\ ~resp.err /\ ~resp.close
    IN
    /\ At(p, "read") /\ wire[p].responses # <<>>
    /\ wire' = [wire EXCEPT ![p].responses = Tail(@)]
    /\ loop' = [loop EXCEPT ![p].at = "deliver", ![p].resp = resp, ![p].lastbody = resp.body,
                            ![p].alive = alive /\ CanKeep(p)]
    /\ UNCHANGED signal
    /\ \/ alive /\ putIdleConn(p)
       \/ ~alive /\ UNCHANGED <<idle, pconn>>
    /\ UNCHANGED <<caller, reap, events>>

\* A connection whose response has no body is given back before the response is
\* handed over.
ReadResponse(p) ==
    LET resp  == Head(wire[p].responses)
        alive == loop[p].alive /\ ~resp.err /\ ~resp.close
    IN
    /\ At(p, "read") /\ wire[p].responses # <<>>
    /\ wire' = [wire EXCEPT ![p].responses = Tail(@)]
    /\ loop' = [loop EXCEPT ![p].at = "deliver", ![p].resp = resp, ![p].lastbody = resp.body,
                            ![p].alive = alive /\ (resp.body \/ CanKeep(p))]
    /\ signal' = IF resp.body THEN [signal EXCEPT ![p] = [fn |-> TRUE, closed |-> FALSE]]
                              ELSE signal
    /\ \/ alive /\ ~resp.body /\ putIdleConn(p)
       \/ resp.err /\ pconn' = Closed(p) /\ UNCHANGED idle
       \/ ~resp.err /\ (resp.body \/ ~alive) /\ UNCHANGED <<idle, pconn>>
    /\ UNCHANGED <<caller, reap, events>>

Failure == [id |-> Nil, body |-> FALSE, close |-> TRUE, err |-> TRUE]

ReadFails(p) ==
    /\ At(p, "read")
    /\ isBroken(p) \/ (wire[p].responses = <<>> /\ wire[p].peer = "closed")
    /\ loop' = [loop EXCEPT ![p].at = "deliver", ![p].resp = Failure, ![p].alive = FALSE]
    /\ pconn' = Closed(p)
    /\ UNCHANGED <<idle, signal, caller, wire, reap, events>>

\* rc.ch <- responseAndError{resp, err}, and the wait for the body if there is one.
Deliver(p) ==
    /\ At(p, "deliver")
    /\ caller' = [caller EXCEPT ![loop[p].rc].result = loop[p].resp]
    /\ loop' = [loop EXCEPT ![p].at = IF loop[p].resp.body THEN "wait" ELSE "round",
                            ![p].rc = Nil, ![p].resp = Nil]
    /\ UNCHANGED <<idle, pconn, signal, wire, reap, events>>

EndRound(p) ==
    /\ At(p, "round")
    /\ \/ /\ loop[p].alive
          /\ loop' = [loop EXCEPT ![p].at = "peek"] /\ UNCHANGED pconn
       \/ /\ ~loop[p].alive
          /\ loop' = [loop EXCEPT ![p].at = "exit"] /\ pconn' = Closed(p)
    /\ UNCHANGED <<idle, signal, caller, wire, reap, events>>

-----------------------------------------------------------------------------
(***************************************************************************)
(* The far end answers in order, may speak unasked (a server that gives up *)
(* on an idle connection says so), and may close the connection at any     *)
(* time; what it does once this side has closed goes unseen.               *)
(***************************************************************************)
Reply(p, r) ==
    /\ pconn[p].state = "open" /\ wire[p].peer = "open" /\ wire[p].requests # <<>>
    /\ r \in RepliesTo[Head(wire[p].requests)]
    /\ wire' = [wire EXCEPT
          ![p].requests = Tail(@),
          ![p].responses = Append(@, [id |-> Head(wire[p].requests), body |-> r.body,
                                      close |-> r.close, err |-> r.err]),
          ![p].peer = IF r.close THEN "closed" ELSE @]
    /\ UNCHANGED <<idle, pconn, loop, signal, caller, reap, events>>

\* Sent while a response is expected, it cannot be told from that response.
Unsolicited(p, r) ==
    /\ pconn[p].state = "open" /\ wire[p].peer = "open" /\ r \in Unasked[p]
    /\ events < MaxEvents /\ events' = events + 1
    /\ wire' = [wire EXCEPT
          ![p].responses = Append(@, [id |-> NoRequest, body |-> r.body,
                                      close |-> r.close, err |-> r.err]),
          ![p].peer = IF r.close THEN "closed" ELSE @,
          ![p].overtaken = @ \/ pconn[p].expected # 0]
    /\ UNCHANGED <<idle, pconn, loop, signal, caller, reap>>

PeerCloses(p) ==
    /\ pconn[p].state = "open" /\ wire[p].peer = "open"
    /\ wire' = [wire EXCEPT ![p].peer = "closed", ![p].requests = <<>>]
    /\ UNCHANGED <<idle, pconn, loop, signal, caller, reap, events>>

-----------------------------------------------------------------------------
RoundTrip(c) ==
    \/ GetIdleConn(c) \/ Dial(c) \/ DialFails(c) \/ CountRequest(c)
    \/ WriteRequest(c) \/ WriteFails(c) \/ SendRequest(c) \/ ReceiveAnswer(c)
    \/ Signal(c) \/ ClearSignal(c)

readLoop(p) ==
    \/ Peek(p) \/ NothingExpected(p) \/ TakeRequest(p) \/ CloseLastBody(p)
    \/ ReadResponse(p) \/ ReadFails(p) \/ Deliver(p) \/ EndRound(p)

Answer(p) == PeerCloses(p) \/ \E r \in Replies : Reply(p, r)

Next ==
    \/ CloseIdleConnections
    \/ \E c \in Callers : RoundTrip(c) \/ NextRequest(c) \/ \E use \in BodyUses : UseBody(c, use)
    \/ \E p \in Conns : \/ CloseIdle(p) \/ readLoop(p) \/ Answer(p)
                        \/ \E r \in Replies : Unsolicited(p, r)

\* Goroutines are scheduled; a server that holds a request answers it or goes away.
Fairness ==
    /\ \A c \in Callers : WF_vars(RoundTrip(c))
    /\ \A p \in Conns : WF_vars(readLoop(p)) /\ WF_vars(wire[p].requests # <<>> /\ Answer(p))

Spec == Init /\ [][Next]_vars /\ Fairness

-----------------------------------------------------------------------------
(***************************************************************************)
(* Properties.                                                             *)
(***************************************************************************)

\* The variables of Transport, of the persistConns and of their readLoops keep
\* their types; numExpectedResponses never falls below 0.
TypeOK ==
    /\ idle \in [Keys -> Seq(Conns)]
    /\ pconn \in [Conns -> [state : {"none", "open", "closed"}, key : Keys \cup {Nil},
                            expected : Nat,
                            reqch : Seq(Callers)]]
    /\ loop \in [Conns -> [at : {"none", "peek", "peeked", "advance", "read", "deliver", "wait",
                                 "round", "exit", "stuck"},
                           rc : Callers \cup {Nil}, resp : Responses \cup {Nil},
                           alive : BOOLEAN, lastbody : BOOLEAN]]
    /\ signal \in [Conns -> [fn : BOOLEAN, closed : BOOLEAN]]
    /\ caller \in [Callers -> [at : {"start", "count", "write", "send", "receive", "body",
                                     "signal", "clear", "done"},
                               num : Nat \ {0}, conn : Conns \cup {Nil},
                               result : Responses \cup {Nil}]]
    /\ wire \in [Conns -> [requests : Seq(Ids), responses : Seq(Responses),
                           peer : {"open", "closed"}, overtaken : BOOLEAN]]
    /\ reap \subseteq Conns /\ events \in 0 .. MaxEvents

\* Caller c holds p and its request has not been answered on it.
InUse(c, p) ==
    /\ caller[c].conn = p
    /\ caller[c].at \in {"count", "write", "send", "receive"} /\ caller[c].result = Nil
    /\ ~(loop[p].at = "deliver" /\ loop[p].rc = c)

\* The places of p in the pool.
Slots(p) == {s \in Keys \X (1 .. MaxIdle) :
                s[2] <= Len(idle[s[1]]) /\ idle[s[1]][s[2]] = p}

\* readLoop notices an unsolicited response only if none is expected at that moment.
\* A connection is overtaken when one was sent while a response was expected, or was
\* still waiting for readLoop to look when the next request was counted.
Overtaken(p) == wire[p].overtaken

\* The response that readLoop hands to a caller is the one the server gave to that
\* caller's request, although connections pass from caller to caller, servers speak
\* unasked, and the responses carry nothing that says whose they are.  On a
\* connection that was overtaken this is not so: there the unsolicited response is
\* handed over, and every later caller may get the answer to an earlier request.
OwnResponse ==
    \A c \in Callers :
        Answered(c) /\ caller[c].result.id # Nil /\ ~Overtaken(caller[c].conn)
            => caller[c].result.id = Id(c)

\* A connection in the pool is there once, and neither it nor any other is used by
\* two callers at a time; while its body has not been read a connection has no new
\* user.  The pool keeps to MaxIdleConnsPerHost.  (A loop whose bodyEOFSignal ran
\* its function twice is stuck, and its connection is no longer exclusive.)
OneUserAtATime ==
    /\ \A k \in Keys : Len(idle[k]) <= MaxIdle
    /\ \A p \in Conns : loop[p].at # "stuck" =>
         /\ Cardinality({c \in Callers : InUse(c, p)}) + Cardinality(Slots(p)) <= 1
         /\ \A b, c \in Callers :
              caller[b].at = "body" /\ caller[b].conn = p => ~InUse(c, p)

\* CloseIdleConnections "does not interrupt any connections currently in use": what
\* it closes, after it has let go of the lock, has no user by then either.
CloseIdleSparesBusy ==
    [][\A p \in Conns : CloseIdle(p) /\ loop[p].at # "stuck" =>
          \A c \in Callers : ~InUse(c, p)]_vars

\* A request comes back from roundTrip, with an answer or an error, and the reader
\* of a body is let go, unless readLoop has ended, or has run the signal of a body
\* twice, between the caller's taking the connection and its request being read.
Abandoned(c) == caller[c].conn # Nil /\ loop[caller[c].conn].at \in {"exit", "stuck"}
Underway(c) == caller[c].at \notin {"body", "done"}

RequestReturns == \A c \in Callers : Underway(c) ~> ~Underway(c) \/ Abandoned(c)
=============================================================================
