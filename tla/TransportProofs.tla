-------------------------- MODULE TransportProofs ---------------------------
(***************************************************************************)
(* Theorems about the pool of idle connections: their types, that a        *)
(* connection has one user at a time, that closing idle connections spares *)
(* those in use, and that a caller gets the response to its own request    *)
(* unless an unsolicited one came between them.                            *)
(***************************************************************************)
EXTENDS Transport, DataLemmas, FiniteSetTheorems

-----------------------------------------------------------------------------
(***************************************************************************)
(* Types, and what belongs to the places of a caller and of a connection.  *)
(***************************************************************************)
ConnState == {"none", "open", "closed"}
LoopAt == {"none", "peek", "peeked", "advance", "read", "deliver", "wait", "round", "exit",
           "stuck"}
CallerAt == {"start", "count", "write", "send", "receive", "body", "signal", "clear", "done"}

PersistConn == [state : ConnState, key : Keys \cup {Nil}, expected : Nat, reqch : Seq(Callers)]
ReadLoop == [at : LoopAt, rc : Callers \cup {Nil}, resp : Responses \cup {Nil},
             alive : BOOLEAN, lastbody : BOOLEAN]
BodySignal == [fn : BOOLEAN, closed : BOOLEAN]
Caller == [at : CallerAt, num : Nat \ {0}, conn : Conns \cup {Nil},
           result : Responses \cup {Nil}]
Wire == [requests : Seq(Ids), responses : Seq(Responses), peer : {"open", "closed"},
         overtaken : BOOLEAN]

\* Only a caller between getConn and the end of its body has a connection, and it
\* has no result before its response was delivered.
CallerOK ==
    \A c \in Callers :
        /\ caller[c].num <= MaxRequests[c]
        /\ caller[c].at \notin {"start", "done"} =>
              caller[c].conn \in Conns /\ pconn[caller[c].conn].state # "none"
        /\ caller[c].at \in {"start", "count", "write", "send"} => caller[c].result = Nil

\* A connection that was not dialled is untouched.
ConnOK ==
    \A p \in Conns :
        IF pconn[p].state = "none"
        THEN wire[p].requests = <<>> /\ wire[p].responses = <<>> /\ loop[p].at = "none"
        ELSE pconn[p].key \in Keys

\* numExpectedResponses counts at least the requests that are under way.
Counted(p) ==
    {c \in Callers : caller[c].conn = p /\ caller[c].at \in {"write", "send", "receive"}}

CountOK ==
    \A p \in Conns : IsFiniteSet(Counted(p)) /\ Cardinality(Counted(p)) <= pconn[p].expected

TypeInv == TypeOK /\ CallerOK /\ ConnOK /\ CountOK

LEMMA Types ==
    ASSUME TypeInv
    PROVE  /\ idle \in [Keys -> Seq(Conns)] /\ pconn \in [Conns -> PersistConn]
           /\ loop \in [Conns -> ReadLoop] /\ signal \in [Conns -> BodySignal]
           /\ caller \in [Callers -> Caller] /\ wire \in [Conns -> Wire]
           /\ reap \subseteq Conns /\ events \in 0 .. MaxEvents
  BY DEF TypeInv, TypeOK, PersistConn, ReadLoop, BodySignal, Caller, Wire, ConnState, LoopAt,
         CallerAt

LEMMA TypesIntro ==
    ASSUME idle' \in [Keys -> Seq(Conns)], pconn' \in [Conns -> PersistConn],
           loop' \in [Conns -> ReadLoop], signal' \in [Conns -> BodySignal],
           caller' \in [Callers -> Caller], wire' \in [Conns -> Wire],
           reap' \subseteq Conns, events' \in 0 .. MaxEvents,
           CallerOK', ConnOK', CountOK'
    PROVE  TypeInv'
  BY DEF TypeInv, TypeOK, PersistConn, ReadLoop, BodySignal, Caller, Wire, ConnState, LoopAt,
         CallerAt

-----------------------------------------------------------------------------
(***************************************************************************)
(* What each action does, field by field.  Neither alive and lastbody nor  *)
(* the signal of a body decide who uses a connection, and of its state     *)
(* only whether it was dialled.                                            *)
(***************************************************************************)
Moves(c, at, conn, result) ==
    /\ caller' \in [Callers -> Caller]
    /\ caller'[c].at = at /\ caller'[c].conn = conn /\ caller'[c].result = result
    /\ caller'[c].num = caller[c].num
    /\ \A d \in Callers \ {c} : caller'[d] = caller[d]

\* Connections are closed at most.
OnlyCloses ==
    /\ pconn' \in [Conns -> PersistConn]
    /\ \A q \in Conns : /\ pconn'[q].key = pconn[q].key /\ pconn'[q].expected = pconn[q].expected
                        /\ pconn'[q].reqch = pconn[q].reqch
                        /\ pconn'[q].state = "none" <=> pconn[q].state = "none"

\* The loop of p goes on, with the request rc and the response resp.
LoopGoes(p, at, rc, resp) ==
    /\ loop' \in [Conns -> ReadLoop]
    /\ loop'[p].at = at /\ loop'[p].rc = rc /\ loop'[p].resp = resp
    /\ \A q \in Conns \ {p} : loop'[q] = loop[q]

\* p goes back to the pool or is closed.
GivesBack(p) ==
    /\ OnlyCloses
    /\ \/ UNCHANGED idle
       \/ /\ Len(idle[pconn[p].key]) < MaxIdle
          /\ idle' = [idle EXCEPT ![pconn[p].key] = Append(@, p)]

LEMMA ClosedOnlyCloses ==
    ASSUME TypeInv, NEW p \in Conns, pconn' = Closed(p)
    PROVE  OnlyCloses
  BY Types DEF Closed, OnlyCloses, PersistConn, ConnState

LEMMA SameOnlyCloses ==
    ASSUME TypeInv, UNCHANGED pconn
    PROVE  OnlyCloses
  BY Types DEF OnlyCloses

LEMMA PutIdleEffect ==
    ASSUME TypeInv, NEW p \in Conns, putIdleConn(p)
    PROVE  GivesBack(p)
<1>1. CASE CanKeep(p) /\ idle' = [idle EXCEPT ![pconn[p].key] = Append(@, p)] /\ UNCHANGED pconn
  BY <1>1, SameOnlyCloses DEF GivesBack, CanKeep
<1>2. CASE pconn' = Closed(p) /\ UNCHANGED idle
  BY <1>2, ClosedOnlyCloses DEF GivesBack
<1>3. QED
  BY <1>1, <1>2 DEF putIdleConn

LEMMA GiveBackEffect ==
    ASSUME TypeInv, NEW p \in Conns, NEW at \in LoopAt, GiveBack(p, at)
    PROVE  GivesBack(p) /\ LoopGoes(p, at, loop[p].rc, loop[p].resp)
<1>1. GivesBack(p)
  BY PutIdleEffect, ClosedOnlyCloses DEF GiveBack, GivesBack
<1>2. (loop[p].alive /\ CanKeep(p)) \in BOOLEAN
  BY Types DEF ReadLoop, CanKeep, isBroken
<1>3. LoopGoes(p, at, loop[p].rc, loop[p].resp)
  BY <1>2, Types DEF GiveBack, LoopGoes, ReadLoop
<1>4. QED
  BY <1>1, <1>3

\* The steps of a caller.
LEMMA CallerHasConn ==
    ASSUME TypeInv, NEW c \in Callers, caller[c].at \notin {"start", "done"}
    PROVE  caller[c].conn \in Conns /\ pconn[caller[c].conn].state # "none"
  BY DEF TypeInv, CallerOK

LEMMA GotoEffect ==
    ASSUME TypeInv, NEW c \in Callers, NEW at \in CallerAt, Goto(c, at)
    PROVE  Moves(c, at, caller[c].conn, caller[c].result)
  BY Types DEF Goto, Moves, Caller

LEMMA LeaveEffect ==
    ASSUME TypeInv, NEW c \in Callers, Leave(c)
    PROVE  Moves(c, "done", Nil, Nil)
  BY Types DEF Leave, Moves, Caller, CallerAt

LEMMA ReturnEffect ==
    ASSUME TypeInv, NEW c \in Callers, NEW r \in Responses, Return(c, r)
    PROVE  \/ r.body /\ Moves(c, "body", caller[c].conn, Nil)
           \/ Moves(c, "done", Nil, Nil)
<1>1. r # Nil
  BY NilAssumption
<1>2. CASE r.body /\ ~r.err
  BY <1>1, <1>2, Types DEF Return, Moves, Caller, CallerAt
<1>3. CASE ~(r.body /\ ~r.err)
  BY <1>1, <1>3, Types DEF Return, Moves, Caller, CallerAt
<1>4. QED
  BY <1>2, <1>3

LEMMA ReturnNothing ==
    ASSUME TypeInv, NEW c \in Callers, Return(c, Nil)
    PROVE  Moves(c, "done", Nil, Nil)
  BY Types DEF Return, Moves, Caller, CallerAt

\* The pool loses connections at its ends.
PoolShrinks ==
    /\ idle' \in [Keys -> Seq(Conns)]
    /\ \A k \in Keys : /\ DOMAIN idle'[k] \subseteq DOMAIN idle[k]
                       /\ Len(idle'[k]) <= Len(idle[k])
                       /\ \A i \in DOMAIN idle'[k] : idle'[k][i] = idle[k][i]

LEMMA SamePool ==
    ASSUME TypeInv, UNCHANGED idle
    PROVE  PoolShrinks
<1>1. \A k \in Keys : Len(idle[k]) \in Nat
  BY Types, LenProperties
<1>2. QED
  BY <1>1, Types DEF PoolShrinks

LEMMA KeyEmptied ==
    ASSUME TypeInv, NEW k \in Keys, idle' = [idle EXCEPT ![k] = <<>>]
    PROVE  PoolShrinks
<1>1. \A j \in Keys : Len(idle[j]) \in Nat /\ idle[j] \in Seq(Conns)
  BY Types, LenProperties
<1>2. /\ idle'[k] = <<>> /\ \A j \in Keys \ {k} : idle'[j] = idle[j]
      /\ idle' \in [Keys -> Seq(Conns)]
  BY Types
<1>3. Len(<<>>) = 0 /\ DOMAIN <<>> = {}
  OBVIOUS
<1>4. \A j \in Keys : /\ DOMAIN idle'[j] \subseteq DOMAIN idle[j]
                      /\ Len(idle'[j]) <= Len(idle[j])
                      /\ \A i \in DOMAIN idle'[j] : idle'[j][i] = idle[j][i]
  <2>1. SUFFICES ASSUME NEW j \in Keys
                 PROVE  /\ DOMAIN idle'[j] \subseteq DOMAIN idle[j]
                        /\ Len(idle'[j]) <= Len(idle[j])
                        /\ \A i \in DOMAIN idle'[j] : idle'[j][i] = idle[j][i]
    OBVIOUS
  <2>2. CASE j = k
    BY <1>1, <1>2, <1>3, <2>2
  <2>3. CASE j # k
    BY <1>1, <1>2, <2>3
  <2>4. QED
    BY <2>2, <2>3
<1>5. QED
  BY <1>2, <1>4 DEF PoolShrinks

LEMMA GetIdleEffect ==
    ASSUME TypeInv, NEW c \in Callers, GetIdleConn(c)
    PROVE  /\ caller[c].at = "start" /\ PoolShrinks
           /\ \E i \in DOMAIN idle[KeyOf[c]] :
                 /\ Moves(c, "count", idle[KeyOf[c]][i], caller[c].result)
                 /\ idle[KeyOf[c]][i] \in Conns
                 /\ \A j \in DOMAIN idle'[KeyOf[c]] : j < i
                 /\ \A k \in Keys \ {KeyOf[c]} : idle'[k] = idle[k]
           /\ UNCHANGED <<pconn, loop, signal, wire, reap, events>>
<1> DEFINE k == KeyOf[c]
<1>1. k \in Keys /\ idle[k] \in Seq(Conns) /\ idle \in [Keys -> Seq(Conns)]
  BY Types, TransportAssumption
<1>2. PICK i \in LastUsable(k) :
         /\ caller' = [caller EXCEPT ![c].at = "count", ![c].conn = idle[k][i]]
         /\ idle' = [idle EXCEPT ![k] = SubSeq(idle[k], 1, i - 1)]
  BY DEF GetIdleConn
<1>3. i \in DOMAIN idle[k] /\ DOMAIN idle[k] = 1..Len(idle[k]) /\ Len(idle[k]) \in Nat
  BY <1>1, LenProperties DEF LastUsable, Usable
<1>4. i \in Nat /\ 1 <= i /\ i <= Len(idle[k])
  BY <1>3
<1>5. \A j \in 1..Len(idle[k]) : idle[k][j] \in Conns
  BY <1>1, ElementOfSeq
<1>6. Moves(c, "count", idle[k][i], caller[c].result)
  BY <1>2, <1>3, <1>5, Types DEF Moves, Caller, CallerAt
<1> DEFINE u == SubSeq(idle[k], 1, i - 1)
<1>7. u \in Seq(Conns) /\ Len(u) = i - 1 /\ \A j \in 1..(i - 1) : u[j] = idle[k][j]
  <2>1. \A j \in 1..(i - 1) : idle[k][j] \in Conns
    BY <1>4, <1>5
  <2>2. /\ u \in Seq(Conns)
        /\ Len(u) = IF 1 <= i - 1 THEN (i - 1) - 1 + 1 ELSE 0
        /\ \A j \in 1..((i - 1) - 1 + 1) : u[j] = idle[k][1 + j - 1]
    BY <1>4, <2>1, SubSeqProperties
  <2>3. (i - 1) - 1 + 1 = i - 1 /\ \A j \in 1..(i - 1) : 1 + j - 1 = j
    BY <1>4
  <2>4. QED
    BY <1>4, <2>2, <2>3
<1>8. idle'[k] = u /\ (\A j \in Keys \ {k} : idle'[j] = idle[j]) /\ idle' \in [Keys -> Seq(Conns)]
  BY <1>1, <1>2, <1>7
<1> HIDE DEF u
<1>9. DOMAIN u = 1..(i - 1)
  BY <1>7, LenProperties
<1>10. /\ \A j \in 1..(i - 1) : j \in DOMAIN idle[k] /\ j < i
       /\ i - 1 <= Len(idle[k])
  BY <1>3, <1>4
<1>11. \A j \in Keys : Len(idle[j]) \in Nat
  BY <1>1, LenProperties
<1>12. PoolShrinks
  <2>1. SUFFICES ASSUME NEW j \in Keys
                 PROVE  /\ DOMAIN idle'[j] \subseteq DOMAIN idle[j]
                        /\ Len(idle'[j]) <= Len(idle[j])
                        /\ \A n \in DOMAIN idle'[j] : idle'[j][n] = idle[j][n]
    BY <1>8 DEF PoolShrinks
  <2>2. CASE j = k
    BY <1>7, <1>8, <1>9, <1>10, <2>2
  <2>3. CASE j # k
    BY <1>8, <1>11, <2>3
  <2>4. QED
    BY <2>2, <2>3
<1>13. idle[k][i] \in Conns /\ \A j \in DOMAIN idle'[k] : j < i
  BY <1>3, <1>5, <1>8, <1>9, <1>10
<1>14. caller[c].at = "start" /\ UNCHANGED <<pconn, loop, signal, wire, reap, events>>
  BY DEF GetIdleConn
<1>15. QED
  BY <1>3, <1>6, <1>8, <1>12, <1>13, <1>14

LEMMA DialEffect ==
    ASSUME TypeInv, NEW c \in Callers, Dial(c)
    PROVE  /\ caller[c].at = "start" /\ PoolShrinks
           /\ \E p \in Conns :
                 /\ pconn[p].state = "none"
                 /\ Moves(c, "count", p, caller[c].result)
                 /\ LoopGoes(p, "peek", loop[p].rc, loop[p].resp)
                 /\ pconn' \in [Conns -> PersistConn]
                 /\ pconn'[p].state = "open" /\ pconn'[p].key \in Keys
                 /\ pconn'[p].expected = pconn[p].expected /\ pconn'[p].reqch = pconn[p].reqch
                 /\ \A q \in Conns \ {p} : pconn'[q] = pconn[q]
           /\ UNCHANGED <<signal, wire, reap, events>>
<1> DEFINE p == CHOOSE q \in Fresh : TRUE
<1>1. p \in Fresh
  BY DEF Dial
<1>2. p \in Conns /\ pconn[p].state = "none"
  BY <1>1 DEF Fresh
<1>3. /\ caller' = [caller EXCEPT ![c].at = "count", ![c].conn = p]
      /\ pconn' = [pconn EXCEPT ![p].state = "open", ![p].key = KeyOf[c]]
      /\ loop' = [loop EXCEPT ![p].at = "peek"]
      /\ NoIdleConn(c)
      /\ UNCHANGED <<signal, wire, reap, events>>
  BY DEF Dial
<1> HIDE DEF p
<1>4. KeyOf[c] \in Keys
  BY TransportAssumption
<1>5. caller[c].at = "start" /\ PoolShrinks
  BY <1>3, <1>4, KeyEmptied DEF NoIdleConn
<1>6. Moves(c, "count", p, caller[c].result)
  BY <1>2, <1>3, Types DEF Moves, Caller, CallerAt
<1>7. LoopGoes(p, "peek", loop[p].rc, loop[p].resp)
  BY <1>2, <1>3, Types DEF LoopGoes, ReadLoop, LoopAt
<1>8. /\ pconn' \in [Conns -> PersistConn]
      /\ pconn'[p].state = "open" /\ pconn'[p].key \in Keys
      /\ pconn'[p].expected = pconn[p].expected /\ pconn'[p].reqch = pconn[p].reqch
      /\ \A q \in Conns \ {p} : pconn'[q] = pconn[q]
  BY <1>2, <1>3, <1>4, Types DEF PersistConn, ConnState
<1>9. QED
  BY <1>2, <1>3, <1>5, <1>6, <1>7, <1>8

LEMMA DialFailsEffect ==
    ASSUME TypeInv, NEW c \in Callers, DialFails(c)
    PROVE  /\ caller[c].at = "start" /\ PoolShrinks /\ Moves(c, "done", Nil, Nil)
           /\ UNCHANGED <<pconn, loop, signal, wire, reap, events>>
<1>1. KeyOf[c] \in Keys
  BY TransportAssumption
<1>2. QED
  BY <1>1, KeyEmptied, ReturnNothing DEF DialFails, NoIdleConn

\* Of the connections only p changes, and it stays as it is but for what it expects and
\* the requests that wait for its loop.
Counts(p, expected, reqch) ==
    /\ pconn' \in [Conns -> PersistConn]
    /\ pconn'[p].state = pconn[p].state /\ pconn'[p].key = pconn[p].key
    /\ pconn'[p].expected = expected /\ pconn'[p].reqch = reqch
    /\ \A q \in Conns \ {p} : pconn'[q] = pconn[q]

LEMMA CountEffect ==
    ASSUME TypeInv, NEW c \in Callers, CountRequest(c)
    PROVE  LET p == caller[c].conn IN
           /\ caller[c].at = "count" /\ p \in Conns
           /\ Moves(c, "write", p, caller[c].result)
           /\ Counts(p, pconn[p].expected + 1, pconn[p].reqch)
           /\ wire' \in [Conns -> Wire]
           /\ wire'[p].requests = wire[p].requests /\ wire'[p].responses = wire[p].responses
           /\ Overtaken(p) \/ UnaskedWaits(p) => wire'[p].overtaken
           /\ \A q \in Conns \ {p} : wire'[q] = wire[q]
           /\ UNCHANGED <<idle, loop, signal, reap, events>>
<1> DEFINE p == caller[c].conn
           late == wire[p].overtaken \/ UnaskedWaits(p)
<1>1. /\ caller[c].at = "count" /\ Goto(c, "write")
      /\ pconn' = [pconn EXCEPT ![p].expected = pconn[p].expected + 1]
      /\ wire' = [wire EXCEPT ![p].overtaken = late]
      /\ UNCHANGED <<idle, loop, signal, reap, events>>
  BY DEF CountRequest
<1>2. p \in Conns
  BY <1>1, CallerHasConn
<1>3. Moves(c, "write", p, caller[c].result)
  BY <1>1, GotoEffect DEF CallerAt
<1>4. pconn \in [Conns -> PersistConn] /\ pconn[p].expected + 1 \in Nat
  BY <1>2, Types DEF PersistConn
<1>5. wire \in [Conns -> Wire] /\ late \in BOOLEAN
  BY <1>2, Types DEF Wire
<1>6. Overtaken(p) \/ UnaskedWaits(p) => late
  BY DEF Overtaken
<1> HIDE DEF p, late
<1>7. Counts(p, pconn[p].expected + 1, pconn[p].reqch)
  BY <1>1, <1>2, <1>4 DEF Counts, PersistConn
<1>8. wire' \in [Conns -> Wire]
  BY <1>1, <1>2, <1>5 DEF Wire
<1>9. /\ wire'[p].requests = wire[p].requests /\ wire'[p].responses = wire[p].responses
      /\ wire'[p].overtaken = late
      /\ \A q \in Conns \ {p} : wire'[q] = wire[q]
  BY <1>1, <1>2, <1>5 DEF Wire
<1>10. Overtaken(p) \/ UnaskedWaits(p) => wire'[p].overtaken
  BY <1>6, <1>9
<1>11. QED
  BY <1>1, <1>2, <1>3, <1>7, <1>8, <1>9, <1>10 DEF p

LEMMA WriteEffect ==
    ASSUME TypeInv, NEW c \in Callers, WriteRequest(c)
    PROVE  LET p == caller[c].conn IN
           /\ caller[c].at = "write" /\ p \in Conns
           /\ Moves(c, "send", p, caller[c].result)
           /\ wire' \in [Conns -> Wire] /\ Id(c) \in Ids
           /\ wire'[p].responses = wire[p].responses /\ wire'[p].overtaken = wire[p].overtaken
           /\ wire'[p].requests \in {wire[p].requests, Append(wire[p].requests, Id(c))}
           /\ \A q \in Conns \ {p} : wire'[q] = wire[q]
           /\ UNCHANGED <<idle, pconn, loop, signal, reap, events>>
<1> DEFINE p == caller[c].conn
           i == Id(c)
<1>1. /\ caller[c].at = "write" /\ Goto(c, "send")
      /\ wire' \in {[wire EXCEPT ![p].requests = Append(@, i)], wire}
      /\ UNCHANGED <<idle, pconn, loop, signal, reap, events>>
  BY DEF WriteRequest
<1>2. p \in Conns
  BY <1>1, CallerHasConn
<1>3. Moves(c, "send", p, caller[c].result)
  BY <1>1, GotoEffect DEF CallerAt
<1>4. i \in Ids
  <2>1. caller[c].num \in Nat \ {0} /\ MaxRequests[c] \in Nat /\ caller[c].num <= MaxRequests[c]
    BY Types, TransportAssumption DEF TypeInv, CallerOK, Caller
  <2>2. caller[c].num \in 1 .. MaxRequests[c]
    BY <2>1
  <2>3. QED
    BY <2>2 DEF Id, Ids
<1>5. wire \in [Conns -> Wire]
  BY Types
<1> HIDE DEF p, i
<1>6. CASE wire' = [wire EXCEPT ![p].requests = Append(@, i)]
  <2>1. wire[p].requests \in Seq(Ids)
    BY <1>2, <1>5 DEF Wire
  <2>2. Append(wire[p].requests, i) \in Seq(Ids)
    BY <1>4, <2>1, AppendProperties
  <2>3. wire' \in [Conns -> Wire]
    BY <1>2, <1>5, <1>6, <2>2 DEF Wire
  <2>4. /\ wire'[p].responses = wire[p].responses /\ wire'[p].overtaken = wire[p].overtaken
        /\ wire'[p].requests = Append(wire[p].requests, i)
        /\ \A q \in Conns \ {p} : wire'[q] = wire[q]
    BY <1>2, <1>5, <1>6 DEF Wire
  <2>5. QED
    BY <1>1, <1>2, <1>3, <1>4, <2>3, <2>4 DEF p, i
<1>7. CASE wire' = wire
  BY <1>1, <1>2, <1>3, <1>4, <1>5, <1>7 DEF p, i
<1>8. QED
  BY <1>1, <1>6, <1>7

LEMMA WriteFailsEffect ==
    ASSUME TypeInv, NEW c \in Callers, WriteFails(c)
    PROVE  /\ caller[c].at = "write" /\ Moves(c, "done", Nil, Nil) /\ OnlyCloses
           /\ UNCHANGED <<idle, loop, signal, wire, reap, events>>
<1>1. caller[c].at = "write"
  BY DEF WriteFails
<1>2. caller[c].conn \in Conns
  BY <1>1, CallerHasConn
<1>3. QED
  BY <1>1, <1>2, ReturnNothing, ClosedOnlyCloses DEF WriteFails

LEMMA SendEffect ==
    ASSUME TypeInv, NEW c \in Callers, SendRequest(c)
    PROVE  LET p == caller[c].conn IN
           /\ caller[c].at = "send" /\ p \in Conns
           /\ Moves(c, "receive", p, Nil)
           /\ Counts(p, pconn[p].expected, Append(pconn[p].reqch, c))
           /\ UNCHANGED <<idle, loop, signal, wire, reap, events>>
<1> DEFINE p == caller[c].conn
<1>1. /\ caller[c].at = "send"
      /\ pconn' = [pconn EXCEPT ![p].reqch = Append(@, c)]
      /\ caller' = [caller EXCEPT ![c].at = "receive", ![c].result = Nil]
      /\ UNCHANGED <<idle, loop, signal, wire, reap, events>>
  BY DEF SendRequest
<1>2. p \in Conns
  BY <1>1, CallerHasConn
<1>3. Moves(c, "receive", p, Nil)
  BY <1>1, Types DEF Moves, Caller, CallerAt
<1>4. pconn \in [Conns -> PersistConn] /\ pconn[p].reqch \in Seq(Callers)
  BY <1>2, Types DEF PersistConn
<1>5. Append(pconn[p].reqch, c) \in Seq(Callers)
  BY <1>4, AppendProperties
<1> HIDE DEF p
<1>6. Counts(p, pconn[p].expected, Append(pconn[p].reqch, c))
  BY <1>1, <1>2, <1>4, <1>5 DEF Counts, PersistConn
<1>7. QED
  BY <1>1, <1>2, <1>3, <1>6 DEF p

LEMMA ReceiveEffect ==
    ASSUME TypeInv, NEW c \in Callers, ReceiveAnswer(c)
    PROVE  LET p == caller[c].conn
               r == caller[c].result
           IN
           /\ caller[c].at = "receive" /\ p \in Conns /\ r \in Responses
           /\ (r.body /\ Moves(c, "body", p, Nil)) \/ Moves(c, "done", Nil, Nil)
           /\ Counts(p, pconn[p].expected - 1, pconn[p].reqch)
           /\ Cardinality(Counted(p)) <= pconn[p].expected /\ pconn[p].expected > 0
           /\ UNCHANGED <<idle, loop, signal, wire, reap, events>>
<1> DEFINE p == caller[c].conn
           r == caller[c].result
<1>1. /\ caller[c].at = "receive" /\ r # Nil /\ Return(c, r)
      /\ pconn' = [pconn EXCEPT ![p].expected = pconn[p].expected - 1]
      /\ UNCHANGED <<idle, loop, signal, wire, reap, events>>
  BY DEF ReceiveAnswer, Answered
<1>2. p \in Conns
  BY <1>1, CallerHasConn
<1>3. r \in Responses
  BY <1>1, Types DEF Caller
<1>4. (r.body /\ Moves(c, "body", p, Nil)) \/ Moves(c, "done", Nil, Nil)
  BY <1>1, <1>3, ReturnEffect
<1>5. pconn \in [Conns -> PersistConn] /\ pconn[p].expected \in Nat
  BY <1>2, Types DEF PersistConn
<1>6. /\ IsFiniteSet(Counted(p)) /\ Cardinality(Counted(p)) <= pconn[p].expected
      /\ c \in Counted(p)
  BY <1>1, <1>2 DEF TypeInv, CountOK, Counted
<1>7. Cardinality(Counted(p)) \in Nat /\ Cardinality(Counted(p)) # 0
  BY <1>6, FS_CardinalityType, FS_EmptySet
<1> HIDE DEF p, r
<1>8. pconn[p].expected > 0 /\ pconn[p].expected - 1 \in Nat
  BY <1>5, <1>6, <1>7
<1>9. Counts(p, pconn[p].expected - 1, pconn[p].reqch)
  BY <1>1, <1>2, <1>5, <1>8 DEF Counts, PersistConn
<1>10. QED
  BY <1>1, <1>2, <1>3, <1>4, <1>6, <1>8, <1>9 DEF p, r

LEMMA NextRequestEffect ==
    ASSUME TypeInv, NEW c \in Callers, NextRequest(c)
    PROVE  /\ caller[c].at = "done" /\ caller' \in [Callers -> Caller]
           /\ caller'[c].at = "start" /\ caller'[c].result = Nil
           /\ caller'[c].num <= MaxRequests[c]
           /\ \A d \in Callers \ {c} : caller'[d] = caller[d]
           /\ UNCHANGED <<idle, pconn, loop, signal, wire, reap, events>>
<1>1. /\ caller[c].num \in Nat /\ MaxRequests[c] \in Nat /\ caller[c].num < MaxRequests[c]
      /\ caller[c].at = "done"
      /\ caller' = [caller EXCEPT ![c] = [at |-> "start", num |-> caller[c].num + 1, conn |-> Nil,
                                          result |-> Nil]]
      /\ UNCHANGED <<idle, pconn, loop, signal, wire, reap, events>>
  BY Types, TransportAssumption DEF NextRequest, Caller
<1>2. caller[c].num + 1 \in Nat \ {0} /\ caller[c].num + 1 <= MaxRequests[c]
  BY <1>1
<1>3. QED
  BY <1>1, <1>2, Types DEF Caller, CallerAt

LEMMA UseBodyEffect ==
    ASSUME TypeInv, NEW c \in Callers, NEW use \in BodyUses, UseBody(c, use)
    PROVE  LET p == caller[c].conn IN
           /\ caller[c].at = "body" /\ p \in Conns
           /\ \/ /\ Moves(c, "done", Nil, Nil)
                 /\ UNCHANGED <<idle, pconn, loop>>
              \/ /\ Moves(c, "signal", p, caller[c].result)
                 /\ GivesBack(p) /\ LoopGoes(p, loop[p].at, loop[p].rc, loop[p].resp)
           /\ signal' \in [Conns -> BodySignal]
           /\ UNCHANGED <<wire, reap, events>>
<1> DEFINE p == caller[c].conn
<1>1. caller[c].at = "body" /\ UNCHANGED <<wire, reap, events>>
  BY DEF UseBody
<1>2. p \in Conns
  BY <1>1, CallerHasConn
<1>3. CASE Leave(c) /\ UNCHANGED <<idle, pconn, loop, signal>>
  BY <1>1, <1>2, <1>3, LeaveEffect, Types
<1>4. CASE /\ Goto(c, "signal") /\ GiveBack(p, loop[p].at)
           /\ signal' = [signal EXCEPT ![p].closed = use = "close"]
  <2>1. Moves(c, "signal", p, caller[c].result)
    BY <1>4, GotoEffect DEF CallerAt
  <2>2. loop[p].at \in LoopAt
    BY <1>2, Types DEF ReadLoop
  <2>3. GivesBack(p) /\ LoopGoes(p, loop[p].at, loop[p].rc, loop[p].resp)
    BY <1>2, <1>4, <2>2, GiveBackEffect
  <2>4. (use = "close") \in BOOLEAN
    OBVIOUS
  <2>5. signal' \in [Conns -> BodySignal]
    BY <1>2, <1>4, <2>4, Types DEF BodySignal
  <2>6. QED
    BY <1>1, <1>2, <2>1, <2>3, <2>5
<1>5. QED
  BY <1>3, <1>4 DEF UseBody

LEMMA SignalEffect ==
    ASSUME TypeInv, NEW c \in Callers, Signal(c)
    PROVE  LET p == caller[c].conn IN
           /\ caller[c].at = "signal" /\ p \in Conns /\ loop[p].at = "wait"
           /\ Moves(c, "clear", p, caller[c].result)
           /\ LoopGoes(p, "round", loop[p].rc, loop[p].resp)
           /\ UNCHANGED <<idle, pconn, signal, wire, reap, events>>
<1> DEFINE p == caller[c].conn
<1>1. /\ caller[c].at = "signal" /\ loop[p].at = "wait" /\ Goto(c, "clear")
      /\ loop' = [loop EXCEPT ![p].at = "round"]
      /\ UNCHANGED <<idle, pconn, signal, wire, reap, events>>
  BY DEF Signal
<1>2. p \in Conns
  BY <1>1, CallerHasConn
<1>3. Moves(c, "clear", p, caller[c].result)
  BY <1>1, GotoEffect DEF CallerAt
<1>4. LoopGoes(p, "round", loop[p].rc, loop[p].resp)
  BY <1>1, <1>2, Types DEF LoopGoes, ReadLoop, LoopAt
<1>5. QED
  BY <1>1, <1>2, <1>3, <1>4

LEMMA ClearSignalEffect ==
    ASSUME TypeInv, NEW c \in Callers, ClearSignal(c)
    PROVE  /\ caller[c].at = "clear" /\ Moves(c, "done", Nil, Nil)
           /\ signal' \in [Conns -> BodySignal]
           /\ UNCHANGED <<idle, pconn, loop, wire, reap, events>>
  BY LeaveEffect, Types DEF ClearSignal, BodySignal

\* The steps of a loop.
LEMMA TurnEffect ==
    ASSUME TypeInv, NEW p \in Conns, Peek(p) \/ NothingExpected(p) \/ EndRound(p)
    PROVE  /\ loop[p].at \in {"peek", "peeked", "round"} /\ OnlyCloses
           /\ \E at \in {"peek", "peeked", "exit"} : LoopGoes(p, at, loop[p].rc, loop[p].resp)
           /\ UNCHANGED <<idle, signal, caller, wire, reap, events>>
<1>1. \A at \in {"peek", "peeked", "exit"} :
         loop' = [loop EXCEPT ![p].at = at] => LoopGoes(p, at, loop[p].rc, loop[p].resp)
  <2>1. loop \in [Conns -> ReadLoop]
    BY Types
  <2>2. SUFFICES ASSUME NEW at \in LoopAt, loop' = [loop EXCEPT ![p].at = at]
                 PROVE  LoopGoes(p, at, loop[p].rc, loop[p].resp)
    BY DEF LoopAt
  <2>3. loop' \in [Conns -> ReadLoop]
    BY <2>1, <2>2 DEF ReadLoop
  <2>4. QED
    BY <2>1, <2>2, <2>3 DEF LoopGoes, ReadLoop
<1>2. CASE Peek(p)
  BY <1>1, <1>2, SameOnlyCloses DEF Peek, At
<1>3. CASE NothingExpected(p)
  BY <1>1, <1>3, ClosedOnlyCloses DEF NothingExpected, At
<1>4. CASE EndRound(p)
  BY <1>1, <1>4, ClosedOnlyCloses, SameOnlyCloses DEF EndRound, At
<1>5. QED
  BY <1>2, <1>3, <1>4

LEMMA CloseLastBodyEffect ==
    ASSUME TypeInv, NEW p \in Conns, CloseLastBody(p)
    PROVE  /\ loop[p].at = "advance" /\ signal' \in [Conns -> BodySignal]
           /\ \/ GivesBack(p) /\ LoopGoes(p, "stuck", loop[p].rc, loop[p].resp)
              \/ UNCHANGED <<idle, pconn>> /\ LoopGoes(p, "read", loop[p].rc, loop[p].resp)
           /\ UNCHANGED <<caller, wire, reap, events>>
<1>1. /\ loop[p].at = "advance"
      /\ signal' = [signal EXCEPT ![p].closed = signal[p].closed \/ loop[p].lastbody]
      /\ UNCHANGED <<caller, wire, reap, events>>
  BY DEF CloseLastBody, At
<1>2. (signal[p].closed \/ loop[p].lastbody) \in BOOLEAN
  OBVIOUS
<1>3. signal' \in [Conns -> BodySignal]
  BY <1>1, <1>2, Types DEF BodySignal
<1>4. CASE GiveBack(p, "stuck")
  BY <1>1, <1>3, <1>4, GiveBackEffect DEF LoopAt
<1>5. CASE /\ loop' = [loop EXCEPT ![p].at = "read", ![p].lastbody = FALSE]
           /\ UNCHANGED <<idle, pconn>>
  <2>1. LoopGoes(p, "read", loop[p].rc, loop[p].resp)
    BY <1>5, Types DEF LoopGoes, ReadLoop, LoopAt
  <2>2. QED
    BY <1>1, <1>3, <1>5, <2>1
<1>6. QED
  BY <1>4, <1>5 DEF CloseLastBody

LEMMA TakeEffect ==
    ASSUME TypeInv, NEW p \in Conns, TakeRequest(p)
    PROVE  /\ loop[p].at = "peeked" /\ pconn[p].reqch \in Seq(Callers) /\ pconn[p].reqch # <<>>
           /\ Counts(p, pconn[p].expected, Tail(pconn[p].reqch))
           /\ LoopGoes(p, "advance", Head(pconn[p].reqch), loop[p].resp)
           /\ UNCHANGED <<idle, signal, caller, wire, reap, events>>
<1>1. /\ loop[p].at = "peeked" /\ pconn[p].reqch # <<>>
      /\ pconn' = [pconn EXCEPT ![p].reqch = Tail(@)]
      /\ loop' = [loop EXCEPT ![p].at = "advance", ![p].rc = Head(pconn[p].reqch)]
      /\ UNCHANGED <<idle, signal, caller, wire, reap, events>>
  BY DEF TakeRequest, At
<1>2. pconn \in [Conns -> PersistConn] /\ pconn[p].reqch \in Seq(Callers)
  BY Types DEF PersistConn
<1>3. Tail(pconn[p].reqch) \in Seq(Callers) /\ Head(pconn[p].reqch) \in Callers
  BY <1>1, <1>2, ReceiveType
<1>4. Counts(p, pconn[p].expected, Tail(pconn[p].reqch))
  BY <1>1, <1>2, <1>3 DEF Counts, PersistConn
<1>5. LoopGoes(p, "advance", Head(pconn[p].reqch), loop[p].resp)
  BY <1>1, <1>3, Types DEF LoopGoes, ReadLoop, LoopAt
<1>6. QED
  BY <1>1, <1>2, <1>4, <1>5

LEMMA HandsOver ==
    ASSUME TypeInv, NEW p \in Conns, NEW r \in Responses, NEW a \in BOOLEAN, NEW b \in BOOLEAN,
           loop' = [loop EXCEPT ![p].at = "deliver", ![p].resp = r, ![p].lastbody = b,
                                ![p].alive = a]
    PROVE  LoopGoes(p, "deliver", loop[p].rc, r)
<1>1. /\ loop \in [Conns -> ReadLoop] /\ loop[p] \in ReadLoop /\ "deliver" \in LoopAt
      /\ r \in Responses \cup {Nil}
  BY Types DEF LoopAt
<1>2. /\ loop'[p] = [loop[p] EXCEPT !.at = "deliver", !.resp = r, !.lastbody = b, !.alive = a]
      /\ \A q \in Conns \ {p} : loop'[q] = loop[q]
  BY <1>1
<1>3. loop' \in [Conns -> ReadLoop]
  BY <1>1 DEF ReadLoop
<1>4. loop'[p].at = "deliver" /\ loop'[p].rc = loop[p].rc /\ loop'[p].resp = r
  BY <1>1, <1>2 DEF ReadLoop
<1>5. QED
  BY <1>2, <1>3, <1>4 DEF LoopGoes

LEMMA ReadEffect ==
    ASSUME TypeInv, NEW p \in Conns, ReadResponse(p)
    PROVE  LET r == Head(wire[p].responses) IN
           /\ loop[p].at = "read" /\ wire[p].responses # <<>> /\ r \in Responses
           /\ LoopGoes(p, "deliver", loop[p].rc, r)
           /\ GivesBack(p) /\ (r.body => UNCHANGED idle)
           /\ signal' \in [Conns -> BodySignal]
           /\ wire' \in [Conns -> Wire] /\ wire'[p].requests = wire[p].requests
           /\ wire'[p].responses = Tail(wire[p].responses)
           /\ wire'[p].overtaken = wire[p].overtaken
           /\ \A q \in Conns \ {p} : wire'[q] = wire[q]
           /\ UNCHANGED <<caller, reap, events>>
<1> DEFINE r == Head(wire[p].responses)
           alive == loop[p].alive /\ ~r.err /\ ~r.close
           still == alive /\ (r.body \/ CanKeep(p))
<1>1. /\ loop[p].at = "read" /\ wire[p].responses # <<>>
      /\ wire' = [wire EXCEPT ![p].responses = Tail(@)]
      /\ loop' = [loop EXCEPT ![p].at = "deliver", ![p].resp = r, ![p].lastbody = r.body,
                              ![p].alive = still]
      /\ signal' = IF r.body THEN [signal EXCEPT ![p] = [fn |-> TRUE, closed |-> FALSE]]
                             ELSE signal
      /\ \/ alive /\ ~r.body /\ putIdleConn(p)
         \/ r.err /\ pconn' = Closed(p) /\ UNCHANGED idle
         \/ ~r.err /\ (r.body \/ ~alive) /\ UNCHANGED <<idle, pconn>>
      /\ UNCHANGED <<caller, reap, events>>
  BY DEF ReadResponse, At
<1>2. wire \in [Conns -> Wire] /\ wire[p].responses \in Seq(Responses)
  BY Types DEF Wire
<1>3. r \in Responses /\ Tail(wire[p].responses) \in Seq(Responses)
  BY <1>1, <1>2, ReceiveType
<1>4. r.body \in BOOLEAN /\ still \in BOOLEAN
  BY <1>3 DEF Responses
<1>5. GivesBack(p) /\ (r.body => UNCHANGED idle)
  BY <1>1, PutIdleEffect, ClosedOnlyCloses, SameOnlyCloses DEF GivesBack
<1>6. wire' \in [Conns -> Wire]
  BY <1>1, <1>2, <1>3 DEF Wire
<1>7. /\ wire'[p].requests = wire[p].requests /\ wire'[p].responses = Tail(wire[p].responses)
      /\ wire'[p].overtaken = wire[p].overtaken
      /\ \A q \in Conns \ {p} : wire'[q] = wire[q]
  BY <1>1, <1>2 DEF Wire
<1>8. signal' \in [Conns -> BodySignal]
  BY <1>1, Types DEF BodySignal
<1> HIDE DEF r, still
<1>9. LoopGoes(p, "deliver", loop[p].rc, r)
  BY <1>1, <1>3, <1>4, HandsOver
<1>10. QED
  BY <1>1, <1>3, <1>5, <1>6, <1>7, <1>8, <1>9 DEF r

LEMMA ReadFailsEffect ==
    ASSUME TypeInv, NEW p \in Conns, ReadFails(p)
    PROVE  /\ loop[p].at = "read" /\ OnlyCloses
           /\ LoopGoes(p, "deliver", loop[p].rc, Failure)
           /\ Failure \in Responses /\ Failure.id = Nil /\ ~Failure.body
           /\ UNCHANGED <<idle, signal, caller, wire, reap, events>>
<1>1. Failure \in Responses /\ Failure.id = Nil /\ ~Failure.body
  BY DEF Failure, Responses
<1>2. /\ loop[p].at = "read" /\ pconn' = Closed(p)
      /\ loop' = [loop EXCEPT ![p].at = "deliver", ![p].resp = Failure, ![p].alive = FALSE]
      /\ UNCHANGED <<idle, signal, caller, wire, reap, events>>
  BY DEF ReadFails, At
<1>3. LoopGoes(p, "deliver", loop[p].rc, Failure)
  <2>1. loop \in [Conns -> ReadLoop] /\ "deliver" \in LoopAt
    BY Types DEF LoopAt
  <2>2. loop' \in [Conns -> ReadLoop]
    <3>1. /\ loop' = [loop EXCEPT ![p].at = "deliver", ![p].resp = Failure, ![p].alive = FALSE]
          /\ Failure \in Responses \cup {Nil}
      BY <1>1, <1>2
    <3>2. QED
      BY <2>1, <3>1 DEF ReadLoop
  <2>3. loop'[p] = [loop[p] EXCEPT !.at = "deliver", !.resp = Failure, !.alive = FALSE]
        /\ \A q \in Conns \ {p} : loop'[q] = loop[q]
    BY <1>2, <2>1
  <2>4. loop[p] \in ReadLoop
    BY <2>1
  <2>5. loop'[p].at = "deliver" /\ loop'[p].rc = loop[p].rc /\ loop'[p].resp = Failure
    BY <2>3, <2>4 DEF ReadLoop
  <2>6. QED
    BY <2>2, <2>3, <2>5 DEF LoopGoes
<1>4. QED
  BY <1>1, <1>2, <1>3, ClosedOnlyCloses

LEMMA DeliverEffect ==
    ASSUME TypeInv, NEW p \in Conns, Deliver(p), loop[p].rc \in Callers
    PROVE  LET c == loop[p].rc IN
           /\ loop[p].at = "deliver"
           /\ Moves(c, caller[c].at, caller[c].conn, loop[p].resp)
           /\ \E at \in {"wait", "round"} : LoopGoes(p, at, Nil, Nil)
           /\ UNCHANGED <<idle, pconn, signal, wire, reap, events>>
<1> DEFINE c == loop[p].rc
<1>1. /\ loop[p].at = "deliver"
      /\ caller' = [caller EXCEPT ![c].result = loop[p].resp]
      /\ loop' = [loop EXCEPT ![p].at = IF loop[p].resp.body THEN "wait" ELSE "round",
                              ![p].rc = Nil, ![p].resp = Nil]
      /\ UNCHANGED <<idle, pconn, signal, wire, reap, events>>
  BY DEF Deliver, At
<1>2. loop[p].resp \in Responses \cup {Nil}
  BY Types DEF ReadLoop
<1>3. Moves(c, caller[c].at, caller[c].conn, loop[p].resp)
  BY <1>1, <1>2, Types DEF Moves, Caller
<1>4. \E at \in {"wait", "round"} : LoopGoes(p, at, Nil, Nil)
  <2> DEFINE at == IF loop[p].resp.body THEN "wait" ELSE "round"
  <2>1. at \in {"wait", "round"} /\ at \in LoopAt
    BY DEF LoopAt
  <2> HIDE DEF at
  <2>2. loop' = [loop EXCEPT ![p].at = at, ![p].rc = Nil, ![p].resp = Nil]
    BY <1>1 DEF at
  <2>3. LoopGoes(p, at, Nil, Nil)
    BY <2>1, <2>2, Types DEF LoopGoes, ReadLoop
  <2>4. QED
    BY <2>1, <2>3
<1>5. QED
  BY <1>1, <1>3, <1>4

\* The steps of the far end, and of CloseIdleConnections.
LEMMA AnswerEffect ==
    ASSUME TypeInv, NEW p \in Conns, Answer(p)
    PROVE  /\ wire' \in [Conns -> Wire] /\ pconn[p].state # "none"
           /\ wire'[p].overtaken = wire[p].overtaken
           /\ \A q \in Conns \ {p} : wire'[q] = wire[q]
           /\ \/ wire'[p].requests = <<>> /\ wire'[p].responses = wire[p].responses
              \/ /\ wire[p].requests # <<>> /\ wire'[p].requests = Tail(wire[p].requests)
                 /\ \E x \in Responses :
                       /\ x.id = Head(wire[p].requests)
                       /\ wire'[p].responses = Append(wire[p].responses, x)
           /\ UNCHANGED <<idle, pconn, loop, signal, caller, reap, events>>
<1>1. wire \in [Conns -> Wire]
  BY Types
<1>2. CASE PeerCloses(p)
  <2>1. <<>> \in Seq(Ids)
    OBVIOUS
  <2>2. wire' = [wire EXCEPT ![p].peer = "closed", ![p].requests = <<>>]
    BY <1>2 DEF PeerCloses
  <2>3. wire' \in [Conns -> Wire]
    BY <1>1, <2>1, <2>2 DEF Wire
  <2>4. /\ wire'[p].requests = <<>> /\ wire'[p].responses = wire[p].responses
        /\ wire'[p].overtaken = wire[p].overtaken
        /\ \A q \in Conns \ {p} : wire'[q] = wire[q]
    BY <1>1, <2>2 DEF Wire
  <2>5. QED
    BY <1>2, <2>3, <2>4 DEF PeerCloses
<1>3. CASE \E r \in Replies : Reply(p, r)
  <2>1. PICK r \in Replies : Reply(p, r)
    BY <1>3
  <2> DEFINE x == [id |-> Head(wire[p].requests), body |-> r.body, close |-> r.close,
                   err |-> r.err]
             far == IF r.close THEN "closed" ELSE wire[p].peer
  <2>2. /\ wire[p].requests # <<>> /\ pconn[p].state = "open"
        /\ wire' = [wire EXCEPT ![p].requests = Tail(wire[p].requests),
                                ![p].responses = Append(wire[p].responses, x),
                                ![p].peer = far]
        /\ UNCHANGED <<idle, pconn, loop, signal, caller, reap, events>>
    BY <1>1, <2>1 DEF Reply
  <2>3. wire[p].requests \in Seq(Ids) /\ wire[p].responses \in Seq(Responses)
    BY <1>1 DEF Wire
  <2>4. Tail(wire[p].requests) \in Seq(Ids) /\ Head(wire[p].requests) \in Ids
    BY <2>2, <2>3, ReceiveType
  <2>5. r \in [body : BOOLEAN, close : BOOLEAN, err : BOOLEAN]
    BY <2>1, TransportAssumption
  <2>6. x \in Responses /\ x.id = Head(wire[p].requests)
    BY <2>4, <2>5 DEF Responses
  <2>7. far \in {"open", "closed"}
    BY <1>1 DEF Wire
  <2> HIDE DEF x, far
  <2>8. Append(wire[p].responses, x) \in Seq(Responses)
    BY <2>3, <2>6, AppendProperties
  <2>9. wire' \in [Conns -> Wire]
    BY <1>1, <2>2, <2>4, <2>7, <2>8 DEF Wire
  <2>10. /\ wire'[p].requests = Tail(wire[p].requests)
         /\ wire'[p].overtaken = wire[p].overtaken
         /\ wire'[p].responses = Append(wire[p].responses, x)
         /\ \A q \in Conns \ {p} : wire'[q] = wire[q]
    BY <1>1, <2>2 DEF Wire
  <2>11. QED
    BY <2>2, <2>6, <2>9, <2>10
<1>4. QED
  BY <1>2, <1>3 DEF Answer

LEMMA UnsolicitedEffect ==
    ASSUME TypeInv, NEW p \in Conns, NEW r \in Replies, Unsolicited(p, r)
    PROVE  /\ wire' \in [Conns -> Wire] /\ pconn[p].state # "none"
           /\ wire'[p].requests = wire[p].requests
           /\ \E x \in Responses : /\ x.id = NoRequest
                                   /\ wire'[p].responses = Append(wire[p].responses, x)
           /\ Overtaken(p) \/ pconn[p].expected # 0 => Overtaken(p)'
           /\ \A q \in Conns \ {p} : wire'[q] = wire[q]
           /\ events' \in 0 .. MaxEvents
           /\ UNCHANGED <<idle, pconn, loop, signal, caller, reap>>
<1> DEFINE x == [id |-> NoRequest, body |-> r.body, close |-> r.close, err |-> r.err]
           far == IF r.close THEN "closed" ELSE wire[p].peer
           late == wire[p].overtaken \/ pconn[p].expected # 0
<1>1. wire \in [Conns -> Wire] /\ wire[p].responses \in Seq(Responses)
  BY Types DEF Wire
<1>2. /\ pconn[p].state = "open" /\ events < MaxEvents /\ events' = events + 1
      /\ wire' = [wire EXCEPT ![p].responses = Append(wire[p].responses, x),
                              ![p].peer = far, ![p].overtaken = late]
      /\ UNCHANGED <<idle, pconn, loop, signal, caller, reap>>
  BY <1>1 DEF Unsolicited
<1>3. events' \in 0 .. MaxEvents
  BY <1>2, Types, TransportAssumption
<1>4. r \in [body : BOOLEAN, close : BOOLEAN, err : BOOLEAN]
  BY TransportAssumption
<1>5. x \in Responses /\ x.id = NoRequest
  BY <1>4 DEF Responses
<1>6. far \in {"open", "closed"} /\ late \in BOOLEAN
  BY <1>1 DEF Wire
<1>7. Overtaken(p) \/ pconn[p].expected # 0 => late
  BY DEF Overtaken
<1> HIDE DEF x, far, late
<1>8. Append(wire[p].responses, x) \in Seq(Responses)
  BY <1>1, <1>5, AppendProperties
<1>9. wire' \in [Conns -> Wire]
  <2>1. PICK u \in Seq(Responses) : u = Append(wire[p].responses, x)
    BY <1>8
  <2>2. wire' = [wire EXCEPT ![p].responses = u, ![p].peer = far, ![p].overtaken = late]
    BY <1>2, <2>1
  <2>3. wire[p] \in Wire
    BY <1>1
  <2>4. [wire[p] EXCEPT !.responses = u, !.peer = far, !.overtaken = late] \in Wire
    BY <1>6, <2>3 DEF Wire
  <2>5. wire' = [wire EXCEPT ![p] = [wire[p] EXCEPT !.responses = u, !.peer = far,
                                                    !.overtaken = late]]
    BY <1>1, <2>2
  <2>6. QED
    BY <1>1, <2>4, <2>5
<1>10. /\ wire'[p].requests = wire[p].requests
       /\ wire'[p].responses = Append(wire[p].responses, x)
       /\ wire'[p].overtaken = late
       /\ \A q \in Conns \ {p} : wire'[q] = wire[q]
  BY <1>1, <1>2 DEF Wire
<1>11. Overtaken(p) \/ pconn[p].expected # 0 => wire'[p].overtaken
  BY <1>7, <1>10
<1>12. QED
  BY <1>2, <1>3, <1>5, <1>9, <1>10, <1>11 DEF Overtaken

-----------------------------------------------------------------------------
(***************************************************************************)
(* Types are kept.                                                         *)
(***************************************************************************)
StaysDialled == \A q \in Conns : pconn[q].state # "none" => pconn'[q].state # "none"
SameExpected == \A q \in Conns : pconn'[q].expected = pconn[q].expected

LEMMA MoverOK ==
    ASSUME TypeInv, NEW c \in Callers, NEW at, NEW conn, NEW result, Moves(c, at, conn, result),
           at # "start", at # "done" => conn \in Conns /\ pconn'[conn].state # "none",
           at \in {"count", "write", "send"} => result = Nil,
           StaysDialled
    PROVE  CallerOK'
<1>1. SUFFICES ASSUME NEW d \in Callers
               PROVE  /\ caller'[d].num <= MaxRequests[d]
                      /\ caller'[d].at \notin {"start", "done"} =>
                            caller'[d].conn \in Conns /\ pconn'[caller'[d].conn].state # "none"
                      /\ caller'[d].at \in {"start", "count", "write", "send"} =>
                            caller'[d].result = Nil
  BY DEF CallerOK
<1>2. /\ caller[d].num <= MaxRequests[d]
      /\ caller[d].at \notin {"start", "done"} =>
            caller[d].conn \in Conns /\ pconn[caller[d].conn].state # "none"
      /\ caller[d].at \in {"start", "count", "write", "send"} => caller[d].result = Nil
  BY DEF TypeInv, CallerOK
<1>3. CASE d = c
  BY <1>2, <1>3 DEF Moves
<1>4. CASE d # c
  BY <1>2, <1>4 DEF Moves, StaysDialled
<1>5. QED
  BY <1>3, <1>4

LEMMA StayersOK ==
    ASSUME TypeInv, UNCHANGED caller, StaysDialled
    PROVE  CallerOK'
  BY DEF TypeInv, CallerOK, StaysDialled

LEMMA FewerCounted ==
    ASSUME TypeInv, SameExpected, \A q \in Conns : Counted(q)' \subseteq Counted(q)
    PROVE  CountOK'
<1>1. SUFFICES ASSUME NEW q \in Conns
               PROVE  /\ IsFiniteSet(Counted(q)')
                      /\ Cardinality(Counted(q)') <= pconn'[q].expected
  BY DEF CountOK
<1>2. /\ IsFiniteSet(Counted(q)) /\ Cardinality(Counted(q)) <= pconn[q].expected
      /\ pconn[q].expected \in Nat
  BY Types DEF TypeInv, CountOK, PersistConn
<1>3. Cardinality(Counted(q)) \in Nat
  BY <1>2, FS_CardinalityType
<1>4. IsFiniteSet(Counted(q)') /\ Cardinality(Counted(q)') <= Cardinality(Counted(q))
  BY <1>2, FS_Subset
<1>5. Cardinality(Counted(q)') \in Nat
  BY <1>4, FS_CardinalityType
<1>6. QED
  BY <1>2, <1>3, <1>4, <1>5 DEF SameExpected

\* A caller that does not begin a request adds nothing to what is counted.
LEMMA MoverCounted ==
    ASSUME TypeInv, NEW c \in Callers, NEW at, NEW conn, NEW result, Moves(c, at, conn, result),
           SameExpected,
           \/ at \notin {"write", "send", "receive"}
           \/ caller[c].at \in {"write", "send", "receive"} /\ conn = caller[c].conn
    PROVE  CountOK'
<1>1. \A q \in Conns : \A d \in Counted(q)' : d \in Counted(q)
  BY DEF Moves, Counted
<1>2. QED
  BY <1>1, FewerCounted

LEMMA StayersCounted ==
    ASSUME TypeInv, UNCHANGED caller, SameExpected
    PROVE  CountOK'
<1>1. \A q \in Conns : Counted(q)' = Counted(q)
  BY DEF Counted
<1>2. QED
  BY <1>1, FewerCounted

LEMMA OnlyClosesOK ==
    ASSUME OnlyCloses
    PROVE  StaysDialled /\ SameExpected
  BY DEF OnlyCloses, StaysDialled, SameExpected

LEMMA CountsOK ==
    ASSUME NEW p \in Conns, NEW e, NEW r, Counts(p, e, r)
    PROVE  StaysDialled /\ (e = pconn[p].expected => SameExpected)
  BY DEF Counts, StaysDialled, SameExpected

\* Connections that are dialled already may do anything else.
LEMMA DialledOK ==
    ASSUME TypeInv, NEW p \in Conns, pconn[p].state # "none",
           \A q \in Conns : /\ pconn'[q].key = pconn[q].key
                            /\ pconn'[q].state = "none" <=> pconn[q].state = "none",
           \A q \in Conns \ {p} : loop'[q] = loop[q] /\ wire'[q] = wire[q]
    PROVE  ConnOK'
  BY DEF TypeInv, ConnOK

LEMMA UntouchedOK ==
    ASSUME TypeInv, UNCHANGED <<loop, wire>>,
           \A q \in Conns : /\ pconn'[q].key = pconn[q].key
                            /\ pconn'[q].state = "none" <=> pconn[q].state = "none"
    PROVE  ConnOK'
  BY DEF TypeInv, ConnOK

LEMMA LoopIsDialled ==
    ASSUME TypeInv, NEW p \in Conns, loop[p].at # "none"
    PROVE  pconn[p].state # "none"
  BY DEF TypeInv, ConnOK

LEMMA GivesBackOK ==
    ASSUME TypeInv, NEW p \in Conns, GivesBack(p)
    PROVE  idle' \in [Keys -> Seq(Conns)]
<1>1. idle \in [Keys -> Seq(Conns)] /\ \A k \in Keys : Append(idle[k], p) \in Seq(Conns)
  BY Types, AppendProperties
<1>2. QED
  BY <1>1 DEF GivesBack

\* The request that a loop serves belongs to a caller that waits for its response, and so
\* do those that wait for the loop.
Waits(c, p) == caller[c].at = "receive" /\ caller[c].conn = p /\ caller[c].result = Nil

Serving == {"advance", "read", "deliver"}

RequestsOf(p) ==
    /\ IsInjective(pconn[p].reqch)
    /\ \A c \in ToSet(pconn[p].reqch) : Waits(c, p)
    /\ loop[p].at \in Serving => /\ loop[p].rc \in Callers /\ Waits(loop[p].rc, p)
                                 /\ loop[p].rc \notin ToSet(pconn[p].reqch)
    /\ loop[p].at = "deliver" =>
          /\ loop[p].resp \in Responses
          /\ loop[p].resp.id \in {Nil, Id(loop[p].rc)} \/ Overtaken(p)

RequestsWait == \A p \in Conns : RequestsOf(p)

LEMMA TypeGetIdle ==
    ASSUME TypeInv, NEW c \in Callers, GetIdleConn(c),
           \A j \in DOMAIN idle[KeyOf[c]] : pconn[idle[KeyOf[c]][j]].state # "none"
    PROVE  TypeInv'
<1>1. /\ caller[c].at = "start" /\ PoolShrinks
      /\ UNCHANGED <<pconn, loop, signal, wire, reap, events>>
  BY GetIdleEffect
<1>2. PICK i \in DOMAIN idle[KeyOf[c]] : /\ Moves(c, "count", idle[KeyOf[c]][i], caller[c].result)
                                         /\ idle[KeyOf[c]][i] \in Conns
  BY GetIdleEffect
<1>3. StaysDialled /\ SameExpected
  BY <1>1 DEF StaysDialled, SameExpected
<1>4. caller[c].result = Nil /\ pconn'[idle[KeyOf[c]][i]].state # "none"
  BY <1>1, <1>2 DEF TypeInv, CallerOK
<1>5. CallerOK' /\ CountOK' /\ ConnOK'
  BY <1>1, <1>2, <1>3, <1>4, MoverOK, MoverCounted, UntouchedOK
<1>6. QED
  BY <1>1, <1>2, <1>5, Types, TypesIntro DEF PoolShrinks, Moves

LEMMA TypeDial ==
    ASSUME TypeInv, NEW c \in Callers, Dial(c)
    PROVE  TypeInv'
<1>1. caller[c].at = "start" /\ PoolShrinks /\ UNCHANGED <<signal, wire, reap, events>>
  BY DialEffect
<1>2. PICK p \in Conns :
         /\ pconn[p].state = "none"
         /\ Moves(c, "count", p, caller[c].result)
         /\ LoopGoes(p, "peek", loop[p].rc, loop[p].resp)
         /\ pconn' \in [Conns -> PersistConn]
         /\ pconn'[p].state = "open" /\ pconn'[p].key \in Keys
         /\ pconn'[p].expected = pconn[p].expected /\ pconn'[p].reqch = pconn[p].reqch
         /\ \A q \in Conns \ {p} : pconn'[q] = pconn[q]
  BY DialEffect
<1>3. StaysDialled /\ SameExpected
  BY <1>2 DEF StaysDialled, SameExpected
<1>4. caller[c].result = Nil /\ pconn'[p].state # "none"
  BY <1>1, <1>2 DEF TypeInv, CallerOK
<1>5. CallerOK' /\ CountOK'
  BY <1>2, <1>3, <1>4, MoverOK, MoverCounted
<1>6. ConnOK'
  BY <1>1, <1>2 DEF TypeInv, ConnOK, LoopGoes
<1>7. QED
  BY <1>1, <1>2, <1>5, <1>6, Types, TypesIntro DEF PoolShrinks, Moves, LoopGoes

LEMMA TypeDialFails ==
    ASSUME TypeInv, NEW c \in Callers, DialFails(c)
    PROVE  TypeInv'
<1>1. /\ PoolShrinks /\ Moves(c, "done", Nil, Nil)
      /\ UNCHANGED <<pconn, loop, signal, wire, reap, events>>
  BY DialFailsEffect
<1>2. StaysDialled /\ SameExpected
  BY <1>1 DEF StaysDialled, SameExpected
<1>3. CallerOK' /\ CountOK' /\ ConnOK'
  BY <1>1, <1>2, MoverOK, MoverCounted, UntouchedOK
<1>4. QED
  BY <1>1, <1>3, Types, TypesIntro DEF PoolShrinks, Moves

LEMMA TypeCount ==
    ASSUME TypeInv, NEW c \in Callers, CountRequest(c)
    PROVE  TypeInv'
<1> DEFINE p == caller[c].conn
<1>1. /\ caller[c].at = "count" /\ p \in Conns
      /\ Moves(c, "write", p, caller[c].result)
      /\ Counts(p, pconn[p].expected + 1, pconn[p].reqch)
      /\ wire' \in [Conns -> Wire] /\ \A q \in Conns \ {p} : wire'[q] = wire[q]
      /\ UNCHANGED <<idle, loop, signal, reap, events>>
  BY CountEffect
<1>2. pconn[p].state # "none" /\ caller[c].result = Nil
  BY <1>1 DEF TypeInv, CallerOK
<1> HIDE DEF p
<1>3. StaysDialled
  BY <1>1, CountsOK
<1>4. pconn'[p].state # "none"
  BY <1>1, <1>2 DEF Counts
<1>5. CallerOK'
  BY <1>1, <1>2, <1>3, <1>4, MoverOK
<1>6. ConnOK'
  BY <1>1, <1>2, DialledOK DEF Counts
<1>7. CountOK'
  <2>1. SUFFICES ASSUME NEW q \in Conns
                 PROVE  /\ IsFiniteSet(Counted(q)')
                        /\ Cardinality(Counted(q)') <= pconn'[q].expected
    BY DEF CountOK
  <2>2. /\ IsFiniteSet(Counted(q)) /\ Cardinality(Counted(q)) <= pconn[q].expected
        /\ pconn[q].expected \in Nat
    BY Types DEF TypeInv, CountOK, PersistConn
  <2>3. Cardinality(Counted(q)) \in Nat
    BY <2>2, FS_CardinalityType
  <2>4. CASE q = p
    <3>1. Counted(q)' = Counted(q) \cup {c}
      BY <1>1, <2>4 DEF Counted, Moves
    <3>2. /\ IsFiniteSet(Counted(q) \cup {c})
          /\ Cardinality(Counted(q) \cup {c}) =
                IF c \in Counted(q) THEN Cardinality(Counted(q)) ELSE Cardinality(Counted(q)) + 1
      BY <2>2, FS_AddElement
    <3>3. Cardinality(Counted(q)') <= Cardinality(Counted(q)) + 1
      BY <2>3, <3>1, <3>2
    <3>4. pconn'[q].expected = pconn[q].expected + 1
      BY <1>1, <2>4 DEF Counts
    <3>5. Cardinality(Counted(q)') \in Nat
      BY <3>1, <3>2, FS_CardinalityType
    <3>6. QED
      BY <2>2, <2>3, <3>1, <3>2, <3>3, <3>4, <3>5
  <2>5. CASE q # p
    <3>1. Counted(q)' = Counted(q)
      BY <1>1, <2>5 DEF Counted, Moves, p
    <3>2. QED
      BY <1>1, <2>2, <2>5, <3>1 DEF Counts
  <2>6. QED
    BY <2>4, <2>5
<1>8. QED
  BY <1>1, <1>5, <1>6, <1>7, Types, TypesIntro DEF Moves, Counts

LEMMA TypeWrite ==
    ASSUME TypeInv, NEW c \in Callers, WriteRequest(c)
    PROVE  TypeInv'
<1> DEFINE p == caller[c].conn
<1>1. /\ caller[c].at = "write" /\ p \in Conns
      /\ Moves(c, "send", p, caller[c].result)
      /\ wire' \in [Conns -> Wire]
      /\ \A q \in Conns \ {p} : wire'[q] = wire[q]
      /\ UNCHANGED <<idle, pconn, loop, signal, reap, events>>
  BY WriteEffect
<1>2. pconn[p].state # "none" /\ caller[c].result = Nil
  BY <1>1 DEF TypeInv, CallerOK
<1>3. StaysDialled /\ SameExpected
  BY <1>1 DEF StaysDialled, SameExpected
<1>4. CountOK'
  BY <1>1, <1>3, MoverCounted
<1> HIDE DEF p
<1>5. CallerOK'
  BY <1>1, <1>2, <1>3, MoverOK
<1>6. ConnOK'
  BY <1>1, <1>2, DialledOK
<1>7. QED
  BY <1>1, <1>4, <1>5, <1>6, Types, TypesIntro DEF Moves

LEMMA TypeWriteFails ==
    ASSUME TypeInv, NEW c \in Callers, WriteFails(c)
    PROVE  TypeInv'
<1>1. /\ Moves(c, "done", Nil, Nil) /\ OnlyCloses
      /\ UNCHANGED <<idle, loop, signal, wire, reap, events>>
  BY WriteFailsEffect
<1>2. StaysDialled /\ SameExpected
  BY <1>1, OnlyClosesOK
<1>3. CallerOK' /\ CountOK'
  BY <1>1, <1>2, MoverOK, MoverCounted
<1>4. ConnOK'
  BY <1>1, UntouchedOK DEF OnlyCloses
<1>5. QED
  BY <1>1, <1>3, <1>4, Types, TypesIntro DEF Moves, OnlyCloses

LEMMA TypeSend ==
    ASSUME TypeInv, NEW c \in Callers, SendRequest(c)
    PROVE  TypeInv'
<1> DEFINE p == caller[c].conn
<1>1. /\ caller[c].at = "send" /\ p \in Conns
      /\ Moves(c, "receive", p, Nil)
      /\ Counts(p, pconn[p].expected, Append(pconn[p].reqch, c))
      /\ UNCHANGED <<idle, loop, signal, wire, reap, events>>
  BY SendEffect
<1>2. StaysDialled /\ SameExpected
  BY <1>1, CountsOK
<1>3. pconn'[p].state # "none"
  BY <1>1, <1>2, CallerHasConn DEF StaysDialled
<1>4. CountOK'
  BY <1>1, <1>2, MoverCounted
<1> HIDE DEF p
<1>5. CallerOK'
  BY <1>1, <1>2, <1>3, MoverOK
<1>6. ConnOK'
  BY <1>1, UntouchedOK DEF Counts
<1>7. QED
  BY <1>1, <1>4, <1>5, <1>6, Types, TypesIntro DEF Moves, Counts

LEMMA TypeReceive ==
    ASSUME TypeInv, NEW c \in Callers, ReceiveAnswer(c)
    PROVE  TypeInv'
<1> DEFINE p == caller[c].conn
           r == caller[c].result
<1>1. /\ caller[c].at = "receive" /\ p \in Conns
      /\ Moves(c, "body", p, Nil) \/ Moves(c, "done", Nil, Nil)
      /\ Counts(p, pconn[p].expected - 1, pconn[p].reqch)
      /\ Cardinality(Counted(p)) <= pconn[p].expected /\ pconn[p].expected > 0
      /\ UNCHANGED <<idle, loop, signal, wire, reap, events>>
  BY ReceiveEffect
<1>2. StaysDialled
  BY <1>1, CountsOK
<1>3. pconn'[p].state # "none"
  BY <1>1, <1>2, CallerHasConn DEF StaysDialled
<1> HIDE DEF p, r
<1>4. CallerOK'
  BY <1>1, <1>2, <1>3, MoverOK
<1>5. ConnOK'
  BY <1>1, UntouchedOK DEF Counts
<1>6. CountOK'
  <2>1. SUFFICES ASSUME NEW q \in Conns
                 PROVE  /\ IsFiniteSet(Counted(q)')
                        /\ Cardinality(Counted(q)') <= pconn'[q].expected
    BY DEF CountOK
  <2>2. /\ IsFiniteSet(Counted(q)) /\ Cardinality(Counted(q)) <= pconn[q].expected
        /\ pconn[q].expected \in Nat
    BY Types DEF TypeInv, CountOK, PersistConn
  <2>3. Cardinality(Counted(q)) \in Nat
    BY <2>2, FS_CardinalityType
  <2>4. CASE q = p
    <3>1. Counted(q)' = Counted(q) \ {c} /\ c \in Counted(q)
      BY <1>1, <2>4 DEF Counted, Moves, p
    <3>2. /\ IsFiniteSet(Counted(q) \ {c})
          /\ Cardinality(Counted(q) \ {c}) = Cardinality(Counted(q)) - 1
      BY <2>2, <3>1, FS_RemoveElement
    <3>3. pconn'[q].expected = pconn[q].expected - 1
      BY <1>1, <2>4 DEF Counts
    <3>4. QED
      BY <2>2, <2>3, <3>1, <3>2, <3>3
  <2>5. CASE q # p
    <3>1. Counted(q)' = Counted(q)
      BY <1>1, <2>5 DEF Counted, Moves, p
    <3>2. QED
      BY <1>1, <2>2, <2>5, <3>1 DEF Counts
  <2>6. QED
    BY <2>4, <2>5
<1>7. QED
  BY <1>1, <1>4, <1>5, <1>6, Types, TypesIntro DEF Moves, Counts

LEMMA TypeNextRequest ==
    ASSUME TypeInv, NEW c \in Callers, NextRequest(c)
    PROVE  TypeInv'
<1>1. /\ caller' \in [Callers -> Caller]
      /\ caller'[c].at = "start" /\ caller'[c].result = Nil
      /\ caller'[c].num <= MaxRequests[c]
      /\ \A d \in Callers \ {c} : caller'[d] = caller[d]
      /\ UNCHANGED <<idle, pconn, loop, signal, wire, reap, events>>
  BY NextRequestEffect
<1>2. CallerOK'
  <2>1. \A d \in Callers \ {c} :
           /\ caller'[d].num <= MaxRequests[d]
           /\ caller'[d].at \notin {"start", "done"} =>
                 caller'[d].conn \in Conns /\ pconn'[caller'[d].conn].state # "none"
           /\ caller'[d].at \in {"start", "count", "write", "send"} => caller'[d].result = Nil
    BY <1>1 DEF TypeInv, CallerOK
  <2>2. QED
    BY <1>1, <2>1 DEF CallerOK
<1>3. CountOK'
  <2>1. \A q \in Conns : \A d \in Counted(q)' : d \in Counted(q)
    BY <1>1 DEF Counted
  <2>2. QED
    BY <1>1, <2>1, FewerCounted DEF SameExpected
<1>4. ConnOK'
  BY <1>1, UntouchedOK
<1>5. QED
  BY <1>1, <1>2, <1>3, <1>4, Types, TypesIntro

LEMMA TypeUseBody ==
    ASSUME TypeInv, NEW c \in Callers, NEW use \in BodyUses, UseBody(c, use)
    PROVE  TypeInv'
<1> DEFINE p == caller[c].conn
<1>1. /\ caller[c].at = "body" /\ p \in Conns
      /\ \/ Moves(c, "done", Nil, Nil) /\ UNCHANGED <<idle, pconn, loop>>
         \/ /\ Moves(c, "signal", p, caller[c].result)
            /\ GivesBack(p) /\ LoopGoes(p, loop[p].at, loop[p].rc, loop[p].resp)
      /\ signal' \in [Conns -> BodySignal]
      /\ UNCHANGED <<wire, reap, events>>
  BY UseBodyEffect
<1>2. pconn[p].state # "none"
  BY <1>1, CallerHasConn
<1> HIDE DEF p
<1>3. CASE Moves(c, "done", Nil, Nil) /\ UNCHANGED <<idle, pconn, loop>>
  <2>1. StaysDialled /\ SameExpected
    BY <1>3 DEF StaysDialled, SameExpected
  <2>2. CallerOK' /\ CountOK' /\ ConnOK'
    BY <1>1, <1>3, <2>1, MoverOK, MoverCounted, UntouchedOK
  <2>3. QED
    BY <1>1, <1>3, <2>2, Types, TypesIntro DEF Moves
<1>4. CASE /\ Moves(c, "signal", p, caller[c].result)
           /\ GivesBack(p) /\ LoopGoes(p, loop[p].at, loop[p].rc, loop[p].resp)
  <2>1. OnlyCloses /\ StaysDialled /\ SameExpected
    BY <1>4, OnlyClosesOK DEF GivesBack
  <2>2. CallerOK' /\ CountOK'
    BY <1>1, <1>2, <1>4, <2>1, MoverOK, MoverCounted DEF StaysDialled
  <2>3. ConnOK'
    BY <1>1, <1>2, <1>4, <2>1, DialledOK DEF OnlyCloses, LoopGoes
  <2>4. QED
    BY <1>1, <1>4, <2>1, <2>2, <2>3, Types, TypesIntro, GivesBackOK DEF Moves, OnlyCloses, LoopGoes
<1>5. QED
  BY <1>1, <1>3, <1>4

LEMMA TypeSignal ==
    ASSUME TypeInv, NEW c \in Callers, Signal(c)
    PROVE  TypeInv'
<1> DEFINE p == caller[c].conn
<1>1. /\ caller[c].at = "signal" /\ p \in Conns
      /\ Moves(c, "clear", p, caller[c].result)
      /\ LoopGoes(p, "round", loop[p].rc, loop[p].resp)
      /\ UNCHANGED <<idle, pconn, signal, wire, reap, events>>
  BY SignalEffect
<1>2. pconn[p].state # "none"
  BY <1>1, CallerHasConn
<1> HIDE DEF p
<1>3. StaysDialled /\ SameExpected
  BY <1>1 DEF StaysDialled, SameExpected
<1>4. CallerOK' /\ CountOK'
  BY <1>1, <1>2, <1>3, MoverOK, MoverCounted
<1>5. ConnOK'
  BY <1>1, <1>2, DialledOK DEF LoopGoes
<1>6. QED
  BY <1>1, <1>4, <1>5, Types, TypesIntro DEF Moves, LoopGoes

LEMMA TypeClearSignal ==
    ASSUME TypeInv, NEW c \in Callers, ClearSignal(c)
    PROVE  TypeInv'
<1>1. /\ Moves(c, "done", Nil, Nil) /\ signal' \in [Conns -> BodySignal]
      /\ UNCHANGED <<idle, pconn, loop, wire, reap, events>>
  BY ClearSignalEffect
<1>2. StaysDialled /\ SameExpected
  BY <1>1 DEF StaysDialled, SameExpected
<1>3. CallerOK' /\ CountOK' /\ ConnOK'
  BY <1>1, <1>2, MoverOK, MoverCounted, UntouchedOK
<1>4. QED
  BY <1>1, <1>3, Types, TypesIntro DEF Moves

\* A loop that moves, while callers stay.
LEMMA TypeLoop ==
    ASSUME TypeInv, NEW p \in Conns, loop[p].at # "none",
           NEW at, NEW rc, NEW resp, LoopGoes(p, at, rc, resp),
           OnlyCloses, idle' \in [Keys -> Seq(Conns)], signal' \in [Conns -> BodySignal],
           wire' \in [Conns -> Wire], \A q \in Conns \ {p} : wire'[q] = wire[q],
           UNCHANGED <<caller, reap, events>>
    PROVE  TypeInv'
<1>1. StaysDialled /\ SameExpected
  BY OnlyClosesOK
<1>2. CallerOK' /\ CountOK'
  BY <1>1, StayersOK, StayersCounted
<1>3. ConnOK'
  BY LoopIsDialled, DialledOK DEF OnlyCloses, LoopGoes
<1>4. QED
  BY <1>2, <1>3, Types, TypesIntro DEF OnlyCloses, LoopGoes

LEMMA TypeTurn ==
    ASSUME TypeInv, NEW p \in Conns,
           Peek(p) \/ NothingExpected(p) \/ EndRound(p) \/ ReadFails(p) \/ CloseLastBody(p)
           \/ ReadResponse(p)
    PROVE  TypeInv'
<1>1. CASE Peek(p) \/ NothingExpected(p) \/ EndRound(p)
  <2>1. /\ loop[p].at \in {"peek", "peeked", "round"} /\ OnlyCloses
        /\ UNCHANGED <<idle, signal, caller, wire, reap, events>>
    BY <1>1, TurnEffect
  <2>2. PICK at \in {"peek", "peeked", "exit"} : LoopGoes(p, at, loop[p].rc, loop[p].resp)
    BY <1>1, TurnEffect
  <2>3. QED
    BY <2>1, <2>2, Types, TypeLoop
<1>2. CASE ReadFails(p)
  <2>1. /\ loop[p].at = "read" /\ OnlyCloses /\ LoopGoes(p, "deliver", loop[p].rc, Failure)
        /\ UNCHANGED <<idle, signal, caller, wire, reap, events>>
    BY <1>2, ReadFailsEffect
  <2>2. QED
    BY <2>1, Types, TypeLoop
<1>3. CASE CloseLastBody(p)
  <2>1. /\ loop[p].at = "advance" /\ signal' \in [Conns -> BodySignal]
        /\ \/ GivesBack(p) /\ LoopGoes(p, "stuck", loop[p].rc, loop[p].resp)
           \/ UNCHANGED <<idle, pconn>> /\ LoopGoes(p, "read", loop[p].rc, loop[p].resp)
        /\ UNCHANGED <<caller, wire, reap, events>>
    BY <1>3, CloseLastBodyEffect
  <2>2. OnlyCloses /\ idle' \in [Keys -> Seq(Conns)]
    BY <2>1, SameOnlyCloses, GivesBackOK, Types DEF GivesBack
  <2>3. QED
    BY <2>1, <2>2, Types, TypeLoop
<1>4. CASE ReadResponse(p)
  <2> DEFINE r == Head(wire[p].responses)
  <2>1. /\ loop[p].at = "read" /\ LoopGoes(p, "deliver", loop[p].rc, r) /\ GivesBack(p)
        /\ signal' \in [Conns -> BodySignal] /\ wire' \in [Conns -> Wire]
        /\ \A q \in Conns \ {p} : wire'[q] = wire[q]
        /\ UNCHANGED <<caller, reap, events>>
    BY <1>4, ReadEffect
  <2> HIDE DEF r
  <2>2. OnlyCloses /\ idle' \in [Keys -> Seq(Conns)]
    BY <2>1, GivesBackOK DEF GivesBack
  <2>3. QED
    BY <2>1, <2>2, TypeLoop
<1>5. QED
  BY <1>1, <1>2, <1>3, <1>4

LEMMA TypeTake ==
    ASSUME TypeInv, NEW p \in Conns, TakeRequest(p)
    PROVE  TypeInv'
<1> DEFINE rc == Head(pconn[p].reqch)
           rest == Tail(pconn[p].reqch)
<1>1. /\ loop[p].at = "peeked"
      /\ Counts(p, pconn[p].expected, rest)
      /\ LoopGoes(p, "advance", rc, loop[p].resp)
      /\ UNCHANGED <<idle, signal, caller, wire, reap, events>>
  BY TakeEffect
<1> HIDE DEF rc, rest
<1>2. StaysDialled /\ SameExpected
  BY <1>1, CountsOK
<1>3. CallerOK' /\ CountOK'
  BY <1>1, <1>2, StayersOK, StayersCounted
<1>4. ConnOK'
  BY <1>1, LoopIsDialled, DialledOK DEF Counts, LoopGoes
<1>5. QED
  BY <1>1, <1>3, <1>4, Types, TypesIntro DEF Counts, LoopGoes

LEMMA TypeDeliver ==
    ASSUME TypeInv, RequestsWait, NEW p \in Conns, Deliver(p)
    PROVE  TypeInv'
<1> DEFINE c == loop[p].rc
<1>1. loop[p].at = "deliver" /\ c \in Callers /\ Waits(c, p)
  BY DEF RequestsWait, RequestsOf, Serving, Deliver, At
<1>2. /\ Moves(c, caller[c].at, caller[c].conn, loop[p].resp)
      /\ UNCHANGED <<idle, pconn, signal, wire, reap, events>>
  BY <1>1, DeliverEffect
<1>3. PICK at \in {"wait", "round"} : LoopGoes(p, at, Nil, Nil)
  BY <1>1, DeliverEffect
<1>4. StaysDialled /\ SameExpected /\ pconn[p].state # "none"
  BY <1>1, <1>2, LoopIsDialled DEF StaysDialled, SameExpected
<1> HIDE DEF c
<1>5. Moves(c, "receive", p, loop[p].resp) /\ caller[c].at = "receive" /\ caller[c].conn = p
  BY <1>1, <1>2 DEF Waits
<1>6. CallerOK' /\ CountOK'
  BY <1>1, <1>2, <1>4, <1>5, MoverOK, MoverCounted
<1>7. ConnOK'
  BY <1>2, <1>3, <1>4, DialledOK DEF LoopGoes
<1>8. QED
  BY <1>2, <1>3, <1>6, <1>7, Types, TypesIntro DEF Moves, LoopGoes

LEMMA TypeAnswer ==
    ASSUME TypeInv, NEW p \in Conns, Answer(p)
    PROVE  TypeInv'
<1>1. /\ wire' \in [Conns -> Wire] /\ pconn[p].state # "none"
      /\ \A q \in Conns \ {p} : wire'[q] = wire[q]
      /\ UNCHANGED <<idle, pconn, loop, signal, caller, reap, events>>
  BY AnswerEffect
<1>2. StaysDialled /\ SameExpected
  BY <1>1 DEF StaysDialled, SameExpected
<1>3. CallerOK' /\ CountOK' /\ ConnOK'
  BY <1>1, <1>2, StayersOK, StayersCounted, DialledOK
<1>4. QED
  BY <1>1, <1>3, Types, TypesIntro

LEMMA TypeUnsolicited ==
    ASSUME TypeInv, NEW p \in Conns, NEW r \in Replies, Unsolicited(p, r)
    PROVE  TypeInv'
<1>1. /\ wire' \in [Conns -> Wire] /\ pconn[p].state # "none"
      /\ \A q \in Conns \ {p} : wire'[q] = wire[q]
      /\ events' \in 0 .. MaxEvents
      /\ UNCHANGED <<idle, pconn, loop, signal, caller, reap>>
  BY UnsolicitedEffect
<1>2. StaysDialled /\ SameExpected
  BY <1>1 DEF StaysDialled, SameExpected
<1>3. CallerOK' /\ CountOK' /\ ConnOK'
  BY <1>1, <1>2, StayersOK, StayersCounted, DialledOK
<1>4. QED
  BY <1>1, <1>3, Types, TypesIntro

LEMMA TypeCloseIdle ==
    ASSUME TypeInv, NEW p \in Conns, CloseIdle(p)
    PROVE  TypeInv'
<1>1. /\ reap' \subseteq reap /\ OnlyCloses
      /\ UNCHANGED <<idle, loop, signal, caller, wire, events>>
  BY ClosedOnlyCloses DEF CloseIdle
<1>2. StaysDialled /\ SameExpected
  BY <1>1, OnlyClosesOK
<1>3. CallerOK' /\ CountOK' /\ ConnOK'
  BY <1>1, <1>2, StayersOK, StayersCounted, UntouchedOK DEF OnlyCloses
<1>4. QED
  BY <1>1, <1>3, Types, TypesIntro DEF OnlyCloses

LEMMA TypeCloseIdleConnections ==
    ASSUME TypeInv, CloseIdleConnections
    PROVE  TypeInv'
<1>1. /\ reap' = UNION {ToSet(idle[k]) : k \in Keys} /\ idle' = [k \in Keys |-> <<>>]
      /\ events' = events + 1 /\ events < MaxEvents
      /\ UNCHANGED <<pconn, loop, signal, caller, wire>>
  BY DEF CloseIdleConnections
<1>2. idle' \in [Keys -> Seq(Conns)]
  BY <1>1
<1>3. reap' \subseteq Conns
  <2>1. \A k \in Keys : ToSet(idle[k]) \subseteq Conns
    BY Types, MemberType
  <2>2. QED
    BY <1>1, <2>1
<1>4. events' \in 0 .. MaxEvents
  BY <1>1, Types, TransportAssumption
<1>5. StaysDialled /\ SameExpected
  BY <1>1 DEF StaysDialled, SameExpected
<1>6. CallerOK' /\ CountOK' /\ ConnOK'
  BY <1>1, <1>5, StayersOK, StayersCounted, UntouchedOK
<1>7. QED
  BY <1>1, <1>2, <1>3, <1>4, <1>6, Types, TypesIntro

LEMMA TypeInit ==
    ASSUME Init
    PROVE  TypeInv
<1>1. TypeOK
  BY TransportAssumption DEF Init, TypeOK
<1>2. CallerOK /\ ConnOK
  <2>1. \A c \in Callers : MaxRequests[c] \in Nat /\ 1 <= MaxRequests[c]
    BY TransportAssumption
  <2>2. \A c \in Callers :
           caller[c].num = 1 /\ caller[c].at = "start" /\ caller[c].result = Nil
    BY DEF Init
  <2>3. \A p \in Conns :
           wire[p].requests = <<>> /\ wire[p].responses = <<>> /\ loop[p].at = "none"
           /\ pconn[p].state = "none"
    BY DEF Init
  <2>4. CallerOK
    BY <2>1, <2>2 DEF CallerOK
  <2>5. QED
    BY <2>3, <2>4 DEF ConnOK
<1>3. CountOK
  <2>1. \A p \in Conns : Counted(p) = {} /\ pconn[p].expected = 0
    BY DEF Init, Counted
  <2>2. IsFiniteSet({}) /\ Cardinality({}) = 0 /\ 0 <= 0
    BY FS_EmptySet
  <2>3. QED
    BY <2>1, <2>2 DEF CountOK
<1>4. QED
  BY <1>1, <1>2, <1>3 DEF TypeInv

-----------------------------------------------------------------------------
(***************************************************************************)
(* The pool holds connections that were dialled, under their own keys.     *)
(***************************************************************************)
PoolOK ==
    /\ \A k \in Keys : Len(idle[k]) <= MaxIdle
    /\ \A k \in Keys : \A i \in DOMAIN idle[k] :
          pconn[idle[k][i]].state # "none" /\ pconn[idle[k][i]].key = k
    /\ \A p \in reap : pconn[p].state # "none"

LEMMA PoolMembers ==
    ASSUME TypeInv, NEW k \in Keys
    PROVE  /\ idle[k] \in Seq(Conns) /\ DOMAIN idle[k] = 1..Len(idle[k]) /\ Len(idle[k]) \in Nat
           /\ \A i \in DOMAIN idle[k] : idle[k][i] \in Conns
<1>1. idle[k] \in Seq(Conns)
  BY Types
<1>2. QED
  BY <1>1, LenProperties, ElementOfSeq

SameKeys == \A q \in Conns : pconn[q].state # "none" => pconn'[q].key = pconn[q].key

LEMMA PoolSmaller ==
    ASSUME TypeInv, PoolOK, PoolShrinks, reap' \subseteq reap, StaysDialled, SameKeys
    PROVE  PoolOK'
<1>1. \A k \in Keys : Len(idle'[k]) <= MaxIdle
  <2>1. SUFFICES ASSUME NEW k \in Keys PROVE Len(idle'[k]) <= MaxIdle
    OBVIOUS
  <2>2. idle'[k] \in Seq(Conns) /\ Len(idle'[k]) <= Len(idle[k]) /\ Len(idle[k]) <= MaxIdle
    BY DEF PoolShrinks, PoolOK
  <2>3. Len(idle'[k]) \in Nat /\ Len(idle[k]) \in Nat /\ MaxIdle \in Nat
    BY <2>2, LenProperties, PoolMembers, TransportAssumption
  <2>4. QED
    BY <2>2, <2>3
<1>2. \A k \in Keys : \A i \in DOMAIN idle'[k] :
         pconn'[idle'[k][i]].state # "none" /\ pconn'[idle'[k][i]].key = k
  <2>1. SUFFICES ASSUME NEW k \in Keys, NEW i \in DOMAIN idle'[k]
                 PROVE  pconn'[idle'[k][i]].state # "none" /\ pconn'[idle'[k][i]].key = k
    OBVIOUS
  <2>2. i \in DOMAIN idle[k] /\ idle'[k][i] = idle[k][i]
    BY DEF PoolShrinks
  <2>3. idle[k][i] \in Conns /\ pconn[idle[k][i]].state # "none" /\ pconn[idle[k][i]].key = k
    BY <2>2, PoolMembers DEF PoolOK
  <2>4. QED
    BY <2>2, <2>3 DEF StaysDialled, SameKeys
<1>3. \A p \in reap' : pconn'[p].state # "none"
  BY Types DEF PoolOK, StaysDialled
<1>4. QED
  BY <1>1, <1>2, <1>3 DEF PoolOK

\* What Append does to a list.
LEMMA AppendElements ==
    ASSUME NEW S, NEW s \in Seq(S), NEW e \in S
    PROVE  /\ Append(s, e) \in Seq(S) /\ Len(Append(s, e)) = Len(s) + 1 /\ Len(s) \in Nat
           /\ DOMAIN Append(s, e) = DOMAIN s \cup {Len(s) + 1} /\ Len(s) + 1 \notin DOMAIN s
           /\ \A i \in DOMAIN s : Append(s, e)[i] = s[i]
           /\ Append(s, e)[Len(s) + 1] = e
<1>1. /\ Append(s, e) \in Seq(S) /\ Len(Append(s, e)) = Len(s) + 1 /\ Len(s) \in Nat
      /\ \A i \in 1..Len(s) : Append(s, e)[i] = s[i]
      /\ Append(s, e)[Len(s) + 1] = e
  BY AppendProperties, LenProperties
<1>2. DOMAIN s = 1..Len(s) /\ DOMAIN Append(s, e) = 1..(Len(s) + 1)
  BY <1>1, LenProperties
<1>3. 1..(Len(s) + 1) = 1..Len(s) \cup {Len(s) + 1} /\ Len(s) + 1 \notin 1..Len(s)
  BY <1>1
<1>4. QED
  BY <1>1, <1>2, <1>3

\* What GivesBack does to the pool.
LEMMA GivenBack ==
    ASSUME TypeInv, NEW p \in Conns, GivesBack(p), pconn[p].state # "none"
    PROVE  \/ UNCHANGED idle
           \/ LET k == pconn[p].key IN
              /\ k \in Keys /\ Len(idle[k]) < MaxIdle
              /\ Len(idle'[k]) = Len(idle[k]) + 1
              /\ DOMAIN idle'[k] = DOMAIN idle[k] \cup {Len(idle[k]) + 1}
              /\ Len(idle[k]) + 1 \notin DOMAIN idle[k]
              /\ \A i \in DOMAIN idle[k] : idle'[k][i] = idle[k][i]
              /\ idle'[k][Len(idle[k]) + 1] = p
              /\ \A j \in Keys \ {k} : idle'[j] = idle[j]
<1> DEFINE k == pconn[p].key
<1>1. k \in Keys
  BY DEF TypeInv, ConnOK
<1>2. CASE Len(idle[k]) < MaxIdle /\ idle' = [idle EXCEPT ![k] = Append(@, p)]
  <2>1. idle \in [Keys -> Seq(Conns)] /\ idle[k] \in Seq(Conns)
    BY <1>1, Types
  <2> HIDE DEF k
  <2>2. idle'[k] = Append(idle[k], p) /\ \A j \in Keys \ {k} : idle'[j] = idle[j]
    BY <1>1, <1>2, <2>1
  <2>3. QED
    BY <1>1, <1>2, <2>1, <2>2, AppendElements DEF k
<1>3. QED
  BY <1>2 DEF GivesBack

LEMMA PoolGrows ==
    ASSUME TypeInv, PoolOK, NEW p \in Conns, pconn[p].state # "none", GivesBack(p),
           UNCHANGED reap
    PROVE  PoolOK'
<1>1. StaysDialled /\ SameKeys
  BY OnlyClosesOK DEF GivesBack, OnlyCloses, SameKeys
<1>2. CASE UNCHANGED idle
  BY <1>1, <1>2, SamePool, PoolSmaller
<1>3. CASE ~ UNCHANGED idle
  <2> DEFINE k == pconn[p].key
  <2>1. /\ k \in Keys /\ Len(idle[k]) < MaxIdle
        /\ Len(idle'[k]) = Len(idle[k]) + 1
        /\ DOMAIN idle'[k] = DOMAIN idle[k] \cup {Len(idle[k]) + 1}
        /\ \A i \in DOMAIN idle[k] : idle'[k][i] = idle[k][i]
        /\ idle'[k][Len(idle[k]) + 1] = p
        /\ \A j \in Keys \ {k} : idle'[j] = idle[j]
    BY <1>3, GivenBack
  <2>2. pconn'[p].key = k /\ pconn'[p].state # "none"
    BY <1>1 DEF SameKeys, StaysDialled
  <2> HIDE DEF k
  <2>3. \A j \in Keys : Len(idle'[j]) <= MaxIdle
    <3>1. Len(idle[k]) \in Nat /\ MaxIdle \in Nat
      BY <2>1, PoolMembers, TransportAssumption
    <3>2. Len(idle'[k]) <= MaxIdle
      BY <2>1, <3>1
    <3>3. QED
      BY <2>1, <3>2 DEF PoolOK
  <2>4. \A j \in Keys : \A i \in DOMAIN idle[j] :
           pconn'[idle[j][i]].state # "none" /\ pconn'[idle[j][i]].key = j
    BY <1>1, PoolMembers DEF PoolOK, StaysDialled, SameKeys
  <2>5. \A j \in Keys : \A i \in DOMAIN idle'[j] :
           pconn'[idle'[j][i]].state # "none" /\ pconn'[idle'[j][i]].key = j
    <3>1. SUFFICES ASSUME NEW j \in Keys, NEW i \in DOMAIN idle'[j]
                   PROVE  pconn'[idle'[j][i]].state # "none" /\ pconn'[idle'[j][i]].key = j
      OBVIOUS
    <3>2. CASE j # k
      BY <2>1, <2>4, <3>1, <3>2
    <3>3. CASE j = k /\ i \in DOMAIN idle[k]
      BY <2>1, <2>4, <3>3
    <3>4. CASE j = k /\ i = Len(idle[k]) + 1
      BY <2>1, <2>2, <3>4
    <3>5. QED
      BY <2>1, <3>1, <3>2, <3>3, <3>4
  <2>6. \A q \in reap' : pconn'[q].state # "none"
    BY <1>1, Types DEF PoolOK, StaysDialled
  <2>7. QED
    BY <2>3, <2>5, <2>6 DEF PoolOK
<1>4. QED
  BY <1>2, <1>3

-----------------------------------------------------------------------------
(***************************************************************************)
(* Who may use a connection.  A caller claims its connection from getConn  *)
(* until its response is read, or if that has a body, until the body is    *)
(* given up.  A connection is claimed by one caller, or in the pool once,  *)
(* or about to be closed.  Unless the connection was overtaken, only the   *)
(* caller that awaits a response has anything on the wire; but an          *)
(* unsolicited response may wait there while none is expected.             *)
(***************************************************************************)
Delivering(c, p) == loop[p].at = "deliver" /\ loop[p].rc = c

Claims(c, p) ==
    /\ caller[c].conn = p
    /\ \/ caller[c].at \in {"count", "write", "send", "body"}
       \/ /\ caller[c].at = "receive"
          /\ caller[c].result # Nil => caller[c].result.body
          /\ Delivering(c, p) => loop[p].resp.body

Awaits(c, p) ==
    \/ caller[c].at = "send"
    \/ caller[c].at = "receive" /\ caller[c].result = Nil /\ ~Delivering(c, p)

Pooled(p) == \E k \in Keys : \E i \in DOMAIN idle[k] : idle[k][i] = p
PooledOnce(p) ==
    \A k \in Keys : \A i, j \in DOMAIN idle[k] : idle[k][i] = p /\ idle[k][j] = p => i = j

Exclusive(p) ==
    /\ \A c, d \in Callers : Claims(c, p) /\ Claims(d, p) => c = d
    /\ Pooled(p) \/ p \in reap => \A c \in Callers : ~Claims(c, p)
    /\ Pooled(p) => p \notin reap
    /\ PooledOnce(p)

Empty(p) == wire[p].requests = <<>> /\ wire[p].responses = <<>>

Quiet(p) ==
    /\ wire[p].requests = <<>>
    /\ wire[p].responses = <<>> \/ (pconn[p].expected = 0 /\ UnaskedWaits(p))

OnlyOf(p, id) ==
    \/ Empty(p)
    \/ /\ wire[p].requests # <<>> /\ Head(wire[p].requests) = id
       /\ Tail(wire[p].requests) = <<>> /\ wire[p].responses = <<>>
    \/ /\ wire[p].responses # <<>> /\ Head(wire[p].responses).id = id
       /\ Tail(wire[p].responses) = <<>> /\ wire[p].requests = <<>>

OwnWire(p) ==
    \/ Overtaken(p)
    \/ /\ Pooled(p) => Quiet(p)
       /\ \A c \in Callers : Claims(c, p) =>
             IF Awaits(c, p) THEN OnlyOf(p, Id(c)) ELSE Quiet(p)

\* A connection whose loop is stuck went back to the pool twice.
Exclusivity == \A p \in Conns : loop[p].at # "stuck" => Exclusive(p) /\ OwnWire(p)

PoolInv == TypeInv /\ PoolOK /\ RequestsWait /\ Exclusivity /\ OwnResponse

-----------------------------------------------------------------------------
\* What was overtaken stays so, and no connection begins to expect a response.
KeepsHistory == \A q \in Conns : Overtaken(q) => Overtaken(q)'
StaysIdle == \A q \in Conns : pconn[q].expected = 0 => pconn'[q].expected = 0

LEMMA SameWire ==
    ASSUME UNCHANGED wire
    PROVE  KeepsHistory
  BY DEF KeepsHistory, Overtaken

LEMMA KeptHistory ==
    ASSUME NEW p \in Conns, Overtaken(p) => Overtaken(p)',
           \A q \in Conns \ {p} : wire'[q] = wire[q]
    PROVE  KeepsHistory
  BY DEF KeepsHistory, Overtaken

LEMMA SameExpectedIdle ==
    ASSUME SameExpected
    PROVE  StaysIdle
  BY DEF SameExpected, StaysIdle

\* numExpectedResponses is not 0 while a caller waits for a response.
LEMMA CountedExpects ==
    ASSUME TypeInv, NEW c \in Callers, caller[c].at \in {"write", "send", "receive"}
    PROVE  pconn[caller[c].conn].expected # 0
<1>1. PICK p \in Conns : p = caller[c].conn
  BY CallerHasConn
<1>2. /\ IsFiniteSet(Counted(p)) /\ Cardinality(Counted(p)) <= pconn[p].expected
      /\ c \in Counted(p)
  BY <1>1 DEF TypeInv, CountOK, Counted
<1>3. Cardinality(Counted(p)) \in Nat /\ Cardinality(Counted(p)) # 0
  BY <1>2, FS_CardinalityType, FS_EmptySet
<1>4. pconn[p].expected \in Nat
  BY Types DEF PersistConn
<1>5. pconn[p].expected # 0
  BY <1>2, <1>3, <1>4
<1>6. QED
  BY <1>1, <1>5

\* A wire that does not change stays quiet, and what waits on it the same.
LEMMA SameQuiet ==
    ASSUME NEW p, wire'[p] = wire[p]
    PROVE  /\ Overtaken(p)' = Overtaken(p) /\ Empty(p)' = Empty(p)
           /\ \A x : OnlyOf(p, x)' = OnlyOf(p, x)
           /\ Quiet(p) /\ (pconn[p].expected = 0 => pconn'[p].expected = 0) => Quiet(p)'
  BY DEF Overtaken, Empty, OnlyOf, Quiet, UnaskedWaits

\* Steps that make no new claim on p.
LEMMA FewerOwn ==
    ASSUME NEW p \in Conns, OwnWire(p), Pooled(p)' => Pooled(p),
           wire'[p] = wire[p], pconn[p].expected = 0 => pconn'[p].expected = 0,
           \A c \in Callers : Claims(c, p)' => /\ Claims(c, p) /\ Awaits(c, p)' = Awaits(c, p)
                                               /\ Id(c)' = Id(c)
    PROVE  OwnWire(p)'
<1>1. /\ Overtaken(p)' = Overtaken(p)
      /\ Quiet(p) => Quiet(p)'
      /\ \A x : OnlyOf(p, x)' = OnlyOf(p, x)
  BY SameQuiet
<1>2. CASE Overtaken(p)
  BY <1>1, <1>2 DEF OwnWire
<1>3. CASE ~Overtaken(p)
  <2>1. Pooled(p)' => Quiet(p)'
    BY <1>1, <1>3 DEF OwnWire
  <2>2. ASSUME NEW c \in Callers, Claims(c, p)'
        PROVE  IF Awaits(c, p)' THEN OnlyOf(p, Id(c))' ELSE Quiet(p)'
    <3>1. /\ IF Awaits(c, p) THEN OnlyOf(p, Id(c)) ELSE Quiet(p)
          /\ Awaits(c, p)' = Awaits(c, p) /\ Id(c)' = Id(c)
      BY <1>3, <2>2 DEF OwnWire
    <3>2. CASE Awaits(c, p)
      BY <1>1, <3>1, <3>2 DEF OnlyOf, Empty
    <3>3. CASE ~Awaits(c, p)
      BY <1>1, <3>1, <3>3
    <3>4. QED
      BY <3>2, <3>3
  <2>3. QED
    BY <2>1, <2>2 DEF OwnWire
<1>4. QED
  BY <1>2, <1>3

LEMMA FewerClaims ==
    ASSUME NEW p \in Conns, Exclusive(p), OwnWire(p),
           Pooled(p)' => Pooled(p), PooledOnce(p)', p \in reap' => p \in reap,
           wire'[p] = wire[p], pconn[p].expected = 0 => pconn'[p].expected = 0,
           \A c \in Callers : Claims(c, p)' => /\ Claims(c, p) /\ Awaits(c, p)' = Awaits(c, p)
                                               /\ Id(c)' = Id(c)
    PROVE  Exclusive(p)' /\ OwnWire(p)'
<1>1. Exclusive(p)'
  BY DEF Exclusive
<1>2. QED
  BY <1>1, FewerOwn

LEMMA PoolShrunk ==
    ASSUME PoolShrinks, NEW p
    PROVE  (Pooled(p)' => Pooled(p)) /\ (PooledOnce(p) => PooledOnce(p)')
  BY DEF PoolShrinks, Pooled, PooledOnce

\* Giving p back concerns no other connection.
LEMMA PoolGrown ==
    ASSUME TypeInv, NEW p \in Conns, pconn[p].state # "none", GivesBack(p), NEW q
    PROVE  /\ q # p => (Pooled(q)' => Pooled(q)) /\ (PooledOnce(q) => PooledOnce(q)')
           /\ ~Pooled(p) => PooledOnce(p)'
<1>1. CASE UNCHANGED idle
  BY <1>1 DEF Pooled, PooledOnce
<1>2. CASE ~ UNCHANGED idle
  <2> DEFINE k == pconn[p].key
             n == Len(idle[k]) + 1
  <2>1. /\ k \in Keys
        /\ DOMAIN idle'[k] = DOMAIN idle[k] \cup {n} /\ n \notin DOMAIN idle[k]
        /\ \A i \in DOMAIN idle[k] : idle'[k][i] = idle[k][i]
        /\ idle'[k][n] = p
        /\ \A j \in Keys \ {k} : idle'[j] = idle[j]
    BY <1>2, GivenBack
  <2> HIDE DEF k, n
  <2>2. ASSUME q # p, Pooled(q)' PROVE Pooled(q)
    BY <2>1, <2>2 DEF Pooled
  <2>3. ASSUME q # p, PooledOnce(q) PROVE PooledOnce(q)'
    BY <2>1, <2>3 DEF PooledOnce
  <2>4. ASSUME ~Pooled(p) PROVE PooledOnce(p)'
    BY <2>1, <2>4 DEF PooledOnce, Pooled
  <2>5. QED
    BY <2>2, <2>3, <2>4
<1>3. QED
  BY <1>1, <1>2

\* What the loops are about to deliver does not change.
SameDelivery ==
    \A q \in Conns : /\ loop'[q].at = "stuck" => loop[q].at = "stuck"
                     /\ loop[q].at = "stuck" => loop'[q].at = "stuck"
                     /\ loop'[q].at = "deliver" <=> loop[q].at = "deliver"
                     /\ loop[q].at = "deliver" => loop'[q].rc = loop[q].rc
                                                  /\ loop'[q].resp = loop[q].resp

LEMMA OthersClaims ==
    ASSUME SameDelivery, NEW d \in Callers, caller'[d] = caller[d], NEW q \in Conns
    PROVE  Claims(d, q)' = Claims(d, q) /\ Awaits(d, q)' = Awaits(d, q) /\ Id(d)' = Id(d)
<1>1. Id(d)' = Id(d)
  BY DEF Id
<1>2. /\ Delivering(d, q)' <=> Delivering(d, q)
      /\ Delivering(d, q) => loop'[q].resp = loop[q].resp
  BY DEF Delivering, SameDelivery
<1>3. Claims(d, q)' <=> Claims(d, q)
  BY <1>2 DEF Claims
<1>4. Awaits(d, q)' <=> Awaits(d, q)
  BY <1>2 DEF Awaits
<1>5. QED
  BY <1>1, <1>3, <1>4 DEF Claims, Awaits

LEMMA NoNewClaims ==
    ASSUME Exclusivity, PoolShrinks, reap' \subseteq reap, UNCHANGED wire, StaysIdle,
           \A q \in Conns : loop[q].at = "stuck" => loop'[q].at = "stuck",
           \A c \in Callers : \A q \in Conns :
              Claims(c, q)' => /\ Claims(c, q) /\ Awaits(c, q)' = Awaits(c, q)
                               /\ Id(c)' = Id(c)
    PROVE  Exclusivity'
<1>1. SUFFICES ASSUME NEW q \in Conns, loop'[q].at # "stuck"
               PROVE  Exclusive(q)' /\ OwnWire(q)'
  BY DEF Exclusivity
<1>2. Exclusive(q) /\ OwnWire(q)
  BY <1>1 DEF Exclusivity
<1>3. (Pooled(q)' => Pooled(q)) /\ PooledOnce(q)'
  BY <1>2, PoolShrunk DEF Exclusive
<1>4. wire'[q] = wire[q] /\ (pconn[q].expected = 0 => pconn'[q].expected = 0)
  BY DEF StaysIdle
<1>5. QED
  BY <1>2, <1>3, <1>4, FewerClaims

\* Only caller c moves, and the loops go on with what they had.
LEMMA MoverClaims ==
    ASSUME Exclusivity, PoolShrinks, UNCHANGED <<wire, reap>>, SameDelivery, StaysIdle,
           NEW c \in Callers, \A d \in Callers \ {c} : caller'[d] = caller[d],
           \A q \in Conns :
              Claims(c, q)' => /\ Claims(c, q) /\ Awaits(c, q)' = Awaits(c, q)
                               /\ Id(c)' = Id(c)
    PROVE  Exclusivity'
<1>1. \A d \in Callers : \A q \in Conns :
         Claims(d, q)' => Claims(d, q) /\ Awaits(d, q)' = Awaits(d, q) /\ Id(d)' = Id(d)
  BY OthersClaims
<1>2. QED
  BY <1>1, NoNewClaims DEF SameDelivery

LEMMA StayersClaims ==
    ASSUME TypeInv, Exclusivity, UNCHANGED <<caller, wire>>, PoolShrinks, reap' \subseteq reap,
           SameDelivery, StaysIdle
    PROVE  Exclusivity'
<1>1. \A d \in Callers : \A q \in Conns :
         Claims(d, q)' => Claims(d, q) /\ Awaits(d, q)' = Awaits(d, q) /\ Id(d)' = Id(d)
  BY OthersClaims
<1>2. QED
  BY <1>1, NoNewClaims DEF SameDelivery

\* A caller that leaves.
LEMMA LeaverClaims ==
    ASSUME Exclusivity, PoolShrinks, UNCHANGED <<wire, reap>>, SameDelivery, StaysIdle,
           NEW c \in Callers, \A d \in Callers \ {c} : caller'[d] = caller[d],
           caller'[c].at \in {"start", "signal", "clear", "done"}
    PROVE  Exclusivity'
<1>1. \A q \in Conns : ~Claims(c, q)'
  BY DEF Claims
<1>2. QED
  BY <1>1, MoverClaims

\* Who waits is not disturbed, and the loops go on serving whom they serve.
LEMMA StillWaiting ==
    ASSUME TypeInv, RequestsWait, KeepsHistory,
           \A q \in Conns : pconn'[q].reqch = pconn[q].reqch,
           \A c \in Callers : caller[c].at = "receive" /\ caller[c].result = Nil =>
                                 caller'[c] = caller[c],
           \A q \in Conns :
              /\ loop'[q].at \in Serving => loop[q].at \in Serving /\ loop'[q].rc = loop[q].rc
              /\ loop'[q].at = "deliver" => loop[q].at = "deliver" /\ loop'[q].resp = loop[q].resp
    PROVE  RequestsWait'
<1>1. SUFFICES ASSUME NEW q \in Conns PROVE RequestsOf(q)'
  BY DEF RequestsWait
<1>2. RequestsOf(q)
  BY DEF RequestsWait
<1>3. \A c \in Callers : Waits(c, q) => caller'[c] = caller[c]
  BY DEF Waits
<1>4. ToSet(pconn[q].reqch) \subseteq Callers
  BY Types, MemberType DEF PersistConn
<1>5. IsInjective(pconn'[q].reqch) /\ \A c \in ToSet(pconn'[q].reqch) : Waits(c, q)'
  BY <1>2, <1>3, <1>4 DEF RequestsOf, Waits
<1>6. ASSUME loop'[q].at \in Serving
      PROVE  /\ loop'[q].rc = loop[q].rc /\ loop[q].rc \in Callers
             /\ caller'[loop[q].rc] = caller[loop[q].rc] /\ Waits(loop[q].rc, q)
             /\ loop[q].rc \notin ToSet(pconn'[q].reqch)
  BY <1>2, <1>3, <1>6 DEF RequestsOf
<1>7. ASSUME loop'[q].at = "deliver"
      PROVE  /\ loop'[q].resp \in Responses
             /\ \/ loop'[q].resp.id \in {Nil, <<loop'[q].rc, caller'[loop'[q].rc].num>>}
                \/ Overtaken(q)'
  <2>1. loop'[q].at \in Serving
    BY <1>7 DEF Serving
  <2>2. loop'[q].rc = loop[q].rc /\ caller'[loop[q].rc] = caller[loop[q].rc]
    BY <1>6, <2>1
  <2>3. QED
    BY <1>2, <1>7, <2>2 DEF RequestsOf, Id, KeepsHistory
<1>8. QED
  BY <1>5, <1>6, <1>7 DEF RequestsOf, Waits, Id

\* Nobody gets a result.
LEMMA NoNewResults ==
    ASSUME TypeInv, OwnResponse, KeepsHistory,
           \A c \in Callers : caller'[c].at = "receive" /\ caller'[c].result # Nil =>
              /\ caller[c].at = "receive" /\ caller'[c].result = caller[c].result
              /\ caller'[c].num = caller[c].num /\ caller'[c].conn = caller[c].conn
    PROVE  OwnResponse'
<1>1. SUFFICES ASSUME NEW c \in Callers, Answered(c)', caller'[c].result.id # Nil,
                      ~Overtaken(caller[c].conn)'
               PROVE  caller'[c].result.id = Id(c)'
  BY DEF OwnResponse, Answered
<1>2. /\ Answered(c) /\ caller'[c].result = caller[c].result /\ Id(c)' = Id(c)
      /\ caller'[c].conn = caller[c].conn
  BY <1>1 DEF Answered, Id
<1>3. caller[c].conn \in Conns
  BY <1>2, CallerHasConn DEF Answered
<1>4. ~Overtaken(caller[c].conn)
  BY <1>1, <1>2, <1>3 DEF KeepsHistory, Overtaken
<1>5. QED
  BY <1>1, <1>2, <1>4 DEF OwnResponse

-----------------------------------------------------------------------------
(***************************************************************************)
(* The steps of a caller.                                                  *)
(***************************************************************************)
LEMMA MoverWaits ==
    ASSUME TypeInv, RequestsWait, OwnResponse, KeepsHistory,
           \A q \in Conns : pconn'[q].reqch = pconn[q].reqch,
           UNCHANGED loop, NEW c \in Callers, NEW at, NEW conn, NEW result,
           Moves(c, at, conn, result), at # "receive",
           caller[c].at # "receive" \/ caller[c].result # Nil
    PROVE  RequestsWait' /\ OwnResponse'
<1>1. \A d \in Callers : caller[d].at = "receive" /\ caller[d].result = Nil =>
                            caller'[d] = caller[d]
  BY DEF Moves
<1>2. RequestsWait'
  BY <1>1, StillWaiting
<1>3. \A d \in Callers : caller'[d].at = "receive" => caller'[d] = caller[d]
  BY DEF Moves
<1>4. QED
  BY <1>2, <1>3, NoNewResults

LEMMA SameLoops ==
    ASSUME UNCHANGED loop
    PROVE  SameDelivery
  BY DEF SameDelivery

LEMMA InvGetIdle ==
    ASSUME PoolInv, NEW c \in Callers, GetIdleConn(c)
    PROVE  PoolInv'
<1> USE DEF PoolInv
<1> DEFINE k == KeyOf[c]
<1>1. /\ caller[c].at = "start" /\ PoolShrinks
      /\ UNCHANGED <<pconn, loop, signal, wire, reap, events>>
  BY GetIdleEffect
<1>2. PICK i \in DOMAIN idle[k] : /\ Moves(c, "count", idle[k][i], caller[c].result)
                                  /\ idle[k][i] \in Conns
                                  /\ \A j \in DOMAIN idle'[k] : j < i
                                  /\ \A j \in Keys \ {k} : idle'[j] = idle[j]
  BY GetIdleEffect
<1>3. k \in Keys
  BY TransportAssumption
<1>4. TypeInv'
  BY <1>3, TypeGetIdle DEF PoolOK
<1>5. StaysDialled /\ SameKeys
  BY <1>1 DEF StaysDialled, SameKeys
<1>6. PoolOK'
  BY <1>1, <1>5, PoolSmaller
<1>7. RequestsWait' /\ OwnResponse'
  BY <1>1, <1>2, SameWire, MoverWaits DEF Moves
<1>p. PICK p \in Conns : p = idle[k][i]
  BY <1>2
<1>8. Pooled(p) /\ (loop[p].at # "stuck" => ~Pooled(p)')
  <2>1. Pooled(p)
    BY <1>2, <1>3, <1>p DEF Pooled
  <2>2. pconn[p].key = k
    BY <1>2, <1>3, <1>p DEF PoolOK
  <2>3. \A j \in Keys \ {k} : \A n \in DOMAIN idle'[j] : idle'[j][n] # p
    BY <1>2, <2>2 DEF PoolOK
  <2>4. ASSUME loop[p].at # "stuck", NEW n \in DOMAIN idle'[k], idle'[k][n] = p PROVE FALSE
    <3>1. n \in DOMAIN idle[k] /\ idle[k][n] = p
      BY <1>1, <1>3, <2>4 DEF PoolShrinks
    <3>2. n = i
      BY <1>2, <1>3, <1>p, <2>4, <3>1 DEF Exclusivity, Exclusive, PooledOnce
    <3>3. n < i /\ i \in Nat
      BY <1>2, <1>3, <2>4, PoolMembers
    <3>4. QED
      BY <3>2, <3>3
  <2>5. QED
    BY <1>3, <2>1, <2>3, <2>4 DEF Pooled
<1>9. Moves(c, "count", p, caller[c].result) /\ p \in Conns
  BY <1>2, <1>p
<1>10. \A q \in Conns : /\ Claims(c, q)' => q = p /\ ~Awaits(c, q)'
                        /\ \A d \in Callers \ {c} : /\ Claims(d, q)' = Claims(d, q)
                                                    /\ Awaits(d, q)' = Awaits(d, q)
                                                    /\ Id(d)' = Id(d)
  <2>1. \A q \in Conns : Claims(c, q)' => q = p /\ ~Awaits(c, q)'
    BY <1>9 DEF Moves, Claims, Awaits
  <2>2. QED
    BY <1>1, <1>9, <2>1, SameLoops, OthersClaims DEF Moves
<1>11. ASSUME NEW q \in Conns, loop'[q].at # "stuck" PROVE Exclusive(q)' /\ OwnWire(q)'
  <2>1. Exclusive(q) /\ OwnWire(q) /\ (Pooled(q)' => Pooled(q)) /\ PooledOnce(q)'
    BY <1>1, <1>11, PoolShrunk DEF Exclusivity, Exclusive
  <2>2. CASE q # p
    <3>1. ~Claims(c, q)'
      BY <1>10, <2>2
    <3>2. \A d \in Callers : Claims(d, q)' => Claims(d, q) /\ Awaits(d, q)' = Awaits(d, q)
                                                           /\ Id(d)' = Id(d)
      BY <1>10, <3>1
    <3>3. QED
      BY <1>1, <2>1, <3>2, FewerClaims
  <2>3. CASE q = p
    <3>1. /\ \A d \in Callers : ~Claims(d, p)
          /\ Quiet(p) \/ Overtaken(p)
          /\ p \notin reap' /\ ~Pooled(p)'
      BY <1>1, <1>8, <1>11, <2>1, <2>3 DEF Exclusive, OwnWire
    <3>2. Exclusive(p)'
      BY <1>10, <2>1, <2>3, <3>1 DEF Exclusive
    <3>3. Quiet(p)' \/ Overtaken(p)'
      BY <1>1, <3>1, SameQuiet
    <3>4. \A d \in Callers : Claims(d, p)' => ~Awaits(d, p)'
      BY <1>9, <1>10, <3>1
    <3>5. OwnWire(p)'
      BY <3>1, <3>3, <3>4 DEF OwnWire
    <3>6. QED
      BY <2>3, <3>2, <3>5
  <2>4. QED
    BY <2>2, <2>3
<1>12. Exclusivity'
  BY <1>11 DEF Exclusivity
<1>13. QED
  BY <1>4, <1>6, <1>7, <1>12

LEMMA InvDial ==
    ASSUME PoolInv, NEW c \in Callers, Dial(c)
    PROVE  PoolInv'
<1> USE DEF PoolInv
<1>1. caller[c].at = "start" /\ PoolShrinks /\ UNCHANGED <<signal, wire, reap, events>>
  BY DialEffect
<1>2. PICK p \in Conns :
         /\ pconn[p].state = "none"
         /\ Moves(c, "count", p, caller[c].result)
         /\ LoopGoes(p, "peek", loop[p].rc, loop[p].resp)
         /\ pconn' \in [Conns -> PersistConn]
         /\ pconn'[p].state = "open" /\ pconn'[p].key \in Keys
         /\ pconn'[p].expected = pconn[p].expected /\ pconn'[p].reqch = pconn[p].reqch
         /\ \A q \in Conns \ {p} : pconn'[q] = pconn[q]
  BY DialEffect
<1>3. loop[p].at = "none" /\ wire[p].requests = <<>> /\ wire[p].responses = <<>>
  BY <1>2 DEF TypeInv, ConnOK
<1>4. TypeInv'
  BY TypeDial
<1>5. StaysDialled /\ SameKeys
  BY <1>2 DEF StaysDialled, SameKeys
<1>6. PoolOK'
  BY <1>1, <1>5, PoolSmaller
<1>7. RequestsWait' /\ OwnResponse'
  <2>1. \A d \in Callers : caller[d].at = "receive" /\ caller[d].result = Nil =>
                              caller'[d] = caller[d]
    BY <1>1, <1>2 DEF Moves
  <2>2. \A q \in Conns :
           /\ loop'[q].at \in Serving => loop[q].at \in Serving /\ loop'[q].rc = loop[q].rc
           /\ loop'[q].at = "deliver" => loop[q].at = "deliver" /\ loop'[q].resp = loop[q].resp
    BY <1>2 DEF LoopGoes, Serving
  <2>3. \A q \in Conns : pconn'[q].reqch = pconn[q].reqch
    BY <1>2
  <2>4. \A d \in Callers : caller'[d].at = "receive" => caller'[d] = caller[d]
    BY <1>2 DEF Moves
  <2>5. QED
    BY <1>1, <2>1, <2>2, <2>3, <2>4, SameWire, StillWaiting, NoNewResults
<1>8. SameDelivery
  BY <1>2, <1>3 DEF SameDelivery, LoopGoes
<1>9. \A q \in Conns : /\ Claims(c, q)' => q = p /\ ~Awaits(c, q)'
                       /\ \A d \in Callers \ {c} : /\ Claims(d, q)' = Claims(d, q)
                                                   /\ Awaits(d, q)' = Awaits(d, q)
                                                   /\ Id(d)' = Id(d)
  <2>1. \A q \in Conns : Claims(c, q)' => q = p /\ ~Awaits(c, q)'
    BY <1>2 DEF Moves, Claims, Awaits
  <2>2. QED
    BY <1>2, <1>8, <2>1, OthersClaims DEF Moves
<1>10. ASSUME NEW q \in Conns, loop'[q].at # "stuck" PROVE Exclusive(q)' /\ OwnWire(q)'
  <2>1. Exclusive(q) /\ OwnWire(q) /\ (Pooled(q)' => Pooled(q)) /\ PooledOnce(q)'
    BY <1>1, <1>8, <1>10, PoolShrunk DEF Exclusivity, Exclusive, SameDelivery
  <2>2. CASE q # p
    <3>1. \A d \in Callers : Claims(d, q)' => Claims(d, q) /\ Awaits(d, q)' = Awaits(d, q)
                                                           /\ Id(d)' = Id(d)
      BY <1>9, <2>2
    <3>2. pconn'[q].expected = pconn[q].expected
      BY <1>2, <2>2
    <3>3. QED
      BY <1>1, <2>1, <3>1, <3>2, FewerClaims
  <2>3. CASE q = p
    <3>1. \A d \in Callers : ~Claims(d, p)
      BY <1>2, CallerHasConn DEF Claims
    <3>2. ~Pooled(p) /\ p \notin reap
      BY <1>2 DEF PoolOK, Pooled
    <3>3. Exclusive(p)'
      BY <1>1, <1>9, <2>1, <2>3, <3>1, <3>2 DEF Exclusive
    <3>4. Quiet(p)'
      BY <1>1, <1>3 DEF Quiet
    <3>5. \A d \in Callers : Claims(d, p)' => ~Awaits(d, p)'
      BY <1>9, <3>1
    <3>6. OwnWire(p)'
      BY <3>4, <3>5 DEF OwnWire
    <3>7. QED
      BY <2>3, <3>3, <3>6
  <2>4. QED
    BY <2>2, <2>3
<1>11. Exclusivity'
  BY <1>10 DEF Exclusivity
<1>12. QED
  BY <1>4, <1>6, <1>7, <1>11

LEMMA InvDialFails ==
    ASSUME PoolInv, NEW c \in Callers, DialFails(c)
    PROVE  PoolInv'
<1> USE DEF PoolInv
<1>1. /\ caller[c].at = "start" /\ PoolShrinks /\ Moves(c, "done", Nil, Nil)
      /\ UNCHANGED <<pconn, loop, signal, wire, reap, events>>
  BY DialFailsEffect
<1>2. TypeInv'
  BY TypeDialFails
<1>3. PoolOK'
  BY <1>1, PoolSmaller DEF StaysDialled, SameKeys
<1>4. RequestsWait' /\ OwnResponse'
  BY <1>1, SameWire, MoverWaits
<1>5. Exclusivity'
  BY <1>1, SameLoops, LeaverClaims DEF Moves, StaysIdle
<1>6. QED
  BY <1>2, <1>3, <1>4, <1>5

LEMMA InvCount ==
    ASSUME PoolInv, NEW c \in Callers, CountRequest(c)
    PROVE  PoolInv'
<1> USE DEF PoolInv
<1>p. PICK p \in Conns : p = caller[c].conn
  BY CountEffect
<1>1. /\ caller[c].at = "count"
      /\ Moves(c, "write", p, caller[c].result)
      /\ Counts(p, pconn[p].expected + 1, pconn[p].reqch)
      /\ wire'[p].requests = wire[p].requests /\ wire'[p].responses = wire[p].responses
      /\ Overtaken(p) \/ UnaskedWaits(p) => Overtaken(p)'
      /\ \A q \in Conns \ {p} : wire'[q] = wire[q]
      /\ UNCHANGED <<idle, loop, signal, reap, events>>
  BY <1>p, CountEffect DEF Overtaken
<1>2. TypeInv'
  BY TypeCount
<1>3. PoolOK'
  BY <1>1, SamePool, PoolSmaller DEF Counts, StaysDialled, SameKeys
<1>4. RequestsWait' /\ OwnResponse'
  BY <1>1, KeptHistory, MoverWaits DEF Counts
<1>5. \A q \in Conns :
         Claims(c, q)' => Claims(c, q) /\ Awaits(c, q)' = Awaits(c, q) /\ Id(c)' = Id(c)
  <2>1. SUFFICES ASSUME NEW q \in Conns, Claims(c, q)'
                 PROVE  Claims(c, q) /\ Awaits(c, q)' = Awaits(c, q) /\ Id(c)' = Id(c)
    OBVIOUS
  <2>2. Claims(c, q)
    BY <1>p, <1>1, <2>1 DEF Claims, Moves
  <2>3. ~Awaits(c, q) /\ ~Awaits(c, q)'
    BY <1>1 DEF Awaits, Moves
  <2>4. Id(c)' = Id(c)
    BY <1>1 DEF Id, Moves
  <2>5. QED
    BY <2>2, <2>3, <2>4 DEF Awaits
<1>6. \A d \in Callers : \A q \in Conns :
         Claims(d, q)' => Claims(d, q) /\ Awaits(d, q)' = Awaits(d, q) /\ Id(d)' = Id(d)
  BY <1>1, <1>5, SameLoops, OthersClaims DEF Moves
<1>7. Claims(c, p) /\ ~Awaits(c, p)
  BY <1>p, <1>1 DEF Claims, Awaits
<1>8. ASSUME NEW q \in Conns, loop'[q].at # "stuck" PROVE Exclusive(q)' /\ OwnWire(q)'
  <2>1. Exclusive(q) /\ OwnWire(q) /\ (Pooled(q)' <=> Pooled(q)) /\ PooledOnce(q)'
    BY <1>1, <1>8 DEF Exclusivity, Exclusive, Pooled, PooledOnce
  <2>2. CASE q # p
    <3>1. wire'[q] = wire[q] /\ pconn'[q].expected = pconn[q].expected
      BY <1>1, <2>2 DEF Counts
    <3>2. QED
      BY <1>1, <1>6, <2>1, <3>1, FewerClaims
  <2>3. CASE q = p
    <3>1. /\ \A d \in Callers \ {c} : ~Claims(d, p)
          /\ ~Pooled(p) /\ p \notin reap /\ (Overtaken(p) \/ Quiet(p))
      BY <1>7, <2>1, <2>3 DEF Exclusive, OwnWire
    <3>2. \A d \in Callers : Claims(d, p)' => d = c /\ ~Awaits(d, p)'
      BY <1>6, <1>7, <3>1
    <3>3. Exclusive(p)'
      BY <1>1, <2>1, <2>3, <3>1, <3>2 DEF Exclusive
    <3>4. Overtaken(p)' \/ Quiet(p)'
      BY <1>1, <3>1 DEF Quiet
    <3>5. OwnWire(p)'
      BY <2>1, <2>3, <3>1, <3>2, <3>4 DEF OwnWire
    <3>6. QED
      BY <2>3, <3>3, <3>5
  <2>4. QED
    BY <2>2, <2>3
<1>9. Exclusivity'
  BY <1>8 DEF Exclusivity
<1>10. QED
  BY <1>2, <1>3, <1>4, <1>9

LEMMA InvWriteFails ==
    ASSUME PoolInv, NEW c \in Callers, WriteFails(c)
    PROVE  PoolInv'
<1> USE DEF PoolInv
<1>1. /\ caller[c].at = "write" /\ Moves(c, "done", Nil, Nil) /\ OnlyCloses
      /\ UNCHANGED <<idle, loop, signal, wire, reap, events>>
  BY WriteFailsEffect
<1>2. TypeInv'
  BY TypeWriteFails
<1>3. PoolOK'
  BY <1>1, SamePool, PoolSmaller, OnlyClosesOK DEF OnlyCloses, SameKeys
<1>4. RequestsWait' /\ OwnResponse'
  BY <1>1, SameWire, MoverWaits DEF OnlyCloses
<1>5. Exclusivity'
  BY <1>1, SamePool, SameLoops, OnlyClosesOK, SameExpectedIdle, LeaverClaims DEF Moves
<1>6. QED
  BY <1>2, <1>3, <1>4, <1>5

LEMMA InvNextRequest ==
    ASSUME PoolInv, NEW c \in Callers, NextRequest(c)
    PROVE  PoolInv'
<1> USE DEF PoolInv
<1>1. /\ caller[c].at = "done"
      /\ caller'[c].at = "start" /\ caller'[c].result = Nil
      /\ \A d \in Callers \ {c} : caller'[d] = caller[d]
      /\ UNCHANGED <<idle, pconn, loop, signal, wire, reap, events>>
  BY NextRequestEffect
<1>2. TypeInv'
  BY TypeNextRequest
<1>3. PoolOK'
  BY <1>1, SamePool, PoolSmaller DEF StaysDialled, SameKeys
<1>4. RequestsWait'
  <2>1. \A d \in Callers : caller[d].at = "receive" /\ caller[d].result = Nil =>
                              caller'[d] = caller[d]
    BY <1>1
  <2>2. QED
    BY <1>1, <2>1, SameWire, StillWaiting
<1>5. OwnResponse'
  BY <1>1, SameWire, NoNewResults
<1>6. Exclusivity'
  BY <1>1, SamePool, SameLoops, LeaverClaims DEF StaysIdle
<1>7. QED
  BY <1>2, <1>3, <1>4, <1>5, <1>6

LEMMA InvClearSignal ==
    ASSUME PoolInv, NEW c \in Callers, ClearSignal(c)
    PROVE  PoolInv'
<1> USE DEF PoolInv
<1>1. /\ caller[c].at = "clear" /\ Moves(c, "done", Nil, Nil)
      /\ UNCHANGED <<idle, pconn, loop, wire, reap, events>>
  BY ClearSignalEffect
<1>2. TypeInv'
  BY TypeClearSignal
<1>3. PoolOK'
  BY <1>1, SamePool, PoolSmaller DEF StaysDialled, SameKeys
<1>4. RequestsWait' /\ OwnResponse'
  BY <1>1, SameWire, MoverWaits
<1>5. Exclusivity'
  BY <1>1, SamePool, SameLoops, LeaverClaims DEF Moves, StaysIdle
<1>6. QED
  BY <1>2, <1>3, <1>4, <1>5

LEMMA InvSignal ==
    ASSUME PoolInv, NEW c \in Callers, Signal(c)
    PROVE  PoolInv'
<1> USE DEF PoolInv
<1>p. PICK p \in Conns : p = caller[c].conn
  BY SignalEffect
<1>1. /\ caller[c].at = "signal" /\ loop[p].at = "wait"
      /\ Moves(c, "clear", p, caller[c].result)
      /\ LoopGoes(p, "round", loop[p].rc, loop[p].resp)
      /\ UNCHANGED <<idle, pconn, signal, wire, reap, events>>
  BY <1>p, SignalEffect
<1>2. TypeInv'
  BY TypeSignal
<1>3. PoolOK'
  BY <1>1, SamePool, PoolSmaller DEF StaysDialled, SameKeys
<1>4. RequestsWait'
  <2>1. \A d \in Callers : caller[d].at = "receive" /\ caller[d].result = Nil =>
                              caller'[d] = caller[d]
    BY <1>1 DEF Moves
  <2>2. \A q \in Conns :
           /\ loop'[q].at \in Serving => loop[q].at \in Serving /\ loop'[q].rc = loop[q].rc
           /\ loop'[q].at = "deliver" => loop[q].at = "deliver" /\ loop'[q].resp = loop[q].resp
    BY <1>1 DEF LoopGoes, Serving
  <2>3. QED
    BY <1>1, <2>1, <2>2, SameWire, StillWaiting
<1>5. OwnResponse'
  BY <1>1, SameWire, NoNewResults DEF Moves
<1>6. SameDelivery
  BY <1>1 DEF SameDelivery, LoopGoes
<1>7. Exclusivity'
  BY <1>1, <1>6, SamePool, LeaverClaims DEF Moves, StaysIdle
<1>8. QED
  BY <1>2, <1>3, <1>4, <1>5, <1>7

LEMMA InvReceive ==
    ASSUME PoolInv, NEW c \in Callers, ReceiveAnswer(c)
    PROVE  PoolInv'
<1> USE DEF PoolInv
<1>p. PICK p \in Conns : p = caller[c].conn
  BY ReceiveEffect
<1>r. PICK r \in Responses : r = caller[c].result
  BY ReceiveEffect
<1>1. /\ caller[c].at = "receive"
      /\ (r.body /\ Moves(c, "body", p, Nil)) \/ Moves(c, "done", Nil, Nil)
      /\ Counts(p, pconn[p].expected - 1, pconn[p].reqch) /\ pconn[p].expected > 0
      /\ UNCHANGED <<idle, loop, signal, wire, reap, events>>
  BY <1>p, <1>r, ReceiveEffect
<1>2. TypeInv'
  BY TypeReceive
<1>3. PoolOK'
  BY <1>1, SamePool, PoolSmaller DEF Counts, StaysDialled, SameKeys
<1>4. r # Nil
  BY NilAssumption
<1>5. RequestsWait' /\ OwnResponse'
  BY <1>r, <1>1, <1>4, SameWire, MoverWaits DEF Counts
<1>i. StaysIdle
  BY <1>1 DEF StaysIdle, Counts
<1>6. CASE Moves(c, "done", Nil, Nil)
  BY <1>1, <1>2, <1>3, <1>5, <1>i, <1>6, SamePool, SameLoops, LeaverClaims DEF Moves
<1>7. CASE r.body /\ Moves(c, "body", p, Nil)
  <2>1. \A q \in Conns :
           Claims(c, q)' => Claims(c, q) /\ Awaits(c, q)' = Awaits(c, q) /\ Id(c)' = Id(c)
    <3>1. SUFFICES ASSUME NEW q \in Conns, Claims(c, q)'
                   PROVE  Claims(c, q) /\ Awaits(c, q)' = Awaits(c, q) /\ Id(c)' = Id(c)
      OBVIOUS
    <3>2. q = p
      BY <1>7, <3>1 DEF Claims, Moves
    <3>3. ~Delivering(c, p)
      BY <1>r, <1>4 DEF Delivering, RequestsWait, RequestsOf, Serving, Waits
    <3>4. Claims(c, q)
      BY <1>p, <1>r, <1>1, <1>7, <3>2, <3>3 DEF Claims
    <3>5. ~Awaits(c, q) /\ ~Awaits(c, q)'
      BY <1>r, <1>1, <1>4, <1>7 DEF Awaits, Moves
    <3>6. Id(c)' = Id(c)
      BY <1>7 DEF Id, Moves
    <3>7. QED
      BY <3>4, <3>5, <3>6 DEF Awaits
  <2>2. Exclusivity'
    BY <1>1, <1>i, <1>7, <2>1, SamePool, SameLoops, MoverClaims DEF Moves
  <2>3. QED
    BY <1>2, <1>3, <1>5, <2>2
<1>8. QED
  BY <1>1, <1>6, <1>7

LEMMA InvSend ==
    ASSUME PoolInv, NEW c \in Callers, SendRequest(c)
    PROVE  PoolInv'
<1> USE DEF PoolInv
<1>p. PICK p \in Conns : p = caller[c].conn
  BY SendEffect
<1>1. /\ caller[c].at = "send"
      /\ Moves(c, "receive", p, Nil)
      /\ Counts(p, pconn[p].expected, Append(pconn[p].reqch, c))
      /\ UNCHANGED <<idle, loop, signal, wire, reap, events>>
  BY <1>p, SendEffect
<1>2. TypeInv'
  BY TypeSend
<1>3. PoolOK'
  BY <1>1, SamePool, PoolSmaller DEF Counts, StaysDialled, SameKeys
<1>4. OwnResponse'
  BY <1>1, SameWire, NoNewResults DEF Moves
<1>5. \A d \in Callers : \A q \in Conns : Waits(d, q) => d # c /\ caller'[d] = caller[d]
  BY <1>1 DEF Waits, Moves
<1>6. RequestsWait'
  <2>1. SUFFICES ASSUME NEW q \in Conns PROVE RequestsOf(q)'
    BY DEF RequestsWait
  <2>2. RequestsOf(q) /\ pconn[q].reqch \in Seq(Callers)
    BY Types DEF RequestsWait, PersistConn
  <2>3. ToSet(pconn[q].reqch) \subseteq Callers
    BY <2>2, MemberType
  <2>4. c \notin ToSet(pconn[q].reqch) /\ (loop[q].at \in Serving => loop[q].rc # c)
    BY <1>1, <2>2 DEF RequestsOf, Waits
  <2>5. loop[q].at \in Serving => /\ loop[q].rc \in Callers
                                  /\ caller'[loop[q].rc] = caller[loop[q].rc]
    BY <1>5, <2>2 DEF RequestsOf
  <2>6. /\ IsInjective(pconn'[q].reqch)
        /\ \A d \in ToSet(pconn'[q].reqch) : Waits(d, q)'
        /\ loop[q].at \in Serving => loop[q].rc \notin ToSet(pconn'[q].reqch)
    <3>1. CASE q # p
      BY <1>1, <1>5, <2>2, <2>3, <3>1 DEF Counts, RequestsOf, Waits
    <3>2. CASE q = p
      <4>1. pconn'[q].reqch = Append(pconn[q].reqch, c)
        BY <1>1, <3>2 DEF Counts
      <4>2. IsInjective(pconn[q].reqch)
        BY <2>2 DEF RequestsOf
      <4>3. ToSet(pconn'[q].reqch) = ToSet(pconn[q].reqch) \cup {c} /\ IsInjective(pconn'[q].reqch)
        BY <2>2, <2>4, <4>1, <4>2, SendMembers
      <4>4. Waits(c, q)'
        BY <1>1, <3>2 DEF Waits, Moves
      <4>5. \A d \in ToSet(pconn[q].reqch) : Waits(d, q)'
        BY <1>5, <2>2, <2>3 DEF RequestsOf, Waits
      <4>6. QED
        BY <2>2, <2>4, <4>3, <4>4, <4>5 DEF RequestsOf
    <3>3. QED
      BY <3>1, <3>2
  <2>7. QED
    BY <1>1, <2>2, <2>5, <2>6 DEF RequestsOf, Waits, Id, Serving, Overtaken
<1>7. \A q \in Conns :
         Claims(c, q)' => Claims(c, q) /\ Awaits(c, q)' = Awaits(c, q) /\ Id(c)' = Id(c)
  <2>1. SUFFICES ASSUME NEW q \in Conns, Claims(c, q)'
                 PROVE  Claims(c, q) /\ Awaits(c, q)' = Awaits(c, q) /\ Id(c)' = Id(c)
    OBVIOUS
  <2>2. Claims(c, q)
    BY <1>p, <1>1, <2>1 DEF Claims, Moves
  <2>3. ~Delivering(c, q)'
    BY <1>1, <1>5 DEF Delivering, RequestsWait, RequestsOf, Serving
  <2>4. Awaits(c, q) /\ Awaits(c, q)'
    BY <1>1, <2>3 DEF Awaits, Moves
  <2>5. Id(c)' = Id(c)
    BY <1>1 DEF Id, Moves
  <2>6. QED
    BY <2>2, <2>4, <2>5 DEF Awaits
<1>8. Exclusivity'
  BY <1>1, <1>7, SamePool, SameLoops, MoverClaims DEF Moves, Counts, StaysIdle
<1>9. QED
  BY <1>2, <1>3, <1>4, <1>6, <1>8

LEMMA InvWrite ==
    ASSUME PoolInv, NEW c \in Callers, WriteRequest(c)
    PROVE  PoolInv'
<1> USE DEF PoolInv
<1>p. PICK p \in Conns : p = caller[c].conn
  BY WriteEffect
<1>1. /\ caller[c].at = "write"
      /\ Moves(c, "send", p, caller[c].result)
      /\ Id(c) \in Ids
      /\ wire'[p].responses = wire[p].responses /\ wire'[p].overtaken = wire[p].overtaken
      /\ wire'[p].requests \in {wire[p].requests, Append(wire[p].requests, Id(c))}
      /\ \A q \in Conns \ {p} : wire'[q] = wire[q]
      /\ UNCHANGED <<idle, pconn, loop, signal, reap, events>>
  BY <1>p, WriteEffect
<1>2. TypeInv'
  BY TypeWrite
<1>3. PoolOK'
  BY <1>1, SamePool, PoolSmaller DEF StaysDialled, SameKeys
<1>4. RequestsWait' /\ OwnResponse'
  BY <1>1, KeptHistory, MoverWaits DEF Overtaken
<1>5. Id(c)' = Id(c)
  BY <1>1 DEF Id, Moves
<1>6. \A q \in Conns : Claims(c, q)' => q = p
  BY <1>1 DEF Claims, Moves
<1>7. \A d \in Callers \ {c} : \A q \in Conns :
         Claims(d, q)' = Claims(d, q) /\ Awaits(d, q)' = Awaits(d, q) /\ Id(d)' = Id(d)
  BY <1>1, SameLoops, OthersClaims DEF Moves
<1>8. Claims(c, p) /\ ~Awaits(c, p) /\ Awaits(c, p)'
  BY <1>p, <1>1 DEF Claims, Awaits, Moves
<1>9. ASSUME NEW q \in Conns, loop'[q].at # "stuck" PROVE Exclusive(q)' /\ OwnWire(q)'
  <2>1. Exclusive(q) /\ OwnWire(q) /\ (Pooled(q)' <=> Pooled(q)) /\ PooledOnce(q)'
    BY <1>1, <1>9 DEF Exclusivity, Exclusive, Pooled, PooledOnce
  <2>2. CASE q # p
    <3>1. \A d \in Callers : Claims(d, q)' => Claims(d, q) /\ Awaits(d, q)' = Awaits(d, q)
                                                           /\ Id(d)' = Id(d)
      BY <1>6, <1>7, <2>2
    <3>2. QED
      BY <1>1, <2>1, <2>2, <3>1, FewerClaims
  <2>3. CASE q = p
    <3>1. /\ \A d \in Callers \ {c} : ~Claims(d, p)
          /\ ~Pooled(p) /\ p \notin reap /\ (Overtaken(p) \/ Quiet(p))
      BY <1>8, <2>1, <2>3 DEF Exclusive, OwnWire
    <3>2. \A d \in Callers : Claims(d, p)' => d = c
      BY <1>7, <3>1
    <3>3. Exclusive(p)'
      BY <1>1, <2>1, <2>3, <3>1, <3>2 DEF Exclusive
    <3>4. ASSUME ~Overtaken(p) PROVE OnlyOf(p, Id(c))'
      <4>0. pconn[p].expected # 0
        BY <1>p, <1>1, CountedExpects
      <4>1. wire'[p].responses = <<>> /\ wire'[p].requests \in {<<>>, Append(<<>>, Id(c))}
        BY <1>1, <3>1, <3>4, <4>0 DEF Quiet
      <4>2. Append(<<>>, Id(c)) = <<Id(c)>>
        OBVIOUS
      <4>3. <<Id(c)>> # <<>> /\ Head(<<Id(c)>>) = Id(c) /\ Tail(<<Id(c)>>) = <<>>
        OBVIOUS
      <4>4. QED
        BY <1>5, <4>1, <4>2, <4>3 DEF OnlyOf, Empty
    <3>5. OwnWire(p)'
      BY <1>1, <1>8, <2>1, <2>3, <3>1, <3>2, <3>4 DEF OwnWire, Overtaken
    <3>6. QED
      BY <2>3, <3>3, <3>5
  <2>4. QED
    BY <2>2, <2>3
<1>10. Exclusivity'
  BY <1>9 DEF Exclusivity
<1>11. QED
  BY <1>2, <1>3, <1>4, <1>10

LEMMA InvUseBody ==
    ASSUME PoolInv, NEW c \in Callers, NEW use \in BodyUses, UseBody(c, use)
    PROVE  PoolInv'
<1> USE DEF PoolInv
<1>p. PICK p \in Conns : p = caller[c].conn
  BY UseBodyEffect
<1>1. /\ caller[c].at = "body"
      /\ \/ Moves(c, "done", Nil, Nil) /\ UNCHANGED <<idle, pconn, loop>>
         \/ /\ Moves(c, "signal", p, caller[c].result)
            /\ GivesBack(p) /\ LoopGoes(p, loop[p].at, loop[p].rc, loop[p].resp)
      /\ UNCHANGED <<wire, reap, events>>
  BY <1>p, UseBodyEffect
<1>2. TypeInv'
  BY TypeUseBody
<1>3. CASE Moves(c, "done", Nil, Nil) /\ UNCHANGED <<idle, pconn, loop>>
  <2>1. PoolOK'
    BY <1>1, <1>3, SamePool, PoolSmaller DEF StaysDialled, SameKeys
  <2>2. RequestsWait' /\ OwnResponse'
    BY <1>1, <1>3, SameWire, MoverWaits
  <2>3. Exclusivity'
    BY <1>1, <1>3, SamePool, SameLoops, LeaverClaims DEF Moves, StaysIdle
  <2>4. QED
    BY <1>2, <2>1, <2>2, <2>3
<1>4. CASE /\ Moves(c, "signal", p, caller[c].result)
           /\ GivesBack(p) /\ LoopGoes(p, loop[p].at, loop[p].rc, loop[p].resp)
  <2>1. pconn[p].state # "none"
    BY <1>p, <1>1, CallerHasConn
  <2>2. PoolOK'
    BY <1>1, <1>4, <2>1, PoolGrows
  <2>3. RequestsWait'
    <3>1. \A d \in Callers : caller[d].at = "receive" /\ caller[d].result = Nil =>
                                caller'[d] = caller[d]
      BY <1>1, <1>4 DEF Moves
    <3>2. \A q \in Conns :
             /\ loop'[q].at \in Serving => loop[q].at \in Serving /\ loop'[q].rc = loop[q].rc
             /\ loop'[q].at = "deliver" => loop[q].at = "deliver" /\ loop'[q].resp = loop[q].resp
      BY <1>4 DEF LoopGoes
    <3>3. \A q \in Conns : pconn'[q].reqch = pconn[q].reqch
      BY <1>4 DEF GivesBack, OnlyCloses
    <3>4. QED
      BY <1>1, <3>1, <3>2, <3>3, SameWire, StillWaiting
  <2>4. OwnResponse'
    BY <1>1, <1>4, SameWire, NoNewResults DEF Moves
  <2>5. SameDelivery
    BY <1>4 DEF SameDelivery, LoopGoes
  <2>6. /\ \A q \in Conns : ~Claims(c, q)'
        /\ \A d \in Callers \ {c} : \A q \in Conns :
              Claims(d, q)' = Claims(d, q) /\ Awaits(d, q)' = Awaits(d, q) /\ Id(d)' = Id(d)
    <3>1. \A q \in Conns : ~Claims(c, q)'
      BY <1>4 DEF Claims, Moves
    <3>2. QED
      BY <1>4, <2>5, <3>1, OthersClaims DEF Moves
  <2>7. ASSUME NEW q \in Conns, loop'[q].at # "stuck" PROVE Exclusive(q)' /\ OwnWire(q)'
    <3>1. Exclusive(q) /\ OwnWire(q)
      BY <2>5, <2>7 DEF Exclusivity, SameDelivery
    <3>2. CASE q # p
      <4>1. (Pooled(q)' => Pooled(q)) /\ PooledOnce(q)'
        BY <1>4, <2>1, <3>1, <3>2, PoolGrown DEF Exclusive
      <4>2. \A d \in Callers : Claims(d, q)' => Claims(d, q) /\ Awaits(d, q)' = Awaits(d, q)
                                                             /\ Id(d)' = Id(d)
        BY <2>6
      <4>3. pconn'[q].expected = pconn[q].expected
        BY <1>4 DEF GivesBack, OnlyCloses
      <4>4. QED
        BY <1>1, <3>1, <4>1, <4>2, <4>3, FewerClaims
    <3>3. CASE q = p
      <4>1. Claims(c, p) /\ ~Awaits(c, p)
        BY <1>p, <1>1 DEF Claims, Awaits
      <4>2. /\ \A d \in Callers \ {c} : ~Claims(d, p)
            /\ ~Pooled(p) /\ p \notin reap /\ (Overtaken(p) \/ Quiet(p))
        BY <3>1, <3>3, <4>1 DEF Exclusive, OwnWire
      <4>3. PooledOnce(p)'
        BY <1>4, <2>1, <4>2, PoolGrown
      <4>4. \A d \in Callers : ~Claims(d, p)'
        BY <2>6, <4>2
      <4>5. Overtaken(p)' \/ Quiet(p)'
        BY <1>1, <1>4, <4>2, SameQuiet DEF GivesBack, OnlyCloses
      <4>6. QED
        BY <1>1, <3>3, <4>2, <4>3, <4>4, <4>5 DEF Exclusive, OwnWire
    <3>4. QED
      BY <3>2, <3>3
  <2>8. Exclusivity'
    BY <2>7 DEF Exclusivity
  <2>9. QED
    BY <1>2, <2>2, <2>3, <2>4, <2>8
<1>5. QED
  BY <1>1, <1>3, <1>4

-----------------------------------------------------------------------------
(***************************************************************************)
(* The steps of a loop.                                                    *)
(***************************************************************************)
LEMMA InvTurn ==
    ASSUME PoolInv, NEW p \in Conns, Peek(p) \/ NothingExpected(p) \/ EndRound(p)
    PROVE  PoolInv'
<1> USE DEF PoolInv
<1>1. /\ loop[p].at \in {"peek", "peeked", "round"} /\ OnlyCloses
      /\ UNCHANGED <<idle, signal, caller, wire, reap, events>>
  BY TurnEffect
<1>2. PICK at \in {"peek", "peeked", "exit"} : LoopGoes(p, at, loop[p].rc, loop[p].resp)
  BY TurnEffect
<1>3. TypeInv'
  BY TypeTurn
<1>4. PoolOK'
  BY <1>1, SamePool, PoolSmaller, OnlyClosesOK DEF OnlyCloses, SameKeys
<1>5. RequestsWait' /\ OwnResponse'
  <2>1. \A q \in Conns :
           /\ loop'[q].at \in Serving => loop[q].at \in Serving /\ loop'[q].rc = loop[q].rc
           /\ loop'[q].at = "deliver" => loop[q].at = "deliver" /\ loop'[q].resp = loop[q].resp
    BY <1>2 DEF LoopGoes, Serving
  <2>2. QED
    BY <1>1, <2>1, SameWire, StillWaiting, NoNewResults DEF OnlyCloses
<1>6. SameDelivery
  BY <1>1, <1>2 DEF SameDelivery, LoopGoes
<1>7. Exclusivity'
  BY <1>1, <1>6, SamePool, OnlyClosesOK, SameExpectedIdle, StayersClaims
<1>8. QED
  BY <1>3, <1>4, <1>5, <1>7

LEMMA InvTake ==
    ASSUME PoolInv, NEW p \in Conns, TakeRequest(p)
    PROVE  PoolInv'
<1> USE DEF PoolInv
<1>1. /\ loop[p].at = "peeked" /\ pconn[p].reqch \in Seq(Callers) /\ pconn[p].reqch # <<>>
      /\ Counts(p, pconn[p].expected, Tail(pconn[p].reqch))
      /\ LoopGoes(p, "advance", Head(pconn[p].reqch), loop[p].resp)
      /\ UNCHANGED <<idle, signal, caller, wire, reap, events>>
  BY TakeEffect
<1>2. TypeInv'
  BY TypeTake
<1>3. PoolOK'
  BY <1>1, SamePool, PoolSmaller DEF Counts, StaysDialled, SameKeys
<1>4. OwnResponse'
  BY <1>1, SameWire, NoNewResults
<1>5. RequestsWait'
  <2>1. SUFFICES ASSUME NEW q \in Conns PROVE RequestsOf(q)'
    BY DEF RequestsWait
  <2>2. RequestsOf(q)
    BY DEF RequestsWait
  <2>3. CASE q # p
    BY <1>1, <2>2, <2>3 DEF RequestsOf, Counts, LoopGoes, Waits, Id, Overtaken
  <2>4. CASE q = p
    <3>1. IsInjective(pconn[p].reqch) /\ \A c \in ToSet(pconn[p].reqch) : Waits(c, p)
      BY <2>2, <2>4 DEF RequestsOf
    <3>2. PICK c \in Callers : c = Head(pconn[p].reqch)
      BY <1>1, ReceiveType
    <3>3. PICK rest : rest = Tail(pconn[p].reqch)
      OBVIOUS
    <3>4. /\ c \in ToSet(pconn[p].reqch) /\ ToSet(rest) \subseteq ToSet(pconn[p].reqch)
          /\ IsInjective(rest) /\ c \notin ToSet(rest)
      BY <1>1, <3>1, <3>2, <3>3, ReceiveMembers
    <3>5. pconn'[p].reqch = rest /\ loop'[p].rc = c /\ loop'[p].at = "advance"
      BY <1>1, <3>2, <3>3 DEF Counts, LoopGoes
    <3>6. \A d \in ToSet(pconn[p].reqch) : Waits(d, p)'
      BY <1>1, <3>1 DEF Waits
    <3>7. QED
      BY <2>4, <3>2, <3>4, <3>5, <3>6 DEF RequestsOf, Waits
  <2>5. QED
    BY <2>3, <2>4
<1>6. SameDelivery
  BY <1>1 DEF SameDelivery, LoopGoes
<1>7. Exclusivity'
  BY <1>1, <1>6, SamePool, CountsOK, SameExpectedIdle, StayersClaims
<1>8. QED
  BY <1>2, <1>3, <1>4, <1>5, <1>7

LEMMA InvCloseLastBody ==
    ASSUME PoolInv, NEW p \in Conns, CloseLastBody(p)
    PROVE  PoolInv'
<1> USE DEF PoolInv
<1>1. /\ loop[p].at = "advance"
      /\ \/ GivesBack(p) /\ LoopGoes(p, "stuck", loop[p].rc, loop[p].resp)
         \/ UNCHANGED <<idle, pconn>> /\ LoopGoes(p, "read", loop[p].rc, loop[p].resp)
      /\ UNCHANGED <<caller, wire, reap, events>>
  BY CloseLastBodyEffect
<1>2. TypeInv'
  BY TypeTurn
<1>3. OwnResponse'
  BY <1>1, SameWire, NoNewResults
<1>4. pconn[p].state # "none"
  BY <1>1, LoopIsDialled
<1>5. PoolOK'
  BY <1>1, <1>4, PoolGrows, SamePool, PoolSmaller DEF StaysDialled, SameKeys
<1>6. RequestsWait'
  <2>1. \A q \in Conns :
           /\ loop'[q].at \in Serving => loop[q].at \in Serving /\ loop'[q].rc = loop[q].rc
           /\ loop'[q].at = "deliver" => loop[q].at = "deliver" /\ loop'[q].resp = loop[q].resp
    BY <1>1 DEF LoopGoes, Serving
  <2>2. \A q \in Conns : pconn'[q].reqch = pconn[q].reqch
    BY <1>1 DEF GivesBack, OnlyCloses
  <2>3. QED
    BY <1>1, <2>1, <2>2, SameWire, StillWaiting
<1>7. CASE UNCHANGED <<idle, pconn>> /\ LoopGoes(p, "read", loop[p].rc, loop[p].resp)
  <2>1. SameDelivery
    BY <1>1, <1>7 DEF SameDelivery, LoopGoes
  <2>2. Exclusivity'
    BY <1>1, <1>7, <2>1, SamePool, StayersClaims DEF StaysIdle
  <2>3. QED
    BY <1>2, <1>3, <1>5, <1>6, <2>2
<1>8. CASE GivesBack(p) /\ LoopGoes(p, "stuck", loop[p].rc, loop[p].resp)
  <2>1. ASSUME NEW q \in Conns, loop'[q].at # "stuck" PROVE Exclusive(q)' /\ OwnWire(q)'
    <3>1. q # p /\ loop'[q] = loop[q]
      BY <1>8, <2>1 DEF LoopGoes
    <3>2. Exclusive(q) /\ OwnWire(q)
      BY <2>1, <3>1 DEF Exclusivity
    <3>3. (Pooled(q)' => Pooled(q)) /\ PooledOnce(q)'
      BY <1>4, <1>8, <3>1, <3>2, PoolGrown DEF Exclusive
    <3>4. \A d \in Callers : /\ Claims(d, q)' = Claims(d, q) /\ Awaits(d, q)' = Awaits(d, q)
                             /\ Id(d)' = Id(d)
      BY <1>1, <3>1 DEF Claims, Awaits, Delivering, Id
    <3>5. QED
      BY <1>1, <1>8, <3>2, <3>3, <3>4, FewerClaims DEF GivesBack, OnlyCloses
  <2>2. Exclusivity'
    BY <2>1 DEF Exclusivity
  <2>3. QED
    BY <1>2, <1>3, <1>5, <1>6, <2>2
<1>9. QED
  BY <1>1, <1>7, <1>8

\* The caller whose response is read is the only one that claims the connection, and
\* what is on the wire is its own.
LEMMA ServedClaims ==
    ASSUME PoolInv, NEW p \in Conns, loop[p].at = "read"
    PROVE  /\ loop[p].rc \in Callers /\ Waits(loop[p].rc, p)
           /\ Claims(loop[p].rc, p)
           /\ Overtaken(p) \/ OnlyOf(p, Id(loop[p].rc))
           /\ \A d \in Callers : d # loop[p].rc => ~Claims(d, p)
           /\ ~Pooled(p) /\ p \notin reap
<1>1. loop[p].rc \in Callers /\ Waits(loop[p].rc, p)
  BY DEF PoolInv, RequestsWait, RequestsOf, Serving
<1>2. Claims(loop[p].rc, p) /\ Awaits(loop[p].rc, p)
  BY <1>1 DEF Claims, Awaits, Waits, Delivering
<1>3. Exclusive(p) /\ OwnWire(p)
  BY DEF PoolInv, Exclusivity
<1>4. QED
  BY <1>1, <1>2, <1>3 DEF Exclusive, OwnWire

\* The loop of p turns to delivering r to its caller c, and the others keep what they claim.
LEMMA DeliveryBegins ==
    ASSUME PoolInv, NEW p \in Conns, loop[p].at = "read", NEW r \in Responses,
           NEW c \in Callers, c = loop[p].rc, KeepsHistory,
           r.id \in {Nil, Id(c)} \/ Overtaken(p), LoopGoes(p, "deliver", c, r), UNCHANGED caller,
           \A q \in Conns : pconn'[q].reqch = pconn[q].reqch
    PROVE  /\ RequestsWait'
           /\ \A q \in Conns : \A d \in Callers :
                 q # p \/ d # c => /\ Claims(d, q)' = Claims(d, q)
                                   /\ Awaits(d, q)' = Awaits(d, q)
           /\ Claims(c, p)' <=> r.body
           /\ ~Awaits(c, p)'
           /\ \A d \in Callers : Id(d)' = Id(d)
<1> USE DEF PoolInv
<1>1. \A d \in Callers : Id(d)' = Id(d)
  BY DEF Id
<1>2. RequestsWait'
  <2>1. SUFFICES ASSUME NEW q \in Conns PROVE RequestsOf(q)'
    BY DEF RequestsWait
  <2>2. RequestsOf(q)
    BY DEF RequestsWait
  <2>3. CASE q # p
    BY <2>2, <2>3 DEF RequestsOf, LoopGoes, Waits, Id, KeepsHistory
  <2>4. CASE q = p
    <3>1. /\ IsInjective(pconn[p].reqch)
          /\ \A d \in ToSet(pconn[p].reqch) : Waits(d, p)
          /\ Waits(c, p) /\ c \notin ToSet(pconn[p].reqch)
      BY <2>2, <2>4 DEF RequestsOf, Serving
    <3>2. loop'[p].at = "deliver" /\ loop'[p].rc = c /\ loop'[p].resp = r
      BY DEF LoopGoes
    <3>3. r.id \in {Nil, Id(c)'} \/ Overtaken(p)'
      BY <1>1 DEF KeepsHistory
    <3>4. QED
      BY <2>4, <3>1, <3>2, <3>3 DEF RequestsOf, Waits, Id
  <2>5. QED
    BY <2>3, <2>4
<1>3. Waits(c, p)
  BY ServedClaims
<1>4. Delivering(c, p)' /\ (Claims(c, p)' <=> r.body) /\ ~Awaits(c, p)'
  BY <1>3 DEF LoopGoes, Delivering, Claims, Awaits, Waits
<1>5. \A q \in Conns : \A d \in Callers :
         q # p \/ d # c => /\ Claims(d, q)' = Claims(d, q)
                           /\ Awaits(d, q)' = Awaits(d, q)
  <2>1. SUFFICES ASSUME NEW q \in Conns, NEW d \in Callers, q # p \/ d # c
                 PROVE  Claims(d, q)' = Claims(d, q) /\ Awaits(d, q)' = Awaits(d, q)
    OBVIOUS
  <2>2. CASE q # p
    BY <2>2 DEF LoopGoes, Delivering, Claims, Awaits
  <2>3. CASE q = p /\ d # c
    <3>1. ~Delivering(d, q) /\ ~Delivering(d, q)'
      BY <2>3 DEF Delivering, LoopGoes
    <3>2. QED
      BY <3>1 DEF Claims, Awaits
  <2>4. QED
    BY <2>1, <2>2, <2>3
<1>6. QED
  BY <1>1, <1>2, <1>4, <1>5

LEMMA InvReadFails ==
    ASSUME PoolInv, NEW p \in Conns, ReadFails(p)
    PROVE  PoolInv'
<1> USE DEF PoolInv
<1>1. /\ loop[p].at = "read" /\ OnlyCloses
      /\ LoopGoes(p, "deliver", loop[p].rc, Failure)
      /\ Failure \in Responses /\ Failure.id = Nil /\ ~Failure.body
      /\ UNCHANGED <<idle, signal, caller, wire, reap, events>>
  BY ReadFailsEffect
<1>2. TypeInv'
  BY TypeTurn
<1>3. PoolOK'
  BY <1>1, SamePool, PoolSmaller, OnlyClosesOK DEF OnlyCloses, SameKeys
<1>4. OwnResponse'
  BY <1>1, SameWire, NoNewResults
<1>5. PICK c \in Callers : c = loop[p].rc
  BY <1>1, ServedClaims
<1>6. /\ RequestsWait'
      /\ \A q \in Conns : \A d \in Callers :
            q # p \/ d # c => Claims(d, q)' = Claims(d, q) /\ Awaits(d, q)' = Awaits(d, q)
      /\ Claims(c, p)' <=> Failure.body
      /\ \A d \in Callers : Id(d)' = Id(d)
  BY <1>1, <1>5, SameWire, DeliveryBegins DEF OnlyCloses
<1>7. \A d \in Callers : \A q \in Conns :
         Claims(d, q)' => Claims(d, q) /\ Awaits(d, q)' = Awaits(d, q) /\ Id(d)' = Id(d)
  BY <1>1, <1>6
<1>8. \A q \in Conns : loop[q].at = "stuck" => loop'[q].at = "stuck"
  BY <1>1 DEF LoopGoes
<1>9. Exclusivity'
  BY <1>1, <1>7, <1>8, SamePool, OnlyClosesOK, SameExpectedIdle, NoNewClaims
<1>10. QED
  BY <1>2, <1>3, <1>4, <1>6, <1>9

LEMMA InvRead ==
    ASSUME PoolInv, NEW p \in Conns, ReadResponse(p)
    PROVE  PoolInv'
<1> USE DEF PoolInv
<1>r. PICK r \in Responses : r = Head(wire[p].responses)
  BY ReadEffect
<1>1. /\ loop[p].at = "read" /\ wire[p].responses # <<>>
      /\ LoopGoes(p, "deliver", loop[p].rc, r)
      /\ GivesBack(p) /\ (r.body => UNCHANGED idle)
      /\ wire'[p].requests = wire[p].requests
      /\ wire'[p].responses = Tail(wire[p].responses)
      /\ wire'[p].overtaken = wire[p].overtaken
      /\ \A q \in Conns \ {p} : wire'[q] = wire[q]
      /\ UNCHANGED <<caller, reap, events>>
  BY <1>r, ReadEffect
<1>2. TypeInv'
  BY TypeTurn
<1>3. pconn[p].state # "none"
  BY <1>1, LoopIsDialled
<1>4. PoolOK'
  BY <1>1, <1>3, PoolGrows
<1>h. KeepsHistory
  BY <1>1, KeptHistory DEF Overtaken
<1>5. OwnResponse'
  BY <1>1, <1>h, NoNewResults
<1>6. PICK c \in Callers : c = loop[p].rc
  BY <1>1, ServedClaims
<1>7. /\ \A d \in Callers : d # c => ~Claims(d, p)
      /\ Overtaken(p) \/ OnlyOf(p, Id(c))
      /\ ~Pooled(p) /\ p \notin reap
  BY <1>1, <1>6, ServedClaims
<1>8. /\ Overtaken(p) \/ r.id = Id(c)
      /\ Overtaken(p)' \/ Quiet(p)'
  BY <1>r, <1>1, <1>7, <1>h DEF OnlyOf, Empty, Quiet, KeepsHistory
<1>9. /\ RequestsWait'
      /\ \A q \in Conns : \A d \in Callers :
            q # p \/ d # c => Claims(d, q)' = Claims(d, q) /\ Awaits(d, q)' = Awaits(d, q)
      /\ Claims(c, p)' <=> r.body
      /\ ~Awaits(c, p)'
      /\ \A d \in Callers : Id(d)' = Id(d)
  BY <1>1, <1>6, <1>8, <1>h, DeliveryBegins DEF GivesBack, OnlyCloses
<1>10. ASSUME NEW q \in Conns, loop'[q].at # "stuck" PROVE Exclusive(q)' /\ OwnWire(q)'
  <2>1. CASE q # p
    <3>1. Exclusive(q) /\ OwnWire(q)
      BY <1>1, <1>10, <2>1 DEF Exclusivity, LoopGoes
    <3>2. (Pooled(q)' => Pooled(q)) /\ PooledOnce(q)'
      BY <1>1, <1>3, <2>1, <3>1, PoolGrown DEF Exclusive
    <3>3. \A d \in Callers : Claims(d, q)' => Claims(d, q) /\ Awaits(d, q)' = Awaits(d, q)
                                                           /\ Id(d)' = Id(d)
      BY <1>9, <2>1
    <3>4. QED
      BY <1>1, <2>1, <3>1, <3>2, <3>3, FewerClaims DEF GivesBack, OnlyCloses
  <2>2. CASE q = p
    <3>1. \A d \in Callers : Claims(d, p)' => d = c /\ r.body /\ ~Awaits(d, p)'
      BY <1>7, <1>9
    <3>2. PooledOnce(p)'
      BY <1>1, <1>3, <1>7, PoolGrown
    <3>3. r.body => ~Pooled(p)'
      BY <1>1, <1>7 DEF Pooled
    <3>4. Exclusive(p)'
      BY <1>1, <1>7, <3>1, <3>2, <3>3 DEF Exclusive
    <3>5. OwnWire(p)'
      BY <1>8, <3>1 DEF OwnWire
    <3>6. QED
      BY <2>2, <3>4, <3>5
  <2>3. QED
    BY <2>1, <2>2
<1>11. Exclusivity'
  BY <1>10 DEF Exclusivity
<1>12. QED
  BY <1>2, <1>4, <1>5, <1>9, <1>11

LEMMA InvDeliver ==
    ASSUME PoolInv, NEW p \in Conns, Deliver(p)
    PROVE  PoolInv'
<1> USE DEF PoolInv
<1>1. /\ loop[p].at = "deliver" /\ loop[p].rc \in Callers /\ Waits(loop[p].rc, p)
      /\ loop[p].rc \notin ToSet(pconn[p].reqch)
      /\ loop[p].resp \in Responses
      /\ loop[p].resp.id \in {Nil, Id(loop[p].rc)} \/ Overtaken(p)
  BY DEF RequestsWait, RequestsOf, Serving, Deliver, At
<1>c. PICK c \in Callers : c = loop[p].rc
  BY <1>1
<1>r. PICK r \in Responses : r = loop[p].resp
  BY <1>1
<1>2. /\ caller[c].at = "receive" /\ caller[c].conn = p /\ caller[c].result = Nil
      /\ c \notin ToSet(pconn[p].reqch) /\ r # Nil
      /\ r.id \in {Nil, Id(c)} \/ Overtaken(p)
  BY <1>1, <1>c, <1>r, NilAssumption DEF Waits
<1>3. /\ Moves(c, "receive", p, r)
      /\ UNCHANGED <<idle, pconn, signal, wire, reap, events>>
  BY <1>1, <1>2, <1>c, <1>r, DeliverEffect
<1>4. PICK at \in {"wait", "round"} : LoopGoes(p, at, Nil, Nil)
  BY <1>1, DeliverEffect
<1>5. TypeInv'
  BY TypeDeliver
<1>6. PoolOK'
  BY <1>3, SamePool, PoolSmaller DEF StaysDialled, SameKeys
<1>7. OwnResponse'
  <2>1. \A d \in Callers : Id(d)' = Id(d)
    BY <1>3 DEF Id, Moves
  <2>2. /\ caller'[c].result = r /\ caller'[c].conn = p
        /\ \A d \in Callers \ {c} : caller'[d] = caller[d]
    BY <1>3 DEF Moves
  <2>3. QED
    BY <1>2, <1>3, <2>1, <2>2 DEF OwnResponse, Answered, Overtaken
<1>8. RequestsWait'
  <2>1. SUFFICES ASSUME NEW q \in Conns PROVE RequestsOf(q)'
    BY DEF RequestsWait
  <2>2. RequestsOf(q)
    BY DEF RequestsWait
  <2>3. ToSet(pconn[q].reqch) \subseteq Callers
    BY Types, MemberType DEF PersistConn
  <2>4. \A d \in Callers \ {c} : Waits(d, q)' = Waits(d, q) /\ Id(d)' = Id(d)
    BY <1>3 DEF Moves, Waits, Id
  <2>5. c \notin ToSet(pconn[q].reqch)
    BY <1>2, <2>2 DEF RequestsOf, Waits
  <2>6. IsInjective(pconn'[q].reqch) /\ \A d \in ToSet(pconn'[q].reqch) : Waits(d, q)'
    BY <1>3, <2>2, <2>3, <2>4, <2>5 DEF RequestsOf
  <2>7. CASE q = p
    BY <1>4, <2>6, <2>7 DEF RequestsOf, LoopGoes, Serving
  <2>8. CASE q # p
    <3>1. loop'[q] = loop[q] /\ pconn'[q] = pconn[q]
      BY <1>3, <1>4, <2>8 DEF LoopGoes
    <3>2. loop[q].at \in Serving => loop[q].rc # c
      BY <1>2, <2>2, <2>8 DEF RequestsOf, Waits
    <3>3. ASSUME loop[q].at \in Serving
          PROVE  /\ loop[q].rc \in Callers /\ Waits(loop[q].rc, q)
                 /\ loop[q].rc \notin ToSet(pconn[q].reqch)
                 /\ caller'[loop[q].rc] = caller[loop[q].rc]
      BY <1>3, <2>2, <3>2, <3>3 DEF RequestsOf, Moves
    <3>4. loop[q].at = "deliver" => loop[q].at \in Serving
      BY DEF Serving
    <3>5. QED
      BY <1>3, <2>2, <2>6, <3>1, <3>3, <3>4 DEF RequestsOf, Waits, Id, Overtaken
  <2>9. QED
    BY <2>7, <2>8
<1>9. \A d \in Callers : \A q \in Conns :
         Claims(d, q)' => Claims(d, q) /\ Awaits(d, q)' = Awaits(d, q) /\ Id(d)' = Id(d)
  <2>1. SUFFICES ASSUME NEW d \in Callers, NEW q \in Conns, Claims(d, q)'
                 PROVE  Claims(d, q) /\ Awaits(d, q)' = Awaits(d, q) /\ Id(d)' = Id(d)
    OBVIOUS
  <2>2. Id(d)' = Id(d)
    BY <1>3 DEF Id, Moves
  <2>3. CASE d = c
    <3>1. q = p /\ r.body
      BY <1>2, <1>3, <2>1, <2>3 DEF Claims, Moves
    <3>2. Delivering(c, p) /\ loop[p].resp = r
      BY <1>1, <1>c, <1>r DEF Delivering
    <3>3. Claims(c, p) /\ ~Awaits(c, p)
      BY <1>2, <3>1, <3>2 DEF Claims, Awaits
    <3>4. ~Awaits(c, p)'
      BY <1>2, <1>3 DEF Awaits, Moves
    <3>5. QED
      BY <2>2, <2>3, <3>1, <3>3, <3>4 DEF Awaits
  <2>4. CASE d # c
    <3>1. caller'[d] = caller[d]
      BY <1>3, <2>4 DEF Moves
    <3>2. /\ Delivering(d, q)' <=> Delivering(d, q)
          /\ Delivering(d, q) => loop'[q].resp = loop[q].resp
      BY <1>4, <1>c, <2>4 DEF Delivering, LoopGoes
    <3>3. Claims(d, q)
      BY <2>1, <3>1, <3>2 DEF Claims
    <3>4. Awaits(d, q)' <=> Awaits(d, q)
      BY <3>1, <3>2 DEF Awaits
    <3>5. QED
      BY <2>2, <3>3, <3>4 DEF Awaits
  <2>5. QED
    BY <2>3, <2>4
<1>10. \A q \in Conns : loop[q].at = "stuck" => loop'[q].at = "stuck"
  BY <1>1, <1>4 DEF LoopGoes
<1>11. Exclusivity'
  BY <1>3, <1>9, <1>10, SamePool, NoNewClaims DEF StaysIdle
<1>12. QED
  BY <1>5, <1>6, <1>7, <1>8, <1>11

-----------------------------------------------------------------------------
(***************************************************************************)
(* The steps of the far end, and of CloseIdleConnections.                  *)
(***************************************************************************)
LEMMA InvAnswer ==
    ASSUME PoolInv, NEW p \in Conns, Answer(p)
    PROVE  PoolInv'
<1> USE DEF PoolInv
<1>1. /\ \A q \in Conns \ {p} : wire'[q] = wire[q]
      /\ \/ wire'[p].requests = <<>> /\ wire'[p].responses = wire[p].responses
         \/ /\ wire[p].requests # <<>> /\ wire'[p].requests = Tail(wire[p].requests)
            /\ \E x \in Responses : /\ x.id = Head(wire[p].requests)
                                    /\ wire'[p].responses = Append(wire[p].responses, x)
      /\ wire'[p].overtaken = wire[p].overtaken
      /\ UNCHANGED <<idle, pconn, loop, signal, caller, reap, events>>
  BY AnswerEffect
<1>2. TypeInv'
  BY TypeAnswer
<1>3. PoolOK'
  BY <1>1, SamePool, PoolSmaller DEF StaysDialled, SameKeys
<1>4. RequestsWait' /\ OwnResponse'
  BY <1>1, KeptHistory, StillWaiting, NoNewResults DEF Overtaken
<1>5. \A d \in Callers : \A q \in Conns :
         Claims(d, q)' = Claims(d, q) /\ Awaits(d, q)' = Awaits(d, q) /\ Id(d)' = Id(d)
  BY <1>1, SameLoops, OthersClaims
<1>6. Quiet(p) => Quiet(p)'
  BY <1>1 DEF Quiet, UnaskedWaits
<1>7. ASSUME NEW id, OnlyOf(p, id) PROVE OnlyOf(p, id)'
  <2>1. CASE wire'[p].requests = <<>> /\ wire'[p].responses = wire[p].responses
    BY <1>7, <2>1 DEF OnlyOf, Empty
  <2>2. ASSUME wire[p].requests # <<>>, wire'[p].requests = Tail(wire[p].requests),
               NEW x \in Responses, x.id = Head(wire[p].requests),
               wire'[p].responses = Append(wire[p].responses, x)
        PROVE  OnlyOf(p, id)'
    <3>1. /\ x.id = id /\ wire'[p].requests = <<>> /\ wire[p].responses = <<>>
      BY <1>7, <2>2 DEF OnlyOf, Empty
    <3>2. Append(<<>>, x) = <<x>> /\ <<x>> # <<>> /\ Head(<<x>>) = x /\ Tail(<<x>>) = <<>>
      OBVIOUS
    <3>3. QED
      BY <2>2, <3>1, <3>2 DEF OnlyOf
  <2>3. QED
    BY <1>1, <2>1, <2>2
<1>8. ASSUME NEW q \in Conns, loop'[q].at # "stuck" PROVE Exclusive(q)' /\ OwnWire(q)'
  <2>1. Exclusive(q) /\ OwnWire(q) /\ (Pooled(q)' <=> Pooled(q)) /\ PooledOnce(q)'
    BY <1>1, <1>8 DEF Exclusivity, Exclusive, Pooled, PooledOnce
  <2>2. CASE q # p
    BY <1>1, <1>5, <2>1, <2>2, FewerClaims
  <2>3. CASE q = p /\ Overtaken(p)
    BY <1>1, <1>5, <2>1, <2>3 DEF Exclusive, OwnWire, Overtaken
  <2>4. CASE q = p /\ ~Overtaken(p)
    <3>1. Exclusive(p)'
      BY <1>1, <1>5, <2>1, <2>4 DEF Exclusive
    <3>2. Pooled(p)' => Quiet(p)'
      BY <1>6, <2>1, <2>4 DEF OwnWire
    <3>3. ASSUME NEW d \in Callers, Claims(d, p)'
          PROVE  IF Awaits(d, p)' THEN OnlyOf(p, Id(d))' ELSE Quiet(p)'
      <4>1. Claims(d, p) /\ (IF Awaits(d, p) THEN OnlyOf(p, Id(d)) ELSE Quiet(p))
        BY <1>5, <2>1, <2>4, <3>3 DEF OwnWire
      <4>2. CASE Awaits(d, p)
        <5>1. PICK id : id = Id(d)
          OBVIOUS
        <5>2. OnlyOf(p, id)'
          BY <1>7, <4>1, <4>2, <5>1
        <5>3. Id(d)' = id /\ Awaits(d, p)'
          BY <1>5, <4>2, <5>1
        <5>4. QED
          BY <5>2, <5>3 DEF OnlyOf, Empty
      <4>3. CASE ~Awaits(d, p)
        BY <1>5, <1>6, <4>1, <4>3
      <4>4. QED
        BY <4>2, <4>3
    <3>4. OwnWire(p)'
      BY <3>2, <3>3 DEF OwnWire
    <3>5. QED
      BY <2>4, <3>1, <3>4
  <2>5. QED
    BY <2>2, <2>3, <2>4
<1>9. Exclusivity'
  BY <1>8 DEF Exclusivity
<1>10. QED
  BY <1>2, <1>3, <1>4, <1>9
LEMMA InvUnsolicited ==
    ASSUME PoolInv, NEW p \in Conns, NEW r \in Replies, Unsolicited(p, r)
    PROVE  PoolInv'
<1> USE DEF PoolInv
<1>1. /\ wire'[p].requests = wire[p].requests
      /\ \E x \in Responses : /\ x.id = NoRequest
                              /\ wire'[p].responses = Append(wire[p].responses, x)
      /\ Overtaken(p) \/ pconn[p].expected # 0 => Overtaken(p)'
      /\ \A q \in Conns \ {p} : wire'[q] = wire[q]
      /\ UNCHANGED <<idle, pconn, loop, signal, caller, reap>>
  BY UnsolicitedEffect
<1>2. TypeInv'
  BY TypeUnsolicited
<1>3. PoolOK'
  BY <1>1, SamePool, PoolSmaller DEF StaysDialled, SameKeys
<1>4. RequestsWait' /\ OwnResponse'
  BY <1>1, KeptHistory, StillWaiting, NoNewResults
<1>5. \A d \in Callers : \A q \in Conns :
         Claims(d, q)' = Claims(d, q) /\ Awaits(d, q)' = Awaits(d, q) /\ Id(d)' = Id(d)
  BY <1>1, SameLoops, OthersClaims
<1>6. UnaskedWaits(p)'
  <2>1. PICK x \in Responses : x.id = NoRequest /\ wire'[p].responses = Append(wire[p].responses, x)
    BY <1>1
  <2>2. wire[p].responses \in Seq(Responses)
    BY Types DEF Wire
  <2>3. PICK n : n = Len(wire[p].responses) + 1
    OBVIOUS
  <2>4. n \in DOMAIN wire'[p].responses /\ wire'[p].responses[n] = x
    BY <2>1, <2>2, <2>3, AppendElements
  <2>5. QED
    BY <2>1, <2>4 DEF UnaskedWaits
<1>7. ASSUME NEW q \in Conns, loop'[q].at # "stuck" PROVE Exclusive(q)' /\ OwnWire(q)'
  <2>1. Exclusive(q) /\ OwnWire(q) /\ (Pooled(q)' <=> Pooled(q)) /\ PooledOnce(q)'
    BY <1>1, <1>7 DEF Exclusivity, Exclusive, Pooled, PooledOnce
  <2>2. Exclusive(q)'
    BY <1>1, <1>5, <2>1 DEF Exclusive
  <2>3. CASE q # p
    BY <1>1, <1>5, <2>1, <2>3, FewerClaims
  <2>4. CASE q = p /\ Overtaken(p)'
    BY <2>2, <2>4 DEF OwnWire
  <2>5. CASE q = p /\ ~Overtaken(p)'
    <3>1. ~Overtaken(p) /\ pconn[p].expected = 0
      BY <1>1, <2>5
    <3>2. \A d \in Callers : Claims(d, p) => ~Awaits(d, p)
      BY <3>1, CountedExpects DEF Claims, Awaits
    <3>3. Quiet(p) => Quiet(p)'
      BY <1>1, <1>6, <3>1 DEF Quiet
    <3>4. OwnWire(p)'
      BY <1>5, <2>1, <2>5, <3>1, <3>2, <3>3 DEF OwnWire
    <3>5. QED
      BY <2>2, <2>5, <3>4
  <2>6. QED
    BY <2>3, <2>4, <2>5
<1>8. Exclusivity'
  BY <1>7 DEF Exclusivity
<1>9. QED
  BY <1>2, <1>3, <1>4, <1>8

LEMMA InvCloseIdle ==
    ASSUME PoolInv, NEW p \in Conns, CloseIdle(p)
    PROVE  PoolInv'
<1> USE DEF PoolInv
<1>1. /\ reap' \subseteq reap /\ OnlyCloses
      /\ UNCHANGED <<idle, loop, signal, caller, wire, events>>
  BY ClosedOnlyCloses DEF CloseIdle
<1>2. TypeInv'
  BY TypeCloseIdle
<1>3. PoolOK'
  BY <1>1, SamePool, PoolSmaller, OnlyClosesOK DEF OnlyCloses, SameKeys
<1>4. RequestsWait' /\ OwnResponse'
  BY <1>1, SameWire, StillWaiting, NoNewResults DEF OnlyCloses
<1>5. Exclusivity'
  BY <1>1, SamePool, SameLoops, OnlyClosesOK, SameExpectedIdle, StayersClaims
<1>6. QED
  BY <1>2, <1>3, <1>4, <1>5

LEMMA InvCloseIdleConnections ==
    ASSUME PoolInv, CloseIdleConnections
    PROVE  PoolInv'
<1> USE DEF PoolInv
<1>1. /\ reap = {} /\ reap' = UNION {ToSet(idle[k]) : k \in Keys}
      /\ idle' = [k \in Keys |-> <<>>]
      /\ UNCHANGED <<pconn, loop, signal, caller, wire>>
  BY DEF CloseIdleConnections
<1>2. TypeInv'
  BY TypeCloseIdleConnections
<1>3. \A k \in Keys : DOMAIN idle'[k] = {} /\ Len(idle'[k]) = 0
  BY <1>1
<1>4. \A q \in reap' : Pooled(q) /\ pconn[q].state # "none"
  <2>1. ASSUME NEW q \in reap' PROVE \E k \in Keys : \E i \in DOMAIN idle[k] : idle[k][i] = q
    BY <1>1, <2>1 DEF ToSet
  <2>2. QED
    BY <2>1 DEF Pooled, PoolOK
<1>5. PoolOK'
  <2>1. 0 <= MaxIdle
    BY TransportAssumption
  <2>2. QED
    BY <1>1, <1>3, <1>4, <2>1 DEF PoolOK
<1>6. RequestsWait' /\ OwnResponse'
  BY <1>1, SameWire, StillWaiting, NoNewResults
<1>7. \A d \in Callers : \A q \in Conns :
         Claims(d, q)' = Claims(d, q) /\ Awaits(d, q)' = Awaits(d, q) /\ Id(d)' = Id(d)
  BY <1>1, SameLoops, OthersClaims
<1>8. \A q : ~Pooled(q)' /\ PooledOnce(q)'
  BY <1>3 DEF Pooled, PooledOnce
<1>9. ASSUME NEW q \in Conns, loop'[q].at # "stuck" PROVE Exclusive(q)' /\ OwnWire(q)'
  <2>1. Exclusive(q) /\ OwnWire(q)
    BY <1>1, <1>9 DEF Exclusivity
  <2>2. Exclusive(q)'
    BY <1>4, <1>7, <1>8, <2>1 DEF Exclusive
  <2>3. wire'[q] = wire[q] /\ (pconn[q].expected = 0 => pconn'[q].expected = 0)
    BY <1>1
  <2>4. QED
    BY <1>7, <1>8, <2>1, <2>2, <2>3, FewerOwn
<1>10. Exclusivity'
  BY <1>9 DEF Exclusivity
<1>11. QED
  BY <1>2, <1>5, <1>6, <1>10

-----------------------------------------------------------------------------
(***************************************************************************)
(* The invariant.                                                          *)
(***************************************************************************)
LEMMA InvInit ==
    ASSUME Init
    PROVE  PoolInv
<1>1. TypeInv
  BY TypeInit
<1>2. /\ \A k \in Keys : idle[k] = <<>>
      /\ \A p \in Conns : pconn[p].reqch = <<>> /\ loop[p].at = "none"
      /\ \A c \in Callers : caller[c].at = "start" /\ caller[c].result = Nil
      /\ reap = {}
  BY DEF Init
<1>3. PoolOK
  <2>1. 0 <= MaxIdle /\ Len(<<>>) = 0 /\ DOMAIN <<>> = {}
    BY TransportAssumption
  <2>2. QED
    BY <1>2, <2>1 DEF PoolOK
<1>4. RequestsWait
  BY <1>2, NoMembers DEF RequestsWait, RequestsOf, Serving, IsInjective
<1>5. OwnResponse
  BY <1>2 DEF OwnResponse, Answered
<1>6. Exclusivity
  <2>1. \A p : ~Pooled(p) /\ PooledOnce(p)
    BY <1>2 DEF Pooled, PooledOnce
  <2>2. \A c \in Callers : \A p \in Conns : ~Claims(c, p)
    BY <1>2 DEF Claims
  <2>3. QED
    BY <1>2, <2>1, <2>2 DEF Exclusivity, Exclusive, OwnWire
<1>7. QED
  BY <1>1, <1>3, <1>4, <1>5, <1>6 DEF PoolInv

LEMMA InvNext ==
    ASSUME PoolInv, [Next]_vars
    PROVE  PoolInv'
<1>1. CASE CloseIdleConnections
  BY <1>1, InvCloseIdleConnections
<1>2. ASSUME NEW c \in Callers, RoundTrip(c) PROVE PoolInv'
  BY <1>2, InvGetIdle, InvDial, InvDialFails, InvCount, InvWrite, InvWriteFails, InvSend,
     InvReceive, InvSignal, InvClearSignal DEF RoundTrip
<1>3. ASSUME NEW c \in Callers, NextRequest(c) PROVE PoolInv'
  BY <1>3, InvNextRequest
<1>4. ASSUME NEW c \in Callers, NEW use \in BodyUses, UseBody(c, use) PROVE PoolInv'
  BY <1>4, InvUseBody
<1>5. ASSUME NEW p \in Conns, CloseIdle(p) PROVE PoolInv'
  BY <1>5, InvCloseIdle
<1>6. ASSUME NEW p \in Conns, readLoop(p) PROVE PoolInv'
  BY <1>6, InvTurn, InvTake, InvCloseLastBody, InvRead, InvReadFails, InvDeliver DEF readLoop
<1>7. ASSUME NEW p \in Conns, Answer(p) PROVE PoolInv'
  BY <1>7, InvAnswer
<1>u. ASSUME NEW p \in Conns, NEW r \in Replies, Unsolicited(p, r) PROVE PoolInv'
  BY <1>u, InvUnsolicited
<1>8. CASE UNCHANGED vars
  <2> USE DEF PoolInv
  <2>1. UNCHANGED <<idle, pconn, loop, signal, caller, wire, reap, events>>
    BY <1>8 DEF vars
  <2>2. StaysDialled /\ SameExpected /\ SameKeys
    BY <2>1 DEF StaysDialled, SameExpected, SameKeys
  <2>3. CallerOK' /\ CountOK' /\ ConnOK'
    BY <2>1, <2>2, StayersOK, StayersCounted, UntouchedOK
  <2>4. TypeInv'
    BY <2>1, <2>3, Types, TypesIntro
  <2>5. PoolOK'
    BY <2>1, <2>2, SamePool, PoolSmaller
  <2>6. RequestsWait' /\ OwnResponse'
    BY <2>1, SameWire, StillWaiting, NoNewResults
  <2>7. Exclusivity'
    BY <2>1, <2>2, SamePool, SameLoops, SameExpectedIdle, StayersClaims
  <2>8. QED
    BY <2>4, <2>5, <2>6, <2>7
<1>9. QED
  BY <1>1, <1>2, <1>3, <1>4, <1>5, <1>6, <1>7, <1>u, <1>8 DEF Next

\* In every reachable state the connections, the pool and the requests belong
\* together as PoolInv says, whatever the order in which callers, readLoops, servers
\* and CloseIdleConnections take their turns.
THEOREM PoolInvariant == Spec => []PoolInv
  BY InvInit, InvNext, PTL DEF Spec

\* The fields of Transport, persistConn and readLoop keep their types; in
\* particular numExpectedResponses never falls below 0, although roundTrip adds to
\* it before its request is written and takes from it after the answer is received.
THEOREM PoolTypesAreKept == Spec => []TypeOK
  BY PoolInvariant, PTL DEF PoolInv, TypeInv

\* readLoop hands to a caller the response that the server gave to that caller's
\* request, or an error, although it pairs them by order alone, over connections that
\* putIdleConn and getIdleConn pass from one caller to the next, and although servers
\* speak unasked: an unsolicited response does harm only to a connection on which it
\* met a request that had been counted, where readLoop's look at
\* numExpectedResponses cannot tell it from the answer.
THEOREM ResponsesAreOwn == Spec => []OwnResponse
  BY PoolInvariant, PTL DEF PoolInv

-----------------------------------------------------------------------------
(***************************************************************************)
(* What the invariant says of the users of a connection.                   *)
(***************************************************************************)
LEMMA UserClaims ==
    ASSUME NEW c \in Callers, NEW p \in Conns, InUse(c, p)
    PROVE  Claims(c, p)
  BY DEF InUse, Claims, Delivering

\* A set has at most one element if any two of its elements are the same.
LEMMA AtMostOne ==
    ASSUME NEW S, \A x, y \in S : x = y
    PROVE  Cardinality(S) \in {0, 1} /\ (S = {} => Cardinality(S) = 0)
<1>1. CASE S = {}
  BY <1>1, FS_EmptySet
<1>2. CASE S # {}
  <2>1. PICK x : x \in S
    BY <1>2
  <2>2. S = {x}
    BY <2>1
  <2>3. QED
    BY <1>2, <2>2, FS_Singleton
<1>3. QED
  BY <1>1, <1>2

LEMMA OneSlot ==
    ASSUME PoolInv, NEW p \in Conns, PooledOnce(p)
    PROVE  /\ \A s, t \in Slots(p) : s = t
           /\ Slots(p) # {} => Pooled(p)
<1>1. ASSUME NEW s \in Slots(p)
      PROVE  /\ s = <<s[1], s[2]>> /\ s[1] \in Keys /\ s[2] \in DOMAIN idle[s[1]]
             /\ idle[s[1]][s[2]] = p /\ pconn[p].key = s[1]
  <2>1. /\ s \in Keys \X (1 .. MaxIdle) /\ s[2] <= Len(idle[s[1]])
        /\ idle[s[1]][s[2]] = p
    BY <1>1 DEF Slots
  <2>2. s = <<s[1], s[2]>> /\ s[1] \in Keys /\ s[2] \in 1 .. MaxIdle
    BY <2>1
  <2>3. DOMAIN idle[s[1]] = 1 .. Len(idle[s[1]]) /\ Len(idle[s[1]]) \in Nat
    BY <2>2, PoolMembers DEF PoolInv
  <2>4. MaxIdle \in Nat
    BY TransportAssumption
  <2>5. s[2] \in DOMAIN idle[s[1]]
    BY <2>1, <2>2, <2>3, <2>4
  <2>6. QED
    BY <2>1, <2>2, <2>5 DEF PoolInv, PoolOK
<1>2. ASSUME NEW s \in Slots(p), NEW t \in Slots(p) PROVE s = t
  <2>1. s[1] = t[1]
    BY <1>1
  <2>2. s[2] = t[2]
    BY <1>1, <2>1 DEF PooledOnce
  <2>3. QED
    BY <1>1, <2>1, <2>2
<1>3. Slots(p) # {} => Pooled(p)
  BY <1>1 DEF Pooled
<1>4. QED
  BY <1>2, <1>3

LEMMA OneUser ==
    ASSUME PoolInv
    PROVE  OneUserAtATime
<1>1. \A k \in Keys : Len(idle[k]) <= MaxIdle
  BY DEF PoolInv, PoolOK
<1>2. ASSUME NEW p \in Conns, loop[p].at # "stuck"
      PROVE  /\ Cardinality({c \in Callers : InUse(c, p)}) + Cardinality(Slots(p)) <= 1
             /\ \A b, c \in Callers :
                   caller[b].at = "body" /\ caller[b].conn = p => ~InUse(c, p)
  <2> DEFINE Users == {c \in Callers : InUse(c, p)}
  <2>1. Exclusive(p)
    BY <1>2 DEF PoolInv, Exclusivity
  <2>2. \A c \in Users : c \in Callers /\ Claims(c, p)
    BY UserClaims
  <2>3. (\A c, d \in Users : c = d) /\ (Pooled(p) => Users = {})
    BY <2>1, <2>2 DEF Exclusive
  <2>4. (\A s, t \in Slots(p) : s = t) /\ (Slots(p) # {} => Pooled(p))
    BY <2>1, OneSlot DEF Exclusive
  <2>5. ASSUME NEW b \in Callers, NEW c \in Callers, caller[b].at = "body",
               caller[b].conn = p, InUse(c, p)
        PROVE  FALSE
    <3>1. Claims(b, p) /\ Claims(c, p)
      BY <2>5, UserClaims DEF Claims
    <3>2. b = c
      BY <2>1, <3>1 DEF Exclusive
    <3>3. QED
      BY <2>5, <3>2 DEF InUse
  <2> HIDE DEF Users
  <2>6. /\ Cardinality(Users) \in {0, 1} /\ (Users = {} => Cardinality(Users) = 0)
        /\ Cardinality(Slots(p)) \in {0, 1} /\ (Slots(p) = {} => Cardinality(Slots(p)) = 0)
    BY <2>3, <2>4, AtMostOne
  <2>7. Users = {} \/ Slots(p) = {}
    BY <2>3, <2>4
  <2>8. Cardinality(Users) + Cardinality(Slots(p)) <= 1
    BY <2>6, <2>7
  <2>9. QED
    BY <2>5, <2>8 DEF Users
<1>3. QED
  BY <1>1, <1>2 DEF OneUserAtATime

\* getIdleConn and putIdleConn pass a connection from one caller to the next so that
\* it has one user or one place in the pool, never both and never two, and so that a
\* response's body is read before anyone else writes a request; only a connection
\* whose readLoop ran the function of a bodyEOFSignal twice is exempt.
THEOREM ConnectionsHaveOneUser == Spec => []OneUserAtATime
<1>1. PoolInv => OneUserAtATime
  BY OneUser
<1>2. QED
  BY <1>1, PoolInvariant, PTL

\* CloseIdleConnections closes connections after it has let go of the lock of the
\* pool; none of them has found a new user by then.
THEOREM ClosingSparesBusy == Spec => CloseIdleSparesBusy
<1> DEFINE P == \A p \in Conns : CloseIdle(p) /\ loop[p].at # "stuck" =>
                                    \A c \in Callers : ~InUse(c, p)
<1>1. ASSUME PoolInv PROVE P
  <2>1. SUFFICES ASSUME NEW p \in Conns, CloseIdle(p), loop[p].at # "stuck",
                        NEW c \in Callers, InUse(c, p)
                 PROVE  FALSE
    OBVIOUS
  <2>2. p \in reap
    BY <2>1 DEF CloseIdle
  <2>3. QED
    BY <1>1, <2>1, <2>2, UserClaims DEF PoolInv, Exclusivity, Exclusive
<1>2. ASSUME PoolInv, [Next]_vars PROVE [P]_vars
  BY <1>1, <1>2
<1>3. QED
  BY <1>2, PoolInvariant, PTL DEF Spec, CloseIdleSparesBusy
=============================================================================
