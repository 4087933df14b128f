--------------------------- MODULE PipelinedLink ----------------------------
(***************************************************************************)
(* What a ClientConn and a ServerConn promise together: requests written   *)
(* by any number of goroutines form one order, are received, answered and  *)
(* delivered in that order, and the answer delivered for a request is the  *)
(* one that was written in response to it.                                 *)
(***************************************************************************)
EXTENDS Integers, Sequences

CONSTANTS Requests, None

VARIABLES
    sent,        \* the requests in the order in which they were written
    received,    \* how many of them the server side has read,
    answered,    \*     has answered,
    delivered,   \*     and how many answers have reached the client's callers
    got          \* for each request, the request whose answer its caller got

vars == <<sent, received, answered, delivered, got>>

Init ==
    /\ sent = <<>> /\ received = 0 /\ answered = 0 /\ delivered = 0
    /\ got = [r \in Requests |-> None]

Send(r) ==
    /\ \A i \in DOMAIN sent : sent[i] # r
    /\ sent' = Append(sent, r)
    /\ UNCHANGED <<received, answered, delivered, got>>

Receive ==
    /\ received < Len(sent)
    /\ received' = received + 1
    /\ UNCHANGED <<sent, answered, delivered, got>>

Answer ==
    /\ answered < received
    /\ answered' = answered + 1
    /\ UNCHANGED <<sent, received, delivered, got>>

Deliver ==
    LET r == sent[delivered + 1] IN
    /\ delivered < answered
    /\ delivered' = delivered + 1
    /\ got' = [got EXCEPT ![r] = r]
    /\ UNCHANGED <<sent, received, answered>>

Next == (\E r \in Requests : Send(r)) \/ Receive \/ Answer \/ Deliver

Spec == Init /\ [][Next]_vars
=============================================================================
