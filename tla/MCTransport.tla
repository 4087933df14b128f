---------------------------- MODULE MCTransport -----------------------------
(***************************************************************************)
(* Two callers on a pool that holds one idle connection to one server.     *)
(***************************************************************************)
EXTENDS Transport

CONSTANTS a, b, p1, p2, host

MCKeyOf == [c \in Callers |-> host]
MCMaxRequests == (a :> 2) @@ (b :> 1)

\* No body, a body, and a last response whose body is not gzip.
MCReplies ==
    {[body |-> FALSE, close |-> FALSE, err |-> FALSE],
     [body |-> TRUE,  close |-> FALSE, err |-> FALSE],
     [body |-> TRUE,  close |-> TRUE,  err |-> TRUE]}

\* The responses to b, which may ask for heads only, have no body, nor has what p1, the
\* first connection to be dialled, is sent unasked.
NoBodies == {r \in MCReplies : ~r.body}
MCRepliesTo == [i \in Ids |-> IF i[1] = b THEN NoBodies ELSE MCReplies]
MCUnasked == (p1 :> NoBodies) @@ (p2 :> {})
=============================================================================
