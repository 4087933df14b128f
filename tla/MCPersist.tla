----------------------------- MODULE MCPersist ------------------------------
(***************************************************************************)
(* Three goroutines share a ClientConn; the first request has a body, the  *)
(* second asks for the connection to be closed behind it.                  *)
(***************************************************************************)
EXTENDS Persist

CONSTANTS r1, r2, r3

MCRespKinds == {[body |-> TRUE, close |-> FALSE], [body |-> FALSE, close |-> TRUE]}
=============================================================================
