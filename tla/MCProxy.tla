------------------------------- MODULE MCProxy -------------------------------
(***************************************************************************)
(* Instances of Proxy for TLC.                                             *)
(***************************************************************************)
EXTENDS Proxy

\* Every client asks for the same mountpoint.
OneMount == [c \in Clients |-> CHOOSE n \in MountNames : TRUE]

\* Every client logs in as the same user from the same host.
OneUser == [c \in Clients |-> CHOOSE u \in Identities : TRUE]

\* One client belongs to a user of its own, the others to the same user.
TwoUsers ==
    LET lone == CHOOSE c \in Clients : TRUE
        solo == CHOOSE u \in Identities : TRUE
    IN [c \in Clients |-> IF c = lone THEN solo ELSE CHOOSE u \in Identities : u # solo]

\* Clients are interchangeable, when all belong to one user, and otherwise
\* those that belong to the same one.
ClientSymmetry == Permutations(Clients)
SharedUserSymmetry ==
    Permutations({c \in Clients : \E d \in Clients \ {c} : TwoUsers[c] = TwoUsers[d]})
=============================================================================
