------------------------------ MODULE Handlers ------------------------------
(***************************************************************************)
(* The event handlers of server/handlers.go, which keep the list of source *)
(* clients that the /admin page shows for one mountpoint.  HandlerMounts   *)
(* maps a mountpoint to a list; a mountpoint without an entry is the empty *)
(* list here, because HandleClientDisconnect deletes an entry as soon as   *)
(* its list is empty and HandleClientConnect never stores an empty one.    *)
(*                                                                         *)
(* These operators are the effect of a handler on one list.  Who calls     *)
(* them, and whether HandlerLock is held, is the caller's business.        *)
(* HandleClientUnlive and HandleMetadata have empty bodies.                *)
(***************************************************************************)
EXTENDS SequencesExt

\* Where the loops of the handlers find the client.
IndexIn(list, client) == CHOOSE i \in DOMAIN list : list[i] = client

\* The list without the client; a list that lacks the client is left alone.
Without(list, client) ==
    IF client \in ToSet(list) THEN RemoveAt(list, IndexIn(list, client)) ELSE list

\* Mutants of the two handlers below: a newcomer at the front, the live client
\* at the back.
ConnectAtFront(list, client) == <<client>> \o list
LiveAtBack(list, client) == Append(Without(list, client), client)

\* New clients go to the end of the list.
HandleClientConnect(list, client) == Append(list, client)

\* The effect on the list when the mountpoint has an entry.
HandleClientDisconnect(list, client) == Without(list, client)

\* A client that goes live moves to the front, if it is listed at all.
HandleClientLive(list, client) ==
    IF client \in ToSet(list) THEN <<client>> \o Without(list, client) ELSE list
=============================================================================
