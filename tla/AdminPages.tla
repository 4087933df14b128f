----------------------------- MODULE AdminPages -----------------------------
(***************************************************************************)
(* adminHandler of server/http.go: the /admin page and /admin/kick, which  *)
(* work on HandlerMounts under HandlerLock.                                *)
(***************************************************************************)
EXTENDS ProxyState

\* adminHandler on /admin holds the lock while it walks over HandlerMounts.
AdminListBegin ==
    /\ pc # "crashed"
    /\ handlerLock = "free"
    /\ handlerLock' = "admin"
    /\ UNCHANGED <<loopVars, mounts, chanVars, mountVars, shout, metaVars, clientVars,
                   handlerMounts, faultVars, posts>>

AdminListEnd ==
    /\ pc # "crashed"
    /\ handlerLock = "admin"
    /\ handlerLock' = "free"
    /\ UNCHANGED <<loopVars, mounts, chanVars, mountVars, shout, metaVars, clientVars,
                   handlerMounts, faultVars, posts>>

\* adminHandler on /admin/kick, with an index that is still in the list.
Kick(n, num) ==
    /\ pc # "crashed"
    /\ handlerLock = "free"
    /\ num + 1 \in DOMAIN handlerMounts[n]
    /\ conn' = [conn EXCEPT ![handlerMounts[n][num + 1]] = "closed"]
    /\ UNCHANGED <<loopVars, mounts, chanVars, mountVars, shout, metaVars, source, reader,
                   handlerVars, faultVars, posts>>

\* The list got shorter since the page with the index was made: the index
\* expression panics, conn.serve recovers, and the lock stays locked.
KickOutOfRange(n, num) ==
    /\ pc # "crashed"
    /\ handlerLock = "free"
    /\ handlerMounts[n] # <<>>
    /\ num + 1 \notin DOMAIN handlerMounts[n]
    /\ handlerLock' = "leaked"
    /\ UNCHANGED <<loopVars, mounts, chanVars, mountVars, shout, metaVars, clientVars,
                   handlerMounts, faultVars, posts>>
=============================================================================
