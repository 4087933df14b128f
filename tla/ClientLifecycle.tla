-------------------------- MODULE ClientLifecycle ---------------------------
(***************************************************************************)
(* AddClient, RemoveClient, NextLiveClient, SwapLiveClient and the mount   *)
(* collector of server/icecast.go: how clients join a mount, wait for      *)
(* their turn, go live, leave, and how an empty mount is cleaned up.       *)
(***************************************************************************)
EXTENDS ProxyState

(***************************************************************************)
(* case client := <-self.Receiver                                          *)
(***************************************************************************)

TakeClient ==
    /\ pc = "select"
    /\ receiver # <<>>
    /\ receiver' = Tail(receiver)
    /\ cur' = Head(receiver)
    /\ source' = [source EXCEPT ![Head(receiver)] = "adopted"]

\* metaStore holds metadata for the client; the mutant forgets to look.
AssumeStored(c) == TRUE
HasStoredMetadata(c) == metaStore[Hash(c)] # Nil

\* AddClient on a mountpoint that has no mount: create one, with the client
\* as its live source, and fetch metadata that arrived before the client.
AddFirstClient ==
    LET c == Head(receiver) IN
    /\ TakeClient
    /\ MountFor(c) = Nil
    /\ mounts' = [mounts EXCEPT ![MountOf[c]] = c]
    /\ byID' = [byID EXCEPT ![c] = {c}]
    /\ length' = [length EXCEPT ![c] = 1]
    /\ active' = [active EXCEPT ![c] = c]
    /\ shout' = [shout EXCEPT ![c] = "closed"]
    /\ pc' = IF HasStoredMetadata(c) THEN "stored" ELSE "connect"
    /\ UNCHANGED <<mountCollector, metaChan, dataChan, errChan, clientQueue, metaVars,
                   conn, reader, handlerVars, faultVars, posts>>

\* The stored metadata goes through the manager's own channel.
SendStoredMetadata ==
    /\ pc = "stored"
    /\ Len(metaChan) < MetaCap
    /\ metaChan' = Append(metaChan, [data |-> metaStore[Hash(cur)],
                                     id   |-> Hash(cur),
                                     seen |-> FALSE])
    /\ pc' = "connect"
    /\ UNCHANGED <<cur, mounts, receiver, mountCollector, dataChan, errChan, mountVars,
                   shout, metaVars, clientVars, handlerVars, faultVars, posts>>

\* AddClient on an existing mount: the client waits in ClientQueue; when the
\* queue is full, FullQueue makes the caller remove the client again.
AddWaitingClient ==
    LET c == Head(receiver)
        m == MountFor(c)
    IN
    /\ TakeClient
    /\ m # Nil
    /\ byID' = [byID EXCEPT ![m] = @ \cup {c}]
    /\ length' = [length EXCEPT ![m] = @ + 1]
    /\ \/ /\ Len(clientQueue[m]) < QueueLimit
          /\ clientQueue' = [clientQueue EXCEPT ![m] = Append(@, c)]
          /\ pc' = "connect"
       \/ /\ Len(clientQueue[m]) >= QueueLimit
          /\ clientQueue' = clientQueue
          /\ pc' = "remove"
    /\ UNCHANGED <<mounts, mountCollector, metaChan, dataChan, errChan, active, shout,
                   metaVars, conn, reader, handlerVars, faultVars, posts>>

\* HandleClientConnect under HandlerLock, then go ReadInto(...).
ConnectClient ==
    /\ pc = "connect"
    /\ handlerLock = "free"
    /\ handlerMounts' = [handlerMounts EXCEPT ![MountOf[cur]] = HandleClientConnect(@, cur)]
    /\ reader' = [reader EXCEPT ![cur] = "reading"]
    /\ pc' = "select" /\ cur' = Nil
    /\ UNCHANGED <<mounts, chanVars, mountVars, shout, metaVars, source, conn,
                   handlerLock, faultVars, posts>>

-----------------------------------------------------------------------------
(***************************************************************************)
(* case err := <-errChan, and RemoveClient                                 *)
(***************************************************************************)

ReceiveError ==
    /\ pc = "select"
    /\ errChan # <<>>
    /\ errChan' = Tail(errChan)
    /\ cur' = Head(errChan)
    /\ pc' = "remove"
    /\ UNCHANGED <<mounts, receiver, mountCollector, metaChan, dataChan, mountVars, shout,
                   metaVars, clientVars, handlerVars, faultVars, posts>>

\* panic("Unexisting mountpoint")
RemoveFromUnknownMount ==
    /\ pc = "remove"
    /\ MountFor(cur) = Nil
    /\ pc' = "panic"
    /\ UNCHANGED <<cur, mounts, chanVars, mountVars, shout, metaVars, clientVars,
                   handlerVars, faultVars, posts>>

\* The client is the mount's Active one; the mutant takes every client for it.
TakenForLive(m, c) == TRUE
IsLive(m, c) == active[m] = c

\* ClientContainer.Remove and Conn.Close; the mutant does not count.
DetachUncounted(m, c) ==
    /\ byID' = [byID EXCEPT ![m] = @ \ {c}]
    /\ conn' = [conn EXCEPT ![c] = "closed"]
    /\ pc' = "disconnect"
    /\ UNCHANGED length
Detach(m, c) ==
    /\ byID' = [byID EXCEPT ![m] = @ \ {c}]
    /\ length' = [length EXCEPT ![m] = @ - 1]
    /\ conn' = [conn EXCEPT ![c] = "closed"]
    /\ pc' = "disconnect"

RemoveWaitingClient ==
    LET m == MountFor(cur) IN
    /\ pc = "remove"
    /\ m # Nil
    /\ ~IsLive(m, cur)
    /\ Detach(m, cur)
    /\ UNCHANGED <<cur, mounts, chanVars, active, clientQueue, shout, metaVars, source,
                   reader, handlerVars, faultVars, posts>>

\* Positions in ClientQueue whose client is still connected; NextLiveClient
\* discards the entries of clients that left.
Successors(m) == {i \in DOMAIN clientQueue[m] : clientQueue[m][i] \in byID[m]}

\* The position NextLiveClient stops at; the mutant takes any successor.
AnyInLine(m) == Successors(m)
NextInLine(m) == {i \in Successors(m) : \A j \in Successors(m) : i <= j}

\* There is nobody to go live; the mutant gives up on a queue of stale entries.
QueueIsEmpty(m) == clientQueue[m] = <<>>
NobodyInLine(m) == Successors(m) = {}

\* What is left of the queue after NextLiveClient stopped at position i; the
\* mutant leaves the new live client in it.
QueueFrom(m, i) == SubSeq(clientQueue[m], i, Len(clientQueue[m]))
QueueAfter(m, i) == SubSeq(clientQueue[m], i + 1, Len(clientQueue[m]))

\* NextLiveClient empties the queue without finding anyone: the mount keeps
\* the leaving client as its Active.
RemoveLastLiveClient ==
    LET m == MountFor(cur) IN
    /\ pc = "remove"
    /\ m # Nil
    /\ IsLive(m, cur)
    /\ NobodyInLine(m)
    /\ clientQueue' = [clientQueue EXCEPT ![m] = <<>>]
    /\ Detach(m, cur)
    /\ UNCHANGED <<cur, mounts, chanVars, active, shout, metaVars, source, reader,
                   handlerVars, faultVars, posts>>

\* NextLiveClient finds the first connected client in the queue, and
\* SwapLiveClient makes it Active.  HandleClientLive reorders HandlerMounts
\* without taking HandlerLock.  SwapLiveClient's early return for a client
\* that is Active already is never taken: see LiveClientNotInLine.
SwapLiveClient ==
    LET m == MountFor(cur) IN
    /\ pc = "remove"
    /\ m # Nil
    /\ IsLive(m, cur)
    /\ \E i \in NextInLine(m) :
          LET next == clientQueue[m][i] IN
          /\ clientQueue' = [clientQueue EXCEPT ![m] = QueueAfter(m, i)]
          /\ active' = [active EXCEPT ![m] = next]
          /\ handlerMounts' = [handlerMounts EXCEPT ![MountOf[cur]] = HandleClientLive(@, next)]
    /\ pc' = "swap"
    /\ UNCHANGED <<cur, mounts, chanVars, byID, length, shout, metaVars, clientVars,
                   handlerLock, faultVars, posts>>

\* The write of SwapLiveClient to HandlerMounts while adminHandler iterates
\* over it: the Go runtime may end the process with a fatal error.
SwapRacesAdmin ==
    /\ pc = "remove"
    /\ MountFor(cur) # Nil
    /\ IsLive(MountFor(cur), cur)
    /\ Successors(MountFor(cur)) # {}
    /\ handlerLock = "admin"
    /\ pc' = "crashed"
    /\ UNCHANGED <<cur, mounts, chanVars, mountVars, shout, metaVars, clientVars,
                   handlerVars, faultVars, posts>>

\* The last statement of SwapLiveClient sends the saved metadata of the new
\* live client on the manager's own channel; RemoveClient then goes on.
SendSwapMetadata ==
    LET m == MountFor(cur) IN
    /\ pc = "swap"
    /\ Len(metaChan) < MetaCap
    /\ metaChan' = Append(metaChan, [data |-> metadata[active[m]],
                                     id   |-> Hash(active[m]),
                                     seen |-> FALSE])
    /\ Detach(m, cur)
    /\ UNCHANGED <<cur, mounts, receiver, mountCollector, dataChan, errChan, active,
                   clientQueue, shout, metaVars, source, reader, handlerVars, faultVars,
                   posts>>

\* HandleClientDisconnect.  Without an entry for the mountpoint it returns
\* early and leaves HandlerLock locked.
DisconnectClient ==
    LET n == MountOf[cur] IN
    /\ pc = "disconnect"
    /\ handlerLock = "free"
    /\ \/ /\ handlerMounts[n] = <<>>
          /\ handlerLock' = "leaked"
          /\ handlerMounts' = handlerMounts
       \/ /\ handlerMounts[n] # <<>>
          /\ handlerLock' = "free"
          /\ handlerMounts' = [handlerMounts EXCEPT ![n] = HandleClientDisconnect(@, cur)]
    /\ pc' = IF length[MountFor(cur)] = 0 THEN "collect" ELSE "select"
    /\ cur' = IF length[MountFor(cur)] = 0 THEN cur ELSE Nil
    /\ UNCHANGED <<mounts, chanVars, mountVars, shout, metaVars, clientVars, faultVars,
                   posts>>

\* Register the empty mount for collection.
RegisterEmptyMount ==
    /\ pc = "collect"
    /\ Len(mountCollector) < CollectorCap
    /\ mountCollector' = Append(mountCollector, MountFor(cur))
    /\ pc' = "select" /\ cur' = Nil
    /\ UNCHANGED <<mounts, receiver, metaChan, dataChan, errChan, mountVars, shout,
                   metaVars, clientVars, handlerVars, faultVars, posts>>

-----------------------------------------------------------------------------
(***************************************************************************)
(* case mount := <-self.MountCollector                                     *)
(***************************************************************************)

TakeMount ==
    /\ pc = "select"
    /\ mountCollector # <<>>
    /\ mountCollector' = Tail(mountCollector)

\* No client is left on the mount, by the count that the container keeps; the
\* mutant does not look again.
CollectAnyway(m) == TRUE
NoClientsLeft(m) == length[m] <= 0

\* The mount got a new client meanwhile.
AbortCollection ==
    /\ TakeMount
    /\ ~NoClientsLeft(Head(mountCollector))
    /\ UNCHANGED <<loopVars, mounts, receiver, metaChan, dataChan, errChan, mountVars,
                   shout, metaVars, clientVars, handlerVars, faultVars, posts>>

\* delete(self.Mounts, mount.Mount), whatever mount has the name by now; the
\* mutant leaves the entry.
LeaveRegistered(m) == UNCHANGED mounts
Deregister(m) == mounts' = [mounts EXCEPT ![MountOf[m]] = Nil]

\* Close and destroy the libshout instance, close the connections of the
\* clients, and deregister.  On an instance that was destroyed before, the C
\* calls have undefined behaviour: the process may end, or seem to get away
\* with it.
CollectMount ==
    LET m == Head(mountCollector) IN
    /\ TakeMount
    /\ NoClientsLeft(m)
    /\ \/ /\ Deregister(m)
          /\ conn' = [c \in Clients |-> IF c \in byID[m] THEN "closed" ELSE conn[c]]
          /\ shout' = [shout EXCEPT ![m] = "freed"]
          /\ freedUse' = (freedUse \/ shout[m] = "freed")
          /\ pc' = pc
       \/ /\ shout[m] = "freed"
          /\ pc' = "crashed"
          /\ freedUse' = TRUE
          /\ UNCHANGED <<mounts, conn, shout>>
    /\ UNCHANGED <<cur, receiver, metaChan, dataChan, errChan, mountVars, metaVars,
                   source, reader, handlerVars, staleTimer, fatals, posts>>
=============================================================================
