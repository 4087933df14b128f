------------------------------- MODULE Proxy --------------------------------
(***************************************************************************)
(* The whole proxy: the manager goroutine with its recovery loop, next to  *)
(* the HTTP handlers, readers and delaying goroutines.                     *)
(***************************************************************************)
EXTENDS SourceIntake, AdminPages, ClientLifecycle, DataPath, MetadataPath

(***************************************************************************)
(* Recovery from a panic: init's loop makes a new Manager the global one   *)
(* and runs DestroyManager on the old one.                                 *)
(*                                                                         *)
(* Closing the old channels loses what is in them, and makes every sender  *)
(* that already evaluated ClientManager panic; conn.serve recovers that    *)
(* panic, but a hijacked connection is no longer its to close.  Readers of *)
(* the old manager can only reach its dataChan and errChan, which nobody   *)
(* receives from any more.                                                 *)
(***************************************************************************)
Registered == {m \in Clients : \E n \in MountNames : mounts[n] = m}

\* Clients.Destroy for each mount of the old manager; the mutant skips it.
KeepConnections == UNCHANGED conn
DestroyMounts ==
    conn' = [c \in Clients |-> IF \E m \in Registered : c \in byID[m] THEN "closed"
                               ELSE conn[c]]

\* NewManager makes its own Mounts; a variant that takes over those of the old one.
KeepMounts == UNCHANGED mounts
NewMounts == mounts' = [n \in MountNames |-> Nil]

\* ProcessClients makes its own errChan; a variant with one for all managers.
KeepErrors == UNCHANGED errChan
NewErrors == errChan' = <<>>

\* The mutant: recover, but do not loop.
NoRestart == FALSE
Restart ==
    /\ pc = "panic"
    /\ NewMounts /\ NewErrors
    /\ receiver' = <<>> /\ mountCollector' = <<>> /\ metaChan' = <<>>
    /\ dataChan' = <<>>
    /\ metaStore' = [h \in Hashes |-> Nil]
    /\ shout' = [m \in Clients |-> IF m \in Registered THEN "freed" ELSE shout[m]]
    /\ DestroyMounts
    /\ reader' = [c \in Clients |-> IF reader[c] = "reading" THEN "done" ELSE reader[c]]
    /\ source' = [c \in Clients |-> IF source[c] \in {"loaded", "queued"}
                                    THEN "stranded" ELSE source[c]]
    /\ staleTimer' = (staleTimer \/ \E d \in Delayed : timers[d] > 0)
    /\ timers' = [d \in Delayed |-> 0]
    /\ pc' = "select" /\ cur' = Nil
    /\ UNCHANGED <<mountVars, metadata, song, handlerVars, freedUse, fatals,
                   posts>>

-----------------------------------------------------------------------------
ManagerStep ==
    \/ AddFirstClient \/ SendStoredMetadata \/ AddWaitingClient \/ ConnectClient
    \/ ReceiveError \/ RemoveFromUnknownMount \/ RemoveWaitingClient
    \/ RemoveLastLiveClient \/ SwapLiveClient \/ SwapRacesAdmin \/ SendSwapMetadata
    \/ DisconnectClient \/ RegisterEmptyMount
    \/ AbortCollection \/ CollectMount
    \/ DiscardData \/ HandleData
    \/ StoreMetadata \/ DiscardMetadata \/ SaveMetadata \/ DelayMetadata \/ SendMetadata
    \/ ForgetStoredMetadata
    \/ Restart

OtherStep ==
    \/ \E c \in Clients : SourceRequest(c) \/ SendClient(c) \/ ReadData(c) \/ ReadError(c)
    \/ \E h \in Hashes : PostMetadata(h)
    \/ \E d \in Delayed : ResendMetadata(d)
    \/ StaleTimerFires
    \/ AdminListBegin \/ AdminListEnd
    \/ \E n \in MountNames, num \in AdminNums : Kick(n, num) \/ KickOutOfRange(n, num)

Next == ManagerStep \/ OtherStep

Spec == Init /\ [][Next]_vars

-----------------------------------------------------------------------------
(***************************************************************************)
(* Fairness.  A goroutine that can run does run: weak fairness for the     *)
(* steps that no other goroutine can disable.  A select statement chooses  *)
(* among its ready cases at random, and a mutex is eventually given to     *)
(* whoever waits for it: strong fairness for the cases of the loop and for *)
(* the steps that take HandlerLock.  Nothing is assumed of clients, users  *)
(* and admins, except that a read on a closed connection fails.            *)
(***************************************************************************)
HandlerGoesOn ==
    \/ SendStoredMetadata \/ RemoveFromUnknownMount \/ RemoveWaitingClient
    \/ RemoveLastLiveClient \/ SwapLiveClient \/ SendSwapMetadata \/ RegisterEmptyMount
    \/ Restart

Fairness ==
    /\ WF_vars(HandlerGoesOn)
    /\ SF_vars(ConnectClient) /\ SF_vars(DisconnectClient)
    /\ SF_vars(AddFirstClient \/ AddWaitingClient)
    /\ SF_vars(ReceiveError)
    /\ SF_vars(AbortCollection \/ CollectMount)
    /\ SF_vars(DiscardData \/ HandleData)
    /\ SF_vars(StoreMetadata \/ DiscardMetadata \/ SaveMetadata \/ DelayMetadata
                          \/ SendMetadata)
    /\ WF_vars(AdminListEnd)
    /\ \A c \in Clients : /\ SF_vars(SendClient(c))
                          /\ WF_vars(conn[c] = "closed" /\ ReadError(c))

FairSpec == Spec /\ Fairness

-----------------------------------------------------------------------------
(***************************************************************************)
(* Succession on a mount.                                                  *)
(***************************************************************************)

\* Every client of a mount that is not live waits in ClientQueue, so that
\* NextLiveClient can reach it, whichever clients left in between.  Only the
\* client that is being removed may be missing.
WaitingClientsAreQueued ==
    \A m \in Clients : \A c \in byID[m] \ {active[m]} :
        \/ c \in ToSet(clientQueue[m])
        \/ c = cur /\ m = MountFor(cur) /\ pc \in {"remove", "swap", "crashed"}

\* The live client is not in line a second time: otherwise NextLiveClient
\* would hand the mount over to the very client that is leaving.
LiveClientNotInLine ==
    \A m \in Clients : active[m] \notin ToSet(clientQueue[m])

\* A client stops being live only after its own connection failed; a newcomer
\* or another client's departure never takes the mount away from it.
LiveClientNotPreempted ==
    [][\A m \in Clients :
          active[m] # Nil /\ active'[m] # active[m] => reader[active[m]] = "done"]_vars

\* The admin page lists every waiting client of a mount, and lists them in the
\* order in which they will go live (HandlerMounts and ClientQueue are updated
\* separately).
AdminListsInSuccessionOrder ==
    \A n \in MountNames : mounts[n] # Nil =>
        LET m       == mounts[n]
            waiting == byID[m] \ {active[m], cur}
            list    == handlerMounts[n]
            line    == clientQueue[m]
        IN /\ waiting \subseteq ToSet(list)
           /\ \A i, j \in DOMAIN list :
                 i < j /\ {list[i], list[j]} \subseteq waiting =>
                     \E k, l \in DOMAIN line : k < l /\ line[k] = list[i] /\ line[l] = list[j]

\* The first row of the admin page, the bold one, is the live client, as long
\* as no manager was replaced.
AdminShowsLiveFirst ==
    fatals = 0 /\ ~freedUse =>
        \A n \in MountNames : mounts[n] # Nil =>
            LET m == mounts[n] IN
            active[m] \in byID[m] \ {cur} => handlerMounts[n] # <<>>
                                              /\ Head(handlerMounts[n]) = active[m]

(***************************************************************************)
(* Bookkeeping of mounts and connections.                                  *)
(***************************************************************************)

\* While a reader runs, and until its error is handled, its client is on the
\* mount that is registered under the client's mountpoint: the collector
\* never takes a mount away from a connected client, and RemoveClient never
\* panics with "Unexisting mountpoint".
ReaderHasMount ==
    \/ freedUse
    \/ \A c \in Clients :
          reader[c] = "reading" \/ c \in ToSet(errChan) \/ (c = cur /\ pc = "remove")
              => MountFor(c) # Nil /\ c \in byID[MountFor(c)]

\* Conversely, a connected client has a reader, or its removal is under way:
\* no connection is held that nothing will ever notice the end of.
ConnectedClientIsRead ==
    \A n \in MountNames : mounts[n] # Nil =>
        \A c \in byID[mounts[n]] \ {cur} :
            reader[c] = "reading" \/ c \in ToSet(errChan)

\* Length, which decides about collection, is the number of clients.
LengthIsSize ==
    freedUse \/ \A m \in Clients : length[m] = Cardinality(byID[m])

\* The libshout instance of a registered mount has not been destroyed, so
\* HandleData and SendMetadata never touch a destroyed one.
RegisteredMountIsUsable ==
    \A n \in MountNames : mounts[n] # Nil => shout[mounts[n]] \in {"closed", "open"}

\* A connection that the manager took over is either closed or belongs to a
\* client it can still find, also after a panic and the restart that follows.
AdoptedConnectionNotLeaked ==
    \/ freedUse
    \/ \A c \in Clients :
          source[c] = "adopted" /\ conn[c] = "open" =>
              c = cur \/ (MountFor(c) # Nil /\ c \in byID[MountFor(c)])

(***************************************************************************)
(* Metadata.                                                               *)
(***************************************************************************)

\* Metadata is saved, and kept for later, only under the user and mountpoint
\* that sent it, whatever happened to the mount while a packet was delayed.
MetadataStaysWithOwner ==
    /\ \A c \in Clients : metadata[c] # Empty => metadata[c].owner = Hash(c)
    /\ \A h \in Hashes : metaStore[h] \notin {Nil, Empty} => metaStore[h].owner = h

\* What icecast is told about a mount comes from the user who is live at that
\* moment, not from the one who was live when the packet arrived.
SongIsOfLiveUser ==
    [][\A m \in Clients :
          song'[m] # song[m] => song'[m] = Empty \/ song'[m].owner = Hash(active[m])]_vars

(***************************************************************************)
(* Progress.  The manager can stop for good in the ways that Wedged lists; *)
(* short of those, it keeps its promises.                                  *)
(***************************************************************************)
Wedged ==
    \/ pc = "crashed" \/ freedUse
    \/ handlerLock = "leaked"
    \/ pc \in {"stored", "swap"} /\ Len(metaChan) >= MetaCap
    \/ pc = "collect" /\ Len(mountCollector) >= CollectorCap

\* The error of a reader is handled: its client leaves and the connection is
\* closed.
FailedClientIsRemoved ==
    \A c \in Clients :
        c \in ToSet(errChan) ~> \/ Wedged
                                \/ conn[c] = "closed" /\ c \notin ToSet(errChan)

\* "The manager will handle everything from this point on" (http.go:221): a client
\* that sourceHandler handed over is taken by the manager.  The exception is the
\* panic of a manager: DestroyManager closes its Receiver (manager.go:34) with the
\* clients that are in it, and nobody reads their connections or closes them.
QueuedClientIsTaken ==
    \A c \in Clients :
        source[c] = "queued" ~> \/ Wedged
                                \/ source[c] \in {"adopted", "stranded"}

\* A mount without clients is collected, unless a client joins it.
EmptyMountIsCollected ==
    \A n \in MountNames, m \in Clients :
        mounts[n] = m /\ byID[m] = {} ~> Wedged \/ mounts[n] # m \/ byID[m] # {}

(***************************************************************************)
(* What comments in the code promise.                                      *)
(***************************************************************************)

\* Mount.Active is "the currently active client on the stream": when a mount
\* has clients, one of them is live.
MountWithClientsHasLiveOne ==
    pc = "select" =>
        \A n \in MountNames : mounts[n] # Nil /\ byID[mounts[n]] # {}
                                => active[mounts[n]] \in byID[mounts[n]]

\* DestroyShout: the instance can't be used after it was destroyed.
DestroyedShoutNotUsed == ~freedUse

\* ReadInto: "on any errors we just push it onto the error channel", "the
\* manager will handle it correctly", short of the process being gone.
ErrorIsHandled ==
    \A c \in Clients :
        c \in ToSet(errChan) ~> \/ pc = "crashed"
                                \/ conn[c] = "closed" /\ c \notin ToSet(errChan)
=============================================================================
