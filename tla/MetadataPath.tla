---------------------------- MODULE MetadataPath ----------------------------
(***************************************************************************)
(* The MetaChan case of ProcessClients, its ticker, metadataHandler of     *)
(* server/http.go and the goroutines that delay a packet by one second.    *)
(***************************************************************************)
EXTENDS ProxyState

\* metadataHandler: a request with non-empty metadata, from a user who may
\* or may not have a source connected.
PostMetadata(h) ==
    /\ pc # "crashed"
    /\ posts < MaxPosts
    /\ Len(metaChan) < MetaCap
    /\ posts' = posts + 1
    /\ metaChan' = Append(metaChan, [data |-> [owner |-> h, n |-> posts + 1],
                                     id   |-> h,
                                     seen |-> FALSE])
    /\ UNCHANGED <<loopVars, mounts, receiver, mountCollector, dataChan, errChan,
                   mountVars, shout, metaVars, clientVars, handlerVars, faultVars>>

\* The goroutine that slept for a second puts its packet back.
ResendMetadata(d) ==
    /\ pc # "crashed"
    /\ timers[d] > 0
    /\ Len(metaChan) < MetaCap
    /\ timers' = [timers EXCEPT ![d] = @ - 1]
    /\ metaChan' = Append(metaChan, [data |-> d.data, id |-> d.id, seen |-> TRUE])
    /\ UNCHANGED <<loopVars, mounts, receiver, mountCollector, dataChan, errChan,
                   mountVars, shout, metaStore, metadata, song, clientVars, handlerVars,
                   faultVars, posts>>

\* The same goroutine when its manager was destroyed meanwhile: it sends on
\* a closed channel, and a panic that nothing recovers ends the process.
StaleTimerFires ==
    /\ pc # "crashed"
    /\ staleTimer
    /\ pc' = "crashed"
    /\ UNCHANGED <<cur, mounts, chanVars, mountVars, shout, metaVars, clientVars,
                   handlerVars, faultVars, posts>>

-----------------------------------------------------------------------------
TakeMeta ==
    /\ pc = "select"
    /\ metaChan # <<>>
    /\ metaChan' = Tail(metaChan)

\* Clients of the mount that ClientContainer.GetByHash may return; the map
\* is walked in an unspecified order.  The mutant ignores the hash.
GetAny(m, h) == byID[m]
GetByHash(m, h) == {c \in byID[m] : Hash(c) = h}

\* The packet comes from the user whose client is the Active one; the mutant
\* trusts every sender.
SentByAnyone(m, p) == TRUE
SentByLive(m, p) == Hash(active[m]) = p.id

\* No mount has this name: keep the metadata for a client that may come.
StoreMetadata ==
    LET p == Head(metaChan) IN
    /\ TakeMeta
    /\ mounts[p.id[2]] = Nil
    /\ metaStore' = [metaStore EXCEPT ![p.id] = p.data]
    /\ UNCHANGED <<loopVars, mounts, receiver, mountCollector, dataChan, errChan,
                   mountVars, shout, metadata, timers, song, clientVars, handlerVars,
                   faultVars, posts>>

\* The sender has no client on the mount.
DiscardMetadata ==
    LET p == Head(metaChan) IN
    /\ TakeMeta
    /\ mounts[p.id[2]] # Nil
    /\ GetByHash(mounts[p.id[2]], p.id) = {}
    /\ UNCHANGED <<loopVars, mounts, receiver, mountCollector, dataChan, errChan,
                   mountVars, shout, metaVars, clientVars, handlerVars, faultVars, posts>>

\* The sender has a client on the mount that is not the live one.
SaveMetadata ==
    LET p == Head(metaChan)
        m == mounts[p.id[2]]
    IN
    /\ TakeMeta
    /\ m # Nil
    /\ ~SentByLive(m, p)
    /\ \E c \in GetByHash(m, p.id) : metadata' = [metadata EXCEPT ![c] = p.data]
    /\ UNCHANGED <<loopVars, mounts, receiver, mountCollector, dataChan, errChan,
                   mountVars, shout, metaStore, timers, song, clientVars, handlerVars,
                   faultVars, posts>>

\* The sender is the live client, and this packet is new: delay it.
DelayMetadata ==
    LET p == Head(metaChan)
        m == mounts[p.id[2]]
    IN
    /\ TakeMeta
    /\ m # Nil
    /\ SentByLive(m, p)
    /\ ~p.seen
    /\ \E c \in GetByHash(m, p.id) : metadata' = [metadata EXCEPT ![c] = p.data]
    /\ timers' = [timers EXCEPT ![[data |-> p.data, id |-> p.id]] = @ + 1]
    /\ UNCHANGED <<loopVars, mounts, receiver, mountCollector, dataChan, errChan,
                   mountVars, shout, metaStore, song, clientVars, handlerVars, faultVars,
                   posts>>

\* The sender is the live client, and the packet was delayed: hand it to
\* libshout, whose errors are ignored.
SendMetadata ==
    LET p == Head(metaChan)
        m == mounts[p.id[2]]
    IN
    /\ TakeMeta
    /\ m # Nil
    /\ SentByLive(m, p)
    /\ p.seen
    /\ \E c \in GetByHash(m, p.id) : metadata' = [metadata EXCEPT ![c] = p.data]
    /\ song' \in {song, [song EXCEPT ![m] = p.data]}
    /\ UNCHANGED <<loopVars, mounts, receiver, mountCollector, dataChan, errChan,
                   mountVars, shout, metaStore, timers, clientVars, handlerVars,
                   faultVars, posts>>

\* case <-metaStoreTicker
ForgetStoredMetadata ==
    /\ pc = "select"
    /\ metaStore' = [h \in Hashes |-> Nil]
    /\ UNCHANGED <<loopVars, mounts, chanVars, mountVars, shout, metadata, timers, song,
                   clientVars, handlerVars, faultVars, posts>>
=============================================================================
