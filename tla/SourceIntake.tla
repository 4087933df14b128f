---------------------------- MODULE SourceIntake ----------------------------
(***************************************************************************)
(* How source clients get into the manager and feed it: sourceHandler of   *)
(* server/http.go and the reader goroutine ReadInto of server/icecast.go.  *)
(***************************************************************************)
EXTENDS ProxyState

\* sourceHandler: answer 200, hijack the connection, create the client and
\* evaluate ClientManager.Receiver.
SourceRequest(c) ==
    /\ pc # "crashed"
    /\ source[c] = "idle"
    /\ source' = [source EXCEPT ![c] = "loaded"]
    /\ conn' = [conn EXCEPT ![c] = "open"]
    /\ UNCHANGED <<loopVars, mounts, chanVars, mountVars, shout, metaVars, reader,
                   handlerVars, faultVars, posts>>

\* The send at the end of sourceHandler, which waits while Receiver is full.
SendClient(c) ==
    /\ pc # "crashed"
    /\ source[c] = "loaded"
    /\ Len(receiver) < ReceiverCap
    /\ receiver' = Append(receiver, c)
    /\ source' = [source EXCEPT ![c] = "queued"]
    /\ UNCHANGED <<loopVars, mounts, mountCollector, metaChan, dataChan, errChan,
                   mountVars, shout, metaVars, conn, reader, handlerVars, faultVars,
                   posts>>

\* ReadInto: one successful read.
ReadData(c) ==
    /\ pc # "crashed"
    /\ reader[c] = "reading"
    /\ conn[c] = "open"
    /\ Len(dataChan) < DataCap
    /\ dataChan' = Append(dataChan, c)
    /\ UNCHANGED <<loopVars, mounts, receiver, mountCollector, metaChan, errChan,
                   mountVars, shout, metaVars, clientVars, handlerVars, faultVars, posts>>

\* The send of an ErrPack, which waits while errChan is full; the mutant drops
\* the error instead.
PushOrDrop(c) == errChan' = IF Len(errChan) < ErrCap THEN Append(errChan, c) ELSE errChan
PushError(c) == Len(errChan) < ErrCap /\ errChan' = Append(errChan, c)

\* ReadInto: the read fails (the client left, it was silent for longer than
\* the deadline, or the connection was closed on this side).
ReadError(c) ==
    /\ pc # "crashed"
    /\ reader[c] = "reading"
    /\ PushError(c)
    /\ reader' = [reader EXCEPT ![c] = "done"]
    /\ UNCHANGED <<loopVars, mounts, receiver, mountCollector, metaChan, dataChan,
                   mountVars, shout, metaVars, source, conn, handlerVars, faultVars,
                   posts>>
=============================================================================
