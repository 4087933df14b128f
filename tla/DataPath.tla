------------------------------ MODULE DataPath ------------------------------
(***************************************************************************)
(* The dataChan case of ProcessClients and Mount.HandleData: how the audio *)
(* data of the live client reaches icecast through libshout.               *)
(***************************************************************************)
EXTENDS ProxyState

TakeData ==
    /\ pc = "select"
    /\ dataChan # <<>>
    /\ dataChan' = Tail(dataChan)

\* Data of an unknown mountpoint, or of a client that is not live.
DiscardData ==
    /\ TakeData
    /\ LET m == MountFor(Head(dataChan)) IN m # Nil => active[m] # Head(dataChan)
    /\ UNCHANGED <<loopVars, mounts, receiver, mountCollector, metaChan, errChan,
                   mountVars, shout, metaVars, clientVars, handlerVars, faultVars, posts>>

\* Mount.HandleData: reopen the connection to icecast if it is down, then
\* send.  Opening may fail; a failed send closes the connection, or panics
\* when libshout says that it was misused or that memory ran out.
HandleData ==
    LET m == MountFor(Head(dataChan)) IN
    /\ TakeData
    /\ m # Nil
    /\ active[m] = Head(dataChan)
    /\ \/ /\ shout' = [shout EXCEPT ![m] = "open"]
          /\ UNCHANGED <<pc, fatals>>
       \/ /\ shout' = [shout EXCEPT ![m] = "closed"]
          /\ UNCHANGED <<pc, fatals>>
       \/ /\ fatals < MaxFatal
          /\ fatals' = fatals + 1
          /\ shout' = [shout EXCEPT ![m] = "open"]
          /\ pc' = "panic"
    /\ UNCHANGED <<cur, mounts, receiver, mountCollector, metaChan, errChan, mountVars,
                   metaVars, clientVars, handlerVars, staleTimer, freedUse, posts>>
=============================================================================
