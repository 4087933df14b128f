-------------------------- MODULE SuccessionProofs --------------------------
(***************************************************************************)
(* Theorems about who goes live on a mount, about the registered mounts,   *)
(* and about the manager's books: the clients on a mount, their count,     *)
(* their connections and their readers.  They are built on the type        *)
(* invariant of ProxyProofs.                                               *)
(***************************************************************************)
EXTENDS ProxyProofs, FiniteSetTheorems

-----------------------------------------------------------------------------
(***************************************************************************)
(* Registered mounts.  A collection frees one instance and deletes an      *)
(* entry by name; both concern the same mount because a mount is only ever *)
(* registered under its own name.                                          *)
(***************************************************************************)
RegisteredUnderOwnName ==
    \A n \in MountNames : mounts[n] # Nil => MountOf[mounts[n]] = n

MountInv == RegisteredMountIsUsable /\ RegisteredUnderOwnName

\* Only four steps touch the registered mounts or a libshout instance.
LEMMA MountFrame ==
    ASSUME [Next]_vars
    PROVE  \/ UNCHANGED <<mounts, shout>>
           \/ AddFirstClient \/ CollectMount \/ HandleData \/ Restart
<1>1. CASE UNCHANGED vars
  BY <1>1 DEF vars
<1>2. CASE ManagerStep
  BY <1>2 DEF ManagerStep, SendStoredMetadata, AddWaitingClient, ConnectClient,
     ReceiveError, RemoveFromUnknownMount, RemoveWaitingClient, RemoveLastLiveClient,
     SwapLiveClient, SwapRacesAdmin, SendSwapMetadata, DisconnectClient,
     RegisterEmptyMount, AbortCollection, DiscardData, StoreMetadata, DiscardMetadata,
     SaveMetadata, DelayMetadata, SendMetadata, ForgetStoredMetadata
<1>3. CASE OtherStep
  BY <1>3 DEF OtherStep, SourceRequest, SendClient, ReadData, ReadError, PostMetadata,
     ResendMetadata, StaleTimerFires, AdminListBegin, AdminListEnd, Kick, KickOutOfRange
<1>4. QED
  BY <1>1, <1>2, <1>3 DEF Next

LEMMA MountNext ==
    ASSUME TypeInv, MountInv, [Next]_vars
    PROVE  MountInv'
<1> USE DEF MountInv, RegisteredMountIsUsable, RegisteredUnderOwnName
<1>1. CASE UNCHANGED <<mounts, shout>>
  BY <1>1
<1>2. CASE AddFirstClient
  <2>1. Head(receiver) \in Clients
    BY <1>2, ReceiveType DEF AddFirstClient, TakeClient, TypeInv, TypeOK
  <2>2. QED
    <3>1. /\ mounts' = [mounts EXCEPT ![MountOf[Head(receiver)]] = Head(receiver)]
          /\ shout' = [shout EXCEPT ![Head(receiver)] = "closed"]
      BY <1>2 DEF AddFirstClient
    <3>2. /\ mounts \in [MountNames -> Clients \cup {Nil}]
          /\ shout \in [Clients -> {"none", "closed", "open", "freed"}]
      BY DEF TypeInv, TypeOK
    <3>3. QED
      BY <2>1, <3>1, <3>2
<1>3. CASE CollectMount
  <2>1. Head(mountCollector) \in Clients
    BY <1>3, ReceiveType DEF CollectMount, TakeMount, TypeInv, TypeOK
  <2>2. CASE UNCHANGED <<mounts, shout>>
    BY <2>2
  <2>3. CASE /\ Deregister(Head(mountCollector))
             /\ shout' = [shout EXCEPT ![Head(mountCollector)] = "freed"]
    <3>1. /\ mounts \in [MountNames -> Clients \cup {Nil}]
          /\ shout \in [Clients -> {"none", "closed", "open", "freed"}]
      BY DEF TypeInv, TypeOK
    <3>2. QED
      BY <2>1, <2>3, <3>1, HashType DEF Deregister
  <2>4. QED
    BY <1>3, <2>2, <2>3 DEF CollectMount
<1>4. CASE HandleData
  <2>1. \E x \in {"open", "closed"} : shout' = [shout EXCEPT ![MountFor(Head(dataChan))] = x]
    BY <1>4 DEF HandleData
  <2>2. mounts' = mounts
    BY <1>4 DEF HandleData
  <2>3. QED
    BY <2>1, <2>2 DEF TypeInv, TypeOK
<1>5. CASE Restart
  BY <1>5 DEF Restart, NewMounts, NewErrors
<1>6. QED
  BY <1>1, <1>2, <1>3, <1>4, <1>5, MountFrame

\* The libshout instance of a registered mount is never a destroyed one,
\* however joins, departures, collections and restarts interleave: HandleData
\* and SendMetadata, which look a mount up in Manager.Mounts, are safe.
THEOREM RegisteredMountsAreUsable == Spec => []RegisteredMountIsUsable
<1>1. Init => MountInv
  BY DEF Init, MountInv, RegisteredMountIsUsable, RegisteredUnderOwnName
<1>2. QED
  BY <1>1, TypeInvariant, MountNext, PTL DEF Spec, MountInv

-----------------------------------------------------------------------------
(***************************************************************************)
(* Nobody is forgotten in line.                                            *)
(***************************************************************************)

\* A step that leaves the mount's clients, Active and ClientQueue alone, taken
\* when no client is about to be removed.
LEMMA LineFrameIdle ==
    ASSUME WaitingClientsAreQueued, pc \notin {"remove", "swap", "crashed"},
           UNCHANGED <<byID, active, clientQueue>>
    PROVE  WaitingClientsAreQueued'
  BY DEF WaitingClientsAreQueued

\* The same while the manager stays where it is, or the process ends.
LEMMA LineFrameOther ==
    ASSUME WaitingClientsAreQueued, pc' \in {pc, "crashed"},
           UNCHANGED <<byID, active, clientQueue, cur, mounts>>
    PROVE  WaitingClientsAreQueued'
  BY DEF WaitingClientsAreQueued, MountFor

\* Taking the leaving client off its mount keeps the others in line.
LEMMA LineDetach ==
    ASSUME TypeInv, WaitingClientsAreQueued, pc \in {"remove", "swap"},
           MountFor(cur) # Nil, Detach(MountFor(cur), cur),
           UNCHANGED <<active, clientQueue>>
    PROVE  WaitingClientsAreQueued'
<1>1. cur \in Clients /\ MountFor(cur) \in Clients
  BY HashType DEF TypeInv, TypeOK, LoopOK, MountFor
<1>2. QED
  BY <1>1 DEF WaitingClientsAreQueued, Detach, TypeInv, TypeOK

LEMMA LineAddFirst ==
    ASSUME TypeInv, WaitingClientsAreQueued, AddFirstClient
    PROVE  WaitingClientsAreQueued'
<1>1. Head(receiver) \in Clients /\ pc = "select"
  BY ReceiveType DEF AddFirstClient, TakeClient, TypeInv, TypeOK
<1>2. /\ byID' = [byID EXCEPT ![Head(receiver)] = {Head(receiver)}]
      /\ active' = [active EXCEPT ![Head(receiver)] = Head(receiver)]
      /\ clientQueue' = clientQueue
  BY DEF AddFirstClient
<1>3. QED
  BY <1>1, <1>2 DEF WaitingClientsAreQueued, TypeInv, TypeOK

LEMMA LineAddWaiting ==
    ASSUME TypeInv, WaitingClientsAreQueued, AddWaitingClient
    PROVE  WaitingClientsAreQueued'
<1> DEFINE c == Head(receiver)
           m == MountFor(c)
<1>1. c \in Clients /\ m \in Clients /\ pc = "select"
  BY ReceiveType, HashType DEF AddWaitingClient, TakeClient, TypeInv, TypeOK, MountFor
<1>2. /\ byID' = [byID EXCEPT ![m] = @ \cup {c}]
      /\ active' = active /\ mounts' = mounts /\ cur' = c
      /\ \/ clientQueue' = [clientQueue EXCEPT ![m] = Append(@, c)]
         \/ clientQueue' = clientQueue /\ pc' = "remove"
  BY DEF AddWaitingClient, TakeClient
<1>3. /\ clientQueue \in [Clients -> Seq(Clients)]
      /\ byID \in [Clients -> SUBSET Clients]
  BY DEF TypeInv, TypeOK
<1>4. MountFor(cur)' = m
  BY <1>2 DEF MountFor
<1>5. \A k \in Clients : \A d \in byID[k] \ {active[k]} : d \in ToSet(clientQueue[k])
  BY <1>1 DEF WaitingClientsAreQueued
<1>6. SUFFICES ASSUME NEW k \in Clients, NEW d \in byID'[k] \ {active'[k]}
               PROVE  \/ d \in ToSet(clientQueue'[k])
                      \/ d = c /\ k = m /\ pc' = "remove"
  BY <1>2, <1>4 DEF WaitingClientsAreQueued, MountFor
<1>7. CASE clientQueue' = clientQueue /\ pc' = "remove"
  BY <1>1, <1>2, <1>3, <1>5, <1>7
<1>8. CASE clientQueue' = [clientQueue EXCEPT ![m] = Append(@, c)]
  <2>1. CASE k # m
    BY <1>1, <1>2, <1>3, <1>5, <1>8, <2>1
  <2>2. CASE k = m
    <3>1. d = c \/ d \in ToSet(clientQueue[m])
      BY <1>1, <1>2, <1>3, <1>5, <2>2
    <3>2. clientQueue'[m] = Append(clientQueue[m], c) /\ clientQueue[m] \in Seq(Clients)
      BY <1>1, <1>3, <1>8
    <3>3. QED
      BY <1>1, <2>2, <3>1, <3>2, AppendProperties, LenProperties DEF ToSet
  <2>3. QED
    BY <2>1, <2>2
<1>9. QED
  BY <1>2, <1>7, <1>8

\* NextLiveClient found nobody: the leaving client was the only one.
LEMMA LineRemoveLast ==
    ASSUME TypeInv, WaitingClientsAreQueued, RemoveLastLiveClient
    PROVE  WaitingClientsAreQueued'
<1> DEFINE m == MountFor(cur)
<1>1. cur \in Clients /\ m \in Clients /\ pc = "remove" /\ active[m] = cur
  BY HashType DEF RemoveLastLiveClient, IsLive, TypeInv, TypeOK, LoopOK, MountFor
<1>2. /\ byID' = [byID EXCEPT ![m] = @ \ {cur}]
      /\ clientQueue' = [clientQueue EXCEPT ![m] = <<>>]
      /\ active' = active
  BY DEF RemoveLastLiveClient, Detach
<1>3. byID[m] \ {cur} = {}
  <2>1. \A d \in byID[m] : d \notin ToSet(clientQueue[m])
    BY DEF RemoveLastLiveClient, NobodyInLine, Successors, ToSet
  <2>2. QED
    BY <1>1, <2>1 DEF WaitingClientsAreQueued
<1>4. QED
  BY <1>1, <1>2, <1>3 DEF WaitingClientsAreQueued, TypeInv, TypeOK

\* NextLiveClient drops only entries of clients that are gone, and stops at
\* the first one that is not.
LEMMA LineSwap ==
    ASSUME TypeInv, WaitingClientsAreQueued, SwapLiveClient
    PROVE  WaitingClientsAreQueued'
<1> DEFINE m == MountFor(cur)
           q == clientQueue[m]
<1>1. /\ cur \in Clients /\ m \in Clients /\ pc = "remove" /\ active[m] = cur
      /\ byID' = byID /\ cur' = cur /\ mounts' = mounts /\ pc' = "swap"
  BY HashType DEF SwapLiveClient, IsLive, TypeInv, TypeOK, LoopOK, MountFor
<1>2. PICK i \in NextInLine(m) :
         /\ clientQueue' = [clientQueue EXCEPT ![m] = QueueAfter(m, i)]
         /\ active' = [active EXCEPT ![m] = q[i]]
  BY DEF SwapLiveClient
<1>3. /\ clientQueue \in [Clients -> Seq(Clients)] /\ q \in Seq(Clients)
      /\ active \in [Clients -> Clients \cup {Nil}]
  BY <1>1 DEF TypeInv, TypeOK
<1>4. MountFor(cur)' = m
  BY <1>1 DEF MountFor
<1>5. \A k \in Clients : \A d \in byID[k] \ {active[k]} :
         d \in ToSet(clientQueue[k]) \/ (d = cur /\ k = m)
  BY <1>1 DEF WaitingClientsAreQueued
<1>6. SUFFICES ASSUME NEW k \in Clients, NEW d \in byID'[k] \ {active'[k]},
                      ~(d = cur /\ k = m)
               PROVE  d \in ToSet(clientQueue'[k])
  BY <1>1, <1>4 DEF WaitingClientsAreQueued, MountFor
<1>7. CASE k # m
  BY <1>1, <1>2, <1>3, <1>5, <1>6, <1>7
<1>8. CASE k = m
  <2>1. d \in byID[m] /\ d # q[i] /\ d \in ToSet(q)
    BY <1>1, <1>2, <1>3, <1>5, <1>6, <1>8
  <2>2. PICK j \in DOMAIN q : q[j] = d
    BY <2>1 DEF ToSet
  <2>3. i \in 1..Len(q) /\ j \in 1..Len(q) /\ i < j
    <3>1. DOMAIN q = 1..Len(q) /\ Len(q) \in Nat
      BY <1>3, LenProperties
    <3>2. j \in Successors(m)
      BY <2>1, <2>2 DEF Successors
    <3>3. i \in Successors(m) /\ i <= j
      BY <3>2 DEF NextInLine
    <3>4. i \in DOMAIN q
      BY <3>3 DEF Successors
    <3>5. i # j
      BY <2>1, <2>2
    <3>6. QED
      BY <3>1, <3>3, <3>4, <3>5, <2>2
  <2>4. /\ QueueAfter(m, i) \in Seq(Clients)
        /\ Len(QueueAfter(m, i)) = Len(q) - i
        /\ QueueAfter(m, i)[j - i] = q[j]
    <3>1. Len(q) \in Nat
      BY <1>3, LenProperties
    <3>a. i \in Int /\ j \in Int /\ 1 <= i /\ i < j /\ j <= Len(q)
      BY <2>3, <3>1
    <3>2. /\ i + 1 \in Int /\ Len(q) \in Int /\ i + 1 <= Len(q)
          /\ j - i \in 1..(Len(q) - (i + 1) + 1)
          /\ (i + 1) + (j - i) - 1 = j
          /\ Len(q) - (i + 1) + 1 = Len(q) - i
      BY <3>1, <3>a
    <3>3. \A x \in (i + 1)..Len(q) : q[x] \in Clients
      BY <1>3, <2>3, <3>1, ElementOfSeq
    <3>4. QED
      BY <3>2, <3>3, SubSeqProperties DEF QueueAfter
  <2>5. j - i \in DOMAIN QueueAfter(m, i)
    BY <1>3, <2>3, <2>4, LenProperties
  <2>6. clientQueue'[m] = QueueAfter(m, i)
    BY <1>1, <1>2, <1>3
  <2>7. QED
    BY <1>8, <2>2, <2>4, <2>5, <2>6 DEF ToSet
<1>9. QED
  BY <1>7, <1>8

LEMMA LineNext ==
    ASSUME TypeInv, WaitingClientsAreQueued, [Next]_vars
    PROVE  WaitingClientsAreQueued'
<1>1. CASE UNCHANGED vars \/ OtherStep
  <2>1. UNCHANGED <<byID, active, clientQueue, cur, mounts>> /\ pc' \in {pc, "crashed"}
    BY <1>1 DEF vars, OtherStep, SourceRequest, SendClient, ReadData, ReadError,
       PostMetadata, ResendMetadata, StaleTimerFires, AdminListBegin, AdminListEnd, Kick,
       KickOutOfRange, loopVars, mountVars
  <2>2. QED
    BY <2>1, LineFrameOther
<1>2. CASE AddFirstClient \/ AddWaitingClient
  BY <1>2, LineAddFirst, LineAddWaiting
<1>3. CASE SendStoredMetadata \/ ConnectClient \/ ReceiveError \/ DisconnectClient
              \/ RegisterEmptyMount \/ Restart
  <2>1. UNCHANGED <<byID, active, clientQueue>> /\ pc \notin {"remove", "swap", "crashed"}
    BY <1>3 DEF SendStoredMetadata, ConnectClient, ReceiveError, DisconnectClient,
       RegisterEmptyMount, Restart, NewMounts, NewErrors, mountVars
  <2>2. QED
    BY <2>1, LineFrameIdle
<1>4. CASE AbortCollection \/ CollectMount \/ DiscardData \/ HandleData \/ StoreMetadata
              \/ DiscardMetadata \/ SaveMetadata \/ DelayMetadata \/ SendMetadata
              \/ ForgetStoredMetadata
  <2>1. UNCHANGED <<byID, active, clientQueue>> /\ pc = "select"
    BY <1>4 DEF AbortCollection, CollectMount, TakeMount, DiscardData, HandleData,
       TakeData, StoreMetadata, DiscardMetadata, SaveMetadata, DelayMetadata,
       SendMetadata, TakeMeta, ForgetStoredMetadata, mountVars
  <2>2. QED
    BY <2>1, LineFrameIdle
<1>5. CASE RemoveFromUnknownMount
  <2>1. UNCHANGED <<byID, active, clientQueue>> /\ MountFor(cur) = Nil
    BY <1>5 DEF RemoveFromUnknownMount, mountVars
  <2>2. QED
    BY <2>1, ConstantsAssumption DEF WaitingClientsAreQueued
<1>6. CASE RemoveWaitingClient \/ SendSwapMetadata
  <2>1. /\ Detach(MountFor(cur), cur) /\ MountFor(cur) # Nil
        /\ UNCHANGED <<active, clientQueue>> /\ pc \in {"remove", "swap"}
    BY <1>6 DEF RemoveWaitingClient, SendSwapMetadata, TypeInv, LoopOK
  <2>2. QED
    BY <2>1, LineDetach
<1>7. CASE RemoveLastLiveClient \/ SwapLiveClient
  BY <1>7, LineRemoveLast, LineSwap
<1>8. CASE SwapRacesAdmin
  BY <1>8, LineFrameOther DEF SwapRacesAdmin, mountVars
<1>9. QED
  BY <1>1, <1>2, <1>3, <1>4, <1>5, <1>6, <1>7, <1>8 DEF Next, ManagerStep

\* Whatever order clients join and leave in, every connected client of a mount
\* that is not live is still in its ClientQueue, unless it is the one that the
\* manager is removing: NextLiveClient never skips or forgets a client.
THEOREM NobodyIsForgotten == Spec => []WaitingClientsAreQueued
<1>1. Init => WaitingClientsAreQueued
  BY DEF Init, WaitingClientsAreQueued
<1>2. QED
  BY <1>1, TypeInvariant, LineNext, PTL DEF Spec

-----------------------------------------------------------------------------
(***************************************************************************)
(* One place at a time.  A client goes through Receiver once and belongs   *)
(* to the manager from then on; its reader runs once and reports one error *)
(* at its end.  This is what keeps a client from being in line twice, or   *)
(* in line and live at once.                                               *)
(***************************************************************************)
Adopted(c) == source[c] = "adopted"

ReceiverHoldsNew == IsInjective(receiver) /\ \A c \in ToSet(receiver) : source[c] = "queued"
QueueHoldsAdopted ==
    \A m \in Clients : /\ IsInjective(clientQueue[m])
                       /\ \A c \in ToSet(clientQueue[m]) : Adopted(c)
ActiveIsAdopted == \A m \in Clients : active[m] # Nil => Adopted(m) /\ Adopted(active[m])
ConnectedIsAdopted == \A m \in Clients : \A c \in byID[m] : Adopted(c)
ReadIsAdopted == \A c \in Clients : reader[c] # "none" => Adopted(c)
ErrorEndsReader == IsInjective(errChan) /\ \A c \in ToSet(errChan) : reader[c] = "done"

Busy == {"stored", "connect", "remove", "swap", "disconnect", "collect"}

\* What the handler that is under way relies on.
HandledClient ==
    /\ pc \in Busy => Adopted(cur)
    /\ pc \in {"stored", "connect"} => reader[cur] = "none"
    /\ pc \in {"remove", "swap"} => reader[cur] # "reading" /\ cur \notin ToSet(errChan)
    /\ pc = "remove" => reader[cur] = "done" \/ \A m \in Clients : active[m] # cur
    /\ pc = "select" => cur = Nil

PlaceInv ==
    /\ ReceiverHoldsNew /\ QueueHoldsAdopted /\ ActiveIsAdopted /\ ConnectedIsAdopted
    /\ ReadIsAdopted /\ ErrorEndsReader /\ HandledClient
    /\ LiveClientNotInLine

placeVars == <<receiver, source, clientQueue, active, byID, reader, errChan>>

LEMMA PlaceFrame ==
    ASSUME PlaceInv, UNCHANGED <<placeVars, cur>>, pc' \in {pc, "panic", "crashed"}
    PROVE  PlaceInv'
  BY DEF PlaceInv, ReceiverHoldsNew, QueueHoldsAdopted, ActiveIsAdopted, ConnectedIsAdopted,
     ReadIsAdopted, ErrorEndsReader, HandledClient, LiveClientNotInLine, Adopted, Busy,
     placeVars

\* The steps of sourceHandler and of a reader.
LEMMA PlaceSourceRequest ==
    ASSUME TypeInv, PlaceInv, NEW c \in Clients, SourceRequest(c)
    PROVE  PlaceInv'
<1>1. /\ source[c] = "idle" /\ source' = [source EXCEPT ![c] = "loaded"]
      /\ UNCHANGED <<pc, cur, receiver, clientQueue, active, byID, reader, errChan>>
  BY DEF SourceRequest, loopVars, chanVars, mountVars
<1>2. source \in [Clients -> {"idle", "loaded", "queued", "adopted", "stranded"}]
  BY DEF TypeInv, TypeOK
<1>3. /\ \A d \in Clients : source'[d] = source[d] \/ d = c
      /\ \A d : source[d] \in {"queued", "adopted"} => source'[d] = source[d]
  BY <1>1, <1>2
<1>4. QED
  BY <1>1, <1>3 DEF PlaceInv, ReceiverHoldsNew, QueueHoldsAdopted, ActiveIsAdopted,
     ConnectedIsAdopted, ReadIsAdopted, ErrorEndsReader, HandledClient, LiveClientNotInLine,
     Adopted

LEMMA PlaceSendClient ==
    ASSUME TypeInv, PlaceInv, NEW c \in Clients, SendClient(c)
    PROVE  PlaceInv'
<1>1. /\ source[c] = "loaded" /\ source' = [source EXCEPT ![c] = "queued"]
      /\ receiver' = Append(receiver, c)
      /\ UNCHANGED <<pc, cur, clientQueue, active, byID, reader, errChan>>
  BY DEF SendClient, loopVars, mountVars
<1>2. /\ source \in [Clients -> {"idle", "loaded", "queued", "adopted", "stranded"}]
      /\ receiver \in Seq(Clients)
  BY DEF TypeInv, TypeOK
<1>3. /\ \A d : source[d] \in {"queued", "adopted"} => source'[d] = source[d]
      /\ source'[c] = "queued"
  BY <1>1, <1>2
<1>4. ReceiverHoldsNew'
  <2>1. c \notin ToSet(receiver)
    BY <1>1 DEF PlaceInv, ReceiverHoldsNew
  <2>2. ToSet(receiver') = ToSet(receiver) \cup {c} /\ IsInjective(receiver')
    BY <1>1, <1>2, <2>1, SendMembers DEF PlaceInv, ReceiverHoldsNew
  <2>3. QED
    BY <1>3, <2>2 DEF PlaceInv, ReceiverHoldsNew
<1>5. QED
  BY <1>1, <1>3, <1>4 DEF PlaceInv, QueueHoldsAdopted, ActiveIsAdopted, ConnectedIsAdopted,
     ReadIsAdopted, ErrorEndsReader, HandledClient, LiveClientNotInLine, Adopted

LEMMA PlaceReadError ==
    ASSUME TypeInv, PlaceInv, NEW c \in Clients, ReadError(c)
    PROVE  PlaceInv'
<1>1. /\ reader[c] = "reading" /\ reader' = [reader EXCEPT ![c] = "done"]
      /\ errChan' = Append(errChan, c)
      /\ UNCHANGED <<pc, cur, clientQueue, active, byID, source, receiver>>
  BY DEF ReadError, PushError, loopVars, mountVars
<1>2. reader \in [Clients -> {"none", "reading", "done"}] /\ errChan \in Seq(Clients)
  BY DEF TypeInv, TypeOK
<1>3. c \notin ToSet(errChan)
  BY <1>1 DEF PlaceInv, ErrorEndsReader
<1>4. ToSet(errChan') = ToSet(errChan) \cup {c} /\ IsInjective(errChan')
  BY <1>1, <1>2, <1>3, SendMembers DEF PlaceInv, ErrorEndsReader
<1>5. reader'[c] = "done" /\ \A d : d # c => reader'[d] = reader[d]
  BY <1>1, <1>2
<1>6. ErrorEndsReader' /\ ReadIsAdopted'
  BY <1>1, <1>4, <1>5 DEF PlaceInv, ErrorEndsReader, ReadIsAdopted, Adopted
<1>7. HandledClient'
  BY <1>1, <1>4, <1>5 DEF PlaceInv, HandledClient, Adopted
<1>8. QED
  BY <1>1, <1>6, <1>7 DEF PlaceInv, ReceiverHoldsNew, QueueHoldsAdopted, ActiveIsAdopted,
     ConnectedIsAdopted, LiveClientNotInLine, Adopted

\* What taking a client off Receiver establishes.
LEMMA TakenClient ==
    ASSUME TypeInv, PlaceInv, TakeClient
    PROVE  LET c == Head(receiver) IN
           /\ c \in Clients /\ source[c] = "queued" /\ reader[c] = "none"
           /\ c \notin ToSet(errChan) /\ cur' = c /\ source'[c] = "adopted"
           /\ \A m \in Clients : active[m] # c /\ c \notin byID[m] /\ c \notin ToSet(clientQueue[m])
           /\ active[c] = Nil
           /\ \A d : source[d] = "adopted" => source'[d] = "adopted"
           /\ ReceiverHoldsNew'
<1> DEFINE c == Head(receiver)
<1>1. /\ receiver # <<>> /\ receiver' = Tail(receiver) /\ cur' = c
      /\ source' = [source EXCEPT ![c] = "adopted"]
  BY DEF TakeClient
<1>2. /\ source \in [Clients -> {"idle", "loaded", "queued", "adopted", "stranded"}]
      /\ receiver \in Seq(Clients)
  BY DEF TypeInv, TypeOK
<1>3. c \in Clients /\ c \in ToSet(receiver) /\ ToSet(receiver') \subseteq ToSet(receiver)
  BY <1>1, <1>2, ReceiveMembers, ReceiveType
<1>4. IsInjective(receiver') /\ c \notin ToSet(receiver')
  BY <1>1, <1>2, ReceiveMembers DEF PlaceInv, ReceiverHoldsNew
<1>5. source[c] = "queued" /\ ~Adopted(c)
  BY <1>3 DEF PlaceInv, ReceiverHoldsNew, Adopted
<1>6. /\ \A d : d # c => source'[d] = source[d]
      /\ source'[c] = "adopted"
  BY <1>1, <1>2, <1>3
<1>7. ReceiverHoldsNew'
  BY <1>3, <1>4, <1>6 DEF PlaceInv, ReceiverHoldsNew
<1>8. reader[c] = "none" /\ c \notin ToSet(errChan)
  BY <1>3, <1>5 DEF PlaceInv, ReadIsAdopted, ErrorEndsReader
<1>9. /\ \A m \in Clients : active[m] # c /\ c \notin byID[m] /\ c \notin ToSet(clientQueue[m])
      /\ active[c] = Nil
  BY <1>3, <1>5, ConstantsAssumption DEF PlaceInv, ActiveIsAdopted, ConnectedIsAdopted, QueueHoldsAdopted
<1>10. QED
  BY <1>1, <1>3, <1>5, <1>6, <1>7, <1>8, <1>9 DEF Adopted

LEMMA PlaceAddFirst ==
    ASSUME TypeInv, PlaceInv, AddFirstClient
    PROVE  PlaceInv'
<1> DEFINE c == Head(receiver)
<1>1. /\ TakeClient
      /\ byID' = [byID EXCEPT ![c] = {c}]
      /\ active' = [active EXCEPT ![c] = c]
      /\ pc' \in {"stored", "connect"}
      /\ UNCHANGED <<clientQueue, reader, errChan>>
  BY DEF AddFirstClient
<1>2. /\ c \in Clients /\ reader[c] = "none" /\ cur' = c /\ source'[c] = "adopted" /\ active[c] = Nil
      /\ \A m \in Clients : c \notin ToSet(clientQueue[m])
      /\ \A d : source[d] = "adopted" => source'[d] = "adopted"
      /\ ReceiverHoldsNew'
  BY <1>1, TakenClient
<1>3. byID \in [Clients -> SUBSET Clients] /\ active \in [Clients -> Clients \cup {Nil}]
  BY DEF TypeInv, TypeOK
<1>4. QueueHoldsAdopted' /\ ReadIsAdopted' /\ ErrorEndsReader'
  BY <1>1, <1>2 DEF PlaceInv, QueueHoldsAdopted, ReadIsAdopted, ErrorEndsReader, Adopted
<1>5. ActiveIsAdopted' /\ ConnectedIsAdopted' /\ LiveClientNotInLine'
  BY <1>1, <1>2, <1>3 DEF PlaceInv, ActiveIsAdopted, ConnectedIsAdopted, LiveClientNotInLine,
     Adopted
<1>6. HandledClient'
  BY <1>1, <1>2 DEF HandledClient, Busy, Adopted
<1>7. QED
  BY <1>2, <1>4, <1>5, <1>6 DEF PlaceInv

LEMMA PlaceAddWaiting ==
    ASSUME TypeInv, PlaceInv, AddWaitingClient
    PROVE  PlaceInv'
<1> DEFINE c == Head(receiver)
           m == MountFor(c)
<1>1. /\ TakeClient /\ m # Nil
      /\ byID' = [byID EXCEPT ![m] = @ \cup {c}]
      /\ \/ clientQueue' = [clientQueue EXCEPT ![m] = Append(@, c)] /\ pc' = "connect"
         \/ clientQueue' = clientQueue /\ pc' = "remove"
      /\ UNCHANGED <<active, reader, errChan>>
  BY DEF AddWaitingClient
<1>2. /\ c \in Clients /\ reader[c] = "none" /\ cur' = c /\ source'[c] = "adopted"
      /\ c \notin ToSet(errChan)
      /\ \A k \in Clients : active[k] # c /\ c \notin ToSet(clientQueue[k])
      /\ \A d : source[d] = "adopted" => source'[d] = "adopted"
      /\ ReceiverHoldsNew'
  BY <1>1, TakenClient
<1>3. m \in Clients
  BY <1>1, <1>2, HashType DEF MountFor, TypeInv, TypeOK
<1>4. /\ byID \in [Clients -> SUBSET Clients] /\ active \in [Clients -> Clients \cup {Nil}]
      /\ clientQueue \in [Clients -> Seq(Clients)]
  BY DEF TypeInv, TypeOK
<1>5. ActiveIsAdopted' /\ ReadIsAdopted' /\ ErrorEndsReader'
  BY <1>1, <1>2 DEF PlaceInv, ActiveIsAdopted, ReadIsAdopted, ErrorEndsReader, Adopted
<1>6. ConnectedIsAdopted'
  BY <1>1, <1>2, <1>3, <1>4 DEF PlaceInv, ConnectedIsAdopted, Adopted
<1>7. HandledClient'
  BY <1>1, <1>2 DEF HandledClient, Busy, Adopted
<1>8. QueueHoldsAdopted' /\ LiveClientNotInLine'
  <2>1. CASE clientQueue' = clientQueue
    BY <1>1, <1>2, <2>1 DEF PlaceInv, QueueHoldsAdopted, LiveClientNotInLine, Adopted
  <2>2. CASE clientQueue' = [clientQueue EXCEPT ![m] = Append(@, c)]
    <3>1. clientQueue'[m] = Append(clientQueue[m], c) /\ clientQueue[m] \in Seq(Clients)
      BY <1>3, <1>4, <2>2
    <3>2. /\ ToSet(clientQueue'[m]) = ToSet(clientQueue[m]) \cup {c}
          /\ IsInjective(clientQueue'[m])
      BY <1>2, <1>3, <3>1, SendMembers DEF PlaceInv, QueueHoldsAdopted, Adopted
    <3>3. \A k \in Clients : k # m => clientQueue'[k] = clientQueue[k]
      BY <1>4, <2>2
    <3>4. QueueHoldsAdopted'
      BY <1>2, <1>3, <3>2, <3>3 DEF PlaceInv, QueueHoldsAdopted, Adopted
    <3>5. LiveClientNotInLine'
      BY <1>1, <1>2, <1>3, <3>2, <3>3 DEF PlaceInv, LiveClientNotInLine
    <3>6. QED
      BY <3>4, <3>5
  <2>3. QED
    BY <1>1, <2>1, <2>2
<1>9. QED
  BY <1>2, <1>5, <1>6, <1>7, <1>8 DEF PlaceInv

LEMMA PlaceSendStored ==
    ASSUME PlaceInv, SendStoredMetadata
    PROVE  PlaceInv'
<1>1. pc = "stored" /\ pc' = "connect" /\ UNCHANGED <<placeVars, cur>>
  BY DEF SendStoredMetadata, placeVars, mountVars, clientVars
<1>2. QED
  BY <1>1 DEF PlaceInv, ReceiverHoldsNew, QueueHoldsAdopted, ActiveIsAdopted,
     ConnectedIsAdopted, ReadIsAdopted, ErrorEndsReader, HandledClient, LiveClientNotInLine,
     Adopted, Busy, placeVars

LEMMA PlaceConnect ==
    ASSUME TypeInv, PlaceInv, ConnectClient
    PROVE  PlaceInv'
<1>1. /\ pc = "connect" /\ pc' = "select" /\ cur' = Nil
      /\ reader' = [reader EXCEPT ![cur] = "reading"]
      /\ UNCHANGED <<receiver, source, clientQueue, active, byID, errChan>>
  BY DEF ConnectClient, chanVars, mountVars
<1>2. cur \in Clients /\ reader \in [Clients -> {"none", "reading", "done"}]
  BY <1>1 DEF TypeInv, TypeOK, LoopOK
<1>3. reader[cur] = "none" /\ Adopted(cur)
  BY <1>1 DEF PlaceInv, HandledClient, Busy
<1>4. cur \notin ToSet(errChan)
  BY <1>3 DEF PlaceInv, ErrorEndsReader
<1>5. \A d : d # cur => reader'[d] = reader[d]
  BY <1>1, <1>2
<1>6. ErrorEndsReader' /\ ReadIsAdopted' /\ HandledClient'
  BY <1>1, <1>3, <1>4, <1>5 DEF PlaceInv, ErrorEndsReader, ReadIsAdopted, HandledClient,
     Adopted, Busy
<1>7. QED
  BY <1>1, <1>6 DEF PlaceInv, ReceiverHoldsNew, QueueHoldsAdopted, ActiveIsAdopted,
     ConnectedIsAdopted, LiveClientNotInLine, Adopted

LEMMA PlaceReceiveError ==
    ASSUME TypeInv, PlaceInv, ReceiveError
    PROVE  PlaceInv'
<1>1. /\ errChan # <<>> /\ errChan' = Tail(errChan) /\ cur' = Head(errChan) /\ pc' = "remove"
      /\ UNCHANGED <<receiver, source, clientQueue, active, byID, reader>>
  BY DEF ReceiveError, mountVars, clientVars
<1>2. errChan \in Seq(Clients) /\ Head(errChan) \in Clients
  BY <1>1, ReceiveType DEF TypeInv, TypeOK
<1>3. /\ Head(errChan) \in ToSet(errChan) /\ ToSet(errChan') \subseteq ToSet(errChan)
      /\ IsInjective(errChan') /\ Head(errChan) \notin ToSet(errChan')
  BY <1>1, <1>2, ReceiveMembers DEF PlaceInv, ErrorEndsReader
<1>4. reader[Head(errChan)] = "done"
  BY <1>3 DEF PlaceInv, ErrorEndsReader
<1>5. ErrorEndsReader' /\ HandledClient'
  BY <1>1, <1>2, <1>3, <1>4 DEF PlaceInv, ErrorEndsReader, ReadIsAdopted, HandledClient,
     Adopted, Busy
<1>6. QED
  BY <1>1, <1>5 DEF PlaceInv, ReceiverHoldsNew, QueueHoldsAdopted, ActiveIsAdopted,
     ReadIsAdopted, ConnectedIsAdopted, LiveClientNotInLine, Adopted

\* Removing a client from its mount, whatever else the handler does to the line.
LEMMA PlaceDetach ==
    ASSUME TypeInv, PlaceInv, pc \in {"remove", "swap"}, NEW m, Detach(m, cur), cur' = cur,
           UNCHANGED <<receiver, source, active, reader, errChan>>,
           QueueHoldsAdopted', LiveClientNotInLine'
    PROVE  PlaceInv'
<1>1. pc' = "disconnect" /\ \A k \in Clients : byID'[k] \subseteq byID[k]
  BY DEF Detach, TypeInv, TypeOK
<1>2. HandledClient'
  BY <1>1 DEF PlaceInv, HandledClient, Busy, Adopted
<1>3. QED
  BY <1>1, <1>2 DEF PlaceInv, ReceiverHoldsNew, ActiveIsAdopted, ReadIsAdopted,
     ErrorEndsReader, ConnectedIsAdopted, Adopted

LEMMA PlaceRemove ==
    ASSUME TypeInv, PlaceInv,
           RemoveWaitingClient \/ SendSwapMetadata \/ RemoveLastLiveClient
    PROVE  PlaceInv'
<1> DEFINE m == MountFor(cur)
<1>1. /\ pc \in {"remove", "swap"} /\ Detach(m, cur) /\ cur' = cur
      /\ UNCHANGED <<receiver, source, active, reader, errChan>>
      /\ \/ clientQueue' = clientQueue
         \/ clientQueue' = [clientQueue EXCEPT ![m] = <<>>]
  BY DEF RemoveWaitingClient, SendSwapMetadata, RemoveLastLiveClient, chanVars
<1>2. \A k \in Clients : clientQueue'[k] = clientQueue[k] \/ clientQueue'[k] = <<>>
  BY <1>1 DEF TypeInv, TypeOK
<1>3. ToSet(<<>>) = {} /\ IsInjective(<<>>)
  BY NoMembers DEF IsInjective
<1>4. QueueHoldsAdopted' /\ LiveClientNotInLine'
  BY <1>1, <1>2, <1>3 DEF PlaceInv, QueueHoldsAdopted, LiveClientNotInLine, Adopted
<1>5. QED
  BY <1>1, <1>4, PlaceDetach

\* What NextLiveClient leaves in the queue, and where it takes the next live
\* client from.
LEMMA QueueAfterNext ==
    ASSUME TypeInv, NEW m \in Clients, NEW i \in NextInLine(m), IsInjective(clientQueue[m])
    PROVE  /\ QueueAfter(m, i) \in Seq(Clients)
           /\ clientQueue[m][i] \in ToSet(clientQueue[m])
           /\ clientQueue[m][i] \in byID[m]
           /\ ToSet(QueueAfter(m, i)) \subseteq ToSet(clientQueue[m])
           /\ clientQueue[m][i] \notin ToSet(QueueAfter(m, i))
           /\ IsInjective(QueueAfter(m, i))
<1> DEFINE q == clientQueue[m]
           t == QueueAfter(m, i)
<1>1. q \in Seq(Clients) /\ DOMAIN q = 1..Len(q) /\ Len(q) \in Nat
  BY LenProperties DEF TypeInv, TypeOK
<1>2. i \in 1..Len(q) /\ q[i] \in byID[m]
  BY <1>1 DEF NextInLine, Successors
<1>3. /\ t \in Seq(Clients) /\ DOMAIN t = 1..(Len(q) - i)
      /\ \A k \in 1..(Len(q) - i) : t[k] = q[i + k]
  BY <1>1, <1>2, SuffixElements DEF QueueAfter
<1>4. \A k \in 1..(Len(q) - i) : i + k \in 1..Len(q) /\ i + k # i
  BY <1>1, <1>2
<1>5. ToSet(t) \subseteq ToSet(q) /\ q[i] \in ToSet(q)
  BY <1>1, <1>2, <1>3, <1>4 DEF ToSet
<1>6. \A a, b \in 1..Len(q) : q[a] = q[b] => a = b
  BY <1>1 DEF IsInjective
<1>7. q[i] \notin ToSet(t)
  <2>1. SUFFICES ASSUME NEW k \in 1..(Len(q) - i) PROVE t[k] # q[i]
    BY <1>3 DEF ToSet
  <2>2. t[k] = q[i + k] /\ i + k \in 1..Len(q) /\ i + k # i
    BY <1>3, <1>4
  <2>3. QED
    BY <1>2, <1>6, <2>2
<1>8. IsInjective(t)
  <2>1. SUFFICES ASSUME NEW a \in 1..(Len(q) - i), NEW b \in 1..(Len(q) - i), t[a] = t[b]
                 PROVE  a = b
    BY <1>3 DEF IsInjective
  <2>2. q[i + a] = q[i + b] /\ i + a \in 1..Len(q) /\ i + b \in 1..Len(q)
    BY <1>3, <1>4, <2>1
  <2>3. i + a = i + b
    BY <1>6, <2>2
  <2>4. QED
    BY <1>1, <1>2, <2>3
<1>9. QED
  BY <1>2, <1>3, <1>5, <1>7, <1>8

LEMMA PlaceSwap ==
    ASSUME TypeInv, PlaceInv, SwapLiveClient
    PROVE  PlaceInv'
<1> DEFINE m == MountFor(cur)
           q == clientQueue[m]
<1>1. /\ cur \in Clients /\ m \in Clients /\ pc = "remove" /\ pc' = "swap"
      /\ UNCHANGED <<cur, receiver, source, byID, reader, errChan>>
  BY HashType DEF SwapLiveClient, TypeInv, TypeOK, LoopOK, MountFor, chanVars, clientVars
<1>2. PICK i \in NextInLine(m) :
         /\ clientQueue' = [clientQueue EXCEPT ![m] = QueueAfter(m, i)]
         /\ active' = [active EXCEPT ![m] = q[i]]
  BY DEF SwapLiveClient
<1>3. /\ clientQueue \in [Clients -> Seq(Clients)]
      /\ active \in [Clients -> Clients \cup {Nil}]
  BY DEF TypeInv, TypeOK
<1>4. IsInjective(q)
  BY <1>1 DEF PlaceInv, QueueHoldsAdopted
<1>5. /\ q[i] \in ToSet(q) /\ ToSet(QueueAfter(m, i)) \subseteq ToSet(q)
      /\ q[i] \notin ToSet(QueueAfter(m, i)) /\ IsInjective(QueueAfter(m, i))
  BY <1>1, <1>4, QueueAfterNext
<1>6. /\ clientQueue'[m] = QueueAfter(m, i) /\ active'[m] = q[i]
      /\ \A k \in Clients : k # m => clientQueue'[k] = clientQueue[k] /\ active'[k] = active[k]
  BY <1>1, <1>2, <1>3
<1>7. QueueHoldsAdopted' /\ LiveClientNotInLine'
  BY <1>1, <1>5, <1>6 DEF PlaceInv, QueueHoldsAdopted, LiveClientNotInLine, Adopted
<1>8. ActiveIsAdopted'
  <2>1. Adopted(q[i])
    BY <1>1, <1>5 DEF PlaceInv, QueueHoldsAdopted
  <2>2. Adopted(m)
    <3>1. active[m] # Nil
      BY <1>1, ConstantsAssumption DEF SwapLiveClient, IsLive
    <3>2. QED
      BY <1>1, <3>1 DEF PlaceInv, ActiveIsAdopted
  <2>3. QED
    BY <1>1, <1>6, <2>1, <2>2 DEF PlaceInv, ActiveIsAdopted, Adopted
<1>9. HandledClient'
  BY <1>1 DEF PlaceInv, HandledClient, Busy, Adopted
<1>10. QED
  BY <1>1, <1>7, <1>8, <1>9 DEF PlaceInv, ReceiverHoldsNew, ReadIsAdopted, ErrorEndsReader,
     ConnectedIsAdopted, Adopted

LEMMA PlaceHandlerEnds ==
    ASSUME PlaceInv, DisconnectClient \/ RegisterEmptyMount
    PROVE  PlaceInv'
<1>1. /\ UNCHANGED placeVars /\ pc \in {"disconnect", "collect"}
      /\ (pc' = "select" /\ cur' = Nil) \/ (pc' = "collect" /\ cur' = cur)
  BY DEF DisconnectClient, RegisterEmptyMount, placeVars, chanVars, mountVars, clientVars
<1>2. HandledClient'
  BY <1>1 DEF PlaceInv, HandledClient, Busy, Adopted, placeVars
<1>3. QED
  BY <1>1, <1>2 DEF PlaceInv, ReceiverHoldsNew, QueueHoldsAdopted, ActiveIsAdopted,
     ConnectedIsAdopted, ReadIsAdopted, ErrorEndsReader, LiveClientNotInLine, Adopted,
     placeVars

LEMMA PlaceRestart ==
    ASSUME TypeInv, PlaceInv, Restart
    PROVE  PlaceInv'
<1>1. /\ receiver' = <<>> /\ errChan' = <<>> /\ pc' = "select" /\ cur' = Nil
      /\ UNCHANGED <<clientQueue, active, byID>>
      /\ reader' = [c \in Clients |-> IF reader[c] = "reading" THEN "done" ELSE reader[c]]
      /\ source' = [c \in Clients |-> IF source[c] \in {"loaded", "queued"}
                                      THEN "stranded" ELSE source[c]]
  BY DEF Restart, NewMounts, NewErrors, mountVars
<1>2. /\ \A c \in Clients : source[c] = "adopted" => source'[c] = "adopted"
      /\ \A c \in Clients : reader'[c] # "none" => reader[c] # "none"
  BY <1>1
<1>3. \A m \in Clients : /\ ToSet(clientQueue[m]) \subseteq Clients
                         /\ byID[m] \subseteq Clients
                         /\ active[m] \in Clients \cup {Nil}
  BY MemberType DEF TypeInv, TypeOK
<1>4. ToSet(<<>>) = {} /\ IsInjective(<<>>)
  BY NoMembers DEF IsInjective
<1>5. ReceiverHoldsNew' /\ ErrorEndsReader' /\ HandledClient'
  BY <1>1, <1>4 DEF ReceiverHoldsNew, ErrorEndsReader, HandledClient, Busy
<1>6. QueueHoldsAdopted' /\ ActiveIsAdopted' /\ ConnectedIsAdopted' /\ ReadIsAdopted'
  BY <1>1, <1>2, <1>3 DEF PlaceInv, QueueHoldsAdopted, ActiveIsAdopted, ConnectedIsAdopted,
     ReadIsAdopted, Adopted
<1>7. QED
  BY <1>1, <1>5, <1>6 DEF PlaceInv, LiveClientNotInLine

LEMMA PlaceNext ==
    ASSUME TypeInv, PlaceInv, [Next]_vars
    PROVE  PlaceInv'
<1>1. CASE UNCHANGED <<placeVars, cur>> /\ pc' \in {pc, "panic", "crashed"}
  BY <1>1, PlaceFrame
<1>2. CASE UNCHANGED vars
  BY <1>1, <1>2 DEF vars, loopVars, chanVars, mountVars, clientVars, placeVars
<1>3. CASE OtherStep
  <2>1. CASE \E c \in Clients : SourceRequest(c) \/ SendClient(c) \/ ReadError(c)
    BY <2>1, PlaceSourceRequest, PlaceSendClient, PlaceReadError
  <2>2. QED
    BY <1>1, <1>3, <2>1 DEF OtherStep, ReadData, PostMetadata, ResendMetadata, StaleTimerFires,
       AdminListBegin, AdminListEnd, Kick, KickOutOfRange, loopVars, chanVars, mountVars,
       clientVars, placeVars
<1>4. CASE ManagerStep
  <2>1. CASE \/ AddFirstClient \/ AddWaitingClient \/ SendStoredMetadata \/ ConnectClient
             \/ ReceiveError \/ RemoveWaitingClient \/ SendSwapMetadata
             \/ RemoveLastLiveClient \/ SwapLiveClient \/ DisconnectClient
             \/ RegisterEmptyMount \/ Restart
    BY <2>1, PlaceAddFirst, PlaceAddWaiting, PlaceSendStored, PlaceConnect, PlaceReceiveError,
       PlaceRemove, PlaceSwap, PlaceHandlerEnds, PlaceRestart
  <2>2. CASE \/ RemoveFromUnknownMount \/ SwapRacesAdmin \/ AbortCollection \/ CollectMount
             \/ DiscardData \/ HandleData
    BY <1>1, <2>2 DEF RemoveFromUnknownMount, SwapRacesAdmin, AbortCollection, CollectMount,
       DiscardData, HandleData, loopVars, chanVars, mountVars, clientVars, placeVars
  <2>3. CASE \/ StoreMetadata \/ DiscardMetadata \/ SaveMetadata \/ DelayMetadata
             \/ SendMetadata \/ ForgetStoredMetadata
    BY <1>1, <2>3 DEF StoreMetadata, DiscardMetadata, SaveMetadata, DelayMetadata,
       SendMetadata, ForgetStoredMetadata, loopVars, chanVars, mountVars, clientVars, placeVars
  <2>4. QED
    BY <1>4, <2>1, <2>2, <2>3 DEF ManagerStep
<1>5. QED
  BY <1>2, <1>3, <1>4 DEF Next

LEMMA PlaceInvariant == Spec => [](TypeInv /\ PlaceInv)
<1>1. Init => PlaceInv
  <2>1. ToSet(<<>>) = {} /\ IsInjective(<<>>)
    BY NoMembers DEF IsInjective
  <2>2. QED
    BY <2>1 DEF Init, PlaceInv, ReceiverHoldsNew, QueueHoldsAdopted, ActiveIsAdopted,
       ConnectedIsAdopted, ReadIsAdopted, ErrorEndsReader, HandledClient, LiveClientNotInLine,
       Adopted, Busy
<1>2. QED
  BY <1>1, TypeInvariant, PlaceNext, PTL DEF Spec

\* The live client of a mount is never in its ClientQueue as well, so that
\* NextLiveClient cannot hand the mount to the client that is leaving, and
\* SwapLiveClient's early return for a client that is Active is dead code.
THEOREM LiveClientIsNotInLine == Spec => []LiveClientNotInLine
  BY PlaceInvariant, PTL DEF PlaceInv

\* Mount.Active changes only when the reader of the live client has ended, or
\* when the mount is new: neither a newcomer, nor the departure of a waiting
\* client, nor one that FullQueue turned away, takes the mount from it.
THEOREM LiveClientIsNotPreempted == Spec => LiveClientNotPreempted
<1> DEFINE P == \A m \in Clients :
                   active[m] # Nil /\ active'[m] # active[m] => reader[active[m]] = "done"
<1>1. ASSUME TypeInv, PlaceInv, [Next]_vars PROVE [P]_vars
  <2>1. CASE UNCHANGED active
    BY <2>1
  <2>2. CASE AddFirstClient
    <3>1. TakeClient /\ active' = [active EXCEPT ![Head(receiver)] = Head(receiver)]
      BY <2>2 DEF AddFirstClient
    <3>2. active[Head(receiver)] = Nil
      BY <1>1, <3>1, TakenClient
    <3>3. QED
      BY <1>1, <3>1, <3>2 DEF TypeInv, TypeOK
  <2>3. CASE SwapLiveClient
    <3> DEFINE k == MountFor(cur)
    <3>1. /\ pc = "remove" /\ active[k] = cur
          /\ \E x : active' = [active EXCEPT ![k] = x]
      BY <2>3 DEF SwapLiveClient, IsLive
    <3>2. k \in Clients => reader[cur] = "done"
      BY <1>1, <3>1 DEF PlaceInv, HandledClient
    <3>3. QED
      BY <1>1, <3>1, <3>2 DEF TypeInv, TypeOK
  <2>4. UNCHANGED active \/ AddFirstClient \/ SwapLiveClient
    <3>1. CASE UNCHANGED vars
      BY <3>1 DEF vars, mountVars
    <3>2. CASE ManagerStep
      BY <3>2 DEF ManagerStep, SendStoredMetadata, AddWaitingClient, ConnectClient,
         ReceiveError, RemoveFromUnknownMount, RemoveWaitingClient, RemoveLastLiveClient,
         SwapRacesAdmin, SendSwapMetadata, DisconnectClient, RegisterEmptyMount,
         AbortCollection, CollectMount, DiscardData, HandleData, StoreMetadata,
         DiscardMetadata, SaveMetadata, DelayMetadata, SendMetadata, ForgetStoredMetadata,
         Restart, NewMounts, NewErrors, mountVars
    <3>3. CASE OtherStep
      BY <3>3 DEF OtherStep, SourceRequest, SendClient, ReadData, ReadError, PostMetadata,
         ResendMetadata, StaleTimerFires, AdminListBegin, AdminListEnd, Kick, KickOutOfRange,
         mountVars
    <3>4. QED
      BY <1>1, <3>1, <3>2, <3>3 DEF Next
  <2>5. QED
    BY <2>1, <2>2, <2>3, <2>4
<1>2. QED
  BY <1>1, PlaceInvariant, PTL DEF Spec, LiveClientNotPreempted

-----------------------------------------------------------------------------
(***************************************************************************)
(* Readers, connections, counts and mounts.  Their four properties need    *)
(* each other.  A mount is collected by its count, so a reader keeps its   *)
(* mount only while the count is right; the count is right only because    *)
(* the client that RemoveClient takes off is on the mount that its         *)
(* mountpoint names; and that is so only while no mount is collected under *)
(* a connected client.  A second collection of a mount breaks the circle   *)
(* by deleting another mount's entry, after the destroyed libshout         *)
(* instance was used: hence freedUse.                                      *)
(***************************************************************************)
OwnMountpoint == \A m \in Clients : \A c \in byID[m] : MountOf[c] = MountOf[m]
CollectorHasMounts == \A m \in ToSet(mountCollector) : shout[m] # "none"
FiniteMounts == \A m \in Clients : IsFiniteSet(byID[m])

\* The client that RemoveClient took off its mount has been closed.
LeavingIsClosed ==
    pc \in {"disconnect", "collect"} => conn[cur] = "closed" /\ cur \notin byID[MountFor(cur)]

OnMount(c) == MountFor(c) # Nil /\ c \in byID[MountFor(c)]

OpenIsRegistered == \A m \in Clients : shout[m] \in {"closed", "open"} => MountFor(m) = m
Counted == \A m \in Clients : length[m] = Cardinality(byID[m])
ReadOnMount ==
    \A c \in Clients : reader[c] = "reading" \/ c \in ToSet(errChan) => OnMount(c)
HandledOnMount ==
    /\ pc \in {"stored", "connect", "remove", "swap"} => OnMount(cur)
    /\ pc = "panic" => cur = Nil
NoneLeaked ==
    \A c \in Clients : Adopted(c) /\ conn[c] = "open" => c = cur \/ OnMount(c)

SoundBooks ==
    OpenIsRegistered /\ Counted /\ ReadOnMount /\ HandledOnMount /\ NoneLeaked

BookInv ==
    /\ OwnMountpoint /\ CollectorHasMounts /\ FiniteMounts /\ LeavingIsClosed
    /\ ConnectedClientIsRead
    /\ freedUse \/ SoundBooks

\* What the earlier proofs established.
Basis == TypeInv /\ MountInv /\ PlaceInv

-----------------------------------------------------------------------------
\* A step that leaves the books alone, or only closes connections.
LEMMA BookFrame ==
    ASSUME Basis, BookInv,
           UNCHANGED <<byID, length, mounts, shout, reader, errChan, source, cur, freedUse>>,
           ToSet(mountCollector') \subseteq ToSet(mountCollector),
           \A c \in Clients : conn'[c] \in {conn[c], "closed"},
           pc' \in {pc, "crashed"}
    PROVE  BookInv'
<1>1. pc \in {"disconnect", "collect"} => cur \in Clients
  BY DEF Basis, TypeInv, LoopOK
<1>2. /\ OwnMountpoint' /\ CollectorHasMounts' /\ FiniteMounts' /\ LeavingIsClosed'
      /\ ConnectedClientIsRead'
  BY <1>1 DEF BookInv, OwnMountpoint, CollectorHasMounts, FiniteMounts, LeavingIsClosed,
     ConnectedClientIsRead, MountFor
<1>3. freedUse' \/ SoundBooks'
  BY DEF BookInv, SoundBooks, OpenIsRegistered, Counted, ReadOnMount, HandledOnMount,
     NoneLeaked, OnMount, MountFor, Adopted
<1>4. QED
  BY <1>2, <1>3 DEF BookInv

\* A client that is asking to be one of the sources, or is in Receiver, is in
\* nobody's books yet.
LEMMA BookArrival ==
    ASSUME Basis, BookInv, NEW c \in Clients, SourceRequest(c) \/ SendClient(c)
    PROVE  BookInv'
<1>1. /\ UNCHANGED <<byID, length, mounts, shout, reader, errChan, cur, freedUse, pc,
                      mountCollector>>
      /\ source[c] \in {"idle", "loaded"}
      /\ \E x \in {"loaded", "queued"} : source' = [source EXCEPT ![c] = x]
      /\ conn' = conn \/ conn' = [conn EXCEPT ![c] = "open"]
  BY DEF SourceRequest, SendClient, loopVars, chanVars, mountVars, faultVars
<1>2. /\ source \in [Clients -> {"idle", "loaded", "queued", "adopted", "stranded"}]
      /\ conn \in [Clients -> {"none", "open", "closed"}]
      /\ pc \in {"disconnect", "collect"} => cur \in Clients
  BY DEF Basis, TypeInv, TypeOK, LoopOK
<1>3. /\ source'[c] # "adopted"
      /\ \A d \in Clients : d # c => source'[d] = source[d] /\ conn'[d] = conn[d]
  BY <1>1, <1>2
<1>4. pc \in {"disconnect", "collect"} => cur # c
  BY <1>1 DEF Basis, PlaceInv, HandledClient, Busy, Adopted
<1>5. /\ OwnMountpoint' /\ CollectorHasMounts' /\ FiniteMounts' /\ LeavingIsClosed'
      /\ ConnectedClientIsRead'
  BY <1>1, <1>2, <1>3, <1>4 DEF BookInv, OwnMountpoint, CollectorHasMounts, FiniteMounts,
     LeavingIsClosed, ConnectedClientIsRead, MountFor
<1>6. freedUse' \/ SoundBooks'
  BY <1>1, <1>3 DEF BookInv, SoundBooks, OpenIsRegistered, Counted, ReadOnMount,
     HandledOnMount, NoneLeaked, OnMount, MountFor, Adopted
<1>7. QED
  BY <1>5, <1>6 DEF BookInv

LEMMA BookReadError ==
    ASSUME Basis, BookInv, NEW c \in Clients, ReadError(c)
    PROVE  BookInv'
<1>1. /\ UNCHANGED <<byID, length, mounts, shout, source, conn, cur, freedUse, pc,
                      mountCollector>>
      /\ reader[c] = "reading" /\ reader' = [reader EXCEPT ![c] = "done"]
      /\ errChan' = Append(errChan, c)
  BY DEF ReadError, PushError, loopVars, chanVars, mountVars, faultVars
<1>2. reader \in [Clients -> {"none", "reading", "done"}] /\ errChan \in Seq(Clients)
  BY DEF Basis, TypeInv, TypeOK
<1>3. ToSet(errChan') = ToSet(errChan) \cup {c}
  BY <1>1, <1>2, SendMembers
<1>4. \A d \in Clients : \/ reader'[d] = reader[d]
                         \/ d = c /\ reader'[d] = "done"
  BY <1>1, <1>2
<1>5. ConnectedClientIsRead'
  <2>1. \A n \in MountNames : mounts[n] # Nil => byID[mounts[n]] \subseteq Clients
    BY DEF Basis, TypeInv, TypeOK
  <2>2. QED
    BY <1>1, <1>3, <1>4, <2>1 DEF BookInv, ConnectedClientIsRead
<1>6. OwnMountpoint' /\ CollectorHasMounts' /\ FiniteMounts' /\ LeavingIsClosed'
  BY <1>1 DEF BookInv, OwnMountpoint, CollectorHasMounts, FiniteMounts, LeavingIsClosed, MountFor
<1>7. freedUse' \/ SoundBooks'
  BY <1>1, <1>3, <1>4 DEF BookInv, SoundBooks, OpenIsRegistered, Counted, ReadOnMount,
     HandledOnMount, NoneLeaked, OnMount, MountFor, Adopted
<1>8. QED
  BY <1>5, <1>6, <1>7 DEF BookInv

LEMMA BookAddFirst ==
    ASSUME Basis, BookInv, AddFirstClient
    PROVE  BookInv'
<1> DEFINE c == Head(receiver)
<1>1. /\ TakeClient /\ MountFor(c) = Nil /\ pc = "select"
      /\ mounts' = [mounts EXCEPT ![MountOf[c]] = c]
      /\ byID' = [byID EXCEPT ![c] = {c}]
      /\ length' = [length EXCEPT ![c] = 1]
      /\ shout' = [shout EXCEPT ![c] = "closed"]
      /\ source' = [source EXCEPT ![c] = "adopted"]
      /\ pc' \in {"stored", "connect"}
      /\ UNCHANGED <<mountCollector, errChan, conn, reader, freedUse>>
  BY DEF AddFirstClient, TakeClient, faultVars
<1>2. c \in Clients /\ MountOf[c] \in MountNames /\ cur' = c
  BY <1>1, TakenClient, HashType DEF Basis
<1>3. /\ mounts \in [MountNames -> Clients \cup {Nil}]
      /\ byID \in [Clients -> SUBSET Clients] /\ length \in [Clients -> Int]
      /\ shout \in [Clients -> {"none", "closed", "open", "freed"}]
      /\ source \in [Clients -> {"idle", "loaded", "queued", "adopted", "stranded"}]
  BY DEF Basis, TypeInv, TypeOK
<1>4. /\ mounts'[MountOf[c]] = c /\ byID'[c] = {c} /\ length'[c] = 1 /\ shout'[c] = "closed"
      /\ \A m \in Clients : m # c => /\ byID'[m] = byID[m] /\ length'[m] = length[m]
                                     /\ shout'[m] = shout[m] /\ source'[m] = source[m]
      /\ \A n \in MountNames : n # MountOf[c] => mounts'[n] = mounts[n]
  BY <1>1, <1>2, <1>3
<1>5. \A n \in MountNames : mounts[n] # c
  BY <1>1, <1>2, ConstantsAssumption DEF Basis, MountInv, RegisteredUnderOwnName, MountFor
<1>6. OwnMountpoint' /\ LeavingIsClosed'
  BY <1>1, <1>2, <1>4 DEF BookInv, OwnMountpoint, LeavingIsClosed
<1>7. CollectorHasMounts'
  <2>1. ToSet(mountCollector) \subseteq Clients
    BY MemberType DEF Basis, TypeInv, TypeOK
  <2>2. QED
    BY <1>1, <1>4, <2>1 DEF BookInv, CollectorHasMounts
<1>8. FiniteMounts' /\ (Counted => Counted')
  <2>1. IsFiniteSet({c}) /\ Cardinality({c}) = 1
    BY FS_Singleton
  <2>2. QED
    BY <1>4, <2>1 DEF BookInv, FiniteMounts, Counted
<1>9. ConnectedClientIsRead'
  <2>1. SUFFICES ASSUME NEW n \in MountNames, mounts'[n] # Nil, NEW d \in byID'[mounts'[n]],
                        d # c
                 PROVE  reader[d] = "reading" \/ d \in ToSet(errChan)
    BY <1>1, <1>2 DEF ConnectedClientIsRead
  <2>2. n # MountOf[c] /\ mounts'[n] = mounts[n] /\ mounts[n] \in Clients
    BY <1>3, <1>4, <2>1
  <2>3. d \in byID[mounts[n]]
    BY <1>4, <1>5, <2>1, <2>2
  <2>4. cur = Nil /\ d \in Clients
    BY <1>1, <1>3, <2>2, <2>3 DEF Basis, PlaceInv, HandledClient
  <2>5. QED
    BY <2>1, <2>2, <2>3, <2>4, ConstantsAssumption DEF BookInv, ConnectedClientIsRead
<1>10. ASSUME SoundBooks PROVE SoundBooks'
  <2>1. \A d \in Clients : OnMount(d) => OnMount(d)'
    <3>1. SUFFICES ASSUME NEW d \in Clients, OnMount(d) PROVE OnMount(d)'
      OBVIOUS
    <3>2. MountOf[d] \in MountNames /\ MountOf[d] # MountOf[c] /\ mounts[MountOf[d]] # c
      BY <1>1, <1>5, <3>1, HashType DEF OnMount, MountFor
    <3>3. QED
      BY <1>3, <1>4, <3>1, <3>2 DEF OnMount, MountFor
  <2>2. OnMount(cur)'
    BY <1>2, <1>4, ConstantsAssumption DEF OnMount, MountFor
  <2>3. OpenIsRegistered'
    <3>1. SUFFICES ASSUME NEW m \in Clients, m # c, shout[m] \in {"closed", "open"}
                   PROVE  mounts'[MountOf[m]] = m
      BY <1>4 DEF OpenIsRegistered, MountFor
    <3>2. mounts[MountOf[m]] = m
      BY <1>10, <3>1 DEF SoundBooks, OpenIsRegistered, MountFor
    <3>3. MountOf[m] \in MountNames /\ MountOf[m] # MountOf[c]
      BY <1>1, <3>1, <3>2, HashType, ConstantsAssumption DEF MountFor
    <3>4. QED
      BY <1>4, <3>2, <3>3
  <2>4. ReadOnMount'
    BY <1>1, <1>10, <2>1 DEF SoundBooks, ReadOnMount
  <2>5. HandledOnMount'
    BY <1>1, <1>2, <2>2 DEF HandledOnMount
  <2>6. NoneLeaked'
    <3>1. SUFFICES ASSUME NEW d \in Clients, d # c, source[d] = "adopted", conn[d] = "open"
                   PROVE  OnMount(d)'
      BY <1>1, <1>2, <1>4 DEF NoneLeaked, Adopted
    <3>2. cur = Nil
      BY <1>1 DEF Basis, PlaceInv, HandledClient
    <3>3. OnMount(d)
      BY <1>10, <3>1, <3>2, ConstantsAssumption DEF SoundBooks, NoneLeaked, Adopted
    <3>4. QED
      BY <2>1, <3>3
  <2>7. QED
    BY <1>8, <1>10, <2>3, <2>4, <2>5, <2>6 DEF SoundBooks
<1>11. QED
  BY <1>1, <1>6, <1>7, <1>8, <1>9, <1>10 DEF BookInv

LEMMA BookAddWaiting ==
    ASSUME Basis, BookInv, AddWaitingClient
    PROVE  BookInv'
<1> DEFINE c == Head(receiver)
           m == MountFor(c)
<1>1. /\ TakeClient /\ m # Nil /\ pc = "select"
      /\ byID' = [byID EXCEPT ![m] = @ \cup {c}]
      /\ length' = [length EXCEPT ![m] = @ + 1]
      /\ source' = [source EXCEPT ![c] = "adopted"]
      /\ pc' \in {"connect", "remove"}
      /\ UNCHANGED <<mounts, shout, mountCollector, errChan, conn, reader, freedUse>>
  BY DEF AddWaitingClient, TakeClient, faultVars
<1>2. /\ c \in Clients /\ MountOf[c] \in MountNames /\ cur' = c
      /\ \A k \in Clients : c \notin byID[k]
  BY <1>1, TakenClient, HashType DEF Basis
<1>3. /\ byID \in [Clients -> SUBSET Clients] /\ length \in [Clients -> Int]
      /\ source \in [Clients -> {"idle", "loaded", "queued", "adopted", "stranded"}]
      /\ m \in Clients
  BY <1>1, <1>2 DEF Basis, TypeInv, TypeOK, MountFor
<1>4. /\ byID'[m] = byID[m] \cup {c} /\ length'[m] = length[m] + 1
      /\ \A k \in Clients : k # m => byID'[k] = byID[k] /\ length'[k] = length[k]
      /\ \A d \in Clients : d # c => source'[d] = source[d]
  BY <1>1, <1>2, <1>3
<1>5. OwnMountpoint' /\ LeavingIsClosed' /\ CollectorHasMounts'
  <2>1. MountOf[m] = MountOf[c]
    BY <1>1, <1>2 DEF Basis, MountInv, RegisteredUnderOwnName, MountFor
  <2>2. QED
    BY <1>1, <1>3, <1>4, <2>1 DEF BookInv, OwnMountpoint, LeavingIsClosed, CollectorHasMounts
<1>6. FiniteMounts' /\ (Counted => Counted')
  <2>1. IsFiniteSet(byID[m])
    BY <1>3 DEF BookInv, FiniteMounts
  <2>2. /\ IsFiniteSet(byID[m] \cup {c})
        /\ Cardinality(byID[m] \cup {c}) = Cardinality(byID[m]) + 1
    BY <1>2, <1>3, <2>1, FS_AddElement
  <2>3. QED
    BY <1>3, <1>4, <2>2 DEF BookInv, FiniteMounts, Counted
<1>7. ConnectedClientIsRead'
  <2>1. SUFFICES ASSUME NEW n \in MountNames, mounts[n] # Nil, NEW d \in byID'[mounts[n]],
                        d # c
                 PROVE  reader[d] = "reading" \/ d \in ToSet(errChan)
    BY <1>1, <1>2 DEF ConnectedClientIsRead
  <2>2. mounts[n] \in Clients /\ d \in byID[mounts[n]]
    <3>1. mounts[n] \in Clients
      BY <2>1 DEF Basis, TypeInv, TypeOK
    <3>2. byID'[mounts[n]] \subseteq byID[mounts[n]] \cup {c}
      BY <1>4, <3>1
    <3>3. QED
      BY <2>1, <3>1, <3>2
  <2>3. cur = Nil /\ d \in Clients
    BY <1>1, <1>3, <2>2 DEF Basis, PlaceInv, HandledClient
  <2>4. QED
    BY <2>1, <2>2, <2>3, ConstantsAssumption DEF BookInv, ConnectedClientIsRead
<1>8. ASSUME SoundBooks PROVE SoundBooks'
  <2>1. \A d \in Clients : OnMount(d) => OnMount(d)'
    <3>1. SUFFICES ASSUME NEW d \in Clients, OnMount(d) PROVE OnMount(d)'
      OBVIOUS
    <3>2. MountFor(d) \in Clients
      BY <3>1, HashType DEF OnMount, MountFor, Basis, TypeInv, TypeOK
    <3>3. byID[MountFor(d)] \subseteq byID'[MountFor(d)]
      BY <1>4, <3>2
    <3>4. QED
      BY <1>1, <3>1, <3>3 DEF OnMount, MountFor
  <2>2. OnMount(cur)'
    <3>1. MountFor(cur)' = m
      BY <1>1, <1>2 DEF MountFor
    <3>2. c \in byID'[m]
      BY <1>4
    <3>3. QED
      BY <1>1, <1>2, <3>1, <3>2 DEF OnMount
  <2>3. OpenIsRegistered'
    BY <1>1, <1>8 DEF SoundBooks, OpenIsRegistered, MountFor
  <2>4. ReadOnMount'
    BY <1>1, <1>8, <2>1 DEF SoundBooks, ReadOnMount
  <2>5. HandledOnMount'
    BY <1>1, <2>2 DEF HandledOnMount
  <2>6. NoneLeaked'
    <3>1. SUFFICES ASSUME NEW d \in Clients, d # c, source[d] = "adopted", conn[d] = "open"
                   PROVE  OnMount(d)'
      BY <1>1, <1>2, <1>4 DEF NoneLeaked, Adopted
    <3>2. cur = Nil
      BY <1>1 DEF Basis, PlaceInv, HandledClient
    <3>3. OnMount(d)
      BY <1>8, <3>1, <3>2, ConstantsAssumption DEF SoundBooks, NoneLeaked, Adopted
    <3>4. QED
      BY <2>1, <3>3
  <2>7. QED
    BY <1>6, <1>8, <2>3, <2>4, <2>5, <2>6 DEF SoundBooks
<1>9. QED
  BY <1>1, <1>5, <1>6, <1>7, <1>8 DEF BookInv

\* The handler of a client goes on to its next blocking point.
LEMMA BookHandlerGoesOn ==
    ASSUME Basis, BookInv, SendStoredMetadata \/ SwapLiveClient
    PROVE  BookInv'
<1>1. /\ UNCHANGED <<byID, length, mounts, shout, reader, errChan, source, cur, freedUse,
                      mountCollector, conn>>
      /\ pc \in {"stored", "remove"} /\ pc' \in {"connect", "swap"}
  BY DEF SendStoredMetadata, SwapLiveClient, chanVars, mountVars, clientVars, faultVars
<1>2. QED
  BY <1>1 DEF BookInv, OwnMountpoint, CollectorHasMounts, FiniteMounts, LeavingIsClosed,
     ConnectedClientIsRead, SoundBooks, OpenIsRegistered, Counted, ReadOnMount, HandledOnMount,
     NoneLeaked, OnMount, MountFor, Adopted

LEMMA BookConnect ==
    ASSUME Basis, BookInv, ConnectClient
    PROVE  BookInv'
<1>1. /\ UNCHANGED <<byID, length, mounts, shout, errChan, source, freedUse, mountCollector,
                      conn>>
      /\ pc = "connect" /\ pc' = "select" /\ cur' = Nil
      /\ reader' = [reader EXCEPT ![cur] = "reading"]
  BY DEF ConnectClient, chanVars, mountVars, faultVars
<1>2. /\ cur \in Clients /\ reader \in [Clients -> {"none", "reading", "done"}]
      /\ \A n \in MountNames : mounts[n] # Nil => byID[mounts[n]] \subseteq Clients
  BY <1>1 DEF Basis, TypeInv, TypeOK, LoopOK
<1>3. reader'[cur] = "reading" /\ \A d \in Clients : d # cur => reader'[d] = reader[d]
  BY <1>1, <1>2
<1>4. /\ OwnMountpoint' /\ CollectorHasMounts' /\ FiniteMounts' /\ LeavingIsClosed'
      /\ ConnectedClientIsRead'
  BY <1>1, <1>2, <1>3 DEF BookInv, OwnMountpoint, CollectorHasMounts, FiniteMounts,
     LeavingIsClosed, ConnectedClientIsRead
<1>5. ASSUME SoundBooks PROVE SoundBooks'
  <2>1. OnMount(cur) /\ \A d \in Clients : OnMount(d)' = OnMount(d)
    BY <1>1, <1>5 DEF SoundBooks, HandledOnMount, OnMount, MountFor
  <2>2. ReadOnMount' /\ NoneLeaked'
    BY <1>1, <1>2, <1>3, <1>5, <2>1 DEF SoundBooks, ReadOnMount, NoneLeaked, Adopted
  <2>3. OpenIsRegistered' /\ Counted' /\ HandledOnMount'
    BY <1>1, <1>5 DEF SoundBooks, OpenIsRegistered, Counted, HandledOnMount, MountFor
  <2>4. QED
    BY <2>2, <2>3 DEF SoundBooks
<1>6. QED
  BY <1>1, <1>4, <1>5 DEF BookInv

LEMMA BookReceiveError ==
    ASSUME Basis, BookInv, ReceiveError
    PROVE  BookInv'
<1>1. /\ UNCHANGED <<byID, length, mounts, shout, reader, source, freedUse, mountCollector,
                      conn>>
      /\ errChan # <<>> /\ errChan' = Tail(errChan) /\ cur' = Head(errChan)
      /\ pc = "select" /\ pc' = "remove"
  BY DEF ReceiveError, mountVars, clientVars, faultVars
<1>2. /\ errChan \in Seq(Clients) /\ cur = Nil
      /\ \A n \in MountNames : mounts[n] # Nil => byID[mounts[n]] \subseteq Clients
  BY <1>1 DEF Basis, TypeInv, TypeOK, PlaceInv, HandledClient
<1>3. /\ Head(errChan) \in Clients /\ Head(errChan) \in ToSet(errChan)
      /\ ToSet(errChan') \subseteq ToSet(errChan)
      /\ ToSet(errChan) \subseteq ToSet(errChan') \cup {Head(errChan)}
  BY <1>1, <1>2, ReceiveMembers, ReceiveType
<1>4. /\ OwnMountpoint' /\ CollectorHasMounts' /\ FiniteMounts' /\ LeavingIsClosed'
  BY <1>1 DEF BookInv, OwnMountpoint, CollectorHasMounts, FiniteMounts, LeavingIsClosed
<1>5. ConnectedClientIsRead'
  BY <1>1, <1>2, <1>3, ConstantsAssumption DEF BookInv, ConnectedClientIsRead
<1>6. ASSUME SoundBooks PROVE SoundBooks'
  <2>1. \A d \in Clients : OnMount(d)' = OnMount(d)
    BY <1>1 DEF OnMount, MountFor
  <2>2. ReadOnMount'
    BY <1>1, <1>3, <1>6, <2>1 DEF SoundBooks, ReadOnMount
  <2>3. HandledOnMount'
    <3>1. OnMount(Head(errChan))
      BY <1>3, <1>6 DEF SoundBooks, ReadOnMount
    <3>2. OnMount(cur)'
      BY <1>1, <3>1 DEF OnMount, MountFor
    <3>3. QED
      BY <1>1, <3>2 DEF HandledOnMount
  <2>4. NoneLeaked'
    BY <1>1, <1>2, <1>6, <2>1, ConstantsAssumption DEF SoundBooks, NoneLeaked, Adopted
  <2>5. OpenIsRegistered' /\ Counted'
    BY <1>1, <1>6 DEF SoundBooks, OpenIsRegistered, Counted, MountFor
  <2>6. QED
    BY <2>2, <2>3, <2>4, <2>5 DEF SoundBooks
<1>7. QED
  BY <1>1, <1>4, <1>5, <1>6 DEF BookInv

\* panic("Unexisting mountpoint") takes books that are no longer sound.
LEMMA BookUnknownMount ==
    ASSUME Basis, BookInv, RemoveFromUnknownMount
    PROVE  BookInv'
<1>1. /\ UNCHANGED <<byID, length, mounts, shout, reader, errChan, source, cur, freedUse,
                      mountCollector, conn>>
      /\ pc = "remove" /\ pc' = "panic" /\ MountFor(cur) = Nil
  BY DEF RemoveFromUnknownMount, chanVars, mountVars, clientVars, faultVars
<1>2. freedUse
  BY <1>1 DEF BookInv, SoundBooks, HandledOnMount, OnMount
<1>3. QED
  BY <1>1, <1>2 DEF BookInv, OwnMountpoint, CollectorHasMounts, FiniteMounts, LeavingIsClosed,
     ConnectedClientIsRead, MountFor

LEMMA BookDetach ==
    ASSUME Basis, BookInv,
           RemoveWaitingClient \/ RemoveLastLiveClient \/ SendSwapMetadata
    PROVE  BookInv'
<1> DEFINE m == MountFor(cur)
<1>1. /\ UNCHANGED <<mounts, shout, reader, errChan, source, cur, freedUse, mountCollector>>
      /\ pc \in {"remove", "swap"} /\ pc' = "disconnect" /\ m # Nil
      /\ byID' = [byID EXCEPT ![m] = @ \ {cur}]
      /\ length' = [length EXCEPT ![m] = @ - 1]
      /\ conn' = [conn EXCEPT ![cur] = "closed"]
  BY DEF RemoveWaitingClient, RemoveLastLiveClient, SendSwapMetadata, Detach, chanVars,
     clientVars, faultVars, Basis, TypeInv, LoopOK
<1>2. /\ cur \in Clients /\ m \in Clients
      /\ byID \in [Clients -> SUBSET Clients] /\ length \in [Clients -> Int]
      /\ conn \in [Clients -> {"none", "open", "closed"}]
      /\ mounts \in [MountNames -> Clients \cup {Nil}]
  BY <1>1, HashType DEF Basis, TypeInv, TypeOK, LoopOK, MountFor
<1>3. /\ byID'[m] = byID[m] \ {cur} /\ length'[m] = length[m] - 1 /\ conn'[cur] = "closed"
      /\ \A k \in Clients : k # m => byID'[k] = byID[k] /\ length'[k] = length[k]
      /\ \A d \in Clients : d # cur => conn'[d] = conn[d]
  BY <1>1, <1>2
<1>4. /\ OwnMountpoint' /\ CollectorHasMounts' /\ LeavingIsClosed'
  BY <1>1, <1>2, <1>3 DEF BookInv, OwnMountpoint, CollectorHasMounts, LeavingIsClosed, MountFor
<1>5. ConnectedClientIsRead'
  BY <1>1, <1>2, <1>3 DEF BookInv, ConnectedClientIsRead
<1>6. FiniteMounts' /\ (Counted /\ OnMount(cur) => Counted')
  <2>1. IsFiniteSet(byID[m])
    BY <1>2 DEF BookInv, FiniteMounts
  <2>2. /\ IsFiniteSet(byID[m] \ {cur})
        /\ cur \in byID[m] => Cardinality(byID[m] \ {cur}) = Cardinality(byID[m]) - 1
    BY <2>1, FS_RemoveElement
  <2>3. QED
    BY <1>2, <1>3, <2>2 DEF BookInv, FiniteMounts, Counted, OnMount
<1>7. ASSUME SoundBooks PROVE SoundBooks'
  <2>1. OnMount(cur)
    BY <1>1, <1>7 DEF SoundBooks, HandledOnMount
  <2>2. \A d \in Clients : d # cur /\ OnMount(d) => OnMount(d)'
    <3>1. SUFFICES ASSUME NEW d \in Clients, d # cur, OnMount(d) PROVE OnMount(d)'
      OBVIOUS
    <3>2. MountFor(d) \in Clients
      BY <3>1, HashType DEF OnMount, MountFor, Basis, TypeInv, TypeOK
    <3>3. d \in byID'[MountFor(d)]
      BY <1>3, <3>1, <3>2 DEF OnMount
    <3>4. QED
      BY <1>1, <3>1, <3>3 DEF OnMount, MountFor
  <2>3. reader[cur] # "reading" /\ cur \notin ToSet(errChan)
    BY <1>1 DEF Basis, PlaceInv, HandledClient
  <2>4. ReadOnMount'
    BY <1>1, <1>7, <2>2, <2>3 DEF SoundBooks, ReadOnMount
  <2>5. NoneLeaked'
    BY <1>1, <1>2, <1>3, <1>7, <2>2 DEF SoundBooks, NoneLeaked, Adopted
  <2>6. OpenIsRegistered' /\ HandledOnMount' /\ Counted'
    BY <1>1, <1>6, <1>7, <2>1 DEF SoundBooks, OpenIsRegistered, HandledOnMount, MountFor
  <2>7. QED
    BY <2>4, <2>5, <2>6 DEF SoundBooks
<1>8. QED
  BY <1>1, <1>4, <1>5, <1>6, <1>7 DEF BookInv

\* HandleClientDisconnect and the registration for collection: the client is
\* already off its mount, under whatever name a mount is registered.
LEMMA BookHandlerEnds ==
    ASSUME Basis, BookInv, DisconnectClient \/ RegisterEmptyMount
    PROVE  BookInv'
<1>1. /\ UNCHANGED <<byID, length, mounts, shout, reader, errChan, source, freedUse, conn>>
      /\ pc \in {"disconnect", "collect"}
      /\ \/ pc' = "select" /\ cur' = Nil
         \/ pc' = "collect" /\ cur' = cur
      /\ \/ mountCollector' = mountCollector
         \/ mountCollector' = Append(mountCollector, MountFor(cur))
  BY DEF DisconnectClient, RegisterEmptyMount, chanVars, mountVars, clientVars, faultVars
<1>2. /\ cur \in Clients /\ MountOf[cur] \in MountNames /\ MountFor(cur) \in Clients
      /\ mounts \in [MountNames -> Clients \cup {Nil}]
      /\ mountCollector \in Seq(Clients)
  BY <1>1, HashType DEF Basis, TypeInv, TypeOK, LoopOK, MountFor
<1>3. conn[cur] = "closed" /\ cur \notin byID[MountFor(cur)]
  BY <1>1 DEF BookInv, LeavingIsClosed
<1>4. \A n \in MountNames : mounts[n] # Nil => cur \notin byID[mounts[n]]
  <2>1. SUFFICES ASSUME NEW n \in MountNames, mounts[n] # Nil, cur \in byID[mounts[n]]
                 PROVE  FALSE
    OBVIOUS
  <2>2. MountOf[cur] = MountOf[mounts[n]] /\ MountOf[mounts[n]] = n
    BY <1>2, <2>1 DEF BookInv, OwnMountpoint, Basis, MountInv, RegisteredUnderOwnName
  <2>3. QED
    BY <1>3, <2>1, <2>2 DEF MountFor
<1>5. CollectorHasMounts'
  <2>1. shout[MountFor(cur)] # "none"
    BY <1>2, ConstantsAssumption DEF Basis, MountInv, RegisteredMountIsUsable, MountFor
  <2>2. ToSet(mountCollector') \subseteq ToSet(mountCollector) \cup {MountFor(cur)}
    <3>1. ToSet(Append(mountCollector, MountFor(cur)))
             = ToSet(mountCollector) \cup {MountFor(cur)}
      BY <1>2, SendMembers
    <3>2. QED
      BY <1>1, <3>1
  <2>3. QED
    BY <1>1, <2>1, <2>2 DEF BookInv, CollectorHasMounts
<1>6. ConnectedClientIsRead'
  BY <1>1, <1>4 DEF BookInv, ConnectedClientIsRead
<1>7. OwnMountpoint' /\ FiniteMounts' /\ LeavingIsClosed'
  BY <1>1, <1>3 DEF BookInv, OwnMountpoint, FiniteMounts, LeavingIsClosed, MountFor
<1>8. freedUse' \/ SoundBooks'
  BY <1>1, <1>3 DEF BookInv, SoundBooks, OpenIsRegistered, Counted, ReadOnMount,
     HandledOnMount, NoneLeaked, OnMount, MountFor, Adopted
<1>9. QED
  BY <1>5, <1>6, <1>7, <1>8 DEF BookInv

\* A mount that is collected for the first time is the registered one, and by
\* its count nobody is on it.
LEMMA BookCollect ==
    ASSUME Basis, BookInv, CollectMount
    PROVE  BookInv'
<1> DEFINE m == Head(mountCollector)
<1>1. /\ UNCHANGED <<byID, length, reader, errChan, source, cur>>
      /\ pc = "select" /\ mountCollector # <<>> /\ mountCollector' = Tail(mountCollector)
      /\ length[m] <= 0
  BY DEF CollectMount, TakeMount, NoClientsLeft, mountVars
<1>2. /\ mountCollector \in Seq(Clients) /\ cur = Nil
      /\ mounts \in [MountNames -> Clients \cup {Nil}]
      /\ shout \in [Clients -> {"none", "closed", "open", "freed"}]
      /\ byID \in [Clients -> SUBSET Clients]
  BY <1>1 DEF Basis, TypeInv, TypeOK, PlaceInv, HandledClient
<1>3. /\ m \in Clients /\ m \in ToSet(mountCollector) /\ MountOf[m] \in MountNames
      /\ ToSet(mountCollector') \subseteq ToSet(mountCollector)
      /\ ToSet(mountCollector) \subseteq Clients
  BY <1>1, <1>2, ReceiveMembers, ReceiveType, MemberType, HashType
<1>4. CASE UNCHANGED <<mounts, conn, shout>> /\ pc' = "crashed" /\ freedUse'
  BY <1>1, <1>3, <1>4 DEF BookInv, OwnMountpoint, CollectorHasMounts, FiniteMounts,
     LeavingIsClosed, ConnectedClientIsRead
<1>5. CASE /\ mounts' = [mounts EXCEPT ![MountOf[m]] = Nil]
           /\ conn' = [c \in Clients |-> IF c \in byID[m] THEN "closed" ELSE conn[c]]
           /\ shout' = [shout EXCEPT ![m] = "freed"]
           /\ freedUse' = (freedUse \/ shout[m] = "freed")
           /\ pc' = pc
  <2>1. /\ mounts'[MountOf[m]] = Nil /\ shout'[m] = "freed"
        /\ \A n \in MountNames : n # MountOf[m] => mounts'[n] = mounts[n]
        /\ \A k \in Clients : k # m => shout'[k] = shout[k]
    BY <1>2, <1>3, <1>5
  <2>2. CollectorHasMounts'
    BY <1>3, <2>1 DEF BookInv, CollectorHasMounts
  <2>3. ConnectedClientIsRead'
    BY <1>1, <2>1 DEF BookInv, ConnectedClientIsRead
  <2>4. OwnMountpoint' /\ FiniteMounts' /\ LeavingIsClosed'
    BY <1>1, <1>5 DEF BookInv, OwnMountpoint, FiniteMounts, LeavingIsClosed
  <2>5. ASSUME SoundBooks, shout[m] # "freed" PROVE SoundBooks'
    <3>1. mounts[MountOf[m]] = m
      <4>1. shout[m] \in {"closed", "open"}
        BY <1>2, <1>3, <2>5 DEF BookInv, CollectorHasMounts
      <4>2. QED
        BY <1>3, <2>5, <4>1 DEF SoundBooks, OpenIsRegistered, MountFor
    <3>2. byID[m] = {}
      <4>1. IsFiniteSet(byID[m]) /\ length[m] = Cardinality(byID[m])
        BY <1>3, <2>5 DEF BookInv, FiniteMounts, SoundBooks, Counted
      <4>2. Cardinality(byID[m]) \in Nat
        BY <4>1, FS_CardinalityType
      <4>3. Cardinality(byID[m]) = 0
        BY <1>1, <4>1, <4>2
      <4>4. QED
        BY <4>1, <4>3, FS_EmptySet
    <3>3. \A d \in Clients : OnMount(d) => OnMount(d)'
      <4>1. SUFFICES ASSUME NEW d \in Clients, OnMount(d) PROVE OnMount(d)'
        OBVIOUS
      <4>2. MountOf[d] \in MountNames /\ MountOf[d] # MountOf[m]
        BY <3>1, <3>2, <4>1, HashType DEF OnMount, MountFor
      <4>3. QED
        BY <1>1, <2>1, <4>1, <4>2 DEF OnMount, MountFor
    <3>4. OpenIsRegistered'
      <4>1. SUFFICES ASSUME NEW k \in Clients, k # m, shout[k] \in {"closed", "open"}
                     PROVE  mounts'[MountOf[k]] = k
        BY <2>1 DEF OpenIsRegistered, MountFor
      <4>2. mounts[MountOf[k]] = k /\ MountOf[k] \in MountNames
        BY <2>5, <4>1, HashType DEF SoundBooks, OpenIsRegistered, MountFor
      <4>3. QED
        BY <2>1, <3>1, <4>1, <4>2
    <3>5. Counted' /\ HandledOnMount'
      BY <1>1, <1>2, <1>5, <2>5 DEF SoundBooks, Counted, HandledOnMount
    <3>6. ReadOnMount' /\ NoneLeaked'
      BY <1>1, <1>5, <2>5, <3>3 DEF SoundBooks, ReadOnMount, NoneLeaked, Adopted
    <3>7. QED
      BY <3>4, <3>5, <3>6 DEF SoundBooks
  <2>6. QED
    BY <1>5, <2>2, <2>3, <2>4, <2>5 DEF BookInv
<1>6. QED
  BY <1>4, <1>5 DEF CollectMount, Deregister

LEMMA BookHandleData ==
    ASSUME Basis, BookInv, HandleData
    PROVE  BookInv'
<1> DEFINE m == MountFor(Head(dataChan))
<1>1. /\ UNCHANGED <<byID, length, mounts, reader, errChan, source, cur, freedUse, conn,
                      mountCollector>>
      /\ pc = "select" /\ pc' \in {"select", "panic"} /\ dataChan # <<>> /\ m # Nil
      /\ \E x \in {"open", "closed"} : shout' = [shout EXCEPT ![m] = x]
  BY DEF HandleData, TakeData, mountVars, clientVars
<1>2. Head(dataChan) \in Clients
  BY <1>1, ReceiveType DEF Basis, TypeInv, TypeOK
<1>3. /\ MountOf[Head(dataChan)] \in MountNames /\ m \in Clients /\ cur = Nil
      /\ shout \in [Clients -> {"none", "closed", "open", "freed"}]
      /\ ToSet(mountCollector) \subseteq Clients
  BY <1>1, <1>2, HashType, MemberType
     DEF Basis, TypeInv, TypeOK, MountFor, PlaceInv, HandledClient
<1>4. MountFor(m) = m
  BY <1>1, <1>3 DEF Basis, MountInv, RegisteredUnderOwnName, MountFor
<1>5. /\ shout'[m] \in {"open", "closed"}
      /\ \A k \in Clients : k # m => shout'[k] = shout[k]
  BY <1>1, <1>3
<1>6. /\ OwnMountpoint' /\ CollectorHasMounts' /\ FiniteMounts' /\ LeavingIsClosed'
      /\ ConnectedClientIsRead'
  BY <1>1, <1>3, <1>5 DEF BookInv, OwnMountpoint, CollectorHasMounts, FiniteMounts,
     LeavingIsClosed, ConnectedClientIsRead, MountFor
<1>7. ASSUME SoundBooks PROVE SoundBooks'
  <2>1. OpenIsRegistered'
    BY <1>1, <1>4, <1>5, <1>7 DEF SoundBooks, OpenIsRegistered, MountFor
  <2>2. QED
    BY <1>1, <1>3, <1>7, <2>1 DEF SoundBooks, Counted, ReadOnMount, HandledOnMount, NoneLeaked,
       OnMount, MountFor, Adopted
<1>8. QED
  BY <1>1, <1>6, <1>7 DEF BookInv

\* DestroyManager closes the connections of the clients it finds, and those
\* are all that the old manager took over.
LEMMA BookRestart ==
    ASSUME Basis, BookInv, Restart
    PROVE  BookInv'
<1>1. /\ UNCHANGED <<byID, length, freedUse>>
      /\ pc = "panic" /\ pc' = "select" /\ cur' = Nil
      /\ mounts' = [n \in MountNames |-> Nil] /\ mountCollector' = <<>> /\ errChan' = <<>>
      /\ shout' = [m \in Clients |-> IF m \in Registered THEN "freed" ELSE shout[m]]
      /\ conn' = [c \in Clients |-> IF \E m \in Registered : c \in byID[m] THEN "closed"
                                    ELSE conn[c]]
      /\ reader' = [c \in Clients |-> IF reader[c] = "reading" THEN "done" ELSE reader[c]]
      /\ source' = [c \in Clients |-> IF source[c] \in {"loaded", "queued"}
                                      THEN "stranded" ELSE source[c]]
  BY DEF Restart, NewMounts, NewErrors, DestroyMounts, mountVars
<1>2. /\ OwnMountpoint' /\ CollectorHasMounts' /\ FiniteMounts' /\ LeavingIsClosed'
      /\ ConnectedClientIsRead'
  BY <1>1, NoMembers DEF BookInv, OwnMountpoint, CollectorHasMounts, FiniteMounts,
     LeavingIsClosed, ConnectedClientIsRead
<1>3. ASSUME SoundBooks PROVE SoundBooks'
  <2>1. OpenIsRegistered'
    <3>1. \A m \in Clients : shout[m] \in {"closed", "open"} => m \in Registered
      BY <1>3, HashType DEF SoundBooks, OpenIsRegistered, MountFor, Registered
    <3>2. QED
      BY <1>1, <3>1 DEF OpenIsRegistered
  <2>2. ReadOnMount'
    BY <1>1, NoMembers DEF ReadOnMount
  <2>3. NoneLeaked'
    <3>1. SUFFICES ASSUME NEW c \in Clients, source'[c] = "adopted", conn'[c] = "open"
                   PROVE  FALSE
      BY DEF NoneLeaked, Adopted
    <3>2. source[c] = "adopted" /\ conn[c] = "open" /\ ~\E m \in Registered : c \in byID[m]
      BY <1>1, <3>1
    <3>3. OnMount(c)
      BY <1>1, <1>3, <3>2, ConstantsAssumption
         DEF SoundBooks, NoneLeaked, HandledOnMount, Adopted
    <3>4. MountFor(c) \in Registered
      BY <3>3, HashType DEF OnMount, MountFor, Registered, Basis, TypeInv, TypeOK
    <3>5. QED
      BY <3>2, <3>3, <3>4 DEF OnMount
  <2>4. Counted' /\ HandledOnMount'
    BY <1>1, <1>3 DEF SoundBooks, Counted, HandledOnMount
  <2>5. QED
    BY <2>1, <2>2, <2>3, <2>4 DEF SoundBooks
<1>4. QED
  BY <1>1, <1>2, <1>3 DEF BookInv

-----------------------------------------------------------------------------
LEMMA BookNext ==
    ASSUME Basis, BookInv, [Next]_vars
    PROVE  BookInv'
<1>1. CASE UNCHANGED vars
  BY <1>1, BookFrame DEF vars, loopVars, chanVars, mountVars, clientVars, faultVars
<1>2. CASE OtherStep
  <2>1. CASE \E c \in Clients : SourceRequest(c) \/ SendClient(c) \/ ReadError(c)
    BY <2>1, BookArrival, BookReadError
  <2>2. ASSUME NEW n \in MountNames, NEW num \in AdminNums, Kick(n, num)
        PROVE  BookInv'
    <3>1. \A c \in Clients : conn'[c] \in {conn[c], "closed"}
      BY <2>2 DEF Kick, Basis, TypeInv, TypeOK
    <3>2. QED
      BY <2>2, <3>1, BookFrame DEF Kick, loopVars, chanVars, mountVars, faultVars
  <2>3. CASE \/ \E c \in Clients : ReadData(c)
             \/ \E h \in Hashes : PostMetadata(h)
             \/ \E d \in Delayed : ResendMetadata(d)
             \/ StaleTimerFires \/ AdminListBegin \/ AdminListEnd
             \/ \E n \in MountNames, num \in AdminNums : KickOutOfRange(n, num)
    BY <2>3, BookFrame DEF ReadData, PostMetadata, ResendMetadata, StaleTimerFires,
       AdminListBegin, AdminListEnd, KickOutOfRange, loopVars, chanVars, mountVars,
       clientVars, faultVars
  <2>4. QED
    BY <1>2, <2>1, <2>2, <2>3 DEF OtherStep
<1>3. CASE ManagerStep
  <2>1. CASE \/ AddFirstClient \/ AddWaitingClient \/ SendStoredMetadata \/ SwapLiveClient
             \/ ConnectClient \/ ReceiveError \/ RemoveFromUnknownMount
             \/ RemoveWaitingClient \/ RemoveLastLiveClient \/ SendSwapMetadata
             \/ DisconnectClient \/ RegisterEmptyMount \/ CollectMount \/ HandleData \/ Restart
    BY <2>1, BookAddFirst, BookAddWaiting, BookHandlerGoesOn, BookConnect, BookReceiveError,
       BookUnknownMount, BookDetach, BookHandlerEnds, BookCollect, BookHandleData, BookRestart
  <2>2. CASE SwapRacesAdmin \/ DiscardData \/ StoreMetadata \/ DiscardMetadata \/ SaveMetadata
             \/ DelayMetadata \/ SendMetadata \/ ForgetStoredMetadata
    BY <2>2, BookFrame DEF SwapRacesAdmin, DiscardData, StoreMetadata, DiscardMetadata,
       SaveMetadata, DelayMetadata, SendMetadata, ForgetStoredMetadata, loopVars, chanVars,
       mountVars, clientVars, faultVars
  <2>3. CASE AbortCollection
    <3>1. ToSet(mountCollector') \subseteq ToSet(mountCollector)
      BY <2>3, ReceiveMembers DEF AbortCollection, TakeMount, Basis, TypeInv, TypeOK
    <3>2. QED
      BY <2>3, <3>1, BookFrame DEF AbortCollection, loopVars, mountVars, clientVars, faultVars
  <2>4. QED
    BY <1>3, <2>1, <2>2, <2>3 DEF ManagerStep
<1>4. QED
  BY <1>1, <1>2, <1>3 DEF Next

LEMMA BookInvariant == Spec => [](Basis /\ BookInv)
<1>1. Init => BookInv
  <2>1. ASSUME Init PROVE FiniteMounts /\ SoundBooks
    <3>1. Cardinality({}) = 0 /\ IsFiniteSet({})
      BY FS_EmptySet
    <3>2. QED
      BY <2>1, <3>1, NoMembers DEF Init, FiniteMounts, SoundBooks, OpenIsRegistered, Counted,
         ReadOnMount, HandledOnMount, NoneLeaked, Adopted
  <2>2. QED
    <3>1. Init => OwnMountpoint /\ CollectorHasMounts /\ LeavingIsClosed
      BY NoMembers DEF Init, OwnMountpoint, CollectorHasMounts, LeavingIsClosed
    <3>2. Init => ConnectedClientIsRead
      BY DEF Init, ConnectedClientIsRead
    <3>3. QED
      BY <2>1, <3>1, <3>2 DEF BookInv
<1>2. Init => MountInv
  BY DEF Init, MountInv, RegisteredMountIsUsable, RegisteredUnderOwnName
<1>3. TypeInv /\ PlaceInv /\ MountInv <=> Basis
  BY DEF Basis
<1>4. QED
  BY <1>1, <1>2, <1>3, PlaceInvariant, MountNext, BookNext, PTL DEF Spec

\* While a reader runs, and until its error is handled, its client is on the
\* mount registered for its mountpoint, unless a destroyed libshout instance
\* has been used: the collector, which goes by Length, never takes a mount
\* from a connected client, and RemoveClient does not panic.
THEOREM ReadersHaveMounts == Spec => []ReaderHasMount
<1>1. Basis /\ BookInv => ReaderHasMount
  BY DEF Basis, TypeInv, LoopOK, BookInv, SoundBooks, ReadOnMount, HandledOnMount, OnMount,
     ReaderHasMount
<1>2. QED
  BY <1>1, BookInvariant, PTL

\* Every client that a registered mount holds is read, or its error is on its
\* way to the manager, or it is the one the manager works on, even after a
\* destroyed instance was used.
THEOREM ConnectedClientsAreRead == Spec => []ConnectedClientIsRead
  BY BookInvariant, PTL DEF BookInv

\* ClientContainer.Length is the number of clients in the container, however
\* Add and Remove are called, as long as no destroyed instance was used.
THEOREM LengthIsRight == Spec => []LengthIsSize
<1>1. BookInv => LengthIsSize
  BY DEF BookInv, SoundBooks, Counted, LengthIsSize
<1>2. QED
  BY <1>1, BookInvariant, PTL

\* A connection that the manager took over is closed or belongs to a client
\* that the current manager can find: Destroy and DestroyManager leave none
\* behind, as long as no destroyed instance was used.
THEOREM NoAdoptedConnectionLeaks == Spec => []AdoptedConnectionNotLeaked
<1>1. BookInv => AdoptedConnectionNotLeaked
  BY DEF BookInv, SoundBooks, NoneLeaked, Adopted, OnMount, AdoptedConnectionNotLeaked
<1>2. QED
  BY <1>1, BookInvariant, PTL
=============================================================================
