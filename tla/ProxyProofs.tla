---------------------------- MODULE ProxyProofs -----------------------------
(***************************************************************************)
(* Theorems about Proxy, for every set of clients and mountpoints and for  *)
(* every capacity: its types, and metadata: whose it is, wherever it is    *)
(* kept, and whose icecast is told about.                                  *)
(***************************************************************************)
EXTENDS Proxy, DataLemmas

-----------------------------------------------------------------------------
(***************************************************************************)
(* What the sequence operators of the model do.                            *)
(***************************************************************************)

\* Without keeps the type of a list.
LEMMA WithoutType ==
    ASSUME NEW S, NEW s \in Seq(S), NEW c \in S
    PROVE  Without(s, c) \in Seq(S)
<1>1. CASE c \notin ToSet(s)
  BY <1>1 DEF Without
<1>2. CASE c \in ToSet(s)
  <2>1. IndexIn(s, c) \in DOMAIN s
    BY <1>2 DEF IndexIn, ToSet
  <2>2. IndexIn(s, c) \in 1..Len(s)
    BY <2>1, LenProperties
  <2>3. /\ SubSeq(s, 1, IndexIn(s, c) - 1) \in Seq(S)
        /\ SubSeq(s, IndexIn(s, c) + 1, Len(s)) \in Seq(S)
    BY <2>2, SubSeqProperties, LenProperties
  <2>4. QED
    BY <1>2, <2>3, ConcatProperties DEF Without, RemoveAt
<1>3. QED
  BY <1>1, <1>2

\* The event handlers keep the type of a list.
LEMMA HandlersType ==
    ASSUME NEW S, NEW s \in Seq(S), NEW c \in S
    PROVE  /\ HandleClientConnect(s, c) \in Seq(S)
           /\ HandleClientDisconnect(s, c) \in Seq(S)
           /\ HandleClientLive(s, c) \in Seq(S)
<1>1. <<c>> \in Seq(S)
  OBVIOUS
<1>2. <<c>> \o Without(s, c) \in Seq(S)
  BY <1>1, WithoutType, ConcatProperties
<1>3. QED
  BY <1>2, WithoutType, AppendProperties
     DEF HandleClientConnect, HandleClientDisconnect, HandleClientLive

-----------------------------------------------------------------------------
(***************************************************************************)
(* Type correctness.  Not inductive on its own: a handler that is in the   *)
(* middle of its work relies on what it looked up before it blocked.       *)
(***************************************************************************)
LoopOK ==
    /\ pc \in {"stored", "connect", "remove", "swap", "disconnect", "collect"}
          => cur \in Clients
    /\ pc = "stored" => metaStore[Hash(cur)] # Nil
    /\ pc \in {"swap", "disconnect", "collect"} => MountFor(cur) # Nil
    /\ pc = "swap" => active[MountFor(cur)] \in Clients

TypeInv == TypeOK /\ LoopOK

\* A hash names a mountpoint, and belongs to a client's own mountpoint.
LEMMA HashType ==
    /\ \A h \in Hashes : h[2] \in MountNames
    /\ \A c \in Clients : Hash(c) \in Hashes /\ MountOf[c] \in MountNames
  BY ConstantsAssumption DEF Hashes, Hash

LEMMA TypeInit == Init => TypeInv
<1> SUFFICES ASSUME Init PROVE TypeInv
  OBVIOUS
<1>1. 0 \in 0..MaxPosts /\ 0 \in 0..MaxFatal
  BY ConstantsAssumption
<1>2. TypeOK
  <2>1. timers \in [Delayed -> Nat] /\ length \in [Clients -> Int]
    BY DEF Init
  <2>2. clientQueue \in [Clients -> Seq(Clients)] /\ handlerMounts \in [MountNames -> Seq(Clients)]
    BY DEF Init
  <2>3. /\ metaStore \in [Hashes -> Metadata \cup {Nil}]
        /\ song \in [Clients -> Metadata \cup {Nil}]
        /\ metadata \in [Clients -> Metadata]
    BY DEF Init, Metadata
  <2>4. /\ mounts \in [MountNames -> Clients \cup {Nil}]
        /\ byID \in [Clients -> SUBSET Clients]
        /\ active \in [Clients -> Clients \cup {Nil}]
    BY DEF Init
  <2>5. /\ shout \in [Clients -> {"none", "closed", "open", "freed"}]
        /\ source \in [Clients -> {"idle", "loaded", "queued", "adopted", "stranded"}]
        /\ conn \in [Clients -> {"none", "open", "closed"}]
        /\ reader \in [Clients -> {"none", "reading", "done"}]
    BY DEF Init
  <2>6. /\ receiver \in Seq(Clients) /\ mountCollector \in Seq(Clients)
        /\ metaChan \in Seq(MetaPack)
        /\ dataChan \in Seq(Clients) /\ errChan \in Seq(Clients)
    BY DEF Init
  <2>7. /\ staleTimer \in BOOLEAN /\ freedUse \in BOOLEAN
        /\ posts \in 0..MaxPosts /\ fatals \in 0..MaxFatal
    BY <1>1 DEF Init
  <2>8. QED
    BY <2>1, <2>2, <2>3, <2>4, <2>5, <2>6, <2>7 DEF Init, TypeOK
<1>3. LoopOK
  BY DEF Init, LoopOK
<1>4. QED
  BY <1>2, <1>3 DEF TypeInv

\* The steps of the HTTP handlers, the readers and the delaying goroutines.
LEMMA TypeSourceRequest ==
    ASSUME TypeInv, NEW c \in Clients, SourceRequest(c)
    PROVE  TypeInv'
  BY HashType
     DEF TypeInv, TypeOK, LoopOK, MountFor,
         SourceRequest,
         loopVars, chanVars, mountVars, metaVars, clientVars, handlerVars, faultVars

LEMMA TypeSendClient ==
    ASSUME TypeInv, NEW c \in Clients, SendClient(c)
    PROVE  TypeInv'
<1>1. receiver' \in Seq(Clients)
  <2>1. receiver \in Seq(Clients) /\ receiver' = Append(receiver, c)
    BY DEF SendClient, TypeInv, TypeOK
  <2>2. QED
    BY <2>1, AppendProperties
<1>2. source' \in [Clients -> {"idle", "loaded", "queued", "adopted", "stranded"}]
  BY DEF SendClient, TypeInv, TypeOK
<1>8. TypeOK'
  BY <1>1, <1>2 DEF SendClient, TypeInv, TypeOK, loopVars, chanVars, mountVars, metaVars,
     clientVars, handlerVars, faultVars
<1>9. LoopOK'
  BY <1>1, <1>2 DEF SendClient, TypeInv, LoopOK, MountFor, loopVars, chanVars, mountVars,
     metaVars, clientVars, handlerVars, faultVars
<1> QED
  BY <1>8, <1>9 DEF TypeInv

LEMMA TypeReadData ==
    ASSUME TypeInv, NEW c \in Clients, ReadData(c)
    PROVE  TypeInv'
<1>1. dataChan' \in Seq(Clients)
  <2>1. dataChan \in Seq(Clients) /\ dataChan' = Append(dataChan, c)
    BY DEF ReadData, TypeInv, TypeOK
  <2>2. QED
    BY <2>1, AppendProperties
<1>8. TypeOK'
  BY <1>1 DEF ReadData, TypeInv, TypeOK, loopVars, chanVars, mountVars, metaVars,
     clientVars, handlerVars, faultVars
<1>9. LoopOK'
  BY <1>1 DEF ReadData, TypeInv, LoopOK, MountFor, loopVars, chanVars, mountVars,
     metaVars, clientVars, handlerVars, faultVars
<1> QED
  BY <1>8, <1>9 DEF TypeInv

LEMMA TypeReadError ==
    ASSUME TypeInv, NEW c \in Clients, ReadError(c)
    PROVE  TypeInv'
<1>1. errChan' \in Seq(Clients)
  <2>1. errChan \in Seq(Clients) /\ errChan' = Append(errChan, c)
    BY DEF ReadError, PushError, TypeInv, TypeOK
  <2>2. QED
    BY <2>1, AppendProperties
<1>2. reader' \in [Clients -> {"none", "reading", "done"}]
  BY DEF ReadError, TypeInv, TypeOK
<1>8. TypeOK'
  BY <1>1, <1>2 DEF ReadError, TypeInv, TypeOK, loopVars, chanVars, mountVars, metaVars,
     clientVars, handlerVars, faultVars
<1>9. LoopOK'
  BY <1>1, <1>2 DEF ReadError, TypeInv, LoopOK, MountFor, loopVars, chanVars, mountVars,
     metaVars, clientVars, handlerVars, faultVars
<1> QED
  BY <1>8, <1>9 DEF TypeInv

LEMMA TypeAdmin ==
    ASSUME TypeInv, AdminListBegin \/ AdminListEnd
    PROVE  TypeInv'
<1>1. handlerLock' \in {"free", "admin", "leaked"}
  BY DEF AdminListBegin, AdminListEnd
<1>8. TypeOK'
  BY <1>1 DEF AdminListBegin, AdminListEnd, TypeInv, TypeOK, loopVars, chanVars,
     mountVars, metaVars, clientVars, handlerVars, faultVars
<1>9. LoopOK'
  BY <1>1 DEF AdminListBegin, AdminListEnd, TypeInv, LoopOK, MountFor, loopVars, chanVars,
     mountVars, metaVars, clientVars, handlerVars, faultVars
<1> QED
  BY <1>8, <1>9 DEF TypeInv

LEMMA TypeKick ==
    ASSUME TypeInv, NEW n \in MountNames, NEW num \in AdminNums,
           Kick(n, num) \/ KickOutOfRange(n, num)
    PROVE  TypeInv'
<1>1. conn' \in [Clients -> {"none", "open", "closed"}]
  <2>1. \/ conn' = conn
        \/ \E x : conn' = [conn EXCEPT ![x] = "closed"]
    BY DEF Kick, KickOutOfRange, clientVars
  <2>2. QED
    BY <2>1 DEF TypeInv, TypeOK
<1>2. handlerLock' \in {"free", "admin", "leaked"}
  BY DEF Kick, KickOutOfRange, handlerVars, TypeInv, TypeOK
<1>8. TypeOK'
  <2>1. CASE Kick(n, num)
    BY <1>1, <2>1 DEF Kick, TypeInv, TypeOK, loopVars, chanVars, mountVars, metaVars,
       clientVars, handlerVars, faultVars
  <2>2. CASE KickOutOfRange(n, num)
    BY <1>2, <2>2 DEF KickOutOfRange, TypeInv, TypeOK, loopVars, chanVars, mountVars,
       metaVars, clientVars, handlerVars, faultVars
  <2>3. QED
    BY <2>1, <2>2
<1>9. LoopOK'
  BY <1>1, <1>2 DEF Kick, KickOutOfRange, TypeInv, LoopOK, MountFor, loopVars, chanVars,
     mountVars, metaVars, clientVars, handlerVars, faultVars
<1> QED
  BY <1>8, <1>9 DEF TypeInv

LEMMA TypePostMetadata ==
    ASSUME TypeInv, NEW h \in Hashes, PostMetadata(h)
    PROVE  TypeInv'
<1>1. posts' \in 0..MaxPosts /\ posts + 1 \in 1..MaxPosts
  BY ConstantsAssumption DEF PostMetadata, TypeInv, TypeOK
<1>2. [data |-> [owner |-> h, n |-> posts + 1], id |-> h, seen |-> FALSE] \in MetaPack
  BY <1>1 DEF MetaPack, Metadata, Song
<1>3. metaChan' \in Seq(MetaPack)
  BY <1>2, AppendProperties DEF PostMetadata, TypeInv, TypeOK
<1>8. TypeOK'
  BY <1>1, <1>3 DEF PostMetadata, TypeInv, TypeOK,
     loopVars, chanVars, mountVars, metaVars, clientVars, handlerVars, faultVars
<1>9. LoopOK'
  BY <1>1, <1>3 DEF PostMetadata, TypeInv, TypeOK, LoopOK, MountFor, loopVars, chanVars,
     mountVars, metaVars, clientVars, handlerVars, faultVars
<1> QED
  BY <1>8, <1>9 DEF TypeInv

LEMMA TypeResendMetadata ==
    ASSUME TypeInv, NEW d \in Delayed, ResendMetadata(d)
    PROVE  TypeInv'
<1>1. timers' \in [Delayed -> Nat]
  BY DEF ResendMetadata, TypeInv, TypeOK
<1>2. [data |-> d.data, id |-> d.id, seen |-> TRUE] \in MetaPack
  BY DEF MetaPack, Delayed
<1>3. metaChan' \in Seq(MetaPack)
  BY <1>2, AppendProperties DEF ResendMetadata, TypeInv, TypeOK
<1>8. TypeOK'
  BY <1>1, <1>3 DEF ResendMetadata, TypeInv, TypeOK,
     loopVars, chanVars, mountVars, metaVars, clientVars, handlerVars, faultVars
<1>9. LoopOK'
  BY <1>1, <1>3 DEF ResendMetadata, TypeInv, TypeOK, LoopOK, MountFor, loopVars, chanVars,
     mountVars, metaVars, clientVars, handlerVars, faultVars
<1> QED
  BY <1>8, <1>9 DEF TypeInv

LEMMA TypeStaleTimerFires ==
    ASSUME TypeInv, StaleTimerFires
    PROVE  TypeInv'
  BY HashType
     DEF TypeInv, TypeOK, LoopOK, MountFor,
         StaleTimerFires,
         loopVars, chanVars, mountVars, metaVars, clientVars, handlerVars, faultVars

\* The steps of the manager that concern clients.
LEMMA TypeAddFirstClient ==
    ASSUME TypeInv, AddFirstClient
    PROVE  TypeInv'
<1> DEFINE c == Head(receiver)
<1>1. c \in Clients /\ receiver' \in Seq(Clients) /\ MountOf[c] \in MountNames
  BY HashType, ReceiveType DEF AddFirstClient, TakeClient, TypeInv, TypeOK
<1>2. /\ mounts' \in [MountNames -> Clients \cup {Nil}]
      /\ byID' \in [Clients -> SUBSET Clients]
      /\ length' \in [Clients -> Int]
      /\ active' \in [Clients -> Clients \cup {Nil}]
  BY <1>1 DEF AddFirstClient, TypeInv, TypeOK
<1>3. /\ source' \in [Clients -> {"idle", "loaded", "queued", "adopted", "stranded"}]
      /\ shout' \in [Clients -> {"none", "closed", "open", "freed"}]
      /\ cur' = c
      /\ pc' \in {"stored", "connect"}
  BY <1>1 DEF AddFirstClient, TakeClient, TypeInv, TypeOK
<1>8. TypeOK'
  BY <1>1, <1>2, <1>3 DEF AddFirstClient, HasStoredMetadata, TypeInv, TypeOK,
     loopVars, chanVars, mountVars, metaVars, clientVars, handlerVars, faultVars
<1>9. LoopOK'
  BY <1>1, <1>2, <1>3 DEF AddFirstClient, HasStoredMetadata, TypeInv, TypeOK, LoopOK,
     MountFor, loopVars, chanVars, mountVars, metaVars, clientVars, handlerVars, faultVars
<1> QED
  BY <1>8, <1>9 DEF TypeInv

LEMMA TypeSendStoredMetadata ==
    ASSUME TypeInv, SendStoredMetadata
    PROVE  TypeInv'
<1>1. cur \in Clients /\ metaStore[Hash(cur)] \in Metadata
  BY HashType DEF SendStoredMetadata, TypeInv, TypeOK, LoopOK
<1>2. [data |-> metaStore[Hash(cur)], id |-> Hash(cur), seen |-> FALSE] \in MetaPack
  BY <1>1, HashType DEF MetaPack
<1>3. metaChan' \in Seq(MetaPack)
  BY <1>2, AppendProperties DEF SendStoredMetadata, TypeInv, TypeOK
<1>8. TypeOK'
  BY <1>1, <1>3 DEF SendStoredMetadata, TypeInv, TypeOK,
     loopVars, chanVars, mountVars, metaVars, clientVars, handlerVars, faultVars
<1>9. LoopOK'
  BY <1>1, <1>3 DEF SendStoredMetadata, TypeInv, TypeOK, LoopOK, MountFor, loopVars,
     chanVars, mountVars, metaVars, clientVars, handlerVars, faultVars
<1> QED
  BY <1>8, <1>9 DEF TypeInv

LEMMA TypeAddWaitingClient ==
    ASSUME TypeInv, AddWaitingClient
    PROVE  TypeInv'
<1> DEFINE c == Head(receiver)
           m == MountFor(c)
<1>1. /\ c \in Clients /\ receiver' \in Seq(Clients) /\ MountOf[c] \in MountNames
      /\ m \in Clients
  BY HashType, ReceiveType DEF AddWaitingClient, TakeClient, TypeInv, TypeOK, MountFor
<1>2. /\ byID' = [byID EXCEPT ![m] = @ \cup {c}]
      /\ length' = [length EXCEPT ![m] = @ + 1]
      /\ source' = [source EXCEPT ![c] = "adopted"]
      /\ cur' = c
      /\ \/ clientQueue' = [clientQueue EXCEPT ![m] = Append(@, c)] /\ pc' = "connect"
         \/ clientQueue' = clientQueue /\ pc' = "remove"
  BY DEF AddWaitingClient, TakeClient
<1>3. /\ byID' \in [Clients -> SUBSET Clients]
      /\ length' \in [Clients -> Int]
      /\ source' \in [Clients -> {"idle", "loaded", "queued", "adopted", "stranded"}]
  <2>1. byID \in [Clients -> SUBSET Clients] /\ byID[m] \cup {c} \in SUBSET Clients
    BY <1>1 DEF TypeInv, TypeOK
  <2>2. byID' \in [Clients -> SUBSET Clients]
    BY <1>1, <1>2, <2>1
  <2>3. length \in [Clients -> Int]
    BY DEF TypeInv, TypeOK
  <2>4. length' \in [Clients -> Int]
    BY <1>1, <1>2, <2>3
  <2>5. source' \in [Clients -> {"idle", "loaded", "queued", "adopted", "stranded"}]
    BY <1>1, <1>2 DEF TypeInv, TypeOK
  <2>6. QED
    BY <2>2, <2>4, <2>5
<1>4. clientQueue' \in [Clients -> Seq(Clients)]
  <2>1. clientQueue \in [Clients -> Seq(Clients)] /\ Append(clientQueue[m], c) \in Seq(Clients)
    BY <1>1, AppendProperties DEF TypeInv, TypeOK
  <2>2. QED
    BY <1>1, <1>2, <2>1
<1>8. TypeOK'
  BY <1>1, <1>2, <1>3, <1>4 DEF AddWaitingClient, TypeInv, TypeOK,
     loopVars, chanVars, mountVars, metaVars, clientVars, handlerVars, faultVars
<1>9. LoopOK'
  BY <1>1, <1>2, <1>3, <1>4 DEF AddWaitingClient, TypeInv, TypeOK, LoopOK, MountFor,
     loopVars, chanVars, mountVars, metaVars, clientVars, handlerVars, faultVars
<1> QED
  BY <1>8, <1>9 DEF TypeInv

LEMMA TypeConnectClient ==
    ASSUME TypeInv, ConnectClient
    PROVE  TypeInv'
  BY HashType, HandlersType
     DEF TypeInv, TypeOK, LoopOK, MountFor,
         ConnectClient,
         loopVars, chanVars, mountVars, metaVars, clientVars, handlerVars, faultVars

LEMMA TypeReceiveError ==
    ASSUME TypeInv, ReceiveError
    PROVE  TypeInv'
  BY HashType, ReceiveType
     DEF TypeInv, TypeOK, LoopOK, MountFor,
         ReceiveError,
         loopVars, chanVars, mountVars, metaVars, clientVars, handlerVars, faultVars

LEMMA TypeUnknown ==
    ASSUME TypeInv, RemoveFromUnknownMount
    PROVE  TypeInv'
  BY HashType
     DEF TypeInv, TypeOK, LoopOK, MountFor,
         RemoveFromUnknownMount,
         loopVars, chanVars, mountVars, metaVars, clientVars, handlerVars, faultVars

LEMMA TypeRemoveWaiting ==
    ASSUME TypeInv, RemoveWaitingClient
    PROVE  TypeInv'
<1> DEFINE m == MountFor(cur)
<1>1. cur \in Clients /\ m \in Clients
  BY HashType DEF RemoveWaitingClient, TypeInv, TypeOK, LoopOK, MountFor
<1>2. /\ byID' \in [Clients -> SUBSET Clients]
      /\ length' \in [Clients -> Int]
      /\ conn' \in [Clients -> {"none", "open", "closed"}]
  BY <1>1 DEF RemoveWaitingClient, Detach, TypeInv, TypeOK
<1>4. TypeOK'
  BY <1>1, <1>2 DEF RemoveWaitingClient, Detach, TypeInv, TypeOK,
     loopVars, chanVars, mountVars, metaVars, clientVars, handlerVars, faultVars
<1>5. LoopOK'
  BY <1>1, ConstantsAssumption DEF RemoveWaitingClient, Detach, LoopOK, MountFor
<1>6. QED
  BY <1>4, <1>5 DEF TypeInv

LEMMA TypeRemoveLast ==
    ASSUME TypeInv, RemoveLastLiveClient
    PROVE  TypeInv'
<1> DEFINE m == MountFor(cur)
<1>1. cur \in Clients /\ m \in Clients
  BY HashType DEF RemoveLastLiveClient, TypeInv, TypeOK, LoopOK, MountFor
<1>2. /\ byID' \in [Clients -> SUBSET Clients]
      /\ length' \in [Clients -> Int]
      /\ conn' \in [Clients -> {"none", "open", "closed"}]
  BY <1>1 DEF RemoveLastLiveClient, Detach, TypeInv, TypeOK
<1>3. clientQueue' \in [Clients -> Seq(Clients)]
  BY <1>1 DEF RemoveLastLiveClient, TypeInv, TypeOK
<1>4. TypeOK'
  BY <1>1, <1>2, <1>3 DEF RemoveLastLiveClient, Detach, TypeInv, TypeOK,
     loopVars, chanVars, mountVars, metaVars, clientVars, handlerVars, faultVars
<1>5. LoopOK'
  BY <1>1, ConstantsAssumption DEF RemoveLastLiveClient, Detach, LoopOK, MountFor
<1>6. QED
  BY <1>4, <1>5 DEF TypeInv

LEMMA TypeSwapLiveClient ==
    ASSUME TypeInv, SwapLiveClient
    PROVE  TypeInv'
<1> DEFINE m == MountFor(cur)
<1>1. cur \in Clients /\ m \in Clients /\ MountOf[cur] \in MountNames
  BY HashType DEF SwapLiveClient, TypeInv, TypeOK, LoopOK, MountFor
<1>2. PICK i \in NextInLine(m) :
         /\ clientQueue' = [clientQueue EXCEPT ![m] = QueueAfter(m, i)]
         /\ active' = [active EXCEPT ![m] = clientQueue[m][i]]
         /\ handlerMounts' = [handlerMounts EXCEPT ![MountOf[cur]] =
                                 HandleClientLive(@, clientQueue[m][i])]
  BY DEF SwapLiveClient
<1>3. clientQueue[m] \in Seq(Clients)
  BY <1>1 DEF TypeInv, TypeOK
<1>4. i \in 1..Len(clientQueue[m]) /\ clientQueue[m][i] \in Clients
  BY <1>3, LenProperties, ElementOfSeq DEF NextInLine, Successors
<1>5. QueueAfter(m, i) \in Seq(Clients)
  BY <1>3, <1>4, SubSeqProperties, LenProperties DEF QueueAfter
<1>6. /\ clientQueue' \in [Clients -> Seq(Clients)]
      /\ active' \in [Clients -> Clients \cup {Nil}]
      /\ active'[m] \in Clients
  BY <1>1, <1>2, <1>4, <1>5 DEF TypeInv, TypeOK
<1>7. handlerMounts' \in [MountNames -> Seq(Clients)]
  BY <1>1, <1>2, <1>4, HandlersType DEF TypeInv, TypeOK
<1>8. TypeOK'
  BY <1>1, <1>6, <1>7 DEF SwapLiveClient, TypeInv, TypeOK,
     loopVars, chanVars, mountVars, metaVars, clientVars, handlerVars, faultVars
<1>9. LoopOK'
  BY <1>1, <1>6, <1>7 DEF SwapLiveClient, TypeInv, TypeOK, LoopOK, MountFor, loopVars,
     chanVars, mountVars, metaVars, clientVars, handlerVars, faultVars
<1> QED
  BY <1>8, <1>9 DEF TypeInv

LEMMA TypeSwapRacesAdmin ==
    ASSUME TypeInv, SwapRacesAdmin
    PROVE  TypeInv'
  BY HashType
     DEF TypeInv, TypeOK, LoopOK, MountFor,
         SwapRacesAdmin,
         loopVars, chanVars, mountVars, metaVars, clientVars, handlerVars, faultVars

LEMMA TypeSendSwapMetadata ==
    ASSUME TypeInv, SendSwapMetadata
    PROVE  TypeInv'
<1> DEFINE m == MountFor(cur)
<1>1. cur \in Clients /\ m \in Clients
  BY HashType DEF SendSwapMetadata, TypeInv, TypeOK, LoopOK, MountFor
<1>2. /\ byID' \in [Clients -> SUBSET Clients]
      /\ length' \in [Clients -> Int]
      /\ conn' \in [Clients -> {"none", "open", "closed"}]
  BY <1>1 DEF SendSwapMetadata, Detach, TypeInv, TypeOK
<1>3. metaChan' \in Seq(MetaPack)
  <2>1. active[m] \in Clients /\ metadata[active[m]] \in Metadata
    BY <1>1 DEF SendSwapMetadata, TypeInv, TypeOK, LoopOK
  <2>2. [data |-> metadata[active[m]], id |-> Hash(active[m]), seen |-> FALSE] \in MetaPack
    BY <2>1, HashType DEF MetaPack
  <2>3. metaChan \in Seq(MetaPack)
    BY DEF TypeInv, TypeOK
  <2>4. QED
    BY <2>2, <2>3, AppendProperties DEF SendSwapMetadata
<1>4. TypeOK'
  BY <1>1, <1>2, <1>3 DEF SendSwapMetadata, Detach, TypeInv, TypeOK,
     loopVars, chanVars, mountVars, metaVars, clientVars, handlerVars, faultVars
<1>5. LoopOK'
  BY <1>1, ConstantsAssumption DEF SendSwapMetadata, Detach, LoopOK, MountFor
<1>6. QED
  BY <1>4, <1>5 DEF TypeInv

LEMMA TypeDisconnectClient ==
    ASSUME TypeInv, DisconnectClient
    PROVE  TypeInv'
<1>1. cur \in Clients /\ MountOf[cur] \in MountNames /\ MountFor(cur) \in Clients
  BY HashType DEF DisconnectClient, TypeInv, TypeOK, LoopOK, MountFor
<1>2. handlerMounts' \in [MountNames -> Seq(Clients)]
  <2>1. /\ handlerMounts \in [MountNames -> Seq(Clients)]
        /\ HandleClientDisconnect(handlerMounts[MountOf[cur]], cur) \in Seq(Clients)
    BY <1>1, HandlersType DEF TypeInv, TypeOK
  <2>2. QED
    BY <1>1, <2>1 DEF DisconnectClient
<1>3. /\ pc' \in {"collect", "select"}
      /\ pc' = "collect" => cur' = cur
      /\ cur' \in Clients \cup {Nil}
      /\ handlerLock' \in {"free", "leaked"}
  BY <1>1 DEF DisconnectClient
<1>8. TypeOK'
  BY <1>1, <1>2, <1>3 DEF DisconnectClient, TypeInv, TypeOK,
     loopVars, chanVars, mountVars, metaVars, clientVars, handlerVars, faultVars
<1>9. LoopOK'
  BY <1>1, <1>2, <1>3 DEF DisconnectClient, TypeInv, TypeOK, LoopOK, MountFor, loopVars,
     chanVars, mountVars, metaVars, clientVars, handlerVars, faultVars
<1> QED
  BY <1>8, <1>9 DEF TypeInv

LEMMA TypeRegisterEmptyMount ==
    ASSUME TypeInv, RegisterEmptyMount
    PROVE  TypeInv'
<1>1. cur \in Clients /\ MountFor(cur) \in Clients
  BY HashType DEF RegisterEmptyMount, TypeInv, TypeOK, LoopOK, MountFor
<1>2. mountCollector' \in Seq(Clients)
  <2>1. /\ mountCollector \in Seq(Clients)
        /\ mountCollector' = Append(mountCollector, MountFor(cur))
    BY DEF RegisterEmptyMount, TypeInv, TypeOK
  <2>2. QED
    BY <1>1, <2>1, AppendProperties
<1>8. TypeOK'
  BY <1>2 DEF RegisterEmptyMount, TypeInv, TypeOK, loopVars, chanVars, mountVars,
     metaVars, clientVars, handlerVars, faultVars
<1>9. LoopOK'
  BY <1>2 DEF RegisterEmptyMount, TypeInv, LoopOK, MountFor, loopVars, chanVars,
     mountVars, metaVars, clientVars, handlerVars, faultVars
<1> QED
  BY <1>8, <1>9 DEF TypeInv

LEMMA TypeAbortCollection ==
    ASSUME TypeInv, AbortCollection
    PROVE  TypeInv'
  BY HashType, ReceiveType
     DEF TypeInv, TypeOK, LoopOK, MountFor,
         AbortCollection, TakeMount,
         loopVars, chanVars, mountVars, metaVars, clientVars, handlerVars, faultVars

LEMMA TypeCollectMount ==
    ASSUME TypeInv, CollectMount
    PROVE  TypeInv'
<1>1. /\ Head(mountCollector) \in Clients
      /\ mountCollector' \in Seq(Clients)
      /\ MountOf[Head(mountCollector)] \in MountNames
  BY HashType, ReceiveType DEF CollectMount, TakeMount, TypeInv, TypeOK
<1>2. /\ mounts' \in [MountNames -> Clients \cup {Nil}]
      /\ conn' \in [Clients -> {"none", "open", "closed"}]
      /\ shout' \in [Clients -> {"none", "closed", "open", "freed"}]
      /\ pc' \in {"select", "crashed"}
  <2>1. CASE UNCHANGED <<mounts, conn, shout>> /\ pc' = "crashed"
    BY <2>1 DEF TypeInv, TypeOK
  <2>2. CASE /\ Deregister(Head(mountCollector))
             /\ conn' = [c \in Clients |-> IF c \in byID[Head(mountCollector)] THEN "closed"
                                           ELSE conn[c]]
             /\ shout' = [shout EXCEPT ![Head(mountCollector)] = "freed"]
             /\ pc' = pc
    BY <1>1, <2>2 DEF CollectMount, TakeMount, Deregister, TypeInv, TypeOK
  <2>3. QED
    BY <2>1, <2>2 DEF CollectMount
<1>3. freedUse' \in BOOLEAN
  BY DEF CollectMount
<1>8. TypeOK'
  BY <1>1, <1>2, <1>3 DEF CollectMount, TypeInv, TypeOK,
     loopVars, chanVars, mountVars, metaVars, clientVars, handlerVars, faultVars
<1>9. LoopOK'
  BY <1>1, <1>2, <1>3 DEF CollectMount, TypeInv, TypeOK, LoopOK, MountFor, loopVars,
     chanVars, mountVars, metaVars, clientVars, handlerVars, faultVars
<1> QED
  BY <1>8, <1>9 DEF TypeInv

\* The steps of the manager that concern data and metadata, and the restart.
LEMMA TypeDiscardData ==
    ASSUME TypeInv, DiscardData
    PROVE  TypeInv'
  BY HashType, ReceiveType
     DEF TypeInv, TypeOK, LoopOK, MountFor,
         DiscardData, TakeData,
         loopVars, chanVars, mountVars, metaVars, clientVars, handlerVars, faultVars

LEMMA TypeHandleData ==
    ASSUME TypeInv, HandleData
    PROVE  TypeInv'
<1>1. /\ Head(dataChan) \in Clients
      /\ dataChan' \in Seq(Clients)
      /\ MountFor(Head(dataChan)) \in Clients
  BY HashType, ReceiveType DEF HandleData, TakeData, TypeInv, TypeOK, MountFor
<1>2. shout' \in [Clients -> {"none", "closed", "open", "freed"}]
  <2>1. \E x \in {"open", "closed"} : shout' = [shout EXCEPT ![MountFor(Head(dataChan))] = x]
    BY DEF HandleData
  <2>2. QED
    BY <1>1, <2>1 DEF TypeInv, TypeOK
<1>3. pc' \in {"select", "panic"}
  BY DEF HandleData, TakeData
<1>4. fatals' \in 0..MaxFatal
  <2>1. fatals' = fatals \/ (fatals < MaxFatal /\ fatals' = fatals + 1)
    BY DEF HandleData
  <2>2. fatals \in 0..MaxFatal /\ MaxFatal \in Nat
    BY ConstantsAssumption DEF TypeInv, TypeOK
  <2>3. QED
    BY <2>1, <2>2
<1>8. TypeOK'
  BY <1>1, <1>2, <1>3, <1>4 DEF HandleData, TypeInv, TypeOK,
     loopVars, chanVars, mountVars, metaVars, clientVars, handlerVars, faultVars
<1>9. LoopOK'
  BY <1>1, <1>2, <1>3, <1>4 DEF HandleData, TypeInv, TypeOK, LoopOK, MountFor, loopVars,
     chanVars, mountVars, metaVars, clientVars, handlerVars, faultVars
<1> QED
  BY <1>8, <1>9 DEF TypeInv

LEMMA TypeStoreMetadata ==
    ASSUME TypeInv, StoreMetadata
    PROVE  TypeInv'
<1> DEFINE p == Head(metaChan)
<1>1. p \in MetaPack /\ metaChan' \in Seq(MetaPack) /\ pc = "select"
  BY ReceiveType DEF StoreMetadata, TakeMeta, TypeInv, TypeOK
<1>2. p.data \in Metadata /\ p.id \in Hashes /\ p.id[2] \in MountNames
  BY <1>1, HashType DEF MetaPack
<1>3. metaStore' \in [Hashes -> Metadata \cup {Nil}]
  BY <1>2 DEF StoreMetadata, TypeInv, TypeOK
<1>8. TypeOK'
  BY <1>1, <1>3 DEF StoreMetadata, TypeInv, TypeOK,
     loopVars, chanVars, mountVars, metaVars, clientVars, handlerVars, faultVars
<1>9. LoopOK'
  BY <1>1, <1>3 DEF StoreMetadata, TypeInv, TypeOK, LoopOK, MountFor, loopVars, chanVars,
     mountVars, metaVars, clientVars, handlerVars, faultVars
<1> QED
  BY <1>8, <1>9 DEF TypeInv

LEMMA TypeDiscardMetadata ==
    ASSUME TypeInv, DiscardMetadata
    PROVE  TypeInv'
  BY HashType, ReceiveType
     DEF TypeInv, TypeOK, LoopOK, MountFor,
         DiscardMetadata, TakeMeta,
         loopVars, chanVars, mountVars, metaVars, clientVars, handlerVars, faultVars

LEMMA TypeSaveMetadata ==
    ASSUME TypeInv, SaveMetadata
    PROVE  TypeInv'
<1> DEFINE p == Head(metaChan)
<1>1. p \in MetaPack /\ metaChan' \in Seq(MetaPack) /\ pc = "select"
  BY ReceiveType DEF SaveMetadata, TakeMeta, TypeInv, TypeOK
<1>2. p.data \in Metadata /\ p.id \in Hashes /\ p.id[2] \in MountNames
  BY <1>1, HashType DEF MetaPack
<1>3. metadata' \in [Clients -> Metadata]
  <2>1. PICK c \in GetByHash(mounts[p.id[2]], p.id) :
           metadata' = [metadata EXCEPT ![c] = p.data]
    BY DEF SaveMetadata
  <2>2. QED
    BY <1>2, <2>1 DEF TypeInv, TypeOK
<1>8. TypeOK'
  BY <1>1, <1>3 DEF SaveMetadata, TypeInv, TypeOK,
     loopVars, chanVars, mountVars, metaVars, clientVars, handlerVars, faultVars
<1>9. LoopOK'
  BY <1>1, <1>3 DEF SaveMetadata, TypeInv, TypeOK, LoopOK, MountFor, loopVars, chanVars,
     mountVars, metaVars, clientVars, handlerVars, faultVars
<1> QED
  BY <1>8, <1>9 DEF TypeInv

LEMMA TypeDelayMetadata ==
    ASSUME TypeInv, DelayMetadata
    PROVE  TypeInv'
<1> DEFINE p == Head(metaChan)
<1>1. p \in MetaPack /\ metaChan' \in Seq(MetaPack) /\ pc = "select"
  BY ReceiveType DEF DelayMetadata, TakeMeta, TypeInv, TypeOK
<1>2. p.data \in Metadata /\ p.id \in Hashes /\ p.id[2] \in MountNames
  BY <1>1, HashType DEF MetaPack
<1>3. metadata' \in [Clients -> Metadata]
  <2>1. PICK c \in GetByHash(mounts[p.id[2]], p.id) :
           metadata' = [metadata EXCEPT ![c] = p.data]
    BY DEF DelayMetadata
  <2>2. QED
    BY <1>2, <2>1 DEF TypeInv, TypeOK
<1>4. timers' \in [Delayed -> Nat]
  <2>1. [data |-> p.data, id |-> p.id] \in Delayed
    BY <1>2 DEF Delayed
  <2>2. timers' = [timers EXCEPT ![[data |-> p.data, id |-> p.id]] = @ + 1]
    BY DEF DelayMetadata
  <2>3. QED
    BY <2>1, <2>2 DEF TypeInv, TypeOK
<1>8. TypeOK'
  BY <1>1, <1>3, <1>4 DEF DelayMetadata, TypeInv, TypeOK,
     loopVars, chanVars, mountVars, metaVars, clientVars, handlerVars, faultVars
<1>9. LoopOK'
  BY <1>1, <1>3, <1>4 DEF DelayMetadata, TypeInv, TypeOK, LoopOK, MountFor, loopVars,
     chanVars, mountVars, metaVars, clientVars, handlerVars, faultVars
<1> QED
  BY <1>8, <1>9 DEF TypeInv

LEMMA TypeSendMetadata ==
    ASSUME TypeInv, SendMetadata
    PROVE  TypeInv'
<1> DEFINE p == Head(metaChan)
<1>1. p \in MetaPack /\ metaChan' \in Seq(MetaPack) /\ pc = "select"
  BY ReceiveType DEF SendMetadata, TakeMeta, TypeInv, TypeOK
<1>2. p.data \in Metadata /\ p.id \in Hashes /\ p.id[2] \in MountNames
  BY <1>1, HashType DEF MetaPack
<1>3. metadata' \in [Clients -> Metadata]
  <2>1. PICK c \in GetByHash(mounts[p.id[2]], p.id) :
           metadata' = [metadata EXCEPT ![c] = p.data]
    BY DEF SendMetadata
  <2>2. QED
    BY <1>2, <2>1 DEF TypeInv, TypeOK
<1>4. song' \in [Clients -> Metadata \cup {Nil}]
  BY <1>2 DEF SendMetadata, TypeInv, TypeOK
<1>8. TypeOK'
  BY <1>1, <1>3, <1>4 DEF SendMetadata, TypeInv, TypeOK,
     loopVars, chanVars, mountVars, metaVars, clientVars, handlerVars, faultVars
<1>9. LoopOK'
  BY <1>1, <1>3, <1>4 DEF SendMetadata, TypeInv, TypeOK, LoopOK, MountFor, loopVars,
     chanVars, mountVars, metaVars, clientVars, handlerVars, faultVars
<1> QED
  BY <1>8, <1>9 DEF TypeInv

LEMMA TypeForget ==
    ASSUME TypeInv, ForgetStoredMetadata
    PROVE  TypeInv'
  BY HashType
     DEF TypeInv, TypeOK, LoopOK, MountFor,
         ForgetStoredMetadata,
         loopVars, chanVars, mountVars, metaVars, clientVars, handlerVars, faultVars

LEMMA TypeRestart ==
    ASSUME TypeInv, Restart
    PROVE  TypeInv'
  BY HashType
     DEF TypeInv, TypeOK, LoopOK, MountFor,
         Restart, NewMounts, NewErrors, DestroyMounts,
         loopVars, chanVars, mountVars, metaVars, clientVars, handlerVars, faultVars

LEMMA TypeNext ==
    ASSUME TypeInv, [Next]_vars
    PROVE  TypeInv'
<1>1. CASE UNCHANGED vars
  BY <1>1 DEF TypeInv, TypeOK, LoopOK, MountFor, vars, loopVars, chanVars, mountVars,
     metaVars, clientVars, handlerVars, faultVars
<1>2. CASE ManagerStep
  BY <1>2, TypeAddFirstClient, TypeSendStoredMetadata, TypeAddWaitingClient,
     TypeConnectClient, TypeReceiveError, TypeUnknown, TypeRemoveWaiting, TypeRemoveLast,
     TypeSwapLiveClient, TypeSwapRacesAdmin, TypeSendSwapMetadata, TypeDisconnectClient,
     TypeRegisterEmptyMount, TypeAbortCollection, TypeCollectMount, TypeDiscardData,
     TypeHandleData, TypeStoreMetadata, TypeDiscardMetadata, TypeSaveMetadata,
     TypeDelayMetadata, TypeSendMetadata, TypeForget, TypeRestart
     DEF ManagerStep
<1>3. CASE OtherStep
  BY <1>3, TypeSourceRequest, TypeSendClient, TypeReadData, TypeReadError, TypeAdmin,
     TypeKick, TypePostMetadata, TypeResendMetadata, TypeStaleTimerFires
     DEF OtherStep
<1>4. QED
  BY <1>1, <1>2, <1>3 DEF Next

LEMMA TypeInvariant == Spec => []TypeInv
  BY TypeInit, TypeNext, PTL DEF Spec

\* Every variable keeps the type of the Go value it stands for, in every
\* execution of the proxy; in particular no handler of the loop uses a mount,
\* a client or stored metadata that is not there.
THEOREM TypeCorrect == Spec => []TypeOK
  BY TypeInvariant, PTL DEF TypeInv

-----------------------------------------------------------------------------
(***************************************************************************)
(* What is saved comes from a packet, so the packets have to be covered    *)
(* too: those in MetaChan, and those that a delaying goroutine holds while *)
(* the mount may change hands.                                             *)
(***************************************************************************)
Owned(data, h) == data # Empty => data.owner = h

PacketsOwned == \A p \in ToSet(metaChan) : Owned(p.data, p.id)
DelayedOwned == \A d \in Delayed : timers[d] > 0 => Owned(d.data, d.id)

MetaInv == PacketsOwned /\ DelayedOwned /\ MetadataStaysWithOwner

-----------------------------------------------------------------------------
\* A packet that says whose it is joins the others.
LEMMA PacketSent ==
    ASSUME TypeInv, PacketsOwned, NEW p \in MetaPack, Owned(p.data, p.id),
           metaChan' = Append(metaChan, p)
    PROVE  PacketsOwned'
  BY SendMembers DEF PacketsOwned, TypeInv, TypeOK

\* The packet that the manager takes says whose it is, like those it leaves.
LEMMA PacketTaken ==
    ASSUME TypeInv, PacketsOwned, TakeMeta
    PROVE  /\ PacketsOwned'
           /\ Head(metaChan) \in MetaPack
           /\ Owned(Head(metaChan).data, Head(metaChan).id)
<1>1. metaChan \in Seq(MetaPack) /\ metaChan # <<>> /\ metaChan' = Tail(metaChan)
  BY DEF TakeMeta, TypeInv, TypeOK
<1>2. QED
  BY <1>1, ReceiveMembers, ReceiveType DEF PacketsOwned

\* The client whose Metadata is assigned is one of the sender.
LEMMA SavedOwned ==
    ASSUME TypeInv, MetaInv, NEW p \in MetaPack, Owned(p.data, p.id), NEW m \in Clients,
           \E c \in GetByHash(m, p.id) : metadata' = [metadata EXCEPT ![c] = p.data],
           metaStore' = metaStore
    PROVE  MetadataStaysWithOwner'
<1>1. PICK c \in GetByHash(m, p.id) : metadata' = [metadata EXCEPT ![c] = p.data]
  OBVIOUS
<1>2. c \in Clients /\ Hash(c) = p.id
  BY <1>1 DEF GetByHash, TypeInv, TypeOK
<1>3. metadata \in [Clients -> Metadata]
  BY DEF TypeInv, TypeOK
<1>4. QED
  BY <1>1, <1>2, <1>3 DEF MetaInv, MetadataStaysWithOwner, Owned

LEMMA MetaSenders ==
    ASSUME TypeInv, MetaInv,
           \/ SendStoredMetadata \/ SendSwapMetadata
           \/ \E h \in Hashes : PostMetadata(h)
           \/ \E d \in Delayed : ResendMetadata(d)
    PROVE  MetaInv'
<1>1. CASE SendStoredMetadata
  <2>1. cur \in Clients /\ Hash(cur) \in Hashes /\ metaStore[Hash(cur)] \in Metadata
    BY <1>1, HashType DEF SendStoredMetadata, TypeInv, TypeOK, LoopOK
  <2>2. /\ [data |-> metaStore[Hash(cur)], id |-> Hash(cur), seen |-> FALSE] \in MetaPack
        /\ Owned(metaStore[Hash(cur)], Hash(cur))
    <3>1. metaStore[Hash(cur)] # Nil
      BY <1>1 DEF SendStoredMetadata, TypeInv, LoopOK
    <3>2. QED
      BY <2>1, <3>1 DEF MetaInv, MetadataStaysWithOwner, Owned, MetaPack
  <2>3. PacketsOwned'
    BY <1>1, <2>2, PacketSent DEF SendStoredMetadata, MetaInv
  <2>4. QED
    BY <1>1, <2>3 DEF SendStoredMetadata, metaVars, MetaInv, DelayedOwned,
       MetadataStaysWithOwner
<1>2. CASE SendSwapMetadata
  <2> DEFINE c == active[MountFor(cur)]
  <2>1. c \in Clients /\ Hash(c) \in Hashes /\ metadata[c] \in Metadata
    BY <1>2, HashType DEF SendSwapMetadata, TypeInv, TypeOK, LoopOK
  <2>2. /\ [data |-> metadata[c], id |-> Hash(c), seen |-> FALSE] \in MetaPack
        /\ Owned(metadata[c], Hash(c))
    BY <2>1 DEF MetaInv, MetadataStaysWithOwner, Owned, MetaPack
  <2>3. PacketsOwned'
    BY <1>2, <2>2, PacketSent DEF SendSwapMetadata, MetaInv
  <2>4. QED
    BY <1>2, <2>3 DEF SendSwapMetadata, metaVars, MetaInv, DelayedOwned,
       MetadataStaysWithOwner
<1>3. ASSUME NEW h \in Hashes, PostMetadata(h) PROVE MetaInv'
  <2> DEFINE p == [data |-> [owner |-> h, n |-> posts + 1], id |-> h, seen |-> FALSE]
  <2>1. posts + 1 \in 1..MaxPosts
    BY <1>3, ConstantsAssumption DEF PostMetadata, TypeInv, TypeOK
  <2>2. p \in MetaPack /\ Owned(p.data, p.id)
    BY <2>1 DEF MetaPack, Metadata, Song, Owned
  <2>3. PacketsOwned'
    BY <1>3, <2>2, PacketSent DEF PostMetadata, MetaInv
  <2>4. QED
    BY <1>3, <2>3 DEF PostMetadata, metaVars, MetaInv, DelayedOwned, MetadataStaysWithOwner
<1>4. ASSUME NEW d \in Delayed, ResendMetadata(d) PROVE MetaInv'
  <2> DEFINE p == [data |-> d.data, id |-> d.id, seen |-> TRUE]
  <2>1. p \in MetaPack /\ Owned(p.data, p.id)
    BY <1>4 DEF MetaPack, Delayed, ResendMetadata, MetaInv, DelayedOwned
  <2>2. PacketsOwned'
    BY <1>4, <2>1, PacketSent DEF ResendMetadata, MetaInv
  <2>3. DelayedOwned'
    BY <1>4 DEF ResendMetadata, MetaInv, DelayedOwned, TypeInv, TypeOK
  <2>4. QED
    BY <1>4, <2>2, <2>3 DEF ResendMetadata, MetaInv, MetadataStaysWithOwner
<1>5. QED
  BY <1>1, <1>2, <1>3, <1>4

LEMMA MetaReceivers ==
    ASSUME TypeInv, MetaInv,
           \/ StoreMetadata \/ DiscardMetadata \/ SaveMetadata \/ DelayMetadata
           \/ SendMetadata
    PROVE  MetaInv'
<1> DEFINE p == Head(metaChan)
           m == mounts[p.id[2]]
<1>1. PacketsOwned' /\ p \in MetaPack /\ Owned(p.data, p.id)
  BY PacketTaken DEF MetaInv, StoreMetadata, DiscardMetadata, SaveMetadata, DelayMetadata,
     SendMetadata
<1>2. p.id \in Hashes /\ p.data \in Metadata /\ p.id[2] \in MountNames /\ m \in Clients \cup {Nil}
  BY <1>1, HashType DEF MetaPack, TypeInv, TypeOK
<1>3. CASE StoreMetadata
  <2>1. MetadataStaysWithOwner'
    BY <1>1, <1>2, <1>3 DEF StoreMetadata, MetaInv, MetadataStaysWithOwner, Owned, TypeInv, TypeOK
  <2>2. QED
    BY <1>1, <1>3, <2>1 DEF StoreMetadata, MetaInv, DelayedOwned
<1>4. CASE DiscardMetadata
  BY <1>1, <1>4 DEF DiscardMetadata, metaVars, MetaInv, DelayedOwned, MetadataStaysWithOwner
<1>5. CASE SaveMetadata \/ SendMetadata
  <2>1. MetadataStaysWithOwner'
    BY <1>1, <1>2, <1>5, SavedOwned DEF SaveMetadata, SendMetadata
  <2>2. QED
    BY <1>1, <1>5, <2>1 DEF SaveMetadata, SendMetadata, MetaInv, DelayedOwned
<1>6. CASE DelayMetadata
  <2>1. MetadataStaysWithOwner'
    BY <1>1, <1>2, <1>6, SavedOwned DEF DelayMetadata
  <2>2. [data |-> p.data, id |-> p.id] \in Delayed
    BY <1>2 DEF Delayed
  <2>3. DelayedOwned'
    BY <1>1, <1>6, <2>2 DEF DelayMetadata, MetaInv, DelayedOwned, TypeInv, TypeOK
  <2>4. QED
    BY <1>1, <2>1, <2>3 DEF MetaInv
<1>7. QED
  BY <1>3, <1>4, <1>5, <1>6

LEMMA MetaNext ==
    ASSUME TypeInv, MetaInv, [Next]_vars
    PROVE  MetaInv'
<1>1. CASE UNCHANGED <<metaChan, metaStore, metadata, timers>>
  BY <1>1 DEF MetaInv, PacketsOwned, DelayedOwned, MetadataStaysWithOwner
<1>2. CASE \/ SendStoredMetadata \/ SendSwapMetadata
           \/ \E h \in Hashes : PostMetadata(h)
           \/ \E d \in Delayed : ResendMetadata(d)
  BY <1>2, MetaSenders
<1>3. CASE StoreMetadata \/ DiscardMetadata \/ SaveMetadata \/ DelayMetadata \/ SendMetadata
  BY <1>3, MetaReceivers
<1>4. CASE ForgetStoredMetadata
  BY <1>4 DEF ForgetStoredMetadata, chanVars, MetaInv, PacketsOwned, DelayedOwned,
     MetadataStaysWithOwner
<1>5. CASE Restart
  BY <1>5, NoMembers
     DEF Restart, NewMounts, NewErrors, MetaInv, PacketsOwned, DelayedOwned,
         MetadataStaysWithOwner
<1>6. QED
  <2>1. CASE UNCHANGED vars
    BY <1>1, <2>1 DEF vars, chanVars, metaVars
  <2>2. CASE ManagerStep
    BY <1>1, <1>2, <1>3, <1>4, <1>5, <2>2 DEF ManagerStep, AddFirstClient, AddWaitingClient,
       ConnectClient, ReceiveError, RemoveFromUnknownMount, RemoveWaitingClient,
       RemoveLastLiveClient, SwapLiveClient, SwapRacesAdmin, DisconnectClient,
       RegisterEmptyMount, AbortCollection, CollectMount, DiscardData, HandleData, chanVars,
       metaVars
  <2>3. CASE OtherStep
    BY <1>1, <1>2, <2>3 DEF OtherStep, SourceRequest, SendClient, ReadData, ReadError,
       StaleTimerFires, AdminListBegin, AdminListEnd, Kick, KickOutOfRange, chanVars, metaVars
  <2>4. QED
    BY <2>1, <2>2, <2>3 DEF Next

LEMMA MetaInvariant == Spec => [](TypeInv /\ MetaInv)
<1>1. Init => MetaInv
  BY NoMembers DEF Init, MetaInv, PacketsOwned, DelayedOwned, MetadataStaysWithOwner
<1>2. QED
  BY <1>1, TypeInvariant, MetaNext, PTL DEF Spec

-----------------------------------------------------------------------------
\* Whoever posts metadata, and whatever happens to the mount while a packet
\* is in MetaChan or delayed, it is saved in a Client, or kept in metaStore,
\* only under the user and mountpoint that sent it.
THEOREM MetadataIsNeverMixedUp == Spec => []MetadataStaysWithOwner
  BY MetaInvariant, PTL DEF MetaInv

\* Only SendMetadata tells icecast anything, and it compares the packet with
\* the client that is live when the packet is taken, not with the one that
\* was live before the delay.
THEOREM IcecastHearsLiveUser == Spec => SongIsOfLiveUser
<1> DEFINE P == \A m \in Clients :
                   song'[m] # song[m] => song'[m] = Empty \/ song'[m].owner = Hash(active[m])
<1>1. ASSUME TypeInv, MetaInv, [Next]_vars PROVE [P]_vars
  <2>1. CASE UNCHANGED song
    BY <2>1
  <2>2. CASE SendMetadata
    <3> DEFINE p == Head(metaChan)
    <3>1. Owned(p.data, p.id) /\ SentByLive(mounts[p.id[2]], p)
      BY <1>1, <2>2, PacketTaken DEF MetaInv, SendMetadata
    <3>2. song' = song \/ song' = [song EXCEPT ![mounts[p.id[2]]] = p.data]
      BY <2>2 DEF SendMetadata
    <3>3. QED
      BY <1>1, <3>1, <3>2 DEF Owned, SentByLive, TypeInv, TypeOK
  <2>3. UNCHANGED song \/ SendMetadata
    <3>1. CASE UNCHANGED vars
      BY <3>1 DEF vars, metaVars
    <3>2. CASE ManagerStep
      BY <3>2 DEF ManagerStep, AddFirstClient, SendStoredMetadata, AddWaitingClient,
         ConnectClient, ReceiveError, RemoveFromUnknownMount, RemoveWaitingClient,
         RemoveLastLiveClient, SwapLiveClient, SwapRacesAdmin, SendSwapMetadata,
         DisconnectClient, RegisterEmptyMount, AbortCollection, CollectMount, DiscardData,
         HandleData, StoreMetadata, DiscardMetadata, SaveMetadata, DelayMetadata,
         ForgetStoredMetadata, Restart, NewMounts, NewErrors, metaVars
    <3>3. CASE OtherStep
      BY <3>3 DEF OtherStep, SourceRequest, SendClient, ReadData, ReadError, PostMetadata,
         ResendMetadata, StaleTimerFires, AdminListBegin, AdminListEnd, Kick, KickOutOfRange,
         metaVars
    <3>4. QED
      BY <1>1, <3>1, <3>2, <3>3 DEF Next
  <2>4. QED
    BY <2>1, <2>2, <2>3
<1>2. QED
  BY <1>1, MetaInvariant, PTL DEF Spec, SongIsOfLiveUser
=============================================================================
