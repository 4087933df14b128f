----------------------------- MODULE ProxyState -----------------------------
(***************************************************************************)
(* The state of the proxy's client manager (server/icecast.go, manager.go, *)
(* mount.go, client.go, packets.go) and of everything that runs beside it: *)
(* the HTTP handlers that hand it clients and metadata, the reader         *)
(* goroutine of each client, the goroutines that delay metadata by a       *)
(* second, and the admin pages.                                            *)
(*                                                                         *)
(* The manager is one goroutine that loops over a select statement.  A     *)
(* handler of the loop runs without interruption up to the points where it *)
(* can block, which are the sends on the manager's own channels and        *)
(* HandlerLock.Lock(); pc says at which of those points the goroutine is,  *)
(* or that the process has ended and no goroutine runs any more.           *)
(*                                                                         *)
(* A Client and its ClientID are created together and never shared, so     *)
(* both pointers are the client's name here.  A Mount is created by the    *)
(* arrival of a client, at most one per arrival, so the pointer to a Mount *)
(* is the name of the client whose arrival created it.  Audio data is not  *)
(* represented: a data packet is the client that sent it.                  *)
(***************************************************************************)
EXTENDS Integers, FiniteSets, Handlers

CONSTANTS
    Clients,        \* source connections; each one connects at most once
    MountNames,     \* mountpoints, the keys of Manager.Mounts
    Identities,     \* user name, password and host address, as one value
    MountOf,        \* the mountpoint a client asked for
    IdentityOf,     \* the identity a client logged in with
    Nil,            \* no client, no mount, no entry
    Empty,          \* the empty metadata string
    AdminNums,      \* "num" values that requests to /admin/kick carry
    ReceiverCap,    \* capacity of Manager.Receiver (5 in the code)
    CollectorCap,   \* capacity of Manager.MountCollector (5)
    MetaCap,        \* capacity of Manager.MetaChan (10)
    DataCap,        \* capacity of dataChan (1024)
    ErrCap,         \* capacity of errChan (512)
    QueueLimit,     \* config.QUEUE_LIMIT, capacity of Mount.ClientQueue (100)
    MaxPosts,       \* bound: number of metadata requests
    MaxFatal        \* bound: number of fatal libshout errors

ASSUME ConstantsAssumption ==
    /\ MountOf \in [Clients -> MountNames]
    /\ IdentityOf \in [Clients -> Identities]
    /\ Nil \notin Clients
    /\ Nil # Empty
    /\ AdminNums \subseteq Int
    /\ {ReceiverCap, CollectorCap, MetaCap, DataCap, ErrCap, QueueLimit} \subseteq Nat
    /\ {MaxPosts, MaxFatal} \subseteq Nat

\* What ClientID.Hash identifies: name, password and address make up the
\* identity, the mountpoint is hashed with them.  Collisions are left out.
Hashes == Identities \X MountNames
Hash(client) == <<IdentityOf[client], MountOf[client]>>

\* A metadata string remembers who sent it, and which request it came from.
Song     == [owner : Hashes, n : 1..MaxPosts]
Metadata == Song \cup {Empty}
MetaPack == [data : Metadata, id : Hashes, seen : BOOLEAN]

VARIABLES
    pc,             \* where the manager goroutine is; "crashed": the process is gone
    cur,            \* the client that the current handler works on
    mounts,         \* Manager.Mounts
    receiver,       \* Manager.Receiver
    mountCollector, \* Manager.MountCollector
    metaChan,       \* Manager.MetaChan
    metaStore,      \* Manager.metaStore
    dataChan,       \* local to ProcessClients
    errChan,        \* local to ProcessClients
    byID,           \* Mount.Clients.byID
    length,         \* Mount.Clients.Length
    active,         \* Mount.Active
    clientQueue,    \* Mount.ClientQueue
    shout,          \* Mount.Shout: the libshout instance
    song,           \* metadata last given to the libshout instance
    metadata,       \* Client.Metadata
    source,         \* progress of sourceHandler for a client
    conn,           \* Client.Conn
    reader,         \* the goroutine that runs ReadInto for a client
    timers,         \* goroutines that delay a packet: how many per packet
    handlerMounts,  \* HandlerMounts
    handlerLock,    \* HandlerLock: free, or who holds it
    staleTimer,     \* a delaying goroutine outlived its manager
    freedUse,       \* a destroyed libshout instance was used
    posts,          \* number of metadata requests so far
    fatals          \* number of fatal libshout errors so far

loopVars    == <<pc, cur>>
chanVars    == <<receiver, mountCollector, metaChan, dataChan, errChan>>
mountVars   == <<byID, length, active, clientQueue>>
metaVars    == <<metaStore, metadata, timers, song>>
clientVars  == <<source, conn, reader>>
handlerVars == <<handlerMounts, handlerLock>>
faultVars   == <<staleTimer, freedUse, fatals>>
vars == <<loopVars, mounts, chanVars, mountVars, shout, metaVars, clientVars, handlerVars,
          faultVars, posts>>

Delayed == [data : Metadata, id : Hashes]

Init ==
    /\ pc = "select" /\ cur = Nil
    /\ mounts = [n \in MountNames |-> Nil]
    /\ receiver = <<>> /\ mountCollector = <<>> /\ metaChan = <<>>
    /\ dataChan = <<>> /\ errChan = <<>>
    /\ metaStore = [h \in Hashes |-> Nil]
    /\ byID = [m \in Clients |-> {}]
    /\ length = [m \in Clients |-> 0]
    /\ active = [m \in Clients |-> Nil]
    /\ clientQueue = [m \in Clients |-> <<>>]
    /\ shout = [m \in Clients |-> "none"]
    /\ song = [m \in Clients |-> Nil]
    /\ metadata = [c \in Clients |-> Empty]
    /\ source = [c \in Clients |-> "idle"]
    /\ conn = [c \in Clients |-> "none"]
    /\ reader = [c \in Clients |-> "none"]
    /\ timers = [d \in Delayed |-> 0]
    /\ handlerMounts = [n \in MountNames |-> <<>>]
    /\ handlerLock = "free"
    /\ staleTimer = FALSE /\ freedUse = FALSE
    /\ posts = 0 /\ fatals = 0

\* The mount registered for a client's mountpoint.
MountFor(client) == mounts[MountOf[client]]

\* Every variable has the type of the Go value it stands for.
TypeOK ==
    /\ pc \in {"select", "stored", "connect", "remove", "swap", "disconnect", "collect",
               "panic", "crashed"}
    /\ cur \in Clients \cup {Nil}
    /\ mounts \in [MountNames -> Clients \cup {Nil}]
    /\ receiver \in Seq(Clients)
    /\ mountCollector \in Seq(Clients)
    /\ metaChan \in Seq(MetaPack)
    /\ metaStore \in [Hashes -> Metadata \cup {Nil}]
    /\ dataChan \in Seq(Clients)
    /\ errChan \in Seq(Clients)
    /\ byID \in [Clients -> SUBSET Clients]
    /\ length \in [Clients -> Int]
    /\ active \in [Clients -> Clients \cup {Nil}]
    /\ clientQueue \in [Clients -> Seq(Clients)]
    /\ shout \in [Clients -> {"none", "closed", "open", "freed"}]
    /\ song \in [Clients -> Metadata \cup {Nil}]
    /\ metadata \in [Clients -> Metadata]
    /\ source \in [Clients -> {"idle", "loaded", "queued", "adopted", "stranded"}]
    /\ conn \in [Clients -> {"none", "open", "closed"}]
    /\ reader \in [Clients -> {"none", "reading", "done"}]
    /\ timers \in [Delayed -> Nat]
    /\ handlerMounts \in [MountNames -> Seq(Clients)]
    /\ handlerLock \in {"free", "admin", "leaked"}
    /\ staleTimer \in BOOLEAN
    /\ freedUse \in BOOLEAN
    /\ posts \in 0..MaxPosts
    /\ fatals \in 0..MaxFatal
=============================================================================
