SPECIFICATION Spec
CONSTANTS
    Clients = {c1, c2, c3, c4}
    MountNames = {live}
    Identities = {dj}
    MountOf <- OneMount
    IdentityOf <- OneUser
    Nil = Nil
    Empty = Empty
    AdminNums = {}
    ReceiverCap = 1
    CollectorCap = 2
    MetaCap = 1
    DataCap = 1
    ErrCap = 2
    QueueLimit = 2
    MaxPosts = 0
    MaxFatal = 0
SYMMETRY ClientSymmetry
INVARIANTS
    TypeOK
    WaitingClientsAreQueued
    LiveClientNotInLine
    AdminListsInSuccessionOrder
    AdminShowsLiveFirst
    ReaderHasMount
    ConnectedClientIsRead
    LengthIsSize
    RegisteredMountIsUsable
PROPERTIES
    LiveClientNotPreempted
CHECK_DEADLOCK FALSE
