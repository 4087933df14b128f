SPECIFICATION Spec
CONSTANTS
    Clients = {c1, c2, c3}
    MountNames = {live}
    Identities = {dj}
    MountOf <- OneMount
    IdentityOf <- OneUser
    Nil = Nil
    Empty = Empty
    AdminNums = {}
    ReceiverCap = 1
    CollectorCap = 2
    MetaCap = 2
    DataCap = 1
    ErrCap = 2
    QueueLimit = 2
    MaxPosts = 1
    MaxFatal = 1
SYMMETRY ClientSymmetry
INVARIANTS
    AdoptedConnectionNotLeaked
    ReaderHasMount
    ConnectedClientIsRead
CHECK_DEADLOCK FALSE
