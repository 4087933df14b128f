SPECIFICATION Spec
CONSTANTS
    Clients = {c1, c2, c3}
    MountNames = {live}
    Identities = {dj}
    MountOf <- OneMount
    IdentityOf <- OneUser
    Nil = Nil
    Empty = Empty
    AdminNums = {}
    ReceiverCap = 1
    CollectorCap = 2
    MetaCap = 1
    DataCap = 1
    ErrCap = 2
    QueueLimit = 2
    MaxPosts = 0
    MaxFatal = 0
SYMMETRY ClientSymmetry
INVARIANTS
    MountWithClientsHasLiveOne
CHECK_DEADLOCK FALSE
