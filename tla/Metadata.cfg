SPECIFICATION Spec
CONSTANTS
    Clients = {c1, c2, c3}
    MountNames = {live}
    Identities = {dj1, dj2}
    MountOf <- OneMount
    IdentityOf <- TwoUsers
    Nil = Nil
    Empty = Empty
    AdminNums = {}
    ReceiverCap = 1
    CollectorCap = 2
    MetaCap = 1
    DataCap = 0
    ErrCap = 1
    QueueLimit = 2
    MaxPosts = 2
    MaxFatal = 0
SYMMETRY SharedUserSymmetry
INVARIANTS
    MetadataStaysWithOwner
PROPERTIES
    SongIsOfLiveUser
CHECK_DEADLOCK FALSE
