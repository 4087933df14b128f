SPECIFICATION FairSpec
CONSTANTS
    Clients = {c1, c2}
    MountNames = {live}
    Identities = {dj}
    MountOf <- OneMount
    IdentityOf <- OneUser
    Nil = Nil
    Empty = Empty
    AdminNums = {1}
    ReceiverCap = 1
    CollectorCap = 2
    MetaCap = 2
    DataCap = 0
    ErrCap = 2
    QueueLimit = 2
    MaxPosts = 0
    MaxFatal = 0
PROPERTIES
    ErrorIsHandled
CHECK_DEADLOCK FALSE
