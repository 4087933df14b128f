SPECIFICATION FairSpec
CONSTANTS
    Requests <- AllRequests
    ReplyHeaders <- AllReplyHeaders
    Codes = {304}
    WriteSizes = {1}
    MaxWritten = 2
    SniffLen = 1
    MaxPostRead = 2
    LateReads = FALSE
    Nil = Nil
INVARIANTS
    TypeOK
    StreamInSync
    ReplyIsDelimited
    NothingHeldBack
PROPERTIES
    RequestIsRead
    HijackedIsLeftAlone
CHECK_DEADLOCK FALSE
