SPECIFICATION FairSpec
CONSTANTS
    Requests <- TimedRequests
    ReplyHeaders <- PlainReply
    Codes = {304}
    WriteSizes = {1}
    MaxWritten = 2
    SniffLen = 1
    MaxPostRead = 2
    LateReads = FALSE
    Nil = Nil
PROPERTIES
    TimedOutWritesFail
CHECK_DEADLOCK FALSE
