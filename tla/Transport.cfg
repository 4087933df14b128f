SPECIFICATION Spec
CONSTANTS
    a = a
    b = b
    p1 = p1
    p2 = p2
    host = host
    Nil = Nil
    Callers = {a, b}
    Conns = {p1, p2}
    Keys = {host}
    KeyOf <- MCKeyOf
    MaxRequests <- MCMaxRequests
    MaxIdle = 1
    KeepAlives = TRUE
    Replies <- MCReplies
    BodyUses = {"close", "eof", "abandon"}
    RepliesTo <- MCRepliesTo
    Unasked <- MCUnasked
    MaxEvents = 1
INVARIANTS TypeOK OwnResponse OneUserAtATime
PROPERTIES CloseIdleSparesBusy RequestReturns
CHECK_DEADLOCK FALSE
