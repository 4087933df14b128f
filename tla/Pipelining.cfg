SPECIFICATION Spec
CONSTANTS
    r1 = r1
    r2 = r2
    r3 = r3
    Nil = Nil
    Requests = {r1, r2, r3}
    ReqBody = {r1}
    ReqClose = {r2}
    RespKinds <- MCRespKinds
INVARIANTS TypeOK StreamsInSync
PROPERTIES ImplementsPipelinedLink DoReturns
CHECK_DEADLOCK FALSE
