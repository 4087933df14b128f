SPECIFICATION Spec
CONSTANTS
    AnyHost = AnyHost
    Nil = Nil
    Host = "host"
    Users <- MCUsers
    Authentication = TRUE
    AdminNames = {"admin"}
    Handlers <- MCHandlers
    Gets <- MCGets
    MaxGets = 2
    Sizes = {1}
    MaxChanges = 1
    FirstFiles <- MCFiles
INVARIANTS TypeOK RoutesByPattern RedirectsKeepTarget ContentAsAsked NotModifiedIsTrue
PROPERTIES PartWriterEnds GetEnds
CHECK_DEADLOCK FALSE
