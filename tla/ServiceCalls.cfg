SPECIFICATION AnySpec
CONSTANTS
    c1 = c1
    c2 = c2
    c3 = c3
    s1 = s1
    s2 = s2
    s3 = s3
    NoCall = NoCall
    NoServer = NoServer
    Calls <- TwoCalls
    LinkCalls <- ThreeCalls
    Cancellable <- OneCall
    HasTimeout = TRUE
    MaxConn = 3
    Servers <- ThreeServers
    Type <- TwoTypes
INVARIANT NobodyOrphaned
INVARIANT NoAbandonedEntry
INVARIANT NewestServes
PROPERTY AllKeepContract
PROPERTY AnyCallReturns
CHECK_DEADLOCK FALSE
