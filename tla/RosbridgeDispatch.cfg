SPECIFICATION MCSpec
CONSTANTS
    r1 = r1
    r2 = r2
    p1 = p1
    u1 = u1
    u2 = u2
    o1 = o1
    n1 = n1
    Spin = Spin
    Nobody = Nobody
    Requests <- TwoRequests
    NestedCallbacks <- OneRequest
    Publications <- OnePublication
    Pubs <- None
    Subs <- TwoSubs
    Old <- OneOld
    New <- OneNew
    ServiceOf <- FirstOld
    Workers = 4
INVARIANT NoPublicationMissed
INVARIANT NoDeadlock
PROPERTY RequestsSettle
PROPERTY SpinComesBack
CHECK_DEADLOCK FALSE
