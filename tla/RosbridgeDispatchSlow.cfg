SPECIFICATION Spec
CONSTANTS
    r1 = r1
    r2 = r2
    p1 = p1
    u1 = u1
    u2 = u2
    o1 = o1
    n1 = n1
    Spin = Spin
    Nobody = Nobody
    Requests <- OneRequest
    NestedCallbacks <- None
    Publications <- None
    Pubs <- None
    Subs <- None
    Old <- OneOld
    New <- None
    ServiceOf <- FirstOld
    Workers = 2
PROPERTY RequestsAnswered
CHECK_DEADLOCK FALSE
