SPECIFICATION MCSpec
CONSTANTS
    p1 = p1
    p2 = p2
    c1 = c1
    s1 = s1
    s2 = s2
    k1 = k1
    u1 = u1
    u2 = u2
    a = a
    b = b
    Nobody = Nobody
    Cleaner = Cleaner
    Pubs <- TwoPubs
    Conns <- OneConn
    Servers <- TwoServers
    Callers <- OneCaller
    Subs <- TwoSubs
    Publishers <- TwoPublishers
    MaxReaders = 2
    MaxUpdates = 2
INVARIANT LiveHandlesServed
INVARIANT NothingLeftBehind
INVARIANT MasterMatches
INVARIANT ListedPublisherRead
INVARIANT ReadsAllPublishers
PROPERTY EventuallyDropped
PROPERTY EventuallyUnadvertised
PROPERTY DroppedUnregistered
CHECK_DEADLOCK FALSE
