SPECIFICATION MCSpec
CONSTANTS
    t1 = t1
    t2 = t2
    p1 = p1
    p2 = p2
    p3 = p3
    u1 = u1
    u2 = u2
    u3 = u3
    s1 = s1
    s2 = s2
    s3 = s3
    nobody = nobody
    Nobody = nobody
    Topics <- OneTopic
    Pubs <- TwoPubs
    Subs <- TwoSubs
    Servers <- TwoServers
    TopicOf <- TopicsOfHandles
    HasTimeout = TRUE
    MaxConn = 3
    MaxOpened = 3
INVARIANT LiveSubscriberSubscribed
INVARIANT NoSubscriberUnsubscribed
INVARIANT ServiceHandleOwnsEntry
INVARIANT LivePublisherAdvertised
INVARIANT OnlySubscribeDeadlocks
PROPERTY Reconnects
CHECK_DEADLOCK FALSE
