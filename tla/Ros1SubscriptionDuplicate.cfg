SPECIFICATION Spec
CONSTANTS
    s1 = s1
    s2 = s2
    a = a
    b = b
    Nobody = Nobody
    Subs <- OneSub
    Publishers <- TwoPublishers
    MaxReaders = 4
    MaxUpdates = 1
INVARIANT OneReaderPerPublisher
CHECK_DEADLOCK FALSE
