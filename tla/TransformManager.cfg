SPECIFICATION Spec
CONSTANTS
    m1 = m1
    m2 = m2
    w1 = w1
    x1 = x1
    x2 = x2
    NoTopic = NoTopic
    Nothing = Nothing
    Managers <- MCManagers
    PubOf <- MCPubOf
    SubOf <- MCSubOf
    Brief <- MCBrief
    Pubs <- MCPubs
    Subs <- MCSubs
    Types <- MCTypes
    Typings <- MCTypings
    Waiters <- MCWaiters
    At <- MCAt
    Needs <- MCNeeds
    Transforms <- MCTransforms
    Own <- MCOwn
    Messages <- MCTransforms
    Capacity = 1
    MaxSent = 2
INVARIANT WellConnected
INVARIANT NoLostWakeup
INVARIANT KnownIsPublished
CHECK_DEADLOCK FALSE
PROPERTY WaiterServed
PROPERTY TransformsSpread
PROPERTY TaskEnds
