SPECIFICATION MCSpec
CONSTANTS
    c1 = c1
    c2 = c2
    Selecting = Selecting
    Dead = Dead
    Conns <- TwoConns
    Prompt <- OneConn
    Capacity = 2
    MaxSent = 4
    Consumers <- TwoConns
    QUEUE_SIZE = 3
    MaxMessage = 5
    Writers = {"w1", "w2"}
    Topics = {"x", "y"}
    MessageTypes = {1, 2, 3}
    TypeName <- Named
    MaxWritten = 1
    MaxHandles = 2
    None = None
    Declarations = {1, 2}
    Types = {"t", "u"}
    LOST_AFTER = 3
    MaxDelay = 2
    PackageNames = {"p", "q"}
    Versions = {"ros1", "ros2", "unknown"}
    MaxPackages = 3
    f1 = f1
    f2 = f2
    f3 = f3
    missing = missing
    time = time
    info = info
    Files <- ThreeFiles
    Builtins <- TimeAndInfo
    FullNames <- FileNames
    Graphs <- AllGraphs
    PARSE_LIMIT = 1
INVARIANT InOrderOnce
INVARIANT NewestKept
INVARIANT ReadAsWritten
INVARIANT LiveStaysKnown
INVARIANT KnownIsRecent
 
PROPERTY LastMessageArrives
PROPERTY ConnectionsServed
PROPERTY NeverBackInTime
PROPERTY MostRecentIsRecent
PROPERTY Terminates
CHECK_DEADLOCK FALSE
