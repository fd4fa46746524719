SPECIFICATION Spec
CONSTANTS
    PackageNames = {"p", "q"}
    Versions = {"ros1", "ros2", "unknown"}
    MaxPackages = 3
INVARIANT FirstPathWins
CHECK_DEADLOCK FALSE
