SPECIFICATION ApiSpec
CONSTANTS
    p1 = p1  p2 = p2
    s1 = s1  s2 = s2
    a1 = a1
    w1 = w1  w2 = w2
    None = None
    Process <- MCProcesses
    Stream <- MCStreams
    Address <- MCAddresses
    Pass <- MCPasses
    Own <- MCOwn
    MaxHeight = 2
    Setup <- MCSetup
INVARIANTS MigrationsAreTrue RepeatsChangeNothing AnswersAreTrue
PROPERTIES ServesInTheEnd StreamHearsLatest
CHECK_DEADLOCK FALSE
