SPECIFICATION WatchFairSpec
CONSTANTS
    q1 = q1  q2 = q2
    None = None
    SendBlock = {1, 2, 3}
    Pass = {q1, q2}
    Setup <- WatcherSetups
\* A watcher that watches nothing has nothing to do.
CHECK_DEADLOCK FALSE
INVARIANTS MemoryIsHonest
PROPERTIES EveryBlockIsStored
