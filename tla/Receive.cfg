SPECIFICATION FairSpec
CONSTANTS
    p1 = p1  p2 = p2  a1 = a1  a2 = a2  t1 = t1  t2 = t2
    None = None
    Instance = {p1, p2}
    Account = {a1}
    Task = {t1, t2}
    Owner <- OneOwner
    Amount <- OneAndTwo
    Minimum = {1, 2}
    RetryLimit = 2
    Setup <- Setups
INVARIANTS ReportsAreTrue
PROPERTIES SignedOnce TasksSettle ReceivedIsStored
