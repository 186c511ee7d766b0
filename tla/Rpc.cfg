SPECIFICATION FairSpec
CONSTANTS
    c1 = c1  c2 = c2  c3 = c3  u1 = u1  u2 = u2  k1 = k1  k2 = k2
    None = None
    Call = {c1, c2, c3}
    Op <- Ops
    Url = {u1, u2}
    Default = {u1, u2}
    BatchSize = 2
    Asker = {k1, k2}
    Setup <- Setups
    MaxFailures = 2
INVARIANTS OnlyFailuresExhaust
PROPERTIES RequestsEnd
CHECK_DEADLOCK FALSE
