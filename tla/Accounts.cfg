SPECIFICATION RowFairSpec
CONSTANTS
    a1 = a1  a2 = a2  d1 = d1  u1 = u1  s1 = s1  s2 = s2  w1 = w1  w2 = w2
    None = None
    Create = {a1, a2}
    Delete = {d1}
    Update = {u1}
    SendCall = {s1}
    Worker = {w1, w2}
    MaxHeight = 3
    BalanceAt <- Balances
    SendBlocks = {2}
    RowSetup <- Setups
INVARIANTS NoSendWithoutAccount
PROPERTIES LabelsStay RowConverges AccountIsWatched
CHECK_DEADLOCK FALSE
