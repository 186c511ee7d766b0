SPECIFICATION FeedSpec
CONSTANTS
    w1 = w1  w2 = w2  e1 = e1  e2 = e2  A = A  B = B
    None = None
    Worker = {w1, w2}
    Endpoint = {e1, e2}
    Type = {A, B}
    OptIn = {B}
    Filter <- Filters
    Concurrency = 2
    MaxAttempts = 2
    MaxEvents = 4
    PageSize = 2
    Setup <- Setups
INVARIANTS HistoryIsTrue
PROPERTIES KeepsDeliveryContract JobsSettle FeedCatchesUp
CHECK_DEADLOCK FALSE
