SPECIFICATION FairSpec
CONSTANTS
    d1 = d1  d2 = d2  a1 = a1  a2 = a2  a3 = a3  a4 = a4  p1 = p1  p2 = p2  k1 = k1  k2 = k2
    None = None
    Deposit = {d1, d2}
    Amount <- Amounts
    Expected = 2
    Call = {a1, a2, a3, a4}
    RefundOf <- RefundsOf
    Key <- Keys
    Asked <- AskedFor
    Pass = {p1, p2}
    Setup <- Setups
INVARIANTS RefundsWithinDeposit OnePayoutPerKey SweepCountsWhatIsKnown
PROPERTIES CompletedIsSwept
CHECK_DEADLOCK FALSE
