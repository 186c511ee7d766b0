SPECIFICATION CreationFairSpec
CONSTANTS
    c1 = c1  c2 = c2  c3 = c3  c4 = c4  c5 = c5  c6 = c6  k1 = k1  k2 = k2  r1 = r1
    None = None
    Call = {c1, c2, c3, c4, c5, c6}
    Ref <- Refs
    CallKey <- KeysOf
    CallAmount <- Amounts
    First = 10
    End = 12
    Setup <- Setups
INVARIANTS AddressFollowsRef KeyAnswersOneInvoice
PROPERTIES InvoiceIsServed
CHECK_DEADLOCK FALSE
