SPECIFICATION MCSpec
CONSTANTS
    p1 = p1  p2 = p2  i1 = i1  i2 = i2  x1 = x1
    b1 = b1  b2 = b2  b3 = b3  b4 = b4
    None = None
    Process = {p1, p2}
    Invoice = {i1, i2}
    Address = {x1}
    Block = {b1, b2, b3, b4}
    PayAddress <- OneAddress
    Expected <- SixAndFour
    Policy <- LeastAndExact
    Expiring = {i1}
    Recipient <- AllToOne
    Amount <- Amounts
    Minimum = 2
    MaxDepositsPerAccount = 2
    MaxFaults = 1
INVARIANTS CompletedWhenPaid EventsTellTheRows ProcessedIsStored
PROPERTIES TerminalIsFinal OverdueInvoicesEnd
