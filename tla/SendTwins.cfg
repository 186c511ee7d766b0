SPECIFICATION MCSpec
CONSTANTS
    i1 = i1  i2 = i2  a1 = a1  s1 = s1  s2 = s2
    alice = alice  bob = bob
    None = None
    Instance = {i1}
    Account = {a1}
    Managed = {a1}
    Send = {s1, s2}
    Source <- OneSource
    Destination <- Same
    Amount <- OneEach
    Opening <- Two
    Teams <- Lone
    MaxFaults = 2
    TeamFaults = 0
    MaxDeposits = 0
INVARIANTS OneTransferPerReportedSend
