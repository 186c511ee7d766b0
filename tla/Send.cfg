SPECIFICATION MCSpec
CONSTANTS
    i1 = i1  i2 = i2  a1 = a1  s1 = s1  s2 = s2
    alice = alice  bob = bob
    None = None
    Instance = {i1, i2}
    Account = {a1}
    Managed = {a1}
    Send = {s1, s2}
    Source <- OneSource
    Destination <- Differing
    Amount <- OneAndTwo
    Opening <- Two
    Teams <- LoneAndPair
    MaxFaults = 3
    TeamFaults = 1
    MaxDeposits = 1
INVARIANTS NeverPaidTwice ReportedIsOnChain
PROPERTIES KeepsContract EverySendSettles
