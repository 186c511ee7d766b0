SPECIFICATION FairSpec
CONSTANTS
    b1 = b1  b2 = b2  c1 = c1  c2 = c2  c3 = c3  k1 = k1  l1 = l1  l2 = l2  l3 = l3
    None = None
    Block = {b1, b2}
    Call = {c1, c2, c3}
    BlockOf <- BlocksOf
    Key <- KeysOf
    Loop = {l1, l2, l3}
    BlockSetup <- PublicationSetups
INVARIANTS IngestedBeforeConfirmed ConfirmedOnce
PROPERTIES PublishedSettles
\* When all blocks are settled nothing is left to do.
CHECK_DEADLOCK FALSE
