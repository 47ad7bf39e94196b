SPECIFICATION FairSpec
CONSTANTS
    Product = {p1, p2, p3, p4}
    Slot = {s1, s2}
    Client = {w1}
    Nobody = Nobody
    Free = Free
    NoItem = NoItem
    MaxItems = 3
    MaxQuantity = 1
    MaxFaults = 2
    CheckoutAt = 1
INVARIANTS LoadTypeOK NeverFull CartAccounts
PROPERTY FullCartDrains
