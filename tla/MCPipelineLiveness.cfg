SPECIFICATION FairSpec
CONSTANTS
    o1 = o1  o2 = o2  p1 = p1
    Order = {o1}
    Stray = Stray
    Product = {p1}
    Items <- OneOrder
    Awaited = {}
    Settable = {}
    Replica = {r1, r2}
    Unknown = Unknown
    MaxReservations = 1
    MaxStock = 1
    MaxAttempts = 2
    MaxFaults = 2
PROPERTY NoRecordWedges

