SPECIFICATION Spec
CONSTANTS
    o1 = o1  o2 = o2  p1 = p1
    Order = {o1, o2}
    Stray = Stray
    Product = {p1}
    Items <- BothOrders
    Awaited = {o1}
    Settable = {"CONFIRMED"}
    Replica = {r1, r2}
    Unknown = Unknown
    MaxReservations = 2
    MaxStock = 1
    MaxAttempts = 2
    MaxFaults = 1
INVARIANTS PipelineTypeOK ShippedIsPaid FulfilledIsShipped ShippedIsReserved OnceUnlessRedone ReservationsAddUp
SYMMETRY Replicas

