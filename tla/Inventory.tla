------------------------------- MODULE Inventory -------------------------------
(***************************************************************************)
(* inventory-service (src/services/inventory-service/public/index.php):    *)
(* the stock of each product and the users' reservations.  Each request is *)
(* one transaction, or one statement, of PostgreSQL, and so one step.      *)
(***************************************************************************)
EXTENDS Integers, FiniteSets, Sequences

CONSTANTS
    Product,
    MaxReservations,    \* bound: reservations ever made
    MaxStock,           \* bound: units of one product
    Unknown             \* no row for the product

Row == [quantity : 0..MaxStock, reserved : Nat]
ASSUME InventoryAssumption ==
    /\ MaxReservations \in Nat /\ MaxStock \in Nat /\ Unknown \notin Row

VARIABLES
    stock,          \* stock[p]: the row of p, or Unknown
    reservations    \* the reservations in the order of their ids

inventoryVars == <<stock, reservations>>

Known(p) == stock[p] # Unknown
Active == {i \in DOMAIN reservations : reservations[i].active}
Reserved(p) == Cardinality({i \in Active : reservations[i].product = p})

Larger(a, b) == IF a > b THEN a ELSE b

InventoryInit ==
    /\ stock \in [Product -> {Unknown, [quantity |-> MaxStock, reserved |-> 0]}]
    /\ reservations = <<>>

-----------------------------------------------------------------------------

\* POST /inventory/reserve: refused when what is not reserved does not suffice.
Reserve(p) ==
    /\ Len(reservations) < MaxReservations
    /\ Known(p) /\ stock[p].quantity - stock[p].reserved >= 1
    /\ stock' = [stock EXCEPT ![p].reserved = @ + 1]
    /\ reservations' = Append(reservations, [product |-> p, active |-> TRUE])

\* Variant: a reservation can be released twice.
ReleaseAgain(i) ==
    /\ i \in DOMAIN reservations
    /\ stock' = [stock EXCEPT ![reservations[i].product].reserved = Larger(@ - 1, 0)]
    /\ reservations' = [reservations EXCEPT ![i].active = FALSE]

\* POST /inventory/release/{id}
Release(i) ==
    /\ i \in Active
    /\ stock' = [stock EXCEPT ![reservations[i].product].reserved = Larger(@ - 1, 0)]
    /\ reservations' = [reservations EXCEPT ![i].active = FALSE]

\* PUT /inventory/{id}: an upsert that leaves what is reserved alone.
Upsert(p, q) ==
    /\ stock' = [stock EXCEPT ![p] = [quantity |-> q, reserved |-> IF Known(p) THEN stock[p].reserved ELSE 0]]
    /\ UNCHANGED reservations

\* PUT /inventory/{sku}/reserve: the answer, and the decrement it comes with.
TakeAnswer(p) == IF ~Known(p) THEN "missing" ELSE IF stock[p].quantity >= 1 THEN "ok" ELSE "short"

Take(p) ==
    /\ stock' = IF TakeAnswer(p) = "ok" THEN [stock EXCEPT ![p].quantity = @ - 1] ELSE stock
    /\ UNCHANGED reservations

-----------------------------------------------------------------------------

InventoryTypeOK ==
    /\ stock \in [Product -> Row \cup {Unknown}]
    /\ reservations \in Seq([product : Product, active : BOOLEAN])

\* What a product has reserved is exactly its reservations that are active,
\* whatever else has changed its stock (index.php:117-177).
ReservationsAddUp ==
    \A p \in Product : Reserved(p) = IF Known(p) THEN stock[p].reserved ELSE 0

=============================================================================
