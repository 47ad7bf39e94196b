------------------------------ MODULE CartService ------------------------------
(***************************************************************************)
(* cart-service (src/services/cart-service/app.py): one user's cart, a     *)
(* hash in Valkey from product to item, and the requests in progress on    *)
(* it.  A handler is a sequence of commands to Valkey and, in checkout,    *)
(* one call of order-service; each is a step, and the steps of handlers in *)
(* other threads, workers and replicas come in between.                    *)
(***************************************************************************)
EXTENDS Integers, FiniteSets

CONSTANTS
    Product,
    Slot,           \* requests that can be accepted and not yet answered at once
    Client,         \* who waits for an answer
    Nobody,         \* the client has given up
    NoItem,         \* the request names no product
    Free,           \* no request in this slot
    MaxItems,       \* MAX_CART_ITEMS
    MaxQuantity,    \* bound: units of a product in the cart at which no more is added
    MaxFaults       \* bound: failing calls, lost answers, clients that give up

ASSUME CartAssumption ==
    /\ IsFiniteSet(Slot) /\ IsFiniteSet(Client) /\ IsFiniteSet(Product)
    /\ Nobody \notin Client /\ NoItem \notin Product
    /\ MaxItems \in Nat /\ MaxQuantity \in Nat /\ MaxFaults \in Nat

Op == {"add", "remove", "clear", "checkout"}
Result == {"none", "ok", "full", "notFound", "empty", "failed"}

\* had: the quantity add_item found; snap: what checkout scanned.
Request == [op : Op, client : Client \cup {Nobody}, item : Product \cup {NoItem},
            stage : {"start", "size", "write", "order", "delete", "answered"},
            had : Nat, snap : [Product -> Nat], result : Result]

ASSUME FreeAssumption == Free \notin Request

VARIABLES
    cart,       \* cart[p]: quantity of p in the hash, 0 when it has no such field
    req,        \* req[k]: the request in slot k, or Free
    ledger,     \* ledger[p]: units added, less those ordered, removed or cleared
    raced,      \* two requests that may disturb each other were in progress at once
    faults      \* faults so far

cartVars == <<cart, req, ledger, raced, faults>>

-----------------------------------------------------------------------------

Nothing == [p \in Product |-> 0]
Items == {p \in Product : cart[p] > 0}
Size == Cardinality(Items)

Running(k) == req[k] # Free /\ req[k].stage # "answered"
At(k, op, stage) == req[k] # Free /\ req[k].op = op /\ req[k].stage = stage

\* Requests on different products do not meet in the hash.
Conflict(op1, p1, op2, p2) ==
    op1 \in {"clear", "checkout"} \/ op2 \in {"clear", "checkout"} \/ p1 = p2

Disturbs(op, p) == \E k \in Slot : Running(k) /\ Conflict(op, p, req[k].op, req[k].item)

\* Once requests have raced the books are no longer kept.
Book(l) == ledger' = IF raced THEN Nothing ELSE l

Stage(k, s) == req' = [req EXCEPT ![k].stage = s]

Answer(k, r) ==
    req' = [req EXCEPT ![k] = [op |-> req[k].op, client |-> req[k].client, item |-> NoItem,
                               stage |-> "answered", had |-> 0, snap |-> Nothing, result |-> r]]

Fault == faults < MaxFaults /\ faults' = faults + 1

\* Valkey keeps carts: the first request may find any.
CartInit ==
    /\ cart \in [Product -> 0..MaxQuantity]
    /\ req = [k \in Slot |-> Free]
    /\ ledger = cart
    /\ raced = FALSE
    /\ faults = 0

\* A request for the cart reaches one of the service's threads.
Accept(k, op, p, c) ==
    /\ req[k] = Free
    /\ (op \in {"add", "remove"}) = (p # NoItem)
    /\ op = "add" => /\ cart[p] < MaxQuantity
                     /\ \A j \in Slot : Running(j) /\ req[j].item = p => req[j].had < MaxQuantity
    /\ req' = [req EXCEPT ![k] = [op |-> op, client |-> c, item |-> p, stage |-> "start",
                                  had |-> 0, snap |-> Nothing, result |-> "none"]]
    /\ raced' = (raced \/ Disturbs(op, p))
    /\ ledger' = IF raced' THEN Nothing ELSE ledger
    /\ UNCHANGED <<cart, faults>>

-----------------------------------------------------------------------------
(* add_item: HGET; for a new product HLEN and the limit; HSET.             *)

AddLookup(k) ==
    /\ At(k, "add", "start")
    /\ LET q == cart[req[k].item]
       IN  req' = [req EXCEPT ![k].had = q, ![k].stage = IF q > 0 THEN "write" ELSE "size"]
    /\ UNCHANGED <<cart, ledger, raced, faults>>

AddChecksSize(k) ==
    /\ At(k, "add", "size")
    /\ IF Size >= MaxItems THEN Answer(k, "full") ELSE Stage(k, "write")
    /\ UNCHANGED <<cart, ledger, raced, faults>>

AddWrites(k) ==
    /\ At(k, "add", "write")
    /\ cart' = [cart EXCEPT ![req[k].item] = req[k].had + 1]
    /\ Book([ledger EXCEPT ![req[k].item] = @ + 1])
    /\ Answer(k, "ok")
    /\ UNCHANGED <<raced, faults>>

(* remove_item and clear_cart: one command on the hash.                    *)

Remove(k) ==
    /\ At(k, "remove", "start")
    /\ cart' = [cart EXCEPT ![req[k].item] = 0]
    /\ Book([ledger EXCEPT ![req[k].item] = @ - cart[req[k].item]])
    /\ Answer(k, IF cart[req[k].item] > 0 THEN "ok" ELSE "notFound")
    /\ UNCHANGED <<raced, faults>>

Clear(k) ==
    /\ At(k, "clear", "start")
    /\ cart' = Nothing
    /\ Book([p \in Product |-> ledger[p] - cart[p]])
    /\ Answer(k, "ok")
    /\ UNCHANGED <<raced, faults>>

(* checkout: HSCAN, POST /orders, and DEL only for an order that was       *)
(* answered with 200 or 201.                                               *)

CheckoutScans(k) ==
    /\ At(k, "checkout", "start")
    /\ IF Items = {} THEN Answer(k, "empty")
                     ELSE req' = [req EXCEPT ![k].stage = "order", ![k].snap = cart]
    /\ UNCHANGED <<cart, ledger, raced, faults>>

Ordered(k) == [p \in Product |-> ledger[p] - req[k].snap[p]]

CheckoutOrders(k) ==
    /\ At(k, "checkout", "order")
    /\ Book(Ordered(k))
    /\ req' = [req EXCEPT ![k].stage = "delete", ![k].snap = Nothing]
    /\ UNCHANGED <<cart, raced, faults>>

\* Variant: any answer, or none, empties the cart.
CheckoutFailsOpen(k) ==
    /\ At(k, "checkout", "order") /\ Fault
    /\ UNCHANGED ledger
    /\ Stage(k, "delete")
    /\ UNCHANGED <<cart, raced>>

\* The order is refused, or was stored and the answer does not arrive.
CheckoutFails(k) ==
    /\ At(k, "checkout", "order") /\ Fault
    /\ ledger' \in {ledger, IF raced THEN Nothing ELSE Ordered(k)}
    /\ Answer(k, "failed")
    /\ UNCHANGED <<cart, raced>>

CheckoutDeletes(k) ==
    /\ At(k, "checkout", "delete")
    /\ cart' = Nothing
    /\ Answer(k, "ok")
    /\ UNCHANGED <<ledger, raced, faults>>

\* Nobody waits for the answer.
Close(k) ==
    /\ req[k] # Free /\ req[k].stage = "answered" /\ req[k].client = Nobody
    /\ req' = [req EXCEPT ![k] = Free]
    /\ UNCHANGED <<cart, ledger, raced, faults>>

Handles(k) ==
    \/ AddLookup(k) \/ AddChecksSize(k) \/ AddWrites(k)
    \/ Remove(k) \/ Clear(k)
    \/ CheckoutScans(k) \/ CheckoutOrders(k) \/ CheckoutFails(k) \/ CheckoutDeletes(k)
    \/ Close(k)

-----------------------------------------------------------------------------

CartTypeOK ==
    /\ cart \in [Product -> Nat]
    /\ req \in [Slot -> Request \cup {Free}]
    /\ ledger \in [Product -> Int]
    /\ raced \in BOOLEAN
    /\ faults \in 0..MaxFaults

=============================================================================
