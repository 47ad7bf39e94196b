----------------------------- MODULE OrderPipeline -----------------------------
(***************************************************************************)
(* An order from POST /orders to FULFILLED: order-service takes the        *)
(* payment, saves the order and publishes OrderCreated inside one          *)
(* transaction; fulfillment-service reserves the items, writes a shipment  *)
(* and publishes ShipmentCreated; order-service marks the order.  The load *)
(* generator creates orders, waits for them, and sets statuses and stock.  *)
(* The topic order-events is one partition here: records of different      *)
(* partitions are handled independently.                                   *)
(***************************************************************************)
EXTENDS Inventory

CONSTANTS
    Order,
    Stray,          \* a record that is not an order: not decoded, or of another event type
    Items,          \* Items[o]: the products of o, one unit of each
    Awaited,        \* orders of createOrderAndAwaitFulfillment
    Settable,       \* statuses a client sets: CONFIRMED, SHIPPED, DELIVERED
    Replica,        \* replicas of fulfillment-service
    MaxAttempts,    \* maxAttempts
    MaxFaults       \* bound: failures of any kind

ASSUME PipelineAssumption ==
    /\ Stray \notin Order
    /\ Items \in [Order -> Seq(Product)] /\ \A o \in Order : Items[o] # <<>>
    /\ Awaited \subseteq Order
    /\ Settable \subseteq {"CONFIRMED", "SHIPPED", "DELIVERED"}
    /\ MaxAttempts \in Nat \ {0} /\ MaxFaults \in Nat

VARIABLES
    tx,         \* tx[o]: the transaction of createOrder
    status,     \* status[o]: the status in the row of o, once there is one
    charged,    \* the orders for which payment-service took the money
    sending,    \* OrderCreated records handed to the producer
    awaiting,   \* awaiting[o]: createOrderAndAwaitFulfillment
    events,     \* order-events
    owner,      \* the replica the partition is assigned to
    position,   \* records the owner has fetched
    marked,     \* records the owner has marked
    committed,  \* the group's committed offset
    batch,      \* batch[r]: indices of the fetched records r has not finished
    at,         \* at[r]: how far r is with the first of them
    shipments,  \* shipments[o]: rows of o in table shipments
    shipped,    \* shipment-events the listener has not consumed
    reserved,   \* reserved[o][i]: how often item i of o was taken from the stock
    refused,    \* refused[o]: items of o inventory-service answered 409 for
    redone,     \* a record was fetched twice, or an answer lost
    down,       \* the targets of fulfillment-service that do not answer now
    faults

orderVars == <<tx, status, charged, sending, awaiting>>
consumerVars == <<owner, position, marked, committed>>
workVars == <<batch, at, shipments, shipped, reserved, refused>>
vars == <<inventoryVars, orderVars, events, consumerVars, workVars, redone, down, faults>>

Status == {"PENDING", "CONFIRMED", "SHIPPED", "DELIVERED", "FULFILLED"}
Record == Order \cup {Stray}
Target == {"shipments", "shipment-events"}
Start == [stage |-> "reserve", item |-> 1, attempt |-> 1]

Fault == faults < MaxFaults /\ faults' = faults + 1

Tail1(s) == SubSeq(s, 2, Len(s))

-----------------------------------------------------------------------------
(* order-service: createOrder up to the commit, which no one else sees.    *)

\* The payment is answered, or taken and the answer lost, or refused.
Pays(o, outcome) ==
    /\ charged' = IF outcome = "refused" THEN charged ELSE charged \cup {o}
    /\ IF outcome = "answered" THEN UNCHANGED faults ELSE Fault

\* Variant: the event does not wait for the payment.
CreateOrderUnpaid(o, outcome) ==
    /\ tx[o] = "new"
    /\ Pays(o, outcome)
    /\ tx' = [tx EXCEPT ![o] = "open"]
    /\ status' = [status EXCEPT ![o] = IF outcome = "answered" THEN "CONFIRMED" ELSE "PENDING"]
    /\ sending' = sending \cup {o}
    /\ awaiting' = [awaiting EXCEPT ![o] = IF o \in Awaited THEN "polling" ELSE "no"]
    /\ UNCHANGED <<inventoryVars, events, consumerVars, workVars, redone, down>>

CreateOrder(o, outcome) ==
    /\ tx[o] = "new"
    /\ Pays(o, outcome)
    /\ tx' = [tx EXCEPT ![o] = "open"]
    /\ status' = [status EXCEPT ![o] = IF outcome = "answered" THEN "CONFIRMED" ELSE "PENDING"]
    /\ sending' = IF outcome = "answered" THEN sending \cup {o} ELSE sending
    /\ awaiting' = [awaiting EXCEPT ![o] = IF o \in Awaited THEN "polling" ELSE "no"]
    /\ UNCHANGED <<inventoryVars, events, consumerVars, workVars, redone, down>>

Commit(o) ==
    /\ tx[o] = "open"
    /\ \/ tx' = [tx EXCEPT ![o] = "committed"] /\ UNCHANGED <<awaiting, faults>>
       \/ Fault /\ tx' = [tx EXCEPT ![o] = "aborted"] /\ awaiting' = [awaiting EXCEPT ![o] = "no"]
    /\ UNCHANGED <<inventoryVars, status, charged, sending, events, consumerVars, workVars, redone, down>>

\* KafkaTemplate.send completes before or after the commit, or fails.
Publish(o) ==
    /\ o \in sending
    /\ sending' = sending \ {o}
    /\ \/ events' = Append(events, o) /\ UNCHANGED faults
       \/ Fault /\ UNCHANGED events
    /\ UNCHANGED <<inventoryVars, tx, status, charged, awaiting, consumerVars, workVars, redone, down>>

\* existingOrderID draws from the list order-service answers with.
Existing == {o \in Order : tx[o] = "committed"}

UpdateOrderStatus(o, s) ==
    /\ o \in Existing
    /\ status' = [status EXCEPT ![o] = s]
    /\ UNCHANGED <<inventoryVars, tx, charged, sending, awaiting, events, consumerVars, workVars, redone, down, faults>>

\* onShipmentEvent; a failure is swallowed, and a record may come again.
OnShipmentEvent ==
    /\ shipped # <<>>
    /\ \/ /\ status' = IF tx[Head(shipped)] = "committed"
                       THEN [status EXCEPT ![Head(shipped)] = "FULFILLED"] ELSE status
          /\ \/ shipped' = Tail(shipped) /\ UNCHANGED faults
             \/ Fault /\ UNCHANGED shipped
       \/ Fault /\ shipped' = Tail(shipped) /\ UNCHANGED status
    /\ UNCHANGED <<inventoryVars, tx, charged, sending, awaiting, events, consumerVars,
                   batch, at, shipments, reserved, refused, redone, down>>

\* The poll that finds the order fulfilled, and the deadline.
AwaitEnds(o) ==
    /\ awaiting[o] = "polling" /\ o \in Existing
    /\ awaiting' = [awaiting EXCEPT ![o] = IF status[o] = "FULFILLED" THEN "fulfilled" ELSE "late"]
    /\ UNCHANGED <<inventoryVars, tx, status, charged, sending, events, consumerVars, workVars, redone, down, faults>>

-----------------------------------------------------------------------------
(* fulfillment-service: the consumer.                                      *)

PollFetches(r) ==
    /\ owner = r /\ batch[r] = <<>> /\ position < Len(events)
    /\ batch' = [batch EXCEPT ![r] = [i \in 1..(Len(events) - position) |-> position + i]]
    /\ position' = Len(events)
    /\ UNCHANGED <<inventoryVars, orderVars, events, owner, marked, committed,
                   at, shipments, shipped, reserved, refused, redone, down, faults>>

CommitMarks(r) ==
    /\ owner = r /\ marked > committed
    /\ committed' = marked
    /\ UNCHANGED <<inventoryVars, orderVars, events, owner, position, marked, workVars, redone, down, faults>>

\* The partition goes to r, with or without a last commit; the records the
\* old owner has fetched it goes on processing.
Assign(r, last) ==
    /\ owner' = r /\ position' = last /\ marked' = last /\ committed' = last
    /\ redone' = (redone \/ last < position)

Rebalance(r) ==
    /\ r # owner /\ Fault
    /\ \E last \in {committed, marked} : Assign(r, last)
    /\ UNCHANGED <<inventoryVars, orderVars, events, workVars, down>>

\* SIGTERM: the batch is finished and its marks committed.
Shutdown(r) ==
    /\ owner = r /\ batch[r] = <<>> /\ Fault
    /\ \E new \in Replica : Assign(new, marked)
    /\ UNCHANGED <<inventoryVars, orderVars, events, workVars, down>>

Crash(r) ==
    /\ Fault
    /\ batch' = [batch EXCEPT ![r] = <<>>] /\ at' = [at EXCEPT ![r] = Start]
    /\ IF owner = r THEN \E new \in Replica : Assign(new, committed)
                    ELSE UNCHANGED <<consumerVars, redone>>
    /\ UNCHANGED <<inventoryVars, orderVars, events, shipments, shipped, reserved, refused, down>>

-----------------------------------------------------------------------------
(* fulfillment-service: processRecord, one call to another service a step. *)

Working(r, stage) == batch[r] # <<>> /\ at[r].stage = stage
Current(r) == events[batch[r][1]]
Item(r) == Items[Current(r)][at[r].item]

\* The record is done with, however that ended, and marked for commit.
Finish(r) ==
    /\ batch' = [batch EXCEPT ![r] = Tail1(batch[r])]
    /\ at' = [at EXCEPT ![r] = Start]
    /\ marked' = IF owner = r THEN Larger(marked, batch[r][1]) ELSE marked

NextItem(r) ==
    /\ at' = [at EXCEPT ![r] = IF @.item < Len(Items[Current(r)])
                               THEN [Start EXCEPT !.item = at[r].item + 1] ELSE [Start EXCEPT !.stage = "ship"]]
    /\ UNCHANGED <<batch, marked>>

\* Variant: an item that cannot be reserved is left out of the order.
RetryElseNext(r) ==
    IF at[r].attempt < MaxAttempts THEN at' = [at EXCEPT ![r].attempt = @ + 1] /\ UNCHANGED <<batch, marked>>
                                   ELSE NextItem(r)

\* Variant: one attempt more.
RetryOnceMore(r) ==
    IF at[r].attempt <= MaxAttempts THEN at' = [at EXCEPT ![r].attempt = @ + 1] /\ UNCHANGED <<batch, marked>>
                                    ELSE Finish(r)

\* Variant: retried until it succeeds.
RetryForever(r) == UNCHANGED <<batch, at, marked>>

Retry(r) ==
    IF at[r].attempt < MaxAttempts THEN at' = [at EXCEPT ![r].attempt = @ + 1] /\ UNCHANGED <<batch, marked>>
                                   ELSE Finish(r)

\* A record that does not decode, or is not an OrderCreated.
SkipRecord(r) ==
    /\ Working(r, "reserve") /\ Current(r) = Stray /\ Finish(r)
    /\ UNCHANGED <<inventoryVars, orderVars, events, owner, position, committed,
                   shipments, shipped, reserved, refused, redone, down, faults>>

Counted(r) == reserved' = IF TakeAnswer(Item(r)) = "ok"
                          THEN [reserved EXCEPT ![Current(r)][at[r].item] = @ + 1] ELSE reserved

ReserveInventory(r) ==
    /\ Working(r, "reserve") /\ Current(r) \in Order
    /\ \/ /\ Take(Item(r)) /\ Counted(r)
          /\ IF TakeAnswer(Item(r)) = "missing" THEN Retry(r) ELSE NextItem(r)
          /\ refused' = IF TakeAnswer(Item(r)) = "short"
                        THEN [refused EXCEPT ![Current(r)] = @ \cup {at[r].item}] ELSE refused
          /\ UNCHANGED <<redone, faults>>
       \/ /\ Fault /\ Retry(r) /\ UNCHANGED refused
          /\ \/ Take(Item(r)) /\ Counted(r) /\ redone' = TRUE
             \/ UNCHANGED <<inventoryVars, reserved, redone>>
    /\ UNCHANGED <<orderVars, events, owner, position, committed, shipments, shipped, down>>

\* Variant: a failed insert is announced like the others.
CreateShipmentUnchecked(r) ==
    /\ Working(r, "ship") /\ "shipments" \notin down
    /\ \/ shipments' = [shipments EXCEPT ![Current(r)] = @ + 1] /\ UNCHANGED faults
       \/ Fault /\ UNCHANGED shipments
    /\ at' = [at EXCEPT ![r].stage = "publish"]
    /\ UNCHANGED <<inventoryVars, orderVars, events, consumerVars, batch, shipped, reserved, refused, redone, down>>

\* Neither the insert nor the publish has a deadline: while its target is down the
\* call does not return, and the records behind it wait.
CreateShipment(r) ==
    /\ Working(r, "ship") /\ "shipments" \notin down
    /\ \/ /\ shipments' = [shipments EXCEPT ![Current(r)] = @ + 1]
          /\ at' = [at EXCEPT ![r].stage = "publish"]
          /\ UNCHANGED <<batch, marked, faults>>
       \/ /\ Fault /\ Finish(r)
          /\ shipments' \in {shipments, [shipments EXCEPT ![Current(r)] = @ + 1]}
    /\ UNCHANGED <<inventoryVars, orderVars, events, owner, position, committed,
                   shipped, reserved, refused, redone, down>>

\* Variant: a shipment that could not be announced is made again.
PublishElseRepeat(r) ==
    /\ Working(r, "publish") /\ "shipment-events" \notin down
    /\ \/ shipped' = Append(shipped, Current(r)) /\ Finish(r) /\ UNCHANGED faults
       \/ /\ Fault /\ UNCHANGED <<shipped, batch, marked>>
          /\ at' = [at EXCEPT ![r].stage = "ship"]
    /\ UNCHANGED <<inventoryVars, orderVars, events, owner, position, committed,
                   shipments, reserved, refused, redone, down>>

PublishShipmentCreated(r) ==
    /\ Working(r, "publish") /\ "shipment-events" \notin down /\ Finish(r)
    /\ \/ shipped' = Append(shipped, Current(r)) /\ UNCHANGED faults
       \/ Fault /\ shipped' \in {shipped, Append(shipped, Current(r))}
    /\ UNCHANGED <<inventoryVars, orderVars, events, owner, position, committed,
                   shipments, reserved, refused, redone, down>>

ProcessRecord(r) == SkipRecord(r) \/ ReserveInventory(r) \/ CreateShipment(r) \/ PublishShipmentCreated(r)

-----------------------------------------------------------------------------

Init ==
    /\ InventoryInit
    /\ tx = [o \in Order |-> "new"] /\ status = [o \in Order |-> "PENDING"]
    /\ charged = {} /\ sending = {} /\ awaiting = [o \in Order |-> "no"]
    /\ events = <<>>
    /\ owner \in Replica /\ position = 0 /\ marked = 0 /\ committed = 0
    /\ batch = [r \in Replica |-> <<>>] /\ at = [r \in Replica |-> Start]
    /\ shipments = [o \in Order |-> 0] /\ shipped = <<>>
    /\ reserved = [o \in Order |-> [i \in DOMAIN Items[o] |-> 0]]
    /\ refused = [o \in Order |-> {}]
    /\ redone = FALSE /\ down = {} /\ faults = 0

\* Somebody else writes to order-events.
StrayRecord ==
    /\ Fault /\ events' = Append(events, Stray)
    /\ UNCHANGED <<inventoryVars, orderVars, consumerVars, workVars, redone, down>>

\* The database of shipments, or shipment-events, stops answering, and answers again.
Outage(d) ==
    /\ d \notin down /\ Fault /\ down' = down \cup {d}
    /\ UNCHANGED <<inventoryVars, orderVars, events, consumerVars, workVars, redone>>

Recovers(d) ==
    /\ d \in down /\ down' = down \ {d}
    /\ UNCHANGED <<inventoryVars, orderVars, events, consumerVars, workVars, redone, faults>>

\* What the load generator asks of inventory-service itself.
StockChanges ==
    /\ \/ \E p \in Product : Reserve(p) \/ \E q \in 0..MaxStock : Upsert(p, q)
       \/ \E i \in DOMAIN reservations : Release(i)
    /\ UNCHANGED <<orderVars, events, consumerVars, workVars, redone, down, faults>>

Next ==
    \/ \E o \in Order :
          \/ \E outcome \in {"answered", "lost", "refused"} : CreateOrder(o, outcome)
          \/ Commit(o) \/ Publish(o) \/ AwaitEnds(o)
          \/ \E s \in Settable : UpdateOrderStatus(o, s)
    \/ OnShipmentEvent
    \/ \E r \in Replica :
          PollFetches(r) \/ CommitMarks(r) \/ Rebalance(r) \/ Shutdown(r) \/ Crash(r) \/ ProcessRecord(r)
    \/ StockChanges \/ StrayRecord \/ \E d \in Target : Outage(d) \/ Recovers(d)

Spec == Init /\ [][Next]_vars

\* The replicas poll, work and commit; everything else may stop.
FairSpec ==
    Spec /\ \A r \in Replica : WF_vars(PollFetches(r)) /\ WF_vars(ProcessRecord(r)) /\ WF_vars(CommitMarks(r))

-----------------------------------------------------------------------------

PipelineTypeOK ==
    /\ InventoryTypeOK
    /\ tx \in [Order -> {"new", "open", "committed", "aborted"}]
    /\ status \in [Order -> Status]
    /\ charged \subseteq Order /\ sending \subseteq Order
    /\ awaiting \in [Order -> {"no", "polling", "fulfilled", "late"}]
    /\ events \in Seq(Record) /\ shipped \in Seq(Order)
    /\ owner \in Replica /\ position \in 0..Len(events)
    /\ marked \in 0..Len(events) /\ committed \in 0..marked
    /\ batch \in [Replica -> Seq(1..Len(events))]
    /\ at \in [Replica -> [stage : {"reserve", "ship", "publish"}, item : Nat \ {0}, attempt : 1..MaxAttempts]]
    /\ shipments \in [Order -> Nat]
    /\ redone \in BOOLEAN /\ down \subseteq Target /\ faults \in 0..MaxFaults

\* Nothing is shipped that was not paid for, whichever calls fail and however
\* often a record is processed: an order with no payment id is PENDING and
\* publishes nothing (OrderService.java:53-75).
ShippedIsPaid == \A o \in Order : shipments[o] > 0 => o \in charged

\* An order is FULFILLED, and was FULFILLED to the client that polled for it, only
\* with a shipment in the table, as long as the load generator is the only client:
\* PUT /orders/{id}/status would take FULFILLED too (OrderController.java:60-70).
FulfilledIsShipped ==
    \A o \in Order : status[o] = "FULFILLED" \/ awaiting[o] = "fulfilled" => shipments[o] > 0

\* Each item of a shipped order was taken from the stock or answered 409: no
\* other failure lets an order through (main.go:244-250, 269-272).
ShippedIsReserved ==
    \A o \in Order : shipments[o] > 0 =>
        \A i \in DOMAIN Items[o] : reserved[o][i] > 0 \/ i \in refused[o]

\* An order gets a second shipment, and an item is taken twice, only when its
\* record was fetched again or an answer of inventory-service was lost.
OnceUnlessRedone ==
    ~redone => \A o \in Order : shipments[o] <= 1 /\ \A i \in DOMAIN Items[o] : reserved[o][i] <= 1

\* A record, an order or not, and whatever fails for it, does not hold up the
\* partition: the group gets past it (main.go:211-213).  That is of failures: the
\* insert and the publish wait for as long as their target is down (main.go:93-101,
\* 319-350), and the partition with them, so every outage has to end.
NoRecordWedges ==
    <>[](down = {}) => \A n \in 1..(Cardinality(Order) + MaxFaults) : Len(events) >= n ~> committed >= n

=============================================================================
