-------------------------- MODULE OrderPipelineProofs --------------------------
(***************************************************************************)
(* For any number of orders, items, replicas and failures: what is shipped *)
(* was paid for and was taken from the stock or refused by it, what is     *)
(* fulfilled was shipped, reservations add up, and no record counts twice  *)
(* unless it was fetched twice or an answer was lost.                      *)
(***************************************************************************)
EXTENDS OrderPipeline, FiniteSetTheorems, TLAPS

Stage == {"reserve", "ship", "publish"}
Place == [stage : Stage, item : Nat \ {0}, attempt : 1..MaxAttempts]

OrderTypes ==
    /\ tx \in [Order -> {"new", "open", "committed", "aborted"}]
    /\ status \in [Order -> Status]
    /\ charged \subseteq Order /\ sending \subseteq Order
    /\ awaiting \in [Order -> {"no", "polling", "fulfilled", "late"}]

GroupTypes ==
    /\ events \in Seq(Record)
    /\ owner \in Replica /\ position \in 0..Len(events)
    /\ marked \in 0..Len(events) /\ committed \in 0..marked

WorkTypes ==
    /\ batch \in [Replica -> Seq(1..Len(events))]
    /\ at \in [Replica -> Place]
    /\ shipments \in [Order -> Nat] /\ shipped \in Seq(Order)

\* What the type invariant leaves open: how often each item was taken, and which
\* were refused; and where a replica is with a record.
ItemTypes ==
    /\ reserved = [o \in Order |-> reserved[o]]
    /\ \A o \in Order : reserved[o] \in [DOMAIN Items[o] -> Nat]
    /\ refused \in [Order -> SUBSET Nat]

AtItem ==
    \A r \in Replica :
        /\ batch[r] = <<>> => at[r] = Start
        /\ batch[r] # <<>> /\ Current(r) \in Order /\ at[r].stage = "reserve" =>
               at[r].item \in DOMAIN Items[Current(r)]
        /\ batch[r] # <<>> /\ Current(r) \notin Order => at[r] = Start

Types == OrderTypes /\ GroupTypes /\ WorkTypes /\ ItemTypes /\ AtItem

-----------------------------------------------------------------------------
(* The operators of the model on typed arguments.                          *)

\* The log, the work in progress and the items of an order.
LEMMA CurrentType ==
    ASSUME GroupTypes, WorkTypes, NEW r \in Replica, batch[r] # <<>>
    PROVE  /\ batch[r][1] \in 1..Len(events) /\ Current(r) \in Record
           /\ Tail1(batch[r]) \in Seq(1..Len(events))
           /\ Current(r) \in Order =>
                 /\ DOMAIN Items[Current(r)] = 1..Len(Items[Current(r)])
                 /\ Len(Items[Current(r)]) \in Nat \ {0}
  <1>1. batch[r] \in Seq(1..Len(events)) /\ Len(batch[r]) \in Nat \ {0}
    BY DEF WorkTypes
  <1>2. batch[r][1] \in 1..Len(events)
    BY <1>1
  <1>3. Current(r) \in Record
    BY <1>2 DEF Current, GroupTypes
  <1>4. Tail1(batch[r]) \in Seq(1..Len(events))
    BY <1>1 DEF Tail1
  <1>5. Current(r) \in Order => Items[Current(r)] \in Seq(Product) /\ Items[Current(r)] # <<>>
    BY PipelineAssumption
  <1> QED BY <1>2, <1>3, <1>4, <1>5

\* A record that is done with leaves the place of a replica at the start.
LEMMA FinishType ==
    ASSUME Types, NEW r \in Replica, batch[r] # <<>>, Finish(r), events' = events, committed' = committed
    PROVE  /\ batch' \in [Replica -> Seq(1..Len(events))] /\ at' \in [Replica -> Place]
           /\ batch'[r] = Tail1(batch[r]) /\ at'[r] = Start
           /\ \A q \in Replica \ {r} : batch'[q] = batch[q] /\ at'[q] = at[q]
           /\ marked' \in 0..Len(events) /\ committed' \in 0..marked'
  <1>1. Start \in Place
    BY PipelineAssumption DEF Start, Place, Stage
  <1>2. /\ batch[r][1] \in 1..Len(events) /\ Tail1(batch[r]) \in Seq(1..Len(events))
    BY CurrentType DEF Types
  <1>3. /\ batch' = [batch EXCEPT ![r] = Tail1(batch[r])] /\ at' = [at EXCEPT ![r] = Start]
        /\ marked' = IF owner = r THEN Larger(marked, batch[r][1]) ELSE marked
    BY DEF Finish
  <1>4. batch \in [Replica -> Seq(1..Len(events))] /\ at \in [Replica -> Place]
    BY DEF Types, WorkTypes
  <1>5. /\ batch' \in [Replica -> Seq(1..Len(events))] /\ batch'[r] = Tail1(batch[r])
        /\ \A q \in Replica \ {r} : batch'[q] = batch[q]
    BY <1>2, <1>3, <1>4
  <1>6. /\ at' \in [Replica -> Place] /\ at'[r] = Start
        /\ \A q \in Replica \ {r} : at'[q] = at[q]
    BY <1>1, <1>3, <1>4
  <1>7. marked' \in 0..Len(events) /\ committed' \in 0..marked'
    <2>1. marked \in 0..Len(events) /\ committed \in 0..marked /\ Len(events) \in Nat
      BY DEF Types, GroupTypes
    <2> QED BY <1>2, <1>3, <2>1 DEF Larger
  <1> QED BY <1>5, <1>6, <1>7

\* The next item of the order, or the shipment.
LEMMA NextItemType ==
    ASSUME Types, NEW r \in Replica, batch[r] # <<>>, Current(r) \in Order, at[r].stage = "reserve", NextItem(r)
    PROVE  /\ at' \in [Replica -> Place] /\ batch' = batch /\ marked' = marked
           /\ \A q \in Replica \ {r} : at'[q] = at[q]
           /\ \/ /\ at'[r].stage = "reserve" /\ at'[r].item = at[r].item + 1
                 /\ at'[r].item \in DOMAIN Items[Current(r)]
              \/ /\ at'[r].stage = "ship" /\ at[r].item = Len(Items[Current(r)])
  <1>1. at[r].item \in DOMAIN Items[Current(r)]
    BY DEF Types, AtItem
  <1>2. /\ DOMAIN Items[Current(r)] = 1..Len(Items[Current(r)]) /\ Len(Items[Current(r)]) \in Nat
    BY CurrentType DEF Types
  <1> DEFINE n == IF at[r].item < Len(Items[Current(r)])
                  THEN [Start EXCEPT !.item = at[r].item + 1] ELSE [Start EXCEPT !.stage = "ship"]
  <1>3. at' = [at EXCEPT ![r] = n] /\ batch' = batch /\ marked' = marked
    BY DEF NextItem
  <1>4. /\ n \in Place
        /\ \/ n.stage = "reserve" /\ n.item = at[r].item + 1 /\ n.item \in DOMAIN Items[Current(r)]
           \/ n.stage = "ship" /\ at[r].item = Len(Items[Current(r)])
    BY <1>1, <1>2, PipelineAssumption DEF Start, Place, Stage
  <1> HIDE DEF n
  <1> QED BY <1>3, <1>4 DEF Types, WorkTypes

\* Another attempt, or the end of the record.
LEMMA RetryType ==
    ASSUME Types, NEW r \in Replica, batch[r] # <<>>, Retry(r), events' = events, committed' = committed
    PROVE  /\ batch' \in [Replica -> Seq(1..Len(events))] /\ at' \in [Replica -> Place]
           /\ \A q \in Replica \ {r} : batch'[q] = batch[q] /\ at'[q] = at[q]
           /\ marked' \in 0..Len(events) /\ committed' \in 0..marked'
           /\ \/ batch'[r] = Tail1(batch[r]) /\ at'[r] = Start
              \/ batch' = batch /\ at'[r].stage = at[r].stage /\ at'[r].item = at[r].item
  <1>1. CASE at[r].attempt < MaxAttempts
    <2> DEFINE n == [at[r] EXCEPT !.attempt = @ + 1]
    <2>1. at' = [at EXCEPT ![r] = n] /\ UNCHANGED <<batch, marked>>
      BY <1>1 DEF Retry
    <2>2. at[r] \in Place /\ MaxAttempts \in Nat
      BY PipelineAssumption DEF Types, WorkTypes
    <2>3. at[r].attempt \in 1..MaxAttempts /\ at[r].attempt + 1 \in 1..MaxAttempts
      BY <2>2, <1>1 DEF Place
    <2>4. n \in Place /\ n.stage = at[r].stage /\ n.item = at[r].item
      BY <2>2, <2>3 DEF Place
    <2> HIDE DEF n
    <2> QED BY <2>1, <2>4 DEF Types, WorkTypes, GroupTypes
  <1>2. CASE ~(at[r].attempt < MaxAttempts)
    BY <1>2, FinishType DEF Retry
  <1> QED BY <1>1, <1>2

Obtained(o, i) == reserved[o][i] > 0 \/ i \in refused[o]

\* An item taken from the stock is obtained, and nothing obtained is lost.
LEMMA CountedType ==
    ASSUME Types, NEW r \in Replica, batch[r] # <<>>, Current(r) \in Order, at[r].stage = "reserve", Counted(r)
    PROVE  /\ reserved' = [o \in Order |-> reserved'[o]]
           /\ \A o \in Order : reserved'[o] \in [DOMAIN Items[o] -> Nat]
           /\ \A o \in Order : \A i \in DOMAIN Items[o] : reserved[o][i] > 0 => reserved'[o][i] > 0
           /\ TakeAnswer(Item(r)) = "ok" => reserved'[Current(r)][at[r].item] > 0
  <1> DEFINE c == Current(r)
             i == at[r].item
  <1>1. c \in Order /\ i \in DOMAIN Items[c] /\ reserved[c] \in [DOMAIN Items[c] -> Nat]
    BY CurrentType DEF Types, AtItem, ItemTypes
  <1>2. CASE TakeAnswer(Item(r)) = "ok"
    <2> DEFINE f == [reserved[c] EXCEPT ![i] = @ + 1]
    <2>1. f \in [DOMAIN Items[c] -> Nat] /\ f[i] > 0
          /\ \A j \in DOMAIN Items[c] : reserved[c][j] > 0 => f[j] > 0
      BY <1>1
    <2>2. reserved' = [reserved EXCEPT ![c] = f]
      BY <1>2 DEF Counted
    <2> HIDE DEF f, c, i
    <2>3. reserved'[c] = f /\ \A o \in Order \ {c} : reserved'[o] = reserved[o]
      BY <1>1, <2>2 DEF Types, ItemTypes
    <2>4. reserved' = [o \in Order |-> reserved'[o]]
      BY <2>2 DEF Types, ItemTypes
    <2> QED BY <1>1, <2>1, <2>3, <2>4 DEF Types, ItemTypes, c, i
  <1>3. CASE TakeAnswer(Item(r)) # "ok"
    BY <1>3 DEF Counted, Types, ItemTypes
  <1> QED BY <1>2, <1>3

-----------------------------------------------------------------------------
(* The invariant.                                                          *)

\* The money comes before the event, and the event before the shipment.
Paid ==
    /\ sending \subseteq charged
    /\ \A n \in DOMAIN events : events[n] \in charged \cup {Stray}
    /\ ShippedIsPaid

\* The shipment comes before its event, and that before the status.
Announced ==
    /\ \A n \in DOMAIN shipped : shipments[shipped[n]] > 0
    /\ FulfilledIsShipped

\* What a replica has done for the record it is at.
Done(r) ==
    batch[r] # <<>> /\ Current(r) \in Order =>
        /\ at[r].stage = "publish" => shipments[Current(r)] > 0
        /\ \A i \in DOMAIN Items[Current(r)] :
              at[r].stage # "reserve" \/ i < at[r].item => Obtained(Current(r), i)

IInv == Types /\ Paid /\ Announced /\ ShippedIsReserved /\ \A r \in Replica : Done(r)

\* The log only grows, so a replica stays at the record it is at.
LEMMA SameRecord ==
    ASSUME GroupTypes, WorkTypes, NEW r \in Replica, batch[r] # <<>>, batch'[r] = batch[r],
           events' = events \/ \E o \in Record : events' = Append(events, o)
    PROVE  Current(r)' = Current(r)
  <1>1. batch[r][1] \in 1..Len(events) /\ events \in Seq(Record)
    BY CurrentType DEF GroupTypes
  <1>2. events'[batch[r][1]] = events[batch[r][1]]
    BY <1>1
  <1> QED BY <1>2 DEF Current

\* At the start of a record nothing of it is done, and there is nothing to show.
LEMMA StartDone ==
    ASSUME NEW r \in Replica, batch'[r] \in Seq(1..Len(events)), at'[r] = Start,
           events' = events, events \in Seq(Record)
    PROVE  /\ Done(r)'
           /\ batch'[r] # <<>> /\ Current(r)' \in Order => at'[r].item \in DOMAIN Items[Current(r)']
  <1> SUFFICES ASSUME batch'[r] # <<>>, Current(r)' \in Order
               PROVE  Done(r)' /\ at'[r].item \in DOMAIN Items[Current(r)']
    BY DEF Done
  <1>1. Current(r)' \in Order
    OBVIOUS
  <1>2. /\ DOMAIN Items[Current(r)'] = 1..Len(Items[Current(r)'])
        /\ Len(Items[Current(r)']) \in Nat \ {0}
    <2>1. Items[Current(r)'] \in Seq(Product) /\ Items[Current(r)'] # <<>>
      BY <1>1, PipelineAssumption
    <2> QED BY <2>1
  <1>3. at'[r].stage = "reserve" /\ at'[r].item = 1
    BY DEF Start
  <1> QED BY <1>2, <1>3 DEF Done

\* A step of replica r: what it must show of its own work, and of the rest.
LEMMA ReplicaStep ==
    ASSUME IInv, NEW r \in Replica, UNCHANGED orderVars, events' = events,
           GroupTypes', WorkTypes', ItemTypes',
           \A q \in Replica \ {r} : batch'[q] = batch[q] /\ at'[q] = at[q],
           batch'[r] = <<>> => at'[r] = Start,
           batch'[r] # <<>> /\ Current(r)' \in Order /\ at'[r].stage = "reserve" =>
               at'[r].item \in DOMAIN Items[Current(r)'],
           batch'[r] # <<>> /\ Current(r)' \notin Order => at'[r] = Start,
           Done(r)',
           \A o \in Order : \A i \in DOMAIN Items[o] : Obtained(o, i) => Obtained(o, i)',
           \A o \in Order : shipments[o] > 0 => shipments'[o] > 0,
           \A o \in Order : shipments'[o] > 0 =>
               shipments[o] > 0 \/ (batch[r] # <<>> /\ o = Current(r) /\ at[r].stage = "ship"),
           \A n \in DOMAIN shipped' : shipments'[shipped'[n]] > 0
    PROVE  IInv'
  <1>1. OrderTypes'
    BY DEF IInv, Types, OrderTypes, orderVars
  <1>2. ASSUME NEW q \in Replica, q # r, batch[q] # <<>>
        PROVE  Current(q)' = Current(q)
    BY <1>2, SameRecord DEF IInv, Types
  <1>3. AtItem'
    <2> SUFFICES ASSUME NEW q \in Replica
                 PROVE  /\ batch'[q] = <<>> => at'[q] = Start
                        /\ batch'[q] # <<>> /\ Current(q)' \in Order /\ at'[q].stage = "reserve" =>
                               at'[q].item \in DOMAIN Items[Current(q)']
                        /\ batch'[q] # <<>> /\ Current(q)' \notin Order => at'[q] = Start
      BY DEF AtItem
    <2>1. CASE q = r
      BY <2>1
    <2>2. CASE q # r
      BY <2>2, <1>2 DEF IInv, Types, AtItem
    <2> QED BY <2>1, <2>2
  <1>4. ASSUME NEW q \in Replica PROVE Done(q)'
    <2>1. CASE q = r
      BY <2>1
    <2>2. CASE q # r
      BY <2>2, <1>2 DEF IInv, Done
    <2> QED BY <2>1, <2>2
  <1>5. batch[r] # <<>> /\ at[r].stage = "ship" => Current(r) \in charged
    <2> SUFFICES ASSUME batch[r] # <<>>, at[r].stage = "ship" PROVE Current(r) \in charged
      OBVIOUS
    <2>0. Current(r) # Stray
      BY PipelineAssumption DEF IInv, Types, AtItem, Start
    <2>1. batch[r][1] \in DOMAIN events
      BY CurrentType DEF IInv, Types, GroupTypes
    <2> QED BY <2>0, <2>1 DEF Current, IInv, Paid
  <1>6. Paid'
    BY <1>5 DEF IInv, Paid, ShippedIsPaid, orderVars
  <1>7. Announced'
    BY DEF IInv, Announced, FulfilledIsShipped, orderVars
  <1>8. batch[r] # <<>> /\ at[r].stage = "ship" /\ Current(r) \in Order =>
            \A i \in DOMAIN Items[Current(r)] : Obtained(Current(r), i)
    BY DEF IInv, Done
  <1>9. ShippedIsReserved'
    BY <1>8 DEF IInv, ShippedIsReserved, Obtained
  <1> QED BY <1>1, <1>3, <1>4, <1>6, <1>7, <1>9 DEF IInv, Types

\* A step of order-service, of the group's coordinator or of a client.
LEMMA OtherStep ==
    ASSUME IInv, UNCHANGED <<batch, at, shipments, reserved, refused>>,
           OrderTypes', GroupTypes', shipped' \in Seq(Order),
           events' = events \/ \E o \in charged' \cup {Stray} : events' = Append(events, o),
           charged \subseteq charged', sending' \subseteq charged',
           \A n \in DOMAIN shipped' : shipments[shipped'[n]] > 0,
           FulfilledIsShipped'
    PROVE  IInv'
  <1>1. charged' \cup {Stray} \subseteq Record /\ events \in Seq(Record)
    BY DEF OrderTypes, IInv, Types, GroupTypes, Record
  <1>2. Len(events) \in Nat /\ Len(events') \in Nat /\ Len(events) <= Len(events')
    BY <1>1
  <1>3. WorkTypes'
    <2>1. ASSUME NEW q \in Replica PROVE batch[q] \in Seq(1..Len(events'))
      <3>1. batch[q] \in Seq(1..Len(events))
        BY DEF IInv, Types, WorkTypes
      <3>2. 1..Len(events) \subseteq 1..Len(events')
        BY <1>2
      <3> QED BY <3>1, <3>2
    <2>2. batch \in [Replica -> Seq(1..Len(events'))]
      BY <2>1 DEF IInv, Types, WorkTypes
    <2> QED BY <2>2 DEF IInv, Types, WorkTypes
  <1>4. ASSUME NEW q \in Replica, batch[q] # <<>> PROVE Current(q)' = Current(q)
    BY <1>4, <1>1, SameRecord DEF IInv, Types
  <1>5. AtItem'
    BY <1>4 DEF IInv, Types, AtItem
  <1>6. \A q \in Replica : Done(q)'
    BY <1>4 DEF IInv, Done, Obtained
  <1>7. Paid'
    <2>1. \A n \in DOMAIN events' : events'[n] \in charged' \cup {Stray}
      <3>1. CASE events' = events
        BY <3>1 DEF IInv, Paid
      <3>2. ASSUME NEW o \in charged' \cup {Stray}, events' = Append(events, o)
            PROVE  \A n \in DOMAIN events' : events'[n] \in charged' \cup {Stray}
        BY <1>1, <3>2 DEF IInv, Paid
      <3> QED BY <3>1, <3>2
    <2> QED BY <2>1 DEF IInv, Paid, ShippedIsPaid
  <1>8. Announced'
    BY DEF Announced
  <1>9. ShippedIsReserved' /\ ItemTypes'
    BY DEF IInv, Types, ItemTypes, ShippedIsReserved
  <1> QED BY <1>3, <1>5, <1>6, <1>7, <1>8, <1>9 DEF IInv, Types

-----------------------------------------------------------------------------
(* The steps of order-service, its client and the group.                   *)

LEMMA OrderActions ==
    ASSUME IInv, NEW o \in Order,
           \/ \E outcome \in {"answered", "lost", "refused"} : CreateOrder(o, outcome)
           \/ Commit(o) \/ Publish(o) \/ AwaitEnds(o)
           \/ \E s \in Settable : UpdateOrderStatus(o, s)
    PROVE  IInv'
  <1> USE DEF orderVars, consumerVars, workVars
  <1>1. /\ events \in Seq(Record) /\ Len(events) \in Nat /\ shipped \in Seq(Order)
        /\ \A n \in DOMAIN shipped : shipments[shipped[n]] > 0
    BY DEF IInv, Types, GroupTypes, WorkTypes, Announced
  <1>2. ASSUME NEW outcome \in {"answered", "lost", "refused"}, CreateOrder(o, outcome) PROVE IInv'
    <2>1. charged \subseteq charged' /\ charged' \subseteq Order /\ (outcome = "answered" => o \in charged')
      BY <1>2 DEF CreateOrder, Pays, IInv, Types, OrderTypes
    <2>2. sending' \subseteq charged'
      BY <2>1, <1>2 DEF CreateOrder, IInv, Paid
    <2>3. OrderTypes'
      BY <2>1, <2>2, <1>2 DEF CreateOrder, IInv, Types, OrderTypes, Status
    <2>4. GroupTypes'
      BY <1>2 DEF CreateOrder, IInv, Types, GroupTypes
    <2>5. FulfilledIsShipped'
      BY <1>2 DEF CreateOrder, IInv, Types, OrderTypes, Announced, FulfilledIsShipped
    <2>6. UNCHANGED <<batch, at, shipments, reserved, refused, events, shipped>>
      BY <1>2 DEF CreateOrder
    <2> QED BY <1>1, <2>1, <2>2, <2>3, <2>4, <2>5, <2>6, OtherStep
  <1>3. ASSUME Commit(o) PROVE IInv'
    <2>1. OrderTypes' /\ FulfilledIsShipped'
      BY <1>3 DEF Commit, IInv, Types, OrderTypes, Announced, FulfilledIsShipped
    <2>2. GroupTypes' /\ sending' \subseteq charged'
      BY <1>3 DEF Commit, IInv, Types, GroupTypes, Paid
    <2>3. UNCHANGED <<batch, at, shipments, reserved, refused, events, shipped, charged>>
      BY <1>3 DEF Commit
    <2> QED BY <1>1, <2>1, <2>2, <2>3, OtherStep
  <1>4. ASSUME Publish(o) PROVE IInv'
    <2>1. o \in charged /\ sending' \subseteq charged'
      BY <1>4 DEF Publish, IInv, Paid
    <2>2. OrderTypes' /\ FulfilledIsShipped'
      BY <1>4 DEF Publish, IInv, Types, OrderTypes, Announced, FulfilledIsShipped
    <2>3. UNCHANGED <<batch, at, shipments, reserved, refused, shipped, charged, owner, position, marked, committed>>
      BY <1>4 DEF Publish
    <2>4. events' = events \/ events' = Append(events, o)
      BY <1>4 DEF Publish
    <2>5. events' \in Seq(Record) /\ Len(events') \in Nat /\ Len(events) <= Len(events')
      BY <1>1, <2>4 DEF Record
    <2>6. GroupTypes'
      BY <1>1, <2>3, <2>5 DEF IInv, Types, GroupTypes
    <2> QED BY <1>1, <2>1, <2>2, <2>3, <2>4, <2>6, OtherStep
  <1>5. ASSUME AwaitEnds(o) PROVE IInv'
    <2>1. OrderTypes' /\ FulfilledIsShipped'
      BY <1>5 DEF AwaitEnds, Existing, IInv, Types, OrderTypes, Announced, FulfilledIsShipped
    <2>2. GroupTypes' /\ sending' \subseteq charged'
      BY <1>5 DEF AwaitEnds, IInv, Types, GroupTypes, Paid
    <2>3. UNCHANGED <<batch, at, shipments, reserved, refused, events, shipped, charged>>
      BY <1>5 DEF AwaitEnds
    <2> QED BY <1>1, <2>1, <2>2, <2>3, OtherStep
  <1>6. ASSUME NEW s \in Settable, UpdateOrderStatus(o, s) PROVE IInv'
    <2>1. s \in {"CONFIRMED", "SHIPPED", "DELIVERED"}
      BY PipelineAssumption
    <2>2. OrderTypes' /\ FulfilledIsShipped'
      BY <2>1, <1>6 DEF UpdateOrderStatus, Existing, IInv, Types, OrderTypes, Announced, FulfilledIsShipped, Status
    <2>3. GroupTypes' /\ sending' \subseteq charged'
      BY <1>6 DEF UpdateOrderStatus, IInv, Types, GroupTypes, Paid
    <2>4. UNCHANGED <<batch, at, shipments, reserved, refused, events, shipped, charged>>
      BY <1>6 DEF UpdateOrderStatus
    <2> QED BY <1>1, <2>2, <2>3, <2>4, OtherStep
  <1> QED BY <1>2, <1>3, <1>4, <1>5, <1>6

LEMMA ShipmentEventAction ==
    ASSUME IInv, OnShipmentEvent
    PROVE  IInv'
  <1> USE DEF orderVars, consumerVars
  <1>1. /\ shipped \in Seq(Order) /\ shipped # <<>> /\ Head(shipped) \in Order
        /\ shipments[Head(shipped)] > 0
    BY DEF OnShipmentEvent, IInv, Types, WorkTypes, Announced
  <1>2. shipped' = shipped \/ shipped' = Tail(shipped)
    BY DEF OnShipmentEvent
  <1>3. shipped' \in Seq(Order) /\ \A n \in DOMAIN shipped' : shipments[shipped'[n]] > 0
    BY <1>1, <1>2 DEF IInv, Announced
  <1>4. OrderTypes' /\ FulfilledIsShipped'
    BY <1>1 DEF OnShipmentEvent, IInv, Types, OrderTypes, Announced, FulfilledIsShipped, Status
  <1>5. GroupTypes' /\ sending' \subseteq charged'
    BY DEF OnShipmentEvent, IInv, Types, GroupTypes, Paid
  <1>6. UNCHANGED <<batch, at, shipments, reserved, refused, events, charged>>
    BY DEF OnShipmentEvent
  <1> QED BY <1>3, <1>4, <1>5, <1>6, OtherStep

\* The coordinator's steps change only who reads what.
LEMMA GroupActions ==
    ASSUME IInv, NEW r \in Replica, CommitMarks(r) \/ Rebalance(r) \/ Shutdown(r)
    PROVE  IInv'
  <1> USE DEF orderVars, consumerVars, workVars
  <1>1. UNCHANGED <<tx, status, charged, sending, awaiting, events, batch, at,
                    shipments, shipped, reserved, refused>>
    BY DEF CommitMarks, Rebalance, Shutdown
  <1>2. GroupTypes'
    <2>1. Len(events) \in Nat
      BY DEF IInv, Types, GroupTypes
    <2> QED BY <1>1, <2>1 DEF CommitMarks, Rebalance, Shutdown, Assign, IInv, Types, GroupTypes
  <1>3. OrderTypes' /\ FulfilledIsShipped' /\ shipped' \in Seq(Order)
    BY <1>1 DEF IInv, Types, OrderTypes, WorkTypes, Announced, FulfilledIsShipped
  <1>4. sending' \subseteq charged' /\ \A n \in DOMAIN shipped' : shipments[shipped'[n]] > 0
    BY <1>1 DEF IInv, Paid, Announced
  <1> QED BY <1>1, <1>2, <1>3, <1>4, OtherStep

\* A record that is not an order; a target of the consumer that goes or comes back.
LEMMA OutsideAction ==
    ASSUME IInv, StrayRecord \/ \E d \in Target : Outage(d) \/ Recovers(d)
    PROVE  IInv'
  <1> USE DEF orderVars, consumerVars, workVars
  <1>1. UNCHANGED <<tx, status, charged, sending, awaiting, owner, position, marked, committed,
                    batch, at, shipments, shipped, reserved, refused>>
    BY DEF StrayRecord, Outage, Recovers
  <1>2. events' = events \/ events' = Append(events, Stray)
    BY DEF StrayRecord, Outage, Recovers
  <1>3. events \in Seq(Record) /\ Stray \in Record
    BY DEF IInv, Types, GroupTypes, Record
  <1>4. events' \in Seq(Record) /\ Len(events') \in Nat /\ Len(events) <= Len(events') /\ Len(events) \in Nat
    BY <1>2, <1>3
  <1>5. GroupTypes'
    BY <1>1, <1>4 DEF IInv, Types, GroupTypes
  <1>6. OrderTypes' /\ FulfilledIsShipped' /\ shipped' \in Seq(Order)
    BY <1>1 DEF IInv, Types, OrderTypes, WorkTypes, Announced, FulfilledIsShipped
  <1>7. sending' \subseteq charged' /\ \A n \in DOMAIN shipped' : shipments[shipped'[n]] > 0
    BY <1>1 DEF IInv, Paid, Announced
  <1> QED BY <1>1, <1>2, <1>5, <1>6, <1>7, OtherStep

LEMMA StockAction ==
    ASSUME IInv, StockChanges
    PROVE  IInv'
  <1> USE DEF orderVars, consumerVars, workVars
  <1>1. UNCHANGED <<tx, status, charged, sending, awaiting, events, owner, position, marked, committed,
                    batch, at, shipments, shipped, reserved, refused>>
    BY DEF StockChanges
  <1>2. GroupTypes' /\ OrderTypes' /\ FulfilledIsShipped' /\ shipped' \in Seq(Order)
    BY <1>1 DEF IInv, Types, GroupTypes, OrderTypes, WorkTypes, Announced, FulfilledIsShipped
  <1>3. sending' \subseteq charged' /\ \A n \in DOMAIN shipped' : shipments[shipped'[n]] > 0
    BY <1>1 DEF IInv, Paid, Announced
  <1> QED BY <1>1, <1>2, <1>3, OtherStep

-----------------------------------------------------------------------------
(* The steps of a replica.                                                 *)

LEMMA PollAction ==
    ASSUME IInv, NEW r \in Replica, PollFetches(r)
    PROVE  IInv'
  <1> DEFINE b == [i \in 1..(Len(events) - position) |-> position + i]
  <1>1. /\ UNCHANGED <<orderVars, events, at, shipments, shipped, reserved, refused, owner, marked, committed>>
        /\ position' = Len(events) /\ batch' = [batch EXCEPT ![r] = b] /\ batch[r] = <<>>
    BY DEF PollFetches
  <1>2. Len(events) \in Nat /\ position \in 0..Len(events) /\ events \in Seq(Record)
    BY DEF IInv, Types, GroupTypes
  <1>3. b \in Seq(1..Len(events))
    <2>1. Len(events) - position \in Nat /\ \A i \in 1..(Len(events) - position) : b[i] \in 1..Len(events)
      BY <1>2
    <2> QED BY <2>1
  <1> HIDE DEF b
  <1>4. batch' \in [Replica -> Seq(1..Len(events))] /\ batch'[r] = b
        /\ \A q \in Replica \ {r} : batch'[q] = batch[q] /\ at'[q] = at[q]
    BY <1>1, <1>3 DEF IInv, Types, WorkTypes
  <1>5. at'[r] = Start
    BY <1>1 DEF IInv, Types, AtItem
  <1>6. Done(r)' /\ (batch'[r] # <<>> /\ Current(r)' \in Order => at'[r].item \in DOMAIN Items[Current(r)'])
    BY <1>1, <1>2, <1>3, <1>4, <1>5, StartDone
  <1>7. GroupTypes' /\ WorkTypes' /\ ItemTypes'
    BY <1>1, <1>2, <1>4 DEF IInv, Types, GroupTypes, WorkTypes, ItemTypes
  <1>8. \A o \in Order : \A i \in DOMAIN Items[o] : Obtained(o, i) => Obtained(o, i)'
    BY <1>1 DEF Obtained
  <1>9. \A n \in DOMAIN shipped' : shipments'[shipped'[n]] > 0
    BY <1>1 DEF IInv, Announced
  <1>10. UNCHANGED orderVars /\ events' = events /\ shipments' = shipments
    BY <1>1
  <1> QED BY <1>4, <1>5, <1>6, <1>7, <1>8, <1>9, <1>10, ReplicaStep

LEMMA CrashAction ==
    ASSUME IInv, NEW r \in Replica, Crash(r)
    PROVE  IInv'
  <1>1. /\ UNCHANGED <<orderVars, events, shipments, shipped, reserved, refused>>
        /\ batch' = [batch EXCEPT ![r] = <<>>] /\ at' = [at EXCEPT ![r] = Start]
    BY DEF Crash
  <1>2. Start \in Place /\ <<>> \in Seq(1..Len(events))
    BY PipelineAssumption DEF Start, Place, Stage
  <1>3. WorkTypes' /\ batch'[r] = <<>> /\ at'[r] = Start
        /\ \A q \in Replica \ {r} : batch'[q] = batch[q] /\ at'[q] = at[q]
    BY <1>1, <1>2 DEF IInv, Types, WorkTypes
  <1>4. GroupTypes'
    <2>1. Len(events) \in Nat
      BY DEF IInv, Types, GroupTypes
    <2> QED BY <1>1, <2>1 DEF Crash, Assign, consumerVars, IInv, Types, GroupTypes
  <1>5. ItemTypes' /\ Done(r)'
    BY <1>1, <1>3 DEF IInv, Types, ItemTypes, Done
  <1>6. \A o \in Order : \A i \in DOMAIN Items[o] : Obtained(o, i) => Obtained(o, i)'
    BY <1>1 DEF Obtained
  <1>7. \A n \in DOMAIN shipped' : shipments'[shipped'[n]] > 0
    BY <1>1 DEF IInv, Announced
  <1>8. UNCHANGED orderVars /\ events' = events /\ shipments' = shipments
    BY <1>1
  <1> QED BY <1>3, <1>4, <1>5, <1>6, <1>7, <1>8, ReplicaStep

\* What holds while r works on a record.
LEMMA AtRecord ==
    ASSUME IInv, NEW r \in Replica, batch[r] # <<>>
    PROVE  /\ events \in Seq(Record) /\ Len(events) \in Nat
           /\ Tail1(batch[r]) \in Seq(1..Len(events))
           /\ at[r].stage # "reserve" => Current(r) \in Order
           /\ Current(r) \in Order => shipments[Current(r)] \in Nat
  <1>1. Tail1(batch[r]) \in Seq(1..Len(events))
    BY CurrentType DEF IInv, Types
  <1>2. at[r].stage # "reserve" => Current(r) \in Order
    BY DEF IInv, Types, AtItem, Start
  <1> QED BY <1>1, <1>2 DEF IInv, Types, GroupTypes, WorkTypes

\* The two ways to leave a record early or late: it is finished.
LEMMA FinishStep ==
    ASSUME IInv, NEW r \in Replica, batch[r] # <<>>, Finish(r), UNCHANGED <<orderVars, events, owner, position, committed>>,
           ItemTypes', shipments' \in [Order -> Nat], shipped' \in Seq(Order),
           \A o \in Order : \A i \in DOMAIN Items[o] : Obtained(o, i) => Obtained(o, i)',
           \A o \in Order : shipments[o] > 0 => shipments'[o] > 0,
           \A o \in Order : shipments'[o] > 0 =>
               shipments[o] > 0 \/ (o = Current(r) /\ at[r].stage = "ship"),
           \A n \in DOMAIN shipped' : shipments'[shipped'[n]] > 0
    PROVE  IInv'
  <1>1. /\ batch' \in [Replica -> Seq(1..Len(events))] /\ at' \in [Replica -> Place]
        /\ batch'[r] = Tail1(batch[r]) /\ at'[r] = Start
        /\ \A q \in Replica \ {r} : batch'[q] = batch[q] /\ at'[q] = at[q]
        /\ marked' \in 0..Len(events) /\ committed' \in 0..marked'
    BY FinishType DEF IInv
  <1>2. UNCHANGED orderVars /\ events' = events /\ owner' = owner /\ position' = position
    OBVIOUS
  <1>3. GroupTypes' /\ WorkTypes'
    BY <1>1, <1>2 DEF IInv, Types, GroupTypes, WorkTypes
  <1>4. Done(r)' /\ (batch'[r] # <<>> /\ Current(r)' \in Order => at'[r].item \in DOMAIN Items[Current(r)'])
    BY <1>1, <1>2, AtRecord, StartDone
  <1> QED BY <1>1, <1>2, <1>3, <1>4, ReplicaStep

LEMMA ShipmentAction ==
    ASSUME IInv, NEW r \in Replica, CreateShipment(r)
    PROVE  IInv'
  <1> DEFINE c == Current(r)
             more == [shipments EXCEPT ![c] = @ + 1]
  <1>1. batch[r] # <<>> /\ at[r].stage = "ship"
        /\ UNCHANGED <<orderVars, events, owner, position, committed, shipped, reserved, refused>>
    BY DEF CreateShipment, Working
  <1>2. c \in Order /\ shipments \in [Order -> Nat]
    BY <1>1, AtRecord DEF IInv, Types, WorkTypes
  <1>3. /\ more \in [Order -> Nat] /\ more[c] > 0
        /\ \A o \in Order : shipments[o] > 0 => more[o] > 0
        /\ \A o \in Order : more[o] > 0 => shipments[o] > 0 \/ o = c
    BY <1>2
  <1>4. shipments' \in {shipments, more}
    BY DEF CreateShipment
  <1> HIDE DEF c, more
  <1>5. /\ shipments' \in [Order -> Nat]
        /\ \A o \in Order : shipments[o] > 0 => shipments'[o] > 0
        /\ \A o \in Order : shipments'[o] > 0 => shipments[o] > 0 \/ o = c
    BY <1>2, <1>3, <1>4
  <1>6. ItemTypes' /\ \A o \in Order : \A i \in DOMAIN Items[o] : Obtained(o, i) => Obtained(o, i)'
    BY <1>1 DEF IInv, Types, ItemTypes, Obtained
  <1>7. shipped' \in Seq(Order) /\ \A n \in DOMAIN shipped' : shipments'[shipped'[n]] > 0
    <2>1. shipped \in Seq(Order) /\ \A n \in DOMAIN shipped : shipped[n] \in Order /\ shipments[shipped[n]] > 0
      BY DEF IInv, Types, WorkTypes, Announced
    <2> QED BY <1>1, <1>5, <2>1
  <1>8. CASE Finish(r)
    BY <1>1, <1>5, <1>6, <1>7, <1>8, FinishStep DEF c
  <1>9. CASE shipments' = more /\ at' = [at EXCEPT ![r].stage = "publish"] /\ UNCHANGED <<batch, marked>>
    <2>1. at'[r].stage = "publish" /\ at' \in [Replica -> Place]
          /\ \A q \in Replica \ {r} : batch'[q] = batch[q] /\ at'[q] = at[q]
      BY <1>9 DEF IInv, Types, WorkTypes, Place, Stage
    <2>2. GroupTypes' /\ WorkTypes'
      BY <1>1, <1>5, <1>7, <1>9, <2>1 DEF IInv, Types, GroupTypes, WorkTypes
    <2>3. Current(r)' = c /\ c \in Order /\ batch' = batch
      BY <1>1, <1>2, <1>9 DEF Current, c
    <2>4. \A i \in DOMAIN Items[c] : Obtained(c, i)
      BY <1>1, <1>2 DEF IInv, Done, c
    <2>5. Done(r)'
      BY <1>1, <1>3, <1>9, <2>1, <2>3, <2>4 DEF Done, Obtained
    <2>6. UNCHANGED orderVars /\ events' = events
      BY <1>1
    <2> QED BY <1>1, <1>5, <1>6, <1>7, <2>1, <2>2, <2>3, <2>5, <2>6, ReplicaStep DEF c
  <1> QED BY <1>8, <1>9 DEF CreateShipment, more, c

LEMMA SkipAction ==
    ASSUME IInv, NEW r \in Replica, SkipRecord(r)
    PROVE  IInv'
  <1>1. batch[r] # <<>> /\ Finish(r)
        /\ UNCHANGED <<orderVars, events, owner, position, committed, shipments, shipped, reserved, refused>>
    BY DEF SkipRecord, Working
  <1>2. ItemTypes' /\ \A o \in Order : \A i \in DOMAIN Items[o] : Obtained(o, i) => Obtained(o, i)'
    BY <1>1 DEF IInv, Types, ItemTypes, Obtained
  <1>3. /\ shipments' = shipments /\ shipments' \in [Order -> Nat] /\ shipped' \in Seq(Order)
        /\ \A n \in DOMAIN shipped' : shipments'[shipped'[n]] > 0
    BY <1>1 DEF IInv, Types, WorkTypes, Announced
  <1> QED BY <1>1, <1>2, <1>3, FinishStep

LEMMA PublishAction ==
    ASSUME IInv, NEW r \in Replica, PublishShipmentCreated(r)
    PROVE  IInv'
  <1>1. batch[r] # <<>> /\ at[r].stage = "publish" /\ Finish(r)
        /\ UNCHANGED <<orderVars, events, owner, position, committed, shipments, reserved, refused>>
    BY DEF PublishShipmentCreated, Working
  <1>2. Current(r) \in Order /\ shipments[Current(r)] > 0
    BY <1>1, AtRecord DEF IInv, Done
  <1>3. shipped' \in Seq(Order) /\ \A n \in DOMAIN shipped' : shipments'[shipped'[n]] > 0
    <2>1. shipped \in Seq(Order) /\ \A n \in DOMAIN shipped : shipments[shipped[n]] > 0
      BY DEF IInv, Types, WorkTypes, Announced
    <2>2. shipped' \in {shipped, Append(shipped, Current(r))}
      BY DEF PublishShipmentCreated
    <2> QED BY <1>1, <1>2, <2>1, <2>2
  <1>4. ItemTypes' /\ \A o \in Order : \A i \in DOMAIN Items[o] : Obtained(o, i) => Obtained(o, i)'
    BY <1>1 DEF IInv, Types, ItemTypes, Obtained
  <1>5. shipments' = shipments /\ shipments' \in [Order -> Nat]
    BY <1>1 DEF IInv, Types, WorkTypes
  <1> QED BY <1>1, <1>3, <1>4, <1>5, FinishStep

\* The attempt fails: nothing is lost, and the replica stays or moves on.
LEMMA RetryStep ==
    ASSUME IInv, NEW r \in Replica, batch[r] # <<>>, Current(r) \in Order, at[r].stage = "reserve", Retry(r),
           UNCHANGED <<orderVars, events, owner, position, committed, shipments, shipped>>, ItemTypes',
           \A o \in Order : \A i \in DOMAIN Items[o] : Obtained(o, i) => Obtained(o, i)'
    PROVE  IInv'
  <1>1. /\ UNCHANGED orderVars /\ events' = events /\ owner' = owner /\ position' = position
        /\ committed' = committed /\ shipments' = shipments /\ shipped' = shipped
    OBVIOUS
  <1>2. /\ batch' \in [Replica -> Seq(1..Len(events))] /\ at' \in [Replica -> Place]
        /\ \A q \in Replica \ {r} : batch'[q] = batch[q] /\ at'[q] = at[q]
        /\ marked' \in 0..Len(events) /\ committed' \in 0..marked'
        /\ \/ batch'[r] = Tail1(batch[r]) /\ at'[r] = Start
           \/ batch' = batch /\ at'[r].stage = at[r].stage /\ at'[r].item = at[r].item
    BY <1>1, RetryType DEF IInv
  <1>3. GroupTypes' /\ WorkTypes'
    BY <1>1, <1>2 DEF IInv, Types, GroupTypes, WorkTypes
  <1>4. shipments' \in [Order -> Nat] /\ \A n \in DOMAIN shipped' : shipments'[shipped'[n]] > 0
    BY <1>1 DEF IInv, Types, WorkTypes, Announced
  <1>5. /\ Done(r)' /\ (batch'[r] = <<>> => at'[r] = Start)
        /\ batch'[r] # <<>> /\ Current(r)' \in Order /\ at'[r].stage = "reserve" =>
               at'[r].item \in DOMAIN Items[Current(r)']
        /\ batch'[r] # <<>> /\ Current(r)' \notin Order => at'[r] = Start
    <2>1. CASE batch'[r] = Tail1(batch[r]) /\ at'[r] = Start
      BY <1>1, <2>1, AtRecord, StartDone
    <2>2. CASE batch' = batch /\ at'[r].stage = at[r].stage /\ at'[r].item = at[r].item
      <3>1. Current(r)' = Current(r)
        BY <1>1, <2>2 DEF Current
      <3>2. at[r].item \in DOMAIN Items[Current(r)]
        BY DEF IInv, Types, AtItem
      <3> QED BY <2>2, <3>1, <3>2 DEF IInv, Done
    <2> QED BY <1>2, <2>1, <2>2
  <1> QED BY <1>1, <1>2, <1>3, <1>4, <1>5, ReplicaStep

LEMMA ReserveAction ==
    ASSUME IInv, NEW r \in Replica, ReserveInventory(r)
    PROVE  IInv'
  <1>1. /\ batch[r] # <<>> /\ at[r].stage = "reserve" /\ Current(r) \in Order
        /\ UNCHANGED <<orderVars, events, owner, position, committed, shipments, shipped>>
    BY DEF ReserveInventory, Working
  <1>c. PICK c \in Order : c = Current(r)
    BY <1>1
  <1>n. PICK n \in DOMAIN Items[c] : n = at[r].item
    BY <1>1, <1>c DEF IInv, Types, AtItem
  <1>2. c \in Order /\ n \in DOMAIN Items[c] /\ refused \in [Order -> SUBSET Nat]
    BY DEF IInv, Types, ItemTypes
  <1>3. DOMAIN Items[c] = 1..Len(Items[c]) /\ Len(Items[c]) \in Nat
    BY <1>1, <1>c, CurrentType DEF IInv, Types
  <1>4. CASE Retry(r) /\ UNCHANGED refused /\ (Counted(r) \/ UNCHANGED reserved)
    <2>1. ItemTypes' /\ \A o \in Order : \A i \in DOMAIN Items[o] : Obtained(o, i) => Obtained(o, i)'
      BY <1>1, <1>4, CountedType DEF IInv, Types, ItemTypes, Obtained
    <2> QED BY <1>1, <1>4, <2>1, RetryStep
  <1>5. CASE /\ Counted(r) /\ NextItem(r) /\ TakeAnswer(Item(r)) \in {"ok", "short"}
             /\ refused' = IF TakeAnswer(Item(r)) = "short"
                           THEN [refused EXCEPT ![c] = @ \cup {n}] ELSE refused
    <2>1. /\ reserved' = [o \in Order |-> reserved'[o]]
          /\ \A o \in Order : reserved'[o] \in [DOMAIN Items[o] -> Nat]
          /\ \A o \in Order : \A i \in DOMAIN Items[o] : reserved[o][i] > 0 => reserved'[o][i] > 0
          /\ TakeAnswer(Item(r)) = "ok" => reserved'[c][n] > 0
      BY <1>1, <1>c, <1>n, <1>5, CountedType DEF IInv
    <2>2. /\ refused' \in [Order -> SUBSET Nat]
          /\ \A o \in Order : refused[o] \subseteq refused'[o]
          /\ TakeAnswer(Item(r)) = "short" => n \in refused'[c]
      <3>1. n \in Nat
        BY <1>2, <1>3
      <3> QED BY <1>2, <1>5, <3>1
    <2>3. /\ Obtained(c, n)' /\ ItemTypes'
          /\ \A o \in Order : \A i \in DOMAIN Items[o] : Obtained(o, i) => Obtained(o, i)'
      BY <1>2, <1>5, <2>1, <2>2 DEF Obtained, ItemTypes
    <2>4. /\ at' \in [Replica -> Place] /\ batch' = batch /\ marked' = marked
          /\ \A q \in Replica \ {r} : at'[q] = at[q]
          /\ \/ /\ at'[r].stage = "reserve" /\ at'[r].item = n + 1
                /\ at'[r].item \in DOMAIN Items[c]
             \/ /\ at'[r].stage = "ship" /\ n = Len(Items[c])
      BY <1>1, <1>c, <1>n, <1>5, NextItemType DEF IInv
    <2>5. Current(r)' = c /\ UNCHANGED orderVars /\ events' = events /\ shipments' = shipments
      BY <1>1, <1>c, <1>n, <2>4 DEF Current
    <2>6. \A i \in DOMAIN Items[c] : i < n => Obtained(c, i)'
      BY <1>1, <1>c, <1>n, <1>2, <2>3 DEF IInv, Done
    <2>7. Done(r)'
      <3>1. SUFFICES ASSUME NEW i \in DOMAIN Items[c], at'[r].stage # "reserve" \/ i < at'[r].item
                     PROVE  Obtained(c, i)'
        BY <2>4, <2>5 DEF Done
      <3>2. i < n \/ i = n
        BY <1>2, <1>3, <2>4, <3>1
      <3> QED BY <2>3, <2>6, <3>2
    <2>8. GroupTypes' /\ WorkTypes' /\ \A m \in DOMAIN shipped' : shipments'[shipped'[m]] > 0
      BY <1>1, <2>4 DEF IInv, Types, GroupTypes, WorkTypes, Announced
    <2> QED BY <1>1, <2>3, <2>4, <2>5, <2>7, <2>8, ReplicaStep
  <1>6. TakeAnswer(Item(r)) \in {"ok", "short", "missing"}
    BY DEF TakeAnswer
  <1> QED BY <1>c, <1>n, <1>4, <1>5, <1>6 DEF ReserveInventory

-----------------------------------------------------------------------------
(* The stock.                                                              *)

\* A product with a reservation has a row, and keeps it.
Held == \A i \in DOMAIN reservations : Known(reservations[i].product)
StockInv ==
    /\ InventoryTypeOK /\ Held
    /\ redone \in BOOLEAN /\ down \subseteq Target /\ faults \in 0..MaxFaults

Reservation == [product : Product, active : BOOLEAN]

LEMMA ReservationFacts ==
    ASSUME InventoryTypeOK
    PROVE  /\ reservations \in Seq(Reservation)
           /\ \A i \in DOMAIN reservations : reservations[i] \in Reservation /\ reservations[i].product \in Product
  <1>1. reservations \in Seq(Reservation)
    BY DEF InventoryTypeOK, Reservation
  <1>2. \A i \in DOMAIN reservations : reservations[i] \in Reservation
    BY <1>1
  <1> QED BY <1>1, <1>2 DEF Reservation

\* A row is put in the place of a row, or of none.
LEMMA RowKeeps ==
    ASSUME StockInv, NEW p \in Product, NEW row \in Row, stock' = [stock EXCEPT ![p] = row]
    PROVE  /\ stock' \in [Product -> Row \cup {Unknown}] /\ Known(p)'
           /\ \A q \in Product : Known(q) => Known(q)'
  <1>1. stock \in [Product -> Row \cup {Unknown}] /\ row # Unknown
    BY InventoryAssumption DEF StockInv, InventoryTypeOK
  <1> QED BY <1>1 DEF Known

LEMMA TakeKeeps ==
    ASSUME StockInv, NEW p \in Product, Take(p)
    PROVE  InventoryTypeOK' /\ Held'
  <1>1. reservations' = reservations /\ stock \in [Product -> Row \cup {Unknown}]
    BY DEF Take, StockInv, InventoryTypeOK
  <1>2. CASE TakeAnswer(p) = "ok"
    <2> DEFINE row == [stock[p] EXCEPT !.quantity = @ - 1]
    <2>1. row \in Row
      <3>1. stock[p] \in Row /\ stock[p].quantity >= 1
        BY <1>1, <1>2 DEF TakeAnswer, Known
      <3> QED BY <3>1, InventoryAssumption DEF Row
    <2>2. stock' = [stock EXCEPT ![p] = row]
      BY <1>2 DEF Take
    <2> HIDE DEF row
    <2>3. stock' \in [Product -> Row \cup {Unknown}] /\ \A q \in Product : Known(q) => Known(q)'
      BY <2>1, <2>2, RowKeeps
    <2> QED BY <1>1, <2>3, ReservationFacts DEF StockInv, InventoryTypeOK, Held
  <1>3. CASE TakeAnswer(p) # "ok"
    BY <1>1, <1>3 DEF Take, StockInv, InventoryTypeOK, Held, Known
  <1> QED BY <1>2, <1>3

LEMMA StockChangesKeep ==
    ASSUME StockInv, StockChanges
    PROVE  InventoryTypeOK' /\ Held'
  <1>1. /\ reservations \in Seq(Reservation) /\ stock \in [Product -> Row \cup {Unknown}]
        /\ \A i \in DOMAIN reservations : reservations[i] \in Reservation /\ reservations[i].product \in Product
    BY ReservationFacts DEF StockInv, InventoryTypeOK
  <1>2. ASSUME NEW p \in Product, Reserve(p) PROVE InventoryTypeOK' /\ Held'
    <2> DEFINE row == [stock[p] EXCEPT !.reserved = @ + 1]
               new == [product |-> p, active |-> TRUE]
    <2>1. row \in Row
      BY <1>1, <1>2 DEF Reserve, Known, Row
    <2>2. new \in Reservation /\ new.product = p
      BY DEF Reservation
    <2>3. stock' = [stock EXCEPT ![p] = row] /\ reservations' = Append(reservations, new)
      BY <1>2 DEF Reserve
    <2> HIDE DEF row, new
    <2>4. /\ stock' \in [Product -> Row \cup {Unknown}] /\ Known(p)'
          /\ \A q \in Product : Known(q) => Known(q)'
      BY <2>1, <2>3, RowKeeps
    <2>5. /\ reservations' \in Seq(Reservation)
          /\ \A i \in DOMAIN reservations' :
                \/ reservations'[i] = new
                \/ i \in DOMAIN reservations /\ reservations'[i] = reservations[i]
      BY <1>1, <2>2, <2>3
    <2> QED BY <1>1, <2>2, <2>4, <2>5 DEF StockInv, InventoryTypeOK, Reservation, Held
  <1>3. ASSUME NEW p \in Product, NEW q \in 0..MaxStock, Upsert(p, q) PROVE InventoryTypeOK' /\ Held'
    <2> DEFINE row == [quantity |-> q, reserved |-> IF Known(p) THEN stock[p].reserved ELSE 0]
    <2>1. row \in Row
      BY <1>1 DEF Known, Row
    <2>2. stock' = [stock EXCEPT ![p] = row] /\ reservations' = reservations
      BY <1>3 DEF Upsert
    <2> HIDE DEF row
    <2>3. stock' \in [Product -> Row \cup {Unknown}] /\ \A x \in Product : Known(x) => Known(x)'
      BY <2>1, <2>2, RowKeeps
    <2> QED BY <1>1, <2>2, <2>3 DEF StockInv, InventoryTypeOK, Reservation, Held
  <1>4. ASSUME NEW i \in DOMAIN reservations, Release(i) PROVE InventoryTypeOK' /\ Held'
    <2>1. PICK p \in Product : p = reservations[i].product
      BY <1>1
    <2> DEFINE row == [stock[p] EXCEPT !.reserved = Larger(@ - 1, 0)]
               old == [reservations[i] EXCEPT !.active = FALSE]
    <2>2. row \in Row
      <3>1. stock[p] \in Row
        BY <1>1, <2>1 DEF StockInv, Held, Known
      <3> QED BY <3>1 DEF Row, Larger
    <2>3. old \in Reservation /\ old.product = p
      BY <1>1, <2>1 DEF Reservation
    <2>4. stock' = [stock EXCEPT ![p] = row] /\ reservations' = [reservations EXCEPT ![i] = old]
      BY <1>4, <2>1 DEF Release
    <2> HIDE DEF row, old
    <2>5. stock' \in [Product -> Row \cup {Unknown}] /\ \A x \in Product : Known(x) => Known(x)'
      BY <2>2, <2>4, RowKeeps
    <2>6. /\ reservations' \in Seq(Reservation)
          /\ \A j \in DOMAIN reservations' : j \in DOMAIN reservations
                /\ reservations'[j].product = reservations[j].product
      BY <1>1, <2>1, <2>3, <2>4
    <2> QED BY <1>1, <2>5, <2>6 DEF StockInv, InventoryTypeOK, Reservation, Held
  <1>5. \/ \E p \in Product : Reserve(p)
        \/ \E p \in Product : \E q \in 0..MaxStock : Upsert(p, q)
        \/ \E i \in DOMAIN reservations : Release(i)
    BY DEF StockChanges
  <1> QED BY <1>2, <1>3, <1>4, <1>5

\* The rest of the type invariant: an answer lost, and a failure.
LEMMA StockNext ==
    ASSUME IInv, StockInv, [Next]_vars
    PROVE  StockInv'
  <1> USE DEF orderVars, consumerVars, workVars, inventoryVars
  <1>1. /\ redone \in BOOLEAN /\ down \subseteq Target /\ faults \in 0..MaxFaults /\ MaxFaults \in Nat
        /\ InventoryTypeOK /\ Held
    BY PipelineAssumption DEF StockInv
  <1>2. ASSUME UNCHANGED inventoryVars PROVE InventoryTypeOK' /\ Held'
    BY <1>1, <1>2 DEF InventoryTypeOK, Held, Known
  <1>3. Fault => faults' \in 0..MaxFaults
    BY <1>1 DEF Fault
  <1>4. ASSUME NEW o \in Order,
               \/ \E outcome \in {"answered", "lost", "refused"} : CreateOrder(o, outcome)
               \/ Commit(o) \/ Publish(o) \/ AwaitEnds(o)
               \/ \E s \in Settable : UpdateOrderStatus(o, s)
        PROVE  StockInv'
    <2>1. UNCHANGED <<inventoryVars, redone, down>> /\ (Fault \/ UNCHANGED faults)
      BY <1>4 DEF CreateOrder, Pays, Commit, Publish, AwaitEnds, UpdateOrderStatus
    <2> QED BY <1>1, <1>2, <1>3, <2>1 DEF StockInv
  <1>5. ASSUME OnShipmentEvent PROVE StockInv'
    <2>1. UNCHANGED <<inventoryVars, redone, down>> /\ (Fault \/ UNCHANGED faults)
      BY <1>5 DEF OnShipmentEvent
    <2> QED BY <1>1, <1>2, <1>3, <2>1 DEF StockInv
  <1>6. ASSUME NEW r \in Replica, PollFetches(r) \/ CommitMarks(r) \/ SkipRecord(r) \/ CreateShipment(r) \/ PublishShipmentCreated(r)
        PROVE  StockInv'
    <2>1. UNCHANGED <<inventoryVars, redone, down>> /\ (Fault \/ UNCHANGED faults)
      BY <1>6 DEF PollFetches, CommitMarks, SkipRecord, CreateShipment, PublishShipmentCreated
    <2> QED BY <1>1, <1>2, <1>3, <2>1 DEF StockInv
  <1>7. ASSUME NEW r \in Replica, Rebalance(r) \/ Shutdown(r) \/ Crash(r) PROVE StockInv'
    <2>1. UNCHANGED <<inventoryVars, down>> /\ Fault
      BY <1>7 DEF Rebalance, Shutdown, Crash
    <2>2. redone' \in BOOLEAN
      BY <1>1, <1>7 DEF Rebalance, Shutdown, Crash, Assign
    <2> QED BY <1>1, <1>2, <1>3, <2>1, <2>2 DEF StockInv
  <1>8. ASSUME NEW r \in Replica, ReserveInventory(r) PROVE StockInv'
    <2>1. (Fault \/ UNCHANGED faults) /\ redone' \in BOOLEAN /\ down' = down
      BY <1>1, <1>8 DEF ReserveInventory
    <2>2. Take(Item(r)) \/ UNCHANGED inventoryVars
      BY <1>8 DEF ReserveInventory
    <2>3. Item(r) \in Product
      <3>1. batch[r] # <<>> /\ at[r].stage = "reserve" /\ Current(r) \in Order
        BY <1>8 DEF ReserveInventory, Working
      <3>2. Current(r) \in Order /\ at[r].item \in DOMAIN Items[Current(r)]
        BY <3>1 DEF IInv, Types, AtItem
      <3>3. Items[Current(r)] \in Seq(Product)
        BY <3>2, PipelineAssumption
      <3> QED BY <3>2, <3>3 DEF Item
    <2>4. InventoryTypeOK' /\ Held'
      BY <1>2, <2>2, <2>3, TakeKeeps
    <2> QED BY <1>1, <1>3, <2>1, <2>4 DEF StockInv
  <1>9. ASSUME StockChanges PROVE StockInv'
    <2>1. UNCHANGED <<redone, down, faults>>
      BY <1>9 DEF StockChanges
    <2> QED BY <1>1, <1>9, <2>1, StockChangesKeep DEF StockInv
  <1>10. CASE UNCHANGED vars
    BY <1>1, <1>2, <1>10 DEF vars, StockInv
  <1>11. CASE StrayRecord \/ \E d \in Target : Outage(d) \/ Recovers(d)
    <2>1. UNCHANGED <<inventoryVars, redone>> /\ down' \subseteq Target /\ (Fault \/ UNCHANGED faults)
      BY <1>1, <1>11 DEF StrayRecord, Outage, Recovers
    <2> QED BY <1>1, <1>2, <1>3, <2>1 DEF StockInv
  <1> QED BY <1>4, <1>5, <1>6, <1>7, <1>8, <1>9, <1>10, <1>11 DEF Next, ProcessRecord

LEMMA StockInit == Init => StockInv
  <1> SUFFICES ASSUME Init PROVE StockInv
    OBVIOUS
  <1>1. [quantity |-> MaxStock, reserved |-> 0] \in Row
    BY InventoryAssumption DEF Row
  <1>2. stock \in [Product -> Row \cup {Unknown}] /\ reservations = <<>>
    BY <1>1 DEF Init, InventoryInit
  <1>3. MaxFaults \in Nat /\ redone = FALSE /\ down = {} /\ faults = 0
    BY PipelineAssumption DEF Init
  <1>4. faults \in 0..MaxFaults
    BY <1>3
  <1>5. redone \in BOOLEAN
    <2>1. redone = FALSE
      BY DEF Init
    <2> QED BY <2>1
  <1>6. reservations \in Seq([product : Product, active : BOOLEAN]) /\ Held
    BY <1>2 DEF Held
  <1> QED BY <1>2, <1>3, <1>4, <1>5, <1>6 DEF StockInv, InventoryTypeOK

\* What is reserved is counted by the active reservations.
Of(p) == {i \in Active : reservations[i].product = p}

LEMMA OfFinite ==
    ASSUME InventoryTypeOK, NEW p
    PROVE  IsFiniteSet(Of(p)) /\ Cardinality(Of(p)) \in Nat
  <1>1. Of(p) \subseteq 1..Len(reservations) /\ Len(reservations) \in Nat
    BY DEF InventoryTypeOK, Of, Active
  <1>2. IsFiniteSet(1..Len(reservations))
    BY <1>1, FS_Interval
  <1> QED BY <1>1, <1>2, FS_Subset, FS_CardinalityType

\* Only the requests about reservations change what is reserved.
LEMMA SameReserved ==
    ASSUME InventoryTypeOK, ReservationsAddUp, reservations' = reservations,
           \A p \in Product : Known(p) => Known(p)' /\ stock'[p].reserved = stock[p].reserved,
           \A p \in Product : ~Known(p) /\ Known(p)' => stock'[p].reserved = 0
    PROVE  ReservationsAddUp'
  BY DEF ReservationsAddUp, Reserved, Active

LEMMA ReserveAddsUp ==
    ASSUME StockInv, ReservationsAddUp, NEW p \in Product, Reserve(p)
    PROVE  ReservationsAddUp'
  <1> DEFINE k == Len(reservations) + 1
             new == [product |-> p, active |-> TRUE]
  <1>1. /\ reservations \in Seq(Reservation) /\ stock \in [Product -> Row \cup {Unknown}]
        /\ reservations' = Append(reservations, new) /\ Known(p)
        /\ stock' = [stock EXCEPT ![p].reserved = @ + 1]
    BY ReservationFacts DEF StockInv, InventoryTypeOK, Reserve
  <1>2. stock[p] \in Row
    BY <1>1 DEF Known
  <1>3. /\ DOMAIN reservations' = DOMAIN reservations \cup {k} /\ k \notin DOMAIN reservations
        /\ reservations'[k] = new /\ \A i \in DOMAIN reservations : reservations'[i] = reservations[i]
    BY <1>1
  <1>4. ASSUME NEW q \in Product, q # p PROVE Of(q)' = Of(q)
    BY <1>3, <1>4 DEF Of, Active
  <1>5. Of(p)' = Of(p) \cup {k} /\ k \notin Of(p)
    BY <1>3 DEF Of, Active
  <1>6. Cardinality(Of(p)') = Cardinality(Of(p)) + 1
    BY <1>5, OfFinite, FS_AddElement DEF StockInv
  <1>7. stock'[p].reserved = stock[p].reserved + 1 /\ Known(p)'
    <2>1. stock' = [stock EXCEPT ![p] = [stock[p] EXCEPT !.reserved = @ + 1]]
      BY <1>1
    <2>2. [stock[p] EXCEPT !.reserved = @ + 1] \in Row
      BY <1>2 DEF Row
    <2>3. stock'[p] = [stock[p] EXCEPT !.reserved = @ + 1]
      BY <1>1, <2>1
    <2>4. stock'[p] # Unknown
      BY <2>2, <2>3, InventoryAssumption
    <2> QED BY <1>2, <2>3, <2>4 DEF Row, Known
  <1>8. \A q \in Product \ {p} : stock'[q] = stock[q]
    BY <1>1
  <1>9. ASSUME NEW q \in Product, q # p PROVE Reserved(q)' = IF Known(q)' THEN stock'[q].reserved ELSE 0
    <2>1. Reserved(q)' = Reserved(q)
      BY <1>4, <1>9 DEF Reserved, Of
    <2>2. stock'[q] = stock[q] /\ (Known(q)' <=> Known(q))
      BY <1>8, <1>9 DEF Known
    <2> QED BY <2>1, <2>2 DEF ReservationsAddUp
  <1>10. Reserved(p)' = stock'[p].reserved
    <2>1. Reserved(p) = stock[p].reserved
      BY <1>1 DEF ReservationsAddUp
    <2>2. Reserved(p)' = Reserved(p) + 1
      BY <1>6 DEF Reserved, Of
    <2> QED BY <1>7, <2>1, <2>2
  <1> QED BY <1>7, <1>9, <1>10 DEF ReservationsAddUp

LEMMA ReleaseAddsUp ==
    ASSUME StockInv, ReservationsAddUp, NEW i \in DOMAIN reservations, Release(i)
    PROVE  ReservationsAddUp'
  <1>0. reservations \in Seq(Reservation) /\ reservations[i] \in Reservation /\ reservations[i].product \in Product
        /\ stock \in [Product -> Row \cup {Unknown}]
    BY ReservationFacts DEF StockInv, InventoryTypeOK
  <1>p. PICK p \in Product : p = reservations[i].product
    BY <1>0
  <1>1. /\ reservations' = [reservations EXCEPT ![i] = [reservations[i] EXCEPT !.active = FALSE]]
        /\ stock' = [stock EXCEPT ![p] = [stock[p] EXCEPT !.reserved = Larger(@ - 1, 0)]]
        /\ i \in Active
    BY <1>p DEF Release
  <1>2. stock[p] \in Row /\ Known(p)
    BY <1>0, <1>p DEF StockInv, Held, Known
  <1>3. /\ DOMAIN reservations' = DOMAIN reservations
        /\ reservations'[i].active = FALSE
        /\ \A j \in DOMAIN reservations \ {i} : reservations'[j] = reservations[j]
    BY <1>0, <1>1 DEF Reservation
  <1>4. ASSUME NEW q \in Product, q # p PROVE Of(q)' = Of(q)
    BY <1>p, <1>3, <1>4 DEF Of, Active
  <1>5. Of(p)' = Of(p) \ {i} /\ i \in Of(p)
    BY <1>p, <1>1, <1>3 DEF Of, Active
  <1>6. Cardinality(Of(p)') = Cardinality(Of(p)) - 1 /\ Cardinality(Of(p)) \in Nat
    BY <1>5, OfFinite, FS_RemoveElement DEF StockInv
  <1>7. Cardinality(Of(p)') \in Nat
    BY <1>5, <1>6, OfFinite, FS_RemoveElement, FS_CardinalityType DEF StockInv
  <1>8. stock[p].reserved = Cardinality(Of(p)) /\ stock[p].reserved >= 1
    BY <1>2, <1>6, <1>7 DEF ReservationsAddUp, Reserved, Of
  <1>9. stock'[p].reserved = stock[p].reserved - 1 /\ Known(p)'
    <2>1. stock'[p] = [stock[p] EXCEPT !.reserved = Larger(@ - 1, 0)]
      BY <1>0, <1>1
    <2>2. [stock[p] EXCEPT !.reserved = Larger(@ - 1, 0)] \in Row
      BY <1>2 DEF Row, Larger
    <2>3. stock'[p] # Unknown
      BY <2>1, <2>2, InventoryAssumption
    <2> QED BY <1>2, <1>8, <2>1, <2>3 DEF Row, Larger, Known
  <1>10. \A q \in Product \ {p} : stock'[q] = stock[q]
    BY <1>0, <1>1
  <1>11. ASSUME NEW q \in Product, q # p PROVE Reserved(q)' = IF Known(q)' THEN stock'[q].reserved ELSE 0
    <2>1. Reserved(q)' = Reserved(q)
      BY <1>4, <1>11 DEF Reserved, Of
    <2>2. stock'[q] = stock[q] /\ (Known(q)' <=> Known(q))
      BY <1>10, <1>11 DEF Known
    <2> QED BY <2>1, <2>2 DEF ReservationsAddUp
  <1>12. Reserved(p)' = stock'[p].reserved
    <2>1. Reserved(p)' = Reserved(p) - 1
      BY <1>6 DEF Reserved, Of
    <2>2. Reserved(p) = stock[p].reserved
      BY <1>8 DEF Reserved, Of
    <2> QED BY <1>9, <2>1, <2>2
  <1> QED BY <1>9, <1>11, <1>12 DEF ReservationsAddUp

LEMMA AddUpNext ==
    ASSUME IInv, StockInv, ReservationsAddUp, [Next]_vars
    PROVE  ReservationsAddUp'
  <1> USE DEF vars, inventoryVars, orderVars, consumerVars, workVars
  <1>1. stock \in [Product -> Row \cup {Unknown}] /\ InventoryTypeOK
    BY DEF StockInv, InventoryTypeOK
  <1>2. ASSUME UNCHANGED inventoryVars PROVE ReservationsAddUp'
    BY <1>1, <1>2, SameReserved DEF Known
  <1>3. ASSUME NEW r \in Replica, ReserveInventory(r) PROVE ReservationsAddUp'
    <2>1. Take(Item(r)) \/ UNCHANGED inventoryVars
      BY <1>3 DEF ReserveInventory
    <2>2. ASSUME NEW p, Take(p), TakeAnswer(p) = "ok" PROVE ReservationsAddUp'
      <3>1. stock' = [stock EXCEPT ![p] = [stock[p] EXCEPT !.quantity = @ - 1]] /\ reservations' = reservations
        BY <2>2 DEF Take
      <3>2. ASSUME NEW q \in Product PROVE (Known(q) <=> Known(q)') /\ (Known(q) => stock'[q].reserved = stock[q].reserved)
        <4>1. CASE q # p
          BY <1>1, <3>1, <4>1 DEF Known
        <4>2. CASE q = p
          <5>1. stock[q] \in Row /\ stock[q].quantity >= 1 /\ Known(q)
            BY <1>1, <2>2, <4>2 DEF TakeAnswer, Known
          <5>2. [stock[q] EXCEPT !.quantity = @ - 1] \in Row
            BY <5>1, InventoryAssumption DEF Row
          <5>3. stock'[q] = [stock[q] EXCEPT !.quantity = @ - 1]
            BY <1>1, <3>1, <4>2
          <5> QED BY <5>1, <5>2, <5>3, InventoryAssumption DEF Known, Row
        <4> QED BY <4>1, <4>2
      <3> QED BY <1>1, <3>1, <3>2, SameReserved
    <2>3. ASSUME NEW p, Take(p), TakeAnswer(p) # "ok" PROVE ReservationsAddUp'
      BY <1>2, <2>3 DEF Take
    <2> QED BY <1>2, <2>1, <2>2, <2>3
  <1>4. ASSUME NEW p \in Product, NEW q \in 0..MaxStock, Upsert(p, q) PROVE ReservationsAddUp'
    <2> DEFINE row == [quantity |-> q, reserved |-> IF Known(p) THEN stock[p].reserved ELSE 0]
    <2>1. stock' = [stock EXCEPT ![p] = row] /\ reservations' = reservations
      BY <1>4 DEF Upsert
    <2>2. row \in Row /\ row.reserved = IF Known(p) THEN stock[p].reserved ELSE 0
      BY <1>1 DEF Known, Row
    <2> HIDE DEF row
    <2>3. stock'[p] = row /\ row # Unknown /\ \A x \in Product \ {p} : stock'[x] = stock[x]
      BY <1>1, <2>1, <2>2, InventoryAssumption
    <2> QED BY <1>1, <2>1, <2>2, <2>3, SameReserved DEF Known
  <1>5. CASE StockChanges
    <2>1. \/ \E p \in Product : Reserve(p)
          \/ \E p \in Product : \E q \in 0..MaxStock : Upsert(p, q)
          \/ \E i \in DOMAIN reservations : Release(i)
      BY <1>5 DEF StockChanges
    <2> QED BY <1>4, <2>1, ReserveAddsUp, ReleaseAddsUp
  <1>6. CASE \E o \in Order :
                \/ \E outcome \in {"answered", "lost", "refused"} : CreateOrder(o, outcome)
                \/ Commit(o) \/ Publish(o) \/ AwaitEnds(o)
                \/ \E s \in Settable : UpdateOrderStatus(o, s)
    BY <1>2, <1>6 DEF CreateOrder, Commit, Publish, AwaitEnds, UpdateOrderStatus
  <1>7. CASE OnShipmentEvent \/ StrayRecord \/ \E d \in Target : Outage(d) \/ Recovers(d)
    BY <1>2, <1>7 DEF OnShipmentEvent, StrayRecord, Outage, Recovers
  <1>8. ASSUME NEW r \in Replica, PollFetches(r) \/ CommitMarks(r) \/ Rebalance(r) \/ Shutdown(r) \/ Crash(r)
                                  \/ SkipRecord(r) \/ CreateShipment(r) \/ PublishShipmentCreated(r)
        PROVE  ReservationsAddUp'
    BY <1>2, <1>8 DEF PollFetches, CommitMarks, Rebalance, Shutdown, Crash, SkipRecord, CreateShipment, PublishShipmentCreated
  <1>9. CASE UNCHANGED vars
    BY <1>2, <1>9
  <1> QED BY <1>3, <1>5, <1>6, <1>7, <1>8, <1>9 DEF Next, ProcessRecord

-----------------------------------------------------------------------------
(* The theorems.                                                           *)

LEMMA InvInit == Init => IInv
  <1> SUFFICES ASSUME Init PROVE IInv
    OBVIOUS
  <1>1. Start \in Place /\ <<>> \in Seq(1..Len(events)) /\ events = <<>> /\ shipped = <<>>
    BY PipelineAssumption DEF Init, Start, Place, Stage
  <1>2. OrderTypes /\ GroupTypes /\ WorkTypes
    BY <1>1 DEF Init, OrderTypes, GroupTypes, WorkTypes, Status
  <1>3. ItemTypes /\ AtItem
    BY DEF Init, ItemTypes, AtItem
  <1>4. Paid /\ Announced /\ ShippedIsReserved /\ \A r \in Replica : Done(r)
    BY <1>1 DEF Init, Paid, ShippedIsPaid, Announced, FulfilledIsShipped, ShippedIsReserved, Done
  <1> QED BY <1>2, <1>3, <1>4 DEF IInv, Types

LEMMA InvNext == IInv /\ [Next]_vars => IInv'
  <1> SUFFICES ASSUME IInv, [Next]_vars PROVE IInv'
    OBVIOUS
  <1>1. CASE UNCHANGED vars
    BY <1>1 DEF vars, orderVars, consumerVars, workVars, IInv, Types, OrderTypes, GroupTypes, WorkTypes,
                ItemTypes, AtItem, Paid, ShippedIsPaid, Announced, FulfilledIsShipped, ShippedIsReserved,
                Done, Obtained, Current
  <1>2. CASE Next
    BY <1>2, OrderActions, ShipmentEventAction, GroupActions, StockAction, PollAction, CrashAction,
       SkipAction, ReserveAction, ShipmentAction, PublishAction, OutsideAction DEF Next, ProcessRecord
  <1> QED BY <1>1, <1>2

LEMMA InvAlways == Spec => []IInv
  BY InvInit, InvNext, PTL DEF Spec

\* For any orders and failures, nothing is shipped that was not paid for.
THEOREM ShippedPaid == Spec => []ShippedIsPaid
  BY InvAlways, PTL DEF IInv, Paid

\* A status FULFILLED, stored or answered to the client, has a shipment.
THEOREM FulfilledShipped == Spec => []FulfilledIsShipped
  BY InvAlways, PTL DEF IInv, Announced

\* Whatever replicas share an order between them, each item of it was taken or
\* answered 409 before the shipment.
THEOREM ShippedReserved == Spec => []ShippedIsReserved
  BY InvAlways, PTL DEF IInv

\* Every variable keeps its type; a replica tries an item at most MaxAttempts
\* times, and nobody reads or commits past the end of the log.
THEOREM PipelineTypes == Spec => []PipelineTypeOK
  <1>1. IInv /\ StockInv => PipelineTypeOK
    BY DEF IInv, Types, OrderTypes, GroupTypes, WorkTypes, Place, Stage, StockInv, PipelineTypeOK
  <1> QED BY InvInit, InvNext, StockInit, StockNext, <1>1, PTL DEF Spec

\* Stock and reservations agree, however requests about them and the consumers
\* of orders interleave.
THEOREM ReservationsCounted == Spec => []ReservationsAddUp
  <1>1. Init => ReservationsAddUp
    <2> SUFFICES ASSUME Init, NEW p \in Product PROVE Reserved(p) = IF Known(p) THEN stock[p].reserved ELSE 0
      BY DEF ReservationsAddUp
    <2>1. {i \in Active : reservations[i].product = p} = {}
      BY DEF Init, InventoryInit, Active
    <2>2. Reserved(p) = 0
      BY <2>1, FS_EmptySet DEF Reserved
    <2>3. Known(p) => stock[p].reserved = 0
      BY DEF Init, InventoryInit, Known
    <2> QED BY <2>2, <2>3
  <1> QED BY <1>1, AddUpNext, InvInit, InvNext, StockInit, StockNext, PTL DEF Spec

-----------------------------------------------------------------------------
(* Each record once.                                                       *)

\* An order is announced once: it is unknown, waiting for the producer, or in the
\* log at one place.
SentOnce ==
    /\ \A o \in Order : tx[o] = "new" => o \notin sending /\ \A n \in DOMAIN events : events[n] # o
    /\ \A o \in sending : \A n \in DOMAIN events : events[n] # o
    /\ \A m, n \in DOMAIN events : events[m] = events[n] /\ events[n] \in Order => m = n

\* Only the owner has records, those between what it has marked and fetched.
InOrder ==
    /\ \A r \in Replica \ {owner} : batch[r] = <<>>
    /\ Len(batch[owner]) = position - marked
    /\ \A i \in 1..Len(batch[owner]) : batch[owner][i] = marked + i

\* Nothing has been done yet for an order.
Fresh(o) == shipments[o] = 0 /\ \A i \in DOMAIN Items[o] : reserved[o][i] = 0

\* Nothing is done for a record before the owner is at it, and for that record
\* only what comes before the place the owner is at.
NothingAhead ==
    /\ \A o \in Order : (\A n \in DOMAIN events : events[n] # o) => Fresh(o)
    /\ \A n \in DOMAIN events :
          n > marked /\ (batch[owner] # <<>> => n # marked + 1) /\ events[n] \in Order => Fresh(events[n])
    /\ batch[owner] # <<>> /\ Current(owner) \in Order =>
          /\ at[owner].stage # "publish" => shipments[Current(owner)] = 0
          /\ \A i \in DOMAIN Items[Current(owner)] :
                at[owner].stage = "reserve" /\ i >= at[owner].item => reserved[Current(owner)][i] = 0

\* The invariant while nothing was fetched twice and no answer was lost.
Once == ~redone /\ InOrder /\ NothingAhead /\ OnceUnlessRedone

LEMMA SentNext == IInv /\ SentOnce /\ [Next]_vars => SentOnce'
  <1> SUFFICES ASSUME IInv, SentOnce, [Next]_vars PROVE SentOnce'
    OBVIOUS
  <1> USE DEF orderVars
  <1>0. /\ tx \in [Order -> {"new", "open", "committed", "aborted"}]
        /\ events \in Seq(Record) /\ sending \subseteq Order
    BY DEF IInv, Types, OrderTypes, GroupTypes
  <1>1. ASSUME UNCHANGED <<tx, sending, events>> PROVE SentOnce'
    BY <1>1 DEF SentOnce
  <1>2. ASSUME NEW o \in Order, NEW outcome, CreateOrder(o, outcome) PROVE SentOnce'
    <2>1. /\ tx[o] = "new" /\ tx' = [tx EXCEPT ![o] = "open"]
          /\ sending' \subseteq sending \cup {o} /\ events' = events
      BY <1>2 DEF CreateOrder
    <2> QED BY <1>0, <2>1 DEF SentOnce
  <1>3. ASSUME NEW o \in Order, Commit(o) PROVE SentOnce'
    <2>1. /\ UNCHANGED <<sending, events>> /\ \A q \in Order : tx'[q] = "new" => tx[q] = "new"
      BY <1>0, <1>3 DEF Commit
    <2> QED BY <2>1 DEF SentOnce
  <1>4. ASSUME NEW o \in Order, Publish(o) PROVE SentOnce'
    <2>1. tx' = tx /\ o \in sending /\ sending' = sending \ {o}
          /\ (events' = events \/ events' = Append(events, o))
      BY <1>4 DEF Publish
    <2>2. CASE events' = events
      BY <2>1, <2>2 DEF SentOnce
    <2>3. CASE events' = Append(events, o)
      <3>1. /\ DOMAIN events' = DOMAIN events \cup {Len(events) + 1}
            /\ events'[Len(events) + 1] = o /\ \A n \in DOMAIN events : events'[n] = events[n]
        BY <1>0, <2>3
      <3>2. tx[o] # "new" /\ \A n \in DOMAIN events : events[n] # o
        BY <2>1 DEF SentOnce
      <3> QED BY <2>1, <3>1, <3>2 DEF SentOnce
    <2> QED BY <2>1, <2>2, <2>3
  <1>5. ASSUME NEW o \in Order, AwaitEnds(o) \/ \E s \in Settable : UpdateOrderStatus(o, s) PROVE SentOnce'
    BY <1>1, <1>5 DEF AwaitEnds, UpdateOrderStatus
  <1>6. CASE OnShipmentEvent \/ StockChanges \/ \E d \in Target : Outage(d) \/ Recovers(d)
    BY <1>1, <1>6 DEF OnShipmentEvent, StockChanges, Outage, Recovers
  <1>9. CASE StrayRecord
    <2>1. tx' = tx /\ sending' = sending /\ events' = Append(events, Stray) /\ Stray \notin Order
      BY <1>9, PipelineAssumption DEF StrayRecord
    <2>2. /\ DOMAIN events' = DOMAIN events \cup {Len(events) + 1}
          /\ events'[Len(events) + 1] = Stray /\ \A n \in DOMAIN events : events'[n] = events[n]
      BY <1>0, <2>1
    <2> QED BY <1>0, <2>1, <2>2 DEF SentOnce
  <1>7. ASSUME NEW r \in Replica,
               \/ PollFetches(r) \/ CommitMarks(r) \/ Rebalance(r) \/ Shutdown(r) \/ Crash(r)
               \/ SkipRecord(r) \/ ReserveInventory(r) \/ CreateShipment(r) \/ PublishShipmentCreated(r)
        PROVE  SentOnce'
    BY <1>1, <1>7 DEF PollFetches, CommitMarks, Rebalance, Shutdown, Crash, SkipRecord, ReserveInventory,
                      CreateShipment, PublishShipmentCreated
  <1>8. CASE UNCHANGED vars
    BY <1>1, <1>8 DEF vars
  <1> QED BY <1>2, <1>3, <1>4, <1>5, <1>6, <1>7, <1>8, <1>9 DEF Next, ProcessRecord

\* What the owner's work says of the log.
LEMMA OwnerFacts ==
    ASSUME IInv, InOrder
    PROVE  /\ owner \in Replica /\ events \in Seq(Record) /\ Len(events) \in Nat
           /\ position \in 0..Len(events) /\ marked \in 0..position /\ committed \in 0..marked
           /\ batch[owner] = <<>> <=> marked = position
           /\ \A r \in Replica : batch[r] # <<>> => r = owner /\ Current(r) = events[marked + 1] /\ batch[r][1] = marked + 1
  <1>1. /\ owner \in Replica /\ events \in Seq(Record) /\ Len(events) \in Nat
        /\ position \in 0..Len(events) /\ marked \in 0..Len(events) /\ committed \in 0..marked
        /\ batch[owner] \in Seq(1..Len(events))
    BY DEF IInv, Types, GroupTypes, WorkTypes
  <1>2. Len(batch[owner]) \in Nat /\ (batch[owner] = <<>> <=> Len(batch[owner]) = 0)
    BY <1>1
  <1>3. /\ Len(batch[owner]) = position - marked
        /\ \A r \in Replica \ {owner} : batch[r] = <<>>
        /\ (Len(batch[owner]) > 0 => batch[owner][1] = marked + 1)
    BY <1>2 DEF InOrder
  <1>4. marked \in 0..position /\ (batch[owner] = <<>> <=> marked = position)
    BY <1>1, <1>2, <1>3
  <1>5. ASSUME NEW r \in Replica, batch[r] # <<>>
        PROVE  r = owner /\ Current(r) = events[marked + 1] /\ batch[r][1] = marked + 1
    <2>1. r = owner
      BY <1>3, <1>5
    <2>2. batch[owner][1] = marked + 1
      BY <1>2, <1>3, <1>5, <2>1
    <2> QED BY <2>1, <2>2 DEF Current
  <1> QED BY <1>1, <1>4, <1>5

\* Order-service, its clients and the committing of marks.
LEMMA OnceElsewhere ==
    ASSUME IInv, SentOnce, Once,
           UNCHANGED <<batch, owner, position, marked, shipments, reserved, redone>>, at'[owner] = at[owner],
           events' = events \/ \E o \in sending \cup {Stray} : events' = Append(events, o)
    PROVE  Once'
  <1>1. owner \in Replica /\ events \in Seq(Record) /\ Len(events) \in Nat /\ sending \subseteq Order
    BY OwnerFacts DEF Once, IInv, Types, OrderTypes
  <1>2. InOrder' /\ OnceUnlessRedone'
    BY DEF Once, InOrder, OnceUnlessRedone
  <1>3. batch[owner] # <<>> => Current(owner)' = Current(owner)
    BY <1>1, SameRecord DEF IInv, Types, Record
  <1>4. \A o \in Order : Fresh(o)' <=> Fresh(o)
    BY DEF Fresh
  <1>5. NothingAhead'
    <2>1. CASE events' = events
      BY <1>3, <1>4, <2>1, <1>1 DEF Once, NothingAhead
    <2>2. ASSUME NEW o \in sending \cup {Stray}, events' = Append(events, o) PROVE NothingAhead'
      <3>1. /\ DOMAIN events' = DOMAIN events \cup {Len(events) + 1}
            /\ events'[Len(events) + 1] = o /\ \A n \in DOMAIN events : events'[n] = events[n]
        BY <1>1, <2>2
      <3>2. o \in Order => Fresh(o)
        BY <1>1, PipelineAssumption DEF SentOnce, Once, NothingAhead
      <3>3. \A q \in Order : (\A n \in DOMAIN events' : events'[n] # q) => Fresh(q)'
        BY <1>4, <3>1 DEF Once, NothingAhead
      <3>4. \A n \in DOMAIN events' :
               n > marked /\ (batch[owner] # <<>> => n # marked + 1) /\ events'[n] \in Order => Fresh(events'[n])
        BY <3>1, <3>2 DEF Once, NothingAhead
      <3>6. \A n \in DOMAIN events' :
               n > marked /\ (batch[owner] # <<>> => n # marked + 1) /\ events'[n] \in Order => Fresh(events[n])'
        BY <1>4, <3>4 DEF Fresh
      <3>7. batch[owner] # <<>> /\ Current(owner) \in Order =>
              /\ at[owner].stage # "publish" => shipments[Current(owner)] = 0
              /\ \A i \in DOMAIN Items[Current(owner)] :
                    at[owner].stage = "reserve" /\ i >= at[owner].item => reserved[Current(owner)][i] = 0
        BY DEF Once, NothingAhead
      <3> QED BY <1>3, <3>3, <3>6, <3>7 DEF NothingAhead
    <2> QED BY <2>1, <2>2
  <1> QED BY <1>2, <1>5 DEF Once

\* The partition goes to somebody else with nothing left to redo: the old owner
\* had marked all it had fetched, and every replica is idle.
LEMMA OnceAssigned ==
    ASSUME IInv, Once, NEW r \in Replica, NEW last \in {committed, marked}, Assign(r, last), ~redone',
           UNCHANGED <<events, shipments, reserved>>, \A q \in Replica : batch'[q] \in {batch[q], <<>>}
    PROVE  Once'
  <1>1. /\ owner \in Replica /\ events \in Seq(Record) /\ Len(events) \in Nat
        /\ position \in 0..Len(events) /\ marked \in 0..position /\ committed \in 0..marked
        /\ batch[owner] = <<>> <=> marked = position
    BY OwnerFacts DEF Once
  <1>2. owner' = r /\ position' = last /\ marked' = last /\ ~(last < position)
    BY DEF Assign, Once
  <1>3. last = marked /\ marked = position
    BY <1>1, <1>2
  <1>4. \A q \in Replica : batch'[q] = <<>>
    BY <1>1, <1>3 DEF Once, InOrder
  <1>5. \A o \in Order : Fresh(o)' <=> Fresh(o)
    BY DEF Fresh
  <1>6. InOrder'
    BY <1>1, <1>2, <1>3, <1>4 DEF InOrder
  <1>7. NothingAhead'
    <2>2. /\ \A o \in Order : (\A n \in DOMAIN events : events[n] # o) => Fresh(o)'
          /\ \A n \in DOMAIN events : n > marked /\ events[n] \in Order => Fresh(events[n])'
      BY <1>1, <1>3, <1>5 DEF Once, NothingAhead
    <2> QED BY <1>2, <1>3, <1>4, <2>2 DEF NothingAhead
  <1> QED BY <1>6, <1>7 DEF Once, OnceUnlessRedone

\* The owner fetches what nobody has touched.
LEMMA OncePolled ==
    ASSUME IInv, Once, NEW r \in Replica, PollFetches(r)
    PROVE  Once'
  <1> DEFINE b == [i \in 1..(Len(events) - position) |-> position + i]
  <1>1. /\ events \in Seq(Record) /\ Len(events) \in Nat
        /\ position \in 0..Len(events) /\ marked = position /\ r = owner
        /\ batch \in [Replica -> Seq(1..Len(events))] /\ at[r] = Start
    BY OwnerFacts DEF PollFetches, Once, IInv, Types, WorkTypes, AtItem
  <1>2. /\ UNCHANGED <<at, shipments, reserved, redone, events, owner, marked>>
        /\ position' = Len(events) /\ batch' = [batch EXCEPT ![r] = b] /\ batch[r] = <<>>
    BY DEF PollFetches, orderVars
  <1>3. /\ Len(b) = Len(events) - marked /\ \A i \in 1..Len(b) : b[i] = marked + i
        /\ b # <<>> => marked + 1 \in DOMAIN events /\ b[1] = marked + 1
    <2>1. Len(events) - position \in Nat
      BY <1>1
    <2> QED BY <1>1, <2>1
  <1> HIDE DEF b
  <1>4. batch'[r] = b /\ \A q \in Replica \ {r} : batch'[q] = batch[q]
    BY <1>1, <1>2
  <1>5. InOrder'
    BY <1>1, <1>2, <1>3, <1>4 DEF Once, InOrder
  <1>6. \A o \in Order : Fresh(o)' <=> Fresh(o)
    BY <1>2 DEF Fresh
  <1>7. /\ \A o \in Order : (\A n \in DOMAIN events : events[n] # o) => Fresh(o)
        /\ \A n \in DOMAIN events : n > marked /\ events[n] \in Order => Fresh(events[n])
    BY <1>1, <1>2 DEF Once, NothingAhead
  <1>8. b # <<>> /\ Current(r)' \in Order => Fresh(Current(r)')
    BY <1>1, <1>2, <1>3, <1>4, <1>7 DEF Current
  <1>9. NothingAhead'
    <2>1. /\ \A o \in Order : (\A n \in DOMAIN events : events[n] # o) => Fresh(o)'
          /\ \A n \in DOMAIN events : n > marked /\ events[n] \in Order => Fresh(events[n])'
      BY <1>2, <1>6, <1>7
    <2>2. b # <<>> /\ Current(r)' \in Order => shipments'[Current(r)'] = 0
                      /\ \A i \in DOMAIN Items[Current(r)'] : reserved'[Current(r)'][i] = 0
      BY <1>2, <1>8 DEF Fresh
    <2> QED BY <1>1, <1>2, <1>4, <2>1, <2>2 DEF NothingAhead
  <1> QED BY <1>2, <1>5, <1>9 DEF Once, OnceUnlessRedone

\* A replica with a record is the owner, and does something for that order only, if it
\* is an order; then it is done with the record, or has got to a place that tells what
\* it did.
LEMMA OnceWorked ==
    ASSUME IInv, SentOnce, Once, NEW r \in Replica, batch[r] # <<>>,
           UNCHANGED <<events, owner, position, redone>>,
           \A o \in Order : o # Current(r) => shipments'[o] = shipments[o] /\ reserved'[o] = reserved[o],
           Current(r) \in Order =>
               shipments'[Current(r)] <= 1 /\ \A i \in DOMAIN Items[Current(r)] : reserved'[Current(r)][i] <= 1,
           \/ Finish(r)
           \/ /\ batch' = batch /\ marked' = marked
              /\ at'[r].stage # "publish" => shipments'[Current(r)] = 0
              /\ \A i \in DOMAIN Items[Current(r)] :
                    at'[r].stage = "reserve" /\ i >= at'[r].item => reserved'[Current(r)][i] = 0
    PROVE  Once'
  <1>1. /\ events \in Seq(Record) /\ Len(events) \in Nat
        /\ position \in 0..Len(events) /\ marked \in 0..position /\ marked # position
        /\ r = owner /\ Current(r) = events[marked + 1] /\ batch[r][1] = marked + 1
        /\ batch \in [Replica -> Seq(1..Len(events))]
    BY OwnerFacts DEF Once, IInv, Types, WorkTypes
  <1>c. PICK c \in Record : c = Current(r)
    BY CurrentType DEF IInv, Types
  <1>2. marked + 1 \in DOMAIN events /\ events[marked + 1] = c
    BY <1>1, <1>c
  <1>3. \A o \in Order : o # c => (Fresh(o)' <=> Fresh(o))
    BY <1>c DEF Fresh
  <1>4. \A n \in DOMAIN events : n # marked + 1 /\ events[n] \in Order => events[n] # c
    BY <1>1, <1>2 DEF SentOnce
  <1>5. \A o \in Order : (\A n \in DOMAIN events : events[n] # o) => Fresh(o)'
    BY <1>2, <1>3 DEF Once, NothingAhead
  <1>6. \A n \in DOMAIN events : n > marked + 1 /\ events[n] \in Order => Fresh(events[n]) /\ Fresh(events[n])'
    <2> SUFFICES ASSUME NEW n \in DOMAIN events, n > marked + 1, events[n] \in Order
                 PROVE  Fresh(events[n]) /\ Fresh(events[n])'
      OBVIOUS
    <2>1. n \in Nat /\ n > marked /\ n # marked + 1
      BY <1>1
    <2>2. Fresh(events[n])
      BY <2>1 DEF Once, NothingAhead
    <2>3. PICK o \in Order : o = events[n] /\ o # c
      BY <1>4, <2>1
    <2>4. Fresh(o)'
      BY <1>3, <2>2, <2>3
    <2> QED BY <2>2, <2>3, <2>4
  <1>7. OnceUnlessRedone'
    BY <1>c DEF Once, OnceUnlessRedone
  <1>8. CASE Finish(r)
    <2>1. marked' = marked + 1 /\ batch' = [batch EXCEPT ![r] = Tail1(batch[r])] /\ at' = [at EXCEPT ![r] = Start]
      BY <1>1, <1>8 DEF Finish, Larger
    <2>2. batch[r] \in Seq(1..Len(events)) /\ Len(batch[r]) = position - marked
          /\ \A i \in 1..Len(batch[r]) : batch[r][i] = marked + i
      BY <1>1 DEF Once, InOrder
    <2>3. /\ Len(Tail1(batch[r])) = position - marked'
          /\ \A i \in 1..Len(Tail1(batch[r])) : Tail1(batch[r])[i] = marked' + i
      BY <1>1, <2>1, <2>2 DEF Tail1
    <2>4. batch'[r] = Tail1(batch[r]) /\ (\A q \in Replica \ {r} : batch'[q] = batch[q]) /\ at'[r] = Start
      BY <1>1, <2>1 DEF IInv, Types, WorkTypes
    <2>5. InOrder'
      BY <1>1, <2>3, <2>4 DEF Once, InOrder
    <2>6. ASSUME batch'[r] # <<>>
          PROVE  marked' + 1 \in DOMAIN events /\ marked' + 1 > marked + 1 /\ Current(r)' = events[marked' + 1]
      <3>1. position - marked' \in Nat \ {0}
        <4>1. Tail1(batch[r]) \in Seq(1..Len(events))
          BY <2>2 DEF Tail1
        <4> QED BY <2>3, <2>4, <2>6, <4>1
      <3>2. batch'[r][1] = marked' + 1
        BY <2>3, <2>4, <3>1
      <3> QED BY <1>1, <2>1, <3>1, <3>2 DEF Current
    <2>7. \A n \in DOMAIN events : n > marked' /\ events[n] \in Order => Fresh(events[n])'
      BY <1>6, <2>1
    <2>8. batch'[r] # <<>> /\ Current(r)' \in Order => shipments'[Current(r)'] = 0
                      /\ \A i \in DOMAIN Items[Current(r)'] : reserved'[Current(r)'][i] = 0
      BY <1>6, <2>6 DEF Fresh
    <2>9. NothingAhead'
      BY <1>1, <1>5, <2>7, <2>8 DEF NothingAhead
    <2> QED BY <1>7, <2>5, <2>9 DEF Once
  <1>9. CASE /\ batch' = batch /\ marked' = marked
             /\ at'[r].stage # "publish" => shipments'[c] = 0
             /\ \A i \in DOMAIN Items[c] :
                   at'[r].stage = "reserve" /\ i >= at'[r].item => reserved'[c][i] = 0
    <2>1. InOrder'
      BY <1>9 DEF Once, InOrder
    <2>2. Current(r)' = c
      BY <1>9, <1>c DEF Current
    <2>3. \A n \in DOMAIN events : n > marked /\ n # marked + 1 /\ events[n] \in Order => Fresh(events[n])'
      BY <1>1, <1>6
    <2>4. NothingAhead'
      BY <1>1, <1>5, <1>9, <2>2, <2>3 DEF NothingAhead
    <2> QED BY <1>7, <2>1, <2>4 DEF Once
  <1> QED BY <1>8, <1>9, <1>c

\* One more, of the item the replica is at, and of nothing else.
LEMMA CountedOnce ==
    ASSUME Types, NEW r \in Replica, batch[r] # <<>>, Current(r) \in Order, at[r].stage = "reserve", Counted(r)
    PROVE  /\ \A o \in Order : o # Current(r) => reserved'[o] = reserved[o]
           /\ \A i \in DOMAIN Items[Current(r)] :
                  \/ reserved'[Current(r)][i] = reserved[Current(r)][i]
                  \/ i = at[r].item /\ reserved'[Current(r)][i] = reserved[Current(r)][i] + 1
           /\ TakeAnswer(Item(r)) # "ok" => reserved' = reserved
  <1>c. PICK c \in Order : c = Current(r) /\ reserved[c] \in [DOMAIN Items[c] -> Nat]
    BY CurrentType DEF Types, ItemTypes
  <1>i. PICK i \in DOMAIN Items[c] : i = at[r].item
    BY <1>c DEF Types, AtItem
  <1>1. c = Current(r) /\ i = at[r].item /\ reserved[c] \in [DOMAIN Items[c] -> Nat]
    BY <1>c, <1>i
  <1>2. CASE TakeAnswer(Item(r)) = "ok"
    <2> DEFINE f == [reserved[c] EXCEPT ![i] = @ + 1]
    <2>1. \A j \in DOMAIN Items[c] : f[j] = reserved[c][j] \/ (j = i /\ f[j] = reserved[c][j] + 1)
      BY <1>1
    <2>2. reserved' = [reserved EXCEPT ![c] = f]
      BY <1>1, <1>2 DEF Counted
    <2> HIDE DEF f
    <2>3. reserved'[c] = f /\ \A o \in Order \ {c} : reserved'[o] = reserved[o]
      BY <1>1, <2>2 DEF Types, ItemTypes
    <2> QED BY <1>1, <1>2, <2>1, <2>3
  <1>3. CASE TakeAnswer(Item(r)) # "ok"
    BY <1>3 DEF Counted
  <1> QED BY <1>2, <1>3

LEMMA OnceReserved ==
    ASSUME IInv, SentOnce, Once, NEW r \in Replica, ReserveInventory(r), ~redone'
    PROVE  Once'
  <1>1. /\ batch[r] # <<>> /\ at[r].stage = "reserve" /\ Current(r) \in Order
        /\ UNCHANGED <<events, owner, position, redone, shipments>>
    BY DEF ReserveInventory, Working, Once
  <1>c. PICK c \in Order : c = Current(r)
    BY <1>1
  <1>i. PICK i \in DOMAIN Items[c] : i = at[r].item
    BY <1>1, <1>c DEF IInv, Types, AtItem
  <1>2. c = Current(r) /\ i = at[r].item
    BY <1>c, <1>i
  <1>3. DOMAIN Items[c] = 1..Len(Items[c]) /\ Len(Items[c]) \in Nat /\ \A j \in DOMAIN Items[c] : reserved[c][j] \in Nat
    BY <1>1, <1>2, CurrentType DEF IInv, Types, ItemTypes
  <1>4. /\ shipments[c] = 0 /\ \A j \in DOMAIN Items[c] : j >= i => reserved[c][j] = 0
        /\ \A j \in DOMAIN Items[c] : reserved[c][j] <= 1
    <2>1. r = owner
      BY <1>1, OwnerFacts DEF Once
    <2> QED BY <1>1, <1>2, <2>1 DEF Once, NothingAhead, OnceUnlessRedone
  <1>5. CASE Retry(r) /\ reserved' = reserved
    <2>1. \/ Finish(r)
          \/ /\ batch' = batch /\ marked' = marked /\ at'[r].stage = "reserve" /\ at'[r].item = i
      <3>1. CASE at[r].attempt < MaxAttempts
        <4>1. at' = [at EXCEPT ![r].attempt = @ + 1] /\ batch' = batch /\ marked' = marked
          BY <1>5, <3>1 DEF Retry
        <4>2. at \in [Replica -> Place]
          BY DEF IInv, Types, WorkTypes
        <4> QED BY <1>1, <1>2, <4>1, <4>2 DEF Place
      <3>2. CASE ~(at[r].attempt < MaxAttempts)
        BY <1>5, <3>2 DEF Retry
      <3> QED BY <3>1, <3>2
    <2> QED BY <1>1, <1>2, <1>4, <1>5, <2>1, OnceWorked
  <1>6. CASE Counted(r) /\ NextItem(r)
    <2>1. /\ \A o \in Order : o # c => reserved'[o] = reserved[o]
          /\ \A j \in DOMAIN Items[c] :
                 reserved'[c][j] = reserved[c][j] \/ (j = i /\ reserved'[c][j] = reserved[c][j] + 1)
      BY <1>1, <1>2, <1>6, CountedOnce DEF IInv
    <2>2. /\ batch' = batch /\ marked' = marked
          /\ \/ at'[r].stage = "reserve" /\ at'[r].item = i + 1
             \/ at'[r].stage = "ship"
      BY <1>1, <1>2, <1>6, NextItemType DEF IInv
    <2>3. \A j \in DOMAIN Items[c] : reserved'[c][j] <= 1
      BY <1>3, <1>4, <2>1
    <2>4. \A j \in DOMAIN Items[c] : at'[r].stage = "reserve" /\ j >= at'[r].item => reserved'[c][j] = 0
      BY <1>3, <1>4, <2>1, <2>2
    <2> QED BY <1>1, <1>2, <1>4, <2>1, <2>2, <2>3, <2>4, OnceWorked
  <1>7. Counted(r) /\ TakeAnswer(Item(r)) = "missing" => reserved' = reserved
    BY <1>1, CountedOnce DEF IInv
  <1>9. \/ Counted(r) /\ IF TakeAnswer(Item(r)) = "missing" THEN Retry(r) ELSE NextItem(r)
        \/ Retry(r) /\ reserved' = reserved
    BY <1>1 DEF ReserveInventory
  <1> QED BY <1>5, <1>6, <1>7, <1>9

LEMMA OnceNext == IInv /\ SentOnce /\ (~redone => Once) /\ [Next]_vars => (~redone => Once)'
  <1> SUFFICES ASSUME IInv, SentOnce, ~redone => Once, [Next]_vars, ~redone' PROVE Once'
    OBVIOUS
  <1> USE DEF orderVars, consumerVars, workVars
  <1>0. ~redone /\ Once /\ owner \in Replica
    <2>1. redone => redone'
      BY DEF Next, vars, CreateOrder, Commit, Publish, AwaitEnds, UpdateOrderStatus, OnShipmentEvent,
             PollFetches, CommitMarks, Rebalance, Shutdown, Crash, Assign, ProcessRecord, SkipRecord, ReserveInventory,
             CreateShipment, PublishShipmentCreated, StockChanges, StrayRecord, Outage, Recovers
    <2> QED BY <2>1 DEF IInv, Types, GroupTypes
  <1>1. ASSUME UNCHANGED <<batch, at, owner, position, marked, shipments, reserved, redone, events>> PROVE Once'
    BY <1>0, <1>1, OnceElsewhere
  <1>2. ASSUME NEW o \in Order,
               \/ \E outcome \in {"answered", "lost", "refused"} : CreateOrder(o, outcome)
               \/ Commit(o) \/ AwaitEnds(o) \/ \E s \in Settable : UpdateOrderStatus(o, s)
        PROVE  Once'
    BY <1>1, <1>2 DEF CreateOrder, Commit, AwaitEnds, UpdateOrderStatus
  <1>3. ASSUME NEW o \in Order, Publish(o) PROVE Once'
    BY <1>0, <1>3, OnceElsewhere DEF Publish
  <1>4. CASE OnShipmentEvent \/ StockChanges \/ (\E d \in Target : Outage(d) \/ Recovers(d)) \/ UNCHANGED vars
    BY <1>1, <1>4 DEF OnShipmentEvent, StockChanges, Outage, Recovers, vars
  <1>10. CASE StrayRecord
    BY <1>0, <1>10, OnceElsewhere DEF StrayRecord
  <1>11. ASSUME NEW r \in Replica, SkipRecord(r) PROVE Once'
    <2>1. /\ batch[r] # <<>> /\ Finish(r) /\ Current(r) \notin Order
          /\ UNCHANGED <<events, owner, position, redone, reserved, shipments>>
      BY <1>11, PipelineAssumption DEF SkipRecord, Working
    <2> QED BY <1>0, <2>1, OnceWorked
  <1>5. ASSUME NEW r \in Replica, CommitMarks(r) PROVE Once'
    BY <1>1, <1>5 DEF CommitMarks
  <1>6. ASSUME NEW r \in Replica, Rebalance(r) \/ Shutdown(r) PROVE Once'
    <2>1. PICK new \in Replica, last \in {committed, marked} : Assign(new, last)
      BY <1>6 DEF Rebalance, Shutdown
    <2>2. UNCHANGED <<events, shipments, reserved, batch>>
      BY <1>6 DEF Rebalance, Shutdown
    <2> QED BY <1>0, <2>1, <2>2, OnceAssigned
  <1>7. ASSUME NEW r \in Replica, Crash(r) PROVE Once'
    <2>1. /\ UNCHANGED <<events, shipments, reserved>>
          /\ batch' = [batch EXCEPT ![r] = <<>>] /\ at' = [at EXCEPT ![r] = Start]
          /\ batch \in [Replica -> Seq(1..Len(events))]
      BY <1>7 DEF Crash, IInv, Types, WorkTypes
    <2>2. CASE owner = r
      <3>1. PICK new \in Replica : Assign(new, committed)
        BY <1>7, <2>2 DEF Crash
      <3>2. \A q \in Replica : batch'[q] \in {batch[q], <<>>}
        BY <2>1
      <3> QED BY <1>0, <2>1, <3>1, <3>2, OnceAssigned
    <2>3. CASE owner # r
      <3>1. UNCHANGED <<owner, position, marked, redone>>
        BY <1>7, <2>3 DEF Crash
      <3>2. batch[r] = <<>>
        BY <1>0, <2>3 DEF Once, InOrder
      <3>3. batch' = batch /\ at'[owner] = at[owner]
        BY <1>0, <2>1, <2>3, <3>2 DEF IInv, Types, WorkTypes
      <3> QED BY <1>0, <2>1, <3>1, <3>3, OnceElsewhere
    <2> QED BY <2>2, <2>3
  <1>8. ASSUME NEW r \in Replica, CreateShipment(r) PROVE Once'
    <2>1. batch[r] # <<>> /\ at[r].stage = "ship" /\ UNCHANGED <<events, owner, position, redone, reserved>>
      BY <1>8 DEF CreateShipment, Working
    <2>2. PICK c \in Order : c = Current(r)
      BY <2>1, AtRecord
    <2>3. shipments[c] = 0 /\ \A j \in DOMAIN Items[c] : reserved[c][j] <= 1
      <3>1. r = owner
        BY <1>0, <2>1, OwnerFacts DEF Once
      <3> QED BY <1>0, <2>1, <2>2, <3>1 DEF Once, NothingAhead, OnceUnlessRedone
    <2>4. shipments'[c] \in {0, 1} /\ \A o \in Order : o # c => shipments'[o] = shipments[o]
      <3>1. shipments \in [Order -> Nat] /\ shipments' \in {shipments, [shipments EXCEPT ![c] = @ + 1]}
        BY <1>8, <2>2 DEF CreateShipment, IInv, Types, WorkTypes
      <3> QED BY <2>3, <3>1
    <2>5. Finish(r) \/ (batch' = batch /\ marked' = marked /\ at'[r].stage = "publish")
      <3>1. at \in [Replica -> Place]
        BY DEF IInv, Types, WorkTypes
      <3> QED BY <1>8, <3>1 DEF CreateShipment, Place
    <2> QED BY <1>0, <2>1, <2>2, <2>3, <2>4, <2>5, OnceWorked
  <1>9. ASSUME NEW r \in Replica, PublishShipmentCreated(r) PROVE Once'
    <2>1. batch[r] # <<>> /\ Finish(r) /\ UNCHANGED <<events, owner, position, redone, reserved, shipments>>
      BY <1>9 DEF PublishShipmentCreated, Working
    <2>2. shipments[Current(r)] <= 1 /\ \A i \in DOMAIN Items[Current(r)] : reserved[Current(r)][i] <= 1
      <3>1. Current(r) \in Order
        BY <1>9, <2>1, AtRecord DEF PublishShipmentCreated, Working
      <3> QED BY <1>0, <3>1 DEF Once, OnceUnlessRedone
    <2> QED BY <1>0, <2>1, <2>2, OnceWorked
  <1> QED BY <1>0, <1>2, <1>3, <1>4, <1>5, <1>6, <1>7, <1>8, <1>9, <1>10, <1>11, OncePolled, OnceReserved DEF Next, ProcessRecord

\* However records are polled, handed over and tried again, an order is shipped once
\* and each item of it is taken once, unless a record was fetched twice or an answer
\* of inventory-service was lost (main.go, Consume and processRecord).
THEOREM ShippedOnce == Spec => []OnceUnlessRedone
  <1>1. Init => SentOnce /\ (~redone => Once)
    <2> SUFFICES ASSUME Init PROVE SentOnce /\ Once
      OBVIOUS
    <2>1. /\ events = <<>> /\ sending = {} /\ owner \in Replica /\ position = 0 /\ marked = 0
          /\ \A r \in Replica : batch[r] = <<>>
      BY DEF Init
    <2>2. \A o \in Order : Fresh(o)
      BY DEF Init, Fresh
    <2>3. ~redone
      BY DEF Init
    <2>4. SentOnce /\ InOrder
      BY <2>1 DEF SentOnce, InOrder
    <2>5. NothingAhead /\ OnceUnlessRedone
      BY <2>1, <2>2 DEF NothingAhead, OnceUnlessRedone, Fresh
    <2> QED BY <2>3, <2>4, <2>5 DEF Once
  <1>2. (~redone => Once) => OnceUnlessRedone
    BY DEF Once, OnceUnlessRedone
  <1> QED BY <1>1, <1>2, InvInit, InvNext, SentNext, OnceNext, PTL DEF Spec
=============================================================================
