-------------------------- MODULE LoadGeneratorProofs --------------------------
(***************************************************************************)
(* For any number of workers, slots and products, no addition of the load  *)
(* generator finds the cart full, if MAX_CART_ITEMS leaves room above      *)
(* cartCheckoutAt for one addition in each worker and in each slot.        *)
(*                                                                         *)
(* That an addition was decided on, below cartCheckoutAt or after a        *)
(* checkout, is a promise: the worker holds it until it posts, then the    *)
(* request does until it is answered.  A new promise is made only while    *)
(* the cart is below cartCheckoutAt, and keeping one costs one item; so    *)
(* the items and the open promises together stay within the limit.         *)
(*                                                                         *)
(* Nor does the cart lose an item as long as no two requests that meet in  *)
(* the hash are in progress at once.                                       *)
(***************************************************************************)
EXTENDS LoadGenerator, FiniteSetTheorems, TLAPS

-----------------------------------------------------------------------------
(* Type correctness.                                                       *)

\* An addition or a removal names a product.
Named == \A k \in Slot : req[k] # Free /\ req[k].op \in {"add", "remove"} /\ req[k].stage # "answered"
                            => req[k].item \in Product

TypeInv == LoadTypeOK /\ Named

\* The constants are numbers, and an empty slot is no request.
LEMMA Constants ==
    /\ MaxItems \in Nat /\ MaxFaults \in Nat /\ CheckoutAt \in Nat
    /\ Nobody \notin Client /\ NoItem \notin Product /\ Free \notin Request
  BY CartAssumption, RoomAssumption, FreeAssumption

\* A slot that is served keeps its type when its request goes on.
LEMMA StageType ==
    ASSUME TypeInv, NEW k \in Slot, req[k] # Free,
           NEW s \in {"start", "size", "write", "order", "delete"}, Stage(k, s),
           req[k].stage # "answered"
    PROVE  req' \in [Slot -> Request \cup {Free}] /\ Named'
  <1>1. req[k] \in Request
    BY DEF TypeInv, LoadTypeOK, CartTypeOK
  <1>2. [req[k] EXCEPT !.stage = s] \in Request
    BY <1>1 DEF Request
  <1>3. req' = [req EXCEPT ![k] = [req[k] EXCEPT !.stage = s]]
    BY DEF Stage
  <1>4. req' \in [Slot -> Request \cup {Free}]
    BY <1>2, <1>3 DEF TypeInv, LoadTypeOK, CartTypeOK
  <1>5. ASSUME NEW j \in Slot, req'[j] # Free, req'[j].op \in {"add", "remove"}, req'[j].stage # "answered"
        PROVE  req'[j].item \in Product
    <2>1. CASE j = k
      BY <1>1, <1>3, <1>5, <2>1 DEF TypeInv, LoadTypeOK, CartTypeOK, Named, Request
    <2>2. CASE j # k
      BY <1>3, <1>5, <2>2 DEF TypeInv, LoadTypeOK, CartTypeOK, Named
    <2> QED BY <2>1, <2>2
  <1> QED BY <1>4, <1>5 DEF Named

\* So does one that is answered.
LEMMA AnswerType ==
    ASSUME TypeInv, NEW k \in Slot, req[k] # Free, NEW r \in Result, Answer(k, r)
    PROVE  req' \in [Slot -> Request \cup {Free}] /\ Named'
  <1> DEFINE a == [op |-> req[k].op, client |-> req[k].client, item |-> NoItem,
                   stage |-> "answered", had |-> 0, snap |-> Nothing, result |-> r]
  <1>1. req[k] \in Request
    BY DEF TypeInv, LoadTypeOK, CartTypeOK
  <1>2. a \in Request
    BY <1>1 DEF Request, Nothing
  <1>3. req' = [req EXCEPT ![k] = a]
    BY DEF Answer
  <1>4. a.stage = "answered"
    OBVIOUS
  <1> HIDE DEF a
  <1>5. req' \in [Slot -> Request \cup {Free}]
    BY <1>2, <1>3 DEF TypeInv, LoadTypeOK, CartTypeOK
  <1>6. Named'
    BY <1>3, <1>4 DEF TypeInv, LoadTypeOK, CartTypeOK, Named
  <1> QED BY <1>5, <1>6

\* The books stay numbers.
LEMMA BookType ==
    ASSUME TypeInv, NEW l \in [Product -> Int], Book(l)
    PROVE  ledger' \in [Product -> Int]
  BY DEF Book, Nothing

\* An empty slot that takes a request has one of the right shape.
LEMMA AcceptType ==
    ASSUME TypeInv, NEW k \in Slot, NEW op \in Op, NEW p \in Product \cup {NoItem},
           NEW c \in Client \cup {Nobody}, Accept(k, op, p, c)
    PROVE  CartTypeOK' /\ Named'
  <1> DEFINE r == [op |-> op, client |-> c, item |-> p, stage |-> "start",
                   had |-> 0, snap |-> Nothing, result |-> "none"]
  <1>1. r \in Request
    BY DEF Request, Nothing, Result
  <1>2. req' = [req EXCEPT ![k] = r] /\ r.op = op /\ r.item = p
    BY DEF Accept
  <1>3. op \in {"add", "remove"} => p \in Product
    BY Constants DEF Accept
  <1> HIDE DEF r
  <1>4. req' \in [Slot -> Request \cup {Free}]
    BY <1>1, <1>2 DEF TypeInv, LoadTypeOK, CartTypeOK
  <1>5. Named'
    BY <1>2, <1>3 DEF TypeInv, LoadTypeOK, CartTypeOK, Named
  <1>6. cart' = cart /\ faults' = faults /\ ledger' \in {Nothing, ledger}
    BY DEF Accept
  <1>7. raced' \in BOOLEAN
    BY DEF Accept, Disturbs, TypeInv, LoadTypeOK, CartTypeOK
  <1> QED BY <1>4, <1>5, <1>6, <1>7 DEF TypeInv, LoadTypeOK, CartTypeOK, Nothing

\* A step of a handler keeps the types.
LEMMA HandlesType ==
    ASSUME TypeInv, NEW k \in Slot, Handles(k)
    PROVE  CartTypeOK' /\ Named'
  <1> USE Constants DEF At
  <1>0. /\ cart \in [Product -> Nat] /\ ledger \in [Product -> Int] /\ faults \in 0..MaxFaults
        /\ raced \in BOOLEAN /\ req \in [Slot -> Request \cup {Free}]
        /\ req[k] # Free => req[k] \in Request
    BY DEF TypeInv, LoadTypeOK, CartTypeOK
  <1>1. CASE AddLookup(k)
    <2> DEFINE n == [req[k] EXCEPT !.had = cart[req[k].item],
                                   !.stage = IF cart[req[k].item] > 0 THEN "write" ELSE "size"]
    <2>1. req[k].item \in Product /\ req' = [req EXCEPT ![k] = n]
      BY <1>1 DEF AddLookup, TypeInv, Named
    <2>2. n \in Request /\ n.op = "add" /\ n.item = req[k].item
      BY <1>0, <1>1, <2>1 DEF AddLookup, Request
    <2> HIDE DEF n
    <2>3. req' \in [Slot -> Request \cup {Free}] /\ Named'
      BY <1>0, <2>1, <2>2 DEF TypeInv, Named
    <2> QED BY <1>0, <1>1, <2>3 DEF AddLookup, CartTypeOK
  <1>2. CASE AddChecksSize(k)
    <2>1. req' \in [Slot -> Request \cup {Free}] /\ Named'
      BY <1>2, StageType, AnswerType DEF AddChecksSize, Result
    <2> QED BY <1>0, <1>2, <2>1 DEF AddChecksSize, CartTypeOK
  <1>3. CASE AddWrites(k)
    <2>1. req' \in [Slot -> Request \cup {Free}] /\ Named'
      BY <1>3, AnswerType DEF AddWrites, Result
    <2>2. req[k].item \in Product /\ req[k].had \in Nat
      BY <1>0, <1>3 DEF AddWrites, TypeInv, Named, Request
    <2>3. cart' \in [Product -> Nat] /\ [ledger EXCEPT ![req[k].item] = @ + 1] \in [Product -> Int]
      BY <1>0, <1>3, <2>2 DEF AddWrites
    <2> QED BY <1>0, <1>3, <2>1, <2>3, BookType DEF AddWrites, CartTypeOK
  <1>4. CASE Remove(k)
    <2>1. req' \in [Slot -> Request \cup {Free}] /\ Named'
      BY <1>4, AnswerType DEF Remove, Result
    <2>2. req[k].item \in Product
      BY <1>4 DEF Remove, TypeInv, Named
    <2>3. [ledger EXCEPT ![req[k].item] = @ - cart[req[k].item]] \in [Product -> Int]
      BY <1>0, <2>2
    <2> QED BY <1>0, <1>4, <2>1, <2>3, BookType DEF Remove, CartTypeOK
  <1>5. CASE Clear(k)
    <2>1. req' \in [Slot -> Request \cup {Free}] /\ Named'
      BY <1>5, AnswerType DEF Clear, Result
    <2>2. [p \in Product |-> ledger[p] - cart[p]] \in [Product -> Int]
      BY <1>0
    <2> QED BY <1>0, <1>5, <2>1, <2>2, BookType DEF Clear, CartTypeOK, Nothing
  <1>6. CASE CheckoutScans(k)
    <2> DEFINE n == [req[k] EXCEPT !.stage = "order", !.snap = cart]
    <2>1. CASE Items = {}
      BY <1>0, <1>6, <2>1, AnswerType DEF CheckoutScans, Result, CartTypeOK
    <2>2. CASE Items # {}
      <3>1. req' = [req EXCEPT ![k] = n]
        BY <1>6, <2>2 DEF CheckoutScans
      <3>2. n \in Request /\ n.op = "checkout"
        BY <1>0, <1>6 DEF CheckoutScans, Request
      <3> HIDE DEF n
      <3> QED BY <1>0, <1>6, <3>1, <3>2 DEF CheckoutScans, CartTypeOK, TypeInv, Named
    <2> QED BY <2>1, <2>2
  <1>7. /\ req[k] # Free => Ordered(k) \in [Product -> Int]
        /\ Nothing \in [Product -> Nat]
    BY <1>0 DEF Ordered, Request, Nothing
  <1>8. CASE CheckoutOrders(k)
    <2> DEFINE n == [req[k] EXCEPT !.stage = "delete", !.snap = Nothing]
    <2>1. req' = [req EXCEPT ![k] = n] /\ n \in Request /\ n.op = "checkout"
      BY <1>0, <1>7, <1>8 DEF CheckoutOrders, Request
    <2> HIDE DEF n
    <2>2. req' \in [Slot -> Request \cup {Free}] /\ Named'
      BY <1>0, <2>1 DEF TypeInv, Named
    <2> QED BY <1>0, <1>7, <1>8, <2>2, BookType DEF CheckoutOrders, CartTypeOK
  <1>9. CASE CheckoutFails(k)
    <2>1. ledger' \in [Product -> Int]
      BY <1>0, <1>7, <1>9 DEF CheckoutFails
    <2> QED BY <1>0, <1>9, <2>1, AnswerType DEF CheckoutFails, Fault, Result, CartTypeOK
  <1>10. CASE CheckoutDeletes(k)
    BY <1>0, <1>7, <1>10, AnswerType DEF CheckoutDeletes, Result, CartTypeOK
  <1>11. CASE Close(k)
    BY <1>0, <1>11 DEF Close, CartTypeOK, TypeInv, Named
  <1> QED BY <1>1, <1>2, <1>3, <1>4, <1>5, <1>6, <1>8, <1>9, <1>10, <1>11 DEF Handles

\* A worker's choice of what to do next is one of the flows'.
LEMMA DoesType ==
    ASSUME doing \in [Worker -> Doing], NEW w \in Worker, NEW d \in Doing, Does(w, d)
    PROVE  doing' \in [Worker -> Doing]
  BY DEF Does

\* No step of a worker, of a handler or of the environment breaks the types.
LEMMA TypeStep == TypeInv /\ [Next]_vars => TypeInv'
  <1> SUFFICES ASSUME TypeInv, [Next]_vars PROVE TypeInv'
    OBVIOUS
  <1> USE DEF LoadTypeOK
  <1>0. /\ doing \in [Worker -> Doing] /\ target \in [Worker -> Product \cup {NoItem}]
        /\ CartTypeOK /\ Named
    BY DEF TypeInv
  <1>1. CASE UNCHANGED vars
    BY <1>0, <1>1 DEF vars, TypeInv, CartTypeOK, Named
  <1>2. ASSUME NEW w \in Worker, AddToCart(w) \/ RemoveFromCart(w) \/ CheckoutCart(w)
        PROVE  TypeInv'
    <2>1. UNCHANGED cartVars /\ \E d \in Doing : Does(w, d)
      BY <1>2 DEF AddToCart, RemoveFromCart, CheckoutCart, Doing
    <2>2. target' \in [Worker -> Product \cup {NoItem}]
      BY <1>0, <1>2 DEF AddToCart, RemoveFromCart, CheckoutCart, cartItems, Items
    <2> QED BY <1>0, <2>1, <2>2, DoesType DEF TypeInv, cartVars, CartTypeOK, Named
  <1>3. ASSUME NEW w \in Worker, NEW k \in Slot, Posts(w, k) PROVE TypeInv'
    <2>1. PICK op \in Op, p \in Product \cup {NoItem} : Accept(k, op, p, w)
      BY <1>0, <1>3 DEF Posts, Op
    <2>2. CartTypeOK' /\ Named'
      BY <2>1, AcceptType DEF Worker
    <2> QED BY <1>0, <1>3, <2>2 DEF Posts, TypeInv
  <1>4. ASSUME NEW w \in Worker, NEW k \in Slot, Receives(w, k) PROVE TypeInv'
    <2>1. doing' \in [Worker -> Doing]
      BY <1>0, <1>4, DoesType DEF Receives, Doing
    <2>2. CartTypeOK' /\ Named'
      BY <1>0, <1>4 DEF Receives, CartTypeOK, Named
    <2> QED BY <1>0, <1>4, <2>1, <2>2 DEF Receives, TypeInv
  <1>5. ASSUME NEW w \in Worker, NEW k \in Slot, GivesUp(w, k) PROVE TypeInv'
    <2>1. doing' \in [Worker -> Doing]
      BY <1>0, <1>5, DoesType DEF GivesUp, Doing
    <2> DEFINE n == [req[k] EXCEPT !.client = Nobody]
    <2>2. /\ req' = [req EXCEPT ![k] = n] /\ n \in Request
          /\ n.op = req[k].op /\ n.item = req[k].item /\ n.stage = req[k].stage
      BY <1>0, <1>5 DEF GivesUp, CartTypeOK, Request
    <2> HIDE DEF n
    <2>3. req' \in [Slot -> Request \cup {Free}] /\ Named'
      BY <1>0, <1>5, <2>2 DEF GivesUp, CartTypeOK, Named
    <2>4. faults' \in 0..MaxFaults
      BY <1>0, <1>5, Constants DEF GivesUp, Fault, CartTypeOK
    <2> QED BY <1>0, <1>5, <2>1, <2>3, <2>4 DEF GivesUp, TypeInv, CartTypeOK
  <1>6. ASSUME NEW k \in Slot, Clears(k) PROVE TypeInv'
    <2>1. CartTypeOK' /\ Named'
      BY <1>6, AcceptType DEF Clears, Op
    <2> QED BY <1>0, <1>6, <2>1 DEF Clears, TypeInv
  <1>7. ASSUME NEW k \in Slot, Handles(k), UNCHANGED <<doing, target>> PROVE TypeInv'
    BY <1>0, <1>7, HandlesType DEF TypeInv
  <1> QED BY <1>1, <1>2, <1>3, <1>4, <1>5, <1>6, <1>7 DEF Next

\* The first state has the types, whatever cart it finds.
LEMMA InitType == Init => TypeInv
  <1> SUFFICES ASSUME Init PROVE TypeInv
    OBVIOUS
  <1>1. cart \in [Product -> Nat] /\ ledger \in [Product -> Int]
    BY CartAssumption DEF Init, CartInit
  <1>2. CartTypeOK
    <2>1. raced \in BOOLEAN
      BY DEF Init, CartInit
    <2>2. faults \in 0..MaxFaults
      BY Constants DEF Init, CartInit
    <2>3. req \in [Slot -> Request \cup {Free}]
      BY DEF Init, CartInit
    <2> QED BY <1>1, <2>1, <2>2, <2>3 DEF CartTypeOK
  <1>3. Named
    BY DEF Init, CartInit, Named
  <1> QED BY <1>2, <1>3 DEF Init, TypeInv, LoadTypeOK, Doing

\* Type correctness: in particular no worker ever does what no flow does, and what
\* a handler reads back from the cart for an addition names a product.
THEOREM LoadTypeCorrect == Spec => []LoadTypeOK
  <1>1. Init => TypeInv
    BY InitType
  <1>2. TypeInv => LoadTypeOK
    BY DEF TypeInv
  <1> QED BY <1>1, <1>2, TypeStep, PTL DEF Spec

-----------------------------------------------------------------------------
(* Promises.                                                               *)

Serves(k, w) == req[k] # Free /\ req[k].client = w

\* A worker has one request at a time, none while idle, and drains by checkout.
Flow ==
    \A w \in Worker, k \in Slot : Serves(k, w) =>
        /\ ~Idle(w)
        /\ doing[w] = "drain" => req[k].op = "checkout"
        /\ \A j \in Slot : Serves(j, w) => j = k

\* Workers that will make an addition, and additions that may still be written.
Promised ==
    {w \in Worker :
        \/ doing[w] = "add" /\ ~Waiting(w)
        \/ /\ doing[w] = "drain"
           /\ \E k \in Slot : Serves(k, w) /\ req[k].stage = "answered" /\ req[k].result = "ok"}

Adding == {k \in Slot : req[k] # Free /\ req[k].op = "add" /\ req[k].stage # "answered"}

Limit == CheckoutAt - 1 + Cardinality(Worker) + Cardinality(Slot)

\* The items that are there and those that are promised are within the limit, once
\* anything is promised; a cart that was full before need not be.
RoomFor(promised, adding, items) ==
    \/ Cardinality(promised) + Cardinality(adding) = 0
    \/ Cardinality(items) + Cardinality(promised) + Cardinality(adding) <= Limit

Room == RoomFor(Promised, Adding, Items)

\* What is counted is finite.
LEMMA Counts ==
    ASSUME NEW P \in SUBSET Worker, NEW A \in SUBSET Slot, NEW I \in SUBSET Product
    PROVE  /\ IsFiniteSet(P) /\ Cardinality(P) \in Nat /\ Cardinality(P) <= Cardinality(Worker)
           /\ IsFiniteSet(A) /\ Cardinality(A) \in Nat /\ Cardinality(A) <= Cardinality(Slot)
           /\ IsFiniteSet(I) /\ Cardinality(I) \in Nat
           /\ Cardinality(Worker) \in Nat /\ Cardinality(Slot) \in Nat /\ Limit \in Int
  <1>1. IsFiniteSet(Worker) /\ IsFiniteSet(Slot) /\ IsFiniteSet(Product)
    BY CartAssumption DEF Worker
  <1>2. /\ IsFiniteSet(P) /\ Cardinality(P) <= Cardinality(Worker)
        /\ IsFiniteSet(A) /\ Cardinality(A) <= Cardinality(Slot) /\ IsFiniteSet(I)
    BY <1>1, FS_Subset
  <1>3. /\ Cardinality(P) \in Nat /\ Cardinality(A) \in Nat /\ Cardinality(I) \in Nat
        /\ Cardinality(Worker) \in Nat /\ Cardinality(Slot) \in Nat
    BY <1>1, <1>2, FS_CardinalityType
  <1> QED BY <1>2, <1>3, Constants DEF Limit

\* A cart below cartCheckoutAt has room for whatever may be promised.
LEMMA RoomBelow ==
    ASSUME NEW P \in SUBSET Worker, NEW A \in SUBSET Slot, NEW I \in SUBSET Product,
           Cardinality(I) < CheckoutAt
    PROVE  RoomFor(P, A, I)
  BY Counts, Constants DEF RoomFor, Limit

\* Fewer promises and fewer items need less room.
LEMMA RoomForFewer ==
    ASSUME NEW P \in SUBSET Worker, NEW A \in SUBSET Slot, NEW I \in SUBSET Product,
           NEW Q \in SUBSET P, NEW B \in SUBSET A, NEW J \in SUBSET I, RoomFor(P, A, I)
    PROVE  RoomFor(Q, B, J)
  <1>1. /\ Cardinality(Q) <= Cardinality(P) /\ Cardinality(B) <= Cardinality(A)
        /\ Cardinality(J) <= Cardinality(I)
    BY Counts, FS_Subset
  <1>2. /\ Cardinality(Q) \in Nat /\ Cardinality(B) \in Nat /\ Cardinality(J) \in Nat
        /\ Cardinality(P) \in Nat /\ Cardinality(A) \in Nat /\ Cardinality(I) \in Nat
        /\ Limit \in Int
    BY Counts
  <1> QED BY <1>1, <1>2 DEF RoomFor

\* A promise may pass from a worker to its request.
LEMMA RoomForPosted ==
    ASSUME NEW P \in SUBSET Worker, NEW A \in SUBSET Slot, NEW I \in SUBSET Product,
           NEW w \in P, NEW k \in Slot, RoomFor(P, A, I)
    PROVE  RoomFor(P \ {w}, A \cup {k}, I)
  <1>0. IsFiniteSet(P) /\ IsFiniteSet(A) /\ Cardinality(A) \in Nat
    BY Counts
  <1>1. /\ Cardinality(P \ {w}) = Cardinality(P) - 1
        /\ Cardinality(A \cup {k}) <= Cardinality(A) + 1
    <2>1. Cardinality(P \ {w}) = Cardinality(P) - 1
      BY <1>0, FS_RemoveElement
    <2>2. Cardinality(A \cup {k}) = IF k \in A THEN Cardinality(A) ELSE Cardinality(A) + 1
      BY <1>0, FS_AddElement
    <2> QED BY <1>0, <2>1, <2>2
  <1>2. Cardinality(P) \in Nat /\ Cardinality(A) \in Nat /\ Cardinality(I) \in Nat /\ Limit \in Int
    BY Counts
  <1>3. Cardinality(P \ {w}) \in Nat /\ Cardinality(A \cup {k}) \in Nat
    BY Counts
  <1> QED BY <1>1, <1>2, <1>3 DEF RoomFor

\* A promise may become an item.
LEMMA RoomForWritten ==
    ASSUME NEW P \in SUBSET Worker, NEW A \in SUBSET Slot, NEW I \in SUBSET Product,
           NEW k \in A, NEW p \in Product, RoomFor(P, A, I)
    PROVE  RoomFor(P, A \ {k}, I \cup {p})
  <1>0. IsFiniteSet(A) /\ IsFiniteSet(I) /\ Cardinality(I) \in Nat
    BY Counts
  <1>1. /\ Cardinality(A \ {k}) = Cardinality(A) - 1
        /\ Cardinality(I \cup {p}) <= Cardinality(I) + 1
    <2>1. Cardinality(A \ {k}) = Cardinality(A) - 1
      BY <1>0, FS_RemoveElement
    <2>2. Cardinality(I \cup {p}) = IF p \in I THEN Cardinality(I) ELSE Cardinality(I) + 1
      BY <1>0, FS_AddElement
    <2> QED BY <1>0, <2>1, <2>2
  <1>2. Cardinality(P) \in Nat /\ Cardinality(A) \in Nat /\ Cardinality(I) \in Nat /\ Limit \in Int
    BY Counts
  <1>3. Cardinality(A \ {k}) \in Nat /\ Cardinality(I \cup {p}) \in Nat
    BY Counts
  <1> QED BY <1>1, <1>2, <1>3 DEF RoomFor

\* The limit leaves room for an addition that has been promised.
LEMMA NotFull ==
    ASSUME Room, NEW k \in Adding
    PROVE  Size < MaxItems
  <1>1. /\ Promised \in SUBSET Worker /\ Adding \in SUBSET Slot /\ Items \in SUBSET Product
    BY DEF Promised, Adding, Items
  <1>2. Adding # {} => Cardinality(Adding) >= 1
    BY <1>1, Counts, FS_EmptySet
  <1> QED BY <1>1, <1>2, Counts, Constants, RoomAssumption DEF Room, RoomFor, Limit, Size, Worker

\* A handler goes on with its request, or closes one nobody waits for.
LEMMA HandlerServes ==
    ASSUME TypeInv, NEW k \in Slot, Handles(k)
    PROVE  /\ req[k] # Free
           /\ \A j \in Slot \ {k} : req'[j] = req[j]
           /\ \/ req'[k] = Free /\ req[k].client = Nobody
              \/ /\ req'[k].client = req[k].client /\ req'[k].op = req[k].op
  <1>1. req \in [Slot -> Request \cup {Free}]
    BY DEF TypeInv, LoadTypeOK, CartTypeOK
  <1>2. req[k] # Free
    BY DEF Handles, AddLookup, AddChecksSize, AddWrites, Remove, Clear, CheckoutScans,
           CheckoutOrders, CheckoutFails, CheckoutDeletes, Close, At
  <1>3. \/ \E n : /\ req' = [req EXCEPT ![k] = n]
                   /\ n.client = req[k].client /\ n.op = req[k].op
        \/ req' = [req EXCEPT ![k] = Free] /\ req[k].client = Nobody
    <2> DEFINE Goes == \E n : /\ req' = [req EXCEPT ![k] = n]
                              /\ n.client = req[k].client /\ n.op = req[k].op
    <2>0. req[k] \in Request
      BY <1>1, <1>2
    <2>1. ASSUME NEW r, Answer(k, r) PROVE Goes
      <3> DEFINE a == [op |-> req[k].op, client |-> req[k].client, item |-> NoItem,
                       stage |-> "answered", had |-> 0, snap |-> Nothing, result |-> r]
      <3>1. req' = [req EXCEPT ![k] = a] /\ a.client = req[k].client /\ a.op = req[k].op
        BY <2>1 DEF Answer
      <3> HIDE DEF a
      <3> QED BY <3>1
    <2>2. ASSUME NEW s, Stage(k, s) PROVE Goes
      <3>1. [req[k] EXCEPT !.stage = s].client = req[k].client /\ [req[k] EXCEPT !.stage = s].op = req[k].op
        BY <2>0 DEF Request
      <3> QED BY <2>2, <3>1 DEF Stage
    <2>3. AddLookup(k) => Goes
      <3> DEFINE n == [req[k] EXCEPT !.had = cart[req[k].item],
                                     !.stage = IF cart[req[k].item] > 0 THEN "write" ELSE "size"]
      <3>1. n.client = req[k].client /\ n.op = req[k].op
        BY <2>0 DEF Request
      <3>2. AddLookup(k) => req' = [req EXCEPT ![k] = n]
        BY DEF AddLookup
      <3> HIDE DEF n
      <3> QED BY <3>1, <3>2
    <2>4. CheckoutScans(k) => Goes
      <3> DEFINE n == [req[k] EXCEPT !.stage = "order", !.snap = cart]
      <3>1. n.client = req[k].client /\ n.op = req[k].op
        BY <2>0 DEF Request
      <3>2. CheckoutScans(k) => req' = [req EXCEPT ![k] = n] \/ Answer(k, "empty")
        BY DEF CheckoutScans
      <3> HIDE DEF n
      <3> QED BY <2>1, <3>1, <3>2
    <2>5. CheckoutOrders(k) => Goes
      <3> DEFINE n == [req[k] EXCEPT !.stage = "delete", !.snap = Nothing]
      <3>1. n.client = req[k].client /\ n.op = req[k].op
        BY <2>0 DEF Request
      <3>2. CheckoutOrders(k) => req' = [req EXCEPT ![k] = n]
        BY DEF CheckoutOrders
      <3> HIDE DEF n
      <3> QED BY <3>1, <3>2
    <2>6. AddChecksSize(k) \/ AddWrites(k) \/ Remove(k) \/ Clear(k) \/ CheckoutFails(k) \/ CheckoutDeletes(k)
            => Goes
      <3> HIDE DEF Goes
      <3> QED BY <2>1, <2>2 DEF AddChecksSize, AddWrites, Remove, Clear, CheckoutFails, CheckoutDeletes
    <2> QED
      BY <2>3, <2>4, <2>5, <2>6 DEF Handles, Close
  <1> QED BY <1>1, <1>2, <1>3

\* Requests belong to the workers that wait for them, step after step.
LEMMA FlowStep == TypeInv /\ Flow /\ [Next]_vars => Flow'
  <1> SUFFICES ASSUME TypeInv, Flow, [Next]_vars,
                      NEW w \in Worker, NEW k \in Slot, Serves(k, w)'
               PROVE  /\ ~Idle(w)'
                      /\ doing'[w] = "drain" => req'[k].op = "checkout"
                      /\ \A j \in Slot : Serves(j, w)' => j = k
    BY DEF Flow
  <1> USE DEF Serves, Idle
  <1>0. /\ req \in [Slot -> Request \cup {Free}] /\ doing \in [Worker -> Doing]
        /\ \A j \in Slot : req[j] # Free => req[j].client \in Client \cup {Nobody}
        /\ Worker = Client
    BY DEF TypeInv, LoadTypeOK, CartTypeOK, Request, Worker
  <1>1. CASE UNCHANGED vars
    BY <1>1 DEF vars, Flow
  <1>2. ASSUME NEW v \in Worker, AddToCart(v) \/ RemoveFromCart(v) \/ CheckoutCart(v)
        PROVE  /\ ~Idle(w)'
               /\ doing'[w] = "drain" => req'[k].op = "checkout"
               /\ \A j \in Slot : Serves(j, w)' => j = k
    <2>1. req' = req /\ Idle(v) /\ v # w
      BY <1>2 DEF AddToCart, RemoveFromCart, CheckoutCart, cartVars, Flow
    <2>2. doing'[w] = doing[w]
      BY <1>0, <1>2, <2>1 DEF AddToCart, RemoveFromCart, CheckoutCart, Does
    <2> QED BY <2>1, <2>2 DEF Flow
  <1>3. ASSUME NEW v \in Worker, NEW l \in Slot, Posts(v, l)
        PROVE  /\ ~Idle(w)'
               /\ doing'[w] = "drain" => req'[k].op = "checkout"
               /\ \A j \in Slot : Serves(j, w)' => j = k
    <2>1. /\ doing' = doing /\ \A j \in Slot \ {l} : req'[j] = req[j]
          /\ req'[l].client = v /\ doing[v] # "idle" /\ (doing[v] = "drain" => req'[l].op = "checkout")
      BY <1>0, <1>3 DEF Posts, Accept
    <2>2. CASE k = l
      BY <1>3, <2>1, <2>2 DEF Posts, Waiting
    <2>3. CASE k # l
      BY <1>3, <2>1, <2>3 DEF Posts, Waiting, Flow
    <2> QED BY <2>2, <2>3
  <1>4. ASSUME NEW v \in Worker, NEW l \in Slot, Receives(v, l) \/ GivesUp(v, l)
        PROVE  /\ ~Idle(w)'
               /\ doing'[w] = "drain" => req'[k].op = "checkout"
               /\ \A j \in Slot : Serves(j, w)' => j = k
    <2>1. /\ \A j \in Slot \ {l} : req'[j] = req[j]
          /\ req[l] # Free /\ req[l].client = v
          /\ req'[l] = Free \/ req'[l].client = Nobody
      BY <1>0, <1>4 DEF Receives, GivesUp, Request
    <2>2. k # l /\ Serves(k, w)
      BY <2>1, Constants DEF Worker
    <2>3. v # w
      BY <2>1, <2>2 DEF Flow
    <2>4. doing'[w] = doing[w]
      BY <1>0, <1>4, <2>3 DEF Receives, GivesUp, Does
    <2>5. \A j \in Slot : Serves(j, w)' => Serves(j, w)
      BY <2>1, Constants DEF Worker
    <2>6. req'[k] = req[k]
      BY <2>1, <2>2
    <2>7. /\ doing[w] # "idle"
          /\ doing[w] = "drain" => req[k].op = "checkout"
          /\ \A j \in Slot : Serves(j, w) => j = k
      BY <2>2 DEF Flow
    <2> QED BY <2>4, <2>5, <2>6, <2>7
  <1>5. ASSUME NEW l \in Slot, Clears(l)
        PROVE  /\ ~Idle(w)'
               /\ doing'[w] = "drain" => req'[k].op = "checkout"
               /\ \A j \in Slot : Serves(j, w)' => j = k
    <2>1. doing' = doing /\ (\A j \in Slot \ {l} : req'[j] = req[j]) /\ req'[l].client = Nobody
      BY <1>0, <1>5 DEF Clears, Accept
    <2> QED BY <2>1, Constants DEF Flow, Worker
  <1>6. ASSUME NEW l \in Slot, Handles(l), UNCHANGED <<doing, target>>
        PROVE  /\ ~Idle(w)'
               /\ doing'[w] = "drain" => req'[k].op = "checkout"
               /\ \A j \in Slot : Serves(j, w)' => j = k
    BY <1>6, HandlerServes, Constants DEF Flow, Worker
  <1> QED BY <1>1, <1>2, <1>3, <1>4, <1>5, <1>6 DEF Next

-----------------------------------------------------------------------------
(* The steps and the room.                                                 *)

\* Nothing is promised, written or added by a step after which fewer are.
LEMMA StepForFewer ==
    ASSUME Room, Promised' \subseteq Promised, Adding' \subseteq Adding, Items' \subseteq Items
    PROVE  Room'
  <1>1. /\ Promised \in SUBSET Worker /\ Adding \in SUBSET Slot /\ Items \in SUBSET Product
        /\ Promised' \in SUBSET Promised /\ Adding' \in SUBSET Adding /\ Items' \in SUBSET Items
    BY DEF Promised, Adding, Items
  <1> QED BY <1>1, RoomForFewer DEF Room

\* A request that goes on without being answered promises nothing new.
LEMMA GoesOnPromises ==
    ASSUME TypeInv, NEW k \in Slot, req[k] # Free, req[k].stage # "answered", doing' = doing,
           NEW n, req' = [req EXCEPT ![k] = n], n \in Request,
           n.client = req[k].client, n.op = req[k].op, n.stage # "answered"
    PROVE  Promised' \subseteq Promised /\ Adding' \subseteq Adding
  <1>1. req \in [Slot -> Request \cup {Free}] /\ n # Free
    BY Constants DEF TypeInv, LoadTypeOK, CartTypeOK
  <1>2. \A w \in Worker : Waiting(w)' <=> Waiting(w)
    BY <1>1 DEF Waiting
  <1> QED BY <1>1, <1>2 DEF Promised, Adding, Serves

\* One that is answered promises nothing, unless it is a checkout that went well.
LEMMA AnswerPromises ==
    ASSUME TypeInv, Flow, NEW k \in Slot, req[k] # Free, doing' = doing,
           NEW r \in Result, Answer(k, r), r = "ok" => req[k].op # "checkout"
    PROVE  Promised' \subseteq Promised /\ Adding' \subseteq Adding \ {k}
  <1> DEFINE a == [op |-> req[k].op, client |-> req[k].client, item |-> NoItem,
                   stage |-> "answered", had |-> 0, snap |-> Nothing, result |-> r]
  <1>1. /\ req' = [req EXCEPT ![k] = a] /\ a.client = req[k].client /\ a.op = req[k].op
        /\ a.stage = "answered" /\ a.result = r
    BY DEF Answer
  <1>2. a \in Request /\ req \in [Slot -> Request \cup {Free}]
    BY DEF TypeInv, LoadTypeOK, CartTypeOK, Request, Nothing
  <1> HIDE DEF a
  <1>3. a # Free
    BY <1>2, Constants
  <1>4. \A w \in Worker : Waiting(w)' <=> Waiting(w)
    BY <1>1, <1>2, <1>3 DEF Waiting
  <1>5. ASSUME NEW w \in Worker, doing[w] = "drain", a.client = w PROVE r # "ok"
    BY <1>1, <1>5 DEF Flow, Serves
  <1>6. ASSUME NEW w \in Promised' PROVE w \in Promised
    <2>1. CASE doing[w] = "add" /\ ~Waiting(w)'
      BY <1>4, <1>6, <2>1 DEF Promised
    <2>2. CASE doing[w] = "drain"
      <3>1. PICK j \in Slot : Serves(j, w)' /\ req'[j].stage = "answered" /\ req'[j].result = "ok"
        BY <1>6, <2>2 DEF Promised
      <3>2. j # k
        BY <1>1, <1>2, <1>5, <1>6, <2>2, <3>1 DEF Serves, Promised
      <3> QED BY <1>1, <1>2, <1>6, <2>2, <3>1, <3>2 DEF Serves, Promised
    <2> QED BY <1>6, <2>1, <2>2 DEF Promised
  <1>7. Adding' \subseteq Adding \ {k}
    BY <1>1, <1>2 DEF Adding
  <1> QED BY <1>6, <1>7

\* A step of a handler leaves room.
LEMMA HandlesRoom ==
    ASSUME TypeInv, Flow, Room, NEW k \in Slot, Handles(k), doing' = doing
    PROVE  Room'
  <1> USE DEF At
  <1>0. /\ req \in [Slot -> Request \cup {Free}] /\ cart \in [Product -> Nat]
        /\ req[k] # Free => req[k] \in Request
    BY DEF TypeInv, LoadTypeOK, CartTypeOK
  <1>1. CASE AddLookup(k)
    <2> DEFINE n == [req[k] EXCEPT !.had = cart[req[k].item],
                                   !.stage = IF cart[req[k].item] > 0 THEN "write" ELSE "size"]
    <2>1. req[k].item \in Product /\ req' = [req EXCEPT ![k] = n] /\ UNCHANGED cart
      BY <1>1 DEF AddLookup, TypeInv, Named
    <2>2. /\ n \in Request /\ n.op = req[k].op /\ n.client = req[k].client
          /\ n.stage # "answered" /\ req[k] # Free /\ req[k].stage # "answered"
      BY <1>0, <1>1, <2>1 DEF AddLookup, Request
    <2> HIDE DEF n
    <2> QED BY <2>1, <2>2, GoesOnPromises, StepForFewer DEF Items
  <1>2. CASE AddChecksSize(k)
    <2>1. UNCHANGED cart /\ req[k] # Free /\ req[k].op # "checkout" /\ req[k].stage # "answered"
      BY <1>2 DEF AddChecksSize
    <2>2. CASE Answer(k, "full")
      <3>1. Promised' \subseteq Promised /\ Adding' \subseteq Adding
        BY <2>1, <2>2, AnswerPromises DEF Result
      <3> QED BY <2>1, <3>1, StepForFewer DEF Items
    <2>3. CASE Stage(k, "write")
      <3> DEFINE n == [req[k] EXCEPT !.stage = "write"]
      <3>1. /\ req' = [req EXCEPT ![k] = n] /\ n \in Request /\ n.op = req[k].op
            /\ n.client = req[k].client /\ n.stage # "answered"
        BY <1>0, <2>1, <2>3 DEF Stage, Request
      <3> HIDE DEF n
      <3> QED BY <2>1, <3>1, GoesOnPromises, StepForFewer DEF Items
    <2> QED BY <1>2, <2>2, <2>3 DEF AddChecksSize
  <1>3. CASE AddWrites(k)
    <2>1. /\ Answer(k, "ok") /\ req[k] # Free /\ req[k].op = "add" /\ req[k].stage # "answered"
          /\ req[k].item \in Product
      BY <1>3 DEF AddWrites, TypeInv, Named
    <2>2. Promised' \subseteq Promised /\ Adding' \subseteq Adding \ {k}
      BY <2>1, AnswerPromises DEF Result
    <2>3. Items' \subseteq Items \cup {req[k].item}
      BY <1>0, <1>3, <2>1 DEF AddWrites, Items
    <2>4. /\ Promised \in SUBSET Worker /\ Adding \in SUBSET Slot /\ Items \in SUBSET Product
          /\ k \in Adding
      BY <2>1 DEF Promised, Adding, Items
    <2>5. RoomFor(Promised, Adding \ {k}, Items \cup {req[k].item})
      BY <2>1, <2>4, RoomForWritten DEF Room
    <2>6. /\ Adding \ {k} \in SUBSET Slot /\ Items \cup {req[k].item} \in SUBSET Product
          /\ Promised' \in SUBSET Promised /\ Adding' \in SUBSET (Adding \ {k})
          /\ Items' \in SUBSET (Items \cup {req[k].item})
      BY <2>1, <2>2, <2>3, <2>4
    <2>7. RoomFor(Promised', Adding', Items')
      BY <2>4, <2>5, <2>6, RoomForFewer
    <2> QED BY <2>7 DEF Room
  <1>4. CASE Remove(k) \/ Clear(k)
    <2>1. /\ \E r \in Result : Answer(k, r)
          /\ req[k] # Free /\ req[k].op # "checkout" /\ Items' \subseteq Items
      BY <1>0, <1>4 DEF Remove, Clear, Result, Items, Nothing
    <2> QED BY <2>1, AnswerPromises, StepForFewer
  <1>5. CASE CheckoutScans(k)
    <2>1. UNCHANGED cart /\ req[k] # Free /\ req[k].stage # "answered"
      BY <1>5 DEF CheckoutScans
    <2>2. CASE Items = {}
      <3>1. Answer(k, "empty")
        BY <1>5, <2>2 DEF CheckoutScans
      <3>2. Promised' \subseteq Promised /\ Adding' \subseteq Adding
        BY <2>1, <3>1, AnswerPromises DEF Result
      <3> QED BY <2>1, <3>2, StepForFewer DEF Items
    <2>3. CASE Items # {}
      <3> DEFINE n == [req[k] EXCEPT !.stage = "order", !.snap = cart]
      <3>1. /\ req' = [req EXCEPT ![k] = n] /\ n \in Request /\ n.op = req[k].op
            /\ n.client = req[k].client /\ n.stage # "answered"
        BY <1>0, <1>5, <2>1, <2>3 DEF CheckoutScans, Request
      <3> HIDE DEF n
      <3> QED BY <2>1, <3>1, GoesOnPromises, StepForFewer DEF Items
    <2> QED BY <2>2, <2>3
  <1>6. CASE CheckoutOrders(k)
    <2> DEFINE n == [req[k] EXCEPT !.stage = "delete", !.snap = Nothing]
    <2>1. UNCHANGED cart /\ req[k] # Free /\ req[k].stage # "answered"
      BY <1>6 DEF CheckoutOrders
    <2>2. /\ req' = [req EXCEPT ![k] = n] /\ n \in Request /\ n.op = req[k].op
          /\ n.client = req[k].client /\ n.stage # "answered"
      BY <1>0, <1>6, <2>1 DEF CheckoutOrders, Request, Nothing
    <2> HIDE DEF n
    <2> QED BY <2>1, <2>2, GoesOnPromises, StepForFewer DEF Items
  <1>7. CASE CheckoutFails(k)
    <2>1. UNCHANGED cart /\ req[k] # Free /\ Answer(k, "failed")
      BY <1>7 DEF CheckoutFails
    <2>2. Promised' \subseteq Promised /\ Adding' \subseteq Adding
      BY <2>1, AnswerPromises DEF Result
    <2> QED BY <2>1, <2>2, StepForFewer DEF Items
  <1>8. CASE CheckoutDeletes(k)
    <2>1. Items' = {}
      BY <1>8 DEF CheckoutDeletes, Items, Nothing
    <2>2. Promised' \in SUBSET Worker /\ Adding' \in SUBSET Slot /\ {} \in SUBSET Product
      BY DEF Promised, Adding
    <2>3. Cardinality({}) < CheckoutAt
      BY FS_EmptySet, RoomAssumption
    <2> QED BY <2>1, <2>2, <2>3, RoomBelow DEF Room
  <1>9. CASE Close(k)
    <2>1. /\ req' = [req EXCEPT ![k] = Free] /\ req[k].client = Nobody /\ UNCHANGED cart
          /\ req[k] # Free
      BY <1>9 DEF Close
    <2>2. \A w \in Worker : Waiting(w)' <=> Waiting(w)
      BY <1>0, <2>1, Constants DEF Waiting, Worker
    <2>3. Promised' \subseteq Promised /\ Adding' \subseteq Adding
      BY <1>0, <2>1, <2>2 DEF Promised, Adding, Serves
    <2> QED BY <2>1, <2>3, StepForFewer DEF Items
  <1> QED BY <1>1, <1>2, <1>3, <1>4, <1>5, <1>6, <1>7, <1>8, <1>9 DEF Handles

\* The items and the promises stay within the limit, step after step.
LEMMA RoomStep == TypeInv /\ Flow /\ Room /\ [Next]_vars => Room'
  <1> SUFFICES ASSUME TypeInv, Flow, Room, [Next]_vars PROVE Room'
    OBVIOUS
  <1>0. /\ req \in [Slot -> Request \cup {Free}] /\ doing \in [Worker -> Doing]
        /\ target \in [Worker -> Product \cup {NoItem}]
        /\ Promised' \in SUBSET Worker /\ Adding' \in SUBSET Slot /\ Items' \in SUBSET Product
    BY DEF TypeInv, LoadTypeOK, CartTypeOK, Promised, Adding, Items
  <1>1. CASE UNCHANGED vars
    BY <1>1, StepForFewer DEF vars, Promised, Adding, Items, Waiting, Serves
  <1>2. ASSUME NEW w \in Worker, AddToCart(w) \/ RemoveFromCart(w) \/ CheckoutCart(w)
        PROVE  Room'
    <2>1. req' = req /\ cart' = cart
      BY <1>2 DEF AddToCart, RemoveFromCart, CheckoutCart, cartVars
    <2>2. CASE Does(w, "add") /\ Size < CheckoutAt
      <3>1. Cardinality(Items') < CheckoutAt
        BY <2>1, <2>2 DEF Size, Items
      <3> QED BY <1>0, <3>1, RoomBelow DEF Room
    <2>3. CASE \E d \in {"remove", "checkout", "drain"} : Does(w, d)
      <3>1. \A k \in Slot : ~Serves(k, w)
        BY <1>2 DEF Flow, AddToCart, RemoveFromCart, CheckoutCart
      <3>2. Promised' \subseteq Promised /\ Adding' \subseteq Adding
        BY <1>0, <2>1, <2>3, <3>1 DEF Promised, Adding, Waiting, Serves, Does
      <3> QED BY <2>1, <3>2, StepForFewer DEF Items
    <2>4. Size < CheckoutAt \/ Size >= CheckoutAt
      <3>1. Items \in SUBSET Product
        BY DEF Items
      <3> QED BY <3>1, Counts, Constants DEF Size
    <2> QED BY <1>2, <2>2, <2>3, <2>4 DEF AddToCart, RemoveFromCart, CheckoutCart, cartItems, Size
  <1>3. ASSUME NEW w \in Worker, NEW k \in Slot, Posts(w, k) PROVE Room'
    <2>1. PICK op \in Op, p \in Product \cup {NoItem} :
              Accept(k, op, p, w) /\ (op = "add" <=> doing[w] = "add")
      BY <1>0, <1>3 DEF Posts, Op
    <2> DEFINE r == [op |-> op, client |-> w, item |-> p, stage |-> "start",
                     had |-> 0, snap |-> Nothing, result |-> "none"]
    <2>2. /\ req[k] = Free /\ req' = [req EXCEPT ![k] = r] /\ UNCHANGED <<cart, doing>>
          /\ r.op = op /\ r.client = w /\ r.stage # "answered"
      BY <1>3, <2>1 DEF Posts, Accept
    <2>3. r \in Request
      BY DEF Request, Nothing, Result, Worker
    <2> HIDE DEF r
    <2>4. r # Free
      BY <2>3, Constants
    <2>5. ~Waiting(w) /\ Waiting(w)'
      BY <1>0, <1>3, <2>2, <2>4 DEF Posts, Waiting
    <2>6. \A v \in Worker \ {w} : Waiting(v)' <=> Waiting(v)
      BY <1>0, <2>2, <2>4 DEF Waiting
    <2>7. Promised' \subseteq Promised \ (IF op = "add" THEN {w} ELSE {})
      BY <1>0, <2>1, <2>2, <2>4, <2>5, <2>6 DEF Promised, Serves
    <2>8. Adding' \subseteq Adding \cup (IF op = "add" THEN {k} ELSE {})
      BY <1>0, <2>2, <2>4 DEF Adding
    <2>9. CASE op = "add"
      <3>1. w \in Promised
        BY <2>1, <2>5, <2>9 DEF Promised
      <3>2. /\ Promised \in SUBSET Worker /\ Adding \in SUBSET Slot /\ Items \in SUBSET Product
        BY DEF Promised, Adding, Items
      <3>3. RoomFor(Promised \ {w}, Adding \cup {k}, Items)
        BY <3>1, <3>2, RoomForPosted DEF Room
      <3>4. /\ Promised \ {w} \in SUBSET Worker /\ Adding \cup {k} \in SUBSET Slot
            /\ Promised' \in SUBSET (Promised \ {w}) /\ Adding' \in SUBSET (Adding \cup {k})
            /\ Items' \in SUBSET Items
        BY <2>2, <2>7, <2>8, <2>9, <3>2 DEF Items
      <3>5. RoomFor(Promised', Adding', Items')
        BY <3>2, <3>3, <3>4, RoomForFewer
      <3> QED BY <3>5 DEF Room
    <2>10. CASE op # "add"
      BY <2>2, <2>7, <2>8, <2>10, StepForFewer DEF Items
    <2> QED BY <2>9, <2>10
  <1>4. ASSUME NEW w \in Worker, NEW k \in Slot, Receives(w, k) \/ GivesUp(w, k) PROVE Room'
    <2>1. /\ Serves(k, w) /\ UNCHANGED cart
          /\ \A j \in Slot \ {k} : req'[j] = req[j]
          /\ \/ req'[k] = Free
             \/ req'[k].client = Nobody /\ req'[k].op = req[k].op /\ req'[k].stage = req[k].stage
      BY <1>0, <1>4 DEF Receives, GivesUp, Serves, Request
    <2>2. \A v \in Worker \ {w} : Waiting(v)' <=> Waiting(v)
      BY <2>1, Constants DEF Waiting, Serves, Worker
    <2>3. \A v \in Worker \ {w} : doing'[v] = doing[v]
      BY <1>0, <1>4 DEF Receives, GivesUp, Does
    <2>4. ASSUME NEW v \in Promised', v # w PROVE v \in Promised
      <3>1. CASE doing[v] = "add" /\ ~Waiting(v)'
        BY <2>2, <2>4, <3>1 DEF Promised
      <3>2. CASE doing[v] = "drain"
        <4>1. PICK j \in Slot : Serves(j, v)' /\ req'[j].stage = "answered" /\ req'[j].result = "ok"
          BY <2>3, <2>4, <3>2 DEF Promised
        <4>2. j # k
          BY <2>1, <4>1, Constants DEF Serves, Promised, Worker
        <4> QED BY <2>1, <2>4, <3>2, <4>1, <4>2 DEF Serves, Promised
      <3> QED BY <2>3, <2>4, <3>1, <3>2 DEF Promised
    <2>5. w \in Promised' => w \in Promised
      BY <1>0, <1>4, <2>1 DEF Receives, GivesUp, Does, Promised, Serves
    <2>6. Adding' \subseteq Adding
      BY <2>1 DEF Adding, Serves
    <2> QED BY <2>1, <2>4, <2>5, <2>6, StepForFewer DEF Items
  <1>5. ASSUME NEW k \in Slot, Clears(k) PROVE Room'
    <2> DEFINE r == [op |-> "clear", client |-> Nobody, item |-> NoItem, stage |-> "start",
                     had |-> 0, snap |-> Nothing, result |-> "none"]
    <2>1. /\ req[k] = Free /\ req' = [req EXCEPT ![k] = r] /\ UNCHANGED <<cart, doing>>
          /\ r.op = "clear" /\ r.client = Nobody
      BY <1>5 DEF Clears, Accept
    <2> HIDE DEF r
    <2>2. \A v \in Worker : Waiting(v)' <=> Waiting(v)
      BY <1>0, <2>1, Constants DEF Waiting, Worker
    <2>3. Promised' \subseteq Promised /\ Adding' \subseteq Adding
      BY <1>0, <2>1, <2>2, Constants DEF Promised, Adding, Serves, Worker
    <2> QED BY <2>1, <2>3, StepForFewer DEF Items
  <1>6. ASSUME NEW k \in Slot, Handles(k), UNCHANGED <<doing, target>> PROVE Room'
    BY <1>6, HandlesRoom
  <1> QED BY <1>1, <1>2, <1>3, <1>4, <1>5, <1>6 DEF Next

\* With that room no handler answers that the cart is full.
LEMMA FullStep == TypeInv /\ Room /\ NeverFull /\ [Next]_vars => NeverFull'
  <1> SUFFICES ASSUME TypeInv, Room, NeverFull, [Next]_vars,
                      NEW j \in Slot, req'[j] # Free, req'[j].result = "full"
               PROVE  FALSE
    BY DEF NeverFull
  <1>0. req \in [Slot -> Request \cup {Free}] /\ (req[j] # Free => req[j].result # "full")
    BY DEF TypeInv, LoadTypeOK, CartTypeOK, NeverFull
  <1>1. req' # req
    BY <1>0
  <1>2. ASSUME NEW k \in Slot, NEW op, NEW p, NEW c, Accept(k, op, p, c) PROVE FALSE
    <2>1. req'[k].result = "none" /\ \A i \in Slot \ {k} : req'[i] = req[i]
      BY <1>0, <1>2 DEF Accept
    <2> QED BY <1>0, <2>1
  <1>3. ASSUME NEW w \in Worker, NEW k \in Slot, Receives(w, k) \/ GivesUp(w, k) PROVE FALSE
    <2>1. /\ \A i \in Slot \ {k} : req'[i] = req[i]
          /\ req[k] # Free /\ (req'[k] = Free \/ req'[k].result = req[k].result)
      BY <1>0, <1>3 DEF Receives, GivesUp, Request
    <2> QED BY <1>0, <2>1
  <1>4. ASSUME NEW k \in Slot, Handles(k) PROVE FALSE
    <2>0. req[k] # Free /\ req[k] \in Request
      BY <1>0, <1>4, HandlerServes
    <2>1. ASSUME NEW r, Answer(k, r), r # "full" PROVE FALSE
      <3>1. req'[k].result = r /\ \A i \in Slot \ {k} : req'[i] = req[i]
        BY <1>0, <2>1 DEF Answer
      <3> QED BY <1>0, <2>1, <3>1
    <2>2. ASSUME NEW s, Stage(k, s) PROVE FALSE
      <3>1. req'[k].result = req[k].result /\ \A i \in Slot \ {k} : req'[i] = req[i]
        BY <1>0, <2>0, <2>2 DEF Stage, Request
      <3> QED BY <1>0, <2>0, <3>1
    <2>3. ASSUME AddLookup(k) \/ CheckoutOrders(k) \/ (CheckoutScans(k) /\ Items # {}) PROVE FALSE
      <3>1. req'[k].result = req[k].result /\ \A i \in Slot \ {k} : req'[i] = req[i]
        BY <1>0, <2>0, <2>3 DEF AddLookup, CheckoutOrders, CheckoutScans, Request
      <3> QED BY <1>0, <2>0, <3>1
    <2>4. ASSUME AddChecksSize(k) PROVE FALSE
      <3>1. k \in Adding /\ Items \in SUBSET Product
        BY <2>4 DEF AddChecksSize, At, Adding, Items
      <3>2. Size < MaxItems /\ Size \in Nat
        BY <3>1, NotFull, Counts DEF Size
      <3> QED BY <2>2, <2>4, <3>2, Constants DEF AddChecksSize
    <2>5. ASSUME Close(k) PROVE FALSE
      BY <1>0, <2>5 DEF Close
    <2> QED BY <1>4, <2>1, <2>3, <2>4, <2>5
         DEF Handles, AddWrites, Remove, Clear, CheckoutScans, CheckoutFails, CheckoutDeletes
  <1> QED
    BY <1>1, <1>2, <1>3, <1>4
       DEF Next, vars, cartVars, AddToCart, RemoveFromCart, CheckoutCart, Posts, Clears

\* However many workers add at once, and whatever requests they have given up on
\* are still in progress, an addition is never answered "cart is full": the flows
\* check out in time (main.go:244-250).
THEOREM CartNeverFull == Spec => []NeverFull
  <1> DEFINE Inv == TypeInv /\ Flow /\ Room /\ NeverFull
  <1>1. TypeInv /\ Init => Inv
    <2> SUFFICES ASSUME TypeInv, Init PROVE Inv
      OBVIOUS
    <2>1. Promised = {} /\ Adding = {}
      BY DEF Init, CartInit, Promised, Adding, Serves
    <2>2. Cardinality({}) = 0
      BY FS_EmptySet
    <2> QED BY <2>1, <2>2 DEF Init, CartInit, Flow, Serves, NeverFull, Room, RoomFor
  <1>2. Inv /\ [Next]_vars => Inv'
    BY TypeStep, FlowStep, RoomStep, FullStep
  <1>3. Inv => NeverFull
    OBVIOUS
  <1>4. Init => TypeInv
    BY InitType
  <1> HIDE DEF Inv
  <1> QED BY <1>1, <1>2, <1>3, <1>4, PTL DEF Spec

-----------------------------------------------------------------------------
(* The books.                                                              *)

\* No two requests in progress meet in the hash.
Apart ==
    \A j, k \in Slot : j # k /\ Running(j) /\ Running(k)
                         => ~Conflict(req[j].op, req[j].item, req[k].op, req[k].item)

\* What a handler has read is still so.
ReadHolds ==
    \A k \in Slot :
        /\ At(k, "add", "size") \/ At(k, "add", "write") => req[k].had = cart[req[k].item]
        /\ At(k, "checkout", "order") => req[k].snap = cart

\* What a checkout is about to delete has been ordered.
DeleteIsOrdered ==
    \A k \in Slot : At(k, "checkout", "delete") =>
        /\ \A p \in Product : ledger[p] <= 0
        /\ faults = 0 => ledger = Nothing

Accounted == ~raced => Apart /\ ReadHolds /\ DeleteIsOrdered /\ CartAccounts

\* A step that leaves the cart and its books alone, and in which requests only
\* lose their client or end.
LEMMA BooksRest ==
    ASSUME TypeInv, Accounted, ~raced, UNCHANGED <<cart, ledger>>, faults' \in Nat, faults' >= faults,
           \A k \in Slot :
               \/ req'[k] = Free \/ req'[k].stage = "answered"
               \/ /\ req[k] # Free /\ req'[k].op = req[k].op /\ req'[k].item = req[k].item
                  /\ req'[k].stage = req[k].stage /\ req'[k].had = req[k].had /\ req'[k].snap = req[k].snap,
           \A k \in Slot : At(k, "checkout", "delete") => At(k, "checkout", "delete")'
    PROVE  Accounted'
  <1>0. Apart /\ ReadHolds /\ DeleteIsOrdered /\ CartAccounts /\ faults \in Nat
    BY Constants DEF Accounted, TypeInv, LoadTypeOK, CartTypeOK
  <1>1. Apart'
    BY <1>0 DEF Apart, Running
  <1>2. ReadHolds'
    BY <1>0 DEF ReadHolds, At
  <1>3. faults' = 0 => faults = 0
    BY <1>0
  <1>4. DeleteIsOrdered'
    <2>1. \A k \in Slot : At(k, "checkout", "delete")' => At(k, "checkout", "delete")
      BY DEF At
    <2> QED BY <1>0, <1>3, <2>1 DEF DeleteIsOrdered, Nothing
  <1>5. CartAccounts'
    BY <1>0, <1>3 DEF CartAccounts
  <1> QED BY <1>1, <1>2, <1>4, <1>5 DEF Accounted

\* A step of the handler in slot k: what it must show of its own request, the
\* others' are elsewhere in the hash.
LEMMA BooksServed ==
    ASSUME TypeInv, Accounted, ~raced, NEW k \in Slot, Running(k),
           NEW n, n # Free, req' = [req EXCEPT ![k] = n], n.op = req[k].op,
           n.stage = "answered" \/ n.item = req[k].item,
           \A p \in Product : cart'[p] = cart[p] \/ req[k].op \in {"clear", "checkout"} \/ p = req[k].item,
           n.op = "add" /\ n.stage \in {"size", "write"} => n.had = cart'[n.item],
           n.op = "checkout" /\ n.stage = "order" => n.snap = cart',
           n.op = "checkout" /\ n.stage = "delete" =>
               (\A p \in Product : ledger'[p] <= 0) /\ (faults' = 0 => ledger' = Nothing),
           CartAccounts'
    PROVE  Accounted'
  <1>0. /\ Apart /\ ReadHolds /\ Named
        /\ req \in [Slot -> Request \cup {Free}]
    BY DEF Accounted, TypeInv, LoadTypeOK, CartTypeOK
  <1>1. req'[k] = n /\ \A j \in Slot \ {k} : req'[j] = req[j]
    BY <1>0
  <1>2. Running(k)' => n.item = req[k].item
    BY <1>1 DEF Running
  <1>3. Apart'
    BY <1>0, <1>1, <1>2 DEF Apart, Running
  <1>4. ASSUME NEW j \in Slot, j # k, Running(j)
        PROVE  req[j].op \in {"add", "remove"} /\ req[k].op \notin {"clear", "checkout"} /\ req[j].item # req[k].item
    <2>1. req[j] \in Request /\ ~Conflict(req[j].op, req[j].item, req[k].op, req[k].item)
      BY <1>0, <1>4 DEF Apart, Running
    <2> QED BY <2>1 DEF Conflict, Request, Op
  <1>5. ReadHolds'
    <2> SUFFICES ASSUME NEW j \in Slot
                 PROVE  /\ At(j, "add", "size")' \/ At(j, "add", "write")' => req'[j].had = cart'[req'[j].item]
                        /\ At(j, "checkout", "order")' => req'[j].snap = cart'
      BY DEF ReadHolds
    <2>1. CASE j = k
      BY <1>1, <2>1 DEF At
    <2>2. CASE j # k
      <3>1. At(j, "add", "size")' \/ At(j, "add", "write")' =>
                req[j].had = cart[req[j].item] /\ req[j].item \in Product /\ Running(j)
        BY <1>0, <1>1, <2>2 DEF ReadHolds, At, Named, Running
      <3>2. ~At(j, "checkout", "order")'
        BY <1>1, <1>4, <2>2 DEF At, Running
      <3> QED BY <1>1, <1>4, <2>2, <3>1, <3>2
    <2> QED BY <2>1, <2>2
  <1>6. DeleteIsOrdered'
    <2> SUFFICES ASSUME NEW j \in Slot, At(j, "checkout", "delete")'
                 PROVE  (\A p \in Product : ledger'[p] <= 0) /\ (faults' = 0 => ledger' = Nothing)
      BY DEF DeleteIsOrdered, Nothing
    <2>1. j = k
      BY <1>1, <1>4 DEF At, Running
    <2> QED BY <1>1, <2>1 DEF At
  <1> QED BY <1>3, <1>5, <1>6 DEF Accounted

\* A new request that meets none in progress.
LEMMA BooksAccepted ==
    ASSUME TypeInv, Accounted, NEW k \in Slot, NEW op \in Op, NEW p, NEW c, Accept(k, op, p, c), ~raced'
    PROVE  Accounted'
  <1> DEFINE n == [op |-> op, client |-> c, item |-> p, stage |-> "start",
                   had |-> 0, snap |-> Nothing, result |-> "none"]
  <1>1. /\ ~raced /\ ~Disturbs(op, p) /\ UNCHANGED <<cart, ledger, faults>>
        /\ req' = [req EXCEPT ![k] = n] /\ req[k] = Free
        /\ n.op = op /\ n.item = p /\ n.stage = "start"
    BY DEF Accept
  <1> HIDE DEF n
  <1>2. Apart /\ ReadHolds /\ DeleteIsOrdered /\ CartAccounts /\ req \in [Slot -> Request \cup {Free}]
    BY <1>1 DEF Accounted, TypeInv, LoadTypeOK, CartTypeOK
  <1>3. req'[k] = n /\ \A j \in Slot \ {k} : req'[j] = req[j]
    BY <1>1, <1>2
  <1>4. \A j \in Slot : Running(j) => ~Conflict(op, p, req[j].op, req[j].item)
    BY <1>1 DEF Disturbs
  <1>5. Apart'
    BY <1>1, <1>2, <1>3, <1>4 DEF Apart, Running, Conflict
  <1>6. ReadHolds'
    BY <1>1, <1>2, <1>3 DEF ReadHolds, At
  <1>7. \A j \in Slot : At(j, "checkout", "delete")' <=> At(j, "checkout", "delete")
    BY <1>1, <1>3 DEF At
  <1>8. DeleteIsOrdered' /\ CartAccounts'
    BY <1>1, <1>2, <1>7 DEF DeleteIsOrdered, CartAccounts, Nothing
  <1> QED BY <1>5, <1>6, <1>8 DEF Accounted

\* A handler's step keeps the books.
LEMMA BooksHandled ==
    ASSUME TypeInv, Accounted, NEW k \in Slot, Handles(k), ~raced'
    PROVE  Accounted'
  <1> USE DEF At
  <1>0. /\ ~raced /\ raced' = raced /\ req[k] # Free /\ req[k] \in Request
        /\ req \in [Slot -> Request \cup {Free}] /\ cart \in [Product -> Nat] /\ ledger \in [Product -> Int]
        /\ faults \in Nat
    BY Constants DEF Handles, AddLookup, AddChecksSize, AddWrites, Remove, Clear, CheckoutScans, CheckoutOrders,
                     CheckoutFails, CheckoutDeletes, Close, TypeInv, LoadTypeOK, CartTypeOK
  <1>1. ReadHolds /\ DeleteIsOrdered /\ \A p \in Product : cart[p] >= ledger[p]
    BY <1>0 DEF Accounted, CartAccounts
  <1>2. ASSUME \A j \in Slot \ {k} : req'[j] = req[j], ~At(k, "checkout", "delete"), faults' = 0, faults = 0,
               \A j \in Slot : ~At(j, "checkout", "delete")'
        PROVE  cart = ledger
    <2>1. \A j \in Slot : ~At(j, "checkout", "delete")
      BY <1>2
    <2> QED BY <1>0, <1>2, <2>1 DEF Accounted, CartAccounts
  <1>3. ASSUME NEW n, req' = [req EXCEPT ![k] = n] PROVE \A j \in Slot \ {k} : req'[j] = req[j]
    BY <1>0, <1>3
  <1>4. ASSUME NEW r \in Result, Answer(k, r)
        PROVE  \E n : n # Free /\ req' = [req EXCEPT ![k] = n] /\ n.op = req[k].op /\ n.stage = "answered"
    <2> DEFINE a == [op |-> req[k].op, client |-> req[k].client, item |-> NoItem,
                     stage |-> "answered", had |-> 0, snap |-> Nothing, result |-> r]
    <2>1. a \in Request /\ a.op = req[k].op /\ a.stage = "answered"
      BY <1>0 DEF Request, Nothing
    <2>2. req' = [req EXCEPT ![k] = a]
      BY <1>4 DEF Answer
    <2> HIDE DEF a
    <2> QED BY <2>1, <2>2, Constants
  <1>5. ASSUME NEW s \in {"start", "size", "write", "order", "delete"}, Stage(k, s)
        PROVE  \E n : /\ n # Free /\ req' = [req EXCEPT ![k] = n] /\ n.op = req[k].op /\ n.stage = s
                      /\ n.item = req[k].item /\ n.had = req[k].had /\ n.snap = req[k].snap
    <2> DEFINE n == [req[k] EXCEPT !.stage = s]
    <2>1. /\ n \in Request /\ n.op = req[k].op /\ n.stage = s
          /\ n.item = req[k].item /\ n.had = req[k].had /\ n.snap = req[k].snap
      BY <1>0 DEF Request
    <2>2. req' = [req EXCEPT ![k] = n]
      BY <1>5 DEF Stage
    <2> HIDE DEF n
    <2> QED BY <2>1, <2>2, Constants
  <1>6. CASE AddLookup(k)
    <2> DEFINE n == [req[k] EXCEPT !.had = cart[req[k].item],
                                   !.stage = IF cart[req[k].item] > 0 THEN "write" ELSE "size"]
    <2>1. req[k].item \in Product /\ req' = [req EXCEPT ![k] = n] /\ UNCHANGED <<cart, ledger, faults>>
          /\ req[k].op = "add" /\ Running(k)
      BY <1>0, <1>6 DEF AddLookup, TypeInv, Named, Running
    <2>2. n \in Request /\ n.op = "add" /\ n.item = req[k].item /\ n.had = cart[n.item]
      BY <1>0, <2>1 DEF Request
    <2> HIDE DEF n
    <2>3. CartAccounts'
      BY <1>1, <1>2, <1>3, <2>1 DEF CartAccounts
    <2> QED BY <1>0, <2>1, <2>2, <2>3, BooksServed, Constants
  <1>7. CASE AddChecksSize(k)
    <2>1. UNCHANGED <<cart, ledger, faults>> /\ req[k].op = "add" /\ Running(k) /\ req[k].had = cart[req[k].item]
      BY <1>0, <1>1, <1>7 DEF AddChecksSize, ReadHolds, Running
    <2>2. PICK n : /\ n # Free /\ req' = [req EXCEPT ![k] = n] /\ n.op = "add"
                   /\ n.stage = "answered" \/ (n.stage = "write" /\ n.item = req[k].item /\ n.had = req[k].had)
      BY <1>4, <1>5, <1>7, <2>1 DEF AddChecksSize, Result
    <2>3. CartAccounts'
      BY <1>1, <1>2, <1>3, <2>1, <2>2 DEF CartAccounts
    <2> QED BY <1>0, <2>1, <2>2, <2>3, BooksServed
  <1>8. CASE AddWrites(k)
    <2>1. /\ faults' = faults /\ req[k].op = "add" /\ Running(k) /\ req[k].had = cart[req[k].item]
          /\ req[k].item \in Product /\ cart' = [cart EXCEPT ![req[k].item] = req[k].had + 1]
          /\ ledger' = [ledger EXCEPT ![req[k].item] = @ + 1]
      BY <1>0, <1>1, <1>8 DEF AddWrites, ReadHolds, Running, Book, TypeInv, Named
    <2>2. PICK n : n # Free /\ req' = [req EXCEPT ![k] = n] /\ n.op = "add" /\ n.stage = "answered"
      BY <1>4, <1>8, <2>1 DEF AddWrites, Result
    <2>3. \A p \in Product : cart'[p] >= ledger'[p]
      BY <1>0, <1>1, <2>1
    <2>4. cart = ledger => cart' = ledger'
      BY <1>0, <2>1
    <2>5. CartAccounts'
      BY <1>2, <1>3, <2>1, <2>2, <2>3, <2>4 DEF CartAccounts
    <2>6. \A p \in Product : cart'[p] = cart[p] \/ p = req[k].item
      BY <1>0, <2>1
    <2> QED BY <1>0, <2>1, <2>2, <2>5, <2>6, BooksServed
  <1>9. CASE Remove(k)
    <2>1. /\ faults' = faults /\ req[k].op = "remove" /\ Running(k)
          /\ req[k].item \in Product /\ cart' = [cart EXCEPT ![req[k].item] = 0]
          /\ ledger' = [ledger EXCEPT ![req[k].item] = @ - cart[req[k].item]]
      BY <1>0, <1>9 DEF Remove, Running, Book, TypeInv, Named
    <2>2. PICK n : n # Free /\ req' = [req EXCEPT ![k] = n] /\ n.op = "remove" /\ n.stage = "answered"
      BY <1>4, <1>9, <2>1 DEF Remove, Result
    <2>3. \A p \in Product : cart'[p] >= ledger'[p]
      BY <1>0, <1>1, <2>1
    <2>4. cart = ledger => cart' = ledger'
      <3> SUFFICES ASSUME cart = ledger PROVE cart' = ledger'
        OBVIOUS
      <3>1. ledger' = [ledger EXCEPT ![req[k].item] = 0]
        <4>1. ledger[req[k].item] - cart[req[k].item] = 0
          BY <1>0, <2>1
        <4> QED BY <2>1, <4>1
      <3> QED BY <2>1, <3>1
    <2>5. CartAccounts'
      BY <1>2, <1>3, <2>1, <2>2, <2>3, <2>4 DEF CartAccounts
    <2>6. \A p \in Product : cart'[p] = cart[p] \/ p = req[k].item
      BY <1>0, <2>1
    <2> QED BY <1>0, <2>1, <2>2, <2>5, <2>6, BooksServed
  <1>10. CASE Clear(k)
    <2>1. /\ faults' = faults /\ req[k].op = "clear" /\ Running(k) /\ cart' = Nothing
          /\ ledger' = [p \in Product |-> ledger[p] - cart[p]]
      BY <1>0, <1>10 DEF Clear, Running, Book
    <2>2. PICK n : n # Free /\ req' = [req EXCEPT ![k] = n] /\ n.op = "clear" /\ n.stage = "answered"
      BY <1>4, <1>10, <2>1 DEF Clear, Result
    <2>3. \A p \in Product : cart'[p] >= ledger'[p]
      BY <1>0, <1>1, <2>1 DEF Nothing
    <2>4. cart = ledger => cart' = ledger'
      <3>1. cart = ledger => \A p \in Product : ledger[p] - cart[p] = 0
        BY <1>0
      <3> QED BY <2>1, <3>1 DEF Nothing
    <2>5. CartAccounts'
      BY <1>2, <1>3, <2>1, <2>2, <2>3, <2>4 DEF CartAccounts
    <2> QED BY <1>0, <2>1, <2>2, <2>5, BooksServed
  <1>11. CASE CheckoutScans(k)
    <2>1. UNCHANGED <<cart, ledger, faults>> /\ req[k].op = "checkout" /\ req[k].stage = "start" /\ Running(k)
      BY <1>0, <1>11 DEF CheckoutScans, Running
    <2>2. PICK n : /\ n # Free /\ req' = [req EXCEPT ![k] = n] /\ n.op = "checkout"
                   /\ n.stage = "answered" \/ (n.stage = "order" /\ n.item = req[k].item /\ n.snap = cart)
      <3>1. CASE Items = {}
        BY <1>4, <1>11, <2>1, <3>1 DEF CheckoutScans, Result
      <3>2. CASE Items # {}
        <4> DEFINE n == [req[k] EXCEPT !.stage = "order", !.snap = cart]
        <4>1. /\ n \in Request /\ n.op = "checkout" /\ n.stage = "order" /\ n.item = req[k].item /\ n.snap = cart
          BY <1>0, <2>1 DEF Request
        <4>2. req' = [req EXCEPT ![k] = n]
          BY <1>11, <3>2 DEF CheckoutScans
        <4> HIDE DEF n
        <4> QED BY <4>1, <4>2, Constants
      <3> QED BY <3>1, <3>2
    <2>3. CartAccounts'
      BY <1>1, <1>2, <1>3, <2>1, <2>2 DEF CartAccounts
    <2> QED BY <1>0, <2>1, <2>2, <2>3, BooksServed
  <1>12. CASE CheckoutOrders(k)
    <2> DEFINE n == [req[k] EXCEPT !.stage = "delete", !.snap = Nothing]
    <2>1. /\ UNCHANGED <<cart, faults>> /\ req[k].op = "checkout" /\ req[k].stage = "order" /\ Running(k)
          /\ req' = [req EXCEPT ![k] = n] /\ ledger' = Ordered(k) /\ req[k].snap = cart
      BY <1>0, <1>1, <1>12 DEF CheckoutOrders, Running, Book, ReadHolds
    <2>2. n \in Request /\ n.op = "checkout" /\ n.stage = "delete" /\ n.item = req[k].item
      BY <1>0, <2>1 DEF Request, Nothing
    <2> HIDE DEF n
    <2>3. \A p \in Product : ledger'[p] = ledger[p] - cart[p] /\ ledger'[p] <= 0 /\ cart'[p] >= ledger'[p]
      BY <1>0, <1>1, <2>1 DEF Ordered
    <2>4. faults' = 0 => ledger' = Nothing
      <3> SUFFICES ASSUME faults = 0 PROVE ledger' = Nothing
        BY <2>1
      <3>1. \A j \in Slot : ~At(j, "checkout", "delete")
        BY <1>0, <2>1 DEF Accounted, Apart, Running, Conflict
      <3>2. cart = ledger
        BY <1>0, <3>1 DEF Accounted, CartAccounts
      <3> QED BY <1>0, <2>1, <3>2 DEF Ordered, Nothing
    <2>5. At(k, "checkout", "delete")'
      BY <1>0, <2>1, <2>2, Constants
    <2>6. CartAccounts'
      BY <2>3, <2>5 DEF CartAccounts
    <2> QED BY <1>0, <2>1, <2>2, <2>3, <2>4, <2>6, BooksServed, Constants
  <1>13. CASE CheckoutFails(k)
    <2>1. /\ cart' = cart /\ req[k].op = "checkout" /\ Running(k)
          /\ ledger' \in {ledger, Ordered(k)} /\ req[k].snap = cart /\ faults' = faults + 1
      BY <1>0, <1>1, <1>13 DEF CheckoutFails, Running, Fault, ReadHolds
    <2>2. PICK n : n # Free /\ req' = [req EXCEPT ![k] = n] /\ n.op = "checkout" /\ n.stage = "answered"
      BY <1>4, <1>13, <2>1 DEF CheckoutFails, Result
    <2>3. (\A p \in Product : cart'[p] >= ledger'[p]) /\ faults' # 0
      BY <1>0, <1>1, <2>1 DEF Ordered
    <2>4. CartAccounts'
      BY <2>3 DEF CartAccounts
    <2> QED BY <1>0, <2>1, <2>2, <2>4, BooksServed
  <1>14. CASE CheckoutDeletes(k)
    <2>1. /\ UNCHANGED <<ledger, faults>> /\ req[k].op = "checkout" /\ Running(k) /\ cart' = Nothing
          /\ (\A p \in Product : ledger[p] <= 0) /\ (faults = 0 => ledger = Nothing)
      BY <1>0, <1>1, <1>14 DEF CheckoutDeletes, Running, DeleteIsOrdered
    <2>2. PICK n : n # Free /\ req' = [req EXCEPT ![k] = n] /\ n.op = "checkout" /\ n.stage = "answered"
      BY <1>4, <1>14, <2>1 DEF CheckoutDeletes, Result
    <2>3. CartAccounts'
      BY <1>0, <2>1 DEF CartAccounts, Nothing
    <2> QED BY <1>0, <2>1, <2>2, <2>3, BooksServed
  <1>15. CASE Close(k)
    <2>1. UNCHANGED <<cart, ledger, faults>> /\ req' = [req EXCEPT ![k] = Free] /\ req[k].stage = "answered"
      BY <1>15 DEF Close
    <2>2. req'[k] = Free /\ \A j \in Slot \ {k} : req'[j] = req[j]
      BY <1>0, <2>1
    <2>3. \A j \in Slot :
               \/ req'[j] = Free \/ req'[j].stage = "answered"
               \/ /\ req[j] # Free /\ req'[j].op = req[j].op /\ req'[j].item = req[j].item
                  /\ req'[j].stage = req[j].stage /\ req'[j].had = req[j].had /\ req'[j].snap = req[j].snap
      BY <2>2
    <2>4. \A j \in Slot : At(j, "checkout", "delete") => At(j, "checkout", "delete")'
      BY <2>1, <2>2
    <2> QED BY <1>0, <2>1, <2>3, <2>4, BooksRest
  <1> QED BY <1>6, <1>7, <1>8, <1>9, <1>10, <1>11, <1>12, <1>13, <1>14, <1>15 DEF Handles

LEMMA BooksStep == TypeInv /\ Accounted /\ [Next]_vars => Accounted'
  <1> SUFFICES ASSUME TypeInv, Accounted, [Next]_vars, ~raced' PROVE Accounted'
    BY DEF Accounted
  <1>0. req \in [Slot -> Request \cup {Free}] /\ faults \in Nat
    BY Constants DEF TypeInv, LoadTypeOK, CartTypeOK
  <1>1. ASSUME UNCHANGED cartVars PROVE Accounted'
    BY <1>1 DEF cartVars, Accounted, Apart, ReadHolds, DeleteIsOrdered, CartAccounts, Running, At, Nothing
  <1>2. ASSUME NEW w \in Worker, AddToCart(w) \/ RemoveFromCart(w) \/ CheckoutCart(w) PROVE Accounted'
    BY <1>1, <1>2 DEF AddToCart, RemoveFromCart, CheckoutCart
  <1>3. ASSUME NEW w \in Worker, NEW k \in Slot, Posts(w, k) PROVE Accounted'
    <2>1. PICK op \in Op : \E p : Accept(k, op, p, w)
      BY <1>3 DEF Posts, Op
    <2> QED BY <2>1, BooksAccepted
  <1>4. ASSUME NEW k \in Slot, Clears(k) PROVE Accounted'
    BY <1>4, BooksAccepted DEF Clears, Op
  <1>5. ASSUME NEW w \in Worker, NEW k \in Slot, Receives(w, k) \/ GivesUp(w, k) PROVE Accounted'
    <2>1. UNCHANGED <<cart, ledger, raced>> /\ (faults' = faults \/ faults' = faults + 1)
      BY <1>5 DEF Receives, GivesUp, Fault
    <2>2. /\ req[k] # Free /\ \A j \in Slot \ {k} : req'[j] = req[j]
          /\ \/ req'[k] = Free /\ req[k].stage = "answered"
             \/ /\ req'[k] # Free /\ req'[k].op = req[k].op /\ req'[k].item = req[k].item
                /\ req'[k].stage = req[k].stage /\ req'[k].had = req[k].had /\ req'[k].snap = req[k].snap
      <3>1. CASE Receives(w, k)
        BY <1>0, <3>1 DEF Receives
      <3>2. CASE GivesUp(w, k)
        <4> DEFINE n == [req[k] EXCEPT !.client = Nobody]
        <4>1. /\ req' = [req EXCEPT ![k] = n] /\ req[k] # Free /\ n \in Request
              /\ n.op = req[k].op /\ n.item = req[k].item /\ n.stage = req[k].stage
              /\ n.had = req[k].had /\ n.snap = req[k].snap
          BY <1>0, <3>2 DEF GivesUp, Request
        <4> HIDE DEF n
        <4> QED BY <1>0, <4>1, Constants
      <3> QED BY <1>5, <3>1, <3>2
    <2>3. \A j \in Slot :
               \/ req'[j] = Free \/ req'[j].stage = "answered"
               \/ /\ req[j] # Free /\ req'[j].op = req[j].op /\ req'[j].item = req[j].item
                  /\ req'[j].stage = req[j].stage /\ req'[j].had = req[j].had /\ req'[j].snap = req[j].snap
      BY <2>2
    <2>4. \A j \in Slot : At(j, "checkout", "delete") => At(j, "checkout", "delete")'
      BY <2>2 DEF At
    <2>5. faults' \in Nat /\ faults' >= faults
      BY <1>0, <2>1
    <2> QED BY <2>1, <2>3, <2>4, <2>5, BooksRest
  <1>6. ASSUME NEW k \in Slot, Handles(k) PROVE Accounted'
    BY <1>6, BooksHandled
  <1>7. CASE UNCHANGED vars
    BY <1>1, <1>7 DEF vars, cartVars
  <1> QED BY <1>2, <1>3, <1>4, <1>5, <1>6, <1>7 DEF Next

\* Where no two requests disturbed each other nothing added is lost: it is in the
\* cart or was ordered, whatever calls fail; and until one does the cart holds
\* nothing else (app.py, add_item and checkout).
THEOREM CartAccounted == Spec => []CartAccounts
  <1>1. Init => Accounted
    <2> SUFFICES ASSUME Init PROVE Accounted
      OBVIOUS
    <2>1. (\A k \in Slot : req[k] = Free) /\ ledger = cart /\ \A p \in Product : cart[p] \in Int
      BY CartAssumption DEF Init, CartInit
    <2>2. Apart /\ ReadHolds /\ DeleteIsOrdered
      BY <2>1 DEF Apart, ReadHolds, DeleteIsOrdered, Running, At
    <2>3. CartAccounts
      BY <2>1 DEF CartAccounts
    <2> QED BY <2>2, <2>3 DEF Accounted
  <1>2. Accounted => CartAccounts
    BY DEF Accounted, CartAccounts
  <1> QED BY <1>1, <1>2, InitType, TypeStep, BooksStep, PTL DEF Spec
=============================================================================
