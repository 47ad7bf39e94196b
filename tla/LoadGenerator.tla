----------------------------- MODULE LoadGenerator -----------------------------
(***************************************************************************)
(* The cart flows of the load generator (src/services/load-generator       *)
(* /main.go) against cart-service.  A ticker hands scenarios drawn at      *)
(* random to a pool of workers; a flow reads the cart, decides, and makes  *)
(* its requests one after the other.  All workers act for the same user,   *)
(* the worst case for that user's cart.  A scenario that only reads, or    *)
(* whose reading fails, changes nothing and is no step.                    *)
(***************************************************************************)
EXTENDS CartService

CONSTANT CheckoutAt     \* cartCheckoutAt

Worker == Client

\* There is room below the limit for what may be under way when a cart
\* reaches the size at which the user checks out.
ASSUME RoomAssumption ==
    /\ CheckoutAt \in Nat \ {0}
    /\ MaxItems >= CheckoutAt + Cardinality(Worker) + Cardinality(Slot) - 1

VARIABLES
    doing,      \* doing[w]: the request worker w makes next or waits for
    target      \* target[w]: the product its removal will name

vars == <<cart, req, ledger, raced, faults, doing, target>>

Doing == {"idle", "add", "remove", "checkout", "drain"}

Waiting(w) == \E k \in Slot : req[k] # Free /\ req[k].client = w

Idle(w) == doing[w] = "idle"

Does(w, d) == doing' = [doing EXCEPT ![w] = d]

-----------------------------------------------------------------------------
(* An idle worker is handed a scenario and its GET is answered, with what   *)
(* is in the cart at that moment.                                          *)

cartItems == Items

\* Variant: the user checks out one item later.
AddToCartLate(w) ==
    /\ Idle(w)
    /\ Does(w, IF Cardinality(cartItems) > CheckoutAt THEN "drain" ELSE "add")
    /\ UNCHANGED <<cartVars, target>>

\* Variant: nothing is checked out on the way.
AddToCartNeverDrains(w) ==
    /\ Idle(w)
    /\ Does(w, "add")
    /\ UNCHANGED <<cartVars, target>>

AddToCart(w) ==
    /\ Idle(w)
    /\ Does(w, IF Cardinality(cartItems) >= CheckoutAt THEN "drain" ELSE "add")
    /\ UNCHANGED <<cartVars, target>>

\* Variant: drawing from an empty list, which rand.Intn answers with a panic.
RemoveFromEmptyCart(w) ==
    /\ Idle(w)
    /\ IF cartItems = {} THEN Does(w, "panic") /\ UNCHANGED target
                     ELSE (\E p \in cartItems : target' = [target EXCEPT ![w] = p]) /\ Does(w, "remove")
    /\ UNCHANGED cartVars

RemoveFromCart(w) ==
    /\ Idle(w)
    /\ \E p \in cartItems : target' = [target EXCEPT ![w] = p]
    /\ Does(w, "remove")
    /\ UNCHANGED cartVars

CheckoutCart(w) ==
    /\ Idle(w) /\ cartItems # {}
    /\ Does(w, "checkout")
    /\ UNCHANGED <<cartVars, target>>

(* The requests themselves.                                                *)

Posts(w, k) ==
    /\ ~Waiting(w)
    /\ \/ doing[w] = "add" /\ \E p \in Product : Accept(k, "add", p, w)
       \/ doing[w] = "remove" /\ Accept(k, "remove", target[w], w)
       \/ doing[w] \in {"checkout", "drain"} /\ Accept(k, "checkout", NoItem, w)
    /\ target' = [target EXCEPT ![w] = NoItem]
    /\ UNCHANGED doing

\* The answer; a drain that went well is followed by the addition.
Receives(w, k) ==
    /\ req[k] # Free /\ req[k].client = w /\ req[k].stage = "answered"
    /\ req' = [req EXCEPT ![k] = Free]
    /\ Does(w, IF doing[w] = "drain" /\ req[k].result = "ok" THEN "add" ELSE "idle")
    /\ UNCHANGED <<cart, ledger, raced, faults, target>>

\* http.Client.Timeout: the worker goes on, the service does not know.
GivesUp(w, k) ==
    /\ req[k] # Free /\ req[k].client = w /\ Fault
    /\ req' = [req EXCEPT ![k].client = Nobody]
    /\ Does(w, "idle")
    /\ UNCHANGED <<cart, ledger, raced, target>>

\* Somebody empties the cart; no flow does.
Clears(k) ==
    /\ Accept(k, "clear", NoItem, Nobody)
    /\ UNCHANGED <<doing, target>>

-----------------------------------------------------------------------------

Init ==
    /\ CartInit
    /\ doing = [w \in Worker |-> "idle"]
    /\ target = [w \in Worker |-> NoItem]

Next ==
    \/ \E w \in Worker :
          \/ AddToCart(w) \/ RemoveFromCart(w) \/ CheckoutCart(w)
          \/ \E k \in Slot : Posts(w, k) \/ Receives(w, k) \/ GivesUp(w, k)
    \/ \E k \in Slot : Clears(k)
    \/ \E k \in Slot : Handles(k) /\ UNCHANGED <<doing, target>>

Spec == Init /\ [][Next]_vars

\* A worker never stops and the service answers; of the scenarios drawn at
\* random, the one that adds is drawn again and again.
Fairness ==
    /\ \A w \in Worker :
         /\ SF_vars(AddToCart(w))
         /\ SF_vars(\E k \in Slot : Posts(w, k))
         /\ WF_vars(\E k \in Slot : Receives(w, k))
    /\ \A k \in Slot : WF_vars(Handles(k) /\ UNCHANGED <<doing, target>>)

FairSpec == Spec /\ Fairness

-----------------------------------------------------------------------------

\* Every variable stays in its type.
LoadTypeOK ==
    /\ CartTypeOK
    /\ doing \in [Worker -> Doing]
    /\ target \in [Worker -> Product \cup {NoItem}]

\* No add_item is answered "cart is full", although the size is read by the
\* generator and again by the service and neither reading holds when the item
\* is written (main.go:244-250).  The room the limit needs above CheckoutAt is
\* an addition under way in each worker and in each slot (RoomAssumption).
NeverFull == \A k \in Slot : req[k] # Free => req[k].result # "full"

\* Where no two requests disturbed each other, add_item and checkout lose
\* nothing: what was added and not ordered is in the cart, and until a call
\* fails the cart holds nothing else.
CartAccounts ==
    ~raced =>
      /\ \A p \in Product : cart[p] >= ledger[p]
      /\ faults = 0 /\ (\A k \in Slot : ~At(k, "checkout", "delete")) => cart = ledger

\* A cart at or above the size at which the user checks out, as one filled by
\* an earlier run is, does not stay there (main.go:247-250).
FullCartDrains == Size >= CheckoutAt ~> Size < CheckoutAt

=============================================================================
