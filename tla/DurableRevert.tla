---------------------------- MODULE DurableRevert ----------------------------
(***************************************************************************)
(* What the operator promises about the failures of one scenario, whatever *)
(* passes, caches and restarts it takes: a token is recorded before its    *)
(* failure is injected, and is forgotten only once the target is back to   *)
(* normal; the record itself disappears only when it is empty or when its  *)
(* tokens were abandoned, on request, to the ConfigMap.                    *)
(***************************************************************************)
EXTENDS TLAPS

CONSTANT Action

VARIABLES
    recorded,   \* actions whose revert token is recorded
    injected,   \* actions whose failure is in effect
    abandoned,  \* actions whose tokens were leaked to the ConfigMap
    released    \* the scenario object is gone

vars == <<recorded, injected, abandoned, released>>

Init == recorded = {} /\ injected = {} /\ abandoned = {} /\ released = FALSE

Record(a) ==
    /\ ~released
    /\ recorded' = recorded \cup {a}
    /\ UNCHANGED <<injected, abandoned, released>>

Inject(a) ==
    /\ a \in recorded
    /\ injected' = injected \cup {a}
    /\ UNCHANGED <<recorded, abandoned, released>>

\* By the operator's revert, or by itself.
Restore(a) ==
    /\ injected' = injected \ {a}
    /\ UNCHANGED <<recorded, abandoned, released>>

Forget(a) ==
    /\ a \notin injected
    /\ recorded' = recorded \ {a}
    /\ UNCHANGED <<injected, abandoned, released>>

AbandonTokens ==
    /\ abandoned' = abandoned \cup recorded
    /\ UNCHANGED <<recorded, injected, released>>

Release ==
    /\ ~released /\ recorded \subseteq abandoned
    /\ released' = TRUE
    /\ UNCHANGED <<recorded, injected, abandoned>>

Next ==
    \/ AbandonTokens \/ Release
    \/ \E a \in Action : Record(a) \/ Inject(a) \/ Restore(a) \/ Forget(a)

Spec == Init /\ [][Next]_vars

-----------------------------------------------------------------------------

\* Every failure in effect can be undone from a token, and a failure that
\* outlives the scenario was abandoned on request.
NothingStranded ==
    /\ injected \subseteq recorded
    /\ released => injected \subseteq abandoned

\* Once the object is gone nothing more is recorded, and all that was recorded
\* had been leaked.
Promise ==
    /\ injected \subseteq recorded
    /\ released => recorded \subseteq abandoned

\* The steps allowed here are enough for the promise (plan, persist, mutate;
\* drain or leak before the finalizer goes).
THEOREM NeverStranded == Spec => []NothingStranded
  <1>1. Init => Promise
    BY DEF Init, Promise
  <1>2. Promise /\ [Next]_vars => Promise'
    <2> SUFFICES ASSUME Promise, [Next]_vars PROVE Promise'
      OBVIOUS
    <2>1. CASE UNCHANGED vars
      BY <2>1 DEF Promise, vars
    <2>2. CASE AbandonTokens \/ Release
      BY <2>2 DEF Promise, AbandonTokens, Release
    <2>3. ASSUME NEW a \in Action, Record(a) \/ Inject(a) PROVE Promise'
      BY <2>3 DEF Promise, Record, Inject
    <2>4. ASSUME NEW a \in Action, Restore(a) \/ Forget(a) PROVE Promise'
      BY <2>4 DEF Promise, Restore, Forget
    <2> QED BY <2>1, <2>2, <2>3, <2>4 DEF Next
  <1>3. Promise => NothingStranded
    BY DEF Promise, NothingStranded
  <1> QED BY <1>1, <1>2, <1>3, PTL DEF Spec
=============================================================================
