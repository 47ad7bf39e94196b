----------------------------- MODULE ScenarioRuns -----------------------------
(***************************************************************************)
(* What the reconciler does around the three calls of an action, for       *)
(* scenarios with one action each: a scenario is wanted or not, has a run  *)
(* or not, and has a persisted revert token or not.  Passes of one         *)
(* scenario never overlap, those of different scenarios do.                *)
(*                                                                         *)
(* Each scenario has its own view of what it acts on: the informer cache   *)
(* as its pass has read it, up to the moment its write arrives.  How old a *)
(* view may be is part of the setup.  A call that fails, or an operator    *)
(* that dies, leaves nothing behind but an older view, and the next pass   *)
(* makes the call again.                                                   *)
(***************************************************************************)
EXTENDS Naturals, FiniteSets, Sequences

CONSTANTS
    Scenario,
    Setups,         \* the circumstances looked at: actions, age of views, bound on faults
    None,
    MaxRuns,        \* bound: runs started
    MaxUserOps      \* bound: user requests

ActionType == {"DeployImage", "Workload", "ChaosMesh", "DBExec"}

\* Views are up to date; or behind what others do; or behind one's own writes too.
Lag == {"none", "others", "any"}

ASSUME RunsAssumption ==
    /\ Setups \subseteq [type : [Scenario -> ActionType \cup {None}], lag : Lag, maxFaults : Nat]
    /\ None \notin ActionType
    /\ MaxRuns \in Nat /\ MaxUserOps \in Nat

VARIABLES
    setup,      \* setup.type[s]: type of the action of s, None when there is no such scenario;
                \* setup.maxFaults bounds failures, restarts, and changes made by others
    wanted,     \* wanted[s]: spec.enabled
    run,        \* run[s]: status.currentRun
    token,      \* token[s]: what the persisted revert token says
    uid,        \* uid[s]: the MaintenanceJob of that name, told by the runs before it
    runs,       \* runs started
    ops,        \* user requests so far
    faults      \* faults so far

status == <<setup, wanted, run, token, uid, runs>>
bounds == <<ops, faults>>
runVars == <<status, bounds>>

Type(s) == setup.type[s]

\* The views after s, or None for somebody else, has made x out of what is viewed.
Viewed(view, s, x) ==
    IF setup.lag = "none" THEN [o \in Scenario |-> x]
    ELSE IF setup.lag = "others" /\ s # None THEN [view EXCEPT ![s] = x] ELSE view

Live(s) == run[s] # None \/ token[s] # None
Activating(s) == wanted[s] /\ run[s] # None
Reverting(s) == token[s] # None /\ ~Activating(s)

\* When each of the three calls is made.
Plans(s, t) == Type(s) = t /\ Activating(s) /\ token[s] = None
Ensures(s, t) == Type(s) = t /\ Activating(s) /\ token[s] # None
Reverts(s, t) == Type(s) = t /\ Reverting(s)

Fault == faults < setup.maxFaults /\ faults' = faults + 1

\* The token is persisted before the first write, and dropped after Revert is done.
Persists(s, t) ==
    /\ token' = [token EXCEPT ![s] = t]
    /\ UNCHANGED <<setup, wanted, run, uid, runs, bounds>>
Drops(s) == Persists(s, None)

StartRun(s) ==
    /\ wanted[s] /\ ~Live(s) /\ runs < MaxRuns
    /\ runs' = runs + 1
    /\ run' = [run EXCEPT ![s] = runs + 1]
    /\ UNCHANGED <<setup, wanted, token, uid, bounds>>

FinishRun(s) ==
    /\ run[s] # None /\ ~wanted[s] /\ token[s] = None
    /\ run' = [run EXCEPT ![s] = None]
    /\ UNCHANGED <<setup, wanted, token, uid, runs, bounds>>

Switch(s) ==
    /\ Type(s) # None /\ ops < MaxUserOps
    /\ ops' = ops + 1
    /\ wanted' = [wanted EXCEPT ![s] = ~@]
    /\ UNCHANGED <<setup, run, token, uid, runs, faults>>

\* The object goes before its target is back to normal: by a forced release, where
\* the operator may watch the ConfigMap its token goes to (MaintenanceController,
\* LeakTokens), or as a user strips the finalizer.  A user may create it again, under
\* another uid.
ForceRelease(s) ==
    /\ token[s] # None /\ ops < MaxUserOps
    /\ ops' = ops + 1
    /\ token' = [token EXCEPT ![s] = None]
    /\ run' = [run EXCEPT ![s] = None]
    /\ wanted' = [wanted EXCEPT ![s] = FALSE]
    /\ uid' = [uid EXCEPT ![s] = runs]
    /\ UNCHANGED <<setup, runs, faults>>

Released(s) == uid[s] > 0

RunsInit ==
    /\ setup \in Setups
    /\ wanted = [s \in Scenario |-> FALSE]
    /\ run = [s \in Scenario |-> None] /\ token = [s \in Scenario |-> None]
    /\ uid = [s \in Scenario |-> 0]
    /\ runs = 0 /\ ops = 0 /\ faults = 0

RunsTypeOK ==
    /\ setup \in Setups
    /\ wanted \in [Scenario -> BOOLEAN]
    /\ run \in [Scenario -> 1..MaxRuns \cup {None}]
    /\ uid \in [Scenario -> 0..MaxRuns]
    /\ runs \in 0..MaxRuns /\ ops \in 0..MaxUserOps /\ faults \in 0..setup.maxFaults

=============================================================================
