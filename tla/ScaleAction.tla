------------------------------ MODULE ScaleAction ------------------------------
(***************************************************************************)
(* The Scale action of the rca-lab operator (src/operator/internal/actions *)
(* /scale.go), for several scenarios that scale the same Deployment.       *)
(*                                                                         *)
(* Passes of different scenarios run concurrently (four workers).  Plan,   *)
(* Ensure and Revert read the Deployment from the informer cache, decide,  *)
(* and send a JSON merge patch that carries neither the version they read  *)
(* nor the fields they found as they wanted them; so reading and patching  *)
(* are two actions here, and another scenario can act in between.  Of the  *)
(* reconciler only what surrounds the three calls is kept: a scenario is   *)
(* wanted or not, has a run or not, and has a token or not.                *)
(***************************************************************************)
EXTENDS Naturals, Sequences

CONSTANTS
    Scenario,       \* the MaintenanceJobs whose Scale action has this target
    Target,         \* Target[s]: spec.scale.replicas of scenario s
    Normal,         \* replicas in the Deployment's manifest
    NoOne,          \* no held-by annotation
    NoTarget,       \* the Deployment does not exist
    None,           \* no token; no run
    Setups          \* the circumstances to look at, one of which lasts for a behavior

\* lag: how many versions the cache of Deployments can be behind; overlapping: users
\* start a scenario while another one is live; ops, faults: bounds on user requests
\* and on crashes, failing calls and changes made outside of the operator.
Setup == [lag : Nat, overlapping : BOOLEAN, ops : Nat, faults : Nat]

ASSUME ScaleAssumption ==
    /\ Target \in [Scenario -> Nat] /\ Normal \in Nat
    /\ None \notin Nat /\ NoOne \notin Scenario \X Nat
    /\ Setups \subseteq Setup

Deployment == [replicas : Nat, heldBy : (Scenario \X Nat) \cup {NoOne}]

ASSUME TargetAssumption == NoTarget \notin Deployment

VARIABLES
    setup,      \* the circumstances of this behavior
    dep,        \* the Deployment in the API server, or NoTarget
    backlog,    \* versions before dep that the cache has yet to move past, oldest first
    wanted,     \* wanted[s]: spec.enabled
    run,        \* run[s]: status.currentRun
    token,      \* token[s]: PreviousReplicas of the persisted revert token
    pc,         \* pc[s]: what the running pass of s does next
    seen,       \* seen[s]: the Deployment as that pass read it
    abandoned,  \* scenarios whose token was leaked by a forced release
    runs,       \* runs started
    ops,        \* user requests so far
    faults      \* faults so far

vars == <<setup, dep, backlog, wanted, run, token, pc, seen, abandoned, runs, ops, faults>>
status == <<setup, wanted, run, token, abandoned, runs>>

-----------------------------------------------------------------------------

Cached == IF backlog = <<>> THEN dep ELSE Head(backlog)

\* The Deployment becomes d; the cache follows later.
Becomes(d) ==
    /\ dep' = d
    /\ backlog' = IF d = dep \/ setup.lag = 0 THEN backlog
                  ELSE IF Len(backlog) < setup.lag THEN Append(backlog, dep)
                  ELSE Append(Tail(backlog), dep)

\* A merge patch of the difference between seen and want: what was seen as
\* wanted is not in the patch, and keeps the value that base has.
Merged(base, had, want) ==
    [replicas |-> IF had.replicas = want.replicas THEN base.replicas ELSE want.replicas,
     heldBy   |-> IF had.heldBy = want.heldBy THEN base.heldBy ELSE want.heldBy]

HeldBy(d, s) == d # NoTarget /\ d.heldBy # NoOne /\ d.heldBy[1] = s

Foreign(d, s) == d # NoTarget /\ d.heldBy # NoOne /\ d.heldBy[1] # s

\* Another scenario counts as a holder while it has a run or a token.
Live(s) == run[s] # None \/ token[s] # None

\* Variant: any foreign annotation is respected, whatever became of its owner.
RefusedForever(d, s) == Foreign(d, s)

\* The hold check of Ensure: a stale annotation is taken over.
Refused(d, s) == Foreign(d, s) /\ Live(d.heldBy[1])

Injected(s) == [replicas |-> Target[s], heldBy |-> <<s, run[s]>>]

Restored(s) == [replicas |-> token[s], heldBy |-> NoOne]

Fault == faults < setup.faults /\ faults' = faults + 1

GoesOn(s, next, d) ==
    /\ pc' = [pc EXCEPT ![s] = next]
    /\ seen' = [seen EXCEPT ![s] = d]

Activating(s) == wanted[s] /\ run[s] # None

Reverting(s) == token[s] # None /\ ~Activating(s)

-----------------------------------------------------------------------------
(* A pass of scenario s.                                                   *)

StartRun(s) ==
    /\ pc[s] = "idle" /\ wanted[s] /\ ~Live(s)
    /\ runs' = runs + 1
    /\ run' = [run EXCEPT ![s] = runs + 1]
    /\ UNCHANGED <<setup, dep, backlog, wanted, token, pc, seen, abandoned, ops, faults>>

\* Variant: Plan does not look whether the Deployment exists.
PlanUnchecked(s) ==
    /\ pc[s] = "idle" /\ Activating(s) /\ token[s] = None
    /\ GoesOn(s, "persist", Cached)
    /\ UNCHANGED <<dep, backlog, status, ops, faults>>

\* Variant: each activation pass plans anew.
PlanAgain(s) ==
    /\ pc[s] = "idle" /\ Activating(s)
    /\ Cached # NoTarget
    /\ GoesOn(s, "persist", Cached)
    /\ UNCHANGED <<dep, backlog, status, ops, faults>>

\* Plan reads the count that will be restored; it does not look at held-by.
Plan(s) ==
    /\ pc[s] = "idle" /\ Activating(s) /\ token[s] = None
    /\ Cached # NoTarget
    /\ GoesOn(s, "persist", Cached)
    /\ UNCHANGED <<dep, backlog, status, ops, faults>>

PersistToken(s) ==
    /\ pc[s] = "persist"
    /\ token' = [token EXCEPT ![s] = seen[s].replicas]
    /\ GoesOn(s, "ensure", NoTarget)
    /\ UNCHANGED <<setup, dep, backlog, wanted, run, abandoned, runs, ops, faults>>

\* Ensure is called after the token was persisted, and again by every later pass.
Ensuring(s) == pc[s] = "ensure" \/ (pc[s] = "idle" /\ Activating(s) /\ token[s] # None)

EnsureRead(s) ==
    /\ Ensuring(s) /\ Cached # NoTarget /\ ~Refused(Cached, s)
    /\ IF Cached = Injected(s) THEN GoesOn(s, "idle", NoTarget)
                               ELSE GoesOn(s, "ensurePatch", Cached)
    /\ UNCHANGED <<dep, backlog, status, ops, faults>>

\* Held by a live scenario, or no such Deployment: an error, retried later.
EnsureRefused(s) ==
    /\ Ensuring(s) /\ (Cached = NoTarget \/ Refused(Cached, s))
    /\ GoesOn(s, "idle", NoTarget)
    /\ UNCHANGED <<dep, backlog, status, ops, faults>>

EnsurePatch(s) ==
    /\ pc[s] = "ensurePatch"
    /\ Becomes(IF dep = NoTarget THEN dep ELSE Merged(dep, seen[s], Injected(s)))
    /\ GoesOn(s, "idle", NoTarget)
    /\ UNCHANGED <<status, ops, faults>>

\* Variant: what looks as if this scenario had never been applied is left alone,
\* whether or not it carries the scenario's annotation.
RevertReadCountOnly(s) ==
    /\ pc[s] = "idle" /\ Reverting(s)
    /\ IF Cached = NoTarget \/ Foreign(Cached, s) \/ Cached.replicas = token[s]
         THEN GoesOn(s, "drop", NoTarget)
         ELSE GoesOn(s, "revertPatch", Cached)
    /\ UNCHANGED <<dep, backlog, status, ops, faults>>

\* Nothing to restore when the target vanished, is held by another scenario, or
\* is already normal.
RevertRead(s) ==
    /\ pc[s] = "idle" /\ Reverting(s)
    /\ IF Cached = NoTarget \/ Foreign(Cached, s) \/ Cached = Restored(s)
         THEN GoesOn(s, "drop", NoTarget)
         ELSE GoesOn(s, "revertPatch", Cached)
    /\ UNCHANGED <<dep, backlog, status, ops, faults>>

\* The patch of a Deployment that has vanished fails; the next pass reads again.
RevertPatch(s) ==
    /\ pc[s] = "revertPatch"
    /\ Becomes(IF dep = NoTarget THEN dep ELSE Merged(dep, seen[s], Restored(s)))
    /\ GoesOn(s, IF dep = NoTarget THEN "idle" ELSE "drop", NoTarget)
    /\ UNCHANGED <<status, ops, faults>>

DropToken(s) ==
    /\ pc[s] = "drop"
    /\ token' = [token EXCEPT ![s] = None]
    /\ GoesOn(s, "idle", NoTarget)
    /\ UNCHANGED <<setup, dep, backlog, wanted, run, abandoned, runs, ops, faults>>

FinishRun(s) ==
    /\ pc[s] = "idle" /\ run[s] # None /\ ~wanted[s] /\ token[s] = None
    /\ run' = [run EXCEPT ![s] = None]
    /\ UNCHANGED <<setup, dep, backlog, wanted, token, pc, seen, abandoned, runs, ops, faults>>

Pass(s) ==
    \/ StartRun(s) \/ Plan(s) \/ PersistToken(s)
    \/ EnsureRead(s) \/ EnsureRefused(s) \/ EnsurePatch(s)
    \/ RevertRead(s) \/ RevertPatch(s) \/ DropToken(s) \/ FinishRun(s)

-----------------------------------------------------------------------------
(* Users, faults, and what else changes the Deployment.                    *)

UserSets(s, value) ==
    /\ wanted[s] # value /\ ops < setup.ops
    /\ ops' = ops + 1
    /\ wanted' = [wanted EXCEPT ![s] = value]
    /\ UNCHANGED <<setup, dep, backlog, run, token, pc, seen, abandoned, runs, faults>>

SwitchOn(s) ==
    /\ setup.overlapping \/ \A o \in Scenario \ {s} : ~wanted[o] /\ ~Live(o)
    /\ UserSets(s, TRUE)

\* By a user, or by the operator when the run has expired.
SwitchOff(s) == UserSets(s, FALSE)

\* A forced release, where the Role lets the operator watch the ConfigMap
\* (MaintenanceController, LeakTokens), or the finalizer stripped by hand: the
\* object goes with its token, and a user may create it again.
ForceRelease(s) ==
    /\ pc[s] = "idle" /\ token[s] # None /\ ops < setup.ops
    /\ ops' = ops + 1
    /\ abandoned' = abandoned \cup {s}
    /\ token' = [token EXCEPT ![s] = None]
    /\ run' = [run EXCEPT ![s] = None]
    /\ wanted' = [wanted EXCEPT ![s] = FALSE]
    /\ UNCHANGED <<setup, dep, backlog, pc, seen, runs, faults>>

\* The operator dies, or a call fails, in the middle of a pass.
Abandon(s) ==
    /\ pc[s] # "idle" /\ Fault
    /\ GoesOn(s, "idle", NoTarget)
    /\ UNCHANGED <<dep, backlog, status, ops>>

\* scripts/deploy.sh applies the manifest again: its count, any annotation.
Redeploy ==
    /\ Fault
    /\ Becomes([replicas |-> Normal, heldBy |-> IF dep = NoTarget THEN NoOne ELSE dep.heldBy])
    /\ UNCHANGED <<status, pc, seen, ops>>

Undeploy ==
    /\ dep # NoTarget /\ Fault
    /\ Becomes(NoTarget)
    /\ UNCHANGED <<status, pc, seen, ops>>

Deliver ==
    /\ backlog # <<>>
    /\ backlog' = Tail(backlog)
    /\ UNCHANGED <<dep, status, pc, seen, ops, faults>>

Init ==
    /\ setup \in Setups
    /\ dep = [replicas |-> Normal, heldBy |-> NoOne] /\ backlog = <<>>
    /\ wanted = [s \in Scenario |-> FALSE]
    /\ run = [s \in Scenario |-> None] /\ token = [s \in Scenario |-> None]
    /\ pc = [s \in Scenario |-> "idle"] /\ seen = [s \in Scenario |-> NoTarget]
    /\ abandoned = {} /\ runs = 0 /\ ops = 0 /\ faults = 0

Next ==
    \/ \E s \in Scenario :
           Pass(s) \/ SwitchOn(s) \/ SwitchOff(s) \/ ForceRelease(s) \/ Abandon(s)
    \/ Redeploy \/ Undeploy \/ Deliver

Spec == Init /\ [][Next]_vars

\* Four workers retry every scenario; the watch of the Deployments goes on.
FairSpec == Spec /\ (\A s \in Scenario : WF_vars(Pass(s))) /\ WF_vars(Deliver)

-----------------------------------------------------------------------------
(* Properties.                                                             *)

PassStep == {"idle", "persist", "ensure", "ensurePatch", "revertPatch", "drop"}

\* Type invariant; a pass that is about to patch or to persist has read the target.
ScaleTypeOK ==
    /\ setup \in Setups
    /\ dep \in Deployment \cup {NoTarget}
    /\ backlog \in Seq(Deployment \cup {NoTarget}) /\ Len(backlog) <= setup.lag
    /\ wanted \in [Scenario -> BOOLEAN]
    /\ run \in [Scenario -> Nat \cup {None}] /\ token \in [Scenario -> Nat \cup {None}]
    /\ pc \in [Scenario -> PassStep] /\ seen \in [Scenario -> Deployment \cup {NoTarget}]
    /\ \A s \in Scenario : pc[s] \in {"persist", "ensurePatch", "revertPatch"} <=> seen[s] # NoTarget
    /\ abandoned \subseteq Scenario /\ runs \in Nat
    /\ ops \in 0..setup.ops /\ faults \in 0..setup.faults

\* The held-by lock is never left behind: its owner still has the token from
\* which Revert will remove it, unless that token was leaked on request; provided
\* that passes read the Deployment as it is.
LockHasToken ==
    setup.lag = 0 => \A s \in Scenario : HeldBy(dep, s) => token[s] # None \/ s \in abandoned

Quiet == \A s \in Scenario : ~wanted[s] /\ ~Live(s) /\ pc[s] = "idle"

\* The Deployment has the count of its manifest, and no lock.
AsDeployed == dep = [replicas |-> Normal, heldBy |-> NoOne]

\* Once no scenario is wanted or live the Deployment is as it was before the first
\* of them (Revert restores from the token alone), if they come one after the other
\* and passes read the Deployment as it is.
QuietIsNormal ==
    Quiet /\ abandoned = {} /\ dep # NoTarget /\ setup.lag = 0 /\ ~setup.overlapping => AsDeployed

\* The same of scenarios that overlap: the lock keeps two of them from fighting over
\* one target (docs/operator.md:33).
LockKeepsApart ==
    Quiet /\ abandoned = {} /\ dep # NoTarget /\ setup.lag = 0 => AsDeployed

OnlyWanted(s) == wanted[s] /\ \A o \in Scenario \ {s} : ~wanted[o]

\* A scenario that had to wait for the target gets it once every other one is
\* switched off, also when the owner of the lock was released by force.
WaiterGetsTarget ==
    \A s \in Scenario :
        OnlyWanted(s) ~> (HeldBy(dep, s) /\ dep.replicas = Target[s])
                            \/ dep = NoTarget \/ ~OnlyWanted(s)
=============================================================================
