----------------------------- MODULE ActionTargets -----------------------------
(***************************************************************************)
(* The actions that change a Deployment's image, create an object, or run  *)
(* SQL in Jobs, with the startup sweeper (src/operator/internal/controller *)
(* /sweeper.go) at work beside them.                                       *)
(***************************************************************************)
EXTENDS DeployImageAction, OwnedObject, ExecJobs

VARIABLE
    sweep       \* labelled objects the sweeper has listed, and what it decided

vars == <<runVars, depVars, objectVars, jobVars, sweep>>

Item == [kind : {"Deployment", "Object"}, owner : Scenario, doomed : BOOLEAN]
        \cup [kind : {"ExecJob"}, owner : Scenario, name : Name, doomed : BOOLEAN]

-----------------------------------------------------------------------------

\* Variant: Deployments are listed whether or not they have the label.
LabelledOrNot ==
    [kind : {"Deployment"}, owner : {dep.heldBy : d \in {dep} \ {NoTarget}}, doomed : {FALSE}]

\* Start lists the labelled Jobs and Deployments; Chaos Mesh objects are not Jobs.
Labelled ==
    [kind : {"Deployment"}, owner : {s \in Scenario : dep # NoTarget /\ dep.heldBy = s}, doomed : {FALSE}]
    \cup [kind : {"Object"}, doomed : {FALSE},
          owner : {s \in Scenario : object # NoObject /\ object.owner = s /\ Type(s) = "Workload"}]
    \cup [kind : {"ExecJob"}, owner : {s \in Scenario : Type(s) = "DBExec"},
          name : {n \in Name : jobs[n] # "none"}, doomed : {FALSE}]

Restart ==
    /\ Fault
    /\ sweep' = Labelled
    /\ UNCHANGED <<status, ops, depVars, objectVars, jobVars>>

\* The owner is looked up: gone, or idle without a token, dooms the object.
SweepLookup(i) ==
    /\ ~i.doomed
    /\ sweep' = IF Live(i.owner) THEN sweep \ {i} ELSE (sweep \ {i}) \cup {[i EXCEPT !.doomed = TRUE]}
    /\ UNCHANGED <<runVars, depVars, objectVars, jobVars>>

\* It is deleted by name, whatever it has become; but no Deployment is, as the Role
\* (rbac.yaml) does not let the operator delete any, and the refusal is only logged.
SweepDelete(i) ==
    /\ i.doomed
    /\ sweep' = sweep \ {i}
    /\ IF i.kind = "Object" /\ object # NoObject THEN Writes(None, [object EXCEPT !.deleting = TRUE])
                                                 ELSE UNCHANGED objectVars
    /\ IF i.kind = "ExecJob" THEN JobWrites(None, i.name, "none") ELSE UNCHANGED <<jobs, jobsView>>
    /\ UNCHANGED <<runVars, depVars, injected, ensured, mixed>>

\* The Jobs of a MaintenanceJob that was deleted are collected.
CollectJobs(s) ==
    /\ Type(s) = "DBExec"
    /\ \E n \in Name : n[1] <= uid[s] /\ jobs[n] # "none" /\ JobWrites(None, n, "none")
    /\ UNCHANGED <<runVars, depVars, objectVars, injected, ensured, mixed, sweep>>

-----------------------------------------------------------------------------

Init == RunsInit /\ DepInit /\ ObjectInit /\ JobsInit /\ sweep = {}

Pass(s) ==
    /\ \/ StartRun(s) /\ UNCHANGED <<depVars, objectVars, jobVars>>
       \/ FinishRun(s) /\ UNCHANGED <<depVars, objectVars, jobVars>>
       \/ DepPass(s) /\ UNCHANGED <<objectVars, jobVars>>
       \/ ObjectPass(s) /\ UNCHANGED <<depVars, jobVars>>
       \/ ExecPass(s) /\ UNCHANGED <<depVars, objectVars>>
    /\ UNCHANGED sweep

Seen(s) ==
    /\ \/ DepSeen(s) /\ Type(s) = "DeployImage" /\ UNCHANGED <<objectVars, jobVars>>
       \/ ObjectSeen(s) /\ Type(s) \in Owned /\ UNCHANGED <<depVars, jobVars>>
       \/ JobsSeen(s) /\ Type(s) = "DBExec" /\ UNCHANGED <<depVars, objectVars>>
    /\ UNCHANGED sweep

\* What the cluster does with objects and Jobs.
Cluster ==
    /\ \/ (Gone \/ DeadManSwitch \/ Collect) /\ UNCHANGED jobVars
       \/ (\E n \in Name : JobSucceeds(n) \/ JobFails(n) \/ JobExpires(n)) /\ UNCHANGED objectVars
    /\ UNCHANGED <<depVars, sweep>>

Sweeps == \E i \in sweep : SweepLookup(i) \/ SweepDelete(i)

Next ==
    \/ \E s \in Scenario : Pass(s) \/ Seen(s) \/ CollectJobs(s)
    \/ \E s \in Scenario : (Switch(s) \/ ForceRelease(s)) /\ UNCHANGED <<depVars, objectVars, jobVars, sweep>>
    \/ Cluster \/ Restart \/ Sweeps
    \/ /\ (\E i \in Release : RealDeploy(i)) \/ Undeploy
       /\ \E s \in Scenario : Type(s) = "DeployImage"
       /\ UNCHANGED <<objectVars, jobVars, sweep>>

Spec == Init /\ [][Next]_vars

\* Every scenario is reconciled again and again, the watches go on, and the
\* cluster finishes what it has begun.
FairSpec ==
    /\ Spec
    /\ \A s \in Scenario : WF_vars(Pass(s)) /\ WF_vars(Seen(s))
    /\ WF_vars(Gone /\ UNCHANGED <<depVars, jobVars, sweep>>)
    /\ \A n \in Name : WF_vars(JobSucceeds(n) /\ UNCHANGED <<depVars, objectVars, sweep>>)

-----------------------------------------------------------------------------

TargetsTypeOK ==
    /\ RunsTypeOK /\ DepTypeOK /\ ObjectTypeOK /\ JobsTypeOK
    /\ token \in [Scenario -> Image \cup {Named} \cup 1..MaxRuns \cup {None}]
    /\ sweep \subseteq Item

\* Without a token nothing of a scenario is left on the Deployment: not its
\* image, not its annotations, unless the token was given up on request.
QuietIsGood ==
    dep # NoTarget => \A s \in Scenario :
        token[s] = None /\ ~Released(s) => dep.image # Bad[s] /\ dep.heldBy # s

\* A scenario that is switched off gets rid of its token, whatever type its
\* action has and whatever it finds.
SwitchedOffReverts == \A s \in Scenario : ~wanted[s] ~> token[s] = None \/ wanted[s]

=============================================================================
