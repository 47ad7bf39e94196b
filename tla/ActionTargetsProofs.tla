-------------------------- MODULE ActionTargetsProofs --------------------------
(***************************************************************************)
(* What the actions DeployImage, Workload, ChaosMesh and DBExec do to      *)
(* their targets, beside the startup sweeper and the cluster: for every    *)
(* number of scenarios, runs, requests and faults.                         *)
(***************************************************************************)
EXTENDS ActionTargets, TLAPS

-----------------------------------------------------------------------------
(* The moves of the system.                                                *)

RunsMove == \E s \in Scenario : StartRun(s) \/ FinishRun(s) \/ Switch(s) \/ ForceRelease(s)

DepMove ==
    \/ \E s \in Scenario : DepPass(s) \/ DepSeen(s)
    \/ \E i \in Release : RealDeploy(i)
    \/ Undeploy

ObjectMove ==
    \/ \E s \in Scenario : ObjectPass(s) \/ ObjectSeen(s)
    \/ Gone \/ DeadManSwitch \/ Collect

JobsMove ==
    \/ \E s \in Scenario : ExecPass(s) \/ JobsSeen(s) \/ CollectJobs(s)
    \/ \E n \in Name : JobSucceeds(n) \/ JobFails(n) \/ JobExpires(n)

LEMMA Moves ==
    ASSUME [Next]_vars
    PROVE  \/ UNCHANGED vars
           \/ RunsMove /\ UNCHANGED <<depVars, objectVars, jobVars, sweep>>
           \/ DepMove /\ UNCHANGED <<objectVars, jobVars, sweep>>
           \/ ObjectMove /\ UNCHANGED <<depVars, jobVars, sweep>>
           \/ JobsMove /\ UNCHANGED <<depVars, objectVars, sweep>>
           \/ Restart \/ Sweeps
  BY DEF Next, Pass, Seen, Cluster, RunsMove, DepMove, ObjectMove, JobsMove, CollectJobs

-----------------------------------------------------------------------------
(* Type correctness: a token is of the kind its action persists, and a run  *)
(* was started before there is a run or a token.                            *)

TokenFor(t) ==
    IF t = "DeployImage" THEN Image
    ELSE IF t \in Owned THEN {Named}
    ELSE IF t = "DBExec" THEN 1..MaxRuns ELSE {}

RunsInv ==
    /\ RunsTypeOK
    /\ token \in [Scenario -> Image \cup {Named} \cup 1..MaxRuns \cup {None}]
    /\ \A s \in Scenario : token[s] # None => token[s] \in TokenFor(Type(s)) /\ runs > 0
    /\ \A s \in Scenario : run[s] # None => runs > 0

TypeInv == RunsInv /\ DepTypeOK /\ ObjectTypeOK /\ JobsTypeOK /\ sweep \subseteq Item

LEMMA ViewedType ==
    ASSUME NEW S, NEW view \in [Scenario -> S], NEW s, NEW x \in S
    PROVE  Viewed(view, s, x) \in [Scenario -> S]
  BY DEF Viewed

LEMMA MergedFields ==
    ASSUME NEW base \in Deployment, NEW had, NEW want \in Deployment
    PROVE  LET m == Merged(base, had, want)
           IN  /\ m \in Deployment
               /\ m.image = IF had.image = want.image THEN base.image ELSE want.image
               /\ m.good = IF had.good = want.good THEN base.good ELSE want.good
               /\ m.heldBy = IF had.heldBy = want.heldBy THEN base.heldBy ELSE want.heldBy
  BY DEF Merged, Deployment

LEMMA GoodImageType ==
    ASSUME TypeInv, NEW s \in Scenario, depView[s] # NoTarget
    PROVE  GoodImage(s) \in Image
  <1>1. depView[s] \in Deployment /\ KnownGood[s] \in Release \cup {None}
    BY ImageAssumption DEF TypeInv, DepTypeOK
  <1> QED BY <1>1 DEF GoodImage, Image, Deployment

LEMMA PersistsType ==
    ASSUME RunsInv, NEW s \in Scenario, NEW t, Persists(s, t),
           t # None => t \in TokenFor(Type(s)) /\ runs > 0
    PROVE  RunsInv'
  <1>1. t \in Image \cup {Named} \cup 1..MaxRuns \cup {None}
    BY DEF TokenFor
  <1>2. RunsTypeOK' /\ runs' = runs /\ run' = run /\ setup' = setup
    BY DEF RunsInv, RunsTypeOK, Persists, bounds
  <1>3. token' = [token EXCEPT ![s] = t]
    BY DEF Persists
  <1> QED BY <1>1, <1>2, <1>3 DEF RunsInv, Type

LEMMA RunsKept ==
    ASSUME RunsInv, UNCHANGED status, UNCHANGED ops, UNCHANGED faults \/ Fault
    PROVE  RunsInv'
  <1>0. setup' = setup /\ setup.maxFaults \in Nat
    BY RunsAssumption DEF RunsInv, RunsTypeOK, status
  <1>1. faults' \in 0..setup'.maxFaults
    BY <1>0 DEF RunsInv, RunsTypeOK, Fault
  <1> QED BY <1>1 DEF RunsInv, RunsTypeOK, status, Type

LEMMA RunsMoveType ==
    ASSUME RunsInv, RunsMove
    PROVE  RunsInv'
  <1> USE RunsAssumption
  <1>1. PICK s \in Scenario : StartRun(s) \/ FinishRun(s) \/ Switch(s) \/ ForceRelease(s)
    BY DEF RunsMove
  <1>2. CASE StartRun(s)
    <2>1. runs + 1 \in 1..MaxRuns /\ runs \in Nat
      BY <1>2 DEF StartRun, RunsInv, RunsTypeOK
    <2> QED BY <1>2, <2>1 DEF StartRun, RunsInv, RunsTypeOK, bounds, Type
  <1>3. CASE FinishRun(s)
    BY <1>3 DEF FinishRun, RunsInv, RunsTypeOK, bounds, Type
  <1>4. CASE Switch(s)
    <2>1. ops + 1 \in 0..MaxUserOps
      BY <1>4 DEF Switch, RunsInv, RunsTypeOK
    <2> QED BY <1>4, <2>1 DEF Switch, RunsInv, RunsTypeOK, Type
  <1>5. CASE ForceRelease(s)
    <2>1. ops + 1 \in 0..MaxUserOps
      BY <1>5 DEF ForceRelease, RunsInv, RunsTypeOK
    <2> QED BY <1>5, <2>1 DEF ForceRelease, RunsInv, RunsTypeOK, Type
  <1> QED BY <1>1, <1>2, <1>3, <1>4, <1>5

\* What a pass of an action makes of the runs and the tokens: a plan persists a
\* token of its kind, a revert that is done drops it.
Persisted(s) ==
    /\ Activating(s) /\ token[s] = None
    /\ \E t \in TokenFor(Type(s)) :
           /\ Persists(s, t)
           /\ Type(s) = "DBExec" => t = run[s]
           /\ Type(s) = "DeployImage" => t = GoodImage(s) /\ t # Bad[s] /\ depView[s] # NoTarget

Dropped(s) ==
    /\ Drops(s)
    /\ Type(s) = "DeployImage" => DeployRevert(s)
    /\ Type(s) \in Owned => ~Ours(s)
    /\ Type(s) = "DBExec" => jobsView[s][<<token[s], "revert">>] = "succeeded"

LEMMA PassRuns ==
    ASSUME TypeInv, NEW s \in Scenario, DepPass(s) \/ ObjectPass(s) \/ ExecPass(s)
    PROVE  UNCHANGED runVars \/ Persisted(s) \/ Dropped(s)
  <1>1. CASE DepPass(s)
    <2>1. CASE DeployPlan(s)
      BY <2>1, GoodImageType DEF DeployPlan, Plans, Persisted, TokenFor
    <2> QED BY <1>1, <2>1 DEF DepPass, DeployEnsure, DeployRevert, Reverts, Dropped, Owned
  <1>2. CASE ObjectPass(s)
    BY <1>2 DEF ObjectPass, ObjectPlan, ObjectEnsure, ObjectRevert, Plans, Reverts, Persisted,
                Dropped, TokenFor, Owned
  <1>3. CASE ExecPass(s)
    <2>1. CASE ExecPlan(s)
      <3>1. run[s] \in 1..MaxRuns
        BY <2>1 DEF ExecPlan, Plans, Activating, TypeInv, RunsInv, RunsTypeOK
      <3> QED BY <2>1, <3>1 DEF ExecPlan, Plans, Persisted, TokenFor, Owned
    <2> QED BY <1>3, <2>1 DEF ExecPass, ExecEnsure, ExecRevert, JobName, Reverts, Dropped, Owned
  <1> QED BY <1>1, <1>2, <1>3

\* Beside the passes, only users and the start and the end of a run touch them.
LEMMA StatusSteps ==
    ASSUME TypeInv, [Next]_vars
    PROVE  \/ RunsMove
           \/ \E s \in Scenario : Persisted(s) \/ Dropped(s)
           \/ UNCHANGED <<status, ops>> /\ (UNCHANGED faults \/ Fault)
  <1>1. CASE RunsMove \/ UNCHANGED vars
    BY <1>1 DEF vars, runVars, bounds
  <1>2. CASE \E s \in Scenario : DepPass(s) \/ ObjectPass(s) \/ ExecPass(s)
    BY <1>2, PassRuns DEF runVars, bounds
  <1>3. CASE \E s \in Scenario : DepSeen(s) \/ ObjectSeen(s) \/ JobsSeen(s) \/ CollectJobs(s)
    BY <1>3 DEF DepSeen, ObjectSeen, JobsSeen, CollectJobs, runVars, bounds
  <1>4. CASE (\E i \in Release : RealDeploy(i)) \/ Undeploy \/ Gone \/ DeadManSwitch \/ Collect \/ Restart
    BY <1>4 DEF RealDeploy, Undeploy, Gone, DeadManSwitch, Collect, Restart, runVars, bounds
  <1>5. CASE \E n \in Name : JobSucceeds(n) \/ JobFails(n) \/ JobExpires(n)
    BY <1>5 DEF JobSucceeds, JobFails, JobExpires, runVars, bounds
  <1>6. CASE Sweeps
    BY <1>6 DEF Sweeps, SweepLookup, SweepDelete, runVars, bounds
  <1> QED BY <1>1, <1>2, <1>3, <1>4, <1>5, <1>6, Moves DEF DepMove, ObjectMove, JobsMove

LEMMA SetupKept == TypeInv /\ [Next]_vars => setup' = setup /\ \A s \in Scenario : Type(s)' = Type(s)
  <1>1. TypeInv /\ [Next]_vars => setup' = setup
    BY StatusSteps DEF RunsMove, StartRun, FinishRun, Switch, ForceRelease, Persisted, Dropped, Drops,
           Persists, status
  <1> QED BY <1>1 DEF Type

LEMMA RunsNext == TypeInv /\ [Next]_vars => RunsInv'
  <1> SUFFICES ASSUME TypeInv, [Next]_vars PROVE RunsInv'
    OBVIOUS
  <1>0. RunsInv
    BY DEF TypeInv
  <1>1. CASE RunsMove
    BY <1>0, <1>1, RunsMoveType
  <1>2. ASSUME NEW s \in Scenario, Persisted(s) PROVE RunsInv'
    <2>1. PICK t \in TokenFor(Type(s)) : Persists(s, t)
      BY <1>2 DEF Persisted
    <2>2. runs > 0
      BY <1>2 DEF Persisted, Activating, TypeInv, RunsInv
    <2> QED BY <1>0, <2>1, <2>2, PersistsType
  <1>3. ASSUME NEW s \in Scenario, Dropped(s) PROVE RunsInv'
    BY <1>0, <1>3, PersistsType DEF Dropped, Drops
  <1>4. CASE UNCHANGED <<status, ops>> /\ (UNCHANGED faults \/ Fault)
    BY <1>0, <1>4, RunsKept
  <1> QED BY <1>1, <1>2, <1>3, <1>4, StatusSteps

LEMMA DepPatchType ==
    ASSUME TypeInv, NEW s \in Scenario, NEW want \in Deployment, DepPatch(s, want)
    PROVE  DepTypeOK'
  <1>1. dep' \in Deployment
    BY MergedFields DEF DepPatch, TypeInv, DepTypeOK
  <1> QED BY <1>1, ViewedType DEF DepPatch, TypeInv, DepTypeOK

\* What DeployImage wants of the Deployment.
LEMMA WantedType ==
    ASSUME TypeInv, NEW s \in Scenario, Type(s) = "DeployImage", token[s] # None
    PROVE  /\ Deployed(s) \in Deployment
           /\ depView[s] # NoTarget => RolledBack(s) \in Deployment
  <1>1. token[s] \in Image /\ Bad[s] \in Image
    BY DEF TypeInv, RunsInv, TokenFor, Image, BadImages
  <1>2. depView[s] # NoTarget => depView[s] \in Deployment
    BY DEF TypeInv, DepTypeOK
  <1> QED BY <1>1, <1>2 DEF Deployed, RolledBack, Deployment

LEMMA DepNext == TypeInv /\ [Next]_vars => DepTypeOK'
  <1> SUFFICES ASSUME TypeInv, [Next]_vars PROVE DepTypeOK'
    OBVIOUS
  <1>0. DepTypeOK
    BY DEF TypeInv
  <1>1. CASE UNCHANGED depVars
    BY <1>0, <1>1 DEF DepTypeOK, depVars
  <1>2. ASSUME NEW s \in Scenario, DepPass(s) \/ DepSeen(s) PROVE DepTypeOK'
    <2>1. CASE DeployEnsure(s)
      BY <2>1, DepPatchType, WantedType DEF DeployEnsure, Ensures
    <2>2. CASE DeployRevert(s)
      <3>1. CASE NothingToRollBack(s)
        BY <1>1, <2>2, <3>1 DEF DeployRevert
      <3>2. CASE ~NothingToRollBack(s)
        BY <2>2, <3>2, DepPatchType, WantedType
           DEF DeployRevert, Reverts, Reverting, NothingToRollBack
      <3> QED BY <3>1, <3>2
    <2>3. CASE DepSeen(s)
      BY <1>0, <2>3 DEF DepSeen, DepTypeOK
    <2> QED BY <1>1, <1>2, <2>1, <2>2, <2>3 DEF DepPass, DeployPlan
  <1>3. ASSUME NEW i \in Release, RealDeploy(i) PROVE DepTypeOK'
    <2>1. dep' \in Deployment
      BY <1>0, <1>3 DEF RealDeploy, DepTypeOK, Deployment, Image
    <2> QED BY <1>0, <1>3, <2>1, ViewedType DEF RealDeploy, DepTypeOK
  <1>4. CASE Undeploy
    BY <1>0, <1>4, ViewedType DEF Undeploy, DepTypeOK
  <1>5. ASSUME NEW i \in sweep, SweepLookup(i) \/ SweepDelete(i) PROVE DepTypeOK'
    BY <1>1, <1>5 DEF SweepLookup, SweepDelete
  <1> QED BY <1>1, <1>2, <1>3, <1>4, <1>5, Moves DEF vars, DepMove, Restart, Sweeps

LEMMA WritesType ==
    ASSUME TypeInv, NEW s, NEW o \in Object \cup {NoObject}, Writes(s, o)
    PROVE  ObjectTypeOK'
  BY ViewedType DEF TypeInv, ObjectTypeOK, Writes

LEMMA ObjectNext == TypeInv /\ [Next]_vars => ObjectTypeOK'
  <1> SUFFICES ASSUME TypeInv, [Next]_vars PROVE ObjectTypeOK'
    OBVIOUS
  <1>0. /\ ObjectTypeOK
        /\ object # NoObject => /\ [object EXCEPT !.deleting = TRUE] \in Object
                                /\ [object EXCEPT !.injects = FALSE] \in Object
    BY DEF TypeInv, ObjectTypeOK, Object
  <1>1. CASE UNCHANGED objectVars
    BY <1>0, <1>1 DEF ObjectTypeOK, objectVars
  <1>2. ASSUME NEW s \in Scenario, ObjectPass(s) \/ ObjectSeen(s) PROVE ObjectTypeOK'
    <2>1. CASE ObjectSeen(s)
      BY <1>0, <2>1 DEF ObjectSeen, ObjectTypeOK
    <2>2. ASSUME NEW t \in Owned, ObjectEnsure(s, t) PROVE ObjectTypeOK'
      <3>1. Built(s) \in Object
        BY DEF Built, Object, TypeInv, RunsInv, RunsTypeOK
      <3> QED BY <2>2, <3>1, WritesType DEF ObjectEnsure
    <2>3. ASSUME NEW t \in Owned, ObjectRevert(s, t) PROVE ObjectTypeOK'
      BY <1>0, <1>1, <2>3, WritesType DEF ObjectRevert
    <2> QED BY <1>1, <1>2, <2>1, <2>2, <2>3 DEF ObjectPass, ObjectPlan
  <1>3. CASE Gone \/ DeadManSwitch \/ Collect
    BY <1>0, <1>3, WritesType DEF Gone, DeadManSwitch, Collect
  <1>4. ASSUME NEW i \in sweep, SweepLookup(i) \/ SweepDelete(i) PROVE ObjectTypeOK'
    BY <1>0, <1>1, <1>4, WritesType DEF SweepLookup, SweepDelete
  <1> QED BY <1>1, <1>2, <1>3, <1>4, Moves DEF vars, ObjectMove, Restart, Sweeps

LEMMA JobWritesType ==
    ASSUME TypeInv, NEW s, NEW n \in Name, NEW state \in JobState, JobWrites(s, n, state)
    PROVE  jobs' \in [Name -> JobState] /\ jobsView' \in [Scenario -> [Name -> JobState]]
  <1>1. jobs' \in [Name -> JobState]
    BY DEF TypeInv, JobsTypeOK, JobWrites
  <1> QED BY <1>1, ViewedType DEF TypeInv, JobsTypeOK, JobWrites

\* The names of a run's Jobs follow from the token.
LEMMA JobNames ==
    ASSUME TypeInv, NEW s \in Scenario, Type(s) = "DBExec", token[s] # None
    PROVE  token[s] \in 1..MaxRuns /\ \A what \in {"ensure", "revert"} : <<token[s], what>> \in Name
  BY DEF TypeInv, RunsInv, TokenFor, Owned, Name

LEMMA JobsNext == TypeInv /\ [Next]_vars => JobsTypeOK'
  <1> SUFFICES ASSUME TypeInv, [Next]_vars PROVE JobsTypeOK'
    OBVIOUS
  <1>0. JobsTypeOK
    BY DEF TypeInv
  <1>1. CASE UNCHANGED jobVars
    BY <1>0, <1>1 DEF JobsTypeOK, jobVars
  <1>2. ASSUME NEW s \in Scenario, ExecPass(s) PROVE JobsTypeOK'
    <2>1. CASE ExecEnsure(s)
      <3>1. JobName(token[s], "ensure") \in Name
        BY <2>1, JobNames DEF ExecEnsure, Ensures, JobName
      <3>2. jobs' \in [Name -> JobState] /\ jobsView' \in [Scenario -> [Name -> JobState]]
        BY <2>1, <3>1, JobWritesType DEF ExecEnsure, RunJob, Creates, Deletes, JobState
      <3> QED BY <1>0, <2>1, <3>2 DEF ExecEnsure, JobsTypeOK
    <2>2. CASE ExecRevert(s)
      <3> DEFINE n == JobName(token[s], "revert")
      <3>1. n \in Name
        BY <2>2, JobNames DEF ExecRevert, Reverts, Reverting, JobName
      <3>2. CASE jobsView[s][n] = "succeeded"
        BY <1>1, <2>2, <3>2 DEF ExecRevert
      <3>3. CASE jobsView[s][n] # "succeeded"
        <4>1. RunJob(s, n) /\ UNCHANGED <<injected, ensured>> /\ mixed' \in {mixed, mixed \cup {"overlapped"}}
          BY <2>2, <3>3 DEF ExecRevert
        <4> HIDE DEF n
        <4>2. jobs' \in [Name -> JobState] /\ jobsView' \in [Scenario -> [Name -> JobState]]
          BY <3>1, <4>1, JobWritesType DEF RunJob, Creates, Deletes, JobState
        <4> QED BY <1>0, <4>1, <4>2 DEF JobsTypeOK
      <3> QED BY <3>2, <3>3
    <2> QED BY <1>1, <1>2, <2>1, <2>2 DEF ExecPass, ExecPlan
  <1>3. ASSUME NEW s \in Scenario, JobsSeen(s) \/ CollectJobs(s) PROVE JobsTypeOK'
    <2>1. jobs' \in [Name -> JobState] /\ jobsView' \in [Scenario -> [Name -> JobState]]
      BY <1>0, <1>3, JobWritesType DEF JobsSeen, CollectJobs, JobsTypeOK, JobState
    <2> QED BY <1>0, <1>3, <2>1 DEF JobsSeen, CollectJobs, JobsTypeOK
  <1>4. ASSUME NEW n \in Name, JobSucceeds(n) \/ JobFails(n) \/ JobExpires(n) PROVE JobsTypeOK'
    <2>1. jobs' \in [Name -> JobState] /\ jobsView' \in [Scenario -> [Name -> JobState]]
      BY <1>4, JobWritesType DEF JobSucceeds, JobFails, JobExpires, JobState
    <2>2. n[1] \in 1..MaxRuns
      BY DEF Name
    <2>3. injected' \in BOOLEAN /\ ensured' \subseteq 1..MaxRuns /\ mixed' = mixed
      BY <1>0, <1>4, <2>2 DEF JobSucceeds, JobFails, JobExpires, Effect, JobsTypeOK
    <2> QED BY <1>0, <2>1, <2>3 DEF JobsTypeOK
  <1>5. ASSUME NEW i \in sweep, SweepLookup(i) \/ SweepDelete(i) PROVE JobsTypeOK'
    <2>1. i.kind = "ExecJob" => i.name \in Name
      BY DEF TypeInv, Item
    <2>2. CASE SweepDelete(i) /\ i.kind = "ExecJob"
      <3>1. jobs' \in [Name -> JobState] /\ jobsView' \in [Scenario -> [Name -> JobState]]
        BY <2>1, <2>2, JobWritesType DEF SweepDelete, JobState
      <3> QED BY <1>0, <2>2, <3>1 DEF SweepDelete, JobsTypeOK
    <2> QED BY <1>1, <1>5, <2>2 DEF SweepLookup, SweepDelete, jobVars
  <1> QED BY <1>1, <1>2, <1>3, <1>4, <1>5, Moves DEF vars, JobsMove, Restart, Sweeps

LEMMA SweepNext == TypeInv /\ [Next]_vars => sweep' \subseteq Item
  <1> SUFFICES ASSUME TypeInv, [Next]_vars PROVE sweep' \subseteq Item
    OBVIOUS
  <1>0. sweep \subseteq Item
    BY DEF TypeInv
  <1>1. CASE Restart
    BY <1>1 DEF Restart, Labelled, Item
  <1>2. ASSUME NEW i \in sweep, SweepLookup(i) \/ SweepDelete(i) PROVE sweep' \subseteq Item
    <2>1. [i EXCEPT !.doomed = TRUE] \in Item
      BY <1>0 DEF Item
    <2> QED BY <1>0, <1>2, <2>1 DEF SweepLookup, SweepDelete
  <1> QED BY <1>0, <1>1, <1>2, Moves DEF vars, Sweeps

LEMMA InitType == Init => TypeInv
  <1> SUFFICES ASSUME Init PROVE TypeInv
    OBVIOUS
  <1>1. RunsInv
    BY RunsAssumption DEF Init, RunsInit, RunsInv, RunsTypeOK
  <1>2. DepTypeOK
    <2>1. PICK i \in Release : dep = [image |-> i, good |-> None, heldBy |-> None]
      BY DEF Init, DepInit
    <2>2. dep \in Deployment
      BY <2>1 DEF Deployment, Image
    <2> QED BY <2>2 DEF Init, DepInit, DepTypeOK
  <1>3. ObjectTypeOK /\ JobsTypeOK
    BY DEF Init, ObjectInit, ObjectTypeOK, JobsInit, JobsTypeOK, JobState
  <1> QED BY <1>1, <1>2, <1>3 DEF Init, TypeInv

LEMMA NextType == TypeInv /\ [Next]_vars => TypeInv'
  BY RunsNext, DepNext, ObjectNext, JobsNext, SweepNext DEF TypeInv

\* Every variable keeps its shape; in particular each action finds a token of the
\* kind its Plan has persisted (the Action interface, action.go).
THEOREM TargetsTyped == Spec => []TargetsTypeOK
  <1>1. TypeInv => TargetsTypeOK
    BY DEF TypeInv, RunsInv, TargetsTypeOK
  <1> QED BY <1>1, InitType, NextType, PTL DEF Spec

-----------------------------------------------------------------------------
(* DBExec: the Jobs of a run.                                              *)

\* A Job goes by its TTL, with its MaintenanceJob, or by the sweeper's hand.
Removed(n) == JobWrites(None, n, "none") /\ UNCHANGED <<injected, ensured, mixed>>

\* A pass creates a Job, or deletes one that failed.
Ran(s, n) ==
    /\ Type(s) = "DBExec" /\ token[s] # None
    /\ n \in Name /\ n[1] = token[s] /\ RunJob(s, n)
    /\ UNCHANGED <<injected, ensured>>
    /\ mixed \subseteq mixed'
    /\ mixed' = {} /\ n[2] = "ensure" => jobs[<<token[s], "revert">>] = "none"
    /\ mixed' = {} /\ n[2] = "revert" => ~Running("ensure")

LEMMA JobsSteps ==
    ASSUME TypeInv, [Next]_vars
    PROVE  \/ UNCHANGED jobVars
           \/ /\ UNCHANGED status
              /\ \/ \E s \in Scenario, n \in Name : Ran(s, n)
                 \/ \E s \in Scenario : JobsSeen(s)
                 \/ \E n \in Name : JobSucceeds(n) \/ JobFails(n) \/ Removed(n)
  <1>1. ASSUME NEW s \in Scenario, ExecPass(s)
        PROVE  UNCHANGED jobVars \/ (UNCHANGED status /\ \E n \in Name : Ran(s, n))
    <2>1. CASE ExecEnsure(s)
      <3> DEFINE n == <<token[s], "ensure">>
      <3>1. n \in Name /\ Type(s) = "DBExec" /\ token[s] # None
        BY <2>1, JobNames DEF ExecEnsure, Ensures
      <3>2. Ran(s, n) /\ UNCHANGED status
        BY <2>1, <3>1 DEF ExecEnsure, JobName, Ran, runVars
      <3> QED BY <3>1, <3>2
    <2>2. CASE ExecRevert(s)
      <3> DEFINE n == <<token[s], "revert">>
      <3>1. n \in Name /\ Type(s) = "DBExec" /\ token[s] # None
        BY <2>2, JobNames DEF ExecRevert, Reverts, Reverting
      <3>2. UNCHANGED jobVars \/ (Ran(s, n) /\ UNCHANGED status)
        BY <2>2, <3>1 DEF ExecRevert, JobName, Ran, runVars
      <3> QED BY <3>1, <3>2
    <2> QED BY <1>1, <2>1, <2>2 DEF ExecPass, ExecPlan
  <1>2. ASSUME NEW s \in Scenario, CollectJobs(s)
        PROVE  UNCHANGED status /\ \E n \in Name : Removed(n)
    BY <1>2 DEF CollectJobs, Removed, runVars
  <1>3. ASSUME NEW n \in Name, JobExpires(n) PROVE UNCHANGED status /\ Removed(n)
    BY <1>3 DEF JobExpires, Removed
  <1>4. ASSUME NEW s \in Scenario, JobsSeen(s) PROVE UNCHANGED status
    BY <1>4 DEF JobsSeen, runVars
  <1>5. ASSUME NEW n \in Name, JobSucceeds(n) \/ JobFails(n) PROVE UNCHANGED status
    BY <1>5 DEF JobSucceeds, JobFails, runVars
  <1>6. ASSUME NEW i \in sweep, SweepLookup(i) \/ SweepDelete(i)
        PROVE  UNCHANGED jobVars \/ (UNCHANGED status /\ \E n \in Name : Removed(n))
    <2>1. i.kind = "ExecJob" => i.name \in Name
      BY DEF TypeInv, Item
    <2> QED BY <1>6, <2>1 DEF SweepLookup, SweepDelete, Removed, jobVars, runVars
  <1> QED BY <1>1, <1>2, <1>3, <1>4, <1>5, <1>6, Moves DEF vars, JobsMove, Restart, Sweeps

\* A Job that has done its ensure statements is known to have.
RanInv ==
    /\ \A s \in Scenario :
           Type(s) = "DBExec" /\ token[s] # None /\ run[s] # None => token[s] = run[s]
    /\ \A r \in 1..MaxRuns : jobs[<<r, "ensure">>] = "succeeded" => r \in ensured
    /\ \A s \in Scenario, r \in 1..MaxRuns :
           jobsView[s][<<r, "ensure">>] = "succeeded" => r \in ensured

LEMMA OwnTokens ==
    ASSUME TypeInv, RanInv, [Next]_vars, NEW s \in Scenario,
           Type(s)' = "DBExec", token'[s] # None, run'[s] # None
    PROVE  token'[s] = run'[s]
  <1>0. RunsInv
    BY DEF TypeInv
  <1>1. CASE RunsMove
    BY <1>0, <1>1 DEF RunsMove, StartRun, FinishRun, Switch, ForceRelease, Live, RunsInv, RunsTypeOK,
           RanInv, Type
  <1>2. ASSUME NEW o \in Scenario, Persisted(o) PROVE token'[s] = run'[s]
    BY <1>0, <1>2 DEF Persisted, Persists, RunsInv, RanInv, Type
  <1>3. ASSUME NEW o \in Scenario, Dropped(o) PROVE token'[s] = run'[s]
    BY <1>0, <1>3 DEF Dropped, Drops, Persists, RunsInv, RanInv, Type
  <1>4. CASE UNCHANGED status
    BY <1>4 DEF status, RanInv, Type
  <1> QED BY <1>1, <1>2, <1>3, <1>4, StatusSteps

LEMMA RanNext == TypeInv /\ RanInv /\ [Next]_vars => RanInv'
  <1> SUFFICES ASSUME TypeInv, RanInv, [Next]_vars PROVE RanInv'
    OBVIOUS
  <1> DEFINE Known(js, e) == \A r \in 1..MaxRuns : js[<<r, "ensure">>] = "succeeded" => r \in e
  <1>0. JobsTypeOK /\ Known(jobs, ensured) /\ \A s \in Scenario : Known(jobsView[s], ensured)
    BY DEF TypeInv, RanInv
  <1>1. SUFFICES Known(jobs', ensured') /\ \A s \in Scenario : Known(jobsView'[s], ensured')
    BY OwnTokens DEF RanInv
  <1>2. ASSUME NEW s, NEW n \in Name, NEW state \in JobState, JobWrites(s, n, state),
               ensured \subseteq ensured',
               state = "succeeded" /\ n[2] = "ensure" => n[1] \in ensured'
        PROVE  Known(jobs', ensured') /\ \A o \in Scenario : Known(jobsView'[o], ensured')
    <2>1. \A m \in Name : jobs'[m] = IF m = n THEN state ELSE jobs[m]
      BY <1>0, <1>2 DEF JobWrites, JobsTypeOK
    <2>2. Known(jobs', ensured')
      BY <1>0, <1>2, <2>1 DEF Name
    <2>3. \A o \in Scenario : jobsView'[o] \in {jobsView[o], jobs'}
      BY <1>0, <1>2 DEF JobWrites, JobsTypeOK, Viewed
    <2> QED BY <1>0, <1>2, <2>2, <2>3
  <1>3. CASE UNCHANGED jobVars
    BY <1>0, <1>3 DEF jobVars
  <1>4. ASSUME NEW s \in Scenario, JobsSeen(s)
        PROVE  Known(jobs', ensured') /\ \A o \in Scenario : Known(jobsView'[o], ensured')
    BY <1>0, <1>4 DEF JobsSeen, JobsTypeOK
  <1>5. ASSUME NEW s \in Scenario, NEW n \in Name, Ran(s, n)
        PROVE  Known(jobs', ensured') /\ \A o \in Scenario : Known(jobsView'[o], ensured')
    BY <1>2, <1>5 DEF Ran, RunJob, Creates, Deletes, JobState
  <1>6. ASSUME NEW n \in Name, JobSucceeds(n) \/ JobFails(n) \/ Removed(n)
        PROVE  Known(jobs', ensured') /\ \A o \in Scenario : Known(jobsView'[o], ensured')
    BY <1>2, <1>6 DEF JobSucceeds, JobFails, Removed, Effect, JobState
  <1> HIDE DEF Known
  <1> QED BY <1>3, <1>4, <1>5, <1>6, JobsSteps

\* A pass that finds the ensure Job of its token succeeded reports on statements
\* that were executed in this very run, though the Jobs of past runs may still be
\* there and views may be of any age (execJobNames, runJob).
THEOREM OwnRunReported == Spec => []ReportsOwnRun
  <1>1. Init => RanInv
    BY DEF Init, RunsInit, JobsInit, RanInv, Name
  <1>2. TypeInv /\ RanInv => ReportsOwnRun
    <2> SUFFICES ASSUME TypeInv, RanInv, NEW s \in Scenario, Ensures(s, "DBExec"),
                        jobsView[s][JobName(token[s], "ensure")] = "succeeded"
                 PROVE  run[s] \in ensured
      BY DEF ReportsOwnRun
    <2>1. token[s] \in 1..MaxRuns /\ token[s] = run[s]
      BY JobNames DEF Ensures, Activating, RanInv
    <2> QED BY <2>1 DEF RanInv, JobName
  <1> QED BY <1>1, <1>2, RanNext, InitType, NextType, PTL DEF Spec

\* Somebody has yet to see the change of run r undone.
Owes(s, r) ==
    /\ Type(s) = "DBExec" /\ token[s] = r /\ token[s] # None
    /\ jobs[<<r, "revert">>] # "succeeded"
    /\ jobsView[s][<<r, "revert">>] # "succeeded"

GivenUp == \E s \in Scenario : Type(s) = "DBExec" /\ Released(s)

EnsuresAlone ==
    \A r \in 1..MaxRuns : jobs[<<r, "ensure">>] = "running"
        => jobs[<<r, "revert">>] = "none" /\ \E s \in Scenario : Owes(s, r)

ChangeOwed == injected => \E s \in Scenario, r \in 1..MaxRuns : Owes(s, r)

UndoneInv == setup.lag # "any" /\ mixed = {} => GivenUp \/ (EnsuresAlone /\ ChangeOwed)

LEMMA OwesStays ==
    ASSUME NEW s \in Scenario, NEW r, Owes(s, r), Type(s)' = Type(s), token'[s] = token[s],
           jobs'[<<r, "revert">>] # "succeeded", jobsView'[s] \in {jobsView[s], jobs'}
    PROVE  Owes(s, r)'
  BY DEF Owes

\* A token goes with the change undone, or is given up.
LEMMA UndoneTokens ==
    ASSUME TypeInv, UndoneInv, [Next]_vars, UNCHANGED jobVars
    PROVE  UndoneInv'
  <1>0. RunsInv /\ \A s \in Scenario : Type(s)' = Type(s)
    BY SetupKept DEF TypeInv
  <1>1. SUFFICES ASSUME setup.lag # "any", mixed = {}, ~GivenUp, ~GivenUp'
                 PROVE  EnsuresAlone' /\ ChangeOwed'
    <2>1. setup' = setup /\ mixed' = mixed
      BY SetupKept DEF jobVars
    <2>2. GivenUp => GivenUp'
      <3>1. \A s \in Scenario : uid[s] > 0 => uid'[s] > 0
        BY <1>0, StatusSteps DEF RunsMove, StartRun, FinishRun, Switch, ForceRelease, Persisted,
               Dropped, Drops, Persists, status, RunsInv, RunsTypeOK
      <3> QED BY <1>0, <3>1 DEF GivenUp, Released
    <2> QED BY <2>1, <2>2 DEF UndoneInv
  <1>2. EnsuresAlone /\ ChangeOwed
    BY <1>1 DEF UndoneInv
  <1>3. ASSUME NEW s \in Scenario, NEW r, Owes(s, r) PROVE Owes(s, r)'
    <2>1. token'[s] = token[s]
      <3>1. CASE RunsMove
        <4>1. PICK o \in Scenario : StartRun(o) \/ FinishRun(o) \/ Switch(o) \/ ForceRelease(o)
          BY <3>1 DEF RunsMove
        <4>2. CASE ForceRelease(o)
          <5>1. o # s
            <6>1. uid'[o] > 0
              BY <1>0, <4>2 DEF ForceRelease, RunsInv, RunsTypeOK
            <6> QED BY <1>0, <1>1, <1>3, <6>1 DEF GivenUp, Released, Owes
          <5> QED BY <1>0, <4>2, <5>1 DEF ForceRelease, RunsInv
        <4> QED BY <4>1, <4>2 DEF StartRun, FinishRun, Switch
      <3>2. ASSUME NEW o \in Scenario, Persisted(o) PROVE token'[s] = token[s]
        BY <1>0, <1>3, <3>2 DEF Persisted, Persists, Owes, RunsInv
      <3>3. ASSUME NEW o \in Scenario, Dropped(o) PROVE token'[s] = token[s]
        <4>1. o # s
          BY <1>3, <3>3 DEF Dropped, Owes
        <4> QED BY <1>0, <3>3, <4>1 DEF Dropped, Drops, Persists, RunsInv
      <3>4. CASE UNCHANGED status
        BY <3>4 DEF status
      <3> QED BY <3>1, <3>2, <3>3, <3>4, StatusSteps
    <2> QED BY <1>0, <1>3, <2>1, OwesStays DEF jobVars, Owes
  <1>4. UNCHANGED <<jobs, injected>>
    BY DEF jobVars
  <1>5. EnsuresAlone'
    BY <1>2, <1>3, <1>4 DEF EnsuresAlone
  <1>6. ChangeOwed'
    BY <1>2, <1>3, <1>4 DEF ChangeOwed
  <1> QED BY <1>5, <1>6

\* The Jobs come and go.
LEMMA UndoneJobs ==
    ASSUME TypeInv, UndoneInv, UNCHANGED status,
           \/ \E s \in Scenario, n \in Name : Ran(s, n)
           \/ \E s \in Scenario : JobsSeen(s)
           \/ \E n \in Name : JobSucceeds(n) \/ JobFails(n) \/ Removed(n)
    PROVE  UndoneInv'
  <1>0. JobsTypeOK /\ setup.lag \in Lag /\ \A s \in Scenario : Type(s)' = Type(s) /\ token'[s] = token[s]
    BY RunsAssumption DEF TypeInv, RunsInv, RunsTypeOK, status, Type
  <1>1. SUFFICES ASSUME setup.lag # "any", mixed' = {}, ~GivenUp
                 PROVE  EnsuresAlone' /\ ChangeOwed'
    BY DEF UndoneInv, GivenUp, Released, status, Type
  <1>2. mixed = {}
    BY <1>1 DEF Ran, JobsSeen, JobSucceeds, JobFails, Removed
  <1>3. EnsuresAlone /\ ChangeOwed
    BY <1>1, <1>2 DEF UndoneInv
  <1>a. \A r \in 1..MaxRuns : <<r, "ensure">> \in Name /\ <<r, "revert">> \in Name
    BY DEF Name
  <1>b. ASSUME NEW n \in Name, NEW r \in 1..MaxRuns
        PROVE  /\ n[2] = "revert" => <<r, "ensure">> # n
               /\ n[2] = "ensure" => <<r, "revert">> # n
               /\ r # n[1] => <<r, "ensure">> # n
    OBVIOUS
  <1>4. ASSUME NEW s, NEW n \in Name, NEW state \in JobState, JobWrites(s, n, state)
        PROVE  /\ \A m \in Name : jobs'[m] = IF m = n THEN state ELSE jobs[m]
               /\ \A o \in Scenario : jobsView'[o] \in {jobsView[o], jobs'}
               /\ s \in Scenario => jobsView'[s] = jobs'
    BY <1>0, <1>1, <1>4, ImageAssumption DEF JobWrites, JobsTypeOK, Viewed, Lag
  <1>5. ASSUME NEW s \in Scenario, JobsSeen(s) PROVE EnsuresAlone' /\ ChangeOwed'
    <2>1. \A o \in Scenario : jobsView'[o] \in {jobsView[o], jobs'}
      BY <1>0, <1>5 DEF JobsSeen, JobsTypeOK
    <2>2. jobs' = jobs /\ injected' = injected
      BY <1>5 DEF JobsSeen
    <2>3. \A o \in Scenario, r \in 1..MaxRuns : Owes(o, r) => Owes(o, r)'
      BY <1>0, <2>1, <2>2, OwesStays DEF Owes
    <2> QED BY <1>3, <2>2, <2>3 DEF EnsuresAlone, ChangeOwed
  <1>6. ASSUME NEW s \in Scenario, NEW n \in Name, Ran(s, n) PROVE EnsuresAlone' /\ ChangeOwed'
    <2>1. PICK state \in {"running", "none"} : JobWrites(s, n, state)
      BY <1>6 DEF Ran, RunJob, Creates, Deletes, Name
    <2>2. /\ \A m \in Name : jobs'[m] = IF m = n THEN state ELSE jobs[m]
          /\ \A o \in Scenario : jobsView'[o] \in {jobsView[o], jobs'}
          /\ jobsView'[s] = jobs'
      BY <1>4, <2>1 DEF JobState
    <2>3. injected' = injected /\ state # "succeeded" /\ token[s] = n[1] /\ token[s] # None
      BY <1>6, <2>1 DEF Ran
    <2>4. \A o \in Scenario, r \in 1..MaxRuns : Owes(o, r) => Owes(o, r)'
      <3>1. \A r \in 1..MaxRuns : jobs[<<r, "revert">>] # "succeeded" => jobs'[<<r, "revert">>] # "succeeded"
        BY <1>a, <2>2, <2>3
      <3> QED BY <1>0, <2>2, <3>1, OwesStays DEF Owes
    <2>5. ChangeOwed'
      BY <1>3, <2>3, <2>4 DEF ChangeOwed
    <2>6. CASE n[2] = "revert"
      <3>1. \A r \in 1..MaxRuns : jobs[<<r, "ensure">>] # "running"
        BY <1>1, <1>6, <2>6 DEF Ran, Running
      <3>2. \A r \in 1..MaxRuns : jobs'[<<r, "ensure">>] = jobs[<<r, "ensure">>]
        BY <1>a, <1>b, <2>2, <2>6
      <3> QED BY <2>5, <3>1, <3>2 DEF EnsuresAlone
    <2>7. CASE n[2] = "ensure"
      <3>1. \A r \in 1..MaxRuns : jobs'[<<r, "revert">>] = jobs[<<r, "revert">>]
        BY <1>a, <1>b, <2>2, <2>7
      <3>2. jobs[<<n[1], "revert">>] = "none" /\ n[1] \in 1..MaxRuns /\ n = <<n[1], "ensure">>
        BY <1>1, <1>6, <2>3, <2>7 DEF Ran, Name
      <3>3. Owes(s, n[1])'
        BY <1>0, <1>6, <2>2, <2>3, <3>1, <3>2 DEF Ran, Owes
      <3>4. \A r \in 1..MaxRuns : r # n[1] => jobs'[<<r, "ensure">>] = jobs[<<r, "ensure">>]
        BY <1>a, <1>b, <2>2, <3>2
      <3>5. EnsuresAlone'
        BY <1>3, <2>4, <3>1, <3>2, <3>3, <3>4 DEF EnsuresAlone
      <3> QED BY <2>5, <3>5
    <2> QED BY <2>6, <2>7 DEF Name
  <1>7. ASSUME NEW n \in Name, Removed(n) PROVE EnsuresAlone' /\ ChangeOwed'
    <2>1. /\ \A m \in Name : jobs'[m] = IF m = n THEN "none" ELSE jobs[m]
          /\ \A o \in Scenario : jobsView'[o] \in {jobsView[o], jobs'}
          /\ injected' = injected
      BY <1>4, <1>7 DEF Removed, JobState
    <2>2. \A o \in Scenario, r \in 1..MaxRuns : Owes(o, r) => Owes(o, r)'
      BY <1>0, <1>a, <2>1, OwesStays DEF Owes
    <2>3. \A r \in 1..MaxRuns :
              /\ jobs'[<<r, "ensure">>] = "running" => jobs[<<r, "ensure">>] = "running"
              /\ jobs[<<r, "revert">>] = "none" => jobs'[<<r, "revert">>] = "none"
      BY <1>a, <2>1
    <2> QED BY <1>3, <2>1, <2>2, <2>3 DEF EnsuresAlone, ChangeOwed
  <1>8. ASSUME NEW n \in Name, JobSucceeds(n) \/ JobFails(n) PROVE EnsuresAlone' /\ ChangeOwed'
    <2>1. PICK state \in {"succeeded", "failed"} :
              /\ JobWrites(None, n, state) /\ jobs[n] = "running"
              /\ Effect(n) \/ (state = "failed" /\ UNCHANGED injected)
      BY <1>8 DEF JobSucceeds, JobFails
    <2>2. /\ \A m \in Name : jobs'[m] = IF m = n THEN state ELSE jobs[m]
          /\ \A o \in Scenario : jobsView'[o] \in {jobsView[o], jobs'}
      BY <1>4, <2>1 DEF JobState
    <2>3. \A r \in 1..MaxRuns :
              jobs'[<<r, "ensure">>] = "running"
                  => jobs[<<r, "ensure">>] = "running" /\ jobs'[<<r, "revert">>] = "none"
      <3>1. \A r \in 1..MaxRuns : jobs[<<r, "ensure">>] = "running" => jobs[<<r, "revert">>] = "none"
        BY <1>3 DEF EnsuresAlone
      <3> QED BY <1>a, <2>1, <2>2, <3>1
    <2>4. \A o \in Scenario, r \in 1..MaxRuns :
              Owes(o, r) /\ jobs'[<<r, "revert">>] # "succeeded" => Owes(o, r)'
      BY <1>0, <2>2, OwesStays DEF Owes
    <2>5. EnsuresAlone'
      BY <1>3, <2>3, <2>4 DEF EnsuresAlone
    <2>6. CASE n[2] = "ensure"
      <3>1. n = <<n[1], "ensure">> /\ n[1] \in 1..MaxRuns
        BY <2>6 DEF Name
      <3>2. \E o \in Scenario : Owes(o, n[1])
        BY <1>3, <2>1, <3>1 DEF EnsuresAlone
      <3>3. \A r \in 1..MaxRuns : jobs'[<<r, "revert">>] = jobs[<<r, "revert">>]
        BY <1>a, <1>b, <2>2, <2>6
      <3>4. \A o \in Scenario, r \in 1..MaxRuns : Owes(o, r) => Owes(o, r)'
        BY <2>4, <3>3 DEF Owes
      <3>5. ChangeOwed'
        BY <3>1, <3>2, <3>4 DEF ChangeOwed
      <3> QED BY <2>5, <3>5
    <2>7. CASE n[2] = "revert"
      <3>1. CASE Effect(n)
        BY <2>5, <2>7, <3>1 DEF Effect, ChangeOwed
      <3>2. CASE state = "failed" /\ UNCHANGED injected
        <4>1. \A r \in 1..MaxRuns : jobs[<<r, "revert">>] # "succeeded" => jobs'[<<r, "revert">>] # "succeeded"
          BY <1>a, <2>2, <3>2
        <4>2. \A o \in Scenario, r \in 1..MaxRuns : Owes(o, r) => Owes(o, r)'
          BY <2>4, <4>1 DEF Owes
        <4>3. ChangeOwed'
          BY <1>3, <3>2, <4>2 DEF ChangeOwed
        <4> QED BY <2>5, <4>3
      <3> QED BY <2>1, <3>1, <3>2
    <2> QED BY <2>6, <2>7 DEF Name
  <1> QED BY <1>5, <1>6, <1>7, <1>8

\* When every scenario that runs SQL has dropped its token, and none was force-released,
\* the database is as it was before; for any number of such scenarios, as long
\* as a pass sees the Jobs its own operator created (dbexec.go, Revert).
THEOREM ForgottenUndone == Spec => [](setup.lag # "any" => ForgottenIsUndone)
  <1>1. Init => UndoneInv
    BY DEF Init, JobsInit, UndoneInv, EnsuresAlone, ChangeOwed, Name
  <1>2. TypeInv /\ UndoneInv /\ [Next]_vars => UndoneInv'
    BY UndoneTokens, UndoneJobs, JobsSteps
  <1>3. UndoneInv => (setup.lag # "any" => ForgottenIsUndone)
    BY DEF UndoneInv, ForgottenIsUndone, Forgotten, GivenUp, ChangeOwed, Owes
  <1> QED BY <1>1, <1>2, <1>3, InitType, NextType, PTL DEF Spec

-----------------------------------------------------------------------------
(* Workload and ChaosMesh: the object and its token.                       *)

\* The object is marked for deletion, stops injecting or goes; it keeps its owner.
Fades(s, o) ==
    /\ object # NoObject /\ (o # NoObject => o.owner = object.owner)
    /\ Writes(s, o)

LEMMA ObjectSteps ==
    ASSUME TypeInv, [Next]_vars
    PROVE  \/ UNCHANGED objectVars
           \/ /\ UNCHANGED status
              /\ \/ \E s \in Scenario, t \in Owned : ObjectEnsure(s, t)
                 \/ \E s \in Scenario : ObjectSeen(s)
                 \/ \E s, o : Fades(s, o)
  <1>0. object # NoObject => /\ [object EXCEPT !.deleting = TRUE].owner = object.owner
                             /\ [object EXCEPT !.injects = FALSE].owner = object.owner
    BY DEF TypeInv, ObjectTypeOK, Object
  <1>1. ASSUME NEW s \in Scenario, NEW t \in Owned, ObjectEnsure(s, t) PROVE UNCHANGED status
    BY <1>1 DEF ObjectEnsure, runVars
  <1>2. ASSUME NEW s \in Scenario, NEW t \in Owned, ObjectRevert(s, t)
        PROVE  UNCHANGED objectVars \/ (UNCHANGED status /\ \E q, o : Fades(q, o))
    BY <1>0, <1>2 DEF ObjectRevert, Fades, runVars
  <1>3. ASSUME NEW s \in Scenario, ObjectSeen(s) PROVE UNCHANGED status
    BY <1>3 DEF ObjectSeen, runVars
  <1>4. CASE Gone \/ DeadManSwitch \/ Collect
    BY <1>0, <1>4 DEF Gone, DeadManSwitch, Collect, Fades, runVars
  <1>5. ASSUME NEW i \in sweep, SweepLookup(i) \/ SweepDelete(i)
        PROVE  UNCHANGED objectVars \/ (UNCHANGED status /\ \E q, o : Fades(q, o))
    BY <1>0, <1>5 DEF SweepLookup, SweepDelete, Fades, runVars
  <1> QED BY <1>1, <1>2, <1>3, <1>4, <1>5, Moves
          DEF vars, ObjectMove, ObjectPass, ObjectPlan, Restart, Sweeps

\* Whoever owns the object sees it as its own, and has the token to delete it by.
Keeps(w) == Type(w) \in Owned /\ Ours(w) /\ (token[w] # None \/ Released(w))

KeptInv == setup.lag # "any" /\ object # NoObject => Keeps(object.owner)

LEMMA KeptNext == TypeInv /\ KeptInv /\ [Next]_vars => KeptInv'
  <1> SUFFICES ASSUME TypeInv, KeptInv, [Next]_vars, setup.lag # "any", object' # NoObject,
                      NEW w, w = object'.owner
               PROVE  Keeps(w)'
    BY SetupKept DEF KeptInv
  <1>0. /\ RunsInv /\ ObjectTypeOK /\ setup.lag \in {"none", "others"}
        /\ object # NoObject => object.owner \in Scenario /\ Keeps(object.owner)
    BY RunsAssumption DEF TypeInv, RunsInv, RunsTypeOK, Lag, ObjectTypeOK, Object, KeptInv
  <1>1. CASE UNCHANGED objectVars
    <2>1. w \in Scenario /\ Keeps(w) /\ UNCHANGED objectVars
      BY <1>0, <1>1 DEF objectVars
    <2>2. token'[w] # None \/ uid'[w] > 0
      <3>1. CASE RunsMove
        BY <1>0, <2>1, <3>1
           DEF RunsMove, StartRun, FinishRun, Switch, ForceRelease, RunsInv, RunsTypeOK, Keeps, Released
      <3>2. ASSUME NEW s \in Scenario, Persisted(s) PROVE token'[w] # None \/ uid'[w] > 0
        <4>1. PICK t : t \in TokenFor(Type(s)) /\ Persists(s, t)
          BY <3>2 DEF Persisted
        <4>2. w = s => Released(w)
          BY <2>1, <3>2 DEF Persisted, Keeps
        <4> QED BY <1>0, <2>1, <4>1, <4>2 DEF Persists, RunsInv, Keeps, Released
      <3>3. ASSUME NEW s \in Scenario, Dropped(s) PROVE token'[w] # None \/ uid'[w] > 0
        <4>1. w # s
          BY <2>1, <3>3 DEF Dropped, Keeps
        <4> QED BY <1>0, <2>1, <3>3, <4>1 DEF Dropped, Drops, Persists, RunsInv, Keeps, Released
      <3>4. CASE UNCHANGED status
        BY <2>1, <3>4 DEF status, Keeps, Released
      <3> QED BY <3>1, <3>2, <3>3, <3>4, StatusSteps
    <2> QED BY <2>1, <2>2, SetupKept DEF Keeps, Released, Ours, objectVars
  <1>2. ASSUME UNCHANGED status, NEW s \in Scenario, NEW t \in Owned, ObjectEnsure(s, t)
        PROVE  Keeps(w)'
    <2>1. object' = Built(s) /\ w = s /\ Type(s) \in Owned /\ token'[s] # None
      BY <1>2 DEF ObjectEnsure, Writes, Built, Ensures, status
    <2>2. objectView'[s] = object'
      BY <1>0, <1>2, ImageAssumption DEF ObjectEnsure, Writes, Viewed, ObjectTypeOK
    <2> QED BY <2>1, <2>2, SetupKept DEF Keeps, Ours
  <1>3. ASSUME UNCHANGED status, object' = object \/ (object # NoObject /\ w = object.owner),
               objectView'[w] \in {objectView[w], object'}
        PROVE  Keeps(w)'
    BY <1>0, <1>3 DEF Keeps, Ours, Released, Type, status
  <1>4. ASSUME UNCHANGED status, NEW s \in Scenario, ObjectSeen(s) PROVE Keeps(w)'
    <2>1. object' = object /\ objectView'[w] \in {objectView[w], object'}
      BY <1>0, <1>4 DEF ObjectSeen, ObjectTypeOK
    <2> QED BY <1>3, <1>4, <2>1
  <1>5. ASSUME UNCHANGED status, NEW s, NEW o, Fades(s, o) PROVE Keeps(w)'
    <2>1. object # NoObject /\ w = object.owner /\ w \in Scenario
      BY <1>0, <1>5 DEF Fades, Writes
    <2>2. objectView'[w] \in {objectView[w], object'}
      BY <1>0, <1>5, <2>1 DEF Fades, Writes, Viewed, ObjectTypeOK
    <2> QED BY <1>3, <1>5, <2>1, <2>2
  <1> QED BY <1>1, <1>2, <1>4, <1>5, ObjectSteps

\* An object that injects is there only as long as its owner has the token, however
\* scenarios that use one name meet, as long as a pass sees the object its own
\* operator created (workload.go and chaosmesh.go, Revert).
THEOREM ObjectsTokened == Spec => [](setup.lag # "any" => ObjectHasToken)
  <1>1. Init => KeptInv
    BY DEF Init, ObjectInit, KeptInv
  <1>2. TypeInv /\ KeptInv => (setup.lag # "any" => ObjectHasToken)
    BY DEF KeptInv, Keeps, ObjectHasToken
  <1> QED BY <1>1, <1>2, KeptNext, InitType, NextType, PTL DEF Spec

-----------------------------------------------------------------------------
(* DeployImage: the image, its annotations and the token.                  *)

RollsBack(s) == DeployRevert(s) /\ ~NothingToRollBack(s)

LEMMA DepSteps ==
    ASSUME TypeInv, [Next]_vars
    PROVE  \/ UNCHANGED depVars
           \/ \E s \in Scenario : DeployEnsure(s) \/ RollsBack(s)
           \/ /\ UNCHANGED status
              /\ (\E s \in Scenario : DepSeen(s)) \/ (\E i \in Release : RealDeploy(i)) \/ Undeploy
  <1>1. ASSUME NEW s \in Scenario, DepPass(s)
        PROVE  UNCHANGED depVars \/ DeployEnsure(s) \/ RollsBack(s)
    BY <1>1 DEF DepPass, DeployPlan, DeployRevert, RollsBack
  <1>2. ASSUME NEW s \in Scenario, DepSeen(s) PROVE UNCHANGED status
    BY <1>2 DEF DepSeen, runVars
  <1>3. ASSUME NEW i \in Release, RealDeploy(i) PROVE UNCHANGED status
    BY <1>3 DEF RealDeploy
  <1>4. CASE Undeploy
    BY <1>4 DEF Undeploy
  <1>5. ASSUME NEW i \in sweep, SweepLookup(i) \/ SweepDelete(i) PROVE UNCHANGED depVars
    BY <1>5 DEF SweepLookup, SweepDelete
  <1> QED BY <1>1, <1>2, <1>3, <1>4, <1>5, Moves DEF vars, DepMove, Restart, Sweeps

\* What a merge patch leaves of the Deployment, and of the views of it.
LEMMA PatchedFields ==
    ASSUME TypeInv, NEW s \in Scenario, NEW want \in Deployment, DepPatch(s, want)
    PROVE  LET had == depView[s]
           IN  /\ dep \in Deployment /\ dep' \in Deployment
               /\ dep'.image = IF had.image = want.image THEN dep.image ELSE want.image
               /\ dep'.good = IF had.good = want.good THEN dep.good ELSE want.good
               /\ dep'.heldBy = IF had.heldBy = want.heldBy THEN dep.heldBy ELSE want.heldBy
               /\ \A o \in Scenario : depView'[o] \in {depView[o], dep'}
               /\ setup.lag \in {"none", "others"} => depView'[s] = dep'
               /\ setup.lag = "none" => \A o \in Scenario : depView'[o] = dep'
  <1>1. dep \in Deployment /\ dep' = Merged(dep, depView[s], want) /\ depView' = Viewed(depView, s, dep')
    BY DEF DepPatch, TypeInv, DepTypeOK
  <1>2. \A o \in Scenario : depView'[o] \in {depView[o], dep'}
    BY <1>1 DEF Viewed, TypeInv, DepTypeOK
  <1>3. /\ setup.lag \in {"none", "others"} => depView'[s] = dep'
        /\ setup.lag = "none" => \A o \in Scenario : depView'[o] = dep'
    BY <1>1, ImageAssumption DEF Viewed, TypeInv, DepTypeOK
  <1> QED BY <1>1, <1>2, <1>3, MergedFields

\* Ensure and Revert, when the copy they work on is what is there.
LEMMA EnsureFields ==
    ASSUME TypeInv, NEW s \in Scenario, DeployEnsure(s)
    PROVE  /\ UNCHANGED status /\ Type(s) = "DeployImage" /\ token[s] # None
           /\ dep # NoTarget /\ depView[s] # NoTarget /\ depView[s].heldBy \in {None, s}
           /\ depView[s].image # Bad[s]
           /\ Deployed(s) \in Deployment /\ DepPatch(s, Deployed(s))
           /\ Deployed(s).image = Bad[s] /\ Deployed(s).good = token[s] /\ Deployed(s).heldBy = s
  <1>1. /\ UNCHANGED status /\ Type(s) = "DeployImage" /\ token[s] # None
        /\ dep # NoTarget /\ depView[s] # NoTarget /\ depView[s].heldBy \in {None, s}
        /\ depView[s].image # Bad[s] /\ DepPatch(s, Deployed(s))
    BY DEF DeployEnsure, Ensures, Held, DepPatch, runVars
  <1> QED BY <1>1, WantedType DEF Deployed

LEMMA RevertFields ==
    ASSUME TypeInv, NEW s \in Scenario, RollsBack(s)
    PROVE  /\ Type(s) = "DeployImage" /\ token[s] # None
           /\ dep # NoTarget /\ depView[s] # NoTarget /\ depView[s].heldBy \in {None, s}
           /\ RolledBack(s) \in Deployment /\ DepPatch(s, RolledBack(s))
           /\ RolledBack(s).image = IF depView[s].image = Bad[s] THEN token[s] ELSE depView[s].image
           /\ RolledBack(s).good = None /\ RolledBack(s).heldBy = None
           /\ setup' = setup /\ uid' = uid
           /\ token' = token \/ token' = [token EXCEPT ![s] = None]
  <1>1. /\ Type(s) = "DeployImage" /\ token[s] # None
        /\ dep # NoTarget /\ depView[s] # NoTarget /\ depView[s].heldBy \in {None, s}
        /\ DepPatch(s, RolledBack(s))
        /\ UNCHANGED runVars \/ Drops(s)
    BY DEF RollsBack, DeployRevert, Reverts, Reverting, NothingToRollBack, Held, DepPatch
  <1>2. /\ setup' = setup /\ uid' = uid
        /\ token' = token \/ token' = [token EXCEPT ![s] = None]
    BY <1>1 DEF Drops, Persists, runVars, status
  <1> QED BY <1>1, <1>2, WantedType DEF RolledBack

\* With views that are up to date, the annotation that says which image to go back
\* to stands as long as a bad image does, beside the name of its scenario.
Marked(d) ==
    d # NoTarget =>
        /\ d.good \in Release \cup {None}
        /\ d.image \in BadImages
               => d.good \in Release /\ \E s \in Scenario : d.heldBy = s /\ d.image = Bad[s]

GoodTokens ==
    \A s \in Scenario : Type(s) = "DeployImage" /\ token[s] # None => token[s] \in Release

MarkedInv ==
    setup.lag = "none" =>
        /\ \A s \in Scenario : depView[s] = dep
        /\ Marked(dep) /\ GoodTokens

LEMMA MarkedNext == TypeInv /\ MarkedInv /\ [Next]_vars => MarkedInv'
  <1> SUFFICES ASSUME TypeInv, MarkedInv, [Next]_vars, setup.lag = "none"
               PROVE  /\ \A s \in Scenario : depView'[s] = dep'
                      /\ Marked(dep)' /\ GoodTokens'
    BY SetupKept DEF MarkedInv
  <1>0. /\ DepTypeOK /\ RunsInv /\ Marked(dep) /\ GoodTokens
        /\ \A s \in Scenario : depView[s] = dep /\ Type(s)' = Type(s)
    BY SetupKept DEF TypeInv, MarkedInv
  <1>a. \A s \in Scenario : Bad[s] \in BadImages /\ Bad[s] \notin Release
    BY ImageAssumption DEF BadImages
  <1>1. ASSUME NEW s \in Scenario, DeployEnsure(s)
        PROVE  (\A o \in Scenario : depView'[o] = dep') /\ Marked(dep)' /\ GoodTokens'
    <2>1. /\ \A o \in Scenario : depView'[o] = dep'
          /\ dep'.image = Bad[s] /\ dep'.good = token[s] /\ dep'.heldBy = s
          /\ token' = token /\ token[s] \in Release
      <3>1. \A o \in Scenario : depView'[o] = dep'
        BY <1>1, EnsureFields, PatchedFields
      <3>2. dep'.image = Bad[s] /\ dep'.good = token[s] /\ dep'.heldBy = s
        BY <1>0, <1>1, EnsureFields, PatchedFields
      <3>3. token' = token /\ token[s] \in Release
        BY <1>0, <1>1, EnsureFields DEF GoodTokens, status
      <3> QED BY <3>1, <3>2, <3>3
    <2> QED BY <1>0, <2>1 DEF Marked, GoodTokens
  <1>2. ASSUME NEW s \in Scenario, RollsBack(s)
        PROVE  (\A o \in Scenario : depView'[o] = dep') /\ Marked(dep)' /\ GoodTokens'
    <2>1. /\ \A o \in Scenario : depView'[o] = dep'
          /\ dep'.image = IF dep.image = Bad[s] THEN token[s] ELSE dep.image
          /\ dep'.good = None /\ dep.heldBy \in {None, s}
      BY <1>0, <1>2, RevertFields, PatchedFields
    <2>2. token[s] \in Release /\ GoodTokens'
      BY <1>0, <1>2, RevertFields DEF GoodTokens, RunsInv
    <2>3. dep'.image \notin BadImages
      <3>1. CASE dep.image = Bad[s]
        BY <1>a, <2>1, <2>2, <3>1, ImageAssumption
      <3>2. CASE dep.image # Bad[s]
        BY <1>0, <1>2, <2>1, <3>2, RevertFields, ImageAssumption DEF Marked
      <3> QED BY <3>1, <3>2
    <2> QED BY <2>1, <2>2, <2>3 DEF Marked
  <1>3. CASE UNCHANGED depVars
    <2>1. ASSUME NEW s \in Scenario, Persisted(s) PROVE GoodTokens'
      <3>1. PICK t \in TokenFor(Type(s)) :
                /\ token' = [token EXCEPT ![s] = t]
                /\ Type(s) = "DeployImage" => t = GoodImage(s) /\ depView[s] # NoTarget
        BY <2>1 DEF Persisted, Persists
      <3>2. Type(s) = "DeployImage" => t \in Release
        <4>1. depView[s] # NoTarget => /\ dep.good \in Release \cup {None}
                                       /\ dep.good = None => dep.image \in Release
          BY <1>0, ImageAssumption DEF Marked, DepTypeOK, Deployment, Image
        <4>2. KnownGood[s] \in Release \cup {None}
          BY ImageAssumption
        <4> QED BY <1>0, <3>1, <4>1, <4>2 DEF GoodImage
      <3> QED BY <1>0, <3>1, <3>2 DEF GoodTokens, RunsInv
    <2>2. ASSUME NEW s \in Scenario, Dropped(s) PROVE GoodTokens'
      BY <1>0, <2>2 DEF Dropped, Drops, Persists, GoodTokens, RunsInv
    <2>3. ASSUME RunsMove PROVE GoodTokens'
      BY <1>0, <2>3 DEF RunsMove, StartRun, FinishRun, Switch, ForceRelease, GoodTokens, RunsInv
    <2>4. ASSUME UNCHANGED status PROVE GoodTokens'
      BY <1>0, <2>4 DEF status, GoodTokens
    <2>5. GoodTokens'
      BY <2>1, <2>2, <2>3, <2>4, StatusSteps
    <2> QED BY <1>0, <1>3, <2>5 DEF Marked, depVars
  <1>4. CASE UNCHANGED status
    <2>1. GoodTokens'
      BY <1>0, <1>4 DEF status, GoodTokens
    <2>2. ASSUME NEW s \in Scenario, DepSeen(s)
          PROVE  (\A o \in Scenario : depView'[o] = dep') /\ Marked(dep)'
      BY <1>0, <2>2 DEF DepSeen, DepTypeOK, Marked
    <2>3. ASSUME NEW i \in Release, RealDeploy(i)
          PROVE  (\A o \in Scenario : depView'[o] = dep') /\ Marked(dep)'
      <3>1. \A o \in Scenario : depView'[o] = dep'
        BY <2>3 DEF RealDeploy, Viewed
      <3>2. dep'.image = i /\ dep'.good \in Release \cup {None}
        BY <1>0, <2>3 DEF RealDeploy, DepTypeOK, Deployment, Marked
      <3> QED BY <3>1, <3>2, ImageAssumption DEF Marked
    <2>4. ASSUME Undeploy PROVE (\A o \in Scenario : depView'[o] = dep') /\ Marked(dep)'
      BY <2>4 DEF Undeploy, Viewed, Marked
    <2>5. CASE UNCHANGED depVars
      BY <1>3, <2>5
    <2> QED BY <1>1, <1>2, <2>1, <2>2, <2>3, <2>4, <2>5, DepSteps
  <1> QED BY <1>1, <1>2, <1>3, <1>4, DepSteps

\* With one scenario that sees its own writes, and nobody deleting the Deployment, the
\* annotation it has seen is the one that is there, whatever the pipeline deploys.
Alone == setup.lag = "others" /\ ImageAlone /\ ~undeployed

AloneInv ==
    Alone =>
        /\ GoodTokens
        /\ dep # NoTarget
        /\ dep.good \in Release \cup {None}
        /\ dep.image \in BadImages => dep.good \in Release
        /\ \A s \in Scenario : Type(s) = "DeployImage" =>
               /\ depView[s] # NoTarget /\ depView[s].good = dep.good
               /\ depView[s].image \in BadImages => dep.good \in Release
               /\ dep.image \in BadImages => dep.image = Bad[s] /\ depView[s].image = Bad[s]

LEMMA AloneKept == TypeInv /\ [Next]_vars /\ Alone' => Alone
  <1> SUFFICES ASSUME TypeInv, [Next]_vars, Alone' PROVE Alone
    OBVIOUS
  <1>1. setup' = setup /\ \A s \in Scenario : Type(s)' = Type(s)
    BY SetupKept
  <1>2. undeployed => undeployed'
    BY DepSteps DEF depVars, DeployEnsure, RollsBack, DeployRevert, DepPatch, DepSeen, RealDeploy, Undeploy,
                    status
  <1> QED BY <1>1, <1>2 DEF Alone, ImageAlone

\* The token of the one scenario is a good image, as what it has seen is marked.
LEMMA AloneTokens == TypeInv /\ AloneInv /\ Alone /\ [Next]_vars => GoodTokens'
  <1> SUFFICES ASSUME TypeInv, AloneInv, Alone, [Next]_vars PROVE GoodTokens'
    OBVIOUS
  <1>0. DepTypeOK /\ RunsInv /\ GoodTokens /\ \A s \in Scenario : Type(s)' = Type(s)
    BY SetupKept DEF TypeInv, AloneInv
  <1>1. ASSUME NEW s \in Scenario, Persisted(s) PROVE GoodTokens'
    <2>1. PICK t \in TokenFor(Type(s)) :
              /\ token' = [token EXCEPT ![s] = t]
              /\ Type(s) = "DeployImage" => t = GoodImage(s) /\ depView[s] # NoTarget
      BY <1>1 DEF Persisted, Persists
    <2>2. Type(s) = "DeployImage" => t \in Release
      <3>1. KnownGood[s] \in Release \cup {None}
        BY ImageAssumption
      <3>2. CASE Type(s) = "DeployImage"
        <4>1. /\ depView[s] \in Deployment /\ depView[s].good \in Release \cup {None}
              /\ depView[s].image \in BadImages => depView[s].good \in Release
          BY <1>0, <3>2 DEF AloneInv, DepTypeOK
        <4>2. depView[s].good = None => depView[s].image \in Release
          BY <4>1, ImageAssumption DEF Deployment, Image
        <4> QED BY <2>1, <3>1, <3>2, <4>1, <4>2 DEF GoodImage
      <3> QED BY <3>2
    <2> QED BY <1>0, <2>1, <2>2 DEF GoodTokens, RunsInv
  <1>2. ASSUME NEW s \in Scenario, Dropped(s) PROVE GoodTokens'
    BY <1>0, <1>2 DEF Dropped, Drops, Persists, GoodTokens, RunsInv
  <1>3. ASSUME RunsMove PROVE GoodTokens'
    BY <1>0, <1>3 DEF RunsMove, StartRun, FinishRun, Switch, ForceRelease, GoodTokens, RunsInv
  <1>4. ASSUME UNCHANGED status PROVE GoodTokens'
    BY <1>0, <1>4 DEF status, GoodTokens
  <1> QED BY <1>1, <1>2, <1>3, <1>4, StatusSteps

LEMMA AloneNext == TypeInv /\ AloneInv /\ [Next]_vars => AloneInv'
  <1> SUFFICES ASSUME TypeInv, AloneInv, [Next]_vars, Alone' PROVE AloneInv'
    BY DEF AloneInv
  <1>0. /\ Alone /\ DepTypeOK /\ GoodTokens /\ GoodTokens'
        /\ setup.lag = "others" /\ ImageAlone /\ \A s \in Scenario : Type(s)' = Type(s)
        /\ dep # NoTarget /\ dep \in Deployment
    BY AloneKept, AloneTokens, SetupKept DEF Alone, AloneInv, TypeInv, DepTypeOK
  <1>a. \A s \in Scenario : Bad[s] \in BadImages /\ Bad[s] \notin Release
    BY ImageAssumption DEF BadImages
  <1>1. ASSUME NEW s \in Scenario, DeployEnsure(s) PROVE AloneInv'
    <2>1. Type(s) = "DeployImage" /\ token[s] \in Release
      BY <1>0, <1>1, EnsureFields DEF GoodTokens
    <2>2. dep'.image = Bad[s] /\ dep'.good = token[s] /\ depView'[s] = dep' /\ dep' # NoTarget
      <3>1. dep'.image = Bad[s] /\ depView'[s] = dep' /\ dep' \in Deployment
        BY <1>0, <1>1, EnsureFields, PatchedFields
      <3>2. dep'.good = IF depView[s].good = token[s] THEN dep.good ELSE token[s]
        BY <1>1, EnsureFields, PatchedFields
      <3>3. depView[s].good = dep.good
        BY <1>0, <2>1 DEF AloneInv
      <3> QED BY <3>1, <3>2, <3>3, ImageAssumption
    <2>3. \A o \in Scenario : Type(o) = "DeployImage" => o = s
      BY <1>0, <2>1 DEF ImageAlone
    <2> QED BY <1>0, <2>1, <2>2, <2>3 DEF AloneInv
  <1>2. ASSUME NEW s \in Scenario, RollsBack(s) PROVE AloneInv'
    <2>1. /\ Type(s) = "DeployImage" /\ token[s] \in Release
          /\ depView[s].good = dep.good
          /\ dep.image \in BadImages => dep.image = Bad[s] /\ depView[s].image = Bad[s]
      BY <1>0, <1>2, RevertFields DEF GoodTokens, AloneInv
    <2>2. /\ dep'.good = None /\ depView'[s] = dep' /\ dep' \in Deployment
          /\ dep'.image = IF depView[s].image = RolledBack(s).image THEN dep.image ELSE RolledBack(s).image
      BY <1>0, <1>2, <2>1, RevertFields, PatchedFields
    <2>3. dep'.image \notin BadImages
      <3>1. CASE depView[s].image = Bad[s]
        BY <1>a, <1>2, <2>1, <2>2, <3>1, RevertFields, ImageAssumption
      <3>2. CASE depView[s].image # Bad[s]
        BY <1>2, <2>1, <2>2, <3>2, RevertFields
      <3> QED BY <3>1, <3>2
    <2>4. \A o \in Scenario : Type(o) = "DeployImage" => o = s
      BY <1>0, <2>1 DEF ImageAlone
    <2>5. dep' # NoTarget
      BY <2>2, ImageAssumption
    <2> QED BY <1>0, <2>2, <2>3, <2>4, <2>5 DEF AloneInv
  <1>3. CASE UNCHANGED depVars
    BY <1>0, <1>3 DEF AloneInv, depVars
  <1>4. ASSUME NEW s \in Scenario, DepSeen(s) PROVE AloneInv'
    <2>1. dep' = dep /\ \A o \in Scenario : depView'[o] \in {depView[o], dep}
      BY <1>0, <1>4 DEF DepSeen, DepTypeOK
    <2> QED BY <1>0, <2>1 DEF AloneInv
  <1>5. ASSUME NEW i \in Release, RealDeploy(i) PROVE AloneInv'
    <2>1. dep' = [dep EXCEPT !.image = i] /\ depView' = depView
      BY <1>0, <1>5 DEF RealDeploy, Viewed
    <2>2. dep'.image = i /\ dep'.good = dep.good /\ dep' \in Deployment
      BY <1>0, <2>1 DEF Deployment, Image
    <2>3. dep'.image \notin BadImages /\ dep' # NoTarget
      BY <2>2, ImageAssumption
    <2> QED BY <1>0, <2>1, <2>2, <2>3 DEF AloneInv
  <1>6. CASE Undeploy
    BY <1>6 DEF Undeploy, Alone
  <1> QED BY <1>1, <1>2, <1>3, <1>4, <1>5, <1>6, DepSteps

\* A bad image is live only with the annotation that leads back from it, however
\* scenarios and the pipeline meet with views that are up to date, and for a scenario
\* that sees its own writes as long as nobody deletes the Deployment
\* (deployimage.go, Ensure).
THEOREM ImageMarked == Spec => []MarkedUnlessRecreated
  <1>1. Init => MarkedInv /\ AloneInv
    <2> SUFFICES ASSUME Init PROVE MarkedInv /\ AloneInv
      OBVIOUS
    <2>1. PICK i \in Release : dep = [image |-> i, good |-> None, heldBy |-> None]
      BY DEF Init, DepInit
    <2>2. Marked(dep) /\ dep \in Deployment /\ dep.good = None /\ dep.image \notin BadImages
      BY <2>1, ImageAssumption DEF Marked, Deployment, Image
    <2>3. dep # NoTarget /\ \A s \in Scenario : depView[s] = dep /\ token[s] = None
      BY <2>2, ImageAssumption DEF Init, DepInit, RunsInit
    <2> QED BY <2>2, <2>3 DEF MarkedInv, AloneInv, GoodTokens
  <1>2. MarkedInv /\ AloneInv => MarkedUnlessRecreated
    BY DEF MarkedInv, Marked, AloneInv, Alone, RollbackMarked, MarkedUnlessRecreated
  <1> QED BY <1>1, <1>2, MarkedNext, AloneNext, InitType, NextType, PTL DEF Spec

\* One scenario at a time deploys, or views are up to date.
Watched == setup.lag = "none" \/ (setup.lag = "others" /\ ImageAlone)

BadDistinct == \A s, o \in Scenario : Bad[s] = Bad[o] => s = o

\* A Deployment, or a view of one: a bad image is not held by anybody else.
Sound(d) ==
    d # NoTarget =>
        /\ d.good \in Release \cup {None}
        /\ \A s \in Scenario : d.heldBy = s \/ d.image = Bad[s] => Type(s) = "DeployImage"
        /\ \A s \in Scenario : d.image = Bad[s] => d.heldBy \in {None, s}

\* Whose image or name is on the Deployment has the token, and sees that they are.
Answers(s) ==
    dep # NoTarget /\ (dep.heldBy = s \/ dep.image = Bad[s]) =>
        /\ token[s] # None \/ Released(s)
        /\ depView[s] # NoTarget
        /\ dep.heldBy = s => depView[s].heldBy = s
        /\ dep.image = Bad[s] => depView[s].image = Bad[s]

QuietInv ==
    Watched =>
        /\ GoodTokens
        /\ Sound(dep)
        /\ \A s \in Scenario : Sound(depView[s]) /\ Answers(s)

LEMMA SoundEnsure ==
    ASSUME BadDistinct, TypeInv, MarkedInv, QuietInv, Watched, [Next]_vars,
           NEW s \in Scenario, DeployEnsure(s)
    PROVE  /\ GoodTokens' /\ Sound(dep)'
           /\ \A o \in Scenario : depView'[o] \in {depView[o], dep'} /\ Answers(o)'
  <1>0. /\ \A o \in Scenario : Type(o)' = Type(o) /\ Answers(o)
        /\ GoodTokens /\ Sound(dep) /\ setup.lag \in {"none", "others"}
        /\ setup.lag = "none" => \A o \in Scenario : depView[o] = dep
        /\ setup.lag # "none" => ImageAlone
    BY SetupKept DEF QuietInv, Watched, MarkedInv
  <1>1. /\ token' = token /\ uid' = uid /\ Type(s) = "DeployImage" /\ token[s] # None
        /\ dep # NoTarget /\ depView[s].heldBy \in {None, s}
    BY EnsureFields DEF status
  <1>2. /\ dep'.image = Bad[s] /\ dep'.good \in {dep.good, token[s]}
        /\ dep'.heldBy = IF depView[s].heldBy = s THEN dep.heldBy ELSE s
        /\ \A o \in Scenario : depView'[o] \in {depView[o], dep'}
        /\ depView'[s] = dep' /\ dep' \in Deployment
        /\ setup.lag = "none" => \A o \in Scenario : depView'[o] = dep'
    BY <1>0, EnsureFields, PatchedFields
  <1>3. \A o \in Scenario : o # s => Bad[o] # Bad[s]
    BY DEF BadDistinct
  <1>4. dep'.heldBy \in {None, s}
    <2>1. CASE setup.lag = "none"
      BY <1>0, <1>2, <2>1
    <2>2. CASE setup.lag # "none"
      <3>1. dep.heldBy \in Scenario \cup {None}
        BY <1>1 DEF TypeInv, DepTypeOK, Deployment
      <3> QED BY <1>0, <1>1, <1>2, <2>2, <3>1 DEF Sound, ImageAlone
    <2> QED BY <2>1, <2>2
  <1>5. GoodTokens' /\ token[s] \in Release
    BY <1>0, <1>1 DEF GoodTokens
  <1>6. Sound(dep)'
    BY <1>0, <1>1, <1>2, <1>3, <1>4, <1>5, ImageAssumption DEF Sound
  <1>7. ASSUME NEW o \in Scenario PROVE Answers(o)'
    <2>1. CASE o = s
      BY <1>1, <1>2, <2>1, ImageAssumption DEF Answers
    <2>2. CASE o # s
      BY <1>2, <1>3, <1>4, <2>2, ImageAssumption DEF Answers
    <2> QED BY <2>1, <2>2
  <1> QED BY <1>2, <1>5, <1>6, <1>7

LEMMA SoundRevert ==
    ASSUME BadDistinct, TypeInv, MarkedInv, QuietInv, Watched, [Next]_vars,
           NEW s \in Scenario, RollsBack(s)
    PROVE  /\ GoodTokens' /\ Sound(dep)'
           /\ \A o \in Scenario : depView'[o] \in {depView[o], dep'} /\ Answers(o)'
  <1>0. /\ \A o \in Scenario : Type(o)' = Type(o) /\ Answers(o)
        /\ GoodTokens /\ Sound(dep) /\ setup.lag \in {"none", "others"}
    BY SetupKept DEF QuietInv, Watched
  <1>a. RunsInv /\ \A o \in Scenario : Bad[o] \notin Release
    BY ImageAssumption DEF TypeInv, BadImages
  <1>1. /\ Type(s) = "DeployImage" /\ token[s] # None /\ uid' = uid
        /\ token' = token \/ token' = [token EXCEPT ![s] = None]
        /\ dep # NoTarget /\ depView[s] # NoTarget
    BY RevertFields
  <1>2. /\ dep'.heldBy \in {dep.heldBy, None}
        /\ depView[s].heldBy # None => dep'.heldBy = None
        /\ dep'.good \in {dep.good, None}
        /\ \A o \in Scenario : depView'[o] \in {depView[o], dep'}
        /\ depView'[s] = dep' /\ dep' \in Deployment
    BY <1>0, RevertFields, PatchedFields
  <1>3. /\ depView[s].image = Bad[s] /\ token[s] # Bad[s] => dep'.image = token[s]
        /\ depView[s].image # Bad[s] => dep'.image = dep.image
    BY RevertFields, PatchedFields
  <1>4. token[s] \in Release /\ token[s] # Bad[s]
    BY <1>0, <1>1, <1>a DEF GoodTokens
  <1>5. GoodTokens'
    BY <1>0, <1>1, <1>a DEF GoodTokens, RunsInv
  <1>6. dep'.heldBy # s /\ dep'.image # Bad[s]
    <2>1. dep'.heldBy # s
      BY <1>0, <1>1, <1>2, ImageAssumption DEF Answers
    <2>2. dep'.image # Bad[s]
      BY <1>0, <1>1, <1>3, <1>4 DEF Answers
    <2> QED BY <2>1, <2>2
  <1>7. \A o \in Scenario : dep'.image = Bad[o] => dep.image = Bad[o]
    BY <1>3, <1>4, <1>a
  <1>8. Sound(dep)'
    BY <1>0, <1>1, <1>2, <1>7, ImageAssumption DEF Sound
  <1>9. ASSUME NEW o \in Scenario PROVE Answers(o)'
    <2>1. CASE o = s
      BY <1>6, <2>1 DEF Answers
    <2>2. CASE o # s
      <3>1. token'[o] = token[o]
        BY <1>1, <1>a, <2>2 DEF RunsInv
      <3>2. depView'[o] \in {depView[o], dep'} /\ dep' # NoTarget
        BY <1>2, ImageAssumption
      <3>3. dep'.heldBy = o => dep.heldBy = o
        BY <1>2, ImageAssumption
      <3> QED BY <1>0, <1>1, <1>7, <3>1, <3>2, <3>3 DEF Answers, Released
    <2> QED BY <2>1, <2>2
  <1> QED BY <1>2, <1>5, <1>8, <1>9

\* The runs and the tokens move: a token that goes belonged to somebody who is
\* neither on the Deployment nor has its image there.
LEMMA SoundTokens ==
    ASSUME TypeInv, MarkedInv, QuietInv, Watched, [Next]_vars, UNCHANGED depVars,
           \A s \in Scenario : ~RollsBack(s)
    PROVE  GoodTokens' /\ \A o \in Scenario : Answers(o)'
  <1>0. /\ \A o \in Scenario : Type(o)' = Type(o) /\ Answers(o) /\ Sound(depView[o])
        /\ GoodTokens /\ Sound(dep) /\ DepTypeOK /\ RunsInv
        /\ setup.lag = "none" => Marked(dep) /\ \A o \in Scenario : depView[o] = dep
        /\ setup.lag # "none" => ImageAlone
    BY SetupKept DEF QuietInv, Watched, TypeInv, MarkedInv
  <1>1. ASSUME NEW s \in Scenario, Persisted(s) PROVE GoodTokens' /\ \A o \in Scenario : Answers(o)'
    <2>1. PICK t \in TokenFor(Type(s)) :
              /\ token' = [token EXCEPT ![s] = t] /\ uid' = uid
              /\ Type(s) = "DeployImage" => t = GoodImage(s) /\ t # Bad[s] /\ depView[s] # NoTarget
      BY <1>1 DEF Persisted, Persists
    <2>2. Type(s) = "DeployImage" => t \in Release
      <3> SUFFICES ASSUME Type(s) = "DeployImage" PROVE t \in Release
        OBVIOUS
      <3>1. depView[s] \in Deployment /\ depView[s].good \in Release \cup {None}
        BY <1>0, <2>1 DEF Sound, DepTypeOK
      <3>2. CASE depView[s].good = None /\ depView[s].image \in BadImages /\ KnownGood[s] = None
        <4>1. setup.lag # "none"
          <5> SUFFICES ASSUME setup.lag = "none" PROVE FALSE
            OBVIOUS
          <5>1. depView[s] = dep /\ depView[s] # NoTarget /\ Marked(dep)
            BY <1>0, <2>1
          <5>2. dep.good = None /\ dep.image \in BadImages
            BY <5>1, <3>2
          <5>3. dep.good \in Release
            BY <5>1, <5>2 DEF Marked
          <5> QED BY <5>2, <5>3, ImageAssumption DEF Image
        <4>2. PICK o \in Scenario : depView[s].image = Bad[o]
          BY <3>2 DEF BadImages
        <4>3. o = s
          BY <1>0, <2>1, <4>1, <4>2 DEF Sound, ImageAlone
        <4> QED BY <2>1, <3>2, <4>2, <4>3 DEF GoodImage
      <3>3. CASE ~(depView[s].good = None /\ depView[s].image \in BadImages /\ KnownGood[s] = None)
        <4>1. KnownGood[s] \in Release \cup {None} /\ depView[s].image \in Release \cup BadImages
          BY <3>1, ImageAssumption DEF Deployment, Image
        <4> QED BY <2>1, <3>1, <3>3, <4>1 DEF GoodImage
      <3> QED BY <3>2, <3>3
    <2>3. GoodTokens'
      BY <1>0, <2>1, <2>2 DEF GoodTokens, RunsInv
    <2>4. ASSUME NEW o \in Scenario PROVE Answers(o)'
      <3>1. token[o] # None => token'[o] # None
        BY <1>0, <1>1, <2>1 DEF Persisted, RunsInv
      <3> QED BY <1>0, <2>1, <3>1 DEF Answers, Released, depVars
    <2> QED BY <2>3, <2>4
  <1>2. ASSUME NEW s \in Scenario, Dropped(s) PROVE GoodTokens' /\ \A o \in Scenario : Answers(o)'
    <2>1. token' = [token EXCEPT ![s] = None] /\ uid' = uid
      BY <1>2 DEF Dropped, Drops, Persists
    <2>2. GoodTokens'
      BY <1>0, <2>1 DEF GoodTokens, RunsInv
    <2>3. dep # NoTarget => dep.heldBy # s /\ dep.image # Bad[s]
      <3>1. CASE Type(s) # "DeployImage"
        BY <1>0, <3>1 DEF Sound
      <3>2. CASE Type(s) = "DeployImage"
        <4>1. NothingToRollBack(s)
          BY <1>2, <3>2 DEF Dropped, RollsBack
        <4>2. depView[s] # NoTarget /\ depView[s].image = Bad[s] => depView[s].heldBy \in {None, s}
          BY <1>0 DEF Sound
        <4> QED BY <1>0, <4>1, <4>2, ImageAssumption DEF NothingToRollBack, Held, Answers
      <3> QED BY <3>1, <3>2
    <2>4. ASSUME NEW o \in Scenario PROVE Answers(o)'
      <3>1. o # s => token'[o] = token[o]
        BY <1>0, <2>1 DEF RunsInv
      <3> QED BY <1>0, <2>1, <2>3, <3>1 DEF Answers, Released, depVars
    <2> QED BY <2>2, <2>4
  <1>3. ASSUME RunsMove PROVE GoodTokens' /\ \A o \in Scenario : Answers(o)'
    <2>1. \A o \in Scenario : /\ token'[o] \in {token[o], None}
                              /\ token[o] # None \/ uid[o] > 0 => token'[o] # None \/ uid'[o] > 0
      BY <1>0, <1>3 DEF RunsMove, StartRun, FinishRun, Switch, ForceRelease, RunsInv, RunsTypeOK
    <2>2. GoodTokens'
      BY <1>0, <2>1 DEF GoodTokens
    <2> QED BY <1>0, <2>1, <2>2 DEF Answers, Released, depVars
  <1>4. ASSUME UNCHANGED status PROVE GoodTokens' /\ \A o \in Scenario : Answers(o)'
    BY <1>0, <1>4 DEF status, GoodTokens, Answers, Released, depVars
  <1> QED BY <1>1, <1>2, <1>3, <1>4, StatusSteps

\* The Deployment moves without the operator.
LEMMA SoundMoves ==
    ASSUME TypeInv, MarkedInv, QuietInv, Watched, [Next]_vars, UNCHANGED status,
           (\E s \in Scenario : DepSeen(s)) \/ (\E i \in Release : RealDeploy(i)) \/ Undeploy
    PROVE  /\ GoodTokens' /\ Sound(dep)'
           /\ \A o \in Scenario : depView'[o] \in {depView[o], dep'} /\ Answers(o)'
  <1>0. /\ \A o \in Scenario : Type(o)' = Type(o) /\ Answers(o)
        /\ GoodTokens /\ Sound(dep) /\ DepTypeOK
    BY SetupKept DEF QuietInv, TypeInv
  <1>1. GoodTokens' /\ token' = token /\ uid' = uid
    BY <1>0 DEF GoodTokens, status
  <1>2. \A o \in Scenario : depView'[o] \in {depView[o], dep'}
    BY <1>0 DEF DepSeen, RealDeploy, Undeploy, Viewed, DepTypeOK
  <1>3. CASE \E s \in Scenario : DepSeen(s)
    <2>1. dep' = dep
      BY <1>3 DEF DepSeen
    <2>2. Sound(dep)'
      BY <1>0, <2>1 DEF Sound
    <2>3. \A o \in Scenario : Answers(o)'
      BY <1>0, <1>1, <1>2, <2>1 DEF Answers, Released
    <2> QED BY <1>1, <1>2, <2>2, <2>3
  <1>4. ASSUME NEW i \in Release, RealDeploy(i)
        PROVE  Sound(dep)' /\ \A o \in Scenario : Answers(o)'
    <2>1. /\ dep'.image = i /\ dep' # NoTarget
          /\ dep' = [image |-> i, good |-> None, heldBy |-> None]
             \/ (dep # NoTarget /\ dep'.good = dep.good /\ dep'.heldBy = dep.heldBy)
      <3>1. dep = NoTarget => dep' = [image |-> i, good |-> None, heldBy |-> None]
        BY <1>4 DEF RealDeploy
      <3>2. dep # NoTarget => dep' = [dep EXCEPT !.image = i] /\ dep \in Deployment
        BY <1>0, <1>4 DEF RealDeploy, DepTypeOK
      <3>3. dep' \in Deployment
        BY <1>4, <3>1, <3>2 DEF Deployment, Image
      <3> QED BY <3>1, <3>2, <3>3, ImageAssumption DEF Deployment
    <2>2. \A o \in Scenario : dep'.image # Bad[o] /\ o # None
      BY <2>1, ImageAssumption DEF BadImages
    <2>3. Sound(dep)'
      BY <1>0, <2>1, <2>2 DEF Sound
    <2>4. ASSUME NEW o \in Scenario PROVE Answers(o)'
      <3>1. dep'.heldBy = o => dep # NoTarget /\ dep.heldBy = o
        BY <2>1, <2>2
      <3> QED BY <1>0, <1>1, <1>2, <2>1, <2>2, <3>1 DEF Answers, Released
    <2> QED BY <2>3, <2>4
  <1>5. CASE Undeploy
    BY <1>1, <1>2, <1>5 DEF Undeploy, Sound, Answers
  <1> QED BY <1>1, <1>2, <1>3, <1>4, <1>5

LEMMA QuietNext == BadDistinct /\ TypeInv /\ MarkedInv /\ QuietInv /\ [Next]_vars => QuietInv'
  <1> SUFFICES ASSUME BadDistinct, TypeInv, MarkedInv, QuietInv, [Next]_vars, Watched'
               PROVE  QuietInv'
    BY DEF QuietInv
  <1>0. Watched /\ \A o \in Scenario : Type(o)' = Type(o)
    BY SetupKept DEF Watched, ImageAlone
  <1>1. Sound(dep) /\ \A o \in Scenario : Sound(depView[o])
    BY <1>0 DEF QuietInv
  <1>2. ASSUME GoodTokens' /\ Sound(dep)',
               \A o \in Scenario : depView'[o] \in {depView[o], dep'} /\ Answers(o)'
        PROVE  QuietInv'
    <2>1. ASSUME NEW o \in Scenario PROVE Sound(depView[o])'
      <3>1. CASE depView'[o] = dep'
        BY <1>2, <3>1 DEF Sound
      <3>2. CASE depView'[o] = depView[o]
        BY <1>0, <1>1, <3>2 DEF Sound
      <3> QED BY <1>2, <3>1, <3>2
    <2> QED BY <1>2, <2>1 DEF QuietInv
  <1>3. CASE \E s \in Scenario : DeployEnsure(s) \/ RollsBack(s)
    BY <1>0, <1>2, <1>3, SoundEnsure, SoundRevert
  <1>4. CASE UNCHANGED depVars /\ \A s \in Scenario : ~RollsBack(s)
    <2>1. Sound(dep)' /\ \A o \in Scenario : depView'[o] = depView[o]
      BY <1>0, <1>1, <1>4 DEF Sound, depVars
    <2> QED BY <1>0, <1>2, <1>4, <2>1, SoundTokens
  <1>5. CASE UNCHANGED status
             /\ ((\E s \in Scenario : DepSeen(s)) \/ (\E i \in Release : RealDeploy(i)) \/ Undeploy)
    BY <1>0, <1>2, <1>5, SoundMoves
  <1> QED BY <1>3, <1>4, <1>5, DepSteps

\* A scenario that has dropped its token has neither its image nor its annotations
\* left on the Deployment (deployimage.go, Revert), when each scenario deploys an
\* image of its own and either views are up to date or only one scenario deploys.
THEOREM QuietGood == BadDistinct /\ Spec => [](Watched => QuietIsGood)
  <1> SUFFICES ASSUME BadDistinct PROVE Spec => [](Watched => QuietIsGood)
    OBVIOUS
  <1>1. Init => MarkedInv /\ QuietInv
    <2> SUFFICES ASSUME Init PROVE MarkedInv /\ QuietInv
      OBVIOUS
    <2>1. PICK i \in Release : dep = [image |-> i, good |-> None, heldBy |-> None]
      BY DEF Init, DepInit
    <2>2. \A s \in Scenario : depView[s] = dep /\ token[s] = None /\ s # None /\ Bad[s] # i
      BY ImageAssumption DEF Init, DepInit, RunsInit, BadImages
    <2>3. Marked(dep) /\ Sound(dep) /\ GoodTokens
      BY <2>1, <2>2, ImageAssumption DEF Marked, Sound, GoodTokens
    <2>4. \A s \in Scenario : Answers(s)
      BY <2>1, <2>2 DEF Answers
    <2> QED BY <2>2, <2>3, <2>4 DEF MarkedInv, QuietInv
  <1>2. MarkedInv /\ QuietInv /\ TypeInv /\ [Next]_vars => (MarkedInv /\ QuietInv)'
    BY MarkedNext, QuietNext
  <1>3. QuietInv => (Watched => QuietIsGood)
    BY DEF QuietInv, Answers, QuietIsGood
  <1> QED BY <1>1, <1>2, <1>3, InitType, NextType, PTL DEF Spec
=============================================================================
