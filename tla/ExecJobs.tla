------------------------------- MODULE ExecJobs -------------------------------
(***************************************************************************)
(* The DBExec action (src/operator/internal/actions/dbexec.go) and the     *)
(* Jobs it creates, which run dbtool --once (src/operator/internal/dbtool  *)
(* /dbtool.go): a Job that changes the database, a Job that undoes it.     *)
(***************************************************************************)
EXTENDS ScenarioRuns

Name == (1..MaxRuns) \X {"ensure", "revert"}
JobState == {"none", "running", "succeeded", "failed"}

VARIABLES
    jobs,           \* jobs[n]: the Job of that name
    jobsView,       \* jobsView[s]: the Jobs as s has read them
    injected,       \* the change is in the database
    ensured,        \* runs of which the ensure statements were executed
    mixed           \* how the Jobs of a run have got into each other's way

jobVars == <<jobs, jobsView, injected, ensured, mixed>>

\* Variant: the names are the same for every run.
JobNameFixed(r, what) == <<1, what>>

\* execJobNames
JobName(r, what) == <<r, what>>

JobWrites(s, n, state) ==
    /\ jobs' = [jobs EXCEPT ![n] = state]
    /\ jobsView' = Viewed(jobsView, s, jobs')

Running(what) == \E r \in 1..MaxRuns : jobs[<<r, what>>] = "running"

-----------------------------------------------------------------------------

\* The token is the run, from which both names follow.
ExecPlan(s) ==
    /\ Plans(s, "DBExec")
    /\ Persists(s, run[s])
    /\ UNCHANGED jobVars

\* runJob until it is done: an absent Job is created, a failed one deleted.
Creates(s, n) == jobsView[s][n] = "none" /\ jobs[n] = "none" /\ JobWrites(s, n, "running")

\* Variant: a failed Job is left for somebody to look at.
DeletesNothing(s, n) == jobsView[s][n] = "failed" /\ UNCHANGED <<jobs, jobsView>>

Deletes(s, n) == jobsView[s][n] = "failed" /\ JobWrites(s, n, "none")

RunJob(s, n) == Creates(s, n) \/ Deletes(s, n)

ExecEnsure(s) ==
    /\ Ensures(s, "DBExec")
    /\ RunJob(s, JobName(token[s], "ensure"))
    /\ mixed' = IF jobs[<<token[s], "revert">>] = "none" THEN mixed ELSE mixed \cup {"resumed"}
    /\ UNCHANGED <<runVars, injected, ensured>>

ExecRevert(s) ==
    /\ Reverts(s, "DBExec")
    /\ LET n == JobName(token[s], "revert")
       IN  IF jobsView[s][n] = "succeeded" THEN Drops(s) /\ UNCHANGED jobVars
           ELSE /\ RunJob(s, n)
                /\ mixed' = IF Running("ensure") THEN mixed \cup {"overlapped"} ELSE mixed
                /\ UNCHANGED <<runVars, injected, ensured>>

(* dbtool --once in the Job's pod.                                         *)

Effect(n) ==
    /\ injected' = (n[2] = "ensure")
    /\ ensured' = IF n[2] = "ensure" THEN ensured \cup {n[1]} ELSE ensured

JobSucceeds(n) ==
    /\ jobs[n] = "running"
    /\ JobWrites(None, n, "succeeded")
    /\ Effect(n)
    /\ UNCHANGED <<runVars, mixed>>

\* A statement fails, before or after those that have the effect.
JobFails(n) ==
    /\ jobs[n] = "running" /\ Fault
    /\ JobWrites(None, n, "failed")
    /\ Effect(n) \/ UNCHANGED <<injected, ensured>>
    /\ UNCHANGED <<status, ops, mixed>>

\* TTLSecondsAfterFinished
JobExpires(n) ==
    /\ jobs[n] \in {"succeeded", "failed"} /\ Fault
    /\ JobWrites(None, n, "none")
    /\ UNCHANGED <<status, ops, injected, ensured, mixed>>

JobsSeen(s) ==
    /\ jobsView[s] # jobs
    /\ jobsView' = [jobsView EXCEPT ![s] = jobs]
    /\ UNCHANGED <<runVars, jobs, injected, ensured, mixed>>

JobsInit ==
    /\ jobs = [n \in Name |-> "none"] /\ jobsView = [s \in Scenario |-> jobs]
    /\ injected = FALSE /\ ensured = {} /\ mixed = {}

ExecPass(s) == ExecPlan(s) \/ ExecEnsure(s) \/ ExecRevert(s)

-----------------------------------------------------------------------------

JobsTypeOK ==
    /\ jobs \in [Name -> JobState] /\ jobsView \in [Scenario -> [Name -> JobState]]
    /\ injected \in BOOLEAN /\ ensured \subseteq 1..MaxRuns /\ mixed \subseteq {"overlapped", "resumed"}

\* What DBExec reports is about this run: a pass that finds the ensure Job
\* succeeded belongs to a run whose statements were executed (dbexec.go:39-53).
ReportsOwnRun ==
    \A s \in Scenario : Ensures(s, "DBExec") /\ jobsView[s][JobName(token[s], "ensure")] = "succeeded"
                            => run[s] \in ensured

Forgotten == \A s \in Scenario : Type(s) = "DBExec" => token[s] = None /\ ~Released(s)

\* A token is dropped only when its change is undone, provided that no revert Job
\* was created beside a running ensure Job, and no ensure Job after a revert Job of
\* the same run.
ForgottenIsUndone == Forgotten /\ mixed = {} => ~injected

\* No Job of the past is mistaken for the one that is needed: a revert that ran no
\* statements does not leave the change in place (dbexec.go:44-51).
StaleJobNotAdopted ==
    Forgotten /\ "overlapped" \notin mixed /\ ~Running("ensure") => ~injected

=============================================================================
