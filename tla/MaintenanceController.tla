------------------------ MODULE MaintenanceController ------------------------
(***************************************************************************)
(* The MaintenanceJob reconciler of the rca-lab operator                   *)
(* (src/operator/internal/controller), for one MaintenanceJob object.      *)
(*                                                                         *)
(* Four parties share the object: users (kubectl and the operator's HTTP   *)
(* API), the API server that stores it, the informer cache the operator    *)
(* reads it from, and the reconciler, which runs at most one pass at a     *)
(* time for a given object.  A pass is a sequence of API calls; one action *)
(* below is one call together with the local decisions that follow it, so  *)
(* users, the clock, the watch stream and crashes interleave with a pass   *)
(* exactly where the code can be overtaken.                                *)
(***************************************************************************)
EXTENDS Naturals, FiniteSets, SequencesExt

CONSTANTS
    Action,          \* names of the actions a spec can list
    ActionLists,     \* values of spec.actions (a duplicate name is legal for the CRD)
    Delayed,         \* the actions whose spec entry has a delay
    TriggerId,       \* manual run ids users send (spec.trigger.runID)
    None,            \* the empty run id; also: no action
    NoRun,           \* status.currentRun = nil
    TimedTrigger,    \* triggers ("enabled", "manual") whose runs have a duration
    DegradedAfter,   \* degradedAfterFailures; attempts are counted up to it
    HistoryCap,      \* historyCap
    CacheLag,        \* bound: how many versions the informer cache can be behind
    ReadsOwnWrites,  \* TRUE: no pass starts before the cache shows the last status write
    WatchesConfigMaps,  \* the Role lets the operator list and watch ConfigMaps
    MaxRuns,         \* bound: runs started
    MaxUserOps,      \* bound: user requests
    MaxFaults        \* bound: crashes, API errors and failures of an action

TriggerKind == {"enabled", "manual"}

ASSUME ConstantsAssumption ==
    /\ ActionLists \subseteq Seq(Action)
    /\ ActionLists # {}
    /\ Delayed \subseteq Action
    /\ TimedTrigger \subseteq TriggerKind
    /\ DegradedAfter \in Nat \ {0}
    /\ HistoryCap \in Nat \ {0}
    /\ CacheLag \in Nat
    /\ ReadsOwnWrites \in BOOLEAN /\ WatchesConfigMaps \in BOOLEAN
    /\ None \notin TriggerId \cup Nat \cup Action
    /\ MaxRuns \in Nat /\ MaxUserOps \in Nat /\ MaxFaults \in Nat

VARIABLES
    job,        \* the object in the API server
    backlog,    \* versions before job that the cache has yet to move past, oldest first
    queued,     \* the reconcile key is in the work queue, at once or after a timer
    pc,         \* what the running pass does next; "idle" between passes
    fs,         \* the pass's copy of the object
    loop,       \* the activation loop: its run, index, length, action there, allApplied
    starts,     \* how many runs were started: names a run's startedAt and expiresAt
    matured,    \* runs whose delayed actions are due
    expired,    \* runs whose duration has elapsed
    injected,   \* injected[a]: the failure of action a is in effect in the namespace
    leaked,     \* actions whose tokens are in the leaked-state ConfigMap
    used,       \* manual run ids sent so far
    ops,        \* user requests so far
    faults      \* faults so far

clock    == <<starts, matured, expired>>
world    == <<injected, leaked>>
budget   == <<used, ops, faults>>
vars     == <<job, backlog, queued, pc, fs, loop, clock, world, budget>>

-----------------------------------------------------------------------------
(* The object.                                                             *)

RunId == TriggerId \cup 1..MaxRuns

Run == [id : RunId, trigger : TriggerKind, start : 1..MaxRuns, timed : BOOLEAN]

ActiveAction == [name : Action, phase : {"Recorded", "Applied", "Reverting"},
                 attempts : 0..DegradedAfter, failed : BOOLEAN]

Phase == {"", "Idle", "Activating", "Active", "Reverting", "Degraded"}

HistoryEntry == [id : RunId, start : 1..MaxRuns, result : {"Completed", "Reverted"}]

Spec_ == [enabled : BOOLEAN, trigger : TriggerId \cup {None},
          actions : ActionLists, force : BOOLEAN]

Status == [phase : Phase, run : Run \cup {NoRun}, active : Seq(ActiveAction),
           lastCompleted : RunId \cup {None}, history : Seq(HistoryEntry),
           ready : BOOLEAN, revertFailed : BOOLEAN]

Job == [state : {"present", "deleting", "gone"}, finalizer : BOOLEAN,
        spec : Spec_, status : Status]

\* What a pass can be about to do: the call it makes next.
PassStep ==
    {"idle", "addFinalizer", "reject", "settle", "start", "disable", "action", "applied",
     "ensureFailed", "markReverting", "revert", "drained", "reverting", "revertFailed",
     "finish", "release", "leak"}

NewStatus == [phase |-> "", run |-> NoRun, active |-> <<>>, lastCompleted |-> None,
              history |-> <<>>, ready |-> FALSE, revertFailed |-> FALSE]

\* Blank is also what the locals of a finished pass are reset to.
Blank == [state |-> "present", finalizer |-> FALSE, status |-> NewStatus,
          spec |-> [enabled |-> FALSE, trigger |-> None, force |-> FALSE,
                    actions |-> CHOOSE l \in ActionLists : TRUE]]

\* The locals of reconcileActivate, fixed or advanced independently of fs.
Loop == [start : 0..MaxRuns, i : Nat, n : Nat, act : Action \cup {None}, all : BOOLEAN]

NoLoop == [start |-> 0, i |-> 0, n |-> 0, act |-> None, all |-> FALSE]

-----------------------------------------------------------------------------
(* helpers.go                                                              *)

Names(active) == {active[k].name : k \in DOMAIN active}

\* validateSpec: at least one action and no name twice.
ValidSpec(spec) == spec.actions # <<>> /\ IsInjective(spec.actions)

\* findActiveAction; names in a status are unique (UniqueTokens).
Position(active, a) == CHOOSE k \in DOMAIN active : active[k].name = a

\* statusMutation: the entry of action a becomes Change of itself.
Changed(active, a, Change(_)) ==
    [k \in DOMAIN active |-> IF active[k].name = a THEN Change(active[k]) ELSE active[k]]

MarkedApplied(active, a) == Changed(active, a,
    LAMBDA e : [e EXCEPT !.phase = "Applied", !.attempts = 0, !.failed = FALSE])

Capped(n) == IF n > DegradedAfter THEN DegradedAfter ELSE n

MarkedFailing(active, a) == Changed(active, a,
    LAMBDA e : [e EXCEPT !.attempts = Capped(e.attempts + 1), !.failed = TRUE])

MarkedReverting(active, a) == Changed(active, a,
    LAMBDA e : [e EXCEPT !.phase = "Reverting", !.failed = FALSE])

MarkedRevertFailing(active, a, attempts) == Changed(active, a,
    LAMBDA e : [e EXCEPT !.phase = "Reverting", !.attempts = attempts, !.failed = TRUE])

\* Variant: the oldest token is dropped, whichever was reverted.
WithoutOldest(active, a) == IF a \in Names(active) THEN Tail(active) ELSE active

Without(active, a) ==
    IF a \in Names(active) THEN RemoveAt(active, Position(active, a)) ELSE active

ManualPending(f) ==
    f.spec.trigger # None /\ f.spec.trigger # f.status.lastCompleted

\* desiredRun: sticky enabled wins over a pending manual trigger.
Wanted(f) == f.spec.enabled \/ ManualPending(f)

\* Variant: an enabled run takes the trigger's id instead of one of its own.
DesiredRunTriggerId(f, n) ==
    LET kind == IF f.spec.enabled THEN "enabled" ELSE "manual" IN
    [id |-> f.spec.trigger, trigger |-> kind, start |-> n, timed |-> kind \in TimedTrigger]

DesiredRun(f, n) ==
    LET kind == IF f.spec.enabled THEN "enabled" ELSE "manual" IN
    [id |-> IF f.spec.enabled THEN n ELSE f.spec.trigger,
     trigger |-> kind, start |-> n, timed |-> kind \in TimedTrigger]

RunStillWanted(f) ==
    IF f.status.run.trigger = "enabled" THEN f.spec.enabled
                                        ELSE f.spec.trigger = f.status.run.id

AppendHistory(history, entry) ==
    LET h == Append(history, entry) IN
    IF Len(h) > HistoryCap THEN Tail(h) ELSE h

RunExpired(run) == run.timed /\ run.start \in expired

-----------------------------------------------------------------------------
(* Reads, writes and the informer cache.                                   *)

Cached == IF backlog = <<>> THEN job ELSE Head(backlog)

\* The API server stores j.  The watch event that follows queues the key; a
\* write that changes nothing makes no event.
Write(j, requeue) ==
    /\ job' = j
    /\ backlog' = IF j = job \/ CacheLag = 0 THEN backlog
                  ELSE IF Len(backlog) < CacheLag THEN Append(backlog, job)
                  ELSE Append(Tail(backlog), job)
    /\ queued' = (queued \/ requeue \/ j # job)

Ends(next) == next = "idle"

\* patchStatus: Get from the cache, mutate, Status().Update.  The update is
\* accepted only if the cache had the stored version, and leaves fs equal to it.
PatchStatus(s, next) ==
    /\ job.state # "gone"
    /\ backlog = <<>>
    /\ LET j == [job EXCEPT !.status = s] IN
       /\ Write(j, Ends(next))
       /\ fs' = IF Ends(next) THEN Blank ELSE j
    /\ pc' = next

\* r.Update(fs): accepted only if fs is the stored version.
UpdateJob(j, next) ==
    /\ job.state # "gone"
    /\ fs = job
    /\ Write(j, FALSE)
    /\ fs' = IF Ends(next) THEN Blank ELSE j
    /\ pc' = next

\* The end of a pass: its locals are dropped and its Result requeues the key.
EndPass(requeue) ==
    /\ pc' = "idle"
    /\ fs' = Blank
    /\ loop' = NoLoop
    /\ queued' = (queued \/ requeue)
    /\ UNCHANGED <<job, backlog>>

-----------------------------------------------------------------------------
(* Reconcile: what a pass does with the object it read.                    *)

\* Variants: the drained check is missing; a run is closed without a drain; a
\* Degraded scenario is given up on.
RevertStepUnchecked(f, drained) ==
    IF f.status.phase \notin {"Reverting", "Degraded"} THEN "markReverting" ELSE "revert"

RevertStepNoDrain(f, drained) == drained

RevertStepGivesUp(f, drained) ==
    IF f.status.active = <<>> THEN drained
    ELSE IF f.status.phase = "Degraded" THEN "idle"
    ELSE IF f.status.phase # "Reverting" THEN "markReverting"
    ELSE "revert"

\* reconcileRevert up to its first call; drained says what an empty list means.
RevertStep(f, drained) ==
    IF f.status.active = <<>> THEN drained
    ELSE IF f.status.phase \notin {"Reverting", "Degraded"} THEN "markReverting"
    ELSE "revert"

\* Variant: force-release removes the finalizer without leaking the tokens.
DispatchDeleteNoLeak(f) ==
    IF ~f.finalizer THEN "idle"
    ELSE IF f.spec.force THEN "release"
    ELSE RevertStep(f, "release")

DispatchDelete(f) ==
    IF ~f.finalizer THEN "idle"
    ELSE IF f.spec.force /\ f.status.active # <<>> THEN "leak"
    ELSE RevertStep(f, "release")

\* Variant: a newer request starts at once and displaces the run in flight.
DispatchRunPreempts(f) ==
    IF RunStillWanted(f) /\ ~RunExpired(f.status.run) THEN "action"
    ELSE IF Wanted(f) THEN "start"
    ELSE RevertStep(f, "finish")

\* The run's end is decided against the clock and the spec as read.
DispatchRun(f) ==
    LET over == RunExpired(f.status.run) IN
    IF over /\ f.status.run.trigger = "enabled" /\ f.spec.enabled THEN "disable"
    ELSE IF over \/ ~RunStillWanted(f) THEN RevertStep(f, "finish")
    ELSE "action"

DispatchNoRun(f) ==
    IF f.status.active # <<>> THEN RevertStep(f, "finish")
    ELSE IF Wanted(f) THEN "start"
    ELSE IF f.status.phase = "Idle" /\ f.status.ready THEN "idle"
    ELSE "settle"

DispatchLive(f) ==
    IF ~ValidSpec(f.spec) THEN "reject"
    ELSE IF f.status.run = NoRun THEN DispatchNoRun(f)
    ELSE DispatchRun(f)

\* Variant: the spec is validated before a deletion is looked at.
DispatchValidatesFirst(f) ==
    IF f.state = "gone" THEN "idle"
    ELSE IF f.finalizer /\ ~ValidSpec(f.spec) THEN "reject"
    ELSE IF f.state = "deleting" THEN DispatchDelete(f)
    ELSE IF ~f.finalizer THEN "addFinalizer"
    ELSE DispatchLive(f)

Dispatch(f) ==
    IF f.state = "gone" THEN "idle"
    ELSE IF f.state = "deleting" THEN DispatchDelete(f)
    ELSE IF ~f.finalizer THEN "addFinalizer"
    ELSE DispatchLive(f)

ActionAt(f, i) == IF i \in DOMAIN f.spec.actions THEN f.spec.actions[i] ELSE None

LoopFor(next, f) ==
    IF next # "action" THEN NoLoop
    ELSE [start |-> f.status.run.start, i |-> 1, n |-> Len(f.spec.actions),
          act |-> ActionAt(f, 1), all |-> TRUE]

\* A worker takes the key and reads the object from the cache.
ReadJob ==
    /\ pc = "idle" /\ queued
    /\ ReadsOwnWrites => Cached.status = job.status
    /\ LET next == Dispatch(Cached) IN
       /\ pc' = next
       /\ fs' = IF Ends(next) THEN Blank ELSE Cached
       /\ loop' = LoopFor(next, Cached)
    /\ queued' = FALSE
    /\ UNCHANGED <<job, backlog, clock, world, budget>>

AddFinalizer ==
    /\ pc = "addFinalizer"
    /\ LET j == [fs EXCEPT !.finalizer = TRUE] IN
       /\ UpdateJob(j, DispatchLive(j))
       /\ loop' = LoopFor(DispatchLive(j), j)
    /\ UNCHANGED <<clock, world, budget>>

\* The CRD's default for a phase that was never set.
Defaulted(phase) == IF phase = "" THEN "Idle" ELSE phase

\* An invalid spec stops the pass; it asks for no requeue.
RejectInvalid ==
    /\ pc = "reject"
    /\ job.state # "gone" /\ backlog = <<>>
    /\ Write([job EXCEPT !.status.ready = FALSE, !.status.phase = Defaulted(@)], FALSE)
    /\ pc' = "idle" /\ fs' = Blank
    /\ UNCHANGED <<loop, clock, world, budget>>

\* Auto-expiry of an enabled run flips enabled off.
DisableExpired ==
    /\ pc = "disable"
    /\ LET j == [fs EXCEPT !.spec.enabled = FALSE] IN
       UpdateJob(j, RevertStep(j, "finish"))
    /\ UNCHANGED <<loop, clock, world, budget>>

SettleIdle ==
    /\ pc = "settle"
    /\ job.state # "gone" /\ backlog = <<>>
    /\ Write([job EXCEPT !.status.phase = "Idle", !.status.ready = TRUE], FALSE)
    /\ pc' = "idle" /\ fs' = Blank
    /\ UNCHANGED <<loop, clock, world, budget>>

\* maybeStartRun: the patch overwrites whatever run the stored status has.
StartRun ==
    /\ pc = "start"
    /\ starts < MaxRuns
    /\ starts' = starts + 1
    /\ PatchStatus([job.status EXCEPT !.run = DesiredRun(fs, starts + 1),
                                      !.phase = "Activating"], "idle")
    /\ UNCHANGED <<loop, matured, expired, world, budget>>

-----------------------------------------------------------------------------
(* reconcileActivate: one pass over spec.actions.                          *)

\* The loop's length is fixed when it starts; its element is taken from the
\* pass's copy when the index reaches it.
InLoop == pc = "action" /\ loop.i <= loop.n /\ loop.act # None

Recorded == loop.act \in Names(fs.status.active)

Due == loop.act \in Delayed => loop.start \in matured

Token == fs.status.active[Position(fs.status.active, loop.act)]

\* Variant: allApplied ignores what the actions reported.
AdvanceAllApplied(applied, f) ==
    loop' = [loop EXCEPT !.i = loop.i + 1, !.act = ActionAt(f, loop.i + 1)]

Advance(applied, f) ==
    loop' = [loop EXCEPT !.i = loop.i + 1, !.act = ActionAt(f, loop.i + 1),
                         !.all = loop.all /\ applied]

Fault == faults < MaxFaults /\ faults' = faults + 1

\* The failure of action a is, or is not, in effect after a call that reported
\* less than success.
MayChange(a, value) ==
    \E v \in {injected[a], value} : injected' = [injected EXCEPT ![a] = v]

SkipDelayed ==
    /\ InLoop /\ ~Recorded /\ ~Due
    /\ Advance(FALSE, fs)
    /\ UNCHANGED <<job, backlog, queued, pc, fs, clock, world, budget>>

PlanFails ==
    /\ InLoop /\ ~Recorded /\ Due /\ Fault
    /\ PatchStatus([job.status EXCEPT !.ready = FALSE], "action")
    /\ Advance(FALSE, fs')
    /\ UNCHANGED <<clock, world, used, ops>>

\* Variant: the token is appended without looking for one already stored.
PersistTokenTwice ==
    /\ InLoop /\ ~Recorded /\ Due
    /\ LET entry == [name |-> loop.act, phase |-> "Recorded", attempts |-> 0, failed |-> FALSE]
       IN PatchStatus([job.status EXCEPT !.active = Append(@, entry),
                                         !.phase = "Activating"], "action")
    /\ loop' = [loop EXCEPT !.all = FALSE]
    /\ UNCHANGED <<clock, world, budget>>

\* Plan reads the target, then its token is persisted before anything changes.
PersistToken ==
    /\ InLoop /\ ~Recorded /\ Due
    /\ LET entry == [name |-> loop.act, phase |-> "Recorded", attempts |-> 0, failed |-> FALSE]
           old   == job.status.active
       IN PatchStatus([job.status EXCEPT
               !.active = IF loop.act \in Names(old) THEN old ELSE Append(old, entry),
               !.phase = "Activating"], "action")
    /\ loop' = [loop EXCEPT !.all = FALSE]
    /\ UNCHANGED <<clock, world, budget>>

EnsureDone ==
    /\ InLoop /\ Recorded
    /\ injected' = [injected EXCEPT ![loop.act] = TRUE]
    /\ IF Token.phase # "Applied" \/ Token.failed
         THEN pc' = "applied" /\ UNCHANGED loop
         ELSE Advance(TRUE, fs) /\ UNCHANGED pc
    /\ UNCHANGED <<job, backlog, queued, fs, clock, leaked, budget>>

EnsurePending ==
    /\ InLoop /\ Recorded /\ Fault
    /\ MayChange(loop.act, TRUE)
    /\ Advance(FALSE, fs)
    /\ UNCHANGED <<job, backlog, queued, pc, fs, clock, leaked, used, ops>>

EnsureFails ==
    /\ InLoop /\ Recorded /\ Fault
    /\ MayChange(loop.act, TRUE)
    /\ pc' = "ensureFailed"
    /\ UNCHANGED <<job, backlog, queued, fs, loop, clock, leaked, used, ops>>

MarkApplied ==
    /\ pc = "applied"
    /\ PatchStatus([job.status EXCEPT !.active = MarkedApplied(@, loop.act)], "action")
    /\ Advance(TRUE, fs')
    /\ UNCHANGED <<clock, world, budget>>

MarkEnsureFailed ==
    /\ pc = "ensureFailed"
    /\ PatchStatus([job.status EXCEPT !.active = MarkedFailing(@, loop.act)], "action")
    /\ Advance(Token.phase = "Applied", fs')
    /\ UNCHANGED <<clock, world, budget>>

LoopDone == pc = "action" /\ loop.i > loop.n

Settled == fs.status.phase = (IF loop.all THEN "Active" ELSE "Activating") /\ fs.status.ready

SettlePhase ==
    /\ LoopDone /\ ~Settled
    /\ PatchStatus([job.status EXCEPT
            !.phase = IF loop.all THEN "Active" ELSE "Activating",
            !.ready = loop.all \/ job.status.ready], "idle")
    /\ loop' = NoLoop
    /\ UNCHANGED <<clock, world, budget>>

\* Variant: the pass asks for no wake-up.
HoldSteadyAsleep ==
    /\ LoopDone /\ Settled
    /\ EndPass(FALSE)
    /\ UNCHANGED <<clock, world, budget>>

\* Nothing to report: wake up again at the resync period or at the run's expiry.
HoldSteady ==
    /\ LoopDone /\ Settled
    /\ EndPass(TRUE)
    /\ UNCHANGED <<clock, world, budget>>

\* The list got shorter under the loop, whose length was fixed at its start: the
\* index expression panics, controller-runtime recovers and requeues.
ListShrank ==
    /\ pc = "action" /\ loop.i <= loop.n /\ loop.act = None
    /\ EndPass(TRUE)
    /\ UNCHANGED <<clock, world, budget>>

-----------------------------------------------------------------------------
(* reconcileRevert and finishRun                                           *)

\* Variant: the list is drained from its front.
OldestFirst == fs.status.active[1]

Newest == fs.status.active[Len(fs.status.active)]

MarkReverting ==
    /\ pc = "markReverting"
    /\ PatchStatus([job.status EXCEPT !.phase = "Reverting"], "revert")
    /\ UNCHANGED <<loop, clock, world, budget>>

\* Revert reports done only when the target is back to normal.
RevertDone ==
    /\ pc = "revert" /\ fs.status.active # <<>>
    /\ injected' = [injected EXCEPT ![Newest.name] = FALSE]
    /\ pc' = "drained"
    /\ UNCHANGED <<job, backlog, queued, fs, loop, clock, leaked, budget>>

\* Variant: a revert that is still in progress is taken for a finished one.
RevertUnfinishedDropped ==
    /\ pc = "revert" /\ fs.status.active # <<>> /\ Fault
    /\ MayChange(Newest.name, FALSE)
    /\ pc' \in {"drained", "revertFailed"}
    /\ UNCHANGED <<job, backlog, queued, fs, loop, clock, leaked, used, ops>>

RevertUnfinished ==
    /\ pc = "revert" /\ fs.status.active # <<>> /\ Fault
    /\ MayChange(Newest.name, FALSE)
    /\ pc' \in {"reverting", "revertFailed"}
    /\ UNCHANGED <<job, backlog, queued, fs, loop, clock, leaked, used, ops>>

\* The copy was refreshed from a status whose last token has gone meanwhile: the
\* index expression panics, as in ListShrank.
RevertPanics ==
    /\ pc = "revert" /\ fs.status.active = <<>>
    /\ EndPass(TRUE)
    /\ UNCHANGED <<clock, world, budget>>

DropToken ==
    /\ pc = "drained"
    /\ PatchStatus([job.status EXCEPT !.active = Without(@, Newest.name)], "idle")
    /\ UNCHANGED <<loop, clock, world, budget>>

MarkActionReverting ==
    /\ pc = "reverting"
    /\ PatchStatus([job.status EXCEPT !.active = MarkedReverting(@, Newest.name)], "idle")
    /\ UNCHANGED <<loop, clock, world, budget>>

\* attempts is computed from the pass's copy; from DegradedAfter on the whole
\* scenario is Degraded, and the revert is retried all the same.
MarkRevertFailed ==
    /\ pc = "revertFailed"
    /\ LET attempts == Capped(Newest.attempts + 1)
           degraded == attempts = DegradedAfter
       IN PatchStatus([job.status EXCEPT
              !.active = MarkedRevertFailing(@, Newest.name, attempts),
              !.phase = IF degraded THEN "Degraded" ELSE @,
              !.revertFailed = degraded \/ @], "idle")
    /\ UNCHANGED <<loop, clock, world, budget>>

\* Variant: the books are closed but the run stays open.
FinishRunStaysOpen ==
    /\ pc = "finish"
    /\ LET run   == fs.status.run
           entry == [id |-> run.id, start |-> run.start, result |-> "Reverted"]
       IN PatchStatus([job.status EXCEPT !.history = AppendHistory(@, entry),
                                         !.lastCompleted = run.id, !.phase = "Idle"], "idle")
    /\ UNCHANGED <<loop, clock, world, budget>>

FinishRun ==
    /\ pc = "finish"
    /\ LET run   == fs.status.run
           entry == [id |-> run.id, start |-> run.start,
                     result |-> IF RunExpired(run) THEN "Completed" ELSE "Reverted"]
       IN PatchStatus([job.status EXCEPT
              !.history = AppendHistory(@, entry), !.lastCompleted = run.id,
              !.run = NoRun, !.phase = "Idle", !.ready = TRUE, !.revertFailed = FALSE],
              "idle")
    /\ UNCHANGED <<loop, clock, world, budget>>

\* The finalizer is removed from a deleted object, which then disappears.
ReleaseFinalizer ==
    /\ pc = "release"
    /\ UpdateJob([fs EXCEPT !.finalizer = FALSE, !.state = "gone"], "idle")
    /\ UNCHANGED <<loop, clock, world, budget>>

\* leakState: the tokens in the pass's copy go to the ConfigMap.  It reads that
\* through the cache, whose informer has to list and watch first: where the Role
\* grants neither, as rbac.yaml does not, the pass stands here for good.
LeakTokens ==
    /\ pc = "leak" /\ WatchesConfigMaps
    /\ leaked' = leaked \cup Names(fs.status.active)
    /\ pc' = "release"
    /\ UNCHANGED <<job, backlog, queued, fs, loop, clock, injected, budget>>

-----------------------------------------------------------------------------
(* What overtakes a pass.                                                  *)

NextCallPatches ==
    \/ pc \in {"reject", "settle", "start", "applied", "ensureFailed", "markReverting",
               "drained", "reverting", "revertFailed", "finish"}
    \/ InLoop /\ ~Recorded /\ Due
    \/ LoopDone /\ ~Settled

NextCallUpdates == pc \in {"addFinalizer", "disable", "release"}

\* Every retry of the write met a newer version, or the object is gone: the pass
\* returns the error and the key is requeued with backoff.
Conflict ==
    /\ \/ NextCallPatches /\ (backlog # <<>> \/ job.state = "gone")
       \/ NextCallUpdates /\ fs # job
    /\ EndPass(TRUE)
    /\ UNCHANGED <<clock, world, budget>>

\* The operator dies, or an API call fails, between two calls of a pass: a
\* restarted operator lists every object and queues it.
Abandon ==
    /\ pc # "idle" /\ Fault
    /\ EndPass(TRUE)
    /\ UNCHANGED <<clock, world, used, ops>>

\* The cache moves to the next version, and the event queues the key.
Deliver ==
    /\ backlog # <<>>
    /\ backlog' = Tail(backlog)
    /\ queued' = TRUE
    /\ UNCHANGED <<job, pc, fs, loop, clock, world, budget>>

DelayElapses ==
    /\ Delayed # {}
    /\ \E n \in (1..starts) \ matured : matured' = matured \cup {n}
    /\ UNCHANGED <<job, backlog, queued, pc, fs, loop, starts, expired, world, budget>>

RunExpires ==
    /\ job.status.run # NoRun
    /\ job.status.run.timed /\ job.status.run.start \notin expired
    /\ expired' = expired \cup {job.status.run.start}
    /\ UNCHANGED <<job, backlog, queued, pc, fs, loop, starts, matured, world, budget>>

\* A failure ends by itself: a chaos experiment runs out, a rollout replaces it.
EffectEnds ==
    /\ \E a \in Action : injected[a] /\ injected' = [injected EXCEPT ![a] = FALSE]
    /\ UNCHANGED <<job, backlog, queued, pc, fs, loop, clock, leaked, budget>>

-----------------------------------------------------------------------------
(* Users: the HTTP API (handleEnable, handleDisable, handleRun) and kubectl. *)

UserWrites(j) ==
    /\ job.state # "gone" /\ j # job
    /\ ops < MaxUserOps /\ ops' = ops + 1
    /\ Write(j, FALSE)
    /\ UNCHANGED <<pc, fs, loop, clock, world, faults>>

Enable  == UserWrites([job EXCEPT !.spec.enabled = TRUE]) /\ UNCHANGED used

Disable == /\ UserWrites([job EXCEPT !.spec.enabled = FALSE, !.spec.trigger = None])
           /\ UNCHANGED used

\* kubectl patch of spec.enabled leaves the trigger where it is.
SwitchOff == UserWrites([job EXCEPT !.spec.enabled = FALSE]) /\ UNCHANGED used

RequestRun(id) ==
    /\ id \notin used
    /\ UserWrites([job EXCEPT !.spec.trigger = id])
    /\ used' = used \cup {id}

EditActions(list) == UserWrites([job EXCEPT !.spec.actions = list]) /\ UNCHANGED used

Delete ==
    /\ job.state = "present"
    /\ UserWrites([job EXCEPT !.state = IF job.finalizer THEN "deleting" ELSE "gone"])
    /\ UNCHANGED used

ForceRelease == UserWrites([job EXCEPT !.spec.force = TRUE]) /\ UNCHANGED used

-----------------------------------------------------------------------------

Init ==
    /\ \E list \in ActionLists : job = [Blank EXCEPT !.spec.actions = list]
    /\ backlog = <<>> /\ queued = TRUE
    /\ pc = "idle" /\ fs = Blank /\ loop = NoLoop
    /\ starts = 0 /\ matured = {} /\ expired = {}
    /\ injected = [a \in Action |-> FALSE] /\ leaked = {}
    /\ used = {} /\ ops = 0 /\ faults = 0

Activation ==
    \/ SkipDelayed \/ PlanFails \/ PersistToken
    \/ EnsureDone \/ EnsurePending \/ EnsureFails \/ MarkApplied \/ MarkEnsureFailed
    \/ SettlePhase \/ HoldSteady \/ ListShrank

Reversion ==
    \/ MarkReverting \/ RevertDone \/ RevertUnfinished \/ RevertPanics
    \/ DropToken \/ MarkActionReverting \/ MarkRevertFailed
    \/ FinishRun \/ ReleaseFinalizer \/ LeakTokens

Pass ==
    \/ ReadJob \/ AddFinalizer \/ RejectInvalid \/ DisableExpired \/ SettleIdle \/ StartRun
    \/ Activation \/ Reversion \/ Conflict

Clock == DelayElapses \/ RunExpires

User ==
    \/ Enable \/ Disable \/ SwitchOff \/ Delete \/ ForceRelease
    \/ \E id \in TriggerId : RequestRun(id)
    \/ \E list \in ActionLists : EditActions(list)

Next == Pass \/ Abandon \/ Deliver \/ Clock \/ EffectEnds \/ User

Spec == Init /\ [][Next]_vars

\* The operator keeps running (leader election restarts it), watch events
\* arrive, time passes.  Users and faults owe nothing.
FairSpec == Spec /\ WF_vars(Pass) /\ WF_vars(Deliver) /\ WF_vars(Clock)
-----------------------------------------------------------------------------
(* Properties.                                                             *)

\* Type invariant: every variable keeps its shape; a run in a status has begun.
TypeOK ==
    /\ job \in Job /\ fs \in Job
    /\ backlog \in Seq(Job) /\ Len(backlog) <= CacheLag
    /\ queued \in BOOLEAN
    /\ pc \in PassStep
    /\ loop \in Loop
    /\ starts \in 0..MaxRuns /\ matured \subseteq 1..MaxRuns /\ expired \subseteq 1..MaxRuns
    /\ injected \in [Action -> BOOLEAN] /\ leaked \subseteq Action
    /\ used \subseteq TriggerId /\ ops \in 0..MaxUserOps /\ faults \in 0..MaxFaults

\* Whatever is injected has its revert token in the status of an object that
\* still exists, or in the ConfigMap once an operator asked for a forced release
\* (plan -> persist token -> mutate).
TokenCoversInjection ==
    \A a \in Action : injected[a] =>
        a \in leaked \/ (job.state # "gone" /\ a \in Names(job.status.active))

\* While tokens are recorded the finalizer keeps the object; it goes without
\* them only after they were leaked to the ConfigMap.
FinalizerGuardsTokens == ~job.finalizer => Names(job.status.active) \subseteq leaked

\* findActiveAction addresses tokens by name: no name is ever recorded twice,
\* not even when a list with a duplicate name arrives in the middle of a pass.
UniqueTokens ==
    \A k, l \in DOMAIN job.status.active :
        job.status.active[k].name = job.status.active[l].name => k = l

\* reconcileRevert takes the last element of a list it may have just re-read: as
\* long as passes see the operator's own writes, the list is never empty there
\* (index -1 would panic).
RevertHasToken ==
    pc \in {"revert", "drained", "reverting", "revertFailed"} => fs.status.active # <<>>

\* However late the cache is, a pass that panics there has nothing left to revert:
\* no stored token is passed over.
PanicIsDrained ==
    pc = "revert" /\ fs.status.active = <<>> => job.status.active = <<>>

\* Phase Idle, which the start-up sweeper and the UI trust, means nothing is
\* recorded and no run is open.
IdleMeansDrained ==
    job.status.phase = "Idle" => job.status.run = NoRun /\ job.status.active = <<>>

\* Phase Active means every listed action has been applied, across failures,
\* restarts, and a scenario switched back on in the middle of its revert.
ActiveIsComplete ==
    job.status.phase = "Active" =>
        \A a \in ToSet(job.spec.actions) : \E k \in DOMAIN job.status.active :
            job.status.active[k].name = a /\ job.status.active[k].phase = "Applied"

\* finishRun closes the books of each run once.
HistoryHasRunOnce ==
    \A k, l \in DOMAIN job.status.history :
        job.status.history[k].start = job.status.history[l].start => k = l

\* A failure begins only while its token is in the stored status.
InjectsOnlyRecorded ==
    [][\A a \in Action : ~injected[a] /\ injected'[a] => a \in Names(job.status.active)]_vars

\* An open run is only ever closed: maybeStartRun never replaces it.
RunNotReplaced ==
    [][job.status.run # NoRun => job'.status.run \in {job.status.run, NoRun}]_vars

\* finishRun closes the books of a run that is drained.
BooksClosedDrained ==
    [][job.status.run # NoRun /\ job'.status.run = NoRun => job.status.active = <<>>]_vars

\* Tokens leave the status newest first, one per step, as long as passes see the
\* operator's own writes: a copy from before one names a token that is no longer
\* the newest.
DrainsNewestFirst ==
    [][Len(job'.status.active) < Len(job.status.active)
        => \E entry \in ActiveAction : job.status.active = Append(job'.status.active, entry)]_vars

\* The reconciler keeps the promise of DurableRevert.
Durable == INSTANCE DurableRevert WITH
    recorded  <- Names(job.status.active),
    injected  <- {a \in Action : injected[a]},
    abandoned <- leaked,
    released  <- job.state = "gone"

RefinesDurableRevert == Durable!Spec

Restored ==
    /\ job.status.run = NoRun /\ job.status.active = <<>>
    /\ job.status.phase = "Idle" /\ \A a \in Action : ~injected[a]

Unwanted ==
    /\ job.state = "present" /\ ValidSpec(job.spec)
    /\ ~job.spec.enabled /\ job.spec.trigger = None

\* A scenario that is switched off and left alone is restored and goes Idle, as
\* long as passes see the operator's own writes: a pass that starts from a status
\* before the last token was dropped injects a failure that nothing records.
SwitchedOffIsRestored == ReadsOwnWrites => (Unwanted ~> (Restored \/ ~Unwanted))

\* The pass that leaks the tokens never gets to read the ConfigMap.
LeakBlocked == pc = "leak" /\ ~WatchesConfigMaps

\* Deletion drains the tokens and releases the object, whatever the spec says; only
\* a forced release that has tokens to leak stops before the ConfigMap, where the
\* Role does not let the operator watch it.
DeletionCompletes == (job.state = "deleting") ~> (job.state = "gone" \/ LeakBlocked)

RunIs(n) == job.status.run # NoRun /\ job.status.run.start = n

\* A run whose duration has elapsed is closed, though nobody sends an event.
ExpiredRunEnds ==
    \A n \in 1..MaxRuns :
        (RunIs(n) /\ n \in expired) ~> (~RunIs(n) \/ ~ValidSpec(job.spec) \/ job.state # "present")
=============================================================================
