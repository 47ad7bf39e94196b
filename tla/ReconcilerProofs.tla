--------------------------- MODULE ReconcilerProofs ---------------------------
(***************************************************************************)
(* What the reconciler writes into the status: tokens, phase, run, history *)
(* and the order of the revert, for every set of actions and every bound.  *)
(***************************************************************************)
EXTENDS DurableRevertProofs

-----------------------------------------------------------------------------
(* Every status write, by what it does to the books.                       *)

Books(run, history, phase, active) ==
    /\ job'.status.run = run /\ job'.status.history = history
    /\ job'.status.phase = phase /\ job'.status.active = active

WithToken(active, a) ==
    IF a \in Names(active) THEN active
    ELSE Append(active, [name |-> a, phase |-> "Recorded", attempts |-> 0, failed |-> FALSE])

Closed(run) == [id |-> run.id, start |-> run.start,
                result |-> IF RunExpired(run) THEN "Completed" ELSE "Reverted"]

StatusWrite ==
    \/ RejectInvalid \/ SettleIdle \/ StartRun
    \/ PlanFails \/ PersistToken \/ MarkApplied \/ MarkEnsureFailed \/ SettlePhase
    \/ MarkReverting \/ DropToken \/ MarkActionReverting \/ MarkRevertFailed \/ FinishRun

LEMMA BooksWritten ==
    ASSUME TypeOK
    PROVE  LET run == job.status.run          history == job.status.history
               phase == job.status.phase      active == job.status.active
           IN  /\ RejectInvalid => Books(run, history, Defaulted(phase), active)
               /\ SettleIdle => Books(run, history, "Idle", active)
               /\ StartRun => Books(DesiredRun(fs, starts + 1), history, "Activating", active)
               /\ PlanFails => Books(run, history, phase, active)
               /\ PersistToken => Books(run, history, "Activating", WithToken(active, loop.act))
               /\ MarkApplied => Books(run, history, phase, MarkedApplied(active, loop.act))
               /\ MarkEnsureFailed => Books(run, history, phase, MarkedFailing(active, loop.act))
               /\ SettlePhase => Books(run, history, IF loop.all THEN "Active" ELSE "Activating", active)
               /\ MarkReverting => Books(run, history, "Reverting", active)
               /\ DropToken => Books(run, history, phase, Without(active, Newest.name))
               /\ MarkActionReverting =>
                      Books(run, history, phase, MarkedReverting(active, Newest.name))
               /\ MarkRevertFailed =>
                      LET n == Capped(Newest.attempts + 1)
                      IN  Books(run, history, IF n = DegradedAfter THEN "Degraded" ELSE phase,
                                MarkedRevertFailing(active, Newest.name, n))
               /\ FinishRun => Books(NoRun, AppendHistory(history, Closed(fs.status.run)), "Idle", active)
  <1> DEFINE run == job.status.run          history == job.status.history
             phase == job.status.phase      active == job.status.active
  <1>a. job \in Job /\ job.status \in Status
    BY DEF TypeOK, Job
  <1>1. RejectInvalid => Books(run, history, Defaulted(phase), active)
    <2> DEFINE p == Defaulted(job.status.phase)
               j == [job EXCEPT !.status.ready = FALSE, !.status.phase = p]
    <2>1. RejectInvalid => job' = j
      BY DEF RejectInvalid, Write
    <2> HIDE DEF p
    <2>2. /\ j.status.run = run /\ j.status.history = history
          /\ j.status.phase = p /\ j.status.active = active
      BY <1>a DEF Job, Status
    <2> HIDE DEF j
    <2>3. RejectInvalid => Books(run, history, p, active)
      BY <2>1, <2>2 DEF Books
    <2> QED BY <2>3 DEF p
  <1>2. SettleIdle => Books(run, history, "Idle", active)
    <2> DEFINE j == [job EXCEPT !.status.phase = "Idle", !.status.ready = TRUE]
    <2>1. SettleIdle => job' = j
      BY DEF SettleIdle, Write
    <2>2. /\ j.status.run = run /\ j.status.history = history
          /\ j.status.phase = "Idle" /\ j.status.active = active
      BY <1>a DEF Job, Status
    <2> HIDE DEF j
    <2> QED BY <2>1, <2>2 DEF Books
  <1>3. StartRun => Books(DesiredRun(fs, starts + 1), history, "Activating", active)
    <2> DEFINE r == DesiredRun(fs, starts + 1)
    <2> HIDE DEF r
    <2>1. StartRun => job'.status = [job.status EXCEPT !.run = r, !.phase = "Activating"]
      BY PatchEffect DEF StartRun, r
    <2>2. StartRun => Books(r, history, "Activating", active)
      BY <1>a, <2>1 DEF Books, Status
    <2> QED BY <2>2 DEF r
  <1>4. PlanFails => Books(run, history, phase, active)
    <2>1. PlanFails => job'.status = [job.status EXCEPT !.ready = FALSE]
      BY PatchEffect DEF PlanFails
    <2> QED BY <1>a, <2>1 DEF Books, Status
  <1>5. PersistToken => Books(run, history, "Activating", WithToken(active, loop.act))
    <2> DEFINE l == WithToken(active, loop.act)
    <2>1. PersistToken => job'.status = [job.status EXCEPT !.active = l, !.phase = "Activating"]
      BY PatchEffect DEF PersistToken, WithToken
    <2> HIDE DEF l
    <2>2. PersistToken => Books(run, history, "Activating", l)
      BY <1>a, <2>1 DEF Books, Status
    <2> QED BY <2>2 DEF l
  <1>6. MarkApplied => Books(run, history, phase, MarkedApplied(active, loop.act))
    <2> DEFINE l == MarkedApplied(active, loop.act)
    <2>1. MarkApplied => job'.status = [job.status EXCEPT !.active = l]
      BY PatchEffect DEF MarkApplied
    <2> HIDE DEF l
    <2>2. MarkApplied => Books(run, history, phase, l)
      BY <1>a, <2>1 DEF Books, Status
    <2> QED BY <2>2 DEF l
  <1>7. MarkEnsureFailed => Books(run, history, phase, MarkedFailing(active, loop.act))
    <2> DEFINE l == MarkedFailing(active, loop.act)
    <2>1. MarkEnsureFailed => job'.status = [job.status EXCEPT !.active = l]
      BY PatchEffect DEF MarkEnsureFailed
    <2> HIDE DEF l
    <2>2. MarkEnsureFailed => Books(run, history, phase, l)
      BY <1>a, <2>1 DEF Books, Status
    <2> QED BY <2>2 DEF l
  <1>8. SettlePhase => Books(run, history, IF loop.all THEN "Active" ELSE "Activating", active)
    <2> DEFINE p == IF loop.all THEN "Active" ELSE "Activating"
    <2>1. SettlePhase => job'.status = [job.status EXCEPT !.phase = p,
                                                          !.ready = loop.all \/ job.status.ready]
      BY PatchEffect DEF SettlePhase
    <2> HIDE DEF p
    <2>2. SettlePhase => Books(run, history, p, active)
      BY <1>a, <2>1 DEF Books, Status
    <2> QED BY <2>2 DEF p
  <1>9. MarkReverting => Books(run, history, "Reverting", active)
    <2>1. MarkReverting => job'.status = [job.status EXCEPT !.phase = "Reverting"]
      BY PatchEffect DEF MarkReverting
    <2> QED BY <1>a, <2>1 DEF Books, Status
  <1>10. DropToken => Books(run, history, phase, Without(active, Newest.name))
    <2> DEFINE l == Without(active, Newest.name)
    <2>1. DropToken => job'.status = [job.status EXCEPT !.active = l]
      BY PatchEffect DEF DropToken
    <2> HIDE DEF l
    <2>2. DropToken => Books(run, history, phase, l)
      BY <1>a, <2>1 DEF Books, Status
    <2> QED BY <2>2 DEF l
  <1>11. MarkActionReverting => Books(run, history, phase, MarkedReverting(active, Newest.name))
    <2> DEFINE l == MarkedReverting(active, Newest.name)
    <2>1. MarkActionReverting => job'.status = [job.status EXCEPT !.active = l]
      BY PatchEffect DEF MarkActionReverting
    <2> HIDE DEF l
    <2>2. MarkActionReverting => Books(run, history, phase, l)
      BY <1>a, <2>1 DEF Books, Status
    <2> QED BY <2>2 DEF l
  <1>12. MarkRevertFailed =>
             LET n == Capped(Newest.attempts + 1)
             IN  Books(run, history, IF n = DegradedAfter THEN "Degraded" ELSE phase,
                       MarkedRevertFailing(active, Newest.name, n))
    <2> DEFINE n == Capped(Newest.attempts + 1)
               p == IF n = DegradedAfter THEN "Degraded" ELSE phase
               l == MarkedRevertFailing(active, Newest.name, n)
    <2>1. MarkRevertFailed =>
              job'.status = [job.status EXCEPT !.active = l, !.phase = p,
                                               !.revertFailed = n = DegradedAfter \/ @]
      BY PatchEffect DEF MarkRevertFailed
    <2> HIDE DEF n, p, l
    <2>2. MarkRevertFailed => Books(run, history, p, l)
      BY <1>a, <2>1 DEF Books, Status
    <2> QED BY <2>2 DEF n, p, l
  <1>13. FinishRun => Books(NoRun, AppendHistory(history, Closed(fs.status.run)), "Idle", active)
    <2> DEFINE id == fs.status.run.id
               h == AppendHistory(history, Closed(fs.status.run))
    <2>1. FinishRun => job'.status = [job.status EXCEPT
              !.history = h, !.lastCompleted = id,
              !.run = NoRun, !.phase = "Idle", !.ready = TRUE, !.revertFailed = FALSE]
      BY PatchEffect DEF FinishRun, Closed
    <2> HIDE DEF id, h
    <2>2. FinishRun => Books(NoRun, h, "Idle", active)
      BY <1>a, <2>1 DEF Books, Status
    <2> QED BY <2>2 DEF h
  <1> QED BY <1>1, <1>2, <1>3, <1>4, <1>5, <1>6, <1>7, <1>8, <1>9, <1>10, <1>11, <1>12, <1>13

\* Nothing else writes the status: not the other calls of a pass, and no user.
LEMMA OnlyStatusWrites ==
    ASSUME TypeOK, [Next]_vars, ~StatusWrite
    PROVE  job'.status = job.status /\ starts' = starts
  <1>a. job \in Job /\ fs \in Job
    BY DEF TypeOK
  <1>1. CASE UNCHANGED vars
    BY <1>1 DEF vars, clock
  <1>2. CASE ReadJob \/ SkipDelayed \/ EnsureDone \/ EnsurePending \/ EnsureFails \/ HoldSteady
              \/ ListShrank \/ RevertDone \/ RevertUnfinished \/ RevertPanics \/ LeakTokens
              \/ Conflict \/ Abandon \/ Deliver \/ Clock \/ EffectEnds
    BY <1>2 DEF ReadJob, SkipDelayed, EnsureDone, EnsurePending, EnsureFails, HoldSteady, ListShrank,
                RevertDone, RevertUnfinished, RevertPanics, LeakTokens, Conflict, Abandon, Deliver,
                Clock, DelayElapses, RunExpires, EffectEnds, EndPass, clock
  <1>3. CASE AddFinalizer
    <2> DEFINE j == [fs EXCEPT !.finalizer = TRUE]
    <2>1. j.status = fs.status
      BY <1>a DEF Job
    <2>2. UpdateJob(j, DispatchLive(j)) /\ starts' = starts
      BY <1>3 DEF AddFinalizer, clock
    <2> HIDE DEF j
    <2> QED BY <2>1, <2>2, UpdateEffect
  <1>4. CASE DisableExpired
    <2> DEFINE j == [fs EXCEPT !.spec.enabled = FALSE]
    <2>1. j.status = fs.status
      BY <1>a DEF Job
    <2>2. UpdateJob(j, RevertStep(j, "finish")) /\ starts' = starts
      BY <1>4 DEF DisableExpired, clock
    <2> HIDE DEF j
    <2> QED BY <2>1, <2>2, UpdateEffect
  <1>5. CASE ReleaseFinalizer
    <2> DEFINE j == [fs EXCEPT !.finalizer = FALSE, !.state = "gone"]
    <2>1. j.status = fs.status
      BY <1>a DEF Job
    <2>2. UpdateJob(j, "idle") /\ starts' = starts
      BY <1>5 DEF ReleaseFinalizer, clock
    <2> HIDE DEF j
    <2> QED BY <2>1, <2>2, UpdateEffect
  <1>6. CASE User
    <2>1. job'.status = job.status
      BY <1>6, UserEffect DEF KeptByUsers, KeepsStatus
    <2>2. starts' = starts
      BY <1>6 DEF User, Enable, Disable, SwitchOff, Delete, ForceRelease, RequestRun, EditActions,
                  UserWrites, clock
    <2> QED BY <2>1, <2>2
  <1> QED BY <1>1, <1>2, <1>3, <1>4, <1>5, <1>6 DEF Next, Pass, Activation, Reversion, StatusWrite

-----------------------------------------------------------------------------
(* The list of tokens.                                                     *)

Distinct(s) == \A k, l \in DOMAIN s : s[k].name = s[l].name => k = l

LEMMA DistinctKept ==
    ASSUME NEW s, NEW t, Distinct(s), KeepsNames(s, t)
    PROVE  Distinct(t)
  BY DEF Distinct, KeepsNames

LEMMA TokenAppended ==
    ASSUME NEW s \in Seq(ActiveAction), NEW a \in Action, a \notin Names(s)
    PROVE  /\ WithToken(s, a) \in Seq(ActiveAction)
           /\ Len(WithToken(s, a)) = Len(s) + 1
           /\ \A k \in DOMAIN s : WithToken(s, a)[k] = s[k]
           /\ WithToken(s, a)[Len(s) + 1].name = a
  <1> DEFINE e == [name |-> a, phase |-> "Recorded", attempts |-> 0, failed |-> FALSE]
  <1>1. e \in ActiveAction /\ e.name = a
    BY ConstantsAssumption DEF ActiveAction
  <1>2. WithToken(s, a) = Append(s, e)
    BY DEF WithToken
  <1> HIDE DEF e
  <1> QED BY <1>1, <1>2

LEMMA DistinctAppended ==
    ASSUME NEW s \in Seq(ActiveAction), Distinct(s), NEW a \in Action
    PROVE  Distinct(WithToken(s, a))
  <1>1. CASE a \in Names(s)
    BY <1>1 DEF WithToken
  <1>2. CASE a \notin Names(s)
    <2> DEFINE t == WithToken(s, a)
    <2>1. /\ t \in Seq(ActiveAction) /\ Len(t) = Len(s) + 1
          /\ \A k \in DOMAIN s : t[k] = s[k]
          /\ t[Len(s) + 1].name = a
      BY <1>2, TokenAppended
    <2>2. \A k \in DOMAIN s : s[k].name # a
      BY <1>2 DEF Names
    <2> HIDE DEF t
    <2>3. \A k \in DOMAIN t : k \in DOMAIN s \/ k = Len(s) + 1
      BY <2>1
    <2>4. Distinct(t)
      BY <2>1, <2>2, <2>3 DEF Distinct
    <2> QED BY <2>4 DEF t
  <1> QED BY <1>1, <1>2

\* The token that is dropped, and the places of the others.
LEMMA TokenDropped ==
    ASSUME NEW s \in Seq(ActiveAction), NEW a, a \in Names(s)
    PROVE  \E p \in 1..Len(s) :
               /\ s[p].name = a
               /\ Without(s, a) \in Seq(ActiveAction) /\ Len(Without(s, a)) = Len(s) - 1
               /\ \A k \in 1..(Len(s) - 1) :
                      Without(s, a)[k] = IF k < p THEN s[k] ELSE s[k + 1]
  <1> DEFINE p == Position(s, a)
  <1>1. p \in 1..Len(s) /\ s[p].name = a
    BY DEF Names, Position
  <1>2. Without(s, a) = RemoveAt(s, p)
    BY DEF Without
  <1> HIDE DEF p
  <1> QED BY <1>1, <1>2, RemoveAtElements

LEMMA DistinctDropped ==
    ASSUME NEW s \in Seq(ActiveAction), Distinct(s), NEW a
    PROVE  Distinct(Without(s, a))
  <1>1. CASE a \notin Names(s)
    BY <1>1 DEF Without
  <1>2. CASE a \in Names(s)
    <2> DEFINE w == Without(s, a)
    <2>1. PICK p \in 1..Len(s) :
              /\ w \in Seq(ActiveAction) /\ Len(w) = Len(s) - 1
              /\ \A k \in 1..(Len(s) - 1) : w[k] = IF k < p THEN s[k] ELSE s[k + 1]
      BY <1>2, TokenDropped
    <2> HIDE DEF w
    <2>2. SUFFICES ASSUME NEW k \in DOMAIN w, NEW l \in DOMAIN w, w[k].name = w[l].name
                   PROVE  k = l
      BY DEF Distinct, w
    <2> DEFINE K == IF k < p THEN k ELSE k + 1
               L == IF l < p THEN l ELSE l + 1
    <2>3. K \in DOMAIN s /\ L \in DOMAIN s /\ w[k] = s[K] /\ w[l] = s[L]
      BY <2>1
    <2>4. K = L
      BY <2>2, <2>3 DEF Distinct
    <2>5. k \in Nat /\ l \in Nat
      BY <2>1
    <2> QED BY <2>4, <2>5
  <1> QED BY <1>1, <1>2

LEMMA UniqueNext == TypeInv /\ UniqueTokens /\ [Next]_vars => UniqueTokens'
  <1> SUFFICES ASSUME TypeInv, UniqueTokens, [Next]_vars PROVE UniqueTokens'
    OBVIOUS
  <1> DEFINE s == job.status.active
             t == job'.status.active
  <1>a. TypeOK /\ s \in Seq(ActiveAction) /\ Distinct(s)
    BY DEF TypeInv, TypeOK, Job, Status, UniqueTokens, Distinct
  <1>b. SUFFICES Distinct(t)
    BY DEF UniqueTokens, Distinct
  <1>1. CASE ~StatusWrite
    BY <1>1, <1>a, OnlyStatusWrites
  <1>2. CASE RejectInvalid \/ SettleIdle \/ StartRun \/ PlanFails \/ SettlePhase \/ MarkReverting
             \/ FinishRun
    <2>1. t = s
      BY <1>2, <1>a, BooksWritten DEF Books
    <2> QED BY <1>a, <2>1
  <1>3. CASE PersistToken
    <2>1. loop.act \in Action /\ t = WithToken(s, loop.act)
      BY <1>3, <1>a, BooksWritten DEF Books, PersistToken, InLoop, TypeOK, Loop
    <2> QED BY <1>a, <2>1, DistinctAppended
  <1>4. CASE MarkApplied \/ MarkEnsureFailed \/ MarkActionReverting
    <2>1. \/ t = MarkedApplied(s, loop.act) \/ t = MarkedFailing(s, loop.act)
          \/ t = MarkedReverting(s, Newest.name)
      BY <1>4, <1>a, BooksWritten DEF Books
    <2> QED BY <1>a, <2>1, MarkedAppliedList, MarkedFailingList, MarkedRevertingList, DistinctKept
  <1>5. CASE MarkRevertFailed
    <2> DEFINE n == Capped(Newest.attempts + 1)
    <2>1. n \in 0..DegradedAfter
      BY <1>5, NewestAttempts DEF MarkRevertFailed
    <2>2. t = MarkedRevertFailing(s, Newest.name, n)
      BY <1>5, <1>a, BooksWritten DEF Books
    <2> HIDE DEF n
    <2> QED BY <1>a, <2>1, <2>2, MarkedRevertFailingList, DistinctKept
  <1>6. CASE DropToken
    <2>1. t = Without(s, Newest.name)
      BY <1>6, <1>a, BooksWritten DEF Books
    <2> QED BY <1>a, <2>1, DistinctDropped
  <1> QED BY <1>1, <1>2, <1>3, <1>4, <1>5, <1>6 DEF StatusWrite

LEMMA InitStatus ==
    Init => /\ job.status.active = <<>> /\ job.status.history = <<>>
            /\ job.status.phase = "" /\ job.status.run = NoRun
  <1> SUFFICES ASSUME Init
               PROVE  /\ job.status.active = <<>> /\ job.status.history = <<>>
                      /\ job.status.phase = "" /\ job.status.run = NoRun
    OBVIOUS
  <1>1. PICK list \in ActionLists : job = [Blank EXCEPT !.spec.actions = list]
    BY DEF Init
  <1> QED BY <1>1 DEF Blank, NewStatus

\* No action is ever recorded twice, however late the cache is and whatever users
\* make of the list under a running pass: the token is looked for in the status
\* it is written to (reconcileActivate, findActiveAction).
THEOREM TokensUnique == Spec => []UniqueTokens
  <1>1. Init => UniqueTokens
    <2>1. Init => job.status.active = <<>>
      BY InitStatus
    <2> QED BY <2>1 DEF UniqueTokens
  <1>2. TypeInv /\ UniqueTokens /\ [Next]_vars => UniqueTokens'
    BY UniqueNext
  <1> QED BY <1>1, <1>2, InitType, NextType, PTL DEF Spec

-----------------------------------------------------------------------------
(* What a pass has found in its copy, step by step.                        *)

Chosen(step, f) ==
    /\ step = "start" => f.status.run = NoRun
    /\ step = "settle" => f.status.run = NoRun /\ f.status.active = <<>>
    /\ step = "finish" => f.status.active = <<>>
    /\ step \in {"markReverting", "revert"} => f.status.active # <<>>
    /\ step = "revert" => f.status.phase \in {"Reverting", "Degraded"}
    /\ step \notin {"drained", "reverting", "revertFailed"}

LEMMA DispatchChosen ==
    ASSUME NEW f
    PROVE  /\ Chosen(RevertStep(f, "finish"), f) /\ Chosen(RevertStep(f, "release"), f)
           /\ Chosen(DispatchLive(f), f) /\ Chosen(Dispatch(f), f)
  <1>1. Chosen(RevertStep(f, "finish"), f) /\ Chosen(RevertStep(f, "release"), f)
    BY DEF Chosen, RevertStep
  <1>2. f.status.run = NoRun => Chosen(DispatchNoRun(f), f)
    BY <1>1 DEF Chosen, DispatchNoRun
  <1>3. Chosen(DispatchLive(f), f)
    BY <1>1, <1>2 DEF Chosen, DispatchLive, DispatchRun
  <1>4. Chosen(Dispatch(f), f)
    BY <1>1, <1>3 DEF Chosen, Dispatch, DispatchDelete
  <1> QED BY <1>1, <1>3, <1>4

LEMMA PassMoves ==
    ASSUME TypeOK, [Next]_vars
    PROVE  \/ pc' = pc /\ fs' = fs
           \/ pc' \in {"idle", "action", "applied", "ensureFailed", "release"}
           \/ Chosen(pc', fs')
           \/ MarkReverting
           \/ pc = "revert" /\ fs' = fs /\ pc' \in {"drained", "reverting", "revertFailed"}
  <1>1. CASE UNCHANGED vars
    BY <1>1 DEF vars
  <1>2. CASE ReadJob
    <2>1. pc' = Dispatch(Cached) /\ (pc' # "idle" => fs' = Cached)
      BY <1>2 DEF ReadJob, Ends
    <2> QED BY <2>1, DispatchChosen
  <1>3. CASE AddFinalizer
    <2> DEFINE j == [fs EXCEPT !.finalizer = TRUE]
    <2>1. UpdateJob(j, DispatchLive(j))
      BY <1>3 DEF AddFinalizer
    <2> HIDE DEF j
    <2>2. pc' = DispatchLive(j) /\ (pc' # "idle" => fs' = j)
      BY <2>1, UpdateEffect
    <2> QED BY <2>2, DispatchChosen
  <1>4. CASE DisableExpired
    <2> DEFINE j == [fs EXCEPT !.spec.enabled = FALSE]
    <2>1. UpdateJob(j, RevertStep(j, "finish"))
      BY <1>4 DEF DisableExpired
    <2> HIDE DEF j
    <2>2. pc' = RevertStep(j, "finish") /\ (pc' # "idle" => fs' = j)
      BY <2>1, UpdateEffect
    <2> QED BY <2>2, DispatchChosen
  <1>5. CASE RejectInvalid \/ SettleIdle \/ StartRun \/ Conflict \/ Abandon
    BY <1>5 DEF RejectInvalid, SettleIdle, StartRun, Conflict, Abandon, PatchStatus, EndPass
  <1>6. CASE Activation
    BY <1>6 DEF Activation, SkipDelayed, PlanFails, PersistToken, EnsureDone, EnsurePending,
           EnsureFails, MarkApplied, MarkEnsureFailed, SettlePhase, HoldSteady, ListShrank,
           InLoop, PatchStatus, EndPass
  <1>7. CASE Reversion
    BY <1>7 DEF Reversion, RevertDone, RevertUnfinished, RevertPanics, DropToken,
           MarkActionReverting, MarkRevertFailed, FinishRun, ReleaseFinalizer, LeakTokens,
           PatchStatus, UpdateJob, EndPass
  <1>8. CASE Deliver \/ Clock \/ EffectEnds
    BY <1>8 DEF Deliver, Clock, DelayElapses, RunExpires, EffectEnds
  <1>9. CASE User
    BY <1>9, UserEffect DEF KeptByUsers
  <1> QED BY <1>1, <1>2, <1>3, <1>4, <1>5, <1>6, <1>7, <1>8, <1>9 DEF Next, Pass

\* A pass may find, once it has refreshed its copy, that the token it was to
\* revert has gone: then none is left in the stored status either, so the panic
\* on the empty list (reconcileRevert) passes over nothing.
THEOREM PanicDrained == Spec => []PanicIsDrained
  <1>1. Init => PanicIsDrained
    BY DEF Init, PanicIsDrained
  <1>2. TypeInv /\ PanicIsDrained /\ [Next]_vars => PanicIsDrained'
    <2> SUFFICES ASSUME TypeInv, PanicIsDrained, [Next]_vars, pc' = "revert",
                        fs'.status.active = <<>>
                 PROVE  job'.status.active = <<>>
      BY DEF PanicIsDrained
    <2>1. TypeOK
      BY DEF TypeInv
    <2>2. CASE MarkReverting
      BY <2>1, <2>2, PatchEffect DEF MarkReverting
    <2>3. CASE pc = "revert" /\ fs' = fs
      <3>1. ~StatusWrite
        BY <2>3 DEF StatusWrite, RejectInvalid, SettleIdle, StartRun, PlanFails, PersistToken,
               MarkApplied, MarkEnsureFailed, SettlePhase, MarkReverting, DropToken,
               MarkActionReverting, MarkRevertFailed, FinishRun, InLoop, LoopDone
      <3> QED BY <2>1, <2>3, <3>1, OnlyStatusWrites DEF PanicIsDrained
    <2> QED BY <2>1, <2>2, <2>3, PassMoves DEF Chosen
  <1> QED BY <1>1, <1>2, InitType, NextType, PTL DEF Spec

-----------------------------------------------------------------------------
(* The books, when passes see the operator's own status writes: what a pass *)
(* has found in its copy is then what is stored.                            *)

Draining == {"revert", "drained", "reverting", "revertFailed"}

Planned ==
    /\ pc = "start" => fs.status.run = NoRun
    /\ pc = "settle" => fs.status.run = NoRun /\ fs.status.active = <<>>
    /\ pc = "finish" => fs.status.active = <<>>
    /\ pc \in Draining \cup {"markReverting"} => fs.status.active # <<>>
    /\ pc \in Draining => fs.status.phase \in {"Reverting", "Degraded"}

LEMMA PlannedNext == TypeInv /\ FreshInv /\ Planned /\ [Next]_vars => Planned'
  <1> SUFFICES ASSUME TypeInv, FreshInv, Planned, [Next]_vars PROVE Planned'
    OBVIOUS
  <1>a. TypeOK
    BY DEF TypeInv
  <1>1. CASE pc' = pc /\ fs' = fs
    BY <1>1 DEF Planned
  <1>2. CASE pc' \in {"idle", "action", "applied", "ensureFailed", "release"}
    BY <1>2 DEF Planned, Draining
  <1>3. CASE Chosen(pc', fs')
    BY <1>3 DEF Planned, Chosen, Draining
  <1>4. CASE MarkReverting
    <2>1. pc = "markReverting" /\ fs' = job' /\ pc' = "revert"
      BY <1>a, <1>4, PatchEffect DEF MarkReverting
    <2>2. job'.status.phase = "Reverting" /\ job'.status.active = job.status.active
      BY <1>a, <1>4, BooksWritten DEF Books
    <2> QED BY <2>1, <2>2 DEF Planned, FreshInv, Draining
  <1>5. CASE pc = "revert" /\ fs' = fs /\ pc' \in {"drained", "reverting", "revertFailed"}
    BY <1>5 DEF Planned, Draining
  <1> QED BY <1>a, <1>1, <1>2, <1>3, <1>4, <1>5, PassMoves

\* Whoever writes the status has the stored one in its copy.
LEMMA WritesFresh ==
    ASSUME FreshInv, StatusWrite
    PROVE  fs.status = job.status
  <1>1. pc # "idle"
    BY DEF StatusWrite, RejectInvalid, SettleIdle, StartRun, PlanFails, PersistToken, MarkApplied,
           MarkEnsureFailed, SettlePhase, MarkReverting, DropToken, MarkActionReverting,
           MarkRevertFailed, FinishRun, InLoop, LoopDone
  <1> QED BY <1>1 DEF FreshInv

\* What an operation that rewrites tokens in place does to an empty list: nothing.
LEMMA EmptyList ==
    ASSUME NEW a, NEW n
    PROVE  /\ MarkedApplied(<<>>, a) = <<>> /\ MarkedFailing(<<>>, a) = <<>>
           /\ MarkedReverting(<<>>, a) = <<>> /\ MarkedRevertFailing(<<>>, a, n) = <<>>
           /\ Without(<<>>, a) = <<>>
  BY DEF MarkedApplied, MarkedFailing, MarkedReverting, MarkedRevertFailing, Changed, Without, Names

IdleInv ==
    job.status.phase \in {"", "Idle"} => job.status.run = NoRun /\ job.status.active = <<>>

LEMMA IdleNext == TypeInv /\ FreshInv /\ Planned /\ IdleInv /\ [Next]_vars => IdleInv'
  <1> SUFFICES ASSUME TypeInv, FreshInv, Planned, IdleInv, [Next]_vars PROVE IdleInv'
    OBVIOUS
  <1>a. TypeOK
    BY DEF TypeInv
  <1>1. CASE ~StatusWrite
    BY <1>1, <1>a, OnlyStatusWrites DEF IdleInv
  <1>2. CASE RejectInvalid \/ PlanFails
    BY <1>2, <1>a, BooksWritten DEF Books, IdleInv, Defaulted
  <1>3. CASE SettleIdle
    BY <1>3, <1>a, BooksWritten, WritesFresh DEF Books, IdleInv, Planned, SettleIdle, StatusWrite
  <1>4. CASE StartRun \/ PersistToken \/ SettlePhase \/ MarkReverting
    BY <1>4, <1>a, BooksWritten DEF Books, IdleInv
  <1>5. CASE MarkApplied \/ MarkEnsureFailed \/ MarkActionReverting \/ DropToken
    BY <1>5, <1>a, BooksWritten, EmptyList DEF Books, IdleInv
  <1>6. CASE MarkRevertFailed
    <2> DEFINE n == Capped(Newest.attempts + 1)
    <2>1. Books(job.status.run, job.status.history,
                IF n = DegradedAfter THEN "Degraded" ELSE job.status.phase,
                MarkedRevertFailing(job.status.active, Newest.name, n))
      BY <1>6, <1>a, BooksWritten
    <2> HIDE DEF n
    <2> QED BY <2>1, EmptyList DEF Books, IdleInv
  <1>7. CASE FinishRun
    BY <1>7, <1>a, BooksWritten, WritesFresh DEF Books, IdleInv, Planned, FinishRun, StatusWrite
  <1> QED BY <1>1, <1>2, <1>3, <1>4, <1>5, <1>6, <1>7 DEF StatusWrite

\* The history, newest entry last, without its oldest if it would get too long.
LEMMA HistoryAppended ==
    ASSUME NEW h \in Seq(HistoryEntry), NEW e
    PROVE  \E d \in {0, 1} :
               \A k \in DOMAIN AppendHistory(h, e) :
                   /\ k \in Nat /\ k + d \in 1..(Len(h) + 1)
                   /\ AppendHistory(h, e)[k] = IF k + d <= Len(h) THEN h[k + d] ELSE e
  <1> DEFINE g == Append(h, e)
  <1>1. /\ Len(g) = Len(h) + 1 /\ g \in Seq(HistoryEntry \cup {e})
        /\ \A k \in 1..(Len(h) + 1) : g[k] = IF k <= Len(h) THEN h[k] ELSE e
    OBVIOUS
  <1>2. AppendHistory(h, e) = IF Len(g) > HistoryCap THEN Tail(g) ELSE g
    BY DEF AppendHistory
  <1> HIDE DEF g
  <1>3. CASE AppendHistory(h, e) = g
    <2>1. \A k \in DOMAIN g : k \in Nat /\ k + 0 \in 1..(Len(h) + 1)
                               /\ g[k] = IF k + 0 <= Len(h) THEN h[k + 0] ELSE e
      BY <1>1
    <2> QED BY <1>3, <2>1
  <1>4. CASE AppendHistory(h, e) = Tail(g)
    <2>1. \A k \in DOMAIN Tail(g) : k \in Nat /\ k + 1 \in 1..(Len(h) + 1)
                                     /\ Tail(g)[k] = IF k + 1 <= Len(h) THEN h[k + 1] ELSE e
      BY <1>1
    <2> QED BY <1>4, <2>1
  <1> QED BY <1>2, <1>3, <1>4

\* The books of a run that is open have not been closed, and later runs are told
\* apart from it.
HistoryInv ==
    /\ HistoryHasRunOnce
    /\ job.status.run # NoRun => job.status.run.start <= starts
    /\ \A k \in DOMAIN job.status.history :
           /\ job.status.history[k].start <= starts
           /\ job.status.run # NoRun => job.status.history[k].start # job.status.run.start

LEMMA HistoryKept ==
    ASSUME HistoryInv, UNCHANGED <<job.status.run, job.status.history, starts>>
    PROVE  HistoryInv'
  BY DEF HistoryInv, HistoryHasRunOnce

LEMMA HistoryNext == TypeInv /\ FreshInv /\ HistoryInv /\ [Next]_vars => HistoryInv'
  <1> SUFFICES ASSUME TypeInv, FreshInv, HistoryInv, [Next]_vars PROVE HistoryInv'
    OBVIOUS
  <1> DEFINE h == job.status.history
  <1>a. TypeOK /\ h \in Seq(HistoryEntry) /\ starts \in Nat
    BY ConstantsAssumption DEF TypeInv, TypeOK, Job, Status
  <1>1. CASE ~StatusWrite
    BY <1>1, <1>a, OnlyStatusWrites, HistoryKept
  <1>2. CASE StatusWrite /\ ~StartRun /\ ~FinishRun
    <2>1. UNCHANGED starts
      BY <1>2 DEF StatusWrite, RejectInvalid, SettleIdle, PlanFails, PersistToken, MarkApplied,
             MarkEnsureFailed, SettlePhase, MarkReverting, DropToken, MarkActionReverting,
             MarkRevertFailed, clock
    <2>2. UNCHANGED <<job.status.run, job.status.history>>
      BY <1>2, <1>a, BooksWritten DEF Books, StatusWrite
    <2> QED BY <2>1, <2>2, HistoryKept
  <1>3. CASE StartRun
    <2>1. starts' = starts + 1 /\ job'.status.history = h /\ job'.status.run.start = starts + 1
      BY <1>3, <1>a, BooksWritten DEF Books, StartRun, DesiredRun
    <2>2. \A k \in DOMAIN h : h[k].start \in Nat
      <3>1. \A k \in DOMAIN h : h[k] \in HistoryEntry
        BY <1>a
      <3>2. \A entry \in HistoryEntry : entry.start \in Nat
        BY DEF HistoryEntry
      <3> QED BY <3>1, <3>2
    <2> QED BY <1>a, <2>1, <2>2 DEF HistoryInv, HistoryHasRunOnce
  <1>4. CASE FinishRun
    <2> DEFINE r == job.status.run
               e == Closed(r)
    <2>1. /\ job'.status.run = NoRun /\ job'.status.history = AppendHistory(h, e)
          /\ starts' = starts /\ r # NoRun
      BY <1>4, <1>a, BooksWritten, WritesFresh
         DEF Books, FinishRun, StatusWrite, clock, TypeInv, ReadWhatItUses
    <2>2. e.start = r.start /\ r.start <= starts
      BY <2>1 DEF Closed, HistoryInv
    <2> HIDE DEF e, h
    <2>3. PICK d \in {0, 1} :
              \A k \in DOMAIN AppendHistory(h, e) :
                  /\ k \in Nat /\ k + d \in 1..(Len(h) + 1)
                  /\ AppendHistory(h, e)[k] = IF k + d <= Len(h) THEN h[k + d] ELSE e
      BY <1>a, HistoryAppended
    <2>4. \A k \in DOMAIN h : h[k].start <= starts /\ h[k].start # r.start
      BY <2>1 DEF HistoryInv, h
    <2>5. \A k, l \in DOMAIN h : h[k].start = h[l].start => k = l
      BY DEF HistoryInv, HistoryHasRunOnce, h
    <2>6. \A k, l \in DOMAIN AppendHistory(h, e) :
              AppendHistory(h, e)[k].start = AppendHistory(h, e)[l].start => k = l
      <3> SUFFICES ASSUME NEW k \in DOMAIN AppendHistory(h, e), NEW l \in DOMAIN AppendHistory(h, e),
                          AppendHistory(h, e)[k].start = AppendHistory(h, e)[l].start
                   PROVE  k = l
        OBVIOUS
      <3>1. DOMAIN h = 1..Len(h) /\ Len(h) \in Nat
        BY <1>a DEF h
      <3>2. k \in Nat /\ l \in Nat /\ k + d \in 1..(Len(h) + 1) /\ l + d \in 1..(Len(h) + 1)
        BY <2>3
      <3>3. CASE k + d <= Len(h) /\ l + d <= Len(h)
        <4>1. h[k + d].start = h[l + d].start
          BY <2>3, <3>3
        <4> QED BY <2>5, <3>1, <3>2, <3>3, <4>1
      <3>4. CASE k + d <= Len(h) /\ ~(l + d <= Len(h))
        <4>1. h[k + d].start = e.start
          BY <2>3, <3>4
        <4> QED BY <2>2, <2>4, <3>1, <3>2, <3>4, <4>1
      <3>5. CASE ~(k + d <= Len(h)) /\ l + d <= Len(h)
        <4>1. h[l + d].start = e.start
          BY <2>3, <3>5
        <4> QED BY <2>2, <2>4, <3>1, <3>2, <3>5, <4>1
      <3> QED BY <3>1, <3>2, <3>3, <3>4, <3>5
    <2>7. \A k \in DOMAIN AppendHistory(h, e) : AppendHistory(h, e)[k].start <= starts
      <3> SUFFICES ASSUME NEW k \in DOMAIN AppendHistory(h, e) PROVE AppendHistory(h, e)[k].start <= starts
        OBVIOUS
      <3>1. CASE k + d <= Len(h)
        <4>1. k + d \in DOMAIN h /\ AppendHistory(h, e)[k] = h[k + d]
          BY <1>a, <2>3, <3>1 DEF h
        <4> QED BY <2>4, <4>1
      <3>2. CASE ~(k + d <= Len(h))
        <4>1. AppendHistory(h, e)[k] = e
          BY <2>3, <3>2
        <4> QED BY <2>2, <4>1
      <3> QED BY <3>1, <3>2
    <2> QED BY <2>1, <2>6, <2>7 DEF HistoryInv, HistoryHasRunOnce
  <1> QED BY <1>1, <1>2, <1>3, <1>4

-----------------------------------------------------------------------------

OwnWritesInv == TypeInv /\ GuardInv /\ FreshInv /\ Planned /\ UniqueTokens

LEMMA OwnWritesInit == Init => OwnWritesInv
  <1>1. Init => Planned
    BY DEF Init, Planned, Draining
  <1>2. Init => UniqueTokens
    <2>1. Init => job.status.active = <<>>
      BY InitStatus
    <2> QED BY <2>1 DEF UniqueTokens
  <1> QED BY <1>1, <1>2, InitType, GuardInit, FreshInit DEF OwnWritesInv

LEMMA OwnWritesNext == ReadsOwnWrites /\ OwnWritesInv /\ [Next]_vars => OwnWritesInv'
  BY NextType, GuardNext, FreshNext, PlannedNext, UniqueNext DEF OwnWritesInv

\* The copy a pass takes the newest token from has one: the index expression of
\* reconcileRevert does not panic.
THEOREM RevertFindsToken == ReadsOwnWrites /\ Spec => []RevertHasToken
  <1> SUFFICES ASSUME ReadsOwnWrites PROVE Spec => []RevertHasToken
    OBVIOUS
  <1>1. OwnWritesInv => RevertHasToken
    BY DEF OwnWritesInv, Planned, Draining, RevertHasToken
  <1>2. OwnWritesInv /\ [Next]_vars => OwnWritesInv'
    BY OwnWritesNext
  <1> QED BY <1>1, <1>2, OwnWritesInit, PTL DEF Spec

\* Phase Idle, which the start-up sweeper and the UI go by, is written only when
\* no token is recorded and no run is open, and neither appears under it
\* (finishRun, maybeStartRun, reconcileActivate).
THEOREM IdleDrained == ReadsOwnWrites /\ Spec => []IdleMeansDrained
  <1> SUFFICES ASSUME ReadsOwnWrites PROVE Spec => []IdleMeansDrained
    OBVIOUS
  <1>1. Init => OwnWritesInv /\ IdleInv
    BY OwnWritesInit, InitStatus DEF IdleInv
  <1>2. OwnWritesInv /\ IdleInv /\ [Next]_vars => (OwnWritesInv /\ IdleInv)'
    BY OwnWritesNext, IdleNext DEF OwnWritesInv
  <1>3. IdleInv => IdleMeansDrained
    BY DEF IdleInv, IdleMeansDrained
  <1> QED BY <1>1, <1>2, <1>3, PTL DEF Spec

\* Whatever is retried after a conflict or a crash, finishRun enters each run in
\* the history once.
THEOREM HistoryOnce == ReadsOwnWrites /\ Spec => []HistoryHasRunOnce
  <1> SUFFICES ASSUME ReadsOwnWrites PROVE Spec => []HistoryHasRunOnce
    OBVIOUS
  <1>1. Init => OwnWritesInv /\ HistoryInv
    <2>1. Init => job.status.history = <<>> /\ job.status.run = NoRun
      BY InitStatus
    <2>2. Init => HistoryInv
      BY <2>1 DEF HistoryInv, HistoryHasRunOnce
    <2> QED BY <2>2, OwnWritesInit
  <1>2. OwnWritesInv /\ HistoryInv /\ [Next]_vars => (OwnWritesInv /\ HistoryInv)'
    BY OwnWritesNext, HistoryNext DEF OwnWritesInv
  <1>3. HistoryInv => HistoryHasRunOnce
    BY DEF HistoryInv
  <1> QED BY <1>1, <1>2, <1>3, PTL DEF Spec

LEMMA RunStep ==
    ASSUME OwnWritesInv, [Next]_vars, job.status.run # NoRun
    PROVE  /\ job'.status.run \in {job.status.run, NoRun}
           /\ job'.status.run = NoRun => job.status.active = <<>>
  <1>a. TypeOK /\ FreshInv
    BY DEF OwnWritesInv, TypeInv
  <1>1. CASE ~StatusWrite
    BY <1>1, <1>a, OnlyStatusWrites
  <1>2. CASE StartRun
    BY <1>2, <1>a, WritesFresh DEF StartRun, StatusWrite, OwnWritesInv, Planned
  <1>3. CASE FinishRun
    BY <1>3, <1>a, BooksWritten, WritesFresh DEF Books, FinishRun, StatusWrite, OwnWritesInv, Planned
  <1>4. CASE StatusWrite /\ ~StartRun /\ ~FinishRun
    BY <1>4, <1>a, BooksWritten DEF Books, StatusWrite
  <1> QED BY <1>1, <1>2, <1>3, <1>4

\* maybeStartRun never overwrites a run that is open: its patch works on a status
\* without one.
THEOREM RunKept == ReadsOwnWrites /\ Spec => RunNotReplaced
  <1> SUFFICES ASSUME ReadsOwnWrites PROVE Spec => RunNotReplaced
    OBVIOUS
  <1> DEFINE Kept == job.status.run # NoRun => job'.status.run \in {job.status.run, NoRun}
  <1>1. OwnWritesInv /\ [Next]_vars => OwnWritesInv' /\ [Kept]_vars
    BY OwnWritesNext, RunStep
  <1>2. Spec => [][Kept]_vars
    BY <1>1, OwnWritesInit, PTL DEF Spec
  <1> QED BY <1>2 DEF RunNotReplaced

\* finishRun closes the books of a run only when no token is recorded in the
\* status it writes to.
THEOREM BooksDrained == ReadsOwnWrites /\ Spec => BooksClosedDrained
  <1> SUFFICES ASSUME ReadsOwnWrites PROVE Spec => BooksClosedDrained
    OBVIOUS
  <1> DEFINE Drained == job.status.run # NoRun /\ job'.status.run = NoRun => job.status.active = <<>>
  <1>1. OwnWritesInv /\ [Next]_vars => OwnWritesInv' /\ [Drained]_vars
    BY OwnWritesNext, RunStep
  <1>2. Spec => [][Drained]_vars
    BY <1>1, OwnWritesInit, PTL DEF Spec
  <1> QED BY <1>2 DEF BooksClosedDrained

\* Of distinct tokens, the one that is dropped by the name of the newest is the
\* newest.
LEMMA NewestDropped ==
    ASSUME NEW s \in Seq(ActiveAction), Distinct(s), s # <<>>
    PROVE  s = Append(Without(s, s[Len(s)].name), s[Len(s)])
  <1> DEFINE a == s[Len(s)].name
             w == Without(s, a)
  <1>1. Len(s) \in DOMAIN s /\ Len(s) \in Nat /\ s[Len(s)] \in ActiveAction
    OBVIOUS
  <1>2. a \in Names(s)
    BY <1>1 DEF Names
  <1> HIDE DEF a
  <1>3. PICK p \in 1..Len(s) :
            /\ s[p].name = a
            /\ w \in Seq(ActiveAction) /\ Len(w) = Len(s) - 1
            /\ \A k \in 1..(Len(s) - 1) : w[k] = IF k < p THEN s[k] ELSE s[k + 1]
    BY <1>2, TokenDropped
  <1>4. p = Len(s)
    BY <1>1, <1>3 DEF Distinct, a
  <1> HIDE DEF w
  <1>5. \A k \in 1..(Len(s) - 1) : w[k] = s[k]
    BY <1>3, <1>4
  <1>6. Append(w, s[Len(s)]) = s
    BY <1>1, <1>3, <1>5
  <1> QED BY <1>6 DEF w, a

LEMMA DrainStep ==
    ASSUME OwnWritesInv, [Next]_vars, Len(job'.status.active) < Len(job.status.active)
    PROVE  \E entry \in ActiveAction : job.status.active = Append(job'.status.active, entry)
  <1> DEFINE s == job.status.active
             t == job'.status.active
  <1>a. TypeOK /\ TypeInv /\ FreshInv /\ s \in Seq(ActiveAction) /\ Distinct(s) /\ Len(s) \in Nat
    BY DEF OwnWritesInv, TypeInv, TypeOK, Job, Status, UniqueTokens, Distinct
  <1>1. CASE ~StatusWrite
    BY <1>1, <1>a, OnlyStatusWrites
  <1>2. CASE RejectInvalid \/ SettleIdle \/ StartRun \/ PlanFails \/ SettlePhase \/ MarkReverting
             \/ FinishRun
    <2>1. t = s
      BY <1>2, <1>a, BooksWritten DEF Books
    <2> QED BY <1>a, <2>1
  <1>3. CASE PersistToken
    <2>1. loop.act \in Action /\ t = WithToken(s, loop.act)
      BY <1>3, <1>a, BooksWritten DEF Books, PersistToken, InLoop, TypeOK, Loop
    <2>2. t = s \/ Len(t) = Len(s) + 1
      BY <1>a, <2>1, TokenAppended DEF WithToken
    <2> QED BY <1>a, <2>2
  <1>4. CASE MarkApplied \/ MarkEnsureFailed \/ MarkActionReverting
    <2>1. \/ t = MarkedApplied(s, loop.act) \/ t = MarkedFailing(s, loop.act)
          \/ t = MarkedReverting(s, Newest.name)
      BY <1>4, <1>a, BooksWritten DEF Books
    <2>2. t \in Seq(ActiveAction) /\ DOMAIN t = DOMAIN s
      BY <1>a, <2>1, MarkedAppliedList, MarkedFailingList, MarkedRevertingList DEF KeepsNames
    <2> QED BY <1>a, <2>2
  <1>5. CASE MarkRevertFailed
    <2> DEFINE n == Capped(Newest.attempts + 1)
    <2>1. n \in 0..DegradedAfter
      BY <1>5, <1>a, NewestAttempts DEF MarkRevertFailed
    <2>2. t = MarkedRevertFailing(s, Newest.name, n)
      BY <1>5, <1>a, BooksWritten DEF Books
    <2> HIDE DEF n
    <2>3. t \in Seq(ActiveAction) /\ DOMAIN t = DOMAIN s
      BY <1>a, <2>1, <2>2, MarkedRevertFailingList DEF KeepsNames
    <2> QED BY <1>a, <2>3
  <1>6. CASE DropToken
    <2>1. fs.status = job.status /\ s # <<>>
      BY <1>6, <1>a, WritesFresh DEF StatusWrite, DropToken, OwnWritesInv, Planned, Draining
    <2>2. t = Without(s, s[Len(s)].name)
      BY <1>6, <1>a, <2>1, BooksWritten DEF Books, Newest
    <2>3. s[Len(s)] \in ActiveAction
      BY <1>a, <2>1
    <2> QED BY <1>a, <2>1, <2>2, <2>3, NewestDropped
  <1> QED BY <1>1, <1>2, <1>3, <1>4, <1>5, <1>6 DEF StatusWrite

\* reconcileRevert undoes the actions in the reverse of the order in which they
\* were recorded: tokens leave the status from its end, one by one.
THEOREM DrainedInReverse == ReadsOwnWrites /\ Spec => DrainsNewestFirst
  <1> SUFFICES ASSUME ReadsOwnWrites PROVE Spec => DrainsNewestFirst
    OBVIOUS
  <1> DEFINE Backwards == Len(job'.status.active) < Len(job.status.active)
                    => \E entry \in ActiveAction :
                           job.status.active = Append(job'.status.active, entry)
  <1>1. OwnWritesInv /\ [Next]_vars => OwnWritesInv' /\ [Backwards]_vars
    BY OwnWritesNext, DrainStep
  <1>2. Spec => [][Backwards]_vars
    BY <1>1, OwnWritesInit, PTL DEF Spec
  <1> QED BY <1>2 DEF DrainsNewestFirst
-----------------------------------------------------------------------------
(* Phase Active, when passes see the operator's own status writes and nobody *)
(* edits the list of actions: an edit is applied by the pass that follows it, *)
(* under the phase the last one left.                                        *)

OneList == \E list : ActionLists = {list}

Applied(a, active) == \E k \in DOMAIN active : active[k].name = a /\ active[k].phase = "Applied"

Applying == {"action", "applied", "ensureFailed"}

\* allApplied vouches for the actions the loop has passed.
LoopInv ==
    /\ pc \in Applying =>
           /\ loop.n = Len(job.spec.actions) /\ loop.i \in Nat \ {0}
           /\ loop.act = ActionAt(job, loop.i)
           /\ loop.all => \A j \in DOMAIN job.spec.actions :
                              j < loop.i => Applied(job.spec.actions[j], job.status.active)
    /\ pc \in {"applied", "ensureFailed"} => loop.act # None /\ Recorded

CompleteInv ==
    job.status.phase = "Active" =>
        \A j \in DOMAIN job.spec.actions : Applied(job.spec.actions[j], job.status.active)

\* The stored list, the pass's copy of it and what either becomes are one.
LEMMA ListStays ==
    ASSUME OneList, NEW f \in Job, NEW g \in Job
    PROVE  f.spec.actions = g.spec.actions
  BY DEF OneList, Job, Spec_

LEMMA AppliedKept ==
    ASSUME NEW s \in Seq(ActiveAction), NEW x, NEW a
    PROVE  /\ Applied(x, s) => /\ Applied(x, MarkedApplied(s, a))
                               /\ Applied(x, MarkedFailing(s, a))
           /\ Applied(x, s) /\ a \in Action => Applied(x, WithToken(s, a))
           /\ a \in Names(s) => Applied(a, MarkedApplied(s, a))
  <1>a. \A k \in DOMAIN s : s[k] \in ActiveAction
    OBVIOUS
  <1>1. /\ DOMAIN MarkedApplied(s, a) = DOMAIN s
        /\ \A k \in DOMAIN s :
               /\ MarkedApplied(s, a)[k].name = s[k].name
               /\ s[k].name = a \/ s[k].phase = "Applied" => MarkedApplied(s, a)[k].phase = "Applied"
    BY <1>a DEF MarkedApplied, Changed, ActiveAction
  <1>2. /\ DOMAIN MarkedFailing(s, a) = DOMAIN s
        /\ \A k \in DOMAIN s :
               /\ MarkedFailing(s, a)[k].name = s[k].name
               /\ MarkedFailing(s, a)[k].phase = s[k].phase
    BY <1>a DEF MarkedFailing, Changed, ActiveAction
  <1>3. Applied(x, s) => Applied(x, MarkedApplied(s, a)) /\ Applied(x, MarkedFailing(s, a))
    BY <1>1, <1>2 DEF Applied
  <1>4. a \in Names(s) => Applied(a, MarkedApplied(s, a))
    BY <1>1 DEF Applied, Names
  <1>5. ASSUME Applied(x, s), a \in Action PROVE Applied(x, WithToken(s, a))
    <2>1. CASE a \in Names(s)
      BY <1>5, <2>1 DEF WithToken
    <2>2. CASE a \notin Names(s)
      <3> DEFINE t == WithToken(s, a)
      <3>1. t \in Seq(ActiveAction) /\ Len(t) = Len(s) + 1 /\ \A k \in DOMAIN s : t[k] = s[k]
        BY <1>5, <2>2, TokenAppended
      <3> HIDE DEF t
      <3>2. DOMAIN s \subseteq DOMAIN t
        BY <3>1
      <3>3. Applied(x, t)
        BY <1>5, <3>1, <3>2 DEF Applied
      <3> QED BY <3>3 DEF t
    <2> QED BY <2>1, <2>2
  <1> QED BY <1>3, <1>4, <1>5

\* The entry of an action that is recorded.
LEMMA TokenApplied ==
    ASSUME NEW s, NEW a, a \in Names(s), s[Position(s, a)].phase = "Applied"
    PROVE  Applied(a, s)
  BY DEF Names, Position, Applied

\* The loop goes on to the next index; only an action that is applied lets it
\* keep vouching for all of them.
LEMMA LoopAdvances ==
    ASSUME OneList, TypeOK, TypeOK', LoopInv, pc \in Applying, loop.act # None,
           NEW x \in BOOLEAN, NEW f \in Job, Advance(x, f), pc' = "action",
           \A a : Applied(a, job.status.active) => Applied(a, job'.status.active),
           x => Applied(loop.act, job'.status.active)
    PROVE  LoopInv'
  <1> DEFINE l == job.spec.actions
  <1>1. f.spec.actions = l /\ job'.spec.actions = l
    BY ListStays DEF TypeOK
  <1>2. loop.i \in DOMAIN l /\ loop.act = l[loop.i] /\ loop.i \in Nat \ {0} /\ loop.n = Len(l)
    BY DEF LoopInv, ActionAt
  <1>3. /\ loop'.n = loop.n /\ loop'.i = loop.i + 1
        /\ loop'.act = ActionAt(f, loop.i + 1) /\ loop'.all = (loop.all /\ x)
    BY DEF Advance, TypeOK, Loop
  <1>4. loop'.act = ActionAt(job, loop.i)'
    BY <1>1, <1>3 DEF ActionAt
  <1>5. ASSUME loop'.all, NEW j \in DOMAIN l, j < loop.i + 1
        PROVE  Applied(l[j], job'.status.active)
    <2>1. j \in Nat
      BY ConstantsAssumption DEF TypeOK, Job, Spec_
    <2>2. j < loop.i \/ j = loop.i
      BY <1>2, <1>5, <2>1
    <2> QED BY <1>2, <1>3, <1>5, <2>2 DEF LoopInv
  <1> QED BY <1>1, <1>2, <1>3, <1>4, <1>5 DEF LoopInv, ActionAt

\* A pass that enters the loop has passed no action.
LEMMA LoopEntered ==
    ASSUME OneList, TypeOK, TypeOK', NEW f \in Job, pc' \notin {"applied", "ensureFailed"},
           loop' = LoopFor(pc', f)
    PROVE  LoopInv'
  <1>1. CASE pc' # "action"
    BY <1>1 DEF LoopInv, Applying
  <1>2. CASE pc' = "action"
    <2>1. f.spec.actions = job'.spec.actions
      BY ListStays DEF TypeOK
    <2>2. /\ loop'.n = Len(f.spec.actions) /\ loop'.i = 1 /\ loop'.act = ActionAt(f, 1)
      BY <1>2 DEF LoopFor
    <2>3. \A j \in DOMAIN f.spec.actions : ~(j < 1)
      BY ConstantsAssumption DEF Job, Spec_
    <2> QED BY <1>2, <2>1, <2>2, <2>3 DEF LoopInv, ActionAt
  <1> QED BY <1>1, <1>2

LEMMA LoopNext == OneList /\ OwnWritesInv /\ OwnWritesInv' /\ LoopInv /\ [Next]_vars => LoopInv'
  <1> SUFFICES ASSUME OneList, OwnWritesInv, OwnWritesInv', LoopInv, [Next]_vars PROVE LoopInv'
    OBVIOUS
  <1> DEFINE s == job.status.active
  <1>a. TypeOK /\ TypeOK' /\ FreshInv /\ FreshInv' /\ s \in Seq(ActiveAction)
    BY DEF OwnWritesInv, TypeInv, TypeOK, Job, Status
  <1>b. job.spec.actions = job'.spec.actions /\ fs \in Job /\ fs' \in Job
    BY <1>a, ListStays DEF TypeOK
  <1>1. CASE pc' = pc /\ loop' = loop /\ job'.status = job.status /\ fs'.status = fs.status
    BY <1>1, <1>b DEF LoopInv, ActionAt, Recorded
  <1>2. CASE pc' \notin Applying
    BY <1>2 DEF LoopInv, Applying
  <1>3. CASE ReadJob
    <2>1. loop' = LoopFor(pc', Cached) /\ pc' = Dispatch(Cached) /\ Cached \in Job
      BY <1>3, <1>a, CachedType DEF ReadJob
    <2> QED BY <1>a, <2>1, DispatchStep, LoopEntered
  <1>4. CASE AddFinalizer
    <2> DEFINE j == [fs EXCEPT !.finalizer = TRUE]
    <2>1. j \in Job
      BY <1>a DEF TypeOK, Job
    <2>2. UpdateJob(j, DispatchLive(j)) /\ loop' = LoopFor(DispatchLive(j), j)
      BY <1>4 DEF AddFinalizer
    <2> HIDE DEF j
    <2>3. pc' = DispatchLive(j)
      BY <2>2, UpdateEffect
    <2> QED BY <1>a, <2>1, <2>2, <2>3, DispatchLiveStep, LoopEntered
  <1>5. CASE SkipDelayed \/ EnsurePending
    <2>1. /\ pc = "action" /\ pc' = "action" /\ loop.act # None /\ Advance(FALSE, fs)
          /\ job' = job
      BY <1>5 DEF SkipDelayed, EnsurePending, InLoop
    <2> QED BY <1>a, <1>b, <2>1, LoopAdvances DEF Applying
  <1>6. CASE PlanFails
    <2>1. /\ pc = "action" /\ pc' = "action" /\ loop.act # None /\ Advance(FALSE, fs')
          /\ job'.status.active = s
      BY <1>6, <1>a, PatchEffect, BooksWritten DEF PlanFails, InLoop, Books
    <2> QED BY <1>a, <1>b, <2>1, LoopAdvances DEF Applying
  <1>7. CASE PersistToken
    <2>1. pc = "action" /\ pc' = "action"
      BY <1>7, <1>a, PatchEffect DEF PersistToken, InLoop
    <2>2. /\ loop'.n = loop.n /\ loop'.i = loop.i /\ loop'.act = loop.act /\ loop'.all = FALSE
      BY <1>7, <1>a DEF PersistToken, TypeOK, Loop
    <2> QED BY <1>b, <2>1, <2>2 DEF LoopInv, ActionAt, Applying
  <1>8. CASE EnsureDone
    <2>1. pc = "action" /\ loop.act # None /\ Recorded /\ job' = job /\ fs' = fs
      BY <1>8 DEF EnsureDone, InLoop
    <2>2. CASE Token.phase # "Applied" \/ Token.failed
      BY <1>8, <2>1, <2>2 DEF EnsureDone, LoopInv, Recorded, Applying, ActionAt
    <2>3. CASE ~(Token.phase # "Applied" \/ Token.failed)
      <3>1. Advance(TRUE, fs) /\ pc' = pc
        BY <1>8, <2>3 DEF EnsureDone
      <3>2. Applied(loop.act, s)
        BY <1>a, <2>1, <2>3, TokenApplied DEF FreshInv, Token, Recorded
      <3> QED BY <1>a, <1>b, <2>1, <3>1, <3>2, LoopAdvances DEF Applying
    <2> QED BY <2>2, <2>3
  <1>9. CASE EnsureFails
    <2>1. /\ pc = "action" /\ loop.act # None /\ Recorded /\ job' = job /\ fs' = fs
          /\ loop' = loop /\ pc' = "ensureFailed"
      BY <1>9 DEF EnsureFails, InLoop
    <2> QED BY <2>1 DEF LoopInv, Recorded, Applying, ActionAt
  <1>10. CASE MarkApplied
    <2>1. /\ pc = "applied" /\ pc' = "action" /\ Advance(TRUE, fs')
          /\ job'.status.active = MarkedApplied(s, loop.act)
      BY <1>10, <1>a, PatchEffect, BooksWritten DEF MarkApplied, Books
    <2>2. loop.act # None /\ loop.act \in Names(s)
      BY <1>a, <2>1 DEF LoopInv, Recorded, FreshInv
    <2>3. Applied(loop.act, job'.status.active)
      BY <1>a, <2>1, <2>2, AppliedKept
    <2>4. \A a : Applied(a, s) => Applied(a, job'.status.active)
      BY <1>a, <2>1, AppliedKept
    <2> QED BY <1>a, <1>b, <2>1, <2>2, <2>3, <2>4, LoopAdvances DEF Applying
  <1>11. CASE MarkEnsureFailed
    <2> DEFINE x == Token.phase = "Applied"
    <2>1. /\ pc = "ensureFailed" /\ pc' = "action" /\ Advance(x, fs')
          /\ job'.status.active = MarkedFailing(s, loop.act)
      BY <1>11, <1>a, PatchEffect, BooksWritten DEF MarkEnsureFailed, Books
    <2>2. loop.act # None /\ loop.act \in Names(s)
      BY <1>a, <2>1 DEF LoopInv, Recorded, FreshInv
    <2>3. x => Applied(loop.act, s)
      BY <1>a, <2>1, <2>2, TokenApplied DEF FreshInv, Token
    <2>4. \A a : Applied(a, s) => Applied(a, job'.status.active)
      BY <1>a, <2>1, AppliedKept
    <2>5. x \in BOOLEAN
      OBVIOUS
    <2> HIDE DEF x
    <2> QED BY <1>a, <1>b, <2>1, <2>2, <2>3, <2>4, <2>5, LoopAdvances DEF Applying
  <1>12. CASE RejectInvalid \/ SettleIdle \/ StartRun \/ SettlePhase \/ HoldSteady \/ ListShrank
              \/ Reversion \/ Conflict \/ Abandon
    <2>1. pc' \notin Applying
      BY <1>12 DEF RejectInvalid, SettleIdle, StartRun, SettlePhase, HoldSteady, ListShrank,
             Reversion, MarkReverting, RevertDone, RevertUnfinished, RevertPanics, DropToken,
             MarkActionReverting, MarkRevertFailed, FinishRun, ReleaseFinalizer, LeakTokens,
             Conflict, Abandon, PatchStatus, UpdateJob, EndPass, Applying
    <2> QED BY <1>2, <2>1
  <1>13. CASE DisableExpired
    <2> DEFINE j == [fs EXCEPT !.spec.enabled = FALSE]
    <2>1. UpdateJob(j, RevertStep(j, "finish"))
      BY <1>13 DEF DisableExpired
    <2> HIDE DEF j
    <2>2. pc' \notin Applying
      BY <2>1 DEF UpdateJob, RevertStep, Applying
    <2> QED BY <1>2, <2>2
  <1>14. CASE UNCHANGED vars \/ Deliver \/ Clock \/ EffectEnds
    BY <1>14, <1>1 DEF vars, Deliver, Clock, DelayElapses, RunExpires, EffectEnds
  <1>15. CASE User
    <2>1. pc' = pc /\ loop' = loop /\ fs' = fs
      BY <1>15 DEF User, Enable, Disable, SwitchOff, Delete, ForceRelease, RequestRun, EditActions,
             UserWrites
    <2>2. job'.status = job.status
      BY <1>15, <1>a, UserEffect DEF KeptByUsers, KeepsStatus
    <2> QED BY <1>1, <2>1, <2>2
  <1> QED BY <1>3, <1>4, <1>5, <1>6, <1>7, <1>8, <1>9, <1>10, <1>11, <1>12, <1>13, <1>14, <1>15
          DEF Next, Pass, Activation

LEMMA CompleteNext ==
    OneList /\ OwnWritesInv /\ OwnWritesInv' /\ LoopInv /\ CompleteInv /\ [Next]_vars => CompleteInv'
  <1> SUFFICES ASSUME OneList, OwnWritesInv, OwnWritesInv', LoopInv, CompleteInv, [Next]_vars,
                      job'.status.phase = "Active"
               PROVE  CompleteInv'
    BY DEF CompleteInv
  <1> DEFINE s == job.status.active
             t == job'.status.active
  <1>a. TypeOK /\ TypeOK' /\ FreshInv /\ TypeInv /\ s \in Seq(ActiveAction)
    BY DEF OwnWritesInv, TypeInv, TypeOK, Job, Status
  <1>b. job'.spec.actions = job.spec.actions
    BY <1>a, ListStays DEF TypeOK
  <1>c. SUFFICES \A j \in DOMAIN job.spec.actions : Applied(job.spec.actions[j], t)
    BY <1>b DEF CompleteInv
  <1>1. CASE ~StatusWrite
    BY <1>1, <1>a, OnlyStatusWrites DEF CompleteInv
  <1>2. CASE RejectInvalid \/ PlanFails
    BY <1>2, <1>a, BooksWritten DEF Books, CompleteInv, Defaulted
  <1>3. CASE SettleIdle \/ StartRun \/ PersistToken \/ MarkReverting \/ FinishRun
    BY <1>3, <1>a, BooksWritten DEF Books
  <1>4. CASE MarkApplied \/ MarkEnsureFailed
    BY <1>4, <1>a, BooksWritten, AppliedKept DEF Books, CompleteInv
  <1>5. CASE SettlePhase
    <2>1. loop.all /\ t = s /\ pc = "action" /\ loop.i > loop.n
      BY <1>5, <1>a, BooksWritten DEF Books, SettlePhase, LoopDone
    <2>2. job.spec.actions \in Seq(Action)
      BY <1>a, ConstantsAssumption DEF TypeOK, Job, Spec_
    <2>3. \A j \in DOMAIN job.spec.actions : j < loop.i
      BY <2>1, <2>2 DEF LoopInv, Applying
    <2> QED BY <2>1, <2>3 DEF LoopInv, Applying
  <1>6. CASE DropToken \/ MarkActionReverting \/ MarkRevertFailed
    <2>1. job.status.phase \in {"Reverting", "Degraded"}
      BY <1>6, <1>a, WritesFresh
         DEF StatusWrite, OwnWritesInv, Planned, Draining, DropToken, MarkActionReverting,
             MarkRevertFailed
    <2>2. job'.status.phase \in {"Degraded", job.status.phase}
      BY <1>6, <1>a, BooksWritten DEF Books
    <2> QED BY <2>1, <2>2
  <1> QED BY <1>1, <1>2, <1>3, <1>4, <1>5, <1>6 DEF StatusWrite

\* Phase Active is written only by a pass that has seen every listed action
\* applied, and none of them is undone under it (reconcileActivate, setPhase).
THEOREM ActiveComplete == ReadsOwnWrites /\ OneList /\ Spec => []ActiveIsComplete
  <1> SUFFICES ASSUME ReadsOwnWrites, OneList PROVE Spec => []ActiveIsComplete
    OBVIOUS
  <1>1. Init => OwnWritesInv /\ LoopInv /\ CompleteInv
    <2>1. Init => job.status.phase = "" /\ pc = "idle"
      BY InitStatus DEF Init
    <2>2. Init => LoopInv /\ CompleteInv
      BY <2>1 DEF LoopInv, CompleteInv, Applying
    <2> QED BY <2>2, OwnWritesInit
  <1>2. OwnWritesInv /\ LoopInv /\ CompleteInv /\ [Next]_vars
            => (OwnWritesInv /\ LoopInv /\ CompleteInv)'
    BY OwnWritesNext, LoopNext, CompleteNext
  <1>3. CompleteInv => ActiveIsComplete
    BY DEF CompleteInv, ActiveIsComplete, Applied, ToSet
  <1> QED BY <1>1, <1>2, <1>3, PTL DEF Spec
=============================================================================
