------------------------- MODULE DurableRevertProofs -------------------------
(***************************************************************************)
(* The reconciler keeps the promise of DurableRevert: proofs for every set *)
(* of actions, lag of the cache and bound.                                 *)
(***************************************************************************)
EXTENDS MaintenanceControllerProofs

Tokens(j) == Names(j.status.active)

-----------------------------------------------------------------------------
(* What a call does to the object, its older versions and the pass.        *)

LEMMA WriteVersions ==
    ASSUME TypeOK, NEW j, NEW r, Write(j, r)
    PROVE  \A k \in DOMAIN backlog' :
               backlog'[k] = job \/ \E l \in DOMAIN backlog : backlog'[k] = backlog[l]
  <1>1. CASE backlog' = backlog
    BY <1>1
  <1>2. CASE backlog' = Append(backlog, job)
    BY <1>2 DEF TypeOK
  <1>3. CASE backlog' = Append(Tail(backlog), job) /\ backlog # <<>>
    <2> DEFINE t == Tail(backlog)
    <2>1. t \in Seq(Job) /\ Len(t) = Len(backlog) - 1 /\ Len(backlog) \in Nat
      BY <1>3 DEF TypeOK
    <2>2. \A k \in 1..Len(t) : k + 1 \in DOMAIN backlog /\ t[k] = backlog[k + 1]
      BY <1>3 DEF TypeOK
    <2> HIDE DEF t
    <2>3. backlog' = Append(t, job)
      BY <1>3 DEF t
    <2>4. \A k \in DOMAIN backlog' : backlog'[k] = job \/ (k \in 1..Len(t) /\ backlog'[k] = t[k])
      BY <2>1, <2>3
    <2> QED BY <2>2, <2>4
  <1>4. backlog' = backlog \/ backlog' = Append(backlog, job)
        \/ (backlog' = Append(Tail(backlog), job) /\ backlog # <<>>)
    <2>1. CASE j = job \/ CacheLag = 0 \/ Len(backlog) < CacheLag
      BY <2>1 DEF Write
    <2>2. CASE ~(j = job \/ CacheLag = 0 \/ Len(backlog) < CacheLag)
      <3>1. Len(backlog) # 0
        BY <2>2, ConstantsAssumption DEF TypeOK
      <3> QED BY <2>2, <3>1 DEF Write, TypeOK
    <2> QED BY <2>1, <2>2
  <1> QED BY <1>1, <1>2, <1>3, <1>4

LEMMA PatchEffect ==
    ASSUME TypeOK, NEW s, NEW next, PatchStatus(s, next)
    PROVE  /\ job.state # "gone" /\ pc' = next
           /\ job'.status = s /\ job'.finalizer = job.finalizer /\ job'.state = job.state
           /\ next # "idle" => fs' = job'
  BY DEF PatchStatus, Write, Ends, TypeOK, Job

LEMMA UpdateEffect ==
    ASSUME NEW j, NEW next, UpdateJob(j, next)
    PROVE  /\ job.state # "gone" /\ fs = job /\ job' = j /\ pc' = next
           /\ next # "idle" => fs' = j
  BY DEF UpdateJob, Write, Ends

KeepsStatus(j) ==
    /\ j.status = job.status /\ j.finalizer = job.finalizer
    /\ j.state = "gone" => ~j.finalizer

KeptByUsers ==
    /\ job.state # "gone" /\ Write(job', FALSE) /\ KeepsStatus(job')
    /\ UNCHANGED <<pc, fs, injected, leaked>>

LEMMA UserWritesEffect ==
    ASSUME NEW j, UserWrites(j), KeepsStatus(j)
    PROVE  KeptByUsers
  <1>1. job' = j
    BY DEF UserWrites, Write
  <1> QED BY <1>1 DEF UserWrites, KeptByUsers, world

LEMMA UserEffect ==
    ASSUME TypeOK, User
    PROVE  KeptByUsers
  <1>1. CASE Enable
    <2> DEFINE j == [job EXCEPT !.spec.enabled = TRUE]
    <2>1. UserWrites(j)
      BY <1>1 DEF Enable
    <2>2. KeepsStatus(j)
      BY <1>1 DEF Enable, UserWrites, KeepsStatus, TypeOK, Job
    <2> HIDE DEF j
    <2> QED BY <2>1, <2>2, UserWritesEffect
  <1>2. CASE Disable
    <2> DEFINE j == [job EXCEPT !.spec.enabled = FALSE, !.spec.trigger = None]
    <2>1. UserWrites(j)
      BY <1>2 DEF Disable
    <2>2. KeepsStatus(j)
      BY <1>2 DEF Disable, UserWrites, KeepsStatus, TypeOK, Job
    <2> HIDE DEF j
    <2> QED BY <2>1, <2>2, UserWritesEffect
  <1>3. CASE SwitchOff
    <2> DEFINE j == [job EXCEPT !.spec.enabled = FALSE]
    <2>1. UserWrites(j)
      BY <1>3 DEF SwitchOff
    <2>2. KeepsStatus(j)
      BY <1>3 DEF SwitchOff, UserWrites, KeepsStatus, TypeOK, Job
    <2> HIDE DEF j
    <2> QED BY <2>1, <2>2, UserWritesEffect
  <1>4. CASE Delete
    <2> DEFINE j == [job EXCEPT !.state = IF job.finalizer THEN "deleting" ELSE "gone"]
    <2>1. UserWrites(j)
      BY <1>4 DEF Delete
    <2>2. KeepsStatus(j)
      BY <1>4 DEF Delete, UserWrites, KeepsStatus, TypeOK, Job
    <2> HIDE DEF j
    <2> QED BY <2>1, <2>2, UserWritesEffect
  <1>5. CASE ForceRelease
    <2> DEFINE j == [job EXCEPT !.spec.force = TRUE]
    <2>1. UserWrites(j)
      BY <1>5 DEF ForceRelease
    <2>2. KeepsStatus(j)
      BY <1>5 DEF ForceRelease, UserWrites, KeepsStatus, TypeOK, Job
    <2> HIDE DEF j
    <2> QED BY <2>1, <2>2, UserWritesEffect
  <1>6. ASSUME NEW id \in TriggerId, RequestRun(id) PROVE KeptByUsers
    <2> DEFINE j == [job EXCEPT !.spec.trigger = id]
    <2>1. UserWrites(j)
      BY <1>6 DEF RequestRun
    <2>2. KeepsStatus(j)
      BY <1>6 DEF RequestRun, UserWrites, KeepsStatus, TypeOK, Job
    <2> HIDE DEF j
    <2> QED BY <2>1, <2>2, UserWritesEffect
  <1>7. ASSUME NEW list \in ActionLists, EditActions(list) PROVE KeptByUsers
    <2> DEFINE j == [job EXCEPT !.spec.actions = list]
    <2>1. UserWrites(j)
      BY <1>7 DEF EditActions
    <2>2. KeepsStatus(j)
      BY <1>7 DEF EditActions, UserWrites, KeepsStatus, TypeOK, Job
    <2> HIDE DEF j
    <2> QED BY <2>1, <2>2, UserWritesEffect
  <1> QED BY <1>1, <1>2, <1>3, <1>4, <1>5, <1>6, <1>7 DEF User

-----------------------------------------------------------------------------
(* The finalizer.  A pass that goes past adding it read a version that had  *)
(* it; the object then has it still, or is gone.                            *)

Held == job.finalizer \/ job.state = "gone"

Unheld == {"idle", "addFinalizer"}

GuardInv ==
    /\ FinalizerGuardsTokens
    /\ job.state = "gone" => ~job.finalizer
    /\ \A k \in DOMAIN backlog : backlog[k].finalizer => Held
    /\ pc \notin Unheld => Held
    /\ pc = "release" => Tokens(fs) \subseteq leaked

\* A local step of a pass that holds the finalizer.
LEMMA GuardLocal ==
    ASSUME GuardInv, UNCHANGED <<job, backlog, leaked>>,
           pc' \in Unheld \/ pc \notin Unheld, pc' # "release"
    PROVE  GuardInv'
  BY DEF GuardInv, FinalizerGuardsTokens, Held

\* A write to an object that has the finalizer and keeps it.
LEMMA GuardHeldWrite ==
    ASSUME job'.finalizer, job'.state # "gone", pc' # "release"
    PROVE  GuardInv'
  BY DEF GuardInv, FinalizerGuardsTokens, Held

LEMMA GuardPatch ==
    ASSUME TypeOK, GuardInv, pc \notin Unheld,
           NEW s, NEW next, next # "release", PatchStatus(s, next)
    PROVE  GuardInv'
  BY PatchEffect, GuardHeldWrite DEF GuardInv, Held

LEMMA GuardInit == Init => GuardInv
  <1> SUFFICES ASSUME Init PROVE GuardInv
    OBVIOUS
  <1>1. PICK list \in ActionLists : job = [Blank EXCEPT !.spec.actions = list]
    BY DEF Init
  <1>2. job.status.active = <<>> /\ job.state = "present" /\ ~job.finalizer
    BY <1>1 DEF Blank, NewStatus
  <1>3. Tokens(job) = {}
    BY <1>2 DEF Tokens, Names
  <1>4. backlog = <<>> /\ pc = "idle"
    BY DEF Init
  <1> QED BY <1>2, <1>3, <1>4 DEF GuardInv, FinalizerGuardsTokens, Tokens, Unheld

LEMMA GuardActivation ==
    ASSUME TypeOK, GuardInv, Activation
    PROVE  GuardInv'
  <1>1. pc \notin Unheld
    BY DEF Activation, SkipDelayed, PlanFails, PersistToken, EnsureDone, EnsurePending,
           EnsureFails, MarkApplied, MarkEnsureFailed, SettlePhase, HoldSteady, ListShrank,
           InLoop, LoopDone, Unheld
  <1>2. CASE SkipDelayed \/ EnsureDone \/ EnsurePending \/ EnsureFails \/ HoldSteady \/ ListShrank
    <2>1. UNCHANGED <<job, backlog, leaked>> /\ pc' # "release"
      BY <1>1, <1>2 DEF SkipDelayed, EnsureDone, EnsurePending, EnsureFails, HoldSteady,
                        ListShrank, EndPass, InLoop, world
    <2> QED BY <1>1, <2>1, GuardLocal
  <1>3. CASE PlanFails
    BY <1>1, <1>3, GuardPatch DEF PlanFails
  <1>4. CASE PersistToken
    BY <1>1, <1>4, GuardPatch DEF PersistToken
  <1>5. CASE MarkApplied
    BY <1>1, <1>5, GuardPatch DEF MarkApplied
  <1>6. CASE MarkEnsureFailed
    BY <1>1, <1>6, GuardPatch DEF MarkEnsureFailed
  <1>7. CASE SettlePhase
    BY <1>1, <1>7, GuardPatch DEF SettlePhase
  <1> QED BY <1>2, <1>3, <1>4, <1>5, <1>6, <1>7 DEF Activation

LEMMA GuardReversion ==
    ASSUME TypeOK, GuardInv, Reversion
    PROVE  GuardInv'
  <1>1. pc \notin Unheld
    BY DEF Reversion, MarkReverting, RevertDone, RevertUnfinished, RevertPanics, DropToken,
           MarkActionReverting, MarkRevertFailed, FinishRun, ReleaseFinalizer, LeakTokens, Unheld
  <1>2. CASE RevertDone \/ RevertUnfinished \/ RevertPanics
    <2>1. UNCHANGED <<job, backlog, leaked>> /\ pc' # "release"
      BY <1>2 DEF RevertDone, RevertUnfinished, RevertPanics, EndPass, world
    <2> QED BY <1>1, <2>1, GuardLocal
  <1>3. CASE MarkReverting
    BY <1>1, <1>3, GuardPatch DEF MarkReverting
  <1>4. CASE DropToken
    BY <1>1, <1>4, GuardPatch DEF DropToken
  <1>5. CASE MarkActionReverting
    BY <1>1, <1>5, GuardPatch DEF MarkActionReverting
  <1>6. CASE MarkRevertFailed
    BY <1>1, <1>6, GuardPatch DEF MarkRevertFailed
  <1>7. CASE FinishRun
    BY <1>1, <1>7, GuardPatch DEF FinishRun
  <1>8. CASE LeakTokens
    <2>1. /\ UNCHANGED <<job, backlog, fs>> /\ pc' = "release"
          /\ leaked' = leaked \cup Tokens(fs)
      BY <1>8 DEF LeakTokens, Tokens
    <2> QED BY <1>1, <2>1 DEF GuardInv, FinalizerGuardsTokens, Held, Tokens
  <1>9. CASE ReleaseFinalizer
    <2> DEFINE j == [fs EXCEPT !.finalizer = FALSE, !.state = "gone"]
    <2>1. UpdateJob(j, "idle") /\ leaked' = leaked /\ pc = "release"
      BY <1>9 DEF ReleaseFinalizer, world
    <2>2. ~j.finalizer /\ j.state = "gone" /\ Tokens(j) = Tokens(fs)
      BY DEF TypeOK, Job, Tokens
    <2> HIDE DEF j
    <2>3. job' = j /\ pc' = "idle"
      BY <2>1, UpdateEffect
    <2> QED BY <2>1, <2>2, <2>3 DEF GuardInv, FinalizerGuardsTokens, Held, Unheld, Tokens
  <1> QED BY <1>2, <1>3, <1>4, <1>5, <1>6, <1>7, <1>8, <1>9 DEF Reversion

LEMMA GuardPass ==
    ASSUME TypeInv, GuardInv, Pass
    PROVE  GuardInv'
  <1>a. TypeOK
    BY DEF TypeInv
  <1>1. CASE ReadJob
    <2> DEFINE f == Cached
               step == Dispatch(Cached)
    <2>1. /\ UNCHANGED <<job, backlog, leaked>> /\ pc' = step
      BY <1>1 DEF ReadJob, world
    <2>2. step # "idle" => fs' = f
      BY <1>1 DEF ReadJob, Ends
    <2>3. f.finalizer => Held
      BY <1>a DEF Cached, GuardInv, Held, TypeOK
    <2>4. f \in Job
      BY <1>a, CachedType
    <2> HIDE DEF f
    <2>5. /\ step = "release" => f.status.active = <<>>
          /\ step \notin Unheld => f.finalizer
      BY <2>4, DispatchStep DEF f, Unheld
    <2> HIDE DEF step
    <2>6. pc' = "release" => Tokens(fs)' = {}
      BY <2>1, <2>2, <2>5 DEF Tokens, Names
    <2> QED BY <2>1, <2>3, <2>5, <2>6 DEF GuardInv, FinalizerGuardsTokens, Held, Tokens
  <1>2. CASE AddFinalizer
    <2> DEFINE j == [fs EXCEPT !.finalizer = TRUE]
               step == DispatchLive(j)
    <2>1. UpdateJob(j, step)
      BY <1>2 DEF AddFinalizer
    <2>2. j \in Job /\ j.finalizer /\ j.state = fs.state
      BY <1>a DEF TypeOK, Job
    <2> HIDE DEF j
    <2>3. step # "release"
      BY <2>2, DispatchLiveStep
    <2> HIDE DEF step
    <2> QED BY <2>1, <2>2, <2>3, UpdateEffect, GuardHeldWrite
  <1>3. CASE DisableExpired
    <2> DEFINE j == [fs EXCEPT !.spec.enabled = FALSE]
               step == RevertStep(j, "finish")
    <2>1. UpdateJob(j, step) /\ pc \notin Unheld
      BY <1>3 DEF DisableExpired, Unheld
    <2>2. j.finalizer = fs.finalizer /\ j.state = fs.state
      BY <1>a DEF TypeOK, Job
    <2>3. step # "release"
      BY DEF RevertStep
    <2> HIDE DEF j, step
    <2> QED BY <2>1, <2>2, <2>3, UpdateEffect, GuardHeldWrite DEF GuardInv, Held
  <1>4. CASE RejectInvalid \/ SettleIdle
    <2>1. /\ pc \notin Unheld /\ job.state # "gone" /\ pc' = "idle"
          /\ job'.finalizer = job.finalizer /\ job'.state = job.state
      BY <1>a, <1>4 DEF RejectInvalid, SettleIdle, Write, Unheld, TypeOK, Job
    <2> QED BY <2>1, GuardHeldWrite DEF GuardInv, Held
  <1>5. CASE StartRun
    <2>1. pc \notin Unheld
      BY <1>5 DEF StartRun, Unheld
    <2> QED BY <1>a, <1>5, <2>1, GuardPatch DEF StartRun
  <1>6. CASE Conflict
    BY <1>6, GuardLocal DEF Conflict, EndPass, world, Unheld
  <1> QED BY <1>a, <1>1, <1>2, <1>3, <1>4, <1>5, <1>6, GuardActivation, GuardReversion DEF Pass

\* Delete makes an object gone only if it has no finalizer.
LEMMA GuardUser ==
    ASSUME TypeOK, GuardInv, KeptByUsers
    PROVE  GuardInv'
  <1>1. Held => Held'
    BY DEF Held, KeptByUsers, KeepsStatus
  <1>2. \A k \in DOMAIN backlog' : backlog'[k].finalizer => Held
    <2>1. \A k \in DOMAIN backlog' :
              backlog'[k] = job \/ \E l \in DOMAIN backlog : backlog'[k] = backlog[l]
      BY WriteVersions DEF KeptByUsers, KeepsStatus
    <2> QED BY <2>1 DEF GuardInv, Held
  <1>3. job'.state = "gone" => ~job'.finalizer
    BY DEF KeptByUsers, KeepsStatus
  <1>4. FinalizerGuardsTokens'
    BY DEF KeptByUsers, KeepsStatus, GuardInv, FinalizerGuardsTokens
  <1>5. pc' = "release" => Tokens(fs)' \subseteq leaked'
    BY DEF KeptByUsers, KeepsStatus, GuardInv, Tokens
  <1> QED BY <1>1, <1>2, <1>3, <1>4, <1>5 DEF GuardInv, KeptByUsers, KeepsStatus

LEMMA GuardNext == TypeInv /\ GuardInv /\ [Next]_vars => GuardInv'
  <1> SUFFICES ASSUME TypeInv, GuardInv, [Next]_vars PROVE GuardInv'
    OBVIOUS
  <1>a. TypeOK
    BY DEF TypeInv
  <1>1. CASE UNCHANGED vars
    BY <1>1 DEF vars, world, GuardInv, FinalizerGuardsTokens, Held, Tokens
  <1>2. CASE Pass
    BY <1>2, GuardPass
  <1>3. CASE Abandon
    BY <1>3, GuardLocal DEF Abandon, EndPass, world, Unheld
  <1>4. CASE Deliver
    <2>1. UNCHANGED <<job, pc, fs, leaked>> /\ backlog # <<>> /\ backlog' = Tail(backlog)
      BY <1>4 DEF Deliver, world
    <2>2. \A k \in DOMAIN backlog' : \E l \in DOMAIN backlog : backlog'[k] = backlog[l]
      BY <1>a, <2>1 DEF TypeOK
    <2> QED BY <2>1, <2>2 DEF GuardInv, FinalizerGuardsTokens, Held, Tokens
  <1>5. CASE Clock \/ EffectEnds
    BY <1>5 DEF Clock, DelayElapses, RunExpires, EffectEnds, world,
                GuardInv, FinalizerGuardsTokens, Held, Tokens
  <1>6. CASE User
    BY <1>a, <1>6, UserEffect, GuardUser
  <1> QED BY <1>1, <1>2, <1>3, <1>4, <1>5, <1>6 DEF Next

\* The finalizer guards the tokens, however far behind the cache is: an object
\* without it has no token that was not leaked (reconcileDelete, leakState).
THEOREM FinalizerGuards == Spec => []FinalizerGuardsTokens
  <1>1. Init => TypeInv /\ GuardInv
    BY InitType, GuardInit
  <1>2. TypeInv /\ GuardInv /\ [Next]_vars => (TypeInv /\ GuardInv)'
    BY NextType, GuardNext
  <1>3. GuardInv => FinalizerGuardsTokens
    BY DEF GuardInv
  <1> QED BY <1>1, <1>2, <1>3, PTL DEF Spec

-----------------------------------------------------------------------------
(* The promise, when no pass starts before the cache shows the operator's   *)
(* last status write.  A running pass then works on the stored status, and  *)
(* what it has just reverted stays reverted until its token is dropped.     *)

Covered(tokens) == \A x \in Action : injected[x] => x \in tokens

FreshInv ==
    /\ pc # "idle" => fs.status = job.status
    /\ pc = "drained" => ~injected[Newest.name]
    /\ Covered(Tokens(job))

\* A step of the promise, or none.
Step == [Durable!Next]_(Durable!vars)

LEMMA Stutter ==
    ASSUME UNCHANGED <<injected, leaked>>, Tokens(job') = Tokens(job),
           job'.state = "gone" <=> job.state = "gone"
    PROVE  Step
  BY DEF Step, Durable!vars, Tokens

LEMMA TokenStep ==
    ASSUME NEW x \in Action,
           \/ Durable!Record(x) \/ Durable!Inject(x) \/ Durable!Restore(x) \/ Durable!Forget(x)
    PROVE  Step
  BY DEF Step, Durable!Next

LEMMA QuietLocal ==
    ASSUME FreshInv, UNCHANGED <<job, injected, leaked>>,
           pc' = "idle" \/ (pc # "idle" /\ UNCHANGED fs), pc' # "drained"
    PROVE  FreshInv' /\ Step
  <1>1. Step
    BY Stutter
  <1>2. FreshInv'
    BY DEF FreshInv, Covered, Tokens
  <1> QED BY <1>1, <1>2

\* A status write that keeps the names of the tokens.
LEMMA QuietPatch ==
    ASSUME TypeOK, FreshInv, UNCHANGED <<injected, leaked>>,
           NEW s, NEW next, next # "drained", PatchStatus(s, next), Names(s.active) = Tokens(job)
    PROVE  FreshInv' /\ Step
  <1>1. /\ pc' = next /\ job'.status = s /\ job'.state = job.state
        /\ next # "idle" => fs' = job'
    BY PatchEffect
  <1>2. Tokens(job') = Tokens(job)
    BY <1>1 DEF Tokens
  <1>3. Step
    BY <1>1, <1>2, Stutter
  <1>4. FreshInv'
    BY <1>1, <1>2 DEF FreshInv, Covered, Tokens
  <1> QED BY <1>3, <1>4

LEMMA FreshActivation ==
    ASSUME TypeInv, FreshInv, Activation
    PROVE  FreshInv' /\ Step
  <1>a. TypeOK /\ job.status \in Status /\ job.status.active \in Seq(ActiveAction)
    BY DEF TypeInv, TypeOK, Job, Status
  <1>1. CASE SkipDelayed \/ HoldSteady \/ ListShrank
    <2>1. /\ UNCHANGED <<job, injected, leaked>> /\ pc # "drained" /\ pc # "idle"
          /\ pc' = "idle" \/ UNCHANGED <<pc, fs>>
      BY <1>1 DEF SkipDelayed, HoldSteady, ListShrank, EndPass, InLoop, LoopDone, world
    <2> QED BY <2>1, QuietLocal
  <1>2. CASE PlanFails
    <2> DEFINE s == [job.status EXCEPT !.ready = FALSE]
    <2>1. s.active = job.status.active
      BY <1>a DEF Status
    <2>2. PatchStatus(s, "action") /\ UNCHANGED <<injected, leaked>>
      BY <1>2 DEF PlanFails, world
    <2> HIDE DEF s
    <2> QED BY <1>a, <2>1, <2>2, QuietPatch DEF Tokens
  <1>3. CASE SettlePhase
    <2> DEFINE s == [job.status EXCEPT
            !.phase = IF loop.all THEN "Active" ELSE "Activating",
            !.ready = loop.all \/ job.status.ready]
    <2>1. s.active = job.status.active
      BY <1>a DEF Status
    <2>2. PatchStatus(s, "idle") /\ UNCHANGED <<injected, leaked>>
      BY <1>3 DEF SettlePhase, world
    <2> HIDE DEF s
    <2> QED BY <1>a, <2>1, <2>2, QuietPatch DEF Tokens
  <1>4. CASE MarkApplied
    <2> DEFINE s == [job.status EXCEPT !.active = MarkedApplied(@, loop.act)]
    <2>1. s.active = MarkedApplied(job.status.active, loop.act)
      BY <1>a DEF Status
    <2>2. PatchStatus(s, "action") /\ UNCHANGED <<injected, leaked>>
      BY <1>4 DEF MarkApplied, world
    <2> HIDE DEF s
    <2> QED BY <1>a, <2>1, <2>2, MarkedAppliedList, QuietPatch DEF Tokens
  <1>5. CASE MarkEnsureFailed
    <2> DEFINE s == [job.status EXCEPT !.active = MarkedFailing(@, loop.act)]
    <2>1. s.active = MarkedFailing(job.status.active, loop.act)
      BY <1>a DEF Status
    <2>2. PatchStatus(s, "action") /\ UNCHANGED <<injected, leaked>>
      BY <1>5 DEF MarkEnsureFailed, world
    <2> HIDE DEF s
    <2> QED BY <1>a, <2>1, <2>2, MarkedFailingList, QuietPatch DEF Tokens
  <1>6. CASE PersistToken
    <2> DEFINE entry == [name |-> loop.act, phase |-> "Recorded", attempts |-> 0, failed |-> FALSE]
               old   == job.status.active
               new   == IF loop.act \in Names(old) THEN old ELSE Append(old, entry)
               s     == [job.status EXCEPT !.active = new, !.phase = "Activating"]
    <2>1. s.active = new
      BY <1>a DEF Status
    <2>2. PatchStatus(s, "action") /\ UNCHANGED <<injected, leaked>>
      BY <1>6 DEF PersistToken, world
    <2>3. loop.act \in Action
      BY <1>a, <1>6 DEF PersistToken, InLoop, TypeOK, Loop
    <2>4. Names(new) = Names(old) \cup {loop.act}
      <3>1. CASE loop.act \in Names(old)
        BY <3>1
      <3>2. CASE loop.act \notin Names(old)
        <4> HIDE DEF old
        <4>1. entry.name = loop.act
          OBVIOUS
        <4> HIDE DEF entry
        <4>2. \A k \in DOMAIN old : k \in DOMAIN Append(old, entry) /\ Append(old, entry)[k] = old[k]
          BY <1>a DEF old
        <4>3. /\ Len(old) + 1 \in DOMAIN Append(old, entry)
              /\ Append(old, entry)[Len(old) + 1] = entry
          BY <1>a DEF old
        <4>4. DOMAIN Append(old, entry) = DOMAIN old \cup {Len(old) + 1}
          BY <1>a DEF old
        <4> QED BY <3>2, <4>1, <4>2, <4>3, <4>4 DEF Names
      <3> QED BY <3>1, <3>2
    <2> HIDE DEF s, new
    <2>5. /\ job.state # "gone" /\ pc' = "action" /\ job'.status = s /\ job'.state = job.state
          /\ fs' = job'
      BY <1>a, <2>2, PatchEffect
    <2>6. Tokens(job') = Tokens(job) \cup {loop.act}
      BY <2>1, <2>4, <2>5 DEF Tokens
    <2>7. FreshInv'
      BY <2>2, <2>5, <2>6 DEF FreshInv, Covered, Tokens
    <2>8. Durable!Record(loop.act)
      BY <2>2, <2>5, <2>6 DEF Durable!Record, Tokens
    <2> QED BY <2>3, <2>7, <2>8, TokenStep
  <1>7. CASE EnsureDone \/ EnsurePending \/ EnsureFails
    <2>0. PICK x \in Action : x = loop.act
      BY <1>a, <1>7 DEF EnsureDone, EnsurePending, EnsureFails, InLoop, TypeOK, Loop
    <2>1. x \in Tokens(job) /\ pc = "action"
      BY <2>0, <1>a, <1>7 DEF EnsureDone, EnsurePending, EnsureFails, InLoop, Recorded, TypeOK, Loop,
                        FreshInv, Tokens
    <2>2. /\ UNCHANGED <<job, fs, leaked>> /\ pc' \in {"action", "applied", "ensureFailed"}
          /\ injected' = injected \/ injected' = [injected EXCEPT ![x] = TRUE]
      <3>1. \A v \in {injected[x], TRUE} : [injected EXCEPT ![x] = v] = injected
                                          \/ [injected EXCEPT ![x] = v] = [injected EXCEPT ![x] = TRUE]
        BY <1>a DEF TypeOK
      <3> QED BY <1>7, <2>0, <2>1, <3>1 DEF EnsureDone, EnsurePending, EnsureFails, MayChange
    <2>3. CASE injected' = injected
      BY <2>1, <2>2, <2>3, QuietLocal
    <2>4. CASE injected' = [injected EXCEPT ![x] = TRUE]
      <3>1. \A y \in Action : injected'[y] <=> injected[y] \/ y = x
        BY <1>a, <2>1, <2>4 DEF TypeOK
      <3>2. FreshInv'
        BY <2>1, <2>2, <3>1 DEF FreshInv, Covered, Tokens
      <3>3. Durable!Inject(x)
        BY <2>1, <2>2, <3>1 DEF Durable!Inject, Tokens
      <3> QED BY <2>1, <3>2, <3>3, TokenStep
    <2> QED BY <2>2, <2>3, <2>4
  <1> QED BY <1>1, <1>2, <1>3, <1>4, <1>5, <1>6, <1>7 DEF Activation

LEMMA FreshReversion ==
    ASSUME TypeInv, GuardInv, FreshInv, Reversion
    PROVE  FreshInv' /\ Step
  <1>a. TypeOK /\ job.status \in Status /\ job.status.active \in Seq(ActiveAction)
    BY DEF TypeInv, TypeOK, Job, Status
  <1>1. CASE MarkReverting
    <2> DEFINE s == [job.status EXCEPT !.phase = "Reverting"]
    <2>1. s.active = job.status.active
      BY <1>a DEF Status
    <2>2. PatchStatus(s, "revert") /\ UNCHANGED <<injected, leaked>>
      BY <1>1 DEF MarkReverting, world
    <2> HIDE DEF s
    <2> QED BY <1>a, <2>1, <2>2, QuietPatch DEF Tokens
  <1>2. CASE MarkActionReverting
    <2> DEFINE s == [job.status EXCEPT !.active = MarkedReverting(@, Newest.name)]
    <2>1. s.active = MarkedReverting(job.status.active, Newest.name)
      BY <1>a DEF Status
    <2>2. PatchStatus(s, "idle") /\ UNCHANGED <<injected, leaked>>
      BY <1>2 DEF MarkActionReverting, world
    <2> HIDE DEF s
    <2> QED BY <1>a, <2>1, <2>2, MarkedRevertingList, QuietPatch DEF Tokens
  <1>3. CASE MarkRevertFailed
    <2> DEFINE n == Capped(Newest.attempts + 1)
               s == [job.status EXCEPT
                        !.active = MarkedRevertFailing(@, Newest.name, n),
                        !.phase = IF n = DegradedAfter THEN "Degraded" ELSE @,
                        !.revertFailed = n = DegradedAfter \/ @]
    <2>1. n \in 0..DegradedAfter
      BY <1>3, NewestAttempts DEF MarkRevertFailed
    <2>2. PatchStatus(s, "idle") /\ UNCHANGED <<injected, leaked>>
      BY <1>3 DEF MarkRevertFailed, world
    <2> HIDE DEF n
    <2>3. s.active = MarkedRevertFailing(job.status.active, Newest.name, n)
      BY <1>a DEF Status
    <2> HIDE DEF s
    <2> QED BY <1>a, <2>1, <2>2, <2>3, MarkedRevertFailingList, QuietPatch DEF Tokens
  <1>4. CASE FinishRun
    <2> DEFINE run == fs.status.run
               entry == [id |-> run.id, start |-> run.start,
                         result |-> IF RunExpired(run) THEN "Completed" ELSE "Reverted"]
               s == [job.status EXCEPT
                  !.history = AppendHistory(@, entry), !.lastCompleted = run.id,
                  !.run = NoRun, !.phase = "Idle", !.ready = TRUE, !.revertFailed = FALSE]
    <2>1. PatchStatus(s, "idle") /\ UNCHANGED <<injected, leaked>>
      BY <1>4 DEF FinishRun, world
    <2> HIDE DEF entry, run
    <2>2. s.active = job.status.active
      BY <1>a DEF Status
    <2> HIDE DEF s
    <2> QED BY <1>a, <2>1, <2>2, QuietPatch DEF Tokens
  <1>5. CASE RevertDone \/ RevertUnfinished
    <2>1. PICK x \in Action : x = Newest.name
      <3>1. fs.status.active # <<>> /\ fs.status.active \in Seq(ActiveAction)
        BY <1>a, <1>5 DEF RevertDone, RevertUnfinished, TypeOK, Job, Status
      <3>2. Newest \in ActiveAction
        BY <3>1 DEF Newest
      <3> QED BY <3>2 DEF ActiveAction
    <2>2. /\ UNCHANGED <<job, fs, leaked>> /\ pc = "revert"
          /\ pc' \in {"drained", "reverting", "revertFailed"}
          /\ injected' = injected \/ injected' = [injected EXCEPT ![x] = FALSE]
          /\ pc' = "drained" => injected' = [injected EXCEPT ![x] = FALSE]
      <3>1. \A v \in {injected[x], FALSE} : [injected EXCEPT ![x] = v] = injected
                                          \/ [injected EXCEPT ![x] = v] = [injected EXCEPT ![x] = FALSE]
        BY <1>a DEF TypeOK
      <3> QED BY <1>5, <2>1, <3>1 DEF RevertDone, RevertUnfinished, MayChange
    <2>3. Newest.name' = x
      BY <2>1, <2>2 DEF Newest
    <2>4. \A y \in Action : injected'[y] => injected[y]
      BY <1>a, <2>2 DEF TypeOK
    <2>5. pc' = "drained" => ~injected'[x]
      BY <1>a, <2>2 DEF TypeOK
    <2>6. FreshInv'
      BY <2>2, <2>3, <2>4, <2>5 DEF FreshInv, Covered, Tokens
    <2>7. Step
      <3>1. CASE injected' = injected
        BY <2>2, <3>1, Stutter
      <3>2. CASE injected' = [injected EXCEPT ![x] = FALSE]
        <4>1. \A y \in Action : injected'[y] <=> injected[y] /\ y # x
          BY <1>a, <2>1, <3>2 DEF TypeOK
        <4>2. Durable!Restore(x)
          BY <2>1, <2>2, <4>1 DEF Durable!Restore
        <4> QED BY <2>1, <4>2, TokenStep
      <3> QED BY <2>2, <3>1, <3>2
    <2> QED BY <2>6, <2>7
  <1>6. CASE DropToken
    <2> DEFINE s == [job.status EXCEPT !.active = Without(@, Newest.name)]
    <2>1. PICK x \in Action : x = Newest.name /\ ~injected[x]
      <3>1. fs.status.active # <<>> /\ fs.status.active \in Seq(ActiveAction)
        BY <1>a, <1>6 DEF DropToken, TypeInv, ReadWhatItUses, TypeOK, Job, Status
      <3>2. Newest \in ActiveAction
        BY <3>1 DEF Newest
      <3> QED BY <1>6, <3>2 DEF ActiveAction, FreshInv, DropToken
    <2>2. PatchStatus(s, "idle") /\ UNCHANGED <<injected, leaked>>
      BY <1>6 DEF DropToken, world
    <2>3. s.active = Without(job.status.active, x)
      BY <1>a, <2>1 DEF Status
    <2> HIDE DEF s
    <2>4. job'.status = s /\ job'.state = job.state /\ pc' = "idle" /\ job.state # "gone"
      BY <1>a, <2>2, PatchEffect
    <2>5. Tokens(job') \subseteq Tokens(job) /\ Tokens(job) \ {x} \subseteq Tokens(job')
      BY <1>a, <2>3, <2>4, WithoutList DEF Tokens
    <2>6. FreshInv'
      BY <2>1, <2>2, <2>4, <2>5 DEF FreshInv, Covered, Tokens
    <2>7. CASE x \in Tokens(job')
      <3>1. Tokens(job') = Tokens(job)
        BY <2>5, <2>7
      <3> QED BY <2>2, <2>4, <2>6, <3>1, Stutter
    <2>8. CASE x \notin Tokens(job')
      <3>1. Tokens(job') = Tokens(job) \ {x}
        BY <2>5, <2>8
      <3>2. Durable!Forget(x)
        BY <2>1, <2>2, <2>4, <3>1 DEF Durable!Forget, Tokens
      <3> QED BY <2>1, <2>6, <3>2, TokenStep
    <2> QED BY <2>7, <2>8
  <1>7. CASE LeakTokens
    <2>1. /\ UNCHANGED <<job, fs, injected>> /\ pc = "leak" /\ pc' = "release"
          /\ leaked' = leaked \cup Tokens(fs)
      BY <1>7 DEF LeakTokens, Tokens
    <2>2. FreshInv'
      BY <2>1 DEF FreshInv, Covered, Tokens
    <2>3. Durable!AbandonTokens
      BY <2>1 DEF Durable!AbandonTokens, FreshInv, Tokens
    <2> QED BY <2>2, <2>3 DEF Step, Durable!Next
  <1>8. CASE ReleaseFinalizer
    <2> DEFINE j == [fs EXCEPT !.finalizer = FALSE, !.state = "gone"]
    <2>1. UpdateJob(j, "idle") /\ UNCHANGED <<injected, leaked>> /\ pc = "release"
      BY <1>8 DEF ReleaseFinalizer, world
    <2>2. j.state = "gone" /\ j.status = fs.status
      BY <1>a DEF TypeOK, Job
    <2> HIDE DEF j
    <2>3. job' = j /\ pc' = "idle" /\ fs = job /\ job.state # "gone"
      BY <2>1, UpdateEffect
    <2>4. Tokens(job') = Tokens(job) /\ Tokens(job) \subseteq leaked
      BY <2>1, <2>2, <2>3 DEF GuardInv, Tokens
    <2>5. FreshInv'
      BY <2>1, <2>3, <2>4 DEF FreshInv, Covered, Tokens
    <2>6. Durable!Release
      BY <2>1, <2>2, <2>3, <2>4 DEF Durable!Release, Tokens
    <2> QED BY <2>5, <2>6 DEF Step, Durable!Next
  <1>9. CASE RevertPanics
    BY <1>9, QuietLocal DEF RevertPanics, EndPass, world
  <1> QED BY <1>1, <1>2, <1>3, <1>4, <1>5, <1>6, <1>7, <1>8, <1>9 DEF Reversion

LEMMA FreshPass ==
    ASSUME ReadsOwnWrites, TypeInv, GuardInv, FreshInv, Pass
    PROVE  FreshInv' /\ Step
  <1>a. TypeOK /\ job.status \in Status
    BY DEF TypeInv, TypeOK, Job
  <1>1. CASE ReadJob
    <2> DEFINE f == Cached
               step == Dispatch(Cached)
    <2>1. /\ UNCHANGED <<job, injected, leaked>> /\ pc' = step /\ f.status = job.status
      BY <1>1 DEF ReadJob, world
    <2>2. step # "idle" => fs' = f
      BY <1>1 DEF ReadJob, Ends
    <2>3. step # "drained"
      BY <1>a, CachedType, DispatchStep
    <2> HIDE DEF f, step
    <2>4. FreshInv'
      BY <2>1, <2>2, <2>3 DEF FreshInv, Covered, Tokens
    <2> QED BY <2>1, <2>4, Stutter
  <1>2. CASE AddFinalizer
    <2> DEFINE j == [fs EXCEPT !.finalizer = TRUE]
               step == DispatchLive(j)
    <2>1. UpdateJob(j, step) /\ UNCHANGED <<injected, leaked>>
      BY <1>2 DEF AddFinalizer, world
    <2>2. j \in Job /\ j.status = fs.status /\ j.state = fs.state
      BY <1>a DEF TypeOK, Job
    <2> HIDE DEF j
    <2>3. step # "drained"
      BY <2>2, DispatchLiveStep
    <2> HIDE DEF step
    <2>4. fs = job /\ job' = j /\ pc' = step /\ (step # "idle" => fs' = j)
      BY <2>1, UpdateEffect
    <2>5. Tokens(job') = Tokens(job)
      BY <2>2, <2>4 DEF Tokens
    <2>6. FreshInv'
      BY <2>1, <2>3, <2>4, <2>5 DEF FreshInv, Covered, Tokens
    <2> QED BY <2>1, <2>2, <2>4, <2>5, <2>6, Stutter
  <1>3. CASE DisableExpired
    <2> DEFINE j == [fs EXCEPT !.spec.enabled = FALSE]
               step == RevertStep(j, "finish")
    <2>1. UpdateJob(j, step) /\ UNCHANGED <<injected, leaked>>
      BY <1>3 DEF DisableExpired, world
    <2>2. j.status = fs.status /\ j.state = fs.state
      BY <1>a DEF TypeOK, Job
    <2>3. step # "drained"
      BY DEF RevertStep
    <2> HIDE DEF j, step
    <2>4. fs = job /\ job' = j /\ pc' = step /\ (step # "idle" => fs' = j)
      BY <2>1, UpdateEffect
    <2>5. Tokens(job') = Tokens(job)
      BY <2>2, <2>4 DEF Tokens
    <2>6. FreshInv'
      BY <2>1, <2>3, <2>4, <2>5 DEF FreshInv, Covered, Tokens
    <2> QED BY <2>1, <2>2, <2>4, <2>5, <2>6, Stutter
  <1>4. CASE RejectInvalid \/ SettleIdle
    <2>1. /\ UNCHANGED <<injected, leaked>> /\ pc' = "idle"
          /\ job'.state = job.state /\ job'.status.active = job.status.active
      <3>1. CASE RejectInvalid
        BY <1>a, <3>1 DEF RejectInvalid, Write, world, TypeOK, Job, Status
      <3>2. CASE SettleIdle
        BY <1>a, <3>2 DEF SettleIdle, Write, world, TypeOK, Job, Status
      <3> QED BY <1>4, <3>1, <3>2
    <2>2. FreshInv'
      BY <2>1 DEF FreshInv, Covered, Tokens
    <2> QED BY <2>1, <2>2, Stutter DEF Tokens
  <1>5. CASE StartRun
    <2> DEFINE s == [job.status EXCEPT !.run = DesiredRun(fs, starts + 1),
                                       !.phase = "Activating"]
    <2>1. s.active = job.status.active
      BY <1>a DEF Status
    <2>2. PatchStatus(s, "idle") /\ UNCHANGED <<injected, leaked>>
      BY <1>5 DEF StartRun, world
    <2> HIDE DEF s
    <2> QED BY <1>a, <2>1, <2>2, QuietPatch DEF Tokens
  <1>6. CASE Conflict
    BY <1>6, QuietLocal DEF Conflict, EndPass, world
  <1> QED BY <1>1, <1>2, <1>3, <1>4, <1>5, <1>6, FreshActivation, FreshReversion DEF Pass

LEMMA FreshUser ==
    ASSUME TypeInv, GuardInv, FreshInv, User
    PROVE  FreshInv' /\ Step
  <1>1. KeptByUsers
    BY UserEffect DEF TypeInv
  <1>2. Tokens(job') = Tokens(job) /\ UNCHANGED <<pc, fs, injected, leaked>>
    BY <1>1 DEF KeptByUsers, KeepsStatus, Tokens
  <1>3. FreshInv'
    BY <1>1, <1>2 DEF FreshInv, Covered, Tokens, Newest, KeptByUsers, KeepsStatus
  <1>4. CASE job'.state # "gone"
    BY <1>1, <1>2, <1>3, <1>4, Stutter DEF KeptByUsers
  <1>5. CASE job'.state = "gone"
    <2>1. job.state # "gone" /\ Tokens(job) \subseteq leaked
      BY <1>1, <1>5 DEF KeptByUsers, KeepsStatus, GuardInv, FinalizerGuardsTokens, Tokens
    <2>2. Durable!Release
      BY <1>2, <1>5, <2>1 DEF Durable!Release, Tokens
    <2> QED BY <1>3, <2>2 DEF Step, Durable!Next
  <1> QED BY <1>4, <1>5

LEMMA FreshNext ==
    ReadsOwnWrites /\ TypeInv /\ GuardInv /\ FreshInv /\ [Next]_vars => FreshInv' /\ Step
  <1> SUFFICES ASSUME ReadsOwnWrites, TypeInv, GuardInv, FreshInv, [Next]_vars
               PROVE  FreshInv' /\ Step
    OBVIOUS
  <1>a. injected \in [Action -> BOOLEAN]
    BY DEF TypeInv, TypeOK
  <1>1. CASE UNCHANGED vars
    <2>1. UNCHANGED <<job, pc, fs, injected, leaked>>
      BY <1>1 DEF vars, world
    <2>2. FreshInv'
      BY <2>1 DEF FreshInv, Covered, Tokens, Newest
    <2> QED BY <2>1, <2>2, Stutter
  <1>2. CASE Pass
    BY <1>2, FreshPass
  <1>3. CASE Abandon
    BY <1>3, QuietLocal DEF Abandon, EndPass, world
  <1>4. CASE Deliver \/ Clock
    <2>1. UNCHANGED <<job, pc, fs, injected, leaked>>
      BY <1>4 DEF Deliver, Clock, DelayElapses, RunExpires, world
    <2>2. FreshInv'
      BY <2>1 DEF FreshInv, Covered, Tokens, Newest
    <2> QED BY <2>1, <2>2, Stutter
  <1>5. CASE EffectEnds
    <2>1. PICK x \in Action : injected' = [injected EXCEPT ![x] = FALSE]
      BY <1>5 DEF EffectEnds
    <2>2. UNCHANGED <<job, pc, fs, leaked>>
      BY <1>5 DEF EffectEnds
    <2>3. \A y \in Action : injected'[y] <=> injected[y] /\ y # x
      BY <1>a, <2>1
    <2>4. pc = "drained" => ~injected'[Newest.name]
      <3>1. \A y : ~injected[y] => ~injected'[y]
        BY <1>a, <2>1
      <3> QED BY <3>1 DEF FreshInv
    <2>5. FreshInv'
      BY <2>2, <2>3, <2>4 DEF FreshInv, Covered, Tokens, Newest
    <2>6. Durable!Restore(x)
      BY <2>2, <2>3 DEF Durable!Restore
    <2> QED BY <2>5, <2>6, TokenStep
  <1>6. CASE User
    BY <1>6, FreshUser
  <1> QED BY <1>1, <1>2, <1>3, <1>4, <1>5, <1>6 DEF Next

LEMMA FreshInit == Init => FreshInv /\ Durable!Init
  <1> SUFFICES ASSUME Init PROVE FreshInv /\ Durable!Init
    OBVIOUS
  <1>1. PICK list \in ActionLists : job = [Blank EXCEPT !.spec.actions = list]
    BY DEF Init
  <1>2. job.status.active = <<>> /\ job.state = "present"
    BY <1>1 DEF Blank, NewStatus
  <1>3. Tokens(job) = {}
    BY <1>2 DEF Tokens, Names
  <1>4. /\ pc = "idle" /\ leaked = {} /\ \A x \in Action : ~injected[x]
    BY DEF Init
  <1>5. FreshInv
    BY <1>4 DEF FreshInv, Covered
  <1>6. Durable!Init
    BY <1>2, <1>3, <1>4 DEF Durable!Init, Tokens
  <1> QED BY <1>5, <1>6

\* Plan, persist the token, mutate: as long as passes see the operator's own
\* status writes, whatever is injected has its token in the status of an object
\* that still exists, or was leaked (reconcileActivate, reconcileRevert).
THEOREM InjectionsCovered == ReadsOwnWrites /\ Spec => []TokenCoversInjection
  <1> SUFFICES ASSUME ReadsOwnWrites PROVE Spec => []TokenCoversInjection
    OBVIOUS
  <1>1. Init => TypeInv /\ GuardInv /\ FreshInv
    BY InitType, GuardInit, FreshInit
  <1>2. TypeInv /\ GuardInv /\ FreshInv /\ [Next]_vars => (TypeInv /\ GuardInv /\ FreshInv)'
    BY NextType, GuardNext, FreshNext
  <1>3. GuardInv /\ FreshInv => TokenCoversInjection
    BY DEF GuardInv, FreshInv, FinalizerGuardsTokens, TokenCoversInjection, Covered, Tokens
  <1> QED BY <1>1, <1>2, <1>3, PTL DEF Spec

\* The reconciler implements DurableRevert: every call it makes, every request
\* of a user, crash and restart is a step of the promise or none.
THEOREM ImplementsDurableRevert == ReadsOwnWrites /\ Spec => RefinesDurableRevert
  <1> SUFFICES ASSUME ReadsOwnWrites PROVE Spec => Durable!Spec
    BY DEF RefinesDurableRevert
  <1>1. Init => TypeInv /\ GuardInv /\ FreshInv /\ Durable!Init
    BY InitType, GuardInit, FreshInit
  <1>2. TypeInv /\ GuardInv /\ FreshInv /\ [Next]_vars => (TypeInv /\ GuardInv /\ FreshInv)'
    BY NextType, GuardNext, FreshNext
  <1>3. TypeInv /\ GuardInv /\ FreshInv /\ [Next]_vars => [Durable!Next]_(Durable!vars)
    BY FreshNext DEF Step
  <1> QED BY <1>1, <1>2, <1>3, PTL DEF Spec, Durable!Spec
=============================================================================
