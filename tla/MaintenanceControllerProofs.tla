--------------------- MODULE MaintenanceControllerProofs ---------------------
(***************************************************************************)
(* Theorems about MaintenanceController, for every set of actions, every   *)
(* lag of the cache, and every bound.                                      *)
(***************************************************************************)
EXTENDS MaintenanceController, SequenceTheorems, TLAPS

-----------------------------------------------------------------------------
(* The list operators.                                                     *)

LEMMA RemoveAtElements ==
    ASSUME NEW S, NEW s \in Seq(S), NEW i \in 1..Len(s)
    PROVE  /\ RemoveAt(s, i) \in Seq(S)
           /\ Len(RemoveAt(s, i)) = Len(s) - 1
           /\ \A k \in 1..(Len(s) - 1) :
                  RemoveAt(s, i)[k] = IF k < i THEN s[k] ELSE s[k + 1]
  <1> DEFINE l == SubSeq(s, 1, i - 1)
             r == SubSeq(s, i + 1, Len(s))
  <1>1. l \in Seq(S) /\ Len(l) = i - 1 /\ \A k \in 1..(i - 1) : l[k] = s[k]
    OBVIOUS
  <1>2. r \in Seq(S) /\ Len(r) = Len(s) - i /\ \A k \in 1..(Len(s) - i) : r[k] = s[i + k]
    OBVIOUS
  <1>3. RemoveAt(s, i) = l \o r
    BY DEF RemoveAt
  <1> HIDE DEF l, r
  <1>4. l \o r \in Seq(S) /\ Len(l \o r) = Len(s) - 1
    <2>1. l \o r \in Seq(S) /\ Len(l \o r) = Len(l) + Len(r)
      BY <1>1, <1>2, ConcatProperties
    <2> QED BY <1>1, <1>2, <2>1
  <1>5. \A k \in 1..(Len(s) - 1) : (l \o r)[k] = IF k < i THEN s[k] ELSE s[k + 1]
    BY <1>1, <1>2
  <1> QED BY <1>3, <1>4, <1>5

LEMMA WithoutList ==
    ASSUME NEW s \in Seq(ActiveAction), NEW a
    PROVE  /\ Without(s, a) \in Seq(ActiveAction)
           /\ Names(Without(s, a)) \subseteq Names(s)
           /\ Names(s) \ {a} \subseteq Names(Without(s, a))
  <1>1. CASE a \notin Names(s)
    BY <1>1 DEF Without
  <1>2. CASE a \in Names(s)
    <2> DEFINE p == Position(s, a)
               w == RemoveAt(s, p)
    <2>1. p \in 1..Len(s) /\ s[p].name = a
      BY <1>2 DEF Names, Position
    <2>2. Without(s, a) = w
      BY <1>2 DEF Without
    <2> HIDE DEF p
    <2>3. /\ w \in Seq(ActiveAction) /\ Len(w) = Len(s) - 1
          /\ \A k \in 1..(Len(s) - 1) : w[k] = IF k < p THEN s[k] ELSE s[k + 1]
      BY <2>1, RemoveAtElements
    <2> HIDE DEF w
    <2>4. Names(w) \subseteq Names(s)
      <3> SUFFICES ASSUME NEW k \in 1..Len(w) PROVE w[k].name \in Names(s)
        BY <2>3 DEF Names
      <3> QED BY <2>1, <2>3 DEF Names
    <2>5. Names(s) \ {a} \subseteq Names(w)
      <3> SUFFICES ASSUME NEW k \in 1..Len(s), s[k].name # a PROVE s[k].name \in Names(w)
        BY DEF Names
      <3>1. k # p
        BY <2>1
      <3>2. CASE k < p
        BY <2>1, <2>3, <3>2 DEF Names
      <3>3. CASE k > p
        <4>1. k - 1 \in 1..Len(w) /\ w[k - 1] = s[k]
          BY <2>1, <2>3, <3>3
        <4> QED BY <2>3, <4>1 DEF Names
      <3> QED BY <2>1, <3>1, <3>2, <3>3
    <2> QED BY <2>2, <2>3, <2>4, <2>5
  <1> QED BY <1>1, <1>2

KeepsNames(s, t) == DOMAIN t = DOMAIN s /\ \A k \in DOMAIN s : t[k].name = s[k].name

\* An entry rewritten in place keeps its name, and the list its length.
LEMMA RewrittenList ==
    ASSUME NEW s \in Seq(ActiveAction), NEW t, DOMAIN t = DOMAIN s,
           t = [k \in DOMAIN s |-> t[k]],
           \A k \in DOMAIN s : t[k] \in ActiveAction /\ t[k].name = s[k].name
    PROVE  /\ t \in Seq(ActiveAction)
           /\ Names(t) = Names(s) /\ KeepsNames(s, t)
  <1>1. t \in Seq(ActiveAction)
    OBVIOUS
  <1>2. Names(t) = Names(s)
    BY DEF Names
  <1>3. KeepsNames(s, t)
    BY DEF KeepsNames
  <1> QED BY <1>1, <1>2, <1>3

LEMMA MarkedAppliedList ==
    ASSUME NEW s \in Seq(ActiveAction), NEW a
    PROVE  /\ MarkedApplied(s, a) \in Seq(ActiveAction)
           /\ Names(MarkedApplied(s, a)) = Names(s)
           /\ KeepsNames(s, MarkedApplied(s, a))
  <1> DEFINE t == MarkedApplied(s, a)
  <1>1. t = [k \in DOMAIN s |-> t[k]] /\ DOMAIN t = DOMAIN s
    BY DEF MarkedApplied, Changed
  <1>2. ASSUME NEW k \in DOMAIN s
        PROVE  t[k] \in ActiveAction /\ t[k].name = s[k].name
    <2> DEFINE e == s[k]
               c == [e EXCEPT !.phase = "Applied", !.attempts = 0, !.failed = FALSE]
    <2>1. e \in ActiveAction
      OBVIOUS
    <2>2. 0 \in 0..DegradedAfter
      BY ConstantsAssumption
    <2>3. c \in ActiveAction /\ c.name = e.name
      BY <2>1, <2>2 DEF ActiveAction
    <2>4. t[k] = e \/ t[k] = c
      BY DEF MarkedApplied, Changed
    <2> QED BY <2>1, <2>3, <2>4
  <1> QED BY <1>1, <1>2, RewrittenList

LEMMA MarkedFailingList ==
    ASSUME NEW s \in Seq(ActiveAction), NEW a
    PROVE  /\ MarkedFailing(s, a) \in Seq(ActiveAction)
           /\ Names(MarkedFailing(s, a)) = Names(s)
           /\ KeepsNames(s, MarkedFailing(s, a))
  <1> DEFINE t == MarkedFailing(s, a)
  <1>1. t = [k \in DOMAIN s |-> t[k]] /\ DOMAIN t = DOMAIN s
    BY DEF MarkedFailing, Changed
  <1>2. ASSUME NEW k \in DOMAIN s
        PROVE  t[k] \in ActiveAction /\ t[k].name = s[k].name
    <2> DEFINE e == s[k]
               n == Capped(e.attempts + 1)
               c == [e EXCEPT !.attempts = n, !.failed = TRUE]
    <2>1. e \in ActiveAction
      OBVIOUS
    <2>2. n \in 0..DegradedAfter
      BY <2>1, ConstantsAssumption DEF ActiveAction, Capped
    <2> HIDE DEF n
    <2>3. c \in ActiveAction /\ c.name = e.name
      BY <2>1, <2>2 DEF ActiveAction
    <2>4. t[k] = e \/ t[k] = c
      BY DEF MarkedFailing, Changed, n
    <2> QED BY <2>1, <2>3, <2>4
  <1> QED BY <1>1, <1>2, RewrittenList

LEMMA MarkedRevertingList ==
    ASSUME NEW s \in Seq(ActiveAction), NEW a
    PROVE  /\ MarkedReverting(s, a) \in Seq(ActiveAction)
           /\ Names(MarkedReverting(s, a)) = Names(s)
           /\ KeepsNames(s, MarkedReverting(s, a))
  <1> DEFINE t == MarkedReverting(s, a)
  <1>1. t = [k \in DOMAIN s |-> t[k]] /\ DOMAIN t = DOMAIN s
    BY DEF MarkedReverting, Changed
  <1>2. ASSUME NEW k \in DOMAIN s
        PROVE  t[k] \in ActiveAction /\ t[k].name = s[k].name
    <2> DEFINE e == s[k]
               c == [e EXCEPT !.phase = "Reverting", !.failed = FALSE]
    <2>1. e \in ActiveAction
      OBVIOUS
    <2>3. c \in ActiveAction /\ c.name = e.name
      BY <2>1 DEF ActiveAction
    <2>4. t[k] = e \/ t[k] = c
      BY DEF MarkedReverting, Changed
    <2> QED BY <2>1, <2>3, <2>4
  <1> QED BY <1>1, <1>2, RewrittenList

LEMMA MarkedRevertFailingList ==
    ASSUME NEW s \in Seq(ActiveAction), NEW a, NEW attempts \in 0..DegradedAfter
    PROVE  /\ MarkedRevertFailing(s, a, attempts) \in Seq(ActiveAction)
           /\ Names(MarkedRevertFailing(s, a, attempts)) = Names(s)
           /\ KeepsNames(s, MarkedRevertFailing(s, a, attempts))
  <1> DEFINE t == MarkedRevertFailing(s, a, attempts)
  <1>1. t = [k \in DOMAIN s |-> t[k]] /\ DOMAIN t = DOMAIN s
    BY DEF MarkedRevertFailing, Changed
  <1>2. ASSUME NEW k \in DOMAIN s
        PROVE  t[k] \in ActiveAction /\ t[k].name = s[k].name
    <2> DEFINE e == s[k]
               c == [e EXCEPT !.phase = "Reverting", !.attempts = attempts, !.failed = TRUE]
    <2>1. e \in ActiveAction
      OBVIOUS
    <2>3. c \in ActiveAction /\ c.name = e.name
      BY <2>1 DEF ActiveAction
    <2>4. t[k] = e \/ t[k] = c
      BY DEF MarkedRevertFailing, Changed
    <2> QED BY <2>1, <2>3, <2>4
  <1> QED BY <1>1, <1>2, RewrittenList

-----------------------------------------------------------------------------
(* Types.                                                                  *)

LEMMA BlankType == Blank \in Job
  <1>1. (CHOOSE l \in ActionLists : TRUE) \in ActionLists
    BY ConstantsAssumption
  <1>2. NewStatus \in Status
    BY DEF NewStatus, Status, Phase
  <1> QED BY <1>1, <1>2 DEF Blank, Job, Spec_

LEMMA WriteType ==
    ASSUME TypeOK, NEW j \in Job, NEW r \in BOOLEAN, Write(j, r)
    PROVE  /\ job' \in Job /\ queued' \in BOOLEAN
           /\ backlog' \in Seq(Job) /\ Len(backlog') <= CacheLag
  <1>1. job' \in Job /\ queued' \in BOOLEAN
    BY DEF Write, TypeOK
  <1>2. CASE j = job \/ CacheLag = 0
    BY <1>1, <1>2 DEF Write, TypeOK
  <1>3. CASE j # job /\ CacheLag # 0 /\ Len(backlog) < CacheLag
    <2>1. backlog' = Append(backlog, job)
      BY <1>3 DEF Write
    <2>2. Append(backlog, job) \in Seq(Job) /\ Len(Append(backlog, job)) = Len(backlog) + 1
      BY AppendProperties DEF TypeOK
    <2> QED BY <1>1, <1>3, <2>1, <2>2, ConstantsAssumption DEF TypeOK
  <1>4. CASE j # job /\ CacheLag # 0 /\ ~(Len(backlog) < CacheLag)
    <2>1. backlog' = Append(Tail(backlog), job)
      BY <1>4 DEF Write
    <2>2. backlog # <<>>
      BY <1>4, ConstantsAssumption DEF TypeOK
    <2>3. Tail(backlog) \in Seq(Job) /\ Len(Tail(backlog)) = Len(backlog) - 1
      BY <2>2, HeadTailProperties DEF TypeOK
    <2>4. /\ Append(Tail(backlog), job) \in Seq(Job)
          /\ Len(Append(Tail(backlog), job)) = Len(Tail(backlog)) + 1
      BY <2>3, AppendProperties DEF TypeOK
    <2> QED BY <1>1, <2>1, <2>3, <2>4, ConstantsAssumption DEF TypeOK
  <1> QED BY <1>2, <1>3, <1>4

LEMMA PatchType ==
    ASSUME TypeOK, NEW s \in Status, NEW next \in PassStep, PatchStatus(s, next)
    PROVE  /\ job' \in Job /\ fs' \in Job /\ queued' \in BOOLEAN /\ pc' = next
           /\ backlog' \in Seq(Job) /\ Len(backlog') <= CacheLag
  <1> DEFINE j == [job EXCEPT !.status = s]
  <1>1. j \in Job
    BY DEF TypeOK, Job
  <1> HIDE DEF j
  <1>2. Write(j, Ends(next)) /\ pc' = next /\ fs' = IF Ends(next) THEN Blank ELSE j
    BY DEF PatchStatus, j
  <1> QED BY <1>1, <1>2, WriteType, BlankType DEF Ends

LEMMA UpdateType ==
    ASSUME TypeOK, NEW j \in Job, NEW next \in PassStep, UpdateJob(j, next)
    PROVE  /\ job' \in Job /\ fs' \in Job /\ queued' \in BOOLEAN /\ pc' = next
           /\ backlog' \in Seq(Job) /\ Len(backlog') <= CacheLag
  <1>1. Write(j, FALSE) /\ pc' = next /\ fs' = IF Ends(next) THEN Blank ELSE j
    BY DEF UpdateJob
  <1> QED BY <1>1, WriteType, BlankType

LEMMA CachedType == TypeOK => Cached \in Job
  BY HeadTailProperties DEF TypeOK, Cached

\* The pass step chosen for an object, and what the object then has.
LEMMA DispatchLiveStep ==
    ASSUME NEW f \in Job
    PROVE  /\ DispatchLive(f) \in PassStep
           /\ DispatchLive(f) \in {"finish", "disable", "action"} => f.status.run # NoRun
           /\ DispatchLive(f) = "start" => Wanted(f)
           /\ DispatchLive(f) \notin {"drained", "reverting", "revertFailed", "applied",
                                     "ensureFailed", "release", "leak", "addFinalizer"}
           /\ DispatchLive(f) = "revert" => f.status.active # <<>>
  BY DEF DispatchLive, DispatchNoRun, DispatchRun, RevertStep, PassStep

LEMMA DispatchStep ==
    ASSUME NEW f \in Job
    PROVE  /\ Dispatch(f) \in PassStep
           /\ Dispatch(f) \in {"finish", "disable", "action"} => f.status.run # NoRun
           /\ Dispatch(f) = "start" => Wanted(f)
           /\ Dispatch(f) \notin {"drained", "reverting", "revertFailed", "applied", "ensureFailed"}
           /\ Dispatch(f) = "revert" => f.status.active # <<>>
           /\ Dispatch(f) = "release" => f.status.active = <<>>
           /\ Dispatch(f) \notin {"idle", "addFinalizer"} => f.finalizer
  <1>1. CASE f.state = "deleting"
    BY <1>1 DEF Dispatch, DispatchDelete, RevertStep, PassStep
  <1>2. CASE f.state # "deleting"
    BY <1>2, DispatchLiveStep DEF Dispatch, PassStep
  <1> QED BY <1>1, <1>2

LEMMA LoopForType ==
    ASSUME NEW f \in Job, NEW next, next = "action" => f.status.run # NoRun
    PROVE  LoopFor(next, f) \in Loop
  <1>1. f.spec.actions \in Seq(Action)
    BY ConstantsAssumption DEF Job, Spec_
  <1>2. CASE next # "action"
    BY <1>2, ConstantsAssumption DEF LoopFor, NoLoop, Loop
  <1>3. CASE next = "action"
    <2>1. f.status.run.start \in 0..MaxRuns
      BY <1>3, ConstantsAssumption DEF Job, Status, Run
    <2>2. ActionAt(f, 1) \in Action \cup {None} /\ Len(f.spec.actions) \in Nat
      BY <1>1 DEF ActionAt
    <2> QED BY <1>3, <2>1, <2>2 DEF LoopFor, Loop
  <1> QED BY <1>2, <1>3

LEMMA AdvanceType ==
    ASSUME TypeOK, NEW f \in Job, NEW x \in BOOLEAN, Advance(x, f)
    PROVE  loop' \in Loop
  <1>1. f.spec.actions \in Seq(Action)
    BY ConstantsAssumption DEF Job, Spec_
  <1>2. loop.i + 1 \in Nat /\ ActionAt(f, loop.i + 1) \in Action \cup {None}
    BY <1>1 DEF ActionAt, TypeOK, Loop
  <1>3. (loop.all /\ x) \in BOOLEAN
    BY DEF TypeOK, Loop
  <1> QED BY <1>2, <1>3 DEF Advance, TypeOK, Loop

-----------------------------------------------------------------------------
(* Type correctness.  A pass that is about to close a run has read one, one *)
(* that is about to start a run has read a request, and one that is about   *)
(* to report on a revert has a token to report on.                          *)

ReadWhatItUses ==
    /\ pc \in {"finish", "disable"} => fs.status.run # NoRun
    /\ pc = "start" => Wanted(fs)
    /\ pc \in {"drained", "reverting", "revertFailed"} => fs.status.active # <<>>

TypeInv == TypeOK /\ ReadWhatItUses

LEMMA InitType == Init => TypeInv
  <1> SUFFICES ASSUME Init PROVE TypeInv
    OBVIOUS
  <1>1. PICK list \in ActionLists : job = [Blank EXCEPT !.spec.actions = list]
    BY DEF Init
  <1>2. job \in Job
    BY <1>1, BlankType DEF Job, Spec_, Blank
  <1>3. NoLoop \in Loop
    BY ConstantsAssumption DEF NoLoop, Loop
  <1>4. <<>> \in Seq(Job) /\ Len(<<>>) = 0
    OBVIOUS
  <1> QED BY <1>2, <1>3, <1>4, BlankType, ConstantsAssumption
          DEF Init, TypeInv, TypeOK, ReadWhatItUses, PassStep

\* A failing revert is counted on a token that is there.
LEMMA NewestAttempts ==
    ASSUME TypeInv, pc = "revertFailed"
    PROVE  Capped(Newest.attempts + 1) \in 0..DegradedAfter
  <1>1. fs.status.active # <<>> /\ fs.status.active \in Seq(ActiveAction)
    BY DEF TypeInv, TypeOK, ReadWhatItUses, Job, Status
  <1>2. Newest \in ActiveAction
    BY <1>1 DEF Newest
  <1>3. Newest.attempts \in 0..DegradedAfter
    BY <1>2 DEF ActiveAction
  <1> QED BY <1>3, ConstantsAssumption DEF Capped

\* The steps of a pass leave the clock, the world and the budget well typed.
LEMMA PassPatchesType ==
    ASSUME TypeInv,
           \/ RejectInvalid \/ SettleIdle \/ StartRun \/ SettlePhase \/ MarkReverting
           \/ DropToken \/ MarkActionReverting \/ MarkRevertFailed \/ FinishRun
    PROVE  TypeInv'
  <1> USE DEF TypeInv
  <1>a. NoLoop \in Loop
    BY ConstantsAssumption DEF NoLoop, Loop
  <1>b. job.status \in Status /\ fs.status \in Status /\ fs \in Job /\ job \in Job
    BY DEF TypeOK, Job
  <1>1. CASE RejectInvalid
    <2> DEFINE j == [job EXCEPT !.status.ready = FALSE, !.status.phase = Defaulted(@)]
    <2>1. j \in Job
      BY <1>b DEF Job, Status, Phase, Defaulted
    <2> HIDE DEF j
    <2>2. Write(j, FALSE) /\ pc' = "idle" /\ fs' = Blank
      BY <1>1 DEF RejectInvalid, j
    <2> QED BY <1>1, <2>1, <2>2, WriteType, BlankType
            DEF RejectInvalid, TypeOK, ReadWhatItUses, clock, world, budget, PassStep
  <1>2. CASE SettleIdle
    <2> DEFINE j == [job EXCEPT !.status.phase = "Idle", !.status.ready = TRUE]
    <2>1. j \in Job
      BY <1>b DEF Job, Status, Phase
    <2> HIDE DEF j
    <2>2. Write(j, FALSE) /\ pc' = "idle" /\ fs' = Blank
      BY <1>2 DEF SettleIdle, j
    <2> QED BY <1>2, <2>1, <2>2, WriteType, BlankType
            DEF SettleIdle, TypeOK, ReadWhatItUses, clock, world, budget, PassStep
  <1>3. CASE StartRun
    <2> DEFINE s == [job.status EXCEPT !.run = DesiredRun(fs, starts + 1),
                                       !.phase = "Activating"]
    <2>1. Wanted(fs) /\ starts + 1 \in 1..MaxRuns
      BY <1>3, ConstantsAssumption DEF StartRun, ReadWhatItUses, TypeOK
    <2>2. DesiredRun(fs, starts + 1) \in Run
      BY <1>b, <2>1 DEF DesiredRun, Run, RunId, TriggerKind, Wanted, ManualPending, Job, Spec_
    <2>3. s \in Status
      BY <1>b, <2>2 DEF Status, Phase
    <2> HIDE DEF s
    <2>4. PatchStatus(s, "idle") /\ starts' = starts + 1
      BY <1>3 DEF StartRun, s
    <2>5. "idle" \in PassStep
      BY DEF PassStep
    <2> QED BY <1>3, <2>1, <2>3, <2>4, <2>5, PatchType
            DEF StartRun, TypeOK, ReadWhatItUses, world, budget
  <1>4. CASE SettlePhase
    <2> DEFINE s == [job.status EXCEPT
            !.phase = IF loop.all THEN "Active" ELSE "Activating",
            !.ready = loop.all \/ job.status.ready]
    <2>1. (loop.all \/ job.status.ready) \in BOOLEAN
      BY <1>b DEF TypeOK, Status
    <2>2. s \in Status
      BY <1>b, <2>1 DEF Status, Phase
    <2> HIDE DEF s
    <2>3. PatchStatus(s, "idle") /\ loop' = NoLoop
      BY <1>4 DEF SettlePhase, s
    <2>4. "idle" \in PassStep
      BY DEF PassStep
    <2> QED BY <1>4, <1>a, <2>2, <2>3, <2>4, PatchType
            DEF SettlePhase, TypeOK, ReadWhatItUses, clock, world, budget
  <1>5. CASE MarkReverting
    <2> DEFINE s == [job.status EXCEPT !.phase = "Reverting"]
    <2>1. s \in Status
      BY <1>b DEF Status, Phase
    <2> HIDE DEF s
    <2>2. PatchStatus(s, "revert")
      BY <1>5 DEF MarkReverting, s
    <2>3. "revert" \in PassStep
      BY DEF PassStep
    <2> QED BY <1>5, <2>1, <2>2, <2>3, PatchType
            DEF MarkReverting, TypeOK, ReadWhatItUses, clock, world, budget
  <1>6. CASE DropToken
    <2> DEFINE s == [job.status EXCEPT !.active = Without(@, Newest.name)]
    <2>1. Without(job.status.active, Newest.name) \in Seq(ActiveAction)
      BY <1>b, WithoutList DEF Status
    <2>2. s \in Status
      BY <1>b, <2>1 DEF Status
    <2> HIDE DEF s
    <2>3. PatchStatus(s, "idle")
      BY <1>6 DEF DropToken, s
    <2>4. "idle" \in PassStep
      BY DEF PassStep
    <2> QED BY <1>6, <2>2, <2>3, <2>4, PatchType
            DEF DropToken, TypeOK, ReadWhatItUses, clock, world, budget
  <1>7. CASE MarkActionReverting
    <2> DEFINE t == MarkedReverting(job.status.active, Newest.name)
               s == [job.status EXCEPT !.active = t]
    <2>1. t \in Seq(ActiveAction)
      BY <1>b, MarkedRevertingList DEF Status
    <2>2. s \in Status
      <3> HIDE DEF t
      <3> QED BY <1>b, <2>1 DEF Status
    <2>3. PatchStatus(s, "idle")
      BY <1>7 DEF MarkActionReverting
    <2> HIDE DEF s
    <2>4. "idle" \in PassStep
      BY DEF PassStep
    <2> QED BY <1>7, <2>2, <2>3, <2>4, PatchType
            DEF MarkActionReverting, TypeOK, ReadWhatItUses, clock, world, budget
  <1>8. CASE MarkRevertFailed
    <2> DEFINE n == Capped(Newest.attempts + 1)
               t == MarkedRevertFailing(job.status.active, Newest.name, n)
               s == [job.status EXCEPT !.active = t,
                        !.phase = IF n = DegradedAfter THEN "Degraded" ELSE @,
                        !.revertFailed = n = DegradedAfter \/ @]
    <2>1. n \in 0..DegradedAfter
      BY <1>8, NewestAttempts DEF MarkRevertFailed
    <2>2. PatchStatus(s, "idle")
      BY <1>8 DEF MarkRevertFailed
    <2> HIDE DEF n
    <2>3. t \in Seq(ActiveAction)
      BY <1>b, <2>1, MarkedRevertFailingList DEF Status
    <2>4. s \in Status
      <3> HIDE DEF t
      <3> QED BY <1>b, <2>3 DEF Status, Phase
    <2> HIDE DEF s
    <2>5. "idle" \in PassStep
      BY DEF PassStep
    <2> QED BY <1>8, <2>2, <2>4, <2>5, PatchType
            DEF MarkRevertFailed, TypeOK, ReadWhatItUses, clock, world, budget
  <1>9. CASE FinishRun
    <2> DEFINE run == fs.status.run
               entry == [id |-> run.id, start |-> run.start,
                         result |-> IF RunExpired(run) THEN "Completed" ELSE "Reverted"]
               s == [job.status EXCEPT
                  !.history = AppendHistory(@, entry), !.lastCompleted = run.id,
                  !.run = NoRun, !.phase = "Idle", !.ready = TRUE, !.revertFailed = FALSE]
    <2>1. run \in Run
      BY <1>b, <1>9 DEF FinishRun, ReadWhatItUses, Status
    <2>2. entry \in HistoryEntry
      BY <2>1 DEF Run, HistoryEntry
    <2> HIDE DEF entry
    <2>3. AppendHistory(job.status.history, entry) \in Seq(HistoryEntry)
      <3> DEFINE h == Append(job.status.history, entry)
      <3>1. h \in Seq(HistoryEntry) /\ h # <<>>
        BY <1>b, <2>2, AppendProperties DEF Status
      <3> HIDE DEF h
      <3>2. Tail(h) \in Seq(HistoryEntry)
        BY <3>1, HeadTailProperties
      <3> QED BY <3>1, <3>2 DEF AppendHistory, h
    <2>4. run.id \in RunId
      BY <2>1 DEF Run
    <2>5. s \in Status
      <3> HIDE DEF run
      <3> QED BY <1>b, <2>3, <2>4 DEF Status, Phase
    <2>6. PatchStatus(s, "idle")
      BY <1>9 DEF FinishRun, entry
    <2> HIDE DEF s
    <2>7. "idle" \in PassStep
      BY DEF PassStep
    <2> QED BY <1>9, <2>5, <2>6, <2>7, PatchType
            DEF FinishRun, TypeOK, ReadWhatItUses, clock, world, budget
  <1> QED BY <1>1, <1>2, <1>3, <1>4, <1>5, <1>6, <1>7, <1>8, <1>9

LEMMA ActivationType ==
    ASSUME TypeInv,
           \/ SkipDelayed \/ PlanFails \/ PersistToken \/ EnsureDone \/ EnsurePending
           \/ EnsureFails \/ MarkApplied \/ MarkEnsureFailed \/ HoldSteady \/ ListShrank
    PROVE  TypeInv'
  <1> USE DEF TypeInv
  <1>a. NoLoop \in Loop
    BY ConstantsAssumption DEF NoLoop, Loop
  <1>b. job.status \in Status /\ fs.status \in Status /\ fs \in Job /\ job \in Job
    BY DEF TypeOK, Job
  <1>c. {"idle", "action", "applied", "ensureFailed"} \subseteq PassStep
    BY DEF PassStep
  <1>d. ASSUME Fault PROVE faults' \in 0..MaxFaults
    BY <1>d, ConstantsAssumption DEF Fault, TypeOK
  <1>1. CASE SkipDelayed
    <2>1. Advance(FALSE, fs)
      BY <1>1 DEF SkipDelayed
    <2> QED BY <1>1, <1>b, <2>1, AdvanceType
            DEF SkipDelayed, TypeOK, ReadWhatItUses, clock, world, budget
  <1>2. CASE PlanFails
    <2> DEFINE s == [job.status EXCEPT !.ready = FALSE]
    <2>1. s \in Status
      BY <1>b DEF Status
    <2> HIDE DEF s
    <2>2. PatchStatus(s, "action") /\ Advance(FALSE, fs') /\ Fault
      BY <1>2 DEF PlanFails, s
    <2>3. fs' \in Job
      BY <1>c, <2>1, <2>2, PatchType
    <2> QED BY <1>2, <1>c, <1>d, <2>1, <2>2, <2>3, PatchType, AdvanceType
            DEF PlanFails, TypeOK, ReadWhatItUses, clock, world
  <1>3. CASE PersistToken
    <2> DEFINE entry == [name |-> loop.act, phase |-> "Recorded",
                         attempts |-> 0, failed |-> FALSE]
               old   == job.status.active
               new   == IF loop.act \in Names(old) THEN old ELSE Append(old, entry)
               s     == [job.status EXCEPT !.active = new, !.phase = "Activating"]
    <2>1. entry \in ActiveAction
      BY <1>3, ConstantsAssumption DEF PersistToken, InLoop, TypeOK, ActiveAction, Loop
    <2>2. new \in Seq(ActiveAction)
      <3> HIDE DEF entry
      <3> QED BY <1>b, <2>1, AppendProperties DEF Status
    <2>3. s \in Status
      <3> HIDE DEF new
      <3> QED BY <1>b, <2>2 DEF Status, Phase
    <2>4. PatchStatus(s, "action")
      BY <1>3 DEF PersistToken
    <2> HIDE DEF s
    <2>5. loop' \in Loop
      BY <1>3 DEF PersistToken, TypeOK, Loop
    <2> QED BY <1>3, <1>c, <2>3, <2>4, <2>5, PatchType
            DEF PersistToken, TypeOK, ReadWhatItUses, clock, world, budget
  <1>4. CASE EnsureDone
    <2>1. loop' \in Loop
      BY <1>4, <1>b, AdvanceType DEF EnsureDone, TypeOK
    <2>2. pc' \in {"applied", "action"}
      BY <1>4 DEF EnsureDone, InLoop
    <2>3. injected' \in [Action -> BOOLEAN]
      BY <1>4 DEF EnsureDone, TypeOK
    <2> QED BY <1>4, <1>c, <2>1, <2>2, <2>3
            DEF EnsureDone, TypeOK, ReadWhatItUses, clock, budget
  <1>5. CASE EnsurePending
    <2>1. loop' \in Loop
      BY <1>5, <1>b, AdvanceType DEF EnsurePending
    <2>2. injected' \in [Action -> BOOLEAN]
      BY <1>5 DEF EnsurePending, MayChange, TypeOK
    <2> QED BY <1>5, <1>d, <2>1, <2>2 DEF EnsurePending, TypeOK, ReadWhatItUses, clock
  <1>6. CASE EnsureFails
    <2>1. injected' \in [Action -> BOOLEAN]
      BY <1>6 DEF EnsureFails, MayChange, TypeOK
    <2> QED BY <1>6, <1>c, <1>d, <2>1 DEF EnsureFails, TypeOK, ReadWhatItUses, clock
  <1>7. CASE MarkApplied
    <2> DEFINE t == MarkedApplied(job.status.active, loop.act)
               s == [job.status EXCEPT !.active = t]
    <2>1. t \in Seq(ActiveAction)
      BY <1>b, MarkedAppliedList DEF Status
    <2>2. s \in Status
      <3> HIDE DEF t
      <3> QED BY <1>b, <2>1 DEF Status
    <2>3. PatchStatus(s, "action") /\ Advance(TRUE, fs')
      BY <1>7 DEF MarkApplied
    <2> HIDE DEF s
    <2>4. fs' \in Job
      BY <1>c, <2>2, <2>3, PatchType
    <2>5. (TRUE) \in BOOLEAN
      OBVIOUS
    <2> QED BY <1>7, <1>c, <2>2, <2>3, <2>4, <2>5, PatchType, AdvanceType
            DEF MarkApplied, TypeOK, ReadWhatItUses, clock, world, budget
  <1>8. CASE MarkEnsureFailed
    <2> DEFINE t == MarkedFailing(job.status.active, loop.act)
               s == [job.status EXCEPT !.active = t]
    <2>1. t \in Seq(ActiveAction)
      BY <1>b, MarkedFailingList DEF Status
    <2>2. s \in Status
      <3> HIDE DEF t
      <3> QED BY <1>b, <2>1 DEF Status
    <2>3. PatchStatus(s, "action") /\ Advance(Token.phase = "Applied", fs')
      BY <1>8 DEF MarkEnsureFailed
    <2> HIDE DEF s
    <2>4. fs' \in Job
      BY <1>c, <2>2, <2>3, PatchType
    <2>5. (Token.phase = "Applied") \in BOOLEAN
      OBVIOUS
    <2> QED BY <1>8, <1>c, <2>2, <2>3, <2>4, <2>5, PatchType, AdvanceType
            DEF MarkEnsureFailed, TypeOK, ReadWhatItUses, clock, world, budget
  <1>9. CASE HoldSteady \/ ListShrank
    BY <1>9, <1>a, <1>c, BlankType
       DEF HoldSteady, ListShrank, EndPass, TypeOK, ReadWhatItUses, clock, world, budget
  <1> QED BY <1>1, <1>2, <1>3, <1>4, <1>5, <1>6, <1>7, <1>8, <1>9

LEMMA PassType ==
    ASSUME TypeInv, Pass
    PROVE  TypeInv'
  <1> USE DEF TypeInv
  <1>a. NoLoop \in Loop
    BY ConstantsAssumption DEF NoLoop, Loop
  <1>b. job.status \in Status /\ fs.status \in Status /\ fs \in Job /\ job \in Job
    BY DEF TypeOK, Job
  <1>1. CASE ReadJob
    <2> DEFINE f == Cached
               step == Dispatch(Cached)
    <2>1. f \in Job
      BY CachedType
    <2>2. pc' = step
      BY <1>1 DEF ReadJob
    <2>3. fs' = Blank \/ fs' = f
      BY <1>1 DEF ReadJob
    <2>4. step # "idle" => fs' = f
      BY <1>1 DEF ReadJob, Ends
    <2>5. loop' = LoopFor(step, f)
      BY <1>1 DEF ReadJob
    <2>6. queued' = FALSE /\ UNCHANGED <<job, backlog, clock, world, budget>>
      BY <1>1 DEF ReadJob
    <2> HIDE DEF f
    <2>7. /\ step \in PassStep
          /\ step \in {"finish", "disable", "action"} => f.status.run # NoRun
          /\ step = "start" => Wanted(f)
          /\ step \notin {"drained", "reverting", "revertFailed"}
      BY <2>1, DispatchStep DEF f
    <2> HIDE DEF step
    <2>8. loop' \in Loop
      BY <2>1, <2>5, <2>7, LoopForType
    <2>9. fs' \in Job
      BY <2>1, <2>3, BlankType
    <2>10. TypeOK'
      BY <2>2, <2>6, <2>7, <2>8, <2>9 DEF TypeOK, clock, world, budget
    <2>11. ReadWhatItUses'
      BY <2>2, <2>4, <2>7 DEF ReadWhatItUses, Wanted, ManualPending
    <2> QED BY <2>10, <2>11
  <1>2. CASE AddFinalizer
    <2> DEFINE j == [fs EXCEPT !.finalizer = TRUE]
               next == DispatchLive(j)
    <2>1. j \in Job
      BY <1>b DEF Job
    <2>2. UpdateJob(j, next) /\ loop' = LoopFor(next, j)
      BY <1>2 DEF AddFinalizer
    <2> HIDE DEF j
    <2>3. /\ next \in PassStep
          /\ next \in {"finish", "disable", "action"} => j.status.run # NoRun
          /\ next = "start" => Wanted(j)
          /\ next \notin {"drained", "reverting", "revertFailed"}
      BY <2>1, DispatchLiveStep
    <2> HIDE DEF next
    <2>4. LoopFor(next, j) \in Loop
      BY <2>1, <2>3, LoopForType
    <2>5. fs' = IF Ends(next) THEN Blank ELSE j
      BY <2>2 DEF UpdateJob
    <2> QED BY <1>2, <2>1, <2>2, <2>3, <2>4, <2>5, UpdateType
            DEF AddFinalizer, TypeOK, ReadWhatItUses, clock, world, budget, Ends,
                Wanted, ManualPending
  <1>3. CASE DisableExpired
    <2> DEFINE j == [fs EXCEPT !.spec.enabled = FALSE]
               next == RevertStep(j, "finish")
    <2>1. j \in Job /\ j.status = fs.status
      BY <1>b DEF Job, Spec_
    <2>2. UpdateJob(j, next)
      BY <1>3 DEF DisableExpired
    <2> HIDE DEF j
    <2>3. next \in {"finish", "markReverting", "revert"} /\ next \in PassStep /\ ~Ends(next)
      BY DEF RevertStep, PassStep, Ends
    <2> HIDE DEF next
    <2>4. fs' = j
      BY <2>2, <2>3 DEF UpdateJob
    <2> QED BY <1>3, <2>1, <2>2, <2>3, <2>4, UpdateType
            DEF DisableExpired, TypeOK, ReadWhatItUses, clock, world, budget
  <1>4. CASE ReleaseFinalizer
    <2> DEFINE j == [fs EXCEPT !.finalizer = FALSE, !.state = "gone"]
    <2>1. j \in Job
      BY <1>b DEF Job
    <2>2. UpdateJob(j, "idle") /\ "idle" \in PassStep
      BY <1>4 DEF ReleaseFinalizer, PassStep
    <2> HIDE DEF j
    <2> QED BY <1>4, <2>1, <2>2, UpdateType
            DEF ReleaseFinalizer, TypeOK, ReadWhatItUses, clock, world, budget
  <1>5. CASE LeakTokens
    <2>1. Names(fs.status.active) \subseteq Action
      <3>1. fs.status.active \in Seq(ActiveAction)
        BY <1>b DEF Status
      <3>2. \A k \in DOMAIN fs.status.active : fs.status.active[k] \in ActiveAction
        BY <3>1
      <3>3. \A e \in ActiveAction : e.name \in Action
        BY DEF ActiveAction
      <3> QED BY <3>2, <3>3 DEF Names
    <2> QED BY <1>5, <2>1
            DEF LeakTokens, TypeOK, ReadWhatItUses, clock, budget, PassStep
  <1>6. CASE RevertDone
    <2>1. injected' \in [Action -> BOOLEAN]
      BY <1>6 DEF RevertDone, TypeOK
    <2> QED BY <1>6, <2>1
            DEF RevertDone, TypeOK, ReadWhatItUses, clock, budget, PassStep
  <1>7. CASE RevertUnfinished
    <2>1. injected' \in [Action -> BOOLEAN]
      BY <1>7 DEF RevertUnfinished, MayChange, TypeOK
    <2>2. faults' \in 0..MaxFaults
      BY <1>7, ConstantsAssumption DEF RevertUnfinished, Fault, TypeOK
    <2> QED BY <1>7, <2>1, <2>2
            DEF RevertUnfinished, TypeOK, ReadWhatItUses, clock, PassStep
  <1>8. CASE Conflict \/ RevertPanics
    BY <1>8, <1>a, BlankType
       DEF Conflict, RevertPanics, EndPass, TypeOK, ReadWhatItUses, clock, world, budget, PassStep
  <1> QED BY <1>1, <1>2, <1>3, <1>4, <1>5, <1>6, <1>7, <1>8, PassPatchesType, ActivationType
          DEF Pass, Activation, Reversion

LEMMA EnvironmentType ==
    ASSUME TypeInv, Abandon \/ Deliver \/ Clock \/ EffectEnds
    PROVE  TypeInv'
  <1> USE DEF TypeInv
  <1>1. CASE Abandon
    <2>1. NoLoop \in Loop
      BY ConstantsAssumption DEF NoLoop, Loop
    <2>2. faults' \in 0..MaxFaults
      BY <1>1, ConstantsAssumption DEF Abandon, Fault, TypeOK
    <2> QED BY <1>1, <2>1, <2>2, BlankType
            DEF Abandon, EndPass, TypeOK, ReadWhatItUses, clock, world, PassStep
  <1>2. CASE Deliver
    <2>1. Tail(backlog) \in Seq(Job) /\ Len(Tail(backlog)) = Len(backlog) - 1
      BY <1>2, HeadTailProperties DEF Deliver, TypeOK
    <2>2. Len(backlog) \in Nat /\ CacheLag \in Nat
      BY ConstantsAssumption DEF TypeOK
    <2> QED BY <1>2, <2>1, <2>2
            DEF Deliver, TypeOK, ReadWhatItUses, clock, world, budget
  <1>3. CASE DelayElapses
    <2>1. matured' \subseteq 1..MaxRuns
      BY <1>3, ConstantsAssumption DEF DelayElapses, TypeOK
    <2> QED BY <1>3, <2>1 DEF DelayElapses, TypeOK, ReadWhatItUses, world, budget
  <1>4. CASE RunExpires
    <2>1. job.status.run.start \in 1..MaxRuns
      BY <1>4 DEF RunExpires, TypeOK, Job, Status, Run
    <2> QED BY <1>4, <2>1 DEF RunExpires, TypeOK, ReadWhatItUses, world, budget
  <1>5. CASE EffectEnds
    <2>1. injected' \in [Action -> BOOLEAN]
      BY <1>5 DEF EffectEnds, TypeOK
    <2> QED BY <1>5, <2>1 DEF EffectEnds, TypeOK, ReadWhatItUses, clock, budget
  <1> QED BY <1>1, <1>2, <1>3, <1>4, <1>5 DEF Clock

\* What every user request has in common: a well-typed object and the same pass.
LEMMA UserWritesType ==
    ASSUME TypeInv, NEW j \in Job, UserWrites(j), used' \subseteq TriggerId
    PROVE  TypeInv'
  <1>1. Write(j, FALSE)
    BY DEF UserWrites
  <1>2. ops' \in 0..MaxUserOps
    BY ConstantsAssumption DEF UserWrites, TypeInv, TypeOK
  <1> QED BY <1>1, <1>2, WriteType
          DEF UserWrites, TypeInv, TypeOK, ReadWhatItUses, clock, world

LEMMA UserType ==
    ASSUME TypeInv, User
    PROVE  TypeInv'
  <1>a. job \in Job /\ job.spec \in Spec_ /\ used \subseteq TriggerId
    BY DEF TypeInv, TypeOK, Job
  <1>1. CASE Enable
    <2>1. [job EXCEPT !.spec.enabled = TRUE] \in Job
      BY <1>a DEF Job, Spec_
    <2> QED BY <1>1, <1>a, <2>1, UserWritesType DEF Enable
  <1>2. CASE Disable
    <2>1. [job EXCEPT !.spec.enabled = FALSE, !.spec.trigger = None] \in Job
      BY <1>a DEF Job, Spec_
    <2> QED BY <1>2, <1>a, <2>1, UserWritesType DEF Disable
  <1>3. CASE SwitchOff
    <2>1. [job EXCEPT !.spec.enabled = FALSE] \in Job
      BY <1>a DEF Job, Spec_
    <2> QED BY <1>3, <1>a, <2>1, UserWritesType DEF SwitchOff
  <1>4. CASE Delete
    <2>1. [job EXCEPT !.state = IF job.finalizer THEN "deleting" ELSE "gone"] \in Job
      BY <1>a DEF Job
    <2> QED BY <1>4, <1>a, <2>1, UserWritesType DEF Delete
  <1>5. CASE ForceRelease
    <2>1. [job EXCEPT !.spec.force = TRUE] \in Job
      BY <1>a DEF Job, Spec_
    <2> QED BY <1>5, <1>a, <2>1, UserWritesType DEF ForceRelease
  <1>6. ASSUME NEW id \in TriggerId, RequestRun(id) PROVE TypeInv'
    <2>1. [job EXCEPT !.spec.trigger = id] \in Job
      BY <1>a DEF Job, Spec_
    <2>2. used' \subseteq TriggerId
      BY <1>6, <1>a DEF RequestRun
    <2> QED BY <1>6, <2>1, <2>2, UserWritesType DEF RequestRun
  <1>7. ASSUME NEW list \in ActionLists, EditActions(list) PROVE TypeInv'
    <2>1. [job EXCEPT !.spec.actions = list] \in Job
      BY <1>a DEF Job, Spec_
    <2> QED BY <1>7, <1>a, <2>1, UserWritesType DEF EditActions
  <1> QED BY <1>1, <1>2, <1>3, <1>4, <1>5, <1>6, <1>7 DEF User

LEMMA NextType == TypeInv /\ [Next]_vars => TypeInv'
  <1> SUFFICES ASSUME TypeInv, [Next]_vars PROVE TypeInv'
    OBVIOUS
  <1>1. CASE UNCHANGED vars
    BY <1>1 DEF TypeInv, TypeOK, ReadWhatItUses, Wanted, ManualPending,
                vars, clock, world, budget
  <1>2. CASE Next
    BY <1>2, PassType, EnvironmentType, UserType DEF Next
  <1> QED BY <1>1, <1>2

\* Type correctness of the reconciler, for every reachable state of every
\* instance: no status it writes and no pass it makes leaves the stated shape,
\* in particular no run is closed or reported on that the pass has not read.
THEOREM TypeCorrect == Spec => []TypeOK
  <1>1. TypeInv => TypeOK
    BY DEF TypeInv
  <1> QED BY <1>1, InitType, NextType, PTL DEF Spec
=============================================================================
