--------------------------- MODULE ScaleActionProofs ---------------------------
(***************************************************************************)
(* Type correctness of ScaleAction; that the held-by lock is never left    *)
(* behind when Ensure and Revert read the Deployment as it is; and that    *)
(* scenarios which come one after the other leave it as the manifest has   *)
(* it.                                                                     *)
(***************************************************************************)
EXTENDS ScaleAction, TLAPS

Versions == Deployment \cup {NoTarget}

-----------------------------------------------------------------------------
(* The operators of the model on typed arguments.                          *)

\* The circumstances are of their shape.
LEMMA SetupType ==
    ASSUME setup \in Setups
    PROVE  /\ setup.lag \in Nat /\ setup.overlapping \in BOOLEAN
           /\ setup.ops \in Nat /\ setup.faults \in Nat
  BY ScaleAssumption DEF Setup

\* The cache serves some version of the Deployment.
LEMMA CachedType ==
    ASSUME dep \in Versions, backlog \in Seq(Versions)
    PROVE  Cached \in Versions
  BY DEF Cached

\* A change of the Deployment keeps its type, and the cache within its bound.
LEMMA BecomesType ==
    ASSUME NEW d \in Versions, dep \in Versions, backlog \in Seq(Versions),
           setup \in Setups, Len(backlog) <= setup.lag, Becomes(d)
    PROVE  dep' \in Versions /\ backlog' \in Seq(Versions) /\ Len(backlog') <= setup.lag
  <1> USE SetupType
  <1>1. CASE d = dep \/ setup.lag = 0
    BY <1>1 DEF Becomes
  <1>2. CASE ~(d = dep \/ setup.lag = 0) /\ Len(backlog) < setup.lag
    <2>1. backlog' = Append(backlog, dep) /\ dep' = d
      BY <1>2 DEF Becomes
    <2> QED BY <1>2, <2>1
  <1>3. CASE ~(d = dep \/ setup.lag = 0) /\ ~(Len(backlog) < setup.lag)
    <2>1. backlog' = Append(Tail(backlog), dep) /\ dep' = d
      BY <1>3 DEF Becomes
    <2>2. backlog # <<>> /\ Len(backlog) = setup.lag
      BY <1>3
    <2>3. Tail(backlog) \in Seq(Versions) /\ Len(Tail(backlog)) = Len(backlog) - 1
      BY <2>2
    <2> QED BY <2>1, <2>2, <2>3
  <1> QED BY <1>1, <1>2, <1>3

\* What the patches write is a Deployment.
LEMMA MergedType ==
    ASSUME NEW base \in Deployment, NEW had \in Deployment, NEW want \in Deployment
    PROVE  Merged(base, had, want) \in Deployment
  BY DEF Merged, Deployment

LEMMA WantedType ==
    ASSUME ScaleTypeOK, NEW s \in Scenario
    PROVE  /\ run[s] # None => Injected(s) \in Deployment
           /\ token[s] # None => Restored(s) \in Deployment
  BY ScaleAssumption DEF ScaleTypeOK, Injected, Restored, Deployment

-----------------------------------------------------------------------------
(* Type correctness.                                                       *)

\* A pass that is about to mutate the target has a run, or a token, to do it for.
Underway(s) ==
    /\ pc[s] \in {"persist", "ensure", "ensurePatch"} => run[s] # None
    /\ pc[s] \in {"ensure", "ensurePatch", "revertPatch"} => token[s] # None

TypeInv == ScaleTypeOK /\ \A s \in Scenario : Underway(s)

\* A step inside a pass that touches neither the target nor the status.
LEMMA ReadStep ==
    ASSUME TypeInv, NEW s \in Scenario, NEW next \in PassStep, NEW d \in Versions,
           next \in {"persist", "ensurePatch", "revertPatch"} <=> d # NoTarget,
           next \in {"persist", "ensure", "ensurePatch"} => run[s] # None,
           next \in {"ensure", "ensurePatch", "revertPatch"} => token[s] # None,
           GoesOn(s, next, d), UNCHANGED <<dep, backlog, status, ops, faults>>
    PROVE  TypeInv'
  <1> USE DEF GoesOn
  <1>1. pc' \in [Scenario -> PassStep] /\ seen' \in [Scenario -> Versions]
    BY DEF TypeInv, ScaleTypeOK, Versions
  <1>2. ASSUME NEW t \in Scenario
        PROVE  /\ pc'[t] \in {"persist", "ensurePatch", "revertPatch"} <=> seen'[t] # NoTarget
               /\ Underway(t)'
    <2>1. CASE t = s
      BY <2>1 DEF TypeInv, ScaleTypeOK, Underway, status
    <2>2. CASE t # s
      BY <2>2 DEF TypeInv, ScaleTypeOK, Underway, status
    <2> QED BY <2>1, <2>2
  <1>3. ScaleTypeOK'
    BY <1>1, <1>2 DEF TypeInv, ScaleTypeOK, Versions, status
  <1> QED BY <1>2, <1>3 DEF TypeInv

\* No step of a pass, of a user or of the environment breaks the types.
LEMMA TypeStep == TypeInv /\ [Next]_vars => TypeInv'
  <1> SUFFICES ASSUME TypeInv, [Next]_vars PROVE TypeInv'
    OBVIOUS
  <1> USE ScaleAssumption, TargetAssumption DEF TypeInv
  <1> USE SetupType
  <1>0. Cached \in Versions
    BY CachedType DEF ScaleTypeOK, Versions
  <1>1. CASE UNCHANGED vars
    BY <1>1 DEF vars, ScaleTypeOK, Underway
  <1>2. ASSUME NEW s \in Scenario, Pass(s) PROVE TypeInv'
    <2>1. CASE StartRun(s)
      BY <2>1 DEF StartRun, ScaleTypeOK, Underway
    <2>2. CASE Plan(s)
      BY <1>0, <2>2, ReadStep DEF Plan, Activating, PassStep
    <2>3. CASE PersistToken(s)
      <3>1. seen[s] \in Deployment
        BY <2>3 DEF PersistToken, ScaleTypeOK
      <3>2. seen[s].replicas \in Nat
        BY <3>1 DEF Deployment
      <3> QED BY <2>3, <3>2 DEF PersistToken, GoesOn, ScaleTypeOK, Underway, PassStep
    <2>4. CASE EnsureRead(s)
      <3>1. run[s] # None /\ token[s] # None
        BY <2>4 DEF EnsureRead, Ensuring, Activating, Underway
      <3>2. \/ GoesOn(s, "idle", NoTarget)
            \/ Cached # NoTarget /\ GoesOn(s, "ensurePatch", Cached)
        BY <2>4 DEF EnsureRead
      <3>3. UNCHANGED <<dep, backlog, status, ops, faults>>
        BY <2>4 DEF EnsureRead
      <3> QED
        BY <1>0, <3>1, <3>2, <3>3, ReadStep DEF PassStep, Versions
    <2>5. CASE EnsureRefused(s)
      BY <2>5, ReadStep DEF EnsureRefused, PassStep, Versions
    <2>6. CASE EnsurePatch(s)
      <3>1. seen[s] \in Deployment /\ run[s] # None
        BY <2>6 DEF EnsurePatch, ScaleTypeOK, Underway
      <3>2. (IF dep = NoTarget THEN dep ELSE Merged(dep, seen[s], Injected(s))) \in Versions
        BY <3>1, MergedType, WantedType DEF ScaleTypeOK, Versions
      <3>3. /\ dep' \in Versions /\ backlog' \in Seq(Versions)
            /\ Len(backlog') <= setup.lag
        BY <2>6, <3>2, BecomesType DEF EnsurePatch, ScaleTypeOK, Versions
      <3> QED
        BY <2>6, <3>3 DEF EnsurePatch, GoesOn, ScaleTypeOK, Underway, PassStep, status, Versions
    <2>7. CASE RevertRead(s)
      <3>1. \/ GoesOn(s, "drop", NoTarget)
            \/ Cached # NoTarget /\ GoesOn(s, "revertPatch", Cached)
        BY <2>7 DEF RevertRead
      <3>2. token[s] # None /\ UNCHANGED <<dep, backlog, status, ops, faults>>
        BY <2>7 DEF RevertRead, Reverting
      <3> QED
        BY <1>0, <3>1, <3>2, ReadStep DEF PassStep, Versions
    <2>8. CASE RevertPatch(s)
      <3>1. seen[s] \in Deployment /\ token[s] # None
        BY <2>8 DEF RevertPatch, ScaleTypeOK, Underway
      <3>2. (IF dep = NoTarget THEN dep ELSE Merged(dep, seen[s], Restored(s))) \in Versions
        BY <3>1, MergedType, WantedType DEF ScaleTypeOK, Versions
      <3>3. /\ dep' \in Versions /\ backlog' \in Seq(Versions)
            /\ Len(backlog') <= setup.lag
        BY <2>8, <3>2, BecomesType DEF RevertPatch, ScaleTypeOK, Versions
      <3> QED
        BY <2>8, <3>3 DEF RevertPatch, GoesOn, ScaleTypeOK, Underway, PassStep, status, Versions
    <2>9. CASE DropToken(s)
      BY <2>9 DEF DropToken, GoesOn, ScaleTypeOK, Underway, PassStep
    <2>10. CASE FinishRun(s)
      BY <2>10 DEF FinishRun, ScaleTypeOK, Underway
    <2> QED
      BY <1>2, <2>1, <2>2, <2>3, <2>4, <2>5, <2>6, <2>7, <2>8, <2>9, <2>10 DEF Pass
  <1>3. ASSUME NEW s \in Scenario, SwitchOn(s) \/ SwitchOff(s) PROVE TypeInv'
    <2>1. PICK value \in BOOLEAN : UserSets(s, value)
      BY <1>3 DEF SwitchOn, SwitchOff
    <2>2. wanted' \in [Scenario -> BOOLEAN]
      BY <2>1 DEF UserSets, ScaleTypeOK
    <2> QED BY <2>1, <2>2 DEF UserSets, ScaleTypeOK, Underway
  <1>4. ASSUME NEW s \in Scenario, ForceRelease(s) PROVE TypeInv'
    <2>1. ScaleTypeOK'
      BY <1>4 DEF ForceRelease, ScaleTypeOK
    <2>2. \A t \in Scenario : Underway(t)'
      BY <1>4 DEF ForceRelease, ScaleTypeOK, Underway
    <2> QED BY <2>1, <2>2
  <1>5. ASSUME NEW s \in Scenario, Abandon(s) PROVE TypeInv'
    BY <1>5 DEF Abandon, Fault, GoesOn, ScaleTypeOK, Underway, PassStep, status
  <1>6. CASE Redeploy
    <2> DEFINE d == [replicas |-> Normal,
                     heldBy |-> IF dep = NoTarget THEN NoOne ELSE dep.heldBy]
    <2>1. d \in Versions
      BY DEF ScaleTypeOK, Deployment, Versions
    <2>2. /\ dep' \in Versions /\ backlog' \in Seq(Versions)
          /\ Len(backlog') <= setup.lag
      <3> HIDE DEF d
      <3>1. Becomes(d)
        BY <1>6 DEF Redeploy, d
      <3> QED BY <2>1, <3>1, BecomesType DEF ScaleTypeOK, Versions
    <2> QED BY <1>6, <2>2 DEF Redeploy, Fault, ScaleTypeOK, Underway, status, Versions
  <1>7. CASE Undeploy
    <2>1. /\ dep' \in Versions /\ backlog' \in Seq(Versions)
          /\ Len(backlog') <= setup.lag
      BY <1>7, BecomesType DEF Undeploy, ScaleTypeOK, Versions
    <2> QED BY <1>7, <2>1 DEF Undeploy, Fault, ScaleTypeOK, Underway, status, Versions
  <1>8. CASE Deliver
    <2>1. /\ Tail(backlog) \in Seq(Versions)
          /\ Len(Tail(backlog)) <= setup.lag
      BY <1>8 DEF Deliver, ScaleTypeOK, Versions
    <2> QED BY <1>8, <2>1 DEF Deliver, ScaleTypeOK, Underway, status, Versions
  <1> QED BY <1>1, <1>2, <1>3, <1>4, <1>5, <1>6, <1>7, <1>8 DEF Next

\* The strengthened type invariant holds throughout.
LEMMA TypesHold == Spec => []TypeInv
  <1>1. Init => TypeInv
    BY ScaleAssumption, TargetAssumption, SetupType
       DEF Init, TypeInv, ScaleTypeOK, Underway, Deployment, PassStep
  <1> QED BY <1>1, TypeStep, PTL DEF Spec

\* Type correctness: in particular a pass patches or persists only what it read,
\* and never annotates the Deployment for a scenario without a run.
THEOREM ScaleTypeCorrect == Spec => []ScaleTypeOK
  <1>1. TypeInv => ScaleTypeOK
    BY DEF TypeInv
  <1> QED BY <1>1, TypesHold, PTL

-----------------------------------------------------------------------------
(* The lock and the token.                                                 *)

\* While the token of s is there, Revert will find the lock; when a pass has
\* concluded that there is nothing (more) to restore, there is no lock of s, and
\* no one but s sets one.
Unlocked(s) ==
    \/ pc[s] = "drop"
    \/ pc[s] = "revertPatch" /\ seen[s].heldBy = NoOne

Guarded(s) ==
    s \in abandoned \/ (HeldBy(dep, s) => token[s] # None /\ ~Unlocked(s))

LockInv == TypeInv /\ backlog = <<>> /\ \A s \in Scenario : Guarded(s)

\* A step that leaves the target and the status alone may only move a pass to a
\* place where the lock is known to be off.
LEMMA ReadGuarded ==
    ASSUME LockInv, TypeInv', NEW s \in Scenario, NEW next, NEW d,
           GoesOn(s, next, d), UNCHANGED <<dep, backlog, status, ops, faults>>,
           next = "drop" \/ (next = "revertPatch" /\ d.heldBy = NoOne) => ~HeldBy(dep, s)
    PROVE  LockInv'
  <1>1. ASSUME NEW t \in Scenario PROVE Guarded(t)'
    <2>1. CASE t = s
      <3>1. pc'[s] = next /\ seen'[s] = d
        BY DEF GoesOn, LockInv, TypeInv, ScaleTypeOK
      <3> QED BY <2>1, <3>1 DEF LockInv, Guarded, Unlocked, HeldBy, status
    <2>2. CASE t # s
      <3>1. pc'[t] = pc[t] /\ seen'[t] = seen[t]
        BY <2>2 DEF GoesOn, LockInv, TypeInv, ScaleTypeOK
      <3> QED BY <3>1 DEF LockInv, Guarded, Unlocked, HeldBy, status
    <2> QED BY <2>1, <2>2
  <1> QED BY <1>1 DEF LockInv

\* With a cache that is never behind, a change of the target leaves it so.
LEMMA FreshCache ==
    ASSUME setup.lag = 0, backlog = <<>>, NEW d, Becomes(d)
    PROVE  dep' = d /\ backlog' = <<>>
  BY DEF Becomes

\* The invariant survives every step if the cache is never behind.
LEMMA LockStep == setup.lag = 0 /\ LockInv /\ [Next]_vars => LockInv'
  <1> SUFFICES ASSUME setup.lag = 0, LockInv, [Next]_vars PROVE LockInv'
    OBVIOUS
  <1>0. TypeInv' /\ Cached = dep
    BY TypeStep DEF LockInv, Cached
  <1>1. CASE UNCHANGED vars
    BY <1>0, <1>1 DEF vars, LockInv, Guarded, Unlocked, HeldBy
  <1>2. ASSUME NEW s \in Scenario, Pass(s) PROVE LockInv'
    <2>1. CASE StartRun(s)
      BY <1>0, <2>1 DEF StartRun, LockInv, Guarded, Unlocked, HeldBy
    <2>2. CASE Plan(s)
      BY <1>0, <2>2, ReadGuarded DEF Plan
    <2>3. CASE PersistToken(s)
      <3>1. ASSUME NEW t \in Scenario PROVE Guarded(t)'
        <4>1. CASE t = s
          <5>1. seen[s] \in Deployment
            BY <2>3 DEF PersistToken, LockInv, TypeInv, ScaleTypeOK
          <5>2. token'[s] # None /\ pc'[s] = "ensure"
            BY <2>3, <5>1, ScaleAssumption
               DEF PersistToken, GoesOn, LockInv, TypeInv, ScaleTypeOK, Deployment
          <5> QED BY <4>1, <5>2 DEF Guarded, Unlocked
        <4>2. CASE t # s
          BY <2>3, <4>2
             DEF PersistToken, GoesOn, LockInv, TypeInv, ScaleTypeOK, Guarded, Unlocked, HeldBy
        <4> QED BY <4>1, <4>2
      <3> QED BY <1>0, <2>3, <3>1 DEF PersistToken, LockInv
    <2>4. CASE EnsureRead(s)
      BY <1>0, <2>4, ReadGuarded DEF EnsureRead
    <2>5. CASE EnsureRefused(s)
      BY <1>0, <2>5, ReadGuarded DEF EnsureRefused
    <2>6. CASE EnsurePatch(s)
      <3> DEFINE d == IF dep = NoTarget THEN dep ELSE Merged(dep, seen[s], Injected(s))
      <3>1. dep' = d /\ backlog' = <<>>
        BY <2>6, FreshCache DEF EnsurePatch, LockInv
      <3>2. dep' # NoTarget => dep # NoTarget /\ dep'.heldBy \in {dep.heldBy, <<s, run[s]>>}
        BY <3>1 DEF Merged, Injected
      <3>3. token[s] # None
        BY <2>6 DEF EnsurePatch, LockInv, TypeInv, Underway
      <3>4. ASSUME NEW t \in Scenario PROVE Guarded(t)'
        <4>1. CASE t = s
          <5>1. token'[s] = token[s] /\ pc'[s] = "idle"
            BY <2>6 DEF EnsurePatch, GoesOn, status, LockInv, TypeInv, ScaleTypeOK
          <5> QED BY <3>3, <4>1, <5>1 DEF Guarded, Unlocked
        <4>2. CASE t # s
          <5>1. HeldBy(dep, t)' => HeldBy(dep, t)
            BY <3>2, <4>2 DEF HeldBy
          <5>2. pc'[t] = pc[t] /\ seen'[t] = seen[t] /\ UNCHANGED <<token, abandoned>>
            BY <2>6, <4>2 DEF EnsurePatch, GoesOn, status, LockInv, TypeInv, ScaleTypeOK
          <5> QED BY <5>1, <5>2 DEF LockInv, Guarded, Unlocked
        <4> QED BY <4>1, <4>2
      <3> QED BY <1>0, <3>1, <3>4 DEF LockInv
    <2>7. CASE RevertRead(s)
      <3>1. dep = NoTarget \/ Foreign(dep, s) \/ dep = Restored(s) => ~HeldBy(dep, s)
        BY DEF HeldBy, Foreign, Restored
      <3>2. dep.heldBy = NoOne => ~HeldBy(dep, s)
        BY DEF HeldBy
      <3>3. \/ GoesOn(s, "drop", NoTarget) /\ ~HeldBy(dep, s)
            \/ GoesOn(s, "revertPatch", dep)
        BY <1>0, <2>7, <3>1 DEF RevertRead
      <3>4. UNCHANGED <<dep, backlog, status, ops, faults>>
        BY <2>7 DEF RevertRead
      <3> QED BY <1>0, <3>2, <3>3, <3>4, ReadGuarded
    <2>8. CASE RevertPatch(s)
      <3> DEFINE d == IF dep = NoTarget THEN dep ELSE Merged(dep, seen[s], Restored(s))
      <3>1. dep' = d /\ backlog' = <<>>
        BY <2>8, FreshCache DEF RevertPatch, LockInv
      <3>2. dep' # NoTarget =>
              /\ dep # NoTarget
              /\ dep'.heldBy = IF seen[s].heldBy = NoOne THEN dep.heldBy ELSE NoOne
        BY <3>1 DEF Merged, Restored
      <3>3. ASSUME NEW t \in Scenario PROVE Guarded(t)'
        <4>1. HeldBy(dep, t)' => HeldBy(dep, t)
          BY <3>2 DEF HeldBy
        <4>2. UNCHANGED <<token, abandoned>>
          BY <2>8 DEF RevertPatch, status
        <4>3. CASE t = s
          <5>1. t \in abandoned \/ ~HeldBy(dep, t)'
            BY <2>8, <3>2, <4>3 DEF RevertPatch, LockInv, Guarded, Unlocked, HeldBy
          <5> QED BY <4>2, <5>1 DEF Guarded
        <4>4. CASE t # s
          <5>1. pc'[t] = pc[t] /\ seen'[t] = seen[t]
            BY <2>8, <4>4 DEF RevertPatch, GoesOn, LockInv, TypeInv, ScaleTypeOK
          <5> QED BY <4>1, <4>2, <5>1 DEF LockInv, Guarded, Unlocked
        <4> QED BY <4>3, <4>4
      <3> QED BY <1>0, <3>1, <3>3 DEF LockInv
    <2>9. CASE DropToken(s)
      <3>1. ASSUME NEW t \in Scenario PROVE Guarded(t)'
        <4>1. CASE t = s
          BY <2>9, <4>1 DEF DropToken, LockInv, Guarded, Unlocked, HeldBy
        <4>2. CASE t # s
          BY <2>9, <4>2
             DEF DropToken, GoesOn, LockInv, TypeInv, ScaleTypeOK, Guarded, Unlocked, HeldBy
        <4> QED BY <4>1, <4>2
      <3> QED BY <1>0, <2>9, <3>1 DEF DropToken, LockInv
    <2>10. CASE FinishRun(s)
      BY <1>0, <2>10 DEF FinishRun, LockInv, Guarded, Unlocked, HeldBy
    <2> QED
      BY <1>2, <2>1, <2>2, <2>3, <2>4, <2>5, <2>6, <2>7, <2>8, <2>9, <2>10 DEF Pass
  <1>3. ASSUME NEW s \in Scenario, SwitchOn(s) \/ SwitchOff(s) PROVE LockInv'
    BY <1>0, <1>3 DEF SwitchOn, SwitchOff, UserSets, LockInv, Guarded, Unlocked, HeldBy
  <1>4. ASSUME NEW s \in Scenario, ForceRelease(s) PROVE LockInv'
    <2>1. ASSUME NEW t \in Scenario PROVE Guarded(t)'
      BY <1>4 DEF ForceRelease, LockInv, TypeInv, ScaleTypeOK, Guarded, Unlocked, HeldBy
    <2> QED BY <1>0, <1>4, <2>1 DEF ForceRelease, LockInv
  <1>5. ASSUME NEW s \in Scenario, Abandon(s) PROVE LockInv'
    <2>1. ASSUME NEW t \in Scenario PROVE Guarded(t)'
      BY <1>5 DEF Abandon, GoesOn, status, LockInv, TypeInv, ScaleTypeOK, Guarded, Unlocked, HeldBy
    <2> QED BY <1>0, <1>5, <2>1 DEF Abandon, LockInv
  <1>6. CASE Redeploy
    <2>1. /\ backlog' = <<>>
          /\ dep' = [replicas |-> Normal,
                     heldBy |-> IF dep = NoTarget THEN NoOne ELSE dep.heldBy]
      BY <1>6, FreshCache DEF Redeploy, LockInv
    <2>2. ASSUME NEW t \in Scenario PROVE HeldBy(dep, t)' => HeldBy(dep, t)
      BY <2>1 DEF HeldBy
    <2> QED BY <1>0, <1>6, <2>1, <2>2 DEF Redeploy, LockInv, Guarded, Unlocked, status
  <1>7. CASE Undeploy
    <2>1. backlog' = <<>> /\ dep' = NoTarget
      BY <1>7, FreshCache DEF Undeploy, LockInv
    <2> QED BY <1>0, <1>7, <2>1 DEF Undeploy, LockInv, Guarded, Unlocked, HeldBy, status
  <1>8. CASE Deliver
    BY <1>8 DEF Deliver, LockInv
  <1> QED BY <1>1, <1>2, <1>3, <1>4, <1>5, <1>6, <1>7, <1>8 DEF Next

\* The circumstances do not change.
LEMMA SetupKept == [Next]_vars => setup' = setup
  <1> USE DEF status
  <1>1. ASSUME NEW s \in Scenario, Pass(s) PROVE setup' = setup
    BY <1>1 DEF Pass, StartRun, Plan, PersistToken, EnsureRead, EnsureRefused, EnsurePatch,
                RevertRead, RevertPatch, DropToken, FinishRun
  <1>2. ASSUME NEW s \in Scenario, SwitchOn(s) \/ SwitchOff(s) \/ ForceRelease(s) \/ Abandon(s)
        PROVE setup' = setup
    BY <1>2 DEF SwitchOn, SwitchOff, UserSets, ForceRelease, Abandon
  <1>3. Redeploy \/ Undeploy \/ Deliver => setup' = setup
    BY DEF Redeploy, Undeploy, Deliver
  <1> QED BY <1>1, <1>2, <1>3 DEF Next, vars

\* The lock is never left behind (scale.go: Revert removes held-by before the
\* reconciler drops the token), for any number of scenarios that start, stop,
\* crash and overlap, if Ensure and Revert read the Deployment as it is.
THEOREM LockCovered == Spec => []LockHasToken
  <1> DEFINE Covered == TypeInv /\ (setup.lag = 0 => LockInv)
  <1>1. Init => Covered
    <2> SUFFICES ASSUME Init PROVE Covered
      OBVIOUS
    <2>1. TypeInv
      BY ScaleAssumption, TargetAssumption, SetupType
         DEF Init, TypeInv, ScaleTypeOK, Underway, Deployment, PassStep
    <2> QED BY <2>1 DEF Init, LockInv, Guarded, Unlocked, HeldBy
  <1>2. Covered => LockHasToken
    BY DEF LockInv, Guarded, LockHasToken
  <1>3. Covered /\ [Next]_vars => Covered'
    <2> SUFFICES ASSUME Covered, [Next]_vars PROVE Covered'
      OBVIOUS
    <2>1. setup' = setup
      BY SetupKept
    <2> QED BY <2>1, TypeStep, LockStep
  <1> QED
    <2> HIDE DEF Covered
    <2> QED BY <1>1, <1>2, <1>3, PTL DEF Spec

-----------------------------------------------------------------------------
(* One after the other.                                                    *)

Busy(s) == wanted[s] \/ Live(s)

Alone == \A s, o \in Scenario : s # o /\ Busy(s) => ~Busy(o)

\* A pass is of a scenario that is live, and the count that it plans with and that
\* is persisted is the manifest's.
Tidy(s) ==
    /\ pc[s] # "idle" => Live(s)
    /\ pc[s] = "persist" => token[s] = None /\ seen[s].replicas = Normal
    /\ token[s] \in {None, Normal}

\* s will put back the manifest's count.
WillRestore(s) ==
    /\ token[s] # None /\ pc[s] # "drop"
    /\ pc[s] = "revertPatch" => seen[s].replicas # Normal

Restorable == dep # NoTarget /\ dep.replicas # Normal => \E s \in Scenario : WillRestore(s)

Orderly == LockInv /\ Alone /\ (\A s \in Scenario : Tidy(s)) /\ Restorable

\* A step of a pass concerns its own scenario, which is the only one about.
LEMMA PassAlone ==
    ASSUME Orderly, NEW s \in Scenario, Pass(s)
    PROVE  /\ Busy(s) /\ wanted' = wanted /\ abandoned' = abandoned
           /\ \A o \in Scenario \ {s} :
                 /\ ~Busy(o) /\ token[o] = None /\ pc[o] = "idle"
                 /\ run'[o] = run[o] /\ token'[o] = token[o] /\ pc'[o] = pc[o] /\ seen'[o] = seen[o]
           /\ dep # NoTarget /\ dep.replicas # Normal => WillRestore(s)
  <1>1. TypeInv /\ Alone /\ (\A o \in Scenario : Tidy(o)) /\ Restorable
    BY DEF Orderly, LockInv
  <1>2. Busy(s)
    BY <1>1 DEF Pass, StartRun, Plan, PersistToken, EnsureRead, EnsureRefused, EnsurePatch, RevertRead,
                RevertPatch, DropToken, FinishRun, Ensuring, Activating, Reverting, Busy, Live, Tidy
  <1>3. \A o \in Scenario \ {s} : ~Busy(o) /\ token[o] = None /\ pc[o] = "idle"
    BY <1>1, <1>2 DEF Alone, Busy, Live, Tidy
  <1>4. wanted' = wanted /\ abandoned' = abandoned
    BY DEF Pass, StartRun, Plan, PersistToken, EnsureRead, EnsureRefused, EnsurePatch, RevertRead,
           RevertPatch, DropToken, FinishRun, status
  <1>5. ASSUME NEW o \in Scenario \ {s}
        PROVE  run'[o] = run[o] /\ token'[o] = token[o] /\ pc'[o] = pc[o] /\ seen'[o] = seen[o]
    <2>1. ASSUME NEW next, NEW d, GoesOn(s, next, d) PROVE pc'[o] = pc[o] /\ seen'[o] = seen[o]
      BY <1>1, <2>1 DEF GoesOn, TypeInv, ScaleTypeOK
    <2>2. CASE StartRun(s) \/ FinishRun(s)
      BY <1>1, <2>2 DEF StartRun, FinishRun, TypeInv, ScaleTypeOK
    <2>3. CASE PersistToken(s) \/ DropToken(s)
      BY <1>1, <2>1, <2>3 DEF PersistToken, DropToken, TypeInv, ScaleTypeOK
    <2>4. CASE Plan(s) \/ EnsureRead(s) \/ EnsureRefused(s) \/ EnsurePatch(s) \/ RevertRead(s) \/ RevertPatch(s)
      BY <2>1, <2>4 DEF Plan, EnsureRead, EnsureRefused, EnsurePatch, RevertRead, RevertPatch, status
    <2> QED BY <2>2, <2>3, <2>4 DEF Pass
  <1>6. dep # NoTarget /\ dep.replicas # Normal => WillRestore(s)
    BY <1>1, <1>3 DEF Restorable, WillRestore
  <1> QED BY <1>2, <1>3, <1>4, <1>5, <1>6

\* So it is enough to look at that scenario and at the Deployment.
LEMMA PassOrderly ==
    ASSUME setup.lag = 0, Orderly, NEW s \in Scenario, Pass(s), [Next]_vars, Tidy(s)',
           dep' # NoTarget /\ dep'.replicas # Normal => WillRestore(s)'
    PROVE  Orderly'
  <1>1. LockInv'
    BY LockStep DEF Orderly
  <1>2. Alone'
    BY PassAlone DEF Alone, Busy, Live
  <1>3. \A o \in Scenario : Tidy(o)'
    BY PassAlone DEF Orderly, Tidy, Live
  <1>4. Restorable'
    BY DEF Restorable
  <1> QED BY <1>1, <1>2, <1>3, <1>4 DEF Orderly

LEMMA OrderlyPass ==
    ASSUME setup.lag = 0, abandoned = {}, Orderly, NEW s \in Scenario, Pass(s), [Next]_vars
    PROVE  Orderly'
  <1> USE ScaleAssumption
  <1>0. /\ TypeInv /\ Tidy(s) /\ Busy(s) /\ backlog = <<>> /\ Cached = dep /\ Guarded(s)
        /\ dep # NoTarget /\ dep.replicas # Normal => WillRestore(s)
        /\ \A o \in Scenario \ {s} : token[o] = None /\ Guarded(o)
    BY PassAlone DEF Orderly, LockInv, Cached
  <1>1. /\ pc \in [Scenario -> PassStep] /\ seen \in [Scenario -> Versions] /\ run \in [Scenario -> Nat \cup {None}]
        /\ token \in [Scenario -> Nat \cup {None}] /\ runs \in Nat /\ dep \in Versions
        /\ Underway(s) /\ (pc[s] \in {"persist", "ensurePatch", "revertPatch"} => seen[s] \in Deployment)
    BY <1>0 DEF TypeInv, ScaleTypeOK, Versions
  <1>2. ASSUME NEW next, NEW d, GoesOn(s, next, d) PROVE pc'[s] = next /\ seen'[s] = d
    BY <1>1, <1>2 DEF GoesOn
  <1>3. CASE StartRun(s)
    <2>1. UNCHANGED <<dep, token, pc, seen>> /\ run'[s] # None
      BY <1>1, <1>3 DEF StartRun
    <2> QED BY <1>0, <2>1, PassOrderly DEF Tidy, WillRestore, Live
  <1>4. CASE Plan(s)
    <2>1. /\ UNCHANGED <<dep, run, token>> /\ pc'[s] = "persist" /\ seen'[s] = dep
          /\ run[s] # None /\ token[s] = None /\ dep # NoTarget
      BY <1>0, <1>2, <1>4 DEF Plan, status, Activating
    <2>2. dep.replicas = Normal
      BY <1>0, <2>1 DEF WillRestore
    <2> QED BY <1>0, <2>1, <2>2, PassOrderly DEF Tidy, Live
  <1>5. CASE PersistToken(s)
    <2>1. /\ UNCHANGED <<dep, run>> /\ pc'[s] = "ensure" /\ token'[s] = Normal
      BY <1>0, <1>1, <1>2, <1>5 DEF PersistToken, Tidy
    <2>2. Normal # None
      OBVIOUS
    <2> QED BY <1>0, <2>1, <2>2, PassOrderly DEF Tidy, WillRestore, Live
  <1>6. CASE EnsureRead(s) \/ EnsureRefused(s)
    <2>1. UNCHANGED <<dep, run, token>> /\ pc'[s] \in {"idle", "ensurePatch"}
      BY <1>2, <1>6 DEF EnsureRead, EnsureRefused, status
    <2>2. token[s] # None
      BY <1>1, <1>6 DEF EnsureRead, EnsureRefused, Ensuring, Underway
    <2> QED BY <1>0, <2>1, <2>2, PassOrderly DEF Tidy, WillRestore, Live
  <1>7. CASE EnsurePatch(s)
    <2>1. UNCHANGED <<run, token>> /\ pc'[s] = "idle" /\ token[s] # None
      BY <1>1, <1>2, <1>7 DEF EnsurePatch, status, Underway
    <2> QED BY <1>0, <2>1, PassOrderly DEF Tidy, WillRestore, Live
  <1>8. CASE RevertRead(s)
    <2>1. /\ UNCHANGED <<dep, run, token>> /\ token[s] = Normal /\ token[s] # None
          /\ \/ pc'[s] = "drop" /\ (dep = NoTarget \/ Foreign(dep, s) \/ dep = Restored(s))
             \/ pc'[s] = "revertPatch" /\ seen'[s] = dep
      BY <1>0, <1>2, <1>8 DEF RevertRead, status, Reverting, Tidy
    <2>2. ~Foreign(dep, s)
      <3> SUFFICES ASSUME Foreign(dep, s) PROVE FALSE
        OBVIOUS
      <3>1. PICK o \in Scenario : o = dep.heldBy[1]
        BY <1>1 DEF Foreign, Versions, Deployment
      <3>2. HeldBy(dep, o) /\ o # s
        BY <3>1 DEF Foreign, HeldBy
      <3> QED BY <1>0, <3>2 DEF Guarded
    <2>3. pc'[s] = "drop" => dep = NoTarget \/ dep.replicas = Normal
      BY <2>1, <2>2 DEF Restored
    <2> QED BY <1>0, <2>1, <2>3, PassOrderly DEF Tidy, WillRestore, Live
  <1>9. CASE RevertPatch(s)
    <2>1. /\ UNCHANGED <<run, token>> /\ pc'[s] \in {"idle", "drop"} /\ token[s] = Normal /\ token[s] # None
          /\ dep' = IF dep = NoTarget THEN dep ELSE Merged(dep, seen[s], Restored(s))
      BY <1>0, <1>1, <1>2, <1>9, FreshCache DEF RevertPatch, status, Underway, Tidy
    <2>2. dep # NoTarget => dep'.replicas = IF seen[s].replicas = Normal THEN dep.replicas ELSE Normal
      BY <2>1 DEF Merged, Restored
    <2>3. dep # NoTarget => dep'.replicas = Normal
      BY <1>0, <1>9, <2>2 DEF RevertPatch, WillRestore
    <2>4. dep' = NoTarget \/ dep'.replicas = Normal
      BY <2>1, <2>3
    <2> QED BY <1>0, <2>1, <2>4, PassOrderly DEF Tidy, Live
  <1>10. CASE DropToken(s)
    <2>1. UNCHANGED <<dep, run>> /\ pc'[s] = "idle" /\ token'[s] = None /\ pc[s] = "drop"
      BY <1>1, <1>2, <1>10 DEF DropToken
    <2> QED BY <1>0, <2>1, PassOrderly DEF Tidy, WillRestore
  <1>11. CASE FinishRun(s)
    <2>1. UNCHANGED <<dep, token, pc, seen>> /\ pc[s] = "idle"
      BY <1>11 DEF FinishRun
    <2> QED BY <1>0, <2>1, PassOrderly DEF Tidy, WillRestore
  <1> QED BY <1>3, <1>4, <1>5, <1>6, <1>7, <1>8, <1>9, <1>10, <1>11 DEF Pass

LEMMA OrderlyStep ==
    ASSUME setup.lag = 0, ~setup.overlapping, abandoned = {}, Orderly, [Next]_vars, abandoned' = {}
    PROVE  Orderly'
  <1>0. TypeInv /\ LockInv' /\ Alone /\ (\A s \in Scenario : Tidy(s)) /\ Restorable /\ backlog = <<>>
    BY LockStep DEF Orderly, LockInv
  <1>1. CASE UNCHANGED vars
    BY <1>0, <1>1 DEF vars, Orderly, Alone, Tidy, Restorable, WillRestore, Busy, Live
  <1>2. ASSUME NEW s \in Scenario, SwitchOn(s) PROVE Orderly'
    <2>1. wanted' = [wanted EXCEPT ![s] = TRUE] /\ UNCHANGED <<dep, run, token, pc, seen>>
      BY <1>2 DEF SwitchOn, UserSets
    <2>2. \A o \in Scenario \ {s} : ~Busy(o) /\ wanted'[o] = wanted[o]
      BY <1>0, <1>2, <2>1 DEF SwitchOn, Busy, TypeInv, ScaleTypeOK
    <2>3. Alone'
      BY <2>1, <2>2 DEF Alone, Busy, Live
    <2> QED BY <1>0, <2>1, <2>3 DEF Orderly, Tidy, Restorable, WillRestore, Live
  <1>3. ASSUME NEW s \in Scenario, SwitchOff(s) PROVE Orderly'
    <2>1. wanted' = [wanted EXCEPT ![s] = FALSE] /\ UNCHANGED <<dep, run, token, pc, seen>>
      BY <1>3 DEF SwitchOff, UserSets
    <2>2. \A o \in Scenario : wanted'[o] => wanted[o]
      BY <1>0, <2>1 DEF TypeInv, ScaleTypeOK
    <2>3. Alone'
      BY <1>0, <2>1, <2>2 DEF Alone, Busy, Live
    <2> QED BY <1>0, <2>1, <2>3 DEF Orderly, Tidy, Restorable, WillRestore, Live
  <1>4. ASSUME NEW s \in Scenario, ForceRelease(s) PROVE FALSE
    BY <1>4 DEF ForceRelease
  <1>5. ASSUME NEW s \in Scenario, Abandon(s) PROVE Orderly'
    <2>1. UNCHANGED <<dep, wanted, run, token>> /\ pc'[s] = "idle"
          /\ \A o \in Scenario \ {s} : pc'[o] = pc[o] /\ seen'[o] = seen[o]
      BY <1>0, <1>5 DEF Abandon, GoesOn, status, TypeInv, ScaleTypeOK
    <2>2. Alone'
      BY <1>0, <2>1 DEF Alone, Busy, Live
    <2>3. \A o \in Scenario : Tidy(o)'
      BY <1>0, <2>1 DEF Tidy, Live
    <2>4. \A o \in Scenario : WillRestore(o) => WillRestore(o)'
      BY <2>1 DEF WillRestore
    <2>5. Restorable'
      BY <1>0, <2>1, <2>4 DEF Restorable
    <2> QED BY <1>0, <2>2, <2>3, <2>5 DEF Orderly
  <1>6. CASE Redeploy \/ Undeploy
    <2>1. UNCHANGED <<wanted, run, token, pc, seen>>
      BY <1>6 DEF Redeploy, Undeploy, status
    <2>2. dep' = NoTarget \/ dep'.replicas = Normal
      <3>1. CASE Redeploy
        <4>1. dep' = [replicas |-> Normal, heldBy |-> IF dep = NoTarget THEN NoOne ELSE dep.heldBy]
          BY <3>1, <1>0, FreshCache DEF Redeploy
        <4> QED BY <4>1
      <3>2. CASE Undeploy
        BY <3>2, <1>0, FreshCache DEF Undeploy
      <3> QED BY <1>6, <3>1, <3>2
    <2> QED BY <1>0, <2>1, <2>2 DEF Orderly, Alone, Tidy, Restorable, Busy, Live
  <1>7. CASE Deliver
    BY <1>0, <1>7 DEF Deliver
  <1> QED BY <1>1, <1>2, <1>3, <1>4, <1>5, <1>6, <1>7, OrderlyPass DEF Next

\* Of scenarios that come one after the other none leaves a trace: with no scenario
\* wanted or live the Deployment has its own count and no lock, whatever was
\* crashed, redeployed or deleted meanwhile (scale.go, Revert).
THEOREM QuietNormal == Spec => []QuietIsNormal
  <1> DEFINE Inv == /\ TypeInv
                    /\ setup.lag = 0 /\ ~setup.overlapping /\ abandoned = {} => Orderly
  <1>1. Init => Inv
    <2> SUFFICES ASSUME Init PROVE Inv
      OBVIOUS
    <2>1. TypeInv
      BY ScaleAssumption, TargetAssumption, SetupType
         DEF Init, TypeInv, ScaleTypeOK, Underway, Deployment, PassStep
    <2>2. LockInv
      BY <2>1 DEF Init, LockInv, Guarded, Unlocked, HeldBy
    <2>3. Alone /\ (\A s \in Scenario : Tidy(s)) /\ Restorable
      BY DEF Init, Alone, Busy, Live, Tidy, Restorable
    <2> QED BY <2>1, <2>2, <2>3 DEF Orderly
  <1>2. Inv /\ [Next]_vars => Inv'
    <2> SUFFICES ASSUME Inv, [Next]_vars, setup'.lag = 0, ~setup'.overlapping, abandoned' = {}
                 PROVE  Orderly'
      BY TypeStep
    <2>1. setup' = setup
      BY SetupKept
    <2>2. abandoned \subseteq abandoned'
      <3>1. \A s \in Scenario : Pass(s) \/ SwitchOn(s) \/ SwitchOff(s) \/ Abandon(s) => abandoned' = abandoned
        BY DEF Pass, StartRun, Plan, PersistToken, EnsureRead, EnsureRefused, EnsurePatch, RevertRead,
               RevertPatch, DropToken, FinishRun, status, SwitchOn, SwitchOff, UserSets, Abandon
      <3>2. \A s \in Scenario : ForceRelease(s) => abandoned \subseteq abandoned'
        BY DEF ForceRelease
      <3>3. Redeploy \/ Undeploy \/ Deliver \/ UNCHANGED vars => abandoned' = abandoned
        BY DEF Redeploy, Undeploy, Deliver, status, vars
      <3> QED BY <3>1, <3>2, <3>3 DEF Next
    <2> QED BY <2>1, <2>2, OrderlyStep
  <1>3. Inv => QuietIsNormal
    <2> SUFFICES ASSUME TypeInv, Orderly, Quiet, abandoned = {}, dep # NoTarget PROVE AsDeployed
      BY DEF QuietIsNormal
    <2>1. \A s \in Scenario : token[s] = None
      BY DEF Quiet, Live
    <2>2. dep \in Deployment /\ dep.replicas = Normal
      BY <2>1 DEF TypeInv, ScaleTypeOK, Orderly, Restorable, WillRestore
    <2>3. dep.heldBy = NoOne
      <3> SUFFICES ASSUME dep.heldBy # NoOne PROVE FALSE
        OBVIOUS
      <3>1. PICK o \in Scenario : o = dep.heldBy[1]
        BY <2>2 DEF Deployment
      <3>2. HeldBy(dep, o)
        BY <3>1 DEF HeldBy
      <3> QED BY <2>1, <3>2 DEF Orderly, LockInv, Guarded
    <2> QED BY <2>2, <2>3 DEF Deployment, AsDeployed
  <1> QED
    <2> HIDE DEF Inv
    <2> QED BY <1>1, <1>2, <1>3, PTL DEF Spec
=============================================================================
