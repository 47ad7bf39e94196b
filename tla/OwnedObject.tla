------------------------------ MODULE OwnedObject ------------------------------
(***************************************************************************)
(* The actions Workload and ChaosMesh (src/operator/internal/actions       *)
(* /workload.go, chaosmesh.go): an object that is created under a fixed    *)
(* name and deleted on revert.  Scenarios here use the same name.          *)
(***************************************************************************)
EXTENDS ScenarioRuns

CONSTANTS
    NoObject,
    Named           \* the token: the name of the object

Object == [owner : Scenario, uid : 0..MaxRuns, injects : BOOLEAN, deleting : BOOLEAN]
ASSUME ObjectAssumption == NoObject \notin Object /\ Named # None

Owned == {"Workload", "ChaosMesh"}

VARIABLES
    object,         \* the Job or Chaos Mesh object of that name
    objectView      \* objectView[s]: the object as s has read it

objectVars == <<object, objectView>>

Writes(s, o) ==
    /\ object' = o
    /\ objectView' = Viewed(objectView, s, o)

Ours(s) == objectView[s] # NoObject /\ objectView[s].owner = s

-----------------------------------------------------------------------------

\* A name in use by another scenario is a conflict.
ObjectPlan(s, t) ==
    /\ Plans(s, t) /\ (objectView[s] = NoObject \/ Ours(s))
    /\ Persists(s, Named)
    /\ UNCHANGED objectVars

\* buildJob and buildChaos set the label, the owner, and a duration after which
\* the object stops injecting by itself.
Built(s) == [owner |-> s, uid |-> uid[s], injects |-> TRUE, deleting |-> FALSE]

ObjectEnsure(s, t) ==
    /\ Ensures(s, t) /\ objectView[s] = NoObject /\ object = NoObject
    /\ Writes(s, Built(s))
    /\ UNCHANGED runVars

\* Variant: done as soon as the deletion was asked for.
ObjectRevertHasty(s, t) ==
    /\ Reverts(s, t)
    /\ IF Ours(s) /\ object # NoObject THEN Writes(s, [object EXCEPT !.deleting = TRUE]) ELSE UNCHANGED objectVars
    /\ Drops(s)

\* Done when there is no such object, or it is another's; otherwise it is deleted,
\* by name, and the next passes wait until it is gone.
ObjectRevert(s, t) ==
    /\ Reverts(s, t)
    /\ IF ~Ours(s) THEN Drops(s) /\ UNCHANGED objectVars
       ELSE /\ ~objectView[s].deleting /\ object # NoObject
            /\ Writes(s, [object EXCEPT !.deleting = TRUE])
            /\ UNCHANGED runVars

\* The pods have gone; Chaos Mesh has recovered the fault and lets go.
Gone ==
    /\ object # NoObject /\ object.deleting
    /\ Writes(None, NoObject)
    /\ UNCHANGED runVars

\* The deadline of the Job, the duration of the Chaos Mesh object.
DeadManSwitch ==
    /\ object # NoObject /\ object.injects
    /\ Writes(None, [object EXCEPT !.injects = FALSE])
    /\ UNCHANGED runVars

\* A finished Job is removed after its TTL; an object whose owner was deleted is
\* collected.
Collect ==
    /\ object # NoObject /\ ~object.deleting
    /\ \/ Type(object.owner) = "Workload" /\ ~object.injects
       \/ object.uid # uid[object.owner]
    /\ Writes(None, [object EXCEPT !.deleting = TRUE])
    /\ UNCHANGED runVars

ObjectSeen(s) ==
    /\ objectView[s] # object
    /\ objectView' = [objectView EXCEPT ![s] = object]
    /\ UNCHANGED <<runVars, object>>

ObjectInit == object = NoObject /\ objectView = [s \in Scenario |-> NoObject]

ObjectPass(s) == \E t \in Owned : ObjectPlan(s, t) \/ ObjectEnsure(s, t) \/ ObjectRevert(s, t)

-----------------------------------------------------------------------------

ObjectTypeOK ==
    /\ object \in Object \cup {NoObject}
    /\ objectView \in [Scenario -> Object \cup {NoObject}]

\* An object that injects is there only while its owner has the token from which
\* Revert will delete it, unless the token was given up on request.
ObjectHasToken ==
    object # NoObject /\ object.injects
        => token[object.owner] # None \/ Released(object.owner)

=============================================================================
