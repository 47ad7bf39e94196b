--------------------------- MODULE DeployImageAction ---------------------------
(***************************************************************************)
(* The DeployImage action (src/operator/internal/actions/deployimage.go):  *)
(* scenarios that deploy a regression variant of the same Deployment and   *)
(* roll it back.  The scenario label comes and goes with held-by.          *)
(***************************************************************************)
EXTENDS ScenarioRuns

CONSTANTS
    Release,        \* images the pipeline deploys
    Bad,            \* Bad[s]: spec.deployImage.image
    KnownGood,      \* KnownGood[s]: spec.deployImage.knownGoodImage, or None
    NoTarget        \* the Deployment does not exist

BadImages == {Bad[s] : s \in Scenario}
Image == Release \cup BadImages
Deployment == [image : Image, good : Image \cup {None}, heldBy : Scenario \cup {None}]

ASSUME ImageAssumption ==
    /\ BadImages \cap Release = {} /\ None \notin Image \cup Scenario
    /\ KnownGood \in [Scenario -> Release \cup {None}]
    /\ NoTarget \notin Deployment

VARIABLES
    dep,            \* the Deployment
    depView,        \* depView[s]: the Deployment as s has read it
    undeployed      \* somebody has deleted it

depVars == <<dep, depView, undeployed>>

\* A merge patch carries the fields in which the copy that was read and what is
\* wanted differ; the others keep the values they have by now.
Merged(base, had, want) ==
    [f \in DOMAIN base |-> IF had[f] = want[f] THEN base[f] ELSE want[f]]

DepPatch(s, want) ==
    /\ dep # NoTarget
    /\ dep' = Merged(dep, depView[s], want)
    /\ depView' = Viewed(depView, s, dep')
    /\ UNCHANGED undeployed

Held(d, s) == d.heldBy \notin {None, s}

-----------------------------------------------------------------------------

\* The rollback image: the spec's, else the one a run before has left, else the
\* one observed.
GoodImage(s) ==
    IF KnownGood[s] # None THEN KnownGood[s]
    ELSE IF depView[s].good # None THEN depView[s].good ELSE depView[s].image

DeployPlan(s) ==
    /\ Plans(s, "DeployImage") /\ depView[s] # NoTarget
    /\ GoodImage(s) # Bad[s]
    /\ Persists(s, GoodImage(s))
    /\ UNCHANGED depVars

\* Variant: the annotation is written only once the image is out.
DeployedImageFirst(s) ==
    IF depView[s].image # Bad[s] THEN [depView[s] EXCEPT !.image = Bad[s]]
                                 ELSE [depView[s] EXCEPT !.good = token[s], !.heldBy = s]

Deployed(s) == [image |-> Bad[s], good |-> token[s], heldBy |-> s]

\* Refused while anybody else's annotation is on the Deployment; nothing to do
\* once the image is set.
DeployEnsure(s) ==
    /\ Ensures(s, "DeployImage") /\ depView[s] # NoTarget
    /\ ~Held(depView[s], s) /\ depView[s].image # Bad[s]
    /\ DepPatch(s, Deployed(s))
    /\ UNCHANGED runVars

\* Variant: nothing is left to do once the image is not the bad one.
NothingToRollBackByImage(s) ==
    LET d == depView[s] IN d = NoTarget \/ Held(d, s) \/ d.image # Bad[s]

NothingToRollBack(s) ==
    LET d == depView[s]
    IN  \/ d = NoTarget \/ Held(d, s)
        \/ d.image # Bad[s] /\ d.good = None /\ d.heldBy = None

RolledBack(s) ==
    [image |-> IF depView[s].image = Bad[s] THEN token[s] ELSE depView[s].image,
     good |-> None, heldBy |-> None]

DeployRevert(s) ==
    /\ Reverts(s, "DeployImage")
    /\ IF NothingToRollBack(s) THEN Drops(s) /\ UNCHANGED depVars
       ELSE /\ DepPatch(s, RolledBack(s))
            /\ IF depView[s].image = Bad[s] THEN UNCHANGED runVars ELSE Drops(s)

DepSeen(s) ==
    /\ depView[s] # dep
    /\ depView' = [depView EXCEPT ![s] = dep]
    /\ UNCHANGED <<runVars, dep, undeployed>>

\* The pipeline deploys a release, or removes the Deployment.
RealDeploy(i) ==
    /\ Fault
    /\ dep' = IF dep = NoTarget THEN [image |-> i, good |-> None, heldBy |-> None]
                                ELSE [dep EXCEPT !.image = i]
    /\ depView' = Viewed(depView, None, dep')
    /\ UNCHANGED <<status, ops, undeployed>>

Undeploy ==
    /\ dep # NoTarget /\ Fault
    /\ dep' = NoTarget /\ undeployed' = TRUE
    /\ depView' = Viewed(depView, None, NoTarget)
    /\ UNCHANGED <<status, ops>>

DepInit ==
    /\ \E i \in Release : dep = [image |-> i, good |-> None, heldBy |-> None]
    /\ depView = [s \in Scenario |-> dep]
    /\ undeployed = FALSE

DepPass(s) == DeployPlan(s) \/ DeployEnsure(s) \/ DeployRevert(s)

-----------------------------------------------------------------------------

DepTypeOK ==
    /\ dep \in Deployment \cup {NoTarget}
    /\ depView \in [Scenario -> Deployment \cup {NoTarget}]
    /\ undeployed \in BOOLEAN

ImageAlone ==
    \A s, o \in Scenario : Type(s) = "DeployImage" /\ Type(o) = "DeployImage" => s = o

\* A bad image is live only together with the annotation that says which image
\* to go back to, and that is never a bad one: "there is no window where the bad
\* image is live without its rollback marker" (deployimage.go:117-118).
RollbackMarked == dep # NoTarget /\ dep.image \in BadImages => dep.good \in Release

\* What the merge patch of Ensure does keep of that (deployimage.go:117-167): the
\* marker comes with the bad image as long as views are up to date, or one scenario
\* deploys, sees its own writes, and the Deployment is not deleted behind its view.
MarkedUnlessRecreated ==
    setup.lag = "none" \/ (setup.lag = "others" /\ ImageAlone /\ ~undeployed) => RollbackMarked

=============================================================================
