---------------------------- MODULE MCActionTargets ----------------------------
(* Two scenarios of the same type, and one alone that runs SQL.              *)
EXTENDS ActionTargets

CONSTANTS a, b, bad1, bad2, v1, v2

Pair(t) == [s \in Scenario |-> t]
Alone(t) == [Pair(None) EXCEPT ![a] = t]
Setup(types, l, n) == [type |-> types, lag |-> l, maxFaults |-> n]

\* Three faults are a deployment, a deletion, and a deployment of what was deleted.
Recreated == Setup(Alone("DeployImage"), "others", 3)
ExecAlone == Setup(Alone("DBExec"), "others", 1)

AllSetups == {Setup(Pair("DeployImage"), "none", 1), Recreated,
              Setup(Pair("Workload"), "others", 1), Setup(Pair("ChaosMesh"), "others", 1),
              ExecAlone}
ImageSetups == {Recreated}
ExecSetups == {ExecAlone}

BadOf == [Pair(bad1) EXCEPT ![b] = bad2]

\* The spec of b names the image to go back to, that of a leaves it to the action.
KnownGoodOf == [Pair(None) EXCEPT ![b] = v2]

=============================================================================
