----------------------------- MODULE MCScaleAction -----------------------------
(***************************************************************************)
(* Small instances of ScaleAction for TLC: s1 switches the service off, s2 *)
(* inflates it.                                                            *)
(***************************************************************************)
EXTENDS ScaleAction

CONSTANTS s1, s2

Targets == [s \in Scenario |-> IF s = s1 THEN 0 ELSE 2]

Circumstances(l, together, o, f) == [lag |-> l, overlapping |-> together, ops |-> o, faults |-> f]

\* Two scenarios that overlap, under a cache one version behind; two that come one
\* after the other, often, with a cache that is up to date.
AllSetups == {Circumstances(1, TRUE, 4, 1), Circumstances(0, FALSE, 6, 3)}

\* Two that overlap and nothing else goes wrong.
Together == {Circumstances(0, TRUE, 4, 0)}
=============================================================================
