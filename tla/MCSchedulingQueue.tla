-------------------------- MODULE MCSchedulingQueue --------------------------
(***************************************************************************)
(* An instance of SchedulingQueue for TLC: one pod.                        *)
(***************************************************************************)
EXTENDS SchedulingQueue

CONSTANTS p1, fit, podAdd, podDelete

OnePod == {p1}
MCPlugins == {fit}
MCEvents == {podAdd, podDelete}

\* A pod that leaves its node makes room; one that comes does not.
MCEventPlugins == [e \in MCEvents |-> IF e = podDelete THEN {fit} ELSE {}]
=============================================================================
