----------------------------- MODULE MCPreempt -----------------------------
(* Instances of Preempt for model checking. *)
EXTENDS PreemptClaims

CONSTANTS s1

OneUnit == [s \in Sems |-> 1]
=============================================================================
