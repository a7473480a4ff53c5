--------------------------- MODULE MCPreemptLock ---------------------------
(* Instances of PreemptLock for model checking. *)
EXTENDS PreemptLock

CONSTANTS s1

OneUnit == [s \in Sems |-> 1]
=============================================================================
