------------------------------ MODULE MCMutex ------------------------------
(* Instances of Mutex for model checking. *)
EXTENDS Mutex

\* On the 8080 mtx_trylock() leaves a spinlock byte nobody can take.
TryOnZ80 == [b \in Builds |-> IF b = "z80" THEN {1} ELSE {}]
=============================================================================
