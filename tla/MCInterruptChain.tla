-------------------------- MODULE MCInterruptChain --------------------------
(* Instances of InterruptChain for model checking. *)
EXTENDS InterruptChain, TLC

(* Two addresses share a byte, and one begins a page. *)
MCHandlers == {<<1, 1>>, <<2, 1>>, <<0, 2>>}

(* The bytes of an address, nops and returns. *)
MCCode ==
    (<<1, 1>> :> <<1, 1, 2, 1, 201, 0>>) @@ (<<2, 1>> :> <<0, 0, 201, 0, 1, 1>>)
        @@ (<<0, 2>> :> <<0, 201, 2, 1, 2, 1>>)
=============================================================================
