------------------------------- MODULE MCAcia -------------------------------
(* The driver with scaled buffers: every count and limit is reached. *)
EXTENDS Acia
=============================================================================
