----------------------------- MODULE MCCallOnce -----------------------------
(* Instances of call_once() for TLC: three threads share one flag. *)
EXTENDS CallOnce
=============================================================================
