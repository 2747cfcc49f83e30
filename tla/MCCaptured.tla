----------------------------- MODULE MCCaptured -----------------------------
(* Captured with a ring that fills up and a few packets. *)
EXTENDS Captured
=============================================================================
