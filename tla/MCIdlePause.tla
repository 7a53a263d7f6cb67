---------------------------- MODULE MCIdlePause ----------------------------
(* Two sweepers and one sandbox for TLC. *)
EXTENDS IdlePause

=============================================================================
