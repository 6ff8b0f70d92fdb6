---------------------------- MODULE MCWorkQueue ----------------------------
(* WorkQueue on a small instance: the constants are given in the cfg. *)
EXTENDS WorkQueue
=============================================================================
