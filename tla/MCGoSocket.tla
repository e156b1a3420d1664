----------------------------- MODULE MCGoSocket -----------------------------
(* An instance of GoSocket for TLC: see the cfg file. *)
EXTENDS GoSocket
=============================================================================
