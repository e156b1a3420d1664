----------------------------- MODULE MCProtoRPC -----------------------------
(* Instances of ProtoRPC for TLC. *)
EXTENDS ProtoRPC, TLC

Symmetry == Permutations(Callers)
=============================================================================
