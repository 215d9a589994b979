----------------------------- MODULE MCRegistry -----------------------------
(* Registry for TLC: channels of one connection are interchangeable. *)
EXTENDS Registry, TLC

Interchangeable == Permutations(DCs)
=============================================================================
