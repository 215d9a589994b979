-------------------------- MODULE MCRegistrySweep --------------------------
(* RegistrySweep for TLC. *)
EXTENDS RegistrySweep, MCRegistry
=============================================================================
