---------------------------- MODULE MCReserveLoop ----------------------------
(* A small instance of ReserveLoop for TLC. *)
EXTENDS ReserveLoop, TLC
=============================================================================
