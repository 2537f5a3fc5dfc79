------------------------------ MODULE MCTurns ------------------------------
(***************************************************************************)
(* Two turns on one paper.                                                 *)
(***************************************************************************)
EXTENDS Turns

CONSTANTS t1, t2

=============================================================================
