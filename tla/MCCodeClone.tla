---------------------------- MODULE MCCodeClone ----------------------------
(***************************************************************************)
(* Two attaches through the server and one through the CLI, with as many   *)
(* crashes and detaches as the configuration allows.                       *)
(***************************************************************************)
EXTENDS CodeClone, TLC

CONSTANTS a1, a2, c1

JobSymmetry == Permutations(ServerJobs)

=============================================================================
