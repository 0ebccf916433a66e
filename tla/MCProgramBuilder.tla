--------------------------- MODULE MCProgramBuilder ---------------------------
(***************************************************************************)
(* An instance of ProgramBuilder for TLC: two managers, who are alike.     *)
(***************************************************************************)
EXTENDS ProgramBuilder, TLC

Alike == Permutations(Users)
=============================================================================
