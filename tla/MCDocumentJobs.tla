---------------------------- MODULE MCDocumentJobs ----------------------------
(***************************************************************************)
(* Instances of DocumentJobs for TLC.                                      *)
(***************************************************************************)
EXTENDS DocumentJobs

CONSTANTS r1, r2
=============================================================================
