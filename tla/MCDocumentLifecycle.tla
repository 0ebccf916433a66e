------------------------- MODULE MCDocumentLifecycle --------------------------
(***************************************************************************)
(* Instances of DocumentLifecycle for TLC: one document, several versions  *)
(* and two finalize requests.                                              *)
(***************************************************************************)
EXTENDS DocumentLifecycle

CONSTANTS d1, q1, q2
=============================================================================
