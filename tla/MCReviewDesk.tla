----------------------------- MODULE MCReviewDesk -----------------------------
(***************************************************************************)
(* Instances of ReviewDesk for TLC: the owner or the assigned reviewer and  *)
(* one finding.                                                            *)
(***************************************************************************)
EXTENDS ReviewDesk
=============================================================================
