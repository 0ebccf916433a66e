----------------------------- MODULE ProgramLine -----------------------------
(***************************************************************************)
(* What a qualification program promises those who read it: its versions   *)
(* are numbered without gaps, one at a time is written, and at every       *)
(* moment the last published one, and no other, is active; assessments are *)
(* created for that one.                                                   *)
(***************************************************************************)
EXTENDS Naturals

VARIABLES
    published,   \* the number of published versions
    drafting     \* whether the next one is being written

Init == published = 0 /\ drafting = FALSE

StatusOf(v) ==
    CASE v < published -> "retired"
      [] v = published -> "active"
      [] v = published + 1 /\ drafting -> "draft"
      [] OTHER -> "none"

AddDraft ==
    /\ ~ drafting /\ drafting' = TRUE
    /\ UNCHANGED published

Publish ==
    /\ drafting /\ drafting' = FALSE
    /\ published' = published + 1

Next == AddDraft \/ Publish

Spec == Init /\ [][Next]_<<published, drafting>>
=============================================================================
