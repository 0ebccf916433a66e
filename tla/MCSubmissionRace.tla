--------------------------- MODULE MCSubmissionRace ---------------------------
(***************************************************************************)
(* Instances of SubmissionRace for TLC: a question that is always shown    *)
(* and one it shows, two submitters and two writers of response rows.      *)
(***************************************************************************)
EXTENDS SubmissionRace

CONSTANTS controller, dependent, s1, s2, w1, w2

TheQuestions == {controller, dependent}
TheGate      == [q \in TheQuestions |-> IF q = dependent THEN controller ELSE Always]
=============================================================================
