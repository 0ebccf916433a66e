------------------------- MODULE MCAssessmentWorkflow -------------------------
(***************************************************************************)
(* An instance of AssessmentWorkflow for TLC: two assessments of one       *)
(* relationship, a critical finding on the first and two corrective        *)
(* actions for it.                                                         *)
(***************************************************************************)
EXTENDS AssessmentWorkflow

CONSTANTS r1, a1, a2, f1, c1, c2, manager, assigned, blank, full

TheRelationship == {r1}
TheContents     == {blank, full}
TheBuyerUsers   == {manager, assigned}

\* Two questions are required and visible whatever is answered.
TheRequired == [content \in TheContents |-> 2]
TheAnswered == [content \in TheContents |-> IF content = full THEN 2 ELSE 0]

TwoAssessments       == {a1, a2}
TwoRelationshipOf    == [a \in TwoAssessments |-> r1]
OneReviewer          == [a \in TwoAssessments |-> IF a = a1 THEN assigned ELSE NoReviewer]
SubmittedTwiceOrOnce == [a \in TwoAssessments |-> IF a = a1 THEN 2 ELSE 1]
OneFinding           == {f1}
OneFindingAssessment == [f \in OneFinding |-> a1]
TwoActions           == {c1, c2}
TwoActionsFinding    == [c \in TwoActions |-> f1]
=============================================================================
