---------------------------- MODULE EvidenceShelf ----------------------------
(***************************************************************************)
(* What the evidence of a relationship promises those who submit and those *)
(* who review it, whatever uploads, jobs and nightly jobs are under way:   *)
(* new evidence may arrive at any time and is judged once; what is ready   *)
(* stays so until something else arrives; nothing is submitted unless all  *)
(* required documents were found ready at one moment; and the submission   *)
(* names those that are ready at a second one.                             *)
(***************************************************************************)
CONSTANT Documents

VARIABLES
    shelf,   \* the current evidence of each document: empty, waiting, ready or refused
    phase,   \* the assessment: editable, checked, in_review or decided
    named    \* the documents the last submission names a version of

Init ==
    /\ shelf = [d \in Documents |-> "empty"]
    /\ phase = "editable"
    /\ named = {}

Arrive(d) ==
    /\ shelf' = [shelf EXCEPT ![d] = "waiting"]
    /\ UNCHANGED <<phase, named>>

Judge(d) ==
    /\ shelf[d] = "waiting"
    /\ \E verdict \in {"ready", "refused"} : shelf' = [shelf EXCEPT ![d] = verdict]
    /\ UNCHANGED <<phase, named>>

Check ==
    /\ phase = "editable" /\ \A d \in Documents : shelf[d] = "ready"
    /\ phase' = "checked"
    /\ UNCHANGED <<shelf, named>>

Submit ==
    /\ phase = "checked"
    /\ phase' = "in_review"
    /\ named' = {d \in Documents : shelf[d] = "ready"}
    /\ UNCHANGED shelf

GiveUp ==
    /\ phase = "checked" /\ phase' = "editable"
    /\ UNCHANGED <<shelf, named>>

Review ==
    /\ phase = "in_review" /\ phase' \in {"editable", "decided"}
    /\ UNCHANGED <<shelf, named>>

Next == (\E d \in Documents : Arrive(d) \/ Judge(d)) \/ Check \/ Submit \/ GiveUp \/ Review

Spec == Init /\ [][Next]_<<shelf, phase, named>>
=============================================================================
