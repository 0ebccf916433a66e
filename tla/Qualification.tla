---------------------------- MODULE Qualification ----------------------------
(***************************************************************************)
(* What an assessment promises both sides, however answers, findings,      *)
(* reviewers and managers interleave: supplier and buyer take turns; what  *)
(* the buyer holds during a turn, and for ever after a verdict, is one     *)
(* copy of the answers that nobody changes; it is complete unless answers  *)
(* changed while it was handed over; a verdict is given once, in the       *)
(* buyer's turn; none is favourable while a critical finding blocks it,    *)
(* and none is raised afterwards; and a supplier's standing is that of the *)
(* last verdict on its relationship.                                       *)
(***************************************************************************)
CONSTANTS Relationships, Assessments, RelationshipOf, Contents, CompleteContents

VARIABLES
    turn,       \* supplier, presented or disturbed on the way, buyer, or the verdict
    sheet,      \* the answers handed over, if any: a set of at most one
    blocked,    \* a critical finding is unresolved
    standing    \* of each relationship

Verdicts == {"approved", "conditionally_approved", "rejected"}

StandingAfter(verdict) ==
    CASE verdict = "approved" -> "qualified"
      [] verdict = "conditionally_approved" -> "conditionally_qualified"
      [] verdict = "rejected" -> "rejected"

Init ==
    /\ turn = [a \in Assessments |-> "supplier"]
    /\ sheet = [a \in Assessments |-> {}]
    /\ blocked = [a \in Assessments |-> FALSE]
    /\ standing = [r \in Relationships |-> "profile_pending"]

\* Handing over takes time: the answers are presented, may be disturbed, and are
\* the buyer's or taken back.  Only undisturbed ones are known to be complete.
Passing == {"presented", "disturbed"}

Present(a) ==
    /\ turn[a] = "supplier" /\ turn' = [turn EXCEPT ![a] = "presented"]
    /\ \E answers \in Contents : sheet' = [sheet EXCEPT ![a] = {answers}]
    /\ UNCHANGED <<blocked, standing>>

Disturb(a) ==
    /\ turn[a] \in Passing /\ turn' = [turn EXCEPT ![a] = "disturbed"]
    /\ \E answers \in Contents : sheet' = [sheet EXCEPT ![a] = {answers}]
    /\ UNCHANGED <<blocked, standing>>

HandOver(a) ==
    /\ turn[a] \in Passing /\ turn' = [turn EXCEPT ![a] = "buyer"]
    /\ turn[a] = "presented" => sheet[a] \subseteq CompleteContents
    /\ UNCHANGED <<sheet, blocked, standing>>

TakeBack(a) ==
    /\ turn[a] \in Passing /\ turn' = [turn EXCEPT ![a] = "supplier"]
    /\ sheet' = [sheet EXCEPT ![a] = {}]
    /\ UNCHANGED <<blocked, standing>>

\* Handing over seen as one step.
Submit(a) ==
    /\ turn[a] = "supplier" /\ turn' = [turn EXCEPT ![a] = "buyer"]
    /\ \E answers \in CompleteContents : sheet' = [sheet EXCEPT ![a] = {answers}]
    /\ UNCHANGED <<blocked, standing>>

SendBack(a) ==
    /\ turn[a] = "buyer" /\ turn' = [turn EXCEPT ![a] = "supplier"]
    /\ sheet' = [sheet EXCEPT ![a] = {}]
    /\ UNCHANGED <<blocked, standing>>

Block(a) ==
    /\ turn[a] \in {"supplier", "buyer"}
    /\ blocked' = [blocked EXCEPT ![a] = TRUE]
    /\ UNCHANGED <<turn, sheet, standing>>

Unblock(a) ==
    /\ blocked' = [blocked EXCEPT ![a] = FALSE]
    /\ UNCHANGED <<turn, sheet, standing>>

Decide(a, verdict) ==
    /\ turn[a] = "buyer" /\ turn' = [turn EXCEPT ![a] = verdict]
    /\ blocked[a] => verdict = "rejected"
    /\ standing' = [standing EXCEPT ![RelationshipOf[a]] = StandingAfter(verdict)]
    /\ UNCHANGED <<sheet, blocked>>

Next ==
    \E a \in Assessments :
        \/ Present(a) \/ Disturb(a) \/ HandOver(a) \/ TakeBack(a)
        \/ Unblock(a) \/ Block(a) \/ Submit(a) \/ SendBack(a)
        \/ \E verdict \in Verdicts : Decide(a, verdict)

Spec == Init /\ [][Next]_<<turn, sheet, blocked, standing>>

-----------------------------------------------------------------------------
\* What anybody may conclude from it at any time: exactly one set of answers has
\* been handed over when it is not the supplier's turn, no favourable verdict stands
\* beside a critical finding, and a standing is what one of the verdicts made it.
Conclusive ==
    /\ \A a \in Assessments :
          /\ turn[a] \in {"supplier", "buyer"} \union Passing \union Verdicts
          /\ IF turn[a] = "supplier" THEN sheet[a] = {}
             ELSE \E answers \in Contents : sheet[a] = {answers}
          /\ turn[a] \in Verdicts \ {"rejected"} => ~ blocked[a]
    /\ \A r \in Relationships :
          LET decided == {a \in Assessments : RelationshipOf[a] = r /\ turn[a] \in Verdicts}
          IN  IF decided = {} THEN standing[r] = "profile_pending"
              ELSE \E a \in decided : standing[r] = StandingAfter(turn[a])
=============================================================================
