------------------------------ MODULE ReviewDesk ------------------------------
(***************************************************************************)
(* The buyer's pages of one assessment, where a review is started, evidence *)
(* reviewed, findings are raised and the decision is recorded, against the  *)
(* rows the server keeps and everybody else who works on them.              *)
(*                                                                         *)
(* Both pages show one entry of the query cache, loaded in two steps: the   *)
(* assessment first, everything else after it.  A mutation that succeeds    *)
(* invalidates the entry, which cancels a load under way and starts         *)
(* another; one that fails, or whose answer is lost, is only announced.     *)
(* Moving to the other page mounts it anew: its buttons are free again      *)
(* although requests of the first are still under way, and their answers    *)
(* still refresh the entry.  A load that fails replaces either page by an   *)
(* error until one succeeds.                                                *)
(*                                                                         *)
(* The pages have no control that verifies a corrective action or returns   *)
(* an assessment for changes; only a caller of the database functions can.  *)
(***************************************************************************)
EXTENDS Naturals, Sequences

CONSTANTS
    Api,          \* somebody calls the functions that no page calls
    Roles,        \* roles the user of the pages may have
    Severities,   \* severities a finding is raised with
    MaxFindings,  \* bound on the findings
    MaxRequests   \* bound on the user's requests under way at once

ASSUME ReviewAssumption ==
    /\ Api \in BOOLEAN
    /\ Roles \subseteq {"buyer_owner", "buyer_admin", "buyer_reviewer", "buyer_viewer"}
    /\ Severities \subseteq {"low", "medium", "high", "critical"}
    /\ {MaxFindings, MaxRequests} \subseteq Nat

VARIABLES
    status,    \* assessments.status, from the first submission on
    findings,  \* the findings in the order of their numbers
    role,      \* the user's role; a reviewer is the assigned one
    place,     \* the page shown
    failed,    \* the last load failed
    view,      \* the loaded assessment, as the query cache holds it
    fetch,     \* the load under way
    requests,  \* the user's mutations that have not ended
    unseen     \* a mutation was announced as done and is not yet shown

server == <<status, findings>>
cache  == <<failed, view, fetch, unseen>>
vars   == <<server, cache, role, place, requests>>

Kinds == {"start", "review", "finding", "decide"}

Reviews == role \in {"buyer_owner", "buyer_admin", "buyer_reviewer"}
Decides == role = "buyer_owner"

Resolved == {"verified", "closed"}

Slip_UnresolvedCritical(fs) == \E i \in DOMAIN fs : fs[i].severity = "critical"

\* The findings that block a decision on the page.
UnresolvedCritical(fs) ==
    \E i \in DOMAIN fs : fs[i].severity = "critical" /\ fs[i].state \notin Resolved

\* What a request asks for.
Work(kind, arg) == [kind |-> kind, arg |-> arg]

Slip_Accepted(w) ==
    \/ w.kind = "start" /\ status = w.arg /\ status \in {"submitted", "resubmitted"}
    \/ w.kind = "review"
    \/ w.kind = "finding" /\ status \in {"under_review", "changes_requested"}
    \/ w.kind = "decide" /\ status = "under_review"

\* What the database functions accept.
Accepted(w) ==
    \/ w.kind = "start" /\ status = w.arg /\ status \in {"submitted", "resubmitted"}
    \/ w.kind = "review"
    \/ w.kind = "finding" /\ status \in {"under_review", "changes_requested"}
    \/ /\ w.kind = "decide" /\ status = "under_review"
       /\ w.arg = "approved" => ~ UnresolvedCritical(findings)

Authorized(w) == IF w.kind = "decide" THEN role \in {"buyer_owner", "buyer_admin"} ELSE Reviews

StatusAfter(w) ==
    CASE w.kind = "start"  -> "under_review"
      [] w.kind = "decide" -> IF w.arg = "deferred" THEN "changes_requested" ELSE w.arg
      [] OTHER             -> status

\* start_assessment_review, create_assessment_finding and record_approval_decision;
\* the review that record_document_review stores is left to DocumentLifecycle.
Perform(w) ==
    /\ Accepted(w)
    /\ status' = StatusAfter(w)
    /\ IF w.kind = "finding"
       THEN /\ Len(findings) < MaxFindings
            /\ findings' = Append(findings, [severity |-> w.arg, state |-> "response_required"])
       ELSE findings' = findings

Loaded == [status |-> status, findings |-> findings]

\* A load: not under way, sent, or with the assessment read; and whether the
\* mutations announced so far happened before that.
NoFetch == [phase |-> "none", status |-> "submitted", covers |-> FALSE]
Asked   == [NoFetch EXCEPT !.phase = "asked"]

Slip_Restarted == IF fetch = NoFetch THEN Asked ELSE fetch

\* What invalidating the entry makes of the load.
Restarted == Asked

-----------------------------------------------------------------------------
\* A page opened on an assessment that was submitted with one document.
Init ==
    /\ status = "submitted" /\ findings = <<>>
    /\ role \in Roles
    /\ place = "review" /\ failed = FALSE /\ view = Loaded /\ fetch = NoFetch
    /\ requests = {} /\ unseen = FALSE

-----------------------------------------------------------------------------
\* What the pages offer.  The start button looks at the loaded status, the
\* decision at the loaded findings; a finding and a review at neither.
OffersOnReview ==
    (IF view.status \in {"submitted", "resubmitted"} THEN {Work("start", view.status)} ELSE {})
    \union {Work("finding", s) : s \in Severities}
    \union {Work("review", "none")}

OffersOnDecision ==
    IF UnresolvedCritical(view.findings) THEN {}
    ELSE {Work("decide", d) : d \in {"approved", "rejected", "deferred"}}

Offers == IF place = "review" THEN IF Reviews THEN OffersOnReview ELSE {}
          ELSE IF Decides THEN OffersOnDecision ELSE {}

\* A button is disabled while its own request is under way, the review's until
\* the refresh after it has ended too.
Busy(kind) == \E r \in requests : r.work.kind = kind /\ ~ r.orphan

FreeSlots == 1..MaxRequests \ {r.slot : r \in requests}

Click(w) ==
    /\ ~ failed /\ ~ Busy(w.kind)
    /\ FreeSlots # {}
    /\ requests' = requests \union {[slot |-> CHOOSE s \in FreeSlots : TRUE, work |-> w,
                                     phase |-> "sent", orphan |-> FALSE]}
    /\ UNCHANGED <<server, cache, role, place>>

\* The request reaches its function; a refusal is announced and ends it.
Handle(r) ==
    /\ r.phase = "sent"
    /\ \/ /\ Authorized(r.work) /\ Perform(r.work)
          /\ requests' = (requests \ {r}) \union {[r EXCEPT !.phase = "done", !.work.arg = "none"]}
       \/ /\ ~ (Authorized(r.work) /\ Accepted(r.work))
          /\ requests' = requests \ {r}
          /\ UNCHANGED server
    /\ UNCHANGED <<cache, role, place>>

\* Reviews that wait for the refresh; when a load ends or is replaced they have.
Refreshing == {r \in requests : r.phase = "refreshing"}

\* The answer of a success refreshes the entry.
Answer(r) ==
    /\ r.phase = "done"
    /\ requests' = (requests \ ({r} \union Refreshing)) \union
                   (IF r.work.kind = "review" /\ ~ r.orphan
                    THEN {[r EXCEPT !.phase = "refreshing"]} ELSE {})
    /\ fetch' = Restarted
    /\ unseen' = TRUE
    /\ UNCHANGED <<server, role, place, failed, view>>

\* A request that fails on its way there or back is announced as an error.
Lose(r) ==
    /\ r.phase \in {"sent", "done"}
    /\ requests' = requests \ {r}
    /\ UNCHANGED <<server, cache, role, place>>

\* Window focus, a broadcast of another change or the retry button.
Refresh ==
    /\ failed \/ view # Loaded
    /\ fetch = NoFetch /\ fetch' = Asked
    /\ UNCHANGED <<server, role, place, failed, view, requests, unseen>>

\* loadAssessmentWorkspace reads the assessment first ...
ReadAssessment ==
    /\ fetch.phase = "asked"
    /\ fetch' = [phase |-> "read", status |-> status, covers |-> unseen]
    /\ UNCHANGED <<server, role, place, failed, view, requests, unseen>>

\* ... and then documents, findings and the rest.
ReadRest ==
    /\ fetch.phase = "read" /\ fetch' = NoFetch
    /\ view' = [Loaded EXCEPT !.status = fetch.status]
    /\ failed' = FALSE
    /\ unseen' = (unseen /\ ~ fetch.covers)
    /\ requests' = requests \ Refreshing
    /\ UNCHANGED <<server, role, place>>

\* The load fails after its retry.  What invalidates waits no longer.
LoadFails ==
    /\ fetch # NoFetch /\ fetch' = NoFetch
    /\ failed' = TRUE
    /\ requests' = requests \ Refreshing
    /\ UNCHANGED <<server, role, place, view, unseen>>

\* The other page is mounted: it has requests of its own, and it loads the
\* entry again unless that was done within the last 15 seconds.
Navigate ==
    /\ place' = IF place = "review" THEN "decision" ELSE "review"
    /\ requests' = {[r EXCEPT !.orphan = TRUE] : r \in requests \ Refreshing}
    /\ fetch' \in {fetch, IF fetch = NoFetch THEN Asked ELSE fetch}
    /\ UNCHANGED <<server, role, failed, view, unseen>>

-----------------------------------------------------------------------------
\* Everybody else, on pages that are up to date.  The queues list what waits for
\* a review and what may be decided.
InReviewQueue   == status \in {"submitted", "resubmitted", "under_review"}
InDecisionQueue == status \in {"under_review", "approved", "rejected"}

ColleagueReviews ==
    /\ InReviewQueue
    /\ \E w \in {Work("start", status)} \union {Work("finding", s) : s \in Severities} :
          Perform(w)
    /\ UNCHANGED <<cache, role, place, requests>>

ColleagueDecides ==
    /\ InDecisionQueue /\ ~ UnresolvedCritical(findings)
    /\ \E d \in {"approved", "rejected", "deferred"} : Perform(Work("decide", d))
    /\ UNCHANGED <<cache, role, place, requests>>

\* The supplier's finding page offers an answer to what is open or was rejected.
AwaitsResponse(f) == f.state \in {"open", "response_required", "rejected"}

Respond(i) ==
    /\ AwaitsResponse(findings[i])
    /\ findings' = [findings EXCEPT ![i].state = "response_submitted"]
    /\ UNCHANGED <<status, cache, role, place, requests>>

Resubmit ==
    /\ status = "changes_requested"
    /\ status' = "resubmitted"
    /\ UNCHANGED <<findings, cache, role, place, requests>>

\* The functions that no page calls.
Verify(i, outcome) ==
    /\ Api /\ findings[i].state = "response_submitted"
    /\ findings' = [findings EXCEPT ![i].state = outcome]
    /\ UNCHANGED <<status, cache, role, place, requests>>

RequestChanges ==
    /\ Api /\ status = "under_review"
    /\ status' = "changes_requested"
    /\ UNCHANGED <<findings, cache, role, place, requests>>

Handles(kind) == \E r \in requests : r.work.kind = kind /\ Handle(r)
Answers       == \E r \in requests : Answer(r)
Responds      == \E i \in DOMAIN findings : Respond(i)
Verifies(outcome) == \E i \in DOMAIN findings : Verify(i, outcome)

Next ==
    \/ \E w \in Offers : Click(w)
    \/ \E kind \in Kinds : Handles(kind)
    \/ Answers
    \/ \E r \in requests : Lose(r)
    \/ Refresh \/ ReadAssessment \/ ReadRest \/ LoadFails \/ Navigate
    \/ ColleagueReviews \/ ColleagueDecides
    \/ Responds \/ Resubmit
    \/ \E outcome \in {"verified", "rejected"} : Verifies(outcome)
    \/ RequestChanges

\* Loads are short beside what people do: however often one is started again,
\* one comes through in the end.  Of people it is assumed that a supplier who may
\* answer a finding, a caller who may verify the answer and a colleague who may
\* decide do so in the end.
Spec ==
    /\ Init /\ [][Next]_vars
    /\ SF_vars(ReadAssessment) /\ SF_vars(ReadRest)
    /\ SF_vars(Responds) /\ SF_vars(Verifies("verified")) /\ SF_vars(ColleagueDecides)

\* The user of the pages does what can be done to end a review: loads what is
\* new, decides when the page offers it, and requests are not lost for ever.
Decision == \E w \in Offers : w.kind = "decide" /\ Click(w)

DiligentSpec ==
    /\ Spec /\ SF_vars(Refresh) /\ SF_vars(Decision) /\ WF_vars(Answers)
    /\ \A kind \in Kinds : SF_vars(Handles(kind))

-----------------------------------------------------------------------------
Statuses == {"submitted", "under_review", "changes_requested", "resubmitted",
             "approved", "rejected"}
Findings == [severity : Severities,
             state : {"response_required", "response_submitted", "rejected", "verified"}]

\* What the pages can ask for.
Works == {Work("start", s) : s \in {"submitted", "resubmitted"}} \union {Work("review", "none")}
         \union {Work("finding", s) : s \in Severities}
         \union {Work("decide", d) : d \in {"approved", "rejected", "deferred"}}

Requests == [slot : 1..MaxRequests, work : [kind : Kinds, arg : {w.arg : w \in Works}],
             phase : {"sent", "done", "refreshing"}, orphan : BOOLEAN]

TypeOK ==
    /\ status \in Statuses /\ findings \in Seq(Findings)
    /\ role \in Roles /\ place \in {"review", "decision"}
    /\ failed \in BOOLEAN /\ unseen \in BOOLEAN
    /\ view \in [status : Statuses, findings : Seq(Findings)]
    /\ fetch \in [phase : {"none", "asked", "read"}, status : Statuses, covers : BOOLEAN]
    /\ requests \subseteq Requests
    /\ \A r \in requests : r.phase = "sent" => r.work \in Works

-----------------------------------------------------------------------------
(* What both sides may rely on                                             *)

Turn == CASE status \in {"submitted", "resubmitted", "under_review"} -> "buyer"
          [] status = "changes_requested" -> "supplier"
          [] OTHER -> status

TheTurn     == [a \in {"assessment"} |-> Turn]
TheSheet    == [a \in {"assessment"} |-> IF Turn = "supplier" THEN {} ELSE {"answers"}]
TheBlock    == [a \in {"assessment"} |-> UnresolvedCritical(findings)]
TheStanding == [r \in {"relationship"} |->
                   CASE status = "approved" -> "qualified"
                     [] status = "rejected" -> "rejected"
                     [] OTHER -> "profile_pending"]

Promise == INSTANCE Qualification WITH
    Relationships    <- {"relationship"},
    Assessments      <- {"assessment"},
    RelationshipOf   <- [a \in {"assessment"} |-> "relationship"],
    Contents         <- {"answers"},
    CompleteContents <- {"answers"},
    turn     <- TheTurn,
    sheet    <- TheSheet,
    blocked  <- TheBlock,
    standing <- TheStanding

\* However old what the pages show is when a button is pressed, and whatever is
\* raised, answered and verified while the request is on its way, the turns are
\* those of Qualification: one verdict, none favourable over a critical finding,
\* and none raised after it.
KeepsThePromise == [][Promise!Next]_<<TheTurn, TheSheet, TheBlock, TheStanding>>

\* What was announced as done and is not shown yet is on its way: a load that
\* began before the announcement does not count, and the pages say so when the
\* one after it failed.
AnnouncedIsUnderWay == unseen => fetch # NoFetch \/ failed

\* What the user was told is done is shown by the pages: no load that began
\* before a mutation was announced is the last one after it, unless the pages
\* say that they could not load.
OwnActionsAppear == unseen ~> ~ unseen \/ failed

\* A review comes to an end: whatever is raised in it can be answered, verified
\* and decided.
ReviewsEnd == status = "under_review" ~> status # "under_review"
=============================================================================
