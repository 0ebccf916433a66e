----------------------------- MODULE EdgeFunctions -----------------------------
(***************************************************************************)
(* The edge functions between the browser and the database, and a user who *)
(* presses the button again.                                               *)
(*                                                                         *)
(* Every function runs the same pipeline: it reads a JSON body of bounded  *)
(* size, parses its fields in a fixed order, and only then looks for a     *)
(* user; a request is refused at the first check that fails.  What passes  *)
(* calls one database function, which commits or raises; its error code    *)
(* becomes the status of the answer.  Two functions do more: the upload    *)
(* function asserts the path of the reservation it has just committed and  *)
(* signs it, and the finalize function verifies the stored object against  *)
(* the reservation before it calls the database.                           *)
(*                                                                         *)
(* Between the commit and the user two answers can be lost: the database's *)
(* (the function then says 500) and the function's own.  Nothing in a      *)
(* request identifies an earlier attempt of it: what a repetition does is  *)
(* decided by the database's state alone.                                  *)
(*                                                                         *)
(* One buyer, one supplier, one invited address, one assessment and one    *)
(* required document; every finding is critical.  Field contents, limits   *)
(* and patterns are abstract: a request names the checks it fails.         *)
(***************************************************************************)
EXTENDS Naturals, Sequences, TLC

CONSTANTS
    Suppliers, Buyers,  \* users: owners of their organization
    Flaws,              \* sets of checks a request may fail
    MaxPresses,         \* bound on requests sent
    MaxFaults           \* bound on lost answers and failures to sign

ASSUME EdgeAssumption ==
    /\ Suppliers \cap Buyers = {}
    /\ \A flaws \in Flaws : flaws \subseteq STRING
    /\ MaxPresses \in Nat /\ MaxFaults \in Nat

Callers == Suppliers \union Buyers

VARIABLES
    serial,     \* number of invitations created, the last one's token
    invitation, \* the last invitation: none, pending or accepted
    pair,       \* the relationship of the two organizations exists
    versions,   \* the document's versions: [state, object]
    assessment, \* status of the assessment
    findings,   \* statuses of its findings
    decisions, reports, \* decisions recorded, report jobs queued
    shown,      \* tokens some buyer has seen
    grants,     \* versions whose signed upload URL a user holds
    call,       \* per user: where the request is
    wish,       \* per user: the request that is sent and sent again
    told,       \* per user: status of the last answer, or Lost
    blind,      \* the wish had an attempt whose outcome the user cannot know
    effects,    \* how often the wish has been committed
    reopened,   \* another's step made the wish's record ready for it again
    presses, faults

data == <<serial, invitation, pair, versions, assessment, findings, decisions, reports>>
user == <<wish, told, blind, effects>>
vars == <<data, shown, grants, call, user, reopened, presses, faults>>

Nothing == 0
Lost    == 1

Functions ==
    {"create-supplier-invitation", "accept-supplier-invitation", "create-document-upload",
     "finalize-document-upload", "submit-assessment", "create-finding",
     "submit-corrective-action", "record-approval-decision", "get-signed-document-url",
     "generate-assessment-report"}

\* Functions whose database function adds a record every time.
Adding == {"create-supplier-invitation", "create-document-upload", "create-finding",
           "generate-assessment-report"}

NoWish == [fn |-> "none", flaws |-> {}, target |-> 0, kind |-> "plain"]
-----------------------------------------------------------------------------
\* The order in which the functions' parsers look at their fields.
InvitationFields ==
    "create-supplier-invitation" :>
        <<"buyer_organization_id", "intended_supplier_name", "invited_email", "expires_in_hours">> @@
    "accept-supplier-invitation" :>
        <<"supplier_organization_id", "new_supplier", "selection", "slug", "legal_name",
          "display_name", "country_code", "invitation_token">>

EvidenceFields ==
    "create-document-upload" :>
        <<"original_filename", "filename", "mime_type", "extension", "issue_date", "expiry_date",
          "date_range", "assessment_id", "supplier_relationship_id", "document_requirement_id",
          "document_type", "byte_size", "sha256_hash", "issuing_body">> @@
    "finalize-document-upload" :> <<"document_version_id">>

ReviewFields ==
    "submit-assessment" :> <<"assessment_id", "supplier_declaration">> @@
    "create-finding" :>
        <<"due_at", "assessment_id", "severity", "category", "title", "description",
          "internal_note", "assigned_supplier_user_id">> @@
    "submit-corrective-action" :>
        <<"finding_id", "root_cause", "correction", "preventive_action", "target_completion_date">> @@
    "record-approval-decision" :>
        <<"effective_from", "valid_until", "date_range", "decision", "conditions",
          "assessment_id", "internal_rationale">>

Fields ==
    InvitationFields @@ EvidenceFields @@ ReviewFields
    @@ "get-signed-document-url" :> <<"document_version_id", "expires_in_seconds">>
    @@ "generate-assessment-report" :> <<"assessment_id">>

ReadBody    == <<"method", "media_type", "size", "body", "json", "object">>
RequireUser == <<"bearer", "user">>

\* handleRequest, readJson and the parser come before the user.
Checks == [fn \in Functions |->
    ReadBody \o Fields[fn] \o RequireUser
    \o IF fn = "accept-supplier-invitation" THEN <<"token_format">> ELSE <<>>]

Status(check) ==
    CASE check = "method" -> 405
      [] check = "media_type" -> 415
      [] check = "size" -> 413
      [] check \in {"body", "json"} -> 400
      [] check \in {"bearer", "user"} -> 401
      [] check = "token_format" -> 409
      [] OTHER -> 422

\* The status of the first check that fails, Nothing when all pass.
Refusal == [r \in Functions \X Flaws |->
    LET checks  == Checks[r[1]]
        failing == {i \in DOMAIN checks : checks[i] \in r[2]} IN
    IF failing = {} THEN Nothing
    ELSE Status(checks[CHOOSE i \in failing : \A j \in failing : i <= j])]

FromDatabaseError(code) ==
    CASE code = "42501" -> 403
      [] code = "P0002" -> 404
      [] code \in {"23505", "23503", "P0001"} -> 409
      [] code \in {"22023", "23514"} -> 422
      [] OTHER -> 500

Slip_ErrorStatus(fn, code) ==
    IF fn = "accept-supplier-invitation" THEN 409 ELSE FromDatabaseError(code)

\* The acceptance hides why it was refused.
ErrorStatus(fn, code) ==
    IF fn = "accept-supplier-invitation" /\ FromDatabaseError(code) < 500
    THEN 409 ELSE FromDatabaseError(code)

Success(fn) ==
    CASE fn \in {"accept-supplier-invitation", "submit-assessment", "get-signed-document-url"} -> 200
      [] fn \in {"finalize-document-upload", "generate-assessment-report"} -> 202
      [] OTHER -> 201
-----------------------------------------------------------------------------
Slip_Editable == assessment # "under_review"

Editable == assessment \in {"in_progress", "changes_requested"}

Slip_AwaitsResponse(i) == findings[i] # "verified"

AwaitsResponse(i) == findings[i] = "response_required"

\* The outcome of the database function: "ok" or the code it raises.
Verdict(c, q) ==
    CASE q.fn = "create-supplier-invitation" ->
            IF c \notin Buyers THEN "42501" ELSE IF "rule" \in q.flaws THEN "23514" ELSE "ok"
      [] q.fn = "accept-supplier-invitation" ->
            IF invitation # "pending" \/ q.target # serial THEN "22023"
            ELSE IF c \notin Suppliers THEN "42501"
            ELSE IF pair THEN "23505" ELSE "ok"
      [] q.fn = "create-document-upload" ->
            IF c \notin Suppliers \/ ~ Editable THEN "42501"
            ELSE IF "rule" \in q.flaws THEN "22023" ELSE "ok"
      [] q.fn = "finalize-document-upload" ->
            IF q.target \notin DOMAIN versions THEN "P0002"
            ELSE IF versions[q.target].state # "pending" THEN "22023" ELSE "ok"
      [] q.fn = "submit-assessment" ->
            IF c \notin Suppliers \/ ~ Editable THEN "42501"
            ELSE IF "rule" \in q.flaws THEN "23514" ELSE "ok"
      [] q.fn = "create-finding" ->
            IF c \notin Buyers THEN "42501"
            ELSE IF assessment \notin {"under_review", "changes_requested"} \/ "rule" \in q.flaws
                 THEN "22023" ELSE "ok"
      [] q.fn = "submit-corrective-action" ->
            IF q.target \notin DOMAIN findings THEN "P0002"
            ELSE IF c \notin Suppliers THEN "42501"
            ELSE IF ~ AwaitsResponse(q.target) \/ "rule" \in q.flaws
                 THEN "22023" ELSE "ok"
      [] q.fn = "record-approval-decision" ->
            IF c \notin Buyers THEN "42501"
            ELSE IF assessment # "under_review" THEN "22023"
            ELSE IF q.kind = "approved" /\ \E i \in DOMAIN findings : findings[i] # "verified"
                 THEN "23514" ELSE "ok"
      [] q.fn = "generate-assessment-report" ->
            IF c \notin Buyers THEN "42501" ELSE "ok"
      [] OTHER -> "ok"

\* The record a request adds: its token or its version.
Created(q) ==
    CASE q.fn = "create-supplier-invitation" -> serial + 1
      [] q.fn = "create-document-upload" -> Len(versions) + 1
      [] OTHER -> 0

\* What the database function commits.
Effect(q) ==
    /\ serial' = IF q.fn = "create-supplier-invitation" THEN serial + 1 ELSE serial
    /\ invitation' = CASE q.fn = "create-supplier-invitation" -> "pending"
                       [] q.fn = "accept-supplier-invitation" -> "accepted"
                       [] OTHER -> invitation
    /\ pair' = (pair \/ q.fn = "accept-supplier-invitation")
    /\ versions' = CASE q.fn = "create-document-upload" ->
                           Append(versions, [state |-> "pending", object |-> "absent"])
                     [] q.fn = "finalize-document-upload" ->
                           [versions EXCEPT ![q.target].state = "uploaded"]
                     [] OTHER -> versions
    /\ assessment' = CASE q.fn = "submit-assessment" -> "submitted"
                       [] q.fn = "record-approval-decision" ->
                             IF q.kind = "approved" THEN "approved" ELSE "changes_requested"
                       [] OTHER -> assessment
    /\ findings' = CASE q.fn = "create-finding" -> Append(findings, "response_required")
                     [] q.fn = "submit-corrective-action" ->
                           [findings EXCEPT ![q.target] = "response_submitted"]
                     [] OTHER -> findings
    /\ decisions' = IF q.fn = "record-approval-decision" THEN decisions + 1 ELSE decisions
    /\ reports' = IF q.fn \in {"generate-assessment-report", "record-approval-decision"} THEN reports + 1 ELSE reports
-----------------------------------------------------------------------------
NoCall == [phase |-> "idle", reply |-> Nothing, result |-> 0]

Idle(c)      == call[c].phase = "idle"
Ready(c)     == wish[c] # NoWish /\ Verdict(c, wish[c]) = "ok"
Target(c)    == wish[c].target
Answer(c, s) == call' = [call EXCEPT ![c] = [@ EXCEPT !.phase = "answering", !.reply = s]]
NextPhase(c, p) == call' = [call EXCEPT ![c].phase = p]

\* A step on the data may make a record ready again for what a user did to it.
Reopening == reopened' = [c \in Callers |-> reopened[c] \/ (effects[c] > 0 /\ ~ Ready(c) /\ Ready(c)')]

Init ==
    /\ serial = 0 /\ invitation = "none" /\ pair = FALSE
    /\ versions = <<>> /\ findings = <<>>
    /\ assessment \in {"in_progress", "under_review"}
    /\ decisions = 0 /\ reports = 0 /\ shown = {} /\ grants = {}
    /\ call = [c \in Callers |-> NoCall]
    /\ wish = [c \in Callers |-> NoWish] /\ told = [c \in Callers |-> Nothing]
    /\ blind = [c \in Callers |-> FALSE] /\ effects = [c \in Callers |-> 0]
    /\ reopened = [c \in Callers |-> FALSE]
    /\ presses = 0 /\ faults = 0

Targets(fn) ==
    CASE fn = "accept-supplier-invitation" -> shown
      [] fn \in {"finalize-document-upload", "get-signed-document-url"} -> DOMAIN versions \union {0}
      [] fn = "submit-corrective-action" -> DOMAIN findings \union {0}
      [] OTHER -> {0}

Kinds(fn) ==
    CASE fn = "create-document-upload" -> {"plain", "odd_name"}
      [] fn = "record-approval-decision" -> {"approved", "deferred"}
      [] OTHER -> {"plain"}

\* The request is sent and passes the pipeline.
Send(c) ==
    /\ presses < MaxPresses /\ presses' = presses + 1
    /\ NextPhase(c, "sent")
    /\ told' = [told EXCEPT ![c] = Nothing]
    /\ UNCHANGED <<data, shown, grants, faults>>

\* Functions with rules only the database knows: accepted types and validity of
\* a requirement, completeness, dates in the past, assignees, short names.
Ruled == {"create-supplier-invitation", "create-document-upload", "submit-assessment",
          "create-finding", "submit-corrective-action"}

Flawable == [fn \in Functions |->
    {Checks[fn][i] : i \in DOMAIN Checks[fn]} \union IF fn \in Ruled THEN {"rule"} ELSE {}]

Passing   == {r \in Functions \X Flaws : r[2] \subseteq Flawable[r[1]] /\ Refusal[r] = Nothing}
Rejections == {Refusal[r] : r \in Functions \X Flaws} \ {Nothing}

\* A button is pressed for something new.
Press(c) ==
    /\ Idle(c) /\ Send(c)
    /\ \E r \in Passing : \E target \in Targets(r[1]), kind \in Kinds(r[1]) :
          wish' = [wish EXCEPT ![c] =
                      [fn |-> r[1], flaws |-> r[2], target |-> target, kind |-> kind]]
    /\ blind' = [blind EXCEPT ![c] = FALSE]
    /\ effects' = [effects EXCEPT ![c] = 0] /\ reopened' = [reopened EXCEPT ![c] = FALSE]

\* A request the pipeline refuses touches no data and is answered at once.
Reject(c) ==
    /\ Idle(c) /\ wish[c] = NoWish
    /\ \E status \in Rejections : told' = [told EXCEPT ![c] = status]
    /\ UNCHANGED <<data, shown, grants, call, wish, blind, effects, reopened, presses, faults>>

\* invokeEdgeFunction threw; the form is still there and is sent again.
PressAgain(c) ==
    /\ Idle(c) /\ wish[c] # NoWish
    /\ told[c] = Lost \/ told[c] >= 400
    /\ Send(c)
    /\ UNCHANGED <<wish, blind, effects, reopened>>

\* verifyDocumentBlob: size, type and digest are those of the reservation.
Verified(v) == versions[v].object = "promised"

\* finalize-document-upload looks the version up and verifies its object.
Verify(c) ==
    /\ call[c].phase = "sent" /\ wish[c].fn = "finalize-document-upload"
    /\ IF Target(c) \notin DOMAIN versions THEN Answer(c, 404)
       ELSE IF versions[Target(c)].state # "pending" THEN Answer(c, 409)
       ELSE IF ~ Verified(Target(c)) THEN Answer(c, 422)
       ELSE NextPhase(c, "verified")
    /\ UNCHANGED <<data, shown, grants, user, reopened, presses, faults>>

\* get-signed-document-url reads a version that is not pending and signs.
SignDownload(c) ==
    /\ call[c].phase = "sent" /\ wish[c].fn = "get-signed-document-url"
    /\ IF Target(c) \notin DOMAIN versions THEN Answer(c, 404) /\ UNCHANGED faults
       ELSE IF versions[Target(c)].state = "pending" THEN Answer(c, 409) /\ UNCHANGED faults
       ELSE \/ Answer(c, 200) /\ UNCHANGED faults
            \/ Answer(c, 500) /\ faults < MaxFaults /\ faults' = faults + 1
    /\ UNCHANGED <<data, shown, grants, user, reopened, presses>>

AtDatabase(c) ==
    \/ call[c].phase = "verified"
    \/ /\ call[c].phase = "sent"
       /\ wish[c].fn \notin {"finalize-document-upload", "get-signed-document-url"}

Refused(c) ==
    /\ AtDatabase(c) /\ ~ Ready(c)
    /\ Answer(c, ErrorStatus(wish[c].fn, Verdict(c, wish[c])))
    /\ UNCHANGED <<data, shown, grants, user, reopened, presses, faults>>

\* The database commits; its answer may be lost on the way to the function.
Committed(c) ==
    /\ AtDatabase(c) /\ Ready(c)
    /\ Effect(wish[c])
    /\ effects' = [effects EXCEPT ![c] = @ + 1]
    /\ \/ /\ call' = [call EXCEPT ![c] =
                  [phase |-> IF wish[c].fn = "create-document-upload" THEN "reserved" ELSE "answering",
                   reply |-> Success(wish[c].fn), result |-> Created(wish[c])]]
          /\ UNCHANGED faults
       \/ /\ faults < MaxFaults /\ faults' = faults + 1
          /\ Answer(c, ErrorStatus(wish[c].fn, "none"))
    /\ UNCHANGED <<shown, grants, wish, told, blind, presses>>
    /\ Reopening

\* create-document-upload: the path of the reservation is asserted and signed.
SignUpload(c) ==
    /\ call[c].phase = "reserved"
    /\ IF wish[c].kind = "odd_name" THEN Answer(c, 500) /\ UNCHANGED faults
       ELSE \/ Answer(c, 201) /\ UNCHANGED faults
            \/ Answer(c, 500) /\ faults < MaxFaults /\ faults' = faults + 1
    /\ UNCHANGED <<data, shown, grants, user, reopened, presses>>

\* The answer reaches the user.  An invitation's token is in no other place.
Answered(c) ==
    /\ call[c].phase = "answering"
    /\ call' = [call EXCEPT ![c] = NoCall]
    /\ told' = [told EXCEPT ![c] = call[c].reply]
    /\ blind' = [blind EXCEPT ![c] = @ \/ call[c].reply >= 500]
    /\ shown' = IF wish[c].fn = "create-supplier-invitation" /\ call[c].reply = 201
                THEN shown \union {call[c].result} ELSE shown
    /\ grants' = IF wish[c].fn = "create-document-upload" /\ call[c].reply = 201
                 THEN grants \union {call[c].result} ELSE grants
    /\ UNCHANGED <<data, wish, effects, reopened, presses, faults>>

AnswerLost(c) ==
    /\ call[c].phase = "answering"
    /\ faults < MaxFaults /\ faults' = faults + 1
    /\ call' = [call EXCEPT ![c] = NoCall]
    /\ told' = [told EXCEPT ![c] = Lost] /\ blind' = [blind EXCEPT ![c] = TRUE]
    /\ UNCHANGED <<data, shown, grants, wish, effects, reopened, presses>>

\* uploadSupplierDocument stores the file once per reservation, never over an
\* object; what is stored may not be what was measured.
Put(v, object) ==
    /\ v \in grants /\ grants' = grants \ {v}
    /\ versions' = IF versions[v].object = "absent"
                   THEN [versions EXCEPT ![v].object = object] ELSE versions
    /\ UNCHANGED <<serial, invitation, pair, assessment, findings, decisions, reports,
                   shown, call, user, presses, faults>>
    /\ Reopening

\* Review steps the browser takes without an edge function.
Others ==
    /\ \/ /\ assessment = "submitted" /\ assessment' = "under_review"
          /\ UNCHANGED findings
       \/ /\ assessment = "under_review" /\ assessment' = "changes_requested"
          /\ UNCHANGED findings
       \/ \E i \in DOMAIN findings, status \in {"verified", "response_required"} :
             /\ findings[i] = "response_submitted"
             /\ findings' = [findings EXCEPT ![i] = status]
             /\ UNCHANGED assessment
    /\ UNCHANGED <<serial, invitation, pair, versions, decisions, reports,
                   shown, grants, call, user, presses, faults>>
    /\ Reopening

Next ==
    \/ \E c \in Callers :
          \/ Press(c) \/ Reject(c) \/ PressAgain(c) \/ Verify(c) \/ SignDownload(c) \/ Refused(c) \/ Committed(c)
          \/ SignUpload(c) \/ Answered(c) \/ AnswerLost(c)
    \/ \E v \in grants, object \in {"promised", "other"} : Put(v, object)
    \/ Others

Spec == Init /\ [][Next]_vars
-----------------------------------------------------------------------------
Versions == [state : {"pending", "uploaded"}, object : {"absent", "promised", "other"}]

FindingStatuses == {"response_required", "response_submitted", "verified"}

Requests ==
    [fn : Functions \union {"none"}, flaws : Flaws \union {{}}, target : Nat, kind : {"plain", "odd_name", "approved", "deferred"}]

Statuses == {200, 201, 202, 400, 401, 403, 404, 405, 409, 413, 415, 422, 500}

Calls ==
    [phase : {"idle", "sent", "verified", "reserved", "answering"}, reply : Statuses \union {Nothing}, result : Nat]

\* Every status a user is told is one the functions document; every phase and
\* every record is one of those described above; tokens and grants are those of
\* invitations and versions that exist.
TypeOK ==
    /\ serial \in Nat /\ invitation \in {"none", "pending", "accepted"} /\ pair \in BOOLEAN
    /\ versions \in Seq(Versions) /\ findings \in Seq(FindingStatuses)
    /\ assessment \in {"in_progress", "submitted", "under_review", "changes_requested", "approved"}
    /\ decisions \in Nat /\ reports \in Nat
    /\ shown \subseteq 1 .. serial /\ grants \subseteq DOMAIN versions
    /\ call \in [Callers -> Calls] /\ wish \in [Callers -> Requests]
    /\ told \in [Callers -> Statuses \union {Nothing, Lost}]
    /\ blind \in [Callers -> BOOLEAN] /\ effects \in [Callers -> Nat]
    /\ reopened \in [Callers -> BOOLEAN]
    /\ presses \in 0 .. MaxPresses /\ faults \in 0 .. MaxFaults

\* What a user concludes from the last answer is so, however often the request
\* was repeated: a success means that it was committed (and that the evidence it
\* speaks of is the file that was promised), a refusal, when no attempt ended in
\* the dark, that it was not.
BeliefIsJustified ==
    \A c \in Callers :
        LET told_ok == told[c] \in 200 .. 299 IN
        Idle(c) =>
            /\ told_ok /\ wish[c].fn # "get-signed-document-url" => effects[c] > 0
            /\ told_ok /\ wish[c].fn = "finalize-document-upload" =>
                  versions[Target(c)] = [state |-> "uploaded", object |-> "promised"]
            /\ told[c] \in 400 .. 499 /\ ~ blind[c] => effects[c] = 0

\* A request that does not add a record is committed a second time only when
\* somebody else has made its record ready for it again: pressing the button
\* after a lost answer repeats nothing.
RepeatsAreSafe ==
    \A c \in Callers :
        effects[c] > 1 /\ wish[c].fn \notin Adding => reopened[c]

-----------------------------------------------------------------------------
(* What the calls amount to                                                *)

Turn == CASE assessment \in {"submitted", "under_review"} -> "buyer"
          [] Editable -> "supplier"
          [] assessment = "approved" -> "approved"

Blocked == \E i \in DOMAIN findings : findings[i] # "verified"

TheTurn     == [a \in {"assessment"} |-> Turn]
TheSheet    == [a \in {"assessment"} |-> IF Turn = "supplier" THEN {} ELSE {"answers"}]
TheBlock    == [a \in {"assessment"} |-> Blocked]
TheStanding == [r \in {"relationship"} |->
                   IF assessment = "approved" THEN "qualified" ELSE "profile_pending"]

Promise == INSTANCE Qualification WITH
    Relationships    <- {"relationship"},
    Assessments      <- {"assessment"},
    RelationshipOf   <- [a \in {"assessment"} |-> "relationship"],
    Contents         <- {"answers"},
    CompleteContents <- {"answers"},
    turn     <- TheTurn,
    sheet    <- TheSheet,
    blocked  <- TheBlock,
    standing <- TheStanding

\* Requests sent again after lost answers, by both sides at once, are the turns
\* of Qualification: a repeated submission hands nothing over twice, a repeated
\* decision decides nothing twice, none is favourable while a finding is open
\* and nothing is opened after it.
KeepsThePromise == [][Promise!Next]_<<TheTurn, TheSheet, TheBlock, TheStanding>>
=============================================================================
