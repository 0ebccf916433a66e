----------------------------- MODULE SupplierDesk -----------------------------
(***************************************************************************)
(* The page on which a supplier answers an assessment, against the rows    *)
(* the server keeps and the colleagues who answer it elsewhere.            *)
(*                                                                         *)
(* A field keeps its own value: it is initialised from the loaded          *)
(* responses when it is mounted and never again.  A change starts a timer  *)
(* (700 ms) that every further change restarts; when it ends the value is  *)
(* upserted.  Nothing waits for an earlier save, so that saves of a field  *)
(* may be stored in any order.  A stored save invalidates the loaded data  *)
(* and is shown as saved when the reload has ended.  A reload reads the    *)
(* assessment first and everything else after it; a reload that fails      *)
(* replaces the page by an error and unmounts the fields, and so does      *)
(* leaving the page: their timers are gone, their saves go on.             *)
(*                                                                         *)
(* A save is an upsert: its policy and trigger read the status without a   *)
(* lock and let it through, and it commits whatever happened in between.   *)
(* submit_assessment takes the lock of the assessment and counts what is   *)
(* required; then it counts the answers and the evidence; then it copies   *)
(* the rows.  The commits that each step sees may be different ones.       *)
(*                                                                         *)
(* Questions are single or multiple selections.  Their types differ in     *)
(* what can be stored: no answer is null, which the response trigger       *)
(* refuses, and a multiple selection is sent as the ids of its options,    *)
(* which the trigger compares with the option's values and refuses too,    *)
(* unless it is empty.                                                     *)
(***************************************************************************)
EXTENDS Naturals, Sequences, FiniteSets

CONSTANTS
    Questions,      \* required questions
    Gate,           \* the question whose answer "yes" shows a question, or Always
    Always,
    MultiSelects,   \* questions of type multi_select
    Roles,          \* roles the user of the page may have
    EarlierRows,    \* rows earlier sessions may have left
    MaxEdits,       \* bound on the changes, the colleagues' included
    MaxFaults,      \* bound on failed reloads, lost saves and page changes
    MaxSubmissions  \* bound on the submissions

\* What a row can hold: nothing the triggers refuse (Storable, below).
RowAnswers(q) == {"absent"} \union (IF q \in MultiSelects THEN {"none"} ELSE {"yes", "no"})
Rows == {r \in [Questions -> {"absent", "yes", "no", "none"}] : \A q \in Questions : r[q] \in RowAnswers(q)}

ASSUME DeskAssumption ==
    /\ IsFiniteSet(Questions)
    /\ MultiSelects \subseteq Questions
    /\ EarlierRows \subseteq Rows
    /\ Gate \in [Questions -> Questions \union {Always}]
    /\ Roles \subseteq {"supplier_owner", "supplier_admin", "supplier_contributor", "supplier_viewer"}
    /\ MaxEdits \in Nat /\ MaxFaults \in Nat /\ MaxSubmissions \in Nat \ {0}

VARIABLES
    status,     \* assessments.status: "editable" for the three editable ones
    rows,       \* assessment_responses: the answer, or "absent"
    evidence,   \* the required document: absent, unready (processed or rejected) or ready
    snapshots,  \* the submissions: the rows they copied
    tx,         \* the transaction of submit_assessment that holds the lock
    others,     \* writes let through that answer no field here: a colleague's, a lost one
    overtaken,  \* questions whose row was committed beside a submission or after it
    role,       \* the user's role in the supplier organization
    page,       \* "shown", "away" or "error"
    view,       \* the loaded assessment, as the query cache holds it
    fetch,      \* the reload under way
    field,      \* the value a question's field shows
    timers,     \* the questions whose timer runs
    label,      \* per question: idle, saving, saved or error
    saves,      \* requests to save that have not ended
    declared,   \* the declaration is long enough
    dialog,     \* the submit dialog is open
    submission, \* the submit request: none, sent, accepted, refused
    edits, faults,
    disturbed   \* fields whose row something but their own last save decided

server == <<status, rows, evidence, snapshots, tx, others, overtaken>>
form   == <<field, timers, label, saves>>
vars   == <<server, form, role, page, view, fetch, declared, dialog, submission,
            edits, faults, disturbed>>

Answers(q) == IF q \in MultiSelects THEN {"none", "picked"} ELSE {"blank", "yes", "no"}

\* The value a field starts with.
FieldOf(q, row) ==
    IF row # "absent" THEN row ELSE IF q \in MultiSelects THEN "none" ELSE "blank"

Slip_Draft(value) ==
    IF value = "blank" THEN "absent" ELSE IF value = "picked" THEN "none" ELSE value

\* The column sent: no answer is null, an empty list is a list.
Draft(value) == IF value = "blank" THEN "absent" ELSE value

\* "exactly one response value is required", and of a selection only values of
\* the question's options.
Storable(draft) == draft \notin {"absent", "picked"}

Contributes == role # "supplier_viewer"
Signs       == role \in {"supplier_owner", "supplier_admin"}

Visible(q, r) == Gate[q] = Always \/ r[Gate[q]] = "yes"

Slip_Required(r) == {q \in Questions : Gate[q] = Always}

\* What submit_assessment counts: the visible questions and their answers.
Required(r) == {q \in Questions : Visible(q, r)}
Answered(r) == {q \in Required(r) : r[q] # "absent"}

HasResponse(v, q) == v.rows[q] # "absent"

Slip_ClientComplete(v) ==
    /\ \A q \in Questions : Visible(q, v.rows) => HasResponse(v, q)
    /\ v.uploaded

\* validateAssessmentCompletion: every question, shown or not, and a document in
\* any state.  Its test for "rejected" reads the status of the document, which
\* is never that; the status of the version is.
ClientComplete(v) ==
    /\ \A q \in Questions : HasResponse(v, q)
    /\ v.uploaded

InFlight(q) == {s \in saves : s.question = q /\ ~ s.orphan}
Quiet(q)    == q \notin timers /\ InFlight(q) = {}

Loaded == [status |-> status, turn |-> Len(snapshots), rows |-> rows,
           uploaded |-> evidence # "absent"]

\* A reload: not under way, sent, or with the status of the assessment read.
NoFetch == [phase |-> "none", status |-> "editable", turn |-> 0]
Asked   == [NoFetch EXCEPT !.phase = "asked"]

\* No submission under way: nobody holds the row lock of the assessment.
NoTx == [by |-> "nobody", step |-> "none", required |-> 0]

-----------------------------------------------------------------------------
\* The page was loaded on a new assessment or on one already worked on.
Init ==
    /\ status = "editable" /\ rows \in EarlierRows
    /\ evidence = "absent" /\ snapshots = <<>>
    /\ tx = NoTx /\ others = {} /\ overtaken = {}
    /\ role \in Roles
    /\ page = "shown" /\ view = Loaded /\ fetch = NoFetch
    /\ field = [q \in Questions |-> FieldOf(q, rows[q])]
    /\ timers = {} /\ label = [q \in Questions |-> "idle"] /\ saves = {}
    /\ declared = FALSE /\ dialog = FALSE /\ submission = "none"
    /\ edits = 0 /\ faults = 0 /\ disturbed = {}

\* The controls of the page are disabled otherwise.
Editable == page = "shown" /\ view.status = "editable" /\ Contributes

Slip_Edit(q, value) ==
    /\ Editable /\ value # field[q]
    /\ edits < MaxEdits /\ edits' = edits + 1
    /\ field' = [field EXCEPT ![q] = value]
    /\ timers' = IF label[q] = "saving" THEN timers ELSE timers \union {q}
    /\ UNCHANGED <<server, label, saves, role, page, view, fetch, declared, dialog,
                   submission, faults, disturbed>>

\* A change in a control restarts the field's timer.
Edit(q, value) ==
    /\ Editable /\ value # field[q]
    /\ edits < MaxEdits /\ edits' = edits + 1
    /\ field' = [field EXCEPT ![q] = value]
    /\ timers' = timers \union {q}
    /\ UNCHANGED <<server, label, saves, role, page, view, fetch, declared, dialog,
                   submission, faults, disturbed>>

\* The timer ends, also in a field that has been disabled since.
TimerFires(q) ==
    /\ q \in timers
    /\ timers' = timers \ {q}
    /\ saves' = saves \union {[question |-> q, value |-> field[q], edit |-> edits,
                               phase |-> "sent", orphan |-> FALSE]}
    /\ label' = [label EXCEPT ![q] = "saving"]
    /\ disturbed' = IF InFlight(q) # {} THEN disturbed \union {q} ELSE disturbed
    /\ UNCHANGED <<server, field, role, page, view, fetch, declared, dialog, submission,
                   edits, faults>>

\* The lock trigger, the response trigger and the policies on assessment_responses.
Accepts(value) == status = "editable" /\ Storable(Draft(value))

\* The upsert is let through ...
CheckSave(s) ==
    /\ s.phase = "sent"
    /\ saves' = (saves \ {s}) \union
                {[s EXCEPT !.phase = IF Accepts(s.value) THEN "checked" ELSE "refused"]}
    /\ UNCHANGED <<server, field, timers, label, role, page, view, fetch, declared, dialog,
                   submission, edits, faults, disturbed>>

\* A field that is not there is not disturbed.
Disturbed(q) == IF page = "shown" THEN disturbed \union {q} ELSE {}

\* A row is committed, whatever has become of the assessment since.  Only a new
\* one waits for the lock, in its foreign key.
Write(q, draft) ==
    /\ rows[q] = "absent" => tx = NoTx
    /\ rows' = [rows EXCEPT ![q] = draft]
    /\ overtaken' = IF tx = NoTx /\ status = "editable" THEN overtaken
                    ELSE overtaken \union {q}

\* ... and commits.
CommitSave(s) ==
    /\ s.phase = "checked"
    /\ Write(s.question, Draft(s.value))
    /\ saves' = (saves \ {s}) \union {[s EXCEPT !.phase = "stored"]}
    /\ disturbed' = IF s.orphan THEN Disturbed(s.question) ELSE disturbed
    /\ UNCHANGED <<status, evidence, snapshots, tx, others, field, timers, label, role, page,
                   view, fetch, declared, dialog, submission, edits, faults>>

Slip_Refreshing == {}

\* Stored saves wait for the reload they started; when it is over, or another
\* one replaces it, their fields say so.
Refreshing == {s \in saves : s.phase = "refreshing"}
Saved == [q \in Questions |-> IF \E s \in Refreshing : s.question = q THEN "saved" ELSE label[q]]

\* The answer to a save.
AnswerSave(s) ==
    /\ \/ /\ s.phase = "stored" /\ page = "shown"
          /\ saves' = (saves \ ({s} \union Refreshing)) \union
                      (IF s.orphan THEN {} ELSE {[s EXCEPT !.phase = "refreshing"]})
          /\ label' = Saved /\ fetch' = Asked
       \/ /\ s.phase = "stored" /\ page # "shown"
          /\ saves' = saves \ {s}
          /\ UNCHANGED <<label, fetch>>
       \/ /\ s.phase = "refused"
          /\ saves' = saves \ {s}
          /\ label' = IF s.orphan THEN label ELSE [label EXCEPT ![s.question] = "error"]
          /\ fetch' = fetch
    /\ UNCHANGED <<server, field, timers, role, page, view, declared, dialog, submission,
                   edits, faults, disturbed>>

\* A request that fails on its way there or back, or in the database.  One that
\* was let through may still commit, unknown to the page.
LoseSave(s) ==
    /\ faults < MaxFaults /\ faults' = faults + 1
    /\ s.phase \in {"sent", "checked", "stored"}
    /\ saves' = saves \ {s}
    /\ \/ others' = others
       \/ s.phase = "checked" /\ others' = others \union {[question |-> s.question, value |-> s.value]}
    /\ label' = IF s.orphan THEN label ELSE [label EXCEPT ![s.question] = "error"]
    /\ UNCHANGED <<status, rows, evidence, snapshots, tx, overtaken, field, timers, role, page,
                   view, fetch, declared, dialog, submission, edits, disturbed>>

\* Window focus, a realtime message or the retry button.
Refresh ==
    /\ page # "away" /\ fetch = NoFetch
    /\ view # Loaded \/ page = "error"
    /\ fetch' = Asked
    /\ UNCHANGED <<server, form, role, page, view, declared, dialog, submission, edits,
                   faults, disturbed>>

\* loadAssessmentWorkspace reads the assessment first ...
ReadAssessment ==
    /\ fetch.phase = "asked"
    /\ fetch' = [phase |-> "read", status |-> status, turn |-> Len(snapshots)]
    /\ UNCHANGED <<server, form, role, page, view, declared, dialog, submission, edits,
                   faults, disturbed>>

\* Fields that are mounted show the given rows and are idle.
Mounted(r) ==
    /\ field' = [q \in Questions |-> FieldOf(q, r[q])]
    /\ label' = [q \in Questions |-> "idle"]
    /\ disturbed' = {q \in Questions : r[q] # rows[q]}

Slip_ReadRest ==
    /\ fetch.phase = "read"
    /\ fetch' = NoFetch
    /\ view' = [Loaded EXCEPT !.rows = view.rows]
    /\ saves' = saves \ Refreshing
    /\ page' = "shown"
    /\ IF page = "error" THEN Mounted(rows)
       ELSE label' = Saved /\ UNCHANGED <<field, disturbed>>
    /\ UNCHANGED <<server, timers, role, declared, dialog, submission, edits, faults>>

\* ... and then the responses, documents and the rest.  The data replaces what
\* was loaded; fields that are mounted do not look at it.
ReadRest ==
    /\ fetch.phase = "read"
    /\ fetch' = NoFetch
    /\ view' = [Loaded EXCEPT !.status = fetch.status, !.turn = fetch.turn]
    /\ saves' = saves \ Refreshing
    /\ page' = "shown"
    /\ IF page = "error" THEN Mounted(rows)
       ELSE label' = Saved /\ UNCHANGED <<field, disturbed>>
    /\ UNCHANGED <<server, timers, role, declared, dialog, submission, edits, faults>>

\* The fields are gone: values and labels are forgotten, timers are cleared,
\* saves answer nobody.
Unmounted ==
    /\ field' = [q \in Questions |-> FieldOf(q, "absent")]
    /\ label' = [q \in Questions |-> "idle"]
    /\ timers' = {} /\ disturbed' = {} /\ dialog' = FALSE
    /\ saves' = {[s EXCEPT !.orphan = TRUE] : s \in saves \ Refreshing}

\* A reload fails after its retry: the page shows the error only, although the
\* data it had is still there.
ReloadFails ==
    /\ faults < MaxFaults /\ faults' = faults + 1
    /\ fetch # NoFetch /\ fetch' = NoFetch
    /\ page' = "error" /\ Unmounted
    /\ UNCHANGED <<server, role, view, declared, submission, edits>>

Leave ==
    /\ faults < MaxFaults /\ faults' = faults + 1
    /\ page # "away" /\ page' = "away" /\ Unmounted
    /\ fetch' = NoFetch /\ declared' = FALSE
    /\ UNCHANGED <<server, role, view, submission, edits>>

\* Coming back shows what the query cache holds and reloads it behind that.
Return ==
    /\ page = "away" /\ page' = "shown"
    /\ fetch' = Asked
    /\ Mounted(view.rows)
    /\ UNCHANGED <<server, timers, saves, role, view, declared, dialog, submission, edits, faults>>

\* The declaration can be typed while the assessment is editable, and stays.
Declare ==
    /\ Editable /\ ~ declared
    /\ declared' = TRUE
    /\ UNCHANGED <<server, form, role, page, view, fetch, dialog, submission, edits,
                   faults, disturbed>>

\* The submit button looks at the role, the completion of the loaded data and
\* the declaration; not at the status, timers or saves.
OpenDialog ==
    /\ page = "shown" /\ ~ dialog
    /\ Signs /\ ClientComplete(view) /\ declared
    /\ dialog' = TRUE
    /\ UNCHANGED <<server, form, role, page, view, fetch, declared, submission, edits,
                   faults, disturbed>>

\* The dialog checks nothing again; its button is disabled during a request.
Confirm ==
    /\ dialog /\ submission = "none"
    /\ submission' = "sent"
    /\ UNCHANGED <<server, form, role, page, view, fetch, declared, dialog, edits,
                   faults, disturbed>>

Cancel ==
    /\ dialog /\ dialog' = FALSE
    /\ UNCHANGED <<server, form, role, page, view, fetch, declared, submission, edits,
                   faults, disturbed>>

\* submit-assessment on the server, for this page or a colleague's: the row lock,
\* the status, and the count of the visible questions.
BeginSubmit(who) ==
    /\ tx = NoTx /\ status = "editable"
    /\ who = "page" => submission = "sent"
    /\ tx' = [by |-> who, step |-> "counting", required |-> Cardinality(Required(rows))]
    /\ overtaken' = {}
    /\ UNCHANGED <<status, rows, evidence, snapshots, others, form, role, page, view, fetch,
                   declared, dialog, submission, edits, faults, disturbed>>

Answer(outcome) == submission' = IF tx.by = "page" THEN outcome ELSE submission

\* Then the answers to the visible questions, and the evidence.
CountsAgree == Cardinality(Answered(rows)) = tx.required /\ evidence = "ready"

CheckSubmit ==
    /\ tx.step = "counting" /\ CountsAgree
    /\ tx' = [tx EXCEPT !.step = "copying"]
    /\ UNCHANGED <<status, rows, evidence, snapshots, others, overtaken, form, role, page,
                   view, fetch, declared, dialog, submission, edits, faults, disturbed>>

\* "assessment is incomplete", or not editable any more.
RefuseSubmit ==
    /\ \/ tx.step = "counting" /\ ~ CountsAgree /\ Answer("refused")
          /\ tx' = NoTx /\ overtaken' = {}
       \/ tx = NoTx /\ submission = "sent" /\ status # "editable"
          /\ submission' = "refused" /\ UNCHANGED <<tx, overtaken>>
    /\ UNCHANGED <<status, rows, evidence, snapshots, others, form, role, page, view, fetch,
                   declared, dialog, edits, faults, disturbed>>

\* The rows as they are now are copied; copy and status are seen together.
CommitSubmit ==
    /\ tx.step = "copying" /\ tx' = NoTx
    /\ status' = "submitted" /\ snapshots' = Append(snapshots, rows)
    /\ Answer("accepted")
    /\ UNCHANGED <<rows, evidence, others, overtaken, form, role, page, view, fetch, declared,
                   dialog, edits, faults, disturbed>>

\* Success closes the dialog and reloads; an error is only announced.
SubmitAnswered ==
    /\ submission \in {"accepted", "refused"} /\ submission' = "none"
    /\ dialog' = (dialog /\ submission = "refused")
    /\ IF submission = "accepted" /\ page = "shown"
       THEN fetch' = Asked /\ saves' = saves \ Refreshing /\ label' = Saved
       ELSE UNCHANGED <<fetch, saves, label>>
    /\ UNCHANGED <<server, field, timers, role, page, view, declared, edits, faults, disturbed>>

-----------------------------------------------------------------------------
\* What happens elsewhere: a colleague's page has an answer let through, writes
\* that nobody here waits for commit, the required document is uploaded and
\* processed (its versions: DocumentLifecycle), the buyer asks for changes.
ColleagueSaves(q, value) ==
    /\ edits < MaxEdits /\ edits' = edits + 1
    /\ Accepts(value)
    /\ others' = others \union {[question |-> q, value |-> value]}
    /\ UNCHANGED <<status, rows, evidence, snapshots, tx, overtaken, form, role, page, view,
                   fetch, declared, dialog, submission, faults, disturbed>>

CommitOther(w) ==
    /\ Write(w.question, Draft(w.value))
    /\ others' = others \ {w}
    /\ disturbed' = Disturbed(w.question)
    /\ UNCHANGED <<status, evidence, snapshots, tx, form, role, page, view, fetch, declared,
                   dialog, submission, edits, faults>>

EvidenceMoves(from, to) ==
    /\ evidence = from /\ evidence' = to
    /\ UNCHANGED <<status, rows, snapshots, tx, others, overtaken, form, role, page, view,
                   fetch, declared, dialog, submission, edits, faults, disturbed>>

SomeEvidence ==
    \/ EvidenceMoves("absent", "unready")
    \/ EvidenceMoves("unready", "ready")

ReturnForChanges ==
    /\ status = "submitted" /\ Len(snapshots) < MaxSubmissions
    /\ status' = "editable" /\ overtaken' = {}
    /\ UNCHANGED <<rows, evidence, snapshots, tx, others, form, role, page, view, fetch,
                   declared, dialog, submission, edits, faults, disturbed>>

SomeTimer  == \E q \in Questions : TimerFires(q)
SomeStore  == \E s \in saves : CheckSave(s) \/ CommitSave(s)
SomeAnswer == \E s \in saves : AnswerSave(s)
Reads      == ReadAssessment \/ ReadRest
Submits    == CheckSubmit \/ RefuseSubmit \/ CommitSubmit

Next ==
    \/ \E q \in Questions : \E value \in Answers(q) : Edit(q, value) \/ ColleagueSaves(q, value)
    \/ SomeTimer \/ SomeStore \/ SomeAnswer \/ Reads
    \/ \E s \in saves : LoseSave(s)
    \/ \E w \in others : CommitOther(w)
    \/ Refresh \/ ReloadFails \/ Leave \/ Return
    \/ Declare \/ OpenDialog \/ Confirm \/ Cancel \/ SubmitAnswered
    \/ \E who \in {"page", "colleague"} : BeginSubmit(who)
    \/ Submits \/ SomeEvidence \/ ReturnForChanges

\* Timers end; requests that save and load arrive and are answered in the end, and
\* a submission that was begun ends.  A save that waits for the lock is given it
\* in its turn, however many submissions ask for it as well.
Spec ==
    /\ Init /\ [][Next]_vars
    /\ WF_vars(SomeTimer) /\ SF_vars(SomeStore) /\ WF_vars(SomeAnswer) /\ WF_vars(Reads)
    /\ WF_vars(Submits)

-----------------------------------------------------------------------------
Views   == [status : {"editable", "submitted"}, turn : Nat, rows : Rows,
            uploaded : BOOLEAN]
Fetches == [phase : {"none", "asked", "read"}, status : {"editable", "submitted"}, turn : Nat]
Saves   == [question : Questions, value : {"blank", "yes", "no", "none", "picked"}, edit : Nat,
            phase : {"sent", "checked", "stored", "refused", "refreshing"}, orphan : BOOLEAN]
Writes  == [question : Questions, value : {"blank", "yes", "no", "none", "picked"}]
Txs     == [by : {"nobody", "page", "colleague"}, step : {"none", "counting", "copying"},
            required : Nat]

\* A field's value, which the triggers accepted if it was let through.
Sendable(s) ==
    /\ s.value \in Answers(s.question)
    /\ s.phase = "checked" => Storable(Draft(s.value))

\* No answer the triggers refuse is ever in a row.
TypeOK ==
    /\ status \in {"editable", "submitted"} /\ rows \in Rows /\ snapshots \in Seq(Rows)
    /\ evidence \in {"absent", "unready", "ready"}
    /\ tx \in Txs /\ overtaken \subseteq Questions
    /\ others \subseteq Writes
    /\ \A w \in others : w.value \in Answers(w.question) /\ Storable(Draft(w.value))
    /\ role \in Roles /\ page \in {"shown", "away", "error"}
    /\ view \in Views /\ fetch \in Fetches
    /\ field \in [Questions -> {"blank", "yes", "no", "none", "picked"}]
    /\ \A q \in Questions : field[q] \in Answers(q)
    /\ saves \subseteq Saves /\ \A s \in saves : Sendable(s)
    /\ label \in [Questions -> {"idle", "saving", "saved", "error"}]
    /\ timers \subseteq Questions /\ disturbed \subseteq Questions
    /\ submission \in {"none", "sent", "accepted", "refused"}
    /\ declared \in BOOLEAN /\ dialog \in BOOLEAN
    /\ edits \in Nat /\ faults \in Nat

\* What a field tells its user is true when it has come to rest: unless its
\* saves overlapped, somebody else stored the answer or it was mounted from
\* stale data, its value is the stored one or it says that the save failed.
\* An edit whose save loses against a submission is told.
RestingFieldIsHonest ==
    \A q \in Questions :
        page = "shown" /\ Quiet(q) /\ q \notin disturbed =>
            field[q] = FieldOf(q, rows[q]) \/ label[q] = "error"

\* A page that shows the current submission as read-only shows its answers,
\* because the status is read before the responses and never after: all but
\* those of which a late save, let through before, changed the row.
ReadOnlyPageShowsSubmission ==
    status = "submitted" /\ view.status = "submitted" /\ view.turn = Len(snapshots) =>
        \A q \in Questions \ overtaken : view.rows[q] = snapshots[Len(snapshots)][q]

\* What the page shows as saved is submitted, whoever submits and whatever is
\* saved, counted and copied meanwhile: an answer is called saved only when it is
\* in its row, and the copy is made of the rows.
SavedAnswersAreSubmitted ==
    [][\A q \in Questions :
           snapshots' # snapshots /\ page = "shown" /\ Quiet(q) /\ q \notin disturbed
               /\ label[q] = "saved" =>
               FieldOf(q, snapshots'[Len(snapshots')][q]) = field[q]]_vars

\* The page's stricter idea of completeness saves the server's refusals: what it
\* offers to submit is refused only for evidence that is not ready, because the
\* assessment is no longer editable, or because a save came between the server's
\* counts; never for an unanswered question, however old the loaded answers are.
RefusedOnlyForEvidenceOrStatus ==
    [][submission = "sent" /\ submission' = "refused" =>
           evidence # "ready" \/ status # "editable" \/ overtaken # {}]_vars

-----------------------------------------------------------------------------
(* What the buyer's side may take this page for                            *)

Turn ==
    IF status = "submitted" THEN "buyer"
    ELSE IF tx = NoTx THEN "supplier"
    ELSE IF overtaken = {} THEN "presented" ELSE "disturbed"

\* The answers that are handed over, and then the copy that was.
Sheet ==
    CASE Turn = "supplier" -> {}
      [] Turn = "buyer"    -> {snapshots[Len(snapshots)]}
      [] OTHER             -> {rows}

TheTurn  == [a \in {"assessment"} |-> Turn]
TheSheet == [a \in {"assessment"} |-> Sheet]

Promise == INSTANCE Qualification WITH
    Relationships    <- {"relationship"},
    Assessments      <- {"assessment"},
    RelationshipOf   <- [a \in {"assessment"} |-> "relationship"],
    Contents         <- Rows,
    CompleteContents <- {r \in Rows : \A q \in Questions : Visible(q, r) => r[q] # "absent"},
    turn     <- TheTurn,
    sheet    <- TheSheet,
    blocked  <- [a \in {"assessment"} |-> FALSE],
    standing <- [r \in {"relationship"} |-> "profile_pending"]

\* Whatever the pages of all colleagues type, save late, lose, reload and
\* confirm twice, it is the supplier's part of Qualification: one copy of the
\* answers is handed over at a submission, complete unless a save was committed
\* beside it, and nothing changes the copy until they come back.
KeepsThePromise == Promise!Spec

-----------------------------------------------------------------------------
\* Nothing hangs: every change that was typed comes to rest, and the page with
\* it, however saves wait for reloads, for submissions and for one another.
EveryEditComesToRest == []<>(\A q \in Questions : Quiet(q))
=============================================================================
