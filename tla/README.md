# Supplier compliance workspace: formal models

TLA+ models of the supplier compliance workspace, the TLC configurations that
check them on small instances, and theorems that TLAPS proves about them.
`src/` below is the repository; the SQL files are abbreviated as

| short | file |
| --- | --- |
| core schema | `supabase/migrations/20260724010100_core_schema.sql` |
| authorization | `supabase/migrations/20260724010200_authorization.sql` |
| workflows | `supabase/migrations/20260724010300_workflows.sql` |
| platform | `supabase/migrations/20260724010400_platform_controls.sql` |
| contracts | `supabase/migrations/20260724010500_integration_contracts.sql` |

Contents: [the system](#the-system), [the modules](#the-modules), [the runs](#the-runs),
[the proofs](#the-proofs),
[disagreements](#disagreements-between-code-and-documentation), [what is not
modelled](#what-is-not-modelled), [the plan](#the-plan).

## The system

A buyer invites suppliers. An accepted invitation is a *relationship*; along it
the buyer sends *assessments* of a published *program version*: questions, some
shown only for certain answers, and required documents. The supplier answers,
uploads evidence and submits. A reviewer raises *findings*, the supplier answers
with *corrective actions*, and a manager records a *decision*.

The state lives in PostgreSQL. Clients read it under row-level security and change it
almost only through `security definer` functions, each one transaction that locks the
row it works on first. Two meet in rows they have not locked: a write of a response
reads the status of the assessment without a lock, and `submit_assessment` counts and
copies responses and documents in statements of their own. Around it: Edge Functions
(Deno) for what needs Storage or tokens, pgmq queues read by the `process-queues`
function, a FastAPI service that validates PDFs, scores risk and lays out reports,
pg_cron jobs, and a React client.

### Components

| component | state it keeps | operations | talks to |
| --- | --- | --- | --- |
| Assessment review workflow (workflows 526-591, 675-781, 1048-1959) | `supplier_relationships`, `assessments`, `assessment_responses`, snapshots, `review_tasks`, `findings`, `corrective_actions`, `approval_decisions` | suspend/reinstate/terminate, create, start, save a response, submit, start review, request changes, raise a finding, answer it, verify the answer, decide | evidence (submission counts ready documents), queues (risk jobs), notifications, audit |
| Evidence (workflows 783-1046, 1401-1499; `create-document-upload`, `finalize-document-upload`) | `documents`, `document_versions`, `document_reviews`, Storage objects | reserve a version, upload, finalize, process, review, nightly clean-up | Storage, document queue, submission |
| Document queue (`_shared/queue.ts`, platform 284-415, `idempotency.py`) | pgmq queue and its dead-letter queue, the service's registry of completed jobs | read a batch, call the service, store the verdict, archive, dead-letter | evidence, FastAPI |
| Risk, report, notification queues (same `processQueue`) | `risk_evaluations`, `generated_assessment_reports`, report objects | recalculate, generate, deliver | assessments, Storage, FastAPI |
| Edge functions (`supabase/functions`) | none between requests | ten functions: parse, authenticate, call one database function, map its error | database functions, Storage, the browser |
| Invitations (workflows 359-525, contracts 3-70) | `supplier_invitations` | create (revokes earlier ones), accept, hourly expiry | relationships, organizations |
| Program versions (workflows 593-673, core schema 141-261, 1021-1087; `ProgramBuilderPage`) | `qualification_programs`, `program_versions`, definitions | create, draft, define, publish and retire | assessments bind a version |
| Sign-in, membership, routing (`AuthContext`, `WorkspaceContext`, `App`, `AuthPages`, `OrganizationPage`; authorization) | accounts, sessions, `organization_members`, the browser's storage and query cache | sign up, verify, sign in and out, load memberships, change and suspend members, guards of routes | every page |
| Supplier's assessment page (`AssessmentWorkspacePage`, `QuestionResponseField`) | fields, timers, saves under way, cached assessment | edit, save, reload, submit | response rows, submission |
| Buyer's review pages (`ReviewWorkspacePage`, `DecisionWorkspacePage`, `FindingDetailPage`, queues) | cached assessment, mutations under way | start a review, review a document, raise a finding, decide | workflow functions, realtime |
| Notifications and cron (platform 284-306, 432-543) | `notifications` | insert (enqueues a delivery), reminders, mark read | queues |
| Realtime (migrations 0600, 0700), audit | broadcast messages, `audit_events` | one message or row per command | clients |
| Pure services (`risk.py`, `questionnaires.py`, `imports.py`, `documents.py`, `reporting.py`) | none | functions of a request | queue workers |
| Reviewer lab (`reviewer.py`, `ReviewerLab.tsx`) | synthetic cases in memory, a version each | submit, approve with an expected version | its own page |

### What is hard here

* Two transactions interleave: reviewers, managers and suppliers act on one
  assessment; findings and decisions are in different tables under different
  locks; submission reads response rows it has not locked.
* Calls to Storage, the service and the queue are not part of any transaction:
  a request verifies first and commits later; an answer is lost after the commit;
  a run of the queue dies between two steps; a message is delivered again while
  it is being processed.
* Uploads overtake each other, and a reservation may never be used.
* Every page works on a copy of the rows: loaded in several requests, cached over
  sessions, reloaded beside the user's own mutations, and as old as the last
  reload that did not fail. Saves of one field overtake each other.
* A request does not name earlier attempts of itself: after a lost answer the
  user presses the button again.
* What is decided must stay decided: snapshots, decisions and processed
  versions are historical records.

`PROJECT.json` lists each of these hazards at its line, with the property that
covers it or the reason none does.

### What makes each component correct

* Workflow: a decision is about the last submitted answers and about no
  unresolved critical finding; history and status agree and are final; findings
  and their actions tell the same story; while a relationship is suspended or an
  assessment is not editable, no answer is let through and no submission begun.
* Evidence: the current version has arrived and was not replaced; ready evidence
  is lost only to a replacement; what a snapshot names stays usable.
* Submission: one snapshot per turn, complete and equal to the rows unless something
  was committed beside it or after it.
* Queue: no job is lost, none is handled twice at once, a verdict is final, and
  every message leaves the queue.
* Edge functions: what an answer makes a user believe is so; a repetition does
  nothing twice that does not add a record.
* Programs: versions are numbered without gaps, one is written at a time, the last
  published one and no other is active.
* Sign-in and membership: nobody sees another user's organization, a suspended
  member leaves, every organization keeps an owner, and every supplier stems from
  one accepted invitation.
* Supplier's page: a field at rest tells the truth about its row, nothing hangs,
  what it calls saved is in every submission, no late save changes the copy that was
  submitted, and the page offers nothing that is refused for a reason it could have
  known.
* Buyer's pages: a verdict is sound however old the page is that asks for it, what
  was announced as done is on its way and shown in the end, and every review can be
  brought to an end.

## The modules

| module | what it is |
| --- | --- |
| `Qualification` | abstract: what an assessment promises supplier and buyer |
| `AssessmentWorkflow` | the review workflow, one action per database function but for response writes (two steps) and submissions (three); implements `Qualification` |
| `EvidenceShelf` | abstract: what the current evidence of a relationship promises |
| `DocumentLifecycle` | evidence: reservations, uploads, finalization, processing, review, submissions in two steps (count, copy); implements `EvidenceShelf` |
| `SubmissionRace` | `submit_assessment` statement by statement; implements `Qualification` until something disturbs it |
| `DocumentJobs` | the queue, its runs and the service's registry; implements the shelf's part of `EvidenceShelf` |
| `SupplierDesk` | the supplier's page of an assessment against its rows; implements `Qualification` |
| `ReviewDesk` | the buyer's pages of an assessment against its rows; implements `Qualification` from the first submission on |
| `EdgeFunctions` | the ten functions between browser and database, and users who repeat; implements `Qualification` |
| `WorkspaceAccess` | accounts, sessions, cached memberships, routes, members, invitations |
| `ProgramLine` | abstract: what a program's versions promise |
| `ProgramBuilder` | the page that writes and publishes versions, publication lock by lock; implements `ProgramLine` |
| `...Proofs` | the theorems about the module it is named after; those about `SupplierDesk` and `ReviewDesk` are in `DeskProofs` |
| `MC...` | instances of each for TLC |

The modules overlap where components meet, each keeping of the other what its
properties need:

* A submission is several statements at READ COMMITTED under one lock, that of the
  assessment's row, which writes of responses and documents do not take. Every module in
  which such a write may come between has the statements apart where a commit between
  them can matter: `AssessmentWorkflow` and `SupplierDesk` the lock with the first count
  (`BeginSubmission`, `BeginSubmit`), the count of the answers (`CheckCompleteness`,
  `CheckSubmit`) and the copy with the commit (`CommitSubmission`, `CommitSubmit`);
  `DocumentLifecycle` the count of the ready documents (`BeginSubmit`) and their
  selection (`CommitSubmit`). `SubmissionRace` has each statement for itself and several
  submitters. That the lock and the first count may be one step, and the copy and the
  commit one: before the first count nothing was read but columns the lock holds still
  and the relationship, on which no count depends; after the copy nothing is read that
  the copy is about, and others see none of it before the commit, so that a row
  committed in between is as one committed just after.
* A write of a response is let through by its policy and trigger and commits later
  (`BeginSave`, `CommitSave` in `AssessmentWorkflow`; `CheckSave`, `CommitSave` in
  `SupplierDesk`; `BeginWrite`, `CommitWrite` in `SubmissionRace`): it may commit over
  the answers of a submission or of a decided assessment. A row that is new waits for
  the lock of the assessment in its foreign key, one that is updated does not.
* Evidence is not in `AssessmentWorkflow`, where its count may come out either way
  (`AbandonSubmission`); it is the subject of `DocumentLifecycle`, where the answers may
  be incomplete (`AbandonSubmit`).
* `DocumentLifecycle` takes processing for one step, `CompleteProcessing`, at any time
  after finalization; `DocumentJobs` has the deliveries, retries and crashes that lead
  to that step.
* `SupplierDesk` and `ReviewDesk` compose a page with the server and have in addition
  the requests under way, the loads and the cache. `ReviewDesk` takes the buyer's
  functions for one step each, which their row lock makes them, and `EdgeFunctions`
  opens up what lies between a press and such a step. In these two the answers have no
  content: a submission is seen as one step of the supplier (`Submit` of
  `Qualification`), and only turns, findings and verdicts are checked.
* `Qualification` is what these modules agree on. Each of the five that know an
  assessment's turns, `AssessmentWorkflow`, `SubmissionRace`, `SupplierDesk`,
  `ReviewDesk` and `EdgeFunctions`, instantiates it as `Promise`, from its own idea of a
  status, of the answers and of a finding, and `KeepsThePromise` says that its steps are
  those of `Qualification` or none. `DocumentLifecycle` and `DocumentJobs` agree in the
  same way on `EvidenceShelf`, the second on its shelf alone.
* `WorkspaceAccess` decides who reaches a page; the others take the user of a page as
  given.

Definitions named `Slip_...` are variants of the definition below them with one
mistake in it. No specification uses them; put in the place of the definition
they show that a property notices the mistake.

### AssessmentWorkflow

| variable | column |
| --- | --- |
| `relStatus`, `onboarding` | `supplier_relationships.relationship_status`, `.onboarding_status` |
| `status`, `reviewer` | `assessments.status`, `.assigned_buyer_reviewer_id` |
| `responses` | what the rows of `assessment_responses` say, as one value, of which two counts are seen (`RequiredIn`, `AnsweredIn`) |
| `saves` | writes of response rows that were let through and have not committed |
| `submitting`, `required` | the transaction of `submit_assessment` that holds the lock, and its first count |
| `overtaken` | assessments one of whose rows was committed beside their last submission or after it |
| `snapshots` | `assessment_submission_snapshots` by number |
| `task` | the open `review_tasks` row (there is one at most: index, core schema 425) |
| `findingStatus`, `actionStatus` | `findings.status`, `corrective_actions.status` |
| `decisions` | `approval_decisions` in order |

Each action is one function, with the conditions it raises exceptions on as guards:
`TransitionRelationship`, `CreateAssessment`, `StartAssessment`
(`transition_assessment`, contracts 72-134, which lets a supplier do only this),
`BeginSave`, `CommitSave` and `FailSave` (row-level security and the lock trigger, then
the commit), `BeginSubmission`, `CheckCompleteness`, `CommitSubmission` and
`AbandonSubmission` (the statements of `submit_assessment`), `StartReview`,
`RequestChanges`, `CreateFinding`, `SubmitCorrectiveAction`, `VerifyCorrectiveAction`,
`RecordDecision`. Callers matter on the buyer's side: `CanReview` is the assigned
reviewer or a manager, decisions need a manager, and `StartReview` moves only the
caller's own task. On the supplier's side somebody is authorized; who it is changes
nothing. `submit_assessment` reads the relationship without a lock, so that a suspension
may commit while a submission is under way; `SubmitCorrectiveAction` does the same. The
functions that change the assessment wait for its lock (`Unlocked`). Two details of the
code to know: `record_approval_decision` does not look at the relationship's status, so
that a suspended supplier may be decided about, and a deferral goes to
`changes_requested` and completes the task.

`Promise` instantiates `Qualification`: `TurnOf` takes the nine statuses to the
supplier's turn, the buyer's, or the verdict, `SheetOf` gives the answers the buyer
holds, and the critical findings become one boolean. `KeepsThePromise` says that every
step is a step of `Qualification` or none: answers are presented, perhaps disturbed by a
save that commits meanwhile, and handed over or taken back; the buyer's copy of them
does not change, and is complete unless it was disturbed; a verdict is given once, in
the buyer's turn, and favourably only when nothing blocks it, and a decided assessment
is never blocked again. `Conclusive` in `Qualification` is what follows from that at any
single moment. `ReviewedResponsesAreSubmitted` says what reviewers may assume of the
rows, which is what their page shows: they are the copy, unless a save that was let
through before was committed beside the submission or after it.
`ClosedAssessmentOnlyEnds` bounds these: nothing new is let through, and what was under
way ends once.

### DocumentLifecycle

`versions[d]` is the sequence of `upload_status` values of a document by version number,
`current` the version number of `documents.current_version_id`, `stored` the objects in
Storage that match their reservation, `reserving` the calls that found the assessment
editable and wait for its lock (workflows 811-818), `finalizing` what a finalize request
has verified and not yet committed, `cited` and `latest` what submission snapshots name,
`review` and `docStatus` the reviewers' rows. The assessment is `phase`, and
`submitting` a submission that has counted the ready documents and not yet selected them
again: one that an upload replaces in between is not named (`SnapshotVersionsStay` says
so, and that nothing else is missing). A signed upload URL lives for two hours whatever
happens meanwhile, so `UploadObject` has no guard on the relationship. The finalize
request is two steps, `BeginFinalize` (index.ts 12-44: look up, download, verify) and
`CommitFinalize` (the transaction), with anything in between, another finalize request
of the same version included. `Shelf` instantiates `EvidenceShelf` with the current
version of each document (`Shelved`): `KeepsTheShelf` says that overtaking uploads,
repeated requests, late verdicts and abandoned reservations are, to who looks at the
current versions, arrivals with one verdict each and submissions that find all of it
ready (`Check`) and name what still is (`Submit`).

### SubmissionRace

READ COMMITTED: each statement of the function sees what was committed when it
began. `Lock`, `CountRequired`, `CountAnswered`, `CountDocuments`,
`InsertSnapshot` and `Commit` are its statements; `Rollback` is any exception or
lost connection. A writer of a response row is `BeginWrite` (policy and trigger
read the status), `ShareLock` (a new row's foreign key waits for a key-share
lock on the assessment, which `FOR UPDATE` excludes; an upsert that finds its row
takes no such lock) and `CommitWrite`. Question visibility is a gate: a question
shown when another is answered "yes". The statements of the function are together one
submission of `Qualification` with complete answers, as long as `disturbed` is false.
A write between the counts and the copy, or a late one, is what `disturbed` records; the
counterexample of `submission_incomplete` shows that the answers may be incomplete then,
and `AssessmentWorkflow` and `SupplierDesk` what is kept all the same.

### DocumentJobs

`queue`, `reads` and `deadLetters` are pgmq's rows, `batch`, `current`, `step` and
`verdict` a run of `processQueue`, `running` and `completed` the in-flight and
completed entries of the service's registry. A run's calls may fail before they
are executed (`StepFails`) or lose their answer after it (`Complete` with no
answer, `ArchiveUnanswered`, `BuryUnanswered`); a call may be aborted while the
service goes on (`Timeout`); runs are stopped (`Crash`) and the service restarts
with an empty registry (`ServiceRestarts`). Files that are no PDFs are completed
without the service, as in the code. The verdict of a repeated request may
differ from the first one because the rules compare dates with the day of the
request. `Shelf` instantiates `EvidenceShelf` with the versions the messages are about:
however often a job is delivered, evidence is judged once (`KeepsTheShelf`).

### SupplierDesk

`rows`, `status`, `evidence` and `snapshots` are the server's; `view` and `fetch` are
the cached assessment and the reload under way, which reads the assessment first and the
rest after it (`ReadAssessment`, `ReadRest`); `field`, `timers`, `label` and `saves` are
the fields of `QuestionResponseField`: a value that is initialised when the field is
mounted and never again, the 700 ms timer, the word it shows, and the requests that have
not ended. A save is checked (`CheckSave`) and committed (`CommitSave`) in two steps, in
any order with others; one whose answer is lost (`LoseSave`), or a colleague's
(`ColleagueSaves`), may commit when nobody waits for it (`others`, `CommitOther`). `tx`
is the transaction of `submit_assessment` that holds the lock, begun by this page or a
colleague's; `overtaken` are the questions whose row was committed beside a submission
or after it. A reload that fails replaces the page by an error and unmounts the fields
with their timers. What the response trigger refuses is refused: no answer (null), and a
multiple selection, which the page sends as option ids while the trigger compares
values. Colleagues answer and submit, evidence arrives and becomes ready, the buyer asks
for changes. `disturbed` records the fields about which no claim is made: saves
overlapped, somebody else wrote the row, or the field was mounted from stale data. The
page offers the dialog for a document in any state, because it looks for "rejected" in
`documents.status`, which is never that: `ClientComplete` asks whether there is one,
`CountsAgree` whether it is ready. `Promise` sees the rows while they are counted and
the copy afterwards, as `AssessmentWorkflow` does. What remains of the user's trust in
the word "saved" is `SavedAnswersAreSubmitted`: a field that shows it is in the copy of
every submission that is committed meanwhile, whoever makes it.

### ReviewDesk

The review page and the decision page show one entry of the query cache. A
mutation (`Click`, `Handle`, `Answer` or `Lose`) that succeeds invalidates the entry:
the load under way is cancelled and another started (`Restarted`). Moving between
the pages mounts them anew while requests go on. `Offers` is what the two pages
let the user do with what they have loaded and the user's role; `Accepted` and
`Authorized` are the database functions. Colleagues, a supplier who answers
findings and resubmits, and, when `Api` is TRUE, callers of the functions no page
calls (`verify_corrective_action`, `request_assessment_changes`) act beside it. The page
checks for critical findings in what it has loaded, the function in the rows:
`KeepsThePromise` says that it is the second check that counts. `unseen` is what the
user was told is done and the pages do not show yet.

### EdgeFunctions

A request is a function, the set of checks it fails, a target and a variant.
`Refusal` is the pipeline's order: method, media type, size, JSON, the fields of
each function in its order, bearer, user. What passes meets the database rules
(`Verdict`); `ErrorStatus` maps a refusal to the status each function answers with
(the acceptance of an invitation maps every refusal to 409). `Committed` may lose
the database's answer, `AnswerLost` the function's. `PressAgain` sends the same
request again; `effects` counts its commits and `reopened` says that somebody else
made its record ready again. `Promise` sees what the calls commit: a wish sent again
after a lost answer hands nothing over twice and decides nothing twice.

### WorkspaceAccess

`accounts`, `mail` and `stored` are the identity service's and the browser's session;
`seats`, `orgs` and `invites` are the database; `cache` and `fetch` are the membership
query, one entry per user, which a sign-out does not clear; `page` is the route with
the path to go to next. Actions are the mails and links, the sign-in and sign-up
forms, the guards (`ProtectedRoute` and the routes of one kind of organization),
the loads, the members table with `can_manage_membership`, and creating and
accepting invitations. Members elsewhere change the database at any time. A new
invitation revokes the open ones to the same address, an expired one is refused
(`lapsed`), and the link opened last is what the form accepts.

### ProgramBuilder

`status`, `current` and `items` are the tables; each user has a `view`, loaded at some
moment and again at any other, the version in the address (`chosen`), a dialog and
one mutation under way. A new draft is numbered one above the last version the
page shows, a definition placed after those it shows, and the confirmation
publishes the version selected when it is given. `LockVersion`, `LockProgram` and
`Switch` are the statements of `publish_program_version`; `Deadlock` is the database
ending one of two publications that wait for each other. `InsertDraft` and
`InsertDefinition` wait for the rows their foreign keys refer to;
`CheckDefinition` is the trigger, which reads without a lock. `Line` instantiates
`ProgramLine` with the current version for the number of published ones and the
existence of a draft: `KeepsTheLine` says that every step of the tables is a step of
the line or none, and that each version has the status the line gives it.

## The runs

| run | checks | instance | distinct states |
| --- | --- | --- | --- |
| `assessment_review` | the refinement of `Qualification`, approvals, findings and actions, decisions, reviewed answers, tasks, finality, closed assessments | two assessments of one relationship, a critical finding with two possible actions, two contents, a manager and an assigned reviewer, one save at a time on each, two submissions of one and one of the other | 995,265 |
| `document_versions` | the refinement of `EvidenceShelf`, lineage, snapshots, version state machine, evidence lost only by replacement, no reservation pending for ever (liveness) | one document, three versions, two finalize requests | 682,968 |
| `submission_turns` | the refinement of `Qualification` while undisturbed, one snapshot per turn, exactness of an undisturbed submission | two questions (one gates the other), two submitters, two writers, two submissions | 706,798 |
| `jobs_delivery` | the refinement of the shelf of `EvidenceShelf`, no lost work, one handler per job, every job settles (liveness) | a PDF and an image, two runs, batches of two, two attempts, a registry of one, one fault | 117,406 |
| `supplier_desk` | the refinement of `Qualification`, honest fields, saved answers are submitted, read-only pages, refusals, every edit comes to rest (liveness) | a single selection that shows a multiple one, an earlier answer, two changes, one fault, two submissions by the page or a colleague | 927,017 |
| `review_desk` | the refinement of `Qualification`, announced actions are under way and appear, reviews end (the last two liveness) | the owner or the assigned reviewer, one critical finding, one request under way at a time, of both pages together | 241,039 |
| `edge_calls` | the refinement of `Qualification`, justified beliefs, safe repetitions | a buyer and a supplier, ten sets of failing checks, three presses, one fault | 385,101 |
| `workspace_access` | one organization per invitation, whose screen it is, owners, suspended members leave (liveness) | two users at one browser, one of them a member, invited or unknown, three organizations, one invitation | 377,806 |
| `program_builder` | the refinement of `ProgramLine`, deadlocks | two managers (symmetric), three versions, one definition each | 1,150,774 |

and three runs that end with a counterexample: see
[disagreements](#disagreements-between-code-and-documentation).

Why these bounds are enough. Two of what interleaves is the least at which an
interleaving shows: two assessments for the statuses of the relationship they share, two
finalize requests for a double commit, two submitters, two writers, two runs, two users
of a browser, two publishers. Three versions let a reservation overtake one that itself
replaced a ready version, and let a page be two publications old. Two submissions allow
changes requested, a deferral and a second decision; a third repeats the second. One
save at a time suffices in `assessment_review`: it is let through before a submission,
or between its statements, and committed in or after it, and the next one is let through
again in the following turn. Two changes of a field overlap in every order. Three
presses are an attempt, its repetition, and a step of the other user between. Two
attempts and one fault let a message be delivered early and exhausted in both runs; the
code's five attempts repeat the first. The bounds are guards named `MaxSubmissions`,
`MaxSaves`, `MaxVersions`, `MaxItems`, `MaxEdits`, `MaxFindings`, `MaxRequests`,
`MaxPresses`, `MaxOrgs`, `MaxInvites` and `MaxFaults`; messages are never bounded by
count: `reads` is finite because a message leaves the queue once its attempts are used
up, unless a fault intervenes.

Deadlock is checked in `submission_turns`, `document_versions` and the runs of
`ReviewDesk` and `WorkspaceAccess`. Elsewhere the system may really stop: a
terminated relationship without an assessment, an empty queue, a submitted
assessment nobody sends back, users who press no more buttons, three published
versions.

Fairness. `document_versions` assumes only that the nightly job keeps running: weak
fairness of `AbandonUpload` for each version. `jobs_delivery` assumes that
`process-queues` keeps being called (the repository leaves its schedule to the
deployment), that a run which is not stopped takes its next step (every wait in it is
bounded by the 20-second abort) and that a hidden message comes back when its timeout
ends. Nothing is assumed about the service: it may never answer, or refuse every call.
Crashes, early redeliveries and failed burials are bounded in number; with unboundedly
many a job need not settle. `supplier_desk` assumes that timers fire, requests end,
reloads and submissions go on, nothing about people. Saves have strong fairness: one of
a new row waits for the lock of the assessment, for which PostgreSQL queues in the order
of arrival, so that submissions cannot pass it for ever. `review_desk` assumes that
loads, although each mutation starts them again, come through in the end (strong
fairness: they are short beside what people do), and of people that a supplier who may
answer a finding, a caller who may verify the answer and a colleague who may decide do
so in the end. `workspace_access` assumes that the window regains the focus again and
again, which is what makes the query library reload, and that not every load fails.

Every property of these runs is broken by a mutant of the code: a guard
dropped, a status swapped, an acknowledgement too early (`PROJECT.json`, `mutants`).

## The proofs

`AssessmentWorkflowProofs` proves, for every set of relationships, assessments,
findings, actions, contents and users and every bound, from the assumptions
`RowsAssumption`, `ContentsAssumption`, `UsersAssumption` and `BoundAssumption` of
the module (that the constants have the shape the tables give them):

| theorem | property | argument |
| --- | --- | --- |
| `TypeCorrect` | `TypeOK` | inductive as it stands, one step per action |
| `FindingsMirrored` | `FindingMirrorsActions` | inductive with `TypeOK`: per finding, each of the two functions that touch it moves both rows, and the partial index leaves room for one active action |
| `ApprovalSafe` | `ApprovalResolvesCritical` | inductive with `TypeOK`: findings are raised only under review or while changes are requested, resolved ones are never reopened, and `RecordDecision` tests the rest |
| `DecisionsMatched` | `DecisionMatchesStatus` | inductive with `TypeOK`, per assessment |
| `OneDecisionEach` | `OneDecisionPerSubmission` | inductive with `TypeOK`: submissions and decisions alternate |
| `ReviewedIsSubmitted` | `ReviewedResponsesAreSubmitted` | inductive with `TypeOK`, `SubmittingIsEditable` and `CountsAreRight`: what was counted is still so unless a save committed since, and one that commits later is recorded in `overtaken` |
| `OpenTaskTracked` | `OpenTaskTracksReview` | inductive with `TypeOK`: a submission leaves a task open, and only decisions complete it |
| `OnboardingReflected` | `OnboardingReflectsDecisions` | inductive with `TypeOK`: only a terminal decision makes an assessment decided, and it writes the onboarding status in the same step |
| `DecisionsAreFinal` | `DecidedIsFinal` | a step property: no action is enabled that writes a decided assessment's rows |
| `ClosedOnlyEnds` | `ClosedAssessmentOnlyEnds` | a step property: what lets a save through or begins a submission is `CanEdit`, and a commit takes itself out of what is under way |
| `StatusMachines` | `StatusMachinesRespected` | a step property: one lemma for each transition table |
| `ImplementsPromise` | `KeepsThePromise` | the refinement of `Qualification`: under `TypeOK` and the two invariants of submissions each step about an assessment is a step there, or changes nothing that is seen |
| `PromiseIsConclusive` | `Conclusive` of `Qualification` | inductive over the steps of `Qualification` alone, as which the theorem before sees those of the workflow |

The invariants are stated per assessment or finding (`Mirrored`, `DecisionAgrees`,
`ReviewsTheLastSnapshot`), and the step lemmas split on whether the action is about that
one; `KindsOfStep` says once which steps move records of reviews, which move findings
and which neither. For the refinement, `UnseenStep` says which rows may change without
`Qualification` noticing, `SameTurn` which statuses it does not tell apart, `SeenAs` how
a function that moves one assessment is seen, and `FindingStep` treats the functions
that move a finding.

`DocumentLifecycleProofs` proves, for every set of documents and finalize requests
and every number of versions, from `VersionsAssumption`, `OutcomesAssumption` and
`RequestsAssumption`:

| theorem | property | argument |
| --- | --- | --- |
| `TypeCorrect` | `TypeOK` | inductive as it stands; `Appended` and `Rewritten` keep the three columns of a version equally long |
| `LineageKept` | `LineageConsistent` | inductive with `TypeOK` and `FinalizingStored`: a request that is about to commit has seen its object in Storage, and objects stay. Without it a version could become current that has never arrived |
| `SnapshotsKept` | `SnapshotVersionsStay` | inductive with `LineageConsistent` and `CountedIsReadyOrReplaced`: until the copy, what was counted is ready or was superseded by an arrival; a snapshot cites ready versions, and what is ready is superseded and nothing else |
| `VersionsFollowMachine` | `VersionStateMachine` | a step property, from `VersionsChange` |
| `EvidenceStays` | `EvidenceLostOnlyByReplacement` | a step property: a ready version in place changes only by the arrival of its successor |
| `ImplementsShelf` | `KeepsTheShelf` | the refinement of `EvidenceShelf`: under `LineageConsistent` an arrival, a verdict about a current version and a submission are the shelf's, and all else is not seen there |

`VersionStep` lists the ways a version changes with the cause of each, and
`CurrentStep` the ways a document's current version does; `VersionsChange` proves
both once, and the invariants, the step properties and the refinement read them off.

`SubmissionRaceProofs` proves, for any finite set of questions with any gates, any
submitters and writers and every bound, from `QuestionsAssumption`,
`SubmittersAssumption` and `BoundAssumption`:

| theorem | property | argument |
| --- | --- | --- |
| `TypeCorrect` | `TypeOK` | inductive as it stands |
| `OneSnapshot` | `OneSnapshotPerTurn` | inductive with `LockHeld`: who is past the row lock holds it, so that of many submitters one counts and inserts |
| `ImplementsPromise` | `KeepsThePromise` | from `ExactAlways`, the invariant of `UndisturbedIsExact`: the commit is the one step that is seen, and what it hands over is complete unless something disturbed it |
| `UndisturbedIsExact` | `UndisturbedSubmissionIsExact` | inductive with `LockHeld` and `CountsHold`: as long as nothing disturbed the submission, what each finished statement counted is still so. That equal counts mean every visible question is answered is a fact of finite sets, the reason why questions are finite |

`DeskProofs` proves about `SupplierDesk`, for any questions, gates, first rows and roles
and every bound, from `DeskAssumption`:

| theorem | property | argument |
| --- | --- | --- |
| `TypeCorrect` | `TypeOK` | inductive as it stands; it contains that what the triggers refuse is never in a row |
| `ReadOnlyPageIsTrue` | `ReadOnlyPageShowsSubmission` | inductive with `TypeOK`, `CopyInv` and `TurnInv`: the rows are the copy but for those overtaken, and no page and no reload is of a submission that is still to come. A reload reads the assessment first, so rows read under a submission are the submission's or overtaken |
| `RefusalsAreExplained` | `RefusedOnlyForEvidenceOrStatus` | from `CompleteInv` and `CountsInv`: rows are never deleted, so the answers the dialog was offered for are there when they are counted, and the first count still holds unless a row was overtaken |
| `RestIsHonest` | `RestingFieldIsHonest` | from `PageInv` and `HonestInv` |
| `SavedIsSubmitted` | `SavedAnswersAreSubmitted` | a step property, from the same and the label: a quiet undisturbed field that says saved is its row, and the commit copies the rows |
| `ImplementsPromise` | `KeepsThePromise` | with `TypeOK`, `LockInv` and `CountsInv`: `ServerStep` lists the ways rows, status and lock change; each is a step of handing over, or a row that changes in a turn in which nobody holds the rows |

`RestingFieldIsHonest` speaks only of fields with no timer and no request. `HonestField`
says how an undisturbed one gets there: at most one save is its own; the save
carries the field's value unless the timer runs again; once it is stored the row
has its value; and with neither timer nor save the field shows the row or the
error. `PageInv` says which saves a page that was left or failed has orphaned. The
lemmas follow a save from the timer to the reload.

About `ReviewDesk`, which it instantiates as `Review` (variables that both pages have
by the same name are renamed), it proves, for any roles, severities and bounds, from
`ReviewAssumption`:

| theorem | property | argument |
| --- | --- | --- |
| `ReviewTypeCorrect` | `TypeOK` | inductive, in three parts: the rows, the pages and the requests. A request on its way is one the pages can make (`Works`), without which a function could write anything |
| `ReviewImplementsPromise` | `KeepsThePromise` | with `TypeOK`: `ReviewRows` lists the ways the rows change, and each is a step of `Qualification`: a finding is raised in either side's turn, and one that is answered or judged was unresolved before |
| `AnnouncementsAreUnderWay` | `AnnouncedIsUnderWay` | inductive with the types and `LoadInv`: a load that has read the assessment while something announced was unseen has read it after the announcement |

`EdgeFunctionsProofs` proves, for any suppliers, buyers, sets of failing checks and
bounds, from `EdgeAssumption`:

| theorem | property | argument |
| --- | --- | --- |
| `TypeCorrect` | `TypeOK` | part of the invariant `CallInv` |
| `BeliefsAreJustified` | `BeliefIsJustified` | what `CallInv` says of a call that has ended |
| `EvidenceIsKept` | `EvidenceKept` | a step property: no token or version is taken back, no stored object replaced, no uploaded version reopened |
| `ImplementsPromise` | `KeepsThePromise` | with `TypeOK`: `EffectPromised` takes each function's commit to a step of `Qualification`, `OthersPromised` what the rest of the world does |
| `RepeatsStaySafe` | `RepeatsAreSafe` | inductive with `CallInv` and `UsedUp`: once a wish that adds no record is committed, its record is in a state in which the function refuses it, until somebody else reopens it |

`CallInv` adds to `TypeOK`, for each user, what each phase of a call knows:
`PhasesOf` which functions have which phases, `ResultsOf` that what an answer is
about to hand over exists, `SuccessOf` that a success is on its way only after a
commit of the wish, and `RefusalOf` that a refusal reaches no user who saw every
answer and whose wish was committed. Nothing less is inductive: an answer on its way is
not yet believed, and the belief must be justified when it arrives. `EvidenceIsKept`
is what carries it over the steps of the others.

`WorkspaceAccessProofs` proves, for any users, first members and bounds, from
`AccessAssumption` (an organization that exists has an active owner):

| theorem | property | argument |
| --- | --- | --- |
| `TypeCorrect` | `TypeOK` | part of `AccessInv`, with the bound on invitations |
| `ScreensAreOnesOwn` | `ScreenBelongsToUser` | from `KnownRows`: what is cached or loading under a user's name is of organizations the user has a seat in, and seats are never deleted |
| `OwnersStay` | `OwnersStand` | inductive with `TypeOK`: `can_manage_membership` asks for a rank above the member's, which nobody has over an owner |
| `OriginOfOrganizations` | `OneOrganizationPerInvitation` | inductive with `TypeOK`, `LinkOpened` and `OneLinkWorks`: `InvitesStep` lists the ways invitations, organizations and owners change, and the one that adds an organization uses up the link that was opened. Counting the accepted ones is a fact of finite sets |
| `LatestLinkOnly` | `OneLinkWorks` | of the links to an address one at most is pending, from the same induction |

`DocumentJobsProofs` proves, for every number of messages, runs and attempts,
every batch size and registry capacity and every number of faults, from
`CountAssumption`, `LimitAssumption` and `NoMessageAssumption`:

| theorem | property | argument |
| --- | --- | --- |
| `TypeCorrect` | `TypeOK` | inductive with `BusyWithMessage`: a run past the choice of a message has one. The registry stays a sequence of verdicts by two lemmas on `MoveToEnd` and `Remember` |
| `WorkKept` | `WorkIsNeverLost` | inductive with `TypeCorrect` and `ArchivesProcessed`, without which an archive could drop a message whose version is still uploaded: only `Complete` leads to the archive step, and a processed version stays processed |
| `RunOnce` | `JobsRunOnce` | inductive with `TypeOK`: what is remembered after a step was remembered before it or is the request that left `running` in it |
| `VerdictKept` | `VerdictIsFinal` | a step property: only `Complete` writes a version, and only an uploaded one |
| `ImplementsShelf` | `KeepsTheShelf` | from the same fact: on the shelf a completion is the judgement of waiting evidence, and nothing else is seen |

`ProgramBuilderProofs` proves, for any users and every bound on versions and
definitions, from `BuilderAssumption`:

| theorem | property | argument |
| --- | --- | --- |
| `TypeCorrect` | `TypeOK` | part of the invariant `Inv` below |
| `ImplementsLine` | `KeepsTheLine` | the initial states map to the line's; under `Inv` the insertion of a draft is `AddDraft`, the switch is `Publish`, and every other step changes neither |
| `DeadlocksAreRepeats` | `OnlyRepeatsDeadlock` | under `Inv` the one version a publication waits for is the active one, and that is the current one |

`KeepsTheLine` is not inductive: that an inserted draft has the next number follows
from what a page knew when it sent it. `Inv` has five parts besides `TypeOK`:
`Shape` says what the statuses look like around the current version; `ViewInv` that
a page shows such a shape with an earlier current version; `CreationInv` that nothing
can be asked for before there is a version; `RequestInv` that no draft under way is
numbered beyond the next one, which the unique number then turns into exactly the
next one or an error; `PublishInv` that a publication with both locks is alone and
its version is the draft. `LatestIsCurrent` and `SelectedIsVersion` are the lemmas on
what a page computes; the step lemmas treat mutations that are sent, mutations that
go on without touching the tables, and the four that touch them.

The theorems state every invariant, every action property and every refinement of the
runs. Some theorems are no property of a run, because a stronger one is checked there:
`StatusMachines`, `OneDecisionEach`, `OnboardingReflected`, `VerdictKept`,
`PromiseIsConclusive`, `LatestLinkOnly`, `EvidenceIsKept` and the type invariants.

Only model-checked are the liveness properties, which the installed provers cannot
prove: `PendingIsTransient`, `EveryJobSettles`, `EveryEditComesToRest`,
`OwnActionsAppear`, `ReviewsEnd` and `SuspendedMemberLeaves`; and the three runs that
end with a counterexample, of which there is nothing to prove.

## Disagreements between code and documentation

Three runs end with a counterexample.

* `submission_incomplete`: response rows changed between the counts and the copy
  make an incomplete submission (workflows 1133; `README.md`, "An incomplete
  assessment is blocked"). The same holds of documents: they are selected again
  for the snapshot (workflows 1183): `DocumentLifecycle` has the upload that replaces a
  counted version before the copy, which then names no version of that document.
* `review_blocked`: no page and no function of the application calls
  `verify_corrective_action` or `request_assessment_changes`, and the decision page
  disables every decision, also a rejection, while a critical finding is neither
  verified nor closed (`DecisionWorkspacePage.tsx` 251): such a review never ends,
  although `README.md` 43 lists "corrective-action verification" among what works.
* `invitation_resume`: whoever follows an invitation, signs up and opens the
  verification link is told that there is no organization; the page that says
  "Invitation acceptance resumes after sign-in" (`AuthPages.tsx` 178) keeps the path
  to the invitation only when the user signs in by the link on that page.

Others the models show, without a run of their own:

* The prior version is superseded when the replacement's bytes arrive (workflows
  972), not when it is accepted (`DATA_MODEL.md` 183): a replacement that is rejected
  leaves nothing ready.
* Finalization looks at neither the relationship nor the assessment (workflows 953):
  evidence changes under a suspension (`relationship-authorization.md` 149), and no
  property says otherwise: `ClosedAssessmentOnlyEnds` is about answers and submissions.
* The trigger that locks responses reads the status without a lock (core schema
  908), so a write it let through commits after the submission, or after the decision, and
  changes the rows of an assessment that is locked (test 020, line 104); the modules have
  this step, and `ReviewedResponsesAreSubmitted`, `ReadOnlyPageShowsSubmission` and
  `ClosedAssessmentOnlyEnds` say what it leaves true. The snapshot keeps the old answer;
  the reviewer's page reads the rows, and the latest document versions, although
  `reviewer-workflow.md` 44 says it shows the snapshot.
* The attempt number is part of the digest of a request (`queue.ts` 167), so a retry
  of a job the service has completed is always refused with a conflict, and a job
  that was done but whose archiving failed is counted among the dead letters;
  `SECURITY.md` 120 says the consumers are idempotent.
* The trigger that protects program definitions reads without a lock (core schema
  1021): a definition checked before a publication is inserted into the published
  version (`README.md` 139, "Published program versions cannot be edited").
* A program whose second creation request failed is refused by its page for ever.

Seen while modelling, with no text that claims the contrary: the page's check that no
required document is rejected reads a column that never says so (`assessment.ts` 38, core
schema 338), so that it offers what the server refuses; a version replaced
while it is being processed stays `ready` beside its replacement; a review of a
version that is not current sets the document's status; a review note typed for one
version stays in its box and is recorded on the next; the expected-status check of
`transition_assessment` does not tell two resubmissions apart; the findings list
shows the oldest corrective action, the detail page the latest; the audit event of a
first submission records `in_progress` also from `draft`; the limit of five attempts is
applied by the run that survives the failure; multiple selections cannot be saved and
answers cannot be cleared; optional descriptions of sections and requirements are
sent as null to columns that are not nullable; a one-character supplier name passes
the parser and fails the table; saving an organization's profile is refused by its
policies; members can be suspended and not reinstated from the page; the
acceptance page always creates an organization where the relationships page
announces a choice; repeated acceptances, submissions and decisions after a lost
answer are refused as conflicts, while repeated findings, invitations, reservations
and reports add another record.

## What is not modelled

* What risk, report and notification jobs store, the hourly expiry of invitations,
  and reminders: their deliveries are those of `DocumentJobs`.
* Storage bytes, checksums, PDF inspection, CSV import and PDF layout: byte-level
  functions with no state. Risk scores and the completeness of one answer sheet
  are pure functions of a request.
* The reviewer lab: a loopback demonstration that is never mounted in the product.
* Row-level read policies and audit rows: they filter or report and nothing depends
  on them. A realtime broadcast is a reload that may come at any time or never.
* Expiry dates of evidence: a submission refused for an expired document is one that is
  abandoned (`AbandonSubmission`, `AbandonSubmit`), which may happen to each.
* The rendering of pages that list rows (dashboard, queues of findings, audit,
  notifications, programs); seed data, build and verification scripts.
* In `ProgramBuilder` a section with a question and a document requirement are one
  kind of definition, and a load is one moment; in `WorkspaceAccess` one browser is
  followed.

## The plan

What adds most next, in this order. Modules with theorems use no RECURSIVE
operator; each has its parameters as constants with named assumptions.

1. `RiskAndReports`: evaluations stored after inputs were read, report objects and
   rows under retries, as a module over `DocumentJobs`' deliveries.
2. `QuestionRules`: visibility and completeness, client and server, as functions
   checked against a reference definition.
