-------------------------- MODULE DocumentLifecycle ---------------------------
(***************************************************************************)
(* The evidence of one supplier relationship: one document per document    *)
(* requirement of the program version, the versions uploaded for it, and   *)
(* what one assessment makes of them.                                      *)
(*                                                                         *)
(* Uploading takes three calls of the client: create-document-upload       *)
(* reserves a version, Storage takes the object, finalize-document-upload  *)
(* verifies the object and commits.  The last is an Edge Function: what it *)
(* read before the commit may be stale at the commit, so it is two steps   *)
(* here, run by a request.  Processing is the transaction that ends a job  *)
(* of the document_processing queue; the queue itself, with its retries,   *)
(* is the subject of DocumentJobs.                                         *)
(*                                                                         *)
(* Two functions of the database are two steps as well.  A reservation is  *)
(* authorized before it waits for the assessment's row.  submit_assessment *)
(* counts the ready documents in one statement and selects them for the    *)
(* snapshot in a later one; it locks the assessment, and no document.      *)
(*                                                                         *)
(* An object is in Storage when it matches its reservation: one of another *)
(* size, type or checksum blocks the path and never finalizes, just as no  *)
(* object does.  A version is the pair of its document and version_number. *)
(***************************************************************************)
EXTENDS Naturals, Sequences

CONSTANTS
    Documents,      \* the required documents of the relationship
    Requests,       \* finalize requests that may run at the same time
    None,           \* a request that is not running
    ReviewOutcomes, \* the outcomes reviewers record
    MaxVersions     \* bound on the versions of one document

ASSUME VersionsAssumption == MaxVersions \in Nat
ASSUME OutcomesAssumption ==
    ReviewOutcomes \subseteq {"accepted", "rejected", "replacement_requested"}
ASSUME RequestsAssumption == None \notin Documents \X (1 .. MaxVersions)

VARIABLES
    active,     \* relationship_status is active
    phase,      \* the assessment: editable, in review or decided
    reserving,  \* documents a reservation has been authorized for
    submitting, \* submit_assessment has counted the evidence and found it ready
    versions,   \* document_versions.upload_status, by version_number
    stored,     \* versions whose object is in Storage
    finalizing, \* the version a finalize request has verified
    current,    \* documents.current_version_id as a version_number, 0 for null
    docStatus,  \* documents.status, "absent" before the insert
    review,     \* document_reviews.status of the assessment, by version_number
    cited,      \* versions named by any submission snapshot
    latest      \* version_number in the latest snapshot, 0 for none

vars == <<active, phase, reserving, submitting, versions, stored, finalizing, current, docStatus,
          review, cited, latest>>

VersionIds == Documents \X (1 .. MaxVersions)

UploadStatuses == {"pending_upload", "uploaded", "ready", "rejected", "superseded"}

LegalVersionTransition(from, to) ==
    \/ from = "pending_upload" /\ to \in {"uploaded", "rejected"}
    \/ from = "uploaded"       /\ to \in {"processing", "rejected"}
    \/ from = "processing"     /\ to \in {"ready", "rejected"}
    \/ from = "ready"          /\ to = "superseded"

-----------------------------------------------------------------------------
\* The assessment exists, is editable and has no evidence yet.
Init ==
    /\ active     = TRUE
    /\ phase      = "editable"
    /\ reserving  = {}
    /\ submitting = FALSE
    /\ versions   = [d \in Documents |-> <<>>]
    /\ stored     = {}
    /\ finalizing = [r \in Requests |-> None]
    /\ current    = [d \in Documents |-> 0]
    /\ docStatus  = [d \in Documents |-> "absent"]
    /\ review     = [d \in Documents |-> <<>>]
    /\ cited      = {}
    /\ latest     = [d \in Documents |-> 0]

Numbers(d) == 1 .. Len(versions[d])

Pending(d, v) == v \in Numbers(d) /\ versions[d][v] = "pending_upload"

\* create_document_version asks can_edit_assessment ...
RequestVersion(d) ==
    /\ active /\ phase = "editable"
    /\ d \notin reserving /\ Len(versions[d]) < MaxVersions
    /\ reserving' = reserving \union {d}
    /\ UNCHANGED <<active, phase, submitting, versions, stored, finalizing, current, docStatus,
                   review, cited, latest>>

Slip_ReservationIsCurrent(d) ==
    /\ d \in reserving /\ ~ submitting
    /\ reserving' = reserving \ {d}
    /\ versions'  = [versions EXCEPT ![d] = Append(@, "pending_upload")]
    /\ review'    = [review EXCEPT ![d] = Append(@, "none")]
    /\ docStatus' = [docStatus EXCEPT ![d] = IF @ = "absent" THEN "draft" ELSE @]
    /\ current'   = [current EXCEPT ![d] = Len(versions[d]) + 1]
    /\ UNCHANGED <<active, phase, submitting, stored, finalizing, cited, latest>>

\* ... and then waits for the assessment's row: what has happened to it by then is
\* not looked at.  The document row is locked, so numbers are unique.
ReserveVersion(d) ==
    /\ d \in reserving /\ ~ submitting
    /\ reserving' = reserving \ {d}
    /\ versions'  = [versions EXCEPT ![d] = Append(@, "pending_upload")]
    /\ review'    = [review EXCEPT ![d] = Append(@, "none")]
    /\ docStatus' = [docStatus EXCEPT ![d] = IF @ = "absent" THEN "draft" ELSE @]
    /\ UNCHANGED <<active, phase, submitting, stored, finalizing, current, cited, latest>>

\* The requirement refuses the file, or the call fails.
ReservationFails(d) ==
    /\ d \in reserving
    /\ reserving' = reserving \ {d}
    /\ UNCHANGED <<active, phase, submitting, versions, stored, finalizing, current, docStatus,
                   review, cited, latest>>

\* The signed URL of the reservation works for two hours whatever becomes of
\* the relationship and the assessment.
UploadObject(d, v) ==
    /\ versions[d][v] = "pending_upload"
    /\ <<d, v>> \notin stored
    /\ stored' = stored \union {<<d, v>>}
    /\ UNCHANGED <<active, phase, reserving, submitting, versions, finalizing, current,
                   docStatus,
                   review, cited, latest>>

\* The Edge Function has found the version pending and the object as promised.
\* Any participant of the relationship may call it; the buyer always is one.
BeginFinalize(r, d, v) ==
    /\ finalizing[r] = None
    /\ versions[d][v] = "pending_upload"
    /\ <<d, v>> \in stored
    /\ finalizing' = [finalizing EXCEPT ![r] = <<d, v>>]
    /\ UNCHANGED <<active, phase, reserving, submitting, versions, stored, current,
                   docStatus, review,
                   cited, latest>>

Slip_AwaitsUpload(d, v) == versions[d][v] \in {"pending_upload", "rejected"}

\* What finalize_document_upload requires of the version it has locked.
AwaitsUpload(d, v) == versions[d][v] = "pending_upload"

\* A ready current version is superseded, the new one takes its place and a
\* processing job is sent, in one transaction.  Neither the relationship nor
\* the assessment is looked at.
CommitFinalize(r, d, v) ==
    /\ finalizing[r] = <<d, v>>
    /\ AwaitsUpload(d, v)
    /\ versions'   = [versions EXCEPT ![d] =
                        [n \in Numbers(d) |->
                            IF n = v THEN "uploaded"
                            ELSE IF n = current[d] /\ versions[d][n] = "ready"
                                 THEN "superseded" ELSE versions[d][n]]]
    /\ current'    = [current EXCEPT ![d] = v]
    /\ docStatus'  = [docStatus EXCEPT ![d] = "submitted"]
    /\ finalizing' = [finalizing EXCEPT ![r] = None]
    /\ UNCHANGED <<active, phase, reserving, submitting, stored, review, cited, latest>>

\* The request is refused at the commit, times out or is killed.
FinalizeFails(r) ==
    /\ finalizing[r] # None
    /\ finalizing' = [finalizing EXCEPT ![r] = None]
    /\ UNCHANGED <<active, phase, reserving, submitting, versions, stored, current,
                   docStatus, review,
                   cited, latest>>

Slip_Processable(d, v) == versions[d][v] \in {"uploaded", "ready"}

\* "processing" is never committed: the function passes through it.
Processable(d, v) == versions[d][v] = "uploaded"

Slip_ProcessingCommitted(d, v, succeeded) ==
    /\ Processable(d, v)
    /\ versions' = [versions EXCEPT ![d][v] = IF succeeded THEN "processing" ELSE "rejected"]
    /\ UNCHANGED <<active, phase, reserving, submitting, stored, finalizing, current,
                   docStatus, review,
                   cited, latest>>

\* complete_document_processing, at the end of any delivery of the job.
CompleteProcessing(d, v, succeeded) ==
    /\ Processable(d, v)
    /\ versions' = [versions EXCEPT ![d][v] = IF succeeded THEN "ready" ELSE "rejected"]
    /\ UNCHANGED <<active, phase, reserving, submitting, stored, finalizing, current,
                   docStatus, review,
                   cited, latest>>

\* The nightly job, for each version reserved more than a day ago.
AbandonUpload(d, v) ==
    /\ versions[d][v] = "pending_upload"
    /\ current[d] # v
    /\ versions' = [versions EXCEPT ![d][v] = "rejected"]
    /\ UNCHANGED <<active, phase, reserving, submitting, stored, finalizing, current,
                   docStatus, review,
                   cited, latest>>

\* record_document_review takes any version of the relationship in any status,
\* and keeps one review per version.
RecordReview(d, v, outcome) ==
    /\ review'    = [review EXCEPT ![d][v] = outcome]
    /\ docStatus' = [docStatus EXCEPT ![d] = IF outcome = "rejected" THEN @ ELSE outcome]
    /\ UNCHANGED <<active, phase, reserving, submitting, versions, stored, finalizing,
                   current, cited, latest>>

Slip_EvidenceReady(d) == current[d] # 0

\* submit_assessment counts a required document whose current version is ready.
EvidenceReady(d) == current[d] # 0 /\ versions[d][current[d]] = "ready"

\* Every required document is found ready ...
BeginSubmit ==
    /\ active /\ phase = "editable" /\ ~ submitting
    /\ \A d \in Documents : EvidenceReady(d)
    /\ submitting' = TRUE
    /\ UNCHANGED <<active, phase, reserving, versions, stored, finalizing, current, docStatus,
                   review, cited, latest>>

\* ... and those that are ready now, in whatever version, are named.
CommitSubmit ==
    /\ submitting
    /\ submitting' = FALSE
    /\ phase'  = "in_review"
    /\ cited'  = cited \union {<<d, current[d]>> : d \in {e \in Documents : EvidenceReady(e)}}
    /\ latest' = [d \in Documents |-> IF EvidenceReady(d) THEN current[d] ELSE 0]
    /\ UNCHANGED <<active, reserving, versions, stored, finalizing, current, docStatus, review>>

\* The answers are incomplete, a document has expired, or the call fails.
AbandonSubmit ==
    /\ submitting
    /\ submitting' = FALSE
    /\ UNCHANGED <<active, phase, reserving, versions, stored, finalizing, current, docStatus,
                   review, cited, latest>>

\* request_assessment_changes, a deferral, or a terminal decision.
Review(next) ==
    /\ phase = "in_review"
    /\ phase' = next
    /\ UNCHANGED <<active, reserving, submitting, versions, stored, finalizing, current,
                   docStatus,
                   review, cited, latest>>

SuspendOrReinstate ==
    /\ active' = ~ active
    /\ UNCHANGED <<phase, reserving, submitting, versions, stored, finalizing, current,
                   docStatus,
                   review, cited, latest>>

-----------------------------------------------------------------------------
Next ==
    \/ \E d \in Documents : RequestVersion(d)
    \/ \E d \in Documents : ReserveVersion(d)
    \/ \E d \in Documents : ReservationFails(d)
    \/ \E d \in Documents : \E v \in Numbers(d) : UploadObject(d, v)
    \/ \E r \in Requests, d \in Documents : \E v \in Numbers(d) : BeginFinalize(r, d, v)
    \/ \E r \in Requests, d \in Documents : \E v \in Numbers(d) : CommitFinalize(r, d, v)
    \/ \E r \in Requests : FinalizeFails(r)
    \/ \E d \in Documents, succeeded \in BOOLEAN : \E v \in Numbers(d) :
           CompleteProcessing(d, v, succeeded)
    \/ \E d \in Documents : \E v \in Numbers(d) : AbandonUpload(d, v)
    \/ \E d \in Documents, outcome \in ReviewOutcomes : \E v \in Numbers(d) :
           RecordReview(d, v, outcome)
    \/ BeginSubmit
    \/ CommitSubmit
    \/ AbandonSubmit
    \/ \E next \in {"editable", "decided"} : Review(next)
    \/ SuspendOrReinstate

Spec == Init /\ [][Next]_vars

\* Cron runs every night, so a version that stays pending is found in the end.
Nightly ==
    \A d \in Documents, v \in 1 .. MaxVersions :
        WF_vars(v \in Numbers(d) /\ AbandonUpload(d, v))

FairSpec == Spec /\ Nightly

-----------------------------------------------------------------------------
(* Invariants                                                              *)

\* Types, and the three columns of a version that grow together.
TypeOK ==
    /\ active     \in BOOLEAN
    /\ phase      \in {"editable", "in_review", "decided"}
    /\ reserving  \subseteq Documents
    /\ submitting \in BOOLEAN
    /\ versions   \in [Documents -> Seq(UploadStatuses)]
    /\ stored     \subseteq VersionIds
    /\ finalizing \in [Requests -> VersionIds \union {None}]
    /\ current    \in [Documents -> 0 .. MaxVersions]
    /\ docStatus  \in [Documents -> ReviewOutcomes \union {"absent", "draft", "submitted"}]
    /\ review     \in [Documents -> Seq(ReviewOutcomes \union {"none"})]
    /\ cited      \subseteq VersionIds
    /\ latest     \in [Documents -> 0 .. MaxVersions]
    /\ \A d \in Documents :
           /\ Len(versions[d]) <= MaxVersions /\ (d \in reserving => Len(versions[d]) < MaxVersions)
           /\ Len(review[d]) = Len(versions[d])

\* The current version of a document is one that has arrived and has not been
\* replaced; before the first arrival there is none, and every version that has
\* arrived, in whatever order uploads overtake each other, was verified in
\* Storage.
Lineage(d) ==
    /\ current[d] = 0 => \A v \in Numbers(d) : versions[d][v] \in {"pending_upload", "rejected"}
    /\ current[d] # 0 =>
           current[d] \in Numbers(d) /\ versions[d][current[d]] \in {"uploaded", "ready", "rejected"}
    /\ \A v \in Numbers(d) :
           versions[d][v] \in {"uploaded", "ready", "superseded"} => <<d, v>> \in stored

LineageConsistent == \A d \in Documents : Lineage(d)

\* "exact ready document-version references": every version a snapshot names
\* was ready when it was copied and is ready or superseded ever after, never
\* rejected under the reviewers; and an assessment in review or decided names a
\* version of every required document, but for one that was counted ready and had
\* its version replaced by an upload before the copy.
SnapshotVersionsStay ==
    /\ \A id \in cited :
           id[2] \in Numbers(id[1]) /\ versions[id[1]][id[2]] \in {"ready", "superseded"}
    /\ phase # "editable" =>
           \A d \in Documents :
               \/ <<d, latest[d]>> \in cited
               \/ latest[d] = 0 /\ \E v \in Numbers(d) : versions[d][v] = "superseded"

-----------------------------------------------------------------------------
(* Action and liveness properties                                          *)

\* The state machine of versions: no function runs into the trigger
\* document_version_state_machine, whatever is retried or delivered twice.
\* complete_document_processing writes "processing" on its way.
VersionStateMachine ==
    [][\A d \in Documents : \A v \in Numbers(d) :
           LET from == versions[d][v]
               to   == versions'[d][v]
           IN  \/ to = from
               \/ LegalVersionTransition(from, to)
               \/ /\ LegalVersionTransition(from, "processing")
                  /\ LegalVersionTransition("processing", to)]_vars

\* Evidence that is ready is lost only to an upload that takes its place: no
\* late job, review or nightly job takes a ready current version away.
EvidenceLostOnlyByReplacement ==
    [][\A d \in Documents :
           EvidenceReady(d) /\ current'[d] = current[d] =>
               versions'[d][current[d]] = "ready"]_vars

\* What lies on the shelf is the current version.
Shelved(d) ==
    IF current[d] = 0 THEN "empty"
    ELSE CASE versions[d][current[d]] = "uploaded" -> "waiting"
           [] versions[d][current[d]] = "ready"    -> "ready"
           [] versions[d][current[d]] = "rejected" -> "refused"
           [] OTHER                                -> "lost"

Shelf == INSTANCE EvidenceShelf WITH
    shelf <- [d \in Documents |-> Shelved(d)],
    phase <- IF submitting THEN "checked" ELSE phase,
    named <- {d \in Documents : latest[d] # 0}

\* Overtaking uploads, late verdicts, abandoned reservations and reviews are all
\* invisible to who looks at the current version only, and a submission copies what
\* is ready after all was: the detailed system implements the shelf.
KeepsTheShelf == Shelf!Spec

\* A reservation is either used or cleaned up: none stays pending for ever
\* (cron job scw-abandoned-upload-review).
PendingIsTransient ==
    \A d \in Documents, v \in 1 .. MaxVersions :
        Pending(d, v) ~> ~ Pending(d, v)

=============================================================================
