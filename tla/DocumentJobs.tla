----------------------------- MODULE DocumentJobs -----------------------------
(***************************************************************************)
(* The document_processing queue: what pgmq keeps, the runs of the         *)
(* process-queues function that empty it, the registry of completed jobs   *)
(* in the FastAPI service, and complete_document_processing.               *)
(*                                                                         *)
(* A run reads a batch of messages, which hides them for 60 seconds, and   *)
(* processes them one after the other: a PDF is sent to the service, which *)
(* validates it; the verdict is stored by complete_document_processing;    *)
(* the message is archived.  Anything that fails leaves the message to be  *)
(* delivered again, or moves it to the dead-letter queue once it has been  *)
(* read MaxAttempts times.                                                 *)
(*                                                                         *)
(* The service identifies a request by the job and a digest of the whole   *)
(* request, of which the number of the attempt is a part.  Runs overlap.   *)
(* A message that is being processed may be delivered again: five messages *)
(* share one visibility timeout of 60 seconds, and a call to the service   *)
(* alone may take 20.                                                      *)
(*                                                                         *)
(* The job and its document version are one: finalize_document_upload      *)
(* sends one message for each version it moves to uploaded.                *)
(***************************************************************************)
EXTENDS Naturals, FiniteSets, Sequences

CONSTANTS
    JobCount,       \* messages, by their msg_id
    Pdfs,           \* the ones about a PDF: others are not sent to the service
    Runs,           \* concurrent runs of processQueue
    BatchSize,      \* messages read at once: 5 in the code
    MaxAttempts,    \* reads after which a failure is final: 5 in the code
    Capacity,       \* completed jobs the service remembers: 2000 in the code
    NoMessage,      \* a run is between two messages
    MaxFaults       \* bound on crashes, early redeliveries and lost burials

Jobs     == 1 .. JobCount
Messages == [job : Jobs, attempt : Nat \ {0}]

ASSUME CountAssumption == JobCount \in Nat /\ Pdfs \subseteq Jobs
ASSUME LimitAssumption ==
    /\ BatchSize \in Nat \ {0}
    /\ MaxAttempts \in Nat \ {0}
    /\ Capacity \in Nat \ {0}
    /\ MaxFaults \in Nat
ASSUME NoMessageAssumption == NoMessage \notin Messages

VARIABLES
    queue,          \* where each message is
    reads,          \* read_ct of each message
    deadLetters,    \* records about it in the dead-letter queue
    version,        \* upload_status of its document version
    batch,          \* messages a run has read and not yet taken up
    current,        \* the message a run is processing
    step,           \* the next step of a run
    verdict,        \* what the service answered it
    running,        \* the requests the service is handling
    completed,      \* the registry of completed jobs, least recent first
    faults          \* faults so far

runVars     == <<batch, current, step, verdict>>
serviceVars == <<running, completed>>
vars == <<queue, reads, deadLetters, version, runVars, serviceVars, faults>>

-----------------------------------------------------------------------------
Visible == {j \in Jobs : queue[j] = "visible"}
Waiting == {"visible", "hidden"}

\* pgmq.read: the oldest visible messages.
Oldest == {j \in Visible : Cardinality({k \in Visible : k < j}) < BatchSize}

\* The message as it is returned, its read_ct already incremented.
Delivered(j) == [job |-> j, attempt |-> reads[j] + 1]

\* Messages a run has read and is not through with.
Held(r) == {m.job : m \in batch[r]} \union
           (IF current[r] = NoMessage THEN {} ELSE {current[r].job})

Remembered == {completed[i].job : i \in 1 .. Len(completed)}

Slip_InFlight(m) == m \in running

\* Whether a request of the message's job is being handled.
InFlight(m) == \E c \in running : c.job = m.job

\* The digest of the request covers job.attempt.
SameRequest(e, m) == e.attempt = m.attempt

MoveToEnd(reg, i) ==
    [k \in 1 .. Len(reg) |-> IF k < i THEN reg[k] ELSE IF k < Len(reg) THEN reg[k + 1] ELSE reg[i]]

\* The registry with one more completed job; the least recent one is evicted.
\* The job is not in it yet: it would not have been run.
Remember(reg, e) ==
    IF Len(reg) < Capacity THEN Append(reg, e) ELSE Tail(Append(reg, e))

Init ==
    /\ queue       = [j \in Jobs |-> "visible"]
    /\ reads       = [j \in Jobs |-> 0]
    /\ deadLetters = [j \in Jobs |-> 0]
    /\ version     = [j \in Jobs |-> "uploaded"]
    /\ batch       = [r \in Runs |-> {}]
    /\ current     = [r \in Runs |-> NoMessage]
    /\ step        = [r \in Runs |-> "next"]
    /\ verdict     = [r \in Runs |-> FALSE]
    /\ running     = {}
    /\ completed   = <<>>
    /\ faults      = 0

-----------------------------------------------------------------------------
(* The queue                                                               *)

Idle(r) == batch[r] = {} /\ current[r] = NoMessage

\* Messages deleted on read.
Slip_ReadBatch(r) ==
    /\ Idle(r)
    /\ Visible # {}
    /\ batch' = [batch EXCEPT ![r] = {Delivered(j) : j \in Oldest}]
    /\ reads' = [j \in Jobs |-> IF j \in Oldest THEN reads[j] + 1 ELSE reads[j]]
    /\ queue' = [j \in Jobs |-> IF j \in Oldest THEN "deleted" ELSE queue[j]]
    /\ UNCHANGED <<deadLetters, version, current, step, verdict, serviceVars, faults>>

ReadBatch(r) ==
    /\ Idle(r)
    /\ Visible # {}
    /\ batch' = [batch EXCEPT ![r] = {Delivered(j) : j \in Oldest}]
    /\ reads' = [j \in Jobs |-> IF j \in Oldest THEN reads[j] + 1 ELSE reads[j]]
    /\ queue' = [j \in Jobs |-> IF j \in Oldest THEN "hidden" ELSE queue[j]]
    /\ UNCHANGED <<deadLetters, version, current, step, verdict, serviceVars, faults>>

\* No redelivery once the attempts are used up.
Slip_VisibilityEnds(j) ==
    /\ queue[j] = "hidden" /\ reads[j] < MaxAttempts
    /\ LET early == \E r \in Runs : j \in Held(r)
       IN  /\ early => faults < MaxFaults
           /\ faults' = IF early THEN faults + 1 ELSE faults
    /\ queue' = [queue EXCEPT ![j] = "visible"]
    /\ UNCHANGED <<reads, deadLetters, version, runVars, serviceVars>>

\* The visibility timeout ends: early, if a run still has the message.
VisibilityEnds(j) ==
    /\ queue[j] = "hidden"
    /\ LET early == \E r \in Runs : j \in Held(r)
       IN  /\ early => faults < MaxFaults
           /\ faults' = IF early THEN faults + 1 ELSE faults
    /\ queue' = [queue EXCEPT ![j] = "visible"]
    /\ UNCHANGED <<reads, deadLetters, version, runVars, serviceVars>>

-----------------------------------------------------------------------------
(* A run of processQueue                                                   *)

GoTo(r, next) == step' = [step EXCEPT ![r] = next]

NextMessage(r) ==
    /\ current' = [current EXCEPT ![r] = NoMessage]
    /\ verdict' = [verdict EXCEPT ![r] = FALSE]
    /\ GoTo(r, "next")

FirstStep(j) == IF j \in Pdfs THEN "call" ELSE "complete"

\* The records of the version are read; its status is not looked at.
Start(r) ==
    /\ step[r] = "next"
    /\ \E m \in batch[r] :
         /\ batch' = [batch EXCEPT ![r] = @ \ {m}]
         /\ current' = [current EXCEPT ![r] = m]
         /\ GoTo(r, FirstStep(m.job))
         /\ verdict' = [verdict EXCEPT ![r] = m.job \notin Pdfs]
    /\ UNCHANGED <<queue, reads, deadLetters, version, serviceVars, faults>>

\* The registry already knows the job: the prior result for the same request,
\* a conflict for another.
CallAnswered(r) ==
    /\ step[r] = "call"
    /\ \E i \in 1 .. Len(completed) :
         /\ completed[i].job = current[r].job
         /\ IF SameRequest(completed[i], current[r])
            THEN /\ completed' = MoveToEnd(completed, i)
                 /\ verdict' = [verdict EXCEPT ![r] = completed[i].verdict]
                 /\ GoTo(r, "complete")
            ELSE GoTo(r, "refused") /\ UNCHANGED <<completed, verdict>>
    /\ UNCHANGED <<queue, reads, deadLetters, version, batch, current, running, faults>>

CallBusy(r) ==
    /\ step[r] = "call"
    /\ current[r].job \notin Remembered
    /\ InFlight(current[r])
    /\ GoTo(r, "refused")
    /\ UNCHANGED <<queue, reads, deadLetters, version, batch, current, verdict, serviceVars,
                   faults>>

CallStarts(r) ==
    /\ step[r] = "call"
    /\ current[r].job \notin Remembered
    /\ ~ InFlight(current[r])
    /\ running' = running \union {current[r]}
    /\ GoTo(r, "waiting")
    /\ UNCHANGED <<queue, reads, deadLetters, version, batch, current, verdict, completed,
                   faults>>

\* The call is aborted after 20 seconds; the service goes on.
Timeout(r) ==
    /\ step[r] = "waiting"
    /\ GoTo(r, "failed")
    /\ UNCHANGED <<queue, reads, deadLetters, version, batch, current, verdict, serviceVars,
                   faults>>

\* Storage, the service or the database cannot be reached.
StepFails(r) ==
    /\ step[r] \in {"call", "complete", "archive"}
    /\ GoTo(r, "failed")
    /\ UNCHANGED <<queue, reads, deadLetters, version, batch, current, verdict, serviceVars,
                   faults>>

Slip_Processable(j) == version[j] \in {"uploaded", "ready", "rejected"}

Processable(j) == version[j] = "uploaded"

\* complete_document_processing; its answer may be lost after it committed.
Complete(r) ==
    /\ step[r] = "complete"
    /\ Processable(current[r].job)
    /\ version' = [version EXCEPT ![current[r].job] =
                       IF verdict[r] THEN "ready" ELSE "rejected"]
    /\ \E answered \in BOOLEAN : GoTo(r, IF answered THEN "archive" ELSE "failed")
    /\ UNCHANGED <<queue, reads, deadLetters, batch, current, verdict, serviceVars, faults>>

\* "document is not processing"
CompleteRefused(r) ==
    /\ step[r] = "complete"
    /\ ~ Processable(current[r].job)
    /\ GoTo(r, "failed")
    /\ UNCHANGED <<queue, reads, deadLetters, version, batch, current, verdict, serviceVars,
                   faults>>

\* pgmq.archive and pgmq.delete do nothing to a message that is gone.
Leave(j, place) ==
    queue' = [queue EXCEPT ![j] = IF @ \in Waiting THEN place ELSE @]

Archive(r) ==
    /\ step[r] = "archive"
    /\ Leave(current[r].job, "archived")
    /\ NextMessage(r)
    /\ UNCHANGED <<reads, deadLetters, version, batch, serviceVars, faults>>

ArchiveUnanswered(r) ==
    /\ step[r] = "archive"
    /\ Leave(current[r].job, "archived")
    /\ GoTo(r, "failed")
    /\ UNCHANGED <<reads, deadLetters, version, batch, current, verdict, serviceVars, faults>>

Exhausted(m) == m.attempt >= MaxAttempts

GiveUp(r) ==
    /\ step[r] \in {"failed", "refused"}
    /\ ~ Exhausted(current[r])
    /\ NextMessage(r)
    /\ UNCHANGED <<queue, reads, deadLetters, version, batch, serviceVars, faults>>

\* dead_letter_compliance_job: the record is sent, then the message is deleted,
\* if it is still there.
Bury(r) ==
    /\ step[r] \in {"failed", "refused"}
    /\ Exhausted(current[r])
    /\ deadLetters' = [deadLetters EXCEPT ![current[r].job] = @ + 1]
    /\ Leave(current[r].job, "deleted")
    /\ NextMessage(r)
    /\ UNCHANGED <<reads, version, batch, serviceVars, faults>>

\* The run ends, with what is left of its batch.
Abandon(r) ==
    /\ batch' = [batch EXCEPT ![r] = {}]
    /\ NextMessage(r)
    /\ faults < MaxFaults
    /\ faults' = faults + 1

\* Nothing catches a failure of the burial itself.
BuryFails(r) ==
    /\ step[r] \in {"failed", "refused"}
    /\ Exhausted(current[r])
    /\ Abandon(r)
    /\ UNCHANGED <<queue, reads, deadLetters, version, serviceVars>>

BuryUnanswered(r) ==
    /\ step[r] \in {"failed", "refused"}
    /\ Exhausted(current[r])
    /\ deadLetters' = [deadLetters EXCEPT ![current[r].job] = @ + 1]
    /\ Leave(current[r].job, "deleted")
    /\ Abandon(r)
    /\ UNCHANGED <<reads, version, serviceVars>>

\* The function is stopped: its host, or its time limit.
Crash(r) ==
    /\ ~ Idle(r)
    /\ Abandon(r)
    /\ UNCHANGED <<queue, reads, deadLetters, version, serviceVars>>

-----------------------------------------------------------------------------
(* The service                                                             *)

\* The run that waits for the request, unless it gave up waiting.
Answer(m, next, v) ==
    /\ step' = [r \in Runs |-> IF step[r] = "waiting" /\ current[r] = m
                               THEN next ELSE step[r]]
    /\ verdict' = [r \in Runs |-> IF step[r] = "waiting" /\ current[r] = m
                                  THEN v ELSE verdict[r]]

\* The verdict may differ between attempts: it depends on the day.
HandlerEnds(m) ==
    /\ running' = running \ {m}
    /\ \E v \in BOOLEAN :
         /\ completed' = Remember(completed, [job |-> m.job, attempt |-> m.attempt, verdict |-> v])
         /\ Answer(m, "complete", v)
    /\ UNCHANGED <<queue, reads, deadLetters, version, batch, current, faults>>

\* The handler raises, on a file it cannot read: nothing is remembered.
HandlerRaises(m) ==
    /\ running' = running \ {m}
    /\ Answer(m, "failed", FALSE)
    /\ UNCHANGED <<queue, reads, deadLetters, version, batch, current, completed, faults>>

\* The registry is in memory.
ServiceRestarts ==
    /\ running # {} \/ completed # <<>>
    /\ running' = {}
    /\ completed' = <<>>
    /\ step' = [r \in Runs |-> IF step[r] = "waiting" THEN "failed" ELSE step[r]]
    /\ UNCHANGED <<queue, reads, deadLetters, version, batch, current, verdict, faults>>

-----------------------------------------------------------------------------
\* The steps a run takes while it is neither stopped nor early redelivered.
RunStep(r) ==
    \/ Start(r)
    \/ CallAnswered(r)
    \/ CallBusy(r)
    \/ CallStarts(r)
    \/ Timeout(r)
    \/ StepFails(r)
    \/ Complete(r)
    \/ CompleteRefused(r)
    \/ Archive(r)
    \/ ArchiveUnanswered(r)
    \/ GiveUp(r)
    \/ Bury(r)

Next ==
    \/ \E r \in Runs : ReadBatch(r)
    \/ \E j \in Jobs : VisibilityEnds(j)
    \/ \E r \in Runs : RunStep(r)
    \/ \E r \in Runs : BuryFails(r)
    \/ \E r \in Runs : BuryUnanswered(r)
    \/ \E r \in Runs : Crash(r)
    \/ \E m \in running : HandlerEnds(m)
    \/ \E m \in running : HandlerRaises(m)
    \/ ServiceRestarts

Spec == Init /\ [][Next]_vars

\* process-queues keeps being called, a run that is not stopped goes on, and a
\* hidden message comes back.
Fairness ==
    /\ \A r \in Runs : WF_vars(ReadBatch(r)) /\ WF_vars(RunStep(r))
    /\ \A j \in Jobs : WF_vars(VisibilityEnds(j))

FairSpec == Spec /\ Fairness

-----------------------------------------------------------------------------
(* Invariants                                                              *)

Verdicts == [job : Jobs, attempt : Nat \ {0}, verdict : BOOLEAN]

TypeOK ==
    /\ queue       \in [Jobs -> {"visible", "hidden", "archived", "deleted"}]
    /\ reads       \in [Jobs -> Nat]
    /\ deadLetters \in [Jobs -> Nat]
    /\ version     \in [Jobs -> {"uploaded", "ready", "rejected"}]
    /\ batch       \in [Runs -> SUBSET Messages]
    /\ current     \in [Runs -> Messages \union {NoMessage}]
    /\ step        \in [Runs -> {"next", "call", "waiting", "complete", "archive", "failed",
                                 "refused"}]
    /\ verdict     \in [Runs -> BOOLEAN]
    /\ running     \in SUBSET Messages
    /\ completed   \in Seq(Verdicts)
    /\ faults      \in 0 .. MaxFaults

\* An uploaded version that nothing has processed still has its message, or a
\* record in the dead-letter queue for somebody to see: no crash, redelivery or
\* lost answer drops the work.
WorkIsNeverLost ==
    \A j \in Jobs : version[j] = "uploaded" =>
        queue[j] \in Waiting \/ (queue[j] = "deleted" /\ deadLetters[j] > 0)

\* "Run once for a job": the service never handles two requests of one job at
\* the same time, nor one of a job it remembers.
JobsRunOnce ==
    /\ \A c, d \in running : c.job = d.job => c = d
    /\ \A c \in running : c.job \notin Remembered

\* Whatever is delivered twice or answered late, a processed version keeps its
\* verdict, even when the service would now say otherwise.
VerdictIsFinal ==
    [][\A j \in Jobs : version[j] # "uploaded" => version'[j] = version[j]]_vars

-----------------------------------------------------------------------------
(* What those who wait for the evidence see                                *)

TheShelf ==
    [j \in Jobs |-> CASE version[j] = "uploaded" -> "waiting"
                      [] version[j] = "ready"    -> "ready"
                      [] version[j] = "rejected" -> "refused"]

Shelf == INSTANCE EvidenceShelf WITH Documents <- Jobs, shelf <- TheShelf, phase <- "editable",
                                     named <- {}

\* Overlapping runs, deliveries, crashes, timeouts and the service's short memory
\* are invisible from outside: evidence that waits is judged at most once, one
\* piece at a time, as DocumentLifecycle takes its processing for.
KeepsTheShelf == [][Shelf!Next]_TheShelf

-----------------------------------------------------------------------------
(* Liveness                                                                *)

\* Every message leaves the queue, processed or for somebody to see.
EveryJobSettles == \A j \in Jobs : <>(queue[j] \notin Waiting)

=============================================================================
