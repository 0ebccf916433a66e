-------------------------- MODULE DocumentJobsProofs --------------------------
(***************************************************************************)
(* Theorems about DocumentJobs, for every number of messages, runs and     *)
(* attempts, every size of a batch and of the registry, and every number   *)
(* of crashes, early redeliveries and failed burials.                      *)
(***************************************************************************)
EXTENDS DocumentJobs, SequenceTheorems, TLAPS

USE CountAssumption, LimitAssumption, NoMessageAssumption

-----------------------------------------------------------------------------
(* The registry                                                            *)

\* Moving an entry to the end keeps the entries.
LEMMA MoveToEndEntries ==
    ASSUME NEW reg \in Seq(Verdicts), NEW i \in 1 .. Len(reg)
    PROVE  /\ MoveToEnd(reg, i) \in Seq(Verdicts)
           /\ Len(MoveToEnd(reg, i)) = Len(reg)
           /\ \A k \in 1 .. Len(reg) : \E l \in 1 .. Len(reg) : MoveToEnd(reg, i)[k] = reg[l]
<1>1. \A k \in 1 .. Len(reg) : reg[k] \in Verdicts
  BY ElementOfSeq
<1>2. ASSUME NEW k \in 1 .. Len(reg)
      PROVE  \E l \in 1 .. Len(reg) :
                 (IF k < i THEN reg[k] ELSE IF k < Len(reg) THEN reg[k + 1] ELSE reg[i]) = reg[l]
  <2>1. CASE k < i
    BY <2>1
  <2>2. CASE k >= i /\ k < Len(reg)
    <3>1. k + 1 \in 1 .. Len(reg)
      BY <2>2, LenProperties
    <3>2. QED
      BY <2>2, <3>1
  <2>3. CASE k >= i /\ ~ (k < Len(reg))
    BY <2>3
  <2>4. QED
    BY <2>1, <2>2, <2>3, LenProperties
<1>3. \A k \in 1 .. Len(reg) : MoveToEnd(reg, i)[k] \in Verdicts
  BY <1>1, <1>2 DEF MoveToEnd
<1>4. MoveToEnd(reg, i) \in [1 .. Len(reg) -> Verdicts]
  BY <1>3 DEF MoveToEnd
<1>5. Len(reg) \in Nat
  BY LenProperties
<1>6. MoveToEnd(reg, i) \in Seq(Verdicts) /\ Len(MoveToEnd(reg, i)) = Len(reg)
  BY <1>4, <1>5, IsASeq, LenProperties
<1>7. QED
  BY <1>2, <1>6 DEF MoveToEnd

\* What is remembered besides the new entry was remembered before.
LEMMA RememberEntries ==
    ASSUME NEW reg \in Seq(Verdicts), NEW e \in Verdicts
    PROVE  /\ Remember(reg, e) \in Seq(Verdicts)
           /\ \A k \in 1 .. Len(Remember(reg, e)) :
                  \/ Remember(reg, e)[k] = e
                  \/ \E l \in 1 .. Len(reg) : Remember(reg, e)[k] = reg[l]
<1> DEFINE longer == Append(reg, e)
<1>1. /\ longer \in Seq(Verdicts)
      /\ Len(longer) = Len(reg) + 1
      /\ \A k \in 1 .. Len(longer) : longer[k] = e \/ \E l \in 1 .. Len(reg) : longer[k] = reg[l]
  <2>1. /\ longer \in Seq(Verdicts)
        /\ Len(longer) = Len(reg) + 1
        /\ \A k \in 1 .. Len(reg) : longer[k] = reg[k]
        /\ longer[Len(reg) + 1] = e
    BY AppendProperties
  <2>2. QED
    BY <2>1, LenProperties
<1>2. CASE Len(reg) < Capacity
  BY <1>1, <1>2 DEF Remember
<1>3. CASE ~ (Len(reg) < Capacity)
  <2>1. longer # << >>
    BY <1>1, LenProperties, EmptySeq
  <2>2. /\ Tail(longer) \in Seq(Verdicts)
        /\ Len(Tail(longer)) = Len(reg)
        /\ \A k \in 1 .. Len(reg) : Tail(longer)[k] = longer[k + 1]
    BY <1>1, <2>1, HeadTailProperties, LenProperties
  <2>3. \A k \in 1 .. Len(reg) : k + 1 \in 1 .. Len(longer)
    BY <1>1, LenProperties
  <2>4. QED
    BY <1>1, <1>3, <2>2, <2>3 DEF Remember
<1>4. QED
  BY <1>2, <1>3
-----------------------------------------------------------------------------
(* Types                                                                   *)

\* A run that is past the choice of a message has one.
BusyWithMessage == \A r \in Runs : step[r] # "next" => current[r] \in Messages

LEMMA TypesInductive ==
    ASSUME TypeOK, BusyWithMessage, [Next]_vars
    PROVE  TypeOK' /\ BusyWithMessage'
<1> USE DEF TypeOK, BusyWithMessage, runVars, serviceVars
<1>1. ASSUME NEW r \in Runs, ReadBatch(r)
      PROVE  (TypeOK /\ BusyWithMessage)'
  <2>1. \A k \in Oldest : Delivered(k) \in Messages
    BY DEF Oldest, Visible, Delivered, Messages
  <2>2. {Delivered(k) : k \in Oldest} \in SUBSET Messages
    BY <2>1
  <2>3. batch' \in [Runs -> SUBSET Messages]
    BY <1>1, <2>2 DEF ReadBatch
  <2>4. QED
    BY <1>1, <2>3 DEF ReadBatch
<1>2. ASSUME NEW j \in Jobs, VisibilityEnds(j)
      PROVE  (TypeOK /\ BusyWithMessage)'
  <2>1. faults' = faults \/ (faults < MaxFaults /\ faults' = faults + 1)
    BY <1>2 DEF VisibilityEnds
  <2>2. faults' \in 0 .. MaxFaults
    BY <2>1
  <2>3. QED
    BY <1>2, <2>2 DEF VisibilityEnds
<1>3. ASSUME NEW r \in Runs, Start(r)
      PROVE  (TypeOK /\ BusyWithMessage)'
  BY <1>3 DEF Start, FirstStep, GoTo
<1>4. ASSUME NEW r \in Runs, CallAnswered(r)
      PROVE  (TypeOK /\ BusyWithMessage)'
  <2>1. PICK i \in 1 .. Len(completed) :
            /\ completed' = MoveToEnd(completed, i) \/ completed' = completed
            /\ verdict' = [verdict EXCEPT ![r] = completed[i].verdict] \/ verdict' = verdict
            /\ GoTo(r, "complete") \/ GoTo(r, "refused")
    BY <1>4 DEF CallAnswered
  <2>2. completed' \in Seq(Verdicts)
    BY <2>1, MoveToEndEntries
  <2>3. completed[i].verdict \in BOOLEAN
    <3>1. completed[i] \in Verdicts
      BY <2>1, ElementOfSeq
    <3>2. QED
      BY <3>1 DEF Verdicts
  <2>4. verdict' \in [Runs -> BOOLEAN]
    BY <2>1, <2>3
  <2>5. QED
    BY <1>4, <2>1, <2>2, <2>4 DEF CallAnswered, GoTo
<1>5. ASSUME NEW r \in Runs, CallBusy(r)
      PROVE  (TypeOK /\ BusyWithMessage)'
  BY <1>5 DEF CallBusy, GoTo
<1>6. ASSUME NEW r \in Runs, CallStarts(r)
      PROVE  (TypeOK /\ BusyWithMessage)'
  BY <1>6 DEF CallStarts, GoTo
<1>7. ASSUME NEW r \in Runs, Timeout(r)
      PROVE  (TypeOK /\ BusyWithMessage)'
  BY <1>7 DEF Timeout, GoTo
<1>8. ASSUME NEW r \in Runs, StepFails(r)
      PROVE  (TypeOK /\ BusyWithMessage)'
  BY <1>8 DEF StepFails, GoTo
<1>9. ASSUME NEW r \in Runs, Complete(r)
      PROVE  (TypeOK /\ BusyWithMessage)'
  BY <1>9 DEF Complete, GoTo
<1>10. ASSUME NEW r \in Runs, CompleteRefused(r)
      PROVE  (TypeOK /\ BusyWithMessage)'
  BY <1>10 DEF CompleteRefused, GoTo
<1>11. ASSUME NEW r \in Runs, Archive(r)
      PROVE  (TypeOK /\ BusyWithMessage)'
  BY <1>11 DEF Archive, Leave, NextMessage, GoTo, Waiting
<1>12. ASSUME NEW r \in Runs, ArchiveUnanswered(r)
      PROVE  (TypeOK /\ BusyWithMessage)'
  BY <1>12 DEF ArchiveUnanswered, Leave, GoTo, Waiting
<1>13. ASSUME NEW r \in Runs, GiveUp(r)
      PROVE  (TypeOK /\ BusyWithMessage)'
  BY <1>13 DEF GiveUp, NextMessage, GoTo
<1>14. ASSUME NEW r \in Runs, Bury(r)
      PROVE  (TypeOK /\ BusyWithMessage)'
  <2>1. current[r].job \in Jobs
    BY <1>14 DEF Bury, Messages
  <2>2. deadLetters' \in [Jobs -> Nat]
    BY <1>14, <2>1 DEF Bury
  <2>3. QED
    BY <1>14, <2>2 DEF Bury, Leave, NextMessage, GoTo, Waiting
<1>15. ASSUME NEW r \in Runs, BuryFails(r)
      PROVE  (TypeOK /\ BusyWithMessage)'
  BY <1>15 DEF BuryFails, Abandon, NextMessage, GoTo
<1>16. ASSUME NEW r \in Runs, BuryUnanswered(r)
      PROVE  (TypeOK /\ BusyWithMessage)'
  <2>1. current[r].job \in Jobs
    BY <1>16 DEF BuryUnanswered, Messages
  <2>2. deadLetters' \in [Jobs -> Nat]
    BY <1>16, <2>1 DEF BuryUnanswered
  <2>3. QED
    BY <1>16, <2>2 DEF BuryUnanswered, Abandon, Leave, NextMessage, GoTo, Waiting
<1>17. ASSUME NEW r \in Runs, Crash(r)
      PROVE  (TypeOK /\ BusyWithMessage)'
  BY <1>17 DEF Crash, Abandon, NextMessage, GoTo
<1>18. ASSUME NEW m \in running, HandlerEnds(m)
      PROVE  (TypeOK /\ BusyWithMessage)'
  <2>1. PICK v \in BOOLEAN :
            /\ completed' = Remember(completed,
                                     [job |-> m.job, attempt |-> m.attempt, verdict |-> v])
            /\ Answer(m, "complete", v)
    BY <1>18 DEF HandlerEnds
  <2>2. [job |-> m.job, attempt |-> m.attempt, verdict |-> v] \in Verdicts
    BY DEF Messages, Verdicts
  <2>3. completed' \in Seq(Verdicts)
    BY <2>1, <2>2, RememberEntries
  <2>4. QED
    BY <1>18, <2>1, <2>3 DEF HandlerEnds, Answer
<1>19. ASSUME NEW m \in running, HandlerRaises(m)
      PROVE  (TypeOK /\ BusyWithMessage)'
  BY <1>19 DEF HandlerRaises, Answer
<1>20. ASSUME ServiceRestarts
      PROVE  (TypeOK /\ BusyWithMessage)'
  BY <1>20 DEF ServiceRestarts
<1>21. CASE UNCHANGED vars
  BY <1>21 DEF vars
<1>22. QED
  BY <1>1, <1>2, <1>3, <1>4, <1>5, <1>6, <1>7, <1>8, <1>9, <1>10, <1>11, <1>12, <1>13, <1>14, <1>15, <1>16, <1>17, <1>18, <1>19, <1>20, <1>21 DEF Next, RunStep

\* Every reachable state is well typed, and a run that works on something has a
\* message to work on.
THEOREM TypeCorrect == Spec => [](TypeOK /\ BusyWithMessage)
<1>1. Init => TypeOK /\ BusyWithMessage
  BY DEF Init, TypeOK, BusyWithMessage
<1>2. QED
  BY <1>1, TypesInductive, PTL DEF Spec

-----------------------------------------------------------------------------
(* What a processed version keeps                                          *)

\* Deliveries, retries and late answers never change the verdict of a processed
\* version: complete_document_processing writes only to one that is uploaded.
THEOREM VerdictKept == Spec => VerdictIsFinal
<1>1. ASSUME TypeOK, [Next]_vars, NEW j \in Jobs, version[j] # "uploaded"
      PROVE  version'[j] = version[j]
  <2>1. ASSUME NEW r \in Runs, Complete(r)
        PROVE  version'[j] = version[j]
    BY <1>1, <2>1 DEF Complete, Processable, TypeOK
  <2>2. ASSUME ~ \E r \in Runs : Complete(r)
        PROVE  version' = version
    BY <1>1, <2>2 DEF Next, RunStep, vars, ReadBatch, VisibilityEnds, Start, CallAnswered,
       CallBusy, CallStarts, Timeout, StepFails, CompleteRefused, Archive, ArchiveUnanswered,
       GiveUp, Bury, BuryFails, BuryUnanswered, Crash, HandlerEnds, HandlerRaises,
       ServiceRestarts
  <2>3. QED
    BY <2>1, <2>2
<1>2. TypeOK /\ [Next]_vars =>
          [\A j \in Jobs : version[j] # "uploaded" => version'[j] = version[j]]_vars
  BY <1>1
<1>3. Spec => []TypeOK
  BY TypeCorrect, PTL
<1>4. QED
  BY <1>2, <1>3, PTL DEF Spec, VerdictIsFinal

-----------------------------------------------------------------------------
(* EvidenceShelf                                                           *)

LEMMA ShelfKept ==
    ASSUME TypeOK, BusyWithMessage, [Next]_vars
    PROVE  [Shelf!Next]_TheShelf
<1>1. ASSUME NEW r \in Runs, Complete(r) PROVE Shelf!Next
  <2> DEFINE j == current[r].job
             result == IF verdict[r] THEN "ready" ELSE "refused"
  <2>1. j \in Jobs /\ version[j] = "uploaded"
    BY <1>1 DEF Complete, Processable, BusyWithMessage, Messages
  <2>2. version' = [version EXCEPT ![j] = IF verdict[r] THEN "ready" ELSE "rejected"]
    BY <1>1 DEF Complete
  <2>3. TheShelf[j] = "waiting"
    BY <2>1 DEF TheShelf
  <2>4. TheShelf' = [TheShelf EXCEPT ![j] = result]
    BY <2>1, <2>2 DEF TheShelf, TypeOK
  <2>5. result \in {"ready", "refused"}
    OBVIOUS
  <2> HIDE DEF j, result
  <2>6. Shelf!Judge(j)
    BY <2>3, <2>4, <2>5 DEF Shelf!Judge
  <2>7. QED
    BY <2>1, <2>6 DEF Shelf!Next
<1>2. ASSUME ~ \E r \in Runs : Complete(r)
      PROVE  TheShelf' = TheShelf
  <2>1. version' = version
    BY <1>2 DEF Next, RunStep, vars, ReadBatch, VisibilityEnds, Start, CallAnswered,
       CallBusy, CallStarts, Timeout, StepFails, CompleteRefused, Archive, ArchiveUnanswered,
       GiveUp, Bury, BuryFails, BuryUnanswered, Crash, HandlerEnds, HandlerRaises,
       ServiceRestarts
  <2>2. QED
    BY <2>1 DEF TheShelf
<1>3. QED
  BY <1>1, <1>2

\* Runs, deliveries and the service's memory are the one judgement of a piece of
\* evidence that EvidenceShelf knows.
THEOREM ImplementsShelf == Spec => KeepsTheShelf
BY TypeCorrect, ShelfKept, PTL DEF Spec, KeepsTheShelf

-----------------------------------------------------------------------------
(* No job is dropped                                                       *)

\* A message is archived only after its version was processed.
ArchivesProcessed ==
    \A r \in Runs : step[r] = "archive" => version[current[r].job] # "uploaded"

LEMMA WorkInductive ==
    ASSUME TypeOK, BusyWithMessage, ArchivesProcessed, WorkIsNeverLost, [Next]_vars
    PROVE  ArchivesProcessed' /\ WorkIsNeverLost'
<1> USE DEF TypeOK, BusyWithMessage, ArchivesProcessed, WorkIsNeverLost, runVars, serviceVars,
            Waiting
<1> DEFINE Kept == (ArchivesProcessed /\ WorkIsNeverLost)'
<1>0. \A r \in Runs : step[r] # "next" => current[r].job \in Jobs
  BY DEF Messages
<1>1. ASSUME NEW r \in Runs, ReadBatch(r)
      PROVE  Kept
  BY <1>0, <1>1 DEF ReadBatch, Oldest, Visible
<1>2. ASSUME NEW j \in Jobs, VisibilityEnds(j)
      PROVE  Kept
  BY <1>0, <1>2 DEF VisibilityEnds
<1>3. ASSUME NEW r \in Runs, Start(r)
      PROVE  Kept
  BY <1>0, <1>3 DEF Start, FirstStep, GoTo
<1>4. ASSUME NEW r \in Runs,
             CallAnswered(r) \/ CallBusy(r) \/ CallStarts(r) \/ Timeout(r) \/ StepFails(r)
               \/ CompleteRefused(r)
      PROVE  Kept
  <2>1. /\ UNCHANGED <<queue, deadLetters, version, current>>
        /\ \E next \in {"complete", "refused", "waiting", "failed"} : GoTo(r, next)
    BY <1>4 DEF CallAnswered, CallBusy, CallStarts, Timeout, StepFails, CompleteRefused
  <2>2. QED
    BY <1>0, <2>1 DEF GoTo
<1>5. ASSUME NEW r \in Runs, Complete(r)
      PROVE  Kept
  <2>1. version'[current[r].job] # "uploaded"
    BY <1>0, <1>5 DEF Complete
  <2>2. \A j \in Jobs : version[j] # "uploaded" => version'[j] # "uploaded"
    BY <1>0, <1>5 DEF Complete
  <2>3. \A j \in Jobs : version'[j] = "uploaded" => version[j] = "uploaded"
    BY <1>0, <1>5 DEF Complete
  <2>4. ArchivesProcessed'
    BY <1>0, <1>5, <2>1, <2>2 DEF Complete, GoTo
  <2>5. WorkIsNeverLost'
    BY <1>5, <2>3 DEF Complete
  <2>6. QED
    BY <2>4, <2>5
<1>6. ASSUME NEW r \in Runs, Archive(r) \/ ArchiveUnanswered(r)
      PROVE  Kept
  <2>1. /\ UNCHANGED <<deadLetters, version>>
        /\ queue' = [queue EXCEPT ![current[r].job] =
                         IF @ \in Waiting THEN "archived" ELSE @]
        /\ version[current[r].job] # "uploaded"
    BY <1>6 DEF Archive, ArchiveUnanswered, Leave
  <2>2. WorkIsNeverLost'
    BY <1>0, <1>6, <2>1
  <2>3. ArchivesProcessed'
    BY <1>0, <1>6, <2>1 DEF Archive, ArchiveUnanswered, NextMessage, GoTo
  <2>4. QED
    BY <2>2, <2>3
<1>7. ASSUME NEW r \in Runs, GiveUp(r) \/ BuryFails(r) \/ Crash(r)
      PROVE  Kept
  <2>1. /\ UNCHANGED <<queue, deadLetters, version>>
        /\ \A x \in Runs : step'[x] = "archive" => step[x] = "archive" /\ current'[x] = current[x]
    BY <1>7 DEF GiveUp, BuryFails, Crash, Abandon, NextMessage, GoTo
  <2>2. QED
    BY <2>1
<1>8. ASSUME NEW r \in Runs, Bury(r) \/ BuryUnanswered(r)
      PROVE  Kept
  <2>1. /\ step[r] \in {"failed", "refused"}
        /\ deadLetters' = [deadLetters EXCEPT ![current[r].job] = @ + 1]
        /\ queue' = [queue EXCEPT ![current[r].job] =
                         IF @ \in Waiting THEN "deleted" ELSE @]
        /\ UNCHANGED version
        /\ NextMessage(r)
    BY <1>8 DEF Bury, BuryUnanswered, Leave, Abandon
  <2>2. current[r].job \in Jobs
    BY <1>0, <2>1
  <2>3. WorkIsNeverLost'
    BY <2>1, <2>2
  <2>4. ArchivesProcessed'
    BY <1>0, <2>1 DEF NextMessage, GoTo
  <2>5. QED
    BY <2>3, <2>4
<1>9. ASSUME NEW m \in running, HandlerEnds(m) \/ HandlerRaises(m)
      PROVE  Kept
  <2>1. /\ UNCHANGED <<queue, deadLetters, version, current>>
        /\ \A r \in Runs : step'[r] = "archive" => step[r] = "archive"
    BY <1>9 DEF HandlerEnds, HandlerRaises, Answer
  <2>2. QED
    BY <2>1
<1>10. ASSUME ServiceRestarts
       PROVE  Kept
  BY <1>10 DEF ServiceRestarts
<1>11. CASE UNCHANGED vars
  BY <1>11 DEF vars
<1>12. QED
  BY <1>1, <1>2, <1>3, <1>4, <1>5, <1>6, <1>7, <1>8, <1>9, <1>10, <1>11 DEF Next, RunStep

\* Whatever runs crash, are delivered twice or lose an answer, an uploaded version
\* keeps its message or has a record in the dead-letter queue.
THEOREM WorkKept == Spec => []WorkIsNeverLost
<1>1. Init => ArchivesProcessed /\ WorkIsNeverLost
  BY DEF Init, ArchivesProcessed, WorkIsNeverLost, Waiting
<1>2. Spec => [](TypeOK /\ BusyWithMessage)
  BY TypeCorrect
<1>3. QED
  BY <1>1, <1>2, WorkInductive, PTL DEF Spec

-----------------------------------------------------------------------------
(* The service                                                             *)

LEMMA RunOnceInductive ==
    ASSUME TypeOK, BusyWithMessage, JobsRunOnce, [Next]_vars
    PROVE  JobsRunOnce'
<1> USE DEF TypeOK, BusyWithMessage, JobsRunOnce, serviceVars
<1>1. ASSUME NEW r \in Runs, CallAnswered(r)
      PROVE  JobsRunOnce'
  <2>1. PICK i \in 1 .. Len(completed) :
            completed' = MoveToEnd(completed, i) \/ completed' = completed
    BY <1>1 DEF CallAnswered
  <2>2. \A k \in 1 .. Len(completed') :
            \E l \in 1 .. Len(completed) : completed'[k] = completed[l]
    <3>1. /\ Len(MoveToEnd(completed, i)) = Len(completed)
          /\ \A k \in 1 .. Len(completed) :
                 \E l \in 1 .. Len(completed) : MoveToEnd(completed, i)[k] = completed[l]
      BY MoveToEndEntries
    <3>2. CASE completed' = MoveToEnd(completed, i)
      BY <3>1, <3>2, Zenon
    <3>3. CASE completed' = completed
      BY <3>3
    <3>4. QED
      BY <2>1, <3>2, <3>3
  <2>3. Remembered' \subseteq Remembered
    BY <2>2 DEF Remembered
  <2>4. QED
    BY <1>1, <2>3 DEF CallAnswered
<1>2. ASSUME NEW r \in Runs, CallStarts(r)
      PROVE  JobsRunOnce'
  BY <1>2 DEF CallStarts, InFlight, Remembered
<1>3. ASSUME NEW m \in running, HandlerEnds(m)
      PROVE  JobsRunOnce'
  <2>1. PICK v \in BOOLEAN :
            completed' = Remember(completed,
                                  [job |-> m.job, attempt |-> m.attempt, verdict |-> v])
    BY <1>3 DEF HandlerEnds
  <2> DEFINE e == [job |-> m.job, attempt |-> m.attempt, verdict |-> v]
  <2>2. e \in Verdicts
    BY DEF Messages, Verdicts
  <2>3. \A k \in 1 .. Len(completed') :
            \/ completed'[k] = e
            \/ \E l \in 1 .. Len(completed) : completed'[k] = completed[l]
    <3> HIDE DEF e
    <3>1. \A k \in 1 .. Len(Remember(completed, e)) :
              \/ Remember(completed, e)[k] = e
              \/ \E l \in 1 .. Len(completed) : Remember(completed, e)[k] = completed[l]
      BY <2>2, RememberEntries
    <3>2. completed' = Remember(completed, e)
      BY <2>1 DEF e
    <3>3. QED
      BY <3>1, <3>2, Zenon
  <2>4. Remembered' \subseteq Remembered \union {m.job}
    BY <2>3 DEF Remembered
  <2>5. running' = running \ {m}
    BY <1>3 DEF HandlerEnds
  <2>6. QED
    BY <2>4, <2>5
<1>4. ASSUME NEW m \in running, HandlerRaises(m)
      PROVE  JobsRunOnce'
  BY <1>4 DEF HandlerRaises, Remembered
<1>5. ASSUME ServiceRestarts
      PROVE  JobsRunOnce'
  BY <1>5 DEF ServiceRestarts, Remembered
<1>6. ASSUME UNCHANGED serviceVars
      PROVE  JobsRunOnce'
  BY <1>6 DEF Remembered
<1>7. ASSUME ~ ServiceRestarts,
             ~ \E r \in Runs : CallAnswered(r) \/ CallStarts(r),
             ~ \E m \in running : HandlerEnds(m) \/ HandlerRaises(m)
      PROVE  UNCHANGED serviceVars
  BY <1>7 DEF Next, RunStep, vars, ReadBatch, VisibilityEnds, Start, CallBusy, Timeout,
     StepFails, Complete, CompleteRefused, Archive, ArchiveUnanswered, GiveUp, Bury,
     BuryFails, BuryUnanswered, Crash
<1>8. QED
  BY <1>1, <1>2, <1>3, <1>4, <1>5, <1>6, <1>7

\* However often a job is delivered, and whatever the registry has evicted, the
\* service handles one request of a job at a time and none of a job it remembers.
THEOREM RunOnce == Spec => []JobsRunOnce
<1>1. Init => JobsRunOnce
  BY DEF Init, JobsRunOnce
<1>2. Spec => [](TypeOK /\ BusyWithMessage)
  BY TypeCorrect
<1>3. QED
  BY <1>1, <1>2, RunOnceInductive, PTL DEF Spec
=============================================================================
