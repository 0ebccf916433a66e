----------------------- MODULE DocumentLifecycleProofs -----------------------
(***************************************************************************)
(* Theorems about DocumentLifecycle, for every set of required documents,  *)
(* any finalize requests at the same time and every bound on the versions. *)
(***************************************************************************)
EXTENDS DocumentLifecycle, SequenceTheorems, TLAPS

USE VersionsAssumption, OutcomesAssumption, RequestsAssumption

ReviewStatuses == ReviewOutcomes \union {"none"}
-----------------------------------------------------------------------------
(* Sequences of columns                                                    *)

\* Appending a row, and writing one of them.
LEMMA Appended ==
    ASSUME NEW S, NEW s \in Seq(S), NEW e \in S
    PROVE  /\ Append(s, e) \in Seq(S)
           /\ Len(Append(s, e)) = Len(s) + 1
           /\ \A i \in 1 .. Len(s) + 1 : Append(s, e)[i] = IF i = Len(s) + 1 THEN e ELSE s[i]
<1>1. Len(s) \in Nat
  BY LenProperties
<1>2. QED
  BY <1>1, AppendProperties

LEMMA Rewritten ==
    ASSUME NEW S, NEW s \in Seq(S), NEW t \in [1 .. Len(s) -> S]
    PROVE  t \in Seq(S) /\ Len(t) = Len(s)
<1>1. Len(s) \in Nat
  BY LenProperties
<1>2. t = [i \in 1 .. Len(s) |-> t[i]]
  OBVIOUS
<1>3. QED
  BY <1>1, <1>2, LenProperties

LEMMA Numbered ==
    ASSUME TypeOK, NEW d \in Documents
    PROVE  /\ Len(versions[d]) \in 0 .. MaxVersions
           /\ versions[d] \in [Numbers(d) -> UploadStatuses]
           /\ review[d] \in [Numbers(d) -> ReviewStatuses]
           /\ Numbers(d) \subseteq 1 .. MaxVersions
           /\ d \in reserving => Len(versions[d]) < MaxVersions
<1>1. /\ versions[d] \in Seq(UploadStatuses) /\ review[d] \in Seq(ReviewStatuses)
      /\ Len(versions[d]) <= MaxVersions /\ (d \in reserving => Len(versions[d]) < MaxVersions)
      /\ Len(review[d]) = Len(versions[d])
  BY DEF TypeOK, ReviewStatuses
<1>2. Len(versions[d]) \in Nat
  BY <1>1, LenProperties
<1>3. QED
  BY <1>1, <1>2, LenProperties DEF Numbers
-----------------------------------------------------------------------------
(* Types                                                                   *)

LEMMA InitTyped == Init => TypeOK
<1> SUFFICES ASSUME Init PROVE TypeOK
  OBVIOUS
<1>1. /\ <<>> \in Seq(UploadStatuses) /\ <<>> \in Seq(ReviewOutcomes \union {"none"})
      /\ Len(<<>>) = 0
  BY EmptySeq
<1>2. /\ versions \in [Documents -> Seq(UploadStatuses)]
      /\ review \in [Documents -> Seq(ReviewOutcomes \union {"none"})]
      /\ \A d \in Documents :
            /\ Len(versions[d]) <= MaxVersions /\ (d \in reserving => Len(versions[d]) < MaxVersions)
            /\ Len(review[d]) = Len(versions[d])
  BY <1>1 DEF Init
<1>3. active \in BOOLEAN /\ submitting \in BOOLEAN
  BY DEF Init
<1>4. current \in [Documents -> 0 .. MaxVersions] /\ latest \in [Documents -> 0 .. MaxVersions]
  BY DEF Init
<1>5. /\ phase \in {"editable", "in_review", "decided"} /\ reserving \subseteq Documents
      /\ stored \subseteq VersionIds /\ cited \subseteq VersionIds
      /\ finalizing \in [Requests -> VersionIds \union {None}]
      /\ docStatus \in [Documents -> ReviewOutcomes \union {"absent", "draft", "submitted"}]
  BY DEF Init
<1>6. QED
  BY <1>2, <1>3, <1>4, <1>5 DEF TypeOK

LEMMA VersionsTyped ==
    ASSUME TypeOK, NEW d \in Documents, NEW t \in [Numbers(d) -> UploadStatuses],
           versions' = [versions EXCEPT ![d] = t], UNCHANGED <<review, reserving>>
    PROVE  /\ versions' \in [Documents -> Seq(UploadStatuses)]
           /\ \A e \in Documents :
                 /\ Len(versions'[e]) <= MaxVersions /\ (e \in reserving' => Len(versions'[e]) < MaxVersions)
                 /\ Len(review'[e]) = Len(versions'[e])
           /\ \A e \in Documents : Len(versions'[e]) = Len(versions[e])
<1>1. t \in Seq(UploadStatuses) /\ Len(t) = Len(versions[d])
  BY Rewritten DEF TypeOK, Numbers
<1>2. QED
  BY <1>1 DEF TypeOK

LEMMA TypesInductive == ASSUME TypeOK, [Next]_vars PROVE TypeOK'
<1>1. ASSUME NEW d \in Documents, ReserveVersion(d) PROVE TypeOK'
  <2>1. /\ versions[d] \in Seq(UploadStatuses) /\ review[d] \in Seq(ReviewStatuses)
        /\ Len(versions[d]) \in Nat /\ Len(review[d]) = Len(versions[d])
    BY Numbered DEF TypeOK, ReviewStatuses
  <2>2. /\ Append(versions[d], "pending_upload") \in Seq(UploadStatuses)
        /\ Len(Append(versions[d], "pending_upload")) = Len(versions[d]) + 1
    BY <2>1, Appended DEF UploadStatuses
  <2>3. /\ Append(review[d], "none") \in Seq(ReviewStatuses)
        /\ Len(Append(review[d], "none")) = Len(versions[d]) + 1
    BY <2>1, Appended DEF ReviewStatuses
  <2>4. /\ versions' \in [Documents -> Seq(UploadStatuses)]
        /\ review' \in [Documents -> Seq(ReviewStatuses)]
    BY <1>1, <2>2, <2>3 DEF ReserveVersion, TypeOK, ReviewStatuses
  <2>5. \A e \in Documents :
            /\ Len(versions'[e]) <= MaxVersions /\ (e \in reserving' => Len(versions'[e]) < MaxVersions)
            /\ Len(review'[e]) = Len(versions'[e])
    <3>1. Len(versions[d]) + 1 <= MaxVersions
      BY <1>1, <2>1, Numbered DEF ReserveVersion
    <3>2. ASSUME NEW e \in Documents, e # d
          PROVE  /\ Len(versions'[e]) <= MaxVersions /\ (e \in reserving' => Len(versions'[e]) < MaxVersions)
                 /\ Len(review'[e]) = Len(versions'[e])
      BY <1>1, <3>2 DEF ReserveVersion, TypeOK
    <3>3. Len(versions'[d]) = Len(versions[d]) + 1 /\ Len(review'[d]) = Len(versions[d]) + 1
          /\ d \notin reserving'
      BY <1>1, <2>2, <2>3 DEF ReserveVersion, TypeOK
    <3>4. QED
      BY <2>1, <3>1, <3>2, <3>3
  <2>6. QED
    BY <1>1, <2>4, <2>5 DEF ReserveVersion, TypeOK, ReviewStatuses
<1>2. ASSUME NEW d \in Documents, NEW v \in Numbers(d), UploadObject(d, v) PROVE TypeOK'
  <2>1. <<d, v>> \in VersionIds
    BY Numbered DEF VersionIds
  <2>2. QED
    BY <1>2, <2>1 DEF UploadObject, TypeOK
<1>3. ASSUME NEW r \in Requests, NEW d \in Documents, NEW v \in Numbers(d), BeginFinalize(r, d, v)
      PROVE  TypeOK'
  <2>1. <<d, v>> \in VersionIds
    BY Numbered DEF VersionIds
  <2>2. QED
    BY <1>3, <2>1 DEF BeginFinalize, TypeOK
<1>4. ASSUME NEW r \in Requests, NEW d \in Documents, NEW v \in Numbers(d), CommitFinalize(r, d, v)
      PROVE  TypeOK'
  <2> DEFINE t == [n \in Numbers(d) |->
                      IF n = v THEN "uploaded"
                      ELSE IF n = current[d] /\ versions[d][n] = "ready"
                           THEN "superseded" ELSE versions[d][n]]
  <2>1. t \in [Numbers(d) -> UploadStatuses]
    BY Numbered DEF UploadStatuses
  <2>2. versions' = [versions EXCEPT ![d] = t] /\ review' = review
    BY <1>4 DEF CommitFinalize
  <2> HIDE DEF t
  <2>3. v \in 0 .. MaxVersions
    BY Numbered
  <2>4. QED
    BY <1>4, <2>1, <2>2, <2>3, VersionsTyped DEF CommitFinalize, TypeOK
<1>5. ASSUME NEW r \in Requests, FinalizeFails(r) PROVE TypeOK'
  BY <1>5 DEF FinalizeFails, TypeOK
<1>6. ASSUME NEW d \in Documents, NEW v \in Numbers(d), NEW s \in UploadStatuses,
             versions' = [versions EXCEPT ![d][v] = s],
             UNCHANGED <<active, phase, reserving, submitting, stored, finalizing, current, docStatus,
                         review, cited, latest>>
      PROVE  TypeOK'
  <2>1. [versions[d] EXCEPT ![v] = s] \in [Numbers(d) -> UploadStatuses]
    BY Numbered
  <2>2. versions' = [versions EXCEPT ![d] = [versions[d] EXCEPT ![v] = s]]
    BY <1>6
  <2>3. QED
    BY <1>6, <2>1, <2>2, VersionsTyped DEF TypeOK
<1>7. ASSUME NEW d \in Documents, NEW succeeded \in BOOLEAN, NEW v \in Numbers(d),
             CompleteProcessing(d, v, succeeded)
      PROVE  TypeOK'
  BY <1>6, <1>7 DEF CompleteProcessing, UploadStatuses
<1>8. ASSUME NEW d \in Documents, NEW v \in Numbers(d), AbandonUpload(d, v) PROVE TypeOK'
  BY <1>6, <1>8 DEF AbandonUpload, UploadStatuses
<1>9. ASSUME NEW d \in Documents, NEW outcome \in ReviewOutcomes, NEW v \in Numbers(d),
             RecordReview(d, v, outcome)
      PROVE  TypeOK'
  <2> DEFINE t == [review[d] EXCEPT ![v] = outcome]
  <2>1. t \in [Numbers(d) -> ReviewStatuses]
    BY Numbered DEF ReviewStatuses
  <2>2. review[d] \in Seq(ReviewStatuses) /\ Numbers(d) = 1 .. Len(review[d])
    BY DEF TypeOK, ReviewStatuses, Numbers
  <2>3. t \in Seq(ReviewStatuses) /\ Len(t) = Len(review[d])
    BY <2>1, <2>2, Rewritten
  <2>4. review' = [review EXCEPT ![d] = t]
    BY <1>9 DEF RecordReview
  <2> HIDE DEF t
  <2>5. review' \in [Documents -> Seq(ReviewStatuses)]
        /\ \A e \in Documents : Len(review'[e]) = Len(versions[e])
    BY <2>3, <2>4 DEF TypeOK, ReviewStatuses
  <2>6. QED
    BY <1>9, <2>5 DEF RecordReview, TypeOK, ReviewStatuses
<1>10. CASE CommitSubmit
  <2>1. \A d \in Documents : EvidenceReady(d) => current[d] \in 1 .. MaxVersions
    BY <1>10 DEF EvidenceReady, TypeOK
  <2>2. cited' \subseteq VersionIds /\ latest' \in [Documents -> 0 .. MaxVersions]
    BY <1>10, <2>1 DEF CommitSubmit, TypeOK, VersionIds
  <2>3. QED
    BY <1>10, <2>2 DEF CommitSubmit, TypeOK
<1>15. CASE BeginSubmit \/ AbandonSubmit
  BY <1>15 DEF BeginSubmit, AbandonSubmit, TypeOK
<1>16. ASSUME NEW d \in Documents, RequestVersion(d) PROVE TypeOK'
  <2>1. ASSUME NEW e \in Documents
        PROVE  e \in reserving' => Len(versions[e]) < MaxVersions
    BY <1>16, Numbered DEF RequestVersion, TypeOK
  <2>2. QED
    BY <1>16, <2>1 DEF RequestVersion, TypeOK
<1>17. ASSUME NEW d \in Documents, ReservationFails(d) PROVE TypeOK'
  <2>1. ASSUME NEW e \in Documents
        PROVE  e \in reserving' => Len(versions[e]) < MaxVersions
    BY <1>17, Numbered DEF ReservationFails, TypeOK
  <2>2. QED
    BY <1>17, <2>1 DEF ReservationFails, TypeOK
<1>11. ASSUME NEW next \in {"editable", "decided"}, Review(next) PROVE TypeOK'
  BY <1>11 DEF Review, TypeOK
<1>12. CASE SuspendOrReinstate
  BY <1>12 DEF SuspendOrReinstate, TypeOK
<1>13. CASE UNCHANGED vars
  BY <1>13 DEF vars, TypeOK
<1>14. QED
  BY <1>1, <1>2, <1>3, <1>4, <1>5, <1>7, <1>8, <1>9, <1>10, <1>11, <1>12, <1>13,
     <1>15, <1>16, <1>17 DEF Next

\* Every reachable state is well typed, and the columns of a version grow together.
THEOREM TypeCorrect == Spec => []TypeOK
BY InitTyped, TypesInductive, PTL DEF Spec
-----------------------------------------------------------------------------
(* What a step may do to a version                                         *)

\* A request is at the commit only with a version whose object it has found.
FinalizingStored == \A r \in Requests : finalizing[r] # None => finalizing[r] \in stored

\* The ways in which a version in place changes, each with its cause.
VersionStep(d, v) ==
    \/ versions'[d][v] = versions[d][v]
    \/ /\ versions[d][v] = "pending_upload" /\ versions'[d][v] = "uploaded"
       /\ current'[d] = v /\ \E r \in Requests : finalizing[r] = <<d, v>>
    \/ /\ versions[d][v] = "ready" /\ versions'[d][v] = "superseded"
       /\ current[d] = v /\ current'[d] # v
    \/ /\ versions[d][v] = "uploaded" /\ versions'[d][v] \in {"ready", "rejected"}
       /\ current' = current
    \/ /\ versions[d][v] = "pending_upload" /\ versions'[d][v] = "rejected"
       /\ current[d] # v /\ current' = current

\* The ways in which the current version changes.
CurrentStep(d) ==
    \/ current'[d] = current[d]
    \/ /\ current'[d] \in Numbers(d) /\ versions[d][current'[d]] = "pending_upload"
       /\ versions'[d][current'[d]] = "uploaded"
       /\ current[d] \in Numbers(d) => versions'[d][current[d]] # "ready"

LEMMA VersionsChange ==
    ASSUME TypeOK, [Next]_vars, NEW d \in Documents
    PROVE  /\ Numbers(d) \subseteq Numbers(d)'
           /\ \A v \in Numbers(d) : VersionStep(d, v)
           /\ \A v \in Numbers(d)' \ Numbers(d) : versions'[d][v] = "pending_upload"
           /\ CurrentStep(d)
<1> DEFINE Changes ==
      /\ Numbers(d) \subseteq Numbers(d)'
      /\ \A v \in Numbers(d) : VersionStep(d, v)
      /\ \A v \in Numbers(d)' \ Numbers(d) : versions'[d][v] = "pending_upload"
      /\ CurrentStep(d)
<1>0. /\ Len(versions[d]) \in Nat
      /\ versions \in [Documents -> Seq(UploadStatuses)]
      /\ current \in [Documents -> 0 .. MaxVersions]
  BY Numbered DEF TypeOK
<1>1. ASSUME UNCHANGED <<versions, current>> PROVE Changes
  BY <1>1 DEF VersionStep, CurrentStep, Numbers
<1>2. ASSUME NEW e \in Documents, ReserveVersion(e) PROVE Changes
  <2>1. CASE e = d
    <3>1. versions[d] \in Seq(UploadStatuses) /\ "pending_upload" \in UploadStatuses
      BY <1>0 DEF UploadStatuses
    <3>2. /\ Len(Append(versions[d], "pending_upload")) = Len(versions[d]) + 1
          /\ \A i \in 1 .. Len(versions[d]) + 1 :
                Append(versions[d], "pending_upload")[i] =
                    IF i = Len(versions[d]) + 1 THEN "pending_upload" ELSE versions[d][i]
      BY <3>1, Appended
    <3>3. versions'[d] = Append(versions[d], "pending_upload") /\ current' = current
      BY <1>0, <1>2, <2>1 DEF ReserveVersion
    <3>4. QED
      BY <1>0, <3>2, <3>3 DEF VersionStep, CurrentStep, Numbers
  <2>2. CASE e # d
    BY <1>0, <1>2, <2>2 DEF ReserveVersion, VersionStep, CurrentStep, Numbers
  <2>3. QED
    BY <2>1, <2>2
<1>3. ASSUME NEW r \in Requests, NEW e \in Documents, NEW n \in Numbers(e), CommitFinalize(r, e, n)
      PROVE  Changes
  <2>1. CASE e = d
    <3> DEFINE t == [m \in Numbers(d) |->
                        IF m = n THEN "uploaded"
                        ELSE IF m = current[d] /\ versions[d][m] = "ready"
                             THEN "superseded" ELSE versions[d][m]]
    <3>1. versions'[d] = t /\ current'[d] = n /\ finalizing[r] = <<d, n>>
          /\ versions[d][n] = "pending_upload"
      BY <1>0, <1>3, <2>1 DEF CommitFinalize, AwaitsUpload
    <3>2. Len(t) = Len(versions[d])
      <4>1. t \in [1 .. Len(versions[d]) -> UploadStatuses]
        BY Numbered DEF UploadStatuses, Numbers
      <4>2. QED
        BY <1>0, <4>1, Rewritten
    <3>3. Numbers(d)' = Numbers(d)
      BY <3>1, <3>2 DEF Numbers
    <3>4. \A v \in Numbers(d) : versions'[d][v] = t[v]
      BY <3>1
    <3>5. QED
      BY <2>1, <3>1, <3>3, <3>4 DEF VersionStep, CurrentStep
  <2>2. CASE e # d
    BY <1>0, <1>3, <2>2 DEF CommitFinalize, VersionStep, CurrentStep, Numbers
  <2>3. QED
    BY <2>1, <2>2
<1>4. ASSUME NEW e \in Documents, NEW n \in Numbers(e), NEW s \in UploadStatuses,
             versions' = [versions EXCEPT ![e][n] = s], current' = current,
             \/ versions[e][n] = "uploaded" /\ s \in {"ready", "rejected"}
             \/ versions[e][n] = "pending_upload" /\ s = "rejected" /\ current[e] # n
      PROVE  Changes
  <2>1. CASE e = d
    <3>1. versions'[d] = [versions[d] EXCEPT ![n] = s]
      BY <1>0, <1>4, <2>1
    <3>2. /\ Len([versions[d] EXCEPT ![n] = s]) = Len(versions[d])
          /\ \A v \in Numbers(d) : [versions[d] EXCEPT ![n] = s][v] = IF v = n THEN s ELSE versions[d][v]
      BY <1>0, <2>1, ExceptSeq DEF Numbers
    <3>3. QED
      BY <1>4, <2>1, <3>1, <3>2 DEF VersionStep, CurrentStep, Numbers
  <2>2. CASE e # d
    BY <1>0, <1>4, <2>2 DEF VersionStep, CurrentStep, Numbers
  <2>3. QED
    BY <2>1, <2>2
<1>5. ASSUME NEW e \in Documents, NEW succeeded \in BOOLEAN, NEW n \in Numbers(e),
             CompleteProcessing(e, n, succeeded)
      PROVE  Changes
  BY <1>4, <1>5 DEF CompleteProcessing, Processable, UploadStatuses
<1>6. ASSUME NEW e \in Documents, NEW n \in Numbers(e), AbandonUpload(e, n) PROVE Changes
  BY <1>4, <1>6 DEF AbandonUpload, UploadStatuses
<1>7. QED
  BY <1>1, <1>2, <1>3, <1>5, <1>6
     DEF Next, vars, RequestVersion, ReservationFails, UploadObject, BeginFinalize, FinalizeFails,
         RecordReview, BeginSubmit, CommitSubmit, AbandonSubmit, Review, SuspendOrReinstate
-----------------------------------------------------------------------------
(* The lineage                                                             *)

LEMMA StoredGrows ==
    ASSUME TypeOK, FinalizingStored, [Next]_vars
    PROVE  stored \subseteq stored' /\ FinalizingStored'
<1> USE DEF TypeOK, FinalizingStored
<1>1. ASSUME NEW r \in Requests, NEW d \in Documents, NEW v \in Numbers(d), BeginFinalize(r, d, v)
      PROVE  stored \subseteq stored' /\ FinalizingStored'
  BY <1>1 DEF BeginFinalize
<1>2. ASSUME NEW r \in Requests, NEW d \in Documents, NEW v \in Numbers(d), CommitFinalize(r, d, v)
      PROVE  stored \subseteq stored' /\ FinalizingStored'
  BY <1>2 DEF CommitFinalize
<1>3. ASSUME NEW r \in Requests, FinalizeFails(r)
      PROVE  stored \subseteq stored' /\ FinalizingStored'
  BY <1>3 DEF FinalizeFails
<1>4. ASSUME NEW d \in Documents, NEW v \in Numbers(d), UploadObject(d, v)
      PROVE  stored \subseteq stored' /\ FinalizingStored'
  BY <1>4 DEF UploadObject
<1>5. ASSUME UNCHANGED <<stored, finalizing>>
      PROVE  stored \subseteq stored' /\ FinalizingStored'
  BY <1>5
<1>6. QED
  BY <1>1, <1>2, <1>3, <1>4, <1>5
     DEF Next, vars, RequestVersion, ReserveVersion, ReservationFails, CompleteProcessing,
         AbandonUpload, RecordReview, BeginSubmit, CommitSubmit, AbandonSubmit, Review,
         SuspendOrReinstate

LEMMA LineageInductive ==
    ASSUME TypeOK, FinalizingStored, LineageConsistent, [Next]_vars
    PROVE  FinalizingStored' /\ LineageConsistent'
<1>1. stored \subseteq stored' /\ FinalizingStored'
  BY StoredGrows
<1>2. ASSUME NEW d \in Documents PROVE Lineage(d)'
  <2>1. /\ Lineage(d)
        /\ Numbers(d) \subseteq Numbers(d)'
        /\ \A v \in Numbers(d) : VersionStep(d, v)
        /\ \A v \in Numbers(d)' \ Numbers(d) : versions'[d][v] = "pending_upload"
        /\ CurrentStep(d)
    BY VersionsChange DEF LineageConsistent
  <2>2. \A v \in Numbers(d) : v \in Nat \ {0}
    BY Numbered
  <2>3. current'[d] = 0 => \A v \in Numbers(d)' : versions'[d][v] \in {"pending_upload", "rejected"}
    BY <2>1, <2>2 DEF Lineage, CurrentStep, VersionStep
  <2>4. current'[d] # 0 =>
            current'[d] \in Numbers(d)' /\ versions'[d][current'[d]] \in {"uploaded", "ready", "rejected"}
    BY <2>1, <2>2 DEF Lineage, CurrentStep, VersionStep
  <2>5. ASSUME NEW v \in Numbers(d)', versions'[d][v] \in {"uploaded", "ready", "superseded"}
        PROVE  <<d, v>> \in stored'
    <3>1. v \in Numbers(d) /\ VersionStep(d, v)
      BY <2>1, <2>5
    <3>2. CASE versions[d][v] \in {"uploaded", "ready", "superseded"}
      BY <1>1, <2>1, <3>1, <3>2 DEF Lineage
    <3>3. CASE \E r \in Requests : finalizing[r] = <<d, v>>
      <4>1. <<d, v>> \in VersionIds
        BY <3>1, Numbered DEF VersionIds
      <4>2. QED
        BY <1>1, <3>3, <4>1 DEF FinalizingStored, VersionIds
    <3>4. QED
      BY <2>5, <3>1, <3>2, <3>3 DEF VersionStep
  <2>6. QED
    BY <2>3, <2>4, <2>5 DEF Lineage
<1>3. QED
  BY <1>1, <1>2 DEF LineageConsistent

LEMMA LineageAlways == Spec => [](TypeOK /\ FinalizingStored /\ LineageConsistent)
<1>1. Init => FinalizingStored /\ LineageConsistent
  <2>1. Len(<<>>) = 0
    BY EmptySeq
  <2>2. QED
    BY <2>1 DEF Init, FinalizingStored, LineageConsistent, Lineage, Numbers
<1>2. QED
  BY <1>1, TypeCorrect, LineageInductive, PTL DEF Spec

\* However uploads overtake, repeat and abandon each other, the current version of
\* a document has arrived and was not replaced, and what has arrived was verified
\* in Storage.
THEOREM LineageKept == Spec => []LineageConsistent
BY LineageAlways, PTL

-----------------------------------------------------------------------------
(* What snapshots name                                                     *)

\* Evidence that was counted is ready, or an upload has replaced it.
CountedIsReadyOrReplaced ==
    submitting => /\ phase = "editable"
                  /\ \A d \in Documents :
                        \/ EvidenceReady(d)
                        \/ \E v \in Numbers(d) : versions[d][v] = "superseded"

LEMMA SubmittingStays ==
    ASSUME [Next]_vars, submitting, phase = "editable"
    PROVE  CommitSubmit \/ phase' = phase
BY DEF Next, vars, RequestVersion, ReserveVersion, ReservationFails, UploadObject, BeginFinalize,
       CommitFinalize, FinalizeFails, CompleteProcessing, AbandonUpload, RecordReview,
       BeginSubmit, AbandonSubmit, Review, SuspendOrReinstate

LEMMA SubmittingBegins ==
    ASSUME [Next]_vars, ~ submitting, submitting' PROVE BeginSubmit
BY DEF Next, vars, RequestVersion, ReserveVersion, ReservationFails, UploadObject, BeginFinalize,
       CommitFinalize, FinalizeFails, CompleteProcessing, AbandonUpload, RecordReview,
       CommitSubmit, AbandonSubmit, Review, SuspendOrReinstate

LEMMA CountedInductive ==
    ASSUME TypeOK, LineageConsistent, CountedIsReadyOrReplaced, [Next]_vars
    PROVE  CountedIsReadyOrReplaced'
<1> SUFFICES ASSUME submitting' PROVE CountedIsReadyOrReplaced'
  BY DEF CountedIsReadyOrReplaced
<1>1. CASE ~ submitting
  <2>1. BeginSubmit
    BY <1>1, SubmittingBegins
  <2>2. phase' = "editable" /\ \A d \in Documents : EvidenceReady(d)'
    BY <2>1 DEF BeginSubmit, EvidenceReady
  <2>3. QED
    BY <2>2 DEF CountedIsReadyOrReplaced
<1>2. CASE submitting
  <2>1. phase' = "editable"
    BY <1>2, SubmittingStays DEF CountedIsReadyOrReplaced, CommitSubmit
  <2>2. ASSUME NEW d \in Documents, EvidenceReady(d)
        PROVE  EvidenceReady(d)' \/ \E v \in Numbers(d)' : versions'[d][v] = "superseded"
    <3>1. current[d] \in Numbers(d) /\ versions[d][current[d]] = "ready" /\ 0 \notin Numbers(d)
      BY <2>2, Numbered DEF EvidenceReady, LineageConsistent, Lineage
    <3>2. VersionStep(d, current[d]) /\ Numbers(d) \subseteq Numbers(d)' /\ CurrentStep(d)
      BY <3>1, VersionsChange
    <3>3. CASE current'[d] = current[d]
      BY <3>1, <3>2, <3>3 DEF VersionStep, EvidenceReady
    <3>4. CASE current'[d] # current[d]
      <4>1. versions'[d][current[d]] # "ready"
        BY <3>1, <3>2, <3>4 DEF CurrentStep
      <4>2. versions'[d][current[d]] = "superseded"
        BY <3>1, <3>2, <4>1 DEF VersionStep
      <4>3. QED
        BY <3>1, <3>2, <4>2
    <3>5. QED
      BY <3>3, <3>4
  <2>3. ASSUME NEW d \in Documents, NEW v \in Numbers(d), versions[d][v] = "superseded"
        PROVE  v \in Numbers(d)' /\ versions'[d][v] = "superseded"
    BY <2>3, VersionsChange DEF VersionStep
  <2>4. QED
    BY <1>2, <2>1, <2>2, <2>3 DEF CountedIsReadyOrReplaced
<1>3. QED
  BY <1>1, <1>2

LEMMA CountedAlways == Spec => []CountedIsReadyOrReplaced
<1>1. Init => CountedIsReadyOrReplaced
  BY DEF Init, CountedIsReadyOrReplaced
<1>2. QED
  BY <1>1, LineageAlways, CountedInductive, PTL DEF Spec

LEMMA SnapshotsInductive ==
    ASSUME TypeOK, LineageConsistent, CountedIsReadyOrReplaced, SnapshotVersionsStay, [Next]_vars
    PROVE  SnapshotVersionsStay'
<1> DEFINE Usable(d, v) == v \in Numbers(d) /\ versions[d][v] \in {"ready", "superseded"}
           Replaced(d) == \E v \in Numbers(d) : versions[d][v] = "superseded"
<1>0. cited \subseteq VersionIds
  BY DEF TypeOK
<1>1. ASSUME NEW id \in VersionIds, Usable(id[1], id[2])
      PROVE  Usable(id[1], id[2])'
  <2>1. id[1] \in Documents
    BY DEF VersionIds
  <2>2. Numbers(id[1]) \subseteq Numbers(id[1])' /\ VersionStep(id[1], id[2])
    BY <1>1, <2>1, VersionsChange
  <2>3. QED
    BY <1>1, <2>2 DEF VersionStep
<1>2. ASSUME NEW d \in Documents, Replaced(d) PROVE Replaced(d)'
  BY <1>2, VersionsChange DEF VersionStep
<1>3. ASSUME cited' = cited, latest' = latest, phase' = phase \/ phase # "editable"
      PROVE  SnapshotVersionsStay'
  BY <1>0, <1>1, <1>2, <1>3 DEF SnapshotVersionsStay
<1>4. CASE CommitSubmit
  <2>1. ASSUME NEW d \in Documents, EvidenceReady(d)
        PROVE  <<d, current[d]>> \in VersionIds /\ Usable(d, current[d])
    <3>1. current[d] \in 1 .. MaxVersions /\ versions[d][current[d]] = "ready"
      BY <2>1 DEF EvidenceReady, TypeOK
    <3>2. current[d] \in Numbers(d)
      BY <3>1 DEF LineageConsistent, Lineage
    <3>3. QED
      BY <3>1, <3>2 DEF VersionIds
  <2>2. \A id \in cited' : id \in VersionIds /\ Usable(id[1], id[2])
    BY <1>0, <1>4, <2>1 DEF CommitSubmit, SnapshotVersionsStay
  <2>3. ASSUME NEW d \in Documents
        PROVE  <<d, latest'[d]>> \in cited' \/ (latest'[d] = 0 /\ Replaced(d))
    BY <1>4 DEF CommitSubmit, CountedIsReadyOrReplaced
  <2>4. QED
    BY <1>1, <1>2, <2>2, <2>3 DEF SnapshotVersionsStay
<1>5. ASSUME NEW next \in {"editable", "decided"}, Review(next) PROVE SnapshotVersionsStay'
  BY <1>3, <1>5 DEF Review
<1>6. QED
  BY <1>3, <1>4, <1>5
     DEF Next, vars, RequestVersion, ReserveVersion, ReservationFails, UploadObject, BeginFinalize,
         CommitFinalize, FinalizeFails, CompleteProcessing, AbandonUpload, RecordReview,
         BeginSubmit, AbandonSubmit, SuspendOrReinstate

\* Every version a snapshot names was ready when it was copied and is ready or
\* superseded ever after, and whoever reviews or decides has one for each document
\* that no upload replaced between the count and the copy.
THEOREM SnapshotsKept == Spec => []SnapshotVersionsStay
<1>1. Init => SnapshotVersionsStay
  BY DEF Init, SnapshotVersionsStay
<1>2. QED
  BY <1>1, LineageAlways, CountedAlways, SnapshotsInductive, PTL DEF Spec

-----------------------------------------------------------------------------
(* Steps of a version                                                      *)

\* No function runs into the trigger that guards the state machine of versions.
THEOREM VersionsFollowMachine == Spec => VersionStateMachine
<1>1. ASSUME TypeOK, [Next]_vars, NEW d \in Documents, NEW v \in Numbers(d)
      PROVE  \/ versions'[d][v] = versions[d][v]
             \/ LegalVersionTransition(versions[d][v], versions'[d][v])
             \/ /\ LegalVersionTransition(versions[d][v], "processing")
                /\ LegalVersionTransition("processing", versions'[d][v])
  BY <1>1, VersionsChange DEF VersionStep, LegalVersionTransition
<1>2. TypeOK /\ [Next]_vars =>
          [\A d \in Documents : \A v \in Numbers(d) :
              LET from == versions[d][v]
                  to   == versions'[d][v]
              IN  \/ to = from
                  \/ LegalVersionTransition(from, to)
                  \/ /\ LegalVersionTransition(from, "processing")
                     /\ LegalVersionTransition("processing", to)]_vars
  BY <1>1
<1>3. QED
  BY <1>2, TypeCorrect, PTL DEF Spec, VersionStateMachine

\* No late job, review or nightly job takes a ready current version away.
THEOREM EvidenceStays == Spec => EvidenceLostOnlyByReplacement
<1>1. ASSUME TypeOK, LineageConsistent, [Next]_vars, NEW d \in Documents,
             EvidenceReady(d), current'[d] = current[d]
      PROVE  versions'[d][current[d]] = "ready"
  <2>1. current[d] \in Numbers(d) /\ versions[d][current[d]] = "ready"
    BY <1>1 DEF EvidenceReady, LineageConsistent, Lineage
  <2>2. VersionStep(d, current[d])
    BY <1>1, <2>1, VersionsChange
  <2>3. QED
    BY <1>1, <2>1, <2>2 DEF VersionStep
<1>2. TypeOK /\ LineageConsistent /\ [Next]_vars =>
          [\A d \in Documents :
              EvidenceReady(d) /\ current'[d] = current[d] => versions'[d][current[d]] = "ready"]_vars
  BY <1>1
<1>3. QED
  BY <1>2, LineageAlways, PTL DEF Spec, EvidenceLostOnlyByReplacement

-----------------------------------------------------------------------------
(* The shelf                                                               *)

\* What a step of the versions makes of the current evidence of one document.
LEMMA ShelvedChange ==
    ASSUME TypeOK, LineageConsistent, [Next]_vars, NEW d \in Documents
    PROVE  \/ Shelved(d)' = Shelved(d)
           \/ Shelved(d)' = "waiting"
           \/ Shelved(d) = "waiting" /\ Shelved(d)' \in {"ready", "refused"} /\ current' = current
<1>1. CurrentStep(d) /\ Lineage(d) /\ current[d] \in 0 .. MaxVersions /\ 0 \notin Numbers(d)
  BY VersionsChange, Numbered DEF LineageConsistent, TypeOK
<1>2. CASE current'[d] = current[d]
  <2>1. CASE current[d] = 0
    BY <1>2, <2>1 DEF Shelved
  <2>2. CASE current[d] # 0
    <3>1. current[d] \in Numbers(d)
      BY <1>1, <2>2 DEF Lineage
    <3>2. VersionStep(d, current[d])
      BY <3>1, VersionsChange
    <3>3. QED
      BY <1>1, <1>2, <2>2, <3>2 DEF VersionStep, Shelved, Lineage
  <2>3. QED
    BY <2>1, <2>2
<1>3. CASE current'[d] # current[d]
  BY <1>1, <1>3 DEF CurrentStep, Shelved
<1>4. QED
  BY <1>2, <1>3

\* A step is about the versions of one document, or about none.
LEMMA OneDocument ==
    ASSUME TypeOK, [Next]_vars
    PROVE  \/ UNCHANGED <<versions, current>>
           \/ /\ UNCHANGED <<phase, submitting, latest>>
              /\ \E e \in Documents : \A d \in Documents \ {e} :
                    versions'[d] = versions[d] /\ current'[d] = current[d]
<1> USE DEF TypeOK
<1>1. ASSUME NEW e \in Documents, ReserveVersion(e)
      PROVE  UNCHANGED <<phase, submitting, latest>> /\ \A d \in Documents \ {e} : versions'[d] = versions[d] /\ current'[d] = current[d]
  BY <1>1 DEF ReserveVersion
<1>2. ASSUME NEW e \in Documents, NEW r \in Requests, NEW v \in Numbers(e), CommitFinalize(r, e, v)
      PROVE  UNCHANGED <<phase, submitting, latest>> /\ \A d \in Documents \ {e} : versions'[d] = versions[d] /\ current'[d] = current[d]
  BY <1>2 DEF CommitFinalize
<1>3. ASSUME NEW e \in Documents, NEW succeeded \in BOOLEAN, NEW v \in Numbers(e),
             CompleteProcessing(e, v, succeeded) \/ AbandonUpload(e, v)
      PROVE  UNCHANGED <<phase, submitting, latest>> /\ \A d \in Documents \ {e} : versions'[d] = versions[d] /\ current'[d] = current[d]
  BY <1>3 DEF CompleteProcessing, AbandonUpload
<1>4. ASSUME \/ \E d \in Documents : RequestVersion(d) \/ ReservationFails(d)
             \/ \E d \in Documents, v \in Nat : UploadObject(d, v)
             \/ \E r \in Requests, d \in Documents, v \in Nat : BeginFinalize(r, d, v)
             \/ \E r \in Requests : FinalizeFails(r)
             \/ \E d \in Documents, outcome \in ReviewOutcomes, v \in Nat : RecordReview(d, v, outcome)
             \/ BeginSubmit \/ CommitSubmit \/ AbandonSubmit
             \/ \E next \in {"editable", "decided"} : Review(next)
             \/ SuspendOrReinstate
             \/ UNCHANGED vars
      PROVE  UNCHANGED <<versions, current>>
  BY <1>4 DEF RequestVersion, ReservationFails, UploadObject, BeginFinalize, FinalizeFails,
              RecordReview, BeginSubmit, CommitSubmit, AbandonSubmit, Review,
              SuspendOrReinstate, vars
<1>5. \A d \in Documents : Numbers(d) \subseteq Nat
  BY Numbered DEF Numbers
<1>6. CASE UNCHANGED vars
  BY <1>4, <1>6
<1>7. CASE Next
  BY <1>1, <1>2, <1>3, <1>4, <1>5, <1>7 DEF Next
<1>8. QED
  BY <1>6, <1>7

LEMMA ShelfStep ==
    ASSUME TypeOK, LineageConsistent, CountedIsReadyOrReplaced, [Next]_vars
    PROVE  [Shelf!Next]_<<[d \in Documents |-> Shelved(d)],
                          IF submitting THEN "checked" ELSE phase,
                          {d \in Documents : latest[d] # 0}>>
<1> DEFINE shelf == [d \in Documents |-> Shelved(d)]
           stage == IF submitting THEN "checked" ELSE phase
           named == {d \in Documents : latest[d] # 0}
<1>0. \A d \in Documents : EvidenceReady(d) <=> Shelved(d) = "ready"
  BY DEF EvidenceReady, Shelved
<1>1. CASE UNCHANGED <<versions, current>>
  <2>1. shelf' = shelf
    BY <1>1 DEF Shelved
  <2>2. CASE BeginSubmit
    <3>1. \A d \in Documents : shelf[d] = "ready"
      BY <1>0, <2>2 DEF BeginSubmit
    <3>2. Shelf!Check
      BY <2>1, <2>2, <3>1 DEF BeginSubmit, Shelf!Check
    <3>3. QED
      BY <3>2 DEF Shelf!Next
  <2>3. CASE CommitSubmit
    <3>1. named' = {d \in Documents : shelf[d] = "ready"}
      <4>1. \A d \in Documents : latest'[d] # 0 <=> EvidenceReady(d)
        BY <2>3 DEF CommitSubmit, EvidenceReady
      <4>2. QED
        BY <1>0, <4>1
    <3>2. Shelf!Submit
      BY <2>1, <2>3, <3>1 DEF CommitSubmit, Shelf!Submit
    <3>3. QED
      BY <3>2 DEF Shelf!Next
  <2>4. CASE AbandonSubmit
    <3>1. Shelf!GiveUp
      BY <2>1, <2>4 DEF AbandonSubmit, Shelf!GiveUp, CountedIsReadyOrReplaced
    <3>2. QED
      BY <3>1 DEF Shelf!Next
  <2>5. ASSUME NEW next \in {"editable", "decided"}, Review(next) PROVE [Shelf!Next]_<<shelf, stage, named>>
    <3>1. ~ submitting
      BY <2>5 DEF Review, CountedIsReadyOrReplaced
    <3>2. Shelf!Review
      BY <2>1, <2>5, <3>1 DEF Review, Shelf!Review
    <3>3. QED
      BY <3>2 DEF Shelf!Next
  <2>6. ASSUME UNCHANGED <<phase, submitting, latest>> PROVE [Shelf!Next]_<<shelf, stage, named>>
    BY <2>1, <2>6
  <2>7. QED
    BY <2>2, <2>3, <2>4, <2>5, <2>6
       DEF Next, vars, RequestVersion, ReserveVersion, ReservationFails, UploadObject,
           BeginFinalize, CommitFinalize, FinalizeFails, CompleteProcessing, AbandonUpload,
           RecordReview, SuspendOrReinstate
<1>2. ASSUME UNCHANGED <<phase, submitting, latest>>, NEW e \in Documents,
             \A d \in Documents \ {e} : versions'[d] = versions[d] /\ current'[d] = current[d]
      PROVE  [Shelf!Next]_<<shelf, stage, named>>
  <2>0. stage' = stage /\ named' = named
    BY <1>2
  <2>1. \A d \in Documents \ {e} : Shelved(d)' = Shelved(d)
    BY <1>2 DEF Shelved
  <2>2. shelf' = [shelf EXCEPT ![e] = Shelved(e)']
    BY <2>1
  <2>3. CASE Shelved(e)' = Shelved(e)
    BY <1>2, <2>0, <2>2, <2>3
  <2>4. CASE Shelved(e)' = "waiting"
    BY <1>2, <2>0, <2>2, <2>4 DEF Shelf!Next, Shelf!Arrive
  <2>5. CASE Shelved(e) = "waiting" /\ Shelved(e)' \in {"ready", "refused"}
    BY <1>2, <2>0, <2>2, <2>5 DEF Shelf!Next, Shelf!Judge
  <2>6. QED
    BY <2>3, <2>4, <2>5, ShelvedChange
<1>3. QED
  BY <1>1, <1>2, OneDocument

\* Looking at current versions only, nothing happens but arrivals, one verdict for
\* each, and submissions that copy what is ready after everything was found ready:
\* the system implements the shelf.
THEOREM ImplementsShelf == Spec => KeepsTheShelf
<1>1. Init => Shelf!Init
  BY DEF Init, Shelf!Init, Shelved
<1>2. QED
  BY <1>1, LineageAlways, CountedAlways, ShelfStep, PTL DEF Spec, KeepsTheShelf, Shelf!Spec
=============================================================================
