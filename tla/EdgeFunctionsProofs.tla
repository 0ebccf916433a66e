-------------------------- MODULE EdgeFunctionsProofs --------------------------
(***************************************************************************)
(* Theorems about EdgeFunctions, for any number of suppliers and buyers,   *)
(* any sets of flaws and every bound on requests and lost answers.         *)
(***************************************************************************)
EXTENDS EdgeFunctions, SequenceTheorems, TLAPS

LEMMA FunctionIsSequence ==
    ASSUME NEW S, NEW n \in Nat, NEW t \in [1 .. n -> S]
    PROVE  t \in Seq(S)
<1>1. t = [i \in 1 .. n |-> t[i]]
  OBVIOUS
<1>2. QED
  BY <1>1

LEMMA Bounds == MaxPresses \in Nat /\ MaxFaults \in Nat
BY EdgeAssumption
-----------------------------------------------------------------------------
(* Statuses                                                                *)

ClientErrors == {400, 401, 403, 404, 405, 409, 413, 415, 422}

LEMMA StatusIsClientError == ASSUME NEW check PROVE Status(check) \in ClientErrors
BY DEF Status, ClientErrors

\* The pipeline refuses with a client error or not at all.
LEMMA RefusalIsClientError ==
    ASSUME NEW r \in Functions \X Flaws PROVE Refusal[r] \in ClientErrors \union {Nothing}
<1> DEFINE checks  == Checks[r[1]]
           failing == {i \in DOMAIN checks : checks[i] \in r[2]}
           first   == CHOOSE i \in failing : \A j \in failing : i <= j
<1>1. Refusal[r] = IF failing = {} THEN Nothing ELSE Status(checks[first])
  BY Zenon DEF Refusal
<1>2. Status(checks[first]) \in ClientErrors
  BY StatusIsClientError
<1> HIDE DEF failing
<1>3. QED
  BY <1>1, <1>2

LEMMA RejectionsTyped == Rejections \subseteq ClientErrors
<1>1. SUFFICES ASSUME NEW r \in Functions \X Flaws, Refusal[r] # Nothing
               PROVE  Refusal[r] \in ClientErrors
  BY DEF Rejections
<1>2. QED
  BY <1>1, RefusalIsClientError

LEMMA ErrorStatusTyped ==
    ASSUME NEW fn, NEW code
    PROVE  ErrorStatus(fn, code) \in ClientErrors \union {500}
BY DEF ErrorStatus, FromDatabaseError, ClientErrors

\* An error without a code of the database is one of the server.
LEMMA ErrorWithoutCode == ASSUME NEW fn PROVE ErrorStatus(fn, "none") = 500
BY DEF ErrorStatus, FromDatabaseError

LEMMA SuccessTyped == ASSUME NEW fn PROVE Success(fn) \in {200, 201, 202}
BY DEF Success

LEMMA StatusRanges ==
    /\ ClientErrors \subseteq Statuses
    /\ \A s \in ClientErrors : s \in 400 .. 499 /\ s \notin 200 .. 299 /\ s \in Int
    /\ {200, 201, 202, 500} \subseteq Statuses
BY DEF ClientErrors, Statuses
-----------------------------------------------------------------------------
(* What a step does to the database                                        *)

DataTyped ==
    /\ serial \in Nat /\ invitation \in {"none", "pending", "accepted"} /\ pair \in BOOLEAN
    /\ versions \in Seq(Versions) /\ findings \in Seq(FindingStatuses)
    /\ assessment \in {"in_progress", "submitted", "under_review", "changes_requested", "approved"}
    /\ decisions \in Nat /\ reports \in Nat

\* Tokens and versions are never taken back; a stored object is never replaced
\* and an uploaded version stays uploaded.
EvidenceKept ==
    /\ 1 .. serial \subseteq 1 .. serial'
    /\ \A v \in DOMAIN versions :
          /\ v \in DOMAIN versions'
          /\ versions[v].object # "absent" => versions'[v].object = versions[v].object
          /\ versions[v].state = "uploaded" => versions'[v].state = "uploaded"

\* A sequence with one element changed, or none when the index is out of range.
LEMMA Rewritten ==
    ASSUME NEW S, NEW s \in Seq(S), NEW i, NEW e, i \in DOMAIN s => e \in S
    PROVE  [s EXCEPT ![i] = e] \in Seq(S)
<1>1. CASE i \in DOMAIN s
  BY <1>1, LenProperties, ExceptSeq
<1>2. CASE i \notin DOMAIN s
  <2>1. s \in [1 .. Len(s) -> S]
    BY LenProperties
  <2>2. s = [x \in 1 .. Len(s) |-> s[x]]
    BY <2>1
  <2>3. [s EXCEPT ![i] = e] \in [1 .. Len(s) -> S]
    BY <1>2, <2>1, <2>2
  <2>4. Len(s) \in Nat
    BY LenProperties
  <2>5. QED
    BY <2>3, <2>4, FunctionIsSequence
<1>3. QED
  BY <1>1, <1>2

LEMMA FinalizedVersions ==
    ASSUME versions \in Seq(Versions), NEW t
    PROVE  [versions EXCEPT ![t].state = "uploaded"] \in Seq(Versions)
<1>1. t \in DOMAIN versions => [versions[t] EXCEPT !.state = "uploaded"] \in Versions
  <2>1. t \in DOMAIN versions => versions[t] \in Versions
    BY LenProperties
  <2>2. QED
    BY <2>1 DEF Versions
<1>2. [versions EXCEPT ![t] = [versions[t] EXCEPT !.state = "uploaded"]] \in Seq(Versions)
  BY <1>1, Rewritten
<1>3. QED
  BY <1>2

LEMMA ReservedVersion ==
    ASSUME versions \in Seq(Versions)
    PROVE  LET after == Append(versions, [state |-> "pending", object |-> "absent"])
           IN  /\ after \in Seq(Versions)
               /\ DOMAIN after = 1 .. Len(versions) + 1
               /\ \A v \in DOMAIN versions : after[v] = versions[v]
<1>1. [state |-> "pending", object |-> "absent"] \in Versions
  BY DEF Versions
<1>2. QED
  BY <1>1, AppendProperties, LenProperties

LEMMA EffectTyped ==
    ASSUME DataTyped, NEW q, Effect(q)
    PROVE  /\ DataTyped' /\ EvidenceKept
           /\ q.fn = "create-supplier-invitation" => Created(q) \in 1 .. serial'
           /\ q.fn = "create-document-upload" => Created(q) \in DOMAIN versions'
           /\ Created(q) \in Nat
<1> USE DEF DataTyped
<1>1. serial' \in Nat /\ invitation' \in {"none", "pending", "accepted"} /\ pair' \in BOOLEAN
  BY DEF Effect
<1>2. /\ assessment' \in {"in_progress", "submitted", "under_review", "changes_requested", "approved"}
      /\ decisions' \in Nat /\ reports' \in Nat
  BY DEF Effect
<1>3. versions' \in Seq(Versions)
  BY ReservedVersion, FinalizedVersions DEF Effect
<1>4. findings' \in Seq(FindingStatuses)
  <2>1. Append(findings, "response_required") \in Seq(FindingStatuses)
    BY AppendProperties DEF FindingStatuses
  <2>2. [findings EXCEPT ![q.target] = "response_submitted"] \in Seq(FindingStatuses)
    BY Rewritten DEF FindingStatuses
  <2>3. QED
    BY <2>1, <2>2 DEF Effect
<1>5. EvidenceKept
  <2>1. 1 .. serial \subseteq 1 .. serial'
    BY DEF Effect
  <2>2. CASE q.fn = "create-document-upload"
    BY <2>1, <2>2, ReservedVersion, LenProperties DEF Effect, EvidenceKept
  <2>3. CASE q.fn = "finalize-document-upload"
    <3>1. versions' = [versions EXCEPT ![q.target].state = "uploaded"]
      BY <2>3 DEF Effect
    <3>2. \A v \in DOMAIN versions : versions[v] \in Versions
      BY LenProperties
    <3>3. QED
      BY <2>1, <3>1, <3>2 DEF EvidenceKept, Versions
  <2>4. CASE q.fn \notin {"create-document-upload", "finalize-document-upload"}
    BY <2>1, <2>4 DEF Effect, EvidenceKept
  <2>5. QED
    BY <2>2, <2>3, <2>4
<1>6. /\ q.fn = "create-supplier-invitation" => Created(q) \in 1 .. serial'
      /\ q.fn = "create-document-upload" => Created(q) \in DOMAIN versions'
      /\ Created(q) \in Nat
  <2>1. Len(versions) \in Nat
    BY LenProperties
  <2>2. q.fn = "create-document-upload" => DOMAIN versions' = 1 .. Len(versions) + 1
    BY ReservedVersion DEF Effect
  <2>3. QED
    BY <2>1, <2>2 DEF Effect, Created
<1>7. QED
  BY <1>1, <1>2, <1>3, <1>4, <1>5, <1>6

LEMMA PutTyped ==
    ASSUME DataTyped, NEW v \in DOMAIN versions, NEW object \in {"promised", "other"},
           Put(v, object)
    PROVE  DataTyped' /\ EvidenceKept
<1> USE DEF DataTyped
<1>1. \A w \in DOMAIN versions : versions[w] \in Versions
  BY LenProperties
<1>2. [versions[v] EXCEPT !.object = object] \in Versions
  BY <1>1 DEF Versions
<1>3. [versions EXCEPT ![v] = [versions[v] EXCEPT !.object = object]] \in Seq(Versions)
  BY <1>2, Rewritten
<1>4. [versions EXCEPT ![v].object = object] \in Seq(Versions)
  BY <1>3
<1>5. DataTyped'
  BY <1>4 DEF Put
<1>6. EvidenceKept
  BY <1>1 DEF Put, EvidenceKept, Versions
<1>7. QED
  BY <1>5, <1>6

LEMMA OthersTyped == ASSUME DataTyped, Others PROVE DataTyped' /\ EvidenceKept
<1> USE DEF DataTyped
<1>1. findings' \in Seq(FindingStatuses)
  <2>1. CASE UNCHANGED findings
    BY <2>1
  <2>2. CASE \E i \in DOMAIN findings, status \in {"verified", "response_required"} :
                findings' = [findings EXCEPT ![i] = status]
    BY <2>2, Rewritten DEF FindingStatuses
  <2>3. QED
    BY <2>1, <2>2 DEF Others
<1>2. DataTyped'
  BY <1>1 DEF Others
<1>3. EvidenceKept
  BY DEF Others, EvidenceKept
<1>4. QED
  BY <1>2, <1>3

LEMMA UntouchedTyped == ASSUME DataTyped, UNCHANGED data PROVE DataTyped' /\ EvidenceKept
BY DEF DataTyped, EvidenceKept, data
-----------------------------------------------------------------------------
(* Where a request is                                                      *)

\* A request under way is the user's wish, and each phase has its function.
PhasesOf(c) ==
    /\ call[c].phase # "idle" => wish[c] # NoWish
    /\ wish[c] # NoWish => wish[c].fn \in Functions
    /\ wish[c] = NoWish => effects[c] = 0 /\ told[c] \notin 200 .. 299
    /\ call[c].phase = "verified" => wish[c].fn = "finalize-document-upload"
    /\ call[c].phase = "reserved" => wish[c].fn = "create-document-upload"

\* What a success is about to hand to the user exists.
ResultsOf(c) ==
    /\ call[c].phase = "reserved" => call[c].result \in DOMAIN versions
    /\ call[c].phase = "answering" /\ call[c].reply = 201 =>
          /\ wish[c].fn = "create-supplier-invitation" => call[c].result \in 1 .. serial
          /\ wish[c].fn = "create-document-upload" => call[c].result \in DOMAIN versions

\* Only a verified object is finalized.
PromiseKept(c, state) ==
    wish[c].fn = "finalize-document-upload" =>
        /\ Target(c) \in DOMAIN versions
        /\ versions[Target(c)].object = "promised" /\ versions[Target(c)].state \in state

\* A success follows a commit of the wish.
SuccessOf(c) ==
    /\ call[c].phase = "verified" => PromiseKept(c, {"pending", "uploaded"})
    /\ call[c].phase = "reserved" => effects[c] > 0
    /\ call[c].phase = "answering" => call[c].reply # Nothing
    /\ call[c].phase = "answering" /\ call[c].reply \in 200 .. 299 =>
          /\ wish[c].fn # "get-signed-document-url" => effects[c] > 0
          /\ PromiseKept(c, {"uploaded"})
    /\ Idle(c) /\ told[c] \in 200 .. 299 =>
          /\ wish[c].fn # "get-signed-document-url" => effects[c] > 0
          /\ PromiseKept(c, {"uploaded"})

\* Before a commit, and after a refusal, a user who saw every answer has
\* changed nothing.
RefusalOf(c) ==
    ~ blind[c] /\ effects[c] > 0 =>
        /\ call[c].phase \notin {"sent", "verified"}
        /\ ~ (call[c].phase = "answering" /\ call[c].reply \in 400 .. 499)
        /\ ~ (Idle(c) /\ (told[c] = Lost \/ told[c] >= 400))

UserInv(c) == PhasesOf(c) /\ ResultsOf(c) /\ SuccessOf(c) /\ RefusalOf(c)

CallInv == TypeOK /\ \A c \in Callers : UserInv(c)

Mine(c) == <<call[c], wish[c], told[c], blind[c], effects[c]>>

\* The invariant of a user who does not move is kept by whatever the others do.
LEMMA BystanderKept ==
    ASSUME TypeOK, TypeOK', EvidenceKept, NEW c \in Callers, UserInv(c), Mine(c)' = Mine(c)
    PROVE  UserInv(c)'
<1>1. /\ call'[c] = call[c] /\ wish'[c] = wish[c] /\ told'[c] = told[c]
      /\ blind'[c] = blind[c] /\ effects'[c] = effects[c]
  BY DEF Mine
<1>2. /\ 1 .. serial \subseteq 1 .. serial' /\ DOMAIN versions \subseteq DOMAIN versions'
      /\ \A v \in DOMAIN versions :
            /\ versions[v].object = "promised" => versions'[v].object = "promised"
            /\ versions[v].state = "uploaded" => versions'[v].state = "uploaded"
            /\ versions'[v].state \in {"pending", "uploaded"}
  <2>1. \A v \in DOMAIN versions' : versions'[v] \in Versions
    BY LenProperties DEF TypeOK
  <2>2. QED
    BY <2>1 DEF EvidenceKept, Versions
<1>3. PhasesOf(c)'
  BY <1>1 DEF UserInv, PhasesOf
<1>4. ResultsOf(c)'
  BY <1>1, <1>2 DEF UserInv, ResultsOf
<1>5. PromiseKept(c, {"pending", "uploaded"}) => PromiseKept(c, {"pending", "uploaded"})'
  BY <1>1, <1>2 DEF PromiseKept, Target
<1>6. PromiseKept(c, {"uploaded"}) => PromiseKept(c, {"uploaded"})'
  BY <1>1, <1>2 DEF PromiseKept, Target
<1>7. SuccessOf(c)'
  BY <1>1, <1>5, <1>6 DEF UserInv, SuccessOf, Idle
<1>8. RefusalOf(c)'
  BY <1>1 DEF UserInv, RefusalOf, Idle
<1>9. QED
  BY <1>3, <1>4, <1>7, <1>8 DEF UserInv
-----------------------------------------------------------------------------
(* Types                                                                   *)

UsersTyped ==
    /\ call \in [Callers -> Calls] /\ wish \in [Callers -> Requests]
    /\ told \in [Callers -> Statuses \union {Nothing, Lost}]
    /\ blind \in [Callers -> BOOLEAN] /\ effects \in [Callers -> Nat]
    /\ reopened \in [Callers -> BOOLEAN]
    /\ presses \in 0 .. MaxPresses /\ faults \in 0 .. MaxFaults

LEMMA TypesSplit ==
    TypeOK <=> DataTyped /\ UsersTyped /\ shown \subseteq 1 .. serial /\ grants \subseteq DOMAIN versions
BY DEF TypeOK, DataTyped, UsersTyped

LEMMA AnswerTyped ==
    ASSUME call \in [Callers -> Calls], NEW c \in Callers, NEW s \in Statuses, Answer(c, s)
    PROVE  /\ call' \in [Callers -> Calls]
           /\ call'[c] = [phase |-> "answering", reply |-> s, result |-> call[c].result]
           /\ \A d \in Callers \ {c} : call'[d] = call[d]
BY DEF Answer, Calls

LEMMA NextPhaseTyped ==
    ASSUME call \in [Callers -> Calls], NEW c \in Callers,
           NEW p \in {"sent", "verified"}, NextPhase(c, p)
    PROVE  /\ call' \in [Callers -> Calls]
           /\ call'[c] = [phase |-> p, reply |-> call[c].reply, result |-> call[c].result]
           /\ \A d \in Callers \ {c} : call'[d] = call[d]
BY DEF NextPhase, Calls

LEMMA ChoicesTyped ==
    ASSUME TypeOK, NEW fn
    PROVE  /\ Targets(fn) \subseteq Nat
           /\ Kinds(fn) \subseteq {"plain", "odd_name", "approved", "deferred"}
<1>1. DOMAIN versions \subseteq Nat /\ DOMAIN findings \subseteq Nat
  BY LenProperties DEF TypeOK
<1>2. shown \subseteq Nat
  BY DEF TypeOK
<1>3. Targets(fn) \subseteq Nat
  BY <1>1, <1>2 DEF Targets
<1>4. Kinds(fn) \subseteq {"plain", "odd_name", "approved", "deferred"}
  BY DEF Kinds
<1>5. QED
  BY <1>3, <1>4

\* The user who moves is typed, and the others do not notice.
Moves(c) ==
    /\ UsersTyped'
    /\ \A d \in Callers \ {c} : Mine(d)' = Mine(d)

LEMMA SendMoves ==
    ASSUME TypeOK, NEW c \in Callers, Send(c)
    PROVE  /\ call' \in [Callers -> Calls] /\ told' \in [Callers -> Statuses \union {Nothing, Lost}]
           /\ presses' \in 0 .. MaxPresses /\ faults' \in 0 .. MaxFaults
           /\ call'[c].phase = "sent" /\ told'[c] = Nothing
           /\ \A d \in Callers \ {c} : call'[d] = call[d] /\ told'[d] = told[d]
<1>1. call \in [Callers -> Calls] /\ NextPhase(c, "sent")
  BY DEF TypeOK, Send
<1>2. call' \in [Callers -> Calls] /\ call'[c].phase = "sent"
      /\ \A d \in Callers \ {c} : call'[d] = call[d]
  BY <1>1 DEF NextPhase, Calls
<1>3. /\ told' \in [Callers -> Statuses \union {Nothing, Lost}] /\ told'[c] = Nothing
      /\ \A d \in Callers \ {c} : told'[d] = told[d]
  BY DEF TypeOK, Send
<1>4. presses' \in 0 .. MaxPresses /\ faults' \in 0 .. MaxFaults
  BY Bounds DEF TypeOK, Send
<1>5. QED
  BY <1>2, <1>3, <1>4

LEMMA PressMoves ==
    ASSUME TypeOK, NEW c \in Callers, Press(c)
    PROVE  /\ Moves(c)
           /\ wish'[c] # NoWish /\ wish'[c].fn \in Functions
           /\ call'[c].phase = "sent" /\ told'[c] = Nothing /\ effects'[c] = 0
<1>1. PICK r \in Passing : \E target \in Targets(r[1]), kind \in Kinds(r[1]) :
          wish' = [wish EXCEPT ![c] =
                      [fn |-> r[1], flaws |-> r[2], target |-> target, kind |-> kind]]
  BY DEF Press
<1>2. PICK target \in Targets(r[1]), kind \in Kinds(r[1]) :
          wish' = [wish EXCEPT ![c] =
                      [fn |-> r[1], flaws |-> r[2], target |-> target, kind |-> kind]]
  BY <1>1
<1> DEFINE q == [fn |-> r[1], flaws |-> r[2], target |-> target, kind |-> kind]
<1>3. r[1] \in Functions /\ r[2] \in Flaws
  BY DEF Passing
<1>4. q \in Requests
  BY <1>3, ChoicesTyped DEF Requests
<1>5. q # NoWish
  BY <1>3 DEF NoWish, Functions
<1>6. q.fn \in Functions
  BY <1>3
<1> HIDE DEF q
<1>7. wish' \in [Callers -> Requests] /\ wish'[c] = q /\ \A d \in Callers \ {c} : wish'[d] = wish[d]
  BY <1>2, <1>4 DEF TypeOK, q
<1>8. /\ blind' \in [Callers -> BOOLEAN] /\ effects' \in [Callers -> Nat] /\ reopened' \in [Callers -> BOOLEAN]
      /\ effects'[c] = 0
      /\ \A d \in Callers \ {c} : blind'[d] = blind[d] /\ effects'[d] = effects[d]
  BY DEF Press, TypeOK
<1>9. QED
  BY <1>5, <1>6, <1>7, <1>8, SendMoves DEF Press, Moves, Mine, UsersTyped

LEMMA PressAgainMoves ==
    ASSUME TypeOK, NEW c \in Callers, PressAgain(c)
    PROVE  Moves(c) /\ call'[c].phase = "sent" /\ told'[c] = Nothing
BY SendMoves DEF PressAgain, Moves, Mine, UsersTyped, TypeOK

LEMMA RejectMoves ==
    ASSUME TypeOK, NEW c \in Callers, Reject(c)
    PROVE  Moves(c) /\ told'[c] \notin 200 .. 299
<1>1. PICK status \in Rejections : told' = [told EXCEPT ![c] = status]
  BY DEF Reject
<1>2. status \in Statuses /\ status \notin 200 .. 299
  BY RejectionsTyped, StatusRanges
<1>3. /\ told' \in [Callers -> Statuses \union {Nothing, Lost}] /\ told'[c] = status
      /\ \A d \in Callers \ {c} : told'[d] = told[d]
  BY <1>1, <1>2 DEF TypeOK
<1>4. Moves(c)
  BY <1>3 DEF Reject, Moves, Mine, UsersTyped, TypeOK
<1>5. QED
  BY <1>2, <1>3, <1>4

LEMMA AnsweringMoves ==
    ASSUME TypeOK, NEW c \in Callers, NEW s \in Statuses, Answer(c, s),
           UNCHANGED <<user, reopened, presses>>, faults' \in 0 .. MaxFaults
    PROVE  Moves(c)
BY AnswerTyped DEF Moves, Mine, UsersTyped, TypeOK, user

LEMMA AnsweredMoves ==
    ASSUME TypeOK, NEW c \in Callers, Answered(c)
    PROVE  /\ Moves(c) /\ call'[c] = NoCall /\ told'[c] = call[c].reply
           /\ blind'[c] = (blind[c] \/ call[c].reply >= 500)
<1>1. call[c].reply \in Statuses \union {Nothing}
  BY DEF TypeOK, Calls
<1>2. NoCall \in Calls
  BY DEF NoCall, Calls
<1>3. /\ told' \in [Callers -> Statuses \union {Nothing, Lost}]
      /\ blind' \in [Callers -> BOOLEAN]
      /\ call' \in [Callers -> Calls]
  BY <1>1, <1>2 DEF Answered, TypeOK
<1>4. QED
  BY <1>3 DEF Answered, Moves, Mine, UsersTyped, TypeOK

LEMMA AnswerLostMoves ==
    ASSUME TypeOK, NEW c \in Callers, AnswerLost(c)
    PROVE  Moves(c) /\ call'[c] = NoCall /\ told'[c] = Lost /\ blind'[c]
<1>1. NoCall \in Calls
  BY DEF NoCall, Calls
<1>2. call' \in [Callers -> Calls] /\ call'[c] = NoCall
      /\ \A d \in Callers \ {c} : call'[d] = call[d]
  BY <1>1 DEF AnswerLost, TypeOK
<1>3. faults' \in 0 .. MaxFaults
  BY Bounds DEF AnswerLost, TypeOK
<1>4. /\ told' \in [Callers -> Statuses \union {Nothing, Lost}] /\ told'[c] = Lost
      /\ blind' \in [Callers -> BOOLEAN] /\ blind'[c]
      /\ \A d \in Callers \ {c} : told'[d] = told[d] /\ blind'[d] = blind[d]
  BY DEF AnswerLost, TypeOK
<1>5. QED
  BY <1>2, <1>3, <1>4 DEF AnswerLost, Moves, Mine, UsersTyped, TypeOK
-----------------------------------------------------------------------------
(* The invariant of the calls                                              *)

\* A step of one user keeps the invariant when it keeps that user's part.
LEMMA OneMoves ==
    ASSUME CallInv, NEW c \in Callers, Moves(c), DataTyped', EvidenceKept,
           shown' \subseteq 1 .. serial', grants' \subseteq DOMAIN versions', UserInv(c)'
    PROVE  CallInv' /\ EvidenceKept
<1>1. TypeOK'
  BY DEF Moves, TypeOK, DataTyped, UsersTyped
<1>2. ASSUME NEW d \in Callers \ {c} PROVE UserInv(d)'
  BY <1>1, BystanderKept DEF CallInv, Moves
<1>3. QED
  BY <1>1, <1>2 DEF CallInv

LEMMA KeptOpen ==
    ASSUME CallInv, EvidenceKept
    PROVE  shown \subseteq 1 .. serial' /\ grants \subseteq DOMAIN versions'
BY DEF CallInv, TypeOK, EvidenceKept

LEMMA PressKeeps == ASSUME CallInv, NEW c \in Callers, Press(c) PROVE CallInv' /\ EvidenceKept
<1>1. DataTyped' /\ EvidenceKept /\ shown' = shown /\ grants' = grants
  BY UntouchedTyped, TypesSplit DEF CallInv, Press, Send
<1>2. Moves(c) /\ wish'[c] # NoWish /\ wish'[c].fn \in Functions
      /\ call'[c].phase = "sent" /\ told'[c] = Nothing /\ effects'[c] = 0
  BY PressMoves DEF CallInv
<1>3. UserInv(c)'
  BY <1>2 DEF UserInv, PhasesOf, ResultsOf, SuccessOf, RefusalOf, Idle, Nothing, Lost
<1>4. QED
  BY <1>1, <1>2, <1>3, KeptOpen, OneMoves

LEMMA PressAgainKeeps ==
    ASSUME CallInv, NEW c \in Callers, PressAgain(c) PROVE CallInv' /\ EvidenceKept
<1>1. DataTyped' /\ EvidenceKept /\ shown' = shown /\ grants' = grants
  BY UntouchedTyped, TypesSplit DEF CallInv, PressAgain, Send
<1>2. Moves(c) /\ call'[c].phase = "sent" /\ told'[c] = Nothing
  BY PressAgainMoves DEF CallInv
<1>3. /\ wish'[c] = wish[c] /\ wish[c] # NoWish
      /\ blind'[c] = blind[c] /\ effects'[c] = effects[c]
      /\ Idle(c) /\ (told[c] = Lost \/ told[c] >= 400)
  BY DEF PressAgain
<1>4. UserInv(c)
  BY DEF CallInv
<1>5. UserInv(c)'
  BY <1>2, <1>3, <1>4 DEF UserInv, PhasesOf, ResultsOf, SuccessOf, RefusalOf, Idle, Nothing, Lost
<1>6. QED
  BY <1>1, <1>2, <1>5, KeptOpen, OneMoves

LEMMA RejectKeeps == ASSUME CallInv, NEW c \in Callers, Reject(c) PROVE CallInv' /\ EvidenceKept
<1>1. DataTyped' /\ EvidenceKept /\ shown' = shown /\ grants' = grants
  BY UntouchedTyped, TypesSplit DEF CallInv, Reject
<1>2. Moves(c) /\ told'[c] \notin 200 .. 299
  BY RejectMoves DEF CallInv
<1>3. /\ Idle(c) /\ wish[c] = NoWish
      /\ call'[c] = call[c] /\ wish'[c] = wish[c] /\ blind'[c] = blind[c] /\ effects'[c] = effects[c]
  BY DEF Reject
<1>4. UserInv(c)
  BY DEF CallInv
<1>5. UserInv(c)'
  BY <1>2, <1>3, <1>4 DEF UserInv, PhasesOf, ResultsOf, SuccessOf, RefusalOf, Idle
<1>6. QED
  BY <1>1, <1>2, <1>5, KeptOpen, OneMoves
-----------------------------------------------------------------------------
\* An error answer: of a request that changed nothing, or one that says nothing.
LEMMA ErrorKeeps ==
    ASSUME CallInv, NEW c \in Callers, NEW s \in ClientErrors \union {500}, Answer(c, s),
           call[c].phase # "idle", s # 500 => call[c].phase \in {"sent", "verified"},
           UNCHANGED <<data, shown, grants, user, reopened, presses>>, faults' \in 0 .. MaxFaults
    PROVE  CallInv' /\ EvidenceKept
<1>1. DataTyped' /\ EvidenceKept
  BY UntouchedTyped, TypesSplit DEF CallInv
<1>2. s \in Statuses /\ s \in Int /\ s # 201 /\ s # Nothing /\ s \notin 200 .. 299
      /\ (s \in 400 .. 499 => s # 500)
  BY DEF ClientErrors, Statuses, Nothing
<1>3. Moves(c) /\ call'[c] = [phase |-> "answering", reply |-> s, result |-> call[c].result]
  <2>1. TypeOK /\ call \in [Callers -> Calls]
    BY DEF CallInv, TypeOK
  <2>2. QED
    BY <1>2, <2>1, AnsweringMoves, AnswerTyped
<1>4. wish'[c] = wish[c] /\ told'[c] = told[c] /\ blind'[c] = blind[c] /\ effects'[c] = effects[c]
  BY DEF user
<1>5. UserInv(c)
  BY DEF CallInv
<1>6. call'[c].phase = "answering" /\ call'[c].reply = s
  BY <1>3
<1>7. PhasesOf(c)'
  BY <1>4, <1>5, <1>6 DEF UserInv, PhasesOf
<1>8. ResultsOf(c)' /\ SuccessOf(c)'
  BY <1>2, <1>6 DEF ResultsOf, SuccessOf, Idle
<1>9. RefusalOf(c)'
  BY <1>2, <1>4, <1>5, <1>6 DEF UserInv, RefusalOf, Idle
<1>10. QED
  BY <1>1, <1>3, <1>7, <1>8, <1>9, KeptOpen, OneMoves DEF UserInv

LEMMA VerifyKeeps == ASSUME CallInv, NEW c \in Callers, Verify(c) PROVE CallInv' /\ EvidenceKept
<1>1. call[c].phase = "sent" /\ wish[c].fn = "finalize-document-upload"
      /\ UNCHANGED <<data, shown, grants, user, reopened, presses, faults>>
  BY DEF Verify
<1>2. faults' \in 0 .. MaxFaults
  BY <1>1 DEF CallInv, TypeOK
<1>3. CASE \E s \in {404, 409, 422} : Answer(c, s)
  BY <1>1, <1>2, <1>3, ErrorKeeps DEF ClientErrors
<1>4. CASE /\ NextPhase(c, "verified") /\ Target(c) \in DOMAIN versions
           /\ versions[Target(c)].state = "pending" /\ Verified(Target(c))
  <2>1. DataTyped' /\ EvidenceKept
    BY <1>1, UntouchedTyped, TypesSplit DEF CallInv
  <2>2. /\ call' \in [Callers -> Calls] /\ call'[c].phase = "verified"
        /\ \A d \in Callers \ {c} : call'[d] = call[d]
    BY <1>4 DEF NextPhase, Calls, CallInv, TypeOK
  <2>3. Moves(c)
    BY <1>1, <2>2 DEF Moves, Mine, UsersTyped, user, CallInv, TypeOK
  <2>4. wish' = wish /\ told' = told /\ blind' = blind /\ effects' = effects /\ versions' = versions
    BY <1>1 DEF user, data
  <2>5. UserInv(c)
    BY DEF CallInv
  <2>6. PhasesOf(c)' /\ ResultsOf(c)'
    BY <1>1, <2>2, <2>4, <2>5 DEF UserInv, PhasesOf, ResultsOf
  <2>7. PromiseKept(c, {"pending", "uploaded"})'
    BY <1>4, <2>4 DEF PromiseKept, Verified, Target
  <2>8. SuccessOf(c)'
    BY <2>2, <2>7 DEF SuccessOf, Idle
  <2>9. RefusalOf(c)'
    BY <1>1, <2>4, <2>5 DEF UserInv, RefusalOf
  <2>10. QED
    BY <1>1, <2>1, <2>3, <2>6, <2>8, <2>9, KeptOpen, OneMoves DEF UserInv
<1>5. QED
  BY <1>3, <1>4 DEF Verify

\* A success of a request whose commit is behind it.
LEMMA SuccessKeeps ==
    ASSUME CallInv, NEW c \in Callers, NEW s \in {200, 201}, Answer(c, s),
           \/ call[c].phase = "sent" /\ wish[c].fn = "get-signed-document-url"
           \/ call[c].phase = "reserved",
           UNCHANGED <<data, shown, grants, user, reopened, presses, faults>>
    PROVE  CallInv' /\ EvidenceKept
<1>1. DataTyped' /\ EvidenceKept /\ faults' \in 0 .. MaxFaults
  BY UntouchedTyped, TypesSplit DEF CallInv, TypeOK
<1>2. s \in Statuses /\ s # Nothing /\ s \notin 400 .. 499
  BY DEF Statuses, Nothing
<1>3. Moves(c) /\ call'[c] = [phase |-> "answering", reply |-> s, result |-> call[c].result]
  <2>1. TypeOK /\ call \in [Callers -> Calls]
    BY DEF CallInv, TypeOK
  <2>2. QED
    BY <1>1, <1>2, <2>1, AnsweringMoves, AnswerTyped
<1>4. call'[c].phase = "answering" /\ call'[c].reply = s /\ call'[c].result = call[c].result
  BY <1>3
<1>5. wish' = wish /\ told' = told /\ blind' = blind /\ effects' = effects /\ versions' = versions
  BY DEF user, data
<1>6. UserInv(c)
  BY DEF CallInv
<1>7. wish[c].fn \in {"create-document-upload", "get-signed-document-url"}
  BY <1>6 DEF UserInv, PhasesOf
<1>8. PhasesOf(c)' /\ ResultsOf(c)'
  BY <1>4, <1>5, <1>6, <1>7 DEF UserInv, PhasesOf, ResultsOf
<1>9. PromiseKept(c, {"uploaded"})'
  BY <1>5, <1>7 DEF PromiseKept
<1>10. wish[c].fn # "get-signed-document-url" => effects[c] > 0
  BY <1>6, <1>7 DEF UserInv, SuccessOf
<1>11. SuccessOf(c)'
  BY <1>2, <1>4, <1>5, <1>9, <1>10 DEF SuccessOf, Idle
<1>12. RefusalOf(c)'
  BY <1>2, <1>4 DEF RefusalOf, Idle
<1>13. QED
  BY <1>1, <1>3, <1>8, <1>11, <1>12, KeptOpen, OneMoves DEF UserInv

LEMMA SignDownloadKeeps ==
    ASSUME CallInv, NEW c \in Callers, SignDownload(c) PROVE CallInv' /\ EvidenceKept
<1>1. call[c].phase = "sent" /\ wish[c].fn = "get-signed-document-url"
      /\ UNCHANGED <<data, shown, grants, user, reopened, presses>>
  BY DEF SignDownload
<1>2. faults' \in 0 .. MaxFaults
  BY Bounds DEF SignDownload, CallInv, TypeOK
<1>3. CASE \E s \in {404, 409, 500} : Answer(c, s)
  BY <1>1, <1>2, <1>3, ErrorKeeps DEF ClientErrors
<1>4. CASE Answer(c, 200) /\ UNCHANGED faults
  BY <1>1, <1>4, SuccessKeeps
<1>5. QED
  BY <1>3, <1>4 DEF SignDownload

LEMMA SignUploadKeeps ==
    ASSUME CallInv, NEW c \in Callers, SignUpload(c) PROVE CallInv' /\ EvidenceKept
<1>1. call[c].phase = "reserved" /\ UNCHANGED <<data, shown, grants, user, reopened, presses>>
  BY DEF SignUpload
<1>2. faults' \in 0 .. MaxFaults
  BY Bounds DEF SignUpload, CallInv, TypeOK
<1>3. CASE Answer(c, 500)
  BY <1>1, <1>2, <1>3, ErrorKeeps
<1>4. CASE Answer(c, 201) /\ UNCHANGED faults
  BY <1>1, <1>4, SuccessKeeps
<1>5. QED
  BY <1>3, <1>4 DEF SignUpload

LEMMA RefusedKeeps == ASSUME CallInv, NEW c \in Callers, Refused(c) PROVE CallInv' /\ EvidenceKept
<1> DEFINE s == ErrorStatus(wish[c].fn, Verdict(c, wish[c]))
<1>1. s \in ClientErrors \union {500}
  BY ErrorStatusTyped
<1>2. faults' \in 0 .. MaxFaults
  BY DEF Refused, CallInv, TypeOK
<1>3. Answer(c, s)
  BY DEF Refused
<1> HIDE DEF s
<1>4. call[c].phase \in {"sent", "verified"}
  BY DEF Refused, AtDatabase
<1>5. UNCHANGED <<data, shown, grants, user, reopened, presses>>
  BY DEF Refused
<1>6. QED
  BY <1>1, <1>2, <1>3, <1>4, <1>5, ErrorKeeps
-----------------------------------------------------------------------------
LEMMA ReopeningTyped == Reopening => reopened' \in [Callers -> BOOLEAN]
BY DEF Reopening

\* The answer of a commit that reaches the function.
Delivered(q) ==
    [phase |-> IF q.fn = "create-document-upload" THEN "reserved" ELSE "answering",
     reply |-> Success(q.fn), result |-> Created(q)]

LEMMA CommittedMoves ==
    ASSUME CallInv, NEW c \in Callers, Committed(c)
    PROVE  /\ Moves(c) /\ DataTyped' /\ EvidenceKept
           /\ effects'[c] > 0 /\ wish' = wish /\ told' = told /\ blind' = blind
           /\ \/ call'[c] = Delivered(wish[c])
              \/ call'[c].phase = "answering" /\ call'[c].reply = 500
<1>1. DataTyped' /\ EvidenceKept /\ Created(wish[c]) \in Nat
  BY EffectTyped, TypesSplit DEF CallInv, Committed
<1>2. wish' = wish /\ told' = told /\ blind' = blind /\ presses' = presses
      /\ reopened' \in [Callers -> BOOLEAN]
  BY ReopeningTyped DEF Committed
<1>3. /\ effects' \in [Callers -> Nat] /\ effects'[c] > 0
      /\ \A d \in Callers \ {c} : effects'[d] = effects[d]
  BY DEF Committed, CallInv, TypeOK
<1>4. faults' \in 0 .. MaxFaults
  BY Bounds DEF Committed, CallInv, TypeOK
<1>5. call \in [Callers -> Calls]
  BY DEF CallInv, TypeOK
<1> DEFINE Seen == /\ call' \in [Callers -> Calls]
                   /\ \A d \in Callers \ {c} : call'[d] = call[d]
                   /\ \/ call'[c] = Delivered(wish[c])
                      \/ call'[c].phase = "answering" /\ call'[c].reply = 500
<1>6. ASSUME call' = [call EXCEPT ![c] = Delivered(wish[c])] PROVE Seen
  <2>1. Success(wish[c].fn) \in Statuses
    BY SuccessTyped, StatusRanges
  <2>2. Delivered(wish[c]) \in Calls
    BY <1>1, <2>1 DEF Calls, Delivered
  <2>3. QED
    BY <1>5, <1>6, <2>2
<1>7. ASSUME Answer(c, ErrorStatus(wish[c].fn, "none")) PROVE Seen
  <2>1. 500 \in Statuses /\ Answer(c, 500)
    BY <1>7, ErrorWithoutCode, StatusRanges
  <2>2. /\ call' \in [Callers -> Calls]
        /\ call'[c] = [phase |-> "answering", reply |-> 500, result |-> call[c].result]
        /\ \A d \in Callers \ {c} : call'[d] = call[d]
    BY <1>5, <2>1, AnswerTyped
  <2>3. QED
    BY <2>2
<1>8. Seen
  <2>1. \/ call' = [call EXCEPT ![c] = Delivered(wish[c])]
        \/ Answer(c, ErrorStatus(wish[c].fn, "none"))
    BY DEF Committed, Delivered
  <2>2. QED
    BY <1>6, <1>7, <2>1
<1>9. Moves(c)
  BY <1>2, <1>3, <1>4, <1>8 DEF Moves, Mine, UsersTyped, CallInv, TypeOK
<1>10. QED
  BY <1>1, <1>2, <1>3, <1>8, <1>9

LEMMA CommittedKeeps == ASSUME CallInv, NEW c \in Callers, Committed(c) PROVE CallInv' /\ EvidenceKept
<1> DEFINE q == wish[c]
<1>1. UserInv(c)
  BY DEF CallInv
<1>2. /\ Moves(c) /\ DataTyped' /\ EvidenceKept
      /\ effects'[c] > 0 /\ wish' = wish /\ told' = told /\ blind' = blind
  BY CommittedMoves
<1>3. \/ /\ call'[c].phase = IF q.fn = "create-document-upload" THEN "reserved" ELSE "answering"
         /\ call'[c].reply = Success(q.fn) /\ call'[c].result = Created(q)
      \/ call'[c].phase = "answering" /\ call'[c].reply = 500
  <2>1. \/ call'[c] = Delivered(wish[c])
        \/ call'[c].phase = "answering" /\ call'[c].reply = 500
    BY CommittedMoves
  <2>2. QED
    BY <2>1 DEF Delivered
<1>4. /\ q.fn = "create-supplier-invitation" => Created(q) \in 1 .. serial'
      /\ q.fn = "create-document-upload" => Created(q) \in DOMAIN versions'
  BY EffectTyped, TypesSplit DEF CallInv, Committed
<1>5. Success(q.fn) \in {200, 201, 202}
  BY SuccessTyped
<1>6. call[c].phase # "idle" /\ (q.fn = "finalize-document-upload" => call[c].phase = "verified")
  BY DEF Committed, AtDatabase
<1>7. PromiseKept(c, {"uploaded"})'
  <2>1. CASE q.fn = "finalize-document-upload"
    <3>1. PromiseKept(c, {"pending", "uploaded"})
      BY <1>1, <1>6, <2>1 DEF UserInv, SuccessOf
    <3>2. Target(c) \in DOMAIN versions /\ versions[Target(c)].object = "promised"
      BY <2>1, <3>1 DEF PromiseKept
    <3>3. versions' = [versions EXCEPT ![Target(c)].state = "uploaded"]
      BY <2>1 DEF Committed, Effect, Target
    <3>4. versions[Target(c)] \in Versions
      BY <3>2, LenProperties DEF CallInv, TypeOK
    <3>5. Target(c)' = Target(c)
      BY <1>2 DEF Target
    <3>6. versions'[Target(c)].state = "uploaded" /\ Target(c) \in DOMAIN versions'
          /\ versions'[Target(c)].object = "promised"
      BY <3>2, <3>3, <3>4 DEF Versions
    <3>7. QED
      BY <3>5, <3>6 DEF PromiseKept
  <2>2. CASE q.fn # "finalize-document-upload"
    BY <1>2, <2>2 DEF PromiseKept
  <2>3. QED
    BY <2>1, <2>2
<1>8. PhasesOf(c)'
  BY <1>1, <1>2, <1>3, <1>6 DEF UserInv, PhasesOf
<1>9. ResultsOf(c)'
  BY <1>2, <1>3, <1>4 DEF ResultsOf
<1>10. SuccessOf(c)'
  BY <1>2, <1>3, <1>5, <1>7 DEF SuccessOf, Idle, Nothing
<1>11. RefusalOf(c)'
  BY <1>2, <1>3, <1>5 DEF RefusalOf, Idle
<1>12. shown' = shown /\ grants' = grants
  BY DEF Committed
<1>13. QED
  BY <1>2, <1>8, <1>9, <1>10, <1>11, <1>12, KeptOpen, OneMoves DEF UserInv

LEMMA AnsweredKeeps == ASSUME CallInv, NEW c \in Callers, Answered(c) PROVE CallInv' /\ EvidenceKept
<1>1. UserInv(c) /\ call[c].phase = "answering"
  BY DEF CallInv, Answered
<1>2. /\ Moves(c) /\ call'[c] = NoCall /\ told'[c] = call[c].reply
      /\ blind'[c] = (blind[c] \/ call[c].reply >= 500)
  BY AnsweredMoves DEF CallInv
<1>3. DataTyped' /\ EvidenceKept
  BY UntouchedTyped, TypesSplit DEF Answered, CallInv
<1>4. wish' = wish /\ effects' = effects /\ versions' = versions /\ serial' = serial
  BY DEF Answered, data
<1>5. shown' \subseteq 1 .. serial' /\ grants' \subseteq DOMAIN versions'
  BY <1>1, <1>4 DEF Answered, UserInv, ResultsOf, CallInv, TypeOK
<1>6. call[c].reply \in Statuses \union {Nothing}
  BY DEF CallInv, TypeOK, Calls
<1>7. call'[c].phase = "idle"
  BY <1>2 DEF NoCall
<1>8. PromiseKept(c, {"uploaded"})' = PromiseKept(c, {"uploaded"})
  BY <1>4 DEF PromiseKept, Target
<1>9. wish[c] # NoWish
  BY <1>1 DEF UserInv, PhasesOf
<1>10. PhasesOf(c)' /\ ResultsOf(c)'
  BY <1>1, <1>4, <1>7, <1>9 DEF UserInv, PhasesOf, ResultsOf
<1>11. SuccessOf(c)'
  BY <1>1, <1>2, <1>4, <1>7, <1>8 DEF UserInv, SuccessOf, Idle
<1>12. RefusalOf(c)'
  <2>1. call[c].reply # Nothing
    BY <1>1 DEF UserInv, SuccessOf
  <2>2. call[c].reply # Lost
    BY <1>6, <2>1 DEF Statuses, Nothing, Lost
  <2>3. call[c].reply >= 400 => call[c].reply >= 500 \/ call[c].reply \in 400 .. 499
    BY <1>6 DEF Statuses, Nothing
  <2>4. QED
    BY <1>1, <1>2, <1>4, <1>7, <2>2, <2>3 DEF UserInv, RefusalOf, Idle
<1>13. QED
  BY <1>2, <1>3, <1>5, <1>10, <1>11, <1>12, OneMoves DEF UserInv

LEMMA AnswerLostKeeps ==
    ASSUME CallInv, NEW c \in Callers, AnswerLost(c) PROVE CallInv' /\ EvidenceKept
<1>1. UserInv(c) /\ call[c].phase = "answering"
  BY DEF CallInv, AnswerLost
<1>2. Moves(c) /\ call'[c] = NoCall /\ told'[c] = Lost /\ blind'[c]
  BY AnswerLostMoves DEF CallInv
<1>3. DataTyped' /\ EvidenceKept
  BY UntouchedTyped, TypesSplit DEF AnswerLost, CallInv
<1>4. wish' = wish /\ effects' = effects /\ shown' = shown /\ grants' = grants
  BY DEF AnswerLost
<1>5. call'[c].phase = "idle" /\ Lost \notin 200 .. 299
  BY <1>2 DEF NoCall, Lost
<1>6. UserInv(c)'
  BY <1>1, <1>2, <1>4, <1>5 DEF UserInv, PhasesOf, ResultsOf, SuccessOf, RefusalOf, Idle
<1>7. QED
  BY <1>2, <1>3, <1>4, <1>6, KeptOpen, OneMoves
-----------------------------------------------------------------------------
\* A step no user takes.
LEMMA NobodyMoves ==
    ASSUME CallInv, DataTyped', EvidenceKept, grants' \subseteq grants,
           UNCHANGED <<shown, call, user, presses, faults>>, reopened' \in [Callers -> BOOLEAN]
    PROVE  CallInv' /\ EvidenceKept
<1>1. TypeOK'
  BY KeptOpen DEF CallInv, TypeOK, DataTyped, user
<1>2. ASSUME NEW c \in Callers PROVE UserInv(c)'
  <2>1. Mine(c)' = Mine(c)
    BY DEF Mine, user
  <2>2. QED
    BY <1>1, <2>1, BystanderKept DEF CallInv
<1>3. QED
  BY <1>1, <1>2 DEF CallInv

LEMMA PutKeeps ==
    ASSUME CallInv, NEW v \in grants, NEW object \in {"promised", "other"}, Put(v, object)
    PROVE  CallInv' /\ EvidenceKept
<1>1. v \in DOMAIN versions /\ DataTyped
  BY TypesSplit DEF CallInv, TypeOK
<1>2. DataTyped' /\ EvidenceKept
  BY <1>1, PutTyped
<1>3. grants' \subseteq grants /\ UNCHANGED <<shown, call, user, presses, faults>>
      /\ reopened' \in [Callers -> BOOLEAN]
  BY ReopeningTyped DEF Put
<1>4. QED
  BY <1>2, <1>3, NobodyMoves

LEMMA OthersKeep == ASSUME CallInv, Others PROVE CallInv' /\ EvidenceKept
<1>1. DataTyped' /\ EvidenceKept
  BY OthersTyped, TypesSplit DEF CallInv
<1>2. grants' = grants /\ UNCHANGED <<shown, call, user, presses, faults>>
      /\ reopened' \in [Callers -> BOOLEAN]
  BY ReopeningTyped DEF Others
<1>3. QED
  BY <1>1, <1>2, NobodyMoves

LEMMA StutterKeeps == ASSUME CallInv, UNCHANGED vars PROVE CallInv' /\ EvidenceKept
<1>1. DataTyped' /\ EvidenceKept
  BY UntouchedTyped, TypesSplit DEF CallInv, vars
<1>2. grants' = grants /\ UNCHANGED <<shown, call, user, presses, faults>>
      /\ reopened' \in [Callers -> BOOLEAN]
  BY DEF vars, CallInv, TypeOK
<1>3. QED
  BY <1>1, <1>2, NobodyMoves

LEMMA CallInvInductive == ASSUME CallInv, [Next]_vars PROVE CallInv' /\ EvidenceKept
BY PressKeeps, RejectKeeps, PressAgainKeeps, VerifyKeeps, SignDownloadKeeps, RefusedKeeps,
   CommittedKeeps, SignUploadKeeps, AnsweredKeeps, AnswerLostKeeps, PutKeeps, OthersKeep,
   StutterKeeps DEF Next

LEMMA InitCallInv == Init => CallInv
<1>1. SUFFICES ASSUME Init PROVE CallInv
  OBVIOUS
<1>2. <<>> \in Seq(Versions) /\ <<>> \in Seq(FindingStatuses)
  BY EmptySeq
<1>3. NoCall \in Calls /\ NoWish \in Requests
  BY DEF NoCall, Calls, NoWish, Requests, Nothing
<1>4. DataTyped
  BY <1>1, <1>2 DEF Init, DataTyped
<1>5. UsersTyped
  BY <1>1, <1>3, Bounds DEF Init, UsersTyped
<1>6. TypeOK
  BY <1>1, <1>4, <1>5, TypesSplit DEF Init
<1>7. ASSUME NEW c \in Callers PROVE UserInv(c)
  <2>1. call[c].phase = "idle" /\ wish[c] = NoWish /\ told[c] = Nothing /\ effects[c] = 0
    BY <1>1 DEF Init, NoCall
  <2>2. QED
    BY <2>1 DEF UserInv, PhasesOf, ResultsOf, SuccessOf, RefusalOf, Idle, Nothing
<1>8. QED
  BY <1>6, <1>7 DEF CallInv

THEOREM CallsHold == Spec => []CallInv
<1>1. CallInv /\ [Next]_vars => CallInv'
  BY CallInvInductive
<1>2. QED
  BY <1>1, InitCallInv, PTL DEF Spec

\* Every status a user is told is a documented one, and a user holds only tokens
\* and upload URLs of invitations and versions that exist.
THEOREM TypeCorrect == Spec => []TypeOK
<1>1. CallInv => TypeOK
  BY DEF CallInv
<1>2. QED
  BY <1>1, CallsHold, PTL

LEMMA CallInvJustifies == ASSUME CallInv PROVE BeliefIsJustified
<1>1. SUFFICES ASSUME NEW c \in Callers, Idle(c)
               PROVE  /\ told[c] \in 200 .. 299 /\ wish[c].fn # "get-signed-document-url" => effects[c] > 0
                      /\ told[c] \in 200 .. 299 /\ wish[c].fn = "finalize-document-upload" =>
                            versions[Target(c)] = [state |-> "uploaded", object |-> "promised"]
                      /\ told[c] \in 400 .. 499 /\ ~ blind[c] => effects[c] = 0
  BY DEF BeliefIsJustified
<1>2. UserInv(c) /\ effects[c] \in Nat
  BY DEF CallInv, TypeOK
<1>3. told[c] \in 200 .. 299 /\ wish[c].fn # "get-signed-document-url" => effects[c] > 0
  BY <1>1, <1>2 DEF UserInv, SuccessOf
<1>4. ASSUME told[c] \in 200 .. 299, wish[c].fn = "finalize-document-upload"
      PROVE  versions[Target(c)] = [state |-> "uploaded", object |-> "promised"]
  <2>1. /\ Target(c) \in DOMAIN versions
        /\ versions[Target(c)].object = "promised" /\ versions[Target(c)].state = "uploaded"
    BY <1>1, <1>2, <1>4 DEF UserInv, SuccessOf, PromiseKept
  <2>2. versions[Target(c)] \in Versions
    BY <2>1, LenProperties DEF CallInv, TypeOK
  <2>3. QED
    BY <2>1, <2>2 DEF Versions
<1>5. told[c] \in 400 .. 499 /\ ~ blind[c] => effects[c] = 0
  BY <1>1, <1>2 DEF UserInv, RefusalOf
<1>6. QED
  BY <1>3, <1>4, <1>5

\* What the last answer makes a user believe is so, whatever was lost before it:
\* publicError, invokeEdgeFunction and verifyDocumentBlob together.
THEOREM BeliefsAreJustified == Spec => []BeliefIsJustified
<1>1. CallInv => BeliefIsJustified
  BY CallInvJustifies
<1>2. QED
  BY <1>1, CallsHold, PTL

\* No step takes back a token or a version, replaces a stored object or reopens
\* an uploaded version: uploadSupplierDocument stores without overwriting, and
\* finalize_document_version refuses what is not pending.
THEOREM EvidenceIsKept == Spec => [][EvidenceKept]_vars
<1>1. CallInv /\ [Next]_vars => [EvidenceKept]_vars
  BY CallInvInductive
<1>2. QED
  BY <1>1, CallsHold, PTL DEF Spec
-----------------------------------------------------------------------------
(* Repetitions                                                             *)

\* What was committed cannot be committed again until somebody reopens it.
UsedUp(c) ==
    wish[c].fn \notin Adding =>
        /\ effects[c] > 0 /\ ~ reopened[c] => ~ Ready(c)
        /\ effects[c] > 1 => reopened[c]

RepeatInv == \A c \in Callers : UsedUp(c)

\* The database function of a request that adds nothing refuses it the next time.
LEMMA CommitUsesUp ==
    ASSUME CallInv, NEW c \in Callers, Committed(c), wish[c].fn \notin Adding
    PROVE  ~ Ready(c)'
<1> DEFINE q == wish[c]
<1>1. wish' = wish /\ Ready(c) /\ Effect(q) /\ q # NoWish
  BY DEF Committed, Ready
<1>2. q.fn \in Functions /\ q.fn # "get-signed-document-url"
  BY DEF CallInv, UserInv, PhasesOf, Committed, Ready, AtDatabase
<1>3. SUFFICES Verdict(c, q)' # "ok"
  BY <1>1 DEF Ready
<1>4. CASE q.fn = "accept-supplier-invitation"
  BY <1>1, <1>4 DEF Effect, Verdict
<1>5. CASE q.fn = "finalize-document-upload"
  <2>1. Verdict(c, q) = "ok"
    BY <1>1 DEF Ready
  <2>2. q.target \in DOMAIN versions
    BY <1>5, <2>1 DEF Verdict
  <2>3. versions[q.target] \in Versions
    BY <2>2, LenProperties DEF CallInv, TypeOK
  <2>4. versions' = [versions EXCEPT ![q.target].state = "uploaded"]
    BY <1>1, <1>5 DEF Effect
  <2>5. q.target \in DOMAIN versions' /\ versions'[q.target].state = "uploaded"
    BY <2>2, <2>3, <2>4 DEF Versions
  <2>6. q' = q
    BY <1>1
  <2>7. QED
    BY <1>5, <2>5, <2>6 DEF Verdict
<1>6. CASE q.fn = "submit-assessment"
  BY <1>1, <1>6 DEF Effect, Verdict, Editable
<1>7. CASE q.fn = "submit-corrective-action"
  <2>1. Verdict(c, q) = "ok"
    BY <1>1 DEF Ready
  <2>2. q.target \in DOMAIN findings
    BY <1>7, <2>1 DEF Verdict
  <2>3. findings' = [findings EXCEPT ![q.target] = "response_submitted"]
    BY <1>1, <1>7 DEF Effect
  <2>4. q.target \in DOMAIN findings' /\ findings'[q.target] = "response_submitted"
    BY <2>2, <2>3
  <2>5. q' = q
    BY <1>1
  <2>6. QED
    BY <1>7, <2>4, <2>5 DEF Verdict, AwaitsResponse
<1>8. CASE q.fn = "record-approval-decision"
  BY <1>1, <1>8 DEF Effect, Verdict
<1>9. QED
  BY <1>2, <1>4, <1>5, <1>6, <1>7, <1>8 DEF Functions, Adding

LEMMA ReadyKept ==
    ASSUME NEW c \in Callers, UNCHANGED data, wish'[c] = wish[c]
    PROVE  Ready(c)' = Ready(c)
BY DEF data, Ready, Verdict, Editable, AwaitsResponse

\* A step that leaves the database alone.
LEMMA RestKeepsUsedUp ==
    ASSUME RepeatInv, NEW c \in Callers, UNCHANGED data,
           wish'[c] = wish[c], effects'[c] = effects[c], reopened'[c] = reopened[c]
    PROVE  UsedUp(c)'
BY ReadyKept DEF RepeatInv, UsedUp

\* A step on the database records whom it reopens.
LEMMA ReopeningKeepsUsedUp ==
    ASSUME RepeatInv, NEW c \in Callers, Reopening,
           wish'[c] = wish[c], effects'[c] = effects[c]
    PROVE  UsedUp(c)'
BY DEF RepeatInv, UsedUp, Reopening

LEMMA RepeatInvInductive == ASSUME CallInv, RepeatInv, [Next]_vars PROVE RepeatInv'
<1>1. ASSUME NEW d \in Callers, Press(d) \/ PressAgain(d) PROVE RepeatInv'
  <2>1. SUFFICES ASSUME NEW c \in Callers PROVE UsedUp(c)'
    BY DEF RepeatInv
  <2>2. UNCHANGED data
    BY <1>1 DEF Press, PressAgain, Send
  <2>3. CASE Press(d) /\ c = d
    <3>1. effects'[c] = 0
      BY <2>3 DEF Press, CallInv, TypeOK
    <3>2. QED
      BY <3>1 DEF UsedUp
  <2>4. CASE PressAgain(d) \/ c # d
    <3>1. CASE PressAgain(d)
      BY <2>2, <3>1, RestKeepsUsedUp DEF PressAgain
    <3>2. CASE Press(d) /\ c # d
      <4>1. wish'[c] = wish[c] /\ effects'[c] = effects[c]
        BY <3>2, PressMoves DEF CallInv, Moves, Mine
      <4>2. reopened'[c] = reopened[c]
        BY <3>2 DEF Press, CallInv, TypeOK
      <4>3. QED
        BY <2>2, <4>1, <4>2, RestKeepsUsedUp
    <3>3. QED
      BY <1>1, <2>4, <3>1, <3>2
  <2>5. QED
    BY <1>1, <2>3, <2>4
<1>2. ASSUME UNCHANGED <<data, wish, effects, reopened>> PROVE RepeatInv'
  BY <1>2, RestKeepsUsedUp DEF RepeatInv
<1>3. ASSUME NEW d \in Callers,
             \/ Reject(d) \/ Verify(d) \/ SignDownload(d) \/ Refused(d)
             \/ SignUpload(d) \/ Answered(d) \/ AnswerLost(d)
      PROVE  RepeatInv'
  BY <1>2, <1>3 DEF Reject, Verify, SignDownload, Refused, SignUpload, Answered, AnswerLost, user
<1>4. ASSUME NEW d \in Callers, Committed(d) PROVE RepeatInv'
  <2>1. SUFFICES ASSUME NEW c \in Callers PROVE UsedUp(c)'
    BY DEF RepeatInv
  <2>2. wish' = wish /\ Reopening /\ effects' = [effects EXCEPT ![d] = @ + 1]
    BY <1>4 DEF Committed
  <2>3. CASE c # d
    BY <2>2, <2>3, ReopeningKeepsUsedUp
  <2>4. CASE c = d /\ wish[c].fn \notin Adding
    <3>1. Ready(c) /\ UsedUp(c) /\ effects[c] \in Nat
      BY <1>4, <2>4 DEF Committed, RepeatInv, CallInv, TypeOK
    <3>2. effects[c] > 0 => reopened[c]
      BY <2>4, <3>1 DEF UsedUp
    <3>3. effects'[c] = effects[c] + 1
      BY <2>2, <2>4 DEF CallInv, TypeOK
    <3>4. reopened[c] => reopened'[c]
      BY <2>2 DEF Reopening
    <3>5. ~ Ready(c)'
      BY <1>4, <2>4, CommitUsesUp
    <3>6. QED
      BY <3>1, <3>2, <3>3, <3>4, <3>5 DEF UsedUp
  <2>5. CASE wish[c].fn \in Adding
    BY <2>2, <2>5 DEF UsedUp
  <2>6. QED
    BY <2>3, <2>4, <2>5
<1>5. ASSUME NEW v \in grants, NEW object \in {"promised", "other"}, Put(v, object)
      PROVE  RepeatInv'
  <2>1. Reopening /\ wish' = wish /\ effects' = effects
    BY <1>5 DEF Put, user
  <2>2. QED
    BY <2>1, ReopeningKeepsUsedUp DEF RepeatInv
<1>6. CASE Others
  <2>1. Reopening /\ wish' = wish /\ effects' = effects
    BY <1>6 DEF Others, user
  <2>2. QED
    BY <2>1, ReopeningKeepsUsedUp DEF RepeatInv
<1>7. CASE UNCHANGED vars
  BY <1>2, <1>7 DEF vars, user
<1>8. QED
  BY <1>1, <1>3, <1>4, <1>5, <1>6, <1>7 DEF Next

LEMMA InitRepeatInv == Init => RepeatInv
BY DEF Init, RepeatInv, UsedUp

\* A repeated request that adds no record is committed a second time only after
\* somebody else has made its record ready again: the status guards of the
\* database functions are all that stands between a lost answer and a repetition.
THEOREM RepeatsStaySafe == Spec => []RepeatsAreSafe
<1>1. CallInv /\ RepeatInv /\ [Next]_vars => RepeatInv'
  BY RepeatInvInductive
<1>2. Spec => []RepeatInv
  BY <1>1, InitRepeatInv, CallsHold, PTL DEF Spec
<1>3. RepeatInv => RepeatsAreSafe
  BY DEF RepeatInv, UsedUp, RepeatsAreSafe
<1>4. QED
  BY <1>2, <1>3, PTL
-----------------------------------------------------------------------------
(* Qualification                                                           *)

seen == <<TheTurn, TheSheet, TheBlock, TheStanding>>

PromiseStep == Promise!Next \/ UNCHANGED seen

\* A step that leaves the assessment alone, or takes it up for review, may block
\* or unblock it.
LEMMA FindingsMove ==
    ASSUME TheTurn' = TheTurn, TheSheet' = TheSheet, TheStanding' = TheStanding,
           Blocked' /\ ~ Blocked => Turn \in {"supplier", "buyer"}
    PROVE  PromiseStep
<1>1. CASE Blocked' = Blocked
  BY <1>1 DEF PromiseStep, seen, TheBlock
<1>2. CASE Blocked' /\ ~ Blocked
  <2>1. TheBlock' = [TheBlock EXCEPT !["assessment"] = TRUE]
    BY <1>2 DEF TheBlock
  <2>2. Promise!Block("assessment")
    BY <1>2, <2>1 DEF Promise!Block, TheTurn
  <2>3. QED
    BY <2>2 DEF PromiseStep, Promise!Next
<1>3. CASE ~ Blocked' /\ Blocked
  <2>1. TheBlock' = [TheBlock EXCEPT !["assessment"] = FALSE]
    <3>1. Blocked' = FALSE
      BY <1>3
    <3>2. QED
      BY <3>1 DEF TheBlock
  <2>2. Promise!Unblock("assessment")
    BY <2>1 DEF Promise!Unblock
  <2>3. QED
    BY <2>2 DEF PromiseStep, Promise!Next
<1>4. QED
  BY <1>1, <1>2, <1>3 DEF Blocked

LEMMA AnswersHandedOver ==
    ASSUME Editable, assessment' = "submitted", findings' = findings
    PROVE  PromiseStep
<1>1. Turn = "supplier" /\ Turn' = "buyer"
  BY DEF Turn, Editable
<1>2. assessment # "approved" /\ assessment' # "approved"
  BY DEF Editable
<1>3. TheBlock' = TheBlock /\ TheStanding' = TheStanding
  BY <1>2 DEF TheBlock, Blocked, TheStanding
<1>4. Promise!Submit("assessment")
  BY <1>1, <1>3 DEF Promise!Submit, TheTurn, TheSheet
<1>5. QED
  BY <1>4 DEF PromiseStep, Promise!Next

LEMMA AnswersHandedBack ==
    ASSUME assessment = "under_review", assessment' = "changes_requested", findings' = findings
    PROVE  PromiseStep
<1>1. Turn = "buyer" /\ Turn' = "supplier"
  BY DEF Turn, Editable
<1>2. TheBlock' = TheBlock /\ TheStanding' = TheStanding
  BY DEF TheBlock, Blocked, TheStanding
<1>3. Promise!SendBack("assessment")
  BY <1>1, <1>2 DEF Promise!SendBack, TheTurn, TheSheet
<1>4. QED
  BY <1>3 DEF PromiseStep, Promise!Next

LEMMA Approved ==
    ASSUME assessment = "under_review", assessment' = "approved", findings' = findings, ~ Blocked
    PROVE  PromiseStep
<1>1. Turn = "buyer" /\ Turn' = "approved"
  BY DEF Turn, Editable
<1>2. TheBlock' = TheBlock /\ TheSheet' = TheSheet
  BY <1>1 DEF TheBlock, Blocked, TheSheet
<1>3. TheStanding' = [TheStanding EXCEPT !["relationship"] = Promise!StandingAfter("approved")]
  BY DEF TheStanding, Promise!StandingAfter
<1>4. Promise!Decide("assessment", "approved")
  BY <1>1, <1>2, <1>3 DEF Promise!Decide, TheTurn, TheBlock
<1>5. "approved" \in Promise!Verdicts
  BY DEF Promise!Verdicts
<1>6. QED
  BY <1>4, <1>5 DEF PromiseStep, Promise!Next

LEMMA SameAssessment ==
    ASSUME assessment' = assessment
    PROVE  TheTurn' = TheTurn /\ TheSheet' = TheSheet /\ TheStanding' = TheStanding
BY DEF TheTurn, TheSheet, TheStanding, Turn, Editable

\* What a database function commits, once or once more.
LEMMA EffectPromised ==
    ASSUME DataTyped, NEW c, NEW q, Verdict(c, q) = "ok", Effect(q)
    PROVE  PromiseStep
<1>1. CASE q.fn = "submit-assessment"
  <2>1. Editable
    BY <1>1 DEF Verdict
  <2>2. assessment' = "submitted" /\ findings' = findings
    BY <1>1 DEF Effect
  <2>3. QED
    BY <2>1, <2>2, AnswersHandedOver
<1>2. CASE q.fn = "record-approval-decision"
  <2>1. assessment = "under_review" /\ (q.kind = "approved" => ~ Blocked)
    BY <1>2 DEF Verdict, Blocked
  <2>2. /\ assessment' = IF q.kind = "approved" THEN "approved" ELSE "changes_requested"
        /\ findings' = findings
    BY <1>2 DEF Effect
  <2>3. QED
    BY <2>1, <2>2, Approved, AnswersHandedBack
<1>3. CASE q.fn = "create-finding"
  <2>1. assessment \in {"under_review", "changes_requested"} /\ assessment' = assessment
    BY <1>3 DEF Verdict, Effect
  <2>2. Turn \in {"supplier", "buyer"}
    BY <2>1 DEF Turn, Editable
  <2>3. QED
    BY <2>1, <2>2, SameAssessment, FindingsMove
<1>4. CASE q.fn = "submit-corrective-action"
  <2>1. q.target \in DOMAIN findings /\ findings[q.target] = "response_required"
    BY <1>4 DEF Verdict, AwaitsResponse
  <2>2. assessment' = assessment
    BY <1>4 DEF Effect
  <2>3. Blocked
    BY <2>1 DEF Blocked
  <2>4. QED
    BY <2>2, <2>3, SameAssessment, FindingsMove
<1>5. CASE q.fn \notin {"submit-assessment", "record-approval-decision", "create-finding",
                       "submit-corrective-action"}
  <2>1. assessment' = assessment /\ findings' = findings
    BY <1>5 DEF Effect
  <2>2. Blocked' = Blocked
    BY <2>1 DEF Blocked
  <2>3. QED
    BY <2>1, <2>2, SameAssessment, FindingsMove
<1>6. QED
  BY <1>1, <1>2, <1>3, <1>4, <1>5

LEMMA OthersPromised == ASSUME DataTyped, Others PROVE PromiseStep
<1>1. CASE assessment = "submitted" /\ assessment' = "under_review" /\ findings' = findings
  <2>1. Turn' = "buyer" /\ Turn = "buyer"
    BY <1>1 DEF Turn, Editable
  <2>2. Blocked' = Blocked
    BY <1>1 DEF Blocked
  <2>3. TheTurn' = TheTurn /\ TheSheet' = TheSheet /\ TheStanding' = TheStanding
    BY <1>1, <2>1 DEF TheTurn, TheSheet, TheStanding
  <2>4. QED
    BY <2>2, <2>3, FindingsMove
<1>2. CASE assessment = "under_review" /\ assessment' = "changes_requested" /\ findings' = findings
  BY <1>2, AnswersHandedBack
<1>3. ASSUME NEW i \in DOMAIN findings, findings[i] = "response_submitted", assessment' = assessment
      PROVE  PromiseStep
  <2>1. Blocked
    BY <1>3 DEF Blocked
  <2>2. QED
    BY <1>3, <2>1, SameAssessment, FindingsMove
<1>4. QED
  BY <1>1, <1>2, <1>3 DEF Others

LEMMA StepPromised == ASSUME TypeOK, [Next]_vars PROVE PromiseStep
<1>1. DataTyped
  BY DEF TypeOK, DataTyped
<1>2. ASSUME NEW c \in Callers, Committed(c) PROVE PromiseStep
  BY <1>1, <1>2, EffectPromised DEF Committed, Ready
<1>3. CASE Others
  BY <1>1, <1>3, OthersPromised
<1>4. ASSUME UNCHANGED <<assessment, findings>> PROVE PromiseStep
  BY <1>4, SameAssessment, FindingsMove DEF Blocked
<1>5. ASSUME NEW c \in Callers,
             \/ Press(c) \/ Reject(c) \/ PressAgain(c) \/ Verify(c) \/ SignDownload(c) \/ Refused(c)
             \/ SignUpload(c) \/ Answered(c) \/ AnswerLost(c)
      PROVE  UNCHANGED <<assessment, findings>>
  BY <1>5 DEF Press, Reject, PressAgain, Send, Verify, SignDownload, Refused, SignUpload,
              Answered, AnswerLost, data
<1>6. ASSUME NEW v \in grants, NEW object \in {"promised", "other"}, Put(v, object)
      PROVE  UNCHANGED <<assessment, findings>>
  BY <1>6 DEF Put
<1>7. CASE UNCHANGED vars
  BY <1>4, <1>7 DEF vars, data
<1>8. QED
  BY <1>2, <1>3, <1>4, <1>5, <1>6, <1>7 DEF Next

\* Whatever is sent again and answered never, the functions implement the turns
\* of Qualification, its blocks and its verdicts.
THEOREM ImplementsPromise == Spec => KeepsThePromise
<1>1. TypeOK /\ [Next]_vars => [Promise!Next]_seen
  BY StepPromised DEF PromiseStep
<1>2. QED
  BY <1>1, TypeCorrect, PTL DEF Spec, KeepsThePromise, seen
=============================================================================
