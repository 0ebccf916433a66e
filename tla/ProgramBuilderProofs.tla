------------------------ MODULE ProgramBuilderProofs -------------------------
(***************************************************************************)
(* ProgramBuilder implements ProgramLine, for any number of managers,      *)
(* versions and definitions.  The invariant says how old pages, numbers    *)
(* under way and locks fit the statuses of the versions.                   *)
(***************************************************************************)
EXTENDS ProgramBuilder, TLAPS

USE BuilderAssumption DEF Versions

\* What the statuses of a program's versions look like when c is current.
Shape(s, c) ==
    \A v \in Versions :
        /\ v < c => s[v] = "retired"
        /\ v = c => s[v] = "active"
        /\ v = c + 1 => s[v] \in {"none", "draft"}
        /\ v > c + 1 => s[v] = "none"

\* A page shows the program as it was at some earlier moment.
ViewInv ==
    \A u \in Users : Shape(view[u].status, view[u].current) /\ view[u].current <= current

\* Nothing can be asked for until the program has a version.
CreationInv ==
    creation = "program" =>
        /\ \A v \in Versions : status[v] = "none"
        /\ current = 0
        /\ \A u \in Users : view[u].status[1] = "none" /\ request[u] = Idle

\* However old the page, no draft is numbered beyond the next one.
RequestInv ==
    \A u \in Users :
        /\ request[u].kind = "draft" => request[u].target \in 1..(current + 1)
        /\ request[u].kind \in {"add", "publish"} => request[u].target \in Versions
        /\ request[u].kind = "draft" /\ request[u].step = "done" => request[u].target \in Versions

\* A publication with both locks is alone, and its version is the draft.
PublishInv ==
    \A u \in Users : At(u, "program") =>
        /\ status[request[u].target] = "draft"
        /\ \A w \in Users : At(w, "program") => w = u

Inv == TypeOK /\ Shape(status, current) /\ ViewInv /\ CreationInv /\ RequestInv /\ PublishInv

-----------------------------------------------------------------------------
(* What a page computes from its view                                      *)

\* With no draft in sight the last version is the current one.
LEMMA LatestIsCurrent ==
    ASSUME NEW s \in [Versions -> Statuses], NEW c \in 0..MaxVersions,
           Shape(s, c), Drafts(s) = {}
    PROVE  Latest(s) = c
<1> DEFINE IsLast(v) == s[v] # "none" /\ \A w \in (v + 1)..MaxVersions : s[w] = "none"
<1>1. CASE c = 0
  BY <1>1 DEF Latest, Drafts, Shape
<1>2. CASE c # 0
  <2>1. s[1] # "none"
    BY <1>2 DEF Shape
  <2>2. c \in Versions /\ IsLast(c)
    BY <1>2 DEF Shape, Drafts
  <2>3. \A v \in Versions : IsLast(v) => v = c
    BY <1>2 DEF Shape, Drafts
  <2>4. (CHOOSE v \in Versions : IsLast(v)) = c
    BY <2>2, <2>3
  <2>5. QED
    BY <2>1, <2>4 DEF Latest
<1>3. QED
  BY <1>1, <1>2

\* A page that can be shown shows a version.
LEMMA SelectedIsVersion ==
    ASSUME TypeOK, ViewInv, NEW u \in Users, Shown(u)
    PROVE  Selected(u) \in Versions
<1> DEFINE s == view[u].status
<1>1. s \in [Versions -> Statuses] /\ view[u].current \in 0..MaxVersions /\ chosen[u] \in 0..MaxVersions
  BY DEF TypeOK, Views
<1>2. CASE chosen[u] # 0 /\ s[chosen[u]] # "none"
  BY <1>1, <1>2 DEF Selected
<1>3. CASE ~ (chosen[u] # 0 /\ s[chosen[u]] # "none") /\ Drafts(s) # {}
  <2>1. \A v, w \in Drafts(s) : w <= v
    BY <1>1 DEF ViewInv, Shape, Drafts
  <2>2. \E v \in Drafts(s) : \A w \in Drafts(s) : w <= v
    BY <1>3, <2>1
  <2>3. (CHOOSE v \in Drafts(s) : \A w \in Drafts(s) : w <= v) \in Drafts(s)
    BY <2>2
  <2>4. QED
    BY <1>3, <2>3 DEF Selected, Drafts
<1>4. CASE ~ (chosen[u] # 0 /\ s[chosen[u]] # "none") /\ Drafts(s) = {}
  <2>1. view[u].current # 0
    BY <1>1, <1>4, LatestIsCurrent DEF ViewInv, Shown
  <2>2. QED
    BY <1>1, <1>4, <2>1 DEF Selected
<1>5. QED
  BY <1>2, <1>3, <1>4

-----------------------------------------------------------------------------
(* The invariant                                                           *)

LEMMA InvHolds == BuilderInit => Inv
<1> SUFFICES ASSUME BuilderInit PROVE Inv
  OBVIOUS
<1>1. TypeOK
  BY DEF BuilderInit, TypeOK, Idle, Loaded, Views, Statuses, Requests, Steps
<1>2. Shape(status, current) /\ ViewInv /\ CreationInv
  BY DEF BuilderInit, Shape, ViewInv, CreationInv, Loaded
<1>3. RequestInv /\ PublishInv
  BY DEF BuilderInit, RequestInv, PublishInv, Idle, At
<1>4. QED
  BY <1>1, <1>2, <1>3 DEF Inv

\* Steps that change neither the tables nor the mutations.
LEMMA PageKeepsInv ==
    ASSUME Inv, UNCHANGED <<status, current, items, request>>,
           creation' = creation, TypeOK', ViewInv',
           creation = "program" => \A u \in Users : view'[u].status[1] = "none"
    PROVE  Inv'
BY DEF Inv, Shape, CreationInv, RequestInv, PublishInv, At

\* A mutation is sent by a page that is shown.
LEMMA SendKeepsInv ==
    ASSUME Inv, NEW u \in Users, NEW kind \in {"draft", "add", "publish"}, NEW target, NEW order \in Nat,
           Send(u, kind, target, order),
           kind = "draft" => target \in 1..(current + 1),
           kind # "draft" => target \in Versions
    PROVE  Inv'
<1> DEFINE sent == [kind |-> kind, target |-> target, order |-> order, step |-> "sent"]
<1>1. request' = [request EXCEPT ![u] = sent] /\ UNCHANGED <<status, current, creation, items, page>>
  BY DEF Send
<1>2. target \in 0..(MaxVersions + 1)
  BY DEF Inv, TypeOK
<1>3. TypeOK'
  BY <1>1, <1>2 DEF Inv, TypeOK, Requests, Steps, page
<1>4. creation # "program"
  BY DEF Inv, CreationInv, Send, Shown, Latest
<1>5. Shape(status, current)' /\ ViewInv' /\ CreationInv'
  BY <1>1, <1>4 DEF Inv, Shape, ViewInv, CreationInv, page
<1>6. RequestInv'
  BY <1>1 DEF Inv, TypeOK, RequestInv
<1>7. PublishInv'
  BY <1>1 DEF Inv, TypeOK, PublishInv, At
<1>8. QED
  BY <1>3, <1>5, <1>6, <1>7 DEF Inv

\* A mutation goes on without a change of the tables and without both locks.
LEMMA StepKeepsInv ==
    ASSUME Inv, NEW u \in Users, NEW step \in Steps \ {"program"},
           Step(u, step), UNCHANGED <<status, current, creation, page>>,
           request[u].kind # "none",
           request[u].kind = "draft" /\ step = "done" => request[u].target \in Versions,
           items' \in [Versions -> Nat], \A v \in Versions : items'[v] <= MaxItems
    PROVE  Inv'
<1>1. request' = [request EXCEPT ![u].step = step]
  BY DEF Step
<1>2. TypeOK'
  BY <1>1 DEF Inv, TypeOK, Requests, page
<1>3. creation # "program"
  BY DEF Inv, CreationInv, Idle
<1>4. Shape(status, current)' /\ ViewInv' /\ CreationInv'
  BY <1>3 DEF Inv, Shape, ViewInv, CreationInv, page
<1>5. \A w \in Users : request'[w].kind = request[w].kind /\ request'[w].target = request[w].target
  BY <1>1 DEF Inv, TypeOK, Requests
<1>6. /\ request'[u].step = step
      /\ \A w \in Users \ {u} : request'[w].step = request[w].step
  BY <1>1 DEF Inv, TypeOK, Requests
<1>7. RequestInv' /\ PublishInv'
  BY <1>5, <1>6 DEF Inv, RequestInv, PublishInv, At
<1>8. QED
  BY <1>2, <1>4, <1>7 DEF Inv

\* The first version of a program that has none.
LEMMA FirstVersionKeepsInv == ASSUME Inv, CreateFirstVersion PROVE Inv'
<1> USE DEF Inv, CreateFirstVersion, page
<1>1. TypeOK'
  BY DEF TypeOK, Statuses
<1>2. Shape(status, current)'
  BY DEF TypeOK, CreationInv, Shape
<1>3. ViewInv' /\ CreationInv' /\ RequestInv'
  BY DEF ViewInv, CreationInv, RequestInv, Shape
<1>4. PublishInv'
  BY DEF CreationInv, PublishInv, At, Idle
<1>5. QED
  BY <1>1, <1>2, <1>3, <1>4

\* A draft is inserted under the next number or not at all.
LEMMA DraftIsNext ==
    ASSUME Inv, NEW u \in Users, InsertDraft(u), status[request[u].target] = "none"
    PROVE  /\ request[u].target = current + 1
           /\ Drafts(status) = {}
<1>1. request[u].target \in 1..(current + 1) /\ request[u].target <= MaxVersions /\ current \in Nat
  BY DEF Inv, TypeOK, RequestInv, InsertDraft
<1>2. request[u].target = current + 1
  BY <1>1 DEF Inv, Shape
<1>3. QED
  BY <1>1, <1>2 DEF Inv, Shape, Drafts

LEMMA InsertDraftKeepsInv == ASSUME Inv, NEW u \in Users, InsertDraft(u) PROVE Inv'
<1> DEFINE n == request[u].target
<1>1. request[u].kind = "draft" /\ n \in Versions /\ UNCHANGED <<current, creation, items, page>>
  BY DEF Inv, TypeOK, RequestInv, InsertDraft
<1>2. CASE status[n] # "none"
  BY <1>1, <1>2, StepKeepsInv DEF InsertDraft, Inv, TypeOK, Steps
<1>3. CASE status[n] = "none"
  <2>1. status' = [status EXCEPT ![n] = "draft"] /\ Step(u, "done") /\ ProgramFree
    BY <1>3 DEF InsertDraft
  <2>2. n = current + 1 /\ current \in Nat
    BY <1>3, DraftIsNext DEF Inv, TypeOK
  <2>3. creation # "program"
    BY <1>1 DEF Inv, CreationInv, Idle
  <2>4. /\ request' \in [Users -> Requests]
        /\ \A w \in Users : request'[w].kind = request[w].kind /\ request'[w].target = request[w].target
        /\ request'[u].step = "done" /\ \A w \in Users \ {u} : request'[w].step = request[w].step
    BY <2>1 DEF Inv, TypeOK, Requests, Steps, Step
  <2>5. TypeOK'
    BY <1>1, <2>1, <2>4 DEF Inv, TypeOK, Statuses, page
  <2>6. Shape(status, current)'
    BY <1>1, <2>1, <2>2 DEF Inv, TypeOK, Shape
  <2>7. ViewInv' /\ CreationInv' /\ RequestInv'
    BY <1>1, <2>3, <2>4 DEF Inv, ViewInv, CreationInv, RequestInv, Shape, page
  <2>8. PublishInv'
    BY <2>1, <2>4 DEF PublishInv, ProgramFree, At
  <2>9. QED
    BY <2>5, <2>6, <2>7, <2>8 DEF Inv
<1>4. QED
  BY <1>2, <1>3

\* The publication that gets the second lock is alone with it.
LEMMA LockProgramKeepsInv == ASSUME Inv, NEW u \in Users, LockProgram(u) PROVE Inv'
<1> DEFINE v == request[u].target
<1>1. /\ request[u].kind = "publish" /\ v \in Versions /\ ProgramFree
      /\ UNCHANGED <<status, current, creation, items, page>>
  BY DEF Inv, RequestInv, LockProgram, At
<1>2. CASE ~ Publishable(v)
  BY <1>1, <1>2, StepKeepsInv DEF LockProgram, Inv, TypeOK, Steps
<1>3. CASE Publishable(v)
  <2>1. Step(u, "program")
    BY <1>3 DEF LockProgram
  <2>2. /\ request' \in [Users -> Requests]
        /\ \A w \in Users : request'[w].kind = request[w].kind /\ request'[w].target = request[w].target
        /\ \A w \in Users : w # u => request'[w] = request[w]
    BY <2>1 DEF Inv, TypeOK, Requests, Steps, Step
  <2>3. creation # "program"
    BY <1>1 DEF Inv, CreationInv, Idle
  <2>4. TypeOK'
    BY <1>1, <2>2 DEF Inv, TypeOK, page
  <2>5. Shape(status, current)' /\ ViewInv' /\ CreationInv' /\ RequestInv'
    BY <1>1, <2>2, <2>3 DEF Inv, Shape, ViewInv, CreationInv, RequestInv, page
  <2>6. PublishInv'
    BY <1>1, <1>3, <2>2 DEF PublishInv, ProgramFree, Publishable, At
  <2>7. QED
    BY <2>4, <2>5, <2>6 DEF Inv
<1>4. QED
  BY <1>2, <1>3

\* What the switch finds: its version is the draft after the current one.
LEMMA SwitchedIsNext ==
    ASSUME Inv, NEW u \in Users, At(u, "program")
    PROVE  /\ request[u].target \in Versions /\ request[u].target = current + 1
           /\ Drafts(status) # {} /\ current \in Nat
<1>1. request[u].target \in Versions /\ status[request[u].target] = "draft" /\ current \in Nat
  BY DEF Inv, TypeOK, RequestInv, PublishInv, At
<1>2. request[u].target = current + 1
  BY <1>1 DEF Inv, Shape
<1>3. QED
  BY <1>1, <1>2 DEF Drafts

LEMMA SwitchKeepsInv == ASSUME Inv, NEW u \in Users, Switch(u) PROVE Inv'
<1> DEFINE v == request[u].target
<1>1. /\ At(u, "program") /\ Step(u, "done") /\ UNCHANGED <<creation, items, page>> /\ current' = v
      /\ status' = [w \in Versions |-> IF w = v THEN "active"
                                       ELSE IF status[w] = "active" THEN "retired" ELSE status[w]]
  BY DEF Switch, Retirable
<1>2. v \in Versions /\ v = current + 1 /\ current \in Nat
  BY <1>1, SwitchedIsNext
<1>3. /\ request' \in [Users -> Requests]
      /\ \A w \in Users : request'[w].kind = request[w].kind /\ request'[w].target = request[w].target
      /\ \A w \in Users : w # u => request'[w] = request[w]
      /\ request'[u].step = "done"
  BY <1>1 DEF Inv, TypeOK, Requests, Steps, Step
<1>4. creation # "program"
  BY <1>1 DEF Inv, CreationInv, Idle, At
<1>5. TypeOK'
  BY <1>1, <1>2, <1>3 DEF Inv, TypeOK, Statuses, page
<1>6. Shape(status, current)'
  BY <1>1, <1>2 DEF Inv, TypeOK, Shape
<1>7. ViewInv' /\ CreationInv'
  BY <1>1, <1>2, <1>4 DEF Inv, TypeOK, Views, ViewInv, CreationInv, Shape, page
<1>8. RequestInv'
  BY <1>1, <1>2, <1>3 DEF Inv, RequestInv
<1>9. PublishInv'
  BY <1>1, <1>3 DEF Inv, PublishInv, At
<1>10. QED
  BY <1>5, <1>6, <1>7, <1>8, <1>9 DEF Inv

LEMMA AnswerKeepsInv == ASSUME Inv, NEW u \in Users, Answer(u) PROVE Inv'
<1>1. request' = [request EXCEPT ![u] = Idle] /\ UNCHANGED <<status, current, creation, items, view>>
  BY DEF Answer
<1>2. chosen' \in [Users -> 0..MaxVersions] /\ dialog' \in [Users -> {"none", "edit", "publish"}]
  <2>1. chosen \in [Users -> 0..MaxVersions] /\ dialog \in [Users -> {"none", "edit", "publish"}]
    BY DEF Inv, TypeOK
  <2>2. CASE UNCHANGED <<chosen, dialog>>
    BY <2>1, <2>2
  <2>3. CASE request[u].step = "done" /\ request[u].kind = "draft"
             /\ chosen' = [chosen EXCEPT ![u] = request[u].target] /\ UNCHANGED dialog
    <3>1. request[u].target \in 0..MaxVersions
      BY <2>3 DEF Inv, RequestInv
    <3>2. QED
      BY <2>1, <2>3, <3>1
  <2>4. CASE dialog' = [dialog EXCEPT ![u] = "none"] /\ UNCHANGED chosen
    BY <2>1, <2>4
  <2>5. QED
    BY <2>2, <2>3, <2>4 DEF Answer
<1>3. Idle \in Requests
  BY DEF Idle, Requests, Steps
<1>4. TypeOK'
  BY <1>1, <1>2, <1>3 DEF Inv, TypeOK
<1>5. Shape(status, current)' /\ ViewInv' /\ CreationInv'
  <2>1. \A w \in Users : request'[w] = Idle \/ request'[w] = request[w]
    BY <1>1 DEF Inv, TypeOK
  <2>2. CreationInv'
    BY <1>1, <2>1 DEF Inv, CreationInv
  <2>3. QED
    BY <1>1, <2>2 DEF Inv, Shape, ViewInv
<1>6. RequestInv' /\ PublishInv'
  BY <1>1 DEF Inv, TypeOK, RequestInv, PublishInv, At, Idle
<1>7. QED
  BY <1>4, <1>5, <1>6 DEF Inv

\* Loads and the choices a user makes on the page.
LEMMA UserKeepsInv == ASSUME Inv, NEW u \in Users, UserActs(u) PROVE Inv'
<1>1. CASE Load(u)
  <2>1. view' = [view EXCEPT ![u] = Loaded] /\ Loaded \in Views
        /\ UNCHANGED <<status, current, creation, items, chosen, dialog, request>>
    BY <1>1 DEF Load, Loaded, Views, Inv, TypeOK
  <2>2. TypeOK'
    BY <2>1 DEF Inv, TypeOK
  <2>3. ViewInv' /\ (creation = "program" => \A w \in Users : view'[w].status[1] = "none")
    BY <2>1 DEF Inv, TypeOK, Loaded, ViewInv, CreationInv, Shape
  <2>4. QED
    BY <2>1, <2>2, <2>3, PageKeepsInv
<1>2. CASE CloseDialog(u)
  <2>1. dialog' = [dialog EXCEPT ![u] = "none"]
        /\ UNCHANGED <<status, current, creation, items, view, chosen, request>>
    BY <1>2 DEF CloseDialog
  <2>2. TypeOK'
    BY <2>1 DEF Inv, TypeOK
  <2>3. ViewInv' /\ (creation = "program" => \A w \in Users : view'[w].status[1] = "none")
    BY <2>1 DEF Inv, ViewInv, CreationInv, Shape
  <2>4. QED
    BY <2>1, <2>2, <2>3, PageKeepsInv
<1>3. ASSUME NEW v \in Versions, SelectTab(u, v) PROVE Inv'
  <2>1. chosen' = [chosen EXCEPT ![u] = v]
        /\ UNCHANGED <<status, current, creation, items, view, dialog, request>>
    BY <1>3 DEF SelectTab
  <2>2. TypeOK'
    BY <2>1 DEF Inv, TypeOK, Versions
  <2>3. ViewInv' /\ (creation = "program" => \A w \in Users : view'[w].status[1] = "none")
    BY <2>1 DEF Inv, ViewInv, CreationInv, Shape
  <2>4. QED
    BY <2>1, <2>2, <2>3, PageKeepsInv
<1>4. ASSUME NEW d \in {"edit", "publish"}, OpenDialog(u, d) PROVE Inv'
  <2>1. dialog' = [dialog EXCEPT ![u] = d]
        /\ UNCHANGED <<status, current, creation, items, view, chosen, request>>
    BY <1>4 DEF OpenDialog
  <2>2. TypeOK'
    BY <2>1 DEF Inv, TypeOK, Versions
  <2>3. ViewInv' /\ (creation = "program" => \A w \in Users : view'[w].status[1] = "none")
    BY <2>1 DEF Inv, ViewInv, CreationInv, Shape
  <2>4. QED
    BY <2>1, <2>2, <2>3, PageKeepsInv
<1>5. CASE NewDraft(u)
  <2>1. /\ view[u].status \in [Versions -> Statuses] /\ view[u].current \in 0..MaxVersions
        /\ Shape(view[u].status, view[u].current) /\ view[u].current <= current /\ current \in Nat
    BY DEF Inv, TypeOK, Views, ViewInv
  <2>2. Latest(view[u].status) = view[u].current
    BY <1>5, <2>1, LatestIsCurrent DEF NewDraft
  <2>3. Latest(view[u].status) + 1 \in 1..(current + 1)
    BY <2>1, <2>2
  <2>4. Send(u, "draft", Latest(view[u].status) + 1, 0)
    BY <1>5 DEF NewDraft
  <2>5. QED
    BY <2>3, <2>4, SendKeepsInv
<1>6. CASE SaveDefinition(u)
  <2>1. Send(u, "add", Selected(u), view[u].items[Selected(u)]) /\ Shown(u)
    BY <1>6 DEF SaveDefinition, Send
  <2>2. Selected(u) \in Versions
    BY <2>1, SelectedIsVersion DEF Inv
  <2>3. view[u].items[Selected(u)] \in Nat
    BY <2>2 DEF Inv, TypeOK, Views
  <2>4. QED
    BY <2>1, <2>2, <2>3, SendKeepsInv
<1>7. CASE ConfirmPublication(u)
  <2>1. Send(u, "publish", Selected(u), 0) /\ Shown(u)
    BY <1>7 DEF ConfirmPublication, Send
  <2>2. Selected(u) \in Versions
    BY <2>1, SelectedIsVersion DEF Inv
  <2>3. QED
    BY <2>1, <2>2, SendKeepsInv
<1>8. QED
  BY <1>1, <1>2, <1>3, <1>4, <1>5, <1>6, <1>7 DEF UserActs

\* The statements of the database.
LEMMA ServerKeepsInv == ASSUME Inv, NEW u \in Users, ServerActs(u) PROVE Inv'
<1>1. CASE CheckDefinition(u)
  BY <1>1, StepKeepsInv DEF CheckDefinition, Inv, TypeOK, Steps
<1>2. CASE InsertDefinition(u)
  <2>1. request[u].kind = "add" /\ request[u].target \in Versions
        /\ UNCHANGED <<status, current, creation, page>>
    BY <1>2 DEF InsertDefinition, Inv, RequestInv
  <2>2. items' \in [Versions -> Nat] /\ \A v \in Versions : items'[v] <= MaxItems
    <3>1. items \in [Versions -> Nat] /\ \A v \in Versions : items[v] <= MaxItems
      BY DEF Inv, TypeOK
    <3>2. CASE items' = items
      BY <3>1, <3>2
    <3>3. CASE items[request[u].target] < MaxItems
               /\ items' = [items EXCEPT ![request[u].target] = @ + 1]
      BY <2>1, <3>1, <3>3
    <3>4. QED
      BY <1>2, <3>2, <3>3 DEF InsertDefinition
  <2>3. Step(u, "done") \/ Step(u, "refused")
    BY <1>2 DEF InsertDefinition
  <2>4. QED
    BY <2>1, <2>2, <2>3, StepKeepsInv DEF Steps
<1>3. CASE LockVersion(u)
  BY <1>3, StepKeepsInv DEF LockVersion, At, Inv, TypeOK, Steps
<1>4. ASSUME NEW w \in Users, Deadlock(u, w) PROVE Inv'
  <2>1. PICK victim \in {u, w} : Step(victim, "refused")
    BY <1>4 DEF Deadlock
  <2>2. request[victim].kind = "publish" /\ UNCHANGED <<status, current, creation, items, page>>
    BY <1>4 DEF Deadlock, At
  <2>3. QED
    BY <2>1, <2>2, StepKeepsInv DEF Inv, TypeOK, Steps
<1>5. QED
  BY <1>1, <1>2, <1>3, <1>4, InsertDraftKeepsInv, LockProgramKeepsInv, SwitchKeepsInv, AnswerKeepsInv
     DEF ServerActs

LEMMA InvKept == Inv /\ [BuilderNext]_vars => Inv'
<1> SUFFICES ASSUME Inv, [BuilderNext]_vars PROVE Inv'
  OBVIOUS
<1>1. CASE CreationFails
  BY <1>1 DEF CreationFails, Inv, TypeOK, Shape, ViewInv, CreationInv, RequestInv, PublishInv, At, page
<1>2. CASE UNCHANGED vars
  BY <1>2 DEF vars, Inv, TypeOK, Shape, ViewInv, CreationInv, RequestInv, PublishInv, At, page
<1>3. QED
  BY <1>1, <1>2, FirstVersionKeepsInv, UserKeepsInv, ServerKeepsInv DEF BuilderNext

LEMMA InvAlways == BuilderSpec => []Inv
  BY InvHolds, InvKept, PTL DEF BuilderSpec

-----------------------------------------------------------------------------
(* The theorems                                                            *)

\* The page and the database never hold anything but versions, places and
\* requests of their types, whatever a page shows.
THEOREM TypeCorrect == BuilderSpec => []TypeOK
  BY InvAlways, PTL DEF Inv

\* A step of the detailed system is a step of the line or leaves it alone.
LEMMA LineStep == Inv /\ [BuilderNext]_vars => [Line!Next]_<<current, Drafts(status) # {}>>
<1> SUFFICES ASSUME Inv, [BuilderNext]_vars
             PROVE  Line!AddDraft \/ Line!Publish \/ UNCHANGED <<current, Drafts(status) # {}>>
  BY DEF Line!Next
<1>1. CASE UNCHANGED <<status, current>>
  BY <1>1 DEF Drafts
<1>2. CASE CreateFirstVersion
  <2>1. Drafts(status) = {} /\ UNCHANGED current
    BY <1>2 DEF CreateFirstVersion, Inv, CreationInv, Drafts
  <2>2. 1 \in Drafts(status)'
    BY <1>2 DEF CreateFirstVersion, Inv, TypeOK, Drafts
  <2>3. QED
    BY <2>1, <2>2 DEF Line!AddDraft
<1>3. ASSUME NEW u \in Users, InsertDraft(u), status' # status
      PROVE  Line!AddDraft
  <2>1. status[request[u].target] = "none" /\ UNCHANGED current
        /\ status' = [status EXCEPT ![request[u].target] = "draft"]
    BY <1>3 DEF InsertDraft
  <2>2. request[u].target \in Versions
    BY <1>3 DEF InsertDraft, Inv, TypeOK, RequestInv
  <2>3. request[u].target \in Drafts(status)'
    BY <2>1, <2>2 DEF Inv, TypeOK, Drafts
  <2>4. QED
    BY <1>3, <2>1, <2>3, DraftIsNext DEF Line!AddDraft
<1>4. ASSUME NEW u \in Users, Switch(u)
      PROVE  Line!Publish
  <2>1. /\ request[u].target \in Versions /\ request[u].target = current + 1
        /\ Drafts(status) # {} /\ current \in Nat
    BY <1>4, SwitchedIsNext DEF Switch
  <2>2. current' = current + 1
    BY <1>4, <2>1 DEF Switch
  <2>3. \A v \in Versions : status'[v] # "draft"
    BY <1>4, <2>1 DEF Switch, Inv, Shape, Retirable
  <2>4. Drafts(status)' = {}
    BY <2>3 DEF Drafts
  <2>5. QED
    BY <2>1, <2>2, <2>4 DEF Line!Publish
<1>5. CASE CreationFails
  BY <1>1, <1>5 DEF CreationFails
<1>6. ASSUME NEW u \in Users, UserActs(u)
      PROVE  UNCHANGED <<status, current>>
  BY <1>6 DEF UserActs, Load, CloseDialog, NewDraft, SaveDefinition, ConfirmPublication, SelectTab,
              OpenDialog, Send
<1>7. ASSUME NEW u \in Users, ServerActs(u)
      PROVE  UNCHANGED <<status, current>> \/ Switch(u) \/ (InsertDraft(u) /\ status' # status)
  BY <1>7 DEF ServerActs, InsertDraft, CheckDefinition, InsertDefinition, LockVersion, LockProgram,
              Answer, Deadlock
<1>8. QED
  BY <1>1, <1>2, <1>3, <1>4, <1>5, <1>6, <1>7 DEF BuilderNext, vars

\* Each version has the status the line gives it.
LEMMA StatusesAgree == Inv => \A v \in Versions : status[v] = Line!StatusOf(v)
<1> SUFFICES ASSUME Inv, NEW v \in Versions
             PROVE  status[v] = Line!StatusOf(v)
  OBVIOUS
<1>1. current \in Nat /\ status \in [Versions -> Statuses]
  BY DEF Inv, TypeOK
<1>2. CASE v <= current
  BY <1>1, <1>2 DEF Inv, Shape, Line!StatusOf
<1>3. CASE v > current + 1
  BY <1>1, <1>3 DEF Inv, Shape, Line!StatusOf
<1>4. CASE v = current + 1
  <2>1. status[v] \in {"none", "draft"} /\ \A w \in Versions : w # v => status[w] # "draft"
    BY <1>1, <1>4 DEF Inv, Shape
  <2>2. (Drafts(status) # {}) <=> status[v] = "draft"
    BY <2>1 DEF Drafts
  <2>3. QED
    BY <1>1, <1>4, <2>1, <2>2 DEF Line!StatusOf
<1>5. QED
  BY <1>1, <1>2, <1>3, <1>4

\* The detailed system implements the program's line, and each version has the
\* status it has there.
THEOREM ImplementsLine == BuilderSpec => KeepsTheLine
<1>1. BuilderInit => Line!Init
  BY DEF BuilderInit, Line!Init, Drafts
<1>2. QED
  BY <1>1, InvAlways, LineStep, StatusesAgree, PTL DEF BuilderSpec, KeepsTheLine, Line!Spec

\* No version but the current one is active.
LEMMA ActiveIsCurrent ==
    ASSUME Inv, NEW v \in Versions, status[v] = "active"
    PROVE  v = current
<1>1. current \in Nat
  BY DEF Inv, TypeOK
<1>2. QED
  BY <1>1 DEF Inv, Shape

\* Only a publication that repeats what was done meets another one in a deadlock.
THEOREM DeadlocksAreRepeats == BuilderSpec => OnlyRepeatsDeadlock
<1>1. ASSUME Inv, [BuilderNext]_vars, NEW u \in Users, At(u, "program"), request'[u].step = "refused"
      PROVE  \E w \in Users \ {u} : At(w, "version") /\ request[w].target = current
  <2> DEFINE Goal == \E w \in Users \ {u} : At(w, "version") /\ request[w].target = current
  <2>1. request[u] # Idle /\ request'[u] # request[u] /\ request \in [Users -> Requests]
    BY <1>1 DEF At, Idle, Inv, TypeOK
  <2>2. ~ UNCHANGED request
    BY <2>1
  <2>3. ASSUME NEW v \in Users, NEW kind, NEW target, NEW order
        PROVE  ~ Send(v, kind, target, order)
    BY <1>1, <2>1 DEF Send, At
  <2>4. ASSUME NEW v \in Users, NEW step, Step(v, step)
        PROVE  v = u /\ step = "refused"
    BY <1>1, <2>1, <2>4 DEF Step, Requests
  <2>5. ASSUME NEW v \in Users, UserActs(v)
        PROVE  Goal
    BY <2>2, <2>3, <2>5 DEF UserActs, Load, CloseDialog, NewDraft, SaveDefinition, ConfirmPublication,
                            SelectTab, OpenDialog
  <2>6. ASSUME NEW v \in Users, Answer(v)
        PROVE  Goal
    BY <1>1, <2>1, <2>6 DEF Answer, At
  <2>7. ASSUME NEW v \in Users,
               \/ InsertDraft(v) \/ CheckDefinition(v) \/ InsertDefinition(v)
               \/ LockVersion(v) \/ LockProgram(v) \/ Switch(v)
        PROVE  Goal
    <3>1. v = u
      BY <2>4, <2>7 DEF InsertDraft, CheckDefinition, InsertDefinition, LockVersion, LockProgram, Switch
    <3>2. Switch(u)
      BY <1>1, <2>7, <3>1 DEF InsertDraft, CheckDefinition, InsertDefinition, LockVersion, LockProgram, At
    <3>3. Step(u, "done")
      BY <3>2 DEF Switch
    <3>4. QED
      BY <2>4, <3>3
  <2>8. ASSUME NEW v \in Users, NEW w \in Users, Deadlock(v, w)
        PROVE  Goal
    <3>1. /\ At(v, "program") /\ At(w, "version") /\ status[request[w].target] = "active"
          /\ \E victim \in {v, w} : Step(victim, "refused")
      BY <2>8 DEF Deadlock, Retirable
    <3>2. w # u
      BY <1>1, <3>1 DEF At
    <3>3. request[w].target = current
      <4>1. request[w].target \in Versions /\ current \in Nat
        BY <1>1, <3>1 DEF Inv, TypeOK, RequestInv, At
      <4>2. QED
        BY <1>1, <3>1, <4>1, ActiveIsCurrent
    <3>4. QED
      BY <3>1, <3>2, <3>3
  <2>9. QED
    BY <1>1, <2>2, <2>5, <2>6, <2>7, <2>8
       DEF BuilderNext, ServerActs, CreateFirstVersion, CreationFails, vars
<1>2. Inv /\ [BuilderNext]_vars =>
          [\A u \in Users : At(u, "program") /\ request'[u].step = "refused" =>
              \E w \in Users \ {u} : At(w, "version") /\ request[w].target = current]_vars
  BY <1>1
<1>3. QED
  BY <1>2, InvAlways, PTL DEF BuilderSpec, OnlyRepeatsDeadlock
=============================================================================
