--------------------------- MODULE ProgramBuilder ----------------------------
(***************************************************************************)
(* The page on which buyer managers write the versions of a qualification  *)
(* program, and publish_program_version lock by lock.                      *)
(*                                                                         *)
(* Each user has a page of their own, loaded at some moment; it is loaded  *)
(* again at any other.  A dialog is opened on what the page shows then and *)
(* acts on what it shows when it is confirmed; it stays open over loads    *)
(* and after an error.  The number of a new draft and the place of a new   *)
(* definition are computed from the loaded data and have to be unique in   *)
(* the tables.                                                             *)
(*                                                                         *)
(* The publication locks the version, then the program, and then updates   *)
(* the active version, which needs the lock of that row: where two wait    *)
(* for each other the database ends one of them with an error.  A          *)
(* definition is checked by a trigger that reads the version's status; the *)
(* foreign key then waits for the lock of a publication under way.         *)
(*                                                                         *)
(* A section with a question, and a document requirement, are one kind of  *)
(* definition here.  A load takes the program, its versions and their      *)
(* definitions at one moment, a user has one mutation under way, and the   *)
(* entries the page caches per version are one view.                       *)
(***************************************************************************)
EXTENDS Naturals

CONSTANTS
    Users,         \* the buyer's managers
    MaxVersions,   \* bound on the versions of the program
    MaxItems       \* bound on the definitions of a version

ASSUME BuilderAssumption == MaxVersions \in Nat \ {0} /\ MaxItems \in Nat

VARIABLES
    status,    \* per version number: none, draft, active or retired
    current,   \* the program's current version, or 0
    creation,  \* createProgram: its first request was answered, its second, or that failed
    items,     \* per version: the number of its definitions
    view,      \* per user: the loaded data
    chosen,    \* per user: the version named in the page's address, or 0
    dialog,    \* per user: none, edit or publish
    request    \* per user: the mutation under way

Versions == 1..MaxVersions

page == <<view, chosen, dialog>>
vars == <<status, current, creation, items, page, request>>

Idle == [kind |-> "none", target |-> 0, order |-> 0, step |-> "none"]
Loaded == [status |-> status, current |-> current, items |-> items]

\* versions[0] of the loaded versions, which are sorted by descending number.
Latest(s) == IF s[1] = "none" THEN 0
             ELSE CHOOSE v \in Versions : s[v] # "none" /\ \A w \in (v + 1)..MaxVersions : s[w] = "none"

Drafts(s) == {v \in Versions : s[v] = "draft"}

\* The version the page shows: the one of its address, the last draft, the
\* current one or the last.
Selected(u) ==
    LET s == view[u].status
    IN IF chosen[u] # 0 /\ s[chosen[u]] # "none" THEN chosen[u]
       ELSE IF Drafts(s) # {} THEN CHOOSE v \in Drafts(s) : \A w \in Drafts(s) : w <= v
       ELSE IF view[u].current # 0 THEN view[u].current
       ELSE Latest(s)

\* A program without a version cannot be shown.
Shown(u) == Latest(view[u].status) # 0

Editable(u) == Shown(u) /\ view[u].status[Selected(u)] = "draft"

-----------------------------------------------------------------------------
\* The program was created; its first version is another request.
BuilderInit ==
    /\ status = [v \in Versions |-> "none"] /\ current = 0
    /\ creation = "program" /\ items = [v \in Versions |-> 0]
    /\ view = [u \in Users |-> Loaded]
    /\ chosen = [u \in Users |-> 0] /\ dialog = [u \in Users |-> "none"]
    /\ request = [u \in Users |-> Idle]

CreateFirstVersion ==
    /\ creation = "program" /\ creation' = "done"
    /\ status' = [status EXCEPT ![1] = "draft"]
    /\ UNCHANGED <<current, items, page, request>>

CreationFails ==
    /\ creation = "program" /\ creation' = "failed"
    /\ UNCHANGED <<status, current, items, page, request>>

Load(u) ==
    /\ view[u] # Loaded
    /\ view' = [view EXCEPT ![u] = Loaded]
    /\ UNCHANGED <<status, current, creation, items, chosen, dialog, request>>

SelectTab(u, v) ==
    /\ Shown(u) /\ dialog[u] = "none"
    /\ view[u].status[v] # "none" /\ chosen[u] # v
    /\ chosen' = [chosen EXCEPT ![u] = v]
    /\ UNCHANGED <<status, current, creation, items, view, dialog, request>>

OpenDialog(u, d) ==
    /\ Editable(u) /\ dialog[u] = "none"
    /\ dialog' = [dialog EXCEPT ![u] = d]
    /\ UNCHANGED <<status, current, creation, items, view, chosen, request>>

CloseDialog(u) ==
    /\ dialog[u] # "none"
    /\ dialog' = [dialog EXCEPT ![u] = "none"]
    /\ UNCHANGED <<status, current, creation, items, view, chosen, request>>

Send(u, kind, target, order) ==
    /\ Shown(u) /\ request[u] = Idle
    /\ request' = [request EXCEPT ![u] =
                      [kind |-> kind, target |-> target, order |-> order, step |-> "sent"]]
    /\ UNCHANGED <<status, current, creation, items, page>>

Slip_NewDraft(u) == Send(u, "draft", Latest(view[u].status) + 1, 0)

\* Offered only while no loaded version is a draft.
NewDraft(u) ==
    /\ Drafts(view[u].status) = {}
    /\ Send(u, "draft", Latest(view[u].status) + 1, 0)

\* The place of a new definition is the number of those the page shows.
SaveDefinition(u) ==
    /\ dialog[u] = "edit"
    /\ Send(u, "add", Selected(u), view[u].items[Selected(u)])

\* The dialog does not look at the status again.
ConfirmPublication(u) ==
    /\ dialog[u] = "publish"
    /\ Send(u, "publish", Selected(u), 0)

-----------------------------------------------------------------------------
At(u, step) == request[u].kind = "publish" /\ request[u].step = step

\* Rows locked FOR UPDATE by publications under way.
LocksVersion(u, v) == (At(u, "version") \/ At(u, "program")) /\ request[u].target = v
VersionFree(v)     == \A w \in Users : ~ LocksVersion(w, v)
ProgramFree        == \A w \in Users : ~ At(w, "program")

Step(u, step) == request' = [request EXCEPT ![u].step = step]

\* The insert of createDraftVersion: its number may be taken, and its foreign key
\* waits for the program's row.
InsertDraft(u) ==
    LET n == request[u].target
    IN /\ request[u].kind = "draft" /\ request[u].step = "sent" /\ ProgramFree
       /\ n <= MaxVersions
       /\ IF status[n] = "none"
          THEN status' = [status EXCEPT ![n] = "draft"] /\ Step(u, "done")
          ELSE status' = status /\ Step(u, "refused")
       /\ UNCHANGED <<current, creation, items, page>>

\* The trigger protect_program_definition reads the status without a lock.
CheckDefinition(u) ==
    /\ request[u].kind = "add" /\ request[u].step = "sent"
    /\ Step(u, IF status[request[u].target] = "draft" THEN "checked" ELSE "refused")
    /\ UNCHANGED <<status, current, creation, items, page>>

\* The row itself: its place may be taken.
InsertDefinition(u) ==
    LET v == request[u].target
    IN /\ request[u].kind = "add" /\ request[u].step = "checked" /\ VersionFree(v)
       /\ \/ items[v] = request[u].order /\ items[v] < MaxItems
             /\ items' = [items EXCEPT ![v] = @ + 1] /\ Step(u, "done")
          \/ items[v] # request[u].order /\ items' = items /\ Step(u, "refused")
       /\ UNCHANGED <<status, current, creation, page>>

LockVersion(u) ==
    /\ At(u, "sent") /\ VersionFree(request[u].target)
    /\ Step(u, "version")
    /\ UNCHANGED <<status, current, creation, items, page>>

Publishable(v) == status[v] = "draft" /\ items[v] > 0

Slip_Retirable(v) == status[v] \in {"active", "retired"}

\* The versions whose rows the publication updates beside its own.
Retirable(v) == status[v] = "active"

\* With both locks the version is checked.
LockProgram(u) ==
    /\ At(u, "version") /\ ProgramFree
    /\ Step(u, IF Publishable(request[u].target) THEN "program" ELSE "refused")
    /\ UNCHANGED <<status, current, creation, items, page>>

\* The active version is retired, this one is active and current: one commit.
Switch(u) ==
    LET v == request[u].target
    IN /\ At(u, "program")
       /\ \A w \in Versions : Retirable(w) => VersionFree(w)
       /\ status' = [w \in Versions |-> IF w = v THEN "active"
                                         ELSE IF Retirable(w) THEN "retired" ELSE status[w]]
       /\ current' = v
       /\ Step(u, "done")
       /\ UNCHANGED <<creation, items, page>>

\* u waits for a row that w holds while w waits for the program: one is ended.
Deadlock(u, w) ==
    /\ At(u, "program") /\ At(w, "version") /\ Retirable(request[w].target)
    /\ \E victim \in {u, w} : Step(victim, "refused")
    /\ UNCHANGED <<status, current, creation, items, page>>

\* The answer: success closes the dialog, a new draft is named in the address;
\* an error, or an answer that is lost, leaves everything as it is.
Answer(u) ==
    /\ request[u].step \in {"done", "refused"}
    /\ request' = [request EXCEPT ![u] = Idle]
    /\ \/ /\ request[u].step = "done"
          /\ IF request[u].kind = "draft"
             THEN chosen' = [chosen EXCEPT ![u] = request[u].target] /\ UNCHANGED dialog
             ELSE dialog' = [dialog EXCEPT ![u] = "none"] /\ UNCHANGED chosen
       \/ UNCHANGED <<chosen, dialog>>
    /\ UNCHANGED <<status, current, creation, items, view>>

UserActs(u) ==
    \/ Load(u) \/ CloseDialog(u) \/ NewDraft(u) \/ SaveDefinition(u) \/ ConfirmPublication(u)
    \/ \E v \in Versions : SelectTab(u, v)
    \/ \E d \in {"edit", "publish"} : OpenDialog(u, d)

ServerActs(u) ==
    \/ InsertDraft(u) \/ CheckDefinition(u) \/ InsertDefinition(u)
    \/ LockVersion(u) \/ LockProgram(u) \/ Switch(u) \/ Answer(u)
    \/ \E w \in Users : Deadlock(u, w)

BuilderNext ==
    \/ CreateFirstVersion \/ CreationFails
    \/ \E u \in Users : UserActs(u) \/ ServerActs(u)

BuilderSpec == BuilderInit /\ [][BuilderNext]_vars

-----------------------------------------------------------------------------
Statuses == {"none", "draft", "active", "retired"}
Steps    == {"none", "sent", "checked", "version", "program", "done", "refused"}
Requests == [kind : {"none", "add", "draft", "publish"}, target : 0..(MaxVersions + 1),
             order : Nat, step : Steps]
Views    == [status : [Versions -> Statuses], current : 0..MaxVersions, items : [Versions -> Nat]]

\* The variables have their types; in particular a place is never negative and a
\* version never holds more definitions than the bound.
TypeOK ==
    /\ status \in [Versions -> Statuses] /\ current \in 0..MaxVersions
    /\ creation \in {"program", "done", "failed"}
    /\ items \in [Versions -> Nat] /\ \A v \in Versions : items[v] <= MaxItems
    /\ view \in [Users -> Views]
    /\ chosen \in [Users -> 0..MaxVersions]
    /\ dialog \in [Users -> {"none", "edit", "publish"}]
    /\ request \in [Users -> Requests]

\* The program's line, with what the tables say for it.
Line == INSTANCE ProgramLine
            WITH published <- current, drafting <- Drafts(status) # {}

\* The program keeps its line, and each version the status it has in it, although
\* drafts are numbered by pages that may be old and publications of several users
\* overlap lock by lock.
KeepsTheLine == Line!Spec /\ [](\A v \in Versions : status[v] = Line!StatusOf(v))

\* A publication that has the locks and would succeed is ended by a deadlock only
\* when another one asks to publish the version that is active already, a repeat
\* of what was done.
OnlyRepeatsDeadlock ==
    [][\A u \in Users : At(u, "program") /\ request'[u].step = "refused" =>
           \E w \in Users \ {u} : At(w, "version") /\ request[w].target = current]_vars
=============================================================================
