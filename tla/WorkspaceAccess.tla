---------------------------- MODULE WorkspaceAccess ----------------------------
(***************************************************************************)
(* Who gets into the web application, and what it shows them: accounts and *)
(* sessions, the memberships a browser has loaded, the routes that depend  *)
(* on them, the members table and supplier invitations.                    *)
(*                                                                         *)
(* One browser is followed; users take turns at it.  Everybody else works  *)
(* elsewhere and changes the database only.  The browser keeps the session *)
(* and the selected organization over a reload; the memberships it has     *)
(* loaded live in a query cache, one entry per user, that a reload empties *)
(* and a sign-out does not.  A load takes time: the session may change     *)
(* before its answer is stored.                                            *)
(*                                                                         *)
(* Organizations are numbered in the order they were created: 1 is the     *)
(* buyer, the others are suppliers, each created by the acceptance of an   *)
(* invitation.  The roles reviewer, contributor and viewer, which manage   *)
(* nobody, are one role "staff".                                           *)
(***************************************************************************)
EXTENDS Naturals, Sequences, FiniteSets

CONSTANTS
    Users,
    FirstSeats,     \* memberships of the buyer the system may start with
    Destinations,   \* the paths that are opened by their address
    MaxOrgs,        \* bound on the organizations
    MaxInvites,     \* bound on the invitations
    NoUser

Ranks    == {"owner", "admin", "staff"}
NoSeat   == [role |-> "none", status |-> "none"]
Seats    == [role : Ranks, status : {"active", "suspended"}] \union {NoSeat}
Orgs     == 1 .. MaxOrgs
Buyer    == 1

Shared        == {"/", "/relationships", "/team", "/profile"}
BuyerPaths    == {"/reviews"}
SupplierPaths == {"/assessments"}
Protected     == Shared \union BuyerPaths \union SupplierPaths
Invitation    == "/invitations/accept"
Paths         == Protected \union {Invitation}
PublicPages   == {"/sign-in", "/sign-up", "/sent", "/reset-password",
                  "/auth/callback", "/unauthorized", "/organization-required"}

ASSUME AccessAssumption ==
    /\ NoUser \notin Users
    /\ FirstSeats \subseteq [Users -> Seats]
    /\ \A seats \in FirstSeats :
          \E u \in Users : seats[u] = [role |-> "owner", status |-> "active"]
    /\ Destinations \subseteq Paths \union {"/auth/callback"}
    /\ MaxOrgs \in Nat \ {0} /\ MaxInvites \in Nat

VARIABLES
    accounts,   \* per user: none, unverified or verified
    seats,      \* organization_members: per user and organization
    orgs,       \* how many organizations exist
    invites,    \* supplier_invitations: to whom, and the status
    mail,       \* per user: where the link of the last mail leads, or none
    stored,     \* the session the browser keeps
    loading,    \* the session has not been read since the page was loaded
    page,       \* the route shown, and the path to go to next
    link,       \* the invitation whose link was opened last
    selected,   \* the organization selected last, 0 for none
    cache,      \* the memberships query, per user
    fetch,      \* the rows a load has read and not yet delivered, per user
    invitee     \* who signed up from an invitation and has not come to its form

database == <<seats, orgs, invites>>
identity == <<accounts, mail>>
vars     == <<database, identity, stored, loading, page, link, selected, cache,
              fetch, invitee>>

At(path)         == [at |-> path, next |-> "/"]
Toward(path, to) == [at |-> path, next |-> to]

Rows      == [org : Orgs, role : Ranks]
Empty     == [state |-> "none", rows |-> {}]
Failed    == [state |-> "failed", rows |-> {}]
Loaded(r) == [state |-> "data", rows |-> r]
Entries   == {Empty, Failed} \union [state : {"data"}, rows : SUBSET Rows]
NoFetch    == [state |-> "idle", rows |-> {}]
Reading(r) == [state |-> "reading", rows |-> r]
Fetches    == {NoFetch} \union [state : {"reading"}, rows : SUBSET Rows]

TypeOK ==
    /\ accounts \in [Users -> {"none", "unverified", "verified"}]
    /\ seats \in [Users -> [Orgs -> Seats]]
    /\ orgs \in Orgs
    /\ invites \in Seq([to : Users, status : {"pending", "lapsed", "revoked", "accepted"}])
    /\ mail \in [Users -> Paths \union {"none"}]
    /\ stored \in Users \union {NoUser}
    /\ loading \in BOOLEAN
    /\ page \in [at : Paths \union PublicPages, next : Paths]
    /\ link \in 0 .. MaxInvites
    /\ selected \in 0 .. MaxOrgs
    /\ cache \in [Users -> Entries]
    /\ fetch \in [Users -> Fetches]
    /\ invitee \in Users \union {NoUser}

-------------------------------------------------------------------------------
\* What the database lets a user do.

RoleIn(u, o) == IF seats[u][o].status = "active" THEN seats[u][o].role ELSE "none"

Slip_Below(role) == IF role \in {"owner", "admin"} THEN Ranks ELSE {}

\* The roles a role may give and take.
Below(role) ==
    CASE role = "owner" -> {"admin", "staff"}
      [] role = "admin" -> {"staff"}
      [] OTHER          -> {}

CanManage(x, u, o, role) == u # x /\ role \in Below(RoleIn(x, o))

\* The row as it was and the row as it will be are both checked.
SetSeat(x, u, o, seat) ==
    /\ seats[u][o] # NoSeat
    /\ CanManage(x, u, o, seats[u][o].role)
    /\ CanManage(x, u, o, seat.role)
    /\ seats' = [seats EXCEPT ![u][o] = seat]

SetRole(x, u, o) == \E role \in Ranks : SetSeat(x, u, o, [seats[u][o] EXCEPT !.role = role])
Suspend(x, u, o) == SetSeat(x, u, o, [seats[u][o] EXCEPT !.status = "suspended"])

\* A new invitation revokes the pending ones to the same address.
Invite(x, u) ==
    /\ RoleIn(x, Buyer) \in {"owner", "admin"}
    /\ Len(invites) < MaxInvites
    /\ invites' =
         Append([i \in DOMAIN invites |->
                    IF invites[i].to = u /\ invites[i].status \in {"pending", "lapsed"}
                    THEN [invites[i] EXCEPT !.status = "revoked"]
                    ELSE invites[i]],
                [to |-> u, status |-> "pending"])

Slip_Acceptable(i, u) == invites[i].to = u /\ invites[i].status \in {"pending", "accepted"}

Acceptable(i, u) == invites[i].to = u /\ invites[i].status = "pending"

-------------------------------------------------------------------------------
\* What the browser makes of it.

user == IF loading THEN NoUser ELSE stored

Slip_MembershipRows(u) ==
    {[org |-> o, role |-> seats[u][o].role] : o \in {p \in Orgs : seats[u][p] # NoSeat}}

\* loadMemberships: the user's active memberships.
MembershipRows(u) ==
    {[org |-> o, role |-> RoleIn(u, o)] : o \in {p \in Orgs : RoleIn(u, p) # "none"}}

Slip_MembershipKey(u) == user

\* The cache entry an answer belongs to.
MembershipKey(u) == u

None == [org |-> 0, role |-> "none"]

\* The selected membership, else the one joined first.
ResolveSelected(rows, id) ==
    IF rows = {} THEN None
    ELSE IF \E r \in rows : r.org = id THEN CHOOSE r \in rows : r.org = id
    ELSE CHOOSE r \in rows : \A s \in rows : r.org <= s.org

Membership == IF user = NoUser THEN None ELSE ResolveSelected(cache[user].rows, selected)

\* The provider's effect: what was resolved becomes the selection.
Settle ==
    LET rows == IF user' = NoUser THEN {} ELSE cache'[user'].rows
    IN  selected' = IF rows = {} THEN selected ELSE ResolveSelected(rows, selected).org

WorkspaceLoading == user # NoUser /\ cache[user].state = "none"

WorkspaceLoaded  == user # NoUser /\ cache[user].state = "data"

CanEnter(path, o) ==
    /\ path \in BuyerPaths => o = Buyer
    /\ path \in SupplierPaths => o > Buyer

\* What a protected route renders.
AccessDestination(path) ==
    IF loading \/ WorkspaceLoading THEN "loading"
    ELSE IF user = NoUser THEN "/sign-in"
    ELSE IF Membership = None THEN "/organization-required"
    ELSE IF ~CanEnter(path, Membership.org) THEN "/unauthorized"
    ELSE "allow"

\* The organization on screen, 0 for none.
Shown ==
    IF page.at \in Protected /\ AccessDestination(page.at) = "allow" THEN Membership.org ELSE 0

Init ==
    /\ \E first \in FirstSeats :
          /\ seats = [u \in Users |-> [o \in Orgs |-> IF o = Buyer THEN first[u] ELSE NoSeat]]
          /\ accounts = [u \in Users |-> IF first[u] = NoSeat THEN "none" ELSE "verified"]
    /\ orgs = Buyer
    /\ invites = << >>
    /\ mail = [u \in Users |-> "none"]
    /\ stored = NoUser /\ loading = TRUE
    /\ page = At("/")
    /\ link = 0 /\ selected = 0
    /\ cache = [u \in Users |-> Empty]
    /\ fetch = [u \in Users |-> NoFetch]
    /\ invitee = NoUser

\* Loading the application anew empties everything but the stored session and
\* selection.
Reload ==
    /\ loading' = TRUE
    /\ cache' = [u \in Users |-> Empty]
    /\ fetch' = [u \in Users |-> NoFetch]

-------------------------------------------------------------------------------
\* Sessions.

\* A path is typed or followed.
Open(path) ==
    /\ page' = At(path)
    /\ IF path = Invitation
       THEN \E i \in DOMAIN invites : link' = i
       ELSE UNCHANGED link
    /\ invitee' = NoUser
    /\ Reload
    /\ UNCHANGED <<database, identity, stored, selected>>

SessionRead ==
    /\ loading
    /\ loading' = FALSE
    /\ UNCHANGED <<database, identity, stored, page, link, cache, fetch, invitee>>
    /\ Settle

SignIn(u) ==
    /\ page.at = "/sign-in" /\ user = NoUser /\ ~loading
    /\ accounts[u] = "verified"
    /\ stored' = u
    /\ page' = At(page.next)
    /\ UNCHANGED <<database, identity, loading, link, cache, fetch, invitee>>
    /\ Settle

\* In the shell, and on the page without an organization, which navigates too.
SignOut ==
    /\ user # NoUser
    /\ \/ Shown # 0 /\ UNCHANGED page
       \/ page.at = "/organization-required" /\ page' = At("/sign-in")
    /\ stored' = NoUser
    /\ UNCHANGED <<database, identity, loading, link, selected, cache, fetch, invitee>>

\* The links between the public forms: only the one from the sign-in to the
\* sign-up form carries the path to go to.
FollowLink ==
    /\ user = NoUser
    /\ \/ page.at = "/sign-in" /\ page' = Toward("/sign-up", page.next)
       \/ page.at = "/sign-in" /\ page' = At("/reset-password")
       \/ page.at \in {"/sign-up", "/sent", "/reset-password"} /\ page' = At("/sign-in")
    /\ UNCHANGED <<database, identity, stored, loading, link, selected, cache, fetch,
                   invitee>>

\* Signing up mails a link that verifies the account and leads to the same path.
SignUp(u) ==
    /\ page.at = "/sign-up" /\ user = NoUser
    /\ accounts[u] # "verified"
    /\ accounts' = [accounts EXCEPT ![u] = "unverified"]
    /\ mail' = [mail EXCEPT ![u] = page.next]
    /\ page' = Toward("/sent", page.next)
    /\ invitee' = IF page.next = Invitation THEN u ELSE NoUser
    /\ UNCHANGED <<database, stored, loading, link, selected, cache, fetch>>

ResetPassword(u) ==
    /\ page.at = "/reset-password"
    /\ accounts[u] = "verified"
    /\ mail' = [mail EXCEPT ![u] = "/profile"]
    /\ UNCHANGED <<database, accounts, stored, loading, page, link, selected, cache, fetch,
                   invitee>>

\* The mailed link, once: the account is verified and the session its own.
OpenMail(u) ==
    /\ mail[u] # "none"
    /\ accounts' = [accounts EXCEPT ![u] = "verified"]
    /\ mail' = [mail EXCEPT ![u] = "none"]
    /\ stored' = u
    /\ page' = Toward("/auth/callback", mail[u])
    /\ Reload
    /\ UNCHANGED <<database, link, selected, invitee>>

\* The link may as well be opened on another device.
OpenMailElsewhere(u) ==
    /\ mail[u] # "none"
    /\ accounts' = [accounts EXCEPT ![u] = "verified"]
    /\ mail' = [mail EXCEPT ![u] = "none"]
    /\ UNCHANGED <<database, stored, loading, page, link, selected, cache, fetch, invitee>>

-------------------------------------------------------------------------------
\* Routing and loading.

\* Where the page shown sends the browser, the page itself for nowhere.
Destination ==
    CASE page.at \in Protected /\ AccessDestination(page.at) = "/sign-in" ->
              Toward("/sign-in", page.at)
      [] page.at \in Protected /\ AccessDestination(page.at) \notin {"loading", "allow", "/sign-in"} ->
              At(AccessDestination(page.at))
      [] page.at = Invitation /\ ~loading /\ user = NoUser -> Toward("/sign-in", Invitation)
      [] page.at \in {"/sign-in", "/sign-up", "/sent"} /\ user # NoUser -> At(page.next)
      [] page.at = "/auth/callback" /\ ~loading ->
              IF user = NoUser THEN At("/sign-in") ELSE At(page.next)
      [] OTHER -> page

Redirect ==
    /\ Destination # page
    /\ page' = Destination
    /\ invitee' = IF page'.at = Invitation /\ user = invitee THEN NoUser ELSE invitee
    /\ UNCHANGED <<database, identity, stored, loading, link, selected, cache, fetch>>

\* The navigation of the organization's type, and the link of the page that
\* refuses.
Navigate(path) ==
    /\ \/ Shown # 0 /\ CanEnter(path, Shown) /\ path # page.at
       \/ page.at = "/unauthorized" /\ path = "/"
    /\ page' = At(path)
    /\ UNCHANGED <<database, identity, stored, loading, link, selected, cache, fetch,
                   invitee>>

SelectOrganization(o) ==
    /\ Shown # 0
    /\ \E r \in cache[user].rows : r.org = o
    /\ selected' = o
    /\ UNCHANGED <<database, identity, stored, loading, page, link, cache, fetch, invitee>>

\* The memberships are loaded when the session is there, again when the window
\* gets the focus and when a broadcast invalidates the queries.
LoadStarts ==
    /\ user # NoUser /\ fetch[user] = NoFetch
    /\ fetch' = [fetch EXCEPT ![user] = Reading(MembershipRows(user))]
    /\ cache' = IF cache[user].state = "failed" THEN [cache EXCEPT ![user] = Empty] ELSE cache
    /\ UNCHANGED <<database, identity, stored, loading, page, link, selected, invitee>>

LoadEnds(u) ==
    /\ fetch[u] # NoFetch
    /\ cache' = IF MembershipKey(u) \in Users
                THEN [cache EXCEPT ![MembershipKey(u)] = Loaded(fetch[u].rows)] ELSE cache
    /\ fetch' = [fetch EXCEPT ![u] = NoFetch]
    /\ UNCHANGED <<database, identity, stored, loading, page, link, invitee>>
    /\ Settle

\* A failed load keeps what was loaded before.
LoadFails(u) ==
    /\ fetch[u] # NoFetch
    /\ cache' = IF cache[u].state = "none" THEN [cache EXCEPT ![u] = Failed] ELSE cache
    /\ fetch' = [fetch EXCEPT ![u] = NoFetch]
    /\ UNCHANGED <<database, identity, stored, loading, page, link, selected, invitee>>

-------------------------------------------------------------------------------
\* Members and invitations.

Manages == Membership.role \in {"owner", "admin"}

\* The members table: it may be out of date, the database is asked again.
ManageTeam(u) ==
    /\ page.at = "/team" /\ Shown # 0 /\ Manages
    /\ \/ SetRole(user, u, Shown)
       \/ Suspend(user, u, Shown)
    /\ UNCHANGED <<orgs, invites, identity, stored, loading, page, link, selected, cache,
                   fetch, invitee>>

InviteSupplier(u) ==
    /\ page.at = "/relationships" /\ Shown = Buyer /\ Manages
    /\ Invite(user, u)
    /\ UNCHANGED <<seats, orgs, identity, stored, loading, page, link, selected, cache,
                   fetch, invitee>>

\* Accepting creates a supplier organization of which the user is the owner,
\* and loads the application anew at its first page.
AcceptInvitation ==
    /\ page.at = Invitation /\ user # NoUser
    /\ Acceptable(link, user)
    /\ orgs < MaxOrgs
    /\ orgs' = orgs + 1
    /\ seats' = [seats EXCEPT ![user][orgs + 1] = [role |-> "owner", status |-> "active"]]
    /\ invites' = [invites EXCEPT ![link].status = "accepted"]
    /\ page' = At("/")
    /\ Reload
    /\ UNCHANGED <<identity, stored, link, selected, invitee>>

\* Members at work in other browsers, and invitations that expire.
Elsewhere ==
    /\ \/ /\ \E x, u \in Users, o \in Orgs : SetRole(x, u, o) \/ Suspend(x, u, o)
          /\ UNCHANGED <<orgs, invites>>
       \/ /\ \E x, u \in Users : Invite(x, u)
          /\ UNCHANGED <<seats, orgs>>
       \/ /\ \E i \in DOMAIN invites :
                /\ invites[i].status = "pending"
                /\ invites' = [invites EXCEPT ![i].status = "lapsed"]
          /\ UNCHANGED <<seats, orgs>>
    /\ UNCHANGED <<identity, stored, loading, page, link, selected, cache, fetch, invitee>>

Next ==
    \/ \E path \in Destinations : Open(path)
    \/ SessionRead \/ SignOut \/ FollowLink
    \/ \E u \in Users : SignIn(u) \/ SignUp(u) \/ ResetPassword(u) \/ OpenMail(u)
                      \/ OpenMailElsewhere(u)
    \/ Redirect
    \/ \E path \in Protected : Navigate(path)
    \/ \E o \in Orgs : SelectOrganization(o)
    \/ LoadStarts
    \/ \E u \in Users : LoadEnds(u) \/ LoadFails(u)
    \/ \E u \in Users : ManageTeam(u) \/ InviteSupplier(u)
    \/ AcceptInvitation
    \/ Elsewhere

Spec == Init /\ [][Next]_vars

\* The window regains the focus again and again, and not every load
\* fails.
FairSpec == Spec /\ WF_vars(LoadStarts) /\ \A u \in Users : SF_vars(LoadEnds(u))

-------------------------------------------------------------------------------
\* The organization on screen is one the user of the session belongs to, or
\* belonged to when the page was last brought up to date: users who take turns
\* at a browser never see each other's, whatever loads are under way.
ScreenBelongsToUser == Shown # 0 => seats[user][Shown] # NoSeat

\* No organization loses its owners, whatever roles its members give each
\* other: there is always someone who can undo the others' changes.
OwnersStand == \A o \in 1 .. orgs : \E u \in Users : RoleIn(u, o) = "owner"

With(status) == {i \in DOMAIN invites : invites[i].status = status}

\* However many invitations are sent, expire, are sent again and have their links
\* opened by several users of a browser: each gives rise to one organization at
\* most, no supplier has another origin, and one of its owners was invited.
OneOrganizationPerInvitation ==
    /\ Cardinality(With("accepted")) = orgs - 1
    /\ \A o \in Orgs : Buyer < o /\ o <= orgs =>
          \E i \in With("accepted") : RoleIn(invites[i].to, o) = "owner"

\* The organization on screen is not open to the user any more.
Overstays == Shown # 0 /\ RoleIn(user, Shown) = "none"

\* A member who is suspended while at work does not keep the organization on
\* screen: the memberships are loaded again, and the route gives way.
SuspendedMemberLeaves == Overstays ~> ~Overstays

\* "Invitation acceptance resumes after sign-in": whoever signed up from an
\* invitation is not told, once signed in, that there is no organization.
InvitationResumes ==
    page.at = "/organization-required" /\ WorkspaceLoaded => user # invitee
===============================================================================
