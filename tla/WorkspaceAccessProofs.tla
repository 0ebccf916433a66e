------------------------- MODULE WorkspaceAccessProofs -------------------------
(***************************************************************************)
(* Theorems about WorkspaceAccess, for any users, memberships to start     *)
(* with, organizations, invitations and paths.  The invariant says what a  *)
(* browser can know of the members table: rows it has loaded, however long *)
(* ago and for whomever, are rows that were there and never go away.       *)
(***************************************************************************)
EXTENDS WorkspaceAccess, SequenceTheorems, FiniteSetTheorems, TLAPS

USE AccessAssumption

Invites == [to : Users, status : {"pending", "lapsed", "revoked", "accepted"}]

\* What is loaded, or about to be, under a user's name is about the user.
KnownRows ==
    \A u \in Users : \A r \in cache[u].rows \union fetch[u].rows : seats[u][r.org] # NoSeat

AccessInv == TypeOK /\ Len(invites) <= MaxInvites /\ KnownRows

-----------------------------------------------------------------------------
(* What is resolved                                                        *)

\* Of some memberships one is of the organization joined first.
LEMMA JoinedFirst ==
    ASSUME NEW rows \in SUBSET Rows, rows # {}
    PROVE  \E r \in rows : \A s \in rows : r.org <= s.org
<1> DEFINE heaps == {1 .. r.org : r \in rows}
           before == StrictSubsetOrdering(Nat)
<1>1. IsWellFoundedOn(before, FiniteSubsetsOf(Nat))
  BY FS_StrictSubsetOrderingWellFounded
<1>2. heaps \subseteq FiniteSubsetsOf(Nat) /\ heaps # {}
  BY FS_Interval DEF FiniteSubsetsOf, Rows, Orgs
<1>3. \E least \in heaps : \A heap \in heaps : <<heap, least>> \notin before
  <2> HIDE DEF heaps, before
  <2>1. QED
    BY <1>1, <1>2, WFMin
<1>4. PICK r \in rows : \A s \in rows : <<1 .. s.org, 1 .. r.org>> \notin before
  BY <1>3
<1>5. ASSUME NEW s \in rows PROVE r.org <= s.org
  <2>1. r.org \in Nat \ {0} /\ s.org \in Nat \ {0}
    BY DEF Rows, Orgs
  <2> DEFINE lower == 1 .. s.org
             upper == 1 .. r.org
  <2>2. ~(lower \subseteq upper /\ lower # upper)
    <3>1. <<lower, upper>> \notin before
      BY <1>4
    <3>2. lower \in SUBSET Nat /\ upper \in SUBSET Nat
      BY <2>1
    <3> HIDE DEF lower, upper
    <3>3. QED
      BY <3>1, <3>2 DEF StrictSubsetOrdering
  <2>3. CASE s.org < r.org
    <3>1. 1 .. s.org \subseteq 1 .. r.org /\ r.org \in 1 .. r.org /\ r.org \notin 1 .. s.org
      BY <2>1, <2>3
    <3>2. QED
      BY <2>2, <3>1
  <2>4. QED
    BY <2>1, <2>3
<1>6. QED
  BY <1>5

LEMMA Resolved ==
    ASSUME NEW rows \in SUBSET Rows, NEW id
    PROVE  /\ rows = {} => ResolveSelected(rows, id) = None
           /\ rows # {} => ResolveSelected(rows, id) \in rows
           /\ rows # {} => ResolveSelected(rows, id).org \in Orgs
<1>1. CASE rows = {}
  BY <1>1 DEF ResolveSelected
<1>2. CASE rows # {} /\ \E r \in rows : r.org = id
  BY <1>2 DEF ResolveSelected, Rows
<1>3. CASE rows # {} /\ ~ \E r \in rows : r.org = id
  <2>1. (CHOOSE r \in rows : \A s \in rows : r.org <= s.org) \in rows
    BY <1>3, JoinedFirst
  <2>2. QED
    BY <1>3, <2>1 DEF ResolveSelected, Rows
<1>4. QED
  BY <1>1, <1>2, <1>3

\* The rows that are loaded are memberships the database has.
LEMMA LoadedRows ==
    ASSUME TypeOK, NEW u \in Users
    PROVE  /\ MembershipRows(u) \in SUBSET Rows
           /\ \A r \in MembershipRows(u) : seats[u][r.org] # NoSeat
<1>1. \A o \in Orgs : RoleIn(u, o) # "none" => RoleIn(u, o) \in Ranks /\ seats[u][o] # NoSeat
  BY DEF TypeOK, RoleIn, Seats, NoSeat
<1>2. QED
  BY <1>1 DEF MembershipRows, Rows

\* The provider's effect keeps a selection that can be one.
LEMMA Settled ==
    ASSUME TypeOK, Settle,
           user' \in Users \union {NoUser}, cache' \in [Users -> Entries]
    PROVE  selected' \in 0 .. MaxOrgs
<1> DEFINE rows == IF user' = NoUser THEN {} ELSE cache'[user'].rows
<1>1. rows \in SUBSET Rows
  BY DEF Entries, Empty, Failed
<1>2. selected' = IF rows = {} THEN selected ELSE ResolveSelected(rows, selected).org
  BY DEF Settle
<1> HIDE DEF rows
<1>3. QED
  BY <1>1, <1>2, Resolved DEF TypeOK, Orgs

LEMMA UserTyped ==
    ASSUME TypeOK
    PROVE  user \in Users \union {NoUser}
BY DEF TypeOK, user

-----------------------------------------------------------------------------
(* The members table                                                       *)

\* Whoever changes a row leaves the owners alone, gives nobody more than a role
\* below the own one, and removes no row.
LEMMA SeatChanged ==
    ASSUME TypeOK, NEW x, NEW u \in Users, NEW o \in Orgs,
           SetRole(x, u, o) \/ Suspend(x, u, o)
    PROVE  /\ seats' \in [Users -> [Orgs -> Seats]]
           /\ \A w \in Users, p \in Orgs :
                 /\ seats[w][p] # NoSeat => seats'[w][p] # NoSeat
                 /\ RoleIn(w, p) = "owner" => RoleIn(w, p)' = "owner"
<1>1. PICK seat \in [role : Ranks, status : {"active", "suspended"}] : SetSeat(x, u, o, seat)
  <2>1. seats[u][o] \in Seats /\ seats[u][o] # NoSeat
    BY DEF TypeOK, SetRole, Suspend, SetSeat
  <2>2. seats[u][o] \in [role : Ranks, status : {"active", "suspended"}]
    BY <2>1 DEF Seats
  <2>3. QED
    BY <2>2 DEF SetRole, Suspend
<1>2. seat # NoSeat /\ seat \in Seats
  BY DEF NoSeat, Seats, Ranks
<1>3. seats' = [seats EXCEPT ![u] = [seats[u] EXCEPT ![o] = seat]]
  BY <1>1 DEF SetSeat
<1>4. seats[u][o].role # "owner"
  BY <1>1 DEF SetSeat, CanManage, Below
<1>5. seats' \in [Users -> [Orgs -> Seats]]
  BY <1>2, <1>3 DEF TypeOK
<1>6. \A w \in Users, p \in Orgs :
         seats'[w][p] = IF w = u /\ p = o THEN seat ELSE seats[w][p]
  BY <1>3 DEF TypeOK
<1>7. QED
  BY <1>2, <1>4, <1>5, <1>6 DEF RoleIn

\* A new invitation is put at the end, and those before it keep their form.
LEMMA Invited ==
    ASSUME TypeOK, NEW x, NEW u \in Users, Invite(x, u)
    PROVE  invites' \in Seq(Invites) /\ Len(invites') <= MaxInvites
<1>1. invites \in Seq(Invites) /\ Len(invites) \in Nat /\ DOMAIN invites = 1 .. Len(invites)
      /\ \A i \in 1 .. Len(invites) : invites[i] \in Invites
  BY LenProperties, ElementOfSeq DEF TypeOK, Invites
<1> DEFINE revoked == [i \in DOMAIN invites |->
                         IF invites[i].to = u /\ invites[i].status \in {"pending", "lapsed"}
                         THEN [invites[i] EXCEPT !.status = "revoked"]
                         ELSE invites[i]]
<1>2. revoked \in [1 .. Len(invites) -> Invites]
  BY <1>1 DEF Invites
<1>3. revoked \in Seq(Invites) /\ Len(revoked) = Len(invites)
  BY <1>1, <1>2, IsASeq, LenProperties
<1>4. [to |-> u, status |-> "pending"] \in Invites
  BY DEF Invites
<1>5. invites' = Append(revoked, [to |-> u, status |-> "pending"]) /\ Len(invites) < MaxInvites
  BY DEF Invite
<1> HIDE DEF revoked
<1>6. QED
  BY <1>1, <1>3, <1>4, <1>5, AppendProperties

\* Expiry and acceptance mark an invitation.
LEMMA Marked ==
    ASSUME TypeOK, NEW i, NEW status \in {"pending", "lapsed", "revoked", "accepted"},
           invites' = [invites EXCEPT ![i].status = status]
    PROVE  invites' \in Seq(Invites) /\ Len(invites') = Len(invites)
<1>1. Len(invites) \in Nat /\ invites \in [1 .. Len(invites) -> Invites]
  BY LenProperties DEF TypeOK, Invites
<1>2. invites' \in [1 .. Len(invites) -> Invites]
  BY <1>1 DEF Invites
<1>3. QED
  BY <1>1, <1>2, IsASeq, LenProperties
-----------------------------------------------------------------------------
(* The invariant                                                           *)

LEMMA InitHolds == Init => AccessInv
<1> SUFFICES ASSUME Init PROVE AccessInv
  OBVIOUS
<1>1. PICK first \in FirstSeats :
         /\ seats = [u \in Users |-> [o \in Orgs |-> IF o = Buyer THEN first[u] ELSE NoSeat]]
         /\ accounts = [u \in Users |-> IF first[u] = NoSeat THEN "none" ELSE "verified"]
  BY DEF Init
<1>2. seats \in [Users -> [Orgs -> Seats]] /\ accounts \in [Users -> {"none", "unverified", "verified"}]
  BY <1>1 DEF Seats
<1>3. invites \in Seq(Invites) /\ Len(invites) = 0
  BY EmptySeq DEF Init
<1>4. cache \in [Users -> Entries] /\ fetch \in [Users -> Fetches]
  BY DEF Init, Entries, Empty, Fetches, NoFetch
<1>5. page \in [at : Paths \union PublicPages, next : Paths]
  BY DEF Init, At, Paths, Protected, Shared
<1>6. /\ mail \in [Users -> Paths \union {"none"}]
      /\ orgs \in Orgs /\ stored \in Users \union {NoUser} /\ loading \in BOOLEAN
      /\ link \in 0 .. MaxInvites /\ selected \in 0 .. MaxOrgs /\ invitee \in Users \union {NoUser}
  BY DEF Init, Orgs, Buyer
<1>7. KnownRows
  BY DEF Init, KnownRows, Empty, NoFetch
<1>8. TypeOK
  BY <1>2, <1>3, <1>4, <1>5, <1>6 DEF TypeOK, Invites
<1>9. QED
  BY <1>3, <1>7, <1>8 DEF AccessInv

\* A step that touches neither members nor what is loaded or being loaded.
LEMMA RowsKept ==
    ASSUME KnownRows, UNCHANGED <<seats, cache, fetch>>
    PROVE  KnownRows'
BY DEF KnownRows

\* A reload forgets what was loaded.
LEMMA ReloadForgets ==
    ASSUME Reload
    PROVE  /\ KnownRows'
           /\ cache' \in [Users -> Entries] /\ fetch' \in [Users -> Fetches]
           /\ loading' = TRUE
BY DEF Reload, KnownRows, Empty, NoFetch, Entries, Fetches

\* Sessions and accounts.
LEMMA SessionStep ==
    ASSUME AccessInv,
           \/ \E path \in Destinations : Open(path)
           \/ SessionRead \/ SignOut \/ FollowLink
           \/ \E u \in Users : \/ SignIn(u) \/ SignUp(u) \/ ResetPassword(u)
                               \/ OpenMail(u) \/ OpenMailElsewhere(u)
    PROVE  AccessInv'
<1> USE DEF AccessInv, database, identity
<1>1. ASSUME NEW path \in Destinations, Open(path) PROVE AccessInv'
  <2>1. page' \in [at : Paths \union PublicPages, next : Paths]
    BY <1>1 DEF Open, At, Paths, Protected, Shared, PublicPages
  <2>2. link' \in 0 .. MaxInvites
    BY <1>1, LenProperties DEF Open, TypeOK
  <2>3. QED
    BY <1>1, <2>1, <2>2, ReloadForgets DEF Open, TypeOK
<1>2. CASE SessionRead
  <2>1. user' \in Users \union {NoUser}
    BY <1>2 DEF SessionRead, TypeOK, user
  <2>2. selected' \in 0 .. MaxOrgs
    BY <1>2, <2>1, Settled DEF SessionRead, TypeOK
  <2>3. QED
    BY <1>2, <2>2, RowsKept DEF SessionRead, TypeOK
<1>3. CASE SignOut
  BY <1>3, RowsKept DEF SignOut, TypeOK, At, Paths, Protected, Shared, PublicPages
<1>4. CASE FollowLink
  BY <1>4, RowsKept DEF FollowLink, TypeOK, At, Toward, Paths, Protected, Shared, PublicPages
<1>5. ASSUME NEW u \in Users, SignIn(u) PROVE AccessInv'
  <2>1. user' \in Users \union {NoUser}
    BY <1>5 DEF SignIn, TypeOK, user
  <2>2. selected' \in 0 .. MaxOrgs
    BY <1>5, <2>1, Settled DEF SignIn, TypeOK
  <2>3. page' \in [at : Paths \union PublicPages, next : Paths]
    BY <1>5 DEF SignIn, TypeOK, At, Paths, Protected, Shared
  <2>4. QED
    BY <1>5, <2>2, <2>3, RowsKept DEF SignIn, TypeOK
<1>6. ASSUME NEW u \in Users, SignUp(u) PROVE AccessInv'
  <2>1. page' \in [at : Paths \union PublicPages, next : Paths] /\ page.next \in Paths
    BY <1>6 DEF SignUp, TypeOK, Toward, PublicPages
  <2>2. QED
    BY <1>6, <2>1, RowsKept DEF SignUp, TypeOK
<1>7. ASSUME NEW u \in Users, ResetPassword(u) PROVE AccessInv'
  BY <1>7, RowsKept DEF ResetPassword, TypeOK, Paths, Protected, Shared
<1>8. ASSUME NEW u \in Users, OpenMail(u) PROVE AccessInv'
  <2>1. page' \in [at : Paths \union PublicPages, next : Paths]
    BY <1>8 DEF OpenMail, TypeOK, Toward, PublicPages
  <2>2. QED
    BY <1>8, <2>1, ReloadForgets DEF OpenMail, TypeOK
<1>9. ASSUME NEW u \in Users, OpenMailElsewhere(u) PROVE AccessInv'
  BY <1>9, RowsKept DEF OpenMailElsewhere, TypeOK
<1>10. QED
  BY <1>1, <1>2, <1>3, <1>4, <1>5, <1>6, <1>7, <1>8, <1>9

\* Where a page sends the browser is a page.
LEMMA DestinationTyped ==
    ASSUME TypeOK
    PROVE  Destination \in [at : Paths \union PublicPages, next : Paths]
<1>1. page.at \in Paths \union PublicPages /\ page.next \in Paths /\ page \in [at : Paths \union PublicPages, next : Paths]
  BY DEF TypeOK
<1>2. AccessDestination(page.at) \in {"loading", "/sign-in", "/organization-required", "/unauthorized", "allow"}
  BY DEF AccessDestination
<1> DEFINE there == AccessDestination(page.at)
<1> HIDE DEF there
<1>3. CASE page.at \in Protected /\ there = "/sign-in"
  BY <1>1, <1>3 DEF Destination, there, Toward, Paths, Protected, Shared, BuyerPaths, SupplierPaths,
                    Invitation, PublicPages
<1>4. CASE page.at \in Protected /\ there \notin {"loading", "allow", "/sign-in"}
  BY <1>1, <1>2, <1>4 DEF Destination, there, At, Paths, Protected, Shared, BuyerPaths, SupplierPaths,
                    Invitation, PublicPages
<1>5. CASE page.at \in Protected /\ there \in {"loading", "allow"}
  BY <1>1, <1>5 DEF Destination, there, Protected, Shared, BuyerPaths, SupplierPaths, Invitation
<1>6. CASE page.at \notin Protected
  BY <1>1, <1>6 DEF Destination, At, Toward, Paths, Protected, Shared, BuyerPaths, SupplierPaths,
                    Invitation, PublicPages
<1>7. QED
  BY <1>2, <1>3, <1>4, <1>5, <1>6 DEF there

\* Routing, and loads that begin, end and fail.
LEMMA BrowserStep ==
    ASSUME AccessInv,
           \/ Redirect
           \/ \E path \in Protected : Navigate(path)
           \/ \E o \in Orgs : SelectOrganization(o)
           \/ LoadStarts
           \/ \E u \in Users : LoadEnds(u) \/ LoadFails(u)
    PROVE  AccessInv'
<1> USE DEF AccessInv, database, identity
<1>1. CASE Redirect
  BY <1>1, DestinationTyped, RowsKept DEF Redirect, TypeOK
<1>2. ASSUME NEW path \in Protected, Navigate(path) PROVE AccessInv'
  <2>1. page' \in [at : Paths \union PublicPages, next : Paths]
    BY <1>2 DEF Navigate, At, Paths, Protected, Shared
  <2>2. QED
    BY <1>2, <2>1, RowsKept DEF Navigate, TypeOK
<1>3. ASSUME NEW o \in Orgs, SelectOrganization(o) PROVE AccessInv'
  BY <1>3, RowsKept DEF SelectOrganization, TypeOK, Orgs
<1>4. CASE LoadStarts
  <2>1. user \in Users
    BY <1>4, UserTyped DEF LoadStarts
  <2> DEFINE rows == MembershipRows(user)
  <2>2. rows \in SUBSET Rows /\ \A r \in rows : seats[user][r.org] # NoSeat
    BY <2>1, LoadedRows
  <2>3. /\ fetch' = [fetch EXCEPT ![user] = Reading(rows)]
        /\ cache' \in {cache, [cache EXCEPT ![user] = Empty]}
        /\ UNCHANGED <<database, identity, stored, loading, page, link, selected, invitee>>
    BY <1>4 DEF LoadStarts
  <2> HIDE DEF rows
  <2>4. fetch' \in [Users -> Fetches] /\ cache' \in [Users -> Entries]
    BY <2>2, <2>3 DEF TypeOK, Reading, Fetches, Entries
  <2>5. KnownRows'
    BY <2>1, <2>2, <2>3 DEF KnownRows, TypeOK, Reading, Empty
  <2>6. QED
    BY <2>3, <2>4, <2>5 DEF TypeOK
<1>5. ASSUME NEW u \in Users, LoadEnds(u) PROVE AccessInv'
  <2>1. /\ cache' = [cache EXCEPT ![u] = Loaded(fetch[u].rows)]
        /\ fetch' = [fetch EXCEPT ![u] = NoFetch]
    BY <1>5 DEF LoadEnds, MembershipKey
  <2>2. fetch' \in [Users -> Fetches] /\ cache' \in [Users -> Entries]
    BY <2>1 DEF TypeOK, Loaded, NoFetch, Fetches, Entries
  <2>3. KnownRows'
    BY <1>5, <2>1 DEF LoadEnds, KnownRows, TypeOK, Loaded, NoFetch
  <2>4. user' \in Users \union {NoUser}
    BY <1>5 DEF LoadEnds, TypeOK, user
  <2>5. selected' \in 0 .. MaxOrgs
    BY <1>5, <2>2, <2>4, Settled DEF LoadEnds
  <2>6. QED
    BY <1>5, <2>2, <2>3, <2>5 DEF LoadEnds, TypeOK
<1>6. ASSUME NEW u \in Users, LoadFails(u) PROVE AccessInv'
  <2>1. /\ cache' \in {cache, [cache EXCEPT ![u] = Failed]}
        /\ fetch' = [fetch EXCEPT ![u] = NoFetch]
    BY <1>6 DEF LoadFails
  <2>2. fetch' \in [Users -> Fetches] /\ cache' \in [Users -> Entries]
    BY <2>1 DEF TypeOK, NoFetch, Fetches, Entries
  <2>3. KnownRows'
    BY <1>6, <2>1 DEF LoadFails, KnownRows, TypeOK, Failed, NoFetch
  <2>4. QED
    BY <1>6, <2>2, <2>3 DEF LoadFails, TypeOK
<1>7. QED
  BY <1>1, <1>2, <1>3, <1>4, <1>5, <1>6

\* The organization on screen is the one of a membership that is loaded.
LEMMA ShownIsLoaded ==
    ASSUME TypeOK, Shown # 0
    PROVE  /\ user \in Users /\ Shown \in Orgs
           /\ \E r \in cache[user].rows : r.org = Shown
<1>1. Membership # None /\ user # NoUser /\ Shown = Membership.org
  BY DEF Shown, AccessDestination
<1>2. user \in Users
  BY <1>1, UserTyped
<1>3. cache[user].rows \in SUBSET Rows
  BY <1>2 DEF TypeOK, Entries, Empty, Failed
<1>4. QED
  BY <1>1, <1>2, <1>3, Resolved DEF Membership

\* Members and invitations.
LEMMA MemberStep ==
    ASSUME AccessInv,
           \/ \E u \in Users : ManageTeam(u) \/ InviteSupplier(u)
           \/ AcceptInvitation
           \/ Elsewhere
    PROVE  AccessInv'
<1> USE DEF AccessInv, database, identity
<1>1. ASSUME NEW x, NEW u \in Users, NEW o \in Orgs, SetRole(x, u, o) \/ Suspend(x, u, o),
             UNCHANGED <<orgs, invites, identity, stored, loading, page, link, selected, cache,
                         fetch, invitee>>
      PROVE  AccessInv'
  <2>1. KnownRows'
    <3>1. \A e \in Entries : \A r \in e.rows : r.org \in Orgs
      BY DEF Entries, Empty, Failed, Rows
    <3>2. \A f \in Fetches : \A r \in f.rows : r.org \in Orgs
      BY DEF Fetches, NoFetch, Rows
    <3>3. \A w \in Users : \A r \in cache[w].rows \union fetch[w].rows : r.org \in Orgs
      BY <3>1, <3>2 DEF TypeOK
    <3>4. QED
      BY <1>1, <3>3, SeatChanged DEF KnownRows
  <2>2. QED
    BY <1>1, <2>1, SeatChanged DEF TypeOK
<1>2. ASSUME NEW x, NEW u \in Users, Invite(x, u),
             UNCHANGED <<seats, orgs, identity, stored, loading, page, link, selected, cache,
                         fetch, invitee>>
      PROVE  AccessInv'
  BY <1>2, Invited, RowsKept DEF TypeOK, Invites
<1>3. ASSUME NEW i, invites' = [invites EXCEPT ![i].status = "lapsed"],
             UNCHANGED <<seats, orgs, identity, stored, loading, page, link, selected, cache,
                         fetch, invitee>>
      PROVE  AccessInv'
  BY <1>3, Marked, RowsKept DEF TypeOK, Invites
<1>4. CASE AcceptInvitation
  <2>1. user \in Users /\ orgs + 1 \in Orgs
    BY <1>4, UserTyped DEF AcceptInvitation, TypeOK, Orgs
  <2>2. seats' \in [Users -> [Orgs -> Seats]]
    BY <1>4, <2>1 DEF AcceptInvitation, TypeOK, Seats, Ranks
  <2>3. invites' \in Seq(Invites) /\ Len(invites') = Len(invites)
    BY <1>4, Marked DEF AcceptInvitation
  <2>4. page' \in [at : Paths \union PublicPages, next : Paths]
    BY <1>4 DEF AcceptInvitation, At, Paths, Protected, Shared
  <2>5. QED
    BY <1>4, <2>1, <2>2, <2>3, <2>4, ReloadForgets DEF AcceptInvitation, TypeOK, Invites
<1>5. ASSUME NEW u \in Users, ManageTeam(u) PROVE AccessInv'
  BY <1>1, <1>5, ShownIsLoaded DEF ManageTeam
<1>6. ASSUME NEW u \in Users, InviteSupplier(u) PROVE AccessInv'
  BY <1>2, <1>6 DEF InviteSupplier
<1>7. CASE Elsewhere
  BY <1>1, <1>2, <1>3, <1>7 DEF Elsewhere
<1>8. QED
  BY <1>4, <1>5, <1>6, <1>7

LEMMA AccessHolds == Spec => []AccessInv
<1>1. AccessInv /\ [Next]_vars => AccessInv'
  <2>1. ASSUME AccessInv, UNCHANGED vars PROVE AccessInv'
    BY <2>1 DEF AccessInv, TypeOK, KnownRows, vars, database, identity
  <2>2. QED
    BY <2>1, SessionStep, BrowserStep, MemberStep DEF Next
<1>2. QED
  BY <1>1, InitHolds, PTL DEF Spec

-----------------------------------------------------------------------------
(* Results                                                                 *)

\* The session, the routes, the cache and the members table are of their types.
THEOREM TypeCorrect == Spec => []TypeOK
<1>1. AccessInv => TypeOK
  BY DEF AccessInv
<1>2. QED
  BY <1>1, AccessHolds, PTL

\* Users who take turns at a browser never see each other's organizations.
THEOREM ScreensAreOnesOwn == Spec => []ScreenBelongsToUser
<1>1. AccessInv => ScreenBelongsToUser
  BY ShownIsLoaded DEF AccessInv, KnownRows, ScreenBelongsToUser
<1>2. QED
  BY <1>1, AccessHolds, PTL

\* No organization loses its owners.
THEOREM OwnersStay == Spec => []OwnersStand
<1>1. ASSUME Init PROVE OwnersStand
  <2>1. PICK first \in FirstSeats :
           seats = [u \in Users |-> [o \in Orgs |-> IF o = Buyer THEN first[u] ELSE NoSeat]]
    BY <1>1 DEF Init
  <2>2. PICK u \in Users : first[u] = [role |-> "owner", status |-> "active"]
    OBVIOUS
  <2>3. orgs = 1 /\ 1 \in Orgs /\ seats[u][1] = first[u]
    BY <1>1, <2>1 DEF Init, Buyer, Orgs
  <2>4. QED
    BY <2>2, <2>3 DEF OwnersStand, RoleIn
<1>2. ASSUME TypeOK, OwnersStand, [Next]_vars PROVE OwnersStand'
  <2>1. ASSUME NEW x, NEW u \in Users, NEW o \in Orgs, SetRole(x, u, o) \/ Suspend(x, u, o),
               orgs' = orgs
        PROVE  OwnersStand'
    <3>1. 1 .. orgs \subseteq Orgs
      BY <1>2 DEF TypeOK, Orgs
    <3>2. QED
      BY <1>2, <2>1, <3>1, SeatChanged DEF OwnersStand
  <2>2. ASSUME UNCHANGED <<seats, orgs>> PROVE OwnersStand'
    BY <1>2, <2>2 DEF OwnersStand, RoleIn
  <2>3. CASE AcceptInvitation
    <3>1. PICK me \in Users, new \in Orgs : me = user /\ new = orgs + 1
      BY <1>2, <2>3, UserTyped DEF AcceptInvitation, TypeOK, Orgs
    <3>2. /\ orgs \in Nat /\ 1 .. orgs \subseteq Orgs /\ orgs' = new
          /\ seats' = [seats EXCEPT ![me][new] = [role |-> "owner", status |-> "active"]]
      BY <1>2, <2>3, <3>1 DEF AcceptInvitation, TypeOK, Orgs
    <3>3. RoleIn(me, new)' = "owner"
      BY <1>2, <3>1, <3>2 DEF TypeOK, RoleIn
    <3>4. \A w \in Users, o \in 1 .. orgs : RoleIn(w, o)' = RoleIn(w, o)
      BY <1>2, <3>1, <3>2 DEF TypeOK, RoleIn
    <3>5. ASSUME NEW o \in 1 .. new PROVE (\E w \in Users : RoleIn(w, o) = "owner")'
      <4>1. CASE o = new
        BY <3>3, <4>1
      <4>2. CASE o \in 1 .. orgs
        BY <1>2, <3>4, <4>2 DEF OwnersStand
      <4>3. QED
        BY <3>1, <3>2, <4>1, <4>2 DEF Orgs
    <3>6. QED
      BY <3>2, <3>5 DEF OwnersStand
  <2>4. ASSUME NEW u \in Users, ManageTeam(u) PROVE OwnersStand'
    BY <1>2, <2>1, <2>4, ShownIsLoaded DEF ManageTeam
  <2>5. CASE Elsewhere
    BY <2>1, <2>2, <2>5 DEF Elsewhere
  <2>6. QED
    BY <1>2, <2>2, <2>3, <2>4, <2>5
       DEF Next, vars, database, Open, SessionRead, SignOut, FollowLink, SignIn, SignUp, ResetPassword,
           OpenMail, OpenMailElsewhere, Redirect, Navigate, SelectOrganization, LoadStarts, LoadEnds,
           LoadFails, InviteSupplier
<1>3. QED
  BY <1>1, <1>2, TypeCorrect, PTL DEF Spec
-----------------------------------------------------------------------------
(* Invitations and the organizations they give rise to                     *)

\* The form of the acceptance is only reached by way of a link that was opened.
LinkOpened ==
    page.at = Invitation \/ page.next = Invitation \/ (\E u \in Users : mail[u] = Invitation) =>
        link \in DOMAIN invites

\* Of all the links an address has received, one at most still works.
OneLinkWorks == \A i, j \in With("pending") : invites[i].to = invites[j].to => i = j

LEMMA InvitesTyped ==
    ASSUME TypeOK
    PROVE  /\ Len(invites) \in Nat /\ DOMAIN invites = 1 .. Len(invites)
           /\ \A i \in DOMAIN invites : invites[i] \in Invites
<1>1. invites \in Seq(Invites)
  BY DEF TypeOK, Invites
<1>2. QED
  BY <1>1, LenProperties, ElementOfSeq

\* A new invitation replaces the ones that were open to the same address.
LEMMA InviteReplaces ==
    ASSUME TypeOK, NEW x, NEW u \in Users, Invite(x, u)
    PROVE  /\ DOMAIN invites \subseteq DOMAIN invites'
           /\ \A i \in DOMAIN invites' :
                 \/ i \in DOMAIN invites /\ invites'[i].to = invites[i].to
                    /\ \/ invites'[i].status = invites[i].status
                             /\ (invites[i].status = "pending" => invites[i].to # u)
                       \/ invites[i].status # "accepted" /\ invites'[i].status = "revoked"
                 \/ i = Len(invites) + 1 /\ invites'[i] = [to |-> u, status |-> "pending"]
<1> DEFINE Replaced(i) ==
             IF invites[i].to = u /\ invites[i].status \in {"pending", "lapsed"}
             THEN [invites[i] EXCEPT !.status = "revoked"] ELSE invites[i]
           older == [i \in DOMAIN invites |-> Replaced(i)]
<1>1. invites' = Append(older, [to |-> u, status |-> "pending"])
  BY DEF Invite
<1>2. \A i \in DOMAIN invites : Replaced(i) \in Invites
  BY InvitesTyped DEF Invites
<1>3. older \in [1 .. Len(invites) -> Invites]
  BY <1>2, InvitesTyped
<1>4. older \in Seq(Invites) /\ Len(older) = Len(invites)
  BY <1>3, InvitesTyped, IsASeq, LenProperties
<1>5. [to |-> u, status |-> "pending"] \in Invites
  BY DEF Invites
<1>6. \A i \in DOMAIN invites : older[i] = Replaced(i)
  OBVIOUS
<1>7. \A i \in DOMAIN invites :
         /\ older[i].to = invites[i].to
         /\ \/ older[i].status = invites[i].status /\ (invites[i].status = "pending" => invites[i].to # u)
            \/ invites[i].status # "accepted" /\ older[i].status = "revoked"
  BY <1>6, InvitesTyped DEF Invites
<1> HIDE DEF older
<1>8. /\ DOMAIN invites' = 1 .. Len(invites) + 1
      /\ invites'[Len(invites) + 1] = [to |-> u, status |-> "pending"]
      /\ \A i \in 1 .. Len(invites) : invites'[i] = older[i]
  BY <1>1, <1>4, <1>5, AppendProperties, LenProperties
<1>9. QED
  BY <1>7, <1>8, InvitesTyped

\* What a step does to the invitations, the organizations and their owners.
LEMMA InvitesStep ==
    ASSUME TypeOK, LinkOpened, [Next]_vars
    PROVE  \/ /\ UNCHANGED <<invites, orgs>>
              /\ \A w \in Users, o \in Orgs : RoleIn(w, o) = "owner" => RoleIn(w, o)' = "owner"
           \/ UNCHANGED <<seats, orgs>> /\ \E x, u \in Users : Invite(x, u)
           \/ UNCHANGED <<seats, orgs>> /\ \E i \in With("pending") : invites' = [invites EXCEPT ![i].status = "lapsed"]
           \/ AcceptInvitation
<1> DEFINE OwnersKept == \A w \in Users, o \in Orgs : RoleIn(w, o) = "owner" => RoleIn(w, o)' = "owner"
<1>1. ASSUME UNCHANGED seats PROVE OwnersKept
  BY <1>1 DEF RoleIn
<1>2. ASSUME NEW u \in Users, ManageTeam(u) PROVE OwnersKept /\ UNCHANGED <<invites, orgs>>
  BY <1>2, SeatChanged, ShownIsLoaded DEF ManageTeam
<1>3. ASSUME NEW u \in Users, InviteSupplier(u)
      PROVE  UNCHANGED <<seats, orgs>> /\ \E x, w \in Users : Invite(x, w)
  BY <1>3, ShownIsLoaded DEF InviteSupplier, Buyer
<1>4. ASSUME Elsewhere, UNCHANGED <<orgs, invites>>, \E x, u \in Users, o \in Orgs : SetRole(x, u, o) \/ Suspend(x, u, o)
      PROVE  OwnersKept
  BY <1>4, SeatChanged
<1>5. QED
  BY <1>1, <1>2, <1>3, <1>4
     DEF Next, vars, database, Elsewhere, With, Open, SessionRead, SignOut, FollowLink, SignIn, SignUp, ResetPassword,
         OpenMail, OpenMailElsewhere, Redirect, Navigate, SelectOrganization, LoadStarts, LoadEnds,
         LoadFails

LEMMA LinkOpenedStep == ASSUME TypeOK, LinkOpened, [Next]_vars PROVE LinkOpened'
<1>1. DOMAIN invites \subseteq DOMAIN invites'
  <2>1. ASSUME NEW i, NEW status, invites' = [invites EXCEPT ![i].status = status]
        PROVE  DOMAIN invites \subseteq DOMAIN invites'
    BY <2>1
  <2>2. QED
    BY <2>1, InvitesStep, InviteReplaces DEF AcceptInvitation
<1>2. Invitation \notin Protected \union {"/", "/profile", "/sign-in", "/reset-password", "/organization-required", "/unauthorized", "/auth/callback", "/sign-up", "/sent", "none"}
  BY DEF Invitation, Protected, Shared, BuyerPaths, SupplierPaths
<1>3. ASSUME NEW path \in Destinations, Open(path) PROVE LinkOpened'
  <2>1. CASE path = Invitation
    BY <1>1, <1>3, <2>1 DEF Open, LinkOpened
  <2>2. CASE path # Invitation
    BY <1>1, <1>2, <1>3, <2>2 DEF Open, LinkOpened, At, identity
  <2>3. QED
    BY <2>1, <2>2
<1> DEFINE Aims == page.at = Invitation \/ page.next = Invitation \/ \E u \in Users : mail[u] = Invitation
<1>4. ASSUME Aims' => Aims, UNCHANGED link PROVE LinkOpened'
  BY <1>1, <1>4 DEF LinkOpened
<1>5. ASSUME NEW u \in Users, SignUp(u) \/ ResetPassword(u) \/ OpenMail(u) \/ OpenMailElsewhere(u)
      PROVE  Aims' => Aims
  BY <1>2, <1>5 DEF SignUp, ResetPassword, OpenMail, OpenMailElsewhere, Toward, TypeOK
<1>6. ASSUME NEW u \in Users, SignIn(u) PROVE Aims' => Aims
  BY <1>2, <1>6 DEF SignIn, At, identity
<1>7. CASE FollowLink \/ SignOut
  <2>1. Aims' => Aims
    BY <1>2, <1>7 DEF FollowLink, SignOut, At, Toward, identity
  <2>2. QED
    BY <1>4, <1>7, <2>1 DEF FollowLink, SignOut
<1>8. CASE Redirect
  <2> DEFINE there == AccessDestination(page.at)
  <2>1. there # Invitation /\ there \in {"loading", "/sign-in", "/organization-required", "/unauthorized", "allow"}
    BY <1>2 DEF AccessDestination, Invitation
  <2> HIDE DEF there
  <2>2. CASE page.at \in Protected
    <3>1. Destination \in {Toward("/sign-in", page.at), At(there), page}
      BY <1>2, <2>2 DEF Destination, there, Protected, Shared, BuyerPaths, SupplierPaths
    <3>2. QED
      BY <1>2, <1>4, <1>8, <2>1, <2>2, <3>1 DEF Redirect, At, Toward, identity
  <2>3. CASE page.at = Invitation
    BY <1>4, <1>8, <2>3 DEF Redirect
  <2>4. CASE page.at \notin Protected /\ page.at # Invitation
    <3>1. Destination \in {At(page.next), At("/sign-in"), page}
      BY <2>4 DEF Destination
    <3>2. QED
      BY <1>2, <1>4, <1>8, <3>1 DEF Redirect, At, identity
  <2>5. QED
    BY <2>2, <2>3, <2>4
<1>9. ASSUME NEW path \in Protected, Navigate(path) PROVE Aims' => Aims
  BY <1>2, <1>9 DEF Navigate, At, identity
<1>10. CASE AcceptInvitation
  <2>1. Aims' => Aims
    BY <1>2, <1>10 DEF AcceptInvitation, At, identity
  <2>2. QED
    BY <1>4, <1>10, <2>1 DEF AcceptInvitation
<1>11. ASSUME UNCHANGED <<page, mail, link>> PROVE LinkOpened'
  BY <1>4, <1>11
<1>12. QED
  BY <1>3, <1>4, <1>5, <1>6, <1>7, <1>8, <1>9, <1>10, <1>11
     DEF Next, vars, identity, SessionRead, SignUp, ResetPassword, OpenMail, OpenMailElsewhere, SignIn, Navigate,
         SelectOrganization, LoadStarts, LoadEnds, LoadFails, ManageTeam, InviteSupplier, Elsewhere

\* An acceptance uses up a link that works and makes its reader an owner.
LEMMA AcceptStep ==
    ASSUME TypeOK, LinkOpened, OneOrganizationPerInvitation, AcceptInvitation
    PROVE  OneOrganizationPerInvitation' /\ With("pending")' \subseteq With("pending")
           /\ \A i \in DOMAIN invites' : invites'[i].to = invites[i].to
<1>1. link \in DOMAIN invites /\ invites[link].status = "pending" /\ invites[link].to = user
  BY DEF AcceptInvitation, LinkOpened, Acceptable
<1>2. invites' = [invites EXCEPT ![link].status = "accepted"]
  BY DEF AcceptInvitation
<1>3. /\ DOMAIN invites' = DOMAIN invites
      /\ \A i \in DOMAIN invites : i # link => invites'[i] = invites[i]
      /\ invites'[link].status = "accepted" /\ \A i \in DOMAIN invites : invites'[i].to = invites[i].to
  BY <1>1, <1>2, InvitesTyped DEF Invites
<1>4. With("accepted")' = With("accepted") \union {link} /\ link \notin With("accepted")
  BY <1>1, <1>3 DEF With
<1>5. IsFiniteSet(With("accepted"))
  <2>1. With("accepted") \subseteq 1 .. Len(invites)
    BY InvitesTyped DEF With
  <2>2. IsFiniteSet(1 .. Len(invites))
    BY InvitesTyped, FS_Interval
  <2>3. QED
    BY <2>1, <2>2, FS_Subset
<1>6. Cardinality(With("accepted")') = Cardinality(With("accepted")) + 1
  BY <1>4, <1>5, FS_AddElement
<1>7. /\ user \in Users /\ orgs \in Nat \ {0} /\ orgs + 1 \in Orgs /\ orgs' = orgs + 1
      /\ seats' = [seats EXCEPT ![user] =
                     [seats[user] EXCEPT ![orgs + 1] = [role |-> "owner", status |-> "active"]]]
      /\ seats \in [Users -> [Orgs -> Seats]]
  BY UserTyped, AccessAssumption DEF AcceptInvitation, TypeOK, Orgs
<1>8. ASSUME NEW o \in Orgs, Buyer < o, o <= orgs'
      PROVE  \E i \in With("accepted")' : seats'[invites'[i].to][o].status = "active"
                                          /\ seats'[invites'[i].to][o].role = "owner"
  <2>1. CASE o = orgs + 1
    <3>1. seats'[user][o] = [role |-> "owner", status |-> "active"]
      BY <1>7, <2>1
    <3>2. seats'[invites'[link].to][o] = [role |-> "owner", status |-> "active"]
      BY <1>1, <1>3, <3>1
    <3>3. QED
      BY <1>4, <3>2
  <2>2. CASE o <= orgs
    <3>1. PICK i \in With("accepted") : RoleIn(invites[i].to, o) = "owner"
      BY <1>8, <2>2 DEF OneOrganizationPerInvitation
    <3>2. i \in DOMAIN invites /\ invites'[i].to = invites[i].to /\ invites[i].to \in Users
      BY <1>3, InvitesTyped DEF With, Invites
    <3>3. seats'[invites[i].to][o] = seats[invites[i].to][o]
      BY <1>7, <2>2, <3>2 DEF Orgs
    <3>4. QED
      BY <1>4, <3>1, <3>2, <3>3 DEF RoleIn
  <2>3. QED
    BY <1>7, <1>8, <2>1, <2>2 DEF Orgs
<1>9. Cardinality(With("accepted")') = orgs' - 1
  <2>1. Cardinality(With("accepted")) \in Nat /\ Cardinality(With("accepted")) = orgs - 1
    BY <1>5, FS_CardinalityType DEF OneOrganizationPerInvitation
  <2>2. QED
    BY <1>6, <1>7, <2>1
<1>10. With("pending")' \subseteq With("pending")
  BY <1>3 DEF With
<1>11. OneOrganizationPerInvitation'
  BY <1>8, <1>9 DEF OneOrganizationPerInvitation, RoleIn
<1>12. QED
  BY <1>3, <1>10, <1>11

LEMMA InvitationsInductive ==
    ASSUME TypeOK, LinkOpened, OneOrganizationPerInvitation, OneLinkWorks, [Next]_vars
    PROVE  OneOrganizationPerInvitation' /\ OneLinkWorks'
<1> DEFINE Kept == OneOrganizationPerInvitation' /\ OneLinkWorks'
<1>1. ASSUME With("accepted")' = With("accepted"), orgs' = orgs,
             \A i \in With("accepted") : invites'[i].to = invites[i].to,
             \A w \in Users, o \in Orgs : RoleIn(w, o) = "owner" => RoleIn(w, o)' = "owner"
      PROVE  OneOrganizationPerInvitation'
  <2>1. \A i \in With("accepted") : invites[i].to \in Users
    BY InvitesTyped DEF With, Invites
  <2>2. ASSUME NEW o \in Orgs, Buyer < o, o <= orgs
        PROVE  \E i \in With("accepted") : RoleIn(invites[i].to, o)' = "owner"
    <3>1. PICK i \in With("accepted") : RoleIn(invites[i].to, o) = "owner"
      BY <2>2 DEF OneOrganizationPerInvitation
    <3>2. PICK w \in Users : w = invites[i].to
      BY <2>1
    <3>3. RoleIn(w, o)' = "owner" /\ invites'[i].to = w
      BY <1>1, <3>1, <3>2
    <3>4. QED
      BY <3>3 DEF RoleIn
  <2>3. (Cardinality(With("accepted")) = orgs - 1)'
    BY <1>1 DEF OneOrganizationPerInvitation
  <2>4. QED
    BY <1>1, <2>2, <2>3 DEF OneOrganizationPerInvitation
<1>2. ASSUME UNCHANGED seats
      PROVE  \A w \in Users, o \in Orgs : RoleIn(w, o) = "owner" => RoleIn(w, o)' = "owner"
  BY <1>2 DEF RoleIn
<1>3. ASSUME UNCHANGED <<invites, orgs>>,
             \A w \in Users, o \in Orgs : RoleIn(w, o) = "owner" => RoleIn(w, o)' = "owner"
      PROVE  Kept
  BY <1>1, <1>3 DEF With, OneLinkWorks
<1>4. ASSUME UNCHANGED <<seats, orgs>>, NEW x \in Users, NEW u \in Users, Invite(x, u) PROVE Kept
  <2> DEFINE i0 == Len(invites) + 1
  <2>1. /\ DOMAIN invites \subseteq DOMAIN invites' /\ i0 \notin DOMAIN invites
        /\ \A i \in DOMAIN invites :
              /\ invites'[i].to = invites[i].to
              /\ \/ invites'[i].status = invites[i].status
                        /\ (invites[i].status = "pending" => invites[i].to # u)
                 \/ invites[i].status # "accepted" /\ invites'[i].status = "revoked"
        /\ \A i \in DOMAIN invites' :
              \/ i \in DOMAIN invites
              \/ i = i0 /\ invites'[i].to = u /\ invites'[i].status = "pending"
    <3>1. i0 \notin DOMAIN invites
      BY InvitesTyped
    <3>2. /\ DOMAIN invites \subseteq DOMAIN invites'
          /\ \A i \in DOMAIN invites' :
                \/ i \in DOMAIN invites /\ invites'[i].to = invites[i].to
                   /\ \/ invites'[i].status = invites[i].status
                            /\ (invites[i].status = "pending" => invites[i].to # u)
                      \/ invites[i].status # "accepted" /\ invites'[i].status = "revoked"
                \/ i = i0 /\ invites'[i] = [to |-> u, status |-> "pending"]
      BY <1>4, InviteReplaces
    <3> HIDE DEF i0
    <3>3. QED
      BY <3>1, <3>2
  <2> HIDE DEF i0
  <2>2. /\ With("accepted")' = With("accepted") /\ \A i \in With("accepted") : invites'[i].to = invites[i].to
        /\ \A i \in With("pending")' :
              \/ i = i0 /\ invites'[i].to = u
              \/ i \in With("pending") /\ invites'[i].to = invites[i].to /\ invites[i].to # u
    <3>1. \A i : i \in With("accepted") => i \in With("accepted")' /\ invites'[i].to = invites[i].to
      BY <2>1 DEF With
    <3>2. \A i : i \in With("accepted")' => i \in With("accepted")
      BY <2>1 DEF With
    <3>3. \A i \in With("pending")' :
             \/ i = i0 /\ invites'[i].to = u
             \/ i \in With("pending") /\ invites'[i].to = invites[i].to /\ invites[i].to # u
      BY <2>1 DEF With
    <3>4. QED
      BY <3>1, <3>2, <3>3
  <2>3. OneLinkWorks'
    BY <2>2 DEF OneLinkWorks
  <2>4. QED
    BY <1>1, <1>2, <1>4, <2>2, <2>3
<1>5. ASSUME UNCHANGED <<seats, orgs>>, NEW i \in With("pending"), invites' = [invites EXCEPT ![i].status = "lapsed"]
      PROVE  Kept
  <2>1. /\ DOMAIN invites' = DOMAIN invites /\ invites[i].status = "pending"
        /\ \A k \in DOMAIN invites : k # i => invites'[k] = invites[k]
        /\ invites'[i].status = "lapsed" /\ \A k \in DOMAIN invites : invites'[k].to = invites[k].to
    BY <1>5, InvitesTyped DEF With, Invites
  <2>2. With("accepted")' = With("accepted") /\ \A k \in With("accepted") : invites'[k].to = invites[k].to
    BY <2>1 DEF With
  <2>3. OneLinkWorks'
    BY <2>1 DEF OneLinkWorks, With
  <2>4. QED
    BY <1>1, <1>2, <1>5, <2>2, <2>3
<1>6. CASE AcceptInvitation
  <2>1. OneLinkWorks'
    BY <1>6, AcceptStep DEF OneLinkWorks, With
  <2>2. QED
    BY <1>6, <2>1, AcceptStep
<1>7. QED
  BY <1>3, <1>4, <1>5, <1>6, InvitesStep

LEMMA InvitationsHold == Spec => [](LinkOpened /\ OneOrganizationPerInvitation /\ OneLinkWorks)
<1>1. ASSUME Init PROVE LinkOpened /\ OneOrganizationPerInvitation /\ OneLinkWorks
  <2>1. DOMAIN invites = {} /\ orgs = 1
    BY <1>1 DEF Init, Buyer
  <2>2. With("accepted") = {} /\ With("pending") = {}
    BY <2>1 DEF With
  <2>3. OneOrganizationPerInvitation /\ OneLinkWorks
    BY <2>1, <2>2, FS_EmptySet DEF OneOrganizationPerInvitation, OneLinkWorks, Buyer, Orgs
  <2>4. LinkOpened
    BY <1>1 DEF Init, LinkOpened, At, Invitation
  <2>5. QED
    BY <2>3, <2>4
<1>2. QED
  BY <1>1, LinkOpenedStep, InvitationsInductive, TypeCorrect, PTL DEF Spec

\* Invitations sent again, expired, opened in turn by several users of a browser:
\* each gives rise to one organization at most, and no supplier has another
\* origin.
THEOREM OriginOfOrganizations == Spec => []OneOrganizationPerInvitation
BY InvitationsHold, PTL

\* Of all the links an address has received, one at most still works.
THEOREM LatestLinkOnly == Spec => []OneLinkWorks
BY InvitationsHold, PTL
=============================================================================
