SPECIFICATION FairSpec
CONSTANTS
    boss = boss
    guest = guest
    NoUser = NoUser
    Users <- TheUsers
    FirstSeats <- TheFirstSeats
    Destinations = {"/", "/invitations/accept"}
    MaxOrgs = 3
    MaxInvites = 1
INVARIANTS
    OneOrganizationPerInvitation
    ScreenBelongsToUser
    OwnersStand
PROPERTIES
    SuspendedMemberLeaves
