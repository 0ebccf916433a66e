SPECIFICATION Spec
CONSTANTS
    boss = boss
    guest = guest
    NoUser = NoUser
    Users <- TheUsers
    FirstSeats <- TheFirstSeats
    Destinations = {"/", "/invitations/accept"}
    MaxOrgs = 2
    MaxInvites = 1
INVARIANT InvitationResumes
