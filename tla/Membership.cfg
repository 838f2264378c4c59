SPECIFICATION Spec
CONSTANTS
    u1 = u1
    u2 = u2
    o1 = o1
    o2 = o2
    r1 = r1
    r2 = r2
    Users <- MCUsers
    Orgs <- MCOrgs
    Requests <- MCRequests
    MaxRequests = 4
    MaxInvites = 2
SYMMETRY Symmetry
INVARIANTS KeepsAnOwner OneSignup
PROPERTIES DisabledStaysOut
\* After the last request there may be nothing left to do.
CHECK_DEADLOCK FALSE
