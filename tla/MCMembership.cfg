\* Two people and two devices of each, three invitations; the same two and two
\* administrators, three requests.
CONSTANTS
    Users = {u1, u2}
    NoUser = NoUser
    Devices = {d1, d2}
    Invitations = {i1, i2, i3}
    NoInvitation = NoInvitation
    Admins = {a1, a2}
    Requests = {r1, r2, r3}
    NoRequest = NoRequest
SYMMETRY Interchangeable
SPECIFICATION MembershipSpec
INVARIANTS
    JoinsAreInvited
    
CHECK_DEADLOCK FALSE
