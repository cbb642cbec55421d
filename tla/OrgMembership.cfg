CONSTANTS
    a = a  b = b  c = c  q1 = q1  q2 = q2  k1 = k1  s1 = s1  n1 = n1
    Users = {a, b, c}  NoUser = NoUser  Founder = a  AllowListed = {c}
    Requests = {q1, q2}  NoRequest = NoRequest
    Clerks = {s1}
    Acceptances = {k1}
    Invites = {n1}  NoInvite = NoInvite
    InviteRoles = {"OWNER"}  SeedRoles = {"MEMBER", "OWNER"}  Invitees = {b}
    Patches <- MCPatches
SPECIFICATION Spec
INVARIANTS TypeOK OwnersKept
PROPERTIES ClosedStaysClosed
SYMMETRY Symmetry
CHECK_DEADLOCK FALSE
