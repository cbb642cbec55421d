CONSTANTS
    m1 = m1  m2 = m2  m3 = m3  c1 = c1  c2 = c2  r1 = r1
    Mailboxes = {m1, m2, m3}  NoMailbox = NoMailbox  Unwritten = Unwritten
    Clients = {c1, c2}
    ProvisioningRequests = {r1}  NoProvisioning = NoProvisioning
    Accesses = {"READ"}
    MaxChanges = 4
SPECIFICATION Spec
INVARIANTS OneIdentity AppliedAsStated
SYMMETRY Symmetry
CHECK_DEADLOCK FALSE
