CONSTANTS
    a1 = a1  r1 = r1  r2 = r2  r3 = r3  v1 = v1  v2 = v2  c1 = c1  c2 = c2
    Refs = {r1, r2, r3}  NoRef = NoRef
    Agents = {a1}  NoAgent = NoAgent
    Callers = {c1, c2}  Reviewers = {v1}  Shared = Shared
    Request <- mcOutreach
    AgentRows <- mcL2
    WorkspaceDomains <- mcDomains
    TrustTargets <- mcNoTrust
    SendEnabled = TRUE
    MaxCopies = 2
SPECIFICATION Spec
INVARIANTS TypeOK SendLaneOnce AutonomousSendsAudited
SYMMETRY Symmetric
PROPERTIES KeepsSendLane
