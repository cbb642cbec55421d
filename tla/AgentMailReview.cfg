CONSTANTS
    a1 = a1  r1 = r1  r2 = r2  r3 = r3  v1 = v1  v2 = v2  c1 = c1  c2 = c2
    Refs = {r1, r2}  NoRef = NoRef
    Agents = {a1}  NoAgent = NoAgent
    Callers = {c1, c2}  Reviewers = {v1, v2}  Shared = Shared
    Request <- mcReview
    AgentRows <- mcRows
    WorkspaceDomains <- mcDomains
    TrustTargets <- mcTrustXia
    SendEnabled = TRUE
    MaxCopies = 1
SPECIFICATION Spec
INVARIANTS HeldMailNeedsItsReviewer VerdictsAreTrue
PROPERTIES FirstContactNeedsHuman
SYMMETRY SymmetricCallers
