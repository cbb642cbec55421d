CONSTANTS
    m1 = m1  a1 = a1  a2 = a2  a3 = a3  h1 = h1  h2 = h2
    Msgs = {m1}
    Attempts = {a1, a2, a3}
    NoAttempt = NoAttempt
    MessageOf <- mcMessageOf
    Events <- mcEvents
    NoId = NoId
    Handlers = {h1, h2}
    MaxBatch = 2
SPECIFICATION WebhookSpec
INVARIANTS WebhookTypeOK StatusIsWitnessed
PROPERTIES RegressesOnlyOnStaleRead
SYMMETRY Symmetric
CHECK_DEADLOCK FALSE
