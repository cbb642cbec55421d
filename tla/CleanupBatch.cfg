CONSTANTS
    m1 = m1  m2 = m2  b1 = b1  b2 = b2  a1 = a1  a2 = a2  u1 = u1  s1 = s1
    Messages = {m1, m2}
    Batches = {b1, b2}
    Plan <- MCPlan
    Deletes = {b1}
    Attempts = {a1, a2}  NoAttempt = NoAttempt  NoBatch = NoBatch
    Undoers = {u1}
    Sweepers = {s1}
SPECIFICATION Spec
SYMMETRY Symmetry
INVARIANTS TypeOK DeletedIsUndoable DeletedIsArchived LiveArchiveIsThere UndoneIsBack
CHECK_DEADLOCK FALSE
