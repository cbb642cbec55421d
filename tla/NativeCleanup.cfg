CONSTANTS
    i1 = i1  i2 = i2  t1 = t1  t2 = t2  r1 = r1  r2 = r2  l1 = l1
    Items = {i1, i2}  NoItem = NoItem
    Threads = {t1, t2}
    ThreadsOf <- mcThreadsOf
    Target <- mcTarget
    Callers = {r1, r2}
    Readers = {l1}
    Legacy = {i1}
    Take = 1
    Interval = 0
    MaxClock = 2
    Filed <- mcFiled
    MaxFilings = 1
    MaxFaults = 1
SPECIFICATION Spec
SYMMETRY Symmetry
INVARIANTS TypeOK VerdictMatchesMail
PROPERTIES PayloadIsMerged
CHECK_DEADLOCK FALSE
