CONSTANTS
    i1 = i1  i2 = i2  t1 = t1  t2 = t2  w1 = w1  u1 = u1
    Snoozes = {i1, i2}  NoSnooze = NoSnooze
    Threads = {t1, t2}  NoThread = NoThread
    Workers = {w1}
    Unsnoozers = {u1}
    SnoozeTimes = {0, 1}
    Take = 2
    MaxClock = 1
    MaxGone = 1
    MaxFaults = 1
SPECIFICATION FairSpec
INVARIANTS TypeOK HiddenHasWayBack
PROPERTIES CancelledIsFinal HiddenComesBack
CHECK_DEADLOCK FALSE
