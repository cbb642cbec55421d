CONSTANTS
    s1 = s1  w1 = w1  w2 = w2
    Sends = {s1}  NoSend = NoSend
    Workers = {w1, w2}
    SendTimes = {0, 1}
    ClaimTTL = 2
    Take = 1
    MaxClock = 6
SPECIFICATION FairSpec
INVARIANTS TypeOK CancelledNeverLeaves OneHolder
PROPERTIES TerminalIsFinal SettlesEventually
CHECK_DEADLOCK FALSE
