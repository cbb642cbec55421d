CONSTANTS
    m1 = m1  m2 = m2  d1 = d1  d2 = d2
    Messages = {m1, m2}  NoMessage = NoMessage
    Threads = {"t1"}
    ThreadOf <- mcThreadOf
    AddressOf <- mcAddressOf
    DomainOf <- mcDomainOf
    Kind <- mcKind
    Rules = {1, 2}
    RuleBody <- mcRuleBody
    Drafters = {d1, d2}
    Limit = 2
    ThreadCap = 1
    MailboxCap = 2
    MaxClock = 3
    MaxEdits = 1
    MaxFaults = 1
SPECIFICATION FairSpec
INVARIANTS TypeOK AnsweredOnce CapsHoldButForRaces SkipsHaveACause
PROPERTIES CatchesUp
CHECK_DEADLOCK FALSE
