CONSTANTS
    DialRows <- mcDialRows
    RecipientLists <- mcRecipientLists
    Inbounds <- mcInbounds
    Attestations <- mcAttestations
    Mailboxes <- mcMailboxes
    DomainSets <- mcDomainSets
    TrustTables <- mcTrustTables
SPECIFICATION DialSpec
INVARIANTS PublishedMatrix
PROPERTIES StricterNeverReleases
