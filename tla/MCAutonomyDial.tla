--------------------------- MODULE MCAutonomyDial ---------------------------
(* One colleague inside the workspace's domain, two customers outside it. *)
EXTENDS AutonomyDial

ann == [box |-> "ann", domain |-> "in"]
xia == [box |-> "xia", domain |-> "out"]
yan == [box |-> "yan", domain |-> "out"]

Row(level, external, domains) ==
    [level |-> level, paused |-> FALSE, active |-> TRUE,
     requireExternal |-> external, domains |-> domains]

mcDialRows ==
    {Unregistered}
    \cup {Row(l, e, {}) : l \in Level, e \in BOOLEAN}
    \cup {Row("L2", FALSE, {"in"}), Row("L1", FALSE, {"in"})}

mcRecipientLists ==
    {<<ann>>, <<xia>>, <<ann, xia>>, <<xia, yan>>, [i \in 1..5 |-> xia],
     [i \in 1..6 |-> xia]}

mcInbounds == {{}, {ann}, {xia}}
mcAttestations == {{}, {xia}}

mcMailboxes ==
    {[kind |-> "none", linked |-> FALSE], [kind |-> "HUMAN", linked |-> FALSE],
     [kind |-> "SHARED", linked |-> TRUE], [kind |-> "AGENT", linked |-> FALSE]}

mcDomainSets == {{}, {"in"}}

mcTrustTables ==
    [addresses : {{}, {xia}, {ann, xia}}, domains : {{}, {"out"}}]
=============================================================================
