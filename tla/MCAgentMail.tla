---------------------------- MODULE MCAgentMail -----------------------------
(* Requests and registry rows of the AgentMail runs. *)
EXTENDS AgentMail

CONSTANTS a1, r1, r2, r3, v1, v2, c1, c2

xia == [box |-> "xia", domain |-> "out"]

L(level) == [level |-> level, paused |-> FALSE, active |-> TRUE,
             requireExternal |-> FALSE, domains |-> {}]

AgentBox == [kind |-> "AGENT", owner |-> Shared, linkedTo |-> {a1}]
OwnBox(v) == [kind |-> "HUMAN", owner |-> v, linkedTo |-> {}]

Ask(wants, key, to, inbound, box) ==
    [wants |-> wants, key |-> key, trustedSource |-> key = NoAgent,
     recipients |-> <<to>>, attachments |-> 0, thread |-> inbound # {},
     inbound |-> inbound, attested |-> {}, box |-> box]

\* An agent writes to a customer out of the blue, then answers the customer;
\* a person sends from their own mailbox.
mcOutreach == [r \in Refs |->
    CASE r = r1 -> Ask("send", a1, xia, {}, AgentBox)
      [] r = r2 -> Ask("send", a1, xia, {xia}, AgentBox)
      [] OTHER  -> Ask("send", NoAgent, xia, {}, OwnBox(v1))]

\* An agent answers a customer by itself, and prepares a draft to the same
\* customer in a person's own mailbox.
mcReview == [r \in Refs |->
    IF r = r1 THEN Ask("send", a1, xia, {xia}, AgentBox)
              ELSE Ask("draft", a1, xia, {}, OwnBox(v1))]

mcL2 == {L("L2")}
mcRows == {L("L1"), L("L2")}

mcDomains == {"in"}
mcNoTrust == {}
mcTrustXia == {[addresses |-> {xia}, domains |-> {}]}

SymmetricCallers == Permutations(Callers)

Symmetric == Permutations(Callers) \cup Permutations(Reviewers)
=============================================================================
