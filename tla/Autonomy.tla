------------------------------ MODULE Autonomy ------------------------------
(***************************************************************************)
(* The pure decision behind every agent-initiated compose: does a          *)
(* requested send leave on its own, or is it staged for a human?           *)
(* Translated from backend/src/email/autonomy.ts (the gate and the matrix) *)
(* and from EmailService.buildAgentComposeContext (the facts it reads).    *)
(*                                                                         *)
(* An address is a record [box, domain]; recipients are a sequence because *)
(* the code counts list entries, a repeated address included.  An agent is *)
(* a registry row; an unregistered provenance is the row Unregistered.     *)
(***************************************************************************)
EXTENDS Naturals, FiniteSets, SequencesExt

Level == {"L0", "L1", "L2"}

\* The row the gate sees when no active registered agent has the key.
Unregistered ==
    [level |-> "none", paused |-> FALSE, active |-> FALSE,
     requireExternal |-> FALSE, domains |-> {}]

Registered(agent) == agent.level # "none"

\* A bound larger external batches need a human for.
MAX_ROUTINE_EXTERNAL_RECIPIENTS == 5

\* With no internal domains defined everything is external.
IsExternalRecipient(addr, domains) ==
    domains = {} \/ addr.domain \notin domains

\* The positions of the external entries of a recipient list.
ExternalAt(recipients, domains) ==
    {i \in DOMAIN recipients : IsExternalRecipient(recipients[i], domains)}

ExternalOf(recipients, domains) ==
    {recipients[i] : i \in ExternalAt(recipients, domains)}

\* ADDRESS scope trusts one address, DOMAIN scope everyone at a domain.
TrustedBy(trust, addr) ==
    addr \in trust.addresses \/ addr.domain \in trust.domains

Decision(mode, coerced, codes) ==
    [mode |-> mode, coerced |-> coerced, codes |-> codes]

Send == Decision("send", FALSE, {})

Hold(codes) == Decision("draft", TRUE, codes)

-----------------------------------------------------------------------------
(***************************************************************************)
(* The base gate.                                                          *)
(***************************************************************************)
DecideComposeMode(wants, agent, to, trustedSource) ==
    CASE wants = "draft" -> Decision("draft", FALSE, {})
      [] wants = "send" /\ ~Registered(agent) ->
            IF trustedSource THEN Send ELSE Hold({"untrusted-source"})
      [] wants = "send" /\ Registered(agent) ->
            IF \/ agent.level # "L2"
               \/ agent.requireExternal /\ IsExternalRecipient(to, agent.domains)
            THEN Hold({"autonomy-dial"})
            ELSE Send

(***************************************************************************)
(* The matrix: what holds back a registered agent's requested send.        *)
(***************************************************************************)

\* Mutant: the bound on external recipients is off by one.
RoutineMissesOffByOne(ctx) ==
    LET external == ExternalAt(ctx.recipients, ctx.domains)
    IN  (IF ctx.enabled THEN {} ELSE {"autonomous-send-disabled"})
        \cup (IF ctx.inThread THEN {} ELSE {"cold-outbound"})
        \cup (IF ctx.attachments = 0 THEN {} ELSE {"attachment"})
        \cup (IF Cardinality(external) < MAX_ROUTINE_EXTERNAL_RECIPIENTS
              THEN {} ELSE {"bulk-external"})
        \cup (IF \A i \in external : ctx.recipients[i] \in ctx.trusted
              THEN {} ELSE {"first-contact"})

RoutineMisses(ctx) ==
    LET external == ExternalAt(ctx.recipients, ctx.domains)
    IN  (IF ctx.enabled THEN {} ELSE {"autonomous-send-disabled"})
        \cup (IF ctx.inThread THEN {} ELSE {"cold-outbound"})
        \cup (IF ctx.attachments = 0 THEN {} ELSE {"attachment"})
        \cup (IF Cardinality(external) <= MAX_ROUTINE_EXTERNAL_RECIPIENTS
              THEN {} ELSE {"bulk-external"})
        \cup (IF \A i \in external : ctx.recipients[i] \in ctx.trusted
              THEN {} ELSE {"first-contact"})

\* Mutant: L0 is left to fall through to the L2 rules.
MatrixHoldsNoL0(agent, ctx) ==
    LET external == ExternalAt(ctx.recipients, ctx.domains)
    IN  CASE ctx.mailboxClass # "agent" -> {"class-a-mailbox"}
          [] ctx.mailboxClass = "agent" /\ agent.level = "L1" ->
                IF external = {} THEN {} ELSE {"l1-external"}
          [] OTHER ->
                IF external = {} THEN {}
                ELSE IF agent.requireExternal THEN {"l2-external-policy"}
                ELSE RoutineMisses(ctx)

MatrixHolds(agent, ctx) ==
    LET external == ExternalAt(ctx.recipients, ctx.domains)
    IN  CASE ctx.mailboxClass # "agent" -> {"class-a-mailbox"}
          [] ctx.mailboxClass = "agent" /\ agent.level = "L0" -> {"l0-draft-only"}
          [] ctx.mailboxClass = "agent" /\ agent.level = "L1" ->
                IF external = {} THEN {} ELSE {"l1-external"}
          [] OTHER ->
                IF external = {} THEN {}
                ELSE IF agent.requireExternal THEN {"l2-external-policy"}
                ELSE RoutineMisses(ctx)

DecideAgentComposeMode(wants, agent, to, trustedSource, ctx) ==
    IF ~Registered(agent) \/ wants = "draft"
    THEN DecideComposeMode(wants, agent, to, trustedSource)
    ELSE IF MatrixHolds(agent, ctx) = {} THEN Send
         ELSE Hold(MatrixHolds(agent, ctx))

-----------------------------------------------------------------------------
(***************************************************************************)
(* The context the service builds for a registered agent's send.           *)
(*                                                                         *)
(* A request names its mailbox ([kind, linked], kind "none" when nothing   *)
(* resolved, linked saying that an active agent is bound to it), the       *)
(* senders of the messages received in the thread it answers (inbound),    *)
(* the sender the runtime attests (a set with at most one address), and    *)
(* whether it names a thread at all.                                       *)
(***************************************************************************)
MailboxClass(mailbox) ==
    CASE mailbox.kind = "none" -> "unknown"
      [] mailbox.kind = "AGENT" -> "agent"
      [] OTHER -> IF mailbox.linked THEN "agent" ELSE "user"

BuildAgentComposeContext(req, agent, workspaceDomains, trust, enabled) ==
    LET domains  == workspaceDomains \cup agent.domains
        external == ExternalOf(req.recipients, domains)
    IN  [mailboxClass |-> MailboxClass(req.mailbox),
         domains      |-> domains,
         recipients   |-> req.recipients,
         inThread     |-> /\ req.thread
                          /\ external \cap (req.attested \cup req.inbound) # {},
         attachments  |-> req.attachments,
         trusted      |-> {a \in ToSet(req.recipients) : TrustedBy(trust, a)},
         enabled      |-> enabled]

\* A lookup error leaves a Class-A context, which always stages.
FailSafeContext(req, enabled) ==
    [mailboxClass |-> "unknown", domains |-> {}, recipients |-> req.recipients,
     inThread |-> FALSE, attachments |-> req.attachments, trusted |-> {},
     enabled |-> enabled]

\* The gate as composeEmail calls it.
ComposeDecision(req, agent, workspaceDomains, trust, enabled) ==
    DecideAgentComposeMode(req.wants, agent, req.recipients[1], req.trustedSource,
        BuildAgentComposeContext(req, agent, workspaceDomains, trust, enabled))
=============================================================================
