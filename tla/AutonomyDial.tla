---------------------------- MODULE AutonomyDial ----------------------------
(***************************************************************************)
(* The facts the compose gate depends on, and the knobs that move them:    *)
(* the registry row (AgentsService.updateAgent), the workspace's domains   *)
(* and trusted correspondents, the deployment's autonomous-send switch,    *)
(* and the request itself.  Every step moves exactly one knob, so a step   *)
(* property compares the gate before and after one change.                 *)
(***************************************************************************)
EXTENDS Autonomy

CONSTANTS
    DialRows,       \* registry rows, Unregistered among them
    RecipientLists, \* what a request may be addressed to
    Inbounds,       \* sets of senders seen in the thread
    Attestations,   \* senders the runtime attests: {} or a singleton
    Mailboxes,      \* sending mailboxes, [kind, linked]
    DomainSets,     \* the workspace's MailDomain rows
    TrustTables     \* [addresses, domains]

\* A request has a recipient; an agent's row has a level of its own.
ASSUME DialAssumption ==
    /\ \A row \in DialRows \ {Unregistered} :
           row.level \in Level /\ row.requireExternal \in BOOLEAN
    /\ Mailboxes \subseteq [kind : {"none", "AGENT", "HUMAN", "SHARED"}, linked : BOOLEAN]

VARIABLES req, agent, workspaceDomains, trustTable, enabled

knobs == <<req, agent, workspaceDomains, trustTable, enabled>>

RequestRows ==
    [wants : {"send", "draft"}, trustedSource : BOOLEAN,
     recipients : RecipientLists, attachments : 0..1, thread : BOOLEAN,
     inbound : Inbounds, attested : Attestations, mailbox : Mailboxes]

DialTypeOK ==
    /\ req \in RequestRows
    /\ agent \in DialRows
    /\ workspaceDomains \in DomainSets
    /\ trustTable \in TrustTables
    /\ enabled \in BOOLEAN

DialInit == DialTypeOK

MoveDial == agent' \in DialRows /\ UNCHANGED <<req, workspaceDomains, trustTable, enabled>>

MoveDomains == workspaceDomains' \in DomainSets /\ UNCHANGED <<req, agent, trustTable, enabled>>

MoveTrust == trustTable' \in TrustTables /\ UNCHANGED <<req, agent, workspaceDomains, enabled>>

FlipSwitch == enabled' = ~enabled /\ UNCHANGED <<req, agent, workspaceDomains, trustTable>>

ChangeRequest ==
    /\ \/ \E n \in 0..1 : req' = [req EXCEPT !.attachments = n]
       \/ \E b \in BOOLEAN : req' = [req EXCEPT !.thread = b]
       \/ \E s \in Inbounds : req' = [req EXCEPT !.inbound = s]
       \/ \E s \in Attestations : req' = [req EXCEPT !.attested = s]
       \/ \E m \in Mailboxes : req' = [req EXCEPT !.mailbox = m]
    /\ UNCHANGED <<agent, workspaceDomains, trustTable, enabled>>

DialNext == MoveDial \/ MoveDomains \/ MoveTrust \/ FlipSwitch \/ ChangeRequest

DialSpec == DialInit /\ [][DialNext]_knobs

-----------------------------------------------------------------------------
Verdict == ComposeDecision(req, agent, workspaceDomains, trustTable, enabled).mode

Rank(level) == CASE level = "L0" -> 0 [] level = "L1" -> 1 [] level = "L2" -> 2

\* What the step leaves in place or makes stricter, knob by knob.
AgentNoLooser ==
    \/ agent' = agent
    \/ /\ Registered(agent) /\ Registered(agent')
       /\ Rank(agent'.level) <= Rank(agent.level)
       /\ agent.requireExternal => agent'.requireExternal
       /\ agent'.domains = agent.domains

TrustNoLooser ==
    /\ trustTable'.addresses \subseteq trustTable.addresses
    /\ trustTable'.domains \subseteq trustTable.domains

RequestNoLooser ==
    /\ req'.attachments >= req.attachments
    /\ req'.thread => req.thread
    /\ req'.inbound \subseteq req.inbound
    /\ req'.attested \subseteq req.attested
    /\ MailboxClass(req'.mailbox) = "agent" => MailboxClass(req.mailbox) = "agent"

(***************************************************************************)
(* Turning any knob the stricter way (a lower level, a recipient policy,   *)
(* less trust, the switch off, an attachment, less proof of an ongoing     *)
(* conversation, a human's mailbox) never turns a held compose into one    *)
(* that leaves: autonomy.ts, "the per-agent dial can only make sends MORE  *)
(* gated, never less".                                                     *)
(***************************************************************************)
StricterNeverReleases ==
    [][ (/\ AgentNoLooser /\ TrustNoLooser /\ RequestNoLooser
         /\ workspaceDomains' = workspaceDomains
         /\ enabled' => enabled
         /\ Verdict = "draft")
        => Verdict' = "draft" ]_knobs

(***************************************************************************)
(* The gate is the matrix the product publishes (frontend/app/help/page,   *)
(* "The matrix" and "Routine means all of the following"): the code's      *)
(* cascade of early returns computes that table for every registered       *)
(* agent's requested send.                                                 *)
(***************************************************************************)
PublishedMatrix ==
    LET domains  == workspaceDomains \cup agent.domains
        outside  == {i \in DOMAIN req.recipients :
                        domains = {} \/ req.recipients[i].domain \notin domains}
        outsiders == {req.recipients[i] : i \in outside}
        ownBox   == \/ req.mailbox.kind = "AGENT"
                    \/ req.mailbox.kind \in {"HUMAN", "SHARED"} /\ req.mailbox.linked
        routine  == /\ req.thread
                    /\ \E a \in outsiders : a \in req.inbound \/ a \in req.attested
                    /\ \A a \in outsiders : a \in trustTable.addresses \/ a.domain \in trustTable.domains
                    /\ req.attachments = 0
                    /\ Cardinality(outside) <= 5
                    /\ enabled
    IN  (req.wants = "send" /\ agent \in DialRows \ {Unregistered}) =>
            (Verdict = "send" <=>
                /\ ownBox
                /\ \/ outside = {} /\ agent.level \in {"L1", "L2"}
                   \/ /\ outside # {} /\ agent.level = "L2"
                      /\ ~agent.requireExternal /\ routine)
=============================================================================
