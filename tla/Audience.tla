------------------------------ MODULE Audience ------------------------------
(***************************************************************************)
(* Who a broadcast campaign reaches: the predicate that previewAudience     *)
(* counts, the two INSERT ... SELECT passes of materializeRecipients, and   *)
(* the projection that the launch cap makes of them (campaign.service.ts,  *)
(* routes/broadcast-campaigns.routes.ts).                                  *)
(*                                                                         *)
(* A CRM state is a record: the chat of each contact (the most recent      *)
(* dialog on the campaign's channel), the contacts whose dialogs are all   *)
(* closed, the suppression list and what channel_users says of a VK peer:  *)
(* no row, a row that its first message made (opted_in DEFAULT true), a    *)
(* message_allow, or an opt-out.  Service and recency make a filter, which *)
(* is here the set of contacts it admits.                                  *)
(***************************************************************************)
EXTENDS Integers, FiniteSets

CONSTANTS
    Contacts,       \* contacts.id, ordered as uuids are
    Peers,          \* external_chat_id values
    NoPeer,         \* no dialog on the channel; '' in an exclusion row
    NoFilter        \* audience_filter IS NULL: the legacy all-Telegram audience

ASSUME AudienceAssumption ==
    /\ Contacts \subseteq Nat /\ IsFiniteSet(Contacts)
    /\ NoPeer \notin Peers

Crm == [chat : [Contacts -> Peers \cup {NoPeer}], closed : SUBSET Contacts,
        suppressed : SUBSET Contacts,
        consent : [Peers -> {"none", "wrote", "allowed", "denied"}]]

Segment(filter) == IF filter = NoFilter THEN Contacts ELSE filter

\* VK only: EXISTS (channel_users ... opted_in AND opted_out_at IS NULL)
Consents(crm, channel, c) ==
    channel = "vk" => crm.chat[c] # NoPeer /\ crm.consent[crm.chat[c]] \in {"wrote", "allowed"}

Deliverable(crm, channel, c) ==
    /\ crm.chat[c] # NoPeer
    /\ c \notin crm.suppressed
    /\ Consents(crm, channel, c)

-----------------------------------------------------------------------------
(* What the operator is shown, and what the launch cap counts. *)

\* count(DISTINCT c.id) over buildAudienceWhere
PreviewCount(crm, channel, filter) ==
    Cardinality({c \in Segment(filter) : Deliverable(crm, channel, c)})

\* Without a filter the cap has a query of its own, which leaves closed dialogs
\* out; materialization does not.
ProjectedCount(crm, channel, filter) ==
    IF filter # NoFilter THEN PreviewCount(crm, channel, filter)
    ELSE Cardinality({c \in Contacts :
             crm.chat[c] # NoPeer /\ c \notin crm.closed /\ c \notin crm.suppressed})

-----------------------------------------------------------------------------
(* Materialization. A header has channel, testMode, allowed and filter.      *)

Gateless(h, c) == c \in Segment(h.filter)           \* mutant
\* (NOT mc.test_mode OR c.id = ANY(mc.allowed_contact_ids)) AND service AND recency
InScope(h, c) == c \in Segment(h.filter) /\ (h.testMode => c \in h.allowed)

Targets(crm, h) == {c \in Contacts : InScope(h, c) /\ Deliverable(crm, h.channel, c)}

\* VK: DISTINCT ON (conv.external_chat_id) ... ORDER BY conv.external_chat_id, c.id
Picks(crm, h) ==
    {c \in Targets(crm, h) :
        h.channel = "vk" => \A d \in Targets(crm, h) : crm.chat[d] = crm.chat[c] => c <= d}

OnlyWithChat(crm, h) ==                             \* mutant
    {c \in Contacts : InScope(h, c) /\ crm.chat[c] # NoPeer /\ ~Deliverable(crm, h.channel, c)}
\* Pass 2 takes every contact in scope that the predicate of pass 1 leaves out.
Exclusions(crm, h) == {c \in Contacts : InScope(h, c) /\ ~Deliverable(crm, h.channel, c)}

\* CASE WHEN ... 'no_chat' ... 'suppressed' ... ELSE 'not_opted_in'
Reason(crm, c) ==
    CASE crm.chat[c] = NoPeer -> "no_chat"
      [] crm.chat[c] # NoPeer /\ c \in crm.suppressed -> "suppressed"
      [] crm.chat[c] # NoPeer /\ c \notin crm.suppressed -> "not_opted_in"

Reasons == {"no_chat", "suppressed", "not_opted_in"}
=============================================================================
