--------------------------- MODULE CampaignLaunch ---------------------------
(***************************************************************************)
(* The life of one broadcast campaign before and beside its delivery: the  *)
(* edit of a draft, go-live, POST /:id/dispatch with its five separate     *)
(* database steps, the status change of the CRM page, and materialization, *)
(* one READ COMMITTED transaction whose two passes each see the CRM as it  *)
(* is when they run (routes/broadcast-campaigns.routes.ts,                 *)
(* broadcast/campaign.service.ts, campaign.service.ts).                    *)
(*                                                                         *)
(* Requests run concurrently and die at any await; the CRM changes under   *)
(* them.  What the delivery engine does with the rows is BroadcastDelivery. *)
(***************************************************************************)
EXTENDS Audience

CONSTANTS
    Requests,       \* concurrent POST /:id/dispatch requests
    Contents,       \* values of broadcast_payload
    None,           \* no payload in a body, no pending status change
    Drafts,         \* the audiences an operator composes: channel, filter, allowed
    Labels,         \* what the CRM's own form writes into the column channel
    CrmStates,      \* the states of the CRM a campaign may start from
    MaxRecipients,  \* MAX_RECIPIENTS
    ChangeCap       \* bound: changes of the CRM in a behaviour

ASSUME LaunchAssumption ==
    /\ None \notin Contents /\ Contents # {}
    /\ Drafts \subseteq [channel : {"telegram", "max", "vk"},
                         filter : {NoFilter} \cup SUBSET Contacts, allowed : SUBSET Contacts]
    /\ \A e \in Drafts : e.filter = NoFilter => e.channel = "telegram"
    /\ CrmStates \subseteq Crm
    /\ MaxRecipients \in Nat

VARIABLES
    campaign,       \* the marketing_campaigns row; channel is the audience filter's,
                    \* which the passes use, column the row's own, which the dispatchers use
    rows,           \* campaign_recipients by contact
    crm,            \* contacts, dialogs, suppressions, opt-ins
    req,            \* local state of the dispatch requests
    asked,          \* the status a CRM request has checked and will write, or None
    changes         \* history: changes of the CRM so far

vars == <<campaign, rows, crm, req, asked, changes>>

NoRow == [kind |-> "none", peer |-> NoPeer, content |-> None]
Row(kind, peer, content) == [kind |-> kind, peer |-> peer, content |-> content]
Taken(row) == row.kind # "none"

NoRows == [c \in Contacts |-> NoRow]

\* seen: what the guard query returned, until the cap has judged it; body: the
\* payload, until it is stored; text and fresh: the snapshot and the rows of the
\* open transaction; calm (history): no CRM change, no go-live since its pass 1.
NoRequest == [pc |-> "idle", seen |-> None, body |-> None,
              text |-> None, fresh |-> NoRows, calm |-> TRUE]

\* createBroadcastCampaign: always a draft in test mode
Init ==
    /\ \E e \in Drafts, p \in Contents :
          campaign = [status |-> "draft", testMode |-> TRUE,
                      column |-> e.channel, channel |-> e.channel, filter |-> e.filter,
                      allowed |-> e.allowed, content |-> p]
    /\ rows = NoRows
    /\ crm \in CrmStates
    /\ req = [d \in Requests |-> NoRequest]
    /\ asked = None
    /\ changes = 0

-----------------------------------------------------------------------------
(* The operator's other requests: each is one UPDATE. *)

\* PATCH /:id
EditDraft(e, p) ==
    /\ campaign.status = "draft"
    /\ campaign' = [campaign EXCEPT !.column = e.channel, !.channel = e.channel,
                                    !.filter = e.filter, !.allowed = e.allowed, !.content = p]
    /\ UNCHANGED <<rows, crm, req, asked, changes>>

\* PUT /api/campaigns/:id writes the column in any status and leaves the filter.
Relabel(label) ==
    /\ campaign' = [campaign EXCEPT !.column = label]
    /\ UNCHANGED <<rows, crm, req, asked, changes>>

Stirred == [d \in Requests |-> [req[d] EXCEPT !.calm = req[d].pc # "reporting"]]

\* POST /:id/go-live, in any status
GoLive ==
    /\ campaign.testMode
    /\ campaign' = [campaign EXCEPT !.testMode = FALSE]
    /\ req' = Stirred
    /\ UNCHANGED <<rows, crm, asked, changes>>

Transitions == [draft  |-> {"active", "cancelled"},
                active |-> {"paused", "completed", "cancelled"},
                paused |-> {"active", "completed", "cancelled"},
                completed |-> {}, cancelled |-> {}]

\* PATCH /api/campaigns/:id/status: SELECT and check, then an unguarded UPDATE
AskStatus(s) ==
    /\ asked = None
    /\ s \in Transitions[campaign.status]
    /\ asked' = s
    /\ UNCHANGED <<campaign, rows, crm, req, changes>>

WriteStatus ==
    /\ asked # None
    /\ campaign' = [campaign EXCEPT !.status = asked]
    /\ asked' = None
    /\ UNCHANGED <<rows, crm, req, changes>>

-----------------------------------------------------------------------------
(* POST /:id/dispatch. *)

\* The guard query; 400 if the column and the filter's channel differ
Begin(d, body) ==
    /\ req[d].pc = "idle"
    /\ campaign.column = campaign.channel
    /\ req' = [req EXCEPT ![d].pc = "guarded", ![d].body = body,
                          ![d].seen = [testMode |-> campaign.testMode,
                                       channel |-> campaign.channel, filter |-> campaign.filter]]
    /\ UNCHANGED <<campaign, rows, crm, asked, changes>>

\* The content of the body is stored before anything else is checked.
StorePayload(d) ==
    /\ req[d].pc = "guarded"
    /\ req' = [req EXCEPT ![d].pc = "stored", ![d].body = None]
    /\ campaign' = IF req[d].body = None THEN campaign
                   ELSE [campaign EXCEPT !.content = req[d].body]
    /\ UNCHANGED <<rows, crm, asked, changes>>

Oversized(seen) ==
    ~seen.testMode /\ ProjectedCount(crm, seen.channel, seen.filter) > MaxRecipients

\* The cap judges the campaign as the guard query saw it: 400, or go on.
CheckCap(d) ==
    /\ req[d].pc = "stored"
    /\ req' = IF Oversized(req[d].seen) THEN [req EXCEPT ![d] = NoRequest]
              ELSE [req EXCEPT ![d].pc = "checked", ![d].seen = None]
    /\ UNCHANGED <<campaign, rows, crm, asked, changes>>

StaysAsItIs(c) == c                                 \* mutant
Activated(c) == [c EXCEPT !.status = "active"]

\* UPDATE ... SET status = 'active' WHERE status IN ('draft', 'paused'), or 409
Launch(d) ==
    /\ req[d].pc = "checked"
    /\ IF campaign.status \in {"draft", "paused"}
       THEN /\ campaign' = Activated(campaign)
            /\ req' = [req EXCEPT ![d].pc = "launched"]
       ELSE /\ req' = [req EXCEPT ![d] = NoRequest]
            /\ UNCHANGED campaign
    /\ UNCHANGED <<rows, crm, asked, changes>>

-----------------------------------------------------------------------------
(* materializeRecipients *)

Upsert(old, new) == [c \in Contacts |-> IF Taken(new[c]) THEN new[c] ELSE old[c]]  \* mutant
\* ON CONFLICT (campaign_id, contact_id) DO NOTHING
Insert(old, new) == [c \in Contacts |-> IF Taken(old[c]) THEN old[c] ELSE new[c]]

\* payload_snapshot: the stored payload, once for all rows
Snapshot(d) == campaign.content

Queued(text) ==
    [c \in Contacts |-> IF c \in Picks(crm, campaign)
                        THEN Row("queued", crm.chat[c], text) ELSE NoRow]

NoPeerIndex(old, new) == FALSE                      \* mutant
\* uq_recipient_vk_peer: a new row on a peer that another contact's row has
PeerClash(old, new) ==
    /\ campaign.channel = "vk"
    /\ \E c, x \in Contacts :
          Taken(new[c]) /\ ~Taken(old[c]) /\ Taken(old[x]) /\ old[x].peer = new[c].peer

\* An insert waits for an open transaction that inserts the same key.
Waits(d, new) ==
    \E e \in Requests \ {d} : \E c, x \in Contacts :
        /\ Taken(new[c]) /\ ~Taken(rows[c])
        /\ Taken(req[e].fresh[x]) /\ ~Taken(rows[x])
        /\ c = x \/ (campaign.channel = "vk" /\ req[e].fresh[x].peer = new[c].peer)

\* Pass 1 inserts the deliverable audience; on VK only the contact conflict is
\* absorbed, a peer conflict aborts the transaction and the request ends in 500.
QueueAudience(d) ==
    LET new == Queued(Snapshot(d)) IN
    /\ req[d].pc = "launched"
    /\ ~Waits(d, new)
    /\ req' = IF PeerClash(rows, new) THEN [req EXCEPT ![d] = NoRequest]
              ELSE [req EXCEPT ![d].pc = "reporting", ![d].text = Snapshot(d), ![d].fresh = new]
    /\ UNCHANGED <<campaign, rows, crm, asked, changes>>

\* ON CONFLICT DO NOTHING without a target: on VK the first row of a peer wins,
\* and '' counts as a peer. These are the exclusions that get a row.
Absorbed(old) ==
    LET vk == campaign.channel = "vk"
        free == {c \in Exclusions(crm, campaign) :
                    /\ ~Taken(old[c])
                    /\ vk => \A x \in Contacts : Taken(old[x]) => old[x].peer # crm.chat[c]}
    IN  {S \in SUBSET free :
            IF vk THEN \A c \in free : \E x \in S :
                          \A y \in S : crm.chat[y] = crm.chat[c] <=> y = x
                  ELSE S = free}

Reported(S, text) ==
    [c \in Contacts |-> IF c \in S THEN Row(Reason(crm, c), crm.chat[c], text) ELSE NoRow]

\* Pass 2 records the exclusions, COMMIT
ReportExclusions(d) ==
    LET old == Insert(rows, req[d].fresh) IN
    /\ req[d].pc = "reporting"
    /\ \E S \in Absorbed(old) :
          LET new == Reported(S, req[d].text) IN
          ~Waits(d, new) /\ rows' = Insert(old, new)
    /\ req' = [req EXCEPT ![d] = NoRequest]
    /\ UNCHANGED <<campaign, crm, asked, changes>>

\* The process dies or a query fails: an open transaction is rolled back.
Die(d) ==
    /\ req[d].pc # "idle"
    /\ req' = [req EXCEPT ![d] = NoRequest]
    /\ UNCHANGED <<campaign, rows, crm, asked, changes>>

-----------------------------------------------------------------------------
(* The CRM: the inbox, the unsubscribe buttons, the VK permissions. *)

\* A message makes a channel_users row, then links its dialog to the contact.
FirstMessage(p) == [crm EXCEPT !.consent[p] = IF @ = "none" THEN "wrote" ELSE @]
NewDialog(c, p) == [crm EXCEPT !.chat[c] = p, !.closed = @ \ {c}]
Suppress(c)     == [crm EXCEPT !.suppressed = @ \cup {c}]

\* message_allow sets opted_in and never clears opted_out_at: a denial is for good.
Allow(p) == [crm EXCEPT !.consent[p] = IF @ = "denied" THEN @ ELSE "allowed"]
Deny(p)  == [crm EXCEPT !.consent[p] = "denied"]

\* The button of a VK campaign suppresses the contact and, if channel_users has
\* the peer, denies it, in one transaction.
Unsubscribe(c, p) ==
    [crm EXCEPT !.suppressed = @ \cup {c},
                !.consent[p] = IF @ = "none" THEN @ ELSE "denied"]

CrmChanges ==
    /\ changes < ChangeCap /\ changes' = changes + 1
    /\ \/ \E c \in Contacts, p \in Peers : crm' = NewDialog(c, p)
       \/ \E c \in Contacts : crm' = Suppress(c)
       \/ \E p \in Peers : crm' = FirstMessage(p) \/ crm' = Allow(p) \/ crm' = Deny(p)
       \/ \E c \in Contacts, p \in Peers : crm.chat[c] = p /\ crm' = Unsubscribe(c, p)
    /\ req' = Stirred
    /\ UNCHANGED <<campaign, rows, asked>>

-----------------------------------------------------------------------------
RequestStep(d) ==
    \/ \E body \in Contents \cup {None} : Begin(d, body)
    \/ StorePayload(d) \/ CheckCap(d) \/ Launch(d)
    \/ QueueAudience(d) \/ ReportExclusions(d)
    \/ Die(d)

Next ==
    \/ \E e \in Drafts, p \in Contents : EditDraft(e, p)
    \/ \E label \in Labels : Relabel(label)
    \/ GoLive
    \/ \E s \in DOMAIN Transitions : AskStatus(s)
    \/ WriteStatus
    \/ \E d \in Requests : RequestStep(d)
    \/ CrmChanges

Spec == Init /\ [][Next]_vars

-----------------------------------------------------------------------------
(* Properties. *)

Channels == {"telegram", "max", "vk"}
Filters  == {NoFilter} \cup SUBSET Contacts

Campaigns == [status : {"draft", "active", "paused", "completed", "cancelled"},
              testMode : BOOLEAN, column : Channels \cup Labels, channel : Channels,
              filter : Filters, allowed : SUBSET Contacts, content : Contents]

RowTable ==
    [Contacts -> [kind : {"queued"} \cup Reasons, peer : Peers \cup {NoPeer}, content : Contents]
                 \cup {NoRow}]

\* Every variable keeps its type; a row that exists has a frozen content.
TypeOK ==
    /\ campaign \in Campaigns
    /\ rows \in RowTable
    /\ crm \in Crm
    /\ req \in [Requests ->
          [pc : {"idle", "guarded", "stored", "checked", "launched", "reporting"},
           seen : {None} \cup [testMode : BOOLEAN, channel : Channels, filter : Filters],
           body : Contents \cup {None},
           text : Contents \cup {None}, fresh : RowTable, calm : BOOLEAN]]
    /\ asked \in {"active", "paused", "completed", "cancelled", None}
    /\ changes \in Nat

\* The test gate: while nobody has pressed go-live, only the contacts that the
\* campaign allows have a row, whatever was edited and launched on the way.
TestGateHolds ==
    campaign.testMode => \A c \in Contacts : Taken(rows[c]) => c \in campaign.allowed

\* Recipients exist only for a campaign that has left draft: content and
\* audience of a campaign with recipients can no longer be edited.
DraftHasNoRows == campaign.status = "draft" => rows = NoRows

\* A row is written once: a second launch after a pause adds rows and never
\* replaces the content or the outcome of one.
RowsAreFrozen == [][\A c \in Contacts : Taken(rows[c]) => rows'[c] = rows[c]]_rows

\* On VK one human gets one message: two rows never share a peer.
OnePeerOneRow ==
    campaign.channel = "vk" =>
        \A c, x \in Contacts :
            Taken(rows[c]) /\ Taken(rows[x]) /\ rows[c].peer = rows[x].peer => c = x

\* No silent drop: if the CRM does not change between the passes, every contact
\* of the segment has a row after the launch. On VK a contact may share the row
\* of its peer, and be left out behind the contact that was picked for the peer.
FunnelIsComplete ==
    [][\A d \in Requests : ReportExclusions(d) /\ req[d].calm =>
          \A c \in Contacts : InScope(campaign, c) =>
              \/ Taken(rows'[c])
              \/ /\ campaign.channel = "vk"
                 /\ \E x \in Contacts :
                       Taken(rows'[x]) /\ crm.chat[c] \in {rows'[x].peer, crm.chat[x]}]_vars

\* The rows of one launch say the same, though the draft's text may be replaced
\* between the two passes by another request that is refused later.
OneTextPerLaunch ==
    [][\A c, x \in Contacts :
          /\ ~Taken(rows[c]) /\ Taken(rows'[c])
          /\ ~Taken(rows[x]) /\ Taken(rows'[x])
          => rows'[c].content = rows'[x].content]_rows

\* What the requests promise together: CampaignRoster, where a launch is one step.
Roster == INSTANCE CampaignRoster WITH
    Peers <- Peers \cup {NoPeer}, Texts <- Contents, Unwritten <- None, Unreached <- NoPeer,
    draft <- campaign.status = "draft", gated <- campaign.testMode,
    merging <- campaign.channel = "vk", allowed <- campaign.allowed,
    listed <- {c \in Contacts : Taken(rows[c])},
    text <- [c \in Contacts |-> rows[c].content], peer <- [c \in Contacts |-> rows[c].peer]

ImplementsRoster == Roster!Spec

-----------------------------------------------------------------------------
(* The inductive invariant behind TestGateHolds and OnePeerOneRow.           *)

Entering(d, c) == Taken(req[d].fresh[c]) /\ ~Taken(rows[c])

\* A request that won the launch has taken the campaign out of draft for good,
\* and only an open transaction has rows of its own.
RequestsAreSane ==
    \A d \in Requests :
        /\ req[d].pc \in {"launched", "reporting"} => campaign.status # "draft"
        /\ req[d].pc = "reporting" => req[d].text \in Contents
        /\ req[d].pc # "reporting" => req[d].fresh = NoRows

\* The rows that an open transaction is about to commit pass the gate as well.
EnteringIsGated ==
    campaign.testMode =>
        \A d \in Requests, c \in Contacts : Taken(req[d].fresh[c]) => c \in campaign.allowed

\* On VK no two rows, committed or in an open transaction, have the same peer.
PeersStayApart ==
    campaign.channel = "vk" =>
        \A d \in Requests, c \in Contacts : Entering(d, c) =>
            /\ \A x \in Contacts : Taken(rows[x]) => rows[x].peer # req[d].fresh[c].peer
            /\ \A e \in Requests, x \in Contacts :
                  Entering(e, x) /\ req[e].fresh[x].peer = req[d].fresh[c].peer => e = d /\ x = c

\* What pass 1 has inserted carries the text that pass 2 will use.
FreshRowsAgree ==
    \A d \in Requests, c \in Contacts :
        req[d].pc = "reporting" /\ Taken(req[d].fresh[c]) =>
            req[d].fresh[c].content = req[d].text

\* What a launch, an edit and a go-live may find in each other's way.
IInv ==
    /\ TypeOK
    /\ RequestsAreSane
    /\ DraftHasNoRows
    /\ TestGateHolds
    /\ EnteringIsGated
    /\ OnePeerOneRow
    /\ PeersStayApart

-----------------------------------------------------------------------------
(* What a comment says, and the code does not do. *)

\* Re-materialization never trips the unique index on peers.
NeverTripsThePeerIndex ==
    \A d \in Requests : req[d].pc = "launched" => ~PeerClash(rows, Queued(Snapshot(d)))
=============================================================================
