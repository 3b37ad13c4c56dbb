------------------------- MODULE CampaignLaunchProofs -------------------------
(***************************************************************************)
(* Theorems about CampaignLaunch for every finite set of contacts and      *)
(* peers, every number of concurrent dispatch requests, every audience and *)
(* every history of the CRM.                                               *)
(***************************************************************************)
EXTENDS CampaignLaunch, WellFoundedInduction, TLAPS

-----------------------------------------------------------------------------
(* Tables of rows. *)

\* A row is either absent, and then it is NoRow, or one of a real kind.
LEMMA RowCases ==
    ASSUME NEW t \in RowTable, NEW c \in Contacts
    PROVE  /\ Taken(t[c]) => t[c] \in [kind : {"queued"} \cup Reasons,
                                       peer : Peers \cup {NoPeer}, content : Contents]
           /\ ~Taken(t[c]) => t[c] = NoRow
  BY DEF RowTable, Taken, NoRow, Reasons

LEMMA EmptyTable == NoRows \in RowTable /\ \A c \in Contacts : ~Taken(NoRows[c])
  BY DEF NoRows, RowTable, NoRow, Taken

\* Insert adds what is new and changes nothing that is there.
LEMMA InsertKeeps ==
    ASSUME NEW old \in RowTable, NEW new \in RowTable
    PROVE  /\ Insert(old, new) \in RowTable
           /\ \A c \in Contacts :
                 /\ Taken(old[c]) => Insert(old, new)[c] = old[c]
                 /\ ~Taken(old[c]) => Insert(old, new)[c] = new[c]
  BY DEF Insert, RowTable

\* What the two passes of materializeRecipients write, and for whom.
LEMMA PassOne ==
    ASSUME campaign \in Campaigns, crm \in Crm, NEW text \in Contents
    PROVE  /\ Queued(text) \in RowTable
           /\ \A c \in Contacts :
                 /\ Taken(Queued(text)[c]) <=> c \in Picks(crm, campaign)
                 /\ Taken(Queued(text)[c]) => Queued(text)[c].peer = crm.chat[c]
<1>1. \A c \in Contacts : Queued(text)[c] =
         IF c \in Picks(crm, campaign) THEN Row("queued", crm.chat[c], text) ELSE NoRow
  BY DEF Queued
<1>2. \A c \in Contacts : crm.chat[c] \in Peers \cup {NoPeer}
  BY DEF Crm
<1>3. Queued(text) \in RowTable
  BY <1>2 DEF Queued, RowTable, Row, NoRow
<1>4. ASSUME NEW c \in Contacts
      PROVE  /\ Taken(Queued(text)[c]) <=> c \in Picks(crm, campaign)
             /\ Taken(Queued(text)[c]) => Queued(text)[c].peer = crm.chat[c]
  <2>1. CASE c \in Picks(crm, campaign)
    <3>1. Queued(text)[c] = [kind |-> "queued", peer |-> crm.chat[c], content |-> text]
      BY <1>1, <2>1 DEF Row
    <3>. QED  BY <2>1, <3>1 DEF Taken
  <2>2. CASE c \notin Picks(crm, campaign)
    BY <1>1, <2>2 DEF Taken, NoRow
  <2>. QED  BY <2>1, <2>2
<1>. QED  BY <1>3, <1>4

LEMMA PassTwo ==
    ASSUME crm \in Crm, NEW text \in Contents, NEW S \in SUBSET Contacts
    PROVE  /\ Reported(S, text) \in RowTable
           /\ \A c \in Contacts :
                 /\ Taken(Reported(S, text)[c]) <=> c \in S
                 /\ Taken(Reported(S, text)[c]) => Reported(S, text)[c].peer = crm.chat[c]
<1>1. \A c \in Contacts : Reported(S, text)[c] =
         IF c \in S THEN Row(Reason(crm, c), crm.chat[c], text) ELSE NoRow
  BY DEF Reported
<1>2. \A c \in Contacts : crm.chat[c] \in Peers \cup {NoPeer}
  BY DEF Crm
<1>3. \A c \in Contacts : Reason(crm, c) \in Reasons
  BY DEF Reason, Reasons
<1>4. Reported(S, text) \in RowTable
  BY <1>2, <1>3 DEF Reported, RowTable, Row, NoRow
<1>5. \A c \in Contacts : Reason(crm, c) # "none"
  BY <1>3 DEF Reasons
<1>6. ASSUME NEW c \in Contacts
      PROVE  /\ Taken(Reported(S, text)[c]) <=> c \in S
             /\ Taken(Reported(S, text)[c]) => Reported(S, text)[c].peer = crm.chat[c]
  <2>1. CASE c \in S
    <3>1. Reported(S, text)[c] =
             [kind |-> Reason(crm, c), peer |-> crm.chat[c], content |-> text]
      BY <1>1, <2>1 DEF Row
    <3>. QED  BY <1>5, <2>1, <3>1 DEF Taken
  <2>2. CASE c \notin S
    BY <1>1, <2>2 DEF Taken, NoRow
  <2>. QED  BY <2>1, <2>2
<1>. QED  BY <1>4, <1>6

LEMMA ScopeOfPasses ==
    /\ Picks(crm, campaign) \subseteq {c \in Contacts : InScope(campaign, c)}
    /\ Exclusions(crm, campaign) \subseteq {c \in Contacts : InScope(campaign, c)}
  BY DEF Picks, Targets, Exclusions

-----------------------------------------------------------------------------
(* The invariant holds initially and through each action. *)

LEMMA InitEstablishes == Init => IInv
<1>. SUFFICES ASSUME Init PROVE IInv
  OBVIOUS
<1>1. PICK e \in Drafts, p \in Contents :
         campaign = [status |-> "draft", testMode |-> TRUE,
                     column |-> e.channel, channel |-> e.channel, filter |-> e.filter,
                     allowed |-> e.allowed, content |-> p]
  BY DEF Init
<1>2. campaign \in Campaigns
  BY <1>1, LaunchAssumption DEF Campaigns, Channels, Filters
<1>3. \A d \in Requests : req[d] = NoRequest
  BY DEF Init
<1>4. TypeOK
  BY <1>2, EmptyTable, LaunchAssumption DEF Init, TypeOK, NoRequest, Filters
<1>. QED  BY <1>1, <1>3, <1>4, EmptyTable
     DEF Init, IInv, RequestsAreSane, DraftHasNoRows, TestGateHolds, EnteringIsGated,
         OnePeerOneRow, PeersStayApart, Entering, NoRequest

\* An action that leaves the rows and the audience alone, and at most withdraws
\* the rows of an open transaction, keeps the gate and the peers.
LEMMA Withdrawn ==
    ASSUME IInv, UNCHANGED rows,
           campaign'.channel = campaign.channel, campaign'.allowed = campaign.allowed,
           campaign'.testMode => campaign.testMode,
           \A d \in Requests : req'[d].fresh \in {req[d].fresh, NoRows}
    PROVE  TestGateHolds' /\ EnteringIsGated' /\ OnePeerOneRow' /\ PeersStayApart'
<1>1. \A d \in Requests, c \in Contacts :
         Taken(req'[d].fresh[c]) => req'[d].fresh = req[d].fresh
  BY EmptyTable
<1>2. TestGateHolds' /\ OnePeerOneRow'
  BY DEF IInv, TestGateHolds, OnePeerOneRow
<1>3. EnteringIsGated'
  BY <1>1 DEF IInv, EnteringIsGated
<1>4. PeersStayApart'
  BY <1>1 DEF IInv, PeersStayApart, Entering
<1>. QED  BY <1>2, <1>3, <1>4

LEMMA EditDraftKeeps ==
    ASSUME IInv, NEW e \in Drafts, NEW p \in Contents, EditDraft(e, p)
    PROVE  IInv'
<1>. USE DEF EditDraft
<1>1. campaign'.status = "draft" /\ campaign' \in Campaigns
  BY LaunchAssumption DEF IInv, TypeOK, Campaigns, Channels, Filters
<1>2. TypeOK'
  BY <1>1 DEF IInv, TypeOK, RowTable
<1>3. rows = NoRows /\ \A d \in Requests : req[d].fresh = NoRows
  BY DEF IInv, DraftHasNoRows, RequestsAreSane
<1>4. RequestsAreSane'
  BY DEF IInv, RequestsAreSane
<1>. QED  BY <1>1, <1>2, <1>3, <1>4, EmptyTable
     DEF IInv, DraftHasNoRows, TestGateHolds, EnteringIsGated, OnePeerOneRow, PeersStayApart,
         Entering

\* A relabelled campaign is the same in everything but the column.
LEMMA Relabelled ==
    ASSUME campaign \in Campaigns, NEW label \in Labels, Relabel(label)
    PROVE  /\ campaign' \in Campaigns
           /\ campaign'.status = campaign.status /\ campaign'.testMode = campaign.testMode
           /\ campaign'.channel = campaign.channel /\ campaign'.filter = campaign.filter
           /\ campaign'.allowed = campaign.allowed /\ campaign'.content = campaign.content
           /\ UNCHANGED <<rows, crm, req, asked, changes>>
  BY DEF Relabel, Campaigns

LEMMA RelabelKeeps ==
    ASSUME IInv, NEW label \in Labels, Relabel(label)
    PROVE  IInv'
<1>1. TypeOK'
  BY Relabelled DEF IInv, TypeOK, RowTable
<1>2. RequestsAreSane' /\ DraftHasNoRows'
  BY Relabelled DEF IInv, TypeOK, RequestsAreSane, DraftHasNoRows
<1>3. TestGateHolds' /\ EnteringIsGated' /\ OnePeerOneRow' /\ PeersStayApart'
  BY Relabelled, Withdrawn DEF IInv, TypeOK
<1>. QED  BY <1>1, <1>2, <1>3 DEF IInv

\* A change of the CRM or of the gate only marks the open transactions.
LEMMA StirredType ==
    ASSUME TypeOK, req' = Stirred
    PROVE  /\ req' \in [Requests ->
                 [pc : {"idle", "guarded", "stored", "checked", "launched", "reporting"},
                  seen : {None} \cup [testMode : BOOLEAN, channel : Channels, filter : Filters],
                  body : Contents \cup {None},
                  text : Contents \cup {None}, fresh : RowTable, calm : BOOLEAN]]
           /\ \A d \in Requests : /\ req'[d].pc = req[d].pc /\ req'[d].text = req[d].text
                                  /\ req'[d].fresh = req[d].fresh
<1>1. \A d \in Requests : \E b \in BOOLEAN : req'[d] = [req[d] EXCEPT !.calm = b]
  <2>1. \A d \in Requests : (req[d].pc # "reporting") \in BOOLEAN
    OBVIOUS
  <2>2. \A d \in Requests : req'[d] = [req[d] EXCEPT !.calm = req[d].pc # "reporting"]
    BY DEF Stirred
  <2>. QED  BY <2>1, <2>2, Zenon
<1>2. req' = [d \in Requests |-> req'[d]]
  BY DEF Stirred
<1>. QED  BY <1>1, <1>2 DEF TypeOK

LEMMA GoLiveKeeps ==
    ASSUME IInv, GoLive
    PROVE  IInv'
<1>. USE DEF GoLive
<1>1. campaign' \in Campaigns /\ campaign'.status = campaign.status
  BY DEF IInv, TypeOK, Campaigns
<1>2. TypeOK'
  BY <1>1, StirredType DEF IInv, TypeOK, RowTable
<1>3. \A d \in Requests : /\ req'[d].pc = req[d].pc /\ req'[d].fresh = req[d].fresh
                          /\ req'[d].text = req[d].text
  BY StirredType DEF IInv
<1>4. RequestsAreSane' /\ DraftHasNoRows'
  BY <1>1, <1>3 DEF IInv, RequestsAreSane, DraftHasNoRows
<1>5. TestGateHolds' /\ EnteringIsGated' /\ OnePeerOneRow' /\ PeersStayApart'
  BY <1>3, Withdrawn DEF IInv, TypeOK, Campaigns
<1>. QED  BY <1>2, <1>4, <1>5 DEF IInv

LEMMA AskStatusKeeps ==
    ASSUME IInv, NEW s, AskStatus(s)
    PROVE  IInv'
<1>. USE DEF AskStatus
<1>1. s \in {"active", "paused", "completed", "cancelled"}
  BY DEF IInv, TypeOK, Campaigns, Transitions
<1>2. TypeOK'
  BY <1>1 DEF IInv, TypeOK, RowTable
<1>. QED  BY <1>2, Withdrawn DEF IInv, RequestsAreSane, DraftHasNoRows

LEMMA WriteStatusKeeps ==
    ASSUME IInv, WriteStatus
    PROVE  IInv'
<1>. USE DEF WriteStatus
<1>1. TypeOK' /\ campaign'.status # "draft"
  BY LaunchAssumption DEF IInv, TypeOK, Campaigns, RowTable
<1>2. RequestsAreSane' /\ DraftHasNoRows'
  BY <1>1 DEF IInv, RequestsAreSane, DraftHasNoRows
<1>3. TestGateHolds' /\ EnteringIsGated' /\ OnePeerOneRow' /\ PeersStayApart'
  BY Withdrawn DEF IInv, TypeOK, Campaigns
<1>. QED  BY <1>1, <1>2, <1>3 DEF IInv

\* What a request leaves behind when it ends.
LEMMA NoRequestType ==
    /\ NoRequest \in [pc : {"idle", "guarded", "stored", "checked", "launched", "reporting"},
                      seen : {None} \cup [testMode : BOOLEAN, channel : Channels, filter : Filters],
                      body : Contents \cup {None},
                      text : Contents \cup {None}, fresh : RowTable, calm : BOOLEAN]
    /\ NoRequest.pc = "idle" /\ NoRequest.fresh = NoRows
  BY EmptyTable DEF NoRequest

\* A request that is not in materialization says nothing about the campaign.
LEMMA OutsideMaterialization ==
    ASSUME IInv, UNCHANGED rows, campaign'.status = campaign.status, NEW d \in Requests,
           req'[d].pc \notin {"launched", "reporting"}, req'[d].fresh = NoRows,
           \A e \in Requests \ {d} : req'[e] = req[e]
    PROVE  RequestsAreSane' /\ DraftHasNoRows'
<1>1. DraftHasNoRows'
  BY DEF IInv, DraftHasNoRows
<1>2. ASSUME NEW e \in Requests \ {d}
      PROVE  /\ req'[e].pc \in {"launched", "reporting"} => campaign'.status # "draft"
             /\ req'[e].pc = "reporting" => req'[e].text \in Contents
             /\ req'[e].pc # "reporting" => req'[e].fresh = NoRows
  BY DEF IInv, RequestsAreSane
<1>3. /\ req'[d].pc \in {"launched", "reporting"} => campaign'.status # "draft"
      /\ req'[d].pc = "reporting" => req'[d].text \in Contents
      /\ req'[d].pc # "reporting" => req'[d].fresh = NoRows
  OBVIOUS
<1>. QED  BY <1>1, <1>2, <1>3 DEF RequestsAreSane

LEMMA BeginKeeps ==
    ASSUME IInv, NEW d \in Requests, NEW body \in Contents \cup {None}, Begin(d, body)
    PROVE  IInv'
<1>. USE DEF Begin
<1>1. [testMode |-> campaign.testMode, channel |-> campaign.channel, filter |-> campaign.filter]
         \in [testMode : BOOLEAN, channel : Channels, filter : Filters]
  BY DEF IInv, TypeOK, Campaigns
<1>2. TypeOK'
  <2>1. DEFINE seen == [testMode |-> campaign.testMode, channel |-> campaign.channel,
                        filter |-> campaign.filter]
  <2>2. req' = [req EXCEPT ![d] = [@ EXCEPT !.pc = "guarded", !.body = body, !.seen = seen]]
    BY DEF IInv, TypeOK
  <2>. HIDE DEF seen
  <2>. QED  BY <1>1, <2>2 DEF IInv, TypeOK, seen
<1>3. /\ req'[d].pc = "guarded" /\ req'[d].fresh = req[d].fresh
      /\ \A e \in Requests \ {d} : req'[e] = req[e]
  BY DEF IInv, TypeOK
<1>4. req[d].fresh = NoRows
  BY DEF IInv, RequestsAreSane
<1>5. RequestsAreSane' /\ DraftHasNoRows'
  BY <1>3, <1>4, OutsideMaterialization
<1>6. TestGateHolds' /\ EnteringIsGated' /\ OnePeerOneRow' /\ PeersStayApart'
  BY <1>3, <1>4, Withdrawn
<1>. QED  BY <1>2, <1>5, <1>6 DEF IInv

LEMMA StorePayloadKeeps ==
    ASSUME IInv, NEW d \in Requests, StorePayload(d)
    PROVE  IInv'
<1>. USE DEF StorePayload
<1>1. /\ campaign' \in Campaigns /\ campaign'.status = campaign.status
      /\ campaign'.channel = campaign.channel /\ campaign'.allowed = campaign.allowed
      /\ campaign'.testMode = campaign.testMode
  <2>1. CASE req[d].body = None
    BY <2>1 DEF IInv, TypeOK
  <2>2. CASE req[d].body # None
    <3>1. req[d].body \in Contents
      BY <2>2 DEF IInv, TypeOK
    <3>2. campaign' = [campaign EXCEPT !.content = req[d].body]
      BY <2>2
    <3>. QED  BY <3>1, <3>2 DEF IInv, TypeOK, Campaigns
  <2>. QED  BY <2>1, <2>2
<1>2. TypeOK'
  BY <1>1 DEF IInv, TypeOK
<1>3. /\ req'[d].pc = "stored" /\ req'[d].fresh = req[d].fresh
      /\ \A e \in Requests \ {d} : req'[e] = req[e]
  BY DEF IInv, TypeOK
<1>4. req[d].fresh = NoRows
  BY DEF IInv, RequestsAreSane
<1>5. RequestsAreSane' /\ DraftHasNoRows'
  BY <1>1, <1>3, <1>4, OutsideMaterialization
<1>6. TestGateHolds' /\ EnteringIsGated' /\ OnePeerOneRow' /\ PeersStayApart'
  BY <1>1, <1>3, <1>4, Withdrawn
<1>. QED  BY <1>2, <1>5, <1>6 DEF IInv

\* A request that ends, or its process, takes its uncommitted rows with it.
LEMMA DieKeeps ==
    ASSUME IInv, NEW d \in Requests, req' = [req EXCEPT ![d] = NoRequest],
           UNCHANGED <<campaign, rows, crm, asked, changes>>
    PROVE  IInv'
<1>1. TypeOK'
  BY NoRequestType DEF IInv, TypeOK
<1>2. \A e \in Requests : req'[e] = IF e = d THEN NoRequest ELSE req[e]
  BY DEF IInv, TypeOK
<1>3. RequestsAreSane' /\ DraftHasNoRows'
  BY <1>2, NoRequestType, OutsideMaterialization
<1>4. TestGateHolds' /\ EnteringIsGated' /\ OnePeerOneRow' /\ PeersStayApart'
  BY <1>2, NoRequestType, Withdrawn
<1>. QED  BY <1>1, <1>3, <1>4 DEF IInv

LEMMA CheckCapKeeps ==
    ASSUME IInv, NEW d \in Requests, CheckCap(d)
    PROVE  IInv'
<1>1. CASE Oversized(req[d].seen)
  BY <1>1, DieKeeps DEF CheckCap
<1>2. CASE ~Oversized(req[d].seen)
  <2>. req' = [req EXCEPT ![d].pc = "checked", ![d].seen = None]
       /\ UNCHANGED <<campaign, rows, crm, asked, changes>>
    BY <1>2 DEF CheckCap
  <2>1. TypeOK'
    BY DEF IInv, TypeOK
  <2>2. /\ req'[d].pc = "checked" /\ req'[d].fresh = req[d].fresh
        /\ \A e \in Requests \ {d} : req'[e] = req[e]
    BY DEF IInv, TypeOK
  <2>3. req[d].fresh = NoRows
    BY DEF CheckCap, IInv, RequestsAreSane
  <2>4. RequestsAreSane' /\ DraftHasNoRows'
    BY <2>2, <2>3, OutsideMaterialization
  <2>5. TestGateHolds' /\ EnteringIsGated' /\ OnePeerOneRow' /\ PeersStayApart'
    BY <2>2, <2>3, Withdrawn
  <2>. QED  BY <2>1, <2>4, <2>5 DEF IInv
<1>. QED  BY <1>1, <1>2

LEMMA LaunchKeeps ==
    ASSUME IInv, NEW d \in Requests, Launch(d)
    PROVE  IInv'
<1>1. CASE campaign.status \in {"draft", "paused"}
  <2>. campaign' = [campaign EXCEPT !.status = "active"]
       /\ req' = [req EXCEPT ![d].pc = "launched"] /\ UNCHANGED <<rows, crm, asked, changes>>
    BY <1>1 DEF Launch, Activated
  <2>1. /\ campaign' \in Campaigns /\ campaign'.status = "active"
        /\ campaign'.channel = campaign.channel /\ campaign'.allowed = campaign.allowed
        /\ campaign'.testMode = campaign.testMode
    BY DEF IInv, TypeOK, Campaigns
  <2>2. TypeOK'
    BY <2>1 DEF IInv, TypeOK
  <2>3. \A e \in Requests : /\ req'[e].fresh = req[e].fresh /\ req'[e].text = req[e].text
                            /\ req'[e].pc = IF e = d THEN "launched" ELSE req[e].pc
    BY DEF IInv, TypeOK
  <2>4. req[d].fresh = NoRows
    BY DEF Launch, IInv, RequestsAreSane
  <2>5. RequestsAreSane' /\ DraftHasNoRows'
    BY <2>1, <2>3, <2>4 DEF IInv, RequestsAreSane, DraftHasNoRows
  <2>6. TestGateHolds' /\ EnteringIsGated' /\ OnePeerOneRow' /\ PeersStayApart'
    BY <2>1, <2>3, Withdrawn
  <2>. QED  BY <2>2, <2>5, <2>6 DEF IInv
<1>2. CASE campaign.status \notin {"draft", "paused"}
  BY <1>2, DieKeeps DEF Launch
<1>. QED  BY <1>1, <1>2

-----------------------------------------------------------------------------
(* Materialization. *)

\* DISTINCT ON: two contacts picked on VK never share a peer.
LEMMA PicksAreApart ==
    ASSUME campaign.channel = "vk",
           NEW c \in Picks(crm, campaign), NEW x \in Picks(crm, campaign),
           crm.chat[c] = crm.chat[x]
    PROVE  c = x
<1>1. c \in Targets(crm, campaign) /\ x \in Targets(crm, campaign) /\ c \in Nat /\ x \in Nat
  BY AudienceAssumption DEF Picks, Targets
<1>2. c <= x /\ x <= c
  BY <1>1 DEF Picks
<1>. QED  BY <1>1, <1>2

LEMMA QueueAudienceKeeps ==
    ASSUME IInv, NEW d \in Requests, QueueAudience(d)
    PROVE  IInv'
<1>. DEFINE new == Queued(Snapshot(d))
<1>1. CASE PeerClash(rows, new)
  BY <1>1, DieKeeps DEF QueueAudience
<1>2. CASE ~PeerClash(rows, new)
  <2>1. /\ req' = [req EXCEPT ![d].pc = "reporting", ![d].text = Snapshot(d), ![d].fresh = new]
        /\ UNCHANGED <<campaign, rows, crm, asked, changes>>
        /\ ~Waits(d, new) /\ req[d].pc = "launched"
    BY <1>2 DEF QueueAudience
  <2>2. Snapshot(d) \in Contents
    BY DEF IInv, TypeOK, Campaigns, Snapshot
  <2>3. /\ new \in RowTable
        /\ \A c \in Contacts : Taken(new[c]) =>
              c \in Picks(crm, campaign) /\ new[c].peer = crm.chat[c]
    BY <2>2, PassOne DEF IInv, TypeOK
  <2>. HIDE DEF new
  <2>4. TypeOK'
    <3>1. req' = [req EXCEPT ![d] = [@ EXCEPT !.pc = "reporting", !.text = Snapshot(d),
                                              !.fresh = new]]
      BY <2>1 DEF IInv, TypeOK
    <3>. QED  BY <2>1, <2>2, <2>3, <3>1 DEF IInv, TypeOK
  <2>5. /\ req'[d].pc = "reporting" /\ req'[d].text \in Contents /\ req'[d].fresh = new
        /\ \A e \in Requests \ {d} : req'[e] = req[e]
    BY <2>1, <2>2 DEF IInv, TypeOK
  <2>6. campaign.status # "draft"
    BY <2>1 DEF IInv, RequestsAreSane
  <2>7. RequestsAreSane'
    <3>1. ASSUME NEW e \in Requests \ {d}
          PROVE  /\ req'[e].pc \in {"launched", "reporting"} => campaign'.status # "draft"
                 /\ req'[e].pc = "reporting" => req'[e].text \in Contents
                 /\ req'[e].pc # "reporting" => req'[e].fresh = NoRows
      BY <2>1, <2>5 DEF IInv, RequestsAreSane
    <3>2. campaign'.status # "draft"
      BY <2>1, <2>6
    <3>. QED  BY <2>5, <3>1, <3>2 DEF RequestsAreSane
  <2>8. DraftHasNoRows' /\ TestGateHolds' /\ OnePeerOneRow'
    BY <2>1 DEF IInv, DraftHasNoRows, TestGateHolds, OnePeerOneRow
  <2>9. EnteringIsGated'
    <3>. SUFFICES ASSUME campaign.testMode, NEW e \in Requests, NEW c \in Contacts,
                         Taken(req'[e].fresh[c])
                  PROVE  c \in campaign.allowed
      BY <2>1 DEF EnteringIsGated
    <3>1. CASE e = d
      BY <2>3, <2>5, <3>1, ScopeOfPasses DEF InScope
    <3>2. CASE e # d
      BY <2>5, <3>2 DEF IInv, EnteringIsGated
    <3>. QED  BY <3>1, <3>2
  <2>10. PeersStayApart'
    <3>. SUFFICES ASSUME campaign.channel = "vk", NEW e \in Requests, NEW c \in Contacts,
                         Taken(req'[e].fresh[c]), ~Taken(rows[c])
                  PROVE  /\ \A x \in Contacts : Taken(rows[x]) => rows[x].peer # req'[e].fresh[c].peer
                         /\ \A f \in Requests, x \in Contacts :
                               /\ Taken(req'[f].fresh[x]) /\ ~Taken(rows[x])
                               /\ req'[f].fresh[x].peer = req'[e].fresh[c].peer
                               => f = e /\ x = c
      BY <2>1 DEF PeersStayApart, Entering
    <3>1. ASSUME NEW x \in Contacts, Taken(rows[x])
          PROVE  rows[x].peer # req'[e].fresh[c].peer
      <4>1. CASE e = d
        BY <1>2, <2>5, <3>1, <4>1 DEF PeerClash
      <4>2. CASE e # d
        BY <2>5, <3>1, <4>2 DEF IInv, PeersStayApart, Entering
      <4>. QED  BY <4>1, <4>2
    <3>2. ASSUME NEW f \in Requests, NEW x \in Contacts, Taken(req'[f].fresh[x]), ~Taken(rows[x]),
                 req'[f].fresh[x].peer = req'[e].fresh[c].peer
          PROVE  f = e /\ x = c
      <4>1. CASE e = d /\ f = d
        BY <2>3, <2>5, <3>2, <4>1, PicksAreApart
      <4>2. CASE e = d /\ f # d
        BY <2>1, <2>5, <3>2, <4>2 DEF Waits
      <4>3. CASE e # d /\ f = d
        <5>1. /\ e \in Requests \ {d} /\ req'[e].fresh = req[e].fresh /\ req'[f].fresh = new
          BY <2>5, <4>3
        <5>2. /\ Taken(new[x]) /\ ~Taken(rows[x]) /\ Taken(req[e].fresh[c]) /\ ~Taken(rows[c])
              /\ req[e].fresh[c].peer = new[x].peer
          BY <3>2, <5>1
        <5>. QED  BY <2>1, <5>1, <5>2 DEF Waits
      <4>4. CASE e # d /\ f # d
        BY <2>5, <3>2, <4>4 DEF IInv, PeersStayApart, Entering
      <4>. QED  BY <4>1, <4>2, <4>3, <4>4
    <3>. QED  BY <3>1, <3>2
  <2>. QED  BY <2>4, <2>7, <2>8, <2>9, <2>10 DEF IInv
<1>. QED  BY <1>1, <1>2

\* What COMMIT leaves in the table, contact by contact.
LEMMA CommittedRows ==
    ASSUME IInv, NEW d \in Requests, NEW S, S \in Absorbed(Insert(rows, req[d].fresh)),
           req[d].pc = "reporting",
           rows' = Insert(Insert(rows, req[d].fresh), Reported(S, req[d].text))
    PROVE  /\ S \subseteq Exclusions(crm, campaign) /\ S \subseteq Contacts
           /\ rows' \in RowTable
           /\ \A c \in Contacts :
                 \/ Taken(rows[c]) /\ rows'[c] = rows[c] /\ c \notin S
                 \/ Entering(d, c) /\ rows'[c] = req[d].fresh[c] /\ c \notin S
                 \/ /\ ~Taken(rows[c]) /\ ~Entering(d, c) /\ c \in S
                    /\ Taken(rows'[c]) /\ rows'[c].peer = crm.chat[c]
                 \/ ~Taken(rows[c]) /\ ~Entering(d, c) /\ ~Taken(rows'[c]) /\ c \notin S
<1>. DEFINE old == Insert(rows, req[d].fresh)
            new == Reported(S, req[d].text)
<1>1. req[d].text \in Contents /\ rows \in RowTable /\ req[d].fresh \in RowTable /\ crm \in Crm
  BY DEF IInv, TypeOK, RequestsAreSane
<1>2. /\ old \in RowTable
      /\ \A c \in Contacts : /\ Taken(rows[c]) => old[c] = rows[c]
                             /\ ~Taken(rows[c]) => old[c] = req[d].fresh[c]
  BY <1>1, InsertKeeps
<1>3. S \subseteq Exclusions(crm, campaign) /\ \A c \in S : ~Taken(old[c])
  BY DEF Absorbed
<1>4. S \subseteq Contacts
  BY <1>3 DEF Exclusions
<1>5. /\ new \in RowTable
      /\ \A c \in Contacts : /\ Taken(new[c]) <=> c \in S
                             /\ Taken(new[c]) => new[c].peer = crm.chat[c]
  BY <1>1, <1>4, PassTwo
<1>6. /\ rows' \in RowTable
      /\ \A c \in Contacts : /\ Taken(old[c]) => rows'[c] = old[c]
                             /\ ~Taken(old[c]) => rows'[c] = new[c]
  BY <1>2, <1>5, InsertKeeps
<1>. HIDE DEF old, new
<1>. QED  BY <1>2, <1>3, <1>4, <1>5, <1>6 DEF Entering

\* ON CONFLICT DO NOTHING on VK: an exclusion row takes a peer that no other
\* row has, and no two of them the same one.
LEMMA AbsorbedIsApart ==
    ASSUME campaign.channel = "vk", NEW old, NEW S \in Absorbed(old)
    PROVE  /\ \A c \in S, x \in Contacts : Taken(old[x]) => old[x].peer # crm.chat[c]
           /\ \A c, x \in S : crm.chat[c] = crm.chat[x] => c = x
<1>. DEFINE free == {c \in Exclusions(crm, campaign) :
                        ~Taken(old[c]) /\ \A x \in Contacts :
                            Taken(old[x]) => old[x].peer # crm.chat[c]}
<1>1. /\ S \subseteq free
      /\ \A c \in free : \E x \in S : \A y \in S : crm.chat[y] = crm.chat[c] <=> y = x
  BY DEF Absorbed
<1>2. ASSUME NEW c \in S, NEW x \in S, crm.chat[c] = crm.chat[x]
      PROVE  c = x
  <2>1. PICK w \in S : \A y \in S : crm.chat[y] = crm.chat[c] <=> y = w
    BY <1>1
  <2>2. c = w /\ x = w
    BY <1>2, <2>1
  <2>. QED  BY <2>2
<1>. QED  BY <1>1, <1>2

LEMMA ReportExclusionsKeeps ==
    ASSUME IInv, NEW d \in Requests, ReportExclusions(d)
    PROVE  IInv'
<1>. DEFINE old == Insert(rows, req[d].fresh)
<1>1. /\ req[d].pc = "reporting" /\ req' = [req EXCEPT ![d] = NoRequest]
      /\ UNCHANGED <<campaign, crm, asked, changes>>
  BY DEF ReportExclusions
<1>2. PICK S \in Absorbed(old) :
         /\ ~Waits(d, Reported(S, req[d].text))
         /\ rows' = Insert(old, Reported(S, req[d].text))
  BY DEF ReportExclusions
<1>3. /\ S \subseteq Exclusions(crm, campaign) /\ S \subseteq Contacts
      /\ rows' \in RowTable
      /\ \A c \in Contacts :
            \/ Taken(rows[c]) /\ rows'[c] = rows[c] /\ c \notin S
            \/ Entering(d, c) /\ rows'[c] = req[d].fresh[c] /\ c \notin S
            \/ /\ ~Taken(rows[c]) /\ ~Entering(d, c) /\ c \in S
               /\ Taken(rows'[c]) /\ rows'[c].peer = crm.chat[c]
            \/ ~Taken(rows[c]) /\ ~Entering(d, c) /\ ~Taken(rows'[c]) /\ c \notin S
  BY <1>1, <1>2, CommittedRows
<1>4. /\ req'[d] = NoRequest /\ \A c \in Contacts : ~Taken(req'[d].fresh[c])
      /\ \A e \in Requests \ {d} : req'[e] = req[e]
  BY <1>1, NoRequestType, EmptyTable DEF IInv, TypeOK
<1>5. TypeOK'
  BY <1>1, <1>3, NoRequestType DEF IInv, TypeOK
<1>6. campaign'.status # "draft"
  BY <1>1 DEF IInv, RequestsAreSane
<1>7. DraftHasNoRows' /\ RequestsAreSane'
  <2>1. ASSUME NEW e \in Requests
        PROVE  /\ req'[e].pc \in {"launched", "reporting"} => campaign'.status # "draft"
               /\ req'[e].pc = "reporting" => req'[e].text \in Contents
               /\ req'[e].pc # "reporting" => req'[e].fresh = NoRows
    BY <1>1, <1>4, NoRequestType DEF IInv, RequestsAreSane
  <2>. QED  BY <1>6, <2>1 DEF DraftHasNoRows, RequestsAreSane
<1>8. TestGateHolds'
  <2>. SUFFICES ASSUME campaign.testMode, NEW c \in Contacts, Taken(rows'[c])
                PROVE  c \in campaign.allowed
    BY <1>1 DEF TestGateHolds
  <2>1. CASE Taken(rows[c])
    BY <2>1 DEF IInv, TestGateHolds
  <2>2. CASE Entering(d, c)
    BY <2>2 DEF IInv, EnteringIsGated, Entering
  <2>3. CASE c \in S
    BY <1>3, <2>3, ScopeOfPasses DEF InScope
  <2>. QED  BY <1>3, <2>1, <2>2, <2>3
<1>9. EnteringIsGated'
  <2>. SUFFICES ASSUME campaign.testMode, NEW e \in Requests, NEW c \in Contacts,
                       Taken(req'[e].fresh[c])
                PROVE  c \in campaign.allowed
    BY <1>1 DEF EnteringIsGated
  <2>. QED  BY <1>4 DEF IInv, EnteringIsGated
<1>10. OnePeerOneRow'
  <2>. SUFFICES ASSUME campaign.channel = "vk", NEW c \in Contacts, NEW x \in Contacts,
                       Taken(rows'[c]), Taken(rows'[x]), rows'[c].peer = rows'[x].peer
                PROVE  c = x
    BY <1>1 DEF OnePeerOneRow
  <2>1. ASSUME NEW y \in Contacts, NEW z \in S, Taken(rows[y]) \/ Entering(d, y)
        PROVE  rows'[y].peer # rows'[z].peer
    <3>1. Taken(old[y]) /\ old[y] = rows'[y]
      BY <1>3, <2>1 DEF Entering, Insert
    <3>2. rows'[z].peer = crm.chat[z]
      BY <1>3
    <3>. QED  BY <3>1, <3>2, AbsorbedIsApart
  <2>2. ASSUME NEW y \in Contacts, NEW z \in Contacts, Taken(rows[y]), Entering(d, z)
        PROVE  rows'[y].peer # rows'[z].peer
    <3>1. rows'[y] = rows[y] /\ rows'[z] = req[d].fresh[z]
      BY <1>3, <2>2 DEF Entering
    <3>. QED  BY <2>2, <3>1 DEF IInv, PeersStayApart
  <2>3. CASE c \in S /\ x \in S
    BY <1>3, <2>3, AbsorbedIsApart
  <2>4. CASE Taken(rows[c]) /\ Taken(rows[x])
    <3>1. rows'[c] = rows[c] /\ rows'[x] = rows[x]
      BY <1>3, <2>4 DEF Entering
    <3>. QED  BY <2>4, <3>1 DEF IInv, OnePeerOneRow
  <2>5. CASE Entering(d, c) /\ Entering(d, x)
    <3>1. rows'[c] = req[d].fresh[c] /\ rows'[x] = req[d].fresh[x]
      BY <1>3, <2>5 DEF Entering
    <3>. QED  BY <2>5, <3>1 DEF IInv, PeersStayApart
  <2>. QED  BY <1>3, <2>1, <2>2, <2>3, <2>4, <2>5
<1>11. PeersStayApart'
  <2>. SUFFICES ASSUME campaign.channel = "vk", NEW e \in Requests, NEW c \in Contacts,
                       Entering(e, c)'
                PROVE  /\ \A x \in Contacts : Taken(rows'[x]) => rows'[x].peer # req'[e].fresh[c].peer
                       /\ \A f \in Requests, x \in Contacts :
                             Entering(f, x)' /\ req'[f].fresh[x].peer = req'[e].fresh[c].peer
                             => f = e /\ x = c
    BY <1>1 DEF PeersStayApart
  <2>1. ASSUME NEW f \in Requests, NEW x \in Contacts, Entering(f, x)'
        PROVE  f # d /\ req'[f] = req[f] /\ Entering(f, x)
    BY <1>3, <1>4, <2>1 DEF Entering
  <2>2. e # d /\ req'[e] = req[e] /\ Entering(e, c)
    BY <2>1
  <2>3. ASSUME NEW x \in Contacts, Taken(rows'[x])
        PROVE  rows'[x].peer # req'[e].fresh[c].peer
    <3>1. CASE Taken(rows[x])
      BY <1>3, <2>2, <3>1 DEF IInv, PeersStayApart, Entering
    <3>2. CASE Entering(d, x)
      <4>1. rows'[x] = req[d].fresh[x]
        BY <1>3, <3>2 DEF Entering
      <4>. QED  BY <2>2, <3>2, <4>1 DEF IInv, PeersStayApart
    <3>3. CASE x \in S
      <4>1. req[d].text \in Contents /\ crm \in Crm
        BY <1>1 DEF IInv, TypeOK, RequestsAreSane
      <4>2. /\ Taken(Reported(S, req[d].text)[x])
            /\ Reported(S, req[d].text)[x].peer = crm.chat[x]
        BY <1>3, <3>3, <4>1, PassTwo
      <4>3. ~Taken(rows[x]) /\ rows'[x].peer = crm.chat[x]
        BY <1>3, <3>3
      <4>. QED  BY <1>2, <2>2, <4>2, <4>3 DEF Waits, Entering
    <3>. QED  BY <1>3, <2>3, <3>1, <3>2, <3>3
  <2>4. ASSUME NEW f \in Requests, NEW x \in Contacts, Entering(f, x)',
               req'[f].fresh[x].peer = req'[e].fresh[c].peer
        PROVE  f = e /\ x = c
    BY <2>1, <2>2, <2>4 DEF IInv, PeersStayApart
  <2>. QED  BY <2>3, <2>4
<1>. QED  BY <1>5, <1>7, <1>8, <1>9, <1>10, <1>11 DEF IInv

LEMMA CrmChangesKeeps ==
    ASSUME IInv, CrmChanges
    PROVE  IInv'
<1>1. req' = Stirred /\ UNCHANGED <<campaign, rows, asked>> /\ changes' = changes + 1
  BY DEF CrmChanges
<1>2. crm' \in Crm
  <2>1. crm \in Crm
    BY DEF IInv, TypeOK
  <2>2. ASSUME NEW c \in Contacts, NEW p \in Peers
        PROVE  NewDialog(c, p) \in Crm /\ Unsubscribe(c, p) \in Crm
    <3>1. NewDialog(c, p) \in Crm
      BY <2>1 DEF Crm, NewDialog
    <3>2. [crm.consent EXCEPT ![p] = IF @ = "none" THEN @ ELSE "denied"]
             \in [Peers -> {"none", "wrote", "allowed", "denied"}]
      BY <2>1 DEF Crm
    <3>. QED  BY <2>1, <3>1, <3>2 DEF Crm, Unsubscribe
  <2>3. \A c \in Contacts : Suppress(c) \in Crm
    BY <2>1 DEF Crm, Suppress
  <2>4. \A p \in Peers : FirstMessage(p) \in Crm /\ Allow(p) \in Crm /\ Deny(p) \in Crm
    BY <2>1 DEF Crm, FirstMessage, Allow, Deny
  <2>. QED  BY <2>2, <2>3, <2>4 DEF CrmChanges
<1>3. TypeOK'
  BY <1>1, <1>2, StirredType DEF IInv, TypeOK
<1>4. \A d \in Requests : /\ req'[d].pc = req[d].pc /\ req'[d].fresh = req[d].fresh
                          /\ req'[d].text = req[d].text
  BY <1>1, StirredType DEF IInv
<1>5. RequestsAreSane' /\ DraftHasNoRows'
  BY <1>1, <1>4 DEF IInv, RequestsAreSane, DraftHasNoRows
<1>6. TestGateHolds' /\ EnteringIsGated' /\ OnePeerOneRow' /\ PeersStayApart'
  BY <1>1, <1>4, Withdrawn
<1>. QED  BY <1>3, <1>5, <1>6 DEF IInv

LEMMA StepKeeps == IInv /\ [Next]_vars => IInv'
<1>. SUFFICES ASSUME IInv, [Next]_vars PROVE IInv'
  OBVIOUS
<1>1. ASSUME NEW d \in Requests, RequestStep(d)
      PROVE  IInv'
  <2>1. CASE Die(d)
    BY <2>1, DieKeeps DEF Die
  <2>. QED  BY <1>1, <2>1, BeginKeeps, StorePayloadKeeps, CheckCapKeeps, LaunchKeeps,
               QueueAudienceKeeps, ReportExclusionsKeeps DEF RequestStep
<1>2. CASE UNCHANGED vars
  <2>1. TypeOK'
    BY <1>2 DEF vars, IInv, TypeOK
  <2>2. RequestsAreSane' /\ DraftHasNoRows'
    BY <1>2 DEF vars, IInv, RequestsAreSane, DraftHasNoRows
  <2>3. TestGateHolds' /\ EnteringIsGated' /\ OnePeerOneRow' /\ PeersStayApart'
    BY <1>2, Withdrawn DEF vars
  <2>. QED  BY <2>1, <2>2, <2>3 DEF IInv
<1>. QED  BY <1>1, <1>2, EditDraftKeeps, RelabelKeeps, GoLiveKeeps, AskStatusKeeps,
             WriteStatusKeeps, CrmChangesKeeps DEF Next

\* Two concurrent launches, an edit, a go-live and a change of the CRM find each
\* other as the invariant says, in every interleaving.
THEOREM LaunchInvariance == Spec => []IInv
  BY InitEstablishes, StepKeeps, PTL DEF Spec

-----------------------------------------------------------------------------
(* What follows from the invariant. *)

\* Every variable keeps its type; a row that exists has content of the campaign.
THEOREM LaunchTypes == Spec => []TypeOK
<1>1. IInv => TypeOK
  BY DEF IInv
<1>. QED  BY <1>1, LaunchInvariance, PTL

\* Before go-live no contact outside the campaign's allow list ever has a row.
THEOREM TestGate == Spec => []TestGateHolds
<1>1. IInv => TestGateHolds
  BY DEF IInv
<1>. QED  BY <1>1, LaunchInvariance, PTL

\* Recipients exist only once the campaign can no longer be edited.
THEOREM NoRowsInDraft == Spec => []DraftHasNoRows
<1>1. IInv => DraftHasNoRows
  BY DEF IInv
<1>. QED  BY <1>1, LaunchInvariance, PTL

\* However often and concurrently a VK campaign is launched, a peer has one row.
THEOREM PeersAreUnique == Spec => []OnePeerOneRow
<1>1. IInv => OnePeerOneRow
  BY DEF IInv
<1>. QED  BY <1>1, LaunchInvariance, PTL

\* A row, once committed, is never written by a launch again.
THEOREM RowsStay == Spec => RowsAreFrozen
<1>. DEFINE Frozen == \A c \in Contacts : Taken(rows[c]) => rows'[c] = rows[c]
<1>1. TypeOK /\ [Next]_vars => [Frozen]_rows
  <2>. SUFFICES ASSUME TypeOK, [Next]_vars, rows' # rows PROVE Frozen
    OBVIOUS
  <2>1. \E d \in Requests : ReportExclusions(d)
    BY DEF Next, vars, EditDraft, Relabel, GoLive, AskStatus, WriteStatus, RequestStep, Begin,
           StorePayload, CheckCap, Launch, QueueAudience, Die, CrmChanges
  <2>2. PICK d \in Requests : \E new : rows' = Insert(Insert(rows, req[d].fresh), new)
    BY <2>1 DEF ReportExclusions
  <2>3. PICK new : rows' = Insert(Insert(rows, req[d].fresh), new)
    BY <2>2
  <2>. QED  BY <2>3 DEF Insert
<1>. QED  BY <1>1, LaunchTypes, PTL DEF Spec, RowsAreFrozen

-----------------------------------------------------------------------------
(* The funnel. *)

\* A nonempty set of natural numbers has a least element.
LEMMA LeastElement ==
    ASSUME NEW T \in SUBSET Nat, T # {}
    PROVE  \E m \in T : \A y \in T : m <= y
<1>1. PICK m \in T : \A y \in T : <<y, m>> \notin OpToRel(<, Nat)
  BY WFMin, NatLessThanWellFounded, Zenon
<1>2. \A y \in T : ~(y < m)
  BY <1>1, Zenon DEF OpToRel
<1>. QED  BY <1>2

\* While no CRM change and no go-live has come in between, the rows of an open
\* transaction are what pass 1 would insert now.
CalmIsFresh ==
    \A d \in Requests :
        req[d].pc = "reporting" /\ req[d].calm => req[d].fresh = Queued(req[d].text)

\* Content and status of a campaign do not enter its audience.
LEMMA SameAudience ==
    ASSUME campaign'.channel = campaign.channel, campaign'.filter = campaign.filter,
           campaign'.testMode = campaign.testMode, campaign'.allowed = campaign.allowed,
           UNCHANGED crm
    PROVE  Picks(crm, campaign)' = Picks(crm, campaign)
<1>1. \A c \in Contacts : InScope(campaign', c) <=> InScope(campaign, c)
  BY DEF InScope
<1>2. Targets(crm, campaign)' = Targets(crm, campaign)
  BY <1>1 DEF Targets
<1>. QED  BY <1>2 DEF Picks

LEMMA CalmInit == Init => CalmIsFresh
  BY DEF Init, CalmIsFresh, NoRequest

LEMMA CalmStep ==
    ASSUME IInv, CalmIsFresh, [Next]_vars
    PROVE  CalmIsFresh'
<1>. DEFINE SameCampaign ==
              /\ campaign'.channel = campaign.channel /\ campaign'.filter = campaign.filter
              /\ campaign'.testMode = campaign.testMode /\ campaign'.allowed = campaign.allowed
              /\ UNCHANGED crm
            Quiet(d) == req'[d].pc = "reporting" => req'[d] = req[d]
<1>1. ASSUME SameCampaign, NEW d \in Requests, Quiet(d), req'[d].pc = "reporting", req'[d].calm
      PROVE  req'[d].fresh = Queued(req[d].text)'
  <2>1. req'[d] = req[d] /\ req[d].fresh = Queued(req[d].text)
    BY <1>1 DEF CalmIsFresh
  <2>. QED  BY <1>1, <2>1, SameAudience DEF Queued
<1>2. ASSUME SameCampaign, NEW e \in Requests, Quiet(e), \A d \in Requests \ {e} : req'[d] = req[d]
      PROVE  CalmIsFresh'
  BY <1>1, <1>2 DEF CalmIsFresh
<1>3. ASSUME SameCampaign, UNCHANGED req
      PROVE  CalmIsFresh'
  BY <1>1, <1>3 DEF CalmIsFresh
<1>4. ASSUME req' = Stirred
      PROVE  CalmIsFresh'
  <2>1. \A d \in Requests : req'[d].pc = req[d].pc
    BY <1>4, StirredType DEF IInv
  <2>2. \A d \in Requests : req[d].pc = "reporting" => req'[d].calm = FALSE
    BY <1>4 DEF Stirred, IInv, TypeOK
  <2>. QED  BY <2>1, <2>2 DEF CalmIsFresh
<1>5. CASE \E e \in Drafts, p \in Contents : EditDraft(e, p)
  <2>1. campaign.status = "draft" /\ req' = req
    BY <1>5 DEF EditDraft
  <2>. QED  BY <2>1 DEF IInv, RequestsAreSane, CalmIsFresh
<1>10. ASSUME NEW label \in Labels, Relabel(label) PROVE CalmIsFresh'
  BY <1>3, <1>10, Relabelled DEF IInv, TypeOK
<1>6. CASE GoLive \/ CrmChanges
  BY <1>4, <1>6 DEF GoLive, CrmChanges
<1>7. CASE WriteStatus \/ \E s \in DOMAIN Transitions : AskStatus(s)
  BY <1>3, <1>7 DEF WriteStatus, AskStatus, IInv, TypeOK, Campaigns
<1>8. CASE UNCHANGED vars
  BY <1>3, <1>8 DEF vars
<1>9. ASSUME NEW e \in Requests, RequestStep(e)
      PROVE  CalmIsFresh'
  <2>1. CASE StorePayload(e)
    <3>1. SameCampaign
      BY <2>1 DEF StorePayload, IInv, TypeOK, Campaigns
    <3>2. req'[e].pc = "stored" /\ \A d \in Requests \ {e} : req'[d] = req[d]
      BY <2>1 DEF StorePayload, IInv, TypeOK
    <3>. QED  BY <1>2, <3>1, <3>2
  <2>2. CASE Launch(e)
    <3>1. SameCampaign
      BY <2>2 DEF Launch, Activated, IInv, TypeOK, Campaigns
    <3>2. req'[e].pc # "reporting" /\ \A d \in Requests \ {e} : req'[d] = req[d]
      BY <2>2 DEF Launch, IInv, TypeOK, NoRequest
    <3>. QED  BY <1>2, <3>1, <3>2
  <2>3. CASE \/ \E body \in Contents \cup {None} : Begin(e, body)
             \/ CheckCap(e) \/ ReportExclusions(e) \/ Die(e)
    <3>1. SameCampaign
      BY <2>3 DEF Begin, CheckCap, ReportExclusions, Die
    <3>2. \/ \E body \in Contents \cup {None} : \E seen :
                req' = [req EXCEPT ![e].pc = "guarded", ![e].body = body, ![e].seen = seen]
          \/ req' = [req EXCEPT ![e].pc = "checked", ![e].seen = None]
          \/ req' = [req EXCEPT ![e] = NoRequest]
      BY <2>3 DEF Begin, CheckCap, ReportExclusions, Die
    <3>3. req'[e].pc # "reporting" /\ \A d \in Requests \ {e} : req'[d] = req[d]
      <4>1. ASSUME NEW body, NEW seen,
                   req' = [req EXCEPT ![e].pc = "guarded", ![e].body = body, ![e].seen = seen]
            PROVE  req'[e].pc # "reporting" /\ \A d \in Requests \ {e} : req'[d] = req[d]
        BY <4>1 DEF IInv, TypeOK
      <4>2. CASE req' = [req EXCEPT ![e].pc = "checked", ![e].seen = None]
        BY <4>2 DEF IInv, TypeOK
      <4>3. CASE req' = [req EXCEPT ![e] = NoRequest]
        BY <4>3, NoRequestType DEF IInv, TypeOK
      <4>. QED  BY <3>2, <4>1, <4>2, <4>3
    <3>. QED  BY <1>2, <3>1, <3>3
  <2>4. CASE QueueAudience(e)
    <3>1. CASE PeerClash(rows, Queued(Snapshot(e)))
      <4>1. req' = [req EXCEPT ![e] = NoRequest] /\ SameCampaign
        BY <2>4, <3>1 DEF QueueAudience
      <4>2. req'[e].pc # "reporting" /\ \A d \in Requests \ {e} : req'[d] = req[d]
        BY <4>1, NoRequestType DEF IInv, TypeOK
      <4>. QED  BY <1>2, <4>1, <4>2
    <3>2. CASE ~PeerClash(rows, Queued(Snapshot(e)))
      <4>1. /\ req' = [req EXCEPT ![e].pc = "reporting", ![e].text = Snapshot(e),
                                  ![e].fresh = Queued(Snapshot(e))]
            /\ UNCHANGED <<campaign, crm>>
        BY <2>4, <3>2 DEF QueueAudience
      <4>2. /\ req'[e].text = Snapshot(e) /\ req'[e].fresh = Queued(Snapshot(e))
            /\ \A d \in Requests \ {e} : req'[d] = req[d]
        BY <4>1 DEF IInv, TypeOK
      <4>3. req'[e].fresh = Queued(req[e].text)'
        BY <4>1, <4>2, SameAudience DEF Queued
      <4>4. ASSUME NEW d \in Requests \ {e}, req'[d].pc = "reporting", req'[d].calm
            PROVE  req'[d].fresh = Queued(req[d].text)'
        BY <1>1, <4>1, <4>2, <4>4
      <4>. QED  BY <4>3, <4>4 DEF CalmIsFresh
    <3>. QED  BY <3>1, <3>2
  <2>. QED  BY <1>9, <2>1, <2>2, <2>3, <2>4 DEF RequestStep
<1>. QED  BY <1>5, <1>6, <1>7, <1>8, <1>9, <1>10 DEF Next

THEOREM CalmTransactions == Spec => []CalmIsFresh
<1>1. IInv /\ CalmIsFresh /\ [Next]_vars => CalmIsFresh'
  BY CalmStep
<1>. QED  BY <1>1, CalmInit, LaunchInvariance, PTL DEF Spec

\* Every deliverable contact of the segment is picked, or on VK a contact of the
\* same peer is.
LEMMA SomeonePicked ==
    ASSUME NEW c \in Targets(crm, campaign)
    PROVE  \E m \in Picks(crm, campaign) :
              m = c \/ (campaign.channel = "vk" /\ crm.chat[m] = crm.chat[c])
<1>1. CASE campaign.channel # "vk"
  BY <1>1 DEF Picks
<1>2. CASE campaign.channel = "vk"
  <2>. DEFINE T == {d \in Targets(crm, campaign) : crm.chat[d] = crm.chat[c]}
  <2>1. T \in SUBSET Nat /\ T # {}
    BY AudienceAssumption DEF Targets
  <2>2. PICK m \in T : \A y \in T : m <= y
    BY <2>1, LeastElement
  <2>3. m \in Picks(crm, campaign)
    BY <2>2 DEF Picks
  <2>. QED  BY <1>2, <2>2, <2>3
<1>. QED  BY <1>1, <1>2

\* No silent drop: unless the CRM changes between the passes, every contact of
\* the segment ends up with a row, or on VK behind a contact that has one.
THEOREM NobodyDropped == Spec => FunnelIsComplete
<1>. DEFINE HasRow(c) ==
              \/ Taken(rows'[c])
              \/ /\ campaign.channel = "vk"
                 /\ \E x \in Contacts :
                       Taken(rows'[x]) /\ crm.chat[c] \in {rows'[x].peer, crm.chat[x]}
            Complete == \A d \in Requests : ReportExclusions(d) /\ req[d].calm =>
                           \A c \in Contacts : InScope(campaign, c) => HasRow(c)
<1>1. ASSUME IInv, CalmIsFresh, NEW d \in Requests, ReportExclusions(d), req[d].calm,
             NEW c \in Contacts, InScope(campaign, c)
      PROVE  HasRow(c)
  <2>. DEFINE old == Insert(rows, req[d].fresh)
  <2>1. PICK S \in Absorbed(old) : rows' = Insert(old, Reported(S, req[d].text))
    BY <1>1 DEF ReportExclusions
  <2>2. /\ req[d].pc = "reporting" /\ req[d].text \in Contents
        /\ rows \in RowTable /\ req[d].fresh \in RowTable
        /\ req[d].fresh = Queued(req[d].text) /\ crm \in Crm /\ campaign \in Campaigns
    BY <1>1 DEF ReportExclusions, CalmIsFresh, IInv, TypeOK, RequestsAreSane
  <2>3. /\ S \subseteq Contacts
        /\ \A x \in Contacts :
              \/ Taken(rows[x]) /\ rows'[x] = rows[x] /\ x \notin S
              \/ Entering(d, x) /\ rows'[x] = req[d].fresh[x] /\ x \notin S
              \/ /\ ~Taken(rows[x]) /\ ~Entering(d, x) /\ x \in S
                 /\ Taken(rows'[x]) /\ rows'[x].peer = crm.chat[x]
              \/ ~Taken(rows[x]) /\ ~Entering(d, x) /\ ~Taken(rows'[x]) /\ x \notin S
    BY <1>1, <2>1, <2>2, CommittedRows
  <2>4. \A x \in Contacts : Taken(old[x]) => rows'[x] = old[x] /\ Taken(rows'[x])
    BY <2>3 DEF Insert, Entering
  <2>5. \A x \in Picks(crm, campaign) : x \in Contacts /\ Taken(rows'[x])
    <3>1. \A x \in Picks(crm, campaign) : x \in Contacts /\ Taken(req[d].fresh[x])
      BY <2>2, PassOne, ScopeOfPasses
    <3>. QED  BY <2>3, <3>1 DEF Entering
  <2>6. CASE Deliverable(crm, campaign.channel, c)
    <3>1. c \in Targets(crm, campaign)
      BY <1>1, <2>6 DEF Targets
    <3>2. PICK m \in Picks(crm, campaign) :
             m = c \/ (campaign.channel = "vk" /\ crm.chat[m] = crm.chat[c])
      BY <3>1, SomeonePicked
    <3>. QED  BY <2>5, <3>2
  <2>7. CASE ~Deliverable(crm, campaign.channel, c)
    <3>1. c \in Exclusions(crm, campaign)
      BY <1>1, <2>7 DEF Exclusions
    <3>2. CASE Taken(old[c])
      BY <2>4, <3>2
    <3>3. CASE ~Taken(old[c]) /\ campaign.channel # "vk"
      <4>1. c \in S
        BY <3>1, <3>3 DEF Absorbed
      <4>. QED  BY <2>3, <4>1
    <3>4. CASE campaign.channel = "vk" /\ \E x \in Contacts :
                  Taken(old[x]) /\ old[x].peer = crm.chat[c]
      BY <2>4, <3>4
    <3>5. CASE /\ ~Taken(old[c]) /\ campaign.channel = "vk"
               /\ \A x \in Contacts : Taken(old[x]) => old[x].peer # crm.chat[c]
      <4>1. PICK x \in S : \A y \in S : crm.chat[y] = crm.chat[c] <=> y = x
        BY <3>1, <3>5 DEF Absorbed
      <4>2. crm.chat[x] = crm.chat[c] /\ x \in Contacts /\ Taken(rows'[x])
        BY <2>3, <4>1
      <4>. QED  BY <3>5, <4>2
    <3>. QED  BY <3>2, <3>3, <3>4, <3>5
  <2>. QED  BY <2>6, <2>7
<1>2. IInv /\ CalmIsFresh /\ [Next]_vars => [Complete]_vars
  BY <1>1
<1>3. [][Complete]_vars <=> FunnelIsComplete
  BY DEF FunnelIsComplete
<1>. QED  BY <1>2, <1>3, LaunchInvariance, CalmTransactions, PTL DEF Spec

-----------------------------------------------------------------------------
(* The text of a launch. *)

\* An open transaction keeps its text and rows, or has just taken both from the
\* campaign as pass 1 found it.
LEMMA TransactionsKeepText ==
    ASSUME IInv, [Next]_vars, NEW d \in Requests, req'[d].pc = "reporting"
    PROVE  \/ /\ req[d].pc = "reporting"
              /\ req'[d].text = req[d].text /\ req'[d].fresh = req[d].fresh
           \/ req'[d].text = Snapshot(d) /\ req'[d].fresh = Queued(Snapshot(d))
<1>. DEFINE Kept == /\ req[d].pc = "reporting"
                    /\ req'[d].text = req[d].text /\ req'[d].fresh = req[d].fresh
            Taking == req'[d].text = Snapshot(d) /\ req'[d].fresh = Queued(Snapshot(d))
<1>1. ASSUME req'[d] = req[d] PROVE Kept
  BY <1>1
<1>2. CASE req' = Stirred
  BY <1>2, StirredType DEF IInv, Stirred, TypeOK
<1>3. CASE \/ (\E e \in Drafts, p \in Contents : EditDraft(e, p))
           \/ (\E label \in Labels : Relabel(label))
           \/ WriteStatus \/ (\E s \in DOMAIN Transitions : AskStatus(s)) \/ UNCHANGED vars
  BY <1>1, <1>3 DEF EditDraft, Relabel, WriteStatus, AskStatus, vars
<1>4. CASE GoLive \/ CrmChanges
  BY <1>2, <1>4 DEF GoLive, CrmChanges
<1>5. ASSUME NEW e \in Requests, RequestStep(e) PROVE Kept \/ Taking
  <2>1. CASE e # d
    <3>1. req'[d] = req[d]
      BY <1>5, <2>1 DEF RequestStep, Begin, StorePayload, CheckCap, Launch, QueueAudience,
                        ReportExclusions, Die, IInv, TypeOK
    <3>. QED  BY <1>1, <3>1
  <2>2. CASE e = d /\ ~QueueAudience(d)
    <3>0. CASE req' = [req EXCEPT ![d] = NoRequest]
      BY <3>0, NoRequestType DEF IInv, TypeOK
    <3>1. ASSUME NEW body \in Contents \cup {None}, Begin(d, body) PROVE req'[d].pc # "reporting"
      BY <3>1 DEF Begin, IInv, TypeOK
    <3>2. CASE StorePayload(d)
      BY <3>2 DEF StorePayload, IInv, TypeOK
    <3>3. CASE CheckCap(d)
      BY <3>0, <3>3 DEF CheckCap, IInv, TypeOK
    <3>4. CASE Launch(d)
      BY <3>0, <3>4 DEF Launch, IInv, TypeOK
    <3>5. CASE ReportExclusions(d) \/ Die(d)
      BY <3>0, <3>5 DEF ReportExclusions, Die
    <3>. QED  BY <1>5, <2>2, <3>1, <3>2, <3>3, <3>4, <3>5 DEF RequestStep
  <2>3. CASE QueueAudience(d)
    <3>1. CASE PeerClash(rows, Queued(Snapshot(d)))
      <4>1. req' = [req EXCEPT ![d] = NoRequest]
        BY <2>3, <3>1 DEF QueueAudience
      <4>. QED  BY <4>1, NoRequestType DEF IInv, TypeOK
    <3>2. CASE ~PeerClash(rows, Queued(Snapshot(d)))
      <4>1. req' = [req EXCEPT ![d].pc = "reporting", ![d].text = Snapshot(d),
                               ![d].fresh = Queued(Snapshot(d))]
        BY <2>3, <3>2 DEF QueueAudience
      <4>2. Taking
        BY <4>1 DEF IInv, TypeOK
      <4>. QED  BY <4>2
    <3>. QED  BY <3>1, <3>2
  <2>. QED  BY <2>1, <2>2, <2>3
<1>. QED  BY <1>3, <1>4, <1>5 DEF Next

\* What an open transaction has queued carries the text its exclusions will carry.
THEOREM FreshTexts == Spec => []FreshRowsAgree
<1>1. Init => FreshRowsAgree
  BY DEF Init, FreshRowsAgree, NoRequest
<1>2. IInv /\ FreshRowsAgree /\ [Next]_vars => FreshRowsAgree'
  <2>. SUFFICES ASSUME IInv, FreshRowsAgree, [Next]_vars, NEW d \in Requests, NEW c \in Contacts,
                       req'[d].pc = "reporting", Taken(req'[d].fresh[c])
                PROVE  req'[d].fresh[c].content = req'[d].text
    BY DEF FreshRowsAgree, Taken
  <2>1. CASE /\ req[d].pc = "reporting"
             /\ req'[d].text = req[d].text /\ req'[d].fresh = req[d].fresh
    BY <2>1 DEF FreshRowsAgree
  <2>2. CASE req'[d].text = Snapshot(d) /\ req'[d].fresh = Queued(Snapshot(d))
    <3>1. req'[d].fresh[c] = Row("queued", crm.chat[c], Snapshot(d)) \/ req'[d].fresh[c] = NoRow
      BY <2>2 DEF Queued
    <3>. QED  BY <2>2, <3>1 DEF Row, NoRow, Taken
  <2>. QED  BY <2>1, <2>2, TransactionsKeepText
<1>. QED  BY <1>1, <1>2, LaunchInvariance, PTL DEF Spec

\* A commit leaves the rows that are there, and writes one text into the others.
LEMMA CommitKeepsText ==
    ASSUME IInv, FreshRowsAgree, NEW d \in Requests, ReportExclusions(d), NEW c \in Contacts
    PROVE  /\ Taken(rows[c]) => rows'[c] = rows[c]
           /\ ~Taken(rows[c]) /\ Taken(rows'[c]) => rows'[c].content = req[d].text
<1>1. /\ req[d].pc = "reporting"
      /\ \E S : rows' = Insert(Insert(rows, req[d].fresh), Reported(S, req[d].text))
  BY DEF ReportExclusions
<1>2. PICK S : rows' = Insert(Insert(rows, req[d].fresh), Reported(S, req[d].text))
  BY <1>1
<1>3. CASE Taken(rows[c])
  BY <1>2, <1>3 DEF Insert
<1>4. CASE ~Taken(rows[c]) /\ Taken(req[d].fresh[c])
  <2>1. rows'[c] = req[d].fresh[c]
    BY <1>2, <1>4 DEF Insert
  <2>. QED  BY <1>1, <1>4, <2>1 DEF FreshRowsAgree
<1>5. CASE ~Taken(rows[c]) /\ ~Taken(req[d].fresh[c])
  <2>1. rows'[c] = Reported(S, req[d].text)[c]
    BY <1>2, <1>5 DEF Insert
  <2>2. \/ rows'[c] = Row(Reason(crm, c), crm.chat[c], req[d].text)
        \/ rows'[c] = NoRow
    BY <2>1 DEF Reported
  <2>. QED  BY <1>5, <2>2 DEF Row, NoRow, Taken
<1>. QED  BY <1>3, <1>4, <1>5

\* All recipients that one launch adds get the same text, whatever other requests
\* store in the campaign while its transaction is open.
THEOREM LaunchesSpeakWithOneVoice == Spec => OneTextPerLaunch
<1>. DEFINE OneText ==
              \A c, x \in Contacts :
                  /\ ~Taken(rows[c]) /\ Taken(rows'[c])
                  /\ ~Taken(rows[x]) /\ Taken(rows'[x])
                  => rows'[c].content = rows'[x].content
<1>1. IInv /\ FreshRowsAgree /\ [Next]_vars => [OneText]_rows
  <2>. SUFFICES ASSUME IInv, FreshRowsAgree, [Next]_vars, rows' # rows PROVE OneText
    OBVIOUS
  <2>1. \E d \in Requests : ReportExclusions(d)
    BY DEF Next, vars, EditDraft, Relabel, GoLive, AskStatus, WriteStatus, RequestStep, Begin,
           StorePayload, CheckCap, Launch, QueueAudience, Die, CrmChanges
  <2>2. PICK d \in Requests : ReportExclusions(d)
    BY <2>1
  <2>. QED  BY <2>2, CommitKeepsText
<1>2. [][OneText]_rows <=> OneTextPerLaunch
  BY DEF OneTextPerLaunch
<1>. QED  BY <1>1, <1>2, LaunchInvariance, FreshTexts, PTL DEF Spec

-----------------------------------------------------------------------------
(* The refinement: what each step is to the roster. *)

Listed == {c \in Contacts : Taken(rows[c])}
TextOf == [c \in Contacts |-> rows[c].content]
PeerOf == [c \in Contacts |-> rows[c].peer]
Seen   == <<campaign.status = "draft", campaign.testMode, campaign.channel = "vk",
            campaign.allowed, Listed, TextOf, PeerOf>>

\* A step that writes neither a row nor what the roster sees of the campaign.
LEMMA RosterStutters ==
    ASSUME UNCHANGED rows, campaign'.channel = campaign.channel,
           campaign'.testMode = campaign.testMode, campaign'.allowed = campaign.allowed,
           campaign'.status = "draft" <=> campaign.status = "draft"
    PROVE  UNCHANGED Seen
<1>1. UNCHANGED <<Listed, TextOf, PeerOf>>
  BY DEF Listed, TextOf, PeerOf
<1>2. /\ (campaign.status = "draft")' = (campaign.status = "draft")
      /\ (campaign.channel = "vk")' = (campaign.channel = "vk")
  OBVIOUS
<1>. QED  BY <1>1, <1>2 DEF Seen

\* A change of status alone: the draft is left once, and never come back to.
LEMMA RosterLeaves ==
    ASSUME IInv, UNCHANGED rows, NEW s, s # "draft",
           campaign' = [campaign EXCEPT !.status = s]
    PROVE  Roster!Next \/ UNCHANGED Seen
<1>1. /\ campaign'.channel = campaign.channel /\ campaign'.testMode = campaign.testMode
      /\ campaign'.allowed = campaign.allowed /\ campaign'.status = s
  BY DEF IInv, TypeOK, Campaigns
<1>2. CASE campaign.status = "draft"
  <2>1. UNCHANGED <<Listed, TextOf, PeerOf>>
    BY DEF Listed, TextOf, PeerOf
  <2>2. Roster!Leave
    BY <1>1, <1>2, <2>1 DEF Roster!Leave, Roster!roster, Listed, TextOf, PeerOf
  <2>. QED  BY <2>2 DEF Roster!Next
<1>3. CASE campaign.status # "draft"
  BY <1>1, <1>3, RosterStutters
<1>. QED  BY <1>2, <1>3

\* The commit of a launch: new recipients with one text, past the gate, and apart.
LEMMA RosterGrows ==
    ASSUME IInv, IInv', FreshRowsAgree, NEW d \in Requests, ReportExclusions(d)
    PROVE  Roster!Next
<1>. DEFINE new == {c \in Contacts : ~Taken(rows[c]) /\ Taken(rows'[c])}
            t == req[d].text
<1>1. campaign' = campaign /\ req[d].pc = "reporting"
  BY DEF ReportExclusions
<1>2. campaign.status # "draft" /\ t \in Contents
  BY <1>1 DEF IInv, RequestsAreSane
<1>3. rows \in RowTable /\ rows' \in RowTable
  BY DEF IInv, TypeOK
<1>4. \A c \in Contacts : /\ Taken(rows[c]) => rows'[c] = rows[c]
                          /\ c \in new => rows'[c].content = t
                          /\ c \notin new => rows'[c] = rows[c]
  <2>1. ASSUME NEW c \in Contacts, ~Taken(rows[c]), ~Taken(rows'[c]) PROVE rows'[c] = rows[c]
    BY <1>3, <2>1, RowCases
  <2>. QED  BY <2>1, CommitKeepsText
<1>5. new \in SUBSET (Contacts \ Listed) /\ Listed' = Listed \cup new
  BY <1>4 DEF Listed
<1>6. campaign.testMode => new \subseteq campaign.allowed
  BY <1>1 DEF IInv, TestGateHolds
<1>7. TextOf' = [c \in Contacts |-> IF c \in new THEN t ELSE TextOf[c]]
  BY <1>4 DEF TextOf
<1>8. /\ PeerOf' \in [Contacts -> Peers \cup {NoPeer}]
      /\ \A c \in Contacts \ new : PeerOf'[c] = PeerOf[c]
  <2>1. \A c \in Contacts : rows'[c].peer \in Peers \cup {NoPeer}
    BY <1>3, RowCases DEF NoRow
  <2>. QED  BY <1>4, <2>1 DEF PeerOf
<1>9. campaign.channel = "vk" => \A c \in new, x \in Listed' : PeerOf'[c] = PeerOf'[x] => c = x
  <2>1. ASSUME campaign.channel = "vk", NEW c \in new, NEW x \in Listed', PeerOf'[c] = PeerOf'[x]
        PROVE  c = x
    <3>1. c \in Contacts /\ x \in Contacts /\ Taken(rows'[c]) /\ Taken(rows'[x])
      BY DEF Listed, Taken
    <3>2. rows'[c].peer = rows'[x].peer
      BY <2>1, <3>1 DEF PeerOf
    <3>. QED  BY <1>1, <2>1, <3>1, <3>2 DEF IInv, OnePeerOneRow, Taken
  <2>. QED  BY <2>1
<1>10. PICK added \in SUBSET (Contacts \ Listed), said \in Contents : added = new /\ said = t
  BY <1>2, <1>5
<1>11. Roster!Add(added, said)
  <2>. HIDE DEF new, t
  <2>. QED  BY <1>1, <1>2, <1>5, <1>6, <1>7, <1>8, <1>9, <1>10
            DEF Roster!Add, Listed, TextOf, PeerOf
<1>. QED  BY <1>11 DEF Roster!Next, Listed

LEMMA RosterStep ==
    IInv /\ IInv' /\ FreshRowsAgree /\ [Next]_vars => Roster!Next \/ UNCHANGED Seen
<1>. SUFFICES ASSUME IInv, IInv', FreshRowsAgree, [Next]_vars
              PROVE  Roster!Next \/ UNCHANGED Seen
  OBVIOUS
<1>1. ASSUME UNCHANGED <<campaign, rows>> PROVE UNCHANGED Seen
  BY <1>1, RosterStutters
<1>2. UNCHANGED rows => UNCHANGED <<Listed, TextOf, PeerOf>>
  BY DEF Listed, TextOf, PeerOf
<1>3. CASE \E e \in Drafts, p \in Contents : EditDraft(e, p)
  <2>1. /\ campaign.status = "draft" /\ UNCHANGED rows
        /\ campaign'.status = campaign.status /\ campaign'.testMode = campaign.testMode
    BY <1>3 DEF EditDraft, IInv, TypeOK, Campaigns
  <2>2. campaign'.allowed \in SUBSET Contacts
    BY DEF IInv, TypeOK, Campaigns
  <2>3. Roster!Compose
    BY <1>2, <2>1, <2>2 DEF Roster!Compose, Roster!roster, Listed, TextOf, PeerOf
  <2>. QED  BY <2>3 DEF Roster!Next
<1>8. ASSUME NEW label \in Labels, Relabel(label) PROVE UNCHANGED Seen
  BY <1>8, Relabelled, RosterStutters DEF IInv, TypeOK
<1>4. CASE GoLive
  <2>1. /\ campaign.testMode /\ UNCHANGED rows /\ campaign'.testMode = FALSE
        /\ campaign'.status = campaign.status /\ campaign'.channel = campaign.channel
        /\ campaign'.allowed = campaign.allowed
    BY <1>4 DEF GoLive, IInv, TypeOK, Campaigns
  <2>2. Roster!GoLive
    BY <1>2, <2>1 DEF Roster!GoLive, Roster!roster, Listed, TextOf, PeerOf
  <2>. QED  BY <2>2 DEF Roster!Next
<1>5. CASE WriteStatus
  <2>1. /\ UNCHANGED rows /\ campaign' = [campaign EXCEPT !.status = asked]
        /\ asked # "draft"
    BY <1>5 DEF WriteStatus, IInv, TypeOK
  <2>. QED  BY <2>1, RosterLeaves
<1>6. CASE (\E s \in DOMAIN Transitions : AskStatus(s)) \/ CrmChanges \/ UNCHANGED vars
  BY <1>1, <1>6 DEF AskStatus, CrmChanges, vars
<1>7. ASSUME NEW d \in Requests, RequestStep(d) PROVE Roster!Next \/ UNCHANGED Seen
  <2>1. CASE StorePayload(d)
    <3>1. /\ UNCHANGED rows /\ campaign'.status = campaign.status
          /\ campaign'.testMode = campaign.testMode /\ campaign'.channel = campaign.channel
          /\ campaign'.allowed = campaign.allowed
      BY <2>1 DEF StorePayload, IInv, TypeOK, Campaigns
    <3>. QED  BY <3>1, RosterStutters
  <2>2. CASE Launch(d)
    <3>1. /\ UNCHANGED rows
          /\ campaign' = [campaign EXCEPT !.status = "active"] \/ UNCHANGED campaign
      BY <2>2 DEF Launch, Activated
    <3>. QED  BY <1>1, <3>1, RosterLeaves
  <2>3. CASE (\E body \in Contents \cup {None} : Begin(d, body))
             \/ CheckCap(d) \/ QueueAudience(d) \/ Die(d)
    BY <1>1, <2>3 DEF Begin, CheckCap, QueueAudience, Die
  <2>. QED  BY <1>7, <2>1, <2>2, <2>3, RosterGrows DEF RequestStep
<1>. QED  BY <1>3, <1>4, <1>5, <1>6, <1>7, <1>8 DEF Next

\* Five database steps, two passes, concurrent launches, edits, deaths and a CRM
\* that changes: what the recipients see of it is a roster that grows by whole
\* launches, each with one text, behind the gate, one contact for each VK peer.
THEOREM LaunchImplementsRoster == Spec => ImplementsRoster
<1>1. Init => Roster!Init
  <2>. SUFFICES ASSUME Init PROVE Roster!Init
    OBVIOUS
  <2>1. /\ campaign.status = "draft" /\ campaign.testMode = TRUE
        /\ campaign.allowed \in SUBSET Contacts /\ rows = NoRows
    BY LaunchAssumption DEF Init
  <2>2. \A c \in Contacts : rows[c] = NoRow /\ ~Taken(rows[c])
    BY <2>1 DEF NoRows, NoRow, Taken
  <2>. QED  BY <2>1, <2>2 DEF Roster!Init, NoRow
<1>2. IInv /\ IInv' /\ FreshRowsAgree /\ [Next]_vars
        => [Roster!Next]_<<campaign.status = "draft", campaign.testMode, campaign.channel = "vk",
                           campaign.allowed, Roster!roster>>
  BY RosterStep DEF Seen, Roster!roster, Listed, TextOf, PeerOf
<1>. QED  BY <1>1, <1>2, LaunchInvariance, FreshTexts, PTL
          DEF Spec, ImplementsRoster, Roster!Spec
=============================================================================
