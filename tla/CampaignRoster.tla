---------------------------- MODULE CampaignRoster ----------------------------
(***************************************************************************)
(* What the life of a campaign before its delivery promises: an audience   *)
(* that is composed while the campaign is a draft, and a roster of         *)
(* recipients that only grows, by whole launches.  A launch adds contacts  *)
(* with one text, within the test gate while it is shut, and where peers   *)
(* are merged, one contact for each.  No requests, transactions, passes.   *)
(***************************************************************************)
CONSTANTS
    Contacts,
    Peers,          \* chats that a contact may be reached in, or none
    Texts,
    Unwritten,      \* the text of a contact that is not on the roster
    Unreached       \* and its peer

VARIABLES
    draft,          \* the campaign may be composed
    gated,          \* nobody has gone live
    merging,        \* one recipient for each peer
    allowed,        \* who passes the gate
    listed,         \* the contacts on the roster, with
    text,           \* what each of them is sent,
    peer            \* and where

roster == <<listed, text, peer>>

Init ==
    /\ draft = TRUE /\ gated = TRUE
    /\ merging \in BOOLEAN /\ allowed \in SUBSET Contacts
    /\ listed = {}
    /\ text = [c \in Contacts |-> Unwritten]
    /\ peer = [c \in Contacts |-> Unreached]

Compose ==
    /\ draft
    /\ merging' \in BOOLEAN /\ allowed' \in SUBSET Contacts
    /\ UNCHANGED <<draft, gated, roster>>

Leave  == draft /\ draft' = FALSE /\ UNCHANGED <<gated, merging, allowed, roster>>
GoLive == gated /\ gated' = FALSE /\ UNCHANGED <<draft, merging, allowed, roster>>

\* New recipients, all at once; those on the roster stay as they are.
Add(new, t) ==
    /\ ~draft
    /\ gated => new \subseteq allowed
    /\ listed' = listed \cup new
    /\ text' = [c \in Contacts |-> IF c \in new THEN t ELSE text[c]]
    /\ peer' \in [Contacts -> Peers]
    /\ \A c \in Contacts \ new : peer'[c] = peer[c]
    /\ merging => \A c \in new, x \in listed' : peer'[c] = peer'[x] => c = x
    /\ UNCHANGED <<draft, gated, merging, allowed>>

Next ==
    \/ Compose \/ Leave \/ GoLive
    \/ \E new \in SUBSET (Contacts \ listed), t \in Texts : Add(new, t)

Spec == Init /\ [][Next]_<<draft, gated, merging, allowed, roster>>
=============================================================================
