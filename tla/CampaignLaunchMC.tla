--------------------------- MODULE CampaignLaunchMC ---------------------------
(* Values of CampaignLaunch's constants for TLC. *)
EXTENDS CampaignLaunch, TLC

TelegramDraft == [channel |-> "telegram", filter |-> NoFilter, allowed |-> {1}]
VkDraft       == [channel |-> "vk", filter |-> {1, 2}, allowed |-> {2}]

OnlyVk       == {VkDraft}
AllDrafts    == {TelegramDraft, VkDraft}

CONSTANTS p, q

\* Two contacts on one peer; one of them without a dialog; a suppressed one beside
\* one that has denied; two separate peers, one that only wrote; nobody reachable.
Start(chat, closed, suppressed, ofP, ofQ) ==
    [chat |-> chat, closed |-> closed, suppressed |-> suppressed,
     consent |-> (p :> ofP @@ q :> ofQ)]

Starts ==
    {Start(<<p, p>>, {2}, {}, "allowed", "none"),
     Start(<<NoPeer, p>>, {}, {}, "allowed", "none"),
     Start(<<p, q>>, {}, {1}, "allowed", "denied"),
     Start(<<p, q>>, {}, {}, "allowed", "wrote"),
     Start(<<NoPeer, NoPeer>>, {}, {}, "none", "allowed")}

Symmetry == Permutations(Requests) \cup Permutations(Contents)
=============================================================================
