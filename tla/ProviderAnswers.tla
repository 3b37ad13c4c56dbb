--------------------------- MODULE ProviderAnswers ---------------------------
(***************************************************************************)
(* What a messenger answers to one broadcast send, and how each of the     *)
(* three senders sorts the answer into what it does to the recipient row:  *)
(*   telegram  campaign.service.ts       sendToRecipient                   *)
(*   max       max-broadcast-sender.ts   sendToRecipientMax                *)
(*   vk        vk/vk-send.service.ts     sendToVkRecipient                 *)
(* Times are in ticks; only their order matters to the protocol.           *)
(***************************************************************************)
EXTENDS Integers

CONSTANTS
    Channel,        \* the messenger this instance of the engine serves
    RetryAfters,    \* retry_after values Telegram may ask for
    MaxPause,       \* MAX_PAUSE_MS, the cap on a Telegram pause
    MaxBackoff,     \* MAX_429_BACKOFF_MS, MAX sends no retry_after
    VkRatePause,    \* VK_RATE_PAUSE_MS, code 6
    VkFloodPause    \* VK_FLOOD_PAUSE_MS, code 9

ASSUME ChannelAssumption == Channel \in {"telegram", "max", "vk"}

ASSUME PauseAssumption ==
    /\ RetryAfters \subseteq Nat \ {0}
    /\ MaxPause \in Nat \ {0}
    /\ MaxBackoff \in Nat \ {0}
    /\ VkRatePause \in Nat \ {0}
    /\ VkFloodPause \in Nat \ {0}

(***************************************************************************)
(* An answer has a code, the asked pause, whether its text says that the   *)
(* recipient is unreachable, and where it came from: the messenger's API   *)
(* ("api"); on Telegram the download of the picture ("media") that precedes *)
(* the upload and whose HTTP status comes back in the same errorCode; on VK *)
(* the plain-text message ("text") sent when the picture cannot be          *)
(* uploaded, which takes every HTTP 200 for a success, errors included.     *)
(***************************************************************************)
Answer(code, retryAfter, unreachable, origin) ==
    [code |-> code, retryAfter |-> retryAfter,
     unreachable |-> unreachable, origin |-> origin]

Plain(code) == Answer(code, 0, FALSE, "api")

TelegramAnswers ==
    {Plain("ok"), Plain("400"), Plain("500"), Answer("403", 0, TRUE, "api"),
     Answer("400", 0, TRUE, "api"), Answer("403", 0, FALSE, "media"),
     Answer("none", 0, FALSE, "media")}
    \cup {Answer("429", t, FALSE, "api") : t \in RetryAfters}

MaxAnswers ==
    {Plain("ok"), Plain("400"), Plain("500"), Plain("429"),
     Answer("403", 0, TRUE, "api"), Answer("400", 0, TRUE, "api")}

VkAnswers ==
    {Plain("ok"), Plain("400"), Plain("500"), Plain("6"), Plain("9"), Plain("14"),
     Answer("901", 0, TRUE, "api"), Answer("ok", 0, FALSE, "text"),
     Answer("none", 0, FALSE, "text")}

Answers == CASE Channel = "telegram" -> TelegramAnswers
             [] Channel = "max"      -> MaxAnswers
             [] Channel = "vk"       -> VkAnswers

-----------------------------------------------------------------------------
Kinds == {"sent", "limited", "blocked", "terminal", "retry"}

Outcome(kind, wait) == [kind |-> kind, wait |-> wait]

\* Math.min(retryAfter * 1000, MAX_PAUSE_MS)
CappedPause(t) == IF t > MaxPause THEN MaxPause ELSE t

\* The code decides by the first test that matches, in this order; a text that
\* says blocked, deactivated or "chat not found" wins over the 4xx rule.
TelegramOutcome(a) ==
    CASE a.code = "ok"                      -> Outcome("sent", 0)
      [] a.code = "429"                     -> Outcome("limited", CappedPause(a.retryAfter))
      [] a.code = "403" \/ a.unreachable    -> Outcome("blocked", 0)
      [] a.code = "400" /\ ~a.unreachable   -> Outcome("terminal", 0)
      [] a.code \in {"500", "none"} /\ ~a.unreachable -> Outcome("retry", 0)

AnyClientErrorBlocks(a) ==                          \* mutant
    CASE a.code = "ok"  -> Outcome("sent", 0)
      [] a.code = "429" -> Outcome("limited", MaxBackoff)
      [] a.code \in {"403", "400"} -> Outcome("blocked", 0)
      [] a.code = "500" -> Outcome("retry", 0)

\* MAX: an explicit 403 only, no reading of the text, one fixed pause.
MaxOutcome(a) ==
    CASE a.code = "ok"  -> Outcome("sent", 0)
      [] a.code = "429" -> Outcome("limited", MaxBackoff)
      [] a.code = "403" -> Outcome("blocked", 0)
      [] a.code = "400" -> Outcome("terminal", 0)
      [] a.code = "500" -> Outcome("retry", 0)

CaptchaBlocks(a) ==                                 \* mutant
    CASE a.code = "ok"            -> Outcome("sent", 0)
      [] a.code = "6"             -> Outcome("limited", VkRatePause)
      [] a.code = "9"             -> Outcome("limited", VkFloodPause)
      [] a.code = "400"           -> Outcome("terminal", 0)
      [] a.code \in {"901", "14"} -> Outcome("blocked", 0)
      [] a.code \in {"500", "none"} -> Outcome("retry", 0)

\* VK: business codes. 6 and 9 pause the group, 14 (captcha) stops the row.
VkOutcome(a) ==
    CASE a.code = "ok"            -> Outcome("sent", 0)
      [] a.code = "6"             -> Outcome("limited", VkRatePause)
      [] a.code = "9"             -> Outcome("limited", VkFloodPause)
      [] a.code \in {"14", "400"} -> Outcome("terminal", 0)
      [] a.code = "901"           -> Outcome("blocked", 0)
      [] a.code \in {"500", "none"} -> Outcome("retry", 0)

OutcomeOf(a) == CASE Channel = "telegram" -> TelegramOutcome(a)
                  [] Channel = "max"      -> MaxOutcome(a)
                  [] Channel = "vk"       -> VkOutcome(a)

\* Whether the messenger may have delivered the message although it answered
\* this: the API's success did, its failure (5xx) or the text's answer may have.
MayBeAccepted(a) ==
    {accepted \in BOOLEAN :
        /\ a.code = "ok" /\ a.origin # "text" => accepted
        /\ accepted => a.code \in {"ok", "500"} \/ a.origin = "text"}
=============================================================================
