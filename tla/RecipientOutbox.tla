--------------------------- MODULE RecipientOutbox ---------------------------
(***************************************************************************)
(* What the broadcast engine promises for the rows of one campaign, with   *)
(* no worker, queue, lease or clock in sight.  A row is open until it is   *)
(* settled, once and for good, as sent or blocked.  Delivery is at least   *)
(* once: a further copy of the message may go out only when the fate of    *)
(* every earlier copy was lost on the way back (a crash, a timeout), and   *)
(* a row says "sent" only if a copy really went out.  A messenger that     *)
(* merges a repeated copy with the first one makes these counts bounds.    *)
(***************************************************************************)
EXTENDS Integers

CONSTANTS
    Recipients,
    Merging     \* the messenger may drop a copy that it takes for a repetition

VARIABLES
    state,      \* per recipient: "open", "sent", "blocked" or "excluded"
    copies,     \* copies of the message the messenger accepted
    lost        \* copies whose acceptance the engine never recorded

vars == <<state, copies, lost>>

Init ==
    /\ state \in [Recipients -> {"open", "excluded"}]
    /\ copies = [r \in Recipients |-> 0]
    /\ lost = [r \in Recipients |-> 0]

\* Every copy was lost on the way back, or all but one: the one that counts.
Even(r)    == copies[r] = lost[r]     \/ (Merging /\ copies[r] < lost[r])
Pending(r) == copies[r] = lost[r] + 1 \/ (Merging /\ copies[r] <= lost[r])

Arrives(r) ==
    \/ copies' = [copies EXCEPT ![r] = @ + 1]
    \/ Merging /\ UNCHANGED copies

\* The messenger accepts a copy; no earlier copy is still awaiting its record.
Deliver(r) ==
    /\ state[r] = "open" /\ Even(r)
    /\ Arrives(r)
    /\ UNCHANGED <<state, lost>>

\* The engine never learns, or never records, that the copy was accepted.
Lose(r) ==
    /\ state[r] = "open" /\ Pending(r)
    /\ lost' = [lost EXCEPT ![r] = @ + 1]
    /\ UNCHANGED <<state, copies>>

\* The two above at once: the answer to an accepted send is already the loss.
DeliverUnseen(r) ==
    /\ state[r] = "open" /\ Even(r)
    /\ Arrives(r)
    /\ lost' = [lost EXCEPT ![r] = @ + 1]
    /\ UNCHANGED state

SettleSent(r) ==
    /\ state[r] = "open" /\ Pending(r)
    /\ state' = [state EXCEPT ![r] = "sent"]
    /\ UNCHANGED <<copies, lost>>

SettleBlocked(r) ==
    /\ state[r] = "open" /\ Even(r)
    /\ state' = [state EXCEPT ![r] = "blocked"]
    /\ UNCHANGED <<copies, lost>>

Next == \E r \in Recipients :
    Deliver(r) \/ Lose(r) \/ DeliverUnseen(r) \/ SettleSent(r) \/ SettleBlocked(r)

Spec == Init /\ [][Next]_vars
=============================================================================
