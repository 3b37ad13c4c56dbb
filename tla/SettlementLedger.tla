-------------------------- MODULE SettlementLedger --------------------------
(***************************************************************************)
(* What the two settling routes promise for the card payments of the cash  *)
(* desk, as if each had its payment to itself: a payment is free, in one   *)
(* pair of hands, settled for good, or closed for good.  Whoever holds it  *)
(* makes at most one receipt in its whole life, settles it only on a       *)
(* receipt, and a settled payment gets at most one fiscal document, for    *)
(* the receipt that was made.  No polls, late results, lists or deaths.    *)
(***************************************************************************)
EXTENDS Naturals

CONSTANT Payments

VARIABLES
    phase,      \* "free", "held", "settled" or "closed"
    made,       \* receipts that the settling routes made for the payment
    backed,     \* payments with a receipt, the cashier's or one of those
    fiscal      \* fiscal documents asked for by the settling routes

ledger == <<phase, made, backed, fiscal>>

Init ==
    /\ phase = [p \in Payments |-> "free"]
    /\ made = [p \in Payments |-> 0]
    /\ backed = {}
    /\ fiscal = [p \in Payments |-> 0]

Move(p, from, to) ==
    /\ phase[p] = from
    /\ phase' = [phase EXCEPT ![p] = to]

Hold(p)  == Move(p, "free", "held") /\ UNCHANGED <<made, backed, fiscal>>
LetGo(p) == Move(p, "held", "free") /\ UNCHANGED <<made, backed, fiscal>>

\* By a verdict without a receipt, or with the hands that held it.
Close(p) ==
    /\ Move(p, "free", "closed") \/ Move(p, "held", "closed")
    /\ UNCHANGED <<made, backed, fiscal>>

Make(p) ==
    /\ phase[p] = "held" /\ made[p] = 0
    /\ made' = [made EXCEPT ![p] = 1]
    /\ backed' = backed \cup {p}
    /\ UNCHANGED <<phase, fiscal>>

\* The cashier makes a receipt whenever the terminal said yes.
Post(p) == backed' = backed \cup {p} /\ UNCHANGED <<phase, made, fiscal>>

Settle(p) ==
    /\ p \in backed
    /\ Move(p, "held", "settled")
    /\ UNCHANGED <<made, backed, fiscal>>

Fiscalize(p) ==
    /\ phase[p] = "settled" /\ made[p] = 1 /\ fiscal[p] = 0
    /\ fiscal' = [fiscal EXCEPT ![p] = 1]
    /\ UNCHANGED <<phase, made, backed>>

Next == \E p \in Payments :
    \/ Hold(p) \/ LetGo(p) \/ Close(p)
    \/ Make(p) \/ Post(p) \/ Settle(p) \/ Fiscalize(p)

Spec == Init /\ [][Next]_ledger
=============================================================================
