-------------------------- MODULE PaymentSettlement --------------------------
(***************************************************************************)
(* Card payments of the cash desk and the receipts that settle them        *)
(* (routes/pos.routes.ts, pos.service.ts, pos-orphan-payment-sweep, the    *)
(* cashier's pos.component.ts).  The terminal reports an outcome, late or  *)
(* never; the cashier's browser polls it and posts a receipt, or asks for  *)
(* the money back; what is left over is in doubt or an orphan, which       *)
(* operators settle through two routes that claim the payment, look for a  *)
(* receipt, create one, and link it, in separate queries; a sweep reports  *)
(* orphans to the staff and to the client.                                 *)
(*                                                                         *)
(* Times pass nondeterministically: every age limit may be reached at any  *)
(* moment.  What becomes of a receipt's fiscal document is FiscalPipeline. *)
(***************************************************************************)
EXTENDS Naturals, FiniteSets

CONSTANTS
    Payments,       \* pos_transactions of type payment
    Settlers,       \* concurrent requests to the two settling routes
    Sweepers,       \* runs of the orphan sweep that overlap (two leaders)
    NoPayment,      \* a settler or a sweep without a payment
    PageSize,       \* findOrphanPayments' limit
    DeathCap        \* bound: requests and sweeps that die in a behaviour

ASSUME SettlementAssumption ==
    NoPayment \notin Payments /\ PageSize \in Nat \ {0} /\ DeathCap \in Nat

VARIABLES
    \* pos_transactions
    status,         \* status; failed as "refused" or "unclear", as its text is classified
    resolution,     \* payment_resolution, "null" while it is NULL
    settled,        \* settled_receipt_id is set
    staffTold,      \* orphan_notified_at is set
    clientTold,     \* orphan_client_notified_at is set
    \* pos_receipts that carry the payment in pos_receipt_payments
    posted,         \* one from the cashier's POST /receipts
    made,           \* how many from the settling routes
    \* processes
    terminal,       \* what the terminal has for an answer
    front,          \* the cashier's browser
    classified,     \* payments whose failure a poll has read as unclear, and will mark
    settler,        \* requests to the settling routes
    sweep,          \* the orphan the sweep is about to report
    \* history
    returned,       \* the terminal has given the money back
    fiscal,         \* fiscal documents the settling routes asked for
    waived,         \* payments an operator closed without a receipt
    stranded,       \* payments whose settler died before the receipt
    deaths

row      == <<status, resolution, settled, staffTold, clientTold>>
receipts == <<posted, made>>
desk     == <<terminal, front, returned, classified>>
history  == <<fiscal, waived, stranded, deaths>>
vars     == <<row, receipts, desk, settler, sweep, history>>

Idle  == [pc |-> "idle", payment |-> NoPayment, before |-> "null"]
Quiet == [pc |-> "idle", payment |-> NoPayment]

Init ==
    /\ status = [p \in Payments |-> "none"]
    /\ resolution = [p \in Payments |-> "null"]
    /\ settled = {} /\ staffTold = {} /\ clientTold = {} /\ posted = {}
    /\ made = [p \in Payments |-> 0]
    /\ terminal = [p \in Payments |-> "off"]
    /\ front = [p \in Payments |-> "off"]
    /\ settler = [s \in Settlers |-> Idle]
    /\ sweep = [w \in Sweepers |-> Quiet]
    /\ returned = {} /\ classified = {}
    /\ fiscal = [p \in Payments |-> 0]
    /\ waived = {} /\ stranded = {} /\ deaths = 0

Death == deaths < DeathCap /\ deaths' = deaths + 1

\* findReceiptIdByPaymentTransaction
HasReceipt(p) == p \in posted \/ made[p] > 0

\* What findOrphanPayments looks for; any payment may be old enough.
Orphan(p) ==
    /\ status[p] = "completed" /\ resolution[p] = "null"
    /\ p \notin settled /\ ~HasReceipt(p)

-----------------------------------------------------------------------------
(* The terminal and the cashier. *)

\* POST /bridge/pay, after which the browser polls
Pay(p) ==
    /\ status[p] = "none"
    /\ status' = [status EXCEPT ![p] = "open"]
    /\ terminal' = [terminal EXCEPT ![p] = "asked"]
    /\ front' = [front EXCEPT ![p] = "polling"]
    /\ UNCHANGED <<resolution, settled, staffTold, clientTold, receipts, returned,
                   classified, settler, sweep, history>>

Decide(p, outcome) ==
    /\ terminal[p] = "asked"
    /\ terminal' = [terminal EXCEPT ![p] = outcome]
    /\ UNCHANGED <<row, receipts, front, returned, classified, settler, sweep, history>>

\* handle_pos_transaction_result: at any time, again and again, status only
Result(p) ==
    /\ terminal[p] \in {"completed", "refused", "unclear"}
    /\ status' = [status EXCEPT ![p] = terminal[p]]
    /\ UNCHANGED <<resolution, settled, staffTold, clientTold, receipts, desk,
                   settler, sweep, history>>

\* markPaymentInDoubtIfNeeded, from a poll or from the list of doubtful payments.
\* A failure is read and classified first ...
Classify(p) ==
    /\ status[p] = "unclear"
    /\ classified' = classified \cup {p}
    /\ UNCHANGED <<row, receipts, terminal, front, returned, settler, sweep, history>>

DoubtfulAgain(p) == status[p] = "open" \/ p \in classified       \* mutant
\* ... and the UPDATE that follows asks for the status of an open payment only.
Doubtful(p) == (status[p] = "open" \/ p \in classified) /\ resolution[p] = "null"

MarkInDoubt(p) ==
    /\ Doubtful(p)
    /\ resolution' = [resolution EXCEPT ![p] = "in_doubt"]
    /\ classified' \in {classified, classified \ {p}}
    /\ UNCHANGED <<status, settled, staffTold, clientTold, receipts, terminal, front, returned,
                   settler, sweep, history>>

\* The browser proceeds on an effective status of completed only.
Approved(p) ==
    /\ front[p] = "polling" /\ status[p] = "completed" /\ resolution[p] = "null"
    /\ front' = [front EXCEPT ![p] = "approved"]
    /\ UNCHANGED <<row, receipts, terminal, returned, classified, settler, sweep, history>>

\* POST /receipts: one transaction, but the answer may be an error all the same
PostReceipt(p) ==
    /\ front[p] = "approved"
    /\ posted' = posted \cup {p}
    /\ \E next \in {"off", "reversing"} : front' = [front EXCEPT ![p] = next]
    /\ UNCHANGED <<row, made, terminal, returned, classified, settler, sweep, history>>

PostFails(p) ==
    /\ front[p] = "approved"
    /\ front' = [front EXCEPT ![p] = "reversing"]
    /\ UNCHANGED <<row, receipts, terminal, returned, classified, settler, sweep, history>>

\* POST /bridge/refund and the terminal: the payment's own row does not change
Reverse(p) ==
    /\ front[p] = "reversing" /\ status[p] = "completed"
    /\ returned' \in {returned, returned \cup {p}}
    /\ front' = [front EXCEPT ![p] = "off"]
    /\ UNCHANGED <<row, receipts, terminal, classified, settler, sweep, history>>

\* In doubt, failed, 180 seconds, or the tab is closed
Leave(p) ==
    /\ front[p] # "off"
    /\ front' = [front EXCEPT ![p] = "off"]
    /\ UNCHANGED <<row, receipts, terminal, returned, classified, settler, sweep, history>>

-----------------------------------------------------------------------------
(* POST /payments/:id/resolve and POST /payments/:id/create-receipt. *)

\* outcome unpaid, or outcome paid while POS_INDOUBT_RESOLVE_ENABLED is off
Waive(p, verdict) ==
    /\ resolution[p] = "in_doubt"
    /\ resolution' = [resolution EXCEPT ![p] = verdict]
    /\ waived' = waived \cup {p}
    /\ UNCHANGED <<status, settled, staffTold, clientTold, receipts, desk,
                   settler, sweep, fiscal, stranded, deaths>>

ClaimsPaid(p) ==                        \* mutant
    resolution[p] \in {"in_doubt", "paid"} \/ (status[p] = "completed" /\ resolution[p] = "null")
\* The conditional UPDATE of either route; what it replaces is what a revert
\* restores.  A request that comes too late changes nothing.
Claimable(p) ==
    \/ resolution[p] = "in_doubt"
    \/ status[p] = "completed" /\ resolution[p] = "null" /\ p \notin settled

Claim(s, p) ==
    /\ settler[s].pc = "idle"
    /\ Claimable(p)
    /\ resolution' = [resolution EXCEPT ![p] = "paid"]
    /\ settler' = [settler EXCEPT ![s] = [pc |-> "claimed", payment |-> p,
                                          before |-> resolution[p]]]
    /\ UNCHANGED <<status, settled, staffTold, clientTold, receipts, desk, sweep, history>>

NoPrior(p) == FALSE                     \* mutant
Prior(p) == HasReceipt(p)

\* A receipt that an interrupted attempt has left behind is linked.
LookForReceipt(s) ==
    LET p == settler[s].payment IN
    /\ settler[s].pc = "claimed"
    /\ IF Prior(p)
       THEN /\ settled' = settled \cup {p}
            /\ settler' = [settler EXCEPT ![s] = Idle]
       ELSE /\ settler' = [settler EXCEPT ![s].pc = "clear"]
            /\ UNCHANGED settled
    /\ UNCHANGED <<status, resolution, staffTold, clientTold, receipts, desk, sweep, history>>

\* createReceipt: one transaction; a COMMIT whose answer is lost is an error
\* that has made the receipt.
CreateReceipt(s) ==
    LET p == settler[s].payment IN
    /\ settler[s].pc = "clear"
    /\ made' = [made EXCEPT ![p] = @ + 1]
    /\ \E pc \in {"created", "failed"} : settler' = [settler EXCEPT ![s].pc = pc]
    /\ UNCHANGED <<row, posted, desk, sweep, history>>

\* No items, a wrong sum, a closed shift, an error of createReceipt
Refuse(s) ==
    /\ settler[s].pc = "clear"
    /\ settler' = [settler EXCEPT ![s].pc = "failed"]
    /\ UNCHANGED <<row, receipts, desk, sweep, history>>

KeepClaim(s) == "paid"                          \* mutant
RevertTo(s) == settler[s].before

Revert(s) ==
    LET p == settler[s].payment IN
    /\ settler[s].pc = "failed"
    /\ resolution' = IF resolution[p] = "paid" /\ p \notin settled
                     THEN [resolution EXCEPT ![p] = RevertTo(s)] ELSE resolution
    /\ settler' = [settler EXCEPT ![s] = Idle]
    /\ UNCHANGED <<status, settled, staffTold, clientTold, receipts, desk, sweep, history>>

Unlinked(p) == settled                  \* mutant
Linked(p) == settled \cup {p}

\* The link, and the fiscal document only for who has linked
Link(s) ==
    LET p == settler[s].payment IN
    /\ settler[s].pc = "created"
    /\ settled' = Linked(p)
    /\ settler' = [settler EXCEPT ![s] = IF p \in settled THEN Idle ELSE [@ EXCEPT !.pc = "linked"]]
    /\ UNCHANGED <<status, resolution, staffTold, clientTold, receipts, desk, sweep, history>>

Fiscalize(s) ==
    LET p == settler[s].payment IN
    /\ settler[s].pc = "linked"
    /\ fiscal' = [fiscal EXCEPT ![p] = @ + 1]
    /\ settler' = [settler EXCEPT ![s] = Idle]
    /\ UNCHANGED <<row, receipts, desk, sweep, waived, stranded, deaths>>

Die(s) ==
    LET p == settler[s].payment IN
    /\ settler[s].pc # "idle" /\ Death
    /\ settler' = [settler EXCEPT ![s] = Idle]
    /\ stranded' = IF p \in settled THEN stranded ELSE stranded \cup {p}
    /\ UNCHANGED <<row, receipts, desk, sweep, fiscal, waived>>

-----------------------------------------------------------------------------
(* processOrphanPayments *)

ListsFailed(p) == status[p] = "unclear" /\ resolution[p] = "null"     \* mutant
\* findOrphanPayments takes the PageSize newest, told or not; any orphan may be new.
Listed(p) == Orphan(p)
OnOnePage == Cardinality({p \in Payments : Orphan(p)}) <= PageSize

List(w, p) ==
    /\ sweep[w].pc = "idle"
    /\ Listed(p)
    /\ sweep' = [sweep EXCEPT ![w] = [pc |-> "staff", payment |-> p]]
    /\ UNCHANGED <<row, receipts, desk, settler, history>>

\* notifyStaff: the mark comes first, and dedups
TellStaff(w) ==
    /\ sweep[w].pc = "staff"
    /\ staffTold' = staffTold \cup {sweep[w].payment}
    /\ sweep' = [sweep EXCEPT ![w].pc = "client"]
    /\ UNCHANGED <<status, resolution, settled, clientTold, receipts, desk, settler, history>>

TellsListed(p) == TRUE                  \* mutant
StillOpen(p) == status[p] = "completed" /\ p \notin settled /\ resolution[p] = "null"

\* notifyClient asks again, though not for a receipt without a link
TellClient(w) ==
    LET p == sweep[w].payment IN
    /\ sweep[w].pc = "client"
    /\ clientTold' = IF StillOpen(p) THEN clientTold \cup {p} ELSE clientTold
    /\ sweep' = [sweep EXCEPT ![w] = Quiet]
    /\ UNCHANGED <<status, resolution, settled, staffTold, receipts, desk, settler, history>>

SweepDies(w) ==
    /\ sweep[w].pc # "idle" /\ Death
    /\ sweep' = [sweep EXCEPT ![w] = Quiet]
    /\ UNCHANGED <<row, receipts, desk, settler, fiscal, waived, stranded>>

-----------------------------------------------------------------------------
CashierStep(p) ==
    \/ Pay(p) \/ Classify(p) \/ MarkInDoubt(p) \/ Result(p)
    \/ \E outcome \in {"completed", "refused", "unclear"} : Decide(p, outcome)
    \/ Approved(p) \/ PostReceipt(p) \/ PostFails(p) \/ Reverse(p) \/ Leave(p)

SettlerStep(s) ==
    \/ \E p \in Payments : Claim(s, p)
    \/ LookForReceipt(s) \/ CreateReceipt(s) \/ Refuse(s) \/ Revert(s)
    \/ Link(s) \/ Fiscalize(s) \/ Die(s)

SweepStep(w) ==
    \/ \E p \in Payments : List(w, p)
    \/ TellStaff(w) \/ TellClient(w) \/ SweepDies(w)

Next ==
    \/ \E p \in Payments : CashierStep(p)
    \/ \E p \in Payments, verdict \in {"unpaid", "paid"} : Waive(p, verdict)
    \/ \E s \in Settlers : SettlerStep(s)
    \/ \E w \in Sweepers : SweepStep(w)

\* Some leader's timer works the sweep's list off, which has every orphan as long
\* as they fit on a page; requests run to their end.
Fairness ==
    /\ \A w \in Sweepers :
          /\ WF_vars(TellStaff(w)) /\ WF_vars(TellClient(w))
          /\ \A p \in Payments : SF_vars(OnOnePage /\ List(w, p))
    /\ \A s \in Settlers :
          WF_vars(LookForReceipt(s) \/ CreateReceipt(s) \/ Revert(s) \/ Link(s) \/ Fiscalize(s))

Spec == Init /\ [][Next]_vars
FairSpec == Spec /\ Fairness

-----------------------------------------------------------------------------
(* Properties. *)

\* Every variable keeps its type.
TypeOK ==
    /\ status \in [Payments -> {"none", "open", "completed", "refused", "unclear"}]
    /\ resolution \in [Payments -> {"null", "in_doubt", "paid", "unpaid"}]
    /\ settled \subseteq Payments /\ staffTold \subseteq Payments
    /\ clientTold \subseteq Payments /\ posted \subseteq Payments
    /\ made \in [Payments -> Nat]
    /\ terminal \in [Payments -> {"off", "asked", "completed", "refused", "unclear"}]
    /\ front \in [Payments -> {"off", "polling", "approved", "reversing"}]
    /\ settler \in [Settlers ->
          [pc : {"idle", "claimed", "clear", "created", "failed", "linked"},
           payment : Payments \cup {NoPayment}, before : {"null", "in_doubt"}]]
    /\ sweep \in [Sweepers -> {Quiet} \cup [pc : {"staff", "client"}, payment : Payments]]
    /\ returned \subseteq Payments /\ classified \subseteq Payments
    /\ fiscal \in [Payments -> Nat]
    /\ waived \subseteq Payments /\ stranded \subseteq Payments
    /\ deaths \in Nat

Working(s, p) == settler[s].pc # "idle" /\ settler[s].payment = p

\* Double clicks, both routes at once, a commit whose answer is lost and a death
\* between any two queries: the settling routes make one receipt per payment.
OneSettlement == \A p \in Payments : made[p] <= 1

\* ... and ask for one fiscal document, for a payment that is settled by then.
OneFiscalRequest ==
    \A p \in Payments : fiscal[p] <= 1 /\ (fiscal[p] = 1 => p \in settled)

\* A settled payment was resolved as paid and has a receipt.
SettledHasReceipt == \A p \in settled : resolution[p] = "paid" /\ HasReceipt(p)

\* A completed payment without a receipt is in somebody's list (of orphans or
\* of doubtful payments) or in somebody's hands, unless an operator closed it or
\* a settler died holding it.
NothingForgotten ==
    \A p \in Payments : status[p] = "completed" /\ ~HasReceipt(p) =>
        \/ Orphan(p) \/ resolution[p] = "in_doubt"
        \/ \E s \in Settlers : Working(s, p)
        \/ p \in waived \/ p \in stranded

\* A verdict stays: an unpaid payment is never reopened, whatever arrives late,
\* and a settled one is never taken back by a slow revert.
VerdictIsFinal ==
    [][\A p \in Payments :
          resolution[p] = "unpaid" \/ p \in settled =>
              resolution'[p] = resolution[p] /\ (p \in settled => p \in settled')]_vars

Held(p) == \E s \in Settlers : Working(s, p)

\* The client hears that the payment arrived only while nobody has settled or
\* closed it and no request is at work on it, though the sweep looks at columns
\* alone; what happened between the list and the message counts.
NewsIsCurrent ==
    [][\A p \in clientTold' \ clientTold :
          resolution[p] = "null" /\ p \notin settled /\ ~Held(p)]_vars

\* What the two routes promise, as if each had its payment to itself.
PhaseOf(p) ==
    LET open == p \notin settled IN
    CASE ~open                                          -> "settled"
      [] open /\ resolution[p] \in {"null", "in_doubt"} -> "free"
      [] open /\ resolution[p] \in {"paid", "unpaid"}   -> IF Held(p) THEN "held" ELSE "closed"

Ledger == INSTANCE SettlementLedger WITH
    phase <- [p \in Payments |-> PhaseOf(p)], made <- made,
    backed <- {p \in Payments : HasReceipt(p)}, fiscal <- fiscal

ImplementsSettlement == Ledger!Spec

\* While the orphans fit on one page of the sweep, each is reported to the staff
\* or stops being one.
OrphanIsReported ==
    \A p \in Payments : Orphan(p) ~> (p \in staffTold \/ ~Orphan(p) \/ ~OnOnePage)

-----------------------------------------------------------------------------
(* The inductive invariant behind the safety properties. *)

\* Only the claim's owner moves a payment between claim and link.
OneSettler ==
    /\ \A s \in Settlers : settler[s].pc # "idle" => settler[s].payment \in Payments
    /\ \A s, z \in Settlers, p \in Payments : Working(s, p) /\ Working(z, p) => s = z
    /\ \A s \in Settlers, p \in Payments : Working(s, p) =>
          /\ resolution[p] = "paid"
          /\ p \in settled <=> settler[s].pc = "linked"
          /\ settler[s].pc = "clear" => made[p] = 0
          /\ settler[s].pc \in {"created", "linked"} => made[p] = 1

FiscalFollowsLink ==
    /\ \A p \in Payments : p \notin settled => fiscal[p] = 0
    /\ \A s \in Settlers, p \in Payments :
          Working(s, p) /\ settler[s].pc = "linked" => fiscal[p] = 0

\* Who left a payment claimed and not linked.
ClaimsAreExplained ==
    \A p \in Payments :
        /\ resolution[p] = "unpaid" => p \in waived
        /\ resolution[p] = "paid" =>
              \/ p \in settled \/ p \in waived \/ p \in stranded
              \/ \E s \in Settlers : Working(s, p)

IInv ==
    /\ TypeOK
    /\ OneSettler
    /\ FiscalFollowsLink
    /\ ClaimsAreExplained
    /\ OneSettlement
    /\ OneFiscalRequest
    /\ SettledHasReceipt
    /\ NothingForgotten

-----------------------------------------------------------------------------
(* What a comment says, and the code does not do. *)

\* The sweep sees every completed payment without a receipt, unless it is in
\* doubt, in somebody's hands, or closed by an operator.
OrphansAreSeen ==
    \A p \in Payments : status[p] = "completed" /\ ~HasReceipt(p) =>
        \/ Orphan(p) \/ resolution[p] = "in_doubt"
        \/ \E s \in Settlers : Working(s, p)
        \/ p \in waived
=============================================================================
