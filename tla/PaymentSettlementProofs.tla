----------------------- MODULE PaymentSettlementProofs -----------------------
(***************************************************************************)
(* The safety of PaymentSettlement for every set of payments, of requests  *)
(* and of sweeps, and for any number of deaths.                            *)
(***************************************************************************)
EXTENDS PaymentSettlement, TLAPS

\* What the settling routes decide by, and change.
core == <<resolution, settled, made, settler, fiscal, waived, stranded>>

Stages == {"idle", "claimed", "clear", "created", "failed", "linked"}
Orders == [pc : Stages, payment : Payments \cup {NoPayment}, before : {"null", "in_doubt"}]

\* The parts of IInv that carry it; the others follow.
Kernel == OneSettler /\ FiscalFollowsLink /\ ClaimsAreExplained /\ OneFiscalRequest
          /\ OneSettlement /\ SettledHasReceipt

\* Who is not an orphan, and not in doubt, has been claimed, and claims are
\* explained.
LEMMA NothingIsForgotten ==
    ASSUME TypeOK, Kernel
    PROVE  IInv
<1>1. NothingForgotten
  <2>. SUFFICES ASSUME NEW p \in Payments, status[p] = "completed", ~HasReceipt(p)
                PROVE  \/ Orphan(p) \/ resolution[p] = "in_doubt"
                       \/ \E s \in Settlers : Working(s, p)
                       \/ p \in waived \/ p \in stranded
    BY DEF NothingForgotten
  <2>1. p \notin settled
    BY DEF Kernel, SettledHasReceipt
  <2>2. CASE resolution[p] = "null"
    BY <2>1, <2>2 DEF Orphan
  <2>3. CASE resolution[p] \in {"paid", "unpaid"}
    BY <2>1, <2>3 DEF Kernel, ClaimsAreExplained
  <2>. QED  BY <2>2, <2>3 DEF TypeOK
<1>. QED  BY <1>1 DEF Kernel, IInv

\* Results, polls, receipts of the cashier and sweeps disturb no settlement.
LEMMA BystandersKeep ==
    ASSUME IInv, TypeOK', UNCHANGED core, posted \subseteq posted'
    PROVE  IInv'
<1>1. \A s \in Settlers, p \in Payments : Working(s, p)' <=> Working(s, p)
  BY DEF core, Working
<1>2. OneSettler'
  BY <1>1 DEF core, IInv, OneSettler
<1>3. FiscalFollowsLink' /\ ClaimsAreExplained'
  BY <1>1 DEF core, IInv, FiscalFollowsLink, ClaimsAreExplained
<1>4. OneFiscalRequest' /\ OneSettlement'
  BY DEF core, IInv, OneFiscalRequest, OneSettlement
<1>5. SettledHasReceipt'
  BY DEF core, IInv, SettledHasReceipt, HasReceipt
<1>6. Kernel'
  BY <1>2, <1>3, <1>4, <1>5 DEF Kernel
<1>. QED  BY <1>6, NothingIsForgotten, PTL

\* What one settler knows of its payment.
LEMMA Owner ==
    ASSUME IInv, NEW s \in Settlers, settler[s].pc # "idle"
    PROVE  LET p == settler[s].payment IN
           /\ p \in Payments /\ Working(s, p) /\ resolution[p] = "paid"
           /\ p \in settled <=> settler[s].pc = "linked"
           /\ settler[s].pc = "clear" => made[p] = 0
           /\ settler[s].pc \in {"created", "linked"} => made[p] = 1
           /\ settler[s].pc = "linked" => fiscal[p] = 0
           /\ \A z \in Settlers : Working(z, p) => z = s
  BY DEF IInv, OneSettler, FiscalFollowsLink, Working

\* After a step of settler s on payment p, the others work on what they did.
LEMMA OthersStay ==
    ASSUME TypeOK, NEW s \in Settlers, NEW order \in Orders,
           settler' = [settler EXCEPT ![s] = order]
    PROVE  /\ settler' \in [Settlers -> Orders] /\ settler'[s] = order
           /\ \A z \in Settlers \ {s} : settler'[z] = settler[z]
           /\ \A z \in Settlers \ {s}, q \in Payments : Working(z, q)' <=> Working(z, q)
           /\ \A q \in Payments : Working(s, q)' <=> order.pc # "idle" /\ order.payment = q
  BY DEF TypeOK, Working, Orders, Stages

\* A settler's step is judged by what it makes of its own payment: nobody else
\* works on it, and the other payments stay as they are.
LEMMA SettlerMoves ==
    ASSUME IInv, TypeOK', NEW s \in Settlers, NEW p \in Payments, NEW order \in Orders,
           settler' = [settler EXCEPT ![s] = order],
           order.pc # "idle" => order.payment = p,
           settler[s].pc # "idle" => settler[s].payment = p,
           \A z \in Settlers \ {s} : ~Working(z, p),
           posted' = posted,
           \A q \in Payments \ {p} :
               /\ resolution'[q] = resolution[q] /\ made'[q] = made[q]
               /\ fiscal'[q] = fiscal[q] /\ (q \in settled' <=> q \in settled)
               /\ (q \in waived => q \in waived') /\ (q \in stranded => q \in stranded'),
           order.pc # "idle" =>
               /\ resolution'[p] = "paid" /\ (p \in settled' <=> order.pc = "linked")
               /\ order.pc = "clear" => made'[p] = 0
               /\ order.pc \in {"created", "linked"} => made'[p] = 1
               /\ order.pc = "linked" => fiscal'[p] = 0,
           p \notin settled' => fiscal'[p] = 0,
           fiscal'[p] <= 1, made'[p] <= 1,
           p \in settled' => resolution'[p] = "paid" /\ HasReceipt(p)',
           resolution'[p] = "unpaid" => p \in waived',
           resolution'[p] = "paid" =>
               p \in settled' \/ p \in waived' \/ p \in stranded' \/ order.pc # "idle"
    PROVE  IInv'
<1>1. /\ settler'[s] = order /\ order.payment \in Payments \cup {NoPayment}
      /\ \A z \in Settlers \ {s} : settler'[z] = settler[z]
      /\ \A z \in Settlers \ {s}, q \in Payments : Working(z, q)' <=> Working(z, q)
      /\ \A q \in Payments : Working(s, q)' <=> order.pc # "idle" /\ q = p
  <2>1. TypeOK
    BY DEF IInv
  <2>2. /\ settler'[s] = order
        /\ \A z \in Settlers \ {s} : settler'[z] = settler[z]
        /\ \A z \in Settlers \ {s}, q \in Payments : Working(z, q)' <=> Working(z, q)
        /\ \A q \in Payments : Working(s, q)' <=> order.pc # "idle" /\ order.payment = q
    BY <2>1, OthersStay
  <2>3. order.payment \in Payments \cup {NoPayment}
    BY DEF Orders
  <2>4. \A q \in Payments : Working(s, q)' <=> order.pc # "idle" /\ q = p
    BY <2>2
  <2>. QED  BY <2>2, <2>3, <2>4
<1>2. \A q \in Payments \ {p} : ~Working(s, q) /\ ~Working(s, q)'
  BY <1>1 DEF Working
<1>3. OneSettler'
  <2>1. \A z \in Settlers : settler'[z].pc # "idle" => settler'[z].payment \in Payments
    BY <1>1 DEF IInv, OneSettler
  <2>2. \A y, z \in Settlers, q \in Payments : Working(y, q)' /\ Working(z, q)' => y = z
    BY <1>1, <1>2 DEF IInv, OneSettler
  <2>3. ASSUME NEW z \in Settlers, NEW q \in Payments, Working(z, q)'
        PROVE  /\ resolution'[q] = "paid" /\ (q \in settled' <=> settler'[z].pc = "linked")
               /\ settler'[z].pc = "clear" => made'[q] = 0
               /\ settler'[z].pc \in {"created", "linked"} => made'[q] = 1
    <3>1. CASE z = s
      BY <1>1, <2>3, <3>1
    <3>2. CASE z # s
      <4>1. q # p /\ Working(z, q) /\ settler'[z] = settler[z]
        BY <1>1, <2>3, <3>2
      <4>. QED  BY <4>1 DEF IInv, OneSettler
    <3>. QED  BY <3>1, <3>2
  <2>. QED  BY <2>1, <2>2, <2>3 DEF OneSettler
<1>4. FiscalFollowsLink'
  <2>1. \A q \in Payments : q \notin settled' => fiscal'[q] = 0
    BY DEF IInv, FiscalFollowsLink
  <2>2. ASSUME NEW z \in Settlers, NEW q \in Payments, Working(z, q)', settler'[z].pc = "linked"
        PROVE  fiscal'[q] = 0
    <3>1. CASE z = s
      BY <1>1, <2>2, <3>1
    <3>2. CASE z # s
      <4>1. q # p /\ Working(z, q) /\ settler'[z] = settler[z]
        BY <1>1, <2>2, <3>2
      <4>. QED  BY <2>2, <4>1 DEF IInv, FiscalFollowsLink
    <3>. QED  BY <3>1, <3>2
  <2>. QED  BY <2>1, <2>2 DEF FiscalFollowsLink
<1>5. ClaimsAreExplained'
  <2>1. ASSUME NEW q \in Payments
        PROVE  /\ resolution'[q] = "unpaid" => q \in waived'
               /\ resolution'[q] = "paid" =>
                     \/ q \in settled' \/ q \in waived' \/ q \in stranded'
                     \/ \E z \in Settlers : Working(z, q)'
    <3>1. CASE q = p
      BY <1>1, <3>1
    <3>2. CASE q # p
      <4>1. \A z \in Settlers : Working(z, q) => Working(z, q)'
        BY <1>1, <1>2, <3>2
      <4>2. /\ resolution[q] = "unpaid" => q \in waived
            /\ resolution[q] = "paid" =>
                 \/ q \in settled \/ q \in waived \/ q \in stranded
                 \/ \E z \in Settlers : Working(z, q)
        BY DEF IInv, ClaimsAreExplained
      <4>. QED  BY <3>2, <4>1, <4>2
    <3>. QED  BY <3>1, <3>2
  <2>. QED  BY <2>1 DEF ClaimsAreExplained
<1>6. OneSettlement'
  BY DEF IInv, OneSettlement
<1>7. OneFiscalRequest'
  BY DEF IInv, OneFiscalRequest
<1>8. SettledHasReceipt'
  <2>1. settled' \subseteq Payments
    BY DEF TypeOK
  <2>. QED  BY <2>1 DEF IInv, SettledHasReceipt, HasReceipt
<1>9. Kernel'
  BY <1>3, <1>4, <1>5, <1>6, <1>7, <1>8 DEF Kernel
<1>. QED  BY <1>9, NothingIsForgotten, PTL

-----------------------------------------------------------------------------
(* Types. *)

LEMMA CashierTypes ==
    ASSUME TypeOK, NEW p \in Payments, CashierStep(p)
    PROVE  TypeOK'
<1>. USE DEF row, receipts, desk, history
<1>1. CASE Pay(p)
  BY <1>1 DEF Pay, TypeOK
<1>2. CASE MarkInDoubt(p)
  BY <1>2 DEF MarkInDoubt, TypeOK
<1>3. CASE Result(p)
  BY <1>3 DEF Result, TypeOK
<1>4. ASSUME NEW outcome \in {"completed", "refused", "unclear"}, Decide(p, outcome)
      PROVE  TypeOK'
  BY <1>4 DEF Decide, TypeOK
<1>5. CASE Approved(p)
  BY <1>5 DEF Approved, TypeOK
<1>6. CASE PostReceipt(p)
  BY <1>6 DEF PostReceipt, TypeOK
<1>7. CASE PostFails(p)
  BY <1>7 DEF PostFails, TypeOK
<1>8. CASE Reverse(p)
  BY <1>8 DEF Reverse, TypeOK
<1>9. CASE Leave(p)
  BY <1>9 DEF Leave, TypeOK
<1>10. CASE Classify(p)
  BY <1>10 DEF Classify, TypeOK
<1>. QED  BY <1>1, <1>2, <1>3, <1>4, <1>5, <1>6, <1>7, <1>8, <1>9, <1>10 DEF CashierStep

LEMMA SweepTypes ==
    ASSUME TypeOK, NEW w \in Sweepers, SweepStep(w)
    PROVE  TypeOK'
<1>. USE DEF row, receipts, desk, history
<1>1. ASSUME NEW p \in Payments, List(w, p) PROVE TypeOK'
  BY <1>1 DEF List, TypeOK
<1>2. sweep[w].pc # "idle" =>
         sweep[w] \in [pc : {"staff", "client"}, payment : Payments]
  BY DEF TypeOK, Quiet
<1>3. CASE TellStaff(w)
  <2>1. sweep' \in [Sweepers -> {Quiet} \cup [pc : {"staff", "client"}, payment : Payments]]
    BY <1>2, <1>3 DEF TellStaff, TypeOK
  <2>. QED  BY <1>2, <1>3, <2>1 DEF TellStaff, TypeOK
<1>4. CASE TellClient(w)
  BY <1>2, <1>4 DEF TellClient, TypeOK
<1>5. CASE SweepDies(w)
  BY <1>5 DEF SweepDies, Death, TypeOK
<1>. QED  BY <1>1, <1>3, <1>4, <1>5 DEF SweepStep

LEMMA SettlerTypes ==
    ASSUME IInv, NEW s \in Settlers, SettlerStep(s)
    PROVE  TypeOK'
<1>. USE DEF row, receipts, desk, history
<1>1. TypeOK /\ Idle \in Orders /\ settler[s] \in Orders
  BY DEF IInv, TypeOK, Idle, Orders, Stages
<1>2. settler[s].pc # "idle" => settler[s].payment \in Payments
  BY DEF IInv, OneSettler
<1>3. ASSUME NEW order \in Orders, settler' = [settler EXCEPT ![s] = order]
      PROVE  settler' \in [Settlers -> [pc : Stages, payment : Payments \cup {NoPayment},
                                        before : {"null", "in_doubt"}]]
  BY <1>1, <1>3 DEF TypeOK, Orders, Stages
<1>4. \A pc \in Stages : [settler[s] EXCEPT !.pc = pc] \in Orders
  BY <1>1 DEF Orders
<1>5. ASSUME NEW p \in Payments, Claim(s, p) PROVE TypeOK'
  <2>1. resolution[p] \in {"null", "in_doubt"}
    BY <1>5 DEF Claim, Claimable
  <2>2. [pc |-> "claimed", payment |-> p, before |-> resolution[p]] \in Orders
    BY <2>1 DEF Orders, Stages
  <2>. QED  BY <1>1, <1>3, <1>5, <2>2 DEF Claim, TypeOK, Stages
<1>6. CASE LookForReceipt(s)
  <2>1. settler' \in [Settlers -> Orders]
    BY <1>1, <1>3, <1>4, <1>6 DEF LookForReceipt, Orders, Stages
  <2>. QED  BY <1>1, <1>2, <1>6, <2>1 DEF LookForReceipt, TypeOK, Orders, Stages
<1>7. CASE CreateReceipt(s)
  <2>1. settler' \in [Settlers -> Orders]
    BY <1>1, <1>3, <1>4, <1>7 DEF CreateReceipt, Orders, Stages
  <2>. QED  BY <1>1, <1>2, <1>7, <2>1 DEF CreateReceipt, TypeOK, Orders, Stages
<1>8. CASE Refuse(s)
  BY <1>1, <1>3, <1>4, <1>8 DEF Refuse, TypeOK, Stages
<1>9. CASE Revert(s)
  <2>1. settler' \in [Settlers -> Orders]
    BY <1>1, <1>3, <1>9 DEF Revert, Orders, Stages
  <2>2. settler[s].before \in {"null", "in_doubt"}
    BY <1>1 DEF Orders
  <2>. QED  BY <1>1, <1>2, <1>9, <2>1, <2>2 DEF Revert, RevertTo, TypeOK, Orders, Stages
<1>10. CASE Link(s)
  <2>1. settler' \in [Settlers -> Orders]
    BY <1>1, <1>3, <1>4, <1>10 DEF Link, Orders, Stages
  <2>. QED  BY <1>1, <1>2, <1>10, <2>1 DEF Link, Linked, TypeOK, Orders, Stages
<1>11. CASE Fiscalize(s)
  <2>1. settler' \in [Settlers -> Orders]
    BY <1>1, <1>3, <1>11 DEF Fiscalize, Orders
  <2>2. fiscal' \in [Payments -> Nat]
    BY <1>1, <1>2, <1>11 DEF Fiscalize, TypeOK
  <2>. QED  BY <1>1, <1>11, <2>1, <2>2 DEF Fiscalize, TypeOK, Orders, Stages
<1>12. CASE Die(s)
  <2>1. settler' \in [Settlers -> Orders]
    BY <1>1, <1>3, <1>12 DEF Die, Orders
  <2>2. stranded' \subseteq Payments /\ deaths' \in Nat
    BY <1>1, <1>2, <1>12 DEF Die, Death, TypeOK
  <2>. QED  BY <1>1, <1>12, <2>1, <2>2 DEF Die, TypeOK, Orders, Stages
<1>. QED  BY <1>5, <1>6, <1>7, <1>8, <1>9, <1>10, <1>11, <1>12 DEF SettlerStep

-----------------------------------------------------------------------------
(* The steps of the settling routes. *)

\* A verdict without a receipt is for a payment in doubt that nobody holds.
LEMMA WaiveKeeps ==
    ASSUME IInv, NEW p \in Payments, NEW verdict \in {"unpaid", "paid"}, Waive(p, verdict)
    PROVE  IInv'
<1>. USE DEF row, receipts, desk, history
<1>1. /\ resolution[p] = "in_doubt" /\ resolution' = [resolution EXCEPT ![p] = verdict]
      /\ waived' = waived \cup {p}
      /\ UNCHANGED <<status, settled, staffTold, clientTold, receipts, desk,
                     settler, sweep, fiscal, stranded, deaths>>
  BY DEF Waive
<1>2. TypeOK'
  BY <1>1 DEF IInv, TypeOK
<1>3. /\ p \notin settled /\ \A s \in Settlers : ~Working(s, p)
      /\ resolution'[p] = verdict /\ \A q \in Payments \ {p} : resolution'[q] = resolution[q]
  BY <1>1 DEF IInv, TypeOK, SettledHasReceipt, OneSettler
<1>4. \A s \in Settlers, q \in Payments : Working(s, q)' <=> Working(s, q)
  BY <1>1 DEF Working
<1>5. OneSettler'
  BY <1>1, <1>3, <1>4 DEF IInv, OneSettler
<1>6. FiscalFollowsLink' /\ OneFiscalRequest' /\ OneSettlement'
  BY <1>1, <1>4 DEF IInv, FiscalFollowsLink, OneFiscalRequest, OneSettlement
<1>7. ClaimsAreExplained'
  BY <1>1, <1>3, <1>4 DEF IInv, ClaimsAreExplained
<1>8. SettledHasReceipt'
  BY <1>1, <1>3 DEF IInv, TypeOK, SettledHasReceipt, HasReceipt
<1>9. Kernel'
  BY <1>5, <1>6, <1>7, <1>8 DEF Kernel
<1>. QED  BY <1>2, <1>9, NothingIsForgotten, PTL

LEMMA ClaimKeeps ==
    ASSUME IInv, TypeOK', NEW s \in Settlers, NEW p \in Payments, Claim(s, p)
    PROVE  IInv'
<1>. DEFINE order == [pc |-> "claimed", payment |-> p, before |-> resolution[p]]
<1>1. /\ settler[s].pc = "idle" /\ Claimable(p)
      /\ resolution' = [resolution EXCEPT ![p] = "paid"]
      /\ settler' = [settler EXCEPT ![s] = order]
      /\ UNCHANGED <<settled, posted, made, fiscal, waived, stranded>>
  BY DEF Claim, receipts, history
<1>2. resolution[p] \in {"null", "in_doubt"} /\ p \notin settled
  BY <1>1 DEF Claimable, IInv, SettledHasReceipt
<1>3. order \in Orders
  BY <1>2 DEF Orders, Stages
<1>4. \A z \in Settlers : ~Working(z, p)
  BY <1>2 DEF IInv, OneSettler
<1>5. resolution'[p] = "paid" /\ \A q \in Payments \ {p} : resolution'[q] = resolution[q]
  BY <1>1 DEF IInv, TypeOK
<1>6. fiscal[p] = 0 /\ fiscal[p] <= 1 /\ made[p] <= 1
  BY <1>2 DEF IInv, FiscalFollowsLink, OneSettlement
<1>. QED  BY <1>1, <1>2, <1>3, <1>4, <1>5, <1>6, SettlerMoves

\* The steps between claim and link, for the payment that s has claimed.
LEMMA WorkKeeps ==
    ASSUME IInv, TypeOK', NEW s \in Settlers,
           \/ LookForReceipt(s) \/ CreateReceipt(s) \/ Refuse(s) \/ Revert(s)
           \/ Link(s) \/ Fiscalize(s) \/ Die(s)
    PROVE  IInv'
<1>1. settler[s].pc # "idle"
  BY DEF LookForReceipt, CreateReceipt, Refuse, Revert, Link, Fiscalize, Die
<1>0. PICK p \in Payments : p = settler[s].payment
  BY <1>1, Owner
<1>2. /\ Working(s, p) /\ resolution[p] = "paid"
      /\ p \in settled <=> settler[s].pc = "linked"
      /\ settler[s].pc = "clear" => made[p] = 0
      /\ settler[s].pc \in {"created", "linked"} => made[p] = 1
      /\ settler[s].pc = "linked" => fiscal[p] = 0
      /\ \A z \in Settlers \ {s} : ~Working(z, p)
  BY <1>0, <1>1, Owner
<1>3. /\ p \notin settled => fiscal[p] = 0
      /\ fiscal[p] \in {0, 1} /\ made[p] \in {0, 1} /\ fiscal[p] <= 1 /\ made[p] <= 1
      /\ p \in settled => HasReceipt(p)
  <2>1. p \notin settled => fiscal[p] = 0
    BY DEF IInv, FiscalFollowsLink
  <2>2. fiscal[p] <= 1 /\ made[p] <= 1 /\ fiscal[p] \in Nat /\ made[p] \in Nat
    BY DEF IInv, OneSettlement, OneFiscalRequest, TypeOK
  <2>3. p \in settled => HasReceipt(p)
    BY DEF IInv, SettledHasReceipt
  <2>. QED  BY <2>1, <2>2, <2>3
<1>4. /\ Idle \in Orders /\ Idle.pc = "idle" /\ settler[s] \in Orders
      /\ \A pc \in Stages : /\ [settler[s] EXCEPT !.pc = pc] \in Orders
                             /\ [settler[s] EXCEPT !.pc = pc].pc = pc
                             /\ [settler[s] EXCEPT !.pc = pc].payment = p
                             /\ [settler EXCEPT ![s].pc = pc]
                                   = [settler EXCEPT ![s] = [settler[s] EXCEPT !.pc = pc]]
  <2>1. Idle \in Orders /\ Idle.pc = "idle"
    BY DEF Idle, Orders, Stages
  <2>2. settler \in [Settlers -> Orders]
    BY DEF IInv, TypeOK, Orders, Stages
  <2>3. settler[s] \in Orders
    BY <2>2
  <2>. HIDE DEF Stages
  <2>4. \A pc \in Stages : /\ [settler[s] EXCEPT !.pc = pc] \in Orders
                           /\ [settler[s] EXCEPT !.pc = pc].pc = pc
                           /\ [settler[s] EXCEPT !.pc = pc].payment = p
    BY <1>0, <2>3 DEF Orders
  <2>5. \A pc \in Stages : [settler EXCEPT ![s].pc = pc]
                             = [settler EXCEPT ![s] = [settler[s] EXCEPT !.pc = pc]]
    BY <2>2
  <2>. QED  BY <2>1, <2>3, <2>4, <2>5
<1>12. Idle \in Orders /\ Idle.pc = "idle"
  BY <1>4
<1>5. CASE LookForReceipt(s)
  <2>1. UNCHANGED <<resolution, posted, made, fiscal, waived, stranded>>
    BY <1>0, <1>5 DEF LookForReceipt, receipts, history
  <2>2. CASE HasReceipt(p)
    <3>1. settled' = settled \cup {p} /\ settler' = [settler EXCEPT ![s] = Idle]
      BY <1>0, <1>5, <2>2 DEF LookForReceipt, Prior
    <3>2. HasReceipt(p)'
      BY <1>0, <2>1, <2>2 DEF HasReceipt
    <3>. QED  BY <1>0, <1>2, <1>3, <1>12, <2>1, <3>1, <3>2, SettlerMoves
  <2>3. CASE ~HasReceipt(p)
    <3>. DEFINE order == [settler[s] EXCEPT !.pc = "clear"]
    <3>1. /\ UNCHANGED settled /\ settler' = [settler EXCEPT ![s] = order]
          /\ order \in Orders /\ order.pc = "clear" /\ order.payment = p
      BY <1>0, <1>4, <1>5, <2>3 DEF LookForReceipt, Prior, Stages
    <3>2. made[p] = 0 /\ p \notin settled
      BY <1>0, <1>3, <2>3 DEF HasReceipt
    <3>. HIDE DEF order
    <3>. QED  BY <1>0, <1>2, <1>3, <2>1, <3>1, <3>2, SettlerMoves
  <2>. QED  BY <1>0, <2>2, <2>3
<1>6. CASE CreateReceipt(s)
  <2>1. PICK pc \in {"created", "failed"} : settler' = [settler EXCEPT ![s].pc = pc]
    BY <1>0, <1>6 DEF CreateReceipt
  <2>. DEFINE order == [settler[s] EXCEPT !.pc = pc]
  <2>2. /\ settler' = [settler EXCEPT ![s] = order]
        /\ order \in Orders /\ order.pc = pc /\ order.payment = p
    BY <1>0, <1>4, <2>1 DEF Stages
  <2>3. /\ settler[s].pc = "clear" /\ made' = [made EXCEPT ![p] = @ + 1]
        /\ UNCHANGED <<resolution, settled, posted, fiscal, waived, stranded>>
    BY <1>0, <1>6 DEF CreateReceipt, row, history
  <2>4. made'[p] = 1 /\ made'[p] <= 1 /\ \A q \in Payments \ {p} : made'[q] = made[q]
    BY <1>0, <1>2, <2>3 DEF IInv, TypeOK
  <2>5. p \notin settled /\ order.pc \in {"created", "failed"} /\ settled' = settled
    BY <1>0, <1>2, <2>1, <2>2, <2>3
  <2>. HIDE DEF order
  <2>. QED  BY <1>0, <1>2, <1>3, <2>2, <2>3, <2>4, <2>5, SettlerMoves
<1>7. CASE Refuse(s)
  <2>. DEFINE order == [settler[s] EXCEPT !.pc = "failed"]
  <2>1. /\ settler' = [settler EXCEPT ![s] = order]
        /\ order \in Orders /\ order.pc = "failed" /\ order.payment = p
    BY <1>0, <1>4, <1>7 DEF Refuse, Stages
  <2>2. UNCHANGED <<resolution, settled, posted, made, fiscal, waived, stranded>>
    BY <1>0, <1>7 DEF Refuse, row, receipts, history
  <2>3. p \notin settled
    BY <1>0, <1>2, <1>7 DEF Refuse
  <2>. HIDE DEF order
  <2>. QED  BY <1>0, <1>2, <1>3, <2>1, <2>2, <2>3, SettlerMoves
<1>8. CASE Revert(s)
  <2>1. /\ settler[s].pc = "failed" /\ settler' = [settler EXCEPT ![s] = Idle]
        /\ UNCHANGED <<settled, posted, made, fiscal, waived, stranded>>
    BY <1>0, <1>8 DEF Revert, receipts, history
  <2>2. p \notin settled
    BY <1>0, <1>2, <2>1
  <2>3. resolution' = [resolution EXCEPT ![p] = settler[s].before]
    BY <1>0, <1>2, <1>8, <2>2 DEF Revert, RevertTo
  <2>4. settler[s].before \in {"null", "in_doubt"}
    BY <1>0, <1>4 DEF Orders
  <2>5. /\ resolution'[p] \in {"null", "in_doubt"}
        /\ \A q \in Payments \ {p} : resolution'[q] = resolution[q]
    BY <1>0, <1>2, <2>3, <2>4 DEF IInv, TypeOK
  <2>. QED  BY <1>0, <1>2, <1>3, <1>12, <2>1, <2>2, <2>5, SettlerMoves
<1>9. CASE Link(s)
  <2>. DEFINE order == [settler[s] EXCEPT !.pc = "linked"]
  <2>1. p \notin settled /\ made[p] = 1
    BY <1>0, <1>2, <1>9 DEF Link
  <2>2. /\ settler' = [settler EXCEPT ![s] = order] /\ settled' = settled \cup {p}
        /\ UNCHANGED <<resolution, posted, made, fiscal, waived, stranded>>
    BY <1>0, <1>9, <2>1 DEF Link, Linked, receipts, history
  <2>3. order \in Orders /\ order.pc = "linked" /\ order.payment = p
    BY <1>0, <1>4 DEF Stages
  <2>4. HasReceipt(p)'
    BY <1>0, <2>1, <2>2 DEF HasReceipt
  <2>. HIDE DEF order
  <2>. QED  BY <1>0, <1>2, <1>3, <2>1, <2>2, <2>3, <2>4, SettlerMoves
<1>10. CASE Fiscalize(s)
  <2>1. /\ settler[s].pc = "linked" /\ fiscal' = [fiscal EXCEPT ![p] = @ + 1]
        /\ settler' = [settler EXCEPT ![s] = Idle]
        /\ UNCHANGED <<resolution, settled, posted, made, waived, stranded>>
    BY <1>0, <1>10 DEF Fiscalize, row, receipts
  <2>2. fiscal'[p] = 1 /\ \A q \in Payments \ {p} : fiscal'[q] = fiscal[q]
    BY <1>0, <1>2, <2>1 DEF IInv, TypeOK
  <2>3. HasReceipt(p)' /\ p \in settled
    BY <1>0, <1>2, <1>3, <2>1 DEF HasReceipt
  <2>. QED  BY <1>0, <1>2, <1>3, <1>12, <2>1, <2>2, <2>3, SettlerMoves
<1>11. CASE Die(s)
  <2>1. /\ settler' = [settler EXCEPT ![s] = Idle]
        /\ stranded' = IF p \in settled THEN stranded ELSE stranded \cup {p}
        /\ UNCHANGED <<resolution, settled, posted, made, fiscal, waived>>
    BY <1>0, <1>11 DEF Die, row, receipts
  <2>2. p \in settled => HasReceipt(p)'
    BY <1>0, <1>3, <2>1 DEF HasReceipt
  <2>. QED  BY <1>0, <1>2, <1>3, <1>12, <2>1, <2>2, SettlerMoves
<1>. QED  BY <1>5, <1>6, <1>7, <1>8, <1>9, <1>10, <1>11

-----------------------------------------------------------------------------
(* The invariant, and what follows. *)

\* One settler per payment, one receipt, one link, one fiscal document, and an
\* explanation for every claim: IInv is inductive.
THEOREM SettlementInvariance == Spec => []IInv
<1>1. Init => IInv
  <2>. SUFFICES ASSUME Init PROVE IInv
    OBVIOUS
  <2>1. TypeOK
    BY DEF Init, TypeOK, Idle, Quiet
  <2>2. /\ \A s \in Settlers : settler[s].pc = "idle"
        /\ \A p \in Payments : /\ status[p] = "none" /\ resolution[p] = "null"
                               /\ made[p] = 0 /\ fiscal[p] = 0
        /\ settled = {}
    BY DEF Init, Idle
  <2>3. OneSettler /\ FiscalFollowsLink /\ ClaimsAreExplained
    BY <2>2 DEF OneSettler, FiscalFollowsLink, ClaimsAreExplained, Working
  <2>4. OneFiscalRequest /\ OneSettlement /\ SettledHasReceipt
    BY <2>2 DEF OneFiscalRequest, OneSettlement, SettledHasReceipt
  <2>5. Kernel
    BY <2>3, <2>4 DEF Kernel
  <2>. QED  BY <2>1, <2>5, NothingIsForgotten
<1>2. IInv /\ [Next]_vars => IInv'
  <2>. SUFFICES ASSUME IInv, [Next]_vars PROVE IInv'
    OBVIOUS
  <2>0. TypeOK
    BY DEF IInv
  <2>1. CASE UNCHANGED vars
    <3>1. TypeOK'
      BY <2>0, <2>1 DEF vars, row, receipts, desk, history, TypeOK
    <3>. QED  BY <2>1, <3>1, BystandersKeep DEF vars, row, receipts, desk, history, core
  <2>2. ASSUME NEW p \in Payments, CashierStep(p) PROVE IInv'
    <3>1. TypeOK'
      BY <2>0, <2>2, CashierTypes
    <3>2. CASE MarkInDoubt(p)
      <4>1. /\ resolution[p] = "null" /\ resolution' = [resolution EXCEPT ![p] = "in_doubt"]
            /\ UNCHANGED <<status, settled, posted, made, settler, fiscal, waived, stranded>>
        BY <3>2 DEF MarkInDoubt, Doubtful, receipts, history
      <4>2. /\ p \notin settled /\ \A s \in Settlers : ~Working(s, p)
            /\ resolution'[p] = "in_doubt"
            /\ \A q \in Payments \ {p} : resolution'[q] = resolution[q]
        BY <4>1 DEF IInv, TypeOK, SettledHasReceipt, OneSettler
      <4>3. \A s \in Settlers, q \in Payments : Working(s, q)' <=> Working(s, q)
        BY <4>1 DEF Working
      <4>4. OneSettler'
        BY <4>1, <4>2, <4>3 DEF IInv, OneSettler
      <4>5. FiscalFollowsLink' /\ OneFiscalRequest' /\ OneSettlement'
        BY <4>1, <4>3 DEF IInv, FiscalFollowsLink, OneFiscalRequest, OneSettlement
      <4>6. ClaimsAreExplained'
        BY <4>1, <4>2, <4>3 DEF IInv, ClaimsAreExplained
      <4>7. SettledHasReceipt'
        BY <4>1, <4>2 DEF IInv, TypeOK, SettledHasReceipt, HasReceipt
      <4>8. Kernel'
        BY <4>4, <4>5, <4>6, <4>7 DEF Kernel
      <4>. QED  BY <3>1, <4>8, NothingIsForgotten, PTL
    <3>3. CASE ~MarkInDoubt(p)
      <4>1. UNCHANGED core /\ posted \subseteq posted'
        BY <2>2, <3>3 DEF CashierStep, Pay, Classify, Result, Decide, Approved, PostReceipt,
                          PostFails, Reverse, Leave, row, receipts, desk, history, core
      <4>. QED  BY <3>1, <4>1, BystandersKeep
    <3>. QED  BY <3>2, <3>3
  <2>3. ASSUME NEW p \in Payments, NEW verdict \in {"unpaid", "paid"}, Waive(p, verdict)
        PROVE  IInv'
    BY <2>3, WaiveKeeps
  <2>4. ASSUME NEW s \in Settlers, SettlerStep(s) PROVE IInv'
    <3>1. TypeOK'
      BY <2>4, SettlerTypes
    <3>. QED  BY <2>4, <3>1, ClaimKeeps, WorkKeeps DEF SettlerStep
  <2>5. ASSUME NEW w \in Sweepers, SweepStep(w) PROVE IInv'
    <3>1. TypeOK'
      BY <2>0, <2>5, SweepTypes
    <3>2. UNCHANGED core /\ posted \subseteq posted'
      BY <2>5 DEF SweepStep, List, TellStaff, TellClient, SweepDies, row, receipts, desk,
                  history, core
    <3>. QED  BY <3>1, <3>2, BystandersKeep
  <2>. QED  BY <2>1, <2>2, <2>3, <2>4, <2>5 DEF Next
<1>. QED  BY <1>1, <1>2, PTL DEF Spec

\* However the requests interleave, fail and die, the settling routes make one
\* receipt for a payment.
THEOREM SettledOnce == Spec => []OneSettlement
<1>1. IInv => OneSettlement
  BY DEF IInv
<1>. QED  BY <1>1, SettlementInvariance, PTL

\* ... and ask once for its fiscal document.
THEOREM FiscalizedOnce == Spec => []OneFiscalRequest
<1>1. IInv => OneFiscalRequest
  BY DEF IInv
<1>. QED  BY <1>1, SettlementInvariance, PTL

\* What counts as settled was resolved as paid and has a receipt.
THEOREM SettledMeansReceipt == Spec => []SettledHasReceipt
<1>1. IInv => SettledHasReceipt
  BY DEF IInv
<1>. QED  BY <1>1, SettlementInvariance, PTL

\* A completed payment without a receipt is in a list, in somebody's hands,
\* closed, or left behind by a settler that died.
THEOREM PaymentsAreAccountedFor == Spec => []NothingForgotten
<1>1. IInv => NothingForgotten
  BY DEF IInv
<1>. QED  BY <1>1, SettlementInvariance, PTL

\* Neither a late result nor a slow revert takes a verdict back.
THEOREM VerdictsStand == Spec => VerdictIsFinal
<1>. DEFINE Stands == \A p \in Payments :
          resolution[p] = "unpaid" \/ p \in settled =>
              resolution'[p] = resolution[p] /\ (p \in settled => p \in settled')
<1>1. IInv /\ [Next]_vars => [Stands]_vars
  <2>. SUFFICES ASSUME IInv, Next PROVE Stands
    OBVIOUS
  <2>1. /\ \A p \in settled : resolution[p] = "paid"
        /\ resolution \in [Payments -> {"null", "in_doubt", "paid", "unpaid"}]
    BY DEF IInv, TypeOK, SettledHasReceipt
  <2>2. ASSUME UNCHANGED <<resolution, settled>> PROVE Stands
    BY <2>2
  <2>3. ASSUME NEW p \in Payments, NEW to, resolution[p] # "unpaid", p \notin settled,
               resolution' = [resolution EXCEPT ![p] = to], settled' = settled
        PROVE  Stands
    BY <2>1, <2>3
  <2>4. ASSUME NEW p \in Payments, CashierStep(p) PROVE Stands
    <3>1. CASE MarkInDoubt(p)
      BY <2>1, <2>3, <3>1 DEF MarkInDoubt, Doubtful
    <3>2. CASE ~MarkInDoubt(p)
      <4>1. UNCHANGED <<resolution, settled>>
        BY <2>4, <3>2 DEF CashierStep, Pay, Classify, Result, Decide, Approved, PostReceipt,
                          PostFails, Reverse, Leave, row
      <4>. QED  BY <2>2, <4>1
    <3>. QED  BY <3>1, <3>2
  <2>5. ASSUME NEW p \in Payments, NEW verdict \in {"unpaid", "paid"}, Waive(p, verdict)
        PROVE  Stands
    BY <2>1, <2>3, <2>5 DEF Waive
  <2>6. ASSUME NEW s \in Settlers, SettlerStep(s) PROVE Stands
    <3>1. ASSUME NEW p \in Payments, Claim(s, p) PROVE Stands
      BY <2>1, <2>3, <3>1 DEF Claim, Claimable
    <3>2. CASE Revert(s)
      <4>1. PICK p \in Payments : p = settler[s].payment /\ resolution[p] = "paid" /\ p \notin settled
        <5>1. settler[s].pc = "failed"
          BY <3>2 DEF Revert
        <5>. QED  BY <5>1, Owner
      <4>2. resolution' = [resolution EXCEPT ![p] = RevertTo(s)] /\ settled' = settled
        BY <3>2, <4>1 DEF Revert
      <4>. QED  BY <2>3, <4>1, <4>2
    <3>3. CASE LookForReceipt(s) \/ Link(s)
      <4>1. resolution' = resolution /\ settled \subseteq settled'
        BY <3>3 DEF LookForReceipt, Link, Linked
      <4>. QED  BY <4>1
    <3>4. CASE CreateReceipt(s) \/ Refuse(s) \/ Fiscalize(s) \/ Die(s)
      <4>1. UNCHANGED <<resolution, settled>>
        BY <3>4 DEF CreateReceipt, Refuse, Fiscalize, Die, row
      <4>. QED  BY <2>2, <4>1
    <3>. QED  BY <2>6, <3>1, <3>2, <3>3, <3>4 DEF SettlerStep
  <2>7. ASSUME NEW w \in Sweepers, SweepStep(w) PROVE Stands
    <3>1. UNCHANGED <<resolution, settled>>
      BY <2>7 DEF SweepStep, List, TellStaff, TellClient, SweepDies, row
    <3>. QED  BY <2>2, <3>1
  <2>. QED  BY <2>4, <2>5, <2>6, <2>7 DEF Next
<1>2. [][Stands]_vars <=> VerdictIsFinal
  BY DEF VerdictIsFinal
<1>. QED  BY <1>1, <1>2, SettlementInvariance, PTL DEF Spec

\* The client is told of a payment only while it is nobody's business but the
\* sweep's: a claim, a link or a verdict between the list and the message counts.
\* The sweep sees no request, but its claim, as OneSettler says.
THEOREM NewsStaysCurrent == Spec => NewsIsCurrent
<1>. DEFINE Current == \A p \in clientTold' \ clientTold :
                          resolution[p] = "null" /\ p \notin settled /\ ~Held(p)
<1>1. IInv /\ [Next]_vars => [Current]_vars
  <2>. SUFFICES ASSUME IInv, Next PROVE Current
    OBVIOUS
  <2>1. ASSUME NEW w \in Sweepers, SweepStep(w) PROVE Current
    <3>1. CASE TellClient(w)
      <4>1. \A p \in Payments : resolution[p] = "null" => ~Held(p)
        BY DEF IInv, OneSettler, Held
      <4>2. sweep[w].payment \in Payments
        BY <3>1 DEF IInv, TypeOK, TellClient, Quiet
      <4>. QED  BY <3>1, <4>1, <4>2 DEF TellClient, StillOpen
    <3>2. CASE ~TellClient(w)
      BY <2>1, <3>2 DEF SweepStep, List, TellStaff, SweepDies, row
    <3>. QED  BY <3>1, <3>2
  <2>2. CASE ~(\E w \in Sweepers : SweepStep(w))
    <3>1. clientTold' = clientTold
      BY <2>2 DEF Next, CashierStep, Pay, Classify, MarkInDoubt, Result, Decide, Approved,
                  PostReceipt, PostFails, Reverse, Leave, Waive, SettlerStep, Claim, LookForReceipt,
                  CreateReceipt, Refuse, Revert, Link, Fiscalize, Die, row
    <3>. QED  BY <3>1
  <2>. QED  BY <2>1, <2>2
<1>2. [][Current]_vars <=> NewsIsCurrent
  BY DEF NewsIsCurrent
<1>. QED  BY <1>1, <1>2, SettlementInvariance, PTL DEF Spec

-----------------------------------------------------------------------------
(* The settling routes implement SettlementLedger.                            *)

Phases == [p \in Payments |-> PhaseOf(p)]
Backed == {p \in Payments : HasReceipt(p)}

\* What the ledger sees of a payment, case by case.
LEMMA PhaseCases ==
    ASSUME IInv, NEW p \in Payments
    PROVE  /\ Phases[p] = PhaseOf(p)
           /\ p \in settled => PhaseOf(p) = "settled"
           /\ p \notin settled /\ resolution[p] \in {"null", "in_doubt"} => PhaseOf(p) = "free"
           /\ p \notin settled /\ resolution[p] \in {"paid", "unpaid"} =>
                 PhaseOf(p) = IF Held(p) THEN "held" ELSE "closed"
  BY DEF Phases, PhaseOf

\* A step that concerns payment p leaves the phases of the others alone.
LEMMA OnePhaseMoves ==
    ASSUME IInv, NEW p \in Payments,
           \A q \in Payments \ {p} : /\ resolution'[q] = resolution[q]
                                     /\ q \in settled' <=> q \in settled
                                     /\ Held(q)' <=> Held(q)
    PROVE  Phases' = [Phases EXCEPT ![p] = PhaseOf(p)']
<1>1. \A q \in Payments \ {p} : PhaseOf(q)' = PhaseOf(q)
  BY DEF PhaseOf
<1>. QED  BY <1>1 DEF Phases

\* Nobody sees a step of the ledger in what leaves verdicts, links, claims and
\* receipts as they are.
LEMMA LedgerStutters ==
    ASSUME IInv, UNCHANGED <<settled, made, posted, fiscal>>,
           \A q \in Payments : /\ Held(q)' <=> Held(q)
                               /\ resolution'[q] = resolution[q]
    PROVE  UNCHANGED <<Phases, made, Backed, fiscal>>
<1>1. \A q \in Payments : PhaseOf(q)' = PhaseOf(q)
  BY DEF PhaseOf
<1>. QED  BY <1>1 DEF Phases, Backed, HasReceipt

\* The hands that hold a payment are a settler's; who steps on keeps it or lets go.
LEMMA HandsOf ==
    ASSUME IInv, NEW s \in Settlers, NEW p \in Payments, NEW order \in Orders,
           settler' = [settler EXCEPT ![s] = order],
           settler[s].pc # "idle" => settler[s].payment = p,
           order.pc # "idle" => order.payment = p,
           \A z \in Settlers \ {s} : ~Working(z, p)
    PROVE  /\ Held(p)' <=> order.pc # "idle"
           /\ Held(p) <=> settler[s].pc # "idle"
           /\ \A q \in Payments \ {p} : Held(q)' <=> Held(q)
<1>1. TypeOK
  BY DEF IInv
<1>2. /\ \A z \in Settlers \ {s}, q \in Payments : Working(z, q)' <=> Working(z, q)
      /\ \A q \in Payments : Working(s, q)' <=> order.pc # "idle" /\ order.payment = q
  BY <1>1, OthersStay
<1>3. \A q \in Payments : Working(s, q) <=> settler[s].pc # "idle" /\ q = p
  BY DEF Working
<1>. QED  BY <1>2, <1>3 DEF Held

\* The requests of the cash desk: a receipt is posted, or nothing is seen.
LEMMA CashierRefines ==
    ASSUME IInv, NEW p \in Payments, CashierStep(p)
    PROVE  Ledger!Next \/ UNCHANGED <<Phases, made, Backed, fiscal>>
<1>1. UNCHANGED <<settled, made, settler, fiscal>>
  BY DEF CashierStep, Pay, Classify, MarkInDoubt, Result, Decide, Approved, PostReceipt,
         PostFails, Reverse, Leave, row, receipts, history
<1>2. \A q \in Payments : Held(q)' <=> Held(q)
  BY <1>1 DEF Held, Working
<1>3. CASE PostReceipt(p)
  <2>1. posted' = posted \cup {p} /\ UNCHANGED resolution
    BY <1>3 DEF PostReceipt, row
  <2>2. Phases' = Phases
    BY <1>1, <1>2, <2>1 DEF Phases, PhaseOf
  <2>3. Backed' = Backed \cup {p}
    BY <1>1, <2>1 DEF Backed, HasReceipt
  <2>4. Ledger!Post(p)
    BY <1>1, <2>2, <2>3 DEF Ledger!Post, Phases, Backed
  <2>. QED  BY <2>4 DEF Ledger!Next
<1>4. CASE MarkInDoubt(p)
  <2>1. /\ resolution[p] = "null" /\ resolution' = [resolution EXCEPT ![p] = "in_doubt"]
        /\ UNCHANGED posted
    BY <1>4 DEF MarkInDoubt, Doubtful, receipts
  <2>2. \A q \in Payments : PhaseOf(q)' = PhaseOf(q)
    BY <1>1, <1>2, <2>1 DEF IInv, TypeOK, PhaseOf
  <2>. QED  BY <1>1, <2>1, <2>2 DEF Phases, Backed, HasReceipt
<1>5. CASE ~PostReceipt(p) /\ ~MarkInDoubt(p)
  <2>1. UNCHANGED <<resolution, posted>>
    BY <1>5 DEF CashierStep, Pay, Classify, Result, Decide, Approved, PostFails, Reverse, Leave,
                row, receipts
  <2>. QED  BY <1>1, <1>2, <2>1, LedgerStutters
<1>. QED  BY <1>3, <1>4, <1>5

\* A verdict without a receipt closes a payment that is free.
LEMMA WaiveRefines ==
    ASSUME IInv, NEW p \in Payments, NEW verdict \in {"unpaid", "paid"}, Waive(p, verdict)
    PROVE  Ledger!Close(p)
<1>1. /\ resolution[p] = "in_doubt" /\ resolution' = [resolution EXCEPT ![p] = verdict]
      /\ UNCHANGED <<settled, made, posted, settler, fiscal>>
  BY DEF Waive, receipts
<1>2. p \notin settled /\ ~Held(p)
  BY <1>1 DEF IInv, SettledHasReceipt, OneSettler, Held
<1>3. \A q \in Payments : Held(q)' <=> Held(q)
  BY <1>1 DEF Held, Working
<1>4. resolution'[p] = verdict /\ \A q \in Payments \ {p} : resolution'[q] = resolution[q]
  BY <1>1 DEF IInv, TypeOK
<1>5. PhaseOf(p) = "free"
  BY <1>1, <1>2 DEF PhaseOf
<1>6. PhaseOf(p)' = "closed"
  BY <1>1, <1>2, <1>3, <1>4 DEF PhaseOf
<1>7. Phases' = [Phases EXCEPT ![p] = "closed"]
  BY <1>1, <1>3, <1>4, <1>6, OnePhaseMoves
<1>. QED  BY <1>1, <1>5, <1>7 DEF Ledger!Close, Ledger!Move, Phases, HasReceipt

\* A claim takes a payment that is free.
LEMMA ClaimRefines ==
    ASSUME IInv, NEW s \in Settlers, NEW p \in Payments, Claim(s, p)
    PROVE  Ledger!Hold(p)
<1>. DEFINE order == [pc |-> "claimed", payment |-> p, before |-> resolution[p]]
<1>1. /\ settler[s].pc = "idle" /\ Claimable(p)
      /\ resolution' = [resolution EXCEPT ![p] = "paid"]
      /\ settler' = [settler EXCEPT ![s] = order]
      /\ UNCHANGED <<settled, made, posted, fiscal>>
  BY DEF Claim, receipts, history
<1>2. resolution[p] \in {"null", "in_doubt"} /\ p \notin settled
  BY <1>1 DEF Claimable, IInv, SettledHasReceipt
<1>3. order \in Orders /\ order.pc = "claimed" /\ order.payment = p
  BY <1>2 DEF Orders, Stages
<1>4. \A z \in Settlers : ~Working(z, p)
  BY <1>2 DEF IInv, OneSettler
<1>. HIDE DEF order
<1>5. Held(p)' /\ \A q \in Payments \ {p} : Held(q)' <=> Held(q)
  BY <1>1, <1>3, <1>4, HandsOf
<1>6. resolution'[p] = "paid" /\ \A q \in Payments \ {p} : resolution'[q] = resolution[q]
  BY <1>1 DEF IInv, TypeOK
<1>7. PhaseOf(p) = "free"
  BY <1>2 DEF PhaseOf
<1>8. PhaseOf(p)' = "held"
  BY <1>1, <1>2, <1>5, <1>6 DEF PhaseOf
<1>9. Phases' = [Phases EXCEPT ![p] = "held"]
  BY <1>1, <1>5, <1>6, <1>8, OnePhaseMoves
<1>. QED  BY <1>1, <1>7, <1>9 DEF Ledger!Hold, Ledger!Move, Phases, HasReceipt

\* A request that only moves on to its next query keeps its payment.
LEMMA NextStage ==
    ASSUME IInv, NEW s \in Settlers, NEW pc \in Stages,
           settler' = [settler EXCEPT ![s].pc = pc]
    PROVE  settler'[s].pc = pc /\ settler'[s].payment = settler[s].payment
<1>1. settler \in [Settlers -> Orders]
  BY DEF IInv, TypeOK, Orders, Stages
<1>2. settler[s] \in Orders /\ settler'[s] = [settler[s] EXCEPT !.pc = pc]
  BY <1>1
<1>. HIDE DEF Stages
<1>. QED  BY <1>2 DEF Orders

\* Between claim and link, the hands that hold the payment make its receipt,
\* settle it, let it go or drop it; after the link they ask for its document.
LEMMA WorkRefines ==
    ASSUME IInv, IInv', NEW s \in Settlers,
           \/ LookForReceipt(s) \/ CreateReceipt(s) \/ Refuse(s) \/ Revert(s)
           \/ Link(s) \/ Fiscalize(s) \/ Die(s)
    PROVE  Ledger!Next \/ UNCHANGED <<Phases, made, Backed, fiscal>>
<1>1. settler[s].pc # "idle"
  BY DEF LookForReceipt, CreateReceipt, Refuse, Revert, Link, Fiscalize, Die
<1>2. PICK p \in Payments : p = settler[s].payment
  BY <1>1, Owner
<1>3. /\ Working(s, p) /\ resolution[p] = "paid"
      /\ p \in settled <=> settler[s].pc = "linked"
      /\ settler[s].pc = "clear" => made[p] = 0
      /\ settler[s].pc \in {"created", "linked"} => made[p] = 1
      /\ settler[s].pc = "linked" => fiscal[p] = 0
      /\ \A z \in Settlers \ {s} : ~Working(z, p)
  BY <1>1, <1>2, Owner
<1>4. settler \in [Settlers -> Orders] /\ Idle \in Orders /\ Idle.pc = "idle"
  BY DEF IInv, TypeOK, Orders, Stages, Idle
<1>5. PICK order \in Orders :
        /\ settler' = [settler EXCEPT ![s] = order]
        /\ order.pc # "idle" => order.payment = p
        /\ order.pc = "idle" <=> ~Working(s, p)'
  <2>1. settler' \in [Settlers -> Orders] /\ settler' = [settler EXCEPT ![s] = settler'[s]]
    <3>1. settler' \in [Settlers -> Orders]
      BY DEF IInv, TypeOK, Orders, Stages
    <3>2. \A z \in Settlers \ {s} : settler'[z] = settler[z]
      BY <1>4 DEF LookForReceipt, CreateReceipt, Refuse, Revert, Link, Fiscalize, Die
    <3>. QED  BY <1>4, <3>1, <3>2
  <2>2. settler'[s].pc # "idle" => settler'[s].payment = p
    <3>1. \/ \E pc \in Stages : settler' = [settler EXCEPT ![s].pc = pc]
          \/ settler' = [settler EXCEPT ![s] = Idle]
      <4>1. CASE Link(s)
        <5>1. /\ p \notin settled => settler' = [settler EXCEPT ![s].pc = "linked"]
              /\ p \in settled => settler' = [settler EXCEPT ![s] = Idle]
          BY <1>2, <1>4, <4>1 DEF Link
        <5>. QED  BY <5>1 DEF Stages
      <4>. QED  BY <4>1 DEF LookForReceipt, CreateReceipt, Refuse, Revert, Fiscalize, Die, Stages
    <3>. QED  BY <1>2, <1>4, <3>1, NextStage
  <2>. QED  BY <2>1, <2>2 DEF Working
<1>6. /\ Held(p) /\ (Held(p)' <=> order.pc # "idle")
      /\ \A q \in Payments \ {p} : Held(q)' <=> Held(q)
  <2>1. \A z \in Settlers \ {s} : ~Working(z, p)
    BY <1>3
  <2>2. settler[s].payment = p
    BY <1>2
  <2>. QED  BY <1>1, <1>5, <2>1, <2>2, HandsOf
<1>7. /\ p \notin settled => Phases[p] = "held"
      /\ p \in settled => Phases[p] = "settled"
  BY <1>3, <1>6, PhaseCases
<1>8. posted' = posted
  BY DEF LookForReceipt, CreateReceipt, Refuse, Revert, Link, Fiscalize, Die, receipts
<1>9. CASE LookForReceipt(s)
  <2>1. UNCHANGED <<resolution, made, fiscal, Backed>>
    BY <1>9 DEF LookForReceipt, receipts, history, Backed, HasReceipt
  <2>2. CASE HasReceipt(p)
    <3>1. settled' = settled \cup {p}
      BY <1>2, <1>9, <2>2 DEF LookForReceipt, Prior
    <3>2. p \notin settled
      BY <1>3, <1>9 DEF LookForReceipt
    <3>3. PhaseOf(p)' = "settled"
      BY <3>1 DEF PhaseOf
    <3>4. Phases' = [Phases EXCEPT ![p] = "settled"]
      BY <1>6, <2>1, <3>1, <3>3, OnePhaseMoves
    <3>5. Ledger!Settle(p)
      BY <1>7, <2>1, <2>2, <3>2, <3>4 DEF Ledger!Settle, Ledger!Move, Phases, Backed
    <3>. QED  BY <3>5 DEF Ledger!Next
  <2>3. CASE ~HasReceipt(p)
    <3>1. settled' = settled /\ settler'[s].pc = "clear" /\ settler'[s].payment = p
      <4>1. settled' = settled /\ settler' = [settler EXCEPT ![s].pc = "clear"]
        BY <1>2, <1>9, <2>3 DEF LookForReceipt, Prior
      <4>. QED  BY <1>2, <4>1, NextStage DEF Stages
    <3>2. \A q \in Payments : Held(q)' <=> Held(q)
      BY <1>5, <1>6, <3>1 DEF Working
    <3>. QED  BY <1>8, <2>1, <3>1, <3>2, LedgerStutters
  <2>. QED  BY <2>2, <2>3
<1>10. CASE CreateReceipt(s)
  <2>1. /\ settler[s].pc = "clear" /\ made' = [made EXCEPT ![p] = @ + 1]
        /\ UNCHANGED <<resolution, settled, fiscal>>
    BY <1>2, <1>10 DEF CreateReceipt, row, history
  <2>2. made[p] = 0 /\ p \notin settled /\ made' = [made EXCEPT ![p] = 1]
    BY <1>3, <2>1 DEF IInv, TypeOK
  <2>3. settler'[s].pc # "idle" /\ settler'[s].payment = p
    BY <1>2, <1>4, <1>10 DEF CreateReceipt
  <2>4. \A q \in Payments : PhaseOf(q)' = PhaseOf(q)
    <3>1. \A q \in Payments : Held(q)' <=> Held(q)
      BY <1>5, <1>6, <2>3 DEF Working
    <3>. QED  BY <2>1, <3>1 DEF PhaseOf
  <2>5. Backed' = Backed \cup {p}
    BY <1>8, <2>2 DEF IInv, TypeOK, Backed, HasReceipt
  <2>6. Ledger!Make(p)
    BY <1>7, <2>1, <2>2, <2>4, <2>5 DEF Ledger!Make, Phases, Backed
  <2>. QED  BY <2>6 DEF Ledger!Next
<1>11. CASE Refuse(s)
  <2>1. UNCHANGED <<resolution, settled, made, posted, fiscal>>
    BY <1>11 DEF Refuse, row, receipts, history
  <2>2. settler'[s].pc # "idle" /\ settler'[s].payment = p
    BY <1>2, <1>4, <1>11 DEF Refuse
  <2>3. \A q \in Payments : Held(q)' <=> Held(q)
    BY <1>5, <1>6, <2>2 DEF Working
  <2>. QED  BY <2>1, <2>3, LedgerStutters
<1>12. CASE Revert(s)
  <2>1. /\ settler[s].pc = "failed" /\ settler'[s] = Idle
        /\ UNCHANGED <<settled, made, posted, fiscal, Backed>>
    BY <1>4, <1>12 DEF Revert, receipts, history, Backed, HasReceipt
  <2>2. p \notin settled
    <3>1. p \in settled => settler[s].pc = "linked"
      BY <1>3
    <3>. QED  BY <2>1, <3>1
  <2>3. resolution' = [resolution EXCEPT ![p] = settler[s].before]
    BY <1>2, <1>3, <1>12, <2>2 DEF Revert, RevertTo
  <2>4. settler[s].before \in {"null", "in_doubt"}
    BY <1>4 DEF Orders
  <2>5. /\ resolution'[p] \in {"null", "in_doubt"}
        /\ \A q \in Payments \ {p} : resolution'[q] = resolution[q]
    BY <2>3, <2>4 DEF IInv, TypeOK
  <2>6. PhaseOf(p)' = "free"
    BY <2>1, <2>2, <2>5 DEF PhaseOf
  <2>7. Phases' = [Phases EXCEPT ![p] = "free"]
    BY <1>6, <2>1, <2>5, <2>6, OnePhaseMoves
  <2>8. Ledger!LetGo(p)
    BY <1>7, <2>1, <2>2, <2>7 DEF Ledger!LetGo, Ledger!Move, Phases, Backed
  <2>. QED  BY <2>8 DEF Ledger!Next
<1>13. CASE Link(s)
  <2>1. p \notin settled /\ made[p] = 1 /\ HasReceipt(p)
    BY <1>3, <1>13 DEF Link, HasReceipt
  <2>2. settled' = settled \cup {p} /\ UNCHANGED <<resolution, made, fiscal, Backed>>
    BY <1>2, <1>13, <2>1 DEF Link, Linked, receipts, history, Backed, HasReceipt
  <2>3. PhaseOf(p)' = "settled"
    BY <2>2 DEF PhaseOf
  <2>4. Phases' = [Phases EXCEPT ![p] = "settled"]
    BY <1>6, <2>2, <2>3, OnePhaseMoves
  <2>5. Ledger!Settle(p)
    BY <1>7, <2>1, <2>2, <2>4 DEF Ledger!Settle, Ledger!Move, Phases, Backed
  <2>. QED  BY <2>5 DEF Ledger!Next
<1>14. CASE Fiscalize(s)
  <2>1. /\ settler[s].pc = "linked" /\ fiscal' = [fiscal EXCEPT ![p] = @ + 1]
        /\ UNCHANGED <<resolution, settled, made, posted>>
    BY <1>2, <1>14 DEF Fiscalize, row, receipts
  <2>2. /\ p \in settled /\ made[p] = 1 /\ fiscal[p] = 0
        /\ fiscal' = [fiscal EXCEPT ![p] = 1]
    <3>1. p \in settled /\ made[p] = 1 /\ fiscal[p] = 0
      <4>1. settler[s].pc = "linked" => p \in settled /\ made[p] = 1 /\ fiscal[p] = 0
        BY <1>3
      <4>. QED  BY <2>1, <4>1
    <3>2. fiscal[p] + 1 = 1
      BY <3>1
    <3>. QED  BY <2>1, <3>1, <3>2
  <2>3. \A q \in Payments : PhaseOf(q)' = PhaseOf(q)
    BY <1>6, <2>1, <2>2 DEF PhaseOf
  <2>4. Ledger!Fiscalize(p)
    BY <1>7, <2>1, <2>2, <2>3 DEF Ledger!Fiscalize, Phases, Backed, HasReceipt
  <2>. QED  BY <2>4 DEF Ledger!Next
<1>15. CASE Die(s)
  <2>1. settler'[s] = Idle /\ UNCHANGED <<resolution, settled, made, posted, fiscal, Backed>>
    BY <1>4, <1>15 DEF Die, row, receipts, Backed, HasReceipt
  <2>2. ~Held(p)'
    BY <1>4, <1>5, <1>6, <2>1
  <2>3. CASE p \in settled
    <3>1. \A q \in Payments : PhaseOf(q)' = PhaseOf(q)
      BY <1>6, <2>1, <2>3 DEF PhaseOf
    <3>. QED  BY <2>1, <3>1 DEF Phases
  <2>4. CASE p \notin settled
    <3>1. PhaseOf(p)' = "closed"
      BY <1>3, <2>1, <2>2, <2>4 DEF PhaseOf
    <3>2. Phases' = [Phases EXCEPT ![p] = "closed"]
      BY <1>6, <2>1, <3>1, OnePhaseMoves
    <3>3. Ledger!Close(p)
      BY <1>7, <2>1, <2>4, <3>2 DEF Ledger!Close, Ledger!Move, Phases, Backed
    <3>. QED  BY <3>3 DEF Ledger!Next
  <2>. QED  BY <2>3, <2>4
<1>. QED  BY <1>9, <1>10, <1>11, <1>12, <1>13, <1>14, <1>15

\* Every step of the cash desk, of a settling request or of a sweep is one step of
\* the ledger, or invisible to it.
LEMMA SettlementRefines == IInv /\ IInv' /\ [Next]_vars => [Ledger!Next]_(Ledger!ledger)
<1>. SUFFICES ASSUME IInv, IInv', [Next]_vars
              PROVE  Ledger!Next \/ UNCHANGED <<Phases, made, Backed, fiscal>>
  BY DEF Ledger!ledger, Phases, Backed
<1>1. CASE \E p \in Payments : CashierStep(p)
  BY <1>1, CashierRefines
<1>2. CASE \E p \in Payments, verdict \in {"unpaid", "paid"} : Waive(p, verdict)
  BY <1>2, WaiveRefines DEF Ledger!Next
<1>3. ASSUME NEW s \in Settlers, SettlerStep(s)
      PROVE  Ledger!Next \/ UNCHANGED <<Phases, made, Backed, fiscal>>
  <2>1. CASE \E p \in Payments : Claim(s, p)
    BY <2>1, ClaimRefines DEF Ledger!Next
  <2>2. CASE ~(\E p \in Payments : Claim(s, p))
    BY <1>3, <2>2, WorkRefines DEF SettlerStep
  <2>. QED  BY <2>1, <2>2
<1>4. CASE (\E w \in Sweepers : SweepStep(w)) \/ UNCHANGED vars
  <2>1. UNCHANGED <<resolution, settled, made, posted, settler, fiscal>>
    BY <1>4 DEF vars, SweepStep, List, TellStaff, TellClient, SweepDies, row, receipts, history
  <2>2. \A q \in Payments : Held(q)' <=> Held(q)
    BY <2>1 DEF Held, Working
  <2>. QED  BY <2>1, <2>2, LedgerStutters
<1>. QED  BY <1>1, <1>2, <1>3, <1>4 DEF Next

\* Double clicks, both routes at once, slow reverts and deaths between any two
\* queries: what comes of it is what the ledger allows, where every payment is in
\* one pair of hands at a time.
THEOREM RoutesImplementLedger == Spec => ImplementsSettlement
<1>1. Init => Ledger!Init
  BY DEF Init, Ledger!Init, PhaseOf, HasReceipt
<1>. QED  BY <1>1, SettlementRefines, SettlementInvariance, PTL
          DEF Spec, ImplementsSettlement, Ledger!Spec
=============================================================================
