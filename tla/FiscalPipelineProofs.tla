------------------------ MODULE FiscalPipelineProofs ------------------------
(***************************************************************************)
(* FiscalPipeline implements FiscalLedger, for every set of receipts, of   *)
(* requests and of handlers, and for any number of transactions, deaths    *)
(* and losses.                                                             *)
(***************************************************************************)
EXTENDS FiscalPipeline, TLAPS

-----------------------------------------------------------------------------
(* Types. *)

Rows  == [status : {"none", "pending", "processing", "completed", "failed"},
          receipt : Receipts \cup {NoReceipt}, kind : {"sale", "refund", "correction"}]
Plans == [op : {"none", "claim", "skip", "correct", "mark"},
          receipt : Receipts \cup {NoReceipt}, kind : {"sale", "refund", "correction"}]

\* What an INSERT does to the table.
LEMMA InsertTypes ==
    ASSUME TypeOK, NEW t \in Txs, NEW r \in Receipts,
           NEW k \in {"sale", "refund", "correction"}, Insert(t, r, k)
    PROVE  /\ tx' \in [Txs -> Rows] /\ notices' \subseteq Txs
           /\ tx[t].status = "none" /\ notices' = notices \cup {t}
           /\ tx'[t] = [status |-> "pending", receipt |-> r, kind |-> k]
           /\ \A u \in Txs \ {t} : tx'[u] = tx[u]
  BY DEF TypeOK, Insert, Fresh, Rows

LEMMA CallerTypes ==
    ASSUME TypeOK, PlansAreBound, NEW c \in Callers, CallerStep(c)
    PROVE  TypeOK'
<1>. USE DEF database, register, Actors
<1>1. c \in Actors /\ plan \in [Actors -> Plans]
  BY DEF TypeOK, Plans
<1>2. ASSUME NEW r \in Receipts, NEW op \in {"claim", "skip"}, NEW k \in {"sale", "refund"},
             Create(c, r, k, op)
      PROVE  TypeOK'
  BY <1>2 DEF Create, TypeOK, Plan
<1>3. ASSUME NEW r \in Receipts, NEW op \in {"claim", "skip"}, Void(c, r, op) PROVE TypeOK'
  BY <1>3 DEF Void, TypeOK, Plan
<1>4. ASSUME NEW r \in Receipts, Retry(c, r) \/ AskCorrection(c, r) PROVE TypeOK'
  BY <1>4 DEF Retry, AskCorrection, TypeOK, Plan
<1>5. plan[c].op # "none" => plan[c].receipt \in Receipts
  BY <1>1 DEF PlansAreBound
<1>6. CASE Skip(c)
  BY <1>1, <1>5, <1>6 DEF Skip, Done, NoPlan, TypeOK
<1>7. CASE InsertCorrection(c)
  <2>1. plan[c].receipt \in Receipts /\ plan' = [plan EXCEPT ![c].op = "mark"]
    BY <1>5, <1>7 DEF InsertCorrection
  <2>2. plan' \in [Actors -> Plans]
    BY <1>1, <2>1 DEF Plans
  <2>3. tx' \in [Txs -> Rows] /\ notices' \subseteq Txs
    BY <1>7, <2>1, InsertTypes DEF InsertCorrection
  <2>. QED  BY <1>7, <2>1, <2>2, <2>3 DEF InsertCorrection, TypeOK, Rows, Plans
<1>8. CASE MarkQueued(c)
  BY <1>1, <1>5, <1>8 DEF MarkQueued, Done, NoPlan, TypeOK
<1>. QED  BY <1>2, <1>3, <1>4, <1>6, <1>7, <1>8 DEF CallerStep

LEMMA ActorTypes ==
    ASSUME TypeOK, PlansAreBound, NEW c \in Actors, Claim(c) \/ Die(c)
    PROVE  TypeOK'
<1>. USE DEF database, register
<1>1. plan \in [Actors -> Plans] /\ NoPlan \in Plans
  BY DEF TypeOK, Plans, NoPlan
<1>2. ASSUME Done(c) PROVE plan' \in [Actors -> Plans]
  BY <1>1, <1>2 DEF Done
<1>3. CASE Die(c)
  BY <1>2, <1>3 DEF Die, Fault, TypeOK, Plans
<1>4. CASE Claim(c)
  <2>1. plan[c].receipt \in Receipts /\ plan[c].kind \in {"sale", "refund", "correction"}
    BY <1>1, <1>4 DEF Claim, PlansAreBound, Plans
  <2>2. /\ tx' \in [Txs -> Rows] /\ notices' \subseteq Txs
        /\ fiscal' \in [Receipts -> {"none", "pending", "queued", "success", "failed", "skipped"}]
    <3>1. CASE fiscal[plan[c].receipt] \in InFlight
      BY <1>4, <3>1 DEF Claim, TypeOK, Rows
    <3>2. CASE fiscal[plan[c].receipt] \notin InFlight
      <4>1. PICK t \in Txs : Insert(t, plan[c].receipt, plan[c].kind)
        BY <1>4, <3>2 DEF Claim
      <4>2. tx' \in [Txs -> Rows] /\ notices' \subseteq Txs
        BY <2>1, <4>1, InsertTypes
      <4>3. fiscal' = [fiscal EXCEPT ![plan[c].receipt] = "queued"]
        BY <1>4, <3>2 DEF Claim
      <4>. QED  BY <4>2, <4>3 DEF TypeOK
    <3>. QED  BY <3>1, <3>2
  <2>. QED  BY <1>2, <1>4, <2>2 DEF Claim, TypeOK, Rows, Plans
<1>. QED  BY <1>3, <1>4

LEMMA ReceiptTypes ==
    ASSUME TypeOK, NEW r \in Receipts, Sweep(r) \/ BridgeFiscal(r)
    PROVE  TypeOK'
<1>. USE DEF database, register
<1>1. CASE Sweep(r)
  BY <1>1 DEF Sweep, TypeOK, Plan, Actors
<1>2. CASE BridgeFiscal(r)
  <2>1. tx' \in [Txs -> Rows] /\ notices' \subseteq Txs
    BY <1>2, InsertTypes DEF BridgeFiscal
  <2>. QED  BY <1>2, <2>1 DEF BridgeFiscal, Fault, TypeOK, Rows
<1>. QED  BY <1>1, <1>2

\* The steps of print-api leave the rows rows and change one status.
LEMMA StatusTypes ==
    ASSUME TypeOK, NEW t \in Txs,
           NEW s \in {"none", "pending", "processing", "completed", "failed"},
           tx' = [tx EXCEPT ![t].status = s]
    PROVE  /\ tx' \in [Txs -> Rows]
           /\ tx'[t].status = s /\ tx'[t].receipt = tx[t].receipt /\ tx'[t].kind = tx[t].kind
           /\ \A u \in Txs \ {t} : tx'[u] = tx[u]
  BY DEF TypeOK, Rows

LEMMA PublisherTypes ==
    ASSUME TypeOK, NEW t \in Txs, Publish(t) \/ LoseNotice(t)
    PROVE  TypeOK'
<1>. USE DEF database, register
<1>1. CASE LoseNotice(t)
  BY <1>1 DEF LoseNotice, Fault, TypeOK
<1>2. CASE Publish(t)
  <2>1. tx' \in [Txs -> Rows]
    BY <1>2, StatusTypes DEF Publish
  <2>2. faults' \in Nat /\ wire' \subseteq Txs
    BY <1>2 DEF Publish, Fault, TypeOK
  <2>. QED  BY <1>2, <2>1, <2>2 DEF Publish, TypeOK, Rows
<1>. QED  BY <1>1, <1>2

Stages == {"idle", "printing", "ok", "bad", "answered"}

LEMMA AgentTypes ==
    ASSUME TypeOK, StagesInOrder, NEW t \in Txs, NEW k \in Copies, AgentStep(t, k)
    PROVE  TypeOK'
<1>. USE DEF database, register
<1>1. <<t, k>> \in Txs \X Copies /\ (t \in ran => tx[t].receipt \in Receipts)
  BY DEF StagesInOrder
<1>6. /\ run \in [Txs \X Copies -> Stages]
      /\ \A stage \in Stages :
            [run EXCEPT ![<<t, k>>] = stage] \in [Txs \X Copies -> Stages]
  BY <1>1 DEF TypeOK, Stages
<1>7. {"printing", "ok", "bad", "answered", "idle"} \subseteq Stages
  BY DEF Stages
<1>2. CASE Start(t, k)
  <2>1. faults' \in Nat /\ wire' \subseteq Txs
    BY <1>2 DEF Start, Fault, TypeOK
  <2>2. run' \in [Txs \X Copies -> Stages]
    BY <1>2, <1>6, <1>7 DEF Start
  <2>3. ran' \subseteq Txs /\ excused' \subseteq Receipts
    BY <1>1, <1>2 DEF Start, TypeOK
  <2>. QED  BY <1>2, <2>1, <2>2, <2>3 DEF Start, TypeOK, Stages
<1>3. CASE Register(t, k)
  <2>1. t \in ran
    BY <1>3 DEF Register, StagesInOrder
  <2>2. run' \in [Txs \X Copies -> Stages]
    BY <1>3, <1>6, <1>7 DEF Register, Refused
  <2>3. docs' \in [Receipts -> Nat] /\ paper' \subseteq Txs /\ excused' \subseteq Receipts
    BY <1>1, <1>3, <2>1 DEF Register, TypeOK
  <2>. QED  BY <1>3, <2>2, <2>3 DEF Register, TypeOK, Stages
<1>4. CASE Answer(t, k)
  <2>1. run' \in [Txs \X Copies -> Stages]
    BY <1>4, <1>6, <1>7 DEF Answer
  <2>2. PICK good \in BOOLEAN : answers' = answers \cup {<<t, good>>}
    <3>1. (run[<<t, k>>] = "ok") \in BOOLEAN
      OBVIOUS
    <3>. QED  BY <1>4, <3>1 DEF Answer
  <2>3. answers' \subseteq Txs \X BOOLEAN
    BY <2>2 DEF TypeOK
  <2>. QED  BY <1>4, <2>1, <2>3 DEF Answer, TypeOK, Stages
<1>5. CASE MarkProcessed(t, k)
  BY <1>5, <1>6, <1>7 DEF MarkProcessed, TypeOK, Stages
<1>. QED  BY <1>2, <1>3, <1>4, <1>5 DEF AgentStep

LEMMA SettleTypes ==
    ASSUME TypeOK, NEW t \in Txs, NEW good \in BOOLEAN, Settle(t, good)
    PROVE  TypeOK'
<1>. USE DEF register
<1>1. tx' \in [Txs -> Rows] /\ answers' \subseteq Txs \X BOOLEAN
  BY StatusTypes DEF Settle, SetStatus, TypeOK
<1>2. fiscal' \in [Receipts -> {"none", "pending", "queued", "success", "failed", "skipped"}]
  BY DEF Settle, Synced, TypeOK
<1>. QED  BY <1>1, <1>2 DEF Settle, TypeOK, Rows

LEMMA CrashTypes ==
    ASSUME TypeOK, AgentCrash
    PROVE  TypeOK'
  BY DEF AgentCrash, Fault, TypeOK, database

-----------------------------------------------------------------------------
(* The steps of requests. *)

\* A transaction that was not published has left no trace.
LEMMA Unsent ==
    ASSUME IInv, NEW t \in Txs, tx[t].status \in {"none", "pending"}
    PROVE  /\ t \notin wire /\ t \notin ran /\ t \notin paper
           /\ \A good \in BOOLEAN : <<t, good>> \notin answers
           /\ \A k \in Copies : run[<<t, k>>] = "idle"
<1>1. t \notin wire /\ t \notin ran
  BY DEF IInv, StagesInOrder
<1>. QED  BY <1>1 DEF IInv, StagesInOrder

\* Reading, creating and dying: no row, no command and no document changes, and
\* nothing refers yet to a receipt that is created.
LEMMA ReadersKeep ==
    ASSUME IInv, TypeOK', PlansAreBound',
           UNCHANGED <<tx, wire, answers, run, paper, docs, ran, excused>>,
           notices' \subseteq notices,
           \A r \in Receipts : \/ fiscal'[r] = fiscal[r]
                               \/ fiscal[r] = "none" /\ fiscal'[r] = "pending"
    PROVE  IInv'
<1>1. \A t \in Txs : tx[t].status # "none" =>
         /\ tx[t].receipt \in Receipts /\ fiscal[tx[t].receipt] # "none"
         /\ fiscal'[tx[t].receipt] = fiscal[tx[t].receipt]
  BY DEF IInv, StagesInOrder
<1>2. StagesInOrder'
  BY <1>1 DEF IInv, StagesInOrder
<1>3. NewsIsTrue'
  BY DEF IInv, NewsIsTrue, SaysPrinted, SaysBlank, Sure
<1>4. OneHandler'
  BY DEF IInv, OneHandler, Sure
<1>5. OneLive'
  BY <1>1 DEF IInv, OneLive, Sure, Live, Open
<1>6. DocumentsAreTraced'
  BY DEF IInv, DocumentsAreTraced
<1>7. SuccessIsPrinted'
  BY DEF IInv, SuccessIsPrinted, TxsOf
<1>8. QueuedIsTracked'
  BY DEF IInv, QueuedIsTracked, TxsOf, Open
<1>. QED  BY <1>2, <1>3, <1>4, <1>5, <1>6, <1>7, <1>8 DEF IInv

\* A new row: under a claim that nobody had, or for a receipt that is excused.
LEMMA InsertKeeps ==
    ASSUME IInv, TypeOK', PlansAreBound',
           NEW t \in Txs, NEW r \in Receipts, NEW k \in {"sale", "refund", "correction"},
           Insert(t, r, k), fiscal[r] # "none",
           UNCHANGED <<wire, answers, run, paper, docs, ran>>,
           \/ excused' = excused \cup {r} /\ fiscal' = fiscal
           \/ /\ excused' = excused /\ fiscal[r] \notin InFlight
              /\ fiscal' = [fiscal EXCEPT ![r] = "queued"]
    PROVE  IInv'
<1>1. /\ tx[t].status = "none" /\ notices' = notices \cup {t}
      /\ tx'[t].status = "pending" /\ tx'[t].receipt = r
      /\ \A u \in Txs \ {t} : tx'[u] = tx[u]
  <2>1. TypeOK
    BY DEF IInv
  <2>2. /\ tx[t].status = "none" /\ notices' = notices \cup {t}
        /\ tx'[t] = [status |-> "pending", receipt |-> r, kind |-> k]
        /\ \A u \in Txs \ {t} : tx'[u] = tx[u]
    BY <2>1, InsertTypes
  <2>. QED  BY <2>2
<1>2. /\ t \notin wire /\ t \notin ran /\ t \notin paper
      /\ \A good \in BOOLEAN : <<t, good>> \notin answers
      /\ \A l \in Copies : run[<<t, l>>] = "idle"
  BY <1>1, Unsent
<1>3. /\ \A q \in Receipts \ {r} : fiscal'[q] = fiscal[q]
      /\ fiscal'[r] \in {fiscal[r], "queued"} /\ fiscal'[r] # "none"
      /\ \A q \in Receipts : fiscal'[q] = "success" => fiscal[q] = "success"
  BY DEF IInv, TypeOK
<1>4. StagesInOrder'
  <2>1. \A u \in Txs : tx'[u].status = "none" => tx'[u].receipt = NoReceipt /\ u \notin notices'
    BY <1>1 DEF IInv, StagesInOrder
  <2>2. \A u \in Txs : tx'[u].status # "none" =>
           tx'[u].receipt \in Receipts /\ fiscal'[tx'[u].receipt] # "none"
    BY <1>1, <1>3 DEF IInv, StagesInOrder
  <2>3. \A u \in wire \cup ran : u # t
    BY <1>2
  <2>4. wire \subseteq Txs /\ ran \subseteq Txs /\ paper \subseteq Txs
    BY DEF IInv, TypeOK
  <2>5. \A u \in wire' \cup ran' : tx'[u].status \notin {"none", "pending"}
    BY <1>1, <2>3, <2>4 DEF IInv, StagesInOrder
  <2>6. \A u \in Txs : tx'[u].status \in {"completed", "failed"} => u \in ran'
    BY <1>1 DEF IInv, StagesInOrder
  <2>7. \A u \in paper' : u \in ran' /\ docs'[tx'[u].receipt] > 0
    BY <1>1, <1>2, <2>4 DEF IInv, StagesInOrder
  <2>8. /\ \A a \in answers' : a[1] \in ran'
        /\ \A u \in Txs, l \in Copies : run'[<<u, l>>] # "idle" => u \in ran'
    BY DEF IInv, StagesInOrder
  <2>. QED  BY <2>1, <2>2, <2>5, <2>6, <2>7, <2>8 DEF StagesInOrder
<1>5. \A u \in Txs \ {t} : Sure(u)' => Sure(u)
  BY <1>1 DEF Sure
<1>6. NewsIsTrue'
  <2>1. ~SaysPrinted(t)' /\ ~SaysBlank(t)'
    BY <1>1, <1>2 DEF SaysPrinted, SaysBlank
  <2>2. \A u \in Txs \ {t} : (SaysPrinted(u)' <=> SaysPrinted(u)) /\ (SaysBlank(u)' <=> SaysBlank(u))
    BY <1>1 DEF SaysPrinted, SaysBlank
  <2>. QED  BY <1>5, <2>1, <2>2 DEF IInv, NewsIsTrue
<1>7. OneHandler'
  BY <1>1, <1>2, <1>5 DEF IInv, OneHandler
<1>8. OneLive'
  <2>1. CASE r \in excused'
    <3>1. \A u \in Txs : Sure(u)' => u # t /\ tx'[u].receipt # r
      BY <1>1, <2>1 DEF Sure
    <3>2. \A u \in Txs : Sure(u)' => fiscal'[tx'[u].receipt] = fiscal[tx[u].receipt]
      BY <1>1, <1>3, <3>1 DEF IInv, StagesInOrder, Sure
    <3>3. \A u, v \in Txs : Sure(u)' /\ tx'[v].receipt = tx'[u].receipt => v # t
      BY <1>1, <3>1
    <3>. QED  BY <1>1, <1>5, <3>1, <3>2, <3>3 DEF IInv, OneLive, Live, Open
  <2>2. CASE r \notin excused'
    <3>1. excused' = excused /\ fiscal[r] \notin {"queued", "success"}
          /\ fiscal' = [fiscal EXCEPT ![r] = "queued"]
      BY <2>2 DEF InFlight
    <3>2. \A u \in Txs : tx[u].receipt = r => ~Live(u)
      <4>. SUFFICES ASSUME NEW u \in Txs, tx[u].receipt = r, Live(u) PROVE FALSE
        OBVIOUS
      <4>1. Sure(u)
        BY <2>2, <3>1 DEF Live, Open, Sure
      <4>. QED  BY <3>1, <4>1 DEF IInv, OneLive, Live
    <3>3. \A u \in Txs \ {t} : (Live(u)' <=> Live(u)) /\ (Open(u)' <=> Open(u))
      BY <1>1 DEF Live, Open
    <3>4. \A u \in Txs \ {t} : Live(u)' => tx'[u].receipt # r
      BY <1>1, <3>2, <3>3
    <3>5. ASSUME NEW u \in Txs, NEW v \in Txs, Sure(u)', Live(u)', Live(v)',
                 tx'[v].receipt = tx'[u].receipt
          PROVE  v = u
      <4>1. CASE u = t \/ v = t
        BY <1>1, <3>4, <3>5, <4>1
      <4>2. CASE u # t /\ v # t
        BY <1>1, <1>5, <3>3, <3>5, <4>2 DEF IInv, OneLive
      <4>. QED  BY <4>1, <4>2
    <3>6. ASSUME NEW u \in Txs, Sure(u)'
          PROVE  /\ Open(u)' => fiscal'[tx'[u].receipt] = "queued"
                 /\ tx'[u].status = "completed" => fiscal'[tx'[u].receipt] = "success"
      <4>1. CASE u = t
        BY <1>1, <3>1, <4>1 DEF IInv, TypeOK
      <4>2. CASE u # t /\ Live(u)
        <5>1. tx'[u] = tx[u] /\ tx[u].receipt # r /\ Sure(u) /\ tx[u].receipt \in Receipts
          BY <1>1, <1>5, <3>2, <3>6, <4>2 DEF IInv, StagesInOrder, Sure
        <5>2. fiscal'[tx[u].receipt] = fiscal[tx[u].receipt]
          BY <1>3, <5>1
        <5>. QED  BY <5>1, <5>2 DEF IInv, OneLive, Open
      <4>3. CASE u # t /\ ~Live(u)
        BY <1>1, <4>3 DEF Live, Open
      <4>. QED  BY <4>1, <4>2, <4>3
    <3>. QED  BY <3>5, <3>6 DEF OneLive
  <2>. QED  BY <2>1, <2>2
<1>9. DocumentsAreTraced'
  <2>1. paper \subseteq Txs \ {t} /\ excused \subseteq excused'
    BY <1>2 DEF IInv, TypeOK
  <2>. QED  BY <1>1, <2>1 DEF IInv, DocumentsAreTraced
<1>10. SuccessIsPrinted'
  BY <1>1, <1>3 DEF IInv, SuccessIsPrinted, TxsOf
<1>11. QueuedIsTracked'
  BY <1>1, <1>3 DEF IInv, QueuedIsTracked, TxsOf, Open
<1>. QED  BY <1>4, <1>6, <1>7, <1>8, <1>9, <1>10, <1>11 DEF IInv

\* A status that is set without a claim: over a receipt that nobody has claimed,
\* or over one that is excused.
LEMMA MarkKeeps ==
    ASSUME IInv, TypeOK', PlansAreBound', NEW r \in Receipts, NEW mark \in {"skipped", "queued"},
           fiscal[r] # "none", fiscal' = [fiscal EXCEPT ![r] = mark],
           excused \subseteq excused', excused' \subseteq excused \cup {r},
           r \in excused' \/ (fiscal[r] \notin InFlight /\ mark = "skipped"),
           UNCHANGED <<tx, notices, wire, answers, run, paper, docs, ran>>
    PROVE  IInv'
<1>1. /\ \A q \in Receipts \ {r} : fiscal'[q] = fiscal[q]
      /\ fiscal'[r] = mark
  BY DEF IInv, TypeOK
<1>2. \A t \in Txs : Sure(t)' => Sure(t)
  BY DEF Sure
<1>3. StagesInOrder'
  BY <1>1 DEF IInv, StagesInOrder
<1>4. NewsIsTrue'
  BY <1>2 DEF IInv, NewsIsTrue, SaysPrinted, SaysBlank
<1>5. OneHandler'
  BY <1>2 DEF IInv, OneHandler
<1>6. OneLive'
  <2>1. ASSUME NEW t \in Txs, Sure(t)', Live(t)
        PROVE  fiscal'[tx[t].receipt] = fiscal[tx[t].receipt]
    <3>1. tx[t].receipt \in Receipts /\ tx[t].receipt \notin excused'
      BY <2>1 DEF IInv, StagesInOrder, Sure
    <3>2. fiscal[tx[t].receipt] \in InFlight
      BY <1>2, <2>1 DEF IInv, OneLive, Live, InFlight
    <3>. QED  BY <1>1, <3>1, <3>2
  <2>. QED  BY <1>2, <2>1 DEF IInv, OneLive, Live, Open
<1>7. DocumentsAreTraced'
  BY DEF IInv, DocumentsAreTraced
<1>8. SuccessIsPrinted'
  BY <1>1 DEF IInv, SuccessIsPrinted, TxsOf
<1>9. QueuedIsTracked'
  BY <1>1 DEF IInv, QueuedIsTracked, TxsOf, Open
<1>. QED  BY <1>3, <1>4, <1>5, <1>6, <1>7, <1>8, <1>9 DEF IInv

\* What is planned stays bound while plans are made, replaced and dropped.
LEMMA PlansKeep ==
    ASSUME IInv, NEW c \in Actors, excused \subseteq excused',
           \A r \in Receipts : fiscal[r] # "none" => fiscal'[r] # "none",
           \/ plan' = plan
           \/ Done(c)
           \/ \E x \in Plans :
                 /\ plan' = [plan EXCEPT ![c] = x]
                 /\ x.receipt \in Receipts /\ fiscal'[x.receipt] # "none"
                 /\ x.op = "mark" => x.receipt \in excused'
    PROVE  PlansAreBound'
<1>1. plan \in [Actors -> Plans]
  BY DEF IInv, TypeOK, Plans
<1>2. ASSUME NEW d \in Actors, plan'[d] = plan[d], plan'[d].op # "none"
      PROVE  /\ plan'[d].receipt \in Receipts /\ fiscal'[plan'[d].receipt] # "none"
             /\ plan'[d].op = "mark" => plan'[d].receipt \in excused'
  BY <1>2 DEF IInv, PlansAreBound
<1>3. CASE plan' = plan
  BY <1>2, <1>3 DEF PlansAreBound
<1>4. CASE Done(c)
  <2>1. plan'[c].op = "none" /\ \A d \in Actors \ {c} : plan'[d] = plan[d]
    BY <1>1, <1>4 DEF Done, NoPlan
  <2>. QED  BY <1>2, <2>1 DEF PlansAreBound
<1>5. ASSUME NEW x \in Plans, plan' = [plan EXCEPT ![c] = x],
             x.receipt \in Receipts, fiscal'[x.receipt] # "none",
             x.op = "mark" => x.receipt \in excused'
      PROVE  PlansAreBound'
  <2>1. plan'[c] = x /\ \A d \in Actors \ {c} : plan'[d] = plan[d]
    BY <1>1, <1>5
  <2>. QED  BY <1>2, <1>5, <2>1 DEF PlansAreBound
<1>. QED  BY <1>3, <1>4, <1>5

\* The actions of a request.
LEMMA CallerKeeps ==
    ASSUME IInv, NEW c \in Callers, CallerStep(c)
    PROVE  IInv'
<1>. USE DEF database, register
<1>0. TypeOK' /\ c \in Actors /\ plan[c] \in Plans
  BY CallerTypes DEF IInv, Actors, TypeOK, Plans
<1>1. ASSUME NEW r \in Receipts, NEW op \in {"claim", "skip"}, NEW k \in {"sale", "refund"},
             Create(c, r, k, op)
      PROVE  IInv'
  <2>. DEFINE x == Plan(op, r, k)
  <2>1. /\ fiscal[r] = "none" /\ fiscal' = [fiscal EXCEPT ![r] = "pending"]
        /\ plan' = [plan EXCEPT ![c] = x]
        /\ UNCHANGED <<tx, notices, wire, answers, run, processed, paper, docs, ran, excused>>
    BY <1>1 DEF Create
  <2>2. x \in Plans /\ x.receipt = r /\ x.op # "mark"
    BY DEF Plan, Plans
  <2>3. /\ fiscal'[r] = "pending"
        /\ \A q \in Receipts : fiscal'[q] = fiscal[q] \/ (fiscal[q] = "none" /\ fiscal'[q] = "pending")
    BY <2>1 DEF IInv, TypeOK
  <2>. HIDE DEF x
  <2>4. PlansAreBound'
    BY <1>0, <2>1, <2>2, <2>3, PlansKeep
  <2>. QED  BY <1>0, <2>1, <2>3, <2>4, ReadersKeep
<1>2. ASSUME NEW r \in Receipts, NEW x \in Plans, fiscal[r] # "none", x.receipt = r,
             x.op # "mark", plan' = [plan EXCEPT ![c] = x],
             UNCHANGED <<fiscal, tx, notices, wire, answers, register, excused>>
      PROVE  IInv'
  <2>1. PlansAreBound'
    BY <1>0, <1>2, PlansKeep
  <2>. QED  BY <1>0, <1>2, <2>1, ReadersKeep
<1>3. \A r \in Receipts, op \in {"claim", "skip", "correct"},
         k \in {"sale", "refund", "correction"} :
            Plan(op, r, k) \in Plans /\ Plan(op, r, k).receipt = r /\ Plan(op, r, k).op # "mark"
  BY DEF Plan, Plans
<1>4. ASSUME NEW r \in Receipts, NEW op \in {"claim", "skip"}, Void(c, r, op) PROVE IInv'
  BY <1>2, <1>3, <1>4 DEF Void
<1>5. ASSUME NEW r \in Receipts, Retry(c, r) PROVE IInv'
  BY <1>2, <1>3, <1>5 DEF Retry
<1>6. ASSUME NEW r \in Receipts, AskCorrection(c, r) PROVE IInv'
  BY <1>2, <1>3, <1>6 DEF AskCorrection
<1>7. plan[c].op # "none" =>
         /\ plan[c].receipt \in Receipts /\ fiscal[plan[c].receipt] # "none"
         /\ plan[c].op = "mark" => plan[c].receipt \in excused
  BY <1>0 DEF IInv, PlansAreBound
<1>8. CASE Skip(c)
  <2>1. PICK r \in Receipts : r = plan[c].receipt /\ fiscal[r] # "none"
    BY <1>7, <1>8 DEF Skip
  <2>2. /\ fiscal' = [fiscal EXCEPT ![r] = "skipped"] /\ Done(c)
        /\ excused' = IF fiscal[r] \in InFlight THEN excused \cup {r} ELSE excused
        /\ UNCHANGED <<tx, notices, wire, answers, run, paper, docs, ran>>
    BY <1>8, <2>1 DEF Skip
  <2>3. \A q \in Receipts : fiscal[q] # "none" => fiscal'[q] # "none"
    BY <2>2 DEF IInv, TypeOK
  <2>4. PlansAreBound'
    BY <1>0, <2>2, <2>3, PlansKeep
  <2>. QED  BY <1>0, <2>1, <2>2, <2>4, MarkKeeps
<1>9. CASE MarkQueued(c)
  <2>1. PICK r \in Receipts : r = plan[c].receipt /\ fiscal[r] # "none" /\ r \in excused
    BY <1>7, <1>9 DEF MarkQueued
  <2>2. /\ fiscal' = [fiscal EXCEPT ![r] = "queued"] /\ Done(c) /\ excused' = excused
        /\ UNCHANGED <<tx, notices, wire, answers, run, paper, docs, ran>>
    BY <1>9, <2>1 DEF MarkQueued
  <2>3. \A q \in Receipts : fiscal[q] # "none" => fiscal'[q] # "none"
    BY <2>2 DEF IInv, TypeOK
  <2>4. PlansAreBound'
    BY <1>0, <2>2, <2>3, PlansKeep
  <2>. QED  BY <1>0, <2>1, <2>2, <2>4, MarkKeeps
<1>10. CASE InsertCorrection(c)
  <2>1. PICK r \in Receipts : r = plan[c].receipt /\ fiscal[r] # "none"
    BY <1>7, <1>10 DEF InsertCorrection
  <2>2. /\ plan' = [plan EXCEPT ![c].op = "mark"] /\ excused' = excused \cup {r}
        /\ UNCHANGED <<fiscal, wire, answers, run, paper, docs, ran>>
    BY <1>10, <2>1 DEF InsertCorrection
  <2>3. PICK t \in Txs : Insert(t, r, "correction")
    BY <1>10, <2>1 DEF InsertCorrection
  <2>. DEFINE x == [plan[c] EXCEPT !.op = "mark"]
  <2>4. x \in Plans /\ x.receipt = r /\ plan' = [plan EXCEPT ![c] = x]
    BY <1>0, <2>1, <2>2 DEF Plans
  <2>. HIDE DEF x
  <2>5. PlansAreBound'
    BY <1>0, <2>1, <2>2, <2>4, PlansKeep
  <2>. QED  BY <1>0, <2>1, <2>2, <2>3, <2>5, InsertKeeps
<1>. QED  BY <1>1, <1>4, <1>5, <1>6, <1>8, <1>9, <1>10 DEF CallerStep

\* A claim inserts under the status that it sets, or does nothing.
LEMMA ActorKeeps ==
    ASSUME IInv, NEW c \in Actors, Claim(c) \/ Die(c)
    PROVE  IInv'
<1>. USE DEF database, register
<1>0. TypeOK' /\ plan[c] \in Plans
  BY ActorTypes DEF IInv, TypeOK, Plans
<1>1. CASE Die(c)
  <2>1. /\ Done(c)
        /\ UNCHANGED <<fiscal, tx, notices, wire, answers, run, paper, docs, ran, excused>>
    BY <1>1 DEF Die
  <2>2. PlansAreBound'
    BY <2>1, PlansKeep
  <2>. QED  BY <1>0, <2>1, <2>2, ReadersKeep
<1>2. CASE Claim(c)
  <2>1. PICK r \in Receipts : r = plan[c].receipt /\ fiscal[r] # "none"
    BY <1>2 DEF Claim, IInv, PlansAreBound
  <2>2. Done(c) /\ UNCHANGED <<wire, answers, run, paper, docs, ran, excused>>
    BY <1>2 DEF Claim
  <2>3. CASE fiscal[r] \in InFlight
    <3>1. UNCHANGED <<fiscal, tx, notices>>
      BY <1>2, <2>1, <2>3 DEF Claim
    <3>2. PlansAreBound'
      BY <2>2, <3>1, PlansKeep
    <3>. QED  BY <1>0, <2>2, <3>1, <3>2, ReadersKeep
  <2>4. CASE fiscal[r] \notin InFlight
    <3>1. fiscal' = [fiscal EXCEPT ![r] = "queued"]
      BY <1>2, <2>1, <2>4 DEF Claim
    <3>2. PICK t \in Txs : Insert(t, r, plan[c].kind)
      BY <1>2, <2>1, <2>4 DEF Claim
    <3>3. \A q \in Receipts : fiscal[q] # "none" => fiscal'[q] # "none"
      BY <3>1 DEF IInv, TypeOK
    <3>4. PlansAreBound'
      BY <2>2, <3>3, PlansKeep
    <3>5. plan[c].kind \in {"sale", "refund", "correction"}
      BY <1>0 DEF Plans
    <3>. QED  BY <1>0, <2>1, <2>2, <2>4, <3>1, <3>2, <3>4, <3>5, InsertKeeps
  <2>. QED  BY <2>3, <2>4
<1>. QED  BY <1>1, <1>2

LEMMA SweepKeeps ==
    ASSUME IInv, NEW r \in Receipts, Sweep(r) \/ BridgeFiscal(r)
    PROVE  IInv'
<1>. USE DEF database, register
<1>0. TypeOK'
  BY ReceiptTypes DEF IInv
<1>1. CASE Sweep(r)
  <2>. DEFINE x == Plan("claim", r, "sale")
  <2>1. /\ plan' = [plan EXCEPT ![Sweeper] = x] /\ Sweeper \in Actors /\ fiscal[r] # "none"
        /\ UNCHANGED <<fiscal, tx, notices, wire, answers, run, paper, docs, ran, excused>>
    BY <1>1 DEF Sweep, Candidate, Actors
  <2>2. x \in Plans /\ x.receipt = r /\ x.op # "mark"
    BY DEF Plan, Plans
  <2>. HIDE DEF x
  <2>3. PlansAreBound'
    BY <2>1, <2>2, PlansKeep
  <2>. QED  BY <1>0, <2>1, <2>3, ReadersKeep
<1>2. CASE BridgeFiscal(r)
  <2>1. /\ fiscal[r] # "none" /\ excused' = excused \cup {r}
        /\ UNCHANGED <<fiscal, plan, wire, answers, run, paper, docs, ran>>
    BY <1>2 DEF BridgeFiscal
  <2>2. PICK t \in Txs : Insert(t, r, "sale")
    BY <1>2 DEF BridgeFiscal
  <2>3. PlansAreBound'
    BY <2>1 DEF IInv, PlansAreBound
  <2>. QED  BY <1>0, <2>1, <2>2, <2>3, InsertKeeps
<1>. QED  BY <1>1, <1>2

-----------------------------------------------------------------------------
(* The steps of print-api and of the agent. *)

\* The variables of requests do not change here.
LEMMA PlansStay ==
    ASSUME IInv, UNCHANGED plan, excused \subseteq excused',
           \A r \in Receipts : fiscal[r] # "none" => fiscal'[r] # "none"
    PROVE  PlansAreBound'
  BY DEF IInv, PlansAreBound

\* A pending row becomes a command that is under way, or that is lost.
LEMMA PublisherKeeps ==
    ASSUME IInv, NEW t \in Txs, Publish(t) \/ LoseNotice(t)
    PROVE  IInv'
<1>. USE DEF register
<1>0. TypeOK'
  BY PublisherTypes DEF IInv
<1>1. CASE LoseNotice(t)
  <2>1. /\ notices' \subseteq notices
        /\ UNCHANGED <<fiscal, plan, tx, wire, answers, run, paper, docs, ran, excused>>
    BY <1>1 DEF LoseNotice, database
  <2>2. PlansAreBound'
    BY <2>1, PlansStay
  <2>. QED  BY <1>0, <2>1, <2>2, ReadersKeep
<1>2. CASE Publish(t)
  <2>0. tx' = [tx EXCEPT ![t].status = "processing"]
    BY <1>2 DEF Publish
  <2>1. /\ tx[t].status = "pending"
        /\ notices' \subseteq notices /\ wire' \subseteq wire \cup {t}
        /\ UNCHANGED <<fiscal, plan, answers, run, paper, docs, ran, excused>>
    BY <1>2 DEF Publish
  <2>2. /\ tx'[t].status = "processing"
        /\ \A u \in Txs : tx'[u].receipt = tx[u].receipt
        /\ \A u \in Txs \ {t} : tx'[u] = tx[u]
    BY <2>0, StatusTypes DEF IInv
  <2>3. /\ t \notin ran /\ t \notin paper
        /\ \A good \in BOOLEAN : <<t, good>> \notin answers
        /\ \A k \in Copies : run[<<t, k>>] = "idle"
    BY <2>1, Unsent
  <2>4. /\ \A u \in Txs : tx'[u].status = "none" <=> tx[u].status = "none"
        /\ \A u \in Txs : (Sure(u)' <=> Sure(u)) /\ (Open(u)' <=> Open(u)) /\ (Live(u)' <=> Live(u))
        /\ \A u \in Txs : tx'[u].status = "completed" <=> tx[u].status = "completed"
        /\ \A u \in Txs : tx'[u].status = "failed" <=> tx[u].status = "failed"
    BY <2>1, <2>2 DEF Sure, Open, Live
  <2>5. StagesInOrder'
    <3>1. wire \subseteq Txs /\ ran \subseteq Txs /\ paper \subseteq Txs
      BY DEF IInv, TypeOK
    <3>2. \A u \in wire' \cup ran' : tx'[u].status \notin {"none", "pending"}
      BY <2>1, <2>2, <3>1 DEF IInv, StagesInOrder
    <3>3. \A u \in paper' : u \in ran' /\ docs'[tx'[u].receipt] > 0
      BY <2>1, <2>2, <3>1 DEF IInv, StagesInOrder
    <3>4. \A u \in Txs : tx'[u].status # "none" =>
             tx'[u].receipt \in Receipts /\ fiscal'[tx'[u].receipt] # "none"
      BY <2>1, <2>2, <2>4 DEF IInv, StagesInOrder
    <3>5. \A u \in Txs : tx'[u].status = "none" => tx'[u].receipt = NoReceipt /\ u \notin notices'
      BY <2>1, <2>2, <2>4 DEF IInv, StagesInOrder
    <3>6. \A u \in Txs : tx'[u].status \in {"completed", "failed"} => u \in ran'
      BY <2>1, <2>4 DEF IInv, StagesInOrder
    <3>7. /\ \A a \in answers' : a[1] \in ran'
          /\ \A u \in Txs, l \in Copies : run'[<<u, l>>] # "idle" => u \in ran'
      BY <2>1 DEF IInv, StagesInOrder
    <3>. QED  BY <3>2, <3>3, <3>4, <3>5, <3>6, <3>7 DEF StagesInOrder
  <2>6. NewsIsTrue'
    <3>1. \A u \in Txs : (SaysPrinted(u)' <=> SaysPrinted(u)) /\ (SaysBlank(u)' <=> SaysBlank(u))
      BY <2>1, <2>4 DEF SaysPrinted, SaysBlank
    <3>. QED  BY <2>1, <2>4, <3>1 DEF IInv, NewsIsTrue
  <2>7. OneHandler'
    BY <2>1, <2>2, <2>3, <2>4 DEF IInv, OneHandler
  <2>8. OneLive'
    BY <2>1, <2>2, <2>4 DEF IInv, OneLive
  <2>9. DocumentsAreTraced'
    <3>1. paper \subseteq Txs
      BY DEF IInv, TypeOK
    <3>. QED  BY <2>1, <2>2, <3>1 DEF IInv, DocumentsAreTraced
  <2>10. SuccessIsPrinted'
    BY <2>1, <2>2, <2>4 DEF IInv, SuccessIsPrinted, TxsOf
  <2>11. QueuedIsTracked'
    BY <2>1, <2>2, <2>4 DEF IInv, QueuedIsTracked, TxsOf
  <2>12. PlansAreBound'
    BY <2>1, PlansStay
  <2>. QED  BY <1>0, <2>5, <2>6, <2>7, <2>8, <2>9, <2>10, <2>11, <2>12 DEF IInv
<1>. QED  BY <1>1, <1>2

\* The agent leaves the tables alone.
LEMMA TablesKeep ==
    ASSUME IInv, UNCHANGED <<fiscal, tx, plan>>, excused \subseteq excused', paper \subseteq paper'
    PROVE  /\ PlansAreBound' /\ OneLive' /\ QueuedIsTracked' /\ SuccessIsPrinted'
           /\ \A t \in Txs : Sure(t)' => Sure(t)
<1>1. \A t \in Txs : Sure(t)' => Sure(t)
  BY DEF Sure
<1>2. \A t \in Txs : (Live(t)' <=> Live(t)) /\ (Open(t)' <=> Open(t))
  BY DEF Live, Open
<1>3. PlansAreBound'
  BY PlansStay
<1>4. OneLive'
  BY <1>1, <1>2 DEF IInv, OneLive
<1>5. QueuedIsTracked'
  BY <1>2 DEF IInv, QueuedIsTracked, TxsOf
<1>6. SuccessIsPrinted'
  BY DEF IInv, SuccessIsPrinted, TxsOf
<1>. QED  BY <1>1, <1>3, <1>4, <1>5, <1>6

\* A handler begins: for the first time, or its receipt is excused from now on.
LEMMA StartKeeps ==
    ASSUME IInv, NEW t \in Txs, NEW k \in Copies, Start(t, k)
    PROVE  IInv'
<1>. USE DEF database
<1>0. TypeOK'
  BY AgentTypes DEF IInv, AgentStep
<1>1. /\ t \in wire /\ wire' \subseteq wire /\ run[<<t, k>>] = "idle"
      /\ UNCHANGED <<fiscal, tx, plan, notices, answers, paper, docs>>
  BY <1>0 DEF Start, IInv, TypeOK
<1>2. PlansAreBound' /\ OneLive' /\ QueuedIsTracked' /\ SuccessIsPrinted'
      /\ excused \subseteq excused' /\ \A u \in Txs : Sure(u)' => Sure(u)
  <2>1. excused \subseteq excused'
    BY DEF Start
  <2>. QED  BY <1>1, <2>1, TablesKeep
<1>3. DocumentsAreTraced'
  BY <1>1, <1>2 DEF IInv, DocumentsAreTraced
<1>4. CASE t \in processed
  <2>1. UNCHANGED <<run, ran, excused>>
    BY <1>4 DEF Start
  <2>2. StagesInOrder'
    BY <1>1, <2>1 DEF IInv, StagesInOrder
  <2>3. NewsIsTrue'
    <3>1. \A u \in Txs : (SaysPrinted(u)' <=> SaysPrinted(u)) /\ (SaysBlank(u)' <=> SaysBlank(u))
      BY <1>1, <2>1 DEF SaysPrinted, SaysBlank
    <3>. QED  BY <1>1, <1>2, <3>1 DEF IInv, NewsIsTrue
  <2>4. OneHandler'
    BY <1>1, <1>2, <2>1 DEF IInv, OneHandler
  <2>. QED  BY <1>0, <1>2, <1>3, <2>2, <2>3, <2>4 DEF IInv
<1>5. CASE t \notin processed
  <2>1. /\ run' = [run EXCEPT ![<<t, k>>] = "printing"]
        /\ ran' = ran \cup {t}
        /\ excused' = IF t \in ran THEN excused \cup {tx[t].receipt} ELSE excused
    BY <1>5 DEF Start
  <2>2. /\ run'[<<t, k>>] = "printing"
        /\ \A u \in Txs, l \in Copies : u # t \/ l # k => run'[<<u, l>>] = run[<<u, l>>]
    <3>1. run \in [Txs \X Copies -> Stages] /\ <<t, k>> \in Txs \X Copies
      BY DEF IInv, TypeOK, Stages
    <3>. QED  BY <2>1, <3>1
  <2>3. tx[t].status \notin {"none", "pending"}
    BY <1>1 DEF IInv, StagesInOrder
  <2>4. ASSUME Sure(t)'
        PROVE  /\ t \notin ran /\ t \notin paper /\ tx[t].status = "processing"
               /\ \A good \in BOOLEAN : <<t, good>> \notin answers
               /\ \A l \in Copies : run[<<t, l>>] = "idle"
    <3>1. tx'[t].receipt \notin excused'
      BY <2>4 DEF Sure
    <3>2. t \notin ran
      BY <1>1, <2>1, <3>1
    <3>3. tx[t].status \notin {"completed", "failed"}
      BY <3>2 DEF IInv, StagesInOrder
    <3>4. tx[t].status \in {"none", "pending", "processing", "completed", "failed"}
      BY DEF IInv, TypeOK
    <3>. QED  BY <2>3, <3>2, <3>3, <3>4 DEF IInv, StagesInOrder
  <2>5. StagesInOrder'
    <3>1. \A u \in wire' \cup ran' : tx'[u].status \notin {"none", "pending"}
      BY <1>1, <2>1 DEF IInv, StagesInOrder
    <3>2. \A u \in Txs, l \in Copies : run'[<<u, l>>] # "idle" => u \in ran'
      BY <2>1, <2>2 DEF IInv, StagesInOrder
    <3>3. /\ \A u \in Txs : tx'[u].status \in {"completed", "failed"} => u \in ran'
          /\ \A a \in answers' : a[1] \in ran'
          /\ \A u \in paper' : u \in ran' /\ docs'[tx'[u].receipt] > 0
      BY <1>1, <2>1 DEF IInv, StagesInOrder
    <3>4. /\ \A u \in Txs : tx'[u].status = "none" => tx'[u].receipt = NoReceipt /\ u \notin notices'
          /\ \A u \in Txs : tx'[u].status # "none" =>
                tx'[u].receipt \in Receipts /\ fiscal'[tx'[u].receipt] # "none"
      BY <1>1 DEF IInv, StagesInOrder
    <3>. QED  BY <3>1, <3>2, <3>3, <3>4 DEF StagesInOrder
  <2>6. NewsIsTrue'
    <3>1. \A u \in Txs : (SaysPrinted(u)' => SaysPrinted(u)) /\ (SaysBlank(u)' => SaysBlank(u))
      <4>. TAKE u \in Txs
      <4>1. \A l \in Copies : run'[<<u, l>>] \in {"ok", "bad"} => run'[<<u, l>>] = run[<<u, l>>]
        BY <2>2
      <4>. QED  BY <1>1, <4>1 DEF SaysPrinted, SaysBlank
    <3>. QED  BY <1>1, <1>2, <3>1 DEF IInv, NewsIsTrue
  <2>7. OneHandler'
    <3>1. ASSUME NEW u \in Txs, Sure(u)', NEW l \in Copies, NEW j \in Copies,
                 run'[<<u, l>>] # "idle", run'[<<u, j>>] # "idle"
          PROVE  l = j
      <4>1. CASE u = t
        BY <2>2, <2>4, <3>1, <4>1
      <4>2. CASE u # t
        BY <1>2, <2>2, <3>1, <4>2 DEF IInv, OneHandler
      <4>. QED  BY <4>1, <4>2
    <3>2. ASSUME NEW u \in Txs, Sure(u)', NEW l \in Copies, run'[<<u, l>>] = "printing"
          PROVE  /\ tx'[u].status = "processing" /\ u \notin paper'
                 /\ \A good \in BOOLEAN : <<u, good>> \notin answers'
      <4>1. CASE u = t
        BY <1>1, <2>4, <3>2, <4>1
      <4>2. CASE u # t
        BY <1>1, <1>2, <2>2, <3>2, <4>2 DEF IInv, OneHandler
      <4>. QED  BY <4>1, <4>2
    <3>. QED  BY <3>1, <3>2 DEF OneHandler
  <2>. QED  BY <1>0, <1>2, <1>3, <2>5, <2>6, <2>7 DEF IInv
<1>. QED  BY <1>4, <1>5

\* What a step of the register's handler k of command t does, and does not.
LEMMA HandlerStep ==
    ASSUME IInv, NEW t \in Txs, NEW k \in Copies, NEW stage \in Stages,
           run' = [run EXCEPT ![<<t, k>>] = stage]
    PROVE  /\ run'[<<t, k>>] = stage
           /\ \A u \in Txs, l \in Copies : u # t \/ l # k => run'[<<u, l>>] = run[<<u, l>>]
<1>1. run \in [Txs \X Copies -> Stages] /\ <<t, k>> \in Txs \X Copies
  BY DEF IInv, TypeOK, Stages
<1>. QED  BY <1>1

\* The answer says what the handler has seen.
LEMMA AnswerKeeps ==
    ASSUME IInv, NEW t \in Txs, NEW k \in Copies, Answer(t, k)
    PROVE  IInv'
<1>. USE DEF database
<1>0. TypeOK'
  BY AgentTypes DEF IInv, AgentStep
<1>1. /\ run[<<t, k>>] \in {"ok", "bad"}
      /\ answers' = answers \cup {<<t, run[<<t, k>>] = "ok">>}
      /\ run' = [run EXCEPT ![<<t, k>>] = "answered"]
      /\ UNCHANGED <<fiscal, tx, plan, notices, wire, paper, docs, ran, excused>>
  BY DEF Answer
<1>2. PlansAreBound' /\ OneLive' /\ QueuedIsTracked' /\ SuccessIsPrinted'
      /\ \A u \in Txs : Sure(u)' => Sure(u)
  BY <1>1, TablesKeep
<1>3. /\ run'[<<t, k>>] = "answered"
      /\ \A u \in Txs, l \in Copies : u # t \/ l # k => run'[<<u, l>>] = run[<<u, l>>]
  BY <1>1, HandlerStep DEF Stages
<1>4. t \in ran
  BY <1>1 DEF IInv, StagesInOrder
<1>5. StagesInOrder'
  BY <1>1, <1>3, <1>4 DEF IInv, StagesInOrder
<1>6. NewsIsTrue'
  <2>1. ASSUME NEW u \in Txs
        PROVE  (SaysPrinted(u)' => SaysPrinted(u)) /\ (SaysBlank(u)' => SaysBlank(u))
    <3>1. \A l \in Copies : run'[<<u, l>>] \in {"ok", "bad"} => run'[<<u, l>>] = run[<<u, l>>]
      BY <1>3
    <3>2. CASE run[<<t, k>>] = "ok"
      <4>1. answers' = answers \cup {<<t, TRUE>>}
        <5>1. (run[<<t, k>>] = "ok") = TRUE
          BY <3>2
        <5>. QED  BY <1>1, <5>1
      <4>. QED  BY <1>1, <3>1, <3>2, <4>1 DEF SaysPrinted, SaysBlank
    <3>3. CASE run[<<t, k>>] = "bad"
      <4>1. answers' = answers \cup {<<t, FALSE>>}
        <5>1. (run[<<t, k>>] = "ok") = FALSE
          BY <3>3
        <5>. QED  BY <1>1, <5>1
      <4>. QED  BY <1>1, <3>1, <3>3, <4>1 DEF SaysPrinted, SaysBlank
    <3>. QED  BY <1>1, <3>2, <3>3
  <2>. QED  BY <1>1, <1>2, <2>1 DEF IInv, NewsIsTrue
<1>7. OneHandler'
  <2>1. ASSUME NEW u \in Txs, Sure(u)', NEW l \in Copies, NEW j \in Copies,
               run'[<<u, l>>] # "idle", run'[<<u, j>>] # "idle"
        PROVE  l = j
    <3>1. run[<<u, l>>] # "idle" /\ run[<<u, j>>] # "idle"
      BY <1>1, <1>3, <2>1
    <3>. QED  BY <1>2, <2>1, <3>1 DEF IInv, OneHandler
  <2>2. ASSUME NEW u \in Txs, Sure(u)', NEW l \in Copies, run'[<<u, l>>] = "printing"
        PROVE  /\ tx'[u].status = "processing" /\ u \notin paper'
               /\ \A good \in BOOLEAN : <<u, good>> \notin answers'
    <3>1. run[<<u, l>>] = "printing"
      BY <1>3, <2>2
    <3>2. u # t
      BY <1>1, <1>2, <2>2, <3>1 DEF IInv, OneHandler
    <3>. QED  BY <1>1, <1>2, <2>2, <3>1, <3>2 DEF IInv, OneHandler
  <2>. QED  BY <2>1, <2>2 DEF OneHandler
<1>8. DocumentsAreTraced'
  BY <1>1 DEF IInv, DocumentsAreTraced
<1>. QED  BY <1>0, <1>2, <1>5, <1>6, <1>7, <1>8 DEF IInv

\* A handler ends, or the agent dies with all of them.
LEMMA EndsKeep ==
    ASSUME IInv, TypeOK', UNCHANGED <<fiscal, tx, plan, notices, wire, answers, paper, docs, ran, excused>>,
           \A t \in Txs, k \in Copies : run'[<<t, k>>] \in {run[<<t, k>>], "idle"}
    PROVE  IInv'
<1>1. PlansAreBound' /\ OneLive' /\ QueuedIsTracked' /\ SuccessIsPrinted'
      /\ \A u \in Txs : Sure(u)' => Sure(u)
  BY TablesKeep
<1>2. StagesInOrder'
  BY DEF IInv, StagesInOrder
<1>3. \A u \in Txs : (SaysPrinted(u)' => SaysPrinted(u)) /\ (SaysBlank(u)' => SaysBlank(u))
  BY DEF SaysPrinted, SaysBlank
<1>4. NewsIsTrue'
  BY <1>1, <1>3 DEF IInv, NewsIsTrue
<1>5. OneHandler'
  BY <1>1 DEF IInv, OneHandler
<1>6. DocumentsAreTraced'
  BY DEF IInv, DocumentsAreTraced
<1>. QED  BY <1>1, <1>2, <1>4, <1>5, <1>6 DEF IInv

\* While the register works on a transaction that nobody doubts, it is alive,
\* alone with its receipt, and nothing of the receipt is on paper.
LEMMA FirstDocument ==
    ASSUME IInv, NEW t \in Txs, NEW k \in Copies, run[<<t, k>>] = "printing", Sure(t)
    PROVE  /\ tx[t].receipt \in Receipts /\ docs[tx[t].receipt] = 0
           /\ t \notin paper /\ ~SaysBlank(t)
           /\ \A l \in Copies : run[<<t, l>>] # "idle" => l = k
<1>1. /\ tx[t].status = "processing" /\ t \notin paper
      /\ \A good \in BOOLEAN : <<t, good>> \notin answers
      /\ \A l \in Copies : run[<<t, l>>] # "idle" => l = k
  BY DEF IInv, OneHandler
<1>2. ~SaysBlank(t)
  BY <1>1 DEF SaysBlank
<1>3. tx[t].receipt \in Receipts /\ tx[t].receipt \notin excused
  BY <1>1 DEF IInv, StagesInOrder, Sure
<1>4. ASSUME NEW u \in paper, tx[u].receipt = tx[t].receipt PROVE FALSE
  <2>1. u \in Txs /\ u \in ran /\ tx[u].status \notin {"none", "pending"}
    BY DEF IInv, TypeOK, StagesInOrder
  <2>2. Sure(u)
    BY <1>3, <1>4, <2>1 DEF Sure
  <2>3. tx[u].status # "failed"
    BY <2>1, <2>2 DEF IInv, NewsIsTrue, SaysBlank
  <2>4. tx[u].status \in {"none", "pending", "processing", "completed", "failed"}
    BY <2>1 DEF IInv, TypeOK
  <2>5. Live(u) /\ Live(t)
    BY <1>1, <2>1, <2>3, <2>4 DEF Live, Open
  <2>6. u = t
    BY <1>4, <2>1, <2>5 DEF IInv, OneLive
  <2>. QED  BY <1>1, <2>6
<1>5. docs[tx[t].receipt] \in Nat /\ docs[tx[t].receipt] <= 1 /\ docs[tx[t].receipt] # 1
  BY <1>3, <1>4 DEF IInv, TypeOK, DocumentsAreTraced
<1>. QED  BY <1>1, <1>2, <1>3, <1>5

\* The register prints, prints unseen, or refuses.
LEMMA RegisterKeeps ==
    ASSUME IInv, NEW t \in Txs, NEW k \in Copies, Register(t, k)
    PROVE  IInv'
<1>. USE DEF database
<1>. DEFINE r == tx[t].receipt
<1>0. TypeOK'
  BY AgentTypes DEF IInv, AgentStep
<1>1. PICK stage \in {"ok", "bad"} :
         /\ run[<<t, k>>] = "printing"
         /\ run' = [run EXCEPT ![<<t, k>>] = stage]
         /\ UNCHANGED <<fiscal, tx, plan, notices, wire, answers, ran>>
         /\ \/ /\ docs' = [docs EXCEPT ![r] = @ + 1] /\ paper' = paper \cup {t}
               /\ stage = "ok" /\ excused' = excused
            \/ /\ docs' = [docs EXCEPT ![r] = @ + 1] /\ paper' = paper \cup {t}
               /\ stage = "bad" /\ excused' = excused \cup {r}
            \/ /\ docs' = docs /\ paper' = paper
               /\ stage = "bad" /\ excused' = excused
  BY DEF Register, Refused
<1>2. t \in ran /\ tx[t].status # "none" /\ r \in Receipts
  BY <1>1 DEF IInv, StagesInOrder
<1>3. /\ run'[<<t, k>>] = stage
      /\ \A u \in Txs, l \in Copies : u # t \/ l # k => run'[<<u, l>>] = run[<<u, l>>]
  BY <1>1, HandlerStep DEF Stages
<1>4. PlansAreBound' /\ OneLive' /\ QueuedIsTracked' /\ SuccessIsPrinted'
      /\ paper \subseteq paper' /\ excused \subseteq excused'
      /\ \A u \in Txs : Sure(u)' => Sure(u)
  <2>1. paper \subseteq paper' /\ excused \subseteq excused'
    BY <1>1
  <2>. QED  BY <1>1, <2>1, TablesKeep
<1>5. /\ paper' \subseteq paper \cup {t}
      /\ docs \in [Receipts -> Nat] /\ (\A q \in Receipts \ {r} : docs'[q] = docs[q])
      /\ docs'[r] \in {docs[r], docs[r] + 1} /\ (t \in paper' => docs'[r] > 0)
  BY <1>1, <1>2 DEF IInv, TypeOK, StagesInOrder
<1>6. \A q \in Receipts : docs[q] \in Nat /\ (docs[q] > 0 => docs'[q] > 0)
  <2>. TAKE q \in Receipts
  <2>1. docs[q] \in Nat
    BY <1>5
  <2>2. CASE q = r
    BY <1>5, <2>1, <2>2
  <2>3. CASE q # r
    BY <1>5, <2>1, <2>3
  <2>. QED  BY <2>2, <2>3
<1>7. StagesInOrder'
  <2>1. \A u \in paper' : u \in ran' /\ docs'[tx'[u].receipt] > 0
    <3>. TAKE u \in paper'
    <3>1. CASE u = t
      BY <1>1, <1>2, <1>5, <3>1
    <3>2. CASE u # t
      <4>1. u \in paper /\ u \in Txs /\ u \in ran
        BY <1>5, <3>2 DEF IInv, TypeOK, StagesInOrder
      <4>2. tx[u].receipt \in Receipts /\ docs[tx[u].receipt] > 0
        BY <4>1 DEF IInv, StagesInOrder
      <4>. QED  BY <1>1, <1>6, <4>1, <4>2
    <3>. QED  BY <3>1, <3>2
  <2>2. \A u \in Txs, l \in Copies : run'[<<u, l>>] # "idle" => u \in ran'
    BY <1>1, <1>2, <1>3 DEF IInv, StagesInOrder
  <2>. QED  BY <1>1, <2>1, <2>2 DEF IInv, StagesInOrder
<1>8. NewsIsTrue'
  <2>1. ASSUME NEW u \in Txs, SaysPrinted(u)' PROVE u \in paper'
    <3>1. CASE u = t /\ stage = "ok"
      BY <1>1, <3>1
    <3>2. CASE u # t \/ stage = "bad"
      <4>1. \A l \in Copies : run'[<<u, l>>] = "ok" => run[<<u, l>>] = "ok"
        BY <1>3, <3>2
      <4>2. SaysPrinted(u)
        BY <1>1, <2>1, <4>1 DEF SaysPrinted
      <4>. QED  BY <1>4, <4>2 DEF IInv, NewsIsTrue
    <3>. QED  BY <1>1, <3>1, <3>2
  <2>2. ASSUME NEW u \in Txs, Sure(u)', SaysBlank(u)' PROVE u \notin paper'
    <3>1. CASE u # t
      <4>1. \A l \in Copies : run'[<<u, l>>] = "bad" => run[<<u, l>>] = "bad"
        BY <1>3, <3>1
      <4>2. SaysBlank(u)
        BY <1>1, <2>2, <4>1 DEF SaysBlank
      <4>. QED  BY <1>4, <1>5, <2>2, <3>1, <4>2 DEF IInv, NewsIsTrue
    <3>2. CASE u = t
      <4>1. /\ t \notin paper /\ ~SaysBlank(t)
            /\ \A l \in Copies : run[<<t, l>>] # "idle" => l = k
        BY <1>1, <1>4, <2>2, <3>2, FirstDocument
      <4>2. stage = "bad"
        <5>. SUFFICES ASSUME stage # "bad" PROVE FALSE
          OBVIOUS
        <5>1. \A l \in Copies : run'[<<t, l>>] # "bad"
          BY <1>3, <4>1
        <5>. QED  BY <1>1, <2>2, <3>2, <4>1, <5>1 DEF SaysBlank
      <4>3. r \notin excused'
        BY <1>1, <2>2, <3>2 DEF Sure
      <4>. QED  BY <1>1, <3>2, <4>1, <4>2, <4>3
    <3>. QED  BY <3>1, <3>2
  <2>. QED  BY <2>1, <2>2 DEF NewsIsTrue
<1>9. OneHandler'
  <2>1. ASSUME NEW u \in Txs, Sure(u)', NEW l \in Copies, NEW j \in Copies,
               run'[<<u, l>>] # "idle", run'[<<u, j>>] # "idle"
        PROVE  l = j
    <3>1. run[<<u, l>>] # "idle" /\ run[<<u, j>>] # "idle"
      BY <1>1, <1>3, <2>1
    <3>. QED  BY <1>4, <2>1, <3>1 DEF IInv, OneHandler
  <2>2. ASSUME NEW u \in Txs, Sure(u)', NEW l \in Copies, run'[<<u, l>>] = "printing"
        PROVE  /\ tx'[u].status = "processing" /\ u \notin paper'
               /\ \A good \in BOOLEAN : <<u, good>> \notin answers'
    <3>1. run[<<u, l>>] = "printing" /\ (u # t \/ l # k)
      BY <1>3, <2>2
    <3>2. u # t
      BY <1>1, <1>4, <2>2, <3>1 DEF IInv, OneHandler
    <3>. QED  BY <1>1, <1>4, <1>5, <2>2, <3>1, <3>2 DEF IInv, OneHandler
  <2>. QED  BY <2>1, <2>2 DEF OneHandler
<1>10. DocumentsAreTraced'
  <2>. SUFFICES ASSUME NEW q \in Receipts, q \notin excused'
                PROVE  /\ docs'[q] <= 1
                       /\ docs'[q] = 1 => \E u \in paper' : tx'[u].receipt = q
    BY DEF DocumentsAreTraced
  <2>1. CASE docs'[q] = docs[q]
    BY <1>1, <1>4, <2>1 DEF IInv, DocumentsAreTraced
  <2>2. CASE docs'[q] # docs[q]
    <3>1. q = r /\ docs' # docs
      BY <1>5, <2>2
    <3>2. t \in paper' /\ docs'[q] = docs[q] + 1
      BY <1>1, <1>5, <2>2, <3>1
    <3>3. Sure(t)
      BY <1>2, <1>4, <3>1 DEF Sure
    <3>4. docs[r] = 0
      BY <1>1, <3>3, FirstDocument
    <3>. QED  BY <1>1, <3>1, <3>2, <3>4
  <2>. QED  BY <2>1, <2>2
<1>. QED  BY <1>0, <1>4, <1>7, <1>8, <1>9, <1>10 DEF IInv

\* An answer that changes a transaction nobody doubts finds it in processing:
\* the answers of one command do not disagree.
LEMMA SettlesProcessing ==
    ASSUME IInv, NEW t \in Txs, NEW good \in BOOLEAN, <<t, good>> \in answers
    PROVE  /\ tx[t].receipt \in Receipts /\ tx[t].status \notin {"none", "pending"}
           /\ fiscal[tx[t].receipt] # "none" /\ t \in ran
           /\ good => t \in paper /\ docs[tx[t].receipt] > 0
           /\ Sure(t) => tx[t].status \in {"processing", IF good THEN "completed" ELSE "failed"}
<1>1. t \in ran
  <2>1. <<t, good>>[1] \in ran
    BY DEF IInv, StagesInOrder
  <2>. QED  BY <2>1
<1>2. /\ tx[t].receipt \in Receipts /\ tx[t].status \notin {"none", "pending"}
      /\ fiscal[tx[t].receipt] # "none"
  BY <1>1 DEF IInv, StagesInOrder
<1>3. (good => SaysPrinted(t)) /\ (~good => SaysBlank(t))
  <2>1. good = TRUE \/ good = FALSE
    OBVIOUS
  <2>. QED  BY <2>1 DEF SaysPrinted, SaysBlank
<1>4. good => t \in paper /\ docs[tx[t].receipt] > 0
  BY <1>3 DEF IInv, NewsIsTrue, StagesInOrder
<1>5. tx[t].status \in {"none", "pending", "processing", "completed", "failed"}
  BY DEF IInv, TypeOK
<1>6. Sure(t) => ~(SaysPrinted(t) /\ SaysBlank(t))
  BY DEF IInv, NewsIsTrue
<1>7. Sure(t) => tx[t].status \in {"processing", IF good THEN "completed" ELSE "failed"}
  BY <1>2, <1>3, <1>5, <1>6 DEF SaysPrinted, SaysBlank
<1>. QED  BY <1>1, <1>2, <1>4, <1>7

LEMMA SettleKeeps ==
    ASSUME IInv, NEW t \in Txs, NEW good \in BOOLEAN, Settle(t, good)
    PROVE  IInv'
<1>. USE DEF register
<1>. DEFINE s == IF good THEN "completed" ELSE "failed"
            r == tx[t].receipt
<1>0. TypeOK'
  BY SettleTypes DEF IInv
<1>1. /\ <<t, good>> \in answers /\ answers' \subseteq answers
      /\ UNCHANGED <<plan, notices, wire, run, paper, docs, ran, excused>>
  BY DEF Settle
<1>2. /\ r \in Receipts /\ tx[t].status \notin {"none", "pending"} /\ fiscal[r] # "none"
      /\ t \in ran /\ (good => t \in paper /\ docs[r] > 0)
      /\ Sure(t) => tx[t].status \in {"processing", s}
  BY <1>1, SettlesProcessing
<1>3. /\ tx'[t].status = s
      /\ \A u \in Txs : tx'[u].receipt = tx[u].receipt
      /\ \A u \in Txs \ {t} : tx'[u] = tx[u]
  <2>1. tx' = [tx EXCEPT ![t].status = s]
    BY DEF Settle, SetStatus
  <2>2. s \in {"none", "pending", "processing", "completed", "failed"}
    OBVIOUS
  <2>. HIDE DEF s
  <2>. QED  BY <2>1, <2>2, StatusTypes DEF IInv
<1>4. /\ \A q \in Receipts \ {r} : fiscal'[q] = fiscal[q]
      /\ IF tx[t].status = s THEN fiscal' = fiscal
         ELSE fiscal'[r] = IF good THEN "success" ELSE "failed"
  BY <1>2 DEF Settle, Synced, IInv, TypeOK
<1>5. /\ \A u \in Txs : (tx'[u].status = "none" <=> tx[u].status = "none") /\ (Sure(u)' <=> Sure(u))
      /\ \A q \in Receipts : fiscal[q] # "none" => fiscal'[q] # "none"
  BY <1>1, <1>2, <1>3, <1>4 DEF Sure
<1>6. PlansAreBound'
  BY <1>1, <1>5, PlansStay
<1>7. StagesInOrder'
  <2>1. \A u \in wire' \cup ran' : tx'[u].status \notin {"none", "pending"}
    <3>1. wire \subseteq Txs /\ ran \subseteq Txs
      BY DEF IInv, TypeOK
    <3>. QED  BY <1>1, <1>3, <3>1 DEF IInv, StagesInOrder
  <2>2. \A u \in Txs : tx'[u].status \in {"completed", "failed"} => u \in ran'
    BY <1>1, <1>2, <1>3 DEF IInv, StagesInOrder
  <2>3. \A u \in Txs : tx'[u].status = "none" => tx'[u].receipt = NoReceipt /\ u \notin notices'
    BY <1>1, <1>3, <1>5 DEF IInv, StagesInOrder
  <2>4. \A u \in Txs : tx'[u].status # "none" =>
           tx'[u].receipt \in Receipts /\ fiscal'[tx'[u].receipt] # "none"
    BY <1>3, <1>5 DEF IInv, StagesInOrder
  <2>5. \A u \in paper' : u \in ran' /\ docs'[tx'[u].receipt] > 0
    <3>1. paper \subseteq Txs
      BY DEF IInv, TypeOK
    <3>. QED  BY <1>1, <1>3, <3>1 DEF IInv, StagesInOrder
  <2>6. /\ \A a \in answers' : a[1] \in ran'
        /\ \A u \in Txs, l \in Copies : run'[<<u, l>>] # "idle" => u \in ran'
    BY <1>1 DEF IInv, StagesInOrder
  <2>. QED  BY <2>1, <2>2, <2>3, <2>4, <2>5, <2>6 DEF StagesInOrder
<1>8. NewsIsTrue'
  <2>1. ASSUME NEW u \in Txs
        PROVE  (SaysPrinted(u)' => SaysPrinted(u)) /\ (SaysBlank(u)' => SaysBlank(u))
    <3>1. CASE u # t
      BY <1>1, <1>3, <3>1 DEF SaysPrinted, SaysBlank
    <3>2. CASE u = t /\ good
      <4>1. <<t, TRUE>> \in answers
        <5>1. good = TRUE
          BY <3>2
        <5>. QED  BY <1>1, <5>1
      <4>. QED  BY <1>1, <1>3, <3>2, <4>1 DEF SaysPrinted, SaysBlank
    <3>3. CASE u = t /\ ~good
      <4>1. <<t, FALSE>> \in answers
        <5>1. good = FALSE
          BY <3>3
        <5>. QED  BY <1>1, <5>1
      <4>. QED  BY <1>1, <1>3, <3>3, <4>1 DEF SaysPrinted, SaysBlank
    <3>. QED  BY <3>1, <3>2, <3>3
  <2>. QED  BY <1>1, <1>5, <2>1 DEF IInv, NewsIsTrue
<1>9. OneHandler'
  <2>1. \A u \in Txs, k \in Copies : Sure(u) /\ run[<<u, k>>] = "printing" => u # t
    BY <1>1 DEF IInv, OneHandler
  <2>. QED  BY <1>1, <1>3, <1>5, <2>1 DEF IInv, OneHandler
<1>10. Sure(t) /\ tx[t].status # s => Open(t)
  BY <1>2 DEF Open
<1>11. ASSUME NEW u \in Txs, Sure(u), Live(u)' PROVE Live(u)
  <2>1. CASE u # t
    BY <1>3, <1>11, <2>1 DEF Live, Open
  <2>2. CASE u = t /\ tx[t].status = s
    BY <1>3, <1>11, <2>2 DEF Live, Open
  <2>3. CASE u = t /\ tx[t].status # s
    BY <1>10, <1>11, <2>3 DEF Live
  <2>. QED  BY <2>1, <2>2, <2>3
<1>12. OneLive'
  <2>1. ASSUME NEW u \in Txs, NEW v \in Txs, Sure(u)', Live(u)', Live(v)',
               tx'[v].receipt = tx'[u].receipt
        PROVE  v = u
    <3>1. Sure(u) /\ tx[v].receipt = tx[u].receipt
      BY <1>3, <1>5, <2>1
    <3>2. Sure(v)
      BY <1>5, <2>1, <3>1 DEF Sure, Live, Open
    <3>. QED  BY <1>11, <2>1, <3>1, <3>2 DEF IInv, OneLive
  <2>2. ASSUME NEW u \in Txs, Sure(u), Live(u), u # t
        PROVE  fiscal'[tx[u].receipt] = fiscal[tx[u].receipt]
    <3>1. CASE tx[u].receipt # r
      BY <1>4, <2>2, <3>1 DEF IInv, StagesInOrder, Sure
    <3>2. CASE tx[u].receipt = r /\ tx[t].status = s
      BY <1>4, <3>2
    <3>3. CASE tx[u].receipt = r /\ tx[t].status # s
      <4>1. Sure(t)
        BY <1>2, <2>2, <3>3 DEF Sure
      <4>2. Live(t)
        BY <1>10, <3>3, <4>1 DEF Live
      <4>. QED  BY <2>2, <3>3, <4>1, <4>2 DEF IInv, OneLive
    <3>. QED  BY <3>1, <3>2, <3>3
  <2>3. ASSUME NEW u \in Txs, Sure(u)'
        PROVE  /\ Open(u)' => fiscal'[tx'[u].receipt] = "queued"
               /\ tx'[u].status = "completed" => fiscal'[tx'[u].receipt] = "success"
    <3>1. CASE u = t /\ tx[t].status = s
      BY <1>3, <1>4, <1>5, <2>3, <3>1 DEF IInv, OneLive, Open
    <3>2. CASE u = t /\ tx[t].status # s
      BY <1>3, <1>4, <3>2 DEF Open
    <3>3. CASE u # t /\ Live(u)'
      <4>1. Sure(u) /\ Live(u) /\ tx'[u] = tx[u]
        BY <1>3, <1>5, <1>11, <2>3, <3>3
      <4>. QED  BY <2>2, <3>3, <4>1 DEF IInv, OneLive, Open
    <3>. QED  BY <3>1, <3>2, <3>3 DEF Live
  <2>. QED  BY <2>1, <2>3 DEF OneLive
<1>13. DocumentsAreTraced'
  <2>1. paper \subseteq Txs
    BY DEF IInv, TypeOK
  <2>. QED  BY <1>1, <1>3, <2>1 DEF IInv, DocumentsAreTraced
<1>14. SuccessIsPrinted'
  <2>1. ASSUME NEW q \in Receipts, fiscal'[q] = "success"
        PROVE  \E u \in Txs : tx'[u].receipt = q /\ tx'[u].status = "completed"
    <3>1. CASE q = r /\ tx[t].status # s
      BY <1>2, <1>3, <1>4, <2>1, <3>1
    <3>2. CASE q # r \/ tx[t].status = s
      <4>1. fiscal[q] = "success"
        BY <1>4, <2>1, <3>2
      <4>2. PICK u \in Txs : tx[u].receipt = q /\ tx[u].status = "completed"
        BY <4>1 DEF IInv, SuccessIsPrinted, TxsOf
      <4>. QED  BY <1>3, <3>2, <4>2
    <3>. QED  BY <3>1, <3>2
  <2>2. \A u \in Txs : tx'[u].status = "completed" => u \in paper'
    BY <1>1, <1>2, <1>3 DEF IInv, SuccessIsPrinted
  <2>. QED  BY <2>1, <2>2 DEF SuccessIsPrinted, TxsOf
<1>15. QueuedIsTracked'
  <2>. SUFFICES ASSUME NEW q \in Receipts, fiscal'[q] = "queued", q \notin excused'
                PROVE  \E u \in Txs : tx'[u].receipt = q /\ Open(u)'
    BY DEF QueuedIsTracked, TxsOf
  <2>1. q # r \/ tx[t].status = s
    BY <1>4
  <2>2. fiscal[q] = "queued"
    BY <1>4, <2>1
  <2>3. PICK u \in Txs : tx[u].receipt = q /\ Open(u)
    BY <1>1, <2>2 DEF IInv, QueuedIsTracked, TxsOf
  <2>4. tx[u].status \in {"pending", "processing"} /\ u # t
    BY <2>1, <2>3 DEF Open
  <2>. QED  BY <1>3, <2>3, <2>4 DEF Open
<1>. QED  BY <1>0, <1>6, <1>7, <1>8, <1>9, <1>12, <1>13, <1>14, <1>15 DEF IInv

-----------------------------------------------------------------------------
(* The theorems. *)

LEMMA Initially == Init => IInv
<1>. SUFFICES ASSUME Init PROVE IInv
  OBVIOUS
<1>. USE DEF Init, NoTx, NoPlan
<1>1. TypeOK
  BY DEF TypeOK
<1>2. StagesInOrder /\ PlansAreBound
  BY DEF StagesInOrder, PlansAreBound
<1>3. NewsIsTrue /\ OneHandler
  BY DEF NewsIsTrue, OneHandler, SaysPrinted, SaysBlank, Sure
<1>4. OneLive /\ DocumentsAreTraced /\ SuccessIsPrinted /\ QueuedIsTracked
  BY DEF OneLive, Live, Open, Sure, DocumentsAreTraced, SuccessIsPrinted, QueuedIsTracked, TxsOf
<1>. QED  BY <1>1, <1>2, <1>3, <1>4 DEF IInv

LEMMA Preserved == IInv /\ [Next]_vars => IInv'
<1>. SUFFICES ASSUME IInv, [Next]_vars PROVE IInv'
  OBVIOUS
<1>1. ASSUME NEW t \in Txs, NEW k \in Copies, MarkProcessed(t, k) PROVE IInv'
  <2>1. TypeOK'
    BY <1>1, AgentTypes DEF IInv, AgentStep
  <2>2. \A u \in Txs, l \in Copies : run'[<<u, l>>] \in {run[<<u, l>>], "idle"}
    <3>1. run' = [run EXCEPT ![<<t, k>>] = "idle"]
      BY <1>1 DEF MarkProcessed
    <3>. QED  BY <3>1, HandlerStep DEF Stages
  <2>. QED  BY <1>1, <2>1, <2>2, EndsKeep DEF MarkProcessed, database
<1>2. CASE AgentCrash
  <2>1. TypeOK'
    BY <1>2, CrashTypes DEF IInv
  <2>2. \A u \in Txs, l \in Copies : run'[<<u, l>>] = "idle"
    BY <1>2 DEF AgentCrash, IInv, TypeOK
  <2>. QED  BY <1>2, <2>1, <2>2, EndsKeep DEF AgentCrash, database
<1>3. ASSUME NEW t \in Txs, NEW k \in Copies, AgentStep(t, k) PROVE IInv'
  BY <1>1, <1>3, StartKeeps, RegisterKeeps, AnswerKeeps DEF AgentStep
<1>4. CASE UNCHANGED vars
  <2>1. TypeOK'
    BY <1>4 DEF vars, database, register, IInv, TypeOK
  <2>. QED  BY <1>4, <2>1, EndsKeep DEF vars, database, register
<1>. QED  BY <1>2, <1>3, <1>4, CallerKeeps, SweepKeeps, ActorKeeps, PublisherKeeps, SettleKeeps DEF Next

\* The inductive invariant of the pipeline, for any number of receipts,
\* requests, transactions and faults.
THEOREM PipelineInvariance == Spec => []IInv
  BY Initially, Preserved, PTL DEF Spec

\* One document per receipt, as DocumentsAreTraced counts them.
THEOREM OneDocumentEach == Spec => []OneDocument
<1>1. IInv => OneDocument
  BY DEF IInv, TypeOK, DocumentsAreTraced, OneDocument
<1>. QED  BY <1>1, PipelineInvariance, PTL

\* Nothing is shown as fiscalized that did not print.
THEOREM SuccessMeansPaper == Spec => []SuccessIsPrinted
<1>1. IInv => SuccessIsPrinted
  BY DEF IInv
<1>. QED  BY <1>1, PipelineInvariance, PTL

\* Nothing is claimed for nobody.
THEOREM ClaimsAreBacked == Spec => []QueuedIsTracked
<1>1. IInv => QueuedIsTracked
  BY DEF IInv
<1>. QED  BY <1>1, PipelineInvariance, PTL

\* A document that no excuse accounts for is on record: its transaction has not
\* failed, since bad news would be false, so the receipt is queued or fiscalized
\* and no failure is shown that a cashier would print again.
THEOREM PrintedStaysOnRecord == Spec => []PrintedIsOnRecord
<1>1. IInv => PrintedIsOnRecord
  <2>. SUFFICES ASSUME IInv, NEW r \in Receipts \ excused, docs[r] > 0
                PROVE  fiscal[r] \in {"queued", "success"}
    BY DEF PrintedIsOnRecord
  <2>1. docs[r] = 1
    BY DEF IInv, TypeOK, DocumentsAreTraced
  <2>2. PICK t \in paper : tx[t].receipt = r
    BY <2>1 DEF IInv, DocumentsAreTraced
  <2>3. t \in Txs /\ tx[t].status \notin {"none", "pending"}
    BY <2>2 DEF IInv, TypeOK, StagesInOrder
  <2>4. Sure(t)
    BY <2>2, <2>3 DEF Sure
  <2>5. tx[t].status # "failed"
    BY <2>2, <2>3, <2>4 DEF IInv, NewsIsTrue, SaysBlank
  <2>6. Open(t) \/ tx[t].status = "completed"
    BY <2>3, <2>5 DEF IInv, TypeOK, Open
  <2>. QED  BY <2>2, <2>3, <2>4, <2>6 DEF IInv, OneLive
<1>. QED  BY <1>1, PipelineInvariance, PTL

-----------------------------------------------------------------------------
(* The refinement: what each step is to the ledger. *)

Reported == {r \in Receipts : fiscal[r] = "success"}

\* A status other than success, set over a receipt that is not reported or is
\* excused; the status may also stay.
LEMMA LedgerMark ==
    ASSUME TypeOK, TypeOK', NEW r \in Receipts, UNCHANGED docs, excused \subseteq excused',
           \A q \in Receipts \ {r} : fiscal'[q] = fiscal[q],
           fiscal'[r] = fiscal[r] \/ fiscal'[r] # "success",
           fiscal'[r] = fiscal[r] \/ (fiscal[r] = "success" => r \in excused')
    PROVE  Ledger!LedgerNext
<1>1. Ledger!Doubting
  BY DEF TypeOK, Ledger!Doubting
<1>2. CASE Reported' = Reported
  <2>1. Ledger!CastDoubt
    BY <1>1, <1>2 DEF Ledger!CastDoubt, Reported
  <2>. QED  BY <2>1 DEF Ledger!LedgerNext
<1>3. CASE Reported' # Reported
  <2>1. fiscal'[r] # fiscal[r]
    BY <1>3 DEF Reported
  <2>2. fiscal[r] = "success"
    BY <1>3, <2>1 DEF Reported
  <2>3. Reported' = Reported \ {r} /\ r \in excused'
    BY <2>1, <2>2 DEF Reported
  <2>4. Ledger!Retract(r)
    BY <1>1, <2>3 DEF Ledger!Retract, Reported
  <2>. QED  BY <2>4 DEF Ledger!LedgerNext
<1>. QED  BY <1>2, <1>3

LEMMA LedgerKeeps ==
    ASSUME TypeOK, TypeOK', UNCHANGED <<docs, fiscal>>, excused \subseteq excused'
    PROVE  Ledger!LedgerNext
<1>1. Ledger!Doubting /\ Reported' = Reported
  BY DEF TypeOK, Ledger!Doubting, Reported
<1>2. Ledger!CastDoubt
  BY <1>1 DEF Ledger!CastDoubt, Reported
<1>. QED  BY <1>2 DEF Ledger!LedgerNext

LEMMA LedgerCaller ==
    ASSUME IInv, IInv', NEW c \in Callers, CallerStep(c)
    PROVE  Ledger!LedgerNext
<1>. USE DEF database, register
<1>0. TypeOK /\ TypeOK' /\ c \in Actors
  BY DEF IInv, Actors
<1>1. ASSUME NEW r \in Receipts, NEW op \in {"claim", "skip"}, NEW k \in {"sale", "refund"},
             Create(c, r, k, op)
      PROVE  Ledger!LedgerNext
  <2>1. /\ fiscal[r] = "none" /\ fiscal' = [fiscal EXCEPT ![r] = "pending"]
        /\ UNCHANGED <<docs, excused>>
    BY <1>1 DEF Create
  <2>2. (\A q \in Receipts \ {r} : fiscal'[q] = fiscal[q]) /\ fiscal'[r] = "pending"
    BY <1>0, <2>1 DEF TypeOK
  <2>. QED  BY <1>0, <2>1, <2>2, LedgerMark
<1>2. ASSUME NEW r \in Receipts, NEW op \in {"claim", "skip"},
             Void(c, r, op) \/ Retry(c, r) \/ AskCorrection(c, r) \/ InsertCorrection(c)
      PROVE  Ledger!LedgerNext
  <2>1. UNCHANGED <<docs, fiscal>> /\ excused \subseteq excused'
    BY <1>2 DEF Void, Retry, AskCorrection, InsertCorrection
  <2>. QED  BY <1>0, <2>1, LedgerKeeps
<1>3. CASE Skip(c) \/ MarkQueued(c)
  <2>1. PICK r \in Receipts : r = plan[c].receipt /\ (plan[c].op = "mark" => r \in excused)
    BY <1>0, <1>3 DEF Skip, MarkQueued, IInv, PlansAreBound
  <2>2. \E mark \in {"skipped", "queued"} : fiscal' = [fiscal EXCEPT ![r] = mark]
    BY <1>3, <2>1 DEF Skip, MarkQueued
  <2>3. /\ UNCHANGED docs /\ excused \subseteq excused'
        /\ fiscal[r] = "success" => r \in excused'
    BY <1>3, <2>1 DEF Skip, MarkQueued, InFlight
  <2>4. (\A q \in Receipts \ {r} : fiscal'[q] = fiscal[q]) /\ fiscal'[r] # "success"
    BY <1>0, <2>2 DEF TypeOK
  <2>. QED  BY <1>0, <2>3, <2>4, LedgerMark
<1>4. CASE InsertCorrection(c)
  <2>1. UNCHANGED <<docs, fiscal>> /\ excused \subseteq excused'
    BY <1>4 DEF InsertCorrection
  <2>. QED  BY <1>0, <2>1, LedgerKeeps
<1>. QED  BY <1>1, <1>2, <1>3, <1>4 DEF CallerStep

LEMMA LedgerClaim ==
    ASSUME IInv, IInv', NEW c \in Actors, Claim(c)
    PROVE  Ledger!LedgerNext
<1>0. TypeOK /\ TypeOK' /\ UNCHANGED <<docs, excused>>
  BY DEF IInv, Claim, register
<1>1. PICK r \in Receipts : r = plan[c].receipt
  BY DEF Claim, IInv, PlansAreBound
<1>2. CASE fiscal[r] \in InFlight
  <2>1. UNCHANGED fiscal
    BY <1>1, <1>2 DEF Claim
  <2>. QED  BY <1>0, <2>1, LedgerKeeps
<1>3. CASE fiscal[r] \notin InFlight
  <2>1. fiscal' = [fiscal EXCEPT ![r] = "queued"] /\ fiscal[r] # "success"
    BY <1>1, <1>3 DEF Claim, InFlight
  <2>2. (\A q \in Receipts \ {r} : fiscal'[q] = fiscal[q]) /\ fiscal'[r] = "queued"
    BY <1>0, <2>1 DEF TypeOK
  <2>. QED  BY <1>0, <2>1, <2>2, LedgerMark
<1>. QED  BY <1>2, <1>3

\* A document is the receipt's first, or the receipt is in doubt.
LEMMA LedgerRegister ==
    ASSUME IInv, IInv', NEW t \in Txs, NEW k \in Copies, Register(t, k)
    PROVE  Ledger!LedgerNext
<1>. DEFINE r == tx[t].receipt
<1>0. TypeOK /\ TypeOK' /\ UNCHANGED fiscal /\ excused \subseteq excused'
  BY DEF IInv, Register, database
<1>1. CASE docs' = docs
  BY <1>0, <1>1, LedgerKeeps
<1>2. CASE docs' # docs
  <2>1. docs' = [docs EXCEPT ![r] = @ + 1] /\ run[<<t, k>>] = "printing"
    BY <1>2 DEF Register
  <2>2. r \in Receipts /\ tx[t].status # "none"
    BY <2>1 DEF IInv, StagesInOrder
  <2>3. docs[r] = 0 \/ r \in excused
    BY <2>1, <2>2, FirstDocument DEF Sure
  <2>4. Ledger!Doubting /\ Reported' = Reported
    BY <1>0 DEF TypeOK, Ledger!Doubting, Reported
  <2>5. Ledger!PrintDocument(r)
    BY <2>1, <2>3, <2>4 DEF Ledger!PrintDocument, Reported
  <2>. QED  BY <2>2, <2>5 DEF Ledger!LedgerNext
<1>. QED  BY <1>1, <1>2

\* Good news is about a document; bad news does not undo good news.
LEMMA LedgerSettle ==
    ASSUME IInv, IInv', NEW t \in Txs, NEW good \in BOOLEAN, Settle(t, good)
    PROVE  Ledger!LedgerNext
<1>. DEFINE s == IF good THEN "completed" ELSE "failed"
            r == tx[t].receipt
<1>0. TypeOK /\ TypeOK' /\ UNCHANGED <<docs, excused>> /\ <<t, good>> \in answers
      /\ fiscal' = Synced(t, s)
  BY DEF IInv, Settle, register
<1>1. /\ r \in Receipts /\ tx[t].status \notin {"none", "pending"}
      /\ good => docs[r] > 0
      /\ Sure(t) => tx[t].status \in {"processing", s}
  BY <1>0, SettlesProcessing
<1>2. CASE tx[t].status = s
  <2>1. UNCHANGED fiscal
    BY <1>0, <1>2 DEF Synced
  <2>. QED  BY <1>0, <2>1, LedgerKeeps
<1>3. CASE tx[t].status # s /\ good
  <2>1. fiscal' = [fiscal EXCEPT ![r] = "success"]
    BY <1>0, <1>3 DEF Synced
  <2>2. Reported' = Reported \cup {r}
    BY <1>0, <1>1, <2>1 DEF TypeOK, Reported
  <2>3. PICK q \in Receipts : q = r
    BY <1>1
  <2>4. Ledger!Report(q)
    BY <1>0, <1>1, <1>3, <2>2, <2>3 DEF Ledger!Report, Reported
  <2>. QED  BY <2>4 DEF Ledger!LedgerNext
<1>4. CASE tx[t].status # s /\ ~good
  <2>1. fiscal' = [fiscal EXCEPT ![r] = "failed"]
    BY <1>0, <1>4 DEF Synced
  <2>2. (\A q \in Receipts \ {r} : fiscal'[q] = fiscal[q]) /\ fiscal'[r] = "failed"
    BY <1>0, <1>1, <2>1 DEF TypeOK
  <2>3. fiscal[r] = "success" => r \in excused
    <3>. SUFFICES ASSUME r \notin excused PROVE fiscal[r] = "queued"
      OBVIOUS
    <3>1. Sure(t)
      BY <1>1 DEF Sure
    <3>2. Open(t)
      BY <1>1, <1>4, <3>1 DEF Open
    <3>. QED  BY <3>1, <3>2 DEF IInv, OneLive
  <2>. QED  BY <1>0, <1>1, <2>2, <2>3, LedgerMark
<1>. QED  BY <1>2, <1>3, <1>4

LEMMA LedgerStep == IInv /\ IInv' /\ [Next]_vars => [Ledger!LedgerNext]_(Ledger!ledger)
<1>. SUFFICES ASSUME IInv, IInv', [Next]_vars
              PROVE  Ledger!LedgerNext \/ UNCHANGED <<docs, Reported, excused>>
  BY DEF Ledger!ledger, Reported
<1>. USE DEF database, register
<1>1. TypeOK /\ TypeOK'
  BY DEF IInv
<1>2. ASSUME UNCHANGED <<docs, fiscal>>, excused \subseteq excused' PROVE Ledger!LedgerNext
  BY <1>1, <1>2, LedgerKeeps
<1>3. ASSUME NEW r \in Receipts, Sweep(r) \/ BridgeFiscal(r) PROVE Ledger!LedgerNext
  BY <1>2, <1>3 DEF Sweep, BridgeFiscal
<1>4. ASSUME NEW c \in Actors, Claim(c) \/ Die(c) PROVE Ledger!LedgerNext
  BY <1>2, <1>4, LedgerClaim DEF Die
<1>5. ASSUME NEW t \in Txs, Publish(t) \/ LoseNotice(t) PROVE Ledger!LedgerNext
  BY <1>2, <1>5 DEF Publish, LoseNotice
<1>6. ASSUME NEW t \in Txs, NEW k \in Copies, AgentStep(t, k) PROVE Ledger!LedgerNext
  <2>1. CASE Start(t, k)
    <3>1. UNCHANGED <<docs, fiscal>> /\ excused \subseteq excused'
      BY <2>1 DEF Start
    <3>. QED  BY <1>2, <3>1
  <2>2. CASE Answer(t, k) \/ MarkProcessed(t, k)
    BY <1>2, <2>2 DEF Answer, MarkProcessed
  <2>. QED  BY <1>6, <2>1, <2>2, LedgerRegister DEF AgentStep
<1>7. CASE AgentCrash
  BY <1>2, <1>7 DEF AgentCrash
<1>8. CASE UNCHANGED vars
  BY <1>2, <1>8 DEF vars
<1>. QED  BY <1>3, <1>4, <1>5, <1>6, <1>7, <1>8, LedgerCaller, LedgerSettle DEF Next

LEMMA LedgerInitially == Init => Ledger!LedgerInit
  BY DEF Init, Ledger!LedgerInit

\* The pipeline keeps the promise of the ledger.
THEOREM PipelineImplementsLedger == Spec => ImplementsLedger
<1>1. Spec => []IInv
  BY PipelineInvariance
<1>. QED  BY <1>1, LedgerInitially, LedgerStep, PTL DEF Spec, ImplementsLedger, Ledger!LedgerSpec
=============================================================================
