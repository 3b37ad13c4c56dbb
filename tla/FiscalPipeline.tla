--------------------------- MODULE FiscalPipeline ---------------------------
(***************************************************************************)
(* The way of a POS receipt to the cash register and of the answer back:   *)
(* routes/pos.routes.ts and enqueueFiscal claim a receipt and insert a     *)
(* pos_transactions row, PG NOTIFY wakes print-api, which takes the row    *)
(* and publishes a command over MQTT; pos-agent prints, answers and marks  *)
(* the command as processed; print-api stores the answer and a trigger     *)
(* copies it to the receipt; a leader-only sweep tries again what failed.  *)
(*                                                                         *)
(* A request reads, decides and writes in separate queries, and dies in    *)
(* between; a notification, a publication and a command get lost, and a    *)
(* command that was not acknowledged in time is delivered twice.  The      *)
(* breaker atol-fiscal, which the sweep asks first, never opens: nothing   *)
(* reports to it any more.                                                 *)
(***************************************************************************)
EXTENDS Naturals, FiniteSets

CONSTANTS
    Receipts,       \* pos_receipts
    Callers,        \* concurrent requests of the cash desk
    Sweeper,        \* the retry sweep, one loop on the leader
    Copies,         \* handlers of one command that pos-agent can run at a time
    NoReceipt,      \* receipt_id of an unused transaction
    MaxAttempts,    \* config.pos.fiscalAutoretryMax
    IncludeStuck,   \* config.pos.fiscalSweepIncludeStuck
    TxCap,          \* bound: transactions in a behaviour
    FaultCap        \* bound: deaths, losses, repeated deliveries, bypasses of the claim

ASSUME FiscalAssumption ==
    /\ NoReceipt \notin Receipts
    /\ Sweeper \notin Callers
    /\ Copies \subseteq Nat
    /\ MaxAttempts \in Nat /\ TxCap \in Nat /\ FaultCap \in Nat
    /\ IncludeStuck \in BOOLEAN

Txs    == 1 .. TxCap
Actors == Callers \cup {Sweeper}

VARIABLES
    \* pos_receipts
    fiscal,         \* fiscal_status, "none" before the receipt exists
    kind,           \* "sale", or "refund" for is_refund
    voided,         \* voided_at is set
    \* pos_transactions and what is under way between the processes
    tx,             \* the fiscal transactions
    plan,           \* what each actor has read and will write next
    notices,        \* notifications that print-api has not handled
    wire,           \* commands that the broker has for pos-agent
    answers,        \* answers on their way back, or in pos-agent's outbox
    \* pos-agent and the cash register
    run,            \* handlers of each command
    processed,      \* commands marked in the agent's SQLite
    paper,          \* transactions that have printed
    \* history
    docs,           \* documents printed for each receipt
    ran,            \* commands that a handler has begun
    excused,        \* receipts for which a second document was to be expected
    faults

database == <<fiscal, kind, voided, tx>>
register == <<run, processed, paper, docs, ran>>
vars == <<database, plan, notices, wire, answers, register, excused, faults>>

NoTx   == [status |-> "none", receipt |-> NoReceipt, kind |-> "sale"]
NoPlan == [op |-> "none", receipt |-> NoReceipt, kind |-> "sale"]
Plan(op, r, k) == [op |-> op, receipt |-> r, kind |-> k]

Init ==
    /\ fiscal = [r \in Receipts |-> "none"]
    /\ kind = [r \in Receipts |-> "sale"]
    /\ voided = {}
    /\ tx = [t \in Txs |-> NoTx]
    /\ plan = [c \in Actors |-> NoPlan]
    /\ notices = {} /\ wire = {} /\ answers = {}
    /\ run = [x \in Txs \X Copies |-> "idle"]
    /\ processed = {} /\ paper = {} /\ ran = {}
    /\ docs = [r \in Receipts |-> 0]
    /\ excused = {}
    /\ faults = 0

Fault == faults < FaultCap /\ faults' = faults + 1

TxsOf(r) == {t \in Txs : tx[t].receipt = r}
Open(t)  == tx[t].status \in {"pending", "processing"}
Live(t)  == Open(t) \/ tx[t].status = "completed"

-----------------------------------------------------------------------------
(* Requests: each first reads and decides. *)

\* POST /receipts, /receipts/from-pricing, the refunds: createReceipt commits a
\* receipt, then the confirmed fiscal shift decides between a claim and a skip.
Create(c, r, k, op) ==
    /\ plan[c] = NoPlan /\ fiscal[r] = "none"
    /\ fiscal' = [fiscal EXCEPT ![r] = "pending"]
    /\ kind' = [kind EXCEPT ![r] = k]
    /\ plan' = [plan EXCEPT ![c] = Plan(op, r, k)]
    /\ UNCHANGED <<voided, tx, notices, wire, answers, register, excused, faults>>

\* POST /receipts/:id/void, on the sale's own receipt
Void(c, r, op) ==
    /\ plan[c] = NoPlan
    /\ fiscal[r] # "none" /\ kind[r] = "sale" /\ r \notin voided
    /\ voided' = voided \cup {r}
    /\ plan' = [plan EXCEPT ![c] = Plan(op, r, "refund")]
    /\ UNCHANGED <<fiscal, kind, tx, notices, wire, answers, register, excused, faults>>

Attempts(r) == Cardinality({t \in TxsOf(r) : tx[t].kind # "correction"})
HasCompleted(r) ==
    \E t \in TxsOf(r) : tx[t].kind # "correction" /\ tx[t].status = "completed"

SparesOneAttempt(r) ==                  \* mutant
    fiscal[r] \in {"pending", "failed"} /\ ~HasCompleted(r) /\ Attempts(r) + 1 < MaxAttempts
\* findFiscalRetryCandidates.  Any queued receipt may be a stale one, and a
\* behaviour is shorter than fiscalAutoretryMaxAgeMinutes.
Candidate(r) ==
    /\ fiscal[r] \in {"pending", "failed"} \cup (IF IncludeStuck THEN {"queued"} ELSE {})
    /\ ~HasCompleted(r)
    /\ Attempts(r) < MaxAttempts

\* The sweep and the button ask for a sale, also for a receipt of a refund.
Sweep(r) ==
    /\ plan[Sweeper] = NoPlan
    /\ Candidate(r)
    /\ plan' = [plan EXCEPT ![Sweeper] = Plan("claim", r, "sale")]
    /\ UNCHANGED <<database, notices, wire, answers, register, excused, faults>>

\* POST /receipts/:id/fiscal-retry
Retry(c, r) ==
    /\ plan[c] = NoPlan
    /\ fiscal[r] \in {"pending", "queued", "failed"} /\ ~HasCompleted(r)
    /\ plan' = [plan EXCEPT ![c] = Plan("claim", r, "sale")]
    /\ UNCHANGED <<database, notices, wire, answers, register, excused, faults>>

\* POST /receipts/:id/fiscal-correction
AskCorrection(c, r) ==
    /\ plan[c] = NoPlan
    /\ fiscal[r] = "failed" /\ kind[r] = "sale" /\ r \notin voided
    /\ plan' = [plan EXCEPT ![c] = Plan("correct", r, "correction")]
    /\ UNCHANGED <<database, notices, wire, answers, register, excused, faults>>

-----------------------------------------------------------------------------
(* ... and then writes. *)

Fresh(t) == tx[t].status = "none" /\ \A u \in Txs : u < t => tx[u].status # "none"

\* INSERT INTO pos_transactions: the trigger notifies print-api
Insert(t, r, k) ==
    /\ Fresh(t)
    /\ tx' = [tx EXCEPT ![t] = [status |-> "pending", receipt |-> r, kind |-> k]]
    /\ notices' = notices \cup {t}

Done(c) == plan' = [plan EXCEPT ![c] = NoPlan]

OnlySuccess == {"success"}              \* mutant
InFlight == {"queued", "success"}       \* FISCAL_INFLIGHT_STATUSES that occur

\* enqueueFiscal: the conditional UPDATE and the INSERT are one transaction
Claim(c) ==
    LET r == plan[c].receipt IN
    /\ plan[c].op = "claim"
    /\ IF fiscal[r] \in InFlight
       THEN UNCHANGED <<fiscal, tx, notices>>
       ELSE /\ fiscal' = [fiscal EXCEPT ![r] = "queued"]
            /\ \E t \in Txs : Insert(t, r, plan[c].kind)
    /\ Done(c)
    /\ UNCHANGED <<kind, voided, wire, answers, register, excused, faults>>

\* shouldFiscalize without a confirmed shift: an unconditional UPDATE
Skip(c) ==
    LET r == plan[c].receipt IN
    /\ plan[c].op = "skip"
    /\ fiscal' = [fiscal EXCEPT ![r] = "skipped"]
    /\ excused' = IF fiscal[r] \in InFlight THEN excused \cup {r} ELSE excused
    /\ Done(c)
    /\ UNCHANGED <<kind, voided, tx, notices, wire, answers, register, faults>>

\* The correction takes no claim: an INSERT, then an unconditional UPDATE.
InsertCorrection(c) ==
    LET r == plan[c].receipt IN
    /\ plan[c].op = "correct"
    /\ \E t \in Txs : Insert(t, r, "correction")
    /\ plan' = [plan EXCEPT ![c].op = "mark"]
    /\ excused' = excused \cup {r}
    /\ UNCHANGED <<fiscal, kind, voided, wire, answers, register, faults>>

MarkQueued(c) ==
    /\ plan[c].op = "mark"
    /\ fiscal' = [fiscal EXCEPT ![plan[c].receipt] = "queued"]
    /\ Done(c)
    /\ UNCHANGED <<kind, voided, tx, notices, wire, answers, register, excused, faults>>

\* POST /bridge/fiscal, which the cash desk does not use: no claim at all
BridgeFiscal(r) ==
    /\ fiscal[r] # "none" /\ Fault
    /\ \E t \in Txs : Insert(t, r, "sale")
    /\ excused' = excused \cup {r}
    /\ UNCHANGED <<fiscal, kind, voided, plan, wire, answers, register>>

\* The process of the actor dies, or its query fails.
Die(c) ==
    /\ plan[c] # NoPlan
    /\ Done(c) /\ Fault
    /\ UNCHANGED <<database, notices, wire, answers, register, excused>>

-----------------------------------------------------------------------------
(* print-api: the notification and the command. *)

\* UPDATE ... WHERE status = 'pending', then publish
Publish(t) ==
    /\ t \in notices /\ tx[t].status = "pending"
    /\ notices' = notices \ {t}
    /\ tx' = [tx EXCEPT ![t].status = "processing"]
    /\ \/ wire' = wire \cup {t} /\ UNCHANGED faults
       \/ Fault /\ UNCHANGED wire
    /\ UNCHANGED <<fiscal, kind, voided, plan, answers, register, excused>>

\* The listener reconnects and does not look for what it missed.
LoseNotice(t) ==
    /\ t \in notices
    /\ notices' = notices \ {t}
    /\ Fault
    /\ UNCHANGED <<database, plan, wire, answers, register, excused>>

-----------------------------------------------------------------------------
(* pos-agent: handle_fiscal, one task per delivered message. *)

\* Delivered once, or (QoS 1) once more later.  was_processed is all that keeps
\* a second delivery from printing.
Start(t, k) ==
    /\ t \in wire /\ run[<<t, k>>] = "idle"
    /\ \/ wire' = wire \ {t} /\ UNCHANGED faults
       \/ UNCHANGED wire /\ Fault
    /\ IF t \in processed
       THEN UNCHANGED <<run, ran, excused>>
       ELSE /\ run' = [run EXCEPT ![<<t, k>>] = "printing"]
            /\ ran' = ran \cup {t}
            /\ excused' = IF t \in ran THEN excused \cup {tx[t].receipt} ELSE excused
    /\ UNCHANGED <<database, plan, notices, answers, processed, paper, docs>>

RefusedAsDone == "ok"           \* mutant
Refused == "bad"

\* The register prints or refuses, or prints and the agent cannot tell: a
\* timeout or an answer that does not parse is reported as a failure.
Register(t, k) ==
    LET r == tx[t].receipt
        printed == /\ docs' = [docs EXCEPT ![r] = @ + 1]
                   /\ paper' = paper \cup {t}
    IN
    /\ run[<<t, k>>] = "printing"
    /\ \/ /\ printed
          /\ run' = [run EXCEPT ![<<t, k>>] = "ok"]
          /\ UNCHANGED excused
       \/ /\ printed
          /\ run' = [run EXCEPT ![<<t, k>>] = "bad"]
          /\ excused' = excused \cup {r}
       \/ /\ run' = [run EXCEPT ![<<t, k>>] = Refused]
          /\ UNCHANGED <<docs, paper, excused>>
    /\ UNCHANGED <<database, plan, notices, wire, answers, processed, ran, faults>>

\* publish_protobuf: to the broker, or to the outbox while there is none
Answer(t, k) ==
    /\ run[<<t, k>>] \in {"ok", "bad"}
    /\ answers' = answers \cup {<<t, run[<<t, k>>] = "ok">>}
    /\ run' = [run EXCEPT ![<<t, k>>] = "answered"]
    /\ UNCHANGED <<database, plan, notices, wire, processed, paper, docs, ran, excused, faults>>

MarkProcessed(t, k) ==
    /\ run[<<t, k>>] = "answered"
    /\ processed' = processed \cup {t}
    /\ run' = [run EXCEPT ![<<t, k>>] = "idle"]
    /\ UNCHANGED <<database, plan, notices, wire, answers, paper, docs, ran, excused, faults>>

\* The agent restarts; commands it had acknowledged are gone.
AgentCrash ==
    /\ \E x \in DOMAIN run : run[x] # "idle"
    /\ run' = [x \in DOMAIN run |-> "idle"]
    /\ Fault
    /\ UNCHANGED <<database, plan, notices, wire, answers, processed, paper, docs, ran, excused>>

-----------------------------------------------------------------------------
(* print-api: handle_pos_transaction_result and the trigger on its UPDATE. *)

SetStatus(t, s) == [tx EXCEPT ![t].status = s]

SyncsFailures(t, s) ==                                          \* mutant
    IF tx[t].status = s \/ s = "completed" THEN fiscal
    ELSE [fiscal EXCEPT ![tx[t].receipt] = "failed"]
\* sync_fiscal_to_receipt: only when the status changes
Synced(t, s) ==
    IF tx[t].status = s THEN fiscal
    ELSE [fiscal EXCEPT ![tx[t].receipt] = IF s = "completed" THEN "success" ELSE "failed"]

\* The outbox sends its rows again every ten seconds, since nothing calls
\* ack_sent; an answer from the broker is gone once it is stored.
Settle(t, good) ==
    LET s == IF good THEN "completed" ELSE "failed" IN
    /\ <<t, good>> \in answers
    /\ answers' \in {answers, answers \ {<<t, good>>}}
    /\ tx' = SetStatus(t, s)
    /\ fiscal' = Synced(t, s)
    /\ UNCHANGED <<kind, voided, plan, notices, wire, register, excused, faults>>

-----------------------------------------------------------------------------
CallerStep(c) ==
    \/ \E r \in Receipts :
          \/ \E op \in {"claim", "skip"} :
                Create(c, r, "sale", op) \/ Create(c, r, "refund", op) \/ Void(c, r, op)
          \/ Retry(c, r)
          \/ AskCorrection(c, r)
    \/ Skip(c) \/ InsertCorrection(c) \/ MarkQueued(c)

AgentStep(t, k) == Start(t, k) \/ Register(t, k) \/ Answer(t, k) \/ MarkProcessed(t, k)

Next ==
    \/ \E c \in Callers : CallerStep(c)
    \/ \E r \in Receipts : Sweep(r) \/ BridgeFiscal(r)
    \/ \E c \in Actors : Claim(c) \/ Die(c)
    \/ \E t \in Txs : Publish(t) \/ LoseNotice(t)
    \/ \E t \in Txs, k \in Copies : AgentStep(t, k)
    \/ \E t \in Txs, good \in BOOLEAN : Settle(t, good)
    \/ AgentCrash

\* The sweep is a timer: every tick lists all candidates and works the list off.
Fairness == WF_vars(Claim(Sweeper)) /\ \A r \in Receipts : SF_vars(Sweep(r))

Spec == Init /\ [][Next]_vars
FairSpec == Spec /\ Fairness

-----------------------------------------------------------------------------
(* Properties. *)

\* Every variable keeps its type.
TypeOK ==
    /\ fiscal \in [Receipts -> {"none", "pending", "queued", "success", "failed", "skipped"}]
    /\ kind \in [Receipts -> {"sale", "refund"}]
    /\ voided \subseteq Receipts
    /\ tx \in [Txs -> [status : {"none", "pending", "processing", "completed", "failed"},
                       receipt : Receipts \cup {NoReceipt},
                       kind : {"sale", "refund", "correction"}]]
    /\ plan \in [Actors -> [op : {"none", "claim", "skip", "correct", "mark"},
                            receipt : Receipts \cup {NoReceipt},
                            kind : {"sale", "refund", "correction"}]]
    /\ notices \subseteq Txs /\ wire \subseteq Txs
    /\ answers \subseteq Txs \X BOOLEAN
    /\ run \in [Txs \X Copies -> {"idle", "printing", "ok", "bad", "answered"}]
    /\ processed \subseteq Txs /\ paper \subseteq Txs /\ ran \subseteq Txs
    /\ docs \in [Receipts -> Nat]
    /\ excused \subseteq Receipts
    /\ faults \in Nat

\* One document per receipt: claims, sweeps, buttons, deaths and lost messages
\* never print a receipt twice.  The excuses are the ways out that the code has:
\* the register printed and the answer was lost, a command was run twice, a skip
\* over a claimed receipt, a correction, POST /bridge/fiscal.
OneDocument == \A r \in Receipts : docs[r] > 1 => r \in excused

\* A receipt shown as fiscalized has a completed transaction, and every
\* completed transaction has printed, in whatever order answers arrive.
SuccessIsPrinted ==
    /\ \A r \in Receipts : fiscal[r] = "success" =>
          \E t \in TxsOf(r) : tx[t].status = "completed"
    /\ \A t \in Txs : tx[t].status = "completed" => t \in paper

\* A queued receipt has an open transaction: no death and no answer leaves it
\* claimed for nobody.  Corrections, which claim after the insert, are excused.
QueuedIsTracked ==
    \A r \in Receipts :
        fiscal[r] = "queued" => r \in excused \/ \E t \in TxsOf(r) : Open(t)

\* What has printed is on record: unless excused, a receipt with a document is
\* queued or fiscalized, and nobody who looks for failures finds it, whatever was
\* lost, restarted or answered late.
PrintedIsOnRecord ==
    \A r \in Receipts \ excused : docs[r] > 0 => fiscal[r] \in {"queued", "success"}

\* The sweep leaves no failed receipt behind that may be tried again.
Due(r) ==
    /\ fiscal[r] = "failed" /\ ~HasCompleted(r) /\ Attempts(r) < MaxAttempts
    /\ tx[TxCap].status = "none"
FailedIsRetried == \A r \in Receipts : Due(r) ~> ~Due(r)

\* What the pipeline promises: FiscalLedger, where an excuse is doubt.
Ledger == INSTANCE FiscalLedger
    WITH reported <- {r \in Receipts : fiscal[r] = "success"}, doubt <- excused
ImplementsLedger == Ledger!LedgerSpec

-----------------------------------------------------------------------------
(* The inductive invariant behind the safety properties and the refinement.   *)

\* What a transaction has gone through, in order: row, command, handler, paper.
StagesInOrder ==
    /\ \A t \in Txs : tx[t].status = "none" => tx[t].receipt = NoReceipt /\ t \notin notices
    /\ \A t \in Txs : tx[t].status # "none" =>
          tx[t].receipt \in Receipts /\ fiscal[tx[t].receipt] # "none"
    /\ \A t \in wire \cup ran : tx[t].status \notin {"none", "pending"}
    /\ \A t \in Txs : tx[t].status \in {"completed", "failed"} => t \in ran
    /\ \A a \in answers : a[1] \in ran
    /\ \A t \in Txs, k \in Copies : run[<<t, k>>] # "idle" => t \in ran
    /\ \A t \in paper : t \in ran /\ docs[tx[t].receipt] > 0

PlansAreBound ==
    \A c \in Actors : plan[c].op # "none" =>
        /\ plan[c].receipt \in Receipts /\ fiscal[plan[c].receipt] # "none"
        /\ plan[c].op = "mark" => plan[c].receipt \in excused

SaysPrinted(t) ==
    \/ tx[t].status = "completed"
    \/ <<t, TRUE>> \in answers
    \/ \E k \in Copies : run[<<t, k>>] = "ok"

SaysBlank(t) ==
    \/ tx[t].status = "failed"
    \/ <<t, FALSE>> \in answers
    \/ \E k \in Copies : run[<<t, k>>] = "bad"

Sure(t) == tx[t].status # "none" /\ tx[t].receipt \notin excused

\* Good news is true, and without an excuse bad news is true as well,
NewsIsTrue ==
    \A t \in Txs :
        /\ SaysPrinted(t) => t \in paper
        /\ Sure(t) /\ SaysBlank(t) => t \notin paper

\* one handler works on a command, and prints before anybody has answered,
OneHandler ==
    \A t \in Txs : Sure(t) =>
        /\ \A k, l \in Copies : run[<<t, k>>] # "idle" /\ run[<<t, l>>] # "idle" => k = l
        /\ \A k \in Copies : run[<<t, k>>] = "printing" =>
              /\ tx[t].status = "processing" /\ t \notin paper
              /\ \A good \in BOOLEAN : <<t, good>> \notin answers

\* one transaction of a receipt is alive, and the receipt shows it,
OneLive ==
    /\ \A t, u \in Txs :
          Sure(t) /\ Live(t) /\ Live(u) /\ tx[u].receipt = tx[t].receipt => u = t
    /\ \A t \in Txs : Sure(t) =>
          /\ Open(t) => fiscal[tx[t].receipt] = "queued"
          /\ tx[t].status = "completed" => fiscal[tx[t].receipt] = "success"

\* and one document is one transaction's.
DocumentsAreTraced ==
    \A r \in Receipts : r \notin excused =>
        /\ docs[r] <= 1
        /\ docs[r] = 1 => \E t \in paper : tx[t].receipt = r

IInv ==
    /\ TypeOK
    /\ StagesInOrder
    /\ PlansAreBound
    /\ NewsIsTrue
    /\ OneHandler
    /\ OneLive
    /\ DocumentsAreTraced
    /\ SuccessIsPrinted
    /\ QueuedIsTracked

-----------------------------------------------------------------------------
(* What a comment says, and the code does not do. *)

\* A void enqueues the document that returns the sale.
VoidIsEnqueued ==
    [][\A c \in Callers :
          plan[c].op = "claim" /\ plan[c].receipt \in voided /\ plan[c].kind = "refund" /\ Claim(c) =>
              \E t \in Txs : /\ tx'[t].receipt = plan[c].receipt
                             /\ tx'[t].kind = "refund"]_vars
=============================================================================
