---------------------------- MODULE FiscalLedger ----------------------------
(***************************************************************************)
(* What the fiscal pipeline promises about the paper that the cash         *)
(* register prints: at most one document per receipt as long as nobody is  *)
(* in doubt about the receipt, and no receipt reported as fiscalized       *)
(* without a document.                                                     *)
(***************************************************************************)
EXTENDS Naturals

CONSTANTS Receipts

VARIABLES
    docs,       \* printed documents of each receipt
    reported,   \* receipts that the back office shows as fiscalized
    doubt       \* receipts whose outcome somebody had to guess

ledger == <<docs, reported, doubt>>

LedgerInit ==
    /\ docs = [r \in Receipts |-> 0]
    /\ reported = {}
    /\ doubt = {}

\* Whatever else a step does, it may cast doubt on receipts.
Doubting == doubt \subseteq doubt' /\ doubt' \subseteq Receipts

PrintDocument(r) ==
    /\ docs[r] = 0 \/ r \in doubt
    /\ docs' = [docs EXCEPT ![r] = @ + 1]
    /\ Doubting
    /\ UNCHANGED reported

Report(r) ==
    /\ docs[r] > 0
    /\ reported' = reported \cup {r}
    /\ UNCHANGED <<docs, doubt>>

\* Only a receipt in doubt is ever taken back.
Retract(r) ==
    /\ reported' = reported \ {r}
    /\ Doubting /\ r \in doubt'
    /\ UNCHANGED docs

CastDoubt == Doubting /\ UNCHANGED <<docs, reported>>

LedgerNext ==
    \/ \E r \in Receipts : PrintDocument(r) \/ Report(r) \/ Retract(r)
    \/ CastDoubt

LedgerSpec == LedgerInit /\ [][LedgerNext]_ledger
=============================================================================
