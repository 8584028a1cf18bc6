----------------------------- MODULE WalletReads -----------------------------
(***************************************************************************)
(* The readers of apps/economy beside the writers of WalletLedger:         *)
(* `reconcile`, which compares the wallet with its ledger in two READ      *)
(* COMMITTED statements that take no lock, and the totals of a wallet.     *)
(***************************************************************************)
EXTENDS WalletLedger, Functions

CONSTANT NoRead

VARIABLES rec,     \* what `reconcile` has read of the wallet row, or NoRead
          alarms   \* the WalletReconciliationMismatch events it has emitted

rvars == <<vars, rec, alarms>>

Alarm == [wallet : Wallets, wallet_balance : 0..MaxMoney, ledger_balance : Nat]

RTypeOK ==
    /\ rec \in {NoRead} \cup [wallet : Wallets, bal : 0..MaxMoney]
    /\ alarms \subseteq Alarm

RInit == Init /\ rec = NoRead /\ alarms = {}

\* Defect: a dirty read, which also finds the rows of open transactions.
LedgerBalanceDirty(w) ==
    LET rows == RowsOf(ledger \cup UNION {draft[p].rows : p \in Procs}, w)
    IN  IF rows = {} THEN 0
        ELSE (CHOOSE r \in rows : \A s \in rows : s.n <= r.n).after

\* balance_after of the latest committed row, zero when there is none.
LedgerBalance(w) ==
    LET rows == RowsOf(ledger, w)
    IN  IF rows = {} THEN 0
        ELSE (CHOOSE r \in rows : \A s \in rows : s.n <= r.n).after

\* reconcile, first statement.
ReadWallet(w) ==
    /\ rec = NoRead
    /\ w \in wallets
    /\ rec' = [wallet |-> w, bal |-> head[w].bal]
    /\ UNCHANGED <<vars, alarms>>

\* reconcile, second statement and the emission.
ReadLedger ==
    /\ rec # NoRead
    /\ LET found == LedgerBalance(rec.wallet)
       IN  alarms' = IF found = rec.bal THEN alarms
                     ELSE alarms \cup {[wallet |-> rec.wallet,
                                        wallet_balance |-> rec.bal,
                                        ledger_balance |-> found]}
    /\ rec' = NoRead
    /\ UNCHANGED vars

RNext ==
    \/ Next /\ UNCHANGED <<rec, alarms>>
    \/ \E w \in Wallets : ReadWallet(w)
    \/ ReadLedger

RSpec == RInit /\ [][RNext]_rvars

-----------------------------------------------------------------------------
(* _wallet_totals *)

\* Defect: REDEEM_HOLD is counted under a name nobody reports.
BucketLosesHolds(w, type) ==
    IF Table(w) = "MP" THEN "earned"
    ELSE CASE type = "SPEND"           -> "spent"
           [] type = "REDEEM_HOLD"     -> "held"
           [] type = "REDEEM_COMPLETE" -> "redeemed"
           [] type = "ADMIN_ADJUST"    -> "adjusted"
           [] OTHER                    -> "recharged"

\* _POINT_TOTAL_BUCKET and _CREDIT_TOTAL_BUCKET.
Bucket(w, type) ==
    IF Table(w) = "MP"
    THEN CASE type = "PURCHASE" -> "purchased"
           [] type = "BONUS"    -> "bonus"
           [] type = "SPEND"    -> "spent"
           [] OTHER             -> "earned"
    ELSE CASE type = "SPEND"                                 -> "spent"
           [] type \in {"REDEEM_HOLD", "REDEEM_COMPLETE"}    -> "redeemed"
           [] type = "ADMIN_ADJUST"                          -> "adjusted"
           [] OTHER                                          -> "recharged"

TotalKeys(w) == IF Table(w) = "MP" THEN {"earned", "spent", "purchased", "bonus"}
                                   ELSE {"recharged", "spent", "redeemed", "adjusted"}

\* "spent" and "redeemed" are reported as positive magnitudes.
Outgoing == {"spent", "redeemed"}

WalletTotals(w) ==
    [b \in TotalKeys(w) |->
        LET moved == SumFunctionOnSet([r \in ledger |-> r.after - r.before],
                         {r \in RowsOf(ledger, w) : Bucket(w, r.type) = b})
        IN  IF b \in Outgoing THEN -moved ELSE moved]

-----------------------------------------------------------------------------
(* Properties *)

\* The totals a user is shown account for the balance: what came in less what
\* went out, whatever mix of entry types and directions was posted.
TotalsExplainBalance ==
    /\ RTypeOK
    /\ \A w \in Wallets :
         head[w].bal = SumFunctionOnSet(
             [b \in TotalKeys(w) |->
                 IF b \in Outgoing THEN -(WalletTotals(w)[b]) ELSE WalletTotals(w)[b]],
             TotalKeys(w))

\* Whatever an alarm reports was true: a balance the wallet had, and one it had
\* later.  An alarm never reports a balance that no committed row left.
AlarmsReportHistory ==
    \A a \in alarms :
        \E r \in RowsOf(ledger, a.wallet) :
            /\ r.after = a.ledger_balance
            /\ \/ a.wallet_balance = 0
               \/ \E s \in RowsOf(ledger, a.wallet) :
                     s.n < r.n /\ s.after = a.wallet_balance
=============================================================================
