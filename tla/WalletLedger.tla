---------------------------- MODULE WalletLedger ----------------------------
(***************************************************************************)
(* The single write path of apps/economy: `_post` behind `credit` and      *)
(* `debit`, executed by concurrent database transactions on PostgreSQL     *)
(* READ COMMITTED.                                                         *)
(*                                                                         *)
(* A transaction p opens (`transaction.atomic`), makes any number of       *)
(* credit/debit calls, and commits or rolls back.  The rows it inserts sit *)
(* in draft[p], its own version of a wallet row it has locked in view[p];  *)
(* nobody else sees either before the commit.  The steps of one `_post`    *)
(* are the statements it runs: SELECT ... FOR UPDATE of the wallet, the    *)
(* look-up of the idempotency key, the INSERT with the UPDATE of the       *)
(* balance and the emission of the event.                                  *)
(*                                                                         *)
(* Money is counted in units of 0.0001, what `_money` rounds to.           *)
(***************************************************************************)
EXTENDS Integers, FiniteSets

CONSTANTS Users,     \* the users that may own wallets
          Keys,      \* non-empty idempotency keys
          NoKey,     \* the empty idempotency key
          Calls,     \* the credit/debit calls the callers may make
          Procs,     \* database connections: one transaction each at a time
          NoProc,    \* nobody holds the row lock
          MaxMoney   \* what Decimal(max_digits=18, decimal_places=4) can hold

Currencies == {"MP", "MC"}

\* POINT_ENTRY_TYPES and CREDIT_ENTRY_TYPES: the entry types of each currency.
Allowed ==
    [MP |-> {"PURCHASE", "BONUS", "REWARD", "SPEND", "REFUND",
             "ADMIN_ADJUST", "GIFT_RECEIVED", "MIGRATION_INITIAL_BALANCE"},
     MC |-> {"RECHARGE", "SPEND", "REFUND", "ADMIN_ADJUST", "GIFT_RECEIVED",
             "REDEEM_HOLD", "REDEEM_COMPLETE", "MIGRATION_INITIAL_BALANCE"}]

EntryTypes == Allowed["MP"] \cup Allowed["MC"]

\* One wallet per user and currency; a currency is a wallet table with its ledger.
Wallets == Users \X Currencies
Table(w) == w[2]

CallSpace == [wallet : Wallets, key : Keys \cup {NoKey}, type : EntryTypes,
              amount : Nat, dir : {"credit", "debit"}]

ASSUME LedgerAssumption ==
    /\ Calls \subseteq CallSpace
    /\ Calls # {}
    /\ NoKey \notin Keys
    /\ NoProc \notin Procs
    /\ MaxMoney \in Nat

VARIABLES wallets,  \* the wallets that exist
          head,     \* committed wallet row: its balance and the rows posted so far
          ledger,   \* committed ledger rows
          outbox,   \* rows announced by a committed WalletCredited/WalletDebited event
          audit,    \* rows recorded in a committed AuditLog entry
          holder,   \* who holds the row lock of a wallet
          pc,       \* where each transaction is
          call,     \* the arguments of its current credit/debit
          view,     \* its version of the wallet rows it has locked
          draft     \* what it has inserted and not committed

vars == <<wallets, head, ledger, outbox, audit, holder, pc, call, view, draft>>

\* n is the position of a row in its wallet's history (created_at order).
Row == [wallet : Wallets, n : Nat, key : Keys, type : EntryTypes,
        amount : Nat, before : Nat, after : Nat]

Head == [bal : 0..MaxMoney, n : Nat]
ZeroHead == [bal |-> 0, n |-> 0]
NoDraft == [rows |-> {}, events |-> {}, audits |-> {}]

TypeOK ==
    /\ wallets \subseteq Wallets
    /\ head \in [Wallets -> Head]
    /\ ledger \subseteq Row
    /\ outbox \subseteq Row
    /\ audit \subseteq Row
    /\ holder \in [Wallets -> Procs \cup {NoProc}]
    /\ pc \in [Procs -> {"idle", "open", "lock", "check", "insert"}]
    /\ call \in [Procs -> Calls]
    /\ view \in [Procs -> [Wallets -> Head]]
    /\ draft \in [Procs -> [rows : SUBSET Row, events : SUBSET Row,
                            audits : SUBSET Row]]

Init ==
    /\ wallets = {}
    /\ head = [w \in Wallets |-> ZeroHead]
    /\ ledger = {}
    /\ outbox = {}
    /\ audit = {}
    /\ holder = [w \in Wallets |-> NoProc]
    /\ pc = [p \in Procs |-> "idle"]
    /\ call = [p \in Procs |-> CHOOSE c \in Calls : TRUE]
    /\ view = [p \in Procs |-> [w \in Wallets |-> ZeroHead]]
    /\ draft = [p \in Procs |-> NoDraft]

-----------------------------------------------------------------------------
(* What one transaction sees *)

RowsOf(R, w) == {r \in R : r.wallet = w}

\* Defect: the key is looked up among the rows of one wallet.
HasKeyInWallet(R, c) == \E r \in R : r.key = c.key /\ r.wallet = c.wallet

\* `ledger_model.objects.filter(idempotency_key=...)`: the key is looked up in
\* the whole table of the currency, not in one wallet.
HasKey(R, c) == \E r \in R : r.key = c.key /\ Table(r.wallet) = Table(c.wallet)

Visible(p) == ledger \cup draft[p].rows

After(p) == LET before == view[p][call[p].wallet].bal
            IN  IF call[p].dir = "credit" THEN before + call[p].amount
                                          ELSE before - call[p].amount

ValidCall(c) ==
    /\ c.type \in Allowed[Table(c.wallet)]
    /\ c.amount > 0
    /\ c.key # NoKey

-----------------------------------------------------------------------------
(* Wallet provisioning *)

\* create_wallets_for_user: get_or_create of the point wallet, then of the
\* credit wallet, each in its own statement.
CreateWallets(u) ==
    /\ \/ /\ <<u, "MP">> \notin wallets
          /\ wallets' = wallets \cup {<<u, "MP">>}
       \/ /\ <<u, "MP">> \in wallets
          /\ <<u, "MC">> \notin wallets
          /\ wallets' = wallets \cup {<<u, "MC">>}
    /\ UNCHANGED <<head, ledger, outbox, audit, holder, pc, call, view, draft>>

-----------------------------------------------------------------------------
(* The steps of a transaction *)

Begin(p) ==
    /\ pc[p] = "idle"
    /\ pc' = [pc EXCEPT ![p] = "open"]
    /\ UNCHANGED <<wallets, head, ledger, outbox, audit, holder, call, view, draft>>

\* credit(...) or debit(...) is called and passes the argument checks of _post.
Call(p, c) ==
    /\ pc[p] = "open"
    /\ ValidCall(c)
    /\ call' = [call EXCEPT ![p] = c]
    /\ pc' = [pc EXCEPT ![p] = "lock"]
    /\ UNCHANGED <<wallets, head, ledger, outbox, audit, holder, view, draft>>

\* Defect: a plain SELECT, which does not wait.
LockWalletNoWait(p) ==
    LET w == call[p].wallet IN
    /\ pc[p] = "lock"
    /\ w \in wallets
    /\ holder' = [holder EXCEPT ![w] = p]
    /\ view' = [view EXCEPT ![p][w] = IF holder[w] = p THEN @ ELSE head[w]]
    /\ pc' = [pc EXCEPT ![p] = "check"]
    /\ UNCHANGED <<wallets, head, ledger, outbox, audit, call, draft>>

\* SELECT ... FOR UPDATE: waits for the holder, then reads the newest row.
LockWallet(p) ==
    LET w == call[p].wallet IN
    /\ pc[p] = "lock"
    /\ w \in wallets
    /\ holder[w] \in {NoProc, p}
    /\ holder' = [holder EXCEPT ![w] = p]
    /\ view' = [view EXCEPT ![p][w] = IF holder[w] = p THEN @ ELSE head[w]]
    /\ pc' = [pc EXCEPT ![p] = "check"]
    /\ UNCHANGED <<wallets, head, ledger, outbox, audit, call, draft>>

\* The key has a row already: return it, change nothing.
Replay(p) ==
    /\ pc[p] = "check"
    /\ HasKey(Visible(p), call[p])
    /\ pc' = [pc EXCEPT ![p] = "open"]
    /\ UNCHANGED <<wallets, head, ledger, outbox, audit, holder, call, view, draft>>

\* The key is new to this transaction and the balance suffices.
Proceed(p) ==
    /\ pc[p] = "check"
    /\ ~HasKey(Visible(p), call[p])
    /\ After(p) >= 0
    /\ pc' = [pc EXCEPT ![p] = "insert"]
    /\ UNCHANGED <<wallets, head, ledger, outbox, audit, holder, call, view, draft>>

\* Another open transaction has inserted the same key: the unique index makes
\* this INSERT wait for it.
KeyRivals(p) == {q \in Procs \ {p} : HasKey(draft[q].rows, call[p])}

NewRow(p) ==
    LET c == call[p]
        v == view[p][c.wallet]
    IN  [wallet |-> c.wallet, n |-> v.n + 1, key |-> c.key, type |-> c.type,
         amount |-> c.amount, before |-> v.bal, after |-> After(p)]

\* entry.save(), wallet.save(), _emit_outbox and, for an adjustment,
\* _record_audit.  A failing emission is swallowed (announced = FALSE).
Insert(p) ==
    LET w == call[p].wallet
        r == NewRow(p)
    IN
    /\ pc[p] = "insert"
    /\ ~HasKey(Visible(p), call[p])
    /\ KeyRivals(p) = {}
    /\ After(p) \in 0..MaxMoney
    /\ view' = [view EXCEPT ![p][w] = [bal |-> r.after, n |-> r.n]]
    /\ \E announced \in BOOLEAN :
          draft' = [draft EXCEPT ![p] =
              [rows   |-> @.rows \cup {r},
               events |-> @.events \cup (IF announced THEN {r} ELSE {}),
               audits |-> @.audits \cup
                              (IF r.type = "ADMIN_ADJUST" THEN {r} ELSE {})]]
    /\ pc' = [pc EXCEPT ![p] = "open"]
    /\ UNCHANGED <<wallets, head, ledger, outbox, audit, holder, call>>

\* Defect: the end of the transaction leaves its row locks behind.
ReleaseKeepsLocks(p) ==
    /\ pc' = [pc EXCEPT ![p] = "idle"]
    /\ view' = [view EXCEPT ![p] = [w \in Wallets |-> ZeroHead]]
    /\ draft' = [draft EXCEPT ![p] = NoDraft]
    /\ UNCHANGED holder

Release(p) ==
    /\ holder' = [w \in Wallets |-> IF holder[w] = p THEN NoProc ELSE holder[w]]
    /\ pc' = [pc EXCEPT ![p] = "idle"]
    /\ view' = [view EXCEPT ![p] = [w \in Wallets |-> ZeroHead]]
    /\ draft' = [draft EXCEPT ![p] = NoDraft]

\* The outermost atomic block ends: everything it wrote becomes visible at once.
Commit(p) ==
    /\ pc[p] = "open"
    /\ head' = [w \in Wallets |-> IF holder[w] = p THEN view[p][w] ELSE head[w]]
    /\ ledger' = ledger \cup draft[p].rows
    /\ outbox' = outbox \cup draft[p].events
    /\ audit' = audit \cup draft[p].audits
    /\ Release(p)
    /\ UNCHANGED <<wallets, call>>

\* Defect: events and audit entries are written outside the transaction.
RollbackKeepsRecords(p) ==
    /\ pc[p] # "idle"
    /\ outbox' = outbox \cup draft[p].events
    /\ audit' = audit \cup draft[p].audits
    /\ Release(p)
    /\ UNCHANGED <<wallets, head, ledger, call>>

\* An exception leaves the atomic block, or the connection is lost.
Rollback(p) ==
    /\ pc[p] # "idle"
    /\ Release(p)
    /\ UNCHANGED <<wallets, head, ledger, outbox, audit, call>>

-----------------------------------------------------------------------------
(* Errors *)

WaitsFor(p) ==
    CASE pc[p] = "lock"   -> {holder[call[p].wallet]} \ {NoProc, p}
      [] pc[p] = "insert" -> KeyRivals(p)
      [] OTHER            -> {}

\* p is on a cycle of the waits-for graph: PostgreSQL's deadlock detector
\* picks a member of the cycle and aborts its transaction.
Deadlocked(p) ==
    \E S \in SUBSET Procs :
        /\ p \in S
        /\ \A q \in S : WaitsFor(q) # {} /\ WaitsFor(q) \subseteq S
        /\ \A q \in S : \E o \in S : q \in WaitsFor(o)

\* WALLET_NOT_FOUND, WALLET_INSUFFICIENT_BALANCE, the IntegrityError of the
\* unique key, numeric overflow of the balance, deadlock.
MustFail(p) ==
    \/ pc[p] = "lock" /\ call[p].wallet \notin wallets
    \/ pc[p] = "check" /\ ~HasKey(Visible(p), call[p]) /\ After(p) < 0
    \/ pc[p] = "insert" /\ HasKey(Visible(p), call[p])
    \/ pc[p] = "insert" /\ After(p) > MaxMoney
    \/ Deadlocked(p)

Raise(p) == MustFail(p) /\ Rollback(p)

Next ==
    \/ \E u \in Users : CreateWallets(u)
    \/ \E p \in Procs :
          \/ Begin(p)
          \/ \E c \in Calls : Call(p, c)
          \/ LockWallet(p)
          \/ Replay(p)
          \/ Proceed(p)
          \/ Insert(p)
          \/ Commit(p)
          \/ Raise(p)
          \/ Rollback(p)

Spec == Init /\ [][Next]_vars

\* Each statement returns, an open block ends, and a lock is granted to a
\* waiter that keeps asking (PostgreSQL queues the waiters of a row).  Nothing
\* forces a caller to begin, to call or to crash.
Fairness ==
    \A p \in Procs :
        /\ WF_vars(Replay(p) \/ Proceed(p))
        /\ WF_vars(Raise(p))
        /\ SF_vars(Commit(p))
        /\ SF_vars(LockWallet(p))
        /\ SF_vars(Insert(p))

FairSpec == Spec /\ Fairness

-----------------------------------------------------------------------------
(* Properties *)

\* A set S of rows of one wallet is a sound history ending in h: the rows are
\* numbered 1..h.n without gap or repetition, each starts at the balance the
\* previous one left, the first one at zero, each moves the balance by exactly
\* its amount, and h.bal is what the last one left.
Sound(S, h) ==
    /\ \A r \in S : r.n \in 1..h.n
    /\ \A i \in 1..h.n : \E r \in S : r.n = i
    /\ \A r, s \in S : r.n = s.n => r = s
    /\ \A r, s \in S : s.n = r.n + 1 => s.before = r.after
    /\ \A r \in S : r.n = 1 => r.before = 0
    /\ \A r \in S : r.after \in {r.before + r.amount, r.before - r.amount}
    /\ \A r \in S : r.n = h.n => r.after = h.bal
    /\ h.n = 0 => h.bal = 0

\* Reconciliation (ADR-0004): at every moment the committed balance of every
\* wallet is the balance_after of its latest committed row, and the rows form an
\* unbroken chain from zero.  Two posts that both start from the same balance
\* (a lost update) would break the chain.
LedgerSound == \A w \in Wallets : Sound(RowsOf(ledger, w), head[w])

\* What a reader of a wallet relies on: an amount the column holds, at or above zero,
\* which the wallet's own rows explain (_post, whatever its callers' transactions do).
WalletSafe == TypeOK /\ LedgerSound

\* Idempotency (ADR-0004, invariant 2): a key is posted at most once per
\* currency, whichever wallets and transactions use it.
KeyPostedOnce ==
    \A r, s \in ledger :
        (r.key = s.key /\ Table(r.wallet) = Table(s.wallet)) => r = s

\* The outbox and the audit log say nothing that did not happen: an event or an
\* audit entry is visible only with the row it speaks of, and an adjustment is
\* never visible without its audit entry.
SideRecordsFollowRows ==
    /\ outbox \subseteq ledger
    /\ audit = {r \in ledger : r.type = "ADMIN_ADJUST"}

\* What makes the two invariants above inductive.  A transaction inserts only
\* into wallets it has locked, works on a locked wallet between the look-up and
\* the insert, and sees a sound history of every wallet it has locked: its own
\* version of the row continues its own rows after the committed ones.
TransactionsIsolated ==
    \A p \in Procs :
        /\ \A r \in draft[p].rows : holder[r.wallet] = p
        /\ draft[p].events \subseteq draft[p].rows
        /\ draft[p].audits = {r \in draft[p].rows : r.type = "ADMIN_ADJUST"}
        /\ pc[p] \in {"lock", "check", "insert"} => ValidCall(call[p])
        /\ pc[p] \in {"check", "insert"} => holder[call[p].wallet] = p
        /\ \A w \in Wallets :
              holder[w] = p => Sound(RowsOf(Visible(p), w), view[p][w])

\* The unique index holds between open transactions too: a row one of them has
\* inserted shares its key with no committed row and no other draft.
DraftKeysDistinct ==
    \A p, q \in Procs :
        \A r \in draft[p].rows, s \in ledger \cup draft[q].rows :
            (r.key = s.key /\ Table(r.wallet) = Table(s.wallet)) => r = s

IInv ==
    /\ TypeOK
    /\ LedgerSound
    /\ KeyPostedOnce
    /\ SideRecordsFollowRows
    /\ TransactionsIsolated
    /\ DraftKeysDistinct

\* A balance changes only together with new rows of that wallet, and rows never
\* disappear (economy.md, invariants 1 and 5).
AppendOnly ==
    [][/\ ledger \subseteq ledger'
       /\ \A w \in Wallets :
             head'[w] # head[w] => RowsOf(ledger', w) # RowsOf(ledger, w)]_vars

\* No call waits forever for a wallet lock or for a rival's key: locks are
\* released at the end of each transaction and a cycle of waiters is broken.
CallsReturn ==
    \A p \in Procs : pc[p] \in {"lock", "insert"} ~> pc[p] \in {"open", "idle"}
=============================================================================
