------------------------- MODULE WalletLedger_proofs -------------------------
(***************************************************************************)
(* Proofs about WalletLedger: for any users, keys, calls and number of     *)
(* concurrent transactions, the ledger and the balances agree, no key is   *)
(* posted twice, and no side record speaks of a row that is not there.     *)
(*                                                                         *)
(* The argument: IInv adds to the three invariants that each transaction,  *)
(* as far as it holds locks, sees a sound history that only it can extend  *)
(* (TransactionsIsolated), and that uncommitted keys are already distinct  *)
(* (DraftKeysDistinct).  A commit then only makes visible what was sound.  *)
(*                                                                         *)
(* A sound history is a chain from zero, so that what its rows moved adds  *)
(* up to its last balance (HistoryAddsUp).  From this follow the promise   *)
(* to the other apps, LedgerPromise, and what the readers of WalletReads   *)
(* show: rows stay, so that what was read stays true (ReadWasTrue).        *)
(***************************************************************************)
EXTENDS WalletReads, WalletPromise, Sums

\* An empty wallet with balance zero is a sound history.
LEMMA SoundEmpty == Sound({}, ZeroHead)
  BY DEF Sound, ZeroHead

\* Posting one row on top of a sound history gives a sound history.
LEMMA SoundExtend ==
    ASSUME NEW S \in SUBSET Row, NEW h \in Head, NEW r \in Row, Sound(S, h),
           r.n = h.n + 1, r.before = h.bal,
           r.after \in {r.before + r.amount, r.before - r.amount}
    PROVE  Sound(S \cup {r}, [bal |-> r.after, n |-> r.n])
<1> DEFINE T == S \cup {r}
           g == [bal |-> r.after, n |-> r.n]
<1>0. h.n \in Nat /\ r.n \in Nat /\ g.n = h.n + 1 /\ g.bal = r.after
  BY DEF Head, Row
<1>0a. \A s \in S : s.n \in 1..h.n /\ s # r
  BY <1>0 DEF Sound
<1>1. \A s \in T : s.n \in 1..g.n
  BY <1>0, <1>0a
<1>2. \A i \in 1..g.n : \E s \in T : s.n = i
  <2> SUFFICES ASSUME NEW i \in 1..g.n PROVE \E s \in T : s.n = i
    OBVIOUS
  <2>1. CASE i = g.n
    BY <2>1, <1>0
  <2>2. CASE i # g.n
    <3>1. i \in 1..h.n
      BY <2>2, <1>0
    <3>2. PICK s \in S : s.n = i
      BY <3>1 DEF Sound
    <3> QED BY <3>2
  <2> QED BY <2>1, <2>2
<1>3. \A s, t \in T : s.n = t.n => s = t
  BY <1>0, <1>0a DEF Sound
<1>4. \A s, t \in T : t.n = s.n + 1 => t.before = s.after
  <2> SUFFICES ASSUME NEW s \in T, NEW t \in T, t.n = s.n + 1
               PROVE  t.before = s.after
    OBVIOUS
  <2>1. CASE s \in S /\ t \in S
    BY <2>1 DEF Sound
  <2>2. CASE s \in S /\ t = r
    <3>1. s.n = h.n
      BY <2>2, <1>0, <1>0a DEF Row
    <3> QED BY <3>1, <2>2 DEF Sound
  <2>3. CASE s = r
    BY <2>3, <1>0, <1>0a
  <2> QED BY <2>1, <2>2, <2>3
<1>5. \A s \in T : s.n = 1 => s.before = 0
  <2> SUFFICES ASSUME r.n = 1 PROVE r.before = 0
    BY DEF Sound
  <2>1. h.n = 0
    BY <1>0
  <2> QED BY <2>1 DEF Sound
<1>6. \A s \in T : s.after \in {s.before + s.amount, s.before - s.amount}
  BY DEF Sound
<1>7. \A s \in T : s.n = g.n => s.after = g.bal
  BY <1>0, <1>0a
<1>8. g.n # 0
  BY <1>0
<1> QED
  BY <1>1, <1>2, <1>3, <1>4, <1>5, <1>6, <1>7, <1>8 DEF Sound

\* The rows of a wallet in a union that adds nothing to that wallet.
LEMMA RowsOfUnion ==
    ASSUME NEW R, NEW D, NEW w, \A r \in D : r.wallet # w
    PROVE  RowsOf(R \cup D, w) = RowsOf(R, w)
  BY DEF RowsOf

-----------------------------------------------------------------------------

\* The empty database has the types.
LEMMA TypeInit == Init => TypeOK
  BY LedgerAssumption DEF Init, TypeOK, Head, ZeroHead, NoDraft

\* The row an insert adds is well formed.
LEMMA NewRowType ==
    ASSUME TypeOK, NEW p \in Procs, ValidCall(call[p]), After(p) \in 0..MaxMoney
    PROVE  /\ NewRow(p) \in Row
           /\ call[p].wallet \in Wallets
           /\ view[p][call[p].wallet] \in Head
           /\ NewRow(p).wallet = call[p].wallet
           /\ NewRow(p).n = view[p][call[p].wallet].n + 1
           /\ NewRow(p).before = view[p][call[p].wallet].bal
           /\ NewRow(p).after = After(p)
           /\ After(p) \in {NewRow(p).before + NewRow(p).amount,
                            NewRow(p).before - NewRow(p).amount}
           /\ [bal |-> NewRow(p).after, n |-> NewRow(p).n] \in Head
<1>1. call[p] \in CallSpace
  BY LedgerAssumption DEF TypeOK
<1>2. call[p].wallet \in Wallets /\ call[p].key \in Keys /\ call[p].type \in EntryTypes
      /\ call[p].amount \in Nat
  BY <1>1 DEF CallSpace, ValidCall
<1>3. view[p][call[p].wallet] \in Head
  BY <1>2 DEF TypeOK
<1>4. view[p][call[p].wallet].bal \in 0..MaxMoney /\ view[p][call[p].wallet].n \in Nat
  BY <1>3 DEF Head
<1>5. After(p) \in {view[p][call[p].wallet].bal + call[p].amount,
                   view[p][call[p].wallet].bal - call[p].amount}
  BY DEF After
<1>6. After(p) \in Nat
  BY LedgerAssumption
<1> QED
  BY <1>2, <1>3, <1>4, <1>5, <1>6, LedgerAssumption DEF NewRow, Row, Head

\* Every step keeps the types; isolation tells which wallets a holder may insert to.
LEMMA TypeStep == TypeOK /\ TransactionsIsolated /\ [Next]_vars => TypeOK'
<1> SUFFICES ASSUME TypeOK, TransactionsIsolated, [Next]_vars
             PROVE  TypeOK'
  OBVIOUS
<1>1. ASSUME NEW u \in Users, CreateWallets(u)
      PROVE  TypeOK'
  BY <1>1 DEF TypeOK, CreateWallets, Wallets, Currencies
<1>2. ASSUME NEW p \in Procs, Begin(p)
      PROVE  TypeOK'
  BY <1>2 DEF TypeOK, Begin
<1>3. ASSUME NEW p \in Procs, NEW c \in Calls, Call(p, c)
      PROVE  TypeOK'
  BY <1>3 DEF TypeOK, Call
<1>4. ASSUME NEW p \in Procs, LockWallet(p)
      PROVE  TypeOK'
  <2>1. call[p].wallet \in Wallets
    BY LedgerAssumption DEF TypeOK, CallSpace
  <2>2. holder' \in [Wallets -> Procs \cup {NoProc}]
    BY <1>4 DEF TypeOK, LockWallet
  <2>3. view' \in [Procs -> [Wallets -> Head]]
    BY <1>4, <2>1 DEF TypeOK, LockWallet
  <2> QED BY <1>4, <2>2, <2>3 DEF TypeOK, LockWallet
<1>5. ASSUME NEW p \in Procs, Replay(p)
      PROVE  TypeOK'
  BY <1>5 DEF TypeOK, Replay
<1>6. ASSUME NEW p \in Procs, Proceed(p)
      PROVE  TypeOK'
  BY <1>6 DEF TypeOK, Proceed
<1>7. ASSUME NEW p \in Procs, Insert(p)
      PROVE  TypeOK'
  <2> DEFINE r == NewRow(p)
  <2>1. r \in Row /\ call[p].wallet \in Wallets /\ [bal |-> r.after, n |-> r.n] \in Head
    BY <1>7, NewRowType DEF TransactionsIsolated, Insert
  <2>2. view' \in [Procs -> [Wallets -> Head]]
    BY <1>7, <2>1 DEF TypeOK, Insert
  <2>3. draft' \in [Procs -> [rows : SUBSET Row, events : SUBSET Row, audits : SUBSET Row]]
    BY <1>7, <2>1 DEF TypeOK, Insert
  <2> QED BY <1>7, <2>2, <2>3 DEF TypeOK, Insert
<1>8. ASSUME NEW p \in Procs, Release(p)
      PROVE  /\ holder' \in [Wallets -> Procs \cup {NoProc}]
             /\ pc' \in [Procs -> {"idle", "open", "lock", "check", "insert"}]
             /\ view' \in [Procs -> [Wallets -> Head]]
             /\ draft' \in [Procs -> [rows : SUBSET Row, events : SUBSET Row,
                                     audits : SUBSET Row]]
  BY <1>8, LedgerAssumption DEF TypeOK, Release, Head, ZeroHead, NoDraft
<1>9. ASSUME NEW p \in Procs, Commit(p)
      PROVE  TypeOK'
  BY <1>9, <1>8 DEF TypeOK, Commit
<1>10. ASSUME NEW p \in Procs, Rollback(p)
       PROVE  TypeOK'
  BY <1>10, <1>8 DEF TypeOK, Rollback
<1>11. CASE UNCHANGED vars
  BY <1>11 DEF TypeOK, vars
<1> QED
  BY <1>1, <1>2, <1>3, <1>4, <1>5, <1>6, <1>7, <1>9, <1>10, <1>11 DEF Next, Raise

-----------------------------------------------------------------------------
(* The steps that neither lock, insert nor end a transaction *)

\* A step that changes neither the database, nor a draft, nor a view keeps IInv's
\* parts other than the types.
LEMMA QuietStep ==
    ASSUME IInv, UNCHANGED <<head, ledger, outbox, audit, holder, view, draft>>,
           \A p \in Procs : pc'[p] \in {"lock", "check", "insert"} => ValidCall(call'[p]),
           \A p \in Procs : pc'[p] \in {"check", "insert"} => holder[call'[p].wallet] = p
    PROVE  /\ LedgerSound' /\ KeyPostedOnce' /\ SideRecordsFollowRows'
           /\ TransactionsIsolated' /\ DraftKeysDistinct'
<1>1. LedgerSound' /\ KeyPostedOnce' /\ SideRecordsFollowRows' /\ DraftKeysDistinct'
  BY DEF IInv, LedgerSound, KeyPostedOnce, SideRecordsFollowRows, DraftKeysDistinct
<1>2. TransactionsIsolated'
  BY DEF IInv, TransactionsIsolated, Visible
<1> QED BY <1>1, <1>2

-----------------------------------------------------------------------------
(* Locking a wallet: the transaction has no rows there yet, and the version *)
(* it reads is the committed one.                                           *)

\* LockWallet gives its caller the committed version of a wallet nobody else holds.
LEMMA LockStep ==
    ASSUME IInv, NEW p \in Procs, LockWallet(p)
    PROVE  /\ LedgerSound' /\ KeyPostedOnce' /\ SideRecordsFollowRows'
           /\ TransactionsIsolated' /\ DraftKeysDistinct'
<1> DEFINE w0 == call[p].wallet
<1> USE DEF IInv
<1>0. UNCHANGED <<head, ledger, outbox, audit, draft, call>> /\ w0 \in Wallets
  BY LedgerAssumption DEF LockWallet, TypeOK, CallSpace
<1>1. LedgerSound' /\ KeyPostedOnce' /\ SideRecordsFollowRows' /\ DraftKeysDistinct'
  BY <1>0 DEF LedgerSound, KeyPostedOnce, SideRecordsFollowRows, DraftKeysDistinct
<1>2. /\ \A w \in Wallets \ {w0} : holder'[w] = holder[w]
      /\ holder'[w0] = p
      /\ holder[w0] \in {NoProc, p}
  BY <1>0 DEF LockWallet, TypeOK
<1>3. \A q \in Procs, w \in Wallets : holder[w] = q => holder'[w] = q
  BY <1>2, LedgerAssumption
<1>4. \A q \in Procs : \A r \in draft[q].rows : r.wallet \in Wallets
  BY DEF TypeOK, Row
<1>5. ASSUME NEW q \in Procs, NEW w \in Wallets, holder'[w] = q
      PROVE  Sound(RowsOf(Visible(q), w), view'[q][w])
  <2>1. CASE holder[w] = q
    <3>1. view'[q][w] = view[q][w]
      BY <2>1, <1>0, LedgerAssumption DEF LockWallet, TypeOK
    <3> QED BY <3>1, <2>1 DEF TransactionsIsolated
  <2>2. CASE holder[w] # q
    <3>1. w = w0 /\ q = p /\ holder[w0] = NoProc
      BY <2>2, <1>5, <1>2
    <3>2. view'[p][w0] = head[w0]
      BY <3>1, <1>0, LedgerAssumption DEF LockWallet, TypeOK
    <3>3. \A r \in draft[p].rows : r.wallet # w0
      BY <3>1, LedgerAssumption DEF TransactionsIsolated
    <3>4. RowsOf(Visible(p), w0) = RowsOf(ledger, w0)
      BY <3>3, RowsOfUnion DEF Visible
    <3> QED BY <3>1, <3>2, <3>4, <1>0 DEF LedgerSound
  <2> QED BY <2>1, <2>2
<1>6. TransactionsIsolated'
  <2> SUFFICES ASSUME NEW q \in Procs
               PROVE  /\ \A r \in draft'[q].rows : holder'[r.wallet] = q
                      /\ draft'[q].events \subseteq draft'[q].rows
                      /\ draft'[q].audits = {r \in draft'[q].rows : r.type = "ADMIN_ADJUST"}
                      /\ pc'[q] \in {"lock", "check", "insert"} => ValidCall(call'[q])
                      /\ pc'[q] \in {"check", "insert"} => holder'[call'[q].wallet] = q
                      /\ \A w \in Wallets :
                            holder'[w] = q => Sound(RowsOf(Visible(q), w)', view'[q][w])
    BY DEF TransactionsIsolated
  <2>1. \A r \in draft'[q].rows : holder'[r.wallet] = q
    BY <1>0, <1>3, <1>4 DEF TransactionsIsolated
  <2>2. draft'[q].events \subseteq draft'[q].rows
        /\ draft'[q].audits = {r \in draft'[q].rows : r.type = "ADMIN_ADJUST"}
    BY <1>0 DEF TransactionsIsolated
  <2>3. pc'[q] \in {"lock", "check", "insert"} => ValidCall(call'[q])
    BY <1>0 DEF TransactionsIsolated, LockWallet, TypeOK
  <2>4. pc'[q] \in {"check", "insert"} => holder'[call'[q].wallet] = q
    <3>1. call[q].wallet \in Wallets
      BY LedgerAssumption DEF TypeOK, CallSpace
    <3>2. CASE q = p
      BY <3>2, <1>0, <1>2
    <3>3. CASE q # p
      BY <3>1, <3>3, <1>0, <1>3 DEF TransactionsIsolated, LockWallet, TypeOK
    <3> QED BY <3>2, <3>3
  <2>5. \A w \in Wallets : RowsOf(Visible(q), w)' = RowsOf(Visible(q), w)
    BY <1>0 DEF RowsOf, Visible
  <2> QED BY <2>1, <2>2, <2>3, <2>4, <2>5, <1>5
<1> QED BY <1>1, <1>6

-----------------------------------------------------------------------------
(* Inserting a row: the holder's history of the wallet grows by one row;    *)
(* its key is neither committed nor in any draft.                           *)

\* A new row extends a sound history, under a key that is nowhere else.
LEMMA InsertStep ==
    ASSUME IInv, NEW p \in Procs, Insert(p)
    PROVE  /\ LedgerSound' /\ KeyPostedOnce' /\ SideRecordsFollowRows'
           /\ TransactionsIsolated' /\ DraftKeysDistinct'
<1> DEFINE w0 == call[p].wallet
           r0 == NewRow(p)
<1> USE DEF IInv
<1>0. UNCHANGED <<head, ledger, outbox, audit, holder, call>>
  BY DEF Insert
<1>1. LedgerSound' /\ KeyPostedOnce' /\ SideRecordsFollowRows'
  BY <1>0 DEF LedgerSound, KeyPostedOnce, SideRecordsFollowRows
<1>2. /\ r0 \in Row /\ w0 \in Wallets /\ view[p][w0] \in Head
      /\ r0.wallet = w0 /\ r0.n = view[p][w0].n + 1 /\ r0.before = view[p][w0].bal
      /\ r0.after \in {r0.before + r0.amount, r0.before - r0.amount}
  BY NewRowType DEF Insert, TransactionsIsolated
<1>3. holder[w0] = p
  BY DEF Insert, TransactionsIsolated
<1>4. /\ draft'[p].rows = draft[p].rows \cup {r0}
      /\ draft'[p].events \in {draft[p].events, draft[p].events \cup {r0}}
      /\ draft'[p].audits = draft[p].audits
                               \cup (IF r0.type = "ADMIN_ADJUST" THEN {r0} ELSE {})
      /\ \A q \in Procs \ {p} : draft'[q] = draft[q]
  BY DEF Insert, TypeOK
<1>5. /\ view'[p][w0] = [bal |-> r0.after, n |-> r0.n]
      /\ \A w \in Wallets \ {w0} : view'[p][w] = view[p][w]
      /\ \A q \in Procs \ {p} : view'[q] = view[q]
  BY <1>2 DEF Insert, TypeOK
<1>6. ASSUME NEW q \in Procs, NEW w \in Wallets, holder[w] = q
      PROVE  Sound(RowsOf(ledger \cup draft'[q].rows, w), view'[q][w])
  <2>0. Sound(RowsOf(Visible(q), w), view[q][w])
    BY <1>6 DEF TransactionsIsolated
  <2>1. CASE q = p /\ w = w0
    <3>1. RowsOf(ledger \cup draft'[p].rows, w0) = RowsOf(Visible(p), w0) \cup {r0}
      BY <1>2, <1>4 DEF RowsOf, Visible
    <3>2. RowsOf(Visible(p), w0) \in SUBSET Row
      BY DEF RowsOf, Visible, TypeOK
    <3> HIDE DEF IInv, r0, w0
    <3> QED BY <3>1, <3>2, <2>0, <2>1, <1>2, <1>5, SoundExtend
  <2>2. CASE q = p /\ w # w0
    <3>1. RowsOf(ledger \cup draft'[p].rows, w) = RowsOf(Visible(p), w)
      BY <2>2, <1>2, <1>4 DEF RowsOf, Visible
    <3> QED BY <3>1, <2>0, <2>2, <1>5
  <2>3. CASE q # p
    BY <2>3, <2>0, <1>4, <1>5 DEF Visible
  <2> QED BY <2>1, <2>2, <2>3
<1>7. TransactionsIsolated'
  <2> SUFFICES ASSUME NEW q \in Procs
               PROVE  /\ \A r \in draft'[q].rows : holder'[r.wallet] = q
                      /\ draft'[q].events \subseteq draft'[q].rows
                      /\ draft'[q].audits = {r \in draft'[q].rows : r.type = "ADMIN_ADJUST"}
                      /\ pc'[q] \in {"lock", "check", "insert"} => ValidCall(call'[q])
                      /\ pc'[q] \in {"check", "insert"} => holder'[call'[q].wallet] = q
                      /\ \A w \in Wallets :
                            holder'[w] = q => Sound(RowsOf(Visible(q), w)', view'[q][w])
    BY DEF TransactionsIsolated
  <2>1. \A r \in draft'[q].rows : holder'[r.wallet] = q
    BY <1>0, <1>2, <1>3, <1>4 DEF TransactionsIsolated
  <2>2. draft'[q].events \subseteq draft'[q].rows
    BY <1>4 DEF TransactionsIsolated
  <2>3. draft'[q].audits = {r \in draft'[q].rows : r.type = "ADMIN_ADJUST"}
    <3>1. CASE q = p
      BY <3>1, <1>4 DEF TransactionsIsolated
    <3>2. CASE q # p
      BY <3>2, <1>4 DEF TransactionsIsolated
    <3> QED BY <3>1, <3>2
  <2>4. pc'[q] \in {"lock", "check", "insert"} => ValidCall(call'[q])
    BY <1>0 DEF TransactionsIsolated, Insert, TypeOK
  <2>5. pc'[q] \in {"check", "insert"} => holder'[call'[q].wallet] = q
    BY <1>0 DEF TransactionsIsolated, Insert, TypeOK
  <2>6. \A w \in Wallets : RowsOf(Visible(q), w)' = RowsOf(ledger \cup draft'[q].rows, w)
    BY <1>0 DEF RowsOf, Visible
  <2> QED BY <2>1, <2>2, <2>3, <2>4, <2>5, <2>6, <1>0, <1>6
<1>8. DraftKeysDistinct'
  <2>1. /\ \A s \in ledger \cup draft[p].rows :
             ~(s.key = r0.key /\ Table(s.wallet) = Table(r0.wallet))
        /\ \A q \in Procs \ {p} : \A s \in draft[q].rows :
             ~(s.key = r0.key /\ Table(s.wallet) = Table(r0.wallet))
    BY DEF Insert, HasKey, KeyRivals, NewRow, Visible
  <2> SUFFICES ASSUME NEW q \in Procs, NEW o \in Procs,
                      NEW r \in draft'[q].rows, NEW s \in ledger \cup draft'[o].rows,
                      r.key = s.key, Table(r.wallet) = Table(s.wallet)
               PROVE  r = s
    BY <1>0 DEF DraftKeysDistinct
  <2>2. r \in draft[q].rows \/ r = r0
    BY <1>4
  <2>3. s \in ledger \cup draft[o].rows \/ s = r0
    BY <1>4
  <2>4. \A q1 \in Procs : \A t \in ledger \cup draft[q1].rows :
             ~(t.key = r0.key /\ Table(t.wallet) = Table(r0.wallet))
    BY <2>1
  <2>5. CASE r = r0
    BY <2>5, <2>3, <2>4
  <2>6. CASE r \in draft[q].rows /\ s = r0
    BY <2>6, <2>4
  <2>7. CASE r \in draft[q].rows /\ s \in ledger \cup draft[o].rows
    BY <2>7 DEF DraftKeysDistinct
  <2> QED BY <2>2, <2>3, <2>5, <2>6, <2>7
<1> QED BY <1>1, <1>7, <1>8

-----------------------------------------------------------------------------
(* The end of a transaction *)

\* What releasing its locks and dropping its versions leaves of the others.
LEMMA ReleaseFacts ==
    ASSUME TypeOK, NEW p \in Procs, Release(p)
    PROVE  /\ draft'[p] = NoDraft
           /\ \A q \in Procs \ {p} : draft'[q] = draft[q] /\ view'[q] = view[q]
           /\ \A w \in Wallets : holder'[w] # p
           /\ \A w \in Wallets, q \in Procs :
                 holder'[w] = q => holder[w] = q /\ q # p
           /\ \A w \in Wallets, q \in Procs \ {p} :
                 holder[w] = q => holder'[w] = q
           /\ pc'[p] = "idle"
           /\ \A q \in Procs \ {p} : pc'[q] = pc[q]
  BY LedgerAssumption DEF Release, TypeOK

\* A rollback leaves the committed ledger and the other drafts as they were.
LEMMA RollbackStep ==
    ASSUME IInv, NEW p \in Procs, Rollback(p)
    PROVE  /\ LedgerSound' /\ KeyPostedOnce' /\ SideRecordsFollowRows'
           /\ TransactionsIsolated' /\ DraftKeysDistinct'
<1> USE DEF IInv
<1>0. UNCHANGED <<head, ledger, outbox, audit, call>> /\ Release(p)
  BY DEF Rollback
<1>1. LedgerSound' /\ KeyPostedOnce' /\ SideRecordsFollowRows'
  BY <1>0 DEF LedgerSound, KeyPostedOnce, SideRecordsFollowRows
<1>2. ASSUME NEW q \in Procs
      PROVE  /\ \A r \in draft'[q].rows : holder'[r.wallet] = q
             /\ draft'[q].events \subseteq draft'[q].rows
             /\ draft'[q].audits = {r \in draft'[q].rows : r.type = "ADMIN_ADJUST"}
             /\ pc'[q] \in {"lock", "check", "insert"} => ValidCall(call'[q])
             /\ pc'[q] \in {"check", "insert"} => holder'[call'[q].wallet] = q
             /\ \A w \in Wallets :
                   holder'[w] = q => Sound(RowsOf(Visible(q), w)', view'[q][w])
  <2>1. CASE q = p
    BY <2>1, <1>0, ReleaseFacts DEF NoDraft
  <2>2. CASE q # p
    <3>1. draft'[q] = draft[q] /\ view'[q] = view[q] /\ pc'[q] = pc[q]
      BY <2>2, <1>0, ReleaseFacts
    <3>2. \A r \in draft[q].rows : r.wallet \in Wallets
      BY DEF TypeOK, Row
    <3>3. call[q].wallet \in Wallets
      BY LedgerAssumption DEF TypeOK, CallSpace
    <3>4. \A w \in Wallets : RowsOf(Visible(q), w)' = RowsOf(Visible(q), w)
      BY <3>1, <1>0 DEF RowsOf, Visible
    <3>5. \A w \in Wallets : holder[w] = q <=> holder'[w] = q
      BY <2>2, <1>0, ReleaseFacts
    <3> QED BY <3>1, <3>2, <3>3, <3>4, <3>5, <1>0 DEF TransactionsIsolated
  <2> QED BY <2>1, <2>2
<1>3. TransactionsIsolated'
  BY <1>2 DEF TransactionsIsolated
<1>4. DraftKeysDistinct'
  <2>1. \A q \in Procs : draft'[q].rows \subseteq draft[q].rows
    BY <1>0, ReleaseFacts DEF NoDraft
  <2> QED BY <2>1, <1>0 DEF DraftKeysDistinct
<1> QED BY <1>1, <1>3, <1>4

\* A commit installs, for the wallets it holds, the history it already saw.
LEMMA CommitStep ==
    ASSUME IInv, NEW p \in Procs, Commit(p)
    PROVE  /\ LedgerSound' /\ KeyPostedOnce' /\ SideRecordsFollowRows'
           /\ TransactionsIsolated' /\ DraftKeysDistinct'
<1> USE DEF IInv
<1>0. /\ ledger' = ledger \cup draft[p].rows
      /\ outbox' = outbox \cup draft[p].events
      /\ audit' = audit \cup draft[p].audits
      /\ \A w \in Wallets : head'[w] = IF holder[w] = p THEN view[p][w] ELSE head[w]
      /\ call' = call
      /\ Release(p)
  BY DEF Commit
<1>1. LedgerSound'
  <2> SUFFICES ASSUME NEW w \in Wallets PROVE Sound(RowsOf(ledger', w), head'[w])
    BY DEF LedgerSound
  <2>1. CASE holder[w] = p
    BY <2>1, <1>0 DEF TransactionsIsolated, Visible
  <2>2. CASE holder[w] # p
    <3>1. \A r \in draft[p].rows : r.wallet # w
      BY <2>2 DEF TransactionsIsolated
    <3>2. RowsOf(ledger', w) = RowsOf(ledger, w)
      BY <3>1, <1>0, RowsOfUnion
    <3> QED BY <3>2, <2>2, <1>0 DEF LedgerSound
  <2> QED BY <2>1, <2>2
<1>2. KeyPostedOnce'
  BY <1>0 DEF KeyPostedOnce, DraftKeysDistinct
<1>3. SideRecordsFollowRows'
  BY <1>0 DEF SideRecordsFollowRows, TransactionsIsolated
<1>4. ASSUME NEW q \in Procs
      PROVE  /\ \A r \in draft'[q].rows : holder'[r.wallet] = q
             /\ draft'[q].events \subseteq draft'[q].rows
             /\ draft'[q].audits = {r \in draft'[q].rows : r.type = "ADMIN_ADJUST"}
             /\ pc'[q] \in {"lock", "check", "insert"} => ValidCall(call'[q])
             /\ pc'[q] \in {"check", "insert"} => holder'[call'[q].wallet] = q
             /\ \A w \in Wallets :
                   holder'[w] = q => Sound(RowsOf(ledger' \cup draft'[q].rows, w), view'[q][w])
  <2>1. CASE q = p
    BY <2>1, <1>0, ReleaseFacts DEF NoDraft
  <2>2. CASE q # p
    <3>1. draft'[q] = draft[q] /\ view'[q] = view[q] /\ pc'[q] = pc[q]
      BY <2>2, <1>0, ReleaseFacts
    <3>2. \A r \in draft[q].rows : r.wallet \in Wallets
      BY DEF TypeOK, Row
    <3>3. call[q].wallet \in Wallets
      BY LedgerAssumption DEF TypeOK, CallSpace
    <3>4. \A w \in Wallets : holder[w] = q <=> holder'[w] = q
      BY <2>2, <1>0, ReleaseFacts
    <3>5. ASSUME NEW w \in Wallets, holder[w] = q
          PROVE  RowsOf(ledger' \cup draft'[q].rows, w) = RowsOf(Visible(q), w)
      <4>1. \A r \in draft[p].rows : r.wallet # w
        BY <3>5, <2>2 DEF TransactionsIsolated
      <4>2. ledger' \cup draft'[q].rows = Visible(q) \cup draft[p].rows
        BY <1>0, <3>1 DEF Visible
      <4>3. RowsOf(Visible(q) \cup draft[p].rows, w) = RowsOf(Visible(q), w)
        BY <4>1, RowsOfUnion
      <4> QED BY <4>2, <4>3
    <3>6. \A w \in Wallets : holder'[w] = q =>
             Sound(RowsOf(ledger' \cup draft'[q].rows, w), view'[q][w])
      BY <3>1, <3>4, <3>5 DEF TransactionsIsolated
    <3>7. \A r \in draft'[q].rows : holder'[r.wallet] = q
      BY <3>1, <3>2, <3>4 DEF TransactionsIsolated
    <3>8. draft'[q].events \subseteq draft'[q].rows
          /\ draft'[q].audits = {r \in draft'[q].rows : r.type = "ADMIN_ADJUST"}
      BY <3>1 DEF TransactionsIsolated
    <3>9. /\ pc'[q] \in {"lock", "check", "insert"} => ValidCall(call'[q])
          /\ pc'[q] \in {"check", "insert"} => holder'[call'[q].wallet] = q
      BY <3>1, <3>3, <3>4, <1>0 DEF TransactionsIsolated
    <3> QED BY <3>6, <3>7, <3>8, <3>9
  <2> QED BY <2>1, <2>2
<1>5. TransactionsIsolated'
  <2> SUFFICES ASSUME NEW q \in Procs
               PROVE  /\ \A r \in draft'[q].rows : holder'[r.wallet] = q
                      /\ draft'[q].events \subseteq draft'[q].rows
                      /\ draft'[q].audits = {r \in draft'[q].rows : r.type = "ADMIN_ADJUST"}
                      /\ pc'[q] \in {"lock", "check", "insert"} => ValidCall(call'[q])
                      /\ pc'[q] \in {"check", "insert"} => holder'[call'[q].wallet] = q
                      /\ \A w \in Wallets :
                            holder'[w] = q => Sound(RowsOf(Visible(q), w)', view'[q][w])
    BY DEF TransactionsIsolated
  <2>1. \A w \in Wallets :
           RowsOf(Visible(q), w)' = RowsOf(ledger' \cup draft'[q].rows, w)
    BY DEF RowsOf, Visible
  <2> QED BY <2>1, <1>4
<1>6. DraftKeysDistinct'
  <2>1. \A q \in Procs : draft'[q].rows \subseteq draft[q].rows
    BY <1>0, ReleaseFacts DEF NoDraft
  <2> QED BY <2>1, <1>0 DEF DraftKeysDistinct
<1> QED BY <1>1, <1>2, <1>3, <1>5, <1>6

-----------------------------------------------------------------------------
(* The theorems *)

\* IInv holds of the empty database.
LEMMA InvInit == Init => IInv
<1> SUFFICES ASSUME Init PROVE IInv
  OBVIOUS
<1>1. TypeOK
  BY TypeInit
<1>2. \A w \in Wallets : RowsOf({}, w) = {}
  BY DEF RowsOf
<1>3. LedgerSound
  BY <1>2, SoundEmpty DEF Init, LedgerSound
<1>4. KeyPostedOnce /\ SideRecordsFollowRows
  BY DEF Init, KeyPostedOnce, SideRecordsFollowRows
<1>5. TransactionsIsolated /\ DraftKeysDistinct
  BY LedgerAssumption DEF Init, TransactionsIsolated, DraftKeysDistinct, NoDraft
<1> QED BY <1>1, <1>3, <1>4, <1>5 DEF IInv

\* Every step keeps IInv: one case per action.
LEMMA InvStep == IInv /\ [Next]_vars => IInv'
<1> SUFFICES ASSUME IInv, [Next]_vars PROVE IInv'
  OBVIOUS
<1> DEFINE Rest == /\ LedgerSound' /\ KeyPostedOnce' /\ SideRecordsFollowRows'
                   /\ TransactionsIsolated' /\ DraftKeysDistinct'
<1>0. TypeOK'
  BY TypeStep DEF IInv
<1>1. \A p \in Procs :
         /\ pc[p] \in {"lock", "check", "insert"} => ValidCall(call[p])
         /\ pc[p] \in {"check", "insert"} => holder[call[p].wallet] = p
  BY DEF IInv, TransactionsIsolated
<1>2. ASSUME NEW u \in Users, CreateWallets(u) PROVE Rest
  BY <1>1, <1>2, QuietStep DEF CreateWallets
<1>3. ASSUME NEW p \in Procs, Begin(p) PROVE Rest
  BY <1>1, <1>3, QuietStep DEF Begin, IInv, TypeOK
<1>4. ASSUME NEW p \in Procs, NEW c \in Calls, Call(p, c) PROVE Rest
  BY <1>1, <1>4, QuietStep DEF Call, IInv, TypeOK
<1>5. ASSUME NEW p \in Procs, LockWallet(p) PROVE Rest
  BY <1>5, LockStep
<1>6. ASSUME NEW p \in Procs, Replay(p) PROVE Rest
  BY <1>1, <1>6, QuietStep DEF Replay, IInv, TypeOK
<1>7. ASSUME NEW p \in Procs, Proceed(p) PROVE Rest
  BY <1>1, <1>7, QuietStep DEF Proceed, IInv, TypeOK
<1>8. ASSUME NEW p \in Procs, Insert(p) PROVE Rest
  BY <1>8, InsertStep
<1>9. ASSUME NEW p \in Procs, Commit(p) PROVE Rest
  BY <1>9, CommitStep
<1>10. ASSUME NEW p \in Procs, Rollback(p) PROVE Rest
  BY <1>10, RollbackStep
<1>11. ASSUME UNCHANGED vars PROVE Rest
  BY <1>1, <1>11, QuietStep DEF vars
<1>12. Rest
  BY <1>2, <1>3, <1>4, <1>5, <1>6, <1>7, <1>8, <1>9, <1>10, <1>11 DEF Next, Raise
<1> QED BY <1>0, <1>12 DEF IInv

\* The inductive invariant holds in every reachable state.
THEOREM Inductive == Spec => []IInv
<1>1. Init => IInv
  BY InvInit
<1>2. IInv /\ [Next]_vars => IInv'
  BY InvStep
<1> QED BY <1>1, <1>2, PTL DEF Spec

\* Type correctness, with 0 <= balance <= MaxMoney for every wallet row,
\* committed or in a transaction's own version.
THEOREM TypeCorrect == Spec => []TypeOK
<1>1. IInv => TypeOK
  BY DEF IInv
<1> QED BY <1>1, Inductive, PTL

\* ADR-0004: every wallet reconciles with its ledger at every moment, for any
\* number of concurrent transactions; there is no lost update.
THEOREM Reconciles == Spec => []LedgerSound
<1>1. IInv => LedgerSound
  BY DEF IInv
<1> QED BY <1>1, Inductive, PTL

\* What the apps that post may rely on (_post): both of them at once.
THEOREM WalletsAreSafe == Spec => []WalletSafe
<1> QED BY TypeCorrect, Reconciles, PTL DEF WalletSafe

\* ADR-0004, invariant 2: an idempotency key moves money at most once.
THEOREM Idempotent == Spec => []KeyPostedOnce
<1>1. IInv => KeyPostedOnce
  BY DEF IInv
<1> QED BY <1>1, Inductive, PTL

\* Events and audit entries are committed with the row they speak of.
THEOREM SideRecordsAtomic == Spec => []SideRecordsFollowRows
<1>1. IInv => SideRecordsFollowRows
  BY DEF IInv
<1> QED BY <1>1, Inductive, PTL

\* economy.md, invariants 1 and 5: rows stay for ever and a committed balance
\* changes only with new rows of its wallet.
THEOREM LedgerAppendOnly == Spec => AppendOnly
<1> DEFINE Step == /\ ledger \subseteq ledger'
                   /\ \A w \in Wallets :
                        head'[w] # head[w] => RowsOf(ledger', w) # RowsOf(ledger, w)
<1>1. ASSUME IInv, IInv', [Next]_vars PROVE [Step]_vars
  <2>1. \A p \in Procs : Commit(p) => Step
    <3> SUFFICES ASSUME NEW p \in Procs, Commit(p) PROVE Step
      OBVIOUS
    <3>1. ledger \subseteq ledger'
      BY DEF Commit
    <3>2. ASSUME NEW w \in Wallets, RowsOf(ledger', w) = RowsOf(ledger, w)
          PROVE  head'[w] = head[w]
      <4>1. Sound(RowsOf(ledger, w), head[w]) /\ Sound(RowsOf(ledger, w), head'[w])
        BY <1>1, <3>2 DEF IInv, LedgerSound
      <4>2. head[w] \in Head /\ head'[w] \in Head
        BY <1>1 DEF IInv, TypeOK
      <4>3. head[w].n = head'[w].n
        <5>1. head[w].n \in Nat /\ head'[w].n \in Nat
          BY <4>2 DEF Head
        <5>2. CASE head[w].n < head'[w].n
          <6>1. head'[w].n \in 1..head'[w].n
            BY <5>1, <5>2
          <6>2. PICK r \in RowsOf(ledger, w) : r.n = head'[w].n
            BY <6>1, <4>1 DEF Sound
          <6>3. r.n \in 1..head[w].n
            BY <4>1 DEF Sound
          <6> QED BY <6>2, <6>3, <5>1, <5>2
        <5>3. CASE head'[w].n < head[w].n
          <6>1. head[w].n \in 1..head[w].n
            BY <5>1, <5>3
          <6>2. PICK r \in RowsOf(ledger, w) : r.n = head[w].n
            BY <6>1, <4>1 DEF Sound
          <6>3. r.n \in 1..head'[w].n
            BY <4>1 DEF Sound
          <6> QED BY <6>2, <6>3, <5>1, <5>3
        <5> QED BY <5>1, <5>2, <5>3
      <4>4. head[w].bal = head'[w].bal
        <5>1. CASE head[w].n = 0
          BY <5>1, <4>1, <4>3 DEF Sound
        <5>2. CASE head[w].n # 0
          <6>1. head[w].n \in 1..head[w].n
            BY <5>2, <4>2 DEF Head
          <6>2. PICK r \in RowsOf(ledger, w) : r.n = head[w].n
            BY <6>1, <4>1 DEF Sound
          <6>3. r.after = head[w].bal
            BY <6>2, <4>1 DEF Sound
          <6>4. r.after = head'[w].bal
            BY <6>2, <4>1, <4>3 DEF Sound
          <6> QED BY <6>3, <6>4
        <5> QED BY <5>1, <5>2
      <4> QED BY <4>2, <4>3, <4>4 DEF Head
    <3> QED BY <3>1, <3>2
  <2>2. (\A p \in Procs : ~Commit(p)) => UNCHANGED <<head, ledger>>
    BY <1>1 DEF Next, vars, CreateWallets, Begin, Call, LockWallet, Replay, Proceed,
                Insert, Raise, Rollback
  <2>3. UNCHANGED <<head, ledger>> => Step
    BY DEF RowsOf
  <2> QED BY <2>1, <2>2, <2>3
<1>2. IInv /\ IInv' /\ [Next]_vars => [Step]_vars
  BY <1>1
<1> QED BY <1>2, Inductive, PTL DEF Spec, AppendOnly

-----------------------------------------------------------------------------
(* What the rows add up to *)

\* What the rows of a sound history moved is its last balance.  g names each row and f
\* says of each name what the row moved.
LEMMA HistoryAddsUp ==
    ASSUME NEW S \in SUBSET Row, NEW h \in Head, Sound(S, h), NEW g, NEW f,
           \A r, s \in S : g[r] = g[s] => r = s,
           \A r \in S : f[g[r]] = r.after - r.before
    PROVE  /\ IsFiniteSet({g[r] : r \in S})
           /\ SumFunctionOnSet(f, {g[r] : r \in S}) = h.bal
<1> DEFINE upto(k) == {g[r] : r \in {s \in S : s.n <= k}}
           sum(k) == SumFunctionOnSet(f, upto(k))
           Good(k) == /\ IsFiniteSet(upto(k))
                      /\ k = 0 => sum(k) = 0
                      /\ \A r \in S : r.n = k => sum(k) = r.after
           T == {k \in Nat : k <= h.n => Good(k)}
<1>0. /\ h.n \in Nat /\ h.bal \in Int
      /\ \A r \in S : r.n \in Nat /\ r.n >= 1 /\ r.n <= h.n /\ r.after \in Int /\ r.before \in Int
  <2>1. h.n \in Nat /\ h.bal \in Int
    BY LedgerAssumption DEF Head
  <2>2. \A r \in S : r.n \in Nat /\ r.after \in Int /\ r.before \in Int
    BY DEF Row
  <2>3. \A r \in S : r.n \in 1..h.n
    BY DEF Sound
  <2> QED BY <2>1, <2>2, <2>3
<1>1. 0 \in T
  <2>1. upto(0) = {}
    <3>1. \A s \in S : ~ (s.n <= 0)
      BY <1>0
    <3> QED BY ONLY <3>1
  <2>2. \A r \in S : r.n # 0
    BY <1>0
  <2> HIDE DEF upto
  <2> QED BY <2>1, <2>2, SumEmpty, FS_EmptySet
<1>2. ASSUME NEW k \in Nat, k \in T PROVE k + 1 \in T
  <2> HIDE DEF Good
  <2> SUFFICES ASSUME k + 1 <= h.n PROVE Good(k + 1)
    OBVIOUS
  <2> USE DEF Good
  <2>1. Good(k)
    BY <1>0, <1>2
  <2>2. PICK r \in S : r.n = k + 1
    <3>1. k + 1 \in 1..h.n
      BY <1>0
    <3> QED BY <3>1 DEF Sound
  <2>3. upto(k + 1) = upto(k) \cup {g[r]}
    <3>1. \A s \in S : s.n <= k + 1 <=> s.n <= k \/ s = r
      BY <1>0, <2>2 DEF Sound
    <3> QED BY <3>1
  <2>4. g[r] \notin upto(k)
    <3>1. \A s \in S : s.n <= k => s # r
      BY <1>0, <2>2
    <3> QED BY <3>1
  <2>5. \A x \in upto(k) \cup {g[r]} : f[x] \in Int
    BY <1>0
  <2>6. sum(k) = r.before
    <3>1. CASE k = 0
      BY <2>1, <2>2, <3>1 DEF Sound
    <3>2. CASE k # 0
      <4>1. k \in 1..h.n
        BY <1>0, <3>2
      <4>2. PICK q \in S : q.n = k
        BY <4>1 DEF Sound
      <4>3. r.before = q.after
        BY <2>2, <4>2 DEF Sound
      <4> QED BY <2>1, <4>2, <4>3
    <3> QED BY <3>1, <3>2
  <2>7. f[g[r]] = r.after - r.before /\ r.after \in Int /\ r.before \in Int
    BY <1>0
  <2>8. \A s \in S : s.n = k + 1 => s = r
    BY <2>2 DEF Sound
  <2>9. IsFiniteSet(upto(k))
    BY <2>1
  <2> HIDE DEF upto
  <2>10. sum(k + 1) = sum(k) + f[g[r]]
    <3>1. SumFunctionOnSet(f, upto(k) \cup {g[r]}) = sum(k) + f[g[r]]
      BY ONLY <2>4, <2>5, <2>9, SumAdd
    <3> QED BY <2>3, <3>1
  <2>11. IsFiniteSet(upto(k + 1))
    BY <2>3, <2>9, FS_AddElement
  <2> HIDE DEF sum
  <2> QED BY <2>6, <2>7, <2>8, <2>10, <2>11
<1>3. h.n \in T
  <2> HIDE DEF T
  <2> QED BY <1>0, <1>1, <1>2, AllNumbers
<1>4. upto(h.n) = {g[r] : r \in S}
  BY <1>0
<1>a. Good(h.n)
  <2>1. h.n <= h.n
    BY <1>0
  <2> HIDE DEF Good
  <2> QED BY <1>3, <2>1
<1>5. sum(h.n) = h.bal
  <2>0. Good(h.n)
    BY <1>a
  <2>1. CASE h.n = 0
    BY <2>0, <2>1 DEF Sound
  <2>2. CASE h.n # 0
    <3>1. h.n \in 1..h.n
      BY <1>0, <2>2
    <3>2. PICK r \in S : r.n = h.n
      BY <3>1 DEF Sound
    <3>3. r.after = h.bal
      BY <3>2 DEF Sound
    <3> QED BY <2>0, <3>2, <3>3
  <2> QED BY <2>1, <2>2
<1>6. IsFiniteSet(upto(h.n))
  BY <1>a
<1> HIDE DEF upto
<1> QED BY <1>4, <1>5, <1>6

-----------------------------------------------------------------------------
(* The refinement of LedgerPromise *)

\* The posting a ledger row is.
Posting(r) == [wallet |-> r.wallet, key |-> r.key, delta |-> r.after - r.before]

\* The postings of a sound ledger add up to the balances.
LEMMA PostingsAddUp ==
    ASSUME NEW L \in SUBSET Row, NEW H \in [Wallets -> Head],
           \A w \in Wallets : Sound(RowsOf(L, w), H[w]),
           \A r, s \in L : (r.key = s.key /\ Table(r.wallet) = Table(s.wallet)) => r = s,
           NEW w \in Wallets
    PROVE  H[w].bal = Promise!Total({Posting(r) : r \in L}, w) /\ H[w].bal >= 0
<1> DEFINE S == RowsOf(L, w)
           P == {Posting(r) : r \in L}
           g == [r \in S |-> Posting(r)]
           f == [e \in P |-> e.delta]
<1>1. S \in SUBSET Row /\ S \subseteq L /\ \A r \in S : r.wallet = w
  BY DEF RowsOf
<1>2. \A r, s \in S : g[r] = g[s] => r = s
  BY <1>1 DEF Posting
<1>3. \A r \in S : f[g[r]] = r.after - r.before
  BY <1>1 DEF Posting
<1>4. {e \in P : e.wallet = w} = {g[r] : r \in S}
  <2>1. \A r \in L : Posting(r).wallet = r.wallet
    BY DEF Posting
  <2>2. \A r \in S : g[r] = Posting(r)
    OBVIOUS
  <2>3. \A r \in L : r.wallet = w <=> r \in S
    BY DEF RowsOf
  <2> HIDE DEF S, g
  <2> QED BY <1>1, <2>1, <2>2, <2>3
<1>5. H[w] \in Head /\ H[w].bal >= 0
  BY LedgerAssumption DEF Head
<1>6. Sound(S, H[w])
  OBVIOUS
<1>7. Promise!Total(P, w) = SumFunctionOnSet(f, {e \in P : e.wallet = w})
  BY Zenon DEF Promise!Total, Promise!SumFunctionOnSet, Promise!FoldFunctionOnSet,
               Promise!MapThenFoldSet, SumFunctionOnSet, FoldFunctionOnSet, MapThenFoldSet
<1> HIDE DEF S, P, g, f
<1>8. SumFunctionOnSet(f, {g[r] : r \in S}) = H[w].bal
  BY ONLY <1>1, <1>2, <1>3, <1>5, <1>6, HistoryAddsUp
<1> QED BY <1>4, <1>5, <1>7, <1>8 DEF P

\* Every step of the ledger is a step of the promise, or changes nothing it speaks of.
LEMMA StepPosts ==
    ASSUME IInv, IInv', [Next]_vars
    PROVE  [Promise!Post]_<<[w \in Wallets |-> head[w].bal],
                           {[wallet |-> r.wallet, key |-> r.key,
                             delta |-> r.after - r.before] : r \in ledger}>>
<1> DEFINE B == [w \in Wallets |-> head[w].bal]
           P == {Posting(r) : r \in ledger}
<1>0. P = {[wallet |-> r.wallet, key |-> r.key, delta |-> r.after - r.before] : r \in ledger}
  BY DEF Posting
<1>1. CASE UNCHANGED <<head, ledger>>
  BY <1>1
<1>2. CASE \E p \in Procs : Commit(p)
  <2>1. ledger \subseteq ledger'
    BY <1>2 DEF Commit
  <2>2. \A w \in Wallets : head'[w].bal = Promise!Total({Posting(r) : r \in ledger'}, w)
                           /\ head'[w].bal >= 0
    <3>1. /\ ledger' \in SUBSET Row /\ head' \in [Wallets -> Head]
          /\ \A w \in Wallets : Sound(RowsOf(ledger', w), head'[w])
          /\ \A r, s \in ledger' : (r.key = s.key /\ Table(r.wallet) = Table(s.wallet)) => r = s
      BY DEF IInv, TypeOK, LedgerSound, KeyPostedOnce
    <3> QED BY <3>1, PostingsAddUp
  <2>3. \A d, e \in {Posting(r) : r \in ledger'} :
           (d.key = e.key /\ Table(d.wallet) = Table(e.wallet)) => d = e
    BY DEF IInv, KeyPostedOnce, Posting
  <2>4. Promise!Post
    <3>1. {[wallet |-> r.wallet, key |-> r.key, delta |-> r.after - r.before] : r \in ledger'}
            = {Posting(r) : r \in ledger'}
      BY DEF Posting
    <3>2. {[wallet |-> r.wallet, key |-> r.key, delta |-> r.after - r.before] : r \in ledger}
            \subseteq {Posting(r) : r \in ledger'}
      BY <2>1 DEF Posting
    <3>3. \A w \in Wallets : [v \in Wallets |-> head'[v].bal][w] = head'[w].bal
      OBVIOUS
    <3> QED BY <2>2, <2>3, <3>1, <3>2, <3>3 DEF Promise!Post
  <2> QED BY <2>4
<1> QED
  BY <1>1, <1>2 DEF Next, vars, CreateWallets, Begin, Call, LockWallet, Replay, Proceed,
                    Insert, Raise, Rollback

\* No wallet has a balance before there are postings.
LEMMA InitPromises == Init => Promise!Init
BY DEF Init, Promise!Init, ZeroHead

\* WalletLedger implements LedgerPromise: row locks, drafts, commits and rollbacks show
\* the other apps of this platform only postings under fresh keys, and balances that are
\* the sum of all postings and never negative.
THEOREM ImplementsPromise == Spec => PromiseKept
<1>1. IInv /\ IInv' /\ [Next]_vars =>
        [Promise!Post]_<<[w \in Wallets |-> head[w].bal],
                        {[wallet |-> r.wallet, key |-> r.key,
                          delta |-> r.after - r.before] : r \in ledger}>>
  BY StepPosts
<1> QED BY <1>1, InitPromises, Inductive, PTL DEF Spec, PromiseKept, Promise!Spec

-----------------------------------------------------------------------------
(* The readers *)

\* The buckets of a sound history add up to the balance.
LEMMA TotalsAddUp ==
    ASSUME ledger \in SUBSET Row, NEW w \in Wallets, head[w] \in Head,
           Sound(RowsOf(ledger, w), head[w])
    PROVE  head[w].bal = SumFunctionOnSet(
             [b \in TotalKeys(w) |->
                 IF b \in Outgoing THEN -(WalletTotals(w)[b]) ELSE WalletTotals(w)[b]],
             TotalKeys(w))
<1> DEFINE S == RowsOf(ledger, w)
           C == TotalKeys(w)
           f == [r \in ledger |-> r.after - r.before]
           g == [r \in S |-> r]
           c == [r \in S |-> Bucket(w, r.type)]
           rows(b) == {r \in S : c[r] = b}
           moved == [b \in C |-> SumFunctionOnSet(f, rows(b))]
           shown == [b \in C |-> IF b \in Outgoing THEN -(WalletTotals(w)[b])
                                                   ELSE WalletTotals(w)[b]]
<1>1. S \in SUBSET Row /\ \A r \in S : f[r] \in Int /\ f[r] = r.after - r.before /\ g[r] = r
  BY DEF RowsOf, Row
<1>2. C \in {{"earned", "spent", "purchased", "bonus"}, {"recharged", "spent", "redeemed", "adjusted"}}
      /\ \A r \in S : c[r] \in C
  BY DEF Bucket, TotalKeys
<1>3. IsFiniteSet(C)
  <2>1. ASSUME NEW x, NEW y, NEW z, NEW t PROVE IsFiniteSet({x, y, z, t})
    <3>1. IsFiniteSet({x}) /\ IsFiniteSet({y}) /\ IsFiniteSet({z}) /\ IsFiniteSet({t})
      BY FS_Singleton
    <3>2. IsFiniteSet({x} \cup {y}) /\ IsFiniteSet({z} \cup {t})
      BY <3>1, FS_Union
    <3>3. IsFiniteSet(({x} \cup {y}) \cup ({z} \cup {t}))
      BY <3>2, FS_Union
    <3>4. ({x} \cup {y}) \cup ({z} \cup {t}) = {x, y, z, t}
      OBVIOUS
    <3> QED BY <3>3, <3>4
  <2>2. /\ IsFiniteSet({"earned", "spent", "purchased", "bonus"})
        /\ IsFiniteSet({"recharged", "spent", "redeemed", "adjusted"})
    BY <2>1
  <2> HIDE DEF C
  <2>3. CASE C = {"earned", "spent", "purchased", "bonus"}
    BY <2>2, <2>3
  <2>4. CASE C = {"recharged", "spent", "redeemed", "adjusted"}
    BY <2>2, <2>4
  <2> QED BY <1>2, <2>3, <2>4
<1>4. IsFiniteSet(S) /\ SumFunctionOnSet(f, S) = head[w].bal
  <2>1. {g[r] : r \in S} = S
    OBVIOUS
  <2>2. Sound(S, head[w]) /\ (\A r, s \in S : g[r] = g[s] => r = s)
        /\ (\A r \in S : f[g[r]] = r.after - r.before)
    BY <1>1
  <2> HIDE DEF S, f, g
  <2>3. IsFiniteSet({g[r] : r \in S}) /\ SumFunctionOnSet(f, {g[r] : r \in S}) = head[w].bal
    BY ONLY <1>1, <2>2, HistoryAddsUp, head[w] \in Head
  <2> QED BY <2>1, <2>3
<1>5. \A b \in C : moved[b] \in Int
  <2>1. ASSUME NEW b \in C PROVE SumFunctionOnSet(f, rows(b)) \in Int
    <3>1. IsFiniteSet(rows(b)) /\ \A r \in rows(b) : f[r] \in Int
      BY <1>1, <1>4, FS_Subset
    <3> HIDE DEF rows, f
    <3> QED BY ONLY <3>1, SumRemove
  <2> QED BY <2>1
<1>6. \A b \in C : shown[b] = moved[b]
  <2>1. ASSUME NEW b \in C PROVE shown[b] = moved[b]
    <3>1. {r \in RowsOf(ledger, w) : Bucket(w, r.type) = b} = rows(b)
      OBVIOUS
    <3>2. WalletTotals(w)[b] = IF b \in Outgoing THEN -(moved[b]) ELSE moved[b]
      BY <3>1 DEF WalletTotals
    <3>3. shown[b] = IF b \in Outgoing THEN -(WalletTotals(w)[b]) ELSE WalletTotals(w)[b]
      OBVIOUS
    <3>4. moved[b] \in Int
      BY <1>5
    <3> HIDE DEF moved, shown
    <3> QED BY <3>2, <3>3, <3>4
  <2> QED BY <2>1
<1>7. SumFunctionOnSet(moved, C) = SumFunctionOnSet(f, S)
  <2> HIDE DEF S, C, f, c
  <2> QED BY ONLY <1>1, <1>2, <1>3, <1>4, SumByClass
<1>8. SumFunctionOnSet(shown, C) = SumFunctionOnSet(moved, C)
  <2> HIDE DEF shown, moved, C
  <2> QED BY ONLY <1>3, <1>5, <1>6, SumSame
<1> HIDE DEF f, moved
<1>9. SumFunctionOnSet(shown, C) = head[w].bal
  BY <1>4, <1>7, <1>8
<1> QED BY <1>9

\* What reconcile has read of the wallet is zero or what a committed row left.
ReadWasTrue ==
    rec # NoRead =>
        \/ rec.bal = 0
        \/ \E s \in RowsOf(ledger, rec.wallet) : s.after = rec.bal

\* What reconcile relies on, with the invariant of the writers.
RInv == IInv /\ RTypeOK /\ ReadWasTrue /\ AlarmsReportHistory

\* Nothing was read and no alarm raised.
LEMMA ReadersInit == RInit => RInv
BY InvInit DEF RInit, RInv, RTypeOK, ReadWasTrue, AlarmsReportHistory

\* What the second statement of reconcile finds.
LEMMA LatestRow ==
    ASSUME IInv, NEW w \in Wallets
    PROVE  \/ RowsOf(ledger, w) = {} /\ LedgerBalance(w) = 0 /\ head[w].bal = 0
           \/ \E r \in RowsOf(ledger, w) :
                 /\ \A s \in RowsOf(ledger, w) : s.n <= r.n
                 /\ LedgerBalance(w) = r.after /\ head[w].bal = r.after
<1> DEFINE S == RowsOf(ledger, w)
           max(r) == \A s \in S : s.n <= r.n
<1>1. Sound(S, head[w]) /\ head[w] \in Head /\ S \subseteq Row
  BY DEF IInv, LedgerSound, TypeOK, RowsOf
<1>2. head[w].n \in Nat /\ \A r \in S : r.n \in 1..head[w].n
  BY <1>1 DEF Head, Sound
<1>3. CASE S = {}
  <2>1. head[w].n = 0
    <3>1. head[w].n # 0 => head[w].n \in 1..head[w].n
      BY <1>2
    <3> QED BY <1>1, <1>3, <3>1 DEF Sound
  <2> QED BY <1>1, <1>3, <2>1 DEF Sound, LedgerBalance
<1>4. CASE S # {}
  <2>1. head[w].n \in 1..head[w].n
    BY <1>2, <1>4
  <2>2. PICK r \in S : r.n = head[w].n
    BY <1>1, <2>1 DEF Sound
  <2>3. r.after = head[w].bal
    BY <1>1, <2>2 DEF Sound
  <2>4. max(r)
    BY <1>2, <2>2
  <2>5. \A q \in S : max(q) => q = r
    <3> TAKE q \in S
    <3> HAVE max(q)
    <3>1. q.n <= r.n /\ r.n <= q.n /\ q.n \in Nat /\ r.n \in Nat
      BY <1>2, <2>4
    <3>2. q.n = r.n
      BY <3>1
    <3> QED BY <1>1, <3>2 DEF Sound
  <2>6. (CHOOSE q \in S : max(q)) = r
    BY <2>4, <2>5
  <2>7. LedgerBalance(w) = r.after
    BY <1>4, <2>6 DEF LedgerBalance
  <2> QED BY <2>3, <2>4, <2>7
<1> QED BY <1>3, <1>4

\* Rows stay, so what was read stays true; and what is found later is later.
LEMMA ReadersStep == RInv /\ [RNext]_rvars => RInv'
<1> SUFFICES ASSUME RInv, [RNext]_rvars PROVE RInv'
  OBVIOUS
<1>0. IInv /\ RTypeOK /\ ReadWasTrue /\ AlarmsReportHistory
  BY DEF RInv
<1>1. IInv'
  BY <1>0, InvStep DEF RNext, ReadWallet, ReadLedger, rvars, vars
<1>2. CASE [Next]_vars /\ UNCHANGED <<rec, alarms>>
  <2>1. ledger \subseteq ledger'
    BY <1>2 DEF Next, vars, CreateWallets, Begin, Call, LockWallet, Replay, Proceed,
                Insert, Commit, Raise, Rollback
  <2>2. \A w : RowsOf(ledger, w) \subseteq RowsOf(ledger', w)
    BY <2>1 DEF RowsOf
  <2>3. RTypeOK'
    BY <1>0, <1>2 DEF RTypeOK
  <2>4. ReadWasTrue'
    BY <1>0, <1>2, <2>2 DEF ReadWasTrue
  <2>5. AlarmsReportHistory'
    <3> SUFFICES ASSUME NEW a \in alarms
                 PROVE  \E r \in RowsOf(ledger', a.wallet) :
                          /\ r.after = a.ledger_balance
                          /\ \/ a.wallet_balance = 0
                             \/ \E s \in RowsOf(ledger', a.wallet) :
                                   s.n < r.n /\ s.after = a.wallet_balance
      BY <1>2 DEF AlarmsReportHistory
    <3> QED BY <1>0, <2>2 DEF AlarmsReportHistory
  <2> QED BY <1>1, <2>3, <2>4, <2>5 DEF RInv
<1>3. ASSUME NEW w \in Wallets, ReadWallet(w) PROVE RInv'
  <2>1. rec' = [wallet |-> w, bal |-> head[w].bal] /\ UNCHANGED <<vars, alarms>>
    BY <1>3 DEF ReadWallet
  <2>2. head[w].bal \in 0..MaxMoney
    BY <1>0 DEF IInv, TypeOK, Head
  <2>3. RTypeOK'
    BY <1>0, <2>1, <2>2 DEF RTypeOK
  <2>4. rec'.bal = 0 \/ \E s \in RowsOf(ledger, w) : s.after = rec'.bal
    BY <1>0, <2>1, LatestRow
  <2>5. ReadWasTrue' /\ AlarmsReportHistory'
    BY <1>0, <2>1, <2>4 DEF ReadWasTrue, AlarmsReportHistory, vars
  <2> QED BY <1>1, <2>3, <2>5 DEF RInv
<1>4. ASSUME ReadLedger PROVE RInv'
  <2> DEFINE w == rec.wallet
             found == LedgerBalance(w)
             a == [wallet |-> w, wallet_balance |-> rec.bal, ledger_balance |-> found]
  <2>1. /\ rec # NoRead /\ rec' = NoRead /\ UNCHANGED vars
        /\ alarms' = IF found = rec.bal THEN alarms ELSE alarms \cup {a}
    BY <1>4 DEF ReadLedger
  <2>2. w \in Wallets /\ rec.bal \in 0..MaxMoney
    BY <1>0, <2>1 DEF RTypeOK
  <2>3. rec.bal = 0 \/ \E s \in RowsOf(ledger, w) : s.after = rec.bal
    BY <1>0, <2>1 DEF ReadWasTrue
  <2>4. \A r, s \in RowsOf(ledger, w) : r.n = s.n => r = s
    BY <1>0, <2>2 DEF IInv, LedgerSound, Sound
  <2>5. \A r \in RowsOf(ledger, w) : r.n \in Nat /\ r.after \in Nat
    BY <1>0 DEF IInv, TypeOK, RowsOf, Row
  <2>6. found \in Nat
    BY <1>0, <2>2, <2>5, LatestRow
  <2>7. found # rec.bal => \E r \in RowsOf(ledger, w) :
                              /\ r.after = found
                              /\ \/ rec.bal = 0
                                 \/ \E s \in RowsOf(ledger, w) : s.n < r.n /\ s.after = rec.bal
    <3> HAVE found # rec.bal
    <3>1. RowsOf(ledger, w) # {}
      BY <1>0, <2>2, <2>3, LatestRow
    <3>2. PICK r \in RowsOf(ledger, w) :
             (\A s \in RowsOf(ledger, w) : s.n <= r.n) /\ found = r.after
      BY <1>0, <2>2, <3>1, LatestRow
    <3>3. ASSUME NEW s \in RowsOf(ledger, w), s.after = rec.bal PROVE s.n < r.n
      <4>1. s.n <= r.n /\ s.n \in Nat /\ r.n \in Nat
        BY <2>5, <3>2
      <4>2. s.n # r.n
        BY <2>4, <3>2, <3>3
      <4> QED BY <4>1, <4>2
    <3> QED BY <2>3, <3>2, <3>3
  <2>8. a.wallet = w /\ a.wallet_balance = rec.bal /\ a.ledger_balance = found
    OBVIOUS
  <2>9. a \in Alarm
    BY <2>2, <2>6 DEF Alarm
  <2> HIDE DEF a, found
  <2>10. RTypeOK'
    BY <1>0, <2>1, <2>9 DEF RTypeOK
  <2>11. AlarmsReportHistory'
    <3>1. ledger' = ledger
      BY <2>1 DEF vars
    <3>2. ASSUME NEW b \in alarms'
          PROVE  \E r \in RowsOf(ledger, b.wallet) :
                          /\ r.after = b.ledger_balance
                          /\ \/ b.wallet_balance = 0
                             \/ \E s \in RowsOf(ledger, b.wallet) :
                                   s.n < r.n /\ s.after = b.wallet_balance
      <4>1. CASE b \in alarms
        BY <1>0, <4>1 DEF AlarmsReportHistory
      <4>2. CASE b = a /\ found # rec.bal
        BY <2>7, <2>8, <4>2
      <4> QED BY <2>1, <4>1, <4>2
    <3> QED BY <3>1, <3>2 DEF AlarmsReportHistory
  <2>12. ReadWasTrue'
    BY <2>1 DEF ReadWasTrue
  <2> QED BY <1>1, <2>10, <2>11, <2>12 DEF RInv
<1> QED BY <1>2, <1>3, <1>4 DEF RNext, rvars

\* The invariant of the readers holds with any writers beside them.
THEOREM ReadersSound == RSpec => []RInv
BY ReadersInit, ReadersStep, PTL DEF RSpec

\* The totals of a wallet (_wallet_totals) account for its balance, whatever was posted.
THEOREM TotalsExplain == RSpec => []TotalsExplainBalance
<1>1. RInv => TotalsExplainBalance
  <2> SUFFICES ASSUME RInv PROVE TotalsExplainBalance
    OBVIOUS
  <2>1. RTypeOK /\ IInv
    BY DEF RInv
  <2>2. ASSUME NEW w \in Wallets
        PROVE  head[w].bal = SumFunctionOnSet(
             [b \in TotalKeys(w) |->
                 IF b \in Outgoing THEN -(WalletTotals(w)[b]) ELSE WalletTotals(w)[b]],
             TotalKeys(w))
    BY <2>1, TotalsAddUp DEF IInv, TypeOK, LedgerSound
  <2> QED BY <2>1, <2>2 DEF TotalsExplainBalance
<1> QED BY <1>1, ReadersSound, PTL

\* An alarm of reconcile tells a balance the wallet had and one it had later, although
\* the two are read in statements of their own and without a lock.
THEOREM AlarmsTrue == RSpec => []AlarmsReportHistory
<1>1. RInv => AlarmsReportHistory
  BY DEF RInv
<1> QED BY <1>1, ReadersSound, PTL
=============================================================================
