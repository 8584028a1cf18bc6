--------------------------- MODULE CreditRequests ---------------------------
(***************************************************************************)
(* The workflows of apps/economy that move one user's money: the redeem    *)
(* requests an admin decides on, the recharges a payment order settles,    *)
(* and the daily reward.                                                   *)
(*                                                                         *)
(* Posting is the one atomic step that LedgerPromise allows and            *)
(* WalletLedger implements: under a key not posted yet it moves the        *)
(* balance, under a key posted before it changes nothing.  Everything else *)
(* has the grain of the code: `approve`, `reject` and `complete` lock the  *)
(* request they decide on; the other workflows read in one statement and   *)
(* write, on what they read, in a later one.                               *)
(***************************************************************************)
EXTENDS Integers, Functions

CONSTANTS Redeems,      \* idempotency keys of redeem requests
          Recharges,    \* idempotency keys of recharges
          RedeemAmount, RechargeAmount,  \* what each is for
          Procs,        \* request threads and the dispatcher's handlers
          LastDay,      \* bound on the days that pass
          MaxCrashes    \* bound on the handlers that die half-way

ASSUME RequestsAssumption ==
    /\ RedeemAmount \in [Redeems -> Nat \ {0}]
    /\ RechargeAmount \in [Recharges -> Nat \ {0}]
    /\ LastDay \in Nat \ {0}
    /\ MaxCrashes \in Nat

VARIABLES mc,        \* balance of the credit wallet
          posted,    \* keys posted to either ledger: <<kind, id>>
          redeem,    \* status of each CreditRedeemRequest
          paidOut,   \* outside: the requests an admin has paid out and completed
          recharge,  \* status of each CreditRecharge
          order,     \* the payment order of each recharge, in apps/payments
          today,     \* the UTC date
          streak,    \* streak_days of the DailyRewardClaim of each day, 0: no claim
          pc, job, crashes

vars == <<mc, posted, redeem, paidOut, recharge, order, today, streak, pc, job, crashes>>

Days == 1..LastDay
Hold(r)   == <<"redeem_hold", r>>
Refund(r) == <<"redeem_refund", r>>
Fulfil(c) == <<"recharge_fulfill", c>>
Reward(d) == <<"daily-reward", d>>
PostingKeys == {Hold(r) : r \in Redeems} \cup {Refund(r) : r \in Redeems}
               \cup {Fulfil(c) : c \in Recharges} \cup {Reward(d) : d \in Days}

\* id: the request, recharge or day the handler works on; txid: it is to end
\* by attaching a txid; streak: what claim_daily_reward has computed.
Job(redeems, recharges, day, n, txid) ==
    [redeem |-> redeems, recharge |-> recharges, day |-> day, streak |-> n, txid |-> txid]
NoJob             == Job({}, {}, 0, 0, FALSE)
RedeemJob(r)      == Job({r}, {}, 0, 0, FALSE)
RechargeJob(c, t) == Job({}, {c}, 0, 0, t)
ClaimJob(d, n)    == Job({}, {}, d, n, FALSE)

Jobs == [redeem : SUBSET Redeems, recharge : SUBSET Recharges,
         day : 0..LastDay, streak : 0..LastDay, txid : BOOLEAN]
Places == {"idle", "hold", "insert", "order", "link", "txid", "fulfil", "claim"}

TypeOK ==
    /\ mc \in Nat
    /\ posted \subseteq PostingKeys
    /\ redeem \in [Redeems -> {"absent", "requested", "approved", "rejected", "completed"}]
    /\ paidOut \subseteq Redeems
    /\ recharge \in [Recharges -> {"absent", "created", "pending", "completed"}]
    /\ order \in [Recharges -> {"none", "unpaid", "paid"}]
    /\ today \in Days
    /\ streak \in [Days -> 0..LastDay]
    /\ pc \in [Procs -> Places]
    /\ job \in [Procs -> Jobs]
    /\ crashes \in 0..MaxCrashes

Init ==
    /\ mc = 0
    /\ posted = {}
    /\ redeem = [r \in Redeems |-> "absent"]
    /\ paidOut = {}
    /\ recharge = [c \in Recharges |-> "absent"]
    /\ order = [c \in Recharges |-> "none"]
    /\ today = 1
    /\ streak = [d \in Days |-> 0]
    /\ pc = [p \in Procs |-> "idle"]
    /\ job = [p \in Procs |-> NoJob]
    /\ crashes = 0

-----------------------------------------------------------------------------

\* credit and debit on the credit wallet.
Post(key, delta) ==
    IF key \in posted THEN UNCHANGED <<mc, posted>>
    ELSE /\ mc + delta >= 0
         /\ mc' = mc + delta
         /\ posted' = posted \cup {key}

Goto(p, where) == pc' = [pc EXCEPT ![p] = where]

Begin(p, where, j) ==
    /\ pc[p] = "idle"
    /\ Goto(p, where)
    /\ job' = [job EXCEPT ![p] = j]

Return(p) ==
    /\ Goto(p, "idle")
    /\ job' = [job EXCEPT ![p] = NoJob]

Work(p, r) == r \in job[p].redeem
Serves(p, c) == c \in job[p].recharge

-----------------------------------------------------------------------------
(* Redeem requests *)

\* request_credit_redeem: the key is looked up outside the transaction.
LookupRedeem(p, r) ==
    /\ redeem[r] = "absent"
    /\ Begin(p, "hold", RedeemJob(r))
    /\ UNCHANGED <<mc, posted, redeem, paidOut, recharge, order, today, streak, crashes>>

\* The request and the debit that reserves its amount commit together.
RequestRedeem(p, r) ==
    /\ pc[p] = "hold" /\ Work(p, r)
    /\ redeem[r] = "absent"
    /\ Post(Hold(r), -RedeemAmount[r])
    /\ redeem' = [redeem EXCEPT ![r] = "requested"]
    /\ Return(p)
    /\ UNCHANGED <<paidOut, recharge, order, today, streak, crashes>>

\* The unique key is taken since, or the balance does not suffice.
RequestFails(p, r) ==
    /\ pc[p] = "hold" /\ Work(p, r)
    /\ redeem[r] # "absent" \/ mc < RedeemAmount[r]
    /\ Return(p)
    /\ UNCHANGED <<mc, posted, redeem, paidOut, recharge, order, today, streak, crashes>>

Approve(r) ==
    /\ redeem[r] = "requested"
    /\ redeem' = [redeem EXCEPT ![r] = "approved"]
    /\ UNCHANGED <<mc, posted, paidOut, recharge, order, today, streak, pc, job, crashes>>

\* Defect: a completed request can still be rejected.
RejectCompleted(r) ==
    /\ redeem[r] \in {"requested", "approved", "completed"}
    /\ Post(Refund(r), RedeemAmount[r])
    /\ redeem' = [redeem EXCEPT ![r] = "rejected"]
    /\ UNCHANGED <<paidOut, recharge, order, today, streak, pc, job, crashes>>

Reject(r) ==
    /\ redeem[r] \in {"requested", "approved"}
    /\ Post(Refund(r), RedeemAmount[r])
    /\ redeem' = [redeem EXCEPT ![r] = "rejected"]
    /\ UNCHANGED <<paidOut, recharge, order, today, streak, pc, job, crashes>>

Complete(r) ==
    /\ redeem[r] = "approved"
    /\ redeem' = [redeem EXCEPT ![r] = "completed"]
    /\ paidOut' = paidOut \cup {r}
    /\ UNCHANGED <<mc, posted, recharge, order, today, streak, pc, job, crashes>>

-----------------------------------------------------------------------------
(* Recharges *)

\* create_credit_recharge: four statements, each in its own transaction.
LookupRecharge(p, c, txid) ==
    /\ recharge[c] = "absent"
    /\ txid => \A b \in Recharges : recharge[b] \notin {"created", "pending"}
    /\ Begin(p, "insert", RechargeJob(c, txid))
    /\ UNCHANGED <<mc, posted, redeem, paidOut, recharge, order, today, streak, crashes>>

InsertRecharge(p, c) ==
    /\ pc[p] = "insert" /\ Serves(p, c)
    /\ IF recharge[c] = "absent"
       THEN /\ recharge' = [recharge EXCEPT ![c] = "created"]
            /\ Goto(p, "order")
            /\ UNCHANGED job
       ELSE Return(p) /\ UNCHANGED recharge
    /\ UNCHANGED <<mc, posted, redeem, paidOut, order, today, streak, crashes>>

\* payments.create_order.
CreateOrder(p, c) ==
    /\ pc[p] = "order" /\ Serves(p, c)
    /\ order' = [order EXCEPT ![c] = IF @ = "none" THEN "unpaid" ELSE @]
    /\ Goto(p, "link")
    /\ UNCHANGED <<mc, posted, redeem, paidOut, recharge, today, streak, job, crashes>>

\* rc.payment_order_no is saved; submit_recharge_txid goes on to its txid.
LinkOrder(p) ==
    /\ pc[p] = "link"
    /\ IF job[p].txid THEN Goto(p, "txid") /\ UNCHANGED job ELSE Return(p)
    /\ UNCHANGED <<mc, posted, redeem, paidOut, recharge, order, today, streak, crashes>>

\* submit_recharge_txid finds an open recharge, or verify_recharge one that is
\* not completed: `rc` is a copy.
FetchRecharge(p, c) ==
    /\ recharge[c] \in {"created", "pending"}
    /\ Begin(p, "txid", RechargeJob(c, TRUE))
    /\ UNCHANGED <<mc, posted, redeem, paidOut, recharge, order, today, streak, crashes>>

\* Both save status "pending", whatever became of the row since.
SaveTxid(p, c) ==
    /\ pc[p] = "txid" /\ Serves(p, c)
    /\ recharge' = [recharge EXCEPT ![c] = "pending"]
    /\ Return(p)
    /\ UNCHANGED <<mc, posted, redeem, paidOut, order, today, streak, crashes>>

\* Outside: apps/payments marks the order paid and announces it.
PayOrder(c) ==
    /\ order[c] = "unpaid"
    /\ order' = [order EXCEPT ![c] = "paid"]
    /\ UNCHANGED <<mc, posted, redeem, paidOut, recharge, today, streak, pc, job, crashes>>

\* Defect: a recharge whose txid was submitted is left to verify_recharge.
FetchPaidCreated(p, c) ==
    /\ order[c] = "paid"
    /\ recharge[c] = "created"
    /\ Begin(p, "fulfil", RechargeJob(c, FALSE))
    /\ UNCHANGED <<mc, posted, redeem, paidOut, recharge, order, today, streak, crashes>>

\* fulfill_recharge, delivered at least once: it reads the recharge without a
\* lock, then posts and saves in the transaction of the dispatcher.
FetchPaid(p, c) ==
    /\ order[c] = "paid"
    /\ recharge[c] \notin {"absent", "completed"}
    /\ Begin(p, "fulfil", RechargeJob(c, FALSE))
    /\ UNCHANGED <<mc, posted, redeem, paidOut, recharge, order, today, streak, crashes>>

FulfilRecharge(p, c) ==
    /\ pc[p] = "fulfil" /\ Serves(p, c)
    /\ Post(Fulfil(c), RechargeAmount[c])
    /\ recharge' = [recharge EXCEPT ![c] = "completed"]
    /\ Return(p)
    /\ UNCHANGED <<redeem, paidOut, order, today, streak, crashes>>

-----------------------------------------------------------------------------
(* Daily reward *)

\* claim_daily_reward: the look-ups, before the wallet is locked.
CheckClaim(p) ==
    LET yesterday == IF today = 1 THEN 0 ELSE streak[today - 1] IN
    /\ streak[today] = 0
    /\ Begin(p, "claim", ClaimJob(today, yesterday + 1))
    /\ UNCHANGED <<mc, posted, redeem, paidOut, recharge, order, today, streak, crashes>>

\* Defect: the credit is keyed by the day it is posted on.
ClaimKeyedLate(p) ==
    LET d == job[p].day IN
    /\ pc[p] = "claim"
    /\ posted' = posted \cup {Reward(today)}
    /\ streak' = [streak EXCEPT ![d] = IF @ = 0 THEN job[p].streak ELSE @]
    /\ Return(p)
    /\ UNCHANGED <<mc, redeem, paidOut, recharge, order, today, crashes>>

\* The credit (to the point wallet) and the claim row.  If a claim of the day
\* was committed since, the credit replays and the row is refused.
Claim(p) ==
    LET d == job[p].day IN
    /\ pc[p] = "claim"
    /\ posted' = posted \cup {Reward(d)}
    /\ streak' = [streak EXCEPT ![d] = IF @ = 0 THEN job[p].streak ELSE @]
    /\ Return(p)
    /\ UNCHANGED <<mc, redeem, paidOut, recharge, order, today, crashes>>

Midnight ==
    /\ today < LastDay
    /\ today' = today + 1
    /\ UNCHANGED <<mc, posted, redeem, paidOut, recharge, order, streak, pc, job, crashes>>

\* The process dies between two statements.
Crash(p) ==
    /\ pc[p] # "idle"
    /\ crashes < MaxCrashes
    /\ crashes' = crashes + 1
    /\ Return(p)
    /\ UNCHANGED <<mc, posted, redeem, paidOut, recharge, order, today, streak>>

-----------------------------------------------------------------------------

Next ==
    \/ \E p \in Procs :
          \/ \E r \in Redeems :
                LookupRedeem(p, r) \/ RequestRedeem(p, r) \/ RequestFails(p, r)
          \/ \E c \in Recharges :
                \/ \E txid \in BOOLEAN : LookupRecharge(p, c, txid)
                \/ InsertRecharge(p, c) \/ CreateOrder(p, c)
                \/ FetchRecharge(p, c) \/ SaveTxid(p, c)
                \/ FetchPaid(p, c) \/ FulfilRecharge(p, c)
          \/ LinkOrder(p)
          \/ CheckClaim(p) \/ Claim(p)
          \/ Crash(p)
    \/ \E r \in Redeems : Approve(r) \/ Reject(r) \/ Complete(r)
    \/ \E c \in Recharges : PayOrder(c)
    \/ Midnight

Spec == Init /\ [][Next]_vars

Goes(p) ==
    \/ \E r \in Redeems : RequestRedeem(p, r) \/ RequestFails(p, r)
    \/ \E c \in Recharges : \/ InsertRecharge(p, c) \/ CreateOrder(p, c)
                            \/ SaveTxid(p, c) \/ FulfilRecharge(p, c)
    \/ LinkOrder(p) \/ Claim(p)

\* A handler that has begun goes on, and the outbox delivers OrderPaid until the
\* handler has run.
Fairness ==
    /\ \A p \in Procs : WF_vars(Goes(p))
    /\ \A c \in Recharges : SF_vars(\E p \in Procs : FetchPaid(p, c))

FairSpec == Spec /\ Fairness

-----------------------------------------------------------------------------
(* Properties *)

SumOf(amount, S) == SumFunctionOnSet(amount, S)

\* What was credited, and what is held for undecided requests or paid out.
Credited == {c \in Recharges : Fulfil(c) \in posted}
Debited  == {r \in Redeems : redeem[r] \in {"requested", "approved"} \/ r \in paidOut}

\* Redeeming neither makes nor loses money: the wallet holds what was recharged
\* less what was paid out and what is held for the requests still undecided,
\* whatever order the admins decide in.
FundsConserved ==
    mc = SumOf(RechargeAmount, Credited) - SumOf(RedeemAmount, Debited)

\* A recharge is credited only when its order is paid, and counts as completed
\* only when it is credited.
CreditFollowsPayment ==
    \A c \in Recharges :
        /\ Fulfil(c) \in posted => order[c] = "paid"
        /\ recharge[c] = "completed" => Fulfil(c) \in posted

\* One reward a day, on the ledger exactly when the claim is: a second claim,
\* concurrent or across midnight, leaves neither a posting nor a claim behind.
RewardIsClaim == \A d \in Days : streak[d] > 0 <=> Reward(d) \in posted

\* A streak never counts a day that was not claimed.
StreakNotInflated ==
    \A d \in Days : \A i \in 0..(streak[d] - 1) : d - i \in Days /\ streak[d - i] > 0

\* claim_daily_reward under concurrent claims and a crash between its statements.
RewardsSound == RewardIsClaim /\ StreakNotInflated

\* A recharge that exists has a payment order, or a handler that is about to
\* make it; only a crash between the statements leaves one without, and a retry
\* under the same key does not mend it.
OrderlessOnlyByCrash ==
    \A c \in Recharges :
        (recharge[c] # "absent" /\ order[c] = "none") =>
            (crashes > 0 \/ \E p \in Procs : Serves(p, c))

\* The user's Meow Credit through redeem requests and recharges, whoever interferes.
CreditSound ==
    TypeOK /\ FundsConserved /\ CreditFollowsPayment /\ OrderlessOnlyByCrash

\* FundsConserved one step at a time: the balance moves by the amount of the one
\* recharge or request that enters or leaves these sets, and not otherwise.
BalanceFollows ==
    \/ mc' = mc /\ Credited' = Credited /\ Debited' = Debited
    \/ \E c \in Recharges \ Credited :
         /\ mc' = mc + RechargeAmount[c]
         /\ Credited' = Credited \cup {c} /\ Debited' = Debited
    \/ \E r \in Redeems \ Debited :
         /\ mc' = mc - RedeemAmount[r]
         /\ Credited' = Credited /\ Debited' = Debited \cup {r}
    \/ \E r \in Debited :
         /\ mc' = mc + RedeemAmount[r]
         /\ Credited' = Credited /\ Debited' = Debited \ {r}

\* What a handler knows between its statements.
ClaimKnows(p) ==
    pc[p] = "claim" =>
        /\ job[p].day \in 1..today /\ job[p].streak \in 1..job[p].day
        /\ \A i \in 1..(job[p].streak - 1) : streak[job[p].day - i] > 0
RechargeKnows(p) ==
    /\ \A b, c \in Recharges : Serves(p, b) /\ Serves(p, c) => b = c
    /\ \A c \in Recharges : Serves(p, c) =>
         /\ pc[p] # "insert" => recharge[c] # "absent"
         /\ pc[p] = "fulfil" => order[c] = "paid"

\* What the ledger says of a redeem request.
KeysFollowStatus ==
    \A r \in Redeems :
        /\ Hold(r) \in posted <=> redeem[r] # "absent"
        /\ Refund(r) \in posted <=> redeem[r] = "rejected"
        /\ r \in paidOut <=> redeem[r] = "completed"

OrderIsComing ==
    \A c \in Recharges :
        recharge[c] # "absent" /\ order[c] = "none" =>
            crashes > 0 \/ \E p \in Procs : pc[p] = "order" /\ Serves(p, c)

\* The inductive invariant.
IInv == /\ TypeOK /\ CreditFollowsPayment /\ RewardsSound
        /\ KeysFollowStatus /\ OrderIsComing
        /\ \A p \in Procs : ClaimKnows(p) /\ RechargeKnows(p)

\* Money that was paid for a recharge arrives in the wallet, also when a txid is
\* submitted, a handler dies, or an event is delivered twice.
PaidIsCredited ==
    \A c \in Recharges : order[c] = "paid" ~> Fulfil(c) \in posted
=============================================================================
