---------------------------- MODULE Site_proofs ----------------------------
(***************************************************************************)
(* Proofs about three components that share nothing: the credit requests    *)
(* (CreditRequests), the site's configuration and its notifications         *)
(* (Platform), and how people take part (Engagement).  Each for any         *)
(* requests, users, threads, messages, days and bounds.                     *)
(*                                                                         *)
(* Credit requests: the daily reward is claimed and posted together and a   *)
(* streak counts only claimed days; a recharge is credited only when its    *)
(* order is paid; the balance moves by the amount of the one request or     *)
(* recharge that a step settles, and what came in, is held, was paid out    *)
(* and is left adds up.  What a thread read stays true while it waits       *)
(* (OthersKnow), because claims, payments and postings are never taken      *)
(* back; and the keys of the ledger follow the status of the request        *)
(* (KeysFollowStatus).                                                      *)
(*                                                                         *)
(* Configuration: PlatformInv says what a thread on its way still knows -   *)
(* the row it read, the fields it is about to announce - and what the queue *)
(* of the notification service must hold for what was answered.             *)
(*                                                                         *)
(* Engagement: EngagementInv counts, for each counter, the rows against the *)
(* requests between a row and its counter.  Moves says that a step moves    *)
(* one request, the lemmas named ...Frame what it leaves alone, and one     *)
(* lemma named ...Keeps for each action the rest.                           *)
(***************************************************************************)
EXTENDS CreditRequests, Platform, Engagement, Sums

-----------------------------------------------------------------------------
(* CREDIT REQUESTS *)

-----------------------------------------------------------------------------
(* Keys and jobs *)

LEMMA KeysDiffer ==
    /\ \A q, r : /\ Hold(q) = Hold(r) <=> q = r
                 /\ Refund(q) = Refund(r) <=> q = r
                 /\ Fulfil(q) = Fulfil(r) <=> q = r
                 /\ Reward(q) = Reward(r) <=> q = r
                 /\ Hold(q) # Refund(r) /\ Hold(q) # Fulfil(r) /\ Hold(q) # Reward(r)
                 /\ Refund(q) # Fulfil(r) /\ Refund(q) # Reward(r) /\ Fulfil(q) # Reward(r)
BY DEF Hold, Refund, Fulfil, Reward

LEMMA KeysTyped ==
    /\ \A r \in Redeems : Hold(r) \in PostingKeys /\ Refund(r) \in PostingKeys
    /\ \A c \in Recharges : Fulfil(c) \in PostingKeys
    /\ \A d \in Days : Reward(d) \in PostingKeys
BY DEF PostingKeys

LEMMA JobsTyped ==
    /\ NoJob \in Jobs /\ NoJob.recharge = {}
    /\ \A r \in Redeems : RedeemJob(r) \in Jobs /\ RedeemJob(r).recharge = {}
    /\ \A c \in Recharges, t \in BOOLEAN :
         RechargeJob(c, t) \in Jobs /\ RechargeJob(c, t).recharge = {c}
    /\ \A d \in 0..LastDay, n \in 0..LastDay :
         /\ ClaimJob(d, n) \in Jobs /\ ClaimJob(d, n).recharge = {}
         /\ ClaimJob(d, n).day = d /\ ClaimJob(d, n).streak = n
BY RequestsAssumption DEF NoJob, RedeemJob, RechargeJob, ClaimJob, Job, Jobs

LEMMA Types ==
    ASSUME IInv
    PROVE  /\ mc \in Nat /\ posted \subseteq PostingKeys
           /\ redeem \in [Redeems -> {"absent", "requested", "approved", "rejected", "completed"}]
           /\ paidOut \subseteq Redeems
           /\ recharge \in [Recharges -> {"absent", "created", "pending", "completed"}]
           /\ order \in [Recharges -> {"none", "unpaid", "paid"}]
           /\ today \in Days /\ streak \in [Days -> 0..LastDay]
           /\ pc \in [Procs -> Places] /\ job \in [Procs -> Jobs]
           /\ crashes \in 0..MaxCrashes
           /\ Days \subseteq Nat /\ LastDay \in Nat \ {0} /\ MaxCrashes \in Nat
           /\ \A r \in Redeems : RedeemAmount[r] \in Nat \ {0}
           /\ \A c \in Recharges : RechargeAmount[c] \in Nat \ {0}
BY RequestsAssumption DEF IInv, TypeOK, Days

-----------------------------------------------------------------------------
(* What a step may leave to the other threads *)

\* The shared state as a thread sees it: no claim, payment or crash is taken back.
Onward ==
    /\ today <= today'
    /\ \A d \in Days : streak[d] > 0 => streak'[d] > 0
    /\ \A c \in Recharges : /\ order[c] = "paid" => order'[c] = "paid"
                            /\ recharge[c] # "absent" => recharge'[c] # "absent"
    /\ crashes <= crashes'

\* What a thread knows that has not moved.
LEMMA ThreadKnows ==
    ASSUME IInv, Onward, today' \in Nat, NEW q \in Procs,
           pc'[q] = pc[q], job'[q] = job[q]
    PROVE  ClaimKnows(q)' /\ RechargeKnows(q)'
<1> USE Types
<1>1. ClaimKnows(q) /\ RechargeKnows(q)
  BY DEF IInv
<1>2. ClaimKnows(q)'
  <2>1. SUFFICES ASSUME pc[q] = "claim"
                 PROVE  /\ job[q].day \in 1..today' /\ job[q].streak \in 1..job[q].day
                        /\ \A i \in 1..(job[q].streak - 1) : streak'[job[q].day - i] > 0
    BY DEF ClaimKnows
  <2>2. /\ job[q].day \in 1..today /\ job[q].streak \in 1..job[q].day
        /\ \A i \in 1..(job[q].streak - 1) : streak[job[q].day - i] > 0
    BY <1>1, <2>1 DEF ClaimKnows
  <2>3. ASSUME NEW i \in 1..(job[q].streak - 1)
        PROVE  streak'[job[q].day - i] > 0
    <3>1. job[q].day - i \in Days
      BY <2>2 DEF Days
    <3> QED BY <2>2, <3>1 DEF Onward
  <2> QED BY <2>2, <2>3 DEF Onward
<1>3. RechargeKnows(q)'
  <2>1. \A c \in Recharges : Serves(q, c)' <=> Serves(q, c)
    BY DEF Serves
  <2>2. \A b, c \in Recharges : Serves(q, b) /\ Serves(q, c) => b = c
    BY <1>1 DEF RechargeKnows
  <2>3. ASSUME NEW c \in Recharges, Serves(q, c)
        PROVE  /\ pc[q] # "insert" => recharge'[c] # "absent"
               /\ pc[q] = "fulfil" => order'[c] = "paid"
    <3>1. /\ pc[q] # "insert" => recharge[c] # "absent"
          /\ pc[q] = "fulfil" => order[c] = "paid"
      BY <1>1, <2>3 DEF RechargeKnows
    <3>2. /\ order[c] = "paid" => order'[c] = "paid"
          /\ recharge[c] # "absent" => recharge'[c] # "absent"
      BY DEF Onward
    <3> QED BY <3>1, <3>2
  <2> QED BY <2>1, <2>2, <2>3 DEF RechargeKnows
<1> QED BY <1>2, <1>3

\* What a thread knows that has ended, or begun something that is no claim.
LEMMA NewJobKnown ==
    ASSUME NEW q \in Procs,
           pc'[q] # "claim",
           job'[q].recharge = {} \/ \E c \in Recharges :
               /\ job'[q].recharge = {c}
               /\ pc'[q] # "insert" => recharge'[c] # "absent"
               /\ pc'[q] = "fulfil" => order'[c] = "paid"
    PROVE  ClaimKnows(q)' /\ RechargeKnows(q)'
BY DEF ClaimKnows, RechargeKnows, Serves

\* A step of one thread that keeps the shared invariants keeps the rest.
LEMMA OneThreadSteps ==
    ASSUME IInv, Onward, TypeOK', NEW p \in Procs,
           \A q \in Procs : q # p => pc'[q] = pc[q] /\ job'[q] = job[q],
           ClaimKnows(p)', RechargeKnows(p)',
           CreditFollowsPayment', RewardsSound', KeysFollowStatus', OrderIsComing'
    PROVE  IInv'
<1>1. today' \in Nat
  BY RequestsAssumption DEF TypeOK, Days
<1>2. ASSUME NEW q \in Procs
      PROVE  ClaimKnows(q)' /\ RechargeKnows(q)'
  <2>1. CASE q = p
    BY <2>1
  <2>2. CASE q # p
    BY <1>1, <2>2, ThreadKnows
  <2> QED BY <2>1, <2>2
<1> QED BY <1>2 DEF IInv

LEMMA NoThreadSteps ==
    ASSUME IInv, Onward, TypeOK', UNCHANGED <<pc, job>>,
           CreditFollowsPayment', RewardsSound', KeysFollowStatus', OrderIsComing'
    PROVE  IInv'
<1>1. today' \in Nat
  BY RequestsAssumption DEF TypeOK, Days
<1> QED BY <1>1, ThreadKnows DEF IInv

\* The witness of OrderIsComing for a recharge, while no thread that is to make an
\* order moves.
LEMMA OrderStillComing ==
    ASSUME IInv, crashes <= crashes', crashes' \in Nat,
           \A c \in Recharges : recharge[c] = "absent" => recharge'[c] = "absent",
           \A c \in Recharges : order'[c] = "none" => order[c] = "none",
           \A q \in Procs : pc[q] = "order" => pc'[q] = "order" /\ job'[q] = job[q]
    PROVE  OrderIsComing'
<1>1. ASSUME NEW c \in Recharges, recharge'[c] # "absent", order'[c] = "none"
      PROVE  crashes' > 0 \/ \E p \in Procs : pc'[p] = "order" /\ Serves(p, c)'
  <2>1. recharge[c] # "absent" /\ order[c] = "none"
    BY <1>1
  <2>2. CASE crashes > 0
    BY <2>2, Types
  <2>3. CASE \E p \in Procs : pc[p] = "order" /\ Serves(p, c)
    BY <2>3 DEF Serves
  <2> QED BY <2>1, <2>2, <2>3 DEF IInv, OrderIsComing
<1> QED BY <1>1 DEF OrderIsComing

\* Rewards depend on the days and their keys only.
LEMMA RewardsKept ==
    ASSUME IInv, UNCHANGED streak,
           \A d \in Days : Reward(d) \in posted' <=> Reward(d) \in posted
    PROVE  RewardsSound'
BY DEF IInv, RewardsSound, RewardIsClaim, StreakNotInflated

\* Recharges are credited as before, whatever else is posted.
LEMMA CreditKept ==
    ASSUME IInv, UNCHANGED recharge,
           \A c \in Recharges : order[c] = "paid" => order'[c] = "paid",
           \A c \in Recharges : Fulfil(c) \in posted' <=> Fulfil(c) \in posted
    PROVE  CreditFollowsPayment'
BY DEF IInv, CreditFollowsPayment

\* A thread goes on to its next statement, or a handler begins or returns.
LEMMA ThreadMoved ==
    ASSUME IInv, NEW p \in Procs, NEW where \in Places, NEW j \in Jobs,
           Goto(p, where), job' = [job EXCEPT ![p] = j]
    PROVE  /\ pc' \in [Procs -> Places] /\ job' \in [Procs -> Jobs]
           /\ pc'[p] = where /\ job'[p] = j
           /\ \A q \in Procs : q # p => pc'[q] = pc[q] /\ job'[q] = job[q]
BY Types DEF Goto

LEMMA Returned ==
    ASSUME IInv, NEW p \in Procs, Return(p)
    PROVE  /\ pc' \in [Procs -> Places] /\ job' \in [Procs -> Jobs]
           /\ \A q \in Procs : q # p => pc'[q] = pc[q] /\ job'[q] = job[q]
           /\ ClaimKnows(p)' /\ RechargeKnows(p)'
<1>1. /\ pc' \in [Procs -> Places] /\ job' \in [Procs -> Jobs]
      /\ pc'[p] = "idle" /\ job'[p] = NoJob
      /\ \A q \in Procs : q # p => pc'[q] = pc[q] /\ job'[q] = job[q]
  BY ThreadMoved, JobsTyped DEF Return, Places
<1> QED BY <1>1, NewJobKnown, JobsTyped

\* Reads and other steps that write nothing others see.
LEMMA QuietStep ==
    ASSUME IInv, NEW p \in Procs, pc[p] # "order",
           pc' \in [Procs -> Places], job' \in [Procs -> Jobs],
           \A q \in Procs : q # p => pc'[q] = pc[q] /\ job'[q] = job[q],
           ClaimKnows(p)', RechargeKnows(p)',
           UNCHANGED <<mc, posted, redeem, paidOut, recharge, order, today, streak, crashes>>
    PROVE  IInv'
<1>1. Onward
  BY Types DEF Onward, Days
<1>2. TypeOK'
  BY Types DEF TypeOK
<1>3. CreditFollowsPayment' /\ RewardsSound'
  BY CreditKept, RewardsKept
<1>4. KeysFollowStatus'
  BY DEF IInv, KeysFollowStatus
<1>5. OrderIsComing'
  BY Types, OrderStillComing
<1> QED BY <1>1, <1>2, <1>3, <1>4, <1>5, OneThreadSteps

LEMMA Posted ==
    ASSUME IInv, NEW key \in PostingKeys, NEW delta \in Int, Post(key, delta)
    PROVE  /\ mc' \in Nat /\ posted' = posted \cup {key} /\ posted' \subseteq PostingKeys
           /\ key \notin posted => mc' = mc + delta
           /\ key \in posted => mc' = mc
BY Types DEF Post

-----------------------------------------------------------------------------
(* Redeem requests *)

LEMMA LookupRedeemStep ==
    ASSUME IInv, NEW p \in Procs, NEW r \in Redeems, LookupRedeem(p, r)
    PROVE  IInv'
<1>1. pc[p] = "idle" /\ Goto(p, "hold") /\ job' = [job EXCEPT ![p] = RedeemJob(r)]
  BY DEF LookupRedeem, Begin
<1>2. /\ pc' \in [Procs -> Places] /\ job' \in [Procs -> Jobs]
      /\ pc'[p] = "hold" /\ job'[p] = RedeemJob(r)
      /\ \A q \in Procs : q # p => pc'[q] = pc[q] /\ job'[q] = job[q]
  BY <1>1, ThreadMoved, JobsTyped DEF Places
<1>3. ClaimKnows(p)' /\ RechargeKnows(p)'
  BY <1>2, NewJobKnown, JobsTyped
<1> QED BY <1>1, <1>2, <1>3, QuietStep DEF LookupRedeem

LEMMA RequestRedeemStep ==
    ASSUME IInv, NEW p \in Procs, NEW r \in Redeems, RequestRedeem(p, r)
    PROVE  /\ IInv'
           /\ mc' = mc - RedeemAmount[r] /\ posted' = posted \cup {Hold(r)}
<1> USE Types
<1>1. /\ pc[p] = "hold" /\ redeem[r] = "absent"
      /\ Post(Hold(r), -RedeemAmount[r])
      /\ redeem' = [redeem EXCEPT ![r] = "requested"]
      /\ Return(p)
      /\ UNCHANGED <<paidOut, recharge, order, today, streak, crashes>>
  BY DEF RequestRedeem
<1>2. Hold(r) \notin posted
  BY <1>1 DEF IInv, KeysFollowStatus
<1>3. /\ mc' \in Nat /\ posted' = posted \cup {Hold(r)} /\ posted' \subseteq PostingKeys
      /\ mc' = mc - RedeemAmount[r]
  BY <1>1, <1>2, Posted, KeysTyped
<1>4. TypeOK'
  BY <1>1, <1>3, Returned DEF TypeOK
<1>5. Onward
  BY <1>1 DEF Onward, Days
<1>6. CreditFollowsPayment' /\ RewardsSound'
  BY <1>1, <1>3, KeysDiffer, CreditKept, RewardsKept
<1>7. KeysFollowStatus'
  BY <1>1, <1>3, KeysDiffer DEF IInv, KeysFollowStatus
<1>8. OrderIsComing'
  BY <1>1, Returned, OrderStillComing
<1> QED BY <1>1, <1>3, <1>4, <1>5, <1>6, <1>7, <1>8, Returned, OneThreadSteps

LEMMA RequestFailsStep ==
    ASSUME IInv, NEW p \in Procs, NEW r \in Redeems, RequestFails(p, r)
    PROVE  IInv'
BY Returned, QuietStep DEF RequestFails

LEMMA DecideStep ==
    ASSUME IInv, NEW r \in Redeems, Approve(r) \/ Reject(r) \/ Complete(r)
    PROVE  /\ IInv'
           /\ Approve(r) \/ Complete(r) => UNCHANGED <<mc, posted>>
           /\ Reject(r) => mc' = mc + RedeemAmount[r] /\ posted' = posted \cup {Refund(r)}
<1> USE Types
<1>1. UNCHANGED <<recharge, order, today, streak, pc, job, crashes>>
  BY DEF Approve, Reject, Complete
<1>2. Approve(r) \/ Complete(r) => UNCHANGED <<mc, posted>>
  BY DEF Approve, Complete
<1>3. ASSUME Reject(r)
      PROVE  /\ mc' \in Nat /\ posted' = posted \cup {Refund(r)} /\ posted' \subseteq PostingKeys
             /\ mc' = mc + RedeemAmount[r]
  <2>1. Post(Refund(r), RedeemAmount[r]) /\ Refund(r) \notin posted
    BY <1>3 DEF Reject, IInv, KeysFollowStatus
  <2> QED BY <2>1, Posted, KeysTyped
<1>4. /\ redeem' \in [Redeems -> {"absent", "requested", "approved", "rejected", "completed"}]
      /\ paidOut' \subseteq Redeems
  BY DEF Approve, Reject, Complete
<1>5. TypeOK'
  BY <1>1, <1>2, <1>3, <1>4 DEF TypeOK
<1>6. Onward
  BY <1>1 DEF Onward, Days
<1>7. CreditFollowsPayment' /\ RewardsSound'
  BY <1>1, <1>2, <1>3, KeysDiffer, CreditKept, RewardsKept
<1>8. KeysFollowStatus'
  <2>1. CASE Approve(r)
    BY <2>1, KeysDiffer DEF Approve, IInv, KeysFollowStatus
  <2>2. CASE Complete(r)
    BY <2>2, KeysDiffer DEF Complete, IInv, KeysFollowStatus
  <2>3. CASE Reject(r)
    BY <1>3, <2>3, KeysDiffer DEF Reject, IInv, KeysFollowStatus
  <2> QED BY <2>1, <2>2, <2>3
<1>9. OrderIsComing'
  BY <1>1, OrderStillComing
<1> QED BY <1>1, <1>2, <1>3, <1>5, <1>6, <1>7, <1>8, <1>9, NoThreadSteps

-----------------------------------------------------------------------------
(* Recharges *)

LEMMA FetchStep ==
    ASSUME IInv, NEW p \in Procs, NEW c \in Recharges,
           \/ \E txid \in BOOLEAN : LookupRecharge(p, c, txid)
           \/ FetchRecharge(p, c) \/ FetchPaid(p, c)
    PROVE  IInv'
<1>1. PICK where \in Places, t \in BOOLEAN :
        /\ pc[p] = "idle" /\ Goto(p, where) /\ job' = [job EXCEPT ![p] = RechargeJob(c, t)]
        /\ where # "claim" /\ (where = "fulfil" => order[c] = "paid")
        /\ where # "insert" => recharge[c] # "absent"
  BY DEF LookupRecharge, FetchRecharge, FetchPaid, Begin, Places
<1>2. UNCHANGED <<mc, posted, redeem, paidOut, recharge, order, today, streak, crashes>>
  BY DEF LookupRecharge, FetchRecharge, FetchPaid
<1>3. /\ pc' \in [Procs -> Places] /\ job' \in [Procs -> Jobs]
      /\ pc'[p] = where /\ job'[p] = RechargeJob(c, t)
      /\ \A q \in Procs : q # p => pc'[q] = pc[q] /\ job'[q] = job[q]
  BY <1>1, ThreadMoved, JobsTyped
<1>4. ClaimKnows(p)' /\ RechargeKnows(p)'
  BY <1>1, <1>2, <1>3, NewJobKnown, JobsTyped
<1> QED BY <1>1, <1>2, <1>3, <1>4, QuietStep

\* A thread that goes on with the recharge it has.
LEMMA GoesOn ==
    ASSUME IInv, NEW p \in Procs, NEW where \in Places, where \notin {"claim", "fulfil"},
           Goto(p, where), UNCHANGED job,
           \A c \in Recharges : Serves(p, c) => recharge'[c] # "absent"
    PROVE  /\ pc' \in [Procs -> Places] /\ job' \in [Procs -> Jobs] /\ pc'[p] = where
           /\ \A q \in Procs : q # p => pc'[q] = pc[q] /\ job'[q] = job[q]
           /\ ClaimKnows(p)' /\ RechargeKnows(p)'
<1>1. /\ pc' \in [Procs -> Places] /\ job' \in [Procs -> Jobs] /\ pc'[p] = where
      /\ \A q \in Procs : q # p => pc'[q] = pc[q] /\ job'[q] = job[q]
  BY Types DEF Goto
<1>2. ClaimKnows(p)'
  BY <1>1 DEF ClaimKnows
<1>3. RechargeKnows(p)'
  BY <1>1 DEF IInv, RechargeKnows, Serves
<1> QED BY <1>1, <1>2, <1>3

LEMMA InsertRechargeStep ==
    ASSUME IInv, NEW p \in Procs, NEW c \in Recharges, InsertRecharge(p, c)
    PROVE  IInv'
<1> USE Types
<1>1. /\ pc[p] = "insert" /\ Serves(p, c)
      /\ UNCHANGED <<mc, posted, redeem, paidOut, order, today, streak, crashes>>
  BY DEF InsertRecharge
<1>2. CASE recharge[c] = "absent"
  <2>1. /\ recharge' = [recharge EXCEPT ![c] = "created"]
        /\ Goto(p, "order") /\ UNCHANGED job
    BY <1>2 DEF InsertRecharge
  <2> \A b \in Recharges : Serves(p, b) => recharge'[b] # "absent"
    BY <1>1, <2>1 DEF IInv, RechargeKnows
  <2>2. /\ pc' \in [Procs -> Places] /\ job' \in [Procs -> Jobs] /\ pc'[p] = "order"
        /\ \A q \in Procs : q # p => pc'[q] = pc[q] /\ job'[q] = job[q]
        /\ ClaimKnows(p)' /\ RechargeKnows(p)'
    BY <2>1, GoesOn DEF Places
  <2>3. TypeOK' /\ Onward
    BY <1>1, <2>1, <2>2 DEF TypeOK, Onward, Days
  <2>4. CreditFollowsPayment'
    BY <1>1, <2>1 DEF IInv, CreditFollowsPayment
  <2>5. RewardsSound' /\ KeysFollowStatus'
    BY <1>1, RewardsKept DEF IInv, KeysFollowStatus
  <2>6. ASSUME NEW b \in Recharges, recharge'[b] # "absent", order'[b] = "none", crashes' = 0
        PROVE  \E q \in Procs : pc'[q] = "order" /\ Serves(q, b)'
    <3>1. CASE b = c
      BY <1>1, <2>1, <2>2, <3>1 DEF Serves
    <3>2. CASE b # c
      <4>1. PICK q \in Procs : pc[q] = "order" /\ Serves(q, b)
        BY <1>1, <2>1, <2>6, <3>2 DEF IInv, OrderIsComing
      <4> QED BY <1>1, <2>1, <2>2, <4>1 DEF Serves
    <3> QED BY <3>1, <3>2
  <2>7. OrderIsComing'
    BY <1>1, <2>6 DEF OrderIsComing
  <2> QED BY <2>2, <2>3, <2>4, <2>5, <2>7, OneThreadSteps
<1>3. CASE recharge[c] # "absent"
  BY <1>1, <1>3, Returned, QuietStep DEF InsertRecharge
<1> QED BY <1>2, <1>3

LEMMA CreateOrderStep ==
    ASSUME IInv, NEW p \in Procs, NEW c \in Recharges, CreateOrder(p, c)
    PROVE  IInv'
<1> USE Types
<1>1. /\ pc[p] = "order" /\ Serves(p, c)
      /\ order' = [order EXCEPT ![c] = IF order[c] = "none" THEN "unpaid" ELSE order[c]]
      /\ Goto(p, "link")
      /\ UNCHANGED <<mc, posted, redeem, paidOut, recharge, today, streak, job, crashes>>
  BY DEF CreateOrder
<1> \A b \in Recharges : Serves(p, b) => recharge'[b] # "absent"
  BY <1>1 DEF IInv, RechargeKnows
<1>2. /\ pc' \in [Procs -> Places] /\ job' \in [Procs -> Jobs]
      /\ \A q \in Procs : q # p => pc'[q] = pc[q] /\ job'[q] = job[q]
      /\ ClaimKnows(p)' /\ RechargeKnows(p)'
  BY <1>1, GoesOn DEF Places
<1>3. /\ order' \in [Recharges -> {"none", "unpaid", "paid"}] /\ order'[c] # "none"
      /\ \A b \in Recharges : b # c => order'[b] = order[b]
      /\ \A b \in Recharges : order[b] = "paid" => order'[b] = "paid"
  BY <1>1
<1>4. TypeOK'
  BY <1>1, <1>2, <1>3 DEF TypeOK
<1>5. Onward
  BY <1>1, <1>3 DEF Onward, Days
<1>6. CreditFollowsPayment' /\ RewardsSound' /\ KeysFollowStatus'
  BY <1>1, <1>3, CreditKept, RewardsKept DEF IInv, KeysFollowStatus
<1>7. ASSUME NEW b \in Recharges, recharge'[b] # "absent", order'[b] = "none", crashes' = 0
      PROVE  \E q \in Procs : pc'[q] = "order" /\ Serves(q, b)'
  <2>1. b # c
    BY <1>3, <1>7
  <2>2. PICK q \in Procs : pc[q] = "order" /\ Serves(q, b)
    BY <1>1, <1>3, <1>7, <2>1 DEF IInv, OrderIsComing
  <2>3. q # p
    BY <1>1, <2>1, <2>2 DEF IInv, RechargeKnows
  <2> QED BY <1>2, <2>2, <2>3 DEF Serves
<1>8. OrderIsComing'
  BY <1>1, <1>7 DEF OrderIsComing
<1> QED BY <1>2, <1>4, <1>5, <1>6, <1>8, OneThreadSteps

LEMMA LinkOrderStep ==
    ASSUME IInv, NEW p \in Procs, LinkOrder(p)
    PROVE  IInv'
<1>1. /\ pc[p] = "link"
      /\ UNCHANGED <<mc, posted, redeem, paidOut, recharge, order, today, streak, crashes>>
  BY DEF LinkOrder
<1>2. CASE Goto(p, "txid") /\ UNCHANGED job
  <2>1. \A b \in Recharges : Serves(p, b) => recharge'[b] # "absent"
    BY <1>1 DEF IInv, RechargeKnows
  <2> QED BY <1>1, <1>2, <2>1, GoesOn, QuietStep DEF Places
<1>3. CASE Return(p)
  BY <1>1, <1>3, Returned, QuietStep
<1> QED BY <1>2, <1>3 DEF LinkOrder

LEMMA SaveTxidStep ==
    ASSUME IInv, NEW p \in Procs, NEW c \in Recharges, SaveTxid(p, c)
    PROVE  IInv'
<1> USE Types
<1>1. /\ pc[p] = "txid" /\ Serves(p, c)
      /\ recharge' = [recharge EXCEPT ![c] = "pending"]
      /\ Return(p)
      /\ UNCHANGED <<mc, posted, redeem, paidOut, order, today, streak, crashes>>
  BY DEF SaveTxid
<1>2. recharge[c] # "absent"
  BY <1>1 DEF IInv, RechargeKnows
<1>3. TypeOK' /\ Onward
  BY <1>1, Returned DEF TypeOK, Onward, Days
<1>4. CreditFollowsPayment'
  BY <1>1 DEF IInv, CreditFollowsPayment
<1>5. RewardsSound' /\ KeysFollowStatus'
  BY <1>1, RewardsKept DEF IInv, KeysFollowStatus
<1>6. OrderIsComing'
  BY <1>1, <1>2, Returned, OrderStillComing
<1> QED BY <1>1, <1>3, <1>4, <1>5, <1>6, Returned, OneThreadSteps

LEMMA PayOrderStep ==
    ASSUME IInv, NEW c \in Recharges, PayOrder(c)
    PROVE  IInv'
<1> USE Types
<1>1. /\ order[c] = "unpaid" /\ order' = [order EXCEPT ![c] = "paid"]
      /\ UNCHANGED <<mc, posted, redeem, paidOut, recharge, today, streak, pc, job, crashes>>
  BY DEF PayOrder
<1>2. TypeOK' /\ Onward
  BY <1>1 DEF TypeOK, Onward, Days
<1>3. CreditFollowsPayment' /\ RewardsSound' /\ KeysFollowStatus'
  BY <1>1, CreditKept, RewardsKept DEF IInv, KeysFollowStatus
<1>4. OrderIsComing'
  BY <1>1, OrderStillComing
<1> QED BY <1>1, <1>2, <1>3, <1>4, NoThreadSteps

LEMMA FulfilRechargeStep ==
    ASSUME IInv, NEW p \in Procs, NEW c \in Recharges, FulfilRecharge(p, c)
    PROVE  /\ IInv' /\ posted' = posted \cup {Fulfil(c)}
           /\ mc' = IF Fulfil(c) \in posted THEN mc ELSE mc + RechargeAmount[c]
<1> USE Types
<1>1. /\ pc[p] = "fulfil" /\ Serves(p, c)
      /\ Post(Fulfil(c), RechargeAmount[c])
      /\ recharge' = [recharge EXCEPT ![c] = "completed"]
      /\ Return(p)
      /\ UNCHANGED <<redeem, paidOut, order, today, streak, crashes>>
  BY DEF FulfilRecharge
<1>2. order[c] = "paid" /\ recharge[c] # "absent"
  BY <1>1 DEF IInv, RechargeKnows
<1>3. /\ mc' \in Nat /\ posted' = posted \cup {Fulfil(c)} /\ posted' \subseteq PostingKeys
      /\ mc' = IF Fulfil(c) \in posted THEN mc ELSE mc + RechargeAmount[c]
  BY <1>1, Posted, KeysTyped
<1>4. TypeOK' /\ Onward
  BY <1>1, <1>3, Returned DEF TypeOK, Onward, Days
<1>5. CreditFollowsPayment'
  <2>1. ASSUME NEW b \in Recharges
        PROVE  /\ Fulfil(b) \in posted' => order'[b] = "paid"
               /\ recharge'[b] = "completed" => Fulfil(b) \in posted'
    <3>1. CASE b = c
      BY <1>1, <1>2, <1>3, <3>1
    <3>2. CASE b # c
      <4>1. Fulfil(b) # Fulfil(c) /\ recharge'[b] = recharge[b] /\ order'[b] = order[b]
        BY <1>1, <3>2, KeysDiffer
      <4>2. Fulfil(b) \in posted' <=> Fulfil(b) \in posted
        BY <1>3, <4>1
      <4> QED BY <4>1, <4>2 DEF IInv, CreditFollowsPayment
    <3> QED BY <3>1, <3>2
  <2> QED BY <2>1 DEF CreditFollowsPayment
<1>6. RewardsSound' /\ KeysFollowStatus'
  <2>1. \A x : x # Fulfil(c) => (x \in posted' <=> x \in posted)
    BY <1>3
  <2>2. ASSUME NEW d \in Days
        PROVE  Reward(d) \in posted' <=> Reward(d) \in posted
    <3>1. Reward(d) # Fulfil(c)
      BY KeysDiffer
    <3> QED BY <2>1, <3>1
  <2>3. ASSUME NEW r \in Redeems
        PROVE  /\ Hold(r) \in posted' <=> Hold(r) \in posted
               /\ Refund(r) \in posted' <=> Refund(r) \in posted
    <3>1. Hold(r) # Fulfil(c) /\ Refund(r) # Fulfil(c)
      BY KeysDiffer
    <3> QED BY <2>1, <3>1
  <2>4. RewardsSound'
    BY <1>1, <2>2, RewardsKept
  <2> QED BY <1>1, <2>3, <2>4 DEF IInv, KeysFollowStatus
<1>7. OrderIsComing'
  BY <1>1, <1>2, Returned, OrderStillComing
<1> QED BY <1>1, <1>3, <1>4, <1>5, <1>6, <1>7, Returned, OneThreadSteps

-----------------------------------------------------------------------------
(* The daily reward *)

LEMMA CheckClaimStep ==
    ASSUME IInv, NEW p \in Procs, CheckClaim(p)
    PROVE  IInv'
<1> USE Types
<1> DEFINE yesterday == IF today = 1 THEN 0 ELSE streak[today - 1]
<1>1. /\ pc[p] = "idle" /\ Goto(p, "claim")
      /\ job' = [job EXCEPT ![p] = ClaimJob(today, yesterday + 1)]
      /\ UNCHANGED <<mc, posted, redeem, paidOut, recharge, order, today, streak, crashes>>
  BY DEF CheckClaim, Begin
<1>2. yesterday \in 0..(today - 1) /\ \A i \in 1..yesterday : streak[today - i] > 0
  <2>1. CASE today = 1
    BY <2>1
  <2>2. CASE today # 1
    <3>1. today - 1 \in Days /\ streak[today - 1] \in 0..LastDay
      BY <2>2 DEF Days
    <3>2. \A i \in 0..(streak[today - 1] - 1) :
            today - 1 - i \in Days /\ streak[today - 1 - i] > 0
      BY <3>1 DEF IInv, RewardsSound, StreakNotInflated
    <3>3. streak[today - 1] <= today - 1
      <4>1. CASE streak[today - 1] = 0
        BY <2>2, <4>1 DEF Days
      <4>2. CASE streak[today - 1] > 0
        <5>1. streak[today - 1] - 1 \in 0..(streak[today - 1] - 1)
          BY <3>1, <4>2
        <5>2. today - 1 - (streak[today - 1] - 1) \in Days
          BY <3>2, <5>1
        <5> QED BY <3>1, <5>2 DEF Days
      <4> QED BY <3>1, <4>1, <4>2
    <3>4. ASSUME NEW i \in 1..streak[today - 1]
          PROVE  streak[today - i] > 0
      <4>1. i - 1 \in 0..(streak[today - 1] - 1) /\ today - 1 - (i - 1) = today - i
        BY <3>1 DEF Days
      <4> QED BY <3>2, <4>1
    <3> QED BY <2>2, <3>1, <3>3, <3>4
  <2> QED BY <2>1, <2>2
<1> HIDE DEF yesterday
<1>3. ClaimJob(today, yesterday + 1) \in Jobs /\ today \in 0..LastDay /\ yesterday + 1 \in 0..LastDay
  BY <1>2, JobsTyped DEF Days
<1>4. /\ pc' \in [Procs -> Places] /\ job' \in [Procs -> Jobs]
      /\ pc'[p] = "claim" /\ job'[p] = ClaimJob(today, yesterday + 1)
      /\ \A q \in Procs : q # p => pc'[q] = pc[q] /\ job'[q] = job[q]
  BY <1>1, <1>3, ThreadMoved DEF Places
<1>5. job'[p].day = today /\ job'[p].streak = yesterday + 1 /\ job'[p].recharge = {}
  BY <1>3, <1>4, JobsTyped
<1>6. ClaimKnows(p)'
  BY <1>1, <1>2, <1>4, <1>5 DEF ClaimKnows, Days
<1>7. RechargeKnows(p)'
  BY <1>5 DEF RechargeKnows, Serves
<1> QED BY <1>1, <1>4, <1>6, <1>7, QuietStep

LEMMA ClaimStep ==
    ASSUME IInv, NEW p \in Procs, Claim(p)
    PROVE  IInv' /\ posted' = posted \cup {Reward(job[p].day)} /\ job[p].day \in Days
<1> USE Types
<1> DEFINE d == job[p].day
           n == job[p].streak
<1>1. /\ pc[p] = "claim"
      /\ posted' = posted \cup {Reward(d)}
      /\ streak' = [streak EXCEPT ![d] = IF streak[d] = 0 THEN n ELSE streak[d]]
      /\ Return(p)
      /\ UNCHANGED <<mc, redeem, paidOut, recharge, order, today, crashes>>
  BY DEF Claim
<1>2. /\ d \in 1..today /\ n \in 1..d /\ d \in Days /\ d \in Nat /\ n \in 1..LastDay
      /\ \A i \in 1..(n - 1) : streak[d - i] > 0
  BY <1>1 DEF IInv, ClaimKnows, Days
<1> HIDE DEF d, n
<1>3. /\ streak' \in [Days -> 0..LastDay] /\ streak'[d] > 0
      /\ streak'[d] = IF streak[d] = 0 THEN n ELSE streak[d]
      /\ \A e \in Days : e # d => streak'[e] = streak[e]
      /\ \A e \in Days : streak[e] > 0 => streak'[e] > 0
  BY <1>1, <1>2
<1>4. posted' \subseteq PostingKeys
  BY <1>1, <1>2, KeysTyped
<1>5. TypeOK' /\ Onward
  BY <1>1, <1>3, <1>4, Returned DEF TypeOK, Onward, Days
<1>6. CreditFollowsPayment' /\ KeysFollowStatus'
  <2>1. \A x : x # Reward(d) => (x \in posted' <=> x \in posted)
    BY <1>1
  <2>2. ASSUME NEW c \in Recharges
        PROVE  Fulfil(c) \in posted' <=> Fulfil(c) \in posted
    <3>1. Fulfil(c) # Reward(d)
      BY KeysDiffer
    <3> QED BY <2>1, <3>1
  <2>3. ASSUME NEW r \in Redeems
        PROVE  /\ Hold(r) \in posted' <=> Hold(r) \in posted
               /\ Refund(r) \in posted' <=> Refund(r) \in posted
    <3>1. Hold(r) # Reward(d) /\ Refund(r) # Reward(d)
      BY KeysDiffer
    <3> QED BY <2>1, <3>1
  <2>4. CreditFollowsPayment'
    BY <1>1, <2>2, CreditKept
  <2> QED BY <1>1, <2>3, <2>4 DEF IInv, KeysFollowStatus
<1>7. RewardIsClaim'
  BY <1>1, <1>2, <1>3, KeysDiffer DEF IInv, RewardsSound, RewardIsClaim
<1>8. ASSUME NEW e \in Days, NEW i \in 0..(streak'[e] - 1)
      PROVE  e - i \in Days /\ streak'[e - i] > 0
  <2>1. CASE streak'[e] = streak[e]
    <3>1. e - i \in Days /\ streak[e - i] > 0
      BY <2>1 DEF IInv, RewardsSound, StreakNotInflated
    <3> QED BY <1>3, <3>1
  <2>2. CASE e = d /\ streak'[e] = n
    <3>1. i \in 0..(n - 1)
      BY <2>2
    <3>2. CASE i = 0
      <4>1. e - i = d
        BY <1>2, <2>2, <3>2
      <4> QED BY <1>2, <1>3, <4>1
    <3>3. CASE i # 0
      <4>1. i \in 1..(n - 1) /\ e - i = d - i
        BY <1>2, <2>2, <3>1, <3>3
      <4>2. d - i \in Days /\ streak[d - i] > 0
        BY <1>2, <4>1 DEF Days
      <4> QED BY <1>3, <4>1, <4>2
    <3> QED BY <3>2, <3>3
  <2> QED BY <1>3, <2>1, <2>2
<1>9. RewardsSound'
  BY <1>7, <1>8 DEF RewardsSound, StreakNotInflated
<1>10. OrderIsComing'
  BY <1>1, Returned, OrderStillComing
<1> QED BY <1>1, <1>2, <1>5, <1>6, <1>9, <1>10, Returned, OneThreadSteps DEF d

LEMMA MidnightStep ==
    ASSUME IInv, Midnight
    PROVE  IInv'
<1> USE Types
<1>1. /\ today < LastDay /\ today' = today + 1
      /\ UNCHANGED <<mc, posted, redeem, paidOut, recharge, order, streak, pc, job, crashes>>
  BY DEF Midnight
<1>2. TypeOK' /\ Onward
  BY <1>1 DEF TypeOK, Onward, Days
<1>3. CreditFollowsPayment' /\ RewardsSound' /\ KeysFollowStatus'
  BY <1>1, CreditKept, RewardsKept DEF IInv, KeysFollowStatus
<1>4. OrderIsComing'
  BY <1>1, OrderStillComing
<1> QED BY <1>1, <1>2, <1>3, <1>4, NoThreadSteps

LEMMA CrashStep ==
    ASSUME IInv, NEW p \in Procs, Crash(p)
    PROVE  IInv'
<1> USE Types
<1>1. /\ crashes < MaxCrashes /\ crashes' = crashes + 1 /\ Return(p)
      /\ UNCHANGED <<mc, posted, redeem, paidOut, recharge, order, today, streak>>
  BY DEF Crash
<1>2. TypeOK' /\ Onward
  BY <1>1, Returned DEF TypeOK, Onward, Days
<1>3. CreditFollowsPayment' /\ RewardsSound' /\ KeysFollowStatus'
  BY <1>1, CreditKept, RewardsKept DEF IInv, KeysFollowStatus
<1>4. crashes' > 0
  BY <1>1
<1>5. OrderIsComing'
  BY <1>4 DEF OrderIsComing
<1> QED BY <1>1, <1>2, <1>3, <1>5, Returned, OneThreadSteps

-----------------------------------------------------------------------------
(* The theorems *)

LEMMA InvInit ==
    ASSUME Init
    PROVE  IInv
<1> USE RequestsAssumption DEF Init
<1>1. TypeOK
  BY JobsTyped DEF TypeOK, Days, Places
<1>2. CreditFollowsPayment /\ RewardsSound /\ KeysFollowStatus /\ OrderIsComing
  BY DEF CreditFollowsPayment, RewardsSound, RewardIsClaim, StreakNotInflated,
         KeysFollowStatus, OrderIsComing
<1>3. ASSUME NEW p \in Procs
      PROVE  ClaimKnows(p) /\ RechargeKnows(p)
  BY JobsTyped DEF ClaimKnows, RechargeKnows, Serves
<1> QED BY <1>1, <1>2, <1>3 DEF IInv

LEMMA InvStep ==
    ASSUME IInv, [Next]_vars
    PROVE  IInv'
<1>1. CASE UNCHANGED vars
  BY <1>1 DEF vars, IInv, TypeOK, CreditFollowsPayment, RewardsSound, RewardIsClaim,
              StreakNotInflated, KeysFollowStatus, OrderIsComing, ClaimKnows,
              RechargeKnows, Serves
<1>2. ASSUME NEW p \in Procs, NEW r \in Redeems,
             LookupRedeem(p, r) \/ RequestRedeem(p, r) \/ RequestFails(p, r)
      PROVE  IInv'
  BY <1>2, LookupRedeemStep, RequestRedeemStep, RequestFailsStep
<1>3. ASSUME NEW p \in Procs, NEW c \in Recharges,
             \/ \E txid \in BOOLEAN : LookupRecharge(p, c, txid)
             \/ InsertRecharge(p, c) \/ CreateOrder(p, c)
             \/ FetchRecharge(p, c) \/ SaveTxid(p, c)
             \/ FetchPaid(p, c) \/ FulfilRecharge(p, c)
      PROVE  IInv'
  BY <1>3, FetchStep, InsertRechargeStep, CreateOrderStep, SaveTxidStep, FulfilRechargeStep
<1>4. ASSUME NEW p \in Procs, LinkOrder(p) \/ CheckClaim(p) \/ Claim(p) \/ Crash(p)
      PROVE  IInv'
  BY <1>4, LinkOrderStep, CheckClaimStep, ClaimStep, CrashStep
<1>5. ASSUME NEW r \in Redeems, Approve(r) \/ Reject(r) \/ Complete(r)
      PROVE  IInv'
  BY <1>5, DecideStep
<1>6. ASSUME NEW c \in Recharges, PayOrder(c)
      PROVE  IInv'
  BY <1>6, PayOrderStep
<1> QED BY <1>1, <1>2, <1>3, <1>4, <1>5, <1>6, MidnightStep DEF Next

\* The strengthened invariant of the credit requests holds throughout.
THEOREM Inductive == Spec => []IInv
<1>1. Init => IInv
  BY InvInit
<1>2. IInv /\ [Next]_vars => IInv'
  BY InvStep
<1> QED BY <1>1, <1>2, PTL DEF Spec

\* claim_daily_reward: whatever overlaps, dies or crosses midnight, a day's reward is
\* posted exactly when it is claimed, and a streak counts only days that were.
THEOREM RewardsAreSound == Spec => []RewardsSound
<1>1. IInv => RewardsSound
  BY DEF IInv
<1> QED BY <1>1, Inductive, PTL

\* fulfill_recharge: a recharge is credited only when its order is paid, and counts as
\* completed only when it is credited, although its row is read without a lock.
THEOREM CreditsFollowPayments == Spec => []CreditFollowsPayment
<1>1. IInv => CreditFollowsPayment
  BY DEF IInv
<1> QED BY <1>1, Inductive, PTL

\* create_credit_recharge: only a process that died leaves a recharge without an order.
THEOREM OrderlessOnlyAfterACrash == Spec => []OrderlessOnlyByCrash
<1>1. IInv => OrderlessOnlyByCrash
  BY DEF IInv, OrderIsComing, OrderlessOnlyByCrash
<1> QED BY <1>1, Inductive, PTL

-----------------------------------------------------------------------------
(* The balance *)

\* A step that posts no key of a recharge and decides no request.
LEMMA SetsKept ==
    ASSUME UNCHANGED <<mc, redeem, paidOut>>,
           \A c \in Recharges : Fulfil(c) \in posted' <=> Fulfil(c) \in posted
    PROVE  BalanceFollows
<1>1. Credited' = Credited /\ Debited' = Debited
  BY DEF Credited, Debited
<1> QED BY <1>1 DEF BalanceFollows

LEMMA RequestFollows ==
    ASSUME IInv, NEW p \in Procs, NEW r \in Redeems, RequestRedeem(p, r)
    PROVE  BalanceFollows
<1>1. /\ redeem[r] = "absent" /\ redeem' = [redeem EXCEPT ![r] = "requested"]
      /\ UNCHANGED paidOut
  BY DEF RequestRedeem
<1>2. mc' = mc - RedeemAmount[r] /\ posted' = posted \cup {Hold(r)}
  BY RequestRedeemStep
<1>3. Credited' = Credited
  BY <1>2, KeysDiffer DEF Credited
<1>4. r \notin Debited /\ Debited' = Debited \cup {r}
  BY <1>1, Types DEF Debited, IInv, KeysFollowStatus
<1> QED BY <1>2, <1>3, <1>4 DEF BalanceFollows

LEMMA DecisionFollows ==
    ASSUME IInv, NEW r \in Redeems, Approve(r) \/ Reject(r) \/ Complete(r)
    PROVE  BalanceFollows
<1>1. CASE Approve(r) \/ Complete(r)
  <2>1. UNCHANGED <<mc, posted>>
    BY <1>1, DecideStep
  <2>2. Debited' = Debited
    BY <1>1, Types DEF Approve, Complete, Debited
  <2>3. Credited' = Credited
    BY <2>1 DEF Credited
  <2> QED BY <2>1, <2>2, <2>3 DEF BalanceFollows
<1>2. CASE Reject(r)
  <2>1. mc' = mc + RedeemAmount[r] /\ posted' = posted \cup {Refund(r)}
    BY <1>2, DecideStep
  <2>2. r \in Debited /\ Debited' = Debited \ {r}
    BY <1>2, Types DEF Reject, Debited, IInv, KeysFollowStatus
  <2>3. Credited' = Credited
    BY <2>1, KeysDiffer DEF Credited
  <2> QED BY <2>1, <2>2, <2>3 DEF BalanceFollows
<1> QED BY <1>1, <1>2

LEMMA FulfilmentFollows ==
    ASSUME IInv, NEW p \in Procs, NEW c \in Recharges, FulfilRecharge(p, c)
    PROVE  BalanceFollows
<1>1. /\ posted' = posted \cup {Fulfil(c)}
      /\ mc' = IF Fulfil(c) \in posted THEN mc ELSE mc + RechargeAmount[c]
  BY FulfilRechargeStep
<1>2. Debited' = Debited
  BY DEF FulfilRecharge, Debited
<1>3. CASE Fulfil(c) \in posted
  <2>1. Credited' = Credited
    BY <1>1, <1>3 DEF Credited
  <2> QED BY <1>1, <1>2, <1>3, <2>1 DEF BalanceFollows
<1>4. CASE Fulfil(c) \notin posted
  <2>1. c \notin Credited /\ Credited' = Credited \cup {c}
    BY <1>1, <1>4, KeysDiffer DEF Credited
  <2> QED BY <1>1, <1>2, <1>4, <2>1 DEF BalanceFollows
<1> QED BY <1>3, <1>4

LEMMA StepFollows ==
    ASSUME IInv, [Next]_vars
    PROVE  BalanceFollows
<1>1. CASE UNCHANGED vars
  BY <1>1, SetsKept DEF vars
<1>2. ASSUME NEW p \in Procs, NEW r \in Redeems,
             LookupRedeem(p, r) \/ RequestRedeem(p, r) \/ RequestFails(p, r)
      PROVE  BalanceFollows
  BY <1>2, RequestFollows, SetsKept DEF LookupRedeem, RequestFails
<1>3. ASSUME NEW p \in Procs, NEW c \in Recharges,
             \/ \E txid \in BOOLEAN : LookupRecharge(p, c, txid)
             \/ InsertRecharge(p, c) \/ CreateOrder(p, c)
             \/ FetchRecharge(p, c) \/ SaveTxid(p, c)
             \/ FetchPaid(p, c) \/ FulfilRecharge(p, c)
      PROVE  BalanceFollows
  <2>1. CASE FulfilRecharge(p, c)
    BY <2>1, FulfilmentFollows
  <2>2. CASE ~FulfilRecharge(p, c)
    <3>1. UNCHANGED <<mc, posted, redeem, paidOut>>
      BY <1>3, <2>2 DEF LookupRecharge, InsertRecharge, CreateOrder, FetchRecharge,
                        SaveTxid, FetchPaid
    <3> QED BY <3>1, SetsKept
  <2> QED BY <2>1, <2>2
<1>4. ASSUME NEW p \in Procs, LinkOrder(p) \/ CheckClaim(p) \/ Claim(p) \/ Crash(p)
      PROVE  BalanceFollows
  <2>1. CASE Claim(p)
    <3>1. UNCHANGED <<mc, redeem, paidOut>>
      BY <2>1 DEF Claim
    <3>2. \A c \in Recharges : Fulfil(c) \in posted' <=> Fulfil(c) \in posted
      BY <2>1, ClaimStep, KeysDiffer
    <3> QED BY <3>1, <3>2, SetsKept
  <2>2. CASE LinkOrder(p) \/ CheckClaim(p) \/ Crash(p)
    <3>1. UNCHANGED <<mc, posted, redeem, paidOut>>
      BY <2>2 DEF LinkOrder, CheckClaim, Crash
    <3> QED BY <3>1, SetsKept
  <2> QED BY <1>4, <2>1, <2>2
<1>5. ASSUME NEW c \in Recharges, PayOrder(c)
      PROVE  BalanceFollows
  BY <1>5, SetsKept DEF PayOrder
<1>6. CASE Midnight
  BY <1>6, SetsKept DEF Midnight
<1> QED BY <1>1, <1>2, <1>3, <1>4, <1>5, <1>6, DecisionFollows DEF Next

\* request_credit_redeem, approve, reject and complete, fulfill_recharge: the balance
\* moves by the amount of the one recharge that is credited, or the one request that is
\* held or given back, and by nothing else: FundsConserved, step by step.
THEOREM BalanceIsAccountedFor == Spec => [][BalanceFollows]_vars
<1>1. IInv /\ [Next]_vars => [BalanceFollows]_vars
  BY StepFollows
<1> QED BY <1>1, Inductive, PTL DEF Spec

\* The balance adds up, over the finitely many recharges and requests settled so far.
Conserved == FundsConserved /\ IsFiniteSet(Credited) /\ IsFiniteSet(Debited)

LEMMA NothingMoved ==
    ASSUME Init
    PROVE  Conserved
<1>1. Credited = {} /\ Debited = {} /\ mc = 0
  BY DEF Init, Credited, Debited
<1>2. SumOf(RechargeAmount, {}) = 0 /\ SumOf(RedeemAmount, {}) = 0
  BY SumEmpty DEF SumOf
<1> QED BY <1>1, <1>2, FS_EmptySet DEF Conserved, FundsConserved

\* One more recharge credited, or request held: the sums move as the balance does.
LEMMA StepConserves ==
    ASSUME IInv, Conserved, BalanceFollows
    PROVE  Conserved'
<1> DEFINE in == SumOf(RechargeAmount, Credited)
           out == SumOf(RedeemAmount, Debited)
<1>0. /\ IsFiniteSet(Credited) /\ IsFiniteSet(Debited) /\ mc = in - out
      /\ Credited \subseteq Recharges /\ Debited \subseteq Redeems
  BY Types DEF Conserved, FundsConserved, Credited, Debited
<1>1. /\ \A c \in Recharges : RechargeAmount[c] \in Int
      /\ \A r \in Redeems : RedeemAmount[r] \in Int
  BY Types
<1>2. in \in Int /\ out \in Int
  BY <1>0, <1>1, SumRemove DEF SumOf
<1>3. CASE mc' = mc /\ Credited' = Credited /\ Debited' = Debited
  BY <1>0, <1>3 DEF Conserved, FundsConserved
<1>4. ASSUME NEW c \in Recharges \ Credited, mc' = mc + RechargeAmount[c],
             Credited' = Credited \cup {c}, Debited' = Debited
      PROVE  Conserved'
  <2>1. c \notin Credited /\ \A x \in Credited \cup {c} : RechargeAmount[x] \in Int
    BY <1>0, <1>1
  <2>2. SumOf(RechargeAmount, Credited \cup {c}) = in + RechargeAmount[c]
    BY ONLY <1>0, <2>1, SumAdd DEF SumOf
  <2>3. IsFiniteSet(Credited \cup {c})
    BY <1>0, FS_AddElement
  <2>4. mc + RechargeAmount[c] = SumOf(RechargeAmount, Credited \cup {c}) - out
    BY ONLY <1>0, <1>1, <1>2, <2>2, c \in Recharges
  <2> QED BY <1>0, <1>4, <2>3, <2>4 DEF Conserved, FundsConserved
<1>5. ASSUME NEW r \in Redeems \ Debited, mc' = mc - RedeemAmount[r],
             Credited' = Credited, Debited' = Debited \cup {r}
      PROVE  Conserved'
  <2>1. r \notin Debited /\ \A x \in Debited \cup {r} : RedeemAmount[x] \in Int
    BY <1>0, <1>1
  <2>2. SumOf(RedeemAmount, Debited \cup {r}) = out + RedeemAmount[r]
    BY ONLY <1>0, <2>1, SumAdd DEF SumOf
  <2>3. IsFiniteSet(Debited \cup {r})
    BY <1>0, FS_AddElement
  <2>4. mc - RedeemAmount[r] = in - (out + RedeemAmount[r])
    BY ONLY <1>0, <1>1, <1>2, r \in Redeems
  <2> QED BY <1>0, <1>5, <2>2, <2>3, <2>4 DEF Conserved, FundsConserved
<1>6. ASSUME NEW r \in Debited, mc' = mc + RedeemAmount[r],
             Credited' = Credited, Debited' = Debited \ {r}
      PROVE  Conserved'
  <2>1. \A x \in Debited : RedeemAmount[x] \in Int
    BY <1>0, <1>1
  <2>2. IsFiniteSet(Debited \ {r})
    BY <1>0, FS_RemoveElement
  <2>3. out = RedeemAmount[r] + SumOf(RedeemAmount, Debited \ {r})
    BY ONLY <1>0, <2>1, r \in Debited, SumRemove DEF SumOf
  <2>4. SumOf(RedeemAmount, Debited \ {r}) \in Int
    BY <2>1, <2>2, SumRemove DEF SumOf
  <2>5. mc + RedeemAmount[r] = in - SumOf(RedeemAmount, Debited \ {r})
    BY ONLY <1>0, <1>2, <2>1, <2>3, <2>4, r \in Debited
  <2> QED BY <1>0, <1>6, <2>2, <2>5 DEF Conserved, FundsConserved
<1> QED BY <1>3, <1>4, <1>5, <1>6 DEF BalanceFollows

\* request_credit_redeem, the admins' decisions, fulfill_recharge and
\* claim_daily_reward, whatever overlaps or dies: the credit wallet holds what was
\* recharged less what was paid out or is held; a recharge is credited only when paid,
\* and is left without an order only by a crash.
THEOREM CreditIsSound == Spec => []CreditSound
<1>1. Init => IInv /\ Conserved
  BY InvInit, NothingMoved
<1>2. (IInv /\ Conserved) /\ [Next]_vars => (IInv /\ Conserved)'
  BY InvStep, StepFollows, StepConserves
<1>3. IInv /\ Conserved => CreditSound
  BY DEF IInv, OrderIsComing, OrderlessOnlyByCrash, CreditSound, Conserved
<1> QED BY <1>1, <1>2, <1>3, PTL DEF Spec

-----------------------------------------------------------------------------
(* THE SITE'S CONFIGURATION AND ITS NOTIFICATIONS *)

\* A thread's duty, read as a row.
LEMMA DutyTyped ==
    ASSUME PTypeOK, NEW t \in Threads
    PROVE  /\ duty[t].at \in {"idle", "fill", "update", "saved", "call", "send", "answered"}
           /\ Is(t, "fill") => duty[t].row \in PlatformConfig
           /\ duty[t].at \in Updating => duty[t].row \in PlatformConfig /\ duty[t].updated \in SUBSET Fields
           /\ duty[t].at \in {"call", "send", "answered"} => duty[t].key \in Messages
<1>1. duty[t] \in Duty
  BY DEF PTypeOK
<1>2. ASSUME NEW d \in Duty
      PROVE  /\ d.at \in {"idle", "fill", "update", "saved", "call", "send", "answered"}
             /\ d.at = "fill" => d.row \in PlatformConfig
             /\ d.at \in Updating => d.row \in PlatformConfig /\ d.updated \in SUBSET Fields
             /\ d.at \in {"call", "send", "answered"} => d.key \in Messages
  BY DEF Duty, Updating
<1> HIDE DEF Duty
<1> QED BY <1>1, <1>2 DEF Is

\* What it goes on to.
LEMMA DutyMade ==
    /\ Rest \in Duty
    /\ \A r \in PlatformConfig : [at |-> "fill", row |-> r] \in Duty
    /\ \A r \in PlatformConfig, s \in SUBSET Fields : [at |-> "update", updated |-> s, row |-> r] \in Duty
    /\ \A m \in Messages : [at |-> "call", key |-> m] \in Duty
BY DEF Rest, Duty, Updating

LEMMA DutyGoesOn ==
    /\ \A d \in Duty : d.at = "update" =>
         LET n == [d EXCEPT !.at = "saved"]
         IN  n \in Duty /\ n.at = "saved" /\ n.row = d.row /\ n.updated = d.updated
    /\ \A d \in Duty, a \in {"send", "answered"} : d.at \in {"call", "send"} =>
         LET n == [d EXCEPT !.at = a]
         IN  n \in Duty /\ n.at = a /\ n.key = d.key
<1>1. ASSUME NEW d \in Duty, d.at = "update"
      PROVE  LET n == [d EXCEPT !.at = "saved"]
             IN  n \in Duty /\ n.at = "saved" /\ n.row = d.row /\ n.updated = d.updated
  <2>1. d \in [at : Updating, updated : SUBSET Fields, row : PlatformConfig]
    BY <1>1 DEF Duty
  <2> HIDE DEF PlatformConfig
  <2>2. [d EXCEPT !.at = "saved"] \in [at : Updating, updated : SUBSET Fields, row : PlatformConfig]
    BY <2>1 DEF Updating
  <2> QED BY <2>1, <2>2 DEF Duty
<1>2. ASSUME NEW d \in Duty, NEW a \in {"send", "answered"}, d.at \in {"call", "send"}
      PROVE  LET n == [d EXCEPT !.at = a]
             IN  n \in Duty /\ n.at = a /\ n.key = d.key
  <2>1. d \in [at : {"call", "send", "answered"}, key : Messages]
    BY <1>2 DEF Duty, Updating
  <2>2. [d EXCEPT !.at = a] \in [at : {"call", "send", "answered"}, key : Messages]
    BY <2>1
  <2> QED BY <2>1, <2>2 DEF Duty
<1> QED BY <1>1, <1>2

LEMMA OneDuty ==
    ASSUME PTypeOK, NEW t \in Threads, NEW d \in Duty, Do(t, d)
    PROVE  /\ duty' \in [Threads -> Duty] /\ duty'[t] = d
           /\ \A s \in Threads : s # t => duty'[s] = duty[s]
BY DEF PTypeOK, Do

LEMMA PlatformBegins == PInit => PlatformInv
<1> SUFFICES ASSUME PInit PROVE PlatformInv
  OBVIOUS
<1> USE DEF PInit
<1>1. PTypeOK
  <2>1. \A t \in Threads : duty[t] \in Duty
    BY DutyMade
  <2> HIDE DEF Duty
  <2> QED BY <2>1 DEF PTypeOK, PlatformConfig
<1>2. \A t \in Threads : duty[t].at = "idle"
  BY DEF Rest
<1>3. \A t \in Threads : UpdateKnows(t) /\ SendKnows(t)
  BY <1>2 DEF UpdateKnows, SendKnows, Is, Updating
<1>4. CacheKnows /\ QueueKnows
  BY <1>2 DEF CacheKnows, QueueKnows, Is
<1>5. PlatformSound
  BY <1>1 DEF PlatformSound, PTypeOK, PublicConfig
<1> QED BY <1>1, <1>3, <1>4, <1>5 DEF PlatformInv

-----------------------------------------------------------------------------
(* The configuration's half *)

ConfigKnows == CacheKnows /\ (\A t \in Threads : UpdateKnows(t))
ConfigSound ==
    /\ "two updates" \notin incidents => config = latest
    /\ \A f \in Fields : config[f] # 0 => AuditQueryset(f) # {}

\* What the notification service does leaves it alone, whatever it calls an incident.
LEMMA ConfigUntouched ==
    ASSUME PTypeOK, ConfigKnows, UNCHANGED site,
           incidents' \cap {"filled", "two updates"} = incidents \cap {"filled", "two updates"},
           \A t \in Threads : duty'[t] = duty[t] \/ (/\ duty[t].at \notin {"fill", "update", "saved"}
                                                     /\ duty'[t].at \notin {"fill", "update", "saved"})
    PROVE  ConfigKnows'
<1>1. "filled" \notin incidents' => "filled" \notin incidents
  OBVIOUS
<1>2. "two updates" \notin incidents' => "two updates" \notin incidents
  OBVIOUS
<1>3. CacheKnows'
  BY <1>1 DEF ConfigKnows, CacheKnows, site, Is
<1>4. ASSUME NEW t \in Threads PROVE UpdateKnows(t)'
  BY <1>2 DEF ConfigKnows, UpdateKnows, Updating, site, AuditQueryset
<1> QED BY <1>3, <1>4 DEF ConfigKnows

LEMMA LoadConfigKeeps ==
    ASSUME PTypeOK, ConfigKnows, NEW t \in Threads, LoadConfig(t) PROVE PTypeOK' /\ ConfigKnows'
<1>1. config \in PlatformConfig /\ [at |-> "fill", row |-> config] \in Duty
  BY DutyMade DEF PTypeOK
<1>2. /\ duty' \in [Threads -> Duty] /\ duty'[t] = [at |-> "fill", row |-> config]
      /\ \A s \in Threads : s # t => duty'[s] = duty[s]
  <2> DEFINE d == [at |-> "fill", row |-> config]
  <2>1. d \in Duty /\ Do(t, d)
    BY <1>1 DEF LoadConfig
  <2> HIDE DEF d
  <2>2. /\ duty' \in [Threads -> Duty] /\ duty'[t] = d
        /\ \A s \in Threads : s # t => duty'[s] = duty[s]
    BY <2>1, OneDuty
  <2> QED BY <2>2 DEF d
<1>3. UNCHANGED site /\ UNCHANGED notice /\ UNCHANGED incidents /\ duty[t].at = "idle"
  BY DEF LoadConfig, Is
<1>4. PTypeOK'
  BY <1>2, <1>3 DEF PTypeOK, site, notice
<1>5. CacheKnows'
  BY <1>2, <1>3 DEF ConfigKnows, CacheKnows, site, Is
<1>6. ASSUME NEW s \in Threads PROVE UpdateKnows(s)'
  <2>1. \A r \in Threads : duty'[r].at \in Updating => duty'[r] = duty[r]
    BY <1>2 DEF Updating
  <2>2. UpdateKnows(s) /\ UNCHANGED <<config, trail, incidents>>
    BY <1>3 DEF ConfigKnows, site
  <2> QED BY ONLY <2>1, <2>2, s \in Threads DEF UpdateKnows, AuditQueryset
<1> QED BY <1>4, <1>5, <1>6 DEF ConfigKnows

LEMMA StoreConfigKeeps ==
    ASSUME PTypeOK, ConfigKnows, NEW t \in Threads, StoreConfig(t) PROVE PTypeOK' /\ ConfigKnows'
<1>1. /\ duty' \in [Threads -> Duty] /\ duty'[t] = Rest /\ Rest.at = "idle"
      /\ \A s \in Threads : s # t => duty'[s] = duty[s]
  BY OneDuty, DutyMade DEF StoreConfig, Rest
<1>2. /\ UNCHANGED <<config, writer, trail, toggles, edits, latest, notice>>
      /\ Is(t, "fill") /\ cached' = {duty[t].row}
      /\ incidents' = incidents \cup (IF writer # {} THEN {"filled"} ELSE {})
  BY DEF StoreConfig
<1>3. duty[t].row \in PlatformConfig
  BY <1>2, DutyTyped
<1>4. PTypeOK'
  BY <1>1, <1>2, <1>3 DEF PTypeOK, notice
<1>5. CacheKnows'
  <2>1. ASSUME NEW s \in Threads PROVE (Is(s, "saved") <=> writer = {s})'
    BY <1>1, <1>2 DEF ConfigKnows, CacheKnows, Is
  <2>2. writer' \subseteq Threads /\ \A r, s \in writer' : r = s
    BY <1>2 DEF ConfigKnows, CacheKnows
  <2>3. ASSUME "filled" \notin incidents'
        PROVE  /\ cached' \subseteq {config'} /\ (writer' # {} => cached' = {})
               /\ \A s \in Threads : Is(s, "fill")' => duty'[s].row = config'
    <3>1. "filled" \notin incidents /\ writer = {}
      BY <1>2, <2>3
    <3> QED BY <1>1, <1>2, <3>1 DEF ConfigKnows, CacheKnows, Is
  <2> QED BY <2>1, <2>2, <2>3 DEF CacheKnows
<1>6. ASSUME NEW s \in Threads PROVE UpdateKnows(s)'
  BY <1>1, <1>2 DEF ConfigKnows, UpdateKnows, Updating, AuditQueryset
<1> QED BY <1>4, <1>5, <1>6 DEF ConfigKnows

LEMMA ExpireConfigKeeps ==
    ASSUME PTypeOK, ConfigKnows, ExpireConfig PROVE PTypeOK' /\ ConfigKnows'
<1>1. PTypeOK'
  BY DEF ExpireConfig, PTypeOK, notice
<1>2. CacheKnows'
  BY DEF ExpireConfig, ConfigKnows, CacheKnows, Is
<1>3. ASSUME NEW s \in Threads PROVE UpdateKnows(s)'
  BY DEF ExpireConfig, ConfigKnows, UpdateKnows, Updating, AuditQueryset
<1> QED BY <1>1, <1>2, <1>3 DEF ConfigKnows

LEMMA LoadForUpdateKeeps ==
    ASSUME PTypeOK, ConfigKnows, ConfigSound, NEW t \in Threads, LoadForUpdate(t)
    PROVE  PTypeOK' /\ ConfigKnows'
<1>1. PICK change \in UNION {[s -> {0, 1}] : s \in SUBSET Fields \ {{}}} :
        LET updated == {f \in DOMAIN change : change[f] # config[f]}
        IN  Do(t, [at |-> "update", updated |-> updated,
                   row |-> [f \in Fields |-> IF f \in updated THEN change[f] ELSE config[f]]])
  BY DEF LoadForUpdate
<1> DEFINE updated == {f \in DOMAIN change : change[f] # config[f]}
           row == [f \in Fields |-> IF f \in updated THEN change[f] ELSE config[f]]
           d == [at |-> "update", updated |-> updated, row |-> row]
<1>2. updated \in SUBSET Fields /\ row \in PlatformConfig
      /\ \A f \in Fields \ updated : row[f] = config[f]
  BY DEF PTypeOK, PlatformConfig
<1>3. d \in Duty /\ Do(t, d) /\ d.at = "update" /\ d.row = row /\ d.updated = updated
  <2> HIDE DEF row, updated
  <2>1. [at |-> "update", updated |-> updated, row |-> row] \in Duty
    BY <1>2, DutyMade
  <2>2. Do(t, d)
    BY <1>1 DEF row, updated
  <2> QED BY <2>1, <2>2
<1> HIDE DEF d, row, updated
<1>4. /\ duty' \in [Threads -> Duty] /\ duty'[t] = d
      /\ \A s \in Threads : s # t => duty'[s] = duty[s]
  BY <1>3, OneDuty
<1>5. /\ UNCHANGED <<config, writer, cached, trail, toggles, latest, notice>> /\ duty[t].at = "idle"
      /\ incidents' = incidents \cup (IF Some({"update", "saved"}) THEN {"two updates"} ELSE {})
  BY DEF LoadForUpdate, Is
<1>6. PTypeOK'
  BY <1>4, <1>5 DEF PTypeOK, notice
<1>7. CacheKnows'
  BY <1>3, <1>4, <1>5 DEF ConfigKnows, CacheKnows, Is
<1>8. ASSUME NEW s \in Threads, duty'[s].at \in Updating PROVE UpdateKnows(s)'
  <2>1. "two updates" \notin incidents' =>
           "two updates" \notin incidents /\ \A r \in Threads : duty[r].at \notin Updating
    BY <1>5 DEF Some, Updating
  <2>2. CASE s = t
    <3>1. "two updates" \notin incidents' => \A r \in Threads : duty'[r].at \in Updating => r = t
      BY <1>4, <2>1
    <3>2. \A f \in Fields \ updated : row[f] # 0 => AuditQueryset(f)' # {}
      BY <1>2, <1>5 DEF ConfigSound, AuditQueryset
    <3> QED BY <1>2, <1>3, <1>4, <1>5, <2>2, <3>1, <3>2 DEF UpdateKnows
  <2>3. CASE s # t
    <3>1. "two updates" \in incidents'
      BY <1>4, <1>8, <2>1, <2>3
    <3> QED BY <1>4, <1>5, <2>3, <3>1 DEF ConfigKnows, UpdateKnows, AuditQueryset
  <2> QED BY <2>2, <2>3
<1> QED BY <1>6, <1>7, <1>8 DEF ConfigKnows, UpdateKnows

LEMMA SaveConfigKeeps ==
    ASSUME PTypeOK, ConfigKnows, NEW t \in Threads, SaveConfig(t) PROVE PTypeOK' /\ ConfigKnows'
<1> DEFINE d == [duty[t] EXCEPT !.at = "saved"]
<1>1. duty[t] \in Duty /\ duty[t].at = "update"
  BY DEF PTypeOK, SaveConfig, Is
<1>2. d \in Duty /\ d.at = "saved" /\ d.row = duty[t].row /\ d.updated = duty[t].updated
  BY <1>1, DutyGoesOn
<1>3. Do(t, d) /\ writer = {} /\ writer' = {t} /\ cached' = {}
      /\ UNCHANGED <<config, trail, toggles, edits, latest, notice, incidents>>
  BY DEF SaveConfig
<1> HIDE DEF d
<1>4. /\ duty' \in [Threads -> Duty] /\ duty'[t] = d
      /\ \A s \in Threads : s # t => duty'[s] = duty[s]
  BY <1>2, <1>3, OneDuty
<1>5. PTypeOK'
  BY <1>3, <1>4 DEF PTypeOK, notice
<1>6. CacheKnows'
  <2>1. ASSUME NEW s \in Threads PROVE (Is(s, "saved") <=> writer = {s})'
    BY <1>2, <1>3, <1>4 DEF ConfigKnows, CacheKnows, Is
  <2>2. "filled" \notin incidents' => \A s \in Threads : Is(s, "fill")' => duty'[s].row = config'
    BY <1>2, <1>3, <1>4 DEF ConfigKnows, CacheKnows, Is
  <2> QED BY <1>3, <2>1, <2>2 DEF CacheKnows
<1>7. ASSUME NEW s \in Threads PROVE UpdateKnows(s)'
  <2>1. duty'[s].at \in Updating =>
           /\ duty[s].at \in Updating /\ duty'[s].row = duty[s].row /\ duty'[s].updated = duty[s].updated
    BY <1>1, <1>2, <1>4 DEF Updating
  <2>2. \A r \in Threads : duty'[r].at \in Updating => duty[r].at \in Updating
    BY <1>1, <1>2, <1>4 DEF Updating
  <2>3. UpdateKnows(s)
    BY DEF ConfigKnows
  <2> QED BY <1>3, <2>1, <2>2, <2>3 DEF UpdateKnows, AuditQueryset
<1> QED BY <1>5, <1>6, <1>7 DEF ConfigKnows

LEMMA CommitConfigKeeps ==
    ASSUME PTypeOK, ConfigKnows, ConfigSound, NEW t \in Threads, CommitConfig(t)
    PROVE  PTypeOK' /\ ConfigKnows' /\ ConfigSound'
<1> DEFINE updated == duty[t].updated
           row == duty[t].row
           audit == [action |-> "platform.config.update", severity |-> "sensitive", changed |-> updated]
<1>1. /\ duty[t].at = "saved" /\ Do(t, Rest) /\ config' = row /\ writer' = {} /\ cached' = cached
      /\ latest' = [f \in Fields |-> IF f \in updated THEN row[f] ELSE latest[f]]
      /\ trail' = Append(trail, audit) /\ toggles' = toggles + 1
      /\ incidents' = incidents \cup (IF Some({"fill"}) THEN {"filled"} ELSE {})
      /\ UNCHANGED notice
  BY DEF CommitConfig, RecordAudit, Is
<1>2. row \in PlatformConfig /\ updated \in SUBSET Fields
  BY <1>1, DutyTyped DEF Updating
<1>3. audit \in AuditLog /\ audit.changed = updated
  BY <1>2 DEF AuditLog
<1>4. /\ duty' \in [Threads -> Duty] /\ duty'[t].at = "idle"
      /\ \A s \in Threads : s # t => duty'[s] = duty[s]
  BY <1>1, OneDuty, DutyMade DEF Rest
<1>5. writer = {t} /\ UpdateKnows(t) /\ \A s \in Threads : s # t => duty[s].at # "saved"
  BY <1>1 DEF ConfigKnows, CacheKnows, Is
<1> HIDE DEF updated, row, audit
<1>6. PTypeOK'
  <2>1. latest' \in PlatformConfig
    BY <1>1, <1>2 DEF PTypeOK, PlatformConfig
  <2>2. trail' \in Seq(AuditLog) /\ toggles' = Len(trail')
    BY <1>1, <1>3 DEF PTypeOK
  <2> QED BY <1>1, <1>2, <1>4, <2>1, <2>2 DEF PTypeOK, notice
<1>7. \A f \in Fields : /\ AuditQueryset(f) # {} => AuditQueryset(f)' # {}
                        /\ f \in updated => AuditQueryset(f)' # {}
  <2>1. /\ DOMAIN trail' = 1..(Len(trail) + 1) /\ DOMAIN trail = 1..Len(trail) /\ Len(trail) \in Nat
        /\ \A i \in DOMAIN trail : trail'[i] = trail[i]
        /\ trail'[Len(trail) + 1] = audit
    BY <1>1, <1>3 DEF PTypeOK
  <2> QED BY <1>3, <2>1 DEF AuditQueryset
<1>8. CacheKnows'
  <2>1. ASSUME "filled" \notin incidents'
        PROVE  cached' = {} /\ \A s \in Threads : duty'[s].at # "fill"
    <3>1. "filled" \notin incidents /\ \A s \in Threads : duty[s].at # "fill"
      BY <1>1, <2>1 DEF Some
    <3> QED BY <1>1, <1>4, <1>5, <3>1 DEF ConfigKnows, CacheKnows
  <2>2. \A s \in Threads : duty'[s].at # "saved" /\ writer' # {s}
    BY <1>1, <1>4, <1>5
  <2> QED BY <1>1, <2>1, <2>2 DEF CacheKnows, Is
<1>9. ASSUME NEW s \in Threads, duty'[s].at \in Updating PROVE UpdateKnows(s)'
  <2>1. s # t /\ duty'[s] = duty[s] /\ UpdateKnows(s)
    BY <1>4, <1>9 DEF Updating, ConfigKnows
  <2>2. "two updates" \in incidents'
    BY <1>1, <1>9, <2>1 DEF UpdateKnows, Updating
  <2>3. \A f \in Fields \ duty'[s].updated : duty'[s].row[f] # 0 => AuditQueryset(f)' # {}
    BY <1>7, <1>9, <2>1 DEF UpdateKnows
  <2> QED BY <2>2, <2>3 DEF UpdateKnows
<1>10. ConfigSound'
  <2>2. "two updates" \notin incidents' => config' = latest'
    <3> SUFFICES ASSUME "two updates" \notin incidents' PROVE row = latest'
      BY <1>1
    <3>1. config = latest /\ \A f \in Fields \ updated : row[f] = config[f]
      BY <1>1, <1>5 DEF UpdateKnows, ConfigSound, Updating, updated, row
    <3>2. row = [f \in Fields |-> row[f]]
      BY <1>2 DEF PlatformConfig
    <3>3. \A f \in Fields : row[f] = latest'[f]
      BY <1>1, <3>1
    <3> QED BY <1>1, <3>2, <3>3
  <2>3. ASSUME NEW f \in Fields, config'[f] # 0 PROVE AuditQueryset(f)' # {}
    <3>1. row[f] # 0
      BY <1>1, <2>3
    <3>2. f \notin updated => AuditQueryset(f) # {}
      BY <1>1, <1>5, <3>1 DEF UpdateKnows, Updating, updated, row
    <3> QED BY <1>7, <3>2
  <2> QED BY <2>2, <2>3 DEF ConfigSound
<1> QED BY <1>6, <1>8, <1>9, <1>10 DEF ConfigKnows, UpdateKnows

\* A thread that gives up forgets what it had read; nothing was committed.
LEMMA RollBackKeeps ==
    ASSUME PTypeOK, ConfigKnows, NEW t \in Threads, RollBack(t) PROVE PTypeOK' /\ ConfigKnows'
<1>1. /\ duty' \in [Threads -> Duty] /\ duty'[t].at = "idle"
      /\ \A s \in Threads : s # t => duty'[s] = duty[s]
  BY OneDuty, DutyMade DEF RollBack, Rest
<1>2. /\ writer' = writer \ {t}
      /\ UNCHANGED <<config, cached, trail, toggles, edits, latest, notice, incidents>>
  BY DEF RollBack
<1>3. PTypeOK'
  BY <1>1, <1>2 DEF PTypeOK, notice
<1>4. CacheKnows'
  <2>1. ASSUME NEW s \in Threads PROVE Is(s, "saved")' <=> writer' = {s}
    <3>1. Is(s, "saved") <=> writer = {s}
      BY DEF ConfigKnows, CacheKnows
    <3>2. CASE s = t
      BY <1>1, <1>2, <3>2 DEF Is
    <3>3. CASE s # t
      <4>1. writer = {s} => writer' = {s}
        BY <1>2, <3>3
      <4>2. writer' = {s} => writer = {s}
        <5>1. Is(t, "saved") <=> writer = {t}
          BY DEF ConfigKnows, CacheKnows
        <5> SUFFICES ASSUME writer' = {s} PROVE t \notin writer
          BY <1>2, <3>3
        <5>2. \A x, y \in writer : x = y
          BY DEF ConfigKnows, CacheKnows
        <5> QED BY <1>2, <3>3, <5>2
      <4> QED BY <1>1, <3>1, <3>3, <4>1, <4>2 DEF Is
    <3> QED BY <3>2, <3>3
  <2> QED BY <1>1, <1>2, <2>1 DEF ConfigKnows, CacheKnows, Is
<1>5. ASSUME NEW s \in Threads PROVE UpdateKnows(s)'
  <2>1. \A r \in Threads : duty'[r].at \in Updating => duty'[r] = duty[r]
    BY <1>1 DEF Updating
  <2>2. UpdateKnows(s) /\ UNCHANGED <<config, trail, incidents>>
    BY <1>2 DEF ConfigKnows
  <2> QED BY ONLY <2>1, <2>2, s \in Threads DEF UpdateKnows, AuditQueryset
<1> QED BY <1>3, <1>4, <1>5 DEF ConfigKnows

-----------------------------------------------------------------------------
(* The notification's half *)

Quiet == incidents \cap {"restart", "two sends"} = {}
NoticeKnows == QueueKnows /\ (\A t \in Threads : SendKnows(t))
NoticeSound ==
    /\ \A m \in settled : ~guarded /\ queued[m] >= 1
    /\ Quiet => \A m \in Messages : queued[m] <= 1

\* What the configuration does leaves it alone.
LEMMA NoticeUntouched ==
    ASSUME PTypeOK, NoticeKnows, NoticeSound, UNCHANGED notice,
           Quiet' => Quiet,
           \A t \in Threads : duty'[t] = duty[t] \/ duty'[t].at \notin {"send", "answered"}
    PROVE  NoticeKnows' /\ NoticeSound'
<1>1. QueueKnows' /\ NoticeSound'
  BY DEF NoticeKnows, QueueKnows, NoticeSound, notice, Quiet
<1>2. ASSUME NEW t \in Threads PROVE SendKnows(t)'
  BY DEF NoticeKnows, SendKnows, notice, Is, Quiet
<1> QED BY <1>1, <1>2 DEF NoticeKnows

LEMMA ConfigKeepsNotice ==
    ASSUME PTypeOK, NoticeKnows, NoticeSound, PTypeOK', ConfigNext
    PROVE  NoticeKnows' /\ NoticeSound'
<1>1. UNCHANGED notice
  BY DEF ConfigNext, LoadConfig, StoreConfig, ExpireConfig, LoadForUpdate, SaveConfig, CommitConfig,
         RollBack, notice
<1>2. incidents \subseteq incidents'
  BY DEF ConfigNext, LoadConfig, StoreConfig, ExpireConfig, LoadForUpdate, SaveConfig, CommitConfig,
         RollBack
<1>3. ASSUME NEW t \in Threads
      PROVE  duty'[t] = duty[t] \/ duty'[t].at \notin {"send", "answered"}
  <2>1. CASE ExpireConfig
    BY <2>1 DEF ExpireConfig
  <2>2. ASSUME NEW s \in Threads, LoadConfig(s) PROVE duty'[t] = duty[t] \/ duty'[t].at = "fill"
    BY <2>2 DEF LoadConfig, Do, PTypeOK
  <2>3. ASSUME NEW s \in Threads, StoreConfig(s) \/ CommitConfig(s) \/ RollBack(s)
        PROVE  duty'[t] = duty[t] \/ duty'[t].at = "idle"
    BY <2>3 DEF StoreConfig, CommitConfig, RollBack, Do, Rest, PTypeOK
  <2>4. ASSUME NEW s \in Threads, LoadForUpdate(s) PROVE duty'[t] = duty[t] \/ duty'[t].at = "update"
    <3>1. \E d : Do(s, d) /\ d.at = "update"
      <4>1. PICK change \in UNION {[r -> {0, 1}] : r \in SUBSET Fields \ {{}}} :
              LET updated == {f \in DOMAIN change : change[f] # config[f]}
              IN  Do(s, [at |-> "update", updated |-> updated,
                         row |-> [f \in Fields |-> IF f \in updated THEN change[f] ELSE config[f]]])
        BY <2>4 DEF LoadForUpdate
      <4> DEFINE updated == {f \in DOMAIN change : change[f] # config[f]}
                 row == [f \in Fields |-> IF f \in updated THEN change[f] ELSE config[f]]
      <4>2. Do(s, [at |-> "update", updated |-> updated, row |-> row])
        BY <4>1
      <4> HIDE DEF updated, row
      <4> QED BY <4>2
    <3>2. PICK d : Do(s, d) /\ d.at = "update"
      BY <3>1
    <3> QED BY <3>2 DEF Do, PTypeOK
  <2>5. ASSUME NEW s \in Threads, SaveConfig(s) PROVE duty'[t] = duty[t] \/ duty'[t].at = "saved"
    <3>1. Is(s, "update") /\ duty[s] \in Duty /\ Do(s, [duty[s] EXCEPT !.at = "saved"])
      BY <2>5 DEF SaveConfig, PTypeOK
    <3>2. [duty[s] EXCEPT !.at = "saved"].at = "saved"
      BY <3>1, DutyGoesOn DEF Is
    <3> QED BY <3>1, <3>2 DEF Do, PTypeOK
  <2> QED BY <2>1, <2>2, <2>3, <2>4, <2>5 DEF ConfigNext
<1> QED BY <1>1, <1>2, <1>3, NoticeUntouched DEF Quiet

LEMMA SendWelcomeEmailKeeps ==
    ASSUME PTypeOK, ConfigKnows, NoticeKnows, NoticeSound, NEW t \in Threads, SendWelcomeEmail(t)
    PROVE  PTypeOK' /\ ConfigKnows' /\ NoticeKnows' /\ NoticeSound'
<1>1. PICK m \in Messages : Do(t, [at |-> "call", key |-> m])
  BY DEF SendWelcomeEmail
<1> DEFINE d == [at |-> "call", key |-> m]
<1>2. d \in Duty /\ d.at = "call"
  BY DutyMade
<1>3. duty[t].at = "idle" /\ UNCHANGED <<site, guarded, settled, sent, queued, incidents>>
  BY DEF SendWelcomeEmail, Is
<1>d. Do(t, d)
  BY <1>1
<1> HIDE DEF d
<1>4. /\ duty' \in [Threads -> Duty] /\ duty'[t] = d
      /\ \A s \in Threads : s # t => duty'[s] = duty[s]
  BY <1>2, <1>d, OneDuty
<1>5. PTypeOK'
  BY <1>3, <1>4 DEF PTypeOK, site
<1>6. ConfigKnows'
  BY <1>2, <1>3, <1>4, ConfigUntouched
<1>7. QueueKnows' /\ NoticeSound'
  BY <1>3 DEF NoticeKnows, QueueKnows, NoticeSound, Quiet
<1>8. ASSUME NEW s \in Threads PROVE SendKnows(s)'
  BY <1>2, <1>3, <1>4 DEF NoticeKnows, SendKnows, Is
<1> QED BY <1>5, <1>6, <1>7, <1>8 DEF NoticeKnows

\* Nothing is let through where an authorization is asked for: the caller sends none.
LEMMA NotLet == Lets => ~guarded
BY DEF Lets, Metadata

LEMMA SendKeeps ==
    ASSUME PTypeOK, ConfigKnows, NoticeKnows, NoticeSound, NEW t \in Threads, Send(t)
    PROVE  PTypeOK' /\ ConfigKnows' /\ NoticeKnows' /\ NoticeSound'
<1> DEFINE a == IF duty[t].key \in sent THEN "answered" ELSE "send"
           d == [duty[t] EXCEPT !.at = a]
<1>1. duty[t] \in Duty /\ duty[t].at = "call" /\ ~guarded /\ Do(t, d) /\ UNCHANGED <<site, notice>>
      /\ incidents' = incidents \cup
           (IF \E s \in Threads : Is(s, "send") /\ duty[s].key = duty[t].key THEN {"two sends"} ELSE {})
  BY NotLet DEF PTypeOK, Send, Is
<1>2. d \in Duty /\ d.at = a /\ d.key = duty[t].key /\ a \in {"send", "answered"}
  BY <1>1, DutyGoesOn
<1> HIDE DEF d
<1>4. /\ duty' \in [Threads -> Duty] /\ duty'[t] = d
      /\ \A s \in Threads : s # t => duty'[s] = duty[s]
  BY <1>1, <1>2, OneDuty
<1>5. PTypeOK'
  BY <1>1, <1>4 DEF PTypeOK, site, notice
<1>6. ConfigKnows'
  BY <1>1, <1>2, <1>4, ConfigUntouched
<1>7. QueueKnows' /\ NoticeSound'
  BY <1>1 DEF NoticeKnows, QueueKnows, NoticeSound, Quiet, notice
<1>8. ASSUME NEW s \in Threads PROVE SendKnows(s)'
  <2>1. CASE s = t
    <3>1. duty'[t].at = "answered" => queued'[duty'[t].key] >= 1
      BY <1>1, <1>2, <1>4 DEF NoticeKnows, QueueKnows, notice
    <3>2. ASSUME duty'[t].at = "send", incidents' \cap {"restart", "two sends"} = {}
          PROVE  /\ duty'[t].key \notin sent'
                 /\ \A r \in Threads : duty'[r].at = "send" /\ duty'[r].key = duty'[t].key => r = t
      <4>1. duty[t].key \notin sent
        BY <1>2, <1>4, <3>2
      <4>2. \A r \in Threads : ~(duty[r].at = "send" /\ duty[r].key = duty[t].key)
        BY <1>1, <3>2 DEF Is
      <4> QED BY <1>1, <1>2, <1>4, <4>1, <4>2 DEF notice
    <3> QED BY <1>1, <2>1, <3>1, <3>2 DEF SendKnows, Is, notice
  <2>2. CASE s # t
    <3>1. SendKnows(s) /\ duty'[s] = duty[s] /\ UNCHANGED notice
      BY <1>1, <1>4, <2>2 DEF NoticeKnows
    <3>2. ASSUME duty[s].at = "send", incidents' \cap {"restart", "two sends"} = {}
          PROVE  /\ incidents \cap {"restart", "two sends"} = {}
                 /\ \A r \in Threads : duty'[r].at = "send" /\ duty'[r].key = duty[s].key => r = s
      <4>1. incidents \cap {"restart", "two sends"} = {}
        BY <1>1, <3>2
      <4>2. duty[s].key # duty[t].key
        BY <1>1, <3>2 DEF Is
      <4>3. \A r \in Threads : duty[r].at = "send" /\ duty[r].key = duty[s].key => r = s
        BY <3>1, <3>2, <4>1 DEF SendKnows, Is
      <4> QED BY <1>2, <1>4, <2>2, <4>1, <4>2, <4>3
    <3> QED BY <3>1, <3>2 DEF SendKnows, Is, notice
  <2> QED BY <2>1, <2>2
<1> QED BY <1>5, <1>6, <1>7, <1>8 DEF NoticeKnows

LEMMA QueueKeeps ==
    ASSUME PTypeOK, ConfigKnows, NoticeKnows, NoticeSound, NEW t \in Threads, Queue(t)
    PROVE  PTypeOK' /\ ConfigKnows' /\ NoticeKnows' /\ NoticeSound'
<1> DEFINE d == [duty[t] EXCEPT !.at = "answered"]
           k == duty[t].key
<1>1. /\ duty[t] \in Duty /\ duty[t].at = "send" /\ Do(t, d) /\ k \in Messages
      /\ UNCHANGED <<site, guarded, settled, sends, incidents>>
      /\ sent' = sent \cup {k} /\ queued' = [queued EXCEPT ![k] = @ + 1]
  BY DutyTyped DEF PTypeOK, Queue, Is
<1>2. d \in Duty /\ d.at = "answered" /\ d.key = k
  BY <1>1, DutyGoesOn
<1> HIDE DEF d
<1>4. /\ duty' \in [Threads -> Duty] /\ duty'[t] = d
      /\ \A s \in Threads : s # t => duty'[s] = duty[s]
  BY <1>1, <1>2, OneDuty
<1>q. /\ queued \in [Messages -> Nat] /\ queued' \in [Messages -> Nat] /\ queued'[k] = queued[k] + 1
      /\ \A m \in Messages : m # k => queued'[m] = queued[m]
  BY <1>1 DEF PTypeOK
<1>5. PTypeOK'
  BY <1>1, <1>4, <1>q DEF PTypeOK, site
<1>6. ConfigKnows'
  BY <1>1, <1>2, <1>4, ConfigUntouched
<1>8. SendKnows(t) /\ ~guarded
  BY <1>1 DEF NoticeKnows, SendKnows
<1>9. ASSUME Quiet PROVE queued[k] = 0
  BY <1>1, <1>8, <1>9 DEF SendKnows, Is, Quiet, NoticeKnows, QueueKnows
<1> HIDE DEF k
<1>m. sent \subseteq Messages /\ settled \subseteq Messages /\ QueueKnows
  BY DEF PTypeOK, NoticeKnows
<1>10. QueueKnows'
  <2>1. \A m \in sent' : queued'[m] >= 1
    <3>1. k \in Messages /\ sent' = sent \cup {k}
      BY <1>1
    <3>2. \A m \in Messages : queued[m] \in Nat
      BY <1>q
    <3>3. queued'[k] >= 1
      BY <1>q, <3>1, <3>2
    <3>4. \A m \in sent : m \in Messages /\ queued[m] >= 1
      BY <1>m DEF QueueKnows
    <3> QED BY ONLY <1>q, <3>1, <3>3, <3>4
  <2>2. Quiet => \A m \in Messages \ sent' : queued'[m] = 0
    BY ONLY <1>1, <1>q, <1>m DEF QueueKnows, Quiet
  <2> QED BY <1>1, <2>1, <2>2 DEF QueueKnows, Quiet
<1>11. NoticeSound'
  <2>1. \A m \in settled : ~guarded /\ queued'[m] >= 1
    BY ONLY <1>q, <1>m, NoticeSound DEF NoticeSound
  <2>2. Quiet => \A m \in Messages : queued'[m] <= 1
    BY ONLY <1>q, <1>9, NoticeSound DEF NoticeSound
  <2>3. UNCHANGED <<settled, guarded, incidents>>
    BY <1>1
  <2> QED BY <2>1, <2>2, <2>3 DEF NoticeSound, Quiet
<1>12. ASSUME NEW s \in Threads PROVE SendKnows(s)'
  <2>1. CASE s = t
    <3>1. queued'[k] >= 1 /\ ~guarded'
      <4>1. k \in Messages /\ queued[k] \in Nat /\ guarded' = guarded
        BY <1>1, <1>q
      <4> QED BY <1>8, <1>q, <4>1
    <3>2. duty'[s].at = "answered" /\ duty'[s].key = k
      BY <1>2, <1>4, <2>1
    <3> QED BY ONLY <3>1, <3>2 DEF SendKnows, Is
  <2>2. CASE s # t
    <3>1. SendKnows(s) /\ duty'[s] = duty[s] /\ UNCHANGED <<guarded, incidents>>
      BY <1>1, <1>4, <2>2 DEF NoticeKnows
    <3>2. duty[s].at = "answered" => queued'[duty[s].key] >= 1
      <4>1. duty[s].at = "answered" => duty[s].key \in Messages /\ queued[duty[s].key] >= 1
        BY <3>1, DutyTyped DEF SendKnows, Is
      <4> QED BY ONLY <4>1, <1>q
    <3>3. ASSUME duty[s].at = "send", Quiet
          PROVE  /\ duty[s].key \notin sent'
                 /\ \A r \in Threads : duty'[r].at = "send" /\ duty'[r].key = duty[s].key => r = s
      <4>1. /\ duty[s].key \notin sent
            /\ \A r \in Threads : duty[r].at = "send" /\ duty[r].key = duty[s].key => r = s
        BY <3>1, <3>3 DEF SendKnows, Is, Quiet
      <4>2. duty[s].key # k
        BY <1>1, <2>2, <4>1 DEF k
      <4> QED BY <1>1, <1>2, <1>4, <4>1, <4>2
    <3> QED BY <3>1, <3>2, <3>3 DEF SendKnows, Is, Quiet
  <2> QED BY <2>1, <2>2
<1> QED BY <1>5, <1>6, <1>10, <1>11, <1>12 DEF NoticeKnows

LEMMA SettleKeeps ==
    ASSUME PTypeOK, ConfigKnows, NoticeKnows, NoticeSound, NEW t \in Threads, Settle(t)
    PROVE  PTypeOK' /\ ConfigKnows' /\ NoticeKnows' /\ NoticeSound'
<1>1. /\ duty[t].at = "answered" /\ Do(t, Rest) /\ duty[t].key \in Messages
      /\ UNCHANGED <<site, guarded, sent, queued, sends, incidents>>
      /\ settled' = settled \cup {duty[t].key}
  BY DutyTyped DEF Settle, Is
<1>4. /\ duty' \in [Threads -> Duty] /\ duty'[t].at = "idle"
      /\ \A s \in Threads : s # t => duty'[s] = duty[s]
  BY <1>1, OneDuty, DutyMade DEF Rest
<1>5. PTypeOK'
  BY <1>1, <1>4 DEF PTypeOK, site
<1>6. ConfigKnows'
  BY <1>1, <1>4, ConfigUntouched
<1>7. SendKnows(t)
  BY DEF NoticeKnows
<1>8. QueueKnows' /\ NoticeSound'
  BY <1>1, <1>7 DEF NoticeKnows, QueueKnows, NoticeSound, Quiet, SendKnows, Is
<1>9. ASSUME NEW s \in Threads PROVE SendKnows(s)'
  BY <1>1, <1>4 DEF NoticeKnows, SendKnows, Is
<1> QED BY <1>5, <1>6, <1>8, <1>9 DEF NoticeKnows

LEMMA RestartKeeps ==
    ASSUME PTypeOK, ConfigKnows, NoticeKnows, NoticeSound, RestartNotification
    PROVE  PTypeOK' /\ ConfigKnows' /\ NoticeKnows' /\ NoticeSound'
<1>1. /\ sent' = {} /\ UNCHANGED <<site, guarded, settled, queued, sends>>
      /\ incidents' = incidents \cup {"restart"}
  BY DEF RestartNotification
<1>2. /\ \A t \in Threads : duty'[t] = IF Is(t, "send") THEN Rest ELSE duty[t]
      /\ duty' \in [Threads -> Duty]
  BY DutyMade DEF RestartNotification, PTypeOK
<1>3. Rest.at = "idle"
  BY DEF Rest
<1>5. PTypeOK'
  BY <1>1, <1>2 DEF PTypeOK, site
<1>6. ConfigKnows'
  BY <1>1, <1>2, <1>3, ConfigUntouched DEF Is
<1>8. QueueKnows' /\ NoticeSound'
  BY <1>1 DEF NoticeKnows, QueueKnows, NoticeSound, Quiet
<1>9. ASSUME NEW s \in Threads PROVE SendKnows(s)'
  BY <1>1, <1>2, <1>3 DEF NoticeKnows, SendKnows, Is
<1> QED BY <1>5, <1>6, <1>8, <1>9 DEF NoticeKnows

-----------------------------------------------------------------------------
\* The two halves together are the invariant.
LEMMA PlatformInvParts ==
    PlatformInv <=> PTypeOK /\ ConfigKnows /\ ConfigSound /\ NoticeKnows /\ NoticeSound
<1>1. PlatformInv => PTypeOK /\ ConfigKnows /\ ConfigSound /\ NoticeKnows /\ NoticeSound
  BY DEF PlatformInv, ConfigKnows, ConfigSound, NoticeKnows, NoticeSound, PlatformSound, Quiet
<1>2. ASSUME PTypeOK, ConfigKnows, "filled" \notin incidents, writer = {} PROVE PublicConfig = config
  <2>1. cached \subseteq {config}
    BY <1>2 DEF ConfigKnows, CacheKnows
  <2>2. cached # {} => (CHOOSE c \in cached : TRUE) \in cached
    OBVIOUS
  <2> QED BY <2>1, <2>2 DEF PublicConfig
<1>3. ASSUME PTypeOK, ConfigKnows, ConfigSound, NoticeKnows, NoticeSound PROVE PlatformInv
  <2>1. /\ config \in PlatformConfig /\ (\A c \in cached : c \in PlatformConfig)
        /\ trail \in Seq(AuditLog) /\ toggles = Len(trail)
    BY <1>3 DEF PTypeOK
  <2>2. PlatformSound
    BY <1>2, <1>3, <2>1 DEF PlatformSound, ConfigSound, NoticeSound, Quiet
  <2> QED BY <1>3, <2>2 DEF PlatformInv, ConfigKnows, NoticeKnows
<1> QED BY <1>1, <1>3

LEMMA PlatformStep ==
    ASSUME PTypeOK, ConfigKnows, ConfigSound, NoticeKnows, NoticeSound, [PNext]_pvars
    PROVE  PTypeOK' /\ ConfigKnows' /\ ConfigSound' /\ NoticeKnows' /\ NoticeSound'
<1>s. UNCHANGED <<config, latest, trail>> /\ incidents \subseteq incidents' => ConfigSound'
  BY DEF ConfigSound, AuditQueryset
<1>1. CASE ConfigNext
  <2>1. PTypeOK' /\ ConfigKnows' /\ ConfigSound'
    <3>1. CASE \E t \in Threads : LoadConfig(t)
      BY <1>s, <3>1, LoadConfigKeeps DEF LoadConfig, site
    <3>2. CASE \E t \in Threads : StoreConfig(t)
      BY <1>s, <3>2, StoreConfigKeeps DEF StoreConfig
    <3>3. CASE ExpireConfig
      BY <1>s, <3>3, ExpireConfigKeeps DEF ExpireConfig
    <3>4. CASE \E t \in Threads : LoadForUpdate(t)
      BY <1>s, <3>4, LoadForUpdateKeeps DEF LoadForUpdate
    <3>5. CASE \E t \in Threads : SaveConfig(t)
      BY <1>s, <3>5, SaveConfigKeeps DEF SaveConfig
    <3>6. CASE \E t \in Threads : CommitConfig(t)
      BY <3>6, CommitConfigKeeps
    <3>7. CASE \E t \in Threads : RollBack(t)
      BY <1>s, <3>7, RollBackKeeps DEF RollBack
    <3> QED BY <1>1, <3>1, <3>2, <3>3, <3>4, <3>5, <3>6, <3>7 DEF ConfigNext
  <2> QED BY <1>1, <2>1, ConfigKeepsNotice
<1>2. CASE NoticeNext
  <2>1. CASE \E t \in Threads : SendWelcomeEmail(t)
    BY <1>s, <2>1, SendWelcomeEmailKeeps DEF SendWelcomeEmail, site
  <2>2. CASE \E t \in Threads : Send(t)
    BY <1>s, <2>2, SendKeeps DEF Send, site
  <2>3. CASE \E t \in Threads : Queue(t)
    BY <1>s, <2>3, QueueKeeps DEF Queue, site
  <2>4. CASE \E t \in Threads : Settle(t)
    BY <1>s, <2>4, SettleKeeps DEF Settle, site
  <2>5. CASE \E t \in Threads : RollBack(t)
    <3>1. ConfigNext
      BY <2>5 DEF ConfigNext
    <3> QED BY <1>1, <3>1
  <2>6. CASE RestartNotification
    BY <1>s, <2>6, RestartKeeps DEF RestartNotification, site
  <2> QED BY <1>2, <2>1, <2>2, <2>3, <2>4, <2>5, <2>6 DEF NoticeNext
<1>3. CASE UNCHANGED pvars
  <2>1. UNCHANGED site /\ UNCHANGED notice /\ UNCHANGED <<duty, incidents>>
    BY <1>3 DEF pvars, site, notice
  <2>2. PTypeOK'
    BY <2>1 DEF PTypeOK, site, notice
  <2>3. ConfigKnows'
    BY <2>1, ConfigUntouched
  <2>4. NoticeKnows' /\ NoticeSound'
    BY <2>1, NoticeUntouched DEF Quiet
  <2> QED BY <1>s, <2>1, <2>2, <2>3, <2>4 DEF site
<1> QED BY <1>1, <1>2, <1>3 DEF PNext

\* The strengthened invariant of the configuration and the notifications holds throughout.
THEOREM PlatformInductive == PSpec => []PlatformInv
<1> DEFINE Parts == PTypeOK /\ ConfigKnows /\ ConfigSound /\ NoticeKnows /\ NoticeSound
<1>1. PInit => Parts
  BY PlatformBegins, PlatformInvParts
<1>2. Parts /\ [PNext]_pvars => Parts'
  BY PlatformStep
<1>3. Parts => PlatformInv
  BY PlatformInvParts
<1> HIDE DEF Parts
<1> QED BY <1>1, <1>2, <1>3, PTL DEF PSpec

\* get_platform_config, update_config, record_audit and the welcome e-mail, for any number of
\* threads, fields, messages and bounds: what is shown is what is committed, no update undoes
\* another's field, the audit trail has each change, and each e-mail is queued once - but for
\* the overlaps that PlatformSound names.
THEOREM PlatformIsSound == PSpec => []PlatformSound
<1>1. PlatformInv => PlatformSound
  BY DEF PlatformInv
<1> QED BY PlatformInductive, <1>1, PTL

-----------------------------------------------------------------------------
(* ENGAGEMENT: requests and their steps *)

\* A request that begins, goes on or is done.
LEMMA TaskMade ==
    /\ Free \in Task
    /\ \A op \in {"mark", "unmark", "comment", "view", "share"}, t \in Targets, u \in Users :
         [op |-> op, target |-> t, user |-> u, at |-> "row", saw |-> Empty] \in Task
    /\ \A op \in {"follow", "unfollow"}, v \in Users, u \in Users, s \in [target : Nat, follower : Nat] :
         [op |-> op, target |-> v, user |-> u, at |-> "row", saw |-> s] \in Task
    /\ \A s \in [counts : Video, active : BOOLEAN, visibility : {"public", "private"}] :
         [op |-> "update", target |-> "video", user |-> "owner", at |-> "row", saw |-> s] \in Task
<1>1. Free \in Task
  BY DEF Free, Task, Targets
<1>2. ASSUME NEW op \in {"mark", "unmark", "comment", "view", "share"}, NEW t \in Targets, NEW u \in Users
      PROVE  [op |-> op, target |-> t, user |-> u, at |-> "row", saw |-> Empty] \in Task
  BY DEF Task
<1>3. ASSUME NEW op \in {"follow", "unfollow"}, NEW v \in Users, NEW u \in Users,
             NEW s \in [target : Nat, follower : Nat]
      PROVE  [op |-> op, target |-> v, user |-> u, at |-> "row", saw |-> s] \in Task
  BY DEF Task
<1>4. ASSUME NEW s \in [counts : Video, active : BOOLEAN, visibility : {"public", "private"}]
      PROVE  [op |-> "update", target |-> "video", user |-> "owner", at |-> "row", saw |-> s] \in Task
  BY DEF Task, Targets
<1> QED BY <1>1, <1>2, <1>3, <1>4

LEMMA TaskGoesOn ==
    ASSUME NEW r \in Task, NEW phase \in {"count", "tell"}
    PROVE  LET n == [r EXCEPT !.at = phase]
           IN  n \in Task /\ n.op = r.op /\ n.target = r.target /\ n.user = r.user /\ n.saw = r.saw
               /\ n.at = phase
<1> DEFINE Saws == {Empty} \cup [counts : Video, active : BOOLEAN, visibility : {"public", "private"}]
                     \cup [target : Nat, follower : Nat]
           Ops == {"none", "mark", "unmark", "comment", "view", "share", "update", "follow", "unfollow"}
           Ts == Targets \cup Users
           Us == Users \cup {"owner", "nobody"}
<1> HIDE DEF Saws, Ops, Ts, Us
<1>1. Task = [op : Ops, target : Ts, user : Us, at : {"idle", "row", "count", "tell"}, saw : Saws]
  BY DEF Task, Saws, Ops, Ts, Us
<1> QED BY <1>1

\* What a step of one request does to the tasks.
Moves(p) == task' \in [Handlers -> Task] /\ \A q \in Handlers : q # p => task'[q] = task[q]

LEMMA OneTask ==
    ASSUME task \in [Handlers -> Task], NEW p \in Handlers, NEW r \in Task, task' = [task EXCEPT ![p] = r]
    PROVE  Moves(p) /\ task'[p] = r
BY DEF Moves

LEMMA Advances ==
    ASSUME task \in [Handlers -> Task], NEW p \in Handlers, NEW phase \in {"count", "tell"}, Advance(p, phase)
    PROVE  /\ Moves(p) /\ task'[p].at = phase /\ task'[p].op = task[p].op
           /\ task'[p].target = task[p].target /\ task'[p].user = task[p].user
<1> DEFINE r == [task[p] EXCEPT !.at = phase]
<1>1. task[p] \in Task
  OBVIOUS
<1>2. /\ r \in Task /\ r.op = task[p].op /\ r.target = task[p].target /\ r.user = task[p].user
      /\ r.at = phase
  BY <1>1, TaskGoesOn
<1>3. task' = [task EXCEPT ![p] = r]
  BY DEF Advance
<1> HIDE DEF r
<1>4. Moves(p) /\ task'[p] = r
  BY <1>2, <1>3, OneTask
<1> QED BY <1>2, <1>4

LEMMA Finishes ==
    ASSUME task \in [Handlers -> Task], NEW p \in Handlers, Finish(p)
    PROVE  Moves(p) /\ task'[p] = Free /\ task'[p].op = "none" /\ task'[p].at = "idle"
BY TaskMade, OneTask DEF Finish, Free

\* The requests that still have to count.
LEMMA CountMoves ==
    ASSUME EngagementAssumption, NEW p \in Handlers, Moves(p), NEW t, NEW op
    PROVE  /\ Cardinality(Counting(t, op)) \in Nat /\ Cardinality(Counting(t, op)') \in Nat
           /\ IsFiniteSet(Counting(t, op)) /\ IsFiniteSet(Counting(t, op)')
           /\ (In(p, op, t, "count") <=> In(p, op, t, "count")') => Counting(t, op)' = Counting(t, op)
           /\ ~In(p, op, t, "count") /\ In(p, op, t, "count")' =>
                /\ Counting(t, op)' = Counting(t, op) \cup {p}
                /\ Cardinality(Counting(t, op)') = Cardinality(Counting(t, op)) + 1
           /\ In(p, op, t, "count") /\ ~In(p, op, t, "count")' =>
                /\ Counting(t, op)' = Counting(t, op) \ {p}
                /\ Cardinality(Counting(t, op)') = Cardinality(Counting(t, op)) - 1
<1> DEFINE A == Counting(t, op)
           B == Counting(t, op)'
<1>1. A \subseteq Handlers /\ B \subseteq Handlers
  BY DEF Counting
<1>2. IsFiniteSet(A) /\ IsFiniteSet(B) /\ Cardinality(A) \in Nat /\ Cardinality(B) \in Nat
  BY <1>1, FS_Subset, FS_CardinalityType DEF EngagementAssumption
<1>3. \A q \in Handlers : q # p => (q \in A <=> q \in B)
  BY DEF Counting, In, Moves
<1>4. /\ p \in A <=> In(p, op, t, "count")
      /\ p \in B <=> In(p, op, t, "count")'
  BY DEF Counting
<1> HIDE DEF A, B
<1>5. ASSUME p \in A <=> p \in B PROVE A = B
  <2>1. \A q \in Handlers : q \in A <=> q \in B
    BY <1>3, <1>5
  <2> QED BY <1>1, <2>1
<1>6. p \notin A /\ p \in B => B = A \cup {p} /\ Cardinality(B) = Cardinality(A) + 1
  BY <1>1, <1>2, <1>3, FS_AddElement
<1>7. p \in A /\ p \notin B => B = A \ {p} /\ Cardinality(B) = Cardinality(A) - 1
  BY <1>1, <1>2, <1>3, FS_RemoveElement
<1> QED BY <1>2, <1>4, <1>5, <1>6, <1>7 DEF A, B

-----------------------------------------------------------------------------
(* What a step leaves alone *)

CountsMark(p) == task[p].op \in {"mark", "unmark"} /\ task[p].at = "count"
CountsView(p) == task[p].op \in {"view", "share"} /\ task[p].at = "count"
Follows(p) == task[p].op \in {"follow", "unfollow"}
Locks(p) == task[p].op = "update" \/ (task[p].op = "comment" /\ task[p].target = "video")
Works(p) == task[p].op \in {"mark", "unmark"} /\ task[p].at \in {"count", "tell"}

LEMMA LikesFrame ==
    ASSUME EngagementAssumption, NEW p \in Handlers, Moves(p), NEW t \in Targets, LikesKnow(t),
           mishaps \subseteq mishaps', UNCHANGED marks, counts'[t].like = counts[t].like,
           ~CountsMark(p), ~CountsMark(p)'
    PROVE  LikesKnow(t)'
<1>1. ASSUME NEW op \in {"mark", "unmark"} PROVE Counting(t, op)' = Counting(t, op)
  BY CountMoves DEF CountsMark, In
<1>2. Counting(t, "mark")' = Counting(t, "mark") /\ Counting(t, "unmark")' = Counting(t, "unmark")
  BY <1>1
<1>3. \A q \in Counting(t, "mark") : task'[q] = task[q]
  BY DEF Counting, In, CountsMark, Moves
<1> QED BY <1>2, <1>3 DEF LikesKnow

LEMMA ViewsFrame ==
    ASSUME EngagementAssumption, NEW p \in Handlers, Moves(p), NEW t \in Targets, ViewsKnow(t),
           mishaps \subseteq mishaps', UNCHANGED <<views, shares>>,
           counts'[t].view = counts[t].view, counts'[t].share = counts[t].share,
           ~CountsView(p), ~CountsView(p)'
    PROVE  ViewsKnow(t)'
<1>1. ASSUME NEW op \in {"view", "share"} PROVE Counting(t, op)' = Counting(t, op)
  BY CountMoves DEF CountsView, In
<1>2. Counting(t, "view")' = Counting(t, "view") /\ Counting(t, "share")' = Counting(t, "share")
  BY <1>1
<1> QED BY <1>2 DEF ViewsKnow

LEMMA CommentsFrame ==
    ASSUME CommentsKnow, UNCHANGED comments, \A t \in Targets : counts'[t].comment = counts[t].comment
    PROVE  CommentsKnow'
BY DEF CommentsKnow, On, Replies

LEMMA FollowsFrame ==
    ASSUME NEW p \in Handlers, Moves(p), FollowsKnow, mishaps \subseteq mishaps', UNCHANGED people,
           ~Follows(p)'
    PROVE  FollowsKnow'
<1> SUFFICES ASSUME "stale" \notin mishaps' PROVE FollowsKnow'
  BY DEF FollowsKnow
<1>1. "stale" \notin mishaps
  OBVIOUS
<1>2. ASSUME NEW q \in Handlers PROVE FollowKnows(q)'
  <2>1. CASE q = p
    BY <2>1 DEF FollowKnows, Follows
  <2>2. CASE q # p
    <3>1. FollowKnows(q) /\ task'[q] = task[q]
      BY <1>1, <2>2 DEF FollowsKnow, Moves
    <3>2. \A r \in Handlers : task'[r] = task[r] \/ task'[r].op \notin {"follow", "unfollow"}
      BY DEF Moves, Follows
    <3> QED BY <3>1, <3>2 DEF FollowKnows, Other, Counters, people
  <2> QED BY <2>1, <2>2
<1> QED BY <1>1, <1>2 DEF FollowsKnow, people, FollowersOf, FollowingIds

LEMMA EventsFrame ==
    ASSUME NEW p \in Handlers, Moves(p), EventsKnow, mishaps \subseteq mishaps', UNCHANGED marking,
           \/ ~Works(p) /\ ~Works(p)'
           \/ /\ Works(p) /\ Works(p)' /\ task'[p].op = task[p].op
              /\ task'[p].target = task[p].target /\ task'[p].user = task[p].user
    PROVE  EventsKnow'
<1> SUFFICES ASSUME mishaps' = {}, NEW m \in Targets \X Users
             PROVE  /\ Working(m)' = {} => Told(m)'
                    /\ \A q \in Handlers : Working(m)' = {q} => Telling(q)'
  BY DEF EventsKnow
<1>1. Working(m)' = Working(m)
  BY DEF Working, Works, Mark, Moves
<1>2. /\ Working(m) = {} => Told(m)
      /\ \A q \in Handlers : Working(m) = {q} => Telling(q)
  BY DEF EventsKnow
<1>3. Told(m) => Told(m)'
  BY DEF Told, marking
<1>4. ASSUME NEW q \in Handlers, Working(m) = {q}, Telling(q) PROVE Telling(q)'
  <2>1. q \in Working(m)
    BY <1>4
  <2>2. task'[q].op = task[q].op /\ task'[q].target = task[q].target /\ task'[q].user = task[q].user
    BY <2>1 DEF Working, Works, Moves
  <2> QED BY <1>4, <2>2 DEF Telling, Mark, marking
<1> QED BY <1>1, <1>2, <1>3, <1>4

LEMMA LockFrame ==
    ASSUME NEW p \in Handlers, Moves(p), \A q \in Handlers : LockKnows(q), UNCHANGED holder,
           counts'["video"] = counts["video"], active'["video"] = active["video"], UNCHANGED visibility,
           ~Locks(p)'
    PROVE  \A q \in Handlers : LockKnows(q)'
<1> SUFFICES ASSUME NEW q \in Handlers PROVE LockKnows(q)'
  OBVIOUS
<1>1. CASE q = p
  BY <1>1 DEF LockKnows, Locks
<1>2. CASE q # p
  <2>1. LockKnows(q) /\ task'[q] = task[q]
    BY <1>2 DEF Moves
  <2> QED BY <2>1 DEF LockKnows, OwnedVideo
<1> QED BY <1>1, <1>2

\* The parts of the invariant that are about rows and counters.
RowsKnow ==
    /\ CommentsKnow /\ FollowsKnow /\ EventsKnow
    /\ \A t \in Targets : LikesKnow(t) /\ ViewsKnow(t)
LocksKnow == \A p \in Handlers : LockKnows(p)

LEMMA InvParts == EngagementInv <=> GTypeOK /\ TasksTyped /\ RowsKnow /\ LocksKnow
BY DEF EngagementInv, RowsKnow, LocksKnow

\* A request that is not between a row and what follows it.
Outside(p) == task[p].op \notin {"mark", "unmark", "view", "share"} \/ task[p].at \notin {"count", "tell"}

LEMMA RowsFrame ==
    ASSUME EngagementAssumption, RowsKnow, NEW p \in Handlers, Moves(p),
           UNCHANGED <<counts, marking, talk, people>>, mishaps \subseteq mishaps',
           Outside(p), Outside(p)', ~Follows(p)'
    PROVE  RowsKnow'
<1>1. UNCHANGED <<marks, views, shares, comments, people, marking>>
  BY DEF marking, talk
<1>2. ~CountsMark(p) /\ ~CountsMark(p)' /\ ~CountsView(p) /\ ~CountsView(p)' /\ ~Works(p) /\ ~Works(p)'
  BY DEF CountsMark, CountsView, Works, Outside
<1>3. CommentsKnow'
  BY <1>1, CommentsFrame DEF RowsKnow
<1>4. FollowsKnow'
  BY <1>1, FollowsFrame DEF RowsKnow
<1>5. EventsKnow'
  BY <1>1, <1>2, EventsFrame DEF RowsKnow
<1>6. ASSUME NEW t \in Targets PROVE LikesKnow(t)' /\ ViewsKnow(t)'
  <2>1. LikesKnow(t) /\ ViewsKnow(t)
    BY DEF RowsKnow
  <2> QED BY <1>1, <1>2, <2>1, LikesFrame, ViewsFrame
<1> QED BY <1>3, <1>4, <1>5, <1>6 DEF RowsKnow

\* Nothing that the rows' part is about moves.
LEMMA RowsStill ==
    ASSUME RowsKnow, UNCHANGED <<task, counts, marking, talk, people, mishaps>>
    PROVE  RowsKnow'
<1>1. UNCHANGED <<task, counts, marks, told, keys, times, comments, views, shares, follows, followers,
                  following, mishaps>>
  BY DEF marking, talk, people
<1>2. CommentsKnow'
  BY <1>1, CommentsFrame DEF RowsKnow
<1>3. FollowsKnow'
  BY <1>1 DEF RowsKnow, FollowsKnow, FollowKnows, Other, Counters, FollowersOf, FollowingIds
<1>4. EventsKnow'
  BY <1>1 DEF RowsKnow, EventsKnow, Working, Told, Telling, Mark
<1>5. ASSUME NEW t \in Targets PROVE LikesKnow(t)' /\ ViewsKnow(t)'
  <2>1. LikesKnow(t) /\ ViewsKnow(t)
    BY DEF RowsKnow
  <2>2. \A op : Counting(t, op)' = Counting(t, op)
    BY <1>1 DEF Counting, In
  <2>3. LikesKnow(t)'
    BY <1>1, <2>1, <2>2 DEF LikesKnow
  <2>4. ViewsKnow(t)'
    BY <1>1, <2>1, <2>2 DEF ViewsKnow
  <2> QED BY <2>3, <2>4
<1> QED BY <1>2, <1>3, <1>4, <1>5 DEF RowsKnow

LEMMA TasksFrame ==
    ASSUME TasksTyped, NEW p \in Handlers, Moves(p), TaskTyped(p)',
           minute' \in 0..MaxMinutes, IsFiniteSet(views'), UNCHANGED <<told, keys, times>>
    PROVE  TasksTyped'
<1>1. ASSUME NEW q \in Handlers PROVE TaskTyped(q)'
  <2>1. CASE q = p
    BY <2>1
  <2>2. CASE q # p
    <3>1. TaskTyped(q) /\ task'[q] = task[q]
      BY <2>2 DEF TasksTyped, Moves
    <3> QED BY <3>1 DEF TaskTyped
  <2> QED BY <2>1, <2>2
<1> QED BY <1>1 DEF TasksTyped, Moves

\* What every step may count on.
LEMMA Typed ==
    ASSUME EngagementAssumption, EngagementInv
    PROVE  /\ GTypeOK /\ TasksTyped /\ RowsKnow /\ LocksKnow /\ task \in [Handlers -> Task]
           /\ topic \in Topics /\ MaxMade[topic] \in Nat /\ spent \in 0..MaxMade[topic]
           /\ minute \in 0..MaxMinutes /\ IsFiniteSet(views)
BY InvParts DEF GTypeOK, TasksTyped, EngagementAssumption

LEMMA ArrivesInBounds ==
    ASSUME EngagementAssumption, EngagementInv, NEW p \in Handlers, NEW group, Arrives(p, group)
    PROVE  spent' \in 0..MaxMade[topic] /\ task[p].op = "none"
BY Typed DEF Arrives

-----------------------------------------------------------------------------
(* Requests that begin *)

LEMMA StartMoves ==
    ASSUME EngagementAssumption, EngagementInv, NEW p \in Handlers, NEW group,
           NEW op \in {"mark", "unmark", "comment", "view", "share"}, NEW t \in Targets,
           Starts(p, group, op, t)
    PROVE  /\ Moves(p) /\ TaskTyped(p)' /\ task'[p].op = op /\ task'[p].target = t /\ task'[p].at = "row"
           /\ task[p].op = "none" /\ spent' \in 0..MaxMade[topic] /\ Seen(t)
           /\ UNCHANGED clock /\ UNCHANGED shown /\ UNCHANGED <<counts, marking, talk, people, mishaps>>
<1>1. PICK u \in Users : Take(p, op, t, u, Empty)
  BY DEF Starts
<1> DEFINE r == [op |-> op, target |-> t, user |-> u, at |-> "row", saw |-> Empty]
<1>2. r \in Task /\ r.op = op /\ r.target = t /\ r.at = "row" /\ r.user = u
  BY TaskMade
<1>3. task' = [task EXCEPT ![p] = r]
  BY <1>1 DEF Take
<1> HIDE DEF r
<1>4. Moves(p) /\ task'[p] = r
  BY <1>2, <1>3, Typed, OneTask
<1>5. TaskTyped(p)'
  BY <1>2, <1>4 DEF TaskTyped
<1>6. /\ Arrives(p, group) /\ Seen(t)
      /\ UNCHANGED clock /\ UNCHANGED shown /\ UNCHANGED <<counts, marking, talk, people, mishaps>>
  BY DEF Starts
<1> QED BY <1>2, <1>4, <1>5, <1>6, ArrivesInBounds

\* The rows and the types after a request has begun.
LEMMA StartKeepsRows ==
    ASSUME EngagementAssumption, EngagementInv, NEW p \in Handlers, NEW group,
           NEW op \in {"mark", "unmark", "comment", "view", "share"}, NEW t \in Targets,
           Starts(p, group, op, t)
    PROVE  GTypeOK' /\ TasksTyped' /\ RowsKnow'
<1>1. /\ Moves(p) /\ TaskTyped(p)' /\ task'[p].op = op /\ task'[p].at = "row" /\ task[p].op = "none"
      /\ spent' \in 0..MaxMade[topic]
      /\ UNCHANGED clock /\ UNCHANGED shown /\ UNCHANGED <<counts, marking, talk, people, mishaps>>
  BY StartMoves
<1>2. GTypeOK'
  BY <1>1, Typed DEF GTypeOK, clock, shown, marking, talk, people
<1>3. TasksTyped'
  BY <1>1, Typed, TasksFrame DEF clock, marking, talk
<1>4. RowsKnow'
  BY <1>1, Typed, RowsFrame DEF Follows, Outside
<1> QED BY <1>2, <1>3, <1>4

LEMMA StartKeeps ==
    ASSUME EngagementAssumption, EngagementInv, NEW p \in Handlers, NEW group,
           NEW op \in {"mark", "unmark", "comment", "view", "share"}, NEW t \in Targets,
           op = "comment" => t = "series", Starts(p, group, op, t), UNCHANGED holder
    PROVE  EngagementInv'
<1>1. /\ Moves(p) /\ task'[p].op = op /\ task'[p].target = t
      /\ UNCHANGED shown /\ UNCHANGED <<counts, marking, talk, people, mishaps>>
  BY StartMoves
<1>2. ~Locks(p)'
  BY <1>1 DEF Locks
<1>3. LocksKnow'
  BY <1>1, <1>2, Typed, LockFrame DEF shown, LocksKnow
<1> QED BY <1>3, StartKeepsRows DEF EngagementInv, RowsKnow, LocksKnow

LEMMA CommentVideoBegins ==
    ASSUME EngagementAssumption, EngagementInv, NEW p \in Handlers,
           Starts(p, "comments", "comment", "video"), holder = "none", holder' = p
    PROVE  EngagementInv'
<1>0. "video" \in Targets
  BY DEF Targets
<1>1. /\ Moves(p) /\ task'[p].op = "comment" /\ task'[p].target = "video" /\ Seen("video")
      /\ UNCHANGED shown /\ UNCHANGED <<counts, marking, talk, people, mishaps>>
  BY <1>0, StartMoves
<1>2. ASSUME NEW q \in Handlers PROVE LockKnows(q)'
  <2>1. CASE q = p
    BY <1>1, <2>1 DEF LockKnows, Seen, GetActiveVideo, shown
  <2>2. CASE q # p
    BY <1>1, <2>2, Typed DEF LocksKnow, LockKnows, Moves, EngagementAssumption
  <2> QED BY <2>1, <2>2
<1> QED BY <1>0, <1>2, StartKeepsRows DEF EngagementInv, RowsKnow

-----------------------------------------------------------------------------
(* Marks *)

LEMMA FieldChanged ==
    ASSUME NEW r \in Video, NEW n \in Nat
    PROVE  /\ LET v == [r EXCEPT !.like = n]
              IN  v \in Video /\ v.like = n /\ v.comment = r.comment /\ v.view = r.view /\ v.share = r.share
           /\ LET v == [r EXCEPT !.comment = n]
              IN  v \in Video /\ v.comment = n /\ v.like = r.like /\ v.view = r.view /\ v.share = r.share
           /\ LET v == [r EXCEPT !.view = n]
              IN  v \in Video /\ v.view = n /\ v.like = r.like /\ v.comment = r.comment /\ v.share = r.share
           /\ LET v == [r EXCEPT !.share = n]
              IN  v \in Video /\ v.share = n /\ v.like = r.like /\ v.comment = r.comment /\ v.view = r.view
BY DEF Video

\* A counter goes up by one, and nothing else.
LEMMA Bumped ==
    ASSUME GTypeOK, NEW t \in Targets, NEW field \in {"like", "comment", "view", "share"}, Bump(t, field)
    PROVE  /\ counts' \in [Targets -> Video] /\ \A s \in Targets : s # t => counts'[s] = counts[s]
           /\ counts'[t].like = counts[t].like + (IF field = "like" THEN 1 ELSE 0)
           /\ counts'[t].comment = counts[t].comment + (IF field = "comment" THEN 1 ELSE 0)
           /\ counts'[t].view = counts[t].view + (IF field = "view" THEN 1 ELSE 0)
           /\ counts'[t].share = counts[t].share + (IF field = "share" THEN 1 ELSE 0)
<1> DEFINE r == counts[t]
<1>1. counts \in [Targets -> Video] /\ r \in Video
  BY DEF GTypeOK
<1>2. /\ r.like \in Nat /\ r.comment \in Nat /\ r.view \in Nat /\ r.share \in Nat
      /\ r.like + 1 \in Nat /\ r.comment + 1 \in Nat /\ r.view + 1 \in Nat /\ r.share + 1 \in Nat
  BY <1>1 DEF Video
<1>3. ASSUME NEW v \in Video, counts' = [counts EXCEPT ![t] = v]
      PROVE  counts' \in [Targets -> Video] /\ counts'[t] = v
             /\ \A s \in Targets : s # t => counts'[s] = counts[s]
  BY <1>1, <1>3
<1>4. CASE field = "like"
  <2> DEFINE v == [r EXCEPT !.like = r.like + 1]
  <2>1. counts' = [counts EXCEPT ![t] = v]
    BY <1>4 DEF Bump
  <2>2. /\ v \in Video /\ v.like = r.like + 1 /\ v.comment = r.comment /\ v.view = r.view
        /\ v.share = r.share
    BY <1>1, <1>2, FieldChanged
  <2> HIDE DEF v
  <2>3. /\ counts' \in [Targets -> Video] /\ counts'[t] = v
        /\ \A s \in Targets : s # t => counts'[s] = counts[s]
    BY <1>3, <2>1, <2>2
  <2> QED BY ONLY <1>2, <1>4, <2>2, <2>3
<1>5. CASE field = "comment"
  <2> DEFINE v == [r EXCEPT !.comment = r.comment + 1]
  <2>1. counts' = [counts EXCEPT ![t] = v]
    BY <1>5 DEF Bump
  <2>2. /\ v \in Video /\ v.comment = r.comment + 1 /\ v.like = r.like /\ v.view = r.view
        /\ v.share = r.share
    BY <1>1, <1>2, FieldChanged
  <2> HIDE DEF v
  <2>3. /\ counts' \in [Targets -> Video] /\ counts'[t] = v
        /\ \A s \in Targets : s # t => counts'[s] = counts[s]
    BY <1>3, <2>1, <2>2
  <2> QED BY ONLY <1>2, <1>5, <2>2, <2>3
<1>6. CASE field = "view"
  <2> DEFINE v == [r EXCEPT !.view = r.view + 1]
  <2>1. counts' = [counts EXCEPT ![t] = v]
    BY <1>6 DEF Bump
  <2>2. /\ v \in Video /\ v.view = r.view + 1 /\ v.like = r.like /\ v.comment = r.comment
        /\ v.share = r.share
    BY <1>1, <1>2, FieldChanged
  <2> HIDE DEF v
  <2>3. /\ counts' \in [Targets -> Video] /\ counts'[t] = v
        /\ \A s \in Targets : s # t => counts'[s] = counts[s]
    BY <1>3, <2>1, <2>2
  <2> QED BY ONLY <1>2, <1>6, <2>2, <2>3
<1>7. CASE field = "share"
  <2> DEFINE v == [r EXCEPT !.share = r.share + 1]
  <2>1. counts' = [counts EXCEPT ![t] = v]
    BY <1>7 DEF Bump
  <2>2. /\ v \in Video /\ v.share = r.share + 1 /\ v.like = r.like /\ v.comment = r.comment
        /\ v.view = r.view
    BY <1>1, <1>2, FieldChanged
  <2> HIDE DEF v
  <2>3. /\ counts' \in [Targets -> Video] /\ counts'[t] = v
        /\ \A s \in Targets : s # t => counts'[s] = counts[s]
    BY <1>3, <2>1, <2>2
  <2> QED BY ONLY <1>2, <1>7, <2>2, <2>3
<1> QED BY <1>4, <1>5, <1>6, <1>7

LEMMA Lowered ==
    ASSUME GTypeOK, NEW t \in Targets, LowerTo0(t)
    PROVE  /\ counts' \in [Targets -> Video] /\ \A s \in Targets : s # t => counts'[s] = counts[s]
           /\ counts'[t].like = IF counts[t].like = 0 THEN 0 ELSE counts[t].like - 1
           /\ counts'[t].comment = counts[t].comment /\ counts'[t].view = counts[t].view
           /\ counts'[t].share = counts[t].share
<1> DEFINE r == counts[t]
           n == IF r.like = 0 THEN 0 ELSE r.like - 1
           v == [r EXCEPT !.like = n]
<1>1. counts \in [Targets -> Video] /\ r \in Video
  BY DEF GTypeOK
<1>2. n \in Nat
  BY <1>1 DEF Video
<1>3. counts' = [counts EXCEPT ![t] = v]
  BY DEF LowerTo0
<1>4. /\ v \in Video /\ v.like = n /\ v.comment = r.comment /\ v.view = r.view /\ v.share = r.share
  BY <1>1, <1>2, FieldChanged
<1> HIDE DEF v
<1> QED BY <1>1, <1>3, <1>4

\* The events of another mark than that of the request.
LEMMA EventsElsewhere ==
    ASSUME NEW p \in Handlers, Moves(p), NEW m \in Targets \X Users, m # Mark(p),
           task'[p].op = "none" \/ Mark(p)' = Mark(p),
           told'[m] = told[m], times'[m] = times[m], m \in keys' <=> m \in keys,
           m[2] \in marks'[m[1]] <=> m[2] \in marks[m[1]],
           Working(m) = {} => Told(m), \A q \in Handlers : Working(m) = {q} => Telling(q)
    PROVE  /\ Working(m)' = {} => Told(m)'
           /\ \A q \in Handlers : Working(m)' = {q} => Telling(q)'
<1>1. Working(m)' = Working(m)
  BY DEF Working, Mark, Moves
<1>2. Told(m) => Told(m)'
  BY DEF Told
<1>3. ASSUME NEW q \in Handlers, Working(m) = {q}, Telling(q) PROVE Telling(q)'
  <2>1. Mark(q) = m /\ q # p
    BY <1>3 DEF Working
  <2>2. task'[q] = task[q]
    BY <2>1 DEF Moves
  <2>3. Mark(q)' = m
    BY <2>1, <2>2 DEF Mark
  <2> QED BY <1>3, <2>1, <2>2, <2>3 DEF Telling
<1> QED BY <1>1, <1>2, <1>3

LEMMA MarkOf ==
    ASSUME EngagementAssumption, EngagementInv, NEW p \in Handlers, task[p].op \in {"mark", "unmark"}
    PROVE  /\ task[p].target \in Targets /\ task[p].user \in Users
           /\ Mark(p) \in Targets \X Users /\ Mark(p)[1] = task[p].target /\ Mark(p)[2] = task[p].user
           /\ marks \in [Targets -> SUBSET Users]
BY Typed DEF TasksTyped, TaskTyped, Mark, GTypeOK

\* A request that finds nothing to do.
LEMMA DoneKeeps ==
    ASSUME EngagementAssumption, EngagementInv, NEW p \in Handlers, Finish(p), Outside(p),
           UNCHANGED <<clock, shown, counts, marking, talk, people, holder, spent, mishaps>>
    PROVE  EngagementInv'
<1>1. /\ Moves(p) /\ task'[p].op = "none" /\ task'[p].at = "idle" /\ TaskTyped(p)'
  BY Typed, Finishes DEF TaskTyped
<1>2. GTypeOK'
  BY Typed DEF GTypeOK, clock, shown, marking, talk, people
<1>3. TasksTyped'
  BY <1>1, Typed, TasksFrame DEF clock, marking, talk
<1>4. RowsKnow'
  BY <1>1, Typed, RowsFrame DEF Follows, Outside
<1>5. ~Locks(p)'
  BY <1>1 DEF Locks
<1>6. LocksKnow'
  BY <1>1, <1>5, Typed, LockFrame DEF LocksKnow, shown
<1> QED BY <1>2, <1>3, <1>4, <1>6 DEF EngagementInv, RowsKnow, LocksKnow

LEMMA InsertMarkKeeps ==
    ASSUME EngagementAssumption, EngagementInv, NEW p \in Handlers, NEW t \in Targets, InsertMark(p, t)
    PROVE  EngagementInv'
<1> DEFINE u == task[p].user
<1>1. task[p].op = "mark" /\ task[p].target = t /\ task[p].at = "row"
      /\ UNCHANGED <<clock, shown, counts, talk, people, holder, spent, told, keys, mishaps>>
  BY DEF InsertMark, In
<1>m. PICK m \in Targets \X Users : m = Mark(p)
  BY <1>1, MarkOf
<1>2. u \in Users /\ m \in Targets \X Users /\ m[1] = t /\ m[2] = u /\ m = <<t, u>>
      /\ marks \in [Targets -> SUBSET Users]
  BY <1>1, <1>m, MarkOf DEF Mark
<1>3. CASE u \in marks[t]
  <2>1. Finish(p) /\ UNCHANGED <<marks, times>>
    BY <1>3 DEF InsertMark
  <2> QED BY <1>1, <2>1, DoneKeeps DEF Outside, marking
<1>4. CASE u \notin marks[t]
  <2>1. /\ marks' = [marks EXCEPT ![t] = @ \cup {u}] /\ times' = [times EXCEPT ![m] = @ + 1]
        /\ Advance(p, "count")
    BY <1>m, <1>4 DEF InsertMark
  <2>2. /\ Moves(p) /\ task'[p].at = "count" /\ task'[p].op = "mark"
        /\ task'[p].target = t /\ task'[p].user = u
    BY <1>1, <2>1, Typed, Advances
  <2>3. /\ marks' \in [Targets -> SUBSET Users] /\ marks'[t] = marks[t] \cup {u}
        /\ \A s \in Targets : s # t => marks'[s] = marks[s]
    BY <1>2, <2>1
  <2>4. /\ times \in [Targets \X Users -> Nat] /\ times' \in [Targets \X Users -> Nat]
        /\ times'[m] = times[m] + 1 /\ \A n \in Targets \X Users : n # m => times'[n] = times[n]
    BY <1>2, <2>1, Typed DEF TasksTyped
  <2>5. GTypeOK'
    BY <1>1, <2>3, Typed DEF GTypeOK, clock, shown, talk, people
  <2>6. TasksTyped'
    <3>1. TaskTyped(p)'
      BY <1>2, <2>2 DEF TaskTyped
    <3> QED BY <1>1, <2>2, <2>4, <3>1, Typed DEF TasksTyped, Moves, TaskTyped, clock, talk
  <2>7. ASSUME NEW s \in Targets PROVE LikesKnow(s)' /\ ViewsKnow(s)'
    <3>1. LikesKnow(s) /\ ViewsKnow(s)
      BY Typed DEF RowsKnow
    <3>2. ViewsKnow(s)'
      BY <1>1, <2>2, <3>1, ViewsFrame DEF CountsView, talk
    <3>3. CASE s # t
      <4>1. \A op : Counting(s, op)' = Counting(s, op)
        BY <1>1, <2>2, <3>3, CountMoves DEF In
      <4>2. \A q \in Counting(s, "mark") : task'[q] = task[q]
        BY <1>1, <3>3, <2>2 DEF Counting, In, Moves
      <4>3. LikesKnow(s)'
        BY <1>1, <2>3, <3>1, <3>3, <4>1, <4>2 DEF LikesKnow
      <4> QED BY <3>2, <4>3
    <3>4. CASE s = t
      <4>1. ~In(p, "mark", t, "count") /\ In(p, "mark", t, "count")'
        BY <1>1, <2>2 DEF In
      <4>2. /\ Counting(t, "mark")' = Counting(t, "mark") \cup {p}
            /\ Cardinality(Counting(t, "mark")') = Cardinality(Counting(t, "mark")) + 1
            /\ Cardinality(Counting(t, "mark")) \in Nat
        BY <2>2, <4>1, CountMoves
      <4>3. ~In(p, "unmark", t, "count") /\ ~In(p, "unmark", t, "count")'
        BY <1>1, <2>2 DEF In
      <4>4. Counting(t, "unmark")' = Counting(t, "unmark") /\ Cardinality(Counting(t, "unmark")) \in Nat
        BY <2>2, <4>3, CountMoves
      <4>5. IsFiniteSet(marks[t]) /\ Cardinality(marks[t]) \in Nat
        BY <1>2, FS_Subset, FS_CardinalityType DEF EngagementAssumption
      <4>6. Cardinality(marks'[t]) = Cardinality(marks[t]) + 1
        BY <1>4, <2>3, <4>5, FS_AddElement
      <4>7. /\ \A q \in Counting(t, "mark") : task'[q] = task[q] /\ q # p
            /\ task'[p].user = u
        BY <2>2, <4>1 DEF Counting, Moves
      <4>8. counts[t].like \in Nat
        BY Typed DEF GTypeOK, Video
      <4>9. ASSUME mishaps \cap {"died", "crossed"} = {}
            PROVE  /\ counts[t].like + Cardinality(Counting(t, "mark")')
                        = Cardinality(marks'[t]) + Cardinality(Counting(t, "unmark")')
                   /\ \A q \in Counting(t, "mark")' : task'[q].user \in marks'[t]
                   /\ \A q, r \in Counting(t, "mark")' : task'[q].user = task'[r].user => q = r
        <5>1. /\ counts[t].like + Cardinality(Counting(t, "mark"))
                   = Cardinality(marks[t]) + Cardinality(Counting(t, "unmark"))
              /\ \A q \in Counting(t, "mark") : task[q].user \in marks[t]
              /\ \A q, r \in Counting(t, "mark") : task[q].user = task[r].user => q = r
          BY <3>1, <3>4, <4>9 DEF LikesKnow
        <5>2. counts[t].like + (Cardinality(Counting(t, "mark")) + 1)
                   = (Cardinality(marks[t]) + 1) + Cardinality(Counting(t, "unmark"))
          BY <4>2, <4>4, <4>5, <4>8, <5>1
        <5>3. \A q \in Counting(t, "mark") : task'[q].user # u
          BY <1>4, <4>7, <5>1
        <5>4. \A q \in Counting(t, "mark")' : task'[q].user \in marks'[t]
          BY <2>3, <4>2, <4>7, <5>1
        <5>5. ASSUME NEW q \in Counting(t, "mark")', NEW r \in Counting(t, "mark")',
                     task'[q].user = task'[r].user
              PROVE  q = r
          BY <4>2, <4>7, <5>1, <5>3, <5>5
        <5> QED BY <4>2, <4>4, <4>6, <5>2, <5>4, <5>5
      <4>10. LikesKnow(s)'
        BY <1>1, <3>4, <4>9 DEF LikesKnow
      <4> QED BY <3>2, <4>10
    <3> QED BY <3>3, <3>4
  <2>8. EventsKnow'
    <3> SUFFICES ASSUME mishaps' = {}, NEW n \in Targets \X Users
                 PROVE  /\ Working(n)' = {} => Told(n)'
                        /\ \A q \in Handlers : Working(n)' = {q} => Telling(q)'
      BY DEF EventsKnow
    <3>1. /\ Working(n) = {} => Told(n)
          /\ \A q \in Handlers : Working(n) = {q} => Telling(q)
      BY <1>1, Typed DEF RowsKnow, EventsKnow
    <3>2. CASE n # m
      <4>1. n[2] \in marks'[n[1]] <=> n[2] \in marks[n[1]]
        BY <1>2, <2>3, <3>2
      <4>2. Mark(p)' = Mark(p)
        BY <1>1, <2>2 DEF Mark
      <4> QED BY <1>1, <1>m, <2>2, <2>4, <3>1, <3>2, <4>1, <4>2, EventsElsewhere
    <3>3. CASE n = m
      <4>1. Mark(p)' = m
        BY <1>1, <1>2, <2>2 DEF Mark
      <4>2. p \in Working(m)'
        BY <2>2, <4>1 DEF Working
      <4>3. Working(m) \subseteq Working(m)' \ {p}
        BY <1>1, <2>2, <4>1 DEF Working, Mark, Moves
      <4>4. ASSUME NEW q \in Handlers, Working(m)' = {q} PROVE Telling(q)'
        <5>1. q = p /\ Working(m) = {}
          BY <4>2, <4>3, <4>4
        <5>2. Told(m) /\ m[2] \notin marks[m[1]]
          BY <1>2, <1>4, <3>1, <3>3, <5>1
        <5>3. m[2] \in marks'[m[1]]
          BY <1>2, <2>3
        <5>4. times[m] \in Nat /\ told' = told /\ keys' = keys
          BY <1>1, <1>2, <2>4
        <5>5. times'[m] > 0 /\ (m \in keys' <=> times'[m] > 1) /\ (times'[m] > 1 => told'[m] = "unmark")
          <6>2. /\ m \in keys <=> times[m] > 0
                /\ times[m] = 1 => told[m] = "unmark"
                /\ times[m] > 1 => told[m] = "unmark"
            BY <5>2 DEF Told
          <6>3. times'[m] = times[m] + 1
            BY <2>4
          <6> QED BY ONLY <5>4, <6>2, <6>3
        <5>6. Mark(q)' = m /\ task'[q].op = "mark"
          BY <2>2, <4>1, <5>1
        <5>7. Telling(q)'
          BY ONLY <5>3, <5>5, <5>6 DEF Telling
        <5> QED BY <5>7
      <4> QED BY <3>3, <4>2, <4>4
    <3> QED BY <3>2, <3>3
  <2>9. CommentsKnow' /\ FollowsKnow'
    <3>1. CommentsKnow /\ FollowsKnow /\ ~Follows(p)'
      BY <2>2, Typed DEF RowsKnow, Follows
    <3> QED BY <1>1, <2>2, <3>1, CommentsFrame, FollowsFrame DEF talk
  <2>10. LocksKnow'
    <3>1. ~Locks(p)'
      BY <2>2 DEF Locks
    <3> QED BY <1>1, <2>2, <3>1, Typed, LockFrame DEF LocksKnow, shown
  <2> QED BY <2>5, <2>6, <2>7, <2>8, <2>9, <2>10 DEF EngagementInv, LocksKnow
<1> QED BY <1>3, <1>4

\* The likes of the other target.
LEMMA LikesElsewhere ==
    ASSUME EngagementAssumption, NEW p \in Handlers, Moves(p), NEW s \in Targets, LikesKnow(s),
           task[p].target # s, task'[p].target # s, mishaps \subseteq mishaps',
           marks'[s] = marks[s], counts'[s].like = counts[s].like
    PROVE  LikesKnow(s)'
<1>1. \A op : Counting(s, op)' = Counting(s, op)
  BY CountMoves DEF In
<1>2. \A q \in Counting(s, "mark") : task'[q] = task[q]
  BY DEF Counting, In, Moves
<1> QED BY <1>1, <1>2 DEF LikesKnow

LEMMA DeleteMarkKeeps ==
    ASSUME EngagementAssumption, EngagementInv, NEW p \in Handlers, NEW t \in Targets, DeleteMark(p, t)
    PROVE  EngagementInv'
<1> DEFINE u == task[p].user
<1>1. task[p].op = "unmark" /\ task[p].target = t /\ task[p].at = "row"
      /\ UNCHANGED <<clock, shown, counts, talk, people, holder, spent, told, keys, times>>
  BY DEF DeleteMark, In
<1>m. PICK m \in Targets \X Users : m = Mark(p)
  BY <1>1, MarkOf
<1>2. u \in Users /\ m[1] = t /\ m[2] = u /\ m = <<t, u>> /\ marks \in [Targets -> SUBSET Users]
  BY <1>1, <1>m, MarkOf DEF Mark
<1>3. CASE u \notin marks[t]
  <2>1. Finish(p) /\ UNCHANGED <<marks, mishaps>>
    BY <1>3 DEF DeleteMark
  <2> QED BY <1>1, <2>1, DoneKeeps DEF Outside, marking
<1>4. CASE u \in marks[t]
  <2>1. /\ marks' = [marks EXCEPT ![t] = @ \ {u}] /\ mishaps \subseteq mishaps'
        /\ (\E q \in Handlers : Mark(q) = m /\ task[q].op = "mark") => "crossed" \in mishaps'
        /\ Advance(p, "count")
    BY <1>m, <1>4 DEF DeleteMark
  <2>2. /\ Moves(p) /\ task'[p].at = "count" /\ task'[p].op = "unmark"
        /\ task'[p].target = t /\ task'[p].user = u
    BY <1>1, <2>1, Typed, Advances
  <2>3. /\ marks' \in [Targets -> SUBSET Users] /\ marks'[t] = marks[t] \ {u}
        /\ \A s \in Targets : s # t => marks'[s] = marks[s]
    BY <1>2, <2>1
  <2>5. GTypeOK'
    BY <1>1, <2>3, Typed DEF GTypeOK, clock, shown, talk, people
  <2>6. TasksTyped'
    <3>1. TaskTyped(p)'
      BY <1>2, <2>2 DEF TaskTyped
    <3> QED BY <1>1, <2>2, <3>1, Typed, TasksFrame DEF clock, talk
  <2>7. ASSUME NEW s \in Targets PROVE LikesKnow(s)' /\ ViewsKnow(s)'
    <3>1. LikesKnow(s) /\ ViewsKnow(s)
      BY Typed DEF RowsKnow
    <3>2. ViewsKnow(s)'
      BY <1>1, <2>1, <2>2, <3>1, ViewsFrame DEF CountsView, talk
    <3>3. CASE s # t
      <4>1. LikesKnow(s)'
        BY <1>1, <2>1, <2>2, <2>3, <3>1, <3>3, LikesElsewhere
      <4> QED BY <3>2, <4>1
    <3>4. CASE s = t
      <4>1. ~In(p, "unmark", t, "count") /\ In(p, "unmark", t, "count")'
        BY <1>1, <2>2 DEF In
      <4>2. /\ Cardinality(Counting(t, "unmark")') = Cardinality(Counting(t, "unmark")) + 1
            /\ Cardinality(Counting(t, "unmark")) \in Nat
        BY <2>2, <4>1, CountMoves
      <4>3. ~In(p, "mark", t, "count") /\ ~In(p, "mark", t, "count")'
        BY <1>1, <2>2 DEF In
      <4>4. Counting(t, "mark")' = Counting(t, "mark") /\ Cardinality(Counting(t, "mark")) \in Nat
        BY <2>2, <4>3, CountMoves
      <4>5. IsFiniteSet(marks[t]) /\ Cardinality(marks[t]) \in Nat
        BY <1>2, FS_Subset, FS_CardinalityType DEF EngagementAssumption
      <4>6. Cardinality(marks'[t]) = Cardinality(marks[t]) - 1
        <5>1. Cardinality(marks[t] \ {u}) = Cardinality(marks[t]) - 1
          BY ONLY <1>4, <4>5, FS_RemoveElement
        <5> QED BY <2>3, <5>1
      <4>7. \A q \in Counting(t, "mark") : task'[q] = task[q] /\ q \in Handlers /\ task[q].op = "mark"
                                           /\ task[q].target = t
        BY <2>2, <4>3 DEF Counting, Moves, In
      <4>8. counts[t].like \in Nat
        BY Typed DEF GTypeOK, Video
      <4>9. ASSUME mishaps' \cap {"died", "crossed"} = {}
            PROVE  /\ counts[t].like + Cardinality(Counting(t, "mark"))
                        = Cardinality(marks'[t]) + Cardinality(Counting(t, "unmark")')
                   /\ \A q \in Counting(t, "mark") : task[q].user \in marks'[t]
                   /\ \A q, r \in Counting(t, "mark") : task[q].user = task[r].user => q = r
        <5>0. mishaps \cap {"died", "crossed"} = {} /\ "crossed" \notin mishaps'
          BY <2>1, <4>9
        <5>1. /\ counts[t].like + Cardinality(Counting(t, "mark"))
                   = Cardinality(marks[t]) + Cardinality(Counting(t, "unmark"))
              /\ \A q \in Counting(t, "mark") : task[q].user \in marks[t]
              /\ \A q, r \in Counting(t, "mark") : task[q].user = task[r].user => q = r
          BY <3>1, <3>4, <5>0 DEF LikesKnow
        <5>2. counts[t].like + Cardinality(Counting(t, "mark"))
                   = (Cardinality(marks[t]) - 1) + (Cardinality(Counting(t, "unmark")) + 1)
          BY <4>2, <4>5, <5>1
        <5>3. \A q \in Counting(t, "mark") : task[q].user # u
          BY <1>2, <2>1, <4>7, <5>0 DEF Mark
        <5> QED BY <2>3, <4>2, <4>6, <5>1, <5>2, <5>3
      <4>10. LikesKnow(s)'
        BY <1>1, <3>4, <4>4, <4>7, <4>9 DEF LikesKnow
      <4> QED BY <3>2, <4>10
    <3> QED BY <3>3, <3>4
  <2>8. EventsKnow'
    <3> SUFFICES ASSUME mishaps' = {}, NEW n \in Targets \X Users
                 PROVE  /\ Working(n)' = {} => Told(n)'
                        /\ \A q \in Handlers : Working(n)' = {q} => Telling(q)'
      BY DEF EventsKnow
    <3>0. mishaps = {}
      BY <2>1
    <3>1. /\ Working(n) = {} => Told(n)
          /\ \A q \in Handlers : Working(n) = {q} => Telling(q)
      BY <3>0, Typed DEF RowsKnow, EventsKnow
    <3>2. CASE n # m
      <4>1. n[2] \in marks'[n[1]] <=> n[2] \in marks[n[1]]
        BY <1>2, <2>3, <3>2
      <4>2. Mark(p)' = Mark(p)
        BY <1>1, <2>2 DEF Mark
      <4> QED BY <1>1, <1>m, <2>2, <3>1, <3>2, <4>1, <4>2, EventsElsewhere
    <3>3. CASE n = m
      <4>1. Mark(p)' = m
        BY <1>1, <1>2, <2>2 DEF Mark
      <4>2. p \in Working(m)'
        BY <2>2, <4>1 DEF Working
      <4>3. Working(m) \subseteq Working(m)' \ {p}
        BY <1>1, <2>2, <4>1 DEF Working, Mark, Moves
      <4>4. ASSUME NEW q \in Handlers, Working(m)' = {q} PROVE Telling(q)'
        <5>1. q = p /\ Working(m) = {}
          BY <4>2, <4>3, <4>4
        <5>2. Told(m) /\ m[2] \in marks[m[1]]
          BY <1>2, <1>4, <3>1, <3>3, <5>1
        <5>3. m[2] \notin marks'[m[1]]
          BY <1>2, <2>3
        <5>4. times' = times /\ told' = told /\ keys' = keys
          BY <1>1
        <5>5. times[m] > 0 /\ m \in keys
          BY <5>2 DEF Told
        <5>6. Mark(q)' = m /\ task'[q].op = "unmark"
          BY <2>2, <4>1, <5>1
        <5> QED BY ONLY <5>3, <5>4, <5>5, <5>6 DEF Telling
      <4> QED BY <3>3, <4>2, <4>4
    <3> QED BY <3>2, <3>3
  <2>9. CommentsKnow' /\ FollowsKnow'
    <3>1. CommentsKnow /\ FollowsKnow /\ ~Follows(p)'
      BY <2>2, Typed DEF RowsKnow, Follows
    <3> QED BY <1>1, <2>1, <2>2, <3>1, CommentsFrame, FollowsFrame DEF talk
  <2>10. LocksKnow'
    <3>1. ~Locks(p)'
      BY <2>2 DEF Locks
    <3> QED BY <1>1, <2>2, <3>1, Typed, LockFrame DEF LocksKnow, shown
  <2> QED BY <2>5, <2>6, <2>7, <2>8, <2>9, <2>10 DEF EngagementInv, LocksKnow
<1> QED BY <1>3, <1>4

\* Requests that have to count different rows are no more than the rows.
LEMMA FewerThanRows ==
    ASSUME EngagementAssumption, EngagementInv, NEW t \in Targets,
           \A q \in Counting(t, "mark") : task[q].user \in marks[t],
           \A q, r \in Counting(t, "mark") : task[q].user = task[r].user => q = r
    PROVE  Cardinality(Counting(t, "mark")) <= Cardinality(marks[t])
<1> DEFINE C == Counting(t, "mark")
           M == marks[t]
           f == [q \in C |-> task[q].user]
<1>1. IsFiniteSet(M)
  BY Typed, FS_Subset DEF GTypeOK, EngagementAssumption
<1>2. f \in Injection(C, M)
  BY DEF Injection, IsInjective
<1> HIDE DEF C, M, f
<1>3. Cardinality(C) <= Cardinality(M)
  BY <1>1, <1>2, FS_Injection
<1> QED BY <1>3 DEF C, M

\* A step of the video's counters that waits for its lock.
LEMMA CountedUnlocked ==
    ASSUME EngagementAssumption, EngagementInv, NEW p \in Handlers, Moves(p), NEW t \in Targets,
           Unlocked(t), \A s \in Targets : s # t => counts'[s] = counts[s],
           UNCHANGED <<shown, holder>>, ~Locks(p)'
    PROVE  LocksKnow'
<1>1. CASE t = "series"
  BY <1>1, Typed, LockFrame DEF LocksKnow, Targets, shown
<1>2. CASE holder = "none"
  <2>1. ASSUME NEW q \in Handlers PROVE LockKnows(q)'
    <3>1. q # "none" /\ holder' = "none"
      BY <1>2 DEF EngagementAssumption
    <3>2. ~Locks(q)
      BY <1>2, <3>1, Typed DEF LocksKnow, LockKnows, Locks
    <3>3. ~Locks(q)'
      BY <3>2 DEF Moves, Locks
    <3> QED BY <3>3 DEF LockKnows, Locks
  <2> QED BY <2>1 DEF LocksKnow
<1> QED BY <1>1, <1>2 DEF Unlocked

LEMMA CountMarkKeeps ==
    ASSUME EngagementAssumption, EngagementInv, NEW p \in Handlers, NEW t \in Targets,
           NEW op \in {"mark", "unmark"}, CountMark(p, op, t)
    PROVE  EngagementInv'
<1>1. /\ task[p].op = op /\ task[p].target = t /\ task[p].at = "count" /\ Unlocked(t)
      /\ UNCHANGED <<clock, shown, marking, talk, people, holder, spent, mishaps>>
      /\ IF op = "mark" THEN Bump(t, "like") ELSE LowerTo0(t)
      /\ Advance(p, "tell")
  BY DEF CountMark, In
<1>2. /\ Moves(p) /\ task'[p].at = "tell" /\ task'[p].op = op /\ task'[p].target = t
      /\ task'[p].user = task[p].user
  BY <1>1, Typed, Advances
<1>3. /\ counts' \in [Targets -> Video] /\ \A s \in Targets : s # t => counts'[s] = counts[s]
      /\ counts'[t].comment = counts[t].comment /\ counts'[t].view = counts[t].view
      /\ counts'[t].share = counts[t].share /\ counts[t].like \in Nat
      /\ counts'[t].like = IF op = "mark" THEN counts[t].like + 1
                           ELSE IF counts[t].like = 0 THEN 0 ELSE counts[t].like - 1
  <2>1. counts[t] \in Video
    BY Typed DEF GTypeOK
  <2>2. counts[t].comment \in Nat /\ counts[t].view \in Nat /\ counts[t].share \in Nat
        /\ counts[t].like \in Nat
    BY <2>1 DEF Video
  <2>3. CASE op = "mark"
    <3>1. /\ counts' \in [Targets -> Video] /\ \A s \in Targets : s # t => counts'[s] = counts[s]
          /\ counts'[t].like = counts[t].like + 1
          /\ counts'[t].comment = counts[t].comment + 0
          /\ counts'[t].view = counts[t].view + 0
          /\ counts'[t].share = counts[t].share + 0
      BY <1>1, <2>3, Typed, Bumped
    <3> QED BY ONLY <2>2, <2>3, <3>1
  <2>4. CASE op = "unmark"
    BY <1>1, <2>2, <2>4, Typed, Lowered
  <2> QED BY <2>3, <2>4
<1>4. GTypeOK'
  BY <1>1, <1>3, Typed DEF GTypeOK, clock, shown, marking, talk, people
<1>5. TasksTyped'
  <2>1. TaskTyped(p)'
    BY <1>1, <1>2, MarkOf DEF TaskTyped
  <2> QED BY <1>1, <1>2, <2>1, Typed, TasksFrame DEF clock, marking, talk
<1>6. ASSUME NEW s \in Targets PROVE LikesKnow(s)' /\ ViewsKnow(s)'
  <2>1. LikesKnow(s) /\ ViewsKnow(s)
    BY Typed DEF RowsKnow
  <2>2. ViewsKnow(s)'
    <3>1. counts'[s].view = counts[s].view /\ counts'[s].share = counts[s].share
      BY <1>3
    <3> QED BY <1>1, <1>2, <2>1, <3>1, ViewsFrame DEF CountsView, talk
  <2>3. CASE s # t
    <3>1. LikesKnow(s)'
      BY <1>1, <1>2, <1>3, <2>1, <2>3, LikesElsewhere DEF marking
    <3> QED BY <2>2, <3>1
  <2>4. CASE s = t
    <3>1. In(p, op, t, "count") /\ ~In(p, op, t, "count")'
      BY <1>1, <1>2 DEF In
    <3>2. /\ Cardinality(Counting(t, op)') = Cardinality(Counting(t, op)) - 1
          /\ Counting(t, op)' = Counting(t, op) \ {p}
      BY <1>2, <3>1, CountMoves
    <3>3. ASSUME NEW o \in {"mark", "unmark"}, o # op
          PROVE  Counting(t, o)' = Counting(t, o)
      <4>1. ~In(p, o, t, "count") /\ ~In(p, o, t, "count")'
        BY <1>1, <1>2, <3>3 DEF In
      <4> QED BY <1>2, <4>1, CountMoves
    <3>4. /\ Cardinality(Counting(t, "mark")) \in Nat /\ Cardinality(Counting(t, "unmark")) \in Nat
          /\ Cardinality(Counting(t, op)') \in Nat
      BY <1>2, CountMoves
    <3>5. IsFiniteSet(marks[t]) /\ Cardinality(marks[t]) \in Nat
      BY Typed, FS_Subset, FS_CardinalityType DEF GTypeOK, EngagementAssumption
    <3>6. Counting(t, "mark")' \subseteq Counting(t, "mark")
      BY <3>2, <3>3
    <3>7. \A q \in Counting(t, "mark")' : task'[q] = task[q]
      <4>1. p \notin Counting(t, "mark")'
        BY <1>2 DEF Counting, In
      <4> QED BY <1>2, <4>1 DEF Counting, Moves
    <3>8. ASSUME mishaps \cap {"died", "crossed"} = {}
          PROVE  /\ counts'[t].like + Cardinality(Counting(t, "mark")')
                      = Cardinality(marks[t]) + Cardinality(Counting(t, "unmark")')
                 /\ \A q \in Counting(t, "mark") : task[q].user \in marks[t]
                 /\ \A q, r \in Counting(t, "mark") : task[q].user = task[r].user => q = r
      <4>1. /\ counts[t].like + Cardinality(Counting(t, "mark"))
                 = Cardinality(marks[t]) + Cardinality(Counting(t, "unmark"))
            /\ \A q \in Counting(t, "mark") : task[q].user \in marks[t]
            /\ \A q, r \in Counting(t, "mark") : task[q].user = task[r].user => q = r
        BY <2>1, <2>4, <3>8 DEF LikesKnow
      <4>2. Cardinality(Counting(t, "mark")) <= Cardinality(marks[t])
        BY <4>1, FewerThanRows
      <4>3. CASE op = "mark"
        <5>1. Cardinality(Counting(t, "unmark")') = Cardinality(Counting(t, "unmark"))
          BY <3>3, <4>3
        <5>2. Cardinality(Counting(t, "mark")') = Cardinality(Counting(t, "mark")) - 1
          BY <3>2, <4>3
        <5>3. counts'[t].like = counts[t].like + 1 /\ counts[t].like \in Nat
          BY <1>3, <4>3
        <5>4. counts'[t].like + Cardinality(Counting(t, "mark")')
                      = Cardinality(marks[t]) + Cardinality(Counting(t, "unmark")')
          BY ONLY <3>4, <3>5, <4>1, <5>1, <5>2, <5>3
        <5> QED BY <4>1, <5>4
      <4>4. CASE op = "unmark"
        <5>1. Cardinality(Counting(t, "mark")') = Cardinality(Counting(t, "mark"))
          BY <3>3, <4>4
        <5>2. /\ Cardinality(Counting(t, "unmark")') = Cardinality(Counting(t, "unmark")) - 1
              /\ Cardinality(Counting(t, "unmark")') \in Nat
          BY <3>2, <3>4, <4>4
        <5>3. /\ counts'[t].like = IF counts[t].like = 0 THEN 0 ELSE counts[t].like - 1
              /\ counts[t].like \in Nat
          BY <1>3, <4>4
        <5>4. counts[t].like # 0
          BY ONLY <3>4, <3>5, <4>1, <4>2, <5>2, <5>3
        <5>5. counts'[t].like + Cardinality(Counting(t, "mark")')
                      = Cardinality(marks[t]) + Cardinality(Counting(t, "unmark")')
          BY ONLY <3>4, <3>5, <4>1, <5>1, <5>2, <5>3, <5>4
        <5> QED BY <4>1, <5>5
      <4> QED BY <4>3, <4>4
    <3>9. LikesKnow(t)'
      BY <1>1, <3>6, <3>7, <3>8 DEF LikesKnow, marking
    <3> QED BY <2>2, <2>4, <3>9
  <2> QED BY <2>3, <2>4
<1>7. EventsKnow'
  <2>1. Works(p) /\ Works(p)'
    BY <1>1, <1>2 DEF Works
  <2> QED BY <1>1, <1>2, <2>1, Typed, EventsFrame DEF RowsKnow
<1>8. CommentsKnow' /\ FollowsKnow'
  <2>1. CommentsKnow /\ FollowsKnow /\ ~Follows(p)' /\ UNCHANGED <<comments, people>>
    BY <1>1, <1>2, Typed DEF RowsKnow, Follows, talk
  <2>2. \A s \in Targets : counts'[s].comment = counts[s].comment
    BY <1>3
  <2> QED BY <1>1, <1>2, <2>1, <2>2, CommentsFrame, FollowsFrame
<1>9. LocksKnow'
  <2>1. ~Locks(p)'
    BY <1>2 DEF Locks
  <2> QED BY <1>1, <1>2, <1>3, <2>1, CountedUnlocked
<1> QED BY <1>4, <1>5, <1>6, <1>7, <1>8, <1>9 DEF EngagementInv, LocksKnow

LEMMA TellMarkKeeps ==
    ASSUME EngagementAssumption, EngagementInv, NEW p \in Handlers, NEW t \in Targets,
           NEW op \in {"mark", "unmark"}, TellMark(p, op, t)
    PROVE  EngagementInv'
<1>1. /\ task[p].op = op /\ task[p].target = t /\ task[p].at = "tell" /\ Finish(p)
      /\ UNCHANGED <<clock, shown, counts, marks, times, talk, people, holder, spent>>
      /\ mishaps \subseteq mishaps'
  BY DEF TellMark, In
<1>m. PICK m \in Targets \X Users : m = Mark(p)
  BY <1>1, MarkOf
<1>2. m[1] = t /\ m[2] = task[p].user
  BY <1>1, <1>m, MarkOf
<1>3. /\ IF op = "mark" /\ m \in keys THEN UNCHANGED <<told, keys>>
         ELSE told' = [told EXCEPT ![m] = op] /\ keys' = IF op = "mark" THEN keys \cup {m} ELSE keys
      /\ (\E q \in Handlers \ {p} : Mark(q) = m /\ task[q].op \in {"mark", "unmark"}) => "crossed" \in mishaps'
  BY <1>m DEF TellMark
<1>4. Moves(p) /\ task'[p] = Free /\ task'[p].op = "none" /\ task'[p].at = "idle"
  BY <1>1, Typed, Finishes
<1>5. GTypeOK'
  BY <1>1, Typed DEF GTypeOK, clock, shown, talk, people
<1>k. /\ told \in [Targets \X Users -> {"nothing", "mark", "unmark"}] /\ keys \subseteq Targets \X Users
      /\ \A q \in Handlers : TaskTyped(q)
  BY Typed DEF TasksTyped
<1>6. TasksTyped'
  <2>1. TaskTyped(p)'
    BY <1>4 DEF TaskTyped
  <2>2. told' \in [Targets \X Users -> {"nothing", "mark", "unmark"}] /\ keys' \subseteq Targets \X Users
    BY <1>3, <1>k
  <2>3. ASSUME NEW q \in Handlers PROVE TaskTyped(q)'
    <3>1. CASE q = p
      BY <2>1, <3>1
    <3>2. CASE q # p
      BY <1>4, <1>k, <3>2 DEF TaskTyped, Moves
    <3> QED BY <3>1, <3>2
  <2> QED BY <1>1, <1>4, <2>2, <2>3, Typed DEF TasksTyped, Moves, clock, talk
<1>7. ASSUME NEW s \in Targets PROVE LikesKnow(s)' /\ ViewsKnow(s)'
  <2>1. LikesKnow(s) /\ ViewsKnow(s)
    BY Typed DEF RowsKnow
  <2>2. ~CountsMark(p) /\ ~CountsMark(p)' /\ ~CountsView(p) /\ ~CountsView(p)'
    BY <1>1, <1>4 DEF CountsMark, CountsView
  <2> QED BY <1>1, <1>4, <2>1, <2>2, LikesFrame, ViewsFrame DEF talk
<1>8. EventsKnow'
  <2> SUFFICES ASSUME mishaps' = {}, NEW n \in Targets \X Users
               PROVE  /\ Working(n)' = {} => Told(n)'
                      /\ \A q \in Handlers : Working(n)' = {q} => Telling(q)'
    BY DEF EventsKnow
  <2>0. mishaps = {} /\ "crossed" \notin mishaps'
    BY <1>1
  <2>1. /\ Working(n) = {} => Told(n)
        /\ \A q \in Handlers : Working(n) = {q} => Telling(q)
    BY <2>0, Typed DEF RowsKnow, EventsKnow
  <2>2. CASE n # m
    <3>1. told'[n] = told[n] /\ (n \in keys' <=> n \in keys)
      BY <1>3, <1>k, <2>2
    <3>2. times' = times /\ marks' = marks
      BY <1>1
    <3> QED BY <1>m, <1>4, <2>1, <2>2, <3>1, <3>2, EventsElsewhere
  <2>3. CASE n = m
    <3>1. p \in Working(m) /\ Working(m) \subseteq {p}
      BY <1>1, <1>m, <1>3, <2>0 DEF Working
    <3>2. Telling(p)
      BY <2>1, <2>3, <3>1
    <3>3. Working(m)' = {}
      <4>1. p \notin Working(m)'
        BY <1>4 DEF Working
      <4>2. \A q \in Handlers : q # p => q \notin Working(m)'
        BY <1>4, <3>1 DEF Working, Mark, Moves
      <4> QED BY <4>1, <4>2 DEF Working
    <3>4. /\ times[m] > 0 /\ (m \in keys <=> op = "unmark" \/ times[m] > 1)
          /\ m[2] \in marks[m[1]] <=> op = "mark"
          /\ op = "mark" /\ times[m] > 1 => told[m] = "unmark"
      BY <1>1, <1>m, <3>2 DEF Telling
    <3>5. times[m] \in Nat /\ times' = times /\ marks' = marks
      BY <1>1, Typed DEF TasksTyped
    <3>6. CASE op = "mark" /\ m \in keys
      <4>1. told' = told /\ keys' = keys
        BY <1>3, <3>6
      <4>2. Told(m)'
        BY ONLY <3>4, <3>5, <3>6, <4>1 DEF Told
      <4> QED BY <2>3, <3>3, <4>2
    <3>7. CASE op = "mark" /\ m \notin keys
      <4>1. told'[m] = "mark" /\ m \in keys'
        BY <1>3, <1>k, <3>7
      <4>2. Told(m)'
        BY ONLY <3>4, <3>5, <3>7, <4>1 DEF Told
      <4> QED BY <2>3, <3>3, <4>2
    <3>8. CASE op = "unmark"
      <4>1. told'[m] = "unmark" /\ keys' = keys
        BY <1>3, <1>k, <3>8
      <4>2. Told(m)'
        BY ONLY <3>4, <3>5, <3>8, <4>1 DEF Told
      <4> QED BY <2>3, <3>3, <4>2
    <3> QED BY <3>6, <3>7, <3>8
  <2> QED BY <2>2, <2>3
<1>9. CommentsKnow' /\ FollowsKnow'
  <2>1. CommentsKnow /\ FollowsKnow /\ ~Follows(p)'
    BY <1>4, Typed DEF RowsKnow, Follows
  <2> QED BY <1>1, <1>4, <2>1, CommentsFrame, FollowsFrame DEF talk
<1>10. LocksKnow'
  <2>1. ~Locks(p)'
    BY <1>4 DEF Locks
  <2> QED BY <1>1, <1>4, <2>1, Typed, LockFrame DEF LocksKnow, shown
<1> QED BY <1>5, <1>6, <1>7, <1>8, <1>9, <1>10 DEF EngagementInv, LocksKnow

-----------------------------------------------------------------------------
(* Views and shares *)

LEMMA OnTarget ==
    ASSUME EngagementAssumption, EngagementInv, NEW p \in Handlers, task[p].op \in {"view", "share", "comment"}
    PROVE  task[p].target \in Targets /\ task[p].user \in Users
BY Typed DEF TasksTyped, TaskTyped

\* The parts that a view or a share does not touch.
LEMMA OthersThanViews ==
    ASSUME EngagementAssumption, EngagementInv, NEW p \in Handlers, Moves(p),
           task[p].op \notin {"mark", "unmark"}, task'[p].op \notin {"mark", "unmark", "follow", "unfollow"},
           UNCHANGED <<marking, comments, people, mishaps>>,
           \A s \in Targets : counts'[s].like = counts[s].like /\ counts'[s].comment = counts[s].comment
    PROVE  CommentsKnow' /\ FollowsKnow' /\ EventsKnow' /\ \A s \in Targets : LikesKnow(s)'
<1>1. ~CountsMark(p) /\ ~CountsMark(p)' /\ ~Works(p) /\ ~Works(p)' /\ ~Follows(p)'
  BY DEF CountsMark, Works, Follows
<1>2. CommentsKnow' /\ FollowsKnow' /\ EventsKnow'
  BY <1>1, Typed, CommentsFrame, FollowsFrame, EventsFrame DEF RowsKnow
<1>3. ASSUME NEW s \in Targets PROVE LikesKnow(s)'
  <2>1. LikesKnow(s)
    BY Typed DEF RowsKnow
  <2> QED BY <1>1, <2>1, LikesFrame DEF marking
<1> QED BY <1>2, <1>3

LEMMA InsertViewKeeps ==
    ASSUME EngagementAssumption, EngagementInv, NEW p \in Handlers, NEW t \in Targets, InsertView(p, t)
    PROVE  EngagementInv'
<1>1. /\ task[p].op = "view" /\ task[p].target = t /\ task[p].at = "row"
      /\ UNCHANGED <<clock, shown, counts, marking, comments, shares, progress, people, holder,
                     spent, mishaps>>
  BY DEF InsertView, In
<1> DEFINE key == <<t, task[p].user, minute>>
<1>2. key \in Targets \X Users \X (0..MaxMinutes)
  BY <1>1, OnTarget, Typed
<1>3. CASE key \in views
  <2>1. Finish(p) /\ views' = views
    BY <1>3 DEF InsertView
  <2> QED BY <1>1, <2>1, DoneKeeps DEF Outside, talk
<1>4. CASE key \notin views
  <2>1. Advance(p, "count") /\ views' = views \cup {key}
    BY <1>4 DEF InsertView
  <2>2. /\ Moves(p) /\ task'[p].at = "count" /\ task'[p].op = "view"
        /\ task'[p].target = t /\ task'[p].user = task[p].user
    BY <1>1, <2>1, Typed, Advances
  <2>3. GTypeOK'
    BY <1>1, <1>2, <2>1, Typed DEF GTypeOK, clock, shown, marking, people
  <2>4. TasksTyped'
    <3>1. TaskTyped(p)' /\ IsFiniteSet(views')
      BY <1>1, <2>1, <2>2, OnTarget, Typed, FS_AddElement DEF TaskTyped
    <3> QED BY <1>1, <2>2, <3>1, Typed, TasksFrame DEF clock, marking
  <2>5. ASSUME NEW s \in Targets PROVE ViewsKnow(s)'
    <3>1. ViewsKnow(s)
      BY Typed DEF RowsKnow
    <3>2. Counting(s, "share")' = Counting(s, "share")
      BY <1>1, <2>2, CountMoves DEF In
    <3>3. CASE s # t
      <4>1. Counting(s, "view")' = Counting(s, "view")
        BY <1>1, <2>2, <3>3, CountMoves DEF In
      <4>2. {k \in views' : k[1] = s} = {k \in views : k[1] = s}
        BY <2>1, <3>3
      <4> QED BY <1>1, <3>1, <3>2, <4>1, <4>2 DEF ViewsKnow
    <3>4. CASE s = t
      <4>1. ~In(p, "view", t, "count") /\ In(p, "view", t, "count")'
        BY <1>1, <2>2 DEF In
      <4>2. /\ Cardinality(Counting(t, "view")') = Cardinality(Counting(t, "view")) + 1
            /\ Cardinality(Counting(t, "view")) \in Nat
        BY <2>2, <4>1, CountMoves
      <4> DEFINE V == {k \in views : k[1] = t}
      <4>3. {k \in views' : k[1] = t} = V \cup {key} /\ key \notin V
        BY <1>4, <2>1
      <4>4. IsFiniteSet(V) /\ Cardinality(V) \in Nat
        <5>1. V \subseteq views
          OBVIOUS
        <5> HIDE DEF V
        <5> QED BY <5>1, Typed, FS_Subset, FS_CardinalityType
      <4> HIDE DEF key, V
      <4>5. Cardinality(V \cup {key}) = Cardinality(V) + 1
        BY <4>3, <4>4, FS_AddElement
      <4>6. counts[t].view \in Nat /\ counts' = counts
        BY <1>1, Typed DEF GTypeOK, Video
      <4>7. ASSUME "died" \notin mishaps
            PROVE  /\ counts[t].view + Cardinality(Counting(t, "view")') = Cardinality({k \in views' : k[1] = t})
                   /\ counts[t].share + Cardinality(Counting(t, "share")) = shares[t]
        <5>1. /\ counts[t].view + Cardinality(Counting(t, "view")) = Cardinality(V)
              /\ counts[t].share + Cardinality(Counting(t, "share")) = shares[t]
          BY <3>1, <3>4, <4>7 DEF ViewsKnow, V
        <5>2. counts[t].view + (Cardinality(Counting(t, "view")) + 1) = Cardinality(V) + 1
          BY ONLY <4>2, <4>4, <4>6, <5>1
        <5> QED BY <4>2, <4>3, <4>5, <5>1, <5>2
      <4> QED BY <1>1, <3>2, <3>4, <4>6, <4>7 DEF ViewsKnow
    <3> QED BY <3>3, <3>4
  <2>6. CommentsKnow' /\ FollowsKnow' /\ EventsKnow' /\ \A s \in Targets : LikesKnow(s)'
    BY <1>1, <2>2, OthersThanViews
  <2>7. LocksKnow'
    <3>1. ~Locks(p)'
      BY <2>2 DEF Locks
    <3> QED BY <1>1, <2>2, <3>1, Typed, LockFrame DEF LocksKnow, shown
  <2> QED BY <2>3, <2>4, <2>5, <2>6, <2>7 DEF EngagementInv, LocksKnow
<1> QED BY <1>3, <1>4

LEMMA InsertShareKeeps ==
    ASSUME EngagementAssumption, EngagementInv, NEW p \in Handlers, InsertShare(p)
    PROVE  EngagementInv'
<1>1. /\ task[p].op = "share" /\ task[p].target = "video" /\ task[p].at = "row"
      /\ UNCHANGED <<clock, shown, counts, marking, comments, views, progress, people, holder,
                     spent, mishaps>>
      /\ shares' = [shares EXCEPT !["video"] = @ + 1] /\ Advance(p, "count")
  BY DEF InsertShare, In
<1>0. shares \in [Targets -> Nat] /\ "video" \in Targets
  BY Typed DEF GTypeOK, Targets
<1>2. /\ shares' \in [Targets -> Nat] /\ shares'["video"] = shares["video"] + 1
      /\ \A s \in Targets : s # "video" => shares'[s] = shares[s]
  BY <1>0, <1>1
<1>3. /\ Moves(p) /\ task'[p].at = "count" /\ task'[p].op = "share"
      /\ task'[p].target = "video" /\ task'[p].user = task[p].user
  BY <1>1, Typed, Advances
<1>4. GTypeOK'
  BY <1>1, <1>2, Typed DEF GTypeOK, clock, shown, marking, people
<1>5. TasksTyped'
  <2>1. TaskTyped(p)'
    BY <1>1, <1>3, OnTarget DEF TaskTyped
  <2> QED BY <1>1, <1>3, <2>1, Typed, TasksFrame DEF clock, marking
<1>6. ASSUME NEW s \in Targets PROVE ViewsKnow(s)'
  <2>1. ViewsKnow(s)
    BY Typed DEF RowsKnow
  <2>2. Counting(s, "view")' = Counting(s, "view")
    BY <1>1, <1>3, CountMoves DEF In
  <2>3. CASE s # "video"
    <3>1. Counting(s, "share")' = Counting(s, "share")
      BY <1>1, <1>3, <2>3, CountMoves DEF In
    <3> QED BY <1>1, <1>2, <2>1, <2>2, <2>3, <3>1 DEF ViewsKnow
  <2>4. CASE s = "video"
    <3>1. ~In(p, "share", s, "count") /\ In(p, "share", s, "count")'
      BY <1>1, <1>3, <2>4 DEF In
    <3>2. /\ Cardinality(Counting(s, "share")') = Cardinality(Counting(s, "share")) + 1
          /\ Cardinality(Counting(s, "share")) \in Nat
      BY <1>3, <3>1, CountMoves
    <3>3. counts[s].share \in Nat /\ counts' = counts /\ shares'[s] = shares[s] + 1
      BY <1>1, <1>2, <2>4, Typed DEF GTypeOK, Video
    <3>4. ASSUME "died" \notin mishaps
          PROVE  counts[s].share + Cardinality(Counting(s, "share")') = shares'[s]
      <4>1. counts[s].share + Cardinality(Counting(s, "share")) = shares[s]
        BY <2>1, <3>4 DEF ViewsKnow
      <4> QED BY ONLY <3>2, <3>3, <4>1
    <3> QED BY <1>1, <2>1, <2>2, <3>3, <3>4 DEF ViewsKnow
  <2> QED BY <2>3, <2>4
<1>7. CommentsKnow' /\ FollowsKnow' /\ EventsKnow' /\ \A s \in Targets : LikesKnow(s)'
  BY <1>1, <1>3, OthersThanViews
<1>8. LocksKnow'
  <2>1. ~Locks(p)'
    BY <1>3 DEF Locks
  <2> QED BY <1>1, <1>3, <2>1, Typed, LockFrame DEF LocksKnow, shown
<1> QED BY <1>4, <1>5, <1>6, <1>7, <1>8 DEF EngagementInv, LocksKnow

LEMMA CountItKeeps ==
    ASSUME EngagementAssumption, EngagementInv, NEW p \in Handlers, NEW t \in Targets,
           NEW op \in {"view", "share"}, CountIt(p, op, t)
    PROVE  EngagementInv'
<1>1. /\ task[p].op = op /\ task[p].target = t /\ task[p].at = "count" /\ Unlocked(t) /\ Bump(t, op)
      /\ Finish(p) /\ UNCHANGED <<clock, shown, marking, talk, people, holder, spent, mishaps>>
  BY DEF CountIt, In
<1>2. Moves(p) /\ task'[p].op = "none" /\ task'[p].at = "idle" /\ TaskTyped(p)'
  BY <1>1, Typed, Finishes DEF TaskTyped
<1>3. /\ counts' \in [Targets -> Video] /\ \A s \in Targets : s # t => counts'[s] = counts[s]
      /\ counts'[t].like = counts[t].like /\ counts'[t].comment = counts[t].comment
      /\ counts'[t].view = counts[t].view + (IF op = "view" THEN 1 ELSE 0)
      /\ counts'[t].share = counts[t].share + (IF op = "share" THEN 1 ELSE 0)
      /\ counts[t].view \in Nat /\ counts[t].share \in Nat
  <2>1. counts[t].like \in Nat /\ counts[t].comment \in Nat /\ counts[t].view \in Nat
        /\ counts[t].share \in Nat
    BY Typed DEF GTypeOK, Video
  <2>2. /\ counts' \in [Targets -> Video] /\ \A s \in Targets : s # t => counts'[s] = counts[s]
        /\ counts'[t].like = counts[t].like + 0 /\ counts'[t].comment = counts[t].comment + 0
        /\ counts'[t].view = counts[t].view + (IF op = "view" THEN 1 ELSE 0)
        /\ counts'[t].share = counts[t].share + (IF op = "share" THEN 1 ELSE 0)
    BY <1>1, Typed, Bumped
  <2> QED BY ONLY <2>1, <2>2
<1>4. GTypeOK'
  BY <1>1, <1>3, Typed DEF GTypeOK, clock, shown, marking, talk, people
<1>5. TasksTyped'
  BY <1>1, <1>2, Typed, TasksFrame DEF clock, marking, talk
<1>6. ASSUME NEW s \in Targets PROVE ViewsKnow(s)'
  <2>1. ViewsKnow(s)
    BY Typed DEF RowsKnow
  <2>2. CASE s # t
    <3>1. ASSUME NEW o PROVE Counting(s, o)' = Counting(s, o)
      BY <1>1, <1>2, <2>2, CountMoves DEF In
    <3> QED BY <1>1, <1>3, <2>1, <2>2, <3>1 DEF ViewsKnow, talk
  <2>3. CASE s = t
    <3>1. ASSUME NEW o \in {"view", "share"}
          PROVE  /\ Cardinality(Counting(t, o)) \in Nat
                 /\ Cardinality(Counting(t, o)')
                      = Cardinality(Counting(t, o)) - (IF o = op THEN 1 ELSE 0)
      <4>1. /\ In(p, o, t, "count") <=> o = op
            /\ ~In(p, o, t, "count")'
        BY <1>1, <1>2 DEF In
      <4>2. Cardinality(Counting(t, o)) \in Nat
        BY <1>2, CountMoves
      <4>3. o # op => Counting(t, o)' = Counting(t, o)
        BY <1>2, <4>1, CountMoves
      <4>4. o = op => Cardinality(Counting(t, o)') = Cardinality(Counting(t, o)) - 1
        BY <1>2, <4>1, CountMoves
      <4> QED BY <4>2, <4>3, <4>4
    <3>2. ASSUME "died" \notin mishaps
          PROVE  /\ counts'[t].view + Cardinality(Counting(t, "view")') = Cardinality({k \in views : k[1] = t})
                 /\ counts'[t].share + Cardinality(Counting(t, "share")') = shares[t]
      <4>1. /\ counts[t].view + Cardinality(Counting(t, "view")) = Cardinality({k \in views : k[1] = t})
            /\ counts[t].share + Cardinality(Counting(t, "share")) = shares[t]
        BY <2>1, <2>3, <3>2 DEF ViewsKnow
      <4>2. /\ Cardinality(Counting(t, "view")')
                 = Cardinality(Counting(t, "view")) - (IF "view" = op THEN 1 ELSE 0)
            /\ Cardinality(Counting(t, "share")')
                 = Cardinality(Counting(t, "share")) - (IF "share" = op THEN 1 ELSE 0)
            /\ Cardinality(Counting(t, "view")) \in Nat /\ Cardinality(Counting(t, "share")) \in Nat
        BY <3>1
      <4> QED BY <1>3, <4>1, <4>2
    <3> QED BY <1>1, <2>3, <3>2 DEF ViewsKnow, talk
  <2> QED BY <2>2, <2>3
<1>7. CommentsKnow' /\ FollowsKnow' /\ EventsKnow' /\ \A s \in Targets : LikesKnow(s)'
  BY <1>1, <1>2, <1>3, OthersThanViews DEF talk
<1>8. LocksKnow'
  <2>1. ~Locks(p)'
    BY <1>2 DEF Locks
  <2> QED BY <1>1, <1>2, <1>3, <2>1, CountedUnlocked
<1> QED BY <1>4, <1>5, <1>6, <1>7, <1>8 DEF EngagementInv, LocksKnow

\* A request that is one step.
LEMMA ShareSeriesKeeps ==
    ASSUME EngagementAssumption, EngagementInv, NEW p \in Handlers, ShareSeries(p)
    PROVE  EngagementInv'
<1>0. "series" \in Targets /\ shares \in [Targets -> Nat] /\ task \in [Handlers -> Task]
  BY Typed DEF Targets, GTypeOK
<1>1. /\ spent' \in 0..MaxMade[topic] /\ task[p].op = "none" /\ Bump("series", "share")
      /\ shares' = [shares EXCEPT !["series"] = @ + 1]
      /\ UNCHANGED <<clock, shown, marking, comments, views, progress, people, holder, task, mishaps>>
  BY ArrivesInBounds DEF ShareSeries
<1>2. Moves(p) /\ task'[p].op = "none" /\ TaskTyped(p)'
  BY <1>0, <1>1 DEF Moves, TaskTyped
<1>3. /\ counts' \in [Targets -> Video] /\ \A s \in Targets : s # "series" => counts'[s] = counts[s]
      /\ counts'["series"].like = counts["series"].like
      /\ counts'["series"].comment = counts["series"].comment
      /\ counts'["series"].view = counts["series"].view
      /\ counts'["series"].share = counts["series"].share + 1
      /\ counts["series"].share \in Nat
  <2>1. counts["series"].like \in Nat /\ counts["series"].comment \in Nat
        /\ counts["series"].view \in Nat /\ counts["series"].share \in Nat
    BY <1>0, Typed DEF GTypeOK, Video
  <2>2. /\ counts' \in [Targets -> Video] /\ \A s \in Targets : s # "series" => counts'[s] = counts[s]
        /\ counts'["series"].like = counts["series"].like + 0
        /\ counts'["series"].comment = counts["series"].comment + 0
        /\ counts'["series"].view = counts["series"].view + 0
        /\ counts'["series"].share = counts["series"].share + 1
    BY <1>0, <1>1, Typed, Bumped
  <2> QED BY ONLY <2>1, <2>2
<1>4. /\ shares' \in [Targets -> Nat] /\ shares'["series"] = shares["series"] + 1
      /\ \A s \in Targets : s # "series" => shares'[s] = shares[s]
  BY <1>0, <1>1
<1>5. GTypeOK'
  BY <1>1, <1>3, <1>4, Typed DEF GTypeOK, clock, shown, marking, people
<1>6. TasksTyped'
  BY <1>1, <1>2, Typed, TasksFrame DEF clock, marking
<1>7. ASSUME NEW s \in Targets PROVE ViewsKnow(s)'
  <2>1. ViewsKnow(s)
    BY Typed DEF RowsKnow
  <2>2. \A o : Counting(s, o)' = Counting(s, o)
    BY <1>1 DEF Counting, In
  <2>3. Cardinality(Counting(s, "share")) \in Nat
    BY <1>2, CountMoves
  <2>4. CASE s # "series"
    BY <1>1, <1>3, <1>4, <2>1, <2>2, <2>4 DEF ViewsKnow
  <2>5. CASE s = "series"
    <3>1. "died" \notin mishaps =>
            /\ counts[s].view + Cardinality(Counting(s, "view")) = Cardinality({k \in views : k[1] = s})
            /\ counts[s].share + Cardinality(Counting(s, "share")) = shares[s]
      BY <2>1 DEF ViewsKnow
    <3>2. shares[s] \in Nat /\ counts'[s].view = counts[s].view
          /\ counts'[s].share = counts[s].share + 1 /\ shares'[s] = shares[s] + 1
          /\ counts[s].share \in Nat
      BY <1>0, <1>3, <1>4, <2>5
    <3>3. "died" \notin mishaps =>
            /\ counts'[s].view + Cardinality(Counting(s, "view")) = Cardinality({k \in views : k[1] = s})
            /\ counts'[s].share + Cardinality(Counting(s, "share")) = shares'[s]
      BY ONLY <2>3, <3>1, <3>2
    <3> QED BY <1>1, <2>2, <3>3 DEF ViewsKnow
  <2> QED BY <2>4, <2>5
<1>8. CommentsKnow' /\ FollowsKnow' /\ EventsKnow' /\ \A s \in Targets : LikesKnow(s)'
  BY <1>1, <1>2, <1>3, OthersThanViews
<1>9. LocksKnow'
  <2>1. ~Locks(p)' /\ "video" \in Targets
    BY <1>2 DEF Locks, Targets
  <2> QED BY <1>1, <1>2, <1>3, <2>1, Typed, LockFrame DEF LocksKnow, shown
<1> QED BY <1>5, <1>6, <1>7, <1>8, <1>9 DEF EngagementInv, LocksKnow

-----------------------------------------------------------------------------
(* Comments *)

\* The comments after one more.
LEMMA CommentAdded ==
    ASSUME EngagementAssumption, EngagementInv, NEW p \in Handlers, NEW t \in Targets, InsertComment(p, t)
    PROVE  /\ comments \in Seq(VideoComment) /\ comments' \in Seq(VideoComment)
           /\ Len(comments) \in Nat /\ Len(comments') = Len(comments) + 1
           /\ \A i \in 1..Len(comments) : /\ comments'[i].target = comments[i].target
                                          /\ comments'[i].parent = comments[i].parent
           /\ comments'[Len(comments) + 1].target = t
           /\ comments'[Len(comments) + 1].parent \in {0} \cup On(t)
           /\ comments'[Len(comments) + 1].reply_count = 0
           /\ \A i \in 1..Len(comments) :
                comments'[i].reply_count = IF i = comments'[Len(comments) + 1].parent
                                             THEN comments[i].reply_count + 1 ELSE comments[i].reply_count
<1>1. PICK parent \in {0} \cup On(t) :
        comments' = Append([i \in DOMAIN comments |->
                              IF i = parent THEN [comments[i] EXCEPT !.reply_count = @ + 1]
                              ELSE comments[i]],
                           [target |-> t, parent |-> parent, reply_count |-> 0])
  BY DEF InsertComment
<1> DEFINE n == Len(comments)
           new == [target |-> t, parent |-> parent, reply_count |-> 0]
           row(i) == IF i = parent THEN [comments[i] EXCEPT !.reply_count = @ + 1] ELSE comments[i]
           old == [i \in 1..n |-> row(i)]
<1>2. comments \in Seq(VideoComment) /\ n \in Nat /\ DOMAIN comments = 1..n
      /\ \A i \in 1..n : comments[i] \in VideoComment
  BY Typed DEF GTypeOK
<1>3. parent \in Nat /\ new \in VideoComment /\ new.target = t /\ new.parent = parent
      /\ new.reply_count = 0
  BY <1>2 DEF On, VideoComment
<1>r. ASSUME NEW r \in VideoComment
      PROVE  LET v == [r EXCEPT !.reply_count = @ + 1]
             IN  v \in VideoComment /\ v.target = r.target /\ v.parent = r.parent
                 /\ v.reply_count = r.reply_count + 1
  BY DEF VideoComment
<1>4. ASSUME NEW i \in 1..n
      PROVE  /\ row(i) \in VideoComment /\ row(i).target = comments[i].target
             /\ row(i).parent = comments[i].parent
             /\ row(i).reply_count = IF i = parent THEN comments[i].reply_count + 1
                                     ELSE comments[i].reply_count
  <2>1. CASE i = parent
    <3>1. row(i) = [comments[i] EXCEPT !.reply_count = @ + 1]
      BY <2>1
    <3> HIDE DEF row
    <3> QED BY <1>2, <1>r, <2>1, <3>1
  <2>2. CASE i # parent
    BY <1>2, <2>2
  <2> QED BY <2>1, <2>2
<1> HIDE DEF row, new, n
<1>5. comments' = Append(old, new)
  BY <1>1, <1>2 DEF row, new, n
<1>6. old \in Seq(VideoComment) /\ Len(old) = n /\ \A i \in 1..n : old[i] = row(i)
  BY <1>2, <1>4
<1> HIDE DEF old
<1>7. /\ comments' \in Seq(VideoComment) /\ Len(comments') = n + 1 /\ comments'[n + 1] = new
      /\ \A i \in 1..n : comments'[i] = row(i)
  BY <1>2, <1>3, <1>5, <1>6
<1> QED BY <1>2, <1>3, <1>4, <1>7 DEF n

\* Comments are sets of numbers up to their length.
LEMMA CommentSets ==
    ASSUME GTypeOK, NEW t, NEW i
    PROVE  /\ DOMAIN comments = 1..Len(comments) /\ Len(comments) \in Nat
           /\ On(t) \subseteq 1..Len(comments) /\ Replies(i) \subseteq 1..Len(comments)
           /\ IsFiniteSet(On(t)) /\ IsFiniteSet(Replies(i))
           /\ Cardinality(On(t)) \in Nat /\ Cardinality(Replies(i)) \in Nat
<1>1. DOMAIN comments = 1..Len(comments) /\ Len(comments) \in Nat
  BY DEF GTypeOK
<1>2. On(t) \subseteq 1..Len(comments) /\ Replies(i) \subseteq 1..Len(comments)
  BY <1>1 DEF On, Replies
<1>3. IsFiniteSet(1..Len(comments))
  BY <1>1, FS_Interval
<1> HIDE DEF On, Replies
<1> QED BY <1>1, <1>2, <1>3, FS_Subset, FS_CardinalityType

LEMMA InsertCommentKeeps ==
    ASSUME EngagementAssumption, EngagementInv, NEW p \in Handlers, NEW t \in Targets, InsertComment(p, t)
    PROVE  EngagementInv'
<1>1. /\ task[p].op = "comment" /\ task[p].target = t /\ task[p].at = "row" /\ Bump(t, "comment")
      /\ holder' = (IF holder = p THEN "none" ELSE holder) /\ Finish(p)
      /\ UNCHANGED <<clock, shown, marking, views, shares, progress, people, spent, mishaps>>
  BY DEF InsertComment, In
<1>2. Moves(p) /\ task'[p].op = "none" /\ task'[p].at = "idle" /\ TaskTyped(p)'
  BY <1>1, Typed, Finishes DEF TaskTyped
<1>3. /\ counts' \in [Targets -> Video] /\ \A s \in Targets : s # t => counts'[s] = counts[s]
      /\ counts'[t].like = counts[t].like /\ counts'[t].view = counts[t].view
      /\ counts'[t].share = counts[t].share
      /\ counts'[t].comment = counts[t].comment + 1 /\ counts[t].comment \in Nat
  <2>1. counts[t].like \in Nat /\ counts[t].comment \in Nat /\ counts[t].view \in Nat
        /\ counts[t].share \in Nat
    BY Typed DEF GTypeOK, Video
  <2>2. /\ counts' \in [Targets -> Video] /\ \A s \in Targets : s # t => counts'[s] = counts[s]
        /\ counts'[t].like = counts[t].like + 0 /\ counts'[t].view = counts[t].view + 0
        /\ counts'[t].share = counts[t].share + 0 /\ counts'[t].comment = counts[t].comment + 1
    BY <1>1, Typed, Bumped
  <2> QED BY ONLY <2>1, <2>2
<1> DEFINE n == Len(comments)
           parent == comments'[n + 1].parent
<1>c. /\ comments' \in Seq(VideoComment) /\ n \in Nat /\ Len(comments') = n + 1
      /\ DOMAIN comments' = 1..(n + 1) /\ DOMAIN comments = 1..n
      /\ \A i \in 1..n : comments'[i].target = comments[i].target /\ comments'[i].parent = comments[i].parent
      /\ comments'[n + 1].target = t /\ parent \in {0} \cup On(t)
      /\ comments'[n + 1].reply_count = 0
      /\ \A i \in 1..n : comments'[i].reply_count = IF i = parent THEN comments[i].reply_count + 1
                                                    ELSE comments[i].reply_count
  BY CommentAdded
<1>d. /\ \A j \in 1..n : comments[j].parent \in {0} \cup On(comments[j].target)
      /\ \A s \in Targets : counts[s].comment = Cardinality(On(s))
      /\ \A i \in 1..n : comments[i].reply_count = Cardinality(Replies(i))
  BY <1>c, Typed DEF RowsKnow, CommentsKnow
<1> HIDE DEF n, parent
<1>4. GTypeOK'
  BY <1>1, <1>3, <1>c, Typed DEF GTypeOK, clock, shown, marking, people
<1>5. TasksTyped'
  BY <1>1, <1>2, Typed, TasksFrame DEF clock, marking
<1>6. CommentsKnow'
  <2>1. /\ On(t)' = On(t) \cup {n + 1} /\ n + 1 \notin On(t)
        /\ \A s \in Targets : s # t => On(s)' = On(s)
        /\ \A s : On(s) \subseteq On(s)'
    BY <1>c DEF On
  <2>2. ASSUME NEW j \in DOMAIN comments' PROVE (comments[j].parent \in {0} \cup On(comments[j].target))'
    <3>0. PICK s : s = comments'[j].target
      OBVIOUS
    <3>d. On(comments[j].target)' = On(s)'
      BY <3>0 DEF On
    <3>1. CASE j = n + 1
      <4>1. s = t /\ comments'[j].parent \in {0} \cup On(t)
        BY <1>c, <3>0, <3>1 DEF parent
      <4> QED BY ONLY <2>1, <3>d, <4>1
    <3>2. CASE j # n + 1
      <4>1. j \in 1..n
        BY <1>c, <3>2
      <4>2. comments'[j].parent = comments[j].parent /\ comments[j].target = s
            /\ comments[j].parent \in {0} \cup On(comments[j].target)
        BY <1>c, <1>d, <3>0, <4>1
      <4>3. comments[j].parent \in {0} \cup On(s)
        BY ONLY <4>2
      <4> QED BY ONLY <2>1, <3>d, <4>2, <4>3
    <3> QED BY <3>1, <3>2
  <2>3. ASSUME NEW s \in Targets PROVE counts'[s].comment = Cardinality(On(s)')
    <3>1. CASE s = t
      <4>1. IsFiniteSet(On(t)) /\ Cardinality(On(t)) \in Nat /\ counts[t].comment = Cardinality(On(t))
        BY <1>d, Typed, CommentSets
      <4>2. Cardinality(On(t) \cup {n + 1}) = Cardinality(On(t)) + 1
        BY <2>1, <4>1, FS_AddElement
      <4> QED BY <1>3, <2>1, <3>1, <4>1, <4>2
    <3>2. CASE s # t
      BY <1>3, <1>d, <2>1, <3>2
    <3> QED BY <3>1, <3>2
  <2>4. ASSUME NEW i \in DOMAIN comments' PROVE comments'[i].reply_count = Cardinality(Replies(i)')
    <3>0. parent # n + 1 /\ comments'[n + 1].parent = parent
      BY <1>c DEF On, parent
    <3>1. CASE i = n + 1
      <4>1. \A j \in 1..n : comments[j].parent # n + 1
        BY <1>c, <1>d DEF On
      <4>2. Replies(i)' = {}
        BY <1>c, <3>0, <3>1, <4>1 DEF Replies
      <4> QED BY <1>c, <3>1, <4>2, FS_EmptySet
    <3>2. CASE i # n + 1
      <4>1. i \in 1..n
        BY <1>c, <3>2
      <4>2. CASE i = parent
        <5>1. Replies(i)' = Replies(i) \cup {n + 1} /\ n + 1 \notin Replies(i)
          BY <1>c, <3>0, <4>2 DEF Replies
        <5>2. IsFiniteSet(Replies(i)) /\ Cardinality(Replies(i)) \in Nat
          BY Typed, CommentSets
        <5>3. Cardinality(Replies(i) \cup {n + 1}) = Cardinality(Replies(i)) + 1
          BY <5>1, <5>2, FS_AddElement
        <5>4. comments'[i].reply_count = comments[i].reply_count + 1
          BY <1>c, <4>1, <4>2
        <5>5. comments[i].reply_count = Cardinality(Replies(i))
          BY <1>d, <4>1
        <5> QED BY ONLY <5>1, <5>3, <5>4, <5>5
      <4>3. CASE i # parent
        <5>1. Replies(i)' = Replies(i)
          BY <1>c, <3>0, <4>3 DEF Replies
        <5>4. comments'[i].reply_count = comments[i].reply_count
          BY <1>c, <4>1, <4>3
        <5>5. comments[i].reply_count = Cardinality(Replies(i))
          BY <1>d, <4>1
        <5> QED BY ONLY <5>1, <5>4, <5>5
      <4> QED BY <4>2, <4>3
    <3> QED BY <3>1, <3>2
  <2> QED BY <2>2, <2>3, <2>4 DEF CommentsKnow
<1>7. FollowsKnow' /\ EventsKnow'
  <2>1. ~Works(p) /\ ~Works(p)' /\ ~Follows(p)'
    BY <1>1, <1>2 DEF Works, Follows
  <2> QED BY <1>1, <1>2, <2>1, Typed, FollowsFrame, EventsFrame DEF RowsKnow
<1>8. ASSUME NEW s \in Targets PROVE LikesKnow(s)' /\ ViewsKnow(s)'
  <2>1. LikesKnow(s) /\ ViewsKnow(s)
    BY Typed DEF RowsKnow
  <2>2. ~CountsMark(p) /\ ~CountsMark(p)' /\ ~CountsView(p) /\ ~CountsView(p)'
    BY <1>1, <1>2 DEF CountsMark, CountsView
  <2>3. counts'[s].like = counts[s].like /\ counts'[s].view = counts[s].view
        /\ counts'[s].share = counts[s].share
    BY <1>3
  <2> QED BY <1>1, <1>2, <2>1, <2>2, <2>3, LikesFrame, ViewsFrame DEF marking
<1>9. LocksKnow'
  <2>1. ~Locks(p)' /\ "video" \in Targets
    BY <1>2 DEF Locks, Targets
  <2>2. CASE holder = p
    <3>1. ASSUME NEW q \in Handlers PROVE LockKnows(q)'
      <4>1. ~Locks(q)'
        <5>1. CASE q = p
          BY <2>1, <5>1
        <5>2. CASE q # p
          BY <1>2, <2>2, <5>2, Typed DEF LocksKnow, LockKnows, Locks, Moves
        <5> QED BY <5>1, <5>2
      <4> QED BY <4>1 DEF LockKnows, Locks
    <3> QED BY <3>1 DEF LocksKnow
  <2>3. CASE holder # p
    <3>1. t # "video"
      BY <1>1, <2>3, Typed DEF LocksKnow, LockKnows
    <3> QED BY <1>1, <1>2, <1>3, <2>1, <2>3, <3>1, Typed, LockFrame DEF LocksKnow, shown
  <2> QED BY <2>2, <2>3
<1> QED BY <1>4, <1>5, <1>6, <1>7, <1>8, <1>9 DEF EngagementInv, LocksKnow

-----------------------------------------------------------------------------
(* Progress, the owner, the clock *)

LEMMA UpsertProgressKeeps ==
    ASSUME EngagementAssumption, EngagementInv, NEW p \in Handlers, UpsertProgress(p)
    PROVE  EngagementInv'
<1>1. /\ spent' \in 0..MaxMade[topic]
      /\ UNCHANGED <<clock, shown, counts, marking, comments, views, shares, people, holder, task, mishaps>>
  BY ArrivesInBounds DEF UpsertProgress
<1>2. PICK u \in Users, r \in DramaWatchProgress :
        progress' = [v \in DOMAIN progress \cup {u} |-> IF v = u THEN r ELSE progress[v]]
  BY DEF UpsertProgress
<1>3. \A v \in DOMAIN progress' : v \in Users /\ progress'[v] \in DramaWatchProgress
  <2>1. \A v \in DOMAIN progress : v \in Users /\ progress[v] \in DramaWatchProgress
    BY Typed DEF GTypeOK
  <2> QED BY <1>2, <2>1
<1>4. GTypeOK'
  BY <1>1, <1>3, Typed DEF GTypeOK, clock, shown, marking, people
<1>5. TasksTyped'
  BY <1>1, Typed DEF TasksTyped, TaskTyped, clock, marking
<1>6. CommentsKnow'
  BY <1>1, Typed, CommentsFrame DEF RowsKnow
<1>7. FollowsKnow' /\ EventsKnow'
  <2>1. UNCHANGED <<task, marks, told, keys, times, follows, followers, following, mishaps>>
    BY <1>1 DEF marking, people
  <2>2. FollowsKnow'
    BY <2>1, Typed DEF RowsKnow, FollowsKnow, FollowKnows, Other, Counters, FollowersOf, FollowingIds
  <2>3. EventsKnow'
    BY <2>1, Typed DEF RowsKnow, EventsKnow, Working, Told, Telling, Mark
  <2> QED BY <2>2, <2>3
<1>8. ASSUME NEW s \in Targets PROVE LikesKnow(s)' /\ ViewsKnow(s)'
  <2>1. LikesKnow(s) /\ ViewsKnow(s)
    BY Typed DEF RowsKnow
  <2>2. \A op : Counting(s, op)' = Counting(s, op)
    BY <1>1 DEF Counting, In
  <2>3. LikesKnow(s)'
    BY <1>1, <2>1, <2>2 DEF LikesKnow, marking
  <2>4. ViewsKnow(s)'
    BY <1>1, <2>1, <2>2 DEF ViewsKnow
  <2> QED BY <2>3, <2>4
<1>9. LocksKnow'
  BY <1>1, Typed DEF LocksKnow, LockKnows, OwnedVideo, shown
<1> QED BY <1>4, <1>5, <1>6, <1>7, <1>8, <1>9 DEF EngagementInv, LocksKnow

\* A step of the owner, or of the world, that makes no request of it.
LEMMA OwnerKeeps ==
    ASSUME EngagementAssumption, EngagementInv,
           \/ \E p \in Handlers : CreateVideo(p) \/ DeleteVideo(p)
           \/ Minute
           \/ WithdrawSeries
    PROVE  EngagementInv'
<1>1. /\ UNCHANGED <<counts, marking, talk, people, holder, task, mishaps>> /\ topic' = topic
      /\ spent' \in 0..MaxMade[topic] /\ minute' \in 0..MaxMinutes
  <2>1. ASSUME NEW p \in Handlers, CreateVideo(p) \/ DeleteVideo(p)
        PROVE  /\ UNCHANGED <<counts, marking, talk, people, holder, task, mishaps>> /\ topic' = topic
               /\ spent' \in 0..MaxMade[topic] /\ minute' \in 0..MaxMinutes
    BY <2>1, ArrivesInBounds, Typed DEF CreateVideo, DeleteVideo, clock
  <2>2. ASSUME Minute \/ WithdrawSeries
        PROVE  /\ UNCHANGED <<counts, marking, talk, people, holder, task, mishaps>> /\ topic' = topic
               /\ spent' \in 0..MaxMade[topic] /\ minute' \in 0..MaxMinutes
    BY <2>2, Typed DEF Minute, WithdrawSeries, clock, EngagementAssumption
  <2> QED BY <2>1, <2>2
<1>2. /\ active' \in [Targets -> BOOLEAN] /\ visibility' \in {"none", "public", "private"}
  BY Typed DEF GTypeOK, CreateVideo, DeleteVideo, Minute, WithdrawSeries, shown
<1>3. GTypeOK'
  BY <1>1, <1>2, Typed DEF GTypeOK, marking, talk, people
<1>4. TasksTyped'
  BY <1>1, Typed DEF TasksTyped, TaskTyped, marking, talk
<1>5. RowsKnow'
  BY <1>1, Typed, RowsStill
<1>6. ASSUME NEW q \in Handlers PROVE LockKnows(q)'
  <2>1. LockKnows(q)
    BY Typed DEF LocksKnow
  <2>t. "video" \in Targets /\ "series" \in Targets /\ active \in [Targets -> BOOLEAN] /\ q # "none"
    BY Typed DEF Targets, GTypeOK, EngagementAssumption
  <2>2. CASE \E p \in Handlers : CreateVideo(p)
    <3>1. visibility = "none" /\ active' = active
      BY <2>2 DEF CreateVideo
    <3>3. task[q].op # "update"
      BY <2>1, <3>1 DEF LockKnows
    <3> QED BY <1>1, <2>1, <3>1, <3>3 DEF LockKnows
  <2>3. CASE \E p \in Handlers : DeleteVideo(p)
    <3>1. holder = "none"
      BY <2>3 DEF DeleteVideo
    <3> QED BY <1>1, <2>1, <2>t, <3>1 DEF LockKnows
  <2>4. CASE Minute
    BY <1>1, <2>1, <2>4 DEF LockKnows, Minute, shown, OwnedVideo
  <2>5. CASE WithdrawSeries
    <3>1. active'["video"] = active["video"] /\ visibility' = visibility
      BY <2>5, <2>t DEF WithdrawSeries
    <3> QED BY <1>1, <2>1, <3>1 DEF LockKnows, OwnedVideo
  <2> QED BY <2>2, <2>3, <2>4, <2>5
<1> QED BY <1>3, <1>4, <1>5, <1>6 DEF EngagementInv, RowsKnow

\* Whoever has the lock and is done leaves nobody with it.
LEMMA Unlocks ==
    ASSUME EngagementAssumption, EngagementInv, NEW p \in Handlers, Moves(p), ~Locks(p)', holder = p
    PROVE  LocksKnow'
<1>1. ASSUME NEW q \in Handlers PROVE ~Locks(q)'
  <2>1. CASE q = p
    BY <2>1
  <2>2. CASE q # p
    BY <2>2, Typed DEF LocksKnow, LockKnows, Locks, Moves
  <2> QED BY <2>1, <2>2
<1> QED BY <1>1 DEF LocksKnow, LockKnows, Locks

LEMMA ReadOwnedKeeps ==
    ASSUME EngagementAssumption, EngagementInv, NEW p \in Handlers, ReadOwned(p)
    PROVE  EngagementInv'
<1>1. /\ task[p].op = "none" /\ spent' \in 0..MaxMade[topic] /\ visibility # "none"
      /\ holder = "none" /\ holder' = p /\ Take(p, "update", "video", "owner", OwnedVideo)
      /\ UNCHANGED <<clock, shown, counts, marking, talk, people, mishaps>>
  BY ArrivesInBounds DEF ReadOwned
<1>2. OwnedVideo \in [counts : Video, active : BOOLEAN, visibility : {"public", "private"}]
  BY <1>1, Typed DEF OwnedVideo, GTypeOK, Targets
<1>3. PICK s : s = OwnedVideo
  OBVIOUS
<1> DEFINE r == [op |-> "update", target |-> "video", user |-> "owner", at |-> "row", saw |-> s]
<1>4. r \in Task /\ r.op = "update" /\ r.saw = s /\ task' = [task EXCEPT ![p] = r]
  BY <1>1, <1>2, <1>3, TaskMade DEF Take
<1> HIDE DEF r
<1>5. Moves(p) /\ task'[p] = r
  BY <1>4, Typed, OneTask
<1>6. TaskTyped(p)' /\ Outside(p) /\ Outside(p)' /\ ~Follows(p)'
  BY <1>1, <1>4, <1>5 DEF TaskTyped, Outside, Follows
<1>7. GTypeOK'
  BY <1>1, Typed DEF GTypeOK, clock, shown, marking, talk, people
<1>8. TasksTyped'
  BY <1>1, <1>5, <1>6, Typed, TasksFrame DEF clock, marking, talk
<1>9. RowsKnow'
  BY <1>1, <1>5, <1>6, Typed, RowsFrame
<1>10. ASSUME NEW q \in Handlers PROVE LockKnows(q)'
  <2>1. CASE q = p
    <3>1. OwnedVideo' = s /\ visibility' # "none"
      BY <1>1, <1>3 DEF OwnedVideo, shown
    <3> QED BY <1>1, <1>4, <1>5, <2>1, <3>1 DEF LockKnows
  <2>2. CASE q # p
    <3>1. ~Locks(q)
      BY <1>1, Typed DEF LocksKnow, LockKnows, Locks, EngagementAssumption
    <3> QED BY <1>5, <2>2, <3>1 DEF LockKnows, Locks, Moves
  <2> QED BY <2>1, <2>2
<1> QED BY <1>7, <1>8, <1>9, <1>10 DEF EngagementInv, RowsKnow

\* What is saved is what is there, but for the visibility.
LEMMA Saved ==
    ASSUME EngagementAssumption, EngagementInv, NEW p \in Handlers, SaveVideo(p)
    PROVE  /\ task[p].op = "update" /\ holder = p /\ counts' = counts /\ active' = active
           /\ visibility' \in {"public", "private"}
<1>1. task[p].op = "update" /\ LockKnows(p)
  BY Typed DEF SaveVideo, LocksKnow
<1>2. holder = p /\ task[p].saw.counts = counts["video"] /\ task[p].saw.active = active["video"]
      /\ task[p].saw.visibility = visibility /\ visibility # "none"
  BY <1>1 DEF LockKnows, OwnedVideo
<1>3. counts \in [Targets -> Video] /\ active \in [Targets -> BOOLEAN]
      /\ visibility \in {"none", "public", "private"}
  BY Typed DEF GTypeOK
<1>4. counts' = [counts EXCEPT !["video"] = counts["video"]]
      /\ active' = [active EXCEPT !["video"] = active["video"]]
      /\ visibility' \in {visibility, "public", "private"}
  BY <1>2 DEF SaveVideo
<1>5. counts' = counts /\ active' = active
  BY <1>3, <1>4
<1> QED BY <1>1, <1>2, <1>3, <1>4, <1>5

LEMMA SaveVideoKeeps ==
    ASSUME EngagementAssumption, EngagementInv, NEW p \in Handlers, SaveVideo(p)
    PROVE  EngagementInv'
<1>1. /\ task[p].op = "update" /\ holder = p /\ UNCHANGED <<counts, active>>
      /\ visibility' \in {"none", "public", "private"} /\ Finish(p)
      /\ UNCHANGED <<clock, marking, talk, people, spent, mishaps>>
  BY Saved DEF SaveVideo
<1>2. Moves(p) /\ task'[p].op = "none" /\ TaskTyped(p)' /\ ~Locks(p)'
  BY <1>1, Typed, Finishes DEF TaskTyped, Locks
<1>3. GTypeOK'
  BY <1>1, Typed DEF GTypeOK, clock, marking, talk, people
<1>4. TasksTyped'
  BY <1>1, <1>2, Typed, TasksFrame DEF clock, marking, talk
<1>5. RowsKnow'
  BY <1>1, <1>2, Typed, RowsFrame DEF Outside, Follows
<1>6. LocksKnow'
  BY <1>1, <1>2, Unlocks
<1> QED BY <1>3, <1>4, <1>5, <1>6 DEF EngagementInv, RowsKnow, LocksKnow

LEMMA DieKeeps ==
    ASSUME EngagementAssumption, EngagementInv, NEW p \in Handlers, Die(p)
    PROVE  EngagementInv'
<1>1. /\ Finish(p) /\ mishaps \subseteq mishaps'
      /\ task[p].at \in {"count", "tell"} => "died" \in mishaps'
      /\ holder' = (IF holder = p THEN "none" ELSE holder)
      /\ UNCHANGED <<clock, shown, counts, marking, talk, people, spent>>
  BY DEF Die
<1>2. Moves(p) /\ task'[p].op = "none" /\ TaskTyped(p)'
  BY <1>1, Typed, Finishes DEF TaskTyped
<1>m. UNCHANGED <<marks, told, keys, times, comments, views, shares, minute, topic, people>>
  BY <1>1 DEF marking, talk, clock
<1>3. GTypeOK'
  BY <1>1, Typed DEF GTypeOK, clock, shown, marking, talk, people
<1>4. TasksTyped'
  BY <1>1, <1>2, <1>m, Typed, TasksFrame
<1>5. CommentsKnow' /\ FollowsKnow'
  <2>1. ~Follows(p)'
    BY <1>2 DEF Follows
  <2> QED BY <1>1, <1>2, <1>m, <2>1, Typed, CommentsFrame, FollowsFrame DEF RowsKnow
<1>6. EventsKnow'
  <2>1. CASE Works(p)
    BY <1>1, <2>1 DEF Works, EventsKnow
  <2>2. CASE ~Works(p)
    <3>1. ~Works(p)'
      BY <1>2 DEF Works
    <3> QED BY <1>1, <1>2, <2>2, <3>1, Typed, EventsFrame DEF RowsKnow
  <2> QED BY <2>1, <2>2
<1>7. ASSUME NEW t \in Targets PROVE LikesKnow(t)' /\ ViewsKnow(t)'
  <2>1. CASE task[p].at = "count"
    BY <1>1, <2>1 DEF LikesKnow, ViewsKnow
  <2>2. CASE task[p].at # "count"
    <3>1. /\ ~CountsMark(p) /\ ~CountsMark(p)' /\ ~CountsView(p) /\ ~CountsView(p)'
          /\ LikesKnow(t) /\ ViewsKnow(t)
      BY <1>2, <2>2, Typed DEF CountsMark, CountsView, RowsKnow
    <3> QED BY <1>1, <1>2, <1>m, <3>1, LikesFrame, ViewsFrame
  <2> QED BY <2>1, <2>2
<1>8. LocksKnow'
  <2>1. ~Locks(p)'
    BY <1>2 DEF Locks
  <2>2. CASE holder = p
    BY <1>2, <2>1, <2>2, Unlocks
  <2>3. CASE holder # p
    BY <1>1, <1>2, <2>1, <2>3, Typed, LockFrame DEF LocksKnow, shown
  <2> QED BY <2>2, <2>3
<1> QED BY <1>3, <1>4, <1>5, <1>6, <1>7, <1>8 DEF EngagementInv, LocksKnow

-----------------------------------------------------------------------------
(* Follows *)

\* A step of a request to follow: what is left to show.
LEMMA FollowStepKeeps ==
    ASSUME EngagementAssumption, EngagementInv, NEW p \in Handlers, Moves(p), TaskTyped(p)',
           task[p].op \in {"none", "follow", "unfollow"}, task'[p].op \in {"none", "follow", "unfollow"},
           UNCHANGED <<clock, shown, counts, marking, talk, holder>>, mishaps \subseteq mishaps',
           spent' \in 0..MaxMade[topic], follows' \subseteq Users \X Users,
           followers' \in [Users -> Nat], following' \in [Users -> Nat], FollowsKnow'
    PROVE  EngagementInv'
<1>m. UNCHANGED <<marks, told, keys, times, comments, views, shares, minute, topic>>
  BY DEF marking, talk, clock
<1>1. GTypeOK'
  BY Typed DEF GTypeOK, clock, shown, marking, talk
<1>2. TasksTyped'
  BY <1>m, Typed, TasksFrame
<1>3. /\ ~CountsMark(p) /\ ~CountsMark(p)' /\ ~CountsView(p) /\ ~CountsView(p)'
      /\ ~Works(p) /\ ~Works(p)' /\ ~Locks(p)'
  BY DEF CountsMark, CountsView, Works, Locks
<1>4. CommentsKnow' /\ EventsKnow'
  BY <1>m, <1>3, Typed, CommentsFrame, EventsFrame DEF RowsKnow
<1>5. ASSUME NEW t \in Targets PROVE LikesKnow(t)' /\ ViewsKnow(t)'
  <2>1. LikesKnow(t) /\ ViewsKnow(t)
    BY Typed DEF RowsKnow
  <2> QED BY <1>m, <1>3, <2>1, LikesFrame, ViewsFrame
<1>6. LocksKnow'
  BY <1>3, Typed, LockFrame DEF LocksKnow, shown
<1> QED BY <1>1, <1>2, <1>4, <1>5, <1>6 DEF EngagementInv, LocksKnow

LEMMA AskFollowKeeps ==
    ASSUME EngagementAssumption, EngagementInv, NEW p \in Handlers, NEW op \in {"follow", "unfollow"},
           AskFollow(p, op)
    PROVE  EngagementInv'
<1>1. /\ task[p].op = "none" /\ spent' \in 0..MaxMade[topic]
      /\ UNCHANGED <<clock, shown, counts, marking, talk, people, holder>>
  BY ArrivesInBounds DEF AskFollow
<1>2. PICK u \in Users, v \in Users :
        /\ u # v /\ (op = "unfollow" => <<u, v>> \in follows)
        /\ Take(p, op, v, u, Counters(u, v))
        /\ mishaps' = mishaps \cup (IF \E q \in Handlers : Other(q, u, v) THEN {"stale"} ELSE {})
  BY DEF AskFollow
<1>3. PICK s : s = Counters(u, v)
  OBVIOUS
<1>t. followers \in [Users -> Nat] /\ following \in [Users -> Nat] /\ follows \subseteq Users \X Users
  BY Typed DEF GTypeOK
<1>4. s \in [target : Nat, follower : Nat]
  BY <1>3, <1>t DEF Counters
<1> DEFINE r == [op |-> op, target |-> v, user |-> u, at |-> "row", saw |-> s]
<1>5. r \in Task /\ r.op = op /\ r.target = v /\ r.user = u /\ r.saw = s
      /\ task' = [task EXCEPT ![p] = r]
  BY <1>2, <1>3, <1>4, TaskMade DEF Take
<1> HIDE DEF r
<1>6. Moves(p) /\ task'[p] = r
  BY <1>5, Typed, OneTask
<1>7. TaskTyped(p)'
  BY <1>2, <1>4, <1>5, <1>6 DEF TaskTyped
<1>8. FollowsKnow'
  <2> SUFFICES ASSUME "stale" \notin mishaps' PROVE FollowsKnow'
    BY DEF FollowsKnow
  <2>1. "stale" \notin mishaps /\ \A q \in Handlers : ~Other(q, u, v)
    BY <1>2
  <2>2. /\ \A q \in Handlers : FollowKnows(q)
        /\ \A x \in Users : followers[x] = Cardinality(FollowersOf(x))
                            /\ following[x] = Cardinality(FollowingIds(x))
    BY <2>1, Typed DEF RowsKnow, FollowsKnow
  <2>p. UNCHANGED <<follows, followers, following>>
    BY <1>1 DEF people
  <2>3. ASSUME NEW q \in Handlers PROVE FollowKnows(q)'
    <3>1. CASE q = p
      <4>1. \A z \in Handlers \ {p} : ~Other(z, u, v)'
        BY <1>6, <2>1 DEF Other, Moves
      <4>2. Counters(u, v)' = s
        BY <1>3, <2>p DEF Counters
      <4>3. task'[q].op = op /\ task'[q].user = u /\ task'[q].target = v /\ task'[q].saw = s
        BY <1>5, <1>6, <3>1
      <4>4. op = "unfollow" => <<u, v>> \in follows'
        BY <1>2, <2>p
      <4> QED BY ONLY <3>1, <4>1, <4>2, <4>3, <4>4 DEF FollowKnows, Counters, Other
    <3>2. CASE q # p
      <4>1. FollowKnows(q) /\ task'[q] = task[q]
        BY <1>6, <2>2, <3>2 DEF Moves
      <4>2. task[q].op \in {"follow", "unfollow"} => {task[q].user, task[q].target} \cap {u, v} = {}
        BY <2>1 DEF Other
      <4>3. task'[p].user = u /\ task'[p].target = v
        BY <1>5, <1>6
      <4>4. \A z \in Handlers : z # p => task'[z] = task[z]
        BY <1>6 DEF Moves
      <4> QED BY ONLY <2>p, <4>1, <4>2, <4>3, <4>4, p \in Handlers, q \in Handlers DEF FollowKnows, Counters, Other
    <3> QED BY <3>1, <3>2
  <2> QED BY <2>2, <2>3, <2>p DEF FollowsKnow, FollowersOf, FollowingIds
<1> QED BY <1>1, <1>2, <1>5, <1>6, <1>7, <1>8, <1>t, FollowStepKeeps DEF people

\* The two users of a request to follow.
LEMMA FollowUsers ==
    ASSUME EngagementAssumption, EngagementInv, NEW p \in Handlers, task[p].op \in {"follow", "unfollow"}
    PROVE  /\ task[p].user \in Users /\ task[p].target \in Users /\ task[p].user # task[p].target
           /\ task[p].saw.target \in Nat /\ task[p].saw.follower \in Nat
           /\ followers \in [Users -> Nat] /\ following \in [Users -> Nat] /\ follows \subseteq Users \X Users
<1>1. TaskTyped(p)
  BY Typed DEF TasksTyped
<1>2. task[p].saw \in [target : Nat, follower : Nat]
  BY <1>1 DEF TaskTyped
<1> QED BY <1>1, <1>2, Typed DEF TaskTyped, GTypeOK

\* A request that writes the row and the counters of its two users, and is done.
LEMMA FollowWritten ==
    ASSUME EngagementAssumption, EngagementInv, NEW p \in Handlers, task[p].op \in {"follow", "unfollow"},
           Finish(p), "stale" \notin mishaps,
           NEW u \in Users, NEW v \in Users, u = task[p].user, v = task[p].target,
           \A x, y \in Users : <<x, y>> # <<u, v>> => (<<x, y>> \in follows' <=> <<x, y>> \in follows),
           \A x \in Users : x # v => followers'[x] = followers[x],
           \A x \in Users : x # u => following'[x] = following[x],
           followers'[v] = Cardinality(FollowersOf(v)'), following'[u] = Cardinality(FollowingIds(u)')
    PROVE  FollowsKnow'
<1>1. u # v
  BY FollowUsers
<1>2. Moves(p) /\ task'[p].op = "none"
  BY Typed, Finishes
<1>3. /\ \A q \in Handlers : FollowKnows(q)
      /\ \A x \in Users : followers[x] = Cardinality(FollowersOf(x))
                          /\ following[x] = Cardinality(FollowingIds(x))
  BY Typed DEF RowsKnow, FollowsKnow
<1>4. ASSUME NEW x \in Users PROVE followers'[x] = Cardinality(FollowersOf(x)')
  <2>1. CASE x = v
    BY <1>1, <2>1
  <2>2. CASE x # v
    <3>1. \A y \in Users : <<y, x>> \in follows' <=> <<y, x>> \in follows
      BY <1>1, <2>2
    <3>2. FollowersOf(x)' = FollowersOf(x)
      BY <3>1 DEF FollowersOf
    <3> QED BY <1>1, <1>3, <2>2, <3>2
  <2> QED BY <2>1, <2>2
<1>5. ASSUME NEW x \in Users PROVE following'[x] = Cardinality(FollowingIds(x)')
  <2>1. CASE x = u
    BY <1>1, <2>1
  <2>2. CASE x # u
    <3>1. \A y \in Users : <<x, y>> \in follows' <=> <<x, y>> \in follows
      BY <1>1, <2>2
    <3>2. FollowingIds(x)' = FollowingIds(x)
      BY <3>1 DEF FollowingIds
    <3> QED BY <1>1, <1>3, <2>2, <3>2
  <2> QED BY <2>1, <2>2
<1>6. ASSUME NEW q \in Handlers PROVE FollowKnows(q)'
  <2>1. CASE task'[q].op \notin {"follow", "unfollow"}
    BY <2>1 DEF FollowKnows
  <2>2. CASE task'[q].op \in {"follow", "unfollow"}
    <3>1. q # p /\ task'[q] = task[q]
      BY <1>2, <2>2 DEF Moves
    <3>2. PICK a \in Users, b \in Users : a = task[q].user /\ b = task[q].target
      BY <2>2, <3>1, FollowUsers
    <3>3. FollowKnows(p) /\ FollowKnows(q)
      BY <1>3
    <3>4. ~Other(q, u, v)
      BY <1>1, <3>1, <3>3 DEF FollowKnows
    <3>5. a \notin {u, v} /\ b \notin {u, v}
      BY <2>2, <3>1, <3>2, <3>4 DEF Other
    <3>6. /\ task[q].saw = Counters(a, b)
          /\ task[q].op = "unfollow" => <<a, b>> \in follows
          /\ \A r \in Handlers \ {q} : ~Other(r, a, b)
      BY <2>2, <3>1, <3>2, <3>3 DEF FollowKnows
    <3>7. Counters(a, b)' = Counters(a, b)
      BY <1>1, <3>5 DEF Counters
    <3>8. <<a, b>> \in follows' <=> <<a, b>> \in follows
      BY <1>1, <3>5
    <3>9. ASSUME NEW r \in Handlers \ {q} PROVE ~Other(r, a, b)'
      <4>1. CASE r = p
        BY <1>2, <4>1 DEF Other
      <4>2. CASE r # p
        BY <1>2, <3>6, <4>2 DEF Other, Moves
      <4> QED BY <4>1, <4>2
    <3>10. task'[q].user = a /\ task'[q].target = b /\ task'[q].saw = task[q].saw /\ task'[q].op = task[q].op
      BY <3>1, <3>2
    <3> QED BY ONLY <3>6, <3>7, <3>8, <3>9, <3>10, Counters(a, b)' = Counters(a, b) DEF FollowKnows
  <2> QED BY <2>1, <2>2
<1> QED BY <1>4, <1>5, <1>6 DEF FollowsKnow

\* Whoever is followed by one more, or one less.
LEMMA FollowerSets ==
    ASSUME EngagementAssumption, NEW u \in Users
    PROVE  /\ IsFiniteSet(FollowersOf(u)) /\ Cardinality(FollowersOf(u)) \in Nat
           /\ IsFiniteSet(FollowingIds(u)) /\ Cardinality(FollowingIds(u)) \in Nat
<1>1. FollowersOf(u) \subseteq Users /\ FollowingIds(u) \subseteq Users
  BY DEF FollowersOf, FollowingIds
<1> QED BY <1>1, FS_Subset, FS_CardinalityType DEF EngagementAssumption

LEMMA FollowAdded ==
    ASSUME EngagementAssumption, NEW u \in Users, NEW v \in Users, <<u, v>> \notin follows,
           follows' = follows \cup {<<u, v>>}
    PROVE  /\ Cardinality(FollowersOf(v)') = Cardinality(FollowersOf(v)) + 1
           /\ Cardinality(FollowingIds(u)') = Cardinality(FollowingIds(u)) + 1
<1>1. /\ FollowersOf(v)' = FollowersOf(v) \cup {u} /\ u \notin FollowersOf(v)
      /\ FollowingIds(u)' = FollowingIds(u) \cup {v} /\ v \notin FollowingIds(u)
  BY DEF FollowersOf, FollowingIds
<1> QED BY <1>1, FollowerSets, FS_AddElement

LEMMA FollowRemoved ==
    ASSUME EngagementAssumption, NEW u \in Users, NEW v \in Users, <<u, v>> \in follows,
           follows' = follows \ {<<u, v>>}
    PROVE  /\ Cardinality(FollowersOf(v)') = Cardinality(FollowersOf(v)) - 1
           /\ Cardinality(FollowingIds(u)') = Cardinality(FollowingIds(u)) - 1
           /\ Cardinality(FollowersOf(v)) > 0 /\ Cardinality(FollowingIds(u)) > 0
<1>1. /\ FollowersOf(v)' = FollowersOf(v) \ {u} /\ u \in FollowersOf(v)
      /\ FollowingIds(u)' = FollowingIds(u) \ {v} /\ v \in FollowingIds(u)
  BY DEF FollowersOf, FollowingIds
<1>2. /\ Cardinality(FollowersOf(v)') = Cardinality(FollowersOf(v)) - 1
      /\ Cardinality(FollowingIds(u)') = Cardinality(FollowingIds(u)) - 1
  BY <1>1, FollowerSets, FS_RemoveElement
<1>3. Cardinality(FollowersOf(v)) # 0 /\ Cardinality(FollowingIds(u)) # 0
  BY <1>1, FollowerSets, FS_EmptySet
<1> QED BY <1>2, <1>3, FollowerSets

LEMMA InsertFollowKeeps ==
    ASSUME EngagementAssumption, EngagementInv, NEW p \in Handlers, InsertFollow(p)
    PROVE  EngagementInv'
<1>1. /\ task[p].op = "follow" /\ Finish(p)
      /\ UNCHANGED <<clock, shown, counts, marking, talk, holder, spent, mishaps>>
  BY DEF InsertFollow
<1>2. Moves(p) /\ task'[p].op = "none" /\ TaskTyped(p)'
  BY <1>1, Typed, Finishes DEF TaskTyped
<1>3. PICK u \in Users, v \in Users : u = task[p].user /\ v = task[p].target
  BY <1>1, FollowUsers
<1>4. /\ task[p].saw.target \in Nat /\ task[p].saw.follower \in Nat
      /\ followers \in [Users -> Nat] /\ following \in [Users -> Nat] /\ follows \subseteq Users \X Users
  BY <1>1, FollowUsers
<1>5. CASE <<u, v>> \in follows
  <2>1. UNCHANGED people
    BY <1>3, <1>5 DEF InsertFollow
  <2>2. FollowsKnow'
    BY <1>1, <1>2, <2>1, Typed, FollowsFrame DEF RowsKnow, Follows
  <2> QED BY <1>1, <1>2, <1>4, <2>1, <2>2, Typed, FollowStepKeeps DEF people
<1>6. CASE <<u, v>> \notin follows
  <2>1. /\ follows' = follows \cup {<<u, v>>}
        /\ followers' = [followers EXCEPT ![v] = task[p].saw.target + 1]
        /\ following' = [following EXCEPT ![u] = task[p].saw.follower + 1]
    BY <1>3, <1>6 DEF InsertFollow
  <2>2. /\ follows' \subseteq Users \X Users
        /\ followers' \in [Users -> Nat] /\ following' \in [Users -> Nat]
    BY <1>4, <2>1
  <2>3. ASSUME "stale" \notin mishaps PROVE FollowsKnow'
    <3>1. FollowKnows(p) /\ followers[v] = Cardinality(FollowersOf(v))
          /\ following[u] = Cardinality(FollowingIds(u))
      BY <2>3, Typed DEF RowsKnow, FollowsKnow
    <3>2. task[p].saw.target = followers[v] /\ task[p].saw.follower = following[u]
      BY <1>1, <1>3, <3>1 DEF FollowKnows, Counters
    <3>3. followers'[v] = followers[v] + 1 /\ following'[u] = following[u] + 1
      BY <1>4, <2>1, <3>2
    <3>4. followers'[v] = Cardinality(FollowersOf(v)') /\ following'[u] = Cardinality(FollowingIds(u)')
      BY <1>6, <2>1, <3>1, <3>3, FollowAdded
    <3>5. /\ \A x, y \in Users : <<x, y>> # <<u, v>> => (<<x, y>> \in follows' <=> <<x, y>> \in follows)
          /\ \A x \in Users : x # v => followers'[x] = followers[x]
          /\ \A x \in Users : x # u => following'[x] = following[x]
      BY <1>4, <2>1
    <3> QED BY <1>1, <1>3, <2>3, <3>4, <3>5, FollowWritten
  <2>4. FollowsKnow'
    BY <1>1, <2>3 DEF FollowsKnow
  <2> QED BY <1>1, <1>2, <2>2, <2>4, Typed, FollowStepKeeps
<1> QED BY <1>5, <1>6

LEMMA DeleteFollowKeeps ==
    ASSUME EngagementAssumption, EngagementInv, NEW p \in Handlers, DeleteFollow(p)
    PROVE  EngagementInv'
<1>1. /\ task[p].op = "unfollow" /\ Finish(p)
      /\ UNCHANGED <<clock, shown, counts, marking, talk, holder, spent, mishaps>>
  BY DEF DeleteFollow
<1>2. Moves(p) /\ task'[p].op = "none" /\ TaskTyped(p)'
  BY <1>1, Typed, Finishes DEF TaskTyped
<1>3. PICK u \in Users, v \in Users : u = task[p].user /\ v = task[p].target
  BY <1>1, FollowUsers
<1>4. /\ task[p].saw.target \in Nat
      /\ followers \in [Users -> Nat] /\ following \in [Users -> Nat] /\ follows \subseteq Users \X Users
  BY <1>1, FollowUsers
<1>5. CASE followers[v] > 0 /\ task[p].saw.target = 0
  <2>1. UNCHANGED people
    BY <1>3, <1>5 DEF DeleteFollow
  <2>2. FollowsKnow'
    BY <1>1, <1>2, <2>1, Typed, FollowsFrame DEF RowsKnow, Follows
  <2> QED BY <1>1, <1>2, <1>4, <2>1, <2>2, Typed, FollowStepKeeps DEF people
<1>6. CASE ~(followers[v] > 0 /\ task[p].saw.target = 0)
  <2>1. /\ follows' = follows \ {<<u, v>>}
        /\ followers' = [followers EXCEPT ![v] = IF @ > 0 THEN task[p].saw.target - 1 ELSE @]
        /\ following' = [following EXCEPT ![u] = IF @ > 0 THEN @ - 1 ELSE @]
    BY <1>3, <1>6 DEF DeleteFollow
  <2>2. /\ follows' \subseteq Users \X Users
        /\ followers' \in [Users -> Nat] /\ following' \in [Users -> Nat]
    BY <1>4, <1>6, <2>1
  <2>3. ASSUME "stale" \notin mishaps PROVE FollowsKnow'
    <3>1. FollowKnows(p) /\ followers[v] = Cardinality(FollowersOf(v))
          /\ following[u] = Cardinality(FollowingIds(u))
      BY <2>3, Typed DEF RowsKnow, FollowsKnow
    <3>2. task[p].saw.target = followers[v] /\ <<u, v>> \in follows
      BY <1>1, <1>3, <3>1 DEF FollowKnows, Counters
    <3>3. followers[v] > 0 /\ following[u] > 0
          /\ Cardinality(FollowersOf(v)') = Cardinality(FollowersOf(v)) - 1
          /\ Cardinality(FollowingIds(u)') = Cardinality(FollowingIds(u)) - 1
      BY <2>1, <3>1, <3>2, FollowRemoved
    <3>4. followers'[v] = followers[v] - 1 /\ following'[u] = following[u] - 1
      BY <1>4, <2>1, <3>2, <3>3
    <3>5. followers'[v] = Cardinality(FollowersOf(v)') /\ following'[u] = Cardinality(FollowingIds(u)')
      BY <3>1, <3>3, <3>4
    <3>6. /\ \A x, y \in Users : <<x, y>> # <<u, v>> => (<<x, y>> \in follows' <=> <<x, y>> \in follows)
          /\ \A x \in Users : x # v => followers'[x] = followers[x]
          /\ \A x \in Users : x # u => following'[x] = following[x]
      BY <1>4, <2>1
    <3> QED BY <1>1, <1>3, <2>3, <3>5, <3>6, FollowWritten
  <2>4. FollowsKnow'
    BY <1>1, <2>3 DEF FollowsKnow
  <2> QED BY <1>1, <1>2, <2>2, <2>4, Typed, FollowStepKeeps
<1> QED BY <1>5, <1>6

LEMMA EngagementBegins == ASSUME EngagementAssumption, GInit PROVE EngagementInv
<1>1. Empty \in Video /\ Empty.like = 0 /\ Empty.comment = 0 /\ Empty.view = 0 /\ Empty.share = 0
  BY DEF Empty, Video
<1>2. GTypeOK
  <2>1. 0 \in 0..MaxMade[topic]
    BY DEF GInit, EngagementAssumption
  <2> QED BY <1>1, <2>1 DEF GInit, GTypeOK
<1>3. task \in [Handlers -> Task] /\ \A p \in Handlers : task[p].op = "none" /\ task[p].at = "idle"
  <2>1. task = [p \in Handlers |-> Free] /\ Free.op = "none" /\ Free.at = "idle"
    BY DEF GInit, Free
  <2> QED BY <2>1, TaskMade
<1>4. TasksTyped
  <2>1. \A p \in Handlers : TaskTyped(p)
    BY <1>3 DEF TaskTyped
  <2>2. minute = 0 /\ MaxMinutes \in Nat /\ views = {} /\ keys = {}
    BY DEF GInit, EngagementAssumption
  <2>3. /\ told \in [Targets \X Users -> {"nothing", "mark", "unmark"}]
        /\ times \in [Targets \X Users -> Nat]
    BY DEF GInit
  <2> QED BY <1>3, <2>1, <2>2, <2>3, FS_EmptySet DEF TasksTyped
<1>5. \A p \in Handlers : LockKnows(p)
  BY <1>3 DEF LockKnows
<1>6. Cardinality({}) = 0
  BY FS_EmptySet
<1>7. CommentsKnow
  <2>1. comments = <<>> /\ DOMAIN comments = {} /\ \A t \in Targets : counts[t].comment = 0
    BY <1>1 DEF GInit
  <2>2. \A t : On(t) = {}
    BY <2>1 DEF On
  <2> QED BY <1>6, <2>1, <2>2 DEF CommentsKnow
<1>8. FollowsKnow
  <2>1. \A u \in Users : followers[u] = 0 /\ following[u] = 0 /\ FollowersOf(u) = {} /\ FollowingIds(u) = {}
    BY DEF GInit, FollowersOf, FollowingIds
  <2>2. \A p \in Handlers : FollowKnows(p)
    BY <1>3 DEF FollowKnows
  <2> QED BY <1>6, <2>1, <2>2 DEF FollowsKnow
<1>9. EventsKnow
  <2>1. ASSUME NEW m \in Targets \X Users
        PROVE  Told(m) /\ Working(m) = {}
    <3>1. times[m] = 0 /\ told[m] = "nothing" /\ keys = {} /\ marks[m[1]] = {}
      BY DEF GInit
    <3> QED BY <1>3, <3>1 DEF Told, Working
  <2> QED BY <2>1 DEF EventsKnow
<1>10. ASSUME NEW t \in Targets PROVE LikesKnow(t) /\ ViewsKnow(t)
  <2>1. \A op : Counting(t, op) = {}
    BY <1>3 DEF Counting, In
  <2>2. counts[t] = Empty /\ marks[t] = {} /\ views = {} /\ shares[t] = 0
    BY DEF GInit
  <2>3. {k \in views : k[1] = t} = {}
    BY <2>2
  <2>4. Counting(t, "mark") = {} /\ Counting(t, "unmark") = {} /\ Counting(t, "view") = {}
        /\ Counting(t, "share") = {}
    BY <2>1
  <2>5. LikesKnow(t)
    BY ONLY <1>1, <1>6, <2>2, <2>4 DEF LikesKnow
  <2>6. ViewsKnow(t)
    BY ONLY <1>1, <1>6, <2>2, <2>3, <2>4 DEF ViewsKnow
  <2> QED BY <2>5, <2>6
<1> QED BY <1>2, <1>4, <1>5, <1>7, <1>8, <1>9, <1>10 DEF EngagementInv

LEMMA StepKeeps ==
    ASSUME EngagementAssumption, EngagementInv, NEW p \in Handlers, Step(p)
    PROVE  EngagementInv'
<1>0. "video" \in Targets /\ "series" \in Targets
  BY DEF Targets
<1>1. ASSUME NEW t \in Targets, MarkSteps(p, t) PROVE EngagementInv'
  <2>1. CASE Starts(p, "marks", "mark", t) /\ UNCHANGED holder
    BY <2>1, StartKeeps
  <2> QED BY <1>1, <2>1, InsertMarkKeeps, CountMarkKeeps, TellMarkKeeps DEF MarkSteps
<1>2. ASSUME NEW t \in Targets, UnmarkSteps(p, t) PROVE EngagementInv'
  <2>1. CASE Starts(p, "marks", "unmark", t) /\ UNCHANGED holder
    BY <2>1, StartKeeps
  <2> QED BY <1>2, <2>1, DeleteMarkKeeps, CountMarkKeeps, TellMarkKeeps DEF UnmarkSteps
<1>3. CASE LikeVideo(p) \/ UnlikeVideo(p) \/ AddFavorite(p) \/ RemoveFavorite(p)
  BY <1>0, <1>1, <1>2, <1>3 DEF LikeVideo, UnlikeVideo, AddFavorite, RemoveFavorite
<1>4. CASE CommentVideo(p)
  BY <1>0, <1>4, CommentVideoBegins, InsertCommentKeeps DEF CommentVideo
<1>5. CASE CommentSeries(p)
  <2>1. CASE Starts(p, "comments", "comment", "series") /\ UNCHANGED holder
    BY <1>0, <2>1, StartKeeps
  <2> QED BY <1>0, <1>5, <2>1, InsertCommentKeeps DEF CommentSeries
<1>6. ASSUME NEW t \in Targets, ViewSteps(p, t) PROVE EngagementInv'
  <2>1. CASE Starts(p, "views", "view", t) /\ UNCHANGED holder
    BY <2>1, StartKeeps
  <2> QED BY <1>6, <2>1, InsertViewKeeps, CountItKeeps DEF ViewSteps
<1>7. CASE ViewVideo(p) \/ ViewSeries(p)
  BY <1>0, <1>6, <1>7 DEF ViewVideo, ViewSeries
<1>8. CASE ShareVideo(p)
  <2>1. CASE Starts(p, "views", "share", "video") /\ UNCHANGED holder
    BY <1>0, <2>1, StartKeeps
  <2> QED BY <1>0, <1>8, <2>1, InsertShareKeeps, CountItKeeps DEF ShareVideo
<1>9. CASE ShareSeries(p) \/ UpsertProgress(p)
  BY <1>9, ShareSeriesKeeps, UpsertProgressKeeps
<1>10. CASE CreateVideo(p) \/ DeleteVideo(p)
  BY <1>10, OwnerKeeps
<1>11. CASE UpdateVideo(p)
  BY <1>11, ReadOwnedKeeps, SaveVideoKeeps DEF UpdateVideo
<1>12. CASE FollowUser(p) \/ UnfollowUser(p)
  BY <1>12, AskFollowKeeps, InsertFollowKeeps, DeleteFollowKeeps DEF FollowUser, UnfollowUser
<1>13. CASE Die(p)
  BY <1>13, DieKeeps
<1> QED BY <1>3, <1>4, <1>5, <1>7, <1>8, <1>9, <1>10, <1>11, <1>12, <1>13 DEF Step

LEMMA EngagementStep ==
    ASSUME EngagementAssumption, EngagementInv, [GNext]_gvars
    PROVE  EngagementInv'
<1>1. CASE GNext
  BY <1>1, StepKeeps, OwnerKeeps DEF GNext
<1>2. CASE UNCHANGED gvars
  <2>1. UNCHANGED <<topic, active, visibility, counts, marks, comments, views, shares, progress, follows,
                    followers, following, minute, holder, task, spent, told, keys, times, mishaps>>
    BY <1>2 DEF gvars
  <2>2. GTypeOK'
    BY <2>1, Typed DEF GTypeOK
  <2>3. TasksTyped'
    BY <2>1, Typed DEF TasksTyped, TaskTyped
  <2>4. RowsKnow'
    BY <2>1, Typed, RowsStill DEF marking, talk, people
  <2>5. LocksKnow'
    BY <2>1, Typed DEF LocksKnow, LockKnows, OwnedVideo
  <2> QED BY <2>2, <2>3, <2>4, <2>5 DEF EngagementInv, RowsKnow, LocksKnow
<1> QED BY <1>1, <1>2

\* The strengthened invariant of marks, comments, views and follows holds throughout.
THEOREM EngagementInductive == GSpec => []EngagementInv
<1>1. EngagementInv /\ [GNext]_gvars => EngagementInv'
  BY EngagementStep, EngagementAssumption
<1>2. GInit => EngagementInv
  BY EngagementBegins, EngagementAssumption
<1> QED BY <1>1, <1>2, PTL DEF GSpec

\* What the cards show is what the invariant speaks of.
LEMMA EngagementInvSound == ASSUME EngagementAssumption, EngagementInv PROVE EngagementSound
<1>1. ASSUME NEW t \in Targets, NEW c \in CountsShown(t) PROVE c = counts[t]
  BY DEF CountsShown, Shown, VideoShown, SeriesShown, VideoCard, SeriesCard, OwnedVideo, Targets
<1>2. ASSUME NEW t \in Targets PROVE Comments(t) \cup UNION {Replies(i) : i \in On(t)} = On(t)
  <2>1. \A j \in DOMAIN comments : comments[j].parent \in {0} \cup On(comments[j].target)
    BY Typed DEF RowsKnow, CommentsKnow
  <2>2. ASSUME NEW i \in On(t), NEW j \in Replies(i) PROVE j \in On(t)
    <3>1. j \in DOMAIN comments /\ comments[j].parent = i /\ i \in DOMAIN comments
          /\ comments[i].target = t
      BY <2>2 DEF Replies, On
    <3>2. i # 0
      BY <3>1, Typed DEF GTypeOK
    <3> QED BY <2>1, <3>1, <3>2 DEF On
  <2>3. ASSUME NEW j \in On(t) PROVE j \in Comments(t) \/ \E i \in On(t) : j \in Replies(i)
    BY <2>1 DEF Comments, Replies, On
  <2>4. Comments(t) \subseteq On(t)
    BY DEF Comments
  <2> HIDE DEF Comments
  <2> QED BY <2>2, <2>3, <2>4
<1>3. CountersExplained
  <2>1. ASSUME "died" \notin mishaps, NEW t \in Targets, NEW c \in CountsShown(t)
        PROVE  /\ "crossed" \notin mishaps =>
                    c.like + Cardinality(Counting(t, "mark"))
                      = Cardinality(marks[t]) + Cardinality(Counting(t, "unmark"))
               /\ c.view + Cardinality(Counting(t, "view")) = Cardinality({k \in views : k[1] = t})
               /\ c.share + Cardinality(Counting(t, "share")) = shares[t]
    <3>1. c = counts[t] /\ LikesKnow(t) /\ ViewsKnow(t)
      BY <1>1, Typed DEF RowsKnow
    <3>2. "crossed" \notin mishaps => mishaps \cap {"died", "crossed"} = {}
      BY <2>1
    <3>3. CASE "crossed" \in mishaps
      BY <2>1, <3>1, <3>3 DEF ViewsKnow
    <3>4. CASE "crossed" \notin mishaps
      BY <2>1, <3>1, <3>2, <3>4 DEF ViewsKnow, LikesKnow
    <3> QED BY <3>3, <3>4
  <2>2. ASSUME NEW t \in Targets, NEW c \in CountsShown(t)
        PROVE  c.comment = Cardinality(Comments(t) \cup UNION {Replies(i) : i \in On(t)})
    BY <1>1, <1>2, Typed DEF RowsKnow, CommentsKnow
  <2>3. \A i \in DOMAIN comments : comments[i].reply_count = Cardinality(Replies(i))
    BY Typed DEF RowsKnow, CommentsKnow
  <2>4. ASSUME "stale" \notin mishaps, NEW u \in Users
        PROVE  /\ FollowerCount(u) = Cardinality({v \in Users : u \in FollowingIds(v)})
               /\ following[u] = Cardinality(FollowingIds(u))
    <3>1. {v \in Users : u \in FollowingIds(v)} = FollowersOf(u)
      BY DEF FollowingIds, FollowersOf
    <3> QED BY <2>4, <3>1, Typed DEF RowsKnow, FollowsKnow, FollowerCount
  <2> QED BY <2>1, <2>2, <2>3, <2>4 DEF CountersExplained
<1>4. EventsTellMarks
  <2> SUFFICES ASSUME mishaps = {}, NEW t \in Targets, NEW u \in Users, ~InHand(<<t, u>>)
               PROVE  IF times[<<t, u>>] <= 1
                        THEN \A card \in Shown(t, u) : card.is_marked <=> told[<<t, u>>] = "mark"
                        ELSE told[<<t, u>>] = "unmark"
    BY DEF EventsTellMarks
  <2>1. PICK m \in Targets \X Users : m = <<t, u>> /\ m[1] = t /\ m[2] = u
    OBVIOUS
  <2>2. Working(m) = {}
    BY <2>1 DEF InHand, Working
  <2>3. Told(m)
    BY <2>2, Typed DEF RowsKnow, EventsKnow
  <2>4. times[m] \in Nat
    BY Typed DEF TasksTyped
  <2>5. ASSUME NEW card \in Shown(t, u) PROVE card.is_marked <=> u \in marks[t]
    <3>1. CASE t = "video"
      <4>1. card = VideoCard(u)
        BY <3>1 DEF Shown, VideoShown
      <4>2. VideoCard(u).is_marked = (u \in marks["video"])
        BY DEF VideoCard
      <4> QED BY <3>1, <4>1, <4>2
    <3>2. CASE t = "series"
      <4>1. card = SeriesCard(u)
        BY <3>2 DEF Shown, SeriesShown
      <4>2. SeriesCard(u).is_marked = (u \in marks["series"])
        BY DEF SeriesCard
      <4> QED BY <3>2, <4>1, <4>2
    <3> QED BY <3>1, <3>2 DEF Targets
  <2>6. times[m] > 1 => told[m] = "unmark"
    BY <2>3 DEF Told
  <2>7. times[m] <= 1 => (u \in marks[t] <=> told[m] = "mark")
    BY <2>1, <2>3, <2>4 DEF Told
  <2> QED BY <2>1, <2>4, <2>5, <2>6, <2>7
<1> QED BY <1>3, <1>4, Typed DEF EngagementSound

\* Likes, favourites, comments, views, shares and follows by any number of users: every
\* counter shown is the number of its rows, up to the requests between the two, and the
\* events tell the first like and its unlike.
THEOREM EngagementIsSound == GSpec => []EngagementSound
<1>1. EngagementInv => EngagementSound
  BY EngagementInvSound, EngagementAssumption
<1> QED BY <1>1, EngagementInductive, PTL

LEMMA DeletedStep ==
    ASSUME EngagementAssumption, EngagementInv, ~active["video"], [GNext]_gvars
    PROVE  ~active'["video"] /\ On("video")' = On("video")
<1>a. active \in [Targets -> BOOLEAN] /\ "video" \in Targets /\ "series" \in Targets /\ "video" # "series"
  BY Typed DEF GTypeOK, Targets
<1>1. CASE UNCHANGED <<active, comments>>
  BY <1>1 DEF On
<1>2. ASSUME NEW p \in Handlers, SaveVideo(p) PROVE UNCHANGED <<active, comments>>
  BY <1>2, Saved DEF SaveVideo, talk
<1>3. ASSUME NEW p \in Handlers, DeleteVideo(p) PROVE FALSE
  BY <1>3 DEF DeleteVideo
<1>4. ASSUME NEW p \in Handlers, InsertComment(p, "video") PROVE FALSE
  <2>1. LockKnows(p)
    BY Typed DEF LocksKnow
  <2> QED BY <1>4, <2>1 DEF InsertComment, In, LockKnows
<1>5. ASSUME NEW p \in Handlers, InsertComment(p, "series")
      PROVE  ~active'["video"] /\ On("video")' = On("video")
  <2>1. UNCHANGED active
    BY <1>5 DEF InsertComment, shown
  <2>2. /\ Len(comments) \in Nat /\ Len(comments') = Len(comments) + 1
        /\ comments \in Seq(VideoComment) /\ comments' \in Seq(VideoComment)
        /\ \A i \in 1..Len(comments) : comments'[i].target = comments[i].target
        /\ comments'[Len(comments) + 1].target = "series"
    BY <1>a, <1>5, CommentAdded
  <2>3. DOMAIN comments = 1..Len(comments) /\ DOMAIN comments' = 1..(Len(comments) + 1)
    BY <2>2
  <2>4. ASSUME NEW i PROVE i \in On("video")' <=> i \in On("video")
    <3>1. i \in On("video") <=> i \in 1..Len(comments) /\ comments[i].target = "video"
      BY <2>3 DEF On
    <3>2. i \in On("video")' <=> i \in 1..(Len(comments) + 1) /\ comments'[i].target = "video"
      BY <2>3 DEF On
    <3>3. i \in 1..(Len(comments) + 1) <=> i \in 1..Len(comments) \/ i = Len(comments) + 1
      BY <2>2
    <3> QED BY ONLY <2>2, <3>1, <3>2, <3>3
  <2> QED BY <2>1, <2>4 DEF On
<1>6. ASSUME WithdrawSeries PROVE ~active'["video"] /\ UNCHANGED comments
  BY <1>a, <1>6 DEF WithdrawSeries, talk
<1>7. CASE UNCHANGED gvars
  BY <1>1, <1>7 DEF gvars
<1>8. ASSUME NEW p \in Handlers, Step(p)
      PROVE  UNCHANGED <<active, comments>> \/ SaveVideo(p) \/ DeleteVideo(p)
             \/ InsertComment(p, "video") \/ InsertComment(p, "series")
  <2>1. ASSUME NEW group, NEW op, NEW t, Starts(p, group, op, t) PROVE UNCHANGED <<active, comments>>
    BY <2>1 DEF Starts, shown, talk
  <2>2. ASSUME NEW t, NEW op, InsertMark(p, t) \/ DeleteMark(p, t) \/ CountMark(p, op, t) \/ TellMark(p, op, t)
                 \/ InsertView(p, t) \/ CountIt(p, op, t)
        PROVE  UNCHANGED <<active, comments>>
    BY <2>2 DEF InsertMark, DeleteMark, CountMark, TellMark, InsertView, CountIt, shown, talk
  <2>3. ASSUME InsertShare(p) \/ ShareSeries(p) \/ UpsertProgress(p) \/ CreateVideo(p) \/ ReadOwned(p) \/ Die(p)
        PROVE  UNCHANGED <<active, comments>>
    BY <2>3 DEF InsertShare, ShareSeries, UpsertProgress, CreateVideo, ReadOwned, Die, shown, talk
  <2>4. ASSUME FollowUser(p) \/ UnfollowUser(p) PROVE UNCHANGED <<active, comments>>
    BY <2>4 DEF FollowUser, UnfollowUser, AskFollow, InsertFollow, DeleteFollow, shown, talk
  <2>5. ASSUME NEW t, MarkSteps(p, t) \/ UnmarkSteps(p, t) \/ ViewSteps(p, t) PROVE UNCHANGED <<active, comments>>
    BY <2>1, <2>2, <2>5 DEF MarkSteps, UnmarkSteps, ViewSteps
  <2>6. CASE LikeVideo(p) \/ UnlikeVideo(p) \/ AddFavorite(p) \/ RemoveFavorite(p) \/ ViewVideo(p) \/ ViewSeries(p)
    BY <2>5, <2>6 DEF LikeVideo, UnlikeVideo, AddFavorite, RemoveFavorite, ViewVideo, ViewSeries
  <2>7. CASE CommentVideo(p) \/ CommentSeries(p)
    BY <2>1, <2>7 DEF CommentVideo, CommentSeries
  <2>8. CASE ShareVideo(p)
    BY <2>1, <2>2, <2>3, <2>8 DEF ShareVideo
  <2>9. CASE UpdateVideo(p)
    BY <2>3, <2>9 DEF UpdateVideo
  <2> QED BY <1>8, <2>3, <2>4, <2>6, <2>7, <2>8, <2>9 DEF Step
<1>9. CASE Minute
  BY <1>1, <1>9 DEF Minute, shown, talk
<1>10. CASE WithdrawSeries
  BY <1>6, <1>10 DEF On
<1>11. CASE \E p \in Handlers : Step(p)
  BY <1>1, <1>2, <1>3, <1>4, <1>5, <1>8, <1>11
<1> QED BY <1>7, <1>9, <1>10, <1>11 DEF GNext

\* The owner's deletion against the owner's own updates and everyone's comments.
THEOREM DeletedForGood == GSpec => DeletedStaysDeleted
<1>1. EngagementInv /\ [GNext]_gvars =>
        [~active["video"] => ~active'["video"] /\ On("video")' = On("video")]_gvars
  BY DeletedStep, EngagementAssumption
<1> QED BY <1>1, EngagementInductive, PTL DEF GSpec, DeletedStaysDeleted
=============================================================================
