---------------------------- MODULE Entitlements ----------------------------
(***************************************************************************)
(* What a fan buys from other people's content: gifts (content/gift), drama *)
(* episodes (content/drama) and memberships (membership), each behind the   *)
(* response cache of libs/idempotency.                                      *)
(*                                                                          *)
(* A request looks into the cache, reads what its service reads before a    *)
(* lock is taken, runs one transaction, and stores the answer in the cache. *)
(* The transaction is one step: the debit locks the fan's wallet and finds  *)
(* the key if it was posted (LedgerPromise).  A paid membership order is    *)
(* granted by the handler of OrderPaid, which the outbox delivers until it  *)
(* succeeds or has failed MaxTries times (module Outbox).                   *)
(***************************************************************************)
EXTENDS Integers, Sequences, FiniteSets, Functions

CONSTANTS Procs,      \* request threads and dispatchers
          Keys,       \* Idempotency-Keys the client draws
          Amounts,    \* gift amounts
          PlanDays,   \* the duration of the plan on sale; 0: for ever
          Funds,      \* what the fan starts with
          MaxCalls,   \* bound on the requests, per group
          MaxOrders,  \* bound on the membership orders
          MaxTries,   \* tries of an event before it is dead, per group
          MaxTime,    \* bound on the days
          Offers      \* the groups of operations one behaviour draws on

ASSUME EntitlementsAssumption ==
    /\ Amounts \subseteq Nat \ {0}
    /\ PlanDays \in Nat /\ Funds \in Nat
    /\ MaxCalls \in [Offers -> Nat] /\ MaxOrders \in Nat /\ MaxTries \in [Offers -> Nat \ {0}] /\ MaxTime \in Nat
    /\ Offers \subseteq SUBSET {"content", "orders", "calendar", "import"}

VARIABLES offer,        \* the groups of this behaviour
          money,        \* the balance of the fan's and the owner's wallet
          gifts,        \* the GiftTransaction rows
          unlocks,      \* the episodes the fan has a DramaUnlock row of
          posted,       \* the idempotency keys in the ledger
          series,       \* is the series active?
          plan,         \* is the plan active?
          orders,       \* the MembershipOrder rows, with their payment's OrderPaid
          memberships,  \* the fan's UserMembership rows, oldest first
          now,          \* today
          cache,        \* the requests whose answer is cached
          answered,     \* history: the requests that were ever answered with success
          called,       \* how many requests were made
          step, at,     \* per thread: where it is, and with what
          overlapped    \* history: have two grants ever overlapped?

evars == <<offer, money, gifts, unlocks, posted, series, plan, orders, memberships,
           now, cache, answered, called, step, at, overlapped>>
content == <<gifts, unlocks, series>>
member == <<plan, orders, memberships, now, overlapped>>

Price == 1
Wallets == {"fan", "owner"}
Forever == MaxTime + PlanDays + 1     \* ends_at is null

Episodes == {"free", "meow_points", "membership"}     \* each named for its unlock_type
Gift == [key : Keys, amount : Amounts, receiver : {"owner"}]
Order == [key : Keys, status : {"pending_payment", "paid"}, provider : {"wallet", "stripe"},
          event : {"none", "pending", "settled", "dead"}, tries : Nat]
UserMembership == [status : {"active", "expired"}, ends_at : 0..Forever,
                   source : {"purchase", "migration"}, ref : Nat]

\* A request's path tells what is asked of what; the amount of a gift is in its body.
Requests == [path : {"gift"}, episode : {"none"}, key : Keys, amount : Amounts]
            \cup [path : {"unlock"}, episode : Episodes, key : Keys, amount : {0}]
            \cup [path : {"order"}, episode : {"none"}, key : Keys, amount : {0}]

\* Defect: the path is left out of the cache key.
CacheKeyOfUser(r) == [path |-> "any", episode |-> "none", key |-> r.key, amount |-> 0]

\* _make_cache_key: user, path and key.
CacheKey(r) == [r EXCEPT !.amount = 0]
None == [path |-> "none"]

ETypeOK ==
    /\ offer \in Offers
    /\ money \in [Wallets -> Nat]
    /\ gifts \subseteq Gift
    /\ unlocks \subseteq Episodes
    /\ posted \subseteq ({"gift", "order"} \X Keys) \cup ({"unlock"} \X Episodes)
    /\ series \in BOOLEAN /\ plan \in BOOLEAN /\ overlapped \in BOOLEAN
    /\ orders \in Seq(Order)
    /\ memberships \in Seq(UserMembership)
    /\ now \in 0..MaxTime
    /\ called \in 0..MaxCalls[offer]
    /\ step \in [Procs -> {"idle", "lookup", "commit", "store", "grant", "insert"}]

EInit ==
    /\ offer \in Offers
    /\ money = [w \in Wallets |-> IF w = "fan" THEN Funds ELSE 0]
    /\ gifts = {} /\ unlocks = {} /\ posted = {}
    /\ series = TRUE /\ plan = TRUE
    /\ orders = <<>> /\ memberships = <<>>
    /\ now = 0
    /\ cache = {} /\ answered = {}
    /\ called = 0
    /\ step = [p \in Procs |-> "idle"]
    /\ at = [p \in Procs |-> None]
    /\ overlapped = FALSE

-----------------------------------------------------------------------------
(* The response cache: libs/idempotency *)

Goto(p, s, x) == step' = [step EXCEPT ![p] = s] /\ at' = [at EXCEPT ![p] = x]
Leave(p) == Goto(p, "idle", None)

\* serialize_transaction, _send_result: what an answer tells the client is done.  Its
\* amount is that of the row, whatever this request's body says.
Answer(r) == [r EXCEPT !.amount = 0]

\* A request: what is cached is answered at once, without a look at its body.
Call(p) ==
    /\ step[p] = "idle"
    /\ called < MaxCalls[offer] /\ called' = called + 1
    /\ \E r \in Requests :
         /\ IF r.path = "order" THEN "orders" \in offer ELSE "content" \in offer
         /\ IF CacheKey(r) \in cache
              THEN answered' = answered \cup {Answer(r)} /\ UNCHANGED <<step, at>>
              ELSE Goto(p, "lookup", r) /\ UNCHANGED answered
    /\ UNCHANGED <<offer, money, posted, content, member, cache>>

\* The answer is stored and sent; a refusal is an exception, which the decorator lets
\* pass and does not store.
Store(p) ==
    /\ step[p] = "store"
    /\ cache' = cache \cup {CacheKey(at[p])}
    /\ answered' = answered \cup {Answer(at[p])}
    /\ Leave(p)
    /\ UNCHANGED <<offer, money, posted, content, member, called>>

\* A day passes, or the cache is flushed: of interest as long as there are requests.
Evict ==
    /\ cache # {} /\ cache' = {}
    /\ called < MaxCalls[offer]
    /\ UNCHANGED <<offer, money, posted, content, member, answered, called, step, at>>

\* The service refuses, or the process dies before its transaction or after it;
\* before its first read would be as good as no request.
GiveUp(p) ==
    /\ step[p] \in {"commit", "store"}
    /\ Leave(p)
    /\ UNCHANGED <<offer, money, posted, content, member, cache, answered, called>>

-----------------------------------------------------------------------------
(* Gifts, unlocks, orders *)

Found(r) ==
    CASE r.path = "gift"  -> \E g \in gifts : g.key = r.key
      [] r.path = "order" -> \E i \in DOMAIN orders : orders[i].key = r.key
      [] OTHER            -> r.episode \in unlocks

\* _resolve_receiver: who gets the gift, if the series is active.
ResolveReceiver == IF series THEN {"owner"} ELSE {}

\* What each service reads first: a row with the key (or the unlock) is the answer.
\* unlock_episode looks at the episode alone, not at its series.
Lookup(p) ==
    /\ step[p] = "lookup"
    /\ LET r == at[p]
           refused == \/ r.path = "gift" /\ ResolveReceiver = {}
                      \/ r.path = "unlock" /\ r.episode \in {"free", "membership"}
       IN  CASE Found(r) -> Goto(p, "store", r)
             [] refused /\ ~Found(r) -> Leave(p)
             [] OTHER -> Goto(p, "commit", r)
    /\ UNCHANGED <<offer, money, posted, content, member, cache, answered, called>>

\* economy.debit and credit: a posted key is not posted again, a balance stays
\* at or above zero.
Post(key, from, amount, to) ==
    IF key \in posted THEN UNCHANGED <<money, posted>>
    ELSE /\ money[from] >= amount
         /\ money' = [w \in Wallets |-> money[w] - (IF w = from THEN amount ELSE 0)
                                                 + (IF w = to THEN amount ELSE 0)]
         /\ posted' = posted \cup {key}

\* Defect: the key of a gift is not unique.
SendGiftAgain(p) ==
    /\ step[p] = "commit" /\ at[p].path = "gift"
    /\ Post(<<"gift", at[p].key>>, "fan", at[p].amount, "owner")
    /\ gifts' = gifts \cup {[key |-> at[p].key, amount |-> at[p].amount, receiver |-> "owner"]}
    /\ Goto(p, "store", at[p])
    /\ UNCHANGED <<offer, unlocks, series, member, cache, answered, called>>

\* send_gift: both postings and the row, whose unique key makes a second one fail.
SendGift(p) ==
    /\ step[p] = "commit" /\ at[p].path = "gift"
    /\ ~Found(at[p])
    /\ Post(<<"gift", at[p].key>>, "fan", at[p].amount, "owner")
    /\ gifts' = gifts \cup {[key |-> at[p].key, amount |-> at[p].amount, receiver |-> "owner"]}
    /\ Goto(p, "store", at[p])
    /\ UNCHANGED <<offer, unlocks, series, member, cache, answered, called>>

\* gift_totals, shown on the card of the series.
GiftTotals == SumFunctionOnSet([g \in gifts |-> g.amount], gifts)

\* unlock_episode: the debit and the row, unique for the fan and the episode.
UnlockEpisode(p) ==
    /\ step[p] = "commit" /\ at[p].path = "unlock"
    /\ ~Found(at[p])
    /\ Post(<<"unlock", at[p].episode>>, "fan", Price, "nobody")
    /\ unlocks' = unlocks \cup {at[p].episode}
    /\ Goto(p, "store", at[p])
    /\ UNCHANGED <<offer, gifts, series, member, cache, answered, called>>

\* create_order: order, payment order and, from the wallet, debit and settlement.
CreateOrder(p) ==
    /\ step[p] = "commit" /\ at[p].path = "order"
    /\ ~Found(at[p])
    /\ plan
    /\ Len(orders) < MaxOrders
    /\ \E provider \in {"wallet", "stripe"} :
         /\ orders' = Append(orders, [key |-> at[p].key, status |-> "pending_payment",
                                      provider |-> provider, tries |-> 0,
                                      event |-> IF provider = "wallet" THEN "pending" ELSE "none"])
         /\ IF provider = "wallet"
              THEN Post(<<"order", at[p].key>>, "fan", Price, "nobody")
              ELSE UNCHANGED <<money, posted>>
    /\ Goto(p, "store", at[p])
    /\ UNCHANGED <<offer, content, plan, memberships, now, overlapped, cache, answered, called>>

\* Stripe's webhook: payments marks the order paid and emits OrderPaid.
SettleStripe(i) ==
    /\ orders[i].provider = "stripe" /\ orders[i].event = "none"
    /\ orders' = [orders EXCEPT ![i].event = "pending"]
    /\ UNCHANGED <<offer, money, posted, content, plan, memberships, now, overlapped,
                   cache, answered, called, step, at>>

-----------------------------------------------------------------------------
(* Memberships *)

Active == {i \in DOMAIN memberships : memberships[i].status = "active"}
IsExpired(m) == m.ends_at # Forever /\ m.ends_at <= now

\* get_active_membership: of the active rows the one that ends last (null first), if
\* it has not ended.
GetActiveMembership ==
    {i \in Active : /\ \A j \in Active : memberships[j].ends_at <= memberships[i].ends_at
                    /\ ~IsExpired(memberships[i])}
HasMembership == GetActiveMembership # {}

\* serialize_membership, get_my_membership: what the fan is shown.
MyMembership == {[ends_at |-> memberships[i].ends_at, is_expired |-> IsExpired(memberships[i])] :
                   i \in GetActiveMembership}

Granting(q) == step[q] \in {"grant", "insert"}

\* settle_membership_order, mark_order_paid: an order paid already is left alone.
ReadOrder(p) ==
    /\ step[p] = "idle"
    /\ \E i \in DOMAIN orders :
         /\ orders[i].event = "pending"
         /\ IF orders[i].status = "paid"
              THEN /\ orders' = [orders EXCEPT ![i].event = "settled"]
                   /\ UNCHANGED <<step, at>>
              ELSE /\ Goto(p, "grant", [path |-> "deliver", order |-> i])
                   /\ UNCHANGED orders
    /\ overlapped' = (overlapped \/ \E q \in Procs : Granting(q))
    /\ UNCHANGED <<offer, money, posted, content, plan, memberships, now,
                   cache, answered, called>>

\* Defect: a failed try is not counted.
GrantFailsUncounted(p) ==
    /\ Granting(p)
    /\ Leave(p)
    /\ UNCHANGED <<offer, money, posted, content, member, cache, answered, called>>

\* grant_membership looks the plan up again: without it the delivery fails, as it may
\* for any other reason.  After MaxTries failures the event is dead.
GrantFails(p) ==
    /\ Granting(p)
    /\ LET i == at[p].order
       IN  orders' = IF orders[i].event # "pending" THEN orders
                     ELSE [orders EXCEPT ![i].tries = @ + 1,
                             ![i].event = IF orders[i].tries + 1 = MaxTries[offer] THEN "dead" ELSE @]
    /\ Leave(p)
    /\ UNCHANGED <<offer, money, posted, content, plan, memberships, now, overlapped,
                   cache, answered, called>>

\* Saving the order locks its row; then the active memberships are expired, the
\* committed ones at this moment.
ScanActive(p) ==
    /\ step[p] = "grant"
    /\ plan
    /\ \A q \in Procs : step[q] = "insert" => at[q].order # at[p].order
    /\ Goto(p, "insert", [path |-> "deliver", order |-> at[p].order, seen |-> Active])
    /\ UNCHANGED <<offer, money, posted, content, plan, orders, memberships, now, overlapped,
                   cache, answered, called>>

EndsAt == IF PlanDays = 0 THEN Forever ELSE now + PlanDays
Expired(rows) == [i \in DOMAIN memberships |->
                    IF i \in rows THEN [memberships[i] EXCEPT !.status = "expired"]
                    ELSE memberships[i]]
Granted(i) == [status |-> "active", ends_at |-> EndsAt, source |-> "purchase", ref |-> i]

\* Defect: the rows that are active are left as they are.
GrantKeepsOthers(p) ==
    /\ step[p] = "insert"
    /\ memberships' = Append(memberships, Granted(at[p].order))
    /\ orders' = [orders EXCEPT ![at[p].order].status = "paid"]
    /\ Leave(p)
    /\ UNCHANGED <<offer, money, posted, content, plan, now, overlapped, cache, answered, called>>

\* The commit of the grant.  The dispatcher's ack is a later statement.
InsertGrant(p) ==
    /\ step[p] = "insert"
    /\ memberships' = Append(Expired(at[p].seen), Granted(at[p].order))
    /\ orders' = [orders EXCEPT ![at[p].order].status = "paid"]
    /\ Leave(p)
    /\ UNCHANGED <<offer, money, posted, content, plan, now, overlapped, cache, answered, called>>

-----------------------------------------------------------------------------
(* Watching *)

\* _episode_access, as get_episode and list_episodes use it.
CanWatch(e) == e = "free" \/ e \in unlocks \/ (e = "membership" /\ HasMembership)

\* Which episodes are played back to the fan: those of an active series.
Playback == IF series THEN {e \in Episodes : CanWatch(e)} ELSE {}

-----------------------------------------------------------------------------
(* Outside *)

NextDay ==
    /\ "calendar" \in offer
    /\ now < MaxTime /\ now' = now + 1
    /\ UNCHANGED <<offer, money, posted, content, plan, orders, memberships, overlapped,
                   cache, answered, called, step, at>>

\* Someone with access to the database takes the plan, or the series, off.
Withdraw ==
    /\ \/ "calendar" \in offer /\ plan' = ~plan /\ plan /\ UNCHANGED series
       \/ "content" \in offer /\ series' = ~series /\ UNCHANGED plan
    /\ UNCHANGED <<offer, money, posted, gifts, unlocks, orders, memberships, now, overlapped,
                   cache, answered, called, step, at>>

Proceed(p) ==
    Lookup(p) \/ SendGift(p) \/ UnlockEpisode(p) \/ CreateOrder(p) \/ Store(p) \/ GiveUp(p)

Deliver(p) == ReadOrder(p) \/ GrantFails(p) \/ ScanActive(p) \/ InsertGrant(p)

ENext ==
    \/ \E p \in Procs : Call(p) \/ Proceed(p) \/ Deliver(p)
    \/ \E i \in DOMAIN orders : SettleStripe(i)
    \/ Evict \/ NextDay \/ Withdraw

\* A request in hand is carried on to its end, and a dispatcher polls as long as there
\* is something to deliver (run_dispatcher).
EFairness == \A p \in Procs : WF_evars(Proceed(p)) /\ WF_evars(Deliver(p))

-----------------------------------------------------------------------------
(* Properties *)

Wallet(i) == orders[i].provider = "wallet"

\* Each row that was paid for from the wallet stands for exactly one debit of its
\* price, and a gift for one credit of the same amount, whatever requests with the
\* same key or for the same episode overlap, die or are repeated (send_gift,
\* unlock_episode, create_order): what the fan no longer has is where the rows say.
BooksBalance ==
    /\ ETypeOK
    /\ money["owner"] = GiftTotals
    /\ money["fan"] = Funds - money["owner"]
         - Price * (Cardinality(unlocks) + Cardinality({i \in DOMAIN orders : Wallet(i)}))
    /\ posted = {<<"gift", g.key>> : g \in gifts} \cup {<<"unlock", e>> : e \in unlocks}
                 \cup {<<"order", orders[i].key>> : i \in {j \in DOMAIN orders : Wallet(j)}}

\* Who is answered with success, from the cache or from the service, by the first
\* attempt or a later one, has what the request's path and key stand for: no answer
\* outlives a transaction that was rolled back and none is another request's.
AnswersHold == \A r \in answered : Found(r)

Purchased(i) == memberships[i].source = "purchase"

\* A membership was paid for and a paid order was granted one, in one transaction;
\* each once, and "one active row per user at a time" (models.py, UserMembership), unless
\* two deliveries overlapped; and who paid for one that has not ended is shown one,
\* although each grant, and each import, ends or replaces what was there.
MembershipSound ==
    /\ \A i \in DOMAIN memberships :
         Purchased(i) /\ ~IsExpired(memberships[i]) =>
           \E m \in MyMembership : m.ends_at >= memberships[i].ends_at /\ ~m.is_expired
    /\ \A i \in DOMAIN orders :
         (orders[i].status = "paid") <=>
             \E j \in DOMAIN memberships : Purchased(j) /\ memberships[j].ref = i
    /\ \A i \in DOMAIN orders : orders[i].status = "paid" => orders[i].event # "none"
    /\ ~overlapped =>
         /\ Cardinality({i \in Active : Purchased(i)}) <= 1
         /\ \A i, j \in DOMAIN memberships :
              Purchased(i) /\ Purchased(j) /\ memberships[i].ref = memberships[j].ref => i = j

\* A settled order is granted, or its event was tried as often as the outbox tries
\* (mark_order_paid; a dead event is left to an operator).
PaidIsGranted ==
    \A i \in 1..MaxOrders :
        (i \in DOMAIN orders /\ orders[i].event = "pending")
            ~> (i \in DOMAIN orders /\ (orders[i].status = "paid" \/ orders[i].event = "dead"))
=============================================================================
