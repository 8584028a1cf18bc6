------------------------------ MODULE Purchase ------------------------------
(***************************************************************************)
(* apps/commerce: the orders for one product of a seller, from the stock   *)
(* they reserve to their refunds.                                          *)
(*                                                                         *)
(* A handler that locks the row it decides on before anything else is one  *)
(* action.  The lock on the product row is a variable of its own, because  *)
(* orders and the seller contend for it; mark_order_paid locks nothing, so *)
(* its read and its write are two actions.  The payment order is its       *)
(* status and whether OrderPaid was announced (PaymentOrder has the rest); *)
(* one unit of the product costs one unit of money; an order is known by   *)
(* its idempotency key.  Fees, snapshots and the tracking are left out.    *)
(***************************************************************************)
EXTENDS Integers, Sequences, FiniteSets, Functions

CONSTANTS Procs,          \* request threads and dispatchers
          Keys,           \* idempotency keys: one order each
          MaxStock,       \* bound on the units the seller declares
          Money,          \* what the buyer's wallet holds at first
          MaxDeliveries,  \* bound on the deliveries of one OrderPaid
          MaxRequests,    \* bound on the refund requests for one order
          Nobody,         \* the holder of a product row that is not locked
          NoKey,          \* the order an idle handler works on
          Deployments     \* which of the two deployments to consider, see atomic

ASSUME PurchaseAssumption ==
    /\ MaxStock \in Nat
    /\ Money \in Nat
    /\ MaxDeliveries \in Nat
    /\ MaxRequests \in Nat
    /\ Nobody \notin Procs
    /\ Deployments \subseteq BOOLEAN

VARIABLES atomic,     \* is a request a transaction?  Under the tests it is; the
                      \* settings leave ATOMIC_REQUESTS off
          product,    \* the committed row: stock and status
          supply,     \* history: the units the seller has ever put up for sale
          holder,     \* who holds the row lock of the product
          order,      \* the committed orders
          payment,    \* the status of each payment order
          announced,  \* the orders whose payments.OrderPaid is in the outbox
          deliveries, \* how often OrderPaid reached the handler of commerce
          refund,     \* the refund requests of each order, oldest first
          balance,    \* the buyer's wallet
          errors,     \* the orders whose cancel was answered with a server error
          pc, op, seen

vars == <<atomic, product, supply, holder, order, payment, announced, deliveries,
          refund, balance, errors, pc, op, seen>>

Statuses == {"pending_payment", "paid", "shipping", "completed", "cancelled"}
Refundable == {"paid", "shipping", "completed"}       \* _REFUNDABLE_ORDER_STATES
Active == {"requested", "approved"}                   \* _ACTIVE_REFUND_STATES
ProductStatuses == {"active", "archived"}   \* a draft is on sale as little
Providers == {"wallet", "stripe"}   \* blockchain settles as Stripe does

NoOrder == [status |-> "none", quantity |-> 0, provider |-> "none",
            paid_at |-> FALSE, cancelled_at |-> FALSE, shipments |-> 0]
NoOp == [kind |-> "none", key |-> NoKey, quantity |-> 0, provider |-> "none"]
NoRow == [stock |-> 0, status |-> "archived"]

Row == [stock : Nat, status : ProductStatuses]
Order == [status : Statuses \cup {"none"}, quantity : Nat,
          provider : Providers \cup {"none"}, paid_at : BOOLEAN,
          cancelled_at : BOOLEAN, shipments : Nat]
Request == [amount : Nat \ {0}, status : Active \cup {"rejected", "refunded"}]
Op == [kind : {"none", "create", "update", "archive", "paid"},
       key : Keys \cup {NoKey}, quantity : 0..MaxStock,
       provider : Providers \cup {"none"}]

TypeOK ==
    /\ atomic \in BOOLEAN
    /\ product \in Row
    /\ supply \in Int
    /\ holder \in Procs \cup {Nobody}
    /\ order \in [Keys -> Order]
    /\ payment \in [Keys -> {"none", "PENDING_PAYMENT", "PAID", "FAILED", "CANCELLED"}]
    /\ announced \subseteq Keys
    /\ deliveries \in [Keys -> 0..MaxDeliveries]
    /\ refund \in [Keys -> Seq(Request)]
    /\ balance \in Nat
    /\ errors \subseteq Keys
    /\ pc \in [Procs -> {"idle", "lock", "place", "save", "write"}]
    /\ op \in [Procs -> Op]
    /\ seen \in [Procs -> Row]

\* A seller's product is on sale.
Init ==
    /\ atomic \in Deployments
    /\ product = [stock |-> MaxStock, status |-> "active"]
    /\ supply = MaxStock
    /\ holder = Nobody
    /\ order = [k \in Keys |-> NoOrder]
    /\ payment = [k \in Keys |-> "none"]
    /\ announced = {}
    /\ deliveries = [k \in Keys |-> 0]
    /\ refund = [k \in Keys |-> <<>>]
    /\ balance = Money
    /\ errors = {}
    /\ pc = [p \in Procs |-> "idle"]
    /\ op = [p \in Procs |-> NoOp]
    /\ seen = [p \in Procs |-> NoRow]

-----------------------------------------------------------------------------
(* Steps the handlers share *)

Goto(p, where) == pc' = [pc EXCEPT ![p] = where]

Start(p, o, where) ==
    /\ pc[p] = "idle"
    /\ op' = [op EXCEPT ![p] = o]
    /\ Goto(p, where)

Return(p) ==
    /\ Goto(p, "idle")
    /\ op' = [op EXCEPT ![p] = NoOp]
    /\ seen' = [seen EXCEPT ![p] = NoRow]

Unlock(p) == holder' = Nobody /\ Return(p)

\* Defect: the row is read without FOR UPDATE.
ReadProduct(p) ==
    /\ pc[p] = "lock"
    /\ op[p].kind = "create" => product.status = "active"
    /\ seen' = [seen EXCEPT ![p] = product]
    /\ Goto(p, IF op[p].kind = "create" THEN "place" ELSE "save")
    /\ UNCHANGED <<atomic, product, supply, holder, order, payment, announced,
                   deliveries, refund, balance, errors, op>>

\* SELECT ... FOR UPDATE of the product; a buyer finds it only while it is active.
LockProduct(p) ==
    /\ pc[p] = "lock"
    /\ holder = Nobody
    /\ op[p].kind = "create" => product.status = "active"
    /\ holder' = p
    /\ seen' = [seen EXCEPT ![p] = product]
    /\ Goto(p, IF op[p].kind = "create" THEN "place" ELSE "save")
    /\ UNCHANGED <<atomic, product, supply, order, payment, announced, deliveries,
                   refund, balance, errors, op>>

\* PRODUCT_NOT_FOUND.
ProductMissing(p) ==
    /\ pc[p] = "lock"
    /\ op[p].kind = "create"
    /\ product.status # "active"
    /\ Return(p)
    /\ UNCHANGED <<atomic, product, supply, holder, order, payment, announced,
                   deliveries, refund, balance, errors>>

-----------------------------------------------------------------------------
(* create_order *)

\* The key has no order yet.  (If it has one, that order is the answer.)
LookupKey(p, k, quantity, provider) ==
    /\ order[k].status = "none"
    /\ Start(p, [kind |-> "create", key |-> k, quantity |-> quantity,
                 provider |-> provider], "lock")
    /\ UNCHANGED <<atomic, product, supply, holder, order, payment, announced,
                   deliveries, refund, balance, errors, seen>>

\* Stock, order, payment order and, for a wallet, the debit and the settlement
\* commit together.  The emission of OrderPaid may be lost: _emit swallows it.
PlaceOrder(p) ==
    LET o == op[p]
        wallet == o.provider = "wallet" IN
    /\ pc[p] = "place"
    /\ order[o.key].status = "none"
    /\ seen[p].stock >= o.quantity
    /\ wallet => balance >= o.quantity
    /\ product' = [product EXCEPT !.stock = seen[p].stock - o.quantity]
    /\ order' = [order EXCEPT ![o.key] =
           [NoOrder EXCEPT !.status = "pending_payment", !.quantity = o.quantity,
                           !.provider = o.provider]]
    /\ payment' = [payment EXCEPT ![o.key] = IF wallet THEN "PAID" ELSE "PENDING_PAYMENT"]
    /\ \/ wallet /\ announced' = announced \cup {o.key}
       \/ UNCHANGED announced
    /\ balance' = IF wallet THEN balance - o.quantity ELSE balance
    /\ Unlock(p)
    /\ UNCHANGED <<atomic, supply, deliveries, refund, errors>>

\* STOCK_INSUFFICIENT, no address, no funds, the key taken meanwhile, Stripe or
\* the database failing: everything is rolled back.
PlaceFails(p) ==
    /\ pc[p] = "place"
    /\ Unlock(p)
    /\ UNCHANGED <<atomic, product, supply, order, payment, announced, deliveries,
                   refund, balance, errors>>

-----------------------------------------------------------------------------
(* update_seller_product, archive_seller_product *)

EditProduct(p, kind) ==
    /\ Start(p, [NoOp EXCEPT !.kind = kind], "lock")
    /\ UNCHANGED <<atomic, product, supply, holder, order, payment, announced,
                   deliveries, refund, balance, errors, seen>>

\* An update saves every column, those the seller left alone (the stock, here) as
\* they were read; an archive the status only.
SaveProduct(p) ==
    /\ pc[p] = "save"
    /\ \/ /\ op[p].kind = "update"
          /\ \E stock \in {seen[p].stock} \cup (0..MaxStock), status \in ProductStatuses :
                /\ product' = [stock |-> stock, status |-> status]
                /\ supply' = supply + stock - seen[p].stock
       \/ /\ op[p].kind = "archive"
          /\ product' = [product EXCEPT !.status = "archived"]
          /\ UNCHANGED supply
    /\ Unlock(p)
    /\ UNCHANGED <<atomic, order, payment, announced, deliveries, refund, balance,
                   errors>>

-----------------------------------------------------------------------------
(* cancel_order *)

\* Defect: a paid order may be cancelled too.
CancelAnyUnshipped(k) ==
    /\ atomic
    /\ order[k].status \in {"pending_payment", "paid"}
    /\ holder = Nobody
    /\ product' = [product EXCEPT !.stock = @ + order[k].quantity]
    /\ order' = [order EXCEPT ![k].status = "cancelled", ![k].cancelled_at = TRUE]
    /\ payment' = [payment EXCEPT ![k] = IF @ = "PENDING_PAYMENT" THEN "CANCELLED" ELSE @]
    /\ UNCHANGED <<atomic, supply, holder, announced, deliveries, refund, balance,
                   errors, pc, op, seen>>

\* The row of the order is locked first; the UPDATE of the stock waits for the
\* product.  A payment order that is no longer open is left as it is.
CancelOrder(k) ==
    /\ atomic
    /\ order[k].status = "pending_payment"
    /\ holder = Nobody
    /\ product' = [product EXCEPT !.stock = @ + order[k].quantity]
    /\ order' = [order EXCEPT ![k].status = "cancelled", ![k].cancelled_at = TRUE]
    /\ payment' = [payment EXCEPT ![k] = IF @ = "PENDING_PAYMENT" THEN "CANCELLED" ELSE @]
    /\ UNCHANGED <<atomic, supply, holder, announced, deliveries, refund, balance,
                   errors, pc, op, seen>>

\* select_for_update outside a transaction: Django raises
\* TransactionManagementError before the order is read.
CancelFails(k) ==
    /\ ~atomic
    /\ order[k].status # "none"
    /\ errors' = errors \cup {k}
    /\ UNCHANGED <<atomic, product, supply, holder, order, payment, announced,
                   deliveries, refund, balance, pc, op, seen>>

-----------------------------------------------------------------------------
(* Outside: payments settles a Stripe order, or it fails *)

PaymentSettles(k) ==
    /\ payment[k] = "PENDING_PAYMENT"
    /\ \/ /\ payment' = [payment EXCEPT ![k] = "PAID"]
          /\ announced' \in {announced, announced \cup {k}}
       \/ /\ payment' = [payment EXCEPT ![k] = "FAILED"]
          /\ UNCHANGED announced
    /\ UNCHANGED <<atomic, product, supply, holder, order, deliveries, refund,
                   balance, errors, pc, op, seen>>

-----------------------------------------------------------------------------
(* settle_product_order: the handler of payments.OrderPaid *)

\* The outbox delivers at least once; a replay delivers again.  An order that
\* is paid is left alone.
FetchPaid(p, k) ==
    /\ k \in announced
    /\ deliveries[k] < MaxDeliveries
    /\ deliveries' = [deliveries EXCEPT ![k] = @ + 1]
    /\ IF order[k].status = "paid"
       THEN pc[p] = "idle" /\ UNCHANGED <<pc, op>>
       ELSE Start(p, [kind |-> "paid", key |-> k, quantity |-> 0, provider |-> "none"],
                  "write")
    /\ UNCHANGED <<atomic, product, supply, holder, order, payment, announced,
                   refund, balance, errors, seen>>

\* Defect: only an order that is still pending is flipped, whatever was paid.
MarkPendingPaid(p) ==
    /\ pc[p] = "write"
    /\ order' = IF order[op[p].key].status = "pending_payment"
                THEN [order EXCEPT ![op[p].key].status = "paid", ![op[p].key].paid_at = TRUE]
                ELSE order
    /\ Return(p)
    /\ UNCHANGED <<atomic, product, supply, holder, payment, announced, deliveries,
                   refund, balance, errors>>

\* mark_order_paid writes whatever the row holds by now.
MarkOrderPaid(p) ==
    /\ pc[p] = "write"
    /\ order' = [order EXCEPT ![op[p].key].status = "paid", ![op[p].key].paid_at = TRUE]
    /\ Return(p)
    /\ UNCHANGED <<atomic, product, supply, holder, payment, announced, deliveries,
                   refund, balance, errors>>

-----------------------------------------------------------------------------
(* ship_order, confirm_received *)

\* Defect: shipping does not wait for the payment.
ShipUnpaid(k) ==
    /\ order[k].status \in {"pending_payment", "paid"}
    /\ order' = [order EXCEPT ![k].status = "shipping", ![k].shipments = @ + 1]
    /\ UNCHANGED <<atomic, product, supply, holder, payment, announced, deliveries,
                   refund, balance, errors, pc, op, seen>>

ShipOrder(k) ==
    /\ order[k].status = "paid"
    /\ order' = [order EXCEPT ![k].status = "shipping", ![k].shipments = @ + 1]
    /\ UNCHANGED <<atomic, product, supply, holder, payment, announced, deliveries,
                   refund, balance, errors, pc, op, seen>>

\* Defect: the status of the order is not looked at.
ConfirmAny(k) ==
    /\ order[k].status # "none"
    /\ order' = [order EXCEPT ![k].status = "completed"]
    /\ UNCHANGED <<atomic, product, supply, holder, payment, announced, deliveries,
                   refund, balance, errors, pc, op, seen>>

ConfirmReceived(k) ==
    /\ order[k].status = "shipping"
    /\ order' = [order EXCEPT ![k].status = "completed"]
    /\ UNCHANGED <<atomic, product, supply, holder, payment, announced, deliveries,
                   refund, balance, errors, pc, op, seen>>

-----------------------------------------------------------------------------
(* Refund requests *)

\* Defect: only a request that nobody has looked at yet is in the way.
HasRequested(k) == \E i \in DOMAIN refund[k] : refund[k][i].status = "requested"

HasActive(k) == \E i \in DOMAIN refund[k] : refund[k][i].status \in Active

\* The order is locked while the requests are looked up and the new one inserted.
RequestRefund(k, amount) ==
    /\ order[k].status \in Refundable
    /\ ~HasActive(k)
    /\ amount \in 1..order[k].quantity
    /\ Len(refund[k]) < MaxRequests
    /\ refund' = [refund EXCEPT ![k] = Append(@, [amount |-> amount, status |-> "requested"])]
    /\ UNCHANGED <<atomic, product, supply, holder, order, payment, announced,
                   deliveries, balance, errors, pc, op, seen>>

\* approve_refund, reject_refund.
ResolveRefund(k, i, status) ==
    /\ refund[k][i].status = "requested"
    /\ status \in {"approved", "rejected"}
    /\ refund' = [refund EXCEPT ![k][i].status = status]
    /\ UNCHANGED <<atomic, product, supply, holder, order, payment, announced,
                   deliveries, balance, errors, pc, op, seen>>

\* Defect: a refund may be completed again.
CompleteRefundAgain(k, i) ==
    /\ refund[k][i].status \in {"approved", "refunded"}
    /\ refund' = [refund EXCEPT ![k][i].status = "refunded"]
    /\ balance' = IF order[k].provider = "wallet" THEN balance + refund[k][i].amount
                                                  ELSE balance
    /\ UNCHANGED <<atomic, product, supply, holder, order, payment, announced,
                   deliveries, errors, pc, op, seen>>

\* complete_refund: a wallet order is paid back in the same transaction, others
\* outside the system.  The order itself is left as it is.
CompleteRefund(k, i) ==
    /\ refund[k][i].status = "approved"
    /\ refund' = [refund EXCEPT ![k][i].status = "refunded"]
    /\ balance' = IF order[k].provider = "wallet" THEN balance + refund[k][i].amount
                                                  ELSE balance
    /\ UNCHANGED <<atomic, product, supply, holder, order, payment, announced,
                   deliveries, errors, pc, op, seen>>

-----------------------------------------------------------------------------
Next ==
    \/ \E p \in Procs :
          \/ \E k \in Keys, quantity \in 1..MaxStock, provider \in Providers :
                LookupKey(p, k, quantity, provider)
          \/ LockProduct(p)
          \/ ProductMissing(p)
          \/ PlaceOrder(p)
          \/ PlaceFails(p)
          \/ \E kind \in {"update", "archive"} : EditProduct(p, kind)
          \/ SaveProduct(p)
          \/ \E k \in Keys : FetchPaid(p, k)
          \/ MarkOrderPaid(p)
    \/ \E k \in Keys :
          \/ CancelOrder(k)
          \/ CancelFails(k)
          \/ PaymentSettles(k)
          \/ ShipOrder(k)
          \/ ConfirmReceived(k)
          \/ \E amount \in 1..order[k].quantity : RequestRefund(k, amount)
          \/ \E i \in DOMAIN refund[k] :
                \/ \E status \in {"approved", "rejected"} : ResolveRefund(k, i, status)
                \/ CompleteRefund(k, i)

Spec == Init /\ [][Next]_vars

\* A handler that runs goes on, the row lock is granted to whoever waits for it,
\* and the outbox delivers until a delivery has been handled.
Fairness ==
    /\ \A p \in Procs :
          /\ WF_vars(PlaceOrder(p) \/ PlaceFails(p) \/ SaveProduct(p)
                     \/ ProductMissing(p) \/ MarkOrderPaid(p))
          /\ SF_vars(LockProduct(p))
    /\ \A k \in Keys : SF_vars(\E p \in Procs : FetchPaid(p, k))

FairSpec == Spec /\ Fairness

-----------------------------------------------------------------------------
(* What is read *)

\* orders_queryset, get_order: the buyer's orders with one of some statuses; and the
\* seller's, who has the one store: seller_orders_queryset, get_seller_order.
Orders(statuses) == {k \in Keys : order[k].status \in statuses}
SellerOrders(statuses) == Orders(statuses)

\* resolve_qr: an order to be paid.
ResolveQr == Orders({"pending_payment"})

\* get_tracking: the latest shipment of the order.
GetTracking(k) == order[k].shipments

\* list_refunds.
ListRefunds(k) == refund[k]

\* What some orders are for, in units of the product and as much in money.
Units(keys) == SumFunctionOnSet([k \in Keys |-> order[k].quantity], keys)

\* _store_stats: revenue is that of the orders that are paid and not on their way yet.
StoreStats == [orders  |-> Cardinality(SellerOrders(Statuses)),
               revenue |-> Units(SellerOrders({"paid"}))]

-----------------------------------------------------------------------------
(* Properties *)

Sold == {k \in Orders(Statuses) : ~order[k].cancelled_at}

\* Every unit the seller put up is on the shelf or reserved by an order whose
\* stock was not given back, exactly once, whatever buyers, cancels and the
\* seller's own edits do to the row concurrently.
StockAccounted ==
    holder = Nobody => product.stock + Units(Sold) = supply

\* No order leaves the house, or counts as paid, unless its payment was settled.
StandingWasSettled ==
    \A k \in Keys : order[k].paid_at \/ order[k].shipments > 0 => payment[k] = "PAID"

\* An order that holds no stock any more and yet is to be delivered is one that
\* was cancelled although its payment had been settled (the event under way).
RevivedWasSettled ==
    \A k \in Keys : order[k].cancelled_at /\ order[k].status # "cancelled" =>
        payment[k] = "PAID" /\ deliveries[k] > 0

\* What is shipped twice was delivered twice by the outbox: only a further
\* OrderPaid takes an order back to paid.
ReshippedByRedelivery == \A k \in Keys : GetTracking(k) <= deliveries[k]

\* A QR code leads to an order whose units are reserved, and a store's revenue was
\* settled (resolve_qr, _store_stats).
ReadsBacked ==
    /\ ResolveQr \subseteq Sold
    /\ StoreStats.revenue <= Units({k \in Keys : payment[k] = "PAID"})

\* The goods: none is sold twice or lost, what goes out twice was announced twice, and
\* who reads the orders is told no more than that.
GoodsSound == TypeOK /\ StockAccounted /\ ReshippedByRedelivery /\ ReadsBacked

\* models.py: at most one active refund request per order.
OneActiveRefund ==
    \A k \in Keys : \A i, j \in DOMAIN refund[k] :
        refund[k][i].status \in Active /\ refund[k][j].status \in Active => i = j

RefundedOf(list) ==
    SumFunctionOnSet([i \in DOMAIN list |-> list[i].amount],
                     {i \in DOMAIN list : list[i].status = "refunded"})

ByWallet == {k \in Keys : order[k].provider = "wallet"}

\* The wallet has paid each of its orders once and got each completed refund
\* once, whatever became of the order.
BalanceExplained ==
    balance = Money - Units(ByWallet)
                    + SumFunctionOnSet([k \in Keys |-> RefundedOf(ListRefunds(k))], ByWallet)

\* commerce.md section 11: the ways an order takes, and the one that OrderPaid adds.
Arrows == {<<"none", "pending_payment">>, <<"pending_payment", "cancelled">>,
           <<"paid", "shipping">>, <<"shipping", "completed">>}

\* An order keeps to the diagram except that a delivery of OrderPaid makes it
\* paid from wherever it is.
OnlyOrderPaidJumps ==
    [][\A k \in Keys : order'[k].status # order[k].status =>
          \/ <<order[k].status, order'[k].status>> \in Arrows
          \/ /\ order'[k].status = "paid"
             /\ \E p \in Procs : op[p].kind = "paid" /\ op[p].key = k]_vars

\* A payment that was announced reaches its order, cancelled or not.
AnnouncedIsPaid == \A k \in Keys : (k \in announced) ~> order[k].paid_at

\* What a running handler knows: which rows it works for, and that an OrderPaid
\* it carries was announced.
HandlersKnow ==
    \A p \in Procs :
        /\ pc[p] = "lock" => op[p].kind \in {"create", "update", "archive"}
        /\ pc[p] = "place" => op[p].kind = "create"
        /\ pc[p] = "save" => op[p].kind \in {"update", "archive"}
        /\ op[p].kind = "create" => op[p].key \in Keys
        /\ pc[p] = "write" => /\ op[p].kind = "paid"
                              /\ op[p].key \in announced
                              /\ deliveries[op[p].key] > 0

\* What an announcement and each status of an order say about its payment.
OrdersBacked ==
    \A k \in Keys :
        /\ k \in announced => payment[k] = "PAID"
        /\ \/ order[k].status \in Refundable
           \/ order[k].paid_at
           \/ order[k].shipments > 0
           => payment[k] = "PAID" /\ deliveries[k] > 0
        /\ order[k].status = "none" => payment[k] = "none"
        /\ order[k].cancelled_at => order[k].status \in Refundable \cup {"cancelled"}

\* The row lock is held from its grant to the commit, and the row stays as it was read.
RowIsHeld ==
    \A p \in Procs : /\ pc[p] \in {"place", "save"} <=> holder = p
                     /\ holder = p => seen[p] = product

\* Each delivery of OrderPaid has a handler still to write, or made the order paid once.
DeliveriesCounted ==
    \A k \in Keys :
        LET carriers == {p \in Procs : pc[p] = "write" /\ op[p].key = k} IN
        /\ IsFiniteSet(carriers)
        /\ order[k].shipments + Cardinality(carriers)
             + (IF order[k].status = "paid" THEN 1 ELSE 0) <= deliveries[k]

\* An order that is not there has no stock, money or refund of anybody.
NothingYet == \A k \in Keys : order[k].status = "none" => order[k] = NoOrder /\ refund[k] = <<>>

\* The units add up over the finitely many orders there are, lock or no lock.
UnitsAccounted ==
    IsFiniteSet(Orders(Statuses)) /\ product.stock + Units(Sold) = supply

\* The inductive invariant: a standing order is backed because OrderPaid is, and
\* OrderPaid is because the handler that carries it is; the books balance because
\* who holds the row has read what is in it.
IInv == /\ TypeOK /\ HandlersKnow /\ OrdersBacked /\ OneActiveRefund
        /\ RowIsHeld /\ DeliveriesCounted /\ NothingYet
        /\ UnitsAccounted /\ BalanceExplained

\* commerce.md section 3 (cancel): an unpaid order is answered with the order
\* cancelled and its stock released.  (TLC refutes this one where atomic is FALSE.)
CancelIsAnswered == errors = {}
=============================================================================
