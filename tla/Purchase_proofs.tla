--------------------------- MODULE Purchase_proofs ---------------------------
(***************************************************************************)
(* Proofs about Purchase, for any orders, handlers and bounds, and whether *)
(* or not a request is a transaction: no order stands unpaid, none comes   *)
(* back from a cancel unpaid, and refund requests are active one at a time.*)
(*                                                                         *)
(* The argument: mark_order_paid locks and checks nothing, so what makes   *)
(* it safe is what it was called for.  IInv says so: the handler carries   *)
(* an event that was announced (HandlersKnow), only a settled payment is   *)
(* announced, and a settled payment stays settled (OrdersBacked).  The     *)
(* units and the money add up (UnitsAccounted, BalanceExplained) because   *)
(* who writes the product has held its row since it read it (RowIsHeld),   *)
(* and an order moves without changing what it is for (OrderMoves); the    *)
(* sums change by one summand a step, by the lemmas of Sums.               *)
(***************************************************************************)
EXTENDS Purchase, Sums

\* The invariant holds before the first order.
LEMMA InvInit == Init => IInv
<1> SUFFICES ASSUME Init PROVE IInv
  OBVIOUS
<1>1. TypeOK
  BY PurchaseAssumption DEF Init, TypeOK, NoOrder, NoOp, NoRow, ProductStatuses, Row, Order, Op
<1>2. HandlersKnow
  BY DEF Init, HandlersKnow, NoOp
<1>3. OrdersBacked
  BY DEF Init, OrdersBacked, NoOrder, Refundable
<1>4. OneActiveRefund
  BY DEF Init, OneActiveRefund
<1>5. RowIsHeld
  BY PurchaseAssumption DEF Init, RowIsHeld
<1>6. DeliveriesCounted
  <2>1. \A k \in Keys : {p \in Procs : pc[p] = "write" /\ op[p].key = k} = {}
    BY DEF Init
  <2>2. \A k \in Keys : order[k].shipments = 0 /\ order[k].status = "none" /\ deliveries[k] = 0
    BY DEF Init, NoOrder
  <2> QED BY <2>1, <2>2, FS_EmptySet DEF DeliveriesCounted
<1>7. NothingYet
  BY DEF Init, NothingYet
<1>8. Orders(Statuses) = {} /\ Sold = {} /\ ByWallet = {}
  BY DEF Init, Orders, Statuses, Sold, ByWallet, NoOrder
<1>9. UnitsAccounted
  <2>1. Units(Sold) = 0
    BY <1>8, SumEmpty DEF Units
  <2>2. product.stock = MaxStock /\ supply = MaxStock
    BY DEF Init
  <2> QED BY <1>8, <2>1, <2>2, FS_EmptySet, PurchaseAssumption DEF UnitsAccounted
<1>10. BalanceExplained
  <2>1. Units(ByWallet) = 0
    BY <1>8, SumEmpty DEF Units
  <2>2. SumFunctionOnSet([k \in Keys |-> RefundedOf(ListRefunds(k))], ByWallet) = 0
    BY <1>8, SumEmpty
  <2> QED BY <2>1, <2>2, PurchaseAssumption DEF Init, BalanceExplained
<1> QED BY <1>1, <1>2, <1>3, <1>4, <1>5, <1>6, <1>7, <1>9, <1>10 DEF IInv

\* A handler that returns or starts leaves well-typed handlers.
LEMMA ReturnTypes ==
    ASSUME TypeOK, NEW p \in Procs, Return(p)
    PROVE  /\ pc' \in [Procs -> {"idle", "lock", "place", "save", "write"}]
           /\ op' \in [Procs -> Op]
           /\ seen' \in [Procs -> Row]
<1>1. NoOp \in Op /\ NoRow \in Row
  BY PurchaseAssumption DEF NoOp, Op, NoRow, Row, ProductStatuses
<1> QED BY <1>1 DEF TypeOK, Return, Goto

\* What the handlers write into the row of the product and of an order.
LEMMA RowTypes ==
    ASSUME NEW r \in Row, NEW n \in Nat, NEW s \in ProductStatuses
    PROVE  [r EXCEPT !.stock = n] \in Row /\ [r EXCEPT !.status = s] \in Row
  BY DEF Row

LEMMA StockTypes ==
    ASSUME product \in Row, NEW n \in Nat, product' = [product EXCEPT !.stock = n]
    PROVE  product' \in Row
  BY DEF Row

LEMMA OrderTypes ==
    ASSUME NEW r \in Order, NEW s \in Statuses
    PROVE  /\ [r EXCEPT !.status = s] \in Order
           /\ [r EXCEPT !.status = s, !.paid_at = TRUE] \in Order
           /\ [r EXCEPT !.status = s, !.cancelled_at = TRUE] \in Order
           /\ [r EXCEPT !.status = s, !.shipments = r.shipments + 1] \in Order
<1>1. [r EXCEPT !.status = s] \in Order
  BY DEF Order
<1>2. [r EXCEPT !.status = s, !.paid_at = TRUE] \in Order
  BY DEF Order
<1>3. [r EXCEPT !.status = s, !.cancelled_at = TRUE] \in Order
  BY DEF Order
<1>4. ASSUME NEW n \in Nat PROVE [r EXCEPT !.status = s, !.shipments = n] \in Order
  BY DEF Order
<1>5. r.shipments + 1 \in Nat
  BY DEF Order
<1> QED BY <1>1, <1>2, <1>3, <1>4, <1>5

\* Resolving or completing a refund request leaves well-typed requests.
LEMMA ResolvedTypes ==
    ASSUME TypeOK, NEW k \in Keys, NEW i \in DOMAIN refund[k],
           NEW status \in Active \cup {"rejected", "refunded"}
    PROVE  [refund EXCEPT ![k][i].status = status] \in [Keys -> Seq(Request)]
<1>1. refund[k] \in Seq(Request) /\ refund[k][i] \in Request
  BY DEF TypeOK
<1>2. [refund[k][i] EXCEPT !.status = status] \in Request
  BY <1>1 DEF Request
<1>3. [refund[k] EXCEPT ![i] = [refund[k][i] EXCEPT !.status = status]] \in Seq(Request)
  BY <1>1, <1>2
<1> QED BY <1>3 DEF TypeOK

LEMMA StartTypes ==
    ASSUME TypeOK, NEW p \in Procs, NEW o \in Op, NEW where \in {"lock", "write"},
           Start(p, o, where)
    PROVE  /\ pc' \in [Procs -> {"idle", "lock", "place", "save", "write"}]
           /\ op' \in [Procs -> Op]
  BY DEF TypeOK, Start, Goto

\* Every step keeps the types; the handlers' knowledge tells what their key is.
LEMMA TypeStep == TypeOK /\ HandlersKnow /\ [Next]_vars => TypeOK'
<1> SUFFICES ASSUME TypeOK, HandlersKnow, [Next]_vars
             PROVE  TypeOK'
  OBVIOUS
<1>1. ASSUME NEW p \in Procs, NEW k \in Keys, NEW quantity \in 1..MaxStock,
            NEW provider \in Providers, LookupKey(p, k, quantity, provider)
      PROVE  TypeOK'
  <2>1. [kind |-> "create", key |-> k, quantity |-> quantity, provider |-> provider] \in Op
    BY PurchaseAssumption DEF Op
  <2> QED BY <1>1, <2>1, StartTypes DEF TypeOK, LookupKey
<1>2. ASSUME NEW p \in Procs, LockProduct(p)
      PROVE  TypeOK'
  BY <1>2 DEF TypeOK, LockProduct, Goto
<1>3. ASSUME NEW p \in Procs, ProductMissing(p)
      PROVE  TypeOK'
  BY <1>3, ReturnTypes DEF TypeOK, ProductMissing
<1>4. ASSUME NEW p \in Procs, PlaceOrder(p)
      PROVE  TypeOK'
  <2> DEFINE o == op[p]
  <2>1. o \in Op /\ o.key \in Keys /\ seen[p] \in Row
    BY <1>4 DEF TypeOK, HandlersKnow, PlaceOrder
  <2>2. o.quantity \in Nat /\ o.provider \in Providers \cup {"none"} /\ seen[p].stock \in Nat
    BY <2>1, PurchaseAssumption DEF Op, Row
  <2>3. product' \in Row
    <3>1. seen[p].stock - o.quantity \in Nat
      BY <1>4, <2>2 DEF PlaceOrder
    <3>2. product' = [product EXCEPT !.stock = seen[p].stock - o.quantity]
      BY <1>4 DEF PlaceOrder
    <3> QED BY <3>1, <3>2, StockTypes DEF TypeOK
  <2>4. [NoOrder EXCEPT !.status = "pending_payment", !.quantity = o.quantity,
                        !.provider = o.provider] \in Order
    BY <2>2 DEF NoOrder, Order, Statuses
  <2>5. order' \in [Keys -> Order]
    BY <1>4, <2>4 DEF TypeOK, PlaceOrder
  <2>6. balance' \in Nat
    BY <1>4, <2>2 DEF TypeOK, PlaceOrder
  <2>7. /\ payment' \in [Keys -> {"none", "PENDING_PAYMENT", "PAID", "FAILED", "CANCELLED"}]
        /\ announced' \subseteq Keys
    BY <1>4, <2>1 DEF TypeOK, PlaceOrder
  <2>8. holder' = Nobody /\ Return(p)
    BY <1>4 DEF PlaceOrder, Unlock
  <2> QED BY <1>4, <2>3, <2>5, <2>6, <2>7, <2>8, ReturnTypes DEF TypeOK, PlaceOrder
<1>5. ASSUME NEW p \in Procs, PlaceFails(p)
      PROVE  TypeOK'
  BY <1>5, ReturnTypes DEF TypeOK, PlaceFails, Unlock
<1>6. ASSUME NEW p \in Procs, NEW kind \in {"update", "archive"}, EditProduct(p, kind)
      PROVE  TypeOK'
  <2>1. [NoOp EXCEPT !.kind = kind] \in Op
    BY PurchaseAssumption DEF NoOp, Op
  <2> QED BY <1>6, <2>1, StartTypes DEF TypeOK, EditProduct
<1>7. ASSUME NEW p \in Procs, SaveProduct(p)
      PROVE  TypeOK'
  <2>1. seen[p].stock \in Nat
    BY DEF TypeOK, Row
  <2>2. product' \in Row
    BY <1>7, <2>1, RowTypes, PurchaseAssumption DEF TypeOK, SaveProduct, Row, ProductStatuses
  <2>3. supply' \in Int
    BY <1>7, <2>1, PurchaseAssumption DEF TypeOK, SaveProduct
  <2>4. holder' = Nobody /\ Return(p)
    BY <1>7 DEF SaveProduct, Unlock
  <2> QED BY <1>7, <2>2, <2>3, <2>4, ReturnTypes DEF TypeOK, SaveProduct
<1>8. ASSUME NEW p \in Procs, NEW k \in Keys, FetchPaid(p, k)
      PROVE  TypeOK'
  <2>1. [kind |-> "paid", key |-> k, quantity |-> 0, provider |-> "none"] \in Op
    BY PurchaseAssumption DEF Op
  <2>2. /\ pc' \in [Procs -> {"idle", "lock", "place", "save", "write"}]
        /\ op' \in [Procs -> Op]
    BY <1>8, <2>1, StartTypes DEF TypeOK, FetchPaid
  <2>3. deliveries' \in [Keys -> 0..MaxDeliveries]
    BY <1>8, PurchaseAssumption DEF TypeOK, FetchPaid
  <2> QED BY <1>8, <2>2, <2>3 DEF TypeOK, FetchPaid
<1>9. ASSUME NEW p \in Procs, MarkOrderPaid(p)
      PROVE  TypeOK'
  <2>1. order' \in [Keys -> Order]
    BY <1>9, OrderTypes DEF TypeOK, MarkOrderPaid, Statuses
  <2> QED BY <1>9, <2>1, ReturnTypes DEF TypeOK, MarkOrderPaid
<1>10. ASSUME NEW k \in Keys, CancelOrder(k)
      PROVE  TypeOK'
  <2>1. product.stock + order[k].quantity \in Nat
    BY DEF TypeOK, Row, Order
  <2>2. product' \in Row
    <3>1. product' = [product EXCEPT !.stock = product.stock + order[k].quantity]
      BY <1>10 DEF CancelOrder
    <3> QED BY <2>1, <3>1, StockTypes DEF TypeOK
  <2>3. order' \in [Keys -> Order]
    BY <1>10, OrderTypes DEF TypeOK, CancelOrder, Statuses
  <2> QED BY <1>10, <2>2, <2>3 DEF TypeOK, CancelOrder
<1>11. ASSUME NEW k \in Keys, CancelFails(k)
      PROVE  TypeOK'
  BY <1>11 DEF TypeOK, CancelFails
<1>12. ASSUME NEW k \in Keys, PaymentSettles(k)
      PROVE  TypeOK'
  BY <1>12 DEF TypeOK, PaymentSettles
<1>13. ASSUME NEW k \in Keys, ShipOrder(k)
      PROVE  TypeOK'
  <2>1. order' \in [Keys -> Order]
    BY <1>13, OrderTypes DEF TypeOK, Statuses, ShipOrder
  <2> QED BY <1>13, <2>1 DEF TypeOK, ShipOrder
<1>14. ASSUME NEW k \in Keys, ConfirmReceived(k)
      PROVE  TypeOK'
  <2>1. order' \in [Keys -> Order]
    BY <1>14, OrderTypes DEF TypeOK, Statuses, ConfirmReceived
  <2> QED BY <1>14, <2>1 DEF TypeOK, ConfirmReceived
<1>15. ASSUME NEW k \in Keys, NEW amount \in 1..order[k].quantity, RequestRefund(k, amount)
      PROVE  TypeOK'
  <2>1. amount \in Nat \ {0}
    BY DEF TypeOK, Order
  <2>2. refund' \in [Keys -> Seq(Request)]
    BY <1>15, <2>1 DEF TypeOK, RequestRefund, Request, Active
  <2> QED BY <1>15, <2>2 DEF TypeOK, RequestRefund
<1>16. ASSUME NEW k \in Keys, NEW i \in DOMAIN refund[k],
            NEW status \in {"approved", "rejected"}, ResolveRefund(k, i, status)
      PROVE  TypeOK'
  <2>1. refund' \in [Keys -> Seq(Request)]
    BY <1>16, ResolvedTypes DEF TypeOK, ResolveRefund, Active
  <2> QED BY <1>16, <2>1 DEF TypeOK, ResolveRefund
<1>17. ASSUME NEW k \in Keys, NEW i \in DOMAIN refund[k], CompleteRefund(k, i)
      PROVE  TypeOK'
  <2>1. refund' \in [Keys -> Seq(Request)]
    BY <1>17, ResolvedTypes DEF TypeOK, CompleteRefund, Active
  <2>2. refund[k][i] \in Request
    BY DEF TypeOK
  <2>3. refund[k][i].amount \in Nat
    BY <2>2 DEF Request
  <2>4. balance' \in Nat
    BY <1>17, <2>3 DEF TypeOK, CompleteRefund
  <2> QED BY <1>17, <2>1, <2>4 DEF TypeOK, CompleteRefund
<1>18. CASE UNCHANGED vars
  BY <1>18 DEF TypeOK, vars
<1> QED
  BY <1>1, <1>2, <1>3, <1>4, <1>5, <1>6, <1>7, <1>8, <1>9,
     <1>10, <1>11, <1>12, <1>13, <1>14, <1>15, <1>16, <1>17, <1>18 DEF Next

\* Handlers keep what they know: no announcement is taken back.
LEMMA KnowStep == TypeOK /\ HandlersKnow /\ [Next]_vars => HandlersKnow'
<1> SUFFICES ASSUME TypeOK, HandlersKnow, [Next]_vars
             PROVE  HandlersKnow'
  OBVIOUS
<1>1. ASSUME NEW p \in Procs, NEW k \in Keys, NEW quantity \in 1..MaxStock,
            NEW provider \in Providers, LookupKey(p, k, quantity, provider)
      PROVE  HandlersKnow'
  BY <1>1, PurchaseAssumption DEF TypeOK, HandlersKnow, LookupKey, Start, Goto, NoOp
<1>2. ASSUME NEW p \in Procs, LockProduct(p)
      PROVE  HandlersKnow'
  BY <1>2, PurchaseAssumption DEF TypeOK, HandlersKnow, LockProduct, Goto
<1>3. ASSUME NEW p \in Procs, ProductMissing(p)
      PROVE  HandlersKnow'
  BY <1>3, PurchaseAssumption DEF TypeOK, HandlersKnow, ProductMissing, Return, Unlock, Goto, NoOp
<1>4. ASSUME NEW p \in Procs, PlaceOrder(p)
      PROVE  HandlersKnow'
  BY <1>4, PurchaseAssumption DEF TypeOK, HandlersKnow, PlaceOrder, Return, Unlock, Goto, NoOp
<1>5. ASSUME NEW p \in Procs, PlaceFails(p)
      PROVE  HandlersKnow'
  BY <1>5, PurchaseAssumption DEF TypeOK, HandlersKnow, PlaceFails, Return, Unlock, Goto, NoOp
<1>6. ASSUME NEW p \in Procs, NEW kind \in {"update", "archive"}, EditProduct(p, kind)
      PROVE  HandlersKnow'
  BY <1>6, PurchaseAssumption DEF TypeOK, HandlersKnow, EditProduct, Start, Goto, NoOp
<1>7. ASSUME NEW p \in Procs, SaveProduct(p)
      PROVE  HandlersKnow'
  BY <1>7, PurchaseAssumption DEF TypeOK, HandlersKnow, SaveProduct, Return, Unlock, Goto, NoOp
<1>8. ASSUME NEW p \in Procs, NEW k \in Keys, FetchPaid(p, k)
      PROVE  HandlersKnow'
  BY <1>8, PurchaseAssumption DEF TypeOK, HandlersKnow, FetchPaid, Start, Goto, NoOp, Op, Providers
<1>9. ASSUME NEW p \in Procs, MarkOrderPaid(p)
      PROVE  HandlersKnow'
  BY <1>9, PurchaseAssumption DEF TypeOK, HandlersKnow, MarkOrderPaid, Return, Unlock, Goto, NoOp
<1>10. ASSUME NEW k \in Keys, CancelOrder(k)
      PROVE  HandlersKnow'
  BY <1>10, PurchaseAssumption DEF TypeOK, HandlersKnow, CancelOrder
<1>11. ASSUME NEW k \in Keys, CancelFails(k)
      PROVE  HandlersKnow'
  BY <1>11, PurchaseAssumption DEF TypeOK, HandlersKnow, CancelFails
<1>12. ASSUME NEW k \in Keys, PaymentSettles(k)
      PROVE  HandlersKnow'
  BY <1>12, PurchaseAssumption DEF TypeOK, HandlersKnow, PaymentSettles
<1>13. ASSUME NEW k \in Keys, ShipOrder(k)
      PROVE  HandlersKnow'
  BY <1>13, PurchaseAssumption DEF TypeOK, HandlersKnow, ShipOrder
<1>14. ASSUME NEW k \in Keys, ConfirmReceived(k)
      PROVE  HandlersKnow'
  BY <1>14, PurchaseAssumption DEF TypeOK, HandlersKnow, ConfirmReceived
<1>15. ASSUME NEW k \in Keys, NEW amount \in 1..order[k].quantity, RequestRefund(k, amount)
      PROVE  HandlersKnow'
  BY <1>15, PurchaseAssumption DEF TypeOK, HandlersKnow, RequestRefund
<1>16. ASSUME NEW k \in Keys, NEW i \in DOMAIN refund[k],
            NEW status \in {"approved", "rejected"}, ResolveRefund(k, i, status)
      PROVE  HandlersKnow'
  BY <1>16, PurchaseAssumption DEF TypeOK, HandlersKnow, ResolveRefund
<1>17. ASSUME NEW k \in Keys, NEW i \in DOMAIN refund[k], CompleteRefund(k, i)
      PROVE  HandlersKnow'
  BY <1>17, PurchaseAssumption DEF TypeOK, HandlersKnow, CompleteRefund
<1>18. CASE UNCHANGED vars
  BY <1>18 DEF HandlersKnow, vars
<1> QED
  BY <1>1, <1>2, <1>3, <1>4, <1>5, <1>6, <1>7, <1>8, <1>9,
     <1>10, <1>11, <1>12, <1>13, <1>14, <1>15, <1>16, <1>17, <1>18 DEF Next

\* No step makes an order stand, or announces it, without its payment.
LEMMA BackedStep == TypeOK /\ HandlersKnow /\ OrdersBacked /\ [Next]_vars => OrdersBacked'
<1> SUFFICES ASSUME TypeOK, HandlersKnow, OrdersBacked, [Next]_vars
             PROVE  OrdersBacked'
  OBVIOUS
<1>1. ASSUME NEW p \in Procs, NEW k \in Keys, NEW quantity \in 1..MaxStock,
            NEW provider \in Providers, LookupKey(p, k, quantity, provider)
      PROVE  OrdersBacked'
  BY <1>1 DEF TypeOK, HandlersKnow, OrdersBacked, Refundable, Statuses, LookupKey
<1>2. ASSUME NEW p \in Procs, LockProduct(p)
      PROVE  OrdersBacked'
  BY <1>2 DEF TypeOK, HandlersKnow, OrdersBacked, Refundable, Statuses, LockProduct
<1>3. ASSUME NEW p \in Procs, ProductMissing(p)
      PROVE  OrdersBacked'
  BY <1>3 DEF TypeOK, HandlersKnow, OrdersBacked, Refundable, Statuses, ProductMissing
<1>4. ASSUME NEW p \in Procs, PlaceOrder(p)
      PROVE  OrdersBacked'
  BY <1>4 DEF TypeOK, HandlersKnow, OrdersBacked, Refundable, Statuses, PlaceOrder, NoOrder
<1>5. ASSUME NEW p \in Procs, PlaceFails(p)
      PROVE  OrdersBacked'
  BY <1>5 DEF TypeOK, HandlersKnow, OrdersBacked, Refundable, Statuses, PlaceFails
<1>6. ASSUME NEW p \in Procs, NEW kind \in {"update", "archive"}, EditProduct(p, kind)
      PROVE  OrdersBacked'
  BY <1>6 DEF TypeOK, HandlersKnow, OrdersBacked, Refundable, Statuses, EditProduct
<1>7. ASSUME NEW p \in Procs, SaveProduct(p)
      PROVE  OrdersBacked'
  BY <1>7 DEF TypeOK, HandlersKnow, OrdersBacked, Refundable, Statuses, SaveProduct
<1>8. ASSUME NEW p \in Procs, NEW k \in Keys, FetchPaid(p, k)
      PROVE  OrdersBacked'
  BY <1>8 DEF TypeOK, HandlersKnow, OrdersBacked, Refundable, Statuses, FetchPaid
<1>9. ASSUME NEW p \in Procs, MarkOrderPaid(p)
      PROVE  OrdersBacked'
  BY <1>9 DEF TypeOK, HandlersKnow, OrdersBacked, Refundable, Statuses, MarkOrderPaid
<1>10. ASSUME NEW k \in Keys, CancelOrder(k)
      PROVE  OrdersBacked'
  BY <1>10 DEF TypeOK, HandlersKnow, OrdersBacked, Refundable, Statuses, CancelOrder
<1>11. ASSUME NEW k \in Keys, CancelFails(k)
      PROVE  OrdersBacked'
  BY <1>11 DEF TypeOK, HandlersKnow, OrdersBacked, Refundable, Statuses, CancelFails
<1>12. ASSUME NEW k \in Keys, PaymentSettles(k)
      PROVE  OrdersBacked'
  BY <1>12 DEF TypeOK, HandlersKnow, OrdersBacked, Refundable, Statuses, PaymentSettles
<1>13. ASSUME NEW k \in Keys, ShipOrder(k)
      PROVE  OrdersBacked'
  BY <1>13 DEF TypeOK, HandlersKnow, OrdersBacked, Refundable, Statuses, ShipOrder
<1>14. ASSUME NEW k \in Keys, ConfirmReceived(k)
      PROVE  OrdersBacked'
  BY <1>14 DEF TypeOK, HandlersKnow, OrdersBacked, Refundable, Statuses, ConfirmReceived
<1>15. ASSUME NEW k \in Keys, NEW amount \in 1..order[k].quantity, RequestRefund(k, amount)
      PROVE  OrdersBacked'
  BY <1>15 DEF TypeOK, HandlersKnow, OrdersBacked, Refundable, Statuses, RequestRefund
<1>16. ASSUME NEW k \in Keys, NEW i \in DOMAIN refund[k],
            NEW status \in {"approved", "rejected"}, ResolveRefund(k, i, status)
      PROVE  OrdersBacked'
  BY <1>16 DEF TypeOK, HandlersKnow, OrdersBacked, Refundable, Statuses, ResolveRefund
<1>17. ASSUME NEW k \in Keys, NEW i \in DOMAIN refund[k], CompleteRefund(k, i)
      PROVE  OrdersBacked'
  BY <1>17 DEF TypeOK, HandlersKnow, OrdersBacked, Refundable, Statuses, CompleteRefund
<1>18. CASE UNCHANGED vars
  BY <1>18 DEF OrdersBacked, vars
<1> QED
  BY <1>1, <1>2, <1>3, <1>4, <1>5, <1>6, <1>7, <1>8, <1>9,
     <1>10, <1>11, <1>12, <1>13, <1>14, <1>15, <1>16, <1>17, <1>18 DEF Next

\* A request is made only while none is active, and no step activates an old one.
LEMMA RefundStep == TypeOK /\ OneActiveRefund /\ [Next]_vars => OneActiveRefund'
<1> SUFFICES ASSUME TypeOK, OneActiveRefund, [Next]_vars
             PROVE  OneActiveRefund'
  OBVIOUS
<1>1. ASSUME NEW p \in Procs, NEW k \in Keys, NEW quantity \in 1..MaxStock,
            NEW provider \in Providers, LookupKey(p, k, quantity, provider)
      PROVE  OneActiveRefund'
  BY <1>1 DEF TypeOK, OneActiveRefund, HasActive, Active, LookupKey
<1>2. ASSUME NEW p \in Procs, LockProduct(p)
      PROVE  OneActiveRefund'
  BY <1>2 DEF TypeOK, OneActiveRefund, HasActive, Active, LockProduct
<1>3. ASSUME NEW p \in Procs, ProductMissing(p)
      PROVE  OneActiveRefund'
  BY <1>3 DEF TypeOK, OneActiveRefund, HasActive, Active, ProductMissing
<1>4. ASSUME NEW p \in Procs, PlaceOrder(p)
      PROVE  OneActiveRefund'
  BY <1>4 DEF TypeOK, OneActiveRefund, HasActive, Active, PlaceOrder
<1>5. ASSUME NEW p \in Procs, PlaceFails(p)
      PROVE  OneActiveRefund'
  BY <1>5 DEF TypeOK, OneActiveRefund, HasActive, Active, PlaceFails
<1>6. ASSUME NEW p \in Procs, NEW kind \in {"update", "archive"}, EditProduct(p, kind)
      PROVE  OneActiveRefund'
  BY <1>6 DEF TypeOK, OneActiveRefund, HasActive, Active, EditProduct
<1>7. ASSUME NEW p \in Procs, SaveProduct(p)
      PROVE  OneActiveRefund'
  BY <1>7 DEF TypeOK, OneActiveRefund, HasActive, Active, SaveProduct
<1>8. ASSUME NEW p \in Procs, NEW k \in Keys, FetchPaid(p, k)
      PROVE  OneActiveRefund'
  BY <1>8 DEF TypeOK, OneActiveRefund, HasActive, Active, FetchPaid
<1>9. ASSUME NEW p \in Procs, MarkOrderPaid(p)
      PROVE  OneActiveRefund'
  BY <1>9 DEF TypeOK, OneActiveRefund, HasActive, Active, MarkOrderPaid
<1>10. ASSUME NEW k \in Keys, CancelOrder(k)
      PROVE  OneActiveRefund'
  BY <1>10 DEF TypeOK, OneActiveRefund, HasActive, Active, CancelOrder
<1>11. ASSUME NEW k \in Keys, CancelFails(k)
      PROVE  OneActiveRefund'
  BY <1>11 DEF TypeOK, OneActiveRefund, HasActive, Active, CancelFails
<1>12. ASSUME NEW k \in Keys, PaymentSettles(k)
      PROVE  OneActiveRefund'
  BY <1>12 DEF TypeOK, OneActiveRefund, HasActive, Active, PaymentSettles
<1>13. ASSUME NEW k \in Keys, ShipOrder(k)
      PROVE  OneActiveRefund'
  BY <1>13 DEF TypeOK, OneActiveRefund, HasActive, Active, ShipOrder
<1>14. ASSUME NEW k \in Keys, ConfirmReceived(k)
      PROVE  OneActiveRefund'
  BY <1>14 DEF TypeOK, OneActiveRefund, HasActive, Active, ConfirmReceived
<1>15. ASSUME NEW k \in Keys, NEW amount \in 1..order[k].quantity, RequestRefund(k, amount)
      PROVE  OneActiveRefund'
  BY <1>15 DEF TypeOK, OneActiveRefund, HasActive, Active, RequestRefund
<1>16. ASSUME NEW k \in Keys, NEW i \in DOMAIN refund[k],
            NEW status \in {"approved", "rejected"}, ResolveRefund(k, i, status)
      PROVE  OneActiveRefund'
  BY <1>16 DEF TypeOK, OneActiveRefund, HasActive, Active, ResolveRefund
<1>17. ASSUME NEW k \in Keys, NEW i \in DOMAIN refund[k], CompleteRefund(k, i)
      PROVE  OneActiveRefund'
  BY <1>17 DEF TypeOK, OneActiveRefund, HasActive, Active, CompleteRefund
<1>18. CASE UNCHANGED vars
  BY <1>18 DEF OneActiveRefund, vars, Active
<1> QED
  BY <1>1, <1>2, <1>3, <1>4, <1>5, <1>6, <1>7, <1>8, <1>9,
     <1>10, <1>11, <1>12, <1>13, <1>14, <1>15, <1>16, <1>17, <1>18 DEF Next

-----------------------------------------------------------------------------
(* The row lock, and the orders there are *)

\* Who is about to write the product holds its lock and has read what is in the row.
LEMMA HeldStep == TypeOK /\ HandlersKnow /\ RowIsHeld /\ [Next]_vars => RowIsHeld'
<1> SUFFICES ASSUME TypeOK, HandlersKnow, RowIsHeld, [Next]_vars
             PROVE  RowIsHeld'
  OBVIOUS
<1>0. /\ pc \in [Procs -> {"idle", "lock", "place", "save", "write"}]
      /\ op \in [Procs -> Op] /\ seen \in [Procs -> Row] /\ holder \in Procs \cup {Nobody}
  BY DEF TypeOK
<1>1. ASSUME NEW p \in Procs, LockProduct(p)
      PROVE  RowIsHeld'
  BY <1>0, <1>1, PurchaseAssumption DEF LockProduct, Goto, RowIsHeld
<1>2. ASSUME NEW p \in Procs, ProductMissing(p)
      PROVE  RowIsHeld'
  BY <1>0, <1>2 DEF ProductMissing, Return, Goto, RowIsHeld
<1>3. ASSUME NEW p \in Procs, PlaceOrder(p) \/ PlaceFails(p) \/ SaveProduct(p)
      PROVE  RowIsHeld'
  <2>1. holder = p /\ holder' = Nobody /\ pc' = [pc EXCEPT ![p] = "idle"]
    BY <1>0, <1>3 DEF PlaceOrder, PlaceFails, SaveProduct, Unlock, Return, Goto, RowIsHeld
  <2>2. \A q \in Procs : q # p => pc[q] \notin {"place", "save"}
    BY <2>1 DEF RowIsHeld
  <2> QED BY <1>0, <2>1, <2>2, PurchaseAssumption DEF RowIsHeld
<1>4. ASSUME NEW p \in Procs, pc[p] \in {"idle", "write"},
             pc' \in {pc, [pc EXCEPT ![p] = "lock"], [pc EXCEPT ![p] = "write"],
                      [pc EXCEPT ![p] = "idle"]},
             seen' \in {seen, [seen EXCEPT ![p] = NoRow]}, UNCHANGED <<holder, product>>
      PROVE  RowIsHeld'
  <2>1. holder # p
    BY <1>4 DEF RowIsHeld
  <2>2. ASSUME NEW q \in Procs
        PROVE  /\ pc'[q] \in {"place", "save"} <=> holder' = q
               /\ holder' = q => seen'[q] = product'
    <3>1. CASE q = p
      BY <1>0, <1>4, <2>1, <3>1 DEF RowIsHeld
    <3>2. CASE q # p
      <4>1. pc'[q] = pc[q] /\ seen'[q] = seen[q]
        BY <1>0, <1>4, <3>2
      <4> QED BY <1>4, <4>1 DEF RowIsHeld
    <3> QED BY <3>1, <3>2
  <2> QED BY <2>2 DEF RowIsHeld
<1>5. ASSUME NEW p \in Procs, NEW k \in Keys, FetchPaid(p, k)
      PROVE  RowIsHeld'
  <2>1. pc[p] = "idle" /\ pc' \in {pc, [pc EXCEPT ![p] = "write"]}
        /\ UNCHANGED <<seen, holder, product>>
    BY <1>5 DEF FetchPaid, Start, Goto
  <2> QED BY <1>4, <2>1
<1>6. ASSUME NEW p \in Procs, MarkOrderPaid(p)
      PROVE  RowIsHeld'
  <2>1. pc[p] = "write" /\ pc' = [pc EXCEPT ![p] = "idle"] /\ seen' = [seen EXCEPT ![p] = NoRow]
        /\ UNCHANGED <<holder, product>>
    BY <1>6 DEF MarkOrderPaid, Return, Goto
  <2> QED BY <1>4, <2>1
<1>7. ASSUME NEW p \in Procs, NEW k \in Keys, NEW quantity \in 1..MaxStock,
             NEW provider \in Providers, LookupKey(p, k, quantity, provider)
      PROVE  RowIsHeld'
  <2>1. pc[p] = "idle" /\ pc' = [pc EXCEPT ![p] = "lock"] /\ UNCHANGED <<seen, holder, product>>
    BY <1>7 DEF LookupKey, Start, Goto
  <2> QED BY <1>4, <2>1
<1>8. ASSUME NEW p \in Procs, NEW kind \in {"update", "archive"}, EditProduct(p, kind)
      PROVE  RowIsHeld'
  <2>1. pc[p] = "idle" /\ pc' = [pc EXCEPT ![p] = "lock"] /\ UNCHANGED <<seen, holder, product>>
    BY <1>8 DEF EditProduct, Start, Goto
  <2> QED BY <1>4, <2>1
<1>9. ASSUME NEW k \in Keys, CancelOrder(k)
      PROVE  RowIsHeld'
  BY <1>9, PurchaseAssumption DEF CancelOrder, RowIsHeld
<1>10. CASE UNCHANGED <<product, holder, pc, seen>>
  BY <1>10 DEF RowIsHeld
<1> QED
  BY <1>1, <1>2, <1>3, <1>5, <1>6, <1>7, <1>8, <1>9, <1>10
  DEF Next, vars, CancelFails, PaymentSettles, ShipOrder, ConfirmReceived, RequestRefund,
      ResolveRefund, CompleteRefund

\* The handlers that write the status of an order that is there.
Moves(k) ==
    \/ CancelOrder(k) \/ ShipOrder(k) \/ ConfirmReceived(k)
    \/ \E p \in Procs : MarkOrderPaid(p) /\ op[p].key = k

\* They leave what it is for, and every other order, alone.
LEMMA OrderMoves ==
    ASSUME IInv, NEW k \in Keys, Moves(k)
    PROVE  /\ order[k].status \in Statuses /\ order'[k].status \in Statuses
           /\ order'[k].quantity = order[k].quantity
           /\ order'[k].provider = order[k].provider
           /\ order'[k].cancelled_at = (order[k].cancelled_at \/ CancelOrder(k))
           /\ \A j \in Keys : j # k => order'[j] = order[j]
<1>1. /\ order \in [Keys -> Order] /\ order[k] \in Order /\ order[k].cancelled_at \in BOOLEAN
      /\ order[k].status \in Statuses \cup {"none"}
  BY DEF IInv, TypeOK, Order
<1>2. CASE CancelOrder(k)
  <2>1. order' = [order EXCEPT ![k].status = "cancelled", ![k].cancelled_at = TRUE]
        /\ order[k].status = "pending_payment"
    BY <1>2 DEF CancelOrder
  <2>2. order'[k] = [order[k] EXCEPT !.status = "cancelled", !.cancelled_at = TRUE]
        /\ \A j \in Keys : j # k => order'[j] = order[j]
    BY <1>1, <2>1
  <2> QED BY <1>1, <1>2, <2>1, <2>2 DEF Order, Statuses
<1>3. ASSUME ShipOrder(k), ~CancelOrder(k)
      PROVE  /\ order[k].status \in Statuses /\ order'[k].status \in Statuses
             /\ order'[k].quantity = order[k].quantity /\ order'[k].provider = order[k].provider
             /\ order'[k].cancelled_at = order[k].cancelled_at
             /\ \A j \in Keys : j # k => order'[j] = order[j]
  BY <1>1, <1>3 DEF ShipOrder, Order, Statuses
<1>4. ASSUME ConfirmReceived(k), ~CancelOrder(k)
      PROVE  /\ order[k].status \in Statuses /\ order'[k].status \in Statuses
             /\ order'[k].quantity = order[k].quantity /\ order'[k].provider = order[k].provider
             /\ order'[k].cancelled_at = order[k].cancelled_at
             /\ \A j \in Keys : j # k => order'[j] = order[j]
  BY <1>1, <1>4 DEF ConfirmReceived, Order, Statuses
<1>5. ASSUME NEW p \in Procs, MarkOrderPaid(p), op[p].key = k, ~CancelOrder(k)
      PROVE  /\ order[k].status \in Statuses /\ order'[k].status \in Statuses
             /\ order'[k].quantity = order[k].quantity /\ order'[k].provider = order[k].provider
             /\ order'[k].cancelled_at = order[k].cancelled_at
             /\ \A j \in Keys : j # k => order'[j] = order[j]
  <2>1. order[k].status # "none"
    BY <1>1, <1>5 DEF IInv, HandlersKnow, OrdersBacked, MarkOrderPaid
  <2>2. order' = [order EXCEPT ![k].status = "paid", ![k].paid_at = TRUE]
    BY <1>5 DEF MarkOrderPaid
  <2> QED BY <1>1, <2>1, <2>2 DEF Order, Statuses
<1> QED BY <1>1, <1>2, <1>3, <1>4, <1>5 DEF Moves

\* PlaceOrder inserts one order.
LEMMA OrderPlaced ==
    ASSUME IInv, NEW p \in Procs, PlaceOrder(p)
    PROVE  LET k == op[p].key IN
           /\ k \in Keys /\ order[k] = NoOrder /\ refund[k] = <<>>
           /\ op[p].quantity \in Nat
           /\ order'[k].status = "pending_payment" /\ order'[k].quantity = op[p].quantity
           /\ order'[k].provider = op[p].provider /\ order'[k].cancelled_at = FALSE
           /\ order'[k].shipments = 0
           /\ \A j \in Keys : j # k => order'[j] = order[j]
<1> DEFINE k == op[p].key
<1>1. /\ k \in Keys /\ order[k].status = "none" /\ op[p].quantity \in Nat
      /\ order \in [Keys -> Order]
  BY PurchaseAssumption DEF IInv, TypeOK, HandlersKnow, PlaceOrder, Op
<1>2. order[k] = NoOrder /\ refund[k] = <<>>
  BY <1>1 DEF IInv, NothingYet
<1>3. order' = [order EXCEPT ![k] =
           [NoOrder EXCEPT !.status = "pending_payment", !.quantity = op[p].quantity,
                           !.provider = op[p].provider]]
  BY DEF PlaceOrder
<1> QED BY <1>1, <1>2, <1>3 DEF NoOrder

\* Every other step leaves the orders as they are.
LEMMA OrdersAlone ==
    ASSUME IInv, [Next]_vars, \A p \in Procs : ~PlaceOrder(p), \A k \in Keys : ~Moves(k)
    PROVE  UNCHANGED order
<1>1. \A p \in Procs : MarkOrderPaid(p) => op[p].key \in Keys
  BY DEF IInv, TypeOK, HandlersKnow, MarkOrderPaid
<1>2. \A p \in Procs : ~MarkOrderPaid(p)
  BY <1>1 DEF Moves
<1> QED BY <1>2 DEF Next, vars, Moves, LookupKey, LockProduct, ProductMissing, PlaceFails,
           EditProduct, SaveProduct, FetchPaid, CancelFails, PaymentSettles, RequestRefund,
           ResolveRefund, CompleteRefund

\* The steps, told apart by the handler or the order they are of.
LEMMA StepKinds ==
    ASSUME [Next]_vars
    PROVE  \/ \E p \in Procs : MarkOrderPaid(p) \/ PlaceOrder(p)
           \/ \E p \in Procs, j \in Keys : FetchPaid(p, j)
           \/ \E p \in Procs :
                 \/ \E j \in Keys, quantity \in 1..MaxStock, provider \in Providers :
                       LookupKey(p, j, quantity, provider)
                 \/ \E kind \in {"update", "archive"} : EditProduct(p, kind)
           \/ \E p \in Procs :
                 LockProduct(p) \/ ProductMissing(p) \/ PlaceFails(p) \/ SaveProduct(p)
           \/ \E j \in Keys : CancelOrder(j) \/ ShipOrder(j) \/ ConfirmReceived(j)
           \/ UNCHANGED <<product, supply, pc, op, order, deliveries>>
<1>1. ASSUME NEW k \in Keys,
             \/ CancelFails(k) \/ PaymentSettles(k)
             \/ \E amount \in 1..order[k].quantity : RequestRefund(k, amount)
             \/ \E i \in DOMAIN refund[k] :
                   \/ \E status \in {"approved", "rejected"} : ResolveRefund(k, i, status)
                   \/ CompleteRefund(k, i)
      PROVE  UNCHANGED <<product, supply, pc, op, order, deliveries>>
  BY <1>1 DEF CancelFails, PaymentSettles, RequestRefund, ResolveRefund, CompleteRefund
<1> QED BY <1>1 DEF Next, vars

\* An order that is not there keeps no refunds: they are asked for on what was paid.
LEMMA NothingStep == IInv /\ [Next]_vars => NothingYet'
<1> SUFFICES ASSUME IInv, [Next]_vars, NEW k \in Keys, order'[k].status = "none"
             PROVE  order'[k] = NoOrder /\ refund'[k] = <<>>
  BY DEF NothingYet
<1>0. refund \in [Keys -> Seq(Request)] /\ order[k].status \in Statuses \cup {"none"}
  BY DEF IInv, TypeOK, Order
<1>1. order'[k] = order[k]
  <2>1. ASSUME NEW p \in Procs, PlaceOrder(p) PROVE order'[k] = order[k]
    BY <2>1, OrderPlaced
  <2>2. ASSUME NEW j \in Keys, Moves(j) PROVE order'[k] = order[k]
    BY <2>2, OrderMoves DEF Statuses
  <2> QED BY <2>1, <2>2, OrdersAlone
<1>2. order[k].status = "none" /\ order[k] = NoOrder /\ refund[k] = <<>>
  BY <1>1 DEF IInv, NothingYet
<1>3. refund'[k] = refund[k]
  <2>1. ASSUME NEW j \in Keys, NEW amount \in 1..order[j].quantity, RequestRefund(j, amount)
        PROVE  refund'[k] = refund[k]
    BY <1>0, <1>2, <2>1 DEF RequestRefund, Refundable
  <2>2. ASSUME NEW j \in Keys, NEW i \in DOMAIN refund[j],
               CompleteRefund(j, i) \/ \E status \in {"approved", "rejected"} : ResolveRefund(j, i, status)
        PROVE  refund'[k] = refund[k]
    <3>1. j # k
      BY <1>2
    <3> QED BY <1>0, <2>2, <3>1 DEF CompleteRefund, ResolveRefund
  <2> QED BY <2>1, <2>2 DEF Next, vars, LookupKey, LockProduct, ProductMissing, PlaceOrder,
             PlaceFails, EditProduct, SaveProduct, FetchPaid, MarkOrderPaid, CancelOrder,
             CancelFails, PaymentSettles, ShipOrder, ConfirmReceived
<1> QED BY <1>1, <1>2, <1>3

\* FetchPaid adds a carrier with its delivery, MarkOrderPaid turns it into a paid order,
\* and ShipOrder uses that up.
LEMMA CountedStep == IInv /\ [Next]_vars => DeliveriesCounted'
<1> SUFFICES ASSUME IInv, [Next]_vars, NEW k \in Keys
             PROVE  LET carriers == {p \in Procs : pc'[p] = "write" /\ op'[p].key = k} IN
                    /\ IsFiniteSet(carriers)
                    /\ order'[k].shipments + Cardinality(carriers)
                         + (IF order'[k].status = "paid" THEN 1 ELSE 0) <= deliveries'[k]
  BY DEF DeliveriesCounted
<1> DEFINE C == {p \in Procs : pc[p] = "write" /\ op[p].key = k}
           D == {p \in Procs : pc'[p] = "write" /\ op'[p].key = k}
           paid == IF order[k].status = "paid" THEN 1 ELSE 0
           paidNow == IF order'[k].status = "paid" THEN 1 ELSE 0
<1>0. /\ pc \in [Procs -> {"idle", "lock", "place", "save", "write"}] /\ op \in [Procs -> Op]
      /\ order \in [Keys -> Order] /\ order[k].shipments \in Nat
      /\ deliveries \in [Keys -> 0..MaxDeliveries] /\ deliveries[k] \in Nat
      /\ \A p \in Procs : pc[p] = "write" => op[p].key \in Keys
  BY DEF IInv, TypeOK, HandlersKnow, Order
<1>1. /\ IsFiniteSet(C) /\ Cardinality(C) \in Nat
      /\ order[k].shipments + Cardinality(C) + paid <= deliveries[k]
  BY FS_CardinalityType DEF IInv, DeliveriesCounted
<1> DEFINE Goal == /\ IsFiniteSet(D)
                   /\ order'[k].shipments + Cardinality(D) + paidNow <= deliveries'[k]
<1>2. ASSUME D = C, UNCHANGED deliveries, order'[k].shipments + paidNow <= order[k].shipments + paid,
             order'[k].shipments \in Nat
      PROVE  Goal
  <2>1. order'[k].shipments + Cardinality(C) + paidNow <= deliveries[k]
    BY ONLY <1>0, <1>1, <1>2, paid \in {0, 1}, paidNow \in {0, 1}
  <2> QED BY <1>1, <1>2, <2>1
<1>3. ASSUME NEW p \in Procs, pc[p] # "write" \/ op[p].key # k, pc'[p] # "write",
             \A q \in Procs : q # p => pc'[q] = pc[q] /\ op'[q] = op[q]
      PROVE  D = C
  BY <1>3
<1>4. ASSUME NEW p \in Procs,
             \/ \E j \in Keys, quantity \in 1..MaxStock, provider \in Providers :
                   LookupKey(p, j, quantity, provider)
             \/ \E kind \in {"update", "archive"} : EditProduct(p, kind)
      PROVE  Goal
  <2>1. pc[p] = "idle" /\ pc' = [pc EXCEPT ![p] = "lock"] /\ \E o : op' = [op EXCEPT ![p] = o]
    BY <1>4 DEF LookupKey, EditProduct, Start, Goto
  <2>2. D = C
    BY <1>0, <1>3, <2>1
  <2>3. UNCHANGED <<order, deliveries>>
    BY <1>4 DEF LookupKey, EditProduct
  <2> QED BY <1>0, <1>2, <2>2, <2>3
<1>5. ASSUME NEW p \in Procs, LockProduct(p) \/ ProductMissing(p) \/ PlaceFails(p) \/ SaveProduct(p)
      PROVE  Goal
  <2>1. D = C
    BY <1>0, <1>3, <1>5 DEF LockProduct, ProductMissing, PlaceFails, SaveProduct, Unlock, Return, Goto
  <2> QED BY <1>0, <1>2, <1>5, <2>1 DEF LockProduct, ProductMissing, PlaceFails, SaveProduct
<1>6. ASSUME NEW p \in Procs, PlaceOrder(p)
      PROVE  Goal
  <2>0. /\ pc[p] = "place" /\ pc' = [pc EXCEPT ![p] = "idle"]
        /\ op' = [op EXCEPT ![p] = NoOp] /\ UNCHANGED deliveries
    BY <1>6 DEF PlaceOrder, Unlock, Return, Goto
  <2>1. D = C
    BY <1>0, <1>3, <2>0
  <2>2. order'[k].shipments = order[k].shipments /\ (order'[k].status = "paid" => order[k].status = "paid")
    <3>1. CASE k = op[p].key
      <4>1. /\ order[k] = NoOrder /\ order'[k].shipments = 0
            /\ order'[k].status = "pending_payment"
        BY <1>6, <3>1, OrderPlaced
      <4> QED BY <4>1 DEF NoOrder
    <3>2. CASE k # op[p].key
      BY <1>6, <3>2, OrderPlaced
    <3> QED BY <3>1, <3>2
  <2> QED BY <1>0, <1>2, <2>0, <2>1, <2>2
<1>7. ASSUME NEW p \in Procs, NEW j \in Keys, FetchPaid(p, j)
      PROVE  Goal
  <2>1. /\ UNCHANGED order /\ pc[p] = "idle"
        /\ deliveries' = [deliveries EXCEPT ![j] = @ + 1]
        /\ \/ UNCHANGED <<pc, op>>
           \/ /\ pc' = [pc EXCEPT ![p] = "write"]
              /\ op' = [op EXCEPT ![p] = [kind |-> "paid", key |-> j, quantity |-> 0,
                                          provider |-> "none"]]
    BY <1>7 DEF FetchPaid, Start, Goto
  <2>2. deliveries'[k] = IF j = k THEN deliveries[k] + 1 ELSE deliveries[k]
    BY <1>0, <2>1
  <2>3. p \notin C /\ D \in {C, C \cup {p}} /\ (j # k => D = C)
    BY <1>0, <2>1
  <2>4. IsFiniteSet(C \cup {p}) /\ Cardinality(C \cup {p}) = Cardinality(C) + 1
    BY <1>1, <2>3, FS_AddElement
  <2>5. paidNow = paid /\ order'[k].shipments = order[k].shipments
    BY <2>1
  <2>6. CASE D = C
    <3>1. IsFiniteSet(D) /\ Cardinality(D) = Cardinality(C)
      BY <1>1, <2>6
    <3> QED BY ONLY <1>0, <1>1, <2>2, <2>5, <3>1, paid \in {0, 1}
  <2>7. CASE D = C \cup {p} /\ j = k
    <3>1. IsFiniteSet(D) /\ Cardinality(D) = Cardinality(C) + 1
      BY <2>4, <2>7
    <3> QED BY ONLY <1>0, <1>1, <2>2, <2>5, <2>7, <3>1, paid \in {0, 1}
  <2> QED BY <2>3, <2>6, <2>7
<1>8. ASSUME NEW p \in Procs, MarkOrderPaid(p)
      PROVE  Goal
  <2>1. /\ pc[p] = "write" /\ op[p].key \in Keys /\ UNCHANGED deliveries
        /\ pc' = [pc EXCEPT ![p] = "idle"] /\ op' = [op EXCEPT ![p] = NoOp]
        /\ order' = [order EXCEPT ![op[p].key].status = "paid", ![op[p].key].paid_at = TRUE]
    BY <1>0, <1>8 DEF MarkOrderPaid, Return, Goto
  <2>2. order'[k].shipments = order[k].shipments
    BY <1>0, <2>1 DEF Order
  <2>3. CASE op[p].key = k
    <3>1. p \in C /\ D = C \ {p}
      BY <1>0, <2>1, <2>3
    <3>2. IsFiniteSet(D) /\ Cardinality(D) = Cardinality(C) - 1
      BY <1>1, <3>1, FS_RemoveElement
    <3> QED BY ONLY <1>0, <1>1, <2>1, <2>2, <3>2, paid \in {0, 1}, paidNow \in {0, 1}
  <2>4. CASE op[p].key # k
    <3>1. D = C
      BY <1>0, <1>3, <2>1, <2>4
    <3>2. order'[k] = order[k]
      BY <1>0, <2>1, <2>4
    <3> QED BY <1>0, <1>2, <2>1, <3>1, <3>2
  <2> QED BY <2>3, <2>4
<1>9. ASSUME NEW j \in Keys, CancelOrder(j) \/ ShipOrder(j) \/ ConfirmReceived(j)
      PROVE  Goal
  <2>1. UNCHANGED <<pc, op, deliveries>>
    BY <1>9 DEF CancelOrder, ShipOrder, ConfirmReceived
  <2>2. CASE CancelOrder(j)
    BY <1>0, <1>2, <2>1, <2>2 DEF CancelOrder, Order
  <2>3. CASE ShipOrder(j)
    BY <1>0, <1>2, <2>1, <2>3 DEF ShipOrder, Order
  <2>4. CASE ConfirmReceived(j)
    BY <1>0, <1>2, <2>1, <2>4 DEF ConfirmReceived, Order
  <2> QED BY <1>9, <2>2, <2>3, <2>4
<1>10. ASSUME UNCHANGED <<pc, op, order, deliveries>>
       PROVE  Goal
  BY <1>0, <1>2, <1>10
<1> HIDE DEF Goal
<1>11. Goal
  <2>1. CASE UNCHANGED <<product, supply, pc, op, order, deliveries>>
    BY <1>10, <2>1
  <2>2. CASE \E p \in Procs : MarkOrderPaid(p) \/ PlaceOrder(p)
    BY <1>6, <1>8, <2>2
  <2>3. CASE \E p \in Procs, j \in Keys : FetchPaid(p, j)
    BY <1>7, <2>3
  <2>4. CASE \E p \in Procs :
                \/ \E j \in Keys, quantity \in 1..MaxStock, provider \in Providers :
                      LookupKey(p, j, quantity, provider)
                \/ \E kind \in {"update", "archive"} : EditProduct(p, kind)
    BY <1>4, <2>4
  <2>5. CASE \E p \in Procs :
                LockProduct(p) \/ ProductMissing(p) \/ PlaceFails(p) \/ SaveProduct(p)
    BY <1>5, <2>5
  <2>6. CASE \E j \in Keys : CancelOrder(j) \/ ShipOrder(j) \/ ConfirmReceived(j)
    BY <1>9, <2>6
  <2> QED BY <2>1, <2>2, <2>3, <2>4, <2>5, <2>6, StepKinds
<1> QED BY <1>11 DEF Goal

-----------------------------------------------------------------------------
(* The units and the money *)

LEMMA QuantitiesTyped ==
    ASSUME IInv
    PROVE  /\ \A k \in Keys : order[k].quantity \in Nat
           /\ \A k \in Keys : order[k].status \in Statuses \cup {"none"}
           /\ IsFiniteSet(Orders(Statuses)) /\ Sold \subseteq Orders(Statuses)
           /\ ByWallet \subseteq Orders(Statuses) /\ Orders(Statuses) \subseteq Keys
           /\ IsFiniteSet(Sold) /\ IsFiniteSet(ByWallet)
<1>1. /\ \A k \in Keys : order[k].quantity \in Nat
      /\ \A k \in Keys : order[k].status \in Statuses \cup {"none"}
  BY DEF IInv, TypeOK, Order
<1>2. IsFiniteSet(Orders(Statuses)) /\ Sold \subseteq Orders(Statuses) /\ Orders(Statuses) \subseteq Keys
  BY DEF IInv, UnitsAccounted, Sold, Orders
<1>3. ByWallet \subseteq Orders(Statuses)
  BY <1>1 DEF IInv, NothingYet, ByWallet, Orders, NoOrder
<1> QED BY <1>1, <1>2, <1>3, FS_Subset

\* The units of the orders of a set when one more order is placed.
LEMMA OneMoreOrder ==
    ASSUME NEW S, IsFiniteSet(S), S \subseteq Keys, NEW k \in Keys, k \notin S,
           NEW f, NEW g, \A j \in Keys : f[j] \in Nat /\ g[j] \in Nat,
           \A j \in Keys : j # k => g[j] = f[j]
    PROVE  /\ SumFunctionOnSet(f, S) \in Int
           /\ SumFunctionOnSet(g, S) = SumFunctionOnSet(f, S)
           /\ SumFunctionOnSet(g, S \cup {k}) = SumFunctionOnSet(f, S) + g[k]
<1>1. \A j \in S : g[j] = f[j] /\ g[j] \in Int
  BY S \subseteq Keys
<1>2. SumFunctionOnSet(g, S) = SumFunctionOnSet(f, S)
  BY <1>1, SumSame
<1>3. \A j \in S \cup {k} : g[j] \in Int
  BY S \subseteq Keys
<1>4. /\ SumFunctionOnSet(g, S) \in Int
      /\ SumFunctionOnSet(g, S \cup {k}) = SumFunctionOnSet(g, S) + g[k]
  BY ONLY <1>3, IsFiniteSet(S), k \notin S, SumAdd
<1> QED BY <1>2, <1>4

\* The stock moves with the orders that reserve it and with what the seller puts up.
LEMMA UnitsStep == IInv /\ [Next]_vars => UnitsAccounted'
<1> SUFFICES ASSUME IInv, [Next]_vars PROVE UnitsAccounted'
  OBVIOUS
<1> DEFINE f == [k \in Keys |-> order[k].quantity]
           g == [k \in Keys |-> order'[k].quantity]
<1>0. /\ \A k \in Keys : order[k].quantity \in Nat /\ f[k] = order[k].quantity
      /\ product.stock \in Int /\ supply \in Int
      /\ product.stock + SumFunctionOnSet(f, Sold) = supply
      /\ SumFunctionOnSet(f, Sold) \in Int
      /\ product \in Row /\ seen \in [Procs -> Row]
  <2>1. \A k \in Sold : f[k] \in Int
    BY QuantitiesTyped
  <2>2. SumFunctionOnSet(f, Sold) \in Int
    BY <2>1, QuantitiesTyped, SumRemove
  <2> QED BY <2>2, QuantitiesTyped DEF IInv, TypeOK, UnitsAccounted, Units, Row
<1>1. ASSUME IsFiniteSet(Orders(Statuses)'), product'.stock + SumFunctionOnSet(g, Sold') = supply'
      PROVE  UnitsAccounted'
  BY <1>1 DEF UnitsAccounted, Units
<1>2. ASSUME \A k \in Keys : order'[k].quantity = order[k].quantity, Sold' = Sold,
             Orders(Statuses)' = Orders(Statuses),
             product'.stock - product.stock = supply' - supply,
             product'.stock \in Int, supply' \in Int
      PROVE  UnitsAccounted'
  <2>1. g = f
    BY <1>2
  <2>2. product'.stock + SumFunctionOnSet(f, Sold) = supply'
    BY ONLY <1>0, <1>2
  <2> QED BY <1>1, <1>2, <2>1, <2>2, QuantitiesTyped
<1>3. ASSUME NEW p \in Procs, PlaceOrder(p)
      PROVE  UnitsAccounted'
  <2> DEFINE k == op[p].key
             q == op[p].quantity
  <2>1. /\ k \in Keys /\ order[k] = NoOrder /\ q \in Nat
        /\ order'[k].status = "pending_payment" /\ order'[k].quantity = q
        /\ order'[k].cancelled_at = FALSE
        /\ \A j \in Keys : j # k => order'[j] = order[j]
    BY <1>3, OrderPlaced
  <2>2. holder = p /\ seen[p] = product
    BY <1>3 DEF IInv, RowIsHeld, PlaceOrder
  <2>3. product'.stock = product.stock - q /\ supply' = supply
    BY <1>0, <1>3, <2>2 DEF PlaceOrder, Row
  <2>4. k \notin Orders(Statuses) /\ k \notin Sold
    BY <2>1 DEF Orders, Statuses, NoOrder, Sold
  <2>5. Sold' = Sold \cup {k} /\ Orders(Statuses)' = Orders(Statuses) \cup {k}
    BY <2>1, <2>4 DEF Orders, Statuses, Sold
  <2>6. \A j \in Keys : f[j] \in Nat /\ g[j] \in Nat
    BY <1>0, <2>1
  <2>6a. \A j \in Keys : j # k => g[j] = f[j]
    BY <2>1
  <2>6b. k \in Keys /\ k \notin Sold
    BY <2>1, <2>4
  <2>7. g[k] = q
    BY <2>1
  <2>8. IsFiniteSet(Sold) /\ Sold \subseteq Keys
    BY QuantitiesTyped
  <2> HIDE DEF f, g, k, q
  <2>9. SumFunctionOnSet(g, Sold \cup {k}) = SumFunctionOnSet(f, Sold) + q
    BY ONLY <2>6, <2>6a, <2>6b, <2>7, <2>8, OneMoreOrder
  <2>10. product'.stock + SumFunctionOnSet(g, Sold') = supply'
    BY ONLY <1>0, <2>1, <2>3, <2>5, <2>9
  <2>11. IsFiniteSet(Orders(Statuses)')
    BY <2>5, QuantitiesTyped, FS_AddElement
  <2> QED BY <1>1, <2>10, <2>11
<1>4. ASSUME NEW k \in Keys, Moves(k), ~CancelOrder(k)
      PROVE  UnitsAccounted'
  <2>1. UNCHANGED <<product, supply>>
    BY <1>4 DEF Moves, ShipOrder, ConfirmReceived, MarkOrderPaid
  <2>2. \A j \in Keys : order'[j].quantity = order[j].quantity
    BY <1>4, OrderMoves
  <2>3. \A j \in Keys : /\ (order'[j].status \in Statuses) <=> (order[j].status \in Statuses)
                        /\ order'[j].cancelled_at <=> order[j].cancelled_at
    BY <1>4, OrderMoves
  <2>3a. \A j \in Keys : (order'[j].status \in Statuses) <=> (order[j].status \in Statuses)
    BY <2>3
  <2>4. Orders(Statuses)' = Orders(Statuses)
    BY <2>3a DEF Orders, Statuses
  <2>5. Sold' = Sold
    BY <2>3, <2>4 DEF Sold, Orders
  <2> QED BY <1>0, <1>2, <2>1, <2>2, <2>4, <2>5
<1>5. ASSUME NEW k \in Keys, CancelOrder(k)
      PROVE  UnitsAccounted'
  <2>1. /\ order[k].status \in Statuses /\ order'[k].status \in Statuses
        /\ order'[k].quantity = order[k].quantity /\ order'[k].cancelled_at
        /\ \A j \in Keys : j # k => order'[j] = order[j]
    BY <1>5, OrderMoves DEF Moves
  <2>2. order[k].status = "pending_payment" /\ UNCHANGED supply
        /\ product' = [product EXCEPT !.stock = product.stock + order[k].quantity]
    BY <1>5 DEF CancelOrder
  <2>3. ~order[k].cancelled_at
    BY <2>2 DEF IInv, OrdersBacked, Refundable
  <2>4. k \in Sold /\ Sold' = Sold \ {k} /\ Orders(Statuses)' = Orders(Statuses)
    BY <2>1, <2>3 DEF Orders, Sold
  <2>5. g = f
    BY <2>1
  <2>6. product'.stock = product.stock + f[k]
    BY <1>0, <2>2 DEF Row
  <2>7. IsFiniteSet(Sold) /\ \A j \in Sold : f[j] \in Int
    BY <1>0, QuantitiesTyped
  <2>8. IsFiniteSet(Sold \ {k}) /\ \A j \in Sold \ {k} : f[j] \in Int
    BY <2>7, FS_RemoveElement
  <2> HIDE DEF f, g
  <2>9. SumFunctionOnSet(f, Sold) = f[k] + SumFunctionOnSet(f, Sold \ {k})
    BY ONLY <2>4, <2>7, SumRemove
  <2>10. SumFunctionOnSet(f, Sold \ {k}) \in Int
    BY ONLY <2>8, SumRemove
  <2>11. f[k] \in Int
    BY <2>4, <2>7
  <2>12. product'.stock + SumFunctionOnSet(f, Sold \ {k}) = supply'
    BY ONLY <1>0, <2>2, <2>6, <2>9, <2>10, <2>11
  <2> QED BY <1>1, <2>4, <2>5, <2>12, QuantitiesTyped
<1>6. ASSUME NEW p \in Procs, SaveProduct(p)
      PROVE  UnitsAccounted'
  <2>1. holder = p /\ seen[p] = product
    BY <1>6 DEF IInv, RowIsHeld, SaveProduct
  <2>2. UNCHANGED order
    BY <1>6 DEF SaveProduct
  <2>3. \/ \E stock \in {product.stock} \cup (0..MaxStock) :
             product'.stock = stock /\ supply' = supply + stock - product.stock
        \/ product'.stock = product.stock /\ supply' = supply
    BY <1>0, <1>6, <2>1 DEF SaveProduct, Row
  <2>4. \A n \in {product.stock} \cup (0..MaxStock) : n \in Int
    BY <1>0, PurchaseAssumption
  <2>5. product'.stock - product.stock = supply' - supply /\ product'.stock \in Int /\ supply' \in Int
    BY ONLY <1>0, <2>3, <2>4
  <2>6. Sold' = Sold /\ Orders(Statuses)' = Orders(Statuses)
    BY <2>2 DEF Sold, Orders
  <2> QED BY <1>2, <2>2, <2>5, <2>6
<1>7. ASSUME UNCHANGED <<product, supply, order>>
      PROVE  UnitsAccounted'
  <2>1. Sold' = Sold /\ Orders(Statuses)' = Orders(Statuses)
    BY <1>7 DEF Sold, Orders
  <2> QED BY <1>0, <1>2, <1>7, <2>1
<1>8. ASSUME NEW p \in Procs, MarkOrderPaid(p)
      PROVE  UnitsAccounted'
  <2>1. op[p].key \in Keys /\ Moves(op[p].key)
    BY <1>8 DEF IInv, TypeOK, HandlersKnow, MarkOrderPaid, Moves
  <2> QED BY <1>4, <1>5, <2>1
<1>9. ASSUME NEW k \in Keys, ShipOrder(k) \/ ConfirmReceived(k)
      PROVE  UnitsAccounted'
  BY <1>4, <1>5, <1>9 DEF Moves
<1>10. ASSUME NEW p \in Procs,
              \/ LockProduct(p) \/ ProductMissing(p) \/ PlaceFails(p)
              \/ \E j \in Keys, quantity \in 1..MaxStock, provider \in Providers :
                    LookupKey(p, j, quantity, provider)
              \/ \E kind \in {"update", "archive"} : EditProduct(p, kind)
              \/ \E j \in Keys : FetchPaid(p, j)
       PROVE  UnitsAccounted'
  <2>1. UNCHANGED <<product, supply, order>>
    BY <1>10 DEF LockProduct, ProductMissing, PlaceFails, LookupKey, EditProduct, FetchPaid
  <2> QED BY <1>7, <2>1
<1> QED BY <1>3, <1>5, <1>6, <1>7, <1>8, <1>9, <1>10, StepKinds

\* What the completed requests of a list come to.
Done(list) == {i \in DOMAIN list : list[i].status = "refunded"}

LEMMA RefundsTyped ==
    ASSUME NEW list \in Seq(Request)
    PROVE  /\ IsFiniteSet(Done(list)) /\ RefundedOf(list) \in Int
           /\ \A i \in DOMAIN list : list[i] \in Request /\ list[i].amount \in Int
<1>1. DOMAIN list = 1..Len(list) /\ Len(list) \in Nat
  OBVIOUS
<1>2. IsFiniteSet(DOMAIN list) /\ Done(list) \subseteq DOMAIN list
  BY <1>1, FS_Interval DEF Done
<1>3. IsFiniteSet(Done(list))
  BY <1>2, FS_Subset
<1>4. \A i \in DOMAIN list : list[i] \in Request
  OBVIOUS
<1>5. \A i \in DOMAIN list : list[i].amount \in Int
  BY <1>4 DEF Request
<1> DEFINE f == [i \in DOMAIN list |-> list[i].amount]
<1>6. \A i \in Done(list) : f[i] \in Int
  BY <1>2, <1>5
<1>7. SumFunctionOnSet(f, Done(list)) \in Int
  BY ONLY <1>3, <1>6, SumRemove
<1>8. RefundedOf(list) = SumFunctionOnSet(f, Done(list))
  BY Zenon DEF RefundedOf, Done
<1> QED BY <1>3, <1>4, <1>5, <1>7, <1>8

\* The same requests completed, for the same amounts: as much paid back.
LEMMA SameRefunds ==
    ASSUME NEW list \in Seq(Request), NEW next, Done(next) = Done(list),
           \A i \in Done(list) : next[i].amount = list[i].amount
    PROVE  RefundedOf(next) = RefundedOf(list)
<1> DEFINE f == [i \in DOMAIN list |-> list[i].amount]
           g == [i \in DOMAIN next |-> next[i].amount]
<1>1. IsFiniteSet(Done(list)) /\ \A i \in Done(list) : i \in DOMAIN list /\ i \in DOMAIN next
  BY RefundsTyped DEF Done
<1>2. \A i \in Done(list) : f[i] = g[i] /\ f[i] \in Int
  BY <1>1, RefundsTyped
<1>3. SumFunctionOnSet(f, Done(list)) = SumFunctionOnSet(g, Done(list))
  BY ONLY <1>1, <1>2, SumSame
<1>4. /\ RefundedOf(list) = SumFunctionOnSet(f, Done(list))
      /\ RefundedOf(next) = SumFunctionOnSet(g, Done(next))
  BY Zenon DEF RefundedOf, Done
<1> QED BY <1>3, <1>4

\* One more request completed.
LEMMA OneMoreRefund ==
    ASSUME NEW list \in Seq(Request), NEW i \in DOMAIN list, list[i].status # "refunded"
    PROVE  RefundedOf([list EXCEPT ![i].status = "refunded"]) = RefundedOf(list) + list[i].amount
<1> DEFINE next == [list EXCEPT ![i].status = "refunded"]
           f == [j \in DOMAIN list |-> list[j].amount]
           g == [j \in DOMAIN next |-> next[j].amount]
<1>1. /\ DOMAIN next = DOMAIN list
      /\ \A j \in DOMAIN list : j # i => next[j] = list[j]
      /\ next[i] = [list[i] EXCEPT !.status = "refunded"]
  OBVIOUS
<1>r. ASSUME NEW r \in Request
      PROVE  /\ [r EXCEPT !.status = "refunded"].status = "refunded"
             /\ [r EXCEPT !.status = "refunded"].amount = r.amount
  BY DEF Request
<1>2. next[i].status = "refunded" /\ next[i].amount = list[i].amount
  <2>1. list[i] \in Request
    BY RefundsTyped
  <2> QED BY ONLY <1>1, <1>r, <2>1
<1>3. Done(next) = Done(list) \cup {i} /\ i \notin Done(list)
  BY <1>1, <1>2 DEF Done
<1>4. f = g
  BY <1>1, <1>2
<1>5. IsFiniteSet(Done(list)) /\ \A j \in Done(list) \cup {i} : f[j] \in Int
  BY RefundsTyped DEF Done
<1>6. f[i] = list[i].amount
  OBVIOUS
<1>7. /\ RefundedOf(list) = SumFunctionOnSet(f, Done(list))
      /\ RefundedOf(next) = SumFunctionOnSet(g, Done(next))
  BY Zenon DEF RefundedOf, Done
<1> HIDE DEF f, g, next
<1>8. SumFunctionOnSet(f, Done(list) \cup {i}) = SumFunctionOnSet(f, Done(list)) + f[i]
  BY ONLY <1>3, <1>5, SumAdd
<1> QED BY <1>3, <1>4, <1>6, <1>7, <1>8 DEF next

LEMMA NoRefunds == RefundedOf(<<>>) = 0
<1>1. Done(<<>>) = {}
  BY DEF Done
<1>2. RefundedOf(<<>>) = SumFunctionOnSet([i \in DOMAIN <<>> |-> <<>>[i].amount], Done(<<>>))
  BY Zenon DEF RefundedOf, Done
<1> QED BY <1>1, <1>2, SumEmpty

\* How a step may treat the refunds of an order.
LEMMA RefundsKept ==
    ASSUME IInv, NEW k \in Keys,
           \/ \E amount \in 1..order[k].quantity : RequestRefund(k, amount)
           \/ \E i \in DOMAIN refund[k], status \in {"approved", "rejected"} :
                 ResolveRefund(k, i, status)
    PROVE  \A j \in Keys : RefundedOf(refund'[j]) = RefundedOf(refund[j])
<1>0. refund \in [Keys -> Seq(Request)] /\ refund[k] \in Seq(Request)
      /\ order[k].quantity \in Nat
  BY QuantitiesTyped DEF IInv, TypeOK
<1>1. \A j \in Keys : j # k => refund'[j] = refund[j]
  BY <1>0 DEF RequestRefund, ResolveRefund
<1>2. ASSUME NEW amount \in 1..order[k].quantity, RequestRefund(k, amount)
      PROVE  RefundedOf(refund'[k]) = RefundedOf(refund[k])
  <2> DEFINE r == [amount |-> amount, status |-> "requested"]
  <2>1. refund'[k] = Append(refund[k], r)
    BY <1>0, <1>2 DEF RequestRefund
  <2>2. r \in Request
    BY <1>0 DEF Request, Active
  <2>3. /\ DOMAIN refund[k] = 1..Len(refund[k]) /\ Len(refund[k]) \in Nat
        /\ DOMAIN refund'[k] = 1..(Len(refund[k]) + 1)
        /\ \A i \in DOMAIN refund[k] : refund'[k][i] = refund[k][i]
        /\ refund'[k][Len(refund[k]) + 1] = r
    BY <1>0, <2>1, <2>2
  <2>4. r.status # "refunded"
    OBVIOUS
  <2>5. Done(refund'[k]) = Done(refund[k])
    BY ONLY <2>3, <2>4 DEF Done
  <2>6. \A i \in Done(refund[k]) : refund'[k][i].amount = refund[k][i].amount
    BY <2>3 DEF Done
  <2> QED BY ONLY <1>0, <2>5, <2>6, SameRefunds
<1>3. ASSUME NEW i \in DOMAIN refund[k], NEW status \in {"approved", "rejected"},
             ResolveRefund(k, i, status)
      PROVE  RefundedOf(refund'[k]) = RefundedOf(refund[k])
  <2>1. refund[k][i].status = "requested" /\ refund' = [refund EXCEPT ![k][i].status = status]
    BY <1>3 DEF ResolveRefund
  <2>2. refund'[k] = [refund[k] EXCEPT ![i] = [refund[k][i] EXCEPT !.status = status]]
    BY <1>0, <2>1
  <2>3. refund[k][i] \in Request
    BY <1>0
  <2>4. [refund[k][i] EXCEPT !.status = status].status = status
    BY <2>3 DEF Request
  <2>5. /\ DOMAIN refund'[k] = DOMAIN refund[k]
        /\ \A j \in DOMAIN refund[k] : j # i => refund'[k][j] = refund[k][j]
        /\ refund'[k][i].status = status
    BY <2>2, <2>4
  <2>6. Done(refund'[k]) = Done(refund[k]) /\ i \notin Done(refund[k])
    BY <2>1, <2>5 DEF Done
  <2>7. \A j \in Done(refund[k]) : refund'[k][j].amount = refund[k][j].amount
    BY <2>5, <2>6 DEF Done
  <2> QED BY ONLY <1>0, <2>6, <2>7, SameRefunds
<1> QED BY <1>1, <1>2, <1>3

LEMMA RefundCompleted ==
    ASSUME IInv, NEW k \in Keys, NEW i \in DOMAIN refund[k], CompleteRefund(k, i)
    PROVE  /\ \A j \in Keys : j # k => refund'[j] = refund[j]
           /\ RefundedOf(refund'[k]) = RefundedOf(refund[k]) + refund[k][i].amount
<1>1. refund \in [Keys -> Seq(Request)] /\ refund[k] \in Seq(Request)
  BY DEF IInv, TypeOK
<1>2. refund[k][i].status # "refunded" /\ refund' = [refund EXCEPT ![k][i].status = "refunded"]
  BY DEF CompleteRefund
<1>3. /\ refund'[k] = [refund[k] EXCEPT ![i].status = "refunded"]
      /\ \A j \in Keys : j # k => refund'[j] = refund[j]
  BY <1>1, <1>2
<1> QED BY <1>1, <1>2, <1>3, OneMoreRefund

\* The wallet pays for an order when it is placed and gets a refund when it completes.
LEMMA BalanceStep == IInv /\ [Next]_vars => BalanceExplained'
<1> SUFFICES ASSUME IInv, [Next]_vars PROVE BalanceExplained'
  OBVIOUS
<1> DEFINE f == [k \in Keys |-> order[k].quantity]
           g == [k \in Keys |-> order'[k].quantity]
           h == [k \in Keys |-> RefundedOf(refund[k])]
           i == [k \in Keys |-> RefundedOf(refund'[k])]
           Spent == SumFunctionOnSet(f, ByWallet)
           Back == SumFunctionOnSet(h, ByWallet)
<1>0. /\ balance = Money - Spent + Back
      /\ balance \in Int /\ Money \in Int /\ Spent \in Int /\ Back \in Int
      /\ IsFiniteSet(ByWallet) /\ ByWallet \subseteq Keys
      /\ \A k \in Keys : order[k].quantity \in Nat /\ f[k] = order[k].quantity
      /\ \A k \in Keys : RefundedOf(refund[k]) \in Int /\ h[k] = RefundedOf(refund[k])
  <2>1. \A k \in Keys : order[k].quantity \in Nat /\ f[k] = order[k].quantity
    BY QuantitiesTyped
  <2>2. \A k \in Keys : RefundedOf(refund[k]) \in Int /\ h[k] = RefundedOf(refund[k])
    BY RefundsTyped DEF IInv, TypeOK
  <2>3. IsFiniteSet(ByWallet) /\ ByWallet \subseteq Keys
    BY QuantitiesTyped
  <2>4. (\A k \in ByWallet : f[k] \in Int) /\ (\A k \in ByWallet : h[k] \in Int)
    BY <2>1, <2>2, <2>3
  <2>5. balance = Money - Spent + Back /\ balance \in Int /\ Money \in Int
    BY PurchaseAssumption DEF IInv, TypeOK, BalanceExplained, Units, ListRefunds
  <2> HIDE DEF f, h
  <2>6. SumFunctionOnSet(f, ByWallet) \in Int /\ SumFunctionOnSet(h, ByWallet) \in Int
    BY <2>3, <2>4, SumRemove
  <2> QED BY <2>1, <2>2, <2>3, <2>5, <2>6
<1>f. IsFiniteSet(ByWallet) /\ ByWallet \subseteq Keys
  BY <1>0
<1>1. ASSUME balance' = Money - SumFunctionOnSet(g, ByWallet') + SumFunctionOnSet(i, ByWallet')
      PROVE  BalanceExplained'
  BY <1>1 DEF BalanceExplained, Units, ListRefunds
<1>2. ASSUME \A k \in Keys : /\ order'[k].quantity = order[k].quantity
                             /\ order'[k].provider = order[k].provider
                             /\ RefundedOf(refund'[k]) = RefundedOf(refund[k]),
             UNCHANGED balance
      PROVE  BalanceExplained'
  <2>1. g = f /\ i = h
    BY <1>2
  <2>2. ByWallet' = ByWallet
    BY <1>2 DEF ByWallet
  <2> QED BY <1>0, <1>1, <1>2, <2>1, <2>2
<1>3. ASSUME NEW p \in Procs, PlaceOrder(p)
      PROVE  BalanceExplained'
  <2> DEFINE k == op[p].key
             q == op[p].quantity
  <2>1. /\ k \in Keys /\ order[k] = NoOrder /\ refund[k] = <<>> /\ q \in Nat
        /\ order'[k].quantity = q /\ order'[k].provider = op[p].provider
        /\ \A j \in Keys : j # k => order'[j] = order[j]
    BY <1>3, OrderPlaced
  <2>2. UNCHANGED refund /\ i = h
    BY <1>3 DEF PlaceOrder
  <2>3. k \notin ByWallet /\ h[k] = 0
    BY <2>1, NoRefunds DEF ByWallet, NoOrder
  <2>4. \A j \in Keys : f[j] \in Nat /\ g[j] \in Nat
    BY <1>0, <2>1
  <2>5. \A j \in Keys : j # k => g[j] = f[j]
    BY <2>1
  <2>6. k \in Keys /\ g[k] = q /\ q \in Int
    BY <2>1
  <2>7. (\A j \in ByWallet \cup {k} : h[j] \in Int) /\ k \notin ByWallet
    BY <1>0, <2>3, <2>6
  <2>8. ByWallet' = IF op[p].provider = "wallet" THEN ByWallet \cup {k} ELSE ByWallet
    BY <2>1, <2>3 DEF ByWallet
  <2>9. balance' = IF op[p].provider = "wallet" THEN balance - q ELSE balance
    BY <1>3 DEF PlaceOrder
  <2> HIDE DEF f, g, h, i, k, q
  <2>10. /\ SumFunctionOnSet(g, ByWallet) = SumFunctionOnSet(f, ByWallet)
         /\ SumFunctionOnSet(g, ByWallet \cup {k}) = SumFunctionOnSet(f, ByWallet) + q
    <3>1. k \notin ByWallet
      BY <2>7
    <3>2. /\ SumFunctionOnSet(g, ByWallet) = SumFunctionOnSet(f, ByWallet)
          /\ SumFunctionOnSet(g, ByWallet \cup {k}) = SumFunctionOnSet(f, ByWallet) + g[k]
      BY ONLY <1>f, <2>4, <2>5, <2>6, <3>1, OneMoreOrder
    <3> QED BY <2>6, <3>2
  <2>11. SumFunctionOnSet(h, ByWallet \cup {k}) = SumFunctionOnSet(h, ByWallet)
    <3>1. SumFunctionOnSet(h, ByWallet \cup {k}) = SumFunctionOnSet(h, ByWallet) + h[k]
      BY ONLY <1>f, <2>7, SumAdd
    <3> QED BY ONLY <1>0, <2>3, <3>1
  <2>12. balance' = Money - SumFunctionOnSet(g, ByWallet') + SumFunctionOnSet(h, ByWallet')
    <3>1. CASE op[p].provider = "wallet"
      <4>1. balance - q = Money - (Spent + q) + Back
        BY ONLY <1>0, <2>6
      <4> QED BY <2>8, <2>9, <2>10, <2>11, <3>1, <4>1
    <3>2. CASE op[p].provider # "wallet"
      BY <1>0, <2>8, <2>9, <2>10, <3>2
    <3> QED BY <3>1, <3>2
  <2> QED BY <1>1, <2>2, <2>12
<1>4. ASSUME NEW k \in Keys, Moves(k)
      PROVE  BalanceExplained'
  <2>1. UNCHANGED <<balance, refund>>
    BY <1>4 DEF Moves, CancelOrder, ShipOrder, ConfirmReceived, MarkOrderPaid
  <2>2. \A j \in Keys : /\ order'[j].quantity = order[j].quantity
                        /\ order'[j].provider = order[j].provider
    BY <1>4, OrderMoves
  <2> QED BY <1>2, <2>1, <2>2
<1>5. ASSUME NEW k \in Keys,
             \/ \E amount \in 1..order[k].quantity : RequestRefund(k, amount)
             \/ \E j \in DOMAIN refund[k], status \in {"approved", "rejected"} :
                   ResolveRefund(k, j, status)
      PROVE  BalanceExplained'
  <2>1. UNCHANGED <<balance, order>>
    BY <1>5 DEF RequestRefund, ResolveRefund
  <2>2. \A j \in Keys : RefundedOf(refund'[j]) = RefundedOf(refund[j])
    BY <1>5, RefundsKept
  <2> QED BY <1>2, <2>1, <2>2
<1>6. ASSUME NEW k \in Keys, NEW n \in DOMAIN refund[k], CompleteRefund(k, n)
      PROVE  BalanceExplained'
  <2> DEFINE a == refund[k][n].amount
  <2>1. /\ \A j \in Keys : j # k => refund'[j] = refund[j]
        /\ RefundedOf(refund'[k]) = RefundedOf(refund[k]) + a
    BY <1>6, RefundCompleted
  <2>2. a \in Int
    BY RefundsTyped DEF IInv, TypeOK
  <2>3. balance' = IF order[k].provider = "wallet" THEN balance + a ELSE balance
    BY <1>6 DEF CompleteRefund
  <2>4. UNCHANGED order /\ g = f /\ ByWallet' = ByWallet
    BY <1>6 DEF CompleteRefund, ByWallet
  <2>5. \A j \in ByWallet : j # k => i[j] = h[j]
    BY <1>0, <2>1
  <2>6. i[k] = h[k] + a /\ i[k] \in Int /\ h[k] \in Int
    BY <1>0, <2>1, <2>2
  <2>7. \A j \in ByWallet : h[j] \in Int
    BY <1>0
  <2>8. k \in ByWallet <=> order[k].provider = "wallet"
    BY DEF ByWallet
  <2> HIDE DEF f, g, h, i, a
  <2>9. CASE k \in ByWallet
    <3>1. SumFunctionOnSet(i, ByWallet) = SumFunctionOnSet(h, ByWallet) + i[k] - h[k]
      BY ONLY <1>f, <2>5, <2>6, <2>7, <2>9, SumUpdate
    <3>2. balance + a = Money - Spent + SumFunctionOnSet(i, ByWallet)
      BY ONLY <1>0, <2>2, <2>6, <3>1
    <3> QED BY <1>1, <2>3, <2>4, <2>8, <2>9, <3>2
  <2>10. CASE k \notin ByWallet
    <3>1. \A j \in ByWallet : h[j] = i[j] /\ h[j] \in Int
      BY <2>5, <2>7, <2>10
    <3>2. SumFunctionOnSet(h, ByWallet) = SumFunctionOnSet(i, ByWallet)
      BY ONLY <1>0, <3>1, SumSame
    <3> QED BY <1>0, <1>1, <2>3, <2>4, <2>8, <2>10, <3>2
  <2> QED BY <2>9, <2>10
<1>7. ASSUME UNCHANGED <<balance, order, refund>>
      PROVE  BalanceExplained'
  BY <1>2, <1>7
<1>8. ASSUME NEW p \in Procs, MarkOrderPaid(p)
      PROVE  BalanceExplained'
  <2>1. op[p].key \in Keys /\ Moves(op[p].key)
    BY <1>8 DEF IInv, TypeOK, HandlersKnow, MarkOrderPaid, Moves
  <2> QED BY <1>4, <2>1
<1>9. ASSUME NEW k \in Keys, CancelOrder(k) \/ ShipOrder(k) \/ ConfirmReceived(k)
      PROVE  BalanceExplained'
  BY <1>4, <1>9 DEF Moves
<1>10. ASSUME NEW p \in Procs,
              \/ LockProduct(p) \/ ProductMissing(p) \/ PlaceFails(p) \/ SaveProduct(p)
              \/ \E j \in Keys, quantity \in 1..MaxStock, provider \in Providers :
                    LookupKey(p, j, quantity, provider)
              \/ \E kind \in {"update", "archive"} : EditProduct(p, kind)
              \/ \E j \in Keys : FetchPaid(p, j)
       PROVE  BalanceExplained'
  <2>1. UNCHANGED <<balance, order, refund>>
    BY <1>10 DEF LockProduct, ProductMissing, PlaceFails, SaveProduct, LookupKey, EditProduct, FetchPaid
  <2> QED BY <1>7, <2>1
<1>11. ASSUME NEW k \in Keys, CancelFails(k) \/ PaymentSettles(k)
       PROVE  BalanceExplained'
  <2>1. UNCHANGED <<balance, order, refund>>
    BY <1>11 DEF CancelFails, PaymentSettles
  <2> QED BY <1>7, <2>1
<1>12. CASE UNCHANGED vars
  BY <1>7, <1>12 DEF vars
<1> QED BY <1>3, <1>5, <1>6, <1>8, <1>9, <1>10, <1>11, <1>12 DEF Next

-----------------------------------------------------------------------------
(* What is read *)

\* What is promised to a reader: units that are reserved, revenue that was settled.
LEMMA ReadsHold ==
    ASSUME IInv
    PROVE  ReadsBacked
<1> DEFINE f == [k \in Keys |-> order[k].quantity]
           Paid == {k \in Keys : payment[k] = "PAID"}
<1>1. ResolveQr \subseteq Sold
  BY DEF IInv, OrdersBacked, ResolveQr, Orders, Sold, Statuses, Refundable
<1>2. Paid \subseteq Orders(Statuses)
  BY QuantitiesTyped DEF IInv, OrdersBacked, Orders
<1>3. IsFiniteSet(Paid) /\ \A k \in Paid : f[k] \in Nat
  <2>1. IsFiniteSet(Paid)
    BY <1>2, QuantitiesTyped, FS_Subset
  <2> QED BY <2>1, QuantitiesTyped
<1>4. Orders({"paid"}) \in SUBSET Paid
  BY DEF IInv, OrdersBacked, Orders, Refundable
<1>5. StoreStats.revenue = SumFunctionOnSet(f, Orders({"paid"}))
  BY DEF StoreStats, SellerOrders, Units
<1> HIDE DEF f, Paid
<1>6. SumFunctionOnSet(f, Orders({"paid"})) <= SumFunctionOnSet(f, Paid)
  BY ONLY <1>3, <1>4, SumPart
<1>7. StoreStats.revenue <= SumFunctionOnSet(f, Paid)
  BY <1>5, <1>6
<1> QED BY <1>1, <1>7 DEF ReadsBacked, Units, f, Paid

-----------------------------------------------------------------------------

\* The strengthened invariant holds in every reachable state.
THEOREM Inductive == Spec => []IInv
<1>1. IInv /\ [Next]_vars => IInv'
  BY TypeStep, KnowStep, BackedStep, RefundStep, HeldStep, NothingStep, CountedStep, UnitsStep,
     BalanceStep DEF IInv
<1> QED BY <1>1, InvInit, PTL DEF Spec

\* Type correctness of the rows, the handlers and the lock.
THEOREM TypeCorrect == Spec => []TypeOK
<1>1. IInv => TypeOK
  BY DEF IInv
<1> QED BY <1>1, Inductive, PTL

\* No order counts as paid or leaves the house before its payment was settled,
\* whatever overtakes the unlocked mark_order_paid.
THEOREM StandingSettled == Spec => []StandingWasSettled
<1>1. IInv => StandingWasSettled
  BY DEF IInv, OrdersBacked, StandingWasSettled
<1> QED BY <1>1, Inductive, PTL

\* A cancelled order that comes back was paid for, and the outbox brought it back.
THEOREM RevivedSettled == Spec => []RevivedWasSettled
<1>1. IInv => RevivedWasSettled
  BY DEF IInv, OrdersBacked, RevivedWasSettled, Refundable
<1> QED BY <1>1, Inductive, PTL

\* At most one refund request of an order is requested or approved.
THEOREM OneRefundAtATime == Spec => []OneActiveRefund
<1>1. IInv => OneActiveRefund
  BY DEF IInv
<1> QED BY <1>1, Inductive, PTL

\* An order leaves the diagram of commerce.md section 11 only by OrderPaid.
THEOREM JumpsByOrderPaid == Spec => OnlyOrderPaidJumps
<1> DEFINE Jump == \A k \in Keys : order'[k].status # order[k].status =>
          \/ <<order[k].status, order'[k].status>> \in Arrows
          \/ /\ order'[k].status = "paid"
             /\ \E p \in Procs : op[p].kind = "paid" /\ op[p].key = k
<1>1. IInv /\ [Next]_vars => [Jump]_vars
  <2> SUFFICES ASSUME IInv, Next PROVE Jump
    BY DEF vars
  <2>1. ASSUME NEW p \in Procs, PlaceOrder(p) PROVE Jump
    BY <2>1 DEF IInv, TypeOK, PlaceOrder, Arrows, NoOrder
  <2>2. ASSUME NEW p \in Procs, MarkOrderPaid(p) PROVE Jump
    BY <2>2 DEF IInv, TypeOK, HandlersKnow, MarkOrderPaid
  <2>3. ASSUME NEW k \in Keys, NEW s \in Statuses, <<order[k].status, s>> \in Arrows,
               order'[k].status = s, \A j \in Keys \ {k} : order'[j] = order[j]
        PROVE  Jump
    BY <2>3
  <2>4. ASSUME NEW k \in Keys, CancelOrder(k) PROVE Jump
    <3>1. /\ order'[k].status = "cancelled"
          /\ \A j \in Keys \ {k} : order'[j] = order[j]
      BY <2>4 DEF IInv, TypeOK, CancelOrder, Order
    <3> QED BY <2>3, <2>4, <3>1 DEF CancelOrder, Arrows, Statuses
  <2>5. ASSUME NEW k \in Keys, ShipOrder(k) PROVE Jump
    <3>1. /\ order'[k].status = "shipping"
          /\ \A j \in Keys \ {k} : order'[j] = order[j]
      BY <2>5 DEF IInv, TypeOK, ShipOrder, Order
    <3> QED BY <2>3, <2>5, <3>1 DEF ShipOrder, Arrows, Statuses
  <2>6. ASSUME NEW k \in Keys, ConfirmReceived(k) PROVE Jump
    <3>1. /\ order'[k].status = "completed"
          /\ \A j \in Keys \ {k} : order'[j] = order[j]
      BY <2>6 DEF IInv, TypeOK, ConfirmReceived, Order
    <3> QED BY <2>3, <2>6, <3>1 DEF ConfirmReceived, Arrows, Statuses
  <2>7. ASSUME UNCHANGED order PROVE Jump
    BY <2>7
  <2> QED
    BY <2>1, <2>2, <2>4, <2>5, <2>6, <2>7
    DEF Next, LookupKey, LockProduct, ProductMissing, PlaceFails,
        EditProduct, SaveProduct, FetchPaid, CancelFails, PaymentSettles, RequestRefund,
        ResolveRefund, CompleteRefund
<1> QED BY <1>1, Inductive, PTL DEF Spec, OnlyOrderPaidJumps

\* create_order, cancel_order, the seller's edits and the reads of the store, whatever
\* overlaps: each unit the seller put up is on the shelf or reserved exactly once, an
\* order is shipped no more often than OrderPaid came, and reads promise what is there.
THEOREM GoodsAreSound == Spec => []GoodsSound
<1>1. IInv => StockAccounted
  BY DEF IInv, UnitsAccounted, StockAccounted
<1>2. IInv => ReshippedByRedelivery
  <2> SUFFICES ASSUME IInv, NEW k \in Keys PROVE order[k].shipments <= deliveries[k]
    BY DEF ReshippedByRedelivery, GetTracking
  <2> DEFINE C == {p \in Procs : pc[p] = "write" /\ op[p].key = k}
             paid == IF order[k].status = "paid" THEN 1 ELSE 0
  <2>1. Cardinality(C) \in Nat /\ order[k].shipments + Cardinality(C) + paid <= deliveries[k]
    BY FS_CardinalityType DEF IInv, DeliveriesCounted
  <2>2. order[k].shipments \in Nat /\ deliveries[k] \in Nat
    BY DEF IInv, TypeOK, Order
  <2> QED BY ONLY <2>1, <2>2, paid \in {0, 1}
<1>3. IInv => ReadsBacked
  BY ReadsHold
<1>4. IInv => GoodsSound
  BY <1>1, <1>2, <1>3 DEF IInv, GoodsSound
<1> QED BY <1>4, Inductive, PTL

\* The buyer's wallet paid each of its orders once and got each completed refund once,
\* however many handlers, refund requests and deliveries there are.
THEOREM BalanceIsExplained == Spec => []BalanceExplained
<1>1. IInv => BalanceExplained
  BY DEF IInv
<1> QED BY <1>1, Inductive, PTL
==============================================================================
