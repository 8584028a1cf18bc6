--------------------------- MODULE MCPaymentOrder ---------------------------
(* Two handlers at a time, every provider, three webhook events: enough for a *)
(* declined attempt, a payment and a refund, delivered in any order.          *)
EXTENDS PaymentOrder
=============================================================================
