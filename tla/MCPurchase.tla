----------------------------- MODULE MCPurchase -----------------------------
(* Two handlers at a time, two orders competing for two units, a seller who   *)
(* edits the product meanwhile, and a second delivery of OrderPaid.           *)
EXTENDS Purchase
=============================================================================
