-------------------------- MODULE MCCreditRequests --------------------------
(* Two handlers at a time; a recharge that does not cover both redeem requests *)
(* together; three days, of which any may be missed.                           *)
EXTENDS CreditRequests

CONSTANTS ra, rb, ca

RedeemAmounts == [r \in {ra, rb} |-> IF r = ra THEN 1 ELSE 2]
RechargeAmounts == [c \in {ca} |-> 2]
=============================================================================
