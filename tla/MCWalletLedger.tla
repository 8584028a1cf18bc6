--------------------------- MODULE MCWalletLedger ---------------------------
(* Two users, two concurrent transactions.  The calls give each user a way to *)
(* receive and to spend, one key that two wallets share, an adjustment, an    *)
(* overdraft, a call that _post refuses, and a balance that reaches MaxMoney. *)
EXTENDS WalletPromise

CONSTANTS ua, ub, k1, k2, k3

Credit(u, cur, k, t, amt) ==
    [wallet |-> <<u, cur>>, key |-> k, type |-> t, amount |-> amt, dir |-> "credit"]
Debit(u, cur, k, t, amt) ==
    [wallet |-> <<u, cur>>, key |-> k, type |-> t, amount |-> amt, dir |-> "debit"]

LedgerCalls ==
    { Credit(ua, "MC", k1, "RECHARGE", 2),
      Debit(ua, "MC", k2, "SPEND", 1),
      Credit(ub, "MC", k3, "GIFT_RECEIVED", 2),
      Credit(ub, "MC", k1, "ADMIN_ADJUST", 1),
      Credit(ua, "MC", NoKey, "RECHARGE", 1) }
=============================================================================
