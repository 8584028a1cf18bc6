---------------------------- MODULE MCWalletReads ----------------------------
(* One writer and the reconciliation job.  The calls move one wallet of each   *)
(* currency with entry types of different buckets and in both directions.      *)
(* Writers that compete for a wallet are the subject of MCWalletLedger; a      *)
(* reader sees only what they commit, and one writer commits every history.    *)
EXTENDS WalletReads

CONSTANTS ua, k1, k2, k3

Credit(cur, k, t, amt) ==
    [wallet |-> <<ua, cur>>, key |-> k, type |-> t, amount |-> amt, dir |-> "credit"]
Debit(cur, k, t, amt) ==
    [wallet |-> <<ua, cur>>, key |-> k, type |-> t, amount |-> amt, dir |-> "debit"]

ReadCalls ==
    { Credit("MC", k1, "RECHARGE", 2),
      Debit("MC", k2, "REDEEM_HOLD", 1),
      Debit("MC", k3, "ADMIN_ADJUST", 1),
      Credit("MP", k1, "BONUS", 1) }
=============================================================================
