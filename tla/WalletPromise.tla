---------------------------- MODULE WalletPromise ----------------------------
(***************************************************************************)
(* WalletLedger implements LedgerPromise: the balance is the committed     *)
(* wallet row, and a committed ledger row is a posting of the amount by    *)
(* which it moved the balance.                                             *)
(***************************************************************************)
EXTENDS WalletLedger

Promise == INSTANCE LedgerPromise WITH
              Wallet  <- Wallets,
              balance <- [w \in Wallets |-> head[w].bal],
              posted  <- {[wallet |-> r.wallet, key |-> r.key,
                           delta |-> r.after - r.before] : r \in ledger}

\* Row locks, drafts and commits show the other apps nothing but postings under
\* fresh keys and balances that are the sum of all postings so far, however the
\* transactions that call credit and debit interleave, fail and retry.
PromiseKept == Promise!Spec
=============================================================================
