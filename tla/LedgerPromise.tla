---------------------------- MODULE LedgerPromise ----------------------------
(***************************************************************************)
(* What apps/economy promises the other apps about wallets, with no locks, *)
(* rows or transactions: a set of postings, each under its own idempotency *)
(* key, and balances that are at every moment the sum of the postings made *)
(* so far and never negative.  One step makes any number of postings: the  *)
(* commit of one business transaction (a gift posts two).                  *)
(***************************************************************************)
EXTENDS Integers, Functions

CONSTANTS Wallet,       \* the wallets
          Table(_)      \* the currency a wallet belongs to

VARIABLES balance,      \* the balance of each wallet
          posted        \* the postings made: [wallet, key, delta]

Init ==
    /\ balance = [w \in Wallet |-> 0]
    /\ posted = {}

\* The sum of what a set of postings does to wallet w.
Total(P, w) == SumFunctionOnSet([e \in P |-> e.delta], {e \in P : e.wallet = w})

Post ==
    /\ posted \subseteq posted'
    /\ \A d, e \in posted' :
          (d.key = e.key /\ Table(d.wallet) = Table(e.wallet)) => d = e
    /\ \A w \in Wallet : balance'[w] = Total(posted', w) /\ balance'[w] >= 0

Spec == Init /\ [][Post]_<<balance, posted>>
=============================================================================
