------------------------ MODULE PaymentOrder_proofs ------------------------
(***************************************************************************)
(* Proofs about PaymentOrder, for any handlers, providers, transaction ids *)
(* and bounds: what counts as paid was funded, what Stripe was answered    *)
(* 200 for has been applied, and only a write on a stale copy leaves the   *)
(* documented diagram.                                                     *)
(*                                                                         *)
(* The argument: no handler locks or checks the row it writes, so a step   *)
(* is safe because of what its handler knows (HandlersKnow) and because    *)
(* nobody takes back what it knows (Grows).  Moves and StripeMoves sum up  *)
(* what the actions do to the row and at Stripe, with the reason why they  *)
(* may; the rest of the invariant follows from them.                       *)
(***************************************************************************)
EXTENDS PaymentOrder, TLAPS

\* The invariant holds before there is an order.
LEMMA InvInit == Init => IInv
<1> SUFFICES ASSUME Init PROVE IInv
  OBVIOUS
<1> USE DEF Init
<1>1. TypeOK
  BY PaymentAssumption
     DEF TypeOK, Order, Stripe, Op, NoOp, Call, Hooks, HookTypes, EventTypes, Places
<1>2. PaidWasFunded /\ RefundedWasPaidBack /\ AnsweredWasApplied
  BY DEF PaidWasFunded, RefundedWasPaidBack, AnsweredWasApplied
<1>3. RowConsistent /\ StripeTells
  BY DEF RowConsistent, StripeTells
<1>4. HandlersKnow
  BY DEF HandlersKnow, Knows, NoOp, Call
<1> QED BY <1>1, <1>2, <1>3, <1>4 DEF IInv, PaymentSound

-----------------------------------------------------------------------------
(* What the actions do *)

\* To the row, and to the announcement of its payment.
NotAnnounced == "Paid" \in events' => "Paid" \in events
Stays == order' = order /\ NotAnnounced
Created(provider) ==
    /\ order.status = "none"
    /\ order' = [status |-> IF provider = "wallet" THEN "PAID" ELSE "PENDING_PAYMENT",
                 provider |-> provider,
                 intent |-> CASE provider = "stripe" -> "pi"
                              [] provider = "wallet" -> "ledger"
                              [] OTHER               -> "blank",
                 paid_at |-> (provider = "wallet"), refunded_at |-> order.refunded_at]
    /\ "Paid" \in events' => provider = "wallet"
Closed(s) == order.status # "none" /\ order' = [order EXCEPT !.status = s] /\ NotAnnounced
Funded(intent) ==
    /\ order.status # "none"
    /\ order' = [order EXCEPT !.status = "PAID", !.paid_at = TRUE, !.intent = intent]
    /\ \/ order.provider = "stripe" /\ intent = "pi" /\ stripe.intent = "captured"
       \/ order.provider = "blockchain" /\ intent \in Txids /\ chain # {}
PaidBack ==
    /\ order.status # "none"
    /\ order' = [order EXCEPT !.status = "REFUNDED", !.refunded_at = TRUE]
    /\ stripe.refunds > 0
    /\ NotAnnounced
Named(txid) ==
    /\ order.provider = "blockchain"
    /\ order' = [order EXCEPT !.intent = txid]
    /\ NotAnnounced

Moves ==
    \/ Stays
    \/ \E provider \in Providers : Created(provider)
    \/ \E s \in {"CANCELLED", "EXPIRED", "FAILED", "REFUNDING"} : Closed(s)
    \/ \E intent \in Txids \cup {"pi"} : Funded(intent)
    \/ PaidBack
    \/ \E txid \in Txids : Named(txid)

\* At Stripe.
StripeMoves ==
    \/ stripe' = stripe
    \/ stripe' = [stripe EXCEPT !.intent = StripeIntent]
    \/ /\ order.provider = "stripe"
       /\ Len(stripe.issued) < MaxHooks
       /\ \/ stripe' = [stripe EXCEPT !.intent = "captured", !.issued = Issue("succeeded")]
          \/ stripe' = [stripe EXCEPT !.issued = Issue("payment_failed")]
          \/ /\ stripe.refunds < MaxRefunds
             /\ stripe' = [stripe EXCEPT !.refunds = @ + 1, !.issued = Issue("refunded")]

\* The shared parts of the handlers.
LEMMA MarkPaidMoves ==
    ASSUME NEW s, NEW intent \in Txids \cup {"pi"}, MarkPaid(s, intent), order.status # "none",
           \/ order.provider = "stripe" /\ intent = "pi" /\ stripe.intent = "captured"
           \/ order.provider = "blockchain" /\ intent \in Txids /\ chain # {}
    PROVE  Moves
<1>1. CASE s = "PAID"
  BY <1>1 DEF MarkPaid, Moves, Stays, NotAnnounced
<1>2. CASE s # "PAID"
  <2>1. Funded(intent)
    BY <1>2 DEF MarkPaid, Funded
  <2> QED BY <2>1 DEF Moves
<1> QED BY <1>1, <1>2

LEMMA MarkFailedMoves ==
    ASSUME NEW s, MarkFailed(s), order.status # "none"
    PROVE  Moves
<1>1. CASE s \in Terminal
  BY <1>1 DEF MarkFailed, Moves, Stays, NotAnnounced
<1>2. CASE s \notin Terminal
  <2>1. Closed("FAILED")
    BY <1>2 DEF MarkFailed, Closed, NotAnnounced, Emit
  <2> QED BY <2>1 DEF Moves
<1> QED BY <1>1, <1>2

LEMMA CompleteRefundMoves ==
    ASSUME NEW s, CompleteRefund(s), order.status # "none", stripe.refunds > 0
    PROVE  Moves
<1>1. CASE s = "REFUNDED"
  BY <1>1 DEF CompleteRefund, Moves, Stays, NotAnnounced
<1>2. CASE s # "REFUNDED"
  <2>1. PaidBack
    BY <1>2 DEF CompleteRefund, PaidBack, NotAnnounced, Emit
  <2> QED BY <2>1 DEF Moves
<1> QED BY <1>1, <1>2

\* Every step is one of these, with the reason why.
LEMMA MovesStep == IInv /\ [Next]_vars => Moves /\ StripeMoves
<1> SUFFICES ASSUME IInv, [Next]_vars
             PROVE  Moves /\ StripeMoves
  OBVIOUS
<1> USE DEF IInv, PaymentSound
<1>0. \A p \in Procs : Knows(p)
  BY DEF HandlersKnow
<1>a. order \in Order /\ stripe \in Stripe
  BY DEF TypeOK
<1>1. ASSUME NEW p \in Procs, NEW provider \in Providers, LookupKey(p, provider)
      PROVE  Moves /\ StripeMoves
  BY <1>1 DEF LookupKey, Moves, StripeMoves, Stays, NotAnnounced
<1>2. ASSUME NEW p \in Procs, InsertOrder(p)
      PROVE  Moves /\ StripeMoves
  <2>1. op[p].arg \in Providers
    BY <1>0, <1>2 DEF InsertOrder, At, Knows
  <2>2. Created(op[p].arg)
    BY <1>2, <1>a DEF InsertOrder, Created, Order
  <2>3. StripeMoves
    BY <1>2 DEF InsertOrder, StripeMoves
  <2> QED BY <2>1, <2>2, <2>3 DEF Moves
<1>3. ASSUME NEW p \in Procs, InsertFails(p)
      PROVE  Moves /\ StripeMoves
  BY <1>3 DEF InsertFails, Moves, StripeMoves, Stays, NotAnnounced
<1>4. ASSUME NEW p \in Procs, NEW kind \in {"cancel", "expire", "refund"}, Fetch(p, kind)
      PROVE  Moves /\ StripeMoves
  BY <1>4 DEF Fetch, Moves, StripeMoves, Stays, NotAnnounced
<1>5. ASSUME NEW p \in Procs, WriteCancelled(p)
      PROVE  Moves /\ StripeMoves
  <2>1. Closed("CANCELLED")
    BY <1>0, <1>5 DEF WriteCancelled, At, Knows, Open, Closed, NotAnnounced, Emit
  <2> QED BY <1>5, <2>1 DEF WriteCancelled, Moves, StripeMoves
<1>6. ASSUME NEW p \in Procs, WriteExpired(p)
      PROVE  Moves /\ StripeMoves
  <2>1. Closed("EXPIRED")
    BY <1>0, <1>6 DEF WriteExpired, At, Knows, Closed, NotAnnounced, Emit
  <2> QED BY <1>6, <2>1 DEF WriteExpired, Moves, StripeMoves
<1>7. ASSUME NEW p \in Procs, WriteRefunding(p)
      PROVE  Moves /\ StripeMoves
  <2>1. Closed("REFUNDING")
    BY <1>0, <1>7 DEF WriteRefunding, At, Knows, Closed, NotAnnounced, Emit
  <2>2. StripeMoves
    BY <1>7 DEF WriteRefunding, StripeRefunds, StripeMoves
  <2> QED BY <2>1, <2>2 DEF Moves
<1>8. ASSUME NEW p \in Procs, RefundFails(p)
      PROVE  Moves /\ StripeMoves
  BY <1>8 DEF RefundFails, StripeRefunds, Moves, StripeMoves, Stays, NotAnnounced
<1>9. ASSUME NEW p \in Procs, NEW txid \in Txids, FetchVerify(p, txid)
      PROVE  Moves /\ StripeMoves
  BY <1>9 DEF FetchVerify, Moves, StripeMoves, Stays, NotAnnounced
<1>10. ASSUME NEW p \in Procs, SaveTxid(p)
       PROVE  Moves /\ StripeMoves
  <2>1. op[p].arg \in Txids /\ Named(op[p].arg)
    BY <1>0, <1>10 DEF SaveTxid, At, Knows, Named, NotAnnounced
  <2> QED BY <1>10, <2>1 DEF SaveTxid, Moves, StripeMoves
<1>11. ASSUME NEW p \in Procs, WriteVerdict(p)
       PROVE  Moves /\ StripeMoves
  <2>1. /\ order.status # "none" /\ order.provider = "blockchain" /\ op[p].arg \in Txids
        /\ op[p].verdict = "verified" => chain # {}
    BY <1>0, <1>11 DEF WriteVerdict, At, Knows
  <2>2. Moves
    BY <1>11, <2>1, MarkPaidMoves, MarkFailedMoves DEF WriteVerdict
  <2> QED BY <1>11, <2>2 DEF WriteVerdict, StripeMoves
<1>12. ASSUME NEW p \in Procs, NEW h \in Hooks, Receive(p, h)
       PROVE  Moves /\ StripeMoves
  BY <1>12 DEF Receive, Moves, StripeMoves, Stays, NotAnnounced
<1>13. ASSUME NEW p \in Procs, Lookup(p)
       PROVE  Moves /\ StripeMoves
  BY <1>13 DEF Lookup, Moves, StripeMoves, Stays, NotAnnounced
<1>14. ASSUME NEW p \in Procs, ApplyHook(p)
       PROVE  Moves /\ StripeMoves
  <2> DEFINE type == stripe.issued[op[p].hook]
  <2>1. op[p].hook \in DOMAIN stripe.issued /\ order.status # "none"
    BY <1>0, <1>14 DEF ApplyHook, At, Knows
  <2>2. order.provider = "stripe"
    BY <2>1 DEF StripeTells
  <2>3. /\ type = "succeeded" => stripe.intent = "captured"
        /\ type = "refunded" => stripe.refunds > 0
        /\ type \in HookTypes
    BY <2>1, <1>a DEF StripeTells, Stripe
  <2>4. \/ type = "succeeded" /\ MarkPaid(seen[p], "pi")
        \/ type = "payment_failed" /\ MarkFailed(seen[p])
        \/ type = "refunded" /\ CompleteRefund(seen[p])
    BY <1>14 DEF ApplyHook
  <2>5. ASSUME type = "succeeded" /\ MarkPaid(seen[p], "pi")
        PROVE  Moves
    <3>1. stripe.intent = "captured" /\ "pi" \in Txids \cup {"pi"}
      BY <2>3, <2>5
    <3> QED BY <2>1, <2>2, <2>5, <3>1, MarkPaidMoves
  <2>6. ASSUME type = "payment_failed" /\ MarkFailed(seen[p])
        PROVE  Moves
    BY <2>1, <2>6, MarkFailedMoves
  <2>7. ASSUME type = "refunded" /\ CompleteRefund(seen[p])
        PROVE  Moves
    BY <2>1, <2>3, <2>7, CompleteRefundMoves
  <2>8. Moves
    BY <2>4, <2>5, <2>6, <2>7
  <2> QED BY <1>14, <2>8 DEF ApplyHook, StripeMoves
<1>15. ASSUME NEW p \in Procs, Refuse(p)
       PROVE  Moves /\ StripeMoves
  BY <1>15 DEF Refuse, Moves, StripeMoves, Stays, NotAnnounced
<1>16. ASSUME NEW p \in Procs, FlagProcessed(p)
       PROVE  Moves /\ StripeMoves
  BY <1>16 DEF FlagProcessed, Emit, Moves, StripeMoves, Stays, NotAnnounced
<1>17. ASSUME NEW p \in Procs, Crash(p)
       PROVE  Moves /\ StripeMoves
  BY <1>17 DEF Crash, Moves, StripeMoves, Stays, NotAnnounced
<1>18. ASSUME NEW type \in HookTypes, Pay(type)
       PROVE  Moves /\ StripeMoves
  <2>1. order.provider = "stripe"
    BY <1>18 DEF Pay, RowConsistent
  <2>2. StripeMoves
    BY <1>18, <2>1, <1>a DEF Pay, StripeMoves, Stripe
  <2> QED BY <1>18, <2>2 DEF Pay, Moves, Stays, NotAnnounced
<1>19. ASSUME DashboardRefund
       PROVE  Moves /\ StripeMoves
  BY <1>19 DEF DashboardRefund, StripeRefunds, StripeTells, StripeMoves, Moves, Stays, NotAnnounced
<1>20. ASSUME NEW txid \in Txids, Transfer(txid)
       PROVE  Moves /\ StripeMoves
  BY <1>20 DEF Transfer, Moves, StripeMoves, Stays, NotAnnounced
<1>21. CASE UNCHANGED vars
  BY <1>21 DEF vars, Moves, StripeMoves, Stays, NotAnnounced
<1> QED BY <1>1, <1>2, <1>3, <1>4, <1>5, <1>6, <1>7, <1>8, <1>9, <1>10, <1>11, <1>12, <1>13,
           <1>14, <1>15, <1>16, <1>17, <1>18, <1>19, <1>20, <1>21 DEF Next
-----------------------------------------------------------------------------
(* What nobody takes back *)

Grows ==
    /\ order.status # "none" => order'.status # "none" /\ order'.provider = order.provider
    /\ order.status \notin {"none", "PENDING_PAYMENT"} => order'.status # "PENDING_PAYMENT"
    /\ order.paid_at => order'.paid_at
    /\ order.refunded_at => order'.refunded_at
    /\ \A h \in DOMAIN stripe.issued :
          h \in DOMAIN stripe'.issued /\ stripe'.issued[h] = stripe.issued[h]
    /\ stripe.intent = "captured" => stripe'.intent = "captured"
    /\ stripe.refunds > 0 => stripe'.refunds > 0

\* Stripe's record only gets longer.
LEMMA StripeGrows ==
    ASSUME IInv, StripeMoves
    PROVE  /\ stripe' \in Stripe /\ Len(stripe'.issued) <= MaxHooks
           /\ \A h \in DOMAIN stripe.issued :
                 h \in DOMAIN stripe'.issued /\ stripe'.issued[h] = stripe.issued[h]
           /\ stripe.intent = "captured" => stripe'.intent = "captured"
           /\ stripe.refunds > 0 => stripe'.refunds > 0
           /\ \A h \in DOMAIN stripe'.issued :
                /\ stripe'.issued[h] = "succeeded" => stripe'.intent = "captured"
                /\ stripe'.issued[h] = "refunded" => stripe'.refunds > 0
           /\ stripe'.intent = "captured" \/ stripe'.issued # <<>> => order.provider = "stripe"
<1>1. stripe \in Stripe /\ Len(stripe.issued) <= MaxHooks /\ MaxHooks \in Nat /\ MaxRefunds \in Nat
  BY PaymentAssumption DEF IInv, PaymentSound, TypeOK
<1>2. StripeTells
  BY DEF IInv
<1>3. CASE stripe' = stripe
  BY <1>1, <1>2, <1>3 DEF StripeTells
<1>4. CASE stripe' = [stripe EXCEPT !.intent = StripeIntent]
  BY <1>1, <1>2, <1>4 DEF StripeTells, StripeIntent, Stripe
<1>a. ASSUME NEW type \in HookTypes
      PROVE  /\ Issue(type) \in Seq(HookTypes) /\ Len(Issue(type)) = Len(stripe.issued) + 1
             /\ \A h \in DOMAIN stripe.issued :
                   h \in DOMAIN Issue(type) /\ Issue(type)[h] = stripe.issued[h]
             /\ \A h \in DOMAIN Issue(type) :
                   h \in DOMAIN stripe.issued \/ Issue(type)[h] = type
  <2>1. stripe.issued \in Seq(HookTypes)
    BY <1>1 DEF Stripe
  <2> QED BY <2>1 DEF Issue
<1>5. CASE /\ order.provider = "stripe"
           /\ Len(stripe.issued) < MaxHooks
           /\ stripe' = [stripe EXCEPT !.intent = "captured", !.issued = Issue("succeeded")]
  <2>1. /\ stripe'.issued = Issue("succeeded")
        /\ stripe'.intent = "captured" /\ stripe'.refunds = stripe.refunds
        /\ stripe' = [intent |-> "captured", refunds |-> stripe.refunds, issued |-> Issue("succeeded")]
    BY <1>1, <1>2, <1>5 DEF Stripe
  <2>2. \A h \in DOMAIN stripe'.issued :
          \/ h \in DOMAIN stripe.issued /\ stripe'.issued[h] = stripe.issued[h]
          \/ stripe'.issued[h] = "succeeded"
    BY <1>a, <2>1 DEF HookTypes
  <2>3. /\ stripe'.issued \in Seq(HookTypes) /\ Len(stripe'.issued) <= MaxHooks
        /\ \A h \in DOMAIN stripe.issued :
              h \in DOMAIN stripe'.issued /\ stripe'.issued[h] = stripe.issued[h]
    BY <1>1, <1>a, <1>5, <2>1 DEF HookTypes
  <2> QED BY <1>1, <1>2, <1>5, <2>1, <2>2, <2>3 DEF StripeTells, Stripe
<1>6. CASE /\ order.provider = "stripe"
           /\ Len(stripe.issued) < MaxHooks
           /\ stripe' = [stripe EXCEPT !.issued = Issue("payment_failed")]
  <2>1. /\ stripe'.issued = Issue("payment_failed")
        /\ stripe'.intent = stripe.intent /\ stripe'.refunds = stripe.refunds
        /\ stripe' = [intent |-> stripe.intent, refunds |-> stripe.refunds, issued |-> Issue("payment_failed")]
    BY <1>1, <1>2, <1>6 DEF Stripe
  <2>2. \A h \in DOMAIN stripe'.issued :
          \/ h \in DOMAIN stripe.issued /\ stripe'.issued[h] = stripe.issued[h]
          \/ stripe'.issued[h] = "payment_failed"
    BY <1>a, <2>1 DEF HookTypes
  <2>3. /\ stripe'.issued \in Seq(HookTypes) /\ Len(stripe'.issued) <= MaxHooks
        /\ \A h \in DOMAIN stripe.issued :
              h \in DOMAIN stripe'.issued /\ stripe'.issued[h] = stripe.issued[h]
    BY <1>1, <1>a, <1>6, <2>1 DEF HookTypes
  <2> QED BY <1>1, <1>2, <1>6, <2>1, <2>2, <2>3 DEF StripeTells, Stripe
<1>7. CASE /\ order.provider = "stripe"
           /\ Len(stripe.issued) < MaxHooks
           /\ stripe.refunds < MaxRefunds
           /\ stripe' = [stripe EXCEPT !.refunds = @ + 1, !.issued = Issue("refunded")]
  <2>1. /\ stripe'.issued = Issue("refunded")
        /\ stripe'.intent = stripe.intent /\ stripe'.refunds = stripe.refunds + 1
        /\ stripe' = [intent |-> stripe.intent, refunds |-> stripe.refunds + 1, issued |-> Issue("refunded")]
    BY <1>1, <1>2, <1>7 DEF Stripe
  <2>2. \A h \in DOMAIN stripe'.issued :
          \/ h \in DOMAIN stripe.issued /\ stripe'.issued[h] = stripe.issued[h]
          \/ stripe'.issued[h] = "refunded"
    BY <1>a, <2>1 DEF HookTypes
  <2>3. /\ stripe'.issued \in Seq(HookTypes) /\ Len(stripe'.issued) <= MaxHooks
        /\ \A h \in DOMAIN stripe.issued :
              h \in DOMAIN stripe'.issued /\ stripe'.issued[h] = stripe.issued[h]
    BY <1>1, <1>a, <1>7, <2>1 DEF HookTypes
  <2> QED BY <1>1, <1>2, <1>7, <2>1, <2>2, <2>3 DEF StripeTells, Stripe
<1> QED BY <1>3, <1>4, <1>5, <1>6, <1>7 DEF StripeMoves

\* So does the row; what its columns say of each other stays true.
LEMMA RowGrows ==
    ASSUME IInv, Moves, StripeMoves, chain \subseteq chain'
    PROVE  Grows /\ order' \in Order /\ RowConsistent'
           /\ PaidWasFunded' /\ RefundedWasPaidBack'
<1>1. order \in Order /\ RowConsistent /\ PaidWasFunded /\ RefundedWasPaidBack
  BY DEF IInv, PaymentSound, TypeOK
<1>2. /\ \A h \in DOMAIN stripe.issued :
             h \in DOMAIN stripe'.issued /\ stripe'.issued[h] = stripe.issued[h]
      /\ stripe.intent = "captured" => stripe'.intent = "captured"
      /\ stripe.refunds > 0 => stripe'.refunds > 0
  BY StripeGrows
<1>3. /\ {"blank", "pi", "ledger"} \cap Txids = {}
      /\ Providers \subseteq {"stripe", "blockchain", "wallet"}
  BY PaymentAssumption
<1>4. CASE Stays
  BY <1>1, <1>2, <1>4
     DEF Stays, NotAnnounced, Grows, RowConsistent, PaidWasFunded, RefundedWasPaidBack
<1>5. ASSUME NEW provider \in Providers, Created(provider)
      PROVE  Grows /\ order' \in Order /\ RowConsistent'
             /\ PaidWasFunded' /\ RefundedWasPaidBack'
  <2>1. provider \in {"stripe", "blockchain", "wallet"}
    BY <1>3
  <2> QED BY <1>1, <1>2, <1>3, <1>5, <2>1
     DEF Created, Grows, RowConsistent, PaidWasFunded, RefundedWasPaidBack, Order, Statuses,
         Open, Terminal
<1>6. ASSUME NEW s \in {"CANCELLED", "EXPIRED", "FAILED", "REFUNDING"}, Closed(s)
      PROVE  Grows /\ order' \in Order /\ RowConsistent'
             /\ PaidWasFunded' /\ RefundedWasPaidBack'
  BY <1>1, <1>2, <1>6
     DEF Closed, NotAnnounced, Grows, RowConsistent, PaidWasFunded, RefundedWasPaidBack,
         Order, Statuses, Open, Terminal
<1>7. ASSUME NEW intent \in Txids \cup {"pi"}, Funded(intent)
      PROVE  Grows /\ order' \in Order /\ RowConsistent'
             /\ PaidWasFunded' /\ RefundedWasPaidBack'
  BY <1>1, <1>2, <1>3, <1>7
     DEF Funded, Grows, RowConsistent, PaidWasFunded, RefundedWasPaidBack,
         Order, Statuses, Open, Terminal
<1>8. CASE PaidBack
  BY <1>1, <1>2, <1>8
     DEF PaidBack, NotAnnounced, Grows, RowConsistent, PaidWasFunded, RefundedWasPaidBack,
         Order, Statuses, Open, Terminal
<1>9. ASSUME NEW txid \in Txids, Named(txid)
      PROVE  Grows /\ order' \in Order /\ RowConsistent'
             /\ PaidWasFunded' /\ RefundedWasPaidBack'
  BY <1>1, <1>2, <1>3, <1>9
     DEF Named, NotAnnounced, Grows, RowConsistent, PaidWasFunded, RefundedWasPaidBack, Order
<1> QED BY <1>4, <1>5, <1>6, <1>7, <1>8, <1>9 DEF Moves
-----------------------------------------------------------------------------
(* Everything else a step changes *)

Surroundings ==
    /\ chain \subseteq chain' /\ chain' \subseteq Txids
    /\ events' \subseteq EventTypes
    /\ faults' \in 0..MaxFaults

LEMMA EmitTyped ==
    ASSUME TypeOK, NEW type \in EventTypes, Emit(type)
    PROVE  events' \subseteq EventTypes /\ faults' \in 0..MaxFaults
BY PaymentAssumption DEF TypeOK, Emit, Fault

LEMMA SurroundingsStep == IInv /\ [Next]_vars => Surroundings
<1> SUFFICES ASSUME IInv, [Next]_vars
             PROVE  Surroundings
  OBVIOUS
<1>a. /\ TypeOK /\ chain \subseteq Txids /\ events \subseteq EventTypes
      /\ faults \in 0..MaxFaults /\ MaxFaults \in Nat
  BY PaymentAssumption DEF IInv, PaymentSound, TypeOK
<1>b. ASSUME Fault
      PROVE  faults' \in 0..MaxFaults
  BY <1>a, <1>b DEF Fault
<1>c. ASSUME NEW type \in EventTypes, Emit(type)
      PROVE  events' \subseteq EventTypes /\ faults' \in 0..MaxFaults
  BY <1>a, <1>c, EmitTyped
<1>d. {"Paid", "Failed", "Refunded", "Cancelled", "Expired", "RefundInitiated",
        "WebhookReceived"} \subseteq EventTypes
  BY DEF EventTypes
<1>e. ASSUME NEW x, NEW intent, MarkPaid(x, intent)
      PROVE  events' \subseteq EventTypes /\ faults' \in 0..MaxFaults
  BY <1>a, <1>c, <1>d, <1>e DEF MarkPaid
<1>f. ASSUME NEW x, MarkFailed(x) \/ CompleteRefund(x)
      PROVE  events' \subseteq EventTypes /\ faults' \in 0..MaxFaults
  BY <1>a, <1>c, <1>d, <1>f DEF MarkFailed, CompleteRefund
<1>1. ASSUME UNCHANGED <<events, chain, faults>>
      PROVE  Surroundings
  BY <1>a, <1>1 DEF Surroundings
<1>2. ASSUME NEW p \in Procs, InsertOrder(p)
      PROVE  Surroundings
  BY <1>a, <1>b, <1>2 DEF Surroundings, InsertOrder, EventTypes
<1>3. ASSUME NEW p \in Procs, InsertFails(p) \/ RefundFails(p) \/ Crash(p)
      PROVE  Surroundings
  BY <1>a, <1>b, <1>3 DEF Surroundings, InsertFails, RefundFails, Crash
<1>4. ASSUME NEW p \in Procs,
             WriteCancelled(p) \/ WriteExpired(p) \/ WriteRefunding(p) \/ FlagProcessed(p)
      PROVE  Surroundings
  BY <1>a, <1>c, <1>d, <1>4
     DEF Surroundings, WriteCancelled, WriteExpired, WriteRefunding, FlagProcessed
<1>5. ASSUME NEW p \in Procs, WriteVerdict(p) \/ ApplyHook(p)
      PROVE  Surroundings
  <2>1. UNCHANGED chain
    BY <1>5 DEF WriteVerdict, ApplyHook
  <2>2. events' \subseteq EventTypes /\ faults' \in 0..MaxFaults
    BY <1>5, <1>e, <1>f DEF WriteVerdict, ApplyHook
  <2> QED BY <1>a, <2>1, <2>2 DEF Surroundings
<1>6. ASSUME NEW p \in Procs, NEW provider \in Providers, LookupKey(p, provider)
      PROVE  Surroundings
  BY <1>1, <1>6 DEF LookupKey
<1>7. ASSUME NEW p \in Procs, NEW kind \in {"cancel", "expire", "refund"}, Fetch(p, kind)
      PROVE  Surroundings
  BY <1>1, <1>7 DEF Fetch
<1>8. ASSUME NEW p \in Procs, NEW txid \in Txids, FetchVerify(p, txid)
      PROVE  Surroundings
  BY <1>1, <1>8 DEF FetchVerify
<1>9. ASSUME NEW p \in Procs, NEW h \in Hooks, Receive(p, h)
      PROVE  Surroundings
  BY <1>1, <1>9 DEF Receive
<1>10. ASSUME NEW p \in Procs, SaveTxid(p) \/ Lookup(p) \/ Refuse(p)
       PROVE  Surroundings
  BY <1>1, <1>10 DEF SaveTxid, Lookup, Refuse
<1>11. ASSUME NEW type \in HookTypes, Pay(type)
       PROVE  Surroundings
  BY <1>1, <1>11 DEF Pay
<1>12. ASSUME NEW txid \in Txids, Transfer(txid)
       PROVE  Surroundings
  BY <1>a, <1>12 DEF Surroundings, Transfer
<1>13. CASE DashboardRefund \/ UNCHANGED vars
  BY <1>1, <1>13 DEF DashboardRefund, vars
<1> QED BY <1>2, <1>3, <1>4, <1>5, <1>6, <1>7, <1>8, <1>9, <1>10, <1>11, <1>12, <1>13 DEF Next

-----------------------------------------------------------------------------
(* The webhook events *)

HookMoves ==
    \/ hook' = hook
    \/ \E h \in Hooks \cap DOMAIN stripe.issued :
          \/ hook' = [hook EXCEPT ![h] = "received"]
          \/ hook' = [hook EXCEPT ![h] = "processed"] /\ Applied(h)

LEMMA AppliedStays ==
    ASSUME Grows, NEW h \in DOMAIN stripe.issued, Applied(h)
    PROVE  Applied(h)'
BY DEF Grows, Applied

LEMMA HooksStep ==
    ASSUME IInv, Grows, StripeMoves, HookMoves
    PROVE  /\ hook' \in [Hooks -> {"absent", "received", "processed"}]
           /\ AnsweredWasApplied' /\ StripeTells'
<1>1. /\ hook \in [Hooks -> {"absent", "received", "processed"}]
      /\ AnsweredWasApplied /\ StripeTells /\ RowConsistent
      /\ stripe \in Stripe
  BY DEF IInv, PaymentSound, TypeOK
<1>2. \A h \in DOMAIN stripe.issued : Applied(h) => Applied(h)'
  BY AppliedStays
<1>3. \A h \in Hooks : hook[h] # "absent" => h \in DOMAIN stripe.issued
  BY <1>1 DEF StripeTells
<1>4. \A h \in Hooks : hook'[h] # "absent" =>
         h \in DOMAIN stripe.issued /\ (hook'[h] = "processed" => Applied(h))
  BY <1>1, <1>3 DEF HookMoves, AnsweredWasApplied
<1>5. hook' \in [Hooks -> {"absent", "received", "processed"}]
  BY <1>1 DEF HookMoves
<1>6. /\ stripe'.issued \in Seq(HookTypes) /\ Len(stripe'.issued) <= MaxHooks
      /\ \A h \in DOMAIN stripe'.issued :
           /\ stripe'.issued[h] = "succeeded" => stripe'.intent = "captured"
           /\ stripe'.issued[h] = "refunded" => stripe'.refunds > 0
      /\ stripe'.intent = "captured" \/ stripe'.issued # <<>> => order.provider = "stripe"
  BY StripeGrows DEF Stripe
<1>7. DOMAIN stripe'.issued \subseteq Hooks
  BY <1>6, PaymentAssumption DEF Hooks
<1>8. AnsweredWasApplied'
  BY <1>2, <1>4, <1>7 DEF AnsweredWasApplied
<1>9. stripe'.intent = "captured" \/ stripe'.issued # <<>> => order'.provider = "stripe"
  BY <1>1, <1>6 DEF Grows, RowConsistent
<1>10. \A h \in Hooks : hook'[h] # "absent" => h \in DOMAIN stripe'.issued
  BY <1>4 DEF Grows
<1>11. StripeTells'
  BY <1>6, <1>9, <1>10 DEF StripeTells, Hooks
<1> QED BY <1>5, <1>8, <1>11
-----------------------------------------------------------------------------
(* The handlers *)

HandlersTyped ==
    /\ pc \in [Procs -> Places]
    /\ op \in [Procs -> Op]
    /\ seen \in [Procs -> Statuses \cup {"none"}]

\* What a handler knows stays true as long as it does nothing.
LEMMA KnowsStays ==
    ASSUME IInv, Grows, NEW p \in Procs, chain \subseteq chain',
           pc'[p] = pc[p], op'[p] = op[p], seen'[p] = seen[p]
    PROVE  Knows(p)'
<1>1. Knows(p) /\ RowConsistent /\ chain \subseteq Txids
  BY DEF IInv, HandlersKnow, PaymentSound, TypeOK
<1>2. pc[p] = "flag" => op[p].hook \in DOMAIN stripe.issued /\ Applied(op[p].hook)'
  <2>1. pc[p] = "flag" => op[p].hook \in DOMAIN stripe.issued /\ Applied(op[p].hook)
    BY <1>1 DEF Knows
  <2>2. pc[p] = "flag" => Applied(op[p].hook)'
    BY <2>1, AppliedStays
  <2> QED BY <2>1, <2>2
<1> QED BY <1>1, <1>2 DEF Knows, Grows, RowConsistent, Applied

\* One handler takes a step and knows what it must: so do the others.
LEMMA OneHandlerSteps ==
    ASSUME IInv, Grows, chain \subseteq chain', NEW p \in Procs,
           NEW where \in Places, NEW o \in Op, NEW s \in Statuses \cup {"none"},
           pc' = [pc EXCEPT ![p] = where],
           op' = [op EXCEPT ![p] = o],
           seen' = [seen EXCEPT ![p] = s],
           Knows(p)'
    PROVE  HandlersTyped' /\ HandlersKnow'
<1>1. HandlersTyped
  BY DEF IInv, PaymentSound, TypeOK, HandlersTyped
<1>2. HandlersTyped'
  BY <1>1 DEF HandlersTyped
<1>3. ASSUME NEW q \in Procs, q # p
      PROVE  Knows(q)'
  BY <1>1, <1>3, KnowsStays DEF HandlersTyped
<1> QED BY <1>2, <1>3 DEF HandlersKnow

LEMMA NobodySteps ==
    ASSUME IInv, Grows, chain \subseteq chain', UNCHANGED <<pc, op, seen>>
    PROVE  HandlersTyped' /\ HandlersKnow'
<1>1. HandlersTyped'
  BY DEF IInv, PaymentSound, TypeOK, HandlersTyped
<1>2. \A p \in Procs : Knows(p)'
  BY KnowsStays
<1> QED BY <1>1, <1>2 DEF HandlersKnow

LEMMA NoOpTyped == NoOp \in Op
BY PaymentAssumption DEF NoOp, Call, Op

\* A handler that has returned knows nothing.
LEMMA ReturnKnows ==
    ASSUME IInv, Grows, chain \subseteq chain', NEW p \in Procs, Return(p)
    PROVE  HandlersTyped' /\ HandlersKnow'
<1>1. HandlersTyped
  BY DEF IInv, PaymentSound, TypeOK, HandlersTyped
<1>2. /\ pc' = [pc EXCEPT ![p] = "idle"]
      /\ op' = [op EXCEPT ![p] = NoOp]
      /\ seen' = [seen EXCEPT ![p] = "none"]
  BY DEF Return, Goto
<1>3. pc'[p] = "idle" /\ op'[p] = NoOp /\ seen'[p] = "none"
  BY <1>1, <1>2 DEF HandlersTyped
<1>4. Knows(p)'
  BY <1>3 DEF Knows, NoOp, Call
<1>5. "idle" \in Places /\ "none" \in Statuses \cup {"none"}
  BY DEF Places
<1> QED BY <1>2, <1>4, <1>5, NoOpTyped, OneHandlerSteps
Handled == HandlersTyped' /\ HandlersKnow' /\ HookMoves

LEMMA HandlersStep ==
    ASSUME IInv, [Next]_vars, Grows, chain \subseteq chain'
    PROVE  Handled
<1>a. /\ HandlersTyped /\ order \in Order /\ stripe \in Stripe
      /\ RowConsistent /\ StripeTells /\ chain \subseteq Txids
  BY DEF IInv, PaymentSound, TypeOK, HandlersTyped
<1>b. \A p \in Procs : Knows(p)
  BY DEF IInv, HandlersKnow
<1>1. ASSUME NEW p \in Procs, NEW provider \in Providers, LookupKey(p, provider)
      PROVE  Handled
  <2>1. /\ pc' = [pc EXCEPT ![p] = "insert"]
        /\ op' = [op EXCEPT ![p] = Call("create", provider, 0, "blank")]
        /\ seen' = [seen EXCEPT ![p] = seen[p]]
    BY <1>1, <1>a DEF LookupKey, Start, At, Goto, Call, HandlersTyped
  <2>2. Call("create", provider, 0, "blank") \in Op
    BY <1>1, PaymentAssumption DEF Call, Op, Hooks
  <2>3. pc'[p] = "insert" /\ op'[p] = Call("create", provider, 0, "blank") /\ seen'[p] = seen[p]
    BY <1>a, <2>1 DEF HandlersTyped
  <2>4. Knows(p)'
    BY <1>1, <1>a, <1>b, <2>3 DEF LookupKey, Call, Knows, Grows, RowConsistent, Open
  <2>5. HookMoves
    BY <1>1 DEF LookupKey, HookMoves
  <2>6. "insert" \in Places /\ seen[p] \in Statuses \cup {"none"}
    BY <1>a DEF Places, HandlersTyped, Order
  <2> QED BY <2>1, <2>2, <2>4, <2>5, <2>6, OneHandlerSteps DEF Handled
<1>2. ASSUME NEW p \in Procs, NEW kind \in {"cancel", "expire", "refund"}, Fetch(p, kind)
      PROVE  Handled
  <2>1. /\ pc' = [pc EXCEPT ![p] = "write"]
        /\ op' = [op EXCEPT ![p] = Call(kind, "blank", 0, "blank")]
        /\ seen' = [seen EXCEPT ![p] = order.status]
    BY <1>2, <1>a DEF Fetch, Start, At, Goto, Call, HandlersTyped
  <2>2. Call(kind, "blank", 0, "blank") \in Op
    BY <1>2, PaymentAssumption DEF Call, Op, Hooks
  <2>3. pc'[p] = "write" /\ op'[p] = Call(kind, "blank", 0, "blank") /\ seen'[p] = order.status
    BY <1>a, <2>1 DEF HandlersTyped
  <2>4. Knows(p)'
    BY <1>2, <1>a, <1>b, <2>3 DEF Fetch, Call, Knows, Grows, RowConsistent, Open
  <2>5. HookMoves
    BY <1>2 DEF Fetch, HookMoves
  <2>6. "write" \in Places /\ order.status \in Statuses \cup {"none"}
    BY <1>a DEF Places, HandlersTyped, Order
  <2> QED BY <2>1, <2>2, <2>4, <2>5, <2>6, OneHandlerSteps DEF Handled
<1>3. ASSUME NEW p \in Procs, NEW txid \in Txids, FetchVerify(p, txid)
      PROVE  Handled
  <2>0. PICK verdict \in {"pending", "rejected", "verified"} :
          /\ Start(p, Call("verify", txid, 0, verdict), "txid")
          /\ verdict = "verified" => txid \in chain
    BY <1>3 DEF FetchVerify
  <2>1. /\ pc' = [pc EXCEPT ![p] = "txid"]
        /\ op' = [op EXCEPT ![p] = Call("verify", txid, 0, verdict)]
        /\ seen' = [seen EXCEPT ![p] = order.status]
    BY <1>3, <2>0, <1>a DEF FetchVerify, Start, At, Goto, Call, HandlersTyped
  <2>2. Call("verify", txid, 0, verdict) \in Op
    BY <1>3, <2>0, PaymentAssumption DEF Call, Op, Hooks
  <2>3. pc'[p] = "txid" /\ op'[p] = Call("verify", txid, 0, verdict) /\ seen'[p] = order.status
    BY <1>a, <2>1 DEF HandlersTyped
  <2>4. Knows(p)'
    BY <1>3, <2>0, <1>a, <1>b, <2>3 DEF FetchVerify, Call, Knows, Grows, RowConsistent, Open
  <2>5. HookMoves
    BY <1>3 DEF FetchVerify, HookMoves
  <2>6. "txid" \in Places /\ order.status \in Statuses \cup {"none"}
    BY <1>a DEF Places, HandlersTyped, Order
  <2> QED BY <2>1, <2>2, <2>4, <2>5, <2>6, OneHandlerSteps DEF Handled
<1>4. ASSUME NEW p \in Procs, NEW h \in Hooks, Receive(p, h)
      PROVE  Handled
  <2>1. /\ pc' = [pc EXCEPT ![p] = "lookup"]
        /\ op' = [op EXCEPT ![p] = Call("hook", "blank", h, "blank")]
        /\ seen' = [seen EXCEPT ![p] = seen[p]]
    BY <1>4, <1>a DEF Receive, Start, At, Goto, Call, HandlersTyped
  <2>2. Call("hook", "blank", h, "blank") \in Op
    BY <1>4, PaymentAssumption DEF Call, Op, Hooks
  <2>3. pc'[p] = "lookup" /\ op'[p] = Call("hook", "blank", h, "blank") /\ seen'[p] = seen[p]
    BY <1>a, <2>1 DEF HandlersTyped
  <2>4. Knows(p)'
    BY <1>4, <1>a, <1>b, <2>3 DEF Receive, Call, Knows, Grows, RowConsistent, Open
  <2>5. HookMoves
    BY <1>4 DEF Receive, HookMoves
  <2>6. "lookup" \in Places /\ seen[p] \in Statuses \cup {"none"}
    BY <1>a DEF Places, HandlersTyped, Order
  <2> QED BY <2>1, <2>2, <2>4, <2>5, <2>6, OneHandlerSteps DEF Handled
<1>5. ASSUME NEW p \in Procs, WriteCancelled(p) \/ WriteExpired(p) \/ WriteRefunding(p) \/ RefundFails(p)
      PROVE  Handled
  BY <1>5, ReturnKnows DEF Handled, HookMoves, WriteCancelled, WriteExpired, WriteRefunding, RefundFails
<1>6. ASSUME NEW p \in Procs, InsertOrder(p) \/ InsertFails(p)
      PROVE  Handled
  BY <1>6, ReturnKnows DEF Handled, HookMoves, InsertOrder, InsertFails
<1>7. ASSUME NEW p \in Procs, WriteVerdict(p) \/ Refuse(p) \/ Crash(p)
      PROVE  Handled
  BY <1>7, ReturnKnows DEF Handled, HookMoves, WriteVerdict, Refuse, Crash
<1>8. ASSUME NEW p \in Procs, FlagProcessed(p)
      PROVE  Handled
  <2>1. op[p].hook \in DOMAIN stripe.issued /\ Applied(op[p].hook)
    BY <1>8, <1>b DEF FlagProcessed, At, Knows
  <2>2. op[p].hook \in Hooks
    BY <2>1, PaymentAssumption DEF IInv, PaymentSound, TypeOK, Stripe, Hooks
  <2>3. HookMoves
    BY <1>8, <2>1, <2>2 DEF FlagProcessed, HookMoves
  <2> QED BY <1>8, <2>3, ReturnKnows DEF Handled, FlagProcessed
<1>9. ASSUME NEW p \in Procs, SaveTxid(p)
      PROVE  Handled
  <2>1. CASE Return(p)
    BY <1>9, <2>1, ReturnKnows DEF Handled, HookMoves, SaveTxid
  <2>2. CASE Goto(p, "write") /\ UNCHANGED <<op, seen>>
    <3>1. /\ pc' = [pc EXCEPT ![p] = "write"]
          /\ op' = [op EXCEPT ![p] = op[p]]
          /\ seen' = [seen EXCEPT ![p] = seen[p]]
      BY <1>a, <2>2 DEF Goto, HandlersTyped
    <3>2. pc'[p] = "write" /\ op'[p] = op[p] /\ seen'[p] = seen[p]
      BY <1>a, <3>1 DEF HandlersTyped
    <3>3. Knows(p)'
      BY <1>9, <1>a, <1>b, <3>2 DEF SaveTxid, At, Knows, Grows, RowConsistent
    <3>4. "write" \in Places /\ op[p] \in Op /\ seen[p] \in Statuses \cup {"none"}
      BY <1>a DEF Places, HandlersTyped
    <3> QED BY <1>9, <3>1, <3>3, <3>4, OneHandlerSteps DEF Handled, HookMoves, SaveTxid
  <2> QED BY <1>9, <2>1, <2>2 DEF SaveTxid
<1>10. ASSUME NEW p \in Procs, Lookup(p)
       PROVE  Handled
  <2>1. op[p].kind = "hook" /\ op[p].hook \in DOMAIN stripe.issued
    BY <1>10, <1>b DEF Lookup, At, Knows
  <2>2. order.provider = "stripe" /\ order.intent = "pi" /\ order.status # "none"
    BY <1>a, <2>1 DEF StripeTells, RowConsistent
  <2>3. /\ pc' = [pc EXCEPT ![p] = "write"]
        /\ op' = [op EXCEPT ![p] = op[p]]
        /\ seen' = [seen EXCEPT ![p] = order.status]
    BY <1>10, <1>a, <2>2 DEF Lookup, Goto, HandlersTyped
  <2>4. pc'[p] = "write" /\ op'[p] = op[p] /\ seen'[p] = order.status
    BY <1>a, <2>3 DEF HandlersTyped
  <2>5. Knows(p)'
    BY <1>a, <2>1, <2>2, <2>4 DEF Knows, Grows, RowConsistent
  <2>6. "write" \in Places /\ op[p] \in Op /\ order.status \in Statuses \cup {"none"}
    BY <1>a DEF Places, HandlersTyped, Order
  <2> QED BY <1>10, <2>3, <2>5, <2>6, OneHandlerSteps DEF Handled, HookMoves, Lookup
<1>11. ASSUME NEW p \in Procs, ApplyHook(p)
       PROVE  Handled
  <2>1. op[p].kind = "hook" /\ op[p].hook \in DOMAIN stripe.issued /\ order.status # "none"
    BY <1>11, <1>b DEF ApplyHook, At, Knows
  <2>2. Applied(op[p].hook)'
    <3>1. stripe' = stripe
      BY <1>11 DEF ApplyHook
    <3>2. ASSUME stripe.issued[op[p].hook] = "succeeded", MarkPaid(seen[p], "pi")
          PROVE  order'.paid_at
      BY <1>a, <1>b, <3>2 DEF MarkPaid, Knows, Grows, Order
    <3>3. ASSUME stripe.issued[op[p].hook] = "payment_failed", MarkFailed(seen[p])
          PROVE  order'.status \notin {"none", "PENDING_PAYMENT"}
      BY <1>a, <1>b, <2>1, <3>3 DEF MarkFailed, Knows, Grows, Order, Terminal
    <3>4. ASSUME stripe.issued[op[p].hook] = "refunded", CompleteRefund(seen[p])
          PROVE  order'.refunded_at
      BY <1>a, <1>b, <3>4 DEF CompleteRefund, Knows, Grows, Order
    <3> QED BY <1>11, <3>1, <3>2, <3>3, <3>4 DEF ApplyHook, Applied
  <2>3. /\ pc' = [pc EXCEPT ![p] = "flag"]
        /\ op' = [op EXCEPT ![p] = op[p]]
        /\ seen' = [seen EXCEPT ![p] = seen[p]]
    BY <1>11, <1>a DEF ApplyHook, Goto, HandlersTyped
  <2>4. pc'[p] = "flag" /\ op'[p] = op[p] /\ seen'[p] = seen[p]
    BY <1>a, <2>3 DEF HandlersTyped
  <2>5. Knows(p)'
    BY <1>b, <2>1, <2>2, <2>4 DEF Knows, Grows
  <2>6. "flag" \in Places /\ op[p] \in Op /\ seen[p] \in Statuses \cup {"none"}
    BY <1>a DEF Places, HandlersTyped
  <2> QED BY <1>11, <2>3, <2>5, <2>6, OneHandlerSteps DEF Handled, HookMoves, ApplyHook
<1>12. ASSUME UNCHANGED <<pc, op, seen, hook>>
       PROVE  Handled
  BY <1>12, NobodySteps DEF Handled, HookMoves
<1>13. ASSUME NEW type \in HookTypes, Pay(type)
       PROVE  Handled
  BY <1>12, <1>13 DEF Pay
<1>14. ASSUME NEW txid \in Txids, Transfer(txid)
       PROVE  Handled
  BY <1>12, <1>14 DEF Transfer
<1>15. CASE DashboardRefund \/ UNCHANGED vars
  BY <1>12, <1>15 DEF DashboardRefund, vars
<1> QED BY <1>1, <1>2, <1>3, <1>4, <1>5, <1>6, <1>7, <1>8, <1>9, <1>10, <1>11, <1>13, <1>14,
           <1>15 DEF Next

-----------------------------------------------------------------------------
(* The theorems *)

\* The invariant is inductive.
LEMMA InvStep == IInv /\ [Next]_vars => IInv'
<1> SUFFICES ASSUME IInv, [Next]_vars
             PROVE  IInv'
  OBVIOUS
<1>1. Moves /\ StripeMoves
  BY MovesStep
<1>2. Surroundings
  BY SurroundingsStep
<1>3. Grows /\ order' \in Order /\ RowConsistent' /\ PaidWasFunded' /\ RefundedWasPaidBack'
  BY <1>1, <1>2, RowGrows DEF Surroundings
<1>4. HandlersTyped' /\ HandlersKnow' /\ HookMoves
  BY <1>2, <1>3, HandlersStep DEF Surroundings, Handled
<1>5. /\ hook' \in [Hooks -> {"absent", "received", "processed"}]
      /\ AnsweredWasApplied' /\ StripeTells'
  BY <1>1, <1>3, <1>4, HooksStep
<1>6. stripe' \in Stripe /\ Len(stripe'.issued) <= MaxHooks
  BY <1>1, StripeGrows
<1>7. TypeOK'
  BY <1>2, <1>3, <1>4, <1>5, <1>6 DEF TypeOK, Surroundings, HandlersTyped
<1> QED BY <1>3, <1>4, <1>5, <1>7 DEF IInv, PaymentSound

LEMMA AlwaysInv == Spec => []IInv
BY InvInit, InvStep, PTL DEF Spec

\* Whatever buyers, admins, the expiry job and Stripe do, and in whatever order, an
\* order counts as paid only when the money is there, and as refunded only when Stripe
\* paid something back (payments/services.py: _mark_paid, _complete_refund).
THEOREM PaymentsAreSound == Spec => []PaymentSound
<1>1. IInv => PaymentSound
  BY DEF IInv
<1> QED BY <1>1, AlwaysInv, PTL

\* No webhook event that was answered with 200 was lost (handle_stripe_webhook).
THEOREM NoAnsweredEventIsLost == Spec => []AnsweredWasApplied
<1>1. IInv => AnsweredWasApplied
  BY DEF IInv
<1> QED BY <1>1, AlwaysInv, PTL
Drawn == <<order.status, order'.status>> \in Documented
Stale == \E p \in Procs : pc[p] = "write" /\ pc'[p] # "write" /\ seen[p] # order.status

\* A write moves the row as drawn when the copy it was decided on is still true.
LEMMA WriteIsDrawn ==
    ASSUME IInv, NEW p \in Procs, pc[p] = "write", seen[p] = order.status,
           \/ seen[p] \in Open /\ order'.status = "CANCELLED"
           \/ seen[p] = "PENDING_PAYMENT" /\ order'.status = "EXPIRED"
           \/ seen[p] = "PAID" /\ order'.status = "REFUNDING"
           \/ \E intent : MarkPaid(seen[p], intent)
           \/ MarkFailed(seen[p])
           \/ CompleteRefund(seen[p])
    PROVE  Drawn \/ order'.status = order.status
<1>1. order \in Order /\ seen[p] # "none"
  BY DEF IInv, PaymentSound, TypeOK, HandlersKnow, Knows
<1>2. order.status \in Statuses
  BY <1>1 DEF Order
<1>3. ASSUME NEW intent, MarkPaid(seen[p], intent)
      PROVE  Drawn \/ order'.status = order.status
  BY <1>1, <1>3 DEF MarkPaid, Drawn, Documented, Open, Order
<1>4. CASE MarkFailed(seen[p])
  BY <1>1, <1>2, <1>4 DEF MarkFailed, Drawn, Documented, Open, Order, Statuses, Terminal
<1>5. CASE CompleteRefund(seen[p])
  BY <1>1, <1>2, <1>5 DEF CompleteRefund, Drawn, Documented, Order
<1>6. CASE \/ seen[p] \in Open /\ order'.status = "CANCELLED"
           \/ seen[p] = "PENDING_PAYMENT" /\ order'.status = "EXPIRED"
           \/ seen[p] = "PAID" /\ order'.status = "REFUNDING"
  BY <1>1, <1>6 DEF Drawn, Documented, Open
<1> QED BY <1>3, <1>4, <1>5, <1>6

LEMMA FreshStep ==
    ASSUME IInv, [Next]_vars, order'.status # order.status
    PROVE  Drawn \/ Stale
<1>a. /\ order \in Order /\ pc \in [Procs -> Places]
      /\ Providers \subseteq {"stripe", "blockchain", "wallet"}
  BY PaymentAssumption DEF IInv, PaymentSound, TypeOK
<1>b. \A p \in Procs : Knows(p)
  BY DEF IInv, HandlersKnow
<1>c. ASSUME NEW p \in Procs, pc[p] = "write", pc'[p] # "write",
             \/ seen[p] \in Open /\ order'.status = "CANCELLED"
             \/ seen[p] = "PENDING_PAYMENT" /\ order'.status = "EXPIRED"
             \/ seen[p] = "PAID" /\ order'.status = "REFUNDING"
             \/ \E intent : MarkPaid(seen[p], intent)
             \/ MarkFailed(seen[p])
             \/ CompleteRefund(seen[p])
      PROVE  Drawn \/ Stale
  <2>1. CASE seen[p] = order.status
    BY <1>c, <2>1, WriteIsDrawn
  <2>2. CASE seen[p] # order.status
    BY <1>c, <2>2 DEF Stale
  <2> QED BY <2>1, <2>2
<1>1. ASSUME NEW p \in Procs, InsertOrder(p)
      PROVE  Drawn \/ Stale
  <2>1. /\ order.status = "none"
        /\ order'.status \in {"PAID", "PENDING_PAYMENT"}
    BY <1>1, <1>a DEF InsertOrder, Order
  <2> QED BY <2>1 DEF Drawn, Documented
<1>2. ASSUME NEW p \in Procs, WriteCancelled(p)
      PROVE  Drawn \/ Stale
  <2>1. pc[p] = "write" /\ pc'[p] # "write" /\ seen[p] \in Open /\ order'.status = "CANCELLED"
    BY <1>2, <1>a, <1>b DEF WriteCancelled, At, Knows, Return, Goto, Order
  <2> QED BY <2>1, <1>c
<1>3. ASSUME NEW p \in Procs, WriteExpired(p)
      PROVE  Drawn \/ Stale
  <2>1. /\ pc[p] = "write" /\ pc'[p] # "write"
        /\ seen[p] = "PENDING_PAYMENT" /\ order'.status = "EXPIRED"
    BY <1>3, <1>a, <1>b DEF WriteExpired, At, Knows, Return, Goto, Order
  <2> QED BY <2>1, <1>c
<1>4. ASSUME NEW p \in Procs, WriteRefunding(p)
      PROVE  Drawn \/ Stale
  <2>1. pc[p] = "write" /\ pc'[p] # "write" /\ seen[p] = "PAID" /\ order'.status = "REFUNDING"
    BY <1>4, <1>a, <1>b DEF WriteRefunding, At, Knows, Return, Goto, Order
  <2> QED BY <2>1, <1>c
<1>5. ASSUME NEW p \in Procs, WriteVerdict(p)
      PROVE  Drawn \/ Stale
  <2>1. pc[p] = "write" /\ pc'[p] # "write"
    BY <1>5, <1>a DEF WriteVerdict, At, Return, Goto
  <2>2. MarkPaid(seen[p], op[p].arg) \/ MarkFailed(seen[p])
    BY <1>5 DEF WriteVerdict
  <2> QED BY <2>1, <2>2, <1>c
<1>6. ASSUME NEW p \in Procs, ApplyHook(p)
      PROVE  Drawn \/ Stale
  <2>1. pc[p] = "write" /\ pc'[p] # "write"
    BY <1>6, <1>a DEF ApplyHook, At, Goto
  <2>2. MarkPaid(seen[p], "pi") \/ MarkFailed(seen[p]) \/ CompleteRefund(seen[p])
    BY <1>6 DEF ApplyHook
  <2> QED BY <2>1, <2>2, <1>c
<1>7. ASSUME NEW p \in Procs, SaveTxid(p)
      PROVE  FALSE
  BY <1>7, <1>a DEF SaveTxid, Order
<1>8. ASSUME NEW p \in Procs, NEW provider \in Providers, LookupKey(p, provider)
      PROVE  FALSE
  BY <1>8 DEF LookupKey
<1>9. ASSUME NEW p \in Procs, NEW kind \in {"cancel", "expire", "refund"}, Fetch(p, kind)
      PROVE  FALSE
  BY <1>9 DEF Fetch
<1>10. ASSUME NEW p \in Procs, NEW txid \in Txids, FetchVerify(p, txid)
       PROVE  FALSE
  BY <1>10 DEF FetchVerify
<1>11. ASSUME NEW p \in Procs, NEW h \in Hooks, Receive(p, h)
       PROVE  FALSE
  BY <1>11 DEF Receive
<1>12. ASSUME NEW p \in Procs,
              \/ InsertFails(p) \/ RefundFails(p) \/ Lookup(p) \/ Refuse(p)
              \/ FlagProcessed(p) \/ Crash(p)
       PROVE  FALSE
  BY <1>12 DEF InsertFails, RefundFails, Lookup, Refuse, FlagProcessed, Crash
<1>13. ASSUME NEW type \in HookTypes, Pay(type)
       PROVE  FALSE
  BY <1>13 DEF Pay
<1>14. ASSUME NEW txid \in Txids, Transfer(txid)
       PROVE  FALSE
  BY <1>14 DEF Transfer
<1>15. CASE DashboardRefund \/ UNCHANGED vars
  BY <1>15 DEF DashboardRefund, vars
<1> QED BY <1>1, <1>2, <1>3, <1>4, <1>5, <1>6, <1>7, <1>8, <1>9, <1>10, <1>11, <1>12, <1>13,
           <1>14, <1>15 DEF Next

\* The order's status follows the arrows of the documents except by the write of a
\* handler whose copy was stale (cancel_order, expire_due_orders, initiate_refund,
\* verify_order, handle_stripe_webhook).
THEOREM FreshWritesAreDrawn == Spec => FreshWritesKeepToDiagram
<1>1. IInv /\ [Next]_vars => [order'.status # order.status => Drawn \/ Stale]_vars
  BY FreshStep
<1>2. [order'.status # order.status => Drawn \/ Stale]_vars
      => [ order'.status # order.status =>
          \/ <<order.status, order'.status>> \in Documented
          \/ \E p \in Procs : /\ pc[p] = "write" /\ pc'[p] # "write"
                              /\ seen[p] # order.status ]_vars
  BY DEF Drawn, Stale
<1> QED BY <1>1, <1>2, AlwaysInv, PTL DEF Spec, FreshWritesKeepToDiagram
=============================================================================
