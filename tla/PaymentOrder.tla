---------------------------- MODULE PaymentOrder ----------------------------
(***************************************************************************)
(* One payment order of apps/payments and everything that writes to it:    *)
(* creation under an idempotency key, the user's cancel and verify-now,    *)
(* the expiry job, the refund, and Stripe's webhooks, which arrive late,   *)
(* twice and in any order.                                                 *)
(*                                                                         *)
(* No handler locks the order: it reads the row in one statement, decides  *)
(* on that copy (seen), and writes the columns it means to change in a     *)
(* later transaction, whatever the row holds by then.  The columns that no *)
(* handler decides on (last_error, refund_reason) and the audit entries,   *)
(* written with the order, are left out.                                   *)
(***************************************************************************)
EXTENDS Integers, Sequences

CONSTANTS Procs,        \* request threads and jobs
          Providers,    \* the payment providers the caller may choose
          Txids,        \* the transaction ids a user may submit
          MaxHooks,     \* bound on the webhook events Stripe issues
          MaxRefunds,   \* refunds Stripe accepts for one charge
          MaxFaults     \* bound on crashes, rollbacks and lost emissions

ASSUME PaymentAssumption ==
    /\ Providers \subseteq {"stripe", "blockchain", "wallet"}
    /\ {"blank", "pi", "ledger"} \cap Txids = {}
    /\ MaxHooks \in Nat
    /\ MaxRefunds \in Nat
    /\ MaxFaults \in Nat

VARIABLES order,     \* the committed row; status "none" before it exists
          events,    \* the event types in the outbox: one row each per order
          hook,      \* the WebhookEvent row of each id
          stripe,    \* outside: the payment intent and the webhook events issued
          chain,     \* outside: the txids whose transfer the backend confirms
          pc, op, seen, faults

vars == <<order, events, hook, stripe, chain, pc, op, seen, faults>>

Hooks == 1..MaxHooks      \* the ids of the webhook events

Open == {"PENDING_PAYMENT", "AUTHORIZED"}
Terminal == {"PAID", "FAILED", "EXPIRED", "REFUNDED", "CANCELLED"}
Statuses == Open \cup Terminal \cup {"REFUNDING"}

HookTypes == {"succeeded", "payment_failed", "refunded"}

\* What a thread is at: the operation, the provider or txid it was called with, the
\* webhook event it handles, the verdict on the txid.
Call(kind, arg, h, verdict) == [kind |-> kind, arg |-> arg, hook |-> h, verdict |-> verdict]
NoOp == Call("none", "blank", 0, "blank")

Order == [status : Statuses \cup {"none"}, provider : Providers \cup {"none"},
          intent : Txids \cup {"blank", "pi", "ledger"},
          paid_at : BOOLEAN, refunded_at : BOOLEAN]
Stripe == [intent : {"none", "open", "captured"}, refunds : 0..MaxRefunds,
           issued : Seq(HookTypes)]
Op == [kind : {"none", "create", "cancel", "expire", "refund", "hook", "verify"},
       arg : Txids \cup Providers \cup {"blank"}, hook : 0..MaxHooks,
       verdict : {"blank", "verified", "pending", "rejected"}]

EventTypes == {"Created", "Paid", "Failed", "Cancelled", "Expired",
               "RefundInitiated", "Refunded", "WebhookReceived"}
Places == {"idle", "insert", "write", "lookup", "flag", "txid"}

TypeOK ==
    /\ order \in Order
    /\ events \subseteq EventTypes
    /\ hook \in [Hooks -> {"absent", "received", "processed"}]
    /\ stripe \in Stripe
    /\ Len(stripe.issued) <= MaxHooks
    /\ chain \subseteq Txids
    /\ pc \in [Procs -> Places]
    /\ op \in [Procs -> Op]
    /\ seen \in [Procs -> Statuses \cup {"none"}]
    /\ faults \in 0..MaxFaults

Init ==
    /\ order = [status |-> "none", provider |-> "none", intent |-> "blank",
                paid_at |-> FALSE, refunded_at |-> FALSE]
    /\ events = {}
    /\ hook = [h \in Hooks |-> "absent"]
    /\ stripe = [intent |-> "none", refunds |-> 0, issued |-> <<>>]
    /\ chain = {}
    /\ pc = [p \in Procs |-> "idle"]
    /\ op = [p \in Procs |-> NoOp]
    /\ seen = [p \in Procs |-> "none"]
    /\ faults = 0

-----------------------------------------------------------------------------
(* Steps the handlers share *)

Fault == faults < MaxFaults /\ faults' = faults + 1

\* _emit: the outbox has one row per event type of an order; a second one, or
\* any failure, is swallowed.
Emit(type) ==
    \/ events' = events \cup {type} /\ UNCHANGED faults
    \/ Fault /\ UNCHANGED events

Goto(p, where) == pc' = [pc EXCEPT ![p] = where]

Return(p) ==
    /\ Goto(p, "idle")
    /\ op' = [op EXCEPT ![p] = NoOp]
    /\ seen' = [seen EXCEPT ![p] = "none"]

Start(p, o, where) ==
    /\ pc[p] = "idle"
    /\ op' = [op EXCEPT ![p] = o]
    /\ Goto(p, where)

At(p, where, kind) == pc[p] = where /\ op[p].kind = kind

\* Defect: any order can be paid.
MarkPaidAnyStatus(s, intent) ==
    IF s = "PAID" THEN UNCHANGED <<order, events, faults>>
    ELSE /\ order' = [order EXCEPT !.status = "PAID", !.paid_at = TRUE, !.intent = intent]
         /\ Emit("Paid")

\* _mark_paid, deciding on the copy that was read.
MarkPaid(s, intent) ==
    IF s = "PAID" THEN UNCHANGED <<order, events, faults>>
    ELSE /\ s \in Open
         /\ order' = [order EXCEPT !.status = "PAID", !.paid_at = TRUE,
                                   !.intent = intent]
         /\ Emit("Paid")

\* _mark_failed: REFUNDING is not among Order.TERMINAL.
MarkFailed(s) ==
    IF s \in Terminal THEN UNCHANGED <<order, events, faults>>
    ELSE /\ order' = [order EXCEPT !.status = "FAILED"]
         /\ Emit("Failed")

\* _complete_refund.
CompleteRefund(s) ==
    IF s = "REFUNDED" THEN UNCHANGED <<order, events, faults>>
    ELSE /\ order' = [order EXCEPT !.status = "REFUNDED", !.refunded_at = TRUE]
         /\ Emit("Refunded")

-----------------------------------------------------------------------------
(* create_order *)

\* The key has no order yet.  (If it has one, create_order returns it.)
LookupKey(p, provider) ==
    /\ order.status = "none"
    /\ Start(p, Call("create", provider, 0, "blank"), "insert")
    /\ UNCHANGED <<order, events, hook, stripe, chain, seen, faults>>

\* The intent Stripe has or makes for the key "pi:<idempotency_key>".
StripeIntent == IF stripe.intent = "none" THEN "open" ELSE stripe.intent

\* A wallet order is created, paid for by a debit and settled by
\* settle_wallet_order in the one transaction of the app that places it.
InsertOrder(p) ==
    LET provider == op[p].arg IN
    /\ At(p, "insert", "create")
    /\ order.status = "none"
    /\ order' = [order EXCEPT
           !.provider = provider,
           !.status = IF provider = "wallet" THEN "PAID" ELSE "PENDING_PAYMENT",
           !.paid_at = (provider = "wallet"),
           !.intent = CASE provider = "stripe" -> "pi"
                        [] provider = "wallet" -> "ledger"
                        [] OTHER               -> "blank"]
    /\ stripe' = IF provider = "stripe" THEN [stripe EXCEPT !.intent = StripeIntent]
                                        ELSE stripe
    /\ LET announced == IF provider = "wallet" THEN {"Created", "Paid"} ELSE {"Created"} IN
       \/ events' = announced /\ UNCHANGED faults
       \/ \E lost \in announced : events' = announced \ {lost} /\ Fault
    /\ Return(p)
    /\ UNCHANGED <<hook, chain>>

\* The unique key was taken since, or Stripe or the database failed after the
\* intent was made: nothing of the transaction remains here.
InsertFails(p) ==
    /\ At(p, "insert", "create")
    /\ \/ order.status # "none" /\ UNCHANGED <<stripe, faults>>
       \/ /\ Fault
          /\ stripe' = IF op[p].arg = "stripe"
                       THEN [stripe EXCEPT !.intent = StripeIntent] ELSE stripe
    /\ Return(p)
    /\ UNCHANGED <<order, events, hook, chain>>

-----------------------------------------------------------------------------
(* cancel_order, expire_due_orders, initiate_refund: read and check *)

Fetch(p, kind) ==
    /\ \/ kind = "cancel" /\ order.status \in Open
       \/ kind = "expire" /\ order.status = "PENDING_PAYMENT"
       \/ kind = "refund" /\ order.status = "PAID"
    /\ Start(p, Call(kind, "blank", 0, "blank"), "write")
    /\ seen' = [seen EXCEPT ![p] = order.status]
    /\ UNCHANGED <<order, events, hook, stripe, chain, faults>>

WriteCancelled(p) ==
    /\ At(p, "write", "cancel")
    /\ order' = [order EXCEPT !.status = "CANCELLED"]
    /\ Emit("Cancelled")
    /\ Return(p)
    /\ UNCHANGED <<hook, stripe, chain>>

WriteExpired(p) ==
    /\ At(p, "write", "expire")
    /\ order' = [order EXCEPT !.status = "EXPIRED"]
    /\ Emit("Expired")
    /\ Return(p)
    /\ UNCHANGED <<hook, stripe, chain>>

Issue(type) == Append(stripe.issued, type)

\* Stripe refunds (part of) the charge and issues charge.refunded.
StripeRefunds ==
    /\ stripe.intent = "captured"
    /\ stripe.refunds < MaxRefunds
    /\ Len(stripe.issued) < MaxHooks
    /\ stripe' = [stripe EXCEPT !.refunds = @ + 1, !.issued = Issue("refunded")]

\* The call to Stripe is made inside the transaction.
WriteRefunding(p) ==
    /\ At(p, "write", "refund")
    /\ IF order.provider = "stripe" THEN StripeRefunds ELSE UNCHANGED stripe
    /\ order' = [order EXCEPT !.status = "REFUNDING"]
    /\ Emit("RefundInitiated")
    /\ Return(p)
    /\ UNCHANGED <<hook, chain>>

\* Stripe refuses or fails, or it refunds and the transaction rolls back all the same.
RefundFails(p) ==
    /\ At(p, "write", "refund")
    /\ order.provider = "stripe"
    /\ \/ UNCHANGED <<stripe, faults>>
       \/ Fault /\ StripeRefunds
    /\ Return(p)
    /\ UNCHANGED <<order, events, hook, chain>>

-----------------------------------------------------------------------------
(* verify_order: no status is checked before the txid is saved *)

FetchVerify(p, txid) ==
    /\ order.provider = "blockchain"
    /\ \E verdict \in {"pending", "rejected"} \cup
                      (IF txid \in chain THEN {"verified"} ELSE {}) :
          Start(p, Call("verify", txid, 0, verdict), "txid")
    /\ seen' = [seen EXCEPT ![p] = order.status]
    /\ UNCHANGED <<order, events, hook, stripe, chain, faults>>

SaveTxid(p) ==
    /\ At(p, "txid", "verify")
    /\ order' = [order EXCEPT !.intent = op[p].arg]
    /\ IF op[p].verdict = "pending" THEN Return(p)
                                    ELSE Goto(p, "write") /\ UNCHANGED <<op, seen>>
    /\ UNCHANGED <<events, hook, stripe, chain, faults>>

\* Defect: a rejected transfer counts as verified.
WriteVerdictPaid(p) ==
    /\ At(p, "write", "verify")
    /\ MarkPaid(seen[p], op[p].arg)
    /\ Return(p)
    /\ UNCHANGED <<hook, stripe, chain>>

WriteVerdict(p) ==
    /\ At(p, "write", "verify")
    /\ IF op[p].verdict = "verified" THEN MarkPaid(seen[p], op[p].arg)
                                     ELSE MarkFailed(seen[p])
    /\ Return(p)
    /\ UNCHANGED <<hook, stripe, chain>>

-----------------------------------------------------------------------------
(* handle_stripe_webhook *)

\* Defect: the event is flagged before it is applied.
ReceiveFlagsFirst(p, h) ==
    /\ h \in DOMAIN stripe.issued
    /\ hook[h] # "processed"
    /\ Start(p, Call("hook", "blank", h, "blank"), "lookup")
    /\ hook' = [hook EXCEPT ![h] = "processed"]
    /\ UNCHANGED <<order, events, stripe, chain, seen, faults>>

\* Defect: a row that exists makes a delivery a duplicate, processed or not.
ReceiveOnlyNew(p, h) ==
    /\ h \in DOMAIN stripe.issued
    /\ hook[h] = "absent"
    /\ Start(p, Call("hook", "blank", h, "blank"), "lookup")
    /\ hook' = [hook EXCEPT ![h] = "received"]
    /\ UNCHANGED <<order, events, stripe, chain, seen, faults>>

\* get_or_create of the WebhookEvent; one that is processed is a duplicate.
Receive(p, h) ==
    /\ h \in DOMAIN stripe.issued
    /\ hook[h] # "processed"
    /\ Start(p, Call("hook", "blank", h, "blank"), "lookup")
    /\ hook' = [hook EXCEPT ![h] = "received"]
    /\ UNCHANGED <<order, events, stripe, chain, seen, faults>>

\* _order_by_intent.
Lookup(p) ==
    /\ At(p, "lookup", "hook")
    /\ seen' = [seen EXCEPT ![p] = order.status]
    /\ Goto(p, IF order.intent = "pi" THEN "write" ELSE "flag")
    /\ UNCHANGED <<order, events, hook, stripe, chain, op, faults>>

ApplyHook(p) ==
    /\ At(p, "write", "hook")
    /\ \/ stripe.issued[op[p].hook] = "succeeded" /\ MarkPaid(seen[p], "pi")
       \/ stripe.issued[op[p].hook] = "payment_failed" /\ MarkFailed(seen[p])
       \/ stripe.issued[op[p].hook] = "refunded" /\ CompleteRefund(seen[p])
    /\ Goto(p, "flag")
    /\ UNCHANGED <<hook, stripe, chain, op, seen>>

\* ORDER_NOT_PAYABLE: answered with 409, so Stripe will deliver again.
Refuse(p) ==
    /\ pc[p] = "write"
    /\ \/ op[p].kind = "hook" /\ stripe.issued[op[p].hook] = "succeeded"
       \/ op[p].kind = "verify" /\ op[p].verdict = "verified"
    /\ seen[p] \notin Open \cup {"PAID"}
    /\ Return(p)
    /\ UNCHANGED <<order, events, hook, stripe, chain, faults>>

FlagProcessed(p) ==
    /\ At(p, "flag", "hook")
    /\ hook' = [hook EXCEPT ![op[p].hook] = "processed"]
    /\ Emit("WebhookReceived")
    /\ Return(p)
    /\ UNCHANGED <<order, stripe, chain>>

\* The process dies between two statements.
Crash(p) ==
    /\ pc[p] # "idle"
    /\ Fault
    /\ Return(p)
    /\ UNCHANGED <<order, events, hook, stripe, chain>>

-----------------------------------------------------------------------------
(* Outside: the customer at Stripe, the admin in its dashboard, the chain *)

\* The customer has the client secret once create_order has answered.  Neither
\* cancel_order nor expire_due_orders cancels the intent.  A declined attempt
\* leaves the intent open for the next one.
Pay(type) ==
    /\ stripe.intent = "open"
    /\ order.intent = "pi"
    /\ type \in {"succeeded", "payment_failed"}
    /\ Len(stripe.issued) < MaxHooks
    /\ stripe' = [stripe EXCEPT !.intent = IF type = "succeeded" THEN "captured" ELSE @,
                                !.issued = Issue(type)]
    /\ UNCHANGED <<order, events, hook, chain, pc, op, seen, faults>>

DashboardRefund ==
    /\ StripeRefunds
    /\ UNCHANGED <<order, events, hook, chain, pc, op, seen, faults>>

Transfer(txid) ==
    /\ txid \notin chain
    /\ order.provider = "blockchain"
    /\ chain' = chain \cup {txid}
    /\ UNCHANGED <<order, events, hook, stripe, pc, op, seen, faults>>

Next ==
    \/ \E p \in Procs :
          \/ \E provider \in Providers : LookupKey(p, provider)
          \/ InsertOrder(p)
          \/ InsertFails(p)
          \/ \E kind \in {"cancel", "expire", "refund"} : Fetch(p, kind)
          \/ WriteCancelled(p)
          \/ WriteExpired(p)
          \/ WriteRefunding(p)
          \/ RefundFails(p)
          \/ \E txid \in Txids : FetchVerify(p, txid)
          \/ SaveTxid(p)
          \/ WriteVerdict(p)
          \/ \E h \in Hooks : Receive(p, h)
          \/ Lookup(p)
          \/ ApplyHook(p)
          \/ Refuse(p)
          \/ FlagProcessed(p)
          \/ Crash(p)
    \/ \E type \in HookTypes : Pay(type)
    \/ DashboardRefund
    \/ \E txid \in Txids : Transfer(txid)

Spec == Init /\ [][Next]_vars

\* Stripe delivers an event again until it is answered with 200, and a handler
\* that runs goes on.
Fairness ==
    /\ \A h \in Hooks : SF_vars(\E p \in Procs : Receive(p, h))
    /\ \A p \in Procs :
          WF_vars(Lookup(p) \/ ApplyHook(p) \/ Refuse(p) \/ FlagProcessed(p)
                  \/ InsertOrder(p) \/ InsertFails(p) \/ SaveTxid(p) \/ WriteVerdict(p)
                  \/ WriteCancelled(p) \/ WriteExpired(p) \/ WriteRefunding(p)
                  \/ RefundFails(p))

FairSpec == Spec /\ Fairness

-----------------------------------------------------------------------------
(* Properties *)

\* An order is marked paid, and payments.OrderPaid announced, only when the
\* provider really has the money: the intent was captured, a transfer was
\* confirmed, the wallet was debited.
PaidWasFunded ==
    order.paid_at \/ "Paid" \in events =>
        \/ order.provider = "stripe" /\ stripe.intent = "captured"
        \/ order.provider = "blockchain" /\ chain # {}
        \/ order.provider = "wallet" /\ order.intent = "ledger"

\* An order is REFUNDED only when Stripe has paid something back.
RefundedWasPaidBack ==
    order.status = "REFUNDED" \/ order.refunded_at => stripe.refunds > 0

\* Both, for every interleaving of buyers, admins, the expiry job and webhooks.
PaymentSound == TypeOK /\ PaidWasFunded /\ RefundedWasPaidBack

\* What event h says has happened to the order.
Applied(h) ==
    /\ stripe.issued[h] = "succeeded" => order.paid_at
    /\ stripe.issued[h] = "refunded" => order.refunded_at
    /\ stripe.issued[h] = "payment_failed" => order.status \notin {"none", "PENDING_PAYMENT"}

\* Whatever a webhook was answered with 200 for has been applied: Stripe will
\* not deliver it again, so a crash or a duplicate must not lose it.
AnsweredWasApplied ==
    \A h \in DOMAIN stripe.issued : hook[h] = "processed" => Applied(h)

\* The transitions of payments.md section 2, and those the webhooks add: a
\* refund may be made in Stripe's dashboard whatever became of the order here.
Documented ==
    {<<"none", "PENDING_PAYMENT">>, <<"none", "PAID">>,
     <<"PAID", "REFUNDING">>, <<"REFUNDING", "FAILED">>}
    \cup (Open \X {"PAID", "FAILED", "CANCELLED"})
    \cup {<<"PENDING_PAYMENT", "EXPIRED">>}
    \cup (Statuses \X {"REFUNDED"})

\* A handler whose copy of the order is still true when it writes keeps to the
\* state machine: what leaves it is only a write on a stale copy.
FreshWritesKeepToDiagram ==
    [][ order'.status # order.status =>
          \/ <<order.status, order'.status>> \in Documented
          \/ \E p \in Procs : /\ pc[p] = "write" /\ pc'[p] # "write"
                              /\ seen[p] # order.status ]_vars

\* What the columns of the row say of each other.
RowConsistent ==
    /\ order.status = "none" <=> order.provider = "none"
    /\ order.status = "none" => ~order.paid_at /\ ~order.refunded_at
    /\ order.status = "PAID" => order.paid_at
    /\ order.status = "REFUNDED" => order.refunded_at
    /\ order.provider = "stripe" <=> order.intent = "pi"
    /\ order.provider = "wallet" => order.intent = "ledger"

\* What Stripe says has happened, to an order that is paid through Stripe.
StripeTells ==
    /\ stripe.intent = "captured" \/ stripe.issued # <<>> => order.provider = "stripe"
    /\ \A h \in DOMAIN stripe.issued :
         /\ stripe.issued[h] = "succeeded" => stripe.intent = "captured"
         /\ stripe.issued[h] = "refunded" => stripe.refunds > 0
    /\ \A h \in Hooks : hook[h] # "absent" => h \in DOMAIN stripe.issued

\* What a running handler knows, and what the copy it reads still says of the row.
Knows(p) ==
    /\ op[p].kind = "create" => op[p].arg \in Providers
    /\ op[p].kind = "verify" =>
         /\ op[p].arg \in Txids /\ order.provider = "blockchain" /\ seen[p] # "none"
         /\ op[p].verdict = "verified" => chain # {}
    /\ op[p].kind = "hook" => op[p].hook \in DOMAIN stripe.issued
    /\ op[p].kind = "cancel" => seen[p] \in Open
    /\ op[p].kind = "expire" => seen[p] = "PENDING_PAYMENT"
    /\ op[p].kind = "refund" => seen[p] = "PAID"
    /\ pc[p] = "write" => seen[p] # "none"
    /\ pc[p] = "flag" => op[p].kind = "hook" /\ Applied(op[p].hook)
    /\ seen[p] # "none" => order.status # "none"
    /\ seen[p] \notin {"none", "PENDING_PAYMENT"} => order.status # "PENDING_PAYMENT"
    /\ seen[p] = "PAID" => order.paid_at
    /\ seen[p] = "REFUNDED" => order.refunded_at
HandlersKnow == \A p \in Procs : Knows(p)

\* The inductive invariant: no handler checks the row it writes, so what it knows
\* must come from its copy and from Stripe, and must still be true when it writes.
IInv == /\ PaymentSound /\ AnsweredWasApplied
        /\ RowConsistent /\ StripeTells /\ HandlersKnow

\* payments.md section 2: a paid order is refunded or stays paid; the arrows out
\* of PENDING_PAYMENT do not start at PAID.
PaidOrderStays ==
    [][ order.status = "PAID" => order'.status \in {"PAID", "REFUNDING", "REFUNDED"} ]_vars

\* payments.md section 4: payment_intent.succeeded marks the order paid.  (TLC refutes
\* this one: an order closed before the capture is never paid.)
CapturedIsPaid == (stripe.intent = "captured") ~> order.paid_at

\* A captured payment is recorded here, unless the order was closed first.
CapturedIsPaidUnlessClosed ==
    (stripe.intent = "captured") ~>
        (order.paid_at \/ order.status \in {"EXPIRED", "FAILED", "CANCELLED", "REFUNDED"})
=============================================================================
