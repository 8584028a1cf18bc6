------------------------------- MODULE Outbox -------------------------------
(***************************************************************************)
(* apps/events: the transactional outbox and its dispatchers.  Producers   *)
(* insert pending rows; a dispatcher polls a batch of due rows, runs every *)
(* handler of each row with its acknowledgement in one transaction,        *)
(* retries with backoff, and gives a row up to the dead-letter queue.      *)
(*                                                                         *)
(* Apart from the handlers' transactions every statement commits by        *)
(* itself, so a dispatcher may die between any two of them.                *)
(***************************************************************************)
EXTENDS Integers, Sequences, FiniteSets

CONSTANTS Events,       \* the (event_type, idempotency_key) pairs producers emit
          Handlers,     \* the handlers registered for them, in that order: a sequence
          Dispatchers,  \* run_dispatcher processes
          Once,         \* those started with --once, which take no lock
          Nobody,       \* nobody holds the advisory lock
          BatchSize,
          MaxRetries,   \* MAX_RETRIES
          MaxRows,      \* bound on the rows, replays included
          MaxCrashes    \* bound on the processes that die

ASSUME OutboxAssumption ==
    /\ \A i, j \in DOMAIN Handlers : Handlers[i] = Handlers[j] => i = j   \* on_event
    /\ Once \subseteq Dispatchers
    /\ Nobody \notin Dispatchers
    /\ BatchSize \in Nat \ {0}
    /\ MaxRetries \in Nat \ {0}
    /\ MaxRows \in Nat
    /\ MaxCrashes \in Nat

VARIABLES rows,     \* outbox_event in created_at order
          acks,     \* outbox_event_handler_ack: <<row, handler>>
          runs,     \* history: how often a handler's effect for a row committed
          dlq,      \* outbox_event_dlq
          lock,     \* holder of the advisory lock
          pc,
          batch,    \* the copies of rows a dispatcher has polled and not done with,
          hand,     \*   the one of them it is working on,
          todo,     \*   and the handlers it has not called for it
          crashes

vars == <<rows, acks, runs, dlq, lock, pc, batch, hand, todo, crashes>>

HandlerNames == {Handlers[i] : i \in DOMAIN Handlers}
RowIds == 1..MaxRows

\* key: the event emitted, or the dead letter replayed ("replay:<dlq id>").
Row == [key : Events \cup Nat, retry : 0..MaxRetries, due : BOOLEAN,
        status : {"pending", "dispatched", "processed", "failed", "dlq"}]

\* A dispatcher works on the copies it polled: the row and its retry_count then.
Copy == [row : RowIds, retry : 0..MaxRetries]
NoCopy == [row |-> 0, retry |-> 0]

Letter == [row : RowIds, resolved : BOOLEAN]
Places == {"down", "poll", "mark", "acks", "run", "fail", "bury"}

TypeOK ==
    /\ rows \in Seq(Row) /\ Len(rows) <= MaxRows
    /\ acks \subseteq RowIds \X HandlerNames
    /\ runs \in [RowIds \X HandlerNames -> Nat]
    /\ dlq \in Seq(Letter)
    /\ lock \in Dispatchers \cup {Nobody}
    /\ pc \in [Dispatchers -> Places]
    /\ batch \in [Dispatchers -> SUBSET Copy]
    /\ hand \in [Dispatchers -> Copy \cup {NoCopy}]
    /\ todo \in [Dispatchers -> SUBSET HandlerNames]
    /\ crashes \in 0..MaxCrashes

Init ==
    /\ rows = <<>>
    /\ acks = {}
    /\ runs = [x \in RowIds \X HandlerNames |-> 0]
    /\ dlq = <<>>
    /\ lock = Nobody
    /\ pc = [d \in Dispatchers |-> "down"]
    /\ batch = [d \in Dispatchers |-> {}]
    /\ hand = [d \in Dispatchers |-> NoCopy]
    /\ todo = [d \in Dispatchers |-> {}]
    /\ crashes = 0

-----------------------------------------------------------------------------
(* Producers and operators *)

NewRow(key) ==
    [key |-> key, retry |-> 0, due |-> TRUE, status |-> "pending"]

Insert(key) ==
    /\ Len(rows) < MaxRows
    /\ \A r \in DOMAIN rows : rows[r].key # key
    /\ rows' = Append(rows, NewRow(key))

\* EventBus.emit, when its transaction commits.  A pair that is there already
\* raises EventAlreadyEmitted and inserts nothing.
Emit(e) ==
    /\ Insert(e)
    /\ UNCHANGED <<acks, runs, dlq, lock, pc, batch, hand, todo, crashes>>

\* replay_from_dlq: a new row under the key of the dead letter, then the letter
\* is resolved in a statement of its own.  The new row has no acks.
Replay(i) ==
    /\ Insert(i)
    /\ \/ dlq' = [dlq EXCEPT ![i].resolved = TRUE] /\ UNCHANGED crashes
       \/ crashes < MaxCrashes /\ crashes' = crashes + 1 /\ UNCHANGED dlq
    /\ UNCHANGED <<acks, runs, lock, pc, batch, hand, todo>>

\* resolve_dlq.
Resolve(i) ==
    /\ dlq' = [dlq EXCEPT ![i].resolved = TRUE]
    /\ UNCHANGED <<rows, acks, runs, lock, pc, batch, hand, todo, crashes>>

\* The backoff of a failed row has passed.
Elapse(r) ==
    /\ rows[r].status = "failed" /\ ~rows[r].due
    /\ rows' = [rows EXCEPT ![r].due = TRUE]
    /\ UNCHANGED <<acks, runs, dlq, lock, pc, batch, hand, todo, crashes>>

-----------------------------------------------------------------------------
(* A dispatcher *)

GoesTo(d, where) == pc' = [pc EXCEPT ![d] = where]

\* run_dispatcher: pg_try_advisory_lock, unless started with --once.  Without
\* the lock it exits, and its supervisor tries again.
Start(d) ==
    /\ pc[d] = "down"
    /\ IF d \in Once THEN UNCHANGED lock
                     ELSE lock = Nobody /\ lock' = d
    /\ GoesTo(d, "poll")
    /\ UNCHANGED <<rows, acks, runs, dlq, batch, hand, todo, crashes>>

\* Defect: failed rows are not polled again.
DueRowsPendingOnly == {r \in DOMAIN rows : rows[r].status = "pending" /\ rows[r].due}

DueRows == {r \in DOMAIN rows : rows[r].status \in {"pending", "failed"} /\ rows[r].due}

Oldest(S) == {r \in S : Cardinality({q \in S : q < r}) < BatchSize}

\* dispatch_pending_batch.
Poll(d) ==
    /\ pc[d] = "poll"
    /\ batch' = [batch EXCEPT ![d] =
                    {[row |-> r, retry |-> rows[r].retry] : r \in Oldest(DueRows)}]
    /\ GoesTo(d, IF DueRows # {} THEN "mark" ELSE IF d \in Once THEN "down" ELSE "poll")
    /\ UNCHANGED <<rows, acks, runs, dlq, lock, hand, todo, crashes>>

\* Each save writes its columns from the dispatcher's copy, whatever the row holds.
SaveStatus(r, status) == rows' = [rows EXCEPT ![r].status = status]

\* _process_event of the next copy: the row leaves the set that is polled.
Mark(d) ==
    /\ pc[d] = "mark"
    /\ \E c \in batch[d] :
         /\ \A other \in batch[d] : c.row <= other.row
         /\ hand' = [hand EXCEPT ![d] = c]
         /\ SaveStatus(c.row, "dispatched")
    /\ GoesTo(d, "acks")
    /\ UNCHANGED <<acks, runs, dlq, lock, batch, todo, crashes>>

\* Defect: acknowledged handlers are run again.
ReadAcksNone(d) ==
    /\ pc[d] = "acks"
    /\ todo' = [todo EXCEPT ![d] = HandlerNames]
    /\ GoesTo(d, "run")
    /\ UNCHANGED <<rows, acks, runs, dlq, lock, batch, hand, crashes>>

ReadAcks(d) ==
    /\ pc[d] = "acks"
    /\ todo' = [todo EXCEPT ![d] = {h \in HandlerNames : <<hand[d].row, h>> \notin acks}]
    /\ GoesTo(d, "run")
    /\ UNCHANGED <<rows, acks, runs, dlq, lock, batch, hand, crashes>>

\* Handler h is the next one, in the order of registration.
IsNext(d, h) ==
    /\ pc[d] = "run" /\ h \in todo[d]
    /\ \E i \in DOMAIN Handlers :
         h = Handlers[i] /\ \A j \in DOMAIN Handlers : Handlers[j] \in todo[d] => i <= j

Acknowledge(d, h) ==
    /\ acks' = acks \cup {<<hand[d].row, h>>}
    /\ todo' = [todo EXCEPT ![d] = @ \ {h}]

\* handler.fn and EventBus.ack commit together.  ack is a get_or_create: it
\* does not mind finding the ack there.
RunHandler(d, h) ==
    /\ IsNext(d, h)
    /\ runs' = [runs EXCEPT ![<<hand[d].row, h>>] = @ + 1]
    /\ Acknowledge(d, h)
    /\ UNCHANGED <<rows, dlq, lock, pc, batch, hand, crashes>>

\* The handler raises SkipHandler.
Skip(d, h) ==
    /\ IsNext(d, h)
    /\ Acknowledge(d, h)
    /\ UNCHANGED <<rows, runs, dlq, lock, pc, batch, hand, crashes>>

\* The handler raises anything else: its transaction is rolled back.
HandlerFails(d, h) ==
    /\ IsNext(d, h)
    /\ GoesTo(d, "fail")
    /\ UNCHANGED <<rows, acks, runs, dlq, lock, batch, hand, todo, crashes>>

\* On to the next copy of the batch, then to the next poll (--once: exit).
NextCopy(d) ==
    /\ batch' = [batch EXCEPT ![d] = @ \ {hand[d]}]
    /\ hand' = [hand EXCEPT ![d] = NoCopy]
    /\ todo' = [todo EXCEPT ![d] = {}]
    /\ GoesTo(d, IF batch[d] # {hand[d]} THEN "mark" ELSE IF d \in Once THEN "down" ELSE "poll")

Finish(d) ==
    /\ pc[d] = "run" /\ todo[d] = {}
    /\ SaveStatus(hand[d].row, "processed")
    /\ NextCopy(d)
    /\ UNCHANGED <<acks, runs, dlq, lock, crashes>>

\* Defect: off by one.
LastTryLate(d) == hand[d].retry >= MaxRetries

LastTry(d) == hand[d].retry + 1 >= MaxRetries

\* _record_failure: the row is due again after the backoff.
RecordFailure(d) ==
    /\ pc[d] = "fail" /\ ~LastTry(d)
    /\ rows' = [rows EXCEPT ![hand[d].row] =
                   [@ EXCEPT !.status = "failed", !.retry = hand[d].retry + 1,
                             !.due = FALSE]]
    /\ NextCopy(d)
    /\ UNCHANGED <<acks, runs, dlq, lock, crashes>>

\* _to_dlq inserts the dead letter, then saves the row.
ToDlq(d) ==
    /\ pc[d] = "fail" /\ LastTry(d)
    /\ dlq' = Append(dlq, [row |-> hand[d].row, resolved |-> FALSE])
    /\ GoesTo(d, "bury")
    /\ UNCHANGED <<rows, acks, runs, lock, batch, hand, todo, crashes>>

Bury(d) ==
    /\ pc[d] = "bury"
    /\ rows' = [rows EXCEPT ![hand[d].row] =
                   [@ EXCEPT !.status = "dlq", !.retry = hand[d].retry + 1]]
    /\ NextCopy(d)
    /\ UNCHANGED <<acks, runs, dlq, lock, crashes>>

\* The process dies; PostgreSQL frees the advisory lock of its session.
Crash(d) ==
    /\ pc[d] # "down"
    /\ crashes < MaxCrashes
    /\ crashes' = crashes + 1
    /\ lock' = IF lock = d THEN Nobody ELSE lock
    /\ batch' = [batch EXCEPT ![d] = {}]
    /\ hand' = [hand EXCEPT ![d] = NoCopy]
    /\ todo' = [todo EXCEPT ![d] = {}]
    /\ GoesTo(d, "down")
    /\ UNCHANGED <<rows, acks, runs, dlq>>

Work(d) ==
    \/ Start(d) \/ Poll(d) \/ Mark(d) \/ ReadAcks(d)
    \/ \E h \in HandlerNames : RunHandler(d, h) \/ Skip(d, h) \/ HandlerFails(d, h)
    \/ Finish(d) \/ RecordFailure(d) \/ ToDlq(d) \/ Bury(d)

Next ==
    \/ \E e \in Events : Emit(e)
    \/ \E i \in DOMAIN dlq : Replay(i) \/ Resolve(i)
    \/ \E r \in DOMAIN rows : Elapse(r)
    \/ \E d \in Dispatchers : Work(d) \/ Crash(d)

Spec == Init /\ [][Next]_vars

\* The clock runs, and supervisors keep the dispatchers running.  Producers,
\* operators and crashes are under no obligation.
Fairness ==
    /\ \A r \in RowIds : WF_vars(r \in DOMAIN rows /\ Elapse(r))
    /\ \A d \in Dispatchers : WF_vars(Work(d))

FairSpec == Spec /\ Fairness

-----------------------------------------------------------------------------
(* Properties *)

Leaders == {d \in Dispatchers \ Once : pc[d] # "down"}

\* A handler's effect for a row is committed at most once, whatever crashes and
\* retries do, and it is what the ack says: ADR-0003's durable side effects.
EffectAtMostOnce ==
    \A x \in RowIds \X HandlerNames : runs[x] <= 1 /\ (runs[x] = 1 => x \in acks)

\* A row that counts as processed has been acknowledged by every handler.
ProcessedByAll ==
    \A r \in DOMAIN rows : rows[r].status = "processed" =>
        \A h \in HandlerNames : <<r, h>> \in acks

\* A row is given up only with a dead letter that keeps it for an operator, and
\* only after MAX_RETRIES failures; until then it has retries left.
GivenUpIsKept ==
    \A r \in DOMAIN rows :
        /\ rows[r].status = "dlq" => /\ rows[r].retry = MaxRetries
                                     /\ \E i \in DOMAIN dlq : dlq[i].row = r
        /\ rows[r].status # "dlq" => rows[r].retry < MaxRetries

\* No two dispatchers that take the lock have the same row in their batches.
BatchesDisjoint ==
    \A c, d \in Leaders : c # d =>
        \A mine \in batch[c], other \in batch[d] : mine.row # other.row

\* At-least-once delivery with effects at most once, for leaders and standbys that take
\* the lock (run_dispatcher): together what a handler relies on.
DeliverySound == TypeOK /\ EffectAtMostOnce /\ ProcessedByAll /\ BatchesDisjoint

\* What a dispatcher that is not down holds and knows.  While it leads nobody else
\* writes the rows it has polled.
InHand(d) == pc[d] \in {"acks", "run", "fail", "bury"}
LeaderKnows(d) ==
    /\ pc[d] # "down" => lock = d
    /\ pc[d] \in {"down", "poll"} => batch[d] = {}
    /\ InHand(d) => hand[d] \in batch[d]
    /\ \A c \in batch[d] :
         c.row \in DOMAIN rows /\ rows[c.row].retry = c.retry /\ c.retry < MaxRetries
    /\ pc[d] = "run" => \A h \in HandlerNames : h \in todo[d] <=> <<hand[d].row, h>> \notin acks
    /\ pc[d] = "bury" => LastTry(d) /\ \E i \in DOMAIN dlq : dlq[i].row = hand[d].row

\* The inductive invariant, without dispatchers that take no lock.
IInv == /\ TypeOK /\ EffectAtMostOnce /\ ProcessedByAll /\ GivenUpIsKept
        /\ \A d \in Dispatchers : LeaderKnows(d)

Settled(r) == r \in DOMAIN rows /\ rows[r].status \in {"processed", "dlq"}

\* A dispatcher died after it marked the row: no poll will find the row again.
Stranded(r) ==
    /\ r \in DOMAIN rows
    /\ rows[r].status = "dispatched"
    /\ \A d \in Dispatchers : \A c \in batch[d] : c.row # r

\* events.md section 3: an emitted row ends up processed or dead, standby or
\* not, crash or not, unless the process died while it had the row in hand.
EmittedSettlesOrStrands ==
    \A r \in RowIds : r \in DOMAIN rows ~> Settled(r) \/ Stranded(r)

\* dispatcher.py:3-5: at-least-once delivery.  (TLC refutes this one: a crash after
\* the row is marked dispatched strands it.)
EmittedSettles ==
    \A r \in RowIds : r \in DOMAIN rows ~> Settled(r)
=============================================================================
