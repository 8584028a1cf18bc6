--------------------------- MODULE Delivery_proofs ---------------------------
(***************************************************************************)
(* Proofs about Outbox, for any events, handlers, dispatchers and bounds,  *)
(* when every dispatcher takes the advisory lock: a handler's effect is    *)
(* committed at most once, a processed row was handled by all, nothing is  *)
(* given up without a dead letter, and no row is in two hands.             *)
(*                                                                         *)
(* The argument: the lock leaves one dispatcher at work (OthersDown), so   *)
(* that what it polled is still true when it writes (LeaderKnows).  The    *)
(* handlers it has still to call are those without an acknowledgement,     *)
(* and effect and acknowledgement commit together.                         *)
(*                                                                         *)
(* Then, about what is bought and delivered (Entitlements, with            *)
(* LegacyImport beside it), for any keys, amounts, plans, bounds and old   *)
(* rows: the books balance, answers hold, memberships follow the paid      *)
(* orders, and an import that ends without an error is complete.           *)
(*                                                                         *)
(* The argument: rows of gifts, unlocks and orders only come (Grows), so   *)
(* what a request found stays found; a delivery that overlapped no other   *)
(* is the only one (DeliveryKnows); a purchased membership stays covered   *)
(* by an active one (Covered); and a checkpoint stands for rows that were  *)
(* imported or reported (ImportKnows).  For the books (Books): a row that  *)
(* is new has a key that was not posted (KeysOfRows), so its debit adds    *)
(* one to the sum its row is counted in.                                   *)
(***************************************************************************)
EXTENDS Outbox, LegacyImport, Sums

-----------------------------------------------------------------------------
(* Rows *)

LEMMA RowsTyped ==
    ASSUME IInv
    PROVE  /\ rows \in Seq(Row) /\ Len(rows) \in 0..MaxRows
           /\ DOMAIN rows = 1..Len(rows) /\ DOMAIN rows \subseteq RowIds
           /\ \A r \in DOMAIN rows : rows[r] \in Row
           /\ MaxRows \in Nat /\ MaxRetries \in Nat \ {0} /\ MaxCrashes \in Nat
           /\ Nobody \notin Dispatchers
<1>1. rows \in Seq(Row) /\ Len(rows) <= MaxRows
  BY DEF IInv, TypeOK
<1>2. DOMAIN rows = 1..Len(rows) /\ Len(rows) \in Nat /\ \A r \in DOMAIN rows : rows[r] \in Row
  BY <1>1
<1> QED BY <1>1, <1>2, OutboxAssumption DEF RowIds

\* One row is written, the others are not.
LEMMA RowWritten ==
    ASSUME IInv, NEW r \in DOMAIN rows, NEW x \in Row, rows' = [rows EXCEPT ![r] = x]
    PROVE  /\ rows' \in Seq(Row) /\ Len(rows') <= MaxRows /\ DOMAIN rows' = DOMAIN rows
           /\ rows'[r] = x
           /\ \A q \in DOMAIN rows : q # r => rows'[q] = rows[q]
BY RowsTyped

LEMMA StatusWritten ==
    ASSUME IInv, NEW r \in DOMAIN rows, NEW s \in {"dispatched", "processed"}, SaveStatus(r, s)
    PROVE  /\ rows' \in Seq(Row) /\ Len(rows') <= MaxRows /\ DOMAIN rows' = DOMAIN rows
           /\ rows'[r].status = s /\ rows'[r].retry = rows[r].retry
           /\ \A q \in DOMAIN rows : q # r => rows'[q] = rows[q]
<1>1. rows[r] \in Row
  BY RowsTyped
<1>2. [rows[r] EXCEPT !.status = s] \in Row
  BY <1>1 DEF Row
<1>3. rows' = [rows EXCEPT ![r] = [rows[r] EXCEPT !.status = s]]
  BY RowsTyped DEF SaveStatus
<1>4. [rows[r] EXCEPT !.status = s].status = s
      /\ [rows[r] EXCEPT !.status = s].retry = rows[r].retry
  BY <1>1 DEF Row
<1> QED BY <1>2, <1>3, <1>4, RowWritten

\* Producers, operators and the clock leave what the rows say of the past.
LEMMA OutsideSteps ==
    ASSUME IInv,
           rows' \in Seq(Row), Len(rows') <= MaxRows,
           \A r \in DOMAIN rows : /\ r \in DOMAIN rows'
                                  /\ rows'[r].status = rows[r].status
                                  /\ rows'[r].retry = rows[r].retry,
           \A r \in DOMAIN rows' : r \notin DOMAIN rows =>
                rows'[r].status = "pending" /\ rows'[r].retry = 0,
           dlq' \in Seq(Letter),
           \A i \in DOMAIN dlq : i \in DOMAIN dlq' /\ dlq'[i].row = dlq[i].row,
           crashes' \in 0..MaxCrashes,
           UNCHANGED <<acks, runs, lock, pc, batch, hand, todo>>
    PROVE  IInv'
<1> USE RowsTyped
<1>1. TypeOK'
  <2>1. TypeOK
    BY DEF IInv
  <2> QED BY ONLY <2>1, rows' \in Seq(Row), Len(rows') <= MaxRows, dlq' \in Seq(Letter),
                 crashes' \in 0..MaxCrashes,
                 UNCHANGED <<acks, runs, lock, pc, batch, hand, todo>> DEF TypeOK
<1>2. EffectAtMostOnce'
  BY DEF IInv, EffectAtMostOnce
<1>3. ProcessedByAll'
  BY DEF IInv, ProcessedByAll
<1>4. GivenUpIsKept'
  <2>1. GivenUpIsKept
    BY DEF IInv
  <2>2. ASSUME NEW r \in DOMAIN rows'
        PROVE  /\ rows'[r].status = "dlq" => /\ rows'[r].retry = MaxRetries
                                              /\ \E i \in DOMAIN dlq' : dlq'[i].row = r
               /\ rows'[r].status # "dlq" => rows'[r].retry < MaxRetries
    <3>1. CASE r \in DOMAIN rows
      BY <2>1, <3>1 DEF GivenUpIsKept
    <3>2. CASE r \notin DOMAIN rows
      BY <3>2
    <3> QED BY <3>1, <3>2
  <2> QED BY ONLY <2>2 DEF GivenUpIsKept
<1>5. ASSUME NEW d \in Dispatchers
      PROVE  LeaderKnows(d)'
  BY DEF IInv, LeaderKnows, InHand, LastTry
<1> QED BY <1>1, <1>2, <1>3, <1>4, <1>5 DEF IInv

-----------------------------------------------------------------------------
(* Dispatchers *)

\* The lock leaves one of them at work.
LEMMA OthersDown ==
    ASSUME IInv, Once = {}, NEW d \in Dispatchers, pc[d] # "down" \/ lock = Nobody,
           NEW e \in Dispatchers, e # d
    PROVE  pc[e] = "down" /\ batch[e] = {}
BY RowsTyped DEF IInv, LeaderKnows

\* So a step of one leaves to the others what they know.
LEMMA OneDispatcherSteps ==
    ASSUME IInv, Once = {}, NEW d \in Dispatchers, pc[d] # "down" \/ lock = Nobody,
           \A e \in Dispatchers : e # d => pc'[e] = pc[e] /\ batch'[e] = batch[e],
           TypeOK', EffectAtMostOnce', ProcessedByAll', GivenUpIsKept', LeaderKnows(d)'
    PROVE  IInv'
<1>1. ASSUME NEW e \in Dispatchers, e # d
      PROVE  LeaderKnows(e)'
  <2>1. pc[e] = "down" /\ batch[e] = {}
    BY <1>1, OthersDown
  <2>2. pc'[e] = "down" /\ batch'[e] = {}
    BY <1>1, <2>1
  <2> QED BY <2>2 DEF LeaderKnows, InHand
<1> QED BY <1>1 DEF IInv

LEMMA Frame ==
    ASSUME IInv, NEW d \in Dispatchers
    PROVE  /\ TypeOK /\ LeaderKnows(d)
           /\ EffectAtMostOnce /\ ProcessedByAll /\ GivenUpIsKept
           /\ pc \in [Dispatchers -> Places] /\ batch \in [Dispatchers -> SUBSET Copy]
           /\ hand \in [Dispatchers -> Copy \cup {NoCopy}]
           /\ todo \in [Dispatchers -> SUBSET HandlerNames]
           /\ acks \subseteq RowIds \X HandlerNames
           /\ runs \in [RowIds \X HandlerNames -> Nat]
           /\ dlq \in Seq(Letter) /\ lock \in Dispatchers \cup {Nobody}
           /\ crashes \in 0..MaxCrashes
BY DEF IInv, TypeOK

LEMMA StartStep ==
    ASSUME IInv, Once = {}, NEW d \in Dispatchers, Start(d)
    PROVE  IInv'
<1> USE RowsTyped, Frame
<1>1. /\ lock = Nobody /\ lock' = d /\ pc[d] = "down"
      /\ pc' = [pc EXCEPT ![d] = "poll"]
      /\ UNCHANGED <<rows, acks, runs, dlq, batch, hand, todo, crashes>>
  BY DEF Start, GoesTo
<1>2. TypeOK'
  BY <1>1 DEF TypeOK, Places
<1>3. EffectAtMostOnce' /\ ProcessedByAll' /\ GivenUpIsKept'
  BY <1>1 DEF EffectAtMostOnce, ProcessedByAll, GivenUpIsKept
<1>4. LeaderKnows(d)'
  BY <1>1 DEF LeaderKnows, InHand
<1> QED BY <1>1, <1>2, <1>3, <1>4, OneDispatcherSteps

LEMMA PollStep ==
    ASSUME IInv, Once = {}, NEW d \in Dispatchers, Poll(d)
    PROVE  IInv'
<1> USE RowsTyped, Frame
<1> DEFINE polled == {[row |-> r, retry |-> rows[r].retry] : r \in Oldest(DueRows)}
<1>1. /\ pc[d] = "poll"
      /\ batch' = [batch EXCEPT ![d] = polled]
      /\ pc' = [pc EXCEPT ![d] = IF DueRows # {} THEN "mark" ELSE "poll"]
      /\ UNCHANGED <<rows, acks, runs, dlq, lock, hand, todo, crashes>>
  BY DEF Poll, GoesTo
<1>2. \A r \in DueRows : r \in DOMAIN rows /\ rows[r].status # "dlq"
  BY DEF DueRows
<1>3. Oldest(DueRows) \subseteq DueRows
  BY DEF Oldest
<1>4. \A c \in polled : c \in Copy /\ c.row \in DueRows /\ rows[c.row].retry = c.retry
  BY <1>2, <1>3 DEF Copy, Row
<1>5. TypeOK'
  BY <1>1, <1>4 DEF TypeOK, Places
<1>6. EffectAtMostOnce' /\ ProcessedByAll' /\ GivenUpIsKept'
  BY <1>1 DEF EffectAtMostOnce, ProcessedByAll, GivenUpIsKept
<1>7. \A c \in polled : c.retry < MaxRetries
  BY <1>2, <1>4 DEF GivenUpIsKept
<1>8. DueRows = {} => polled = {}
  BY <1>3
<1>9. LeaderKnows(d)'
  <2>1. pc'[d] = (IF DueRows # {} THEN "mark" ELSE "poll") /\ batch'[d] = polled
    BY <1>1
  <2> HIDE DEF polled
  <2> QED BY <1>1, <1>2, <1>4, <1>7, <1>8, <2>1 DEF LeaderKnows, InHand
<1> QED BY <1>1, <1>5, <1>6, <1>9, OneDispatcherSteps

LEMMA MarkStep ==
    ASSUME IInv, Once = {}, NEW d \in Dispatchers, Mark(d)
    PROVE  IInv'
<1> USE RowsTyped, Frame
<1>1. PICK c \in batch[d] : hand' = [hand EXCEPT ![d] = c] /\ SaveStatus(c.row, "dispatched")
  BY DEF Mark
<1>2. /\ pc[d] = "mark" /\ pc' = [pc EXCEPT ![d] = "acks"]
      /\ UNCHANGED <<acks, runs, dlq, lock, batch, todo, crashes>>
  BY DEF Mark, GoesTo
<1>3. c \in Copy /\ c.row \in DOMAIN rows /\ rows[c.row].retry < MaxRetries
  BY <1>1 DEF LeaderKnows
<1>4. /\ rows' \in Seq(Row) /\ Len(rows') <= MaxRows /\ DOMAIN rows' = DOMAIN rows
      /\ rows'[c.row].status = "dispatched" /\ rows'[c.row].retry = rows[c.row].retry
      /\ \A q \in DOMAIN rows : q # c.row => rows'[q] = rows[q]
  BY <1>1, <1>3, StatusWritten
<1>5. TypeOK'
  <2>1. pc' \in [Dispatchers -> Places] /\ hand' \in [Dispatchers -> Copy \cup {NoCopy}]
    BY <1>1, <1>2, <1>3 DEF Places
  <2> QED BY <1>2, <1>4, <2>1 DEF TypeOK
<1>6. EffectAtMostOnce' /\ ProcessedByAll' /\ GivenUpIsKept'
  <2>1. EffectAtMostOnce'
    BY <1>2 DEF EffectAtMostOnce
  <2>2. ProcessedByAll'
    BY <1>2, <1>3, <1>4 DEF ProcessedByAll
  <2>3. ASSUME NEW r \in DOMAIN rows'
        PROVE  /\ rows'[r].status = "dlq" => /\ rows'[r].retry = MaxRetries
                                              /\ \E i \in DOMAIN dlq' : dlq'[i].row = r
               /\ rows'[r].status # "dlq" => rows'[r].retry < MaxRetries
    <3>1. CASE r = c.row
      BY <1>3, <1>4, <3>1
    <3>2. CASE r # c.row
      BY <1>2, <1>4, <3>2 DEF GivenUpIsKept
    <3> QED BY <3>1, <3>2
  <2>4. GivenUpIsKept'
    BY ONLY <2>3 DEF GivenUpIsKept
  <2> QED BY <2>1, <2>2, <2>4
<1>7. LeaderKnows(d)'
  <2>1. pc'[d] = "acks" /\ hand'[d] = c
    BY <1>1, <1>2
  <2> QED BY <1>2, <1>4, <2>1 DEF LeaderKnows, InHand
<1> QED BY <1>2, <1>5, <1>6, <1>7, OneDispatcherSteps

LEMMA ReadAcksStep ==
    ASSUME IInv, Once = {}, NEW d \in Dispatchers, ReadAcks(d)
    PROVE  IInv'
<1> USE RowsTyped, Frame
<1> DEFINE rest == {h \in HandlerNames : <<hand[d].row, h>> \notin acks}
<1>1. /\ pc[d] = "acks" /\ pc' = [pc EXCEPT ![d] = "run"]
      /\ todo' = [todo EXCEPT ![d] = rest]
      /\ UNCHANGED <<rows, acks, runs, dlq, lock, batch, hand, crashes>>
  BY DEF ReadAcks, GoesTo
<1>2. TypeOK'
  BY <1>1 DEF TypeOK, Places
<1>3. EffectAtMostOnce' /\ ProcessedByAll' /\ GivenUpIsKept'
  BY <1>1 DEF EffectAtMostOnce, ProcessedByAll, GivenUpIsKept
<1>4. LeaderKnows(d)'
  <2>1. pc'[d] = "run" /\ todo'[d] = rest
    BY <1>1
  <2> QED BY <1>1, <2>1 DEF LeaderKnows, InHand
<1> QED BY <1>1, <1>2, <1>3, <1>4, OneDispatcherSteps

\* Handlers: the transaction of one, its skip, its failure.

LEMMA RunHandlerStep ==
    ASSUME IInv, Once = {}, NEW d \in Dispatchers, NEW h \in HandlerNames,
           RunHandler(d, h) \/ Skip(d, h)
    PROVE  IInv'
<1> USE RowsTyped, Frame
<1> DEFINE x == <<hand[d].row, h>>
<1>1. /\ pc[d] = "run" /\ h \in todo[d]
      /\ acks' = acks \cup {x} /\ todo' = [todo EXCEPT ![d] = todo[d] \ {h}]
      /\ UNCHANGED <<rows, dlq, lock, pc, batch, hand, crashes>>
      /\ runs' = [runs EXCEPT ![x] = runs[x] + 1] \/ runs' = runs
  BY DEF RunHandler, Skip, IsNext, Acknowledge
<1>2. hand[d] \in batch[d] /\ hand[d] \in Copy /\ x \in RowIds \X HandlerNames
  BY <1>1 DEF LeaderKnows, InHand, Copy
<1>3. x \notin acks
  BY <1>1 DEF LeaderKnows
<1>4. runs[x] = 0
  BY <1>2, <1>3 DEF EffectAtMostOnce
<1> HIDE DEF x
<1>5. runs' \in [RowIds \X HandlerNames -> Nat]
  <2>1. runs[x] + 1 \in Nat
    BY <1>4
  <2>2. [runs EXCEPT ![x] = runs[x] + 1] \in [RowIds \X HandlerNames -> Nat]
    BY <1>2, <2>1
  <2> QED BY <1>1, <2>2
<1>6. TypeOK'
  BY <1>1, <1>2, <1>5 DEF TypeOK
<1>7. EffectAtMostOnce'
  BY <1>1, <1>2, <1>4 DEF EffectAtMostOnce
<1>8. ProcessedByAll' /\ GivenUpIsKept'
  BY <1>1 DEF ProcessedByAll, GivenUpIsKept
<1>9. LeaderKnows(d)'
  <2>1. todo'[d] = todo[d] \ {h}
    BY <1>1
  <2>2. \A g \in HandlerNames : g \in todo'[d] <=> <<hand'[d].row, g>> \notin acks'
    BY <1>1, <2>1 DEF x, LeaderKnows
  <2> QED BY <1>1, <2>2 DEF LeaderKnows, InHand
<1> QED BY <1>1, <1>6, <1>7, <1>8, <1>9, OneDispatcherSteps

LEMMA HandlerFailsStep ==
    ASSUME IInv, Once = {}, NEW d \in Dispatchers, NEW h \in HandlerNames,
           HandlerFails(d, h)
    PROVE  IInv'
<1> USE RowsTyped, Frame
<1>1. /\ pc[d] = "run" /\ pc' = [pc EXCEPT ![d] = "fail"]
      /\ UNCHANGED <<rows, acks, runs, dlq, lock, batch, hand, todo, crashes>>
  BY DEF HandlerFails, IsNext, GoesTo
<1>2. TypeOK'
  BY <1>1 DEF TypeOK, Places
<1>3. EffectAtMostOnce' /\ ProcessedByAll' /\ GivenUpIsKept'
  BY <1>1 DEF EffectAtMostOnce, ProcessedByAll, GivenUpIsKept
<1>4. LeaderKnows(d)'
  BY <1>1 DEF LeaderKnows, InHand
<1> QED BY <1>1, <1>2, <1>3, <1>4, OneDispatcherSteps

-----------------------------------------------------------------------------
(* The outcome of a row *)

\* x is what the dispatcher makes of the row it has in hand.
LEMMA DoneStep ==
    ASSUME IInv, Once = {}, NEW d \in Dispatchers, InHand(d), NextCopy(d),
           NEW x \in Row, rows' = [rows EXCEPT ![hand[d].row] = x],
           UNCHANGED <<acks, runs, dlq, lock, crashes>>,
           x.status = "processed" => \A h \in HandlerNames : <<hand[d].row, h>> \in acks,
           x.status = "dlq" => /\ x.retry = MaxRetries
                               /\ \E i \in DOMAIN dlq : dlq[i].row = hand[d].row,
           x.status # "dlq" => x.retry < MaxRetries
    PROVE  IInv'
<1> USE RowsTyped, Frame
<1> DEFINE r == hand[d].row
           rest == batch[d] \ {hand[d]}
<1>1. /\ batch' = [batch EXCEPT ![d] = rest]
      /\ hand' = [hand EXCEPT ![d] = NoCopy] /\ todo' = [todo EXCEPT ![d] = {}]
      /\ pc' = [pc EXCEPT ![d] = IF batch[d] # {hand[d]} THEN "mark" ELSE "poll"]
  BY DEF NextCopy, GoesTo
<1>2. pc[d] # "down"
  BY DEF InHand
<1>3. hand[d] \in batch[d] /\ hand[d] \in Copy /\ r \in DOMAIN rows
  BY DEF LeaderKnows
<1>4. /\ rows' \in Seq(Row) /\ Len(rows') <= MaxRows /\ DOMAIN rows' = DOMAIN rows
      /\ rows'[r] = x
      /\ \A q \in DOMAIN rows : q # r => rows'[q] = rows[q]
  BY <1>3, RowWritten
<1>5. TypeOK'
  <2>1. pc' \in [Dispatchers -> Places]
    BY <1>1 DEF Places
  <2>2. /\ batch' \in [Dispatchers -> SUBSET Copy]
        /\ hand' \in [Dispatchers -> Copy \cup {NoCopy}]
        /\ todo' \in [Dispatchers -> SUBSET HandlerNames]
    BY <1>1
  <2> QED BY <1>4, <2>1, <2>2 DEF TypeOK
<1>6. EffectAtMostOnce'
  BY DEF EffectAtMostOnce
<1>7. ProcessedByAll'
  BY <1>4 DEF ProcessedByAll
<1>8. GivenUpIsKept'
  BY <1>4 DEF GivenUpIsKept
<1>9. ASSUME NEW c \in rest
      PROVE  c \in batch[d] /\ c.row # r
  <2>1. c \in batch[d] /\ c # hand[d] /\ c \in Copy
    OBVIOUS
  <2>2. rows[c.row].retry = c.retry /\ rows[r].retry = hand[d].retry
    BY <1>3, <2>1 DEF LeaderKnows
  <2>3. /\ c = [row |-> c.row, retry |-> c.retry]
        /\ hand[d] = [row |-> hand[d].row, retry |-> hand[d].retry]
    BY <1>3, <2>1 DEF Copy
  <2> QED BY <2>1, <2>2, <2>3
<1>10. LeaderKnows(d)'
  <2>1. /\ pc'[d] \in {"mark", "poll"} /\ batch'[d] = rest
        /\ pc'[d] = "poll" => batch[d] = {hand[d]}
    BY <1>1
  <2>2. pc'[d] = "poll" => batch'[d] = {}
    BY <2>1
  <2>3. \A c \in batch'[d] : /\ c.row \in DOMAIN rows' /\ rows'[c.row].retry = c.retry
                              /\ c.retry < MaxRetries
    BY <1>4, <1>9, <2>1 DEF LeaderKnows
  <2> QED BY <1>2, <2>1, <2>2, <2>3 DEF LeaderKnows, InHand
<1> QED BY <1>1, <1>2, <1>5, <1>6, <1>7, <1>8, <1>10, OneDispatcherSteps

LEMMA InHandKnown ==
    ASSUME IInv, NEW d \in Dispatchers, InHand(d)
    PROVE  /\ hand[d] \in batch[d] /\ hand[d] \in Copy
           /\ hand[d].row \in DOMAIN rows /\ rows[hand[d].row] \in Row
           /\ rows[hand[d].row].retry = hand[d].retry
           /\ hand[d].retry \in Nat /\ hand[d].retry < MaxRetries
BY RowsTyped, Frame DEF LeaderKnows, Copy

LEMMA FinishStep ==
    ASSUME IInv, Once = {}, NEW d \in Dispatchers, Finish(d)
    PROVE  IInv'
<1> DEFINE x == [rows[hand[d].row] EXCEPT !.status = "processed"]
<1>1. /\ pc[d] = "run" /\ todo[d] = {} /\ NextCopy(d)
      /\ SaveStatus(hand[d].row, "processed")
      /\ UNCHANGED <<acks, runs, dlq, lock, crashes>>
  BY DEF Finish
<1>2. InHand(d)
  BY <1>1 DEF InHand
<1>3. x \in Row /\ x.status = "processed" /\ x.retry < MaxRetries
  BY <1>2, InHandKnown DEF Row
<1>4. rows' = [rows EXCEPT ![hand[d].row] = x]
  BY <1>1, <1>2, InHandKnown, RowsTyped DEF SaveStatus
<1>5. \A h \in HandlerNames : <<hand[d].row, h>> \in acks
  BY <1>1, Frame DEF LeaderKnows
<1> HIDE DEF x
<1> QED BY <1>1, <1>2, <1>3, <1>4, <1>5, DoneStep

LEMMA RecordFailureStep ==
    ASSUME IInv, Once = {}, NEW d \in Dispatchers, RecordFailure(d)
    PROVE  IInv'
<1> DEFINE x == [rows[hand[d].row] EXCEPT !.status = "failed", !.retry = hand[d].retry + 1,
                                          !.due = FALSE]
<1>1. /\ pc[d] = "fail" /\ ~LastTry(d) /\ NextCopy(d)
      /\ rows' = [rows EXCEPT ![hand[d].row] =
                     [@ EXCEPT !.status = "failed", !.retry = hand[d].retry + 1,
                               !.due = FALSE]]
      /\ UNCHANGED <<acks, runs, dlq, lock, crashes>>
  BY DEF RecordFailure
<1>2. InHand(d)
  BY <1>1 DEF InHand
<1>3. hand[d].retry + 1 < MaxRetries /\ hand[d].retry + 1 \in 0..MaxRetries
  BY <1>1, <1>2, InHandKnown, RowsTyped DEF LastTry
<1>4. x \in Row /\ x.status = "failed" /\ x.retry < MaxRetries
  BY <1>2, <1>3, InHandKnown DEF Row
<1>5. rows' = [rows EXCEPT ![hand[d].row] = x]
  BY <1>1, <1>2, InHandKnown, RowsTyped
<1> HIDE DEF x
<1> QED BY <1>1, <1>2, <1>4, <1>5, DoneStep

LEMMA ToDlqStep ==
    ASSUME IInv, Once = {}, NEW d \in Dispatchers, ToDlq(d)
    PROVE  IInv'
<1> USE RowsTyped, Frame
<1> DEFINE letter == [row |-> hand[d].row, resolved |-> FALSE]
<1>1. /\ pc[d] = "fail" /\ LastTry(d) /\ dlq' = Append(dlq, letter)
      /\ pc' = [pc EXCEPT ![d] = "bury"]
      /\ UNCHANGED <<rows, acks, runs, lock, batch, hand, todo, crashes>>
  BY DEF ToDlq, GoesTo
<1>2. letter \in Letter
  BY <1>1, InHandKnown DEF Letter, InHand
<1>3. /\ dlq' \in Seq(Letter)
      /\ \A i \in DOMAIN dlq : i \in DOMAIN dlq' /\ dlq'[i] = dlq[i]
      /\ Len(dlq) + 1 \in DOMAIN dlq' /\ dlq'[Len(dlq) + 1] = letter
  BY <1>1, <1>2
<1>4. TypeOK'
  BY <1>1, <1>3 DEF TypeOK, Places
<1>5. EffectAtMostOnce' /\ ProcessedByAll'
  BY <1>1 DEF EffectAtMostOnce, ProcessedByAll
<1>6. GivenUpIsKept'
  BY <1>1, <1>3 DEF GivenUpIsKept
<1>7. LeaderKnows(d)'
  <2>1. pc'[d] = "bury" /\ LastTry(d)'
    BY <1>1 DEF LastTry
  <2>2. \E i \in DOMAIN dlq' : dlq'[i].row = hand'[d].row
    <3>1. letter.row = hand'[d].row
      BY <1>1
    <3> HIDE DEF letter
    <3> QED BY <1>3, <3>1
  <2>3. lock' = d /\ hand'[d] \in batch'[d]
    BY <1>1 DEF LeaderKnows, InHand
  <2>4. \A c \in batch'[d] : /\ c.row \in DOMAIN rows' /\ rows'[c.row].retry = c.retry
                              /\ c.retry < MaxRetries
    BY <1>1 DEF LeaderKnows
  <2> QED BY <2>1, <2>2, <2>3, <2>4 DEF LeaderKnows
<1> QED BY <1>1, <1>4, <1>5, <1>6, <1>7, OneDispatcherSteps

LEMMA BuryStep ==
    ASSUME IInv, Once = {}, NEW d \in Dispatchers, Bury(d)
    PROVE  IInv'
<1> DEFINE x == [rows[hand[d].row] EXCEPT !.status = "dlq", !.retry = hand[d].retry + 1]
<1>1. /\ pc[d] = "bury" /\ NextCopy(d)
      /\ rows' = [rows EXCEPT ![hand[d].row] =
                     [@ EXCEPT !.status = "dlq", !.retry = hand[d].retry + 1]]
      /\ UNCHANGED <<acks, runs, dlq, lock, crashes>>
  BY DEF Bury
<1>2. InHand(d)
  BY <1>1 DEF InHand
<1>3. LastTry(d) /\ \E i \in DOMAIN dlq : dlq[i].row = hand[d].row
  BY <1>1, Frame DEF LeaderKnows
<1>4. hand[d].retry + 1 = MaxRetries
  BY <1>2, <1>3, InHandKnown, RowsTyped DEF LastTry
<1>5. x \in Row /\ x.status = "dlq" /\ x.retry = MaxRetries
  <2>1. rows[hand[d].row] \in Row /\ hand[d].retry + 1 \in 0..MaxRetries
    BY <1>2, <1>4, InHandKnown, RowsTyped
  <2> QED BY <1>4, <2>1 DEF Row
<1>6. rows' = [rows EXCEPT ![hand[d].row] = x]
  BY <1>1, <1>2, InHandKnown, RowsTyped
<1> HIDE DEF x
<1> QED BY <1>1, <1>2, <1>3, <1>5, <1>6, DoneStep

LEMMA CrashStep ==
    ASSUME IInv, Once = {}, NEW d \in Dispatchers, Crash(d)
    PROVE  IInv'
<1> USE RowsTyped, Frame
<1>1. /\ pc[d] # "down" /\ crashes < MaxCrashes /\ crashes' = crashes + 1
      /\ lock' = (IF lock = d THEN Nobody ELSE lock)
      /\ batch' = [batch EXCEPT ![d] = {}] /\ hand' = [hand EXCEPT ![d] = NoCopy]
      /\ todo' = [todo EXCEPT ![d] = {}] /\ pc' = [pc EXCEPT ![d] = "down"]
      /\ UNCHANGED <<rows, acks, runs, dlq>>
  BY DEF Crash, GoesTo
<1>2. TypeOK'
  <2>1. crashes' \in 0..MaxCrashes /\ lock' \in Dispatchers \cup {Nobody}
    BY <1>1
  <2>2. /\ pc' \in [Dispatchers -> Places] /\ batch' \in [Dispatchers -> SUBSET Copy]
        /\ hand' \in [Dispatchers -> Copy \cup {NoCopy}]
        /\ todo' \in [Dispatchers -> SUBSET HandlerNames]
    BY <1>1 DEF Places
  <2> QED BY <1>1, <2>1, <2>2 DEF TypeOK
<1>3. EffectAtMostOnce' /\ ProcessedByAll' /\ GivenUpIsKept'
  BY <1>1 DEF EffectAtMostOnce, ProcessedByAll, GivenUpIsKept
<1>4. LeaderKnows(d)'
  <2>1. pc'[d] = "down" /\ batch'[d] = {}
    BY <1>1
  <2> QED BY <2>1 DEF LeaderKnows, InHand
<1> QED BY <1>1, <1>2, <1>3, <1>4, OneDispatcherSteps

-----------------------------------------------------------------------------
(* Producers, operators and the clock *)

LEMMA InsertAppends ==
    ASSUME IInv, NEW key \in Events \cup Nat, Insert(key)
    PROVE  /\ rows' \in Seq(Row) /\ Len(rows') <= MaxRows
           /\ \A r \in DOMAIN rows : r \in DOMAIN rows' /\ rows'[r] = rows[r]
           /\ \A r \in DOMAIN rows' : r \notin DOMAIN rows =>
                rows'[r].status = "pending" /\ rows'[r].retry = 0
<1> USE RowsTyped
<1>1. Len(rows) < MaxRows /\ rows' = Append(rows, NewRow(key))
  BY DEF Insert
<1>2. /\ NewRow(key) \in Row
      /\ NewRow(key).status = "pending" /\ NewRow(key).retry = 0
  BY DEF NewRow, Row
<1>3. rows' \in Seq(Row) /\ Len(rows') = Len(rows) + 1
  BY <1>1, <1>2
<1>4. \A r \in DOMAIN rows : r \in DOMAIN rows' /\ rows'[r] = rows[r]
  BY <1>1, <1>2
<1>5. ASSUME NEW r \in DOMAIN rows', r \notin DOMAIN rows
      PROVE  rows'[r] = NewRow(key)
  BY <1>1, <1>3, <1>5
<1> QED BY <1>1, <1>2, <1>3, <1>4, <1>5

LEMMA LetterResolved ==
    ASSUME IInv, NEW i \in DOMAIN dlq, dlq' = [dlq EXCEPT ![i].resolved = TRUE]
    PROVE  /\ dlq' \in Seq(Letter)
           /\ \A j \in DOMAIN dlq : j \in DOMAIN dlq' /\ dlq'[j].row = dlq[j].row
<1>1. dlq \in Seq(Letter)
  BY DEF IInv, TypeOK
<1>2. dlq[i] \in Letter
  BY <1>1
<1> DEFINE x == [dlq[i] EXCEPT !.resolved = TRUE]
<1>3. x \in Letter /\ x.row = dlq[i].row
  BY <1>2 DEF Letter
<1>4. dlq' = [dlq EXCEPT ![i] = x]
  BY <1>1
<1> HIDE DEF x
<1>5. dlq' \in Seq(Letter) /\ DOMAIN dlq' = DOMAIN dlq
  <2>1. DOMAIN dlq = 1..Len(dlq) /\ Len(dlq) \in Nat /\ \A j \in DOMAIN dlq : dlq[j] \in Letter
    BY <1>1
  <2>2. x \in Letter
    BY <1>3
  <2>3. dlq' \in [1..Len(dlq) -> Letter]
    BY <1>1, <1>4, <2>1, <2>2
  <2> QED BY <2>1, <2>3
<1>6. ASSUME NEW j \in DOMAIN dlq
      PROVE  dlq'[j].row = dlq[j].row
  BY <1>1, <1>3, <1>4
<1> QED BY <1>5, <1>6

LEMMA EmitStep ==
    ASSUME IInv, NEW e \in Events, Emit(e)
    PROVE  IInv'
<1>1. Insert(e) /\ UNCHANGED <<acks, runs, dlq, lock, pc, batch, hand, todo, crashes>>
  BY DEF Emit
<1>2. dlq' \in Seq(Letter) /\ crashes' \in 0..MaxCrashes
  BY <1>1 DEF IInv, TypeOK
<1> QED BY <1>1, <1>2, InsertAppends, OutsideSteps

LEMMA ReplayStep ==
    ASSUME IInv, NEW i \in DOMAIN dlq, Replay(i)
    PROVE  IInv'
<1>1. Insert(i) /\ UNCHANGED <<acks, runs, lock, pc, batch, hand, todo>>
  BY DEF Replay
<1>2. dlq \in Seq(Letter) /\ crashes \in 0..MaxCrashes /\ MaxCrashes \in Nat
  BY RowsTyped DEF IInv, TypeOK
<1>3. i \in Nat
  BY <1>2
<1>4. CASE dlq' = [dlq EXCEPT ![i].resolved = TRUE] /\ UNCHANGED crashes
  <2>1. crashes' \in 0..MaxCrashes
    BY <1>2, <1>4
  <2> QED BY <1>1, <1>3, <1>4, <2>1, LetterResolved, InsertAppends, OutsideSteps
<1>5. CASE crashes < MaxCrashes /\ crashes' = crashes + 1 /\ UNCHANGED dlq
  <2>1. crashes' \in 0..MaxCrashes /\ dlq' \in Seq(Letter)
    BY <1>2, <1>5
  <2> QED BY <1>1, <1>3, <1>5, <2>1, InsertAppends, OutsideSteps
<1> QED BY <1>4, <1>5 DEF Replay

LEMMA ResolveStep ==
    ASSUME IInv, NEW i \in DOMAIN dlq, Resolve(i)
    PROVE  IInv'
<1>1. /\ dlq' = [dlq EXCEPT ![i].resolved = TRUE]
      /\ UNCHANGED <<rows, acks, runs, lock, pc, batch, hand, todo, crashes>>
  BY DEF Resolve
<1>2. rows' \in Seq(Row) /\ Len(rows') <= MaxRows /\ crashes' \in 0..MaxCrashes
  BY <1>1 DEF IInv, TypeOK
<1> QED BY <1>1, <1>2, LetterResolved, OutsideSteps

LEMMA ElapseStep ==
    ASSUME IInv, NEW r \in DOMAIN rows, Elapse(r)
    PROVE  IInv'
<1> DEFINE x == [rows[r] EXCEPT !.due = TRUE]
<1>1. /\ rows' = [rows EXCEPT ![r].due = TRUE]
      /\ UNCHANGED <<acks, runs, dlq, lock, pc, batch, hand, todo, crashes>>
  BY DEF Elapse
<1>2. rows[r] \in Row
  BY RowsTyped
<1>3. x \in Row /\ x.status = rows[r].status /\ x.retry = rows[r].retry
  BY <1>2 DEF Row
<1>4. rows' = [rows EXCEPT ![r] = x]
  BY <1>1, RowsTyped
<1> HIDE DEF x
<1>5. /\ rows' \in Seq(Row) /\ Len(rows') <= MaxRows /\ DOMAIN rows' = DOMAIN rows
      /\ \A q \in DOMAIN rows : rows'[q].status = rows[q].status /\ rows'[q].retry = rows[q].retry
  BY <1>3, <1>4, RowWritten
<1>6. dlq' \in Seq(Letter) /\ crashes' \in 0..MaxCrashes
  BY <1>1 DEF IInv, TypeOK
<1> QED BY <1>1, <1>5, <1>6, OutsideSteps

-----------------------------------------------------------------------------
(* The theorems *)

LEMMA InvInit ==
    ASSUME Init
    PROVE  IInv
<1> USE OutboxAssumption DEF Init
<1>1. TypeOK
  BY DEF TypeOK, Places, RowIds
<1>2. EffectAtMostOnce /\ ProcessedByAll /\ GivenUpIsKept
  BY DEF EffectAtMostOnce, ProcessedByAll, GivenUpIsKept
<1>3. \A d \in Dispatchers : LeaderKnows(d)
  BY DEF LeaderKnows, InHand
<1> QED BY <1>1, <1>2, <1>3 DEF IInv

LEMMA InvStep ==
    ASSUME IInv, Once = {}, [Next]_vars
    PROVE  IInv'
<1>1. CASE UNCHANGED vars
  BY <1>1 DEF vars, IInv, TypeOK, EffectAtMostOnce, ProcessedByAll, GivenUpIsKept,
              LeaderKnows, InHand, LastTry
<1>2. ASSUME NEW e \in Events, Emit(e) PROVE IInv'
  BY <1>2, EmitStep
<1>3. ASSUME NEW i \in DOMAIN dlq, Replay(i) \/ Resolve(i) PROVE IInv'
  BY <1>3, ReplayStep, ResolveStep
<1>4. ASSUME NEW r \in DOMAIN rows, Elapse(r) PROVE IInv'
  BY <1>4, ElapseStep
<1>5. ASSUME NEW d \in Dispatchers, Work(d) PROVE IInv'
  <2>1. ASSUME NEW h \in HandlerNames, RunHandler(d, h) \/ Skip(d, h) \/ HandlerFails(d, h)
        PROVE  IInv'
    BY <2>1, RunHandlerStep, HandlerFailsStep
  <2>2. CASE Start(d) \/ Poll(d) \/ Mark(d) \/ ReadAcks(d)
    BY <2>2, StartStep, PollStep, MarkStep, ReadAcksStep
  <2>3. CASE Finish(d) \/ RecordFailure(d) \/ ToDlq(d) \/ Bury(d)
    BY <2>3, FinishStep, RecordFailureStep, ToDlqStep, BuryStep
  <2> QED BY <1>5, <2>1, <2>2, <2>3 DEF Work
<1>6. ASSUME NEW d \in Dispatchers, Crash(d) PROVE IInv'
  BY <1>6, CrashStep
<1> QED BY <1>1, <1>2, <1>3, <1>4, <1>5, <1>6 DEF Next

LEMMA OneHolder ==
    ASSUME IInv
    PROVE  DeliverySound
<1>1. ASSUME NEW c \in Leaders, NEW d \in Leaders, c # d
      PROVE  FALSE
  BY <1>1 DEF Leaders, IInv, LeaderKnows
<1> QED BY <1>1 DEF IInv, DeliverySound, BatchesDisjoint

\* The strengthened invariant of the outbox holds throughout, when no dispatcher runs with --once.
THEOREM Inductive == ASSUME Once = {} PROVE Spec => []IInv
<1>1. Init => IInv
  BY InvInit
<1>2. IInv /\ [Next]_vars => IInv'
  BY InvStep
<1> QED BY <1>1, <1>2, PTL DEF Spec

\* At-least-once delivery with effects at most once (dispatcher.py, ADR-0003): whatever
\* crashes, failures and replays there are, an effect is committed once and acknowledged,
\* a processed row was acknowledged by every handler, and no row is in two batches.
THEOREM DeliveryIsSound == ASSUME Once = {} PROVE Spec => []DeliverySound
BY Inductive, OneHolder, PTL

\* _record_failure and _to_dlq: a row is given up after exactly MAX_RETRIES failures,
\* and never without its dead letter.
THEOREM NothingIsGivenUpSilently == ASSUME Once = {} PROVE Spec => []GivenUpIsKept
<1>1. IInv => GivenUpIsKept
  BY DEF IInv
<1> QED BY <1>1, Inductive, PTL

-----------------------------------------------------------------------------
(* Rows and threads *)

Steps == {"idle", "lookup", "commit", "store", "grant", "insert"}
Job == [command : Commands \cup {"none"}, phase : {"idle", "page", "checkpoint", "end"},
        dry_run : BOOLEAN, after : {0} \cup Rows, errors : SUBSET Rows]

Typed ==
    /\ offer \in Offers
    /\ step \in [Procs -> Steps] /\ at = [p \in Procs |-> at[p]]
    /\ orders \in Seq(Order) /\ memberships \in Seq(UserMembership)
    /\ now \in 0..MaxTime
    /\ overlapped \in BOOLEAN
    /\ job \in Job

Inv == Typed /\ EntitledInv

LEMMA Known ==
    ASSUME Inv
    PROVE  /\ Typed /\ AnswersKnown /\ Covered /\ PaidAndGranted /\ LTypeOK /\ ImportKnows
           /\ \A p \in Procs : RequestKnows(p) /\ DeliveryKnows(p)
BY DEF Inv, EntitledInv, AnswersKnown

LEMMA Went ==
    ASSUME Typed, NEW p \in Procs, NEW s \in Steps, NEW x, Goto(p, s, x)
    PROVE  /\ step' \in [Procs -> Steps] /\ at' = [q \in Procs |-> at'[q]]
           /\ step'[p] = s /\ at'[p] = x
           /\ \A q \in Procs : q # p => step'[q] = step[q] /\ at'[q] = at[q]
BY DEF Typed, Goto

LEMMA OrderWritten ==
    ASSUME Typed, NEW i \in DOMAIN orders, NEW new \in Order, orders' = [orders EXCEPT ![i] = new]
    PROVE  /\ orders' \in Seq(Order) /\ DOMAIN orders' = DOMAIN orders /\ orders'[i] = new
           /\ \A j \in DOMAIN orders : j # i => orders'[j] = orders[j]
BY DEF Typed

LEMMA Rewritten ==
    ASSUME NEW S, NEW s \in Seq(S), NEW t, t = [i \in DOMAIN s |-> t[i]],
           \A i \in DOMAIN s : t[i] \in S
    PROVE  t \in Seq(S) /\ DOMAIN t = DOMAIN s /\ Len(t) = Len(s)
<1>1. DOMAIN s = 1..Len(s) /\ Len(s) \in Nat
  OBVIOUS
<1>2. t \in [1..Len(s) -> S]
  BY <1>1
<1> QED BY <1>1, <1>2

LEMMA Appended ==
    ASSUME NEW S, NEW s \in Seq(S), NEW e \in S, NEW t, t = Append(s, e)
    PROVE  /\ t \in Seq(S) /\ DOMAIN t = DOMAIN s \cup {Len(s) + 1} /\ Len(s) + 1 \notin DOMAIN s
           /\ t[Len(s) + 1] = e /\ \A i \in DOMAIN s : t[i] = s[i]
OBVIOUS

-----------------------------------------------------------------------------
(* Requests: what was found stays *)

Grows ==
    /\ gifts \subseteq gifts' /\ unlocks \subseteq unlocks'
    /\ DOMAIN orders \subseteq DOMAIN orders'
    /\ \A i \in DOMAIN orders : orders'[i].key = orders[i].key

LEMMA FoundStays ==
    ASSUME Grows, NEW r, Found(r)
    PROVE  Found(r)'
BY DEF Grows, Found

\* The amount does not matter.
LEMMA FoundByKey ==
    ASSUME NEW r \in Requests
    PROVE  /\ Found(r) => Found(CacheKey(r)) /\ Found(Answer(r))
           /\ CacheKey(r) = Answer(r)
<1> DEFINE new == [r EXCEPT !.amount = 0]
<1>1. new.path = r.path /\ new.key = r.key /\ new.episode = r.episode
  BY DEF Requests
<1>2. CacheKey(r) = new /\ Answer(r) = new
  BY DEF CacheKey, Answer
<1> HIDE DEF new
<1> QED BY <1>1, <1>2 DEF Found

\* A thread that does not move knows what it knew.
LEMMA RequestWaits ==
    ASSUME Inv, Grows, NEW p \in Procs, step'[p] = step[p], at'[p] = at[p]
    PROVE  RequestKnows(p)'
<1>1. RequestKnows(p)
  BY Known
<1>2. Found(at[p]) => Found(at[p])'
  BY FoundStays
<1> QED BY <1>1, <1>2 DEF RequestKnows, Found

LEMMA AnswersStay ==
    ASSUME Inv, Grows, UNCHANGED answered, cache' \subseteq cache,
           \A p \in Procs : RequestKnows(p)'
    PROVE  AnswersKnown'
<1>1. ASSUME NEW r \in answered \cup cache PROVE Found(r)'
  BY <1>1, Known, FoundStays DEF AnswersKnown
<1> QED BY <1>1 DEF AnswersKnown, Found

LEMMA AnswerAdded ==
    ASSUME Inv, Grows, \A p \in Procs : RequestKnows(p)', NEW r \in Requests, Found(r),
           answered' \subseteq answered \cup {Answer(r)}, cache' \subseteq cache \cup {CacheKey(r)}
    PROVE  AnswersKnown'
<1>1. ASSUME NEW x \in answered \cup cache \cup {Answer(r), CacheKey(r)} PROVE Found(x)'
  <2>1. Found(x)
    BY <1>1, Known, FoundByKey DEF AnswersKnown
  <2> QED BY <2>1, FoundStays
<1> QED BY <1>1 DEF AnswersKnown

-----------------------------------------------------------------------------
(* Deliveries and memberships *)

OrdersOnward ==
    /\ DOMAIN orders \subseteq DOMAIN orders'
    /\ \A i \in DOMAIN orders :
         /\ orders'[i].status = orders[i].status
         /\ orders[i].event # "none" => orders'[i].event # "none"
    /\ \A i \in DOMAIN orders' : i \notin DOMAIN orders => orders'[i].status # "paid"

LEMMA MembersRest ==
    ASSUME Inv, OrdersOnward, UNCHANGED <<memberships, now, refs>>, overlapped => overlapped'
    PROVE  Covered' /\ PaidAndGranted'
<1>1. Covered /\ PaidAndGranted
  BY Known
<1>2. Covered'
  BY <1>1 DEF Covered, OrdersOnward, Purchased, EndsAt, Active, Migrated
<1>3. ASSUME NEW i \in DOMAIN orders'
      PROVE  /\ (orders'[i].status = "paid") <=>
                  \E j \in DOMAIN memberships : Purchased(j) /\ memberships[j].ref = i
             /\ orders'[i].status = "paid" => orders'[i].event # "none"
  <2>1. CASE i \in DOMAIN orders
    BY <1>1, <2>1 DEF PaidAndGranted, OrdersOnward
  <2>2. CASE i \notin DOMAIN orders
    BY <1>1, <1>3, <2>2 DEF Covered, OrdersOnward
  <2> QED BY <2>1, <2>2
<1>4. PaidAndGranted'
  BY <1>1, <1>3 DEF PaidAndGranted, BoughtActive, Active, Purchased
<1> QED BY <1>2, <1>4

LEMMA DeliveryWaits ==
    ASSUME Inv, OrdersOnward, UNCHANGED memberships, overlapped => overlapped',
           NEW q \in Procs, step'[q] = step[q], at'[q] = at[q],
           Granting(q) /\ ~overlapped' => \A r \in Procs : Granting(r)' => Granting(r)
    PROVE  DeliveryKnows(q)'
<1>1. DeliveryKnows(q)
  BY Known
<1> QED BY <1>1 DEF DeliveryKnows, OrdersOnward, Granting, BoughtActive, Active, Purchased

\* A step of the platform: the import rests.
LEMMA PlatformSteps ==
    ASSUME Inv, UNCHANGED lvars, Typed', AnswersKnown', \A p \in Procs : DeliveryKnows(p)',
           Covered', PaidAndGranted'
    PROVE  Inv'
<1>1. LTypeOK' /\ ImportKnows'
  BY Known DEF lvars, LTypeOK, ImportKnows, Loaded, UpTo, Page, Rows
<1> QED BY <1>1 DEF Inv, EntitledInv

\* A step of a request that touches no membership.
LEMMA RequestSteps ==
    ASSUME Inv, NEW p \in Procs, UNCHANGED lvars, UNCHANGED <<offer, memberships, now, overlapped>>,
           orders' \in Seq(Order), OrdersOnward, Grows,
           NEW s \in {"idle", "lookup", "commit", "store"}, NEW x, Goto(p, s, x),
           step[p] \in {"idle", "lookup", "commit", "store"},
           s # "idle" => x \in Requests /\ (s = "store" => Found(x)'),
           \/ UNCHANGED <<answered, cache>>
           \/ /\ step[p] = "store" /\ answered' \subseteq answered \cup {Answer(at[p])}
              /\ cache' \subseteq cache \cup {CacheKey(at[p])}
    PROVE  Inv'
<1> USE Known
<1>1. /\ step' \in [Procs -> Steps] /\ at' = [q \in Procs |-> at'[q]]
      /\ step'[p] = s /\ at'[p] = x
      /\ \A q \in Procs : q # p => step'[q] = step[q] /\ at'[q] = at[q]
  BY Went DEF Steps
<1>2. Typed'
  BY <1>1 DEF Typed, lvars, Job, Rows
<1>3. RequestKnows(p)'
  BY <1>1 DEF RequestKnows, Found
<1>4. \A q \in Procs : RequestKnows(q)'
  BY <1>1, <1>3, RequestWaits
<1>5. AnswersKnown'
  <2>1. CASE UNCHANGED <<answered, cache>>
    BY <1>4, <2>1, AnswersStay
  <2>2. CASE /\ step[p] = "store" /\ answered' \subseteq answered \cup {Answer(at[p])}
             /\ cache' \subseteq cache \cup {CacheKey(at[p])}
    <3>1. RequestKnows(p)
      OBVIOUS
    <3>2. at[p] \in Requests /\ Found(at[p])
      BY <2>2, <3>1 DEF RequestKnows
    <3> QED BY <1>4, <2>2, <3>2, AnswerAdded
  <2> QED BY <2>1, <2>2
<1>6. \A q \in Procs : Granting(q)' => Granting(q)
  BY <1>1 DEF Granting
<1>7. \A q \in Procs : DeliveryKnows(q)'
  <2>1. DeliveryKnows(p)'
    BY <1>1 DEF DeliveryKnows, Granting
  <2> QED BY <1>1, <1>6, <2>1, DeliveryWaits
<1>8. Covered' /\ PaidAndGranted'
  BY MembersRest DEF lvars
<1> QED BY <1>2, <1>5, <1>7, <1>8, PlatformSteps

LEMMA OrdersRest ==
    ASSUME Inv, UNCHANGED orders
    PROVE  OrdersOnward /\ orders' \in Seq(Order)
BY Known DEF OrdersOnward, Typed

LEMMA Later ==
    \A a, b, c \in Nat : /\ a + c \in Nat /\ b + c \in Nat
                         /\ a <= b => a + c <= b + c
OBVIOUS

LEMMA EndsLater ==
    ASSUME now \in Nat, now' \in Nat, now <= now'
    PROVE  EndsAt <= EndsAt' /\ EndsAt \in Nat /\ EndsAt' \in Nat
<1>1. PlanDays \in Nat /\ MaxTime \in Nat
  BY EntitlementsAssumption
<1>2. Forever \in Nat
  BY <1>1 DEF Forever
<1>3. CASE PlanDays = 0
  BY <1>2, <1>3 DEF EndsAt
<1>4. CASE PlanDays # 0
  <2>1. EndsAt = now + PlanDays /\ EndsAt' = now' + PlanDays
    BY <1>4 DEF EndsAt
  <2>2. /\ now + PlanDays <= now' + PlanDays
        /\ now + PlanDays \in Nat /\ now' + PlanDays \in Nat
    BY <1>1, Later
  <2> QED BY <2>1, <2>2
<1> QED BY <1>3, <1>4

LEMMA EndsTyped ==
    ASSUME Typed, NEW i \in DOMAIN memberships
    PROVE  memberships[i].ends_at \in Nat /\ memberships[i].ends_at <= Forever
           /\ memberships[i].source \in {"purchase", "migration"}
<1>1. PlanDays \in Nat /\ MaxTime \in Nat
  BY EntitlementsAssumption
<1>2. Forever \in Nat
  BY <1>1 DEF Forever
<1>3. memberships[i] \in UserMembership
  BY DEF Typed
<1> QED BY <1>2, <1>3 DEF UserMembership

LEMMA NobodyMoves ==
    ASSUME Inv, UNCHANGED <<lvars, offer, memberships, overlapped, step, at>>,
           \A r \in answered' \cup cache' : Found(r)',
           orders' \in Seq(Order), OrdersOnward, Grows,
           now' \in 0..MaxTime, now <= now'
    PROVE  Inv'
<1> USE Known
<1>1. Typed'
  BY DEF Typed, lvars, Job, Rows
<1>2. \A q \in Procs : RequestKnows(q)' /\ DeliveryKnows(q)'
  BY RequestWaits, DeliveryWaits DEF Granting
<1>3. AnswersKnown'
  BY <1>2 DEF AnswersKnown
<1>4. Covered'
  <2>1. now \in Nat /\ now' \in Nat /\ PlanDays \in Nat /\ MaxTime \in Nat
    BY EntitlementsAssumption DEF Typed
  <2>2. EndsAt <= EndsAt' /\ EndsAt \in Nat /\ EndsAt' \in Nat
    BY <2>1, EndsLater
  <2>3. ASSUME NEW i \in DOMAIN memberships PROVE memberships[i].ends_at \in Nat
    BY EndsTyped
  <2>4. ASSUME NEW i \in DOMAIN memberships, memberships[i].ends_at <= EndsAt
        PROVE  memberships[i].ends_at <= EndsAt'
    BY <2>2, <2>3, <2>4
  <2> QED BY <2>4 DEF Covered, OrdersOnward, Purchased, Active, Migrated, lvars
<1>5. PaidAndGranted'
  <2>1. ASSUME NEW i \in DOMAIN orders'
        PROVE  /\ (orders'[i].status = "paid") <=>
                    \E j \in DOMAIN memberships : Purchased(j) /\ memberships[j].ref = i
               /\ orders'[i].status = "paid" => orders'[i].event # "none"
    <3>1. CASE i \in DOMAIN orders
      BY <3>1 DEF PaidAndGranted, OrdersOnward
    <3>2. CASE i \notin DOMAIN orders
      BY <2>1, <3>2 DEF Covered, OrdersOnward
    <3> QED BY <3>1, <3>2
  <2> QED BY <2>1 DEF PaidAndGranted, BoughtActive, Active, Purchased
<1> QED BY <1>1, <1>2, <1>3, <1>4, <1>5, PlatformSteps

-----------------------------------------------------------------------------
(* Requests *)

LEMMA NothingWritten ==
    ASSUME Inv, UNCHANGED <<gifts, unlocks, orders>>
    PROVE  Grows /\ OrdersOnward /\ orders' \in Seq(Order) /\ now <= now
<1>1. now \in Int
  BY Known DEF Typed
<1> QED BY <1>1, Known DEF Grows, OrdersOnward, Typed

LEMMA AnswersKept ==
    ASSUME Inv, Grows
    PROVE  \A r \in answered \cup cache : Found(r)'
BY Known, FoundStays DEF AnswersKnown

LEMMA Called ==
    ASSUME Inv, NEW p \in Procs, Call(p), UNCHANGED lvars
    PROVE  Inv'
<1> USE Known
<1>1. step[p] = "idle" /\ UNCHANGED <<offer, gifts, unlocks, orders, memberships, now, overlapped, cache>>
  BY DEF Call, content, member
<1>2. Grows /\ OrdersOnward /\ orders' \in Seq(Order) /\ now <= now
  BY <1>1, NothingWritten
<1>3. PICK r \in Requests :
        IF CacheKey(r) \in cache
        THEN answered' = answered \cup {Answer(r)} /\ UNCHANGED <<step, at>>
        ELSE Goto(p, "lookup", r) /\ UNCHANGED answered
  BY DEF Call
<1>4. CASE CacheKey(r) \in cache
  <2>1. Found(Answer(r))
    BY <1>4, FoundByKey DEF AnswersKnown
  <2>2. Found(Answer(r))'
    BY <1>2, <2>1, FoundStays
  <2>3. \A x \in answered' \cup cache' : Found(x)'
    BY <1>1, <1>2, <1>3, <1>4, <2>2, AnswersKept
  <2> QED BY <1>1, <1>2, <1>3, <1>4, <2>3, NobodyMoves DEF Typed
<1>5. CASE CacheKey(r) \notin cache
  BY <1>1, <1>2, <1>3, <1>5, RequestSteps
<1> QED BY <1>4, <1>5

LEMMA Stored ==
    ASSUME Inv, NEW p \in Procs, Store(p), UNCHANGED lvars
    PROVE  Inv'
<1>1. /\ step[p] = "store" /\ Goto(p, "idle", None)
      /\ cache' = cache \cup {CacheKey(at[p])} /\ answered' = answered \cup {Answer(at[p])}
      /\ UNCHANGED <<offer, gifts, unlocks, orders, memberships, now, overlapped>>
  BY DEF Store, Leave, content, member
<1> QED BY <1>1, NothingWritten, RequestSteps

LEMMA GivenUp ==
    ASSUME Inv, NEW p \in Procs, GiveUp(p), UNCHANGED lvars
    PROVE  Inv'
<1>1. /\ step[p] \in {"commit", "store"} /\ Goto(p, "idle", None)
      /\ UNCHANGED <<offer, gifts, unlocks, orders, memberships, now, overlapped, answered, cache>>
  BY DEF GiveUp, Leave, content, member
<1> QED BY <1>1, NothingWritten, RequestSteps

LEMMA LookedUp ==
    ASSUME Inv, NEW p \in Procs, Lookup(p), UNCHANGED lvars
    PROVE  Inv'
<1>1. /\ step[p] = "lookup"
      /\ UNCHANGED <<offer, gifts, unlocks, orders, memberships, now, overlapped, answered, cache>>
  BY DEF Lookup, content, member
<1>2. at[p] \in Requests
  BY <1>1, Known DEF RequestKnows
<1>3. Grows /\ OrdersOnward /\ orders' \in Seq(Order)
  BY <1>1, NothingWritten
<1>4. \/ Found(at[p]) /\ Goto(p, "store", at[p])
      \/ Goto(p, "idle", None) \/ Goto(p, "commit", at[p])
  BY DEF Lookup, Leave
<1>5. CASE Found(at[p]) /\ Goto(p, "store", at[p])
  <2> DEFINE r == at[p]
  <2>1. r \in Requests /\ Found(r) /\ Goto(p, "store", r)
    BY <1>2, <1>5
  <2>2. at'[p] = r
    BY <1>5, Went, Known DEF Steps
  <2>3. ASSUME NEW x, Found(x) PROVE Found(x)'
    BY <1>3, <2>3, FoundStays
  <2> HIDE DEF r
  <2>4. ASSUME NEW x \in Requests, Found(x), Goto(p, "store", x) PROVE Inv'
    BY <1>1, <1>3, <2>3, <2>4, RequestSteps
  <2> QED BY <2>1, <2>4
<1>6. CASE Goto(p, "idle", None)
  BY <1>1, <1>3, <1>6, RequestSteps
<1>7. CASE Goto(p, "commit", at[p])
  <2>1. ASSUME NEW x \in Requests, Goto(p, "commit", x) PROVE Inv'
    BY <1>1, <1>3, <2>1, RequestSteps
  <2> QED BY <1>2, <1>7, <2>1
<1> QED BY <1>4, <1>5, <1>6, <1>7

\* A transaction that leaves what was asked for.
LEMMA Committed ==
    ASSUME Inv, NEW p \in Procs, step[p] = "commit", Goto(p, "store", at[p]),
           UNCHANGED <<offer, memberships, now, overlapped, answered, cache>>,
           UNCHANGED lvars, orders' \in Seq(Order), OrdersOnward, Grows,
           \A x : x = at[p] => Found(x)'
    PROVE  Inv'
<1>1. at[p] \in Requests
  BY Known DEF RequestKnows
<1>2. ASSUME NEW x \in Requests, x = at[p], Goto(p, "store", x) PROVE Inv'
  <2>1. Found(x)'
    BY <1>2
  <2> QED BY <1>2, <2>1, RequestSteps
<1> QED BY <1>1, <1>2

LEMMA GiftSent ==
    ASSUME Inv, NEW p \in Procs, SendGift(p), UNCHANGED lvars
    PROVE  Inv'
<1> DEFINE new == [key |-> at[p].key, amount |-> at[p].amount, receiver |-> "owner"]
<1>1. /\ step[p] = "commit" /\ at[p].path = "gift" /\ Goto(p, "store", at[p])
      /\ gifts' = gifts \cup {new}
      /\ UNCHANGED <<offer, unlocks, orders, memberships, now, overlapped, answered, cache>>
  BY DEF SendGift, member
<1>2. OrdersOnward /\ orders' \in Seq(Order)
  BY <1>1, OrdersRest
<1>3. new.key = at[p].key
  OBVIOUS
<1> HIDE DEF new
<1>4. Grows
  BY <1>1 DEF Grows
<1>5. ASSUME NEW x, x = at[p] PROVE Found(x)'
  BY <1>1, <1>3, <1>5 DEF Found
<1> QED BY <1>1, <1>2, <1>4, <1>5, Committed

LEMMA EpisodeUnlocked ==
    ASSUME Inv, NEW p \in Procs, UnlockEpisode(p), UNCHANGED lvars
    PROVE  Inv'
<1>1. /\ step[p] = "commit" /\ at[p].path = "unlock" /\ Goto(p, "store", at[p])
      /\ unlocks' = unlocks \cup {at[p].episode}
      /\ UNCHANGED <<offer, gifts, orders, memberships, now, overlapped, answered, cache>>
  BY DEF UnlockEpisode, member
<1>2. OrdersOnward /\ orders' \in Seq(Order)
  BY <1>1, OrdersRest
<1>3. Grows
  BY <1>1 DEF Grows
<1>4. ASSUME NEW x, x = at[p] PROVE Found(x)'
  BY <1>1, <1>4 DEF Found
<1> QED BY <1>1, <1>2, <1>3, <1>4, Committed

LEMMA OrderCreated ==
    ASSUME Inv, NEW p \in Procs, CreateOrder(p), UNCHANGED lvars
    PROVE  Inv'
<1>1. /\ step[p] = "commit" /\ at[p].path = "order" /\ Goto(p, "store", at[p])
      /\ UNCHANGED <<offer, gifts, unlocks, memberships, now, overlapped, answered, cache>>
  BY DEF CreateOrder, content
<1>2. PICK provider \in {"wallet", "stripe"} :
        orders' = Append(orders, [key |-> at[p].key, status |-> "pending_payment",
                                  provider |-> provider, tries |-> 0,
                                  event |-> IF provider = "wallet" THEN "pending" ELSE "none"])
  BY DEF CreateOrder
<1> DEFINE new == [key |-> at[p].key, status |-> "pending_payment", provider |-> provider, tries |-> 0,
                   event |-> IF provider = "wallet" THEN "pending" ELSE "none"]
<1>3. at[p] \in Requests
  BY <1>1, Known DEF RequestKnows
<1>4. at[p].key \in Keys
  <2>1. ASSUME NEW r \in Requests PROVE r.key \in Keys
    BY DEF Requests
  <2> QED BY <1>3, <2>1
<1>5. new \in Order /\ new.key = at[p].key /\ new.status = "pending_payment"
  BY <1>4 DEF Order
<1> HIDE DEF new
<1>6. /\ orders' \in Seq(Order) /\ DOMAIN orders' = DOMAIN orders \cup {Len(orders) + 1}
      /\ Len(orders) + 1 \notin DOMAIN orders /\ orders'[Len(orders) + 1] = new
      /\ \A i \in DOMAIN orders : orders'[i] = orders[i]
  <2>1. orders \in Seq(Order) /\ orders' = Append(orders, new)
    BY <1>2, Known DEF Typed, new
  <2> QED BY <1>5, <2>1, Appended
<1>7. OrdersOnward
  BY <1>5, <1>6 DEF OrdersOnward
<1>8. Grows
  BY <1>1, <1>6 DEF Grows
<1>9. ASSUME NEW x, x = at[p] PROVE Found(x)'
  BY <1>1, <1>5, <1>6, <1>9 DEF Found
<1> QED BY <1>1, <1>6, <1>7, <1>8, <1>9, Committed

LEMMA OutsideActs ==
    ASSUME Inv, Evict \/ NextDay \/ Withdraw, UNCHANGED lvars
    PROVE  Inv'
<1>1. UNCHANGED <<offer, gifts, unlocks, orders, memberships, overlapped, step, at, answered>>
      /\ cache' \subseteq cache
  BY DEF Evict, NextDay, Withdraw, content, member
<1>2. Grows /\ OrdersOnward /\ orders' \in Seq(Order)
  BY <1>1, NothingWritten
<1>3. \A x \in answered' \cup cache' : Found(x)'
  BY <1>1, <1>2, AnswersKept
<1>4. now' \in 0..MaxTime /\ now <= now'
  <2>1. now \in 0..MaxTime /\ MaxTime \in Nat
    BY Known, EntitlementsAssumption DEF Typed
  <2>2. now' = now \/ (now < MaxTime /\ now' = now + 1)
    BY DEF Evict, NextDay, Withdraw, member
  <2> QED BY <2>1, <2>2
<1> QED BY <1>1, <1>2, <1>3, <1>4, NobodyMoves

-----------------------------------------------------------------------------
(* Deliveries *)

\* The order's event goes on; its key and status stay.
EventWritten(i, new) ==
    /\ new \in Order /\ new.key = orders[i].key /\ new.status = orders[i].status
    /\ new.event # "none" /\ orders' = [orders EXCEPT ![i] = new]

LEMMA EventOnward ==
    ASSUME Inv, NEW i \in DOMAIN orders, NEW new, EventWritten(i, new), UNCHANGED <<gifts, unlocks>>
    PROVE  /\ orders' \in Seq(Order) /\ DOMAIN orders' = DOMAIN orders /\ OrdersOnward /\ Grows
<1>1. /\ orders' \in Seq(Order) /\ DOMAIN orders' = DOMAIN orders /\ orders'[i] = new
      /\ \A j \in DOMAIN orders : j # i => orders'[j] = orders[j]
  BY Known, OrderWritten DEF EventWritten
<1> QED BY <1>1 DEF EventWritten, OrdersOnward, Grows

\* The columns of an order, written.
LEMMA EventColumn ==
    ASSUME NEW o \in Order, NEW e \in {"pending", "settled", "dead"}
    PROVE  /\ LET new == [o EXCEPT !.event = e]
              IN  new \in Order /\ new.key = o.key /\ new.status = o.status /\ new.event = e
           /\ LET new == [o EXCEPT !.status = "paid"]
              IN  new \in Order /\ new.key = o.key /\ new.status = "paid" /\ new.event = o.event
BY DEF Order

LEMMA OrderColumns ==
    ASSUME Typed, NEW i \in DOMAIN orders
    PROVE  /\ orders[i] \in Order /\ orders[i].tries \in Nat
           /\ orders[i].event \in {"none", "pending", "settled", "dead"}
<1>1. orders[i] \in Order
  BY DEF Typed
<1>2. ASSUME NEW o \in Order
      PROVE  o.tries \in Nat /\ o.event \in {"none", "pending", "settled", "dead"}
  BY DEF Order
<1> QED BY <1>1, <1>2

LEMMA StripeSettled ==
    ASSUME Inv, NEW i \in DOMAIN orders, SettleStripe(i), UNCHANGED lvars
    PROVE  Inv'
<1> DEFINE new == [orders[i] EXCEPT !.event = "pending"]
<1>1. orders' = [orders EXCEPT ![i] = new]
      /\ UNCHANGED <<offer, gifts, unlocks, memberships, now, overlapped, step, at, answered, cache>>
  BY DEF SettleStripe, content
<1>2. EventWritten(i, new)
  BY <1>1, Known, OrderColumns, EventColumn DEF EventWritten
<1> HIDE DEF new
<1>3. orders' \in Seq(Order) /\ OrdersOnward /\ Grows
  BY <1>1, <1>2, EventOnward
<1>4. \A x \in answered' \cup cache' : Found(x)'
  BY <1>1, <1>3, AnswersKept
<1>5. now \in 0..MaxTime /\ now <= now
  BY Known DEF Typed
<1> QED BY <1>1, <1>3, <1>4, <1>5, NobodyMoves

\* A step of a delivery that leaves the memberships.
LEMMA DeliverySteps ==
    ASSUME Inv, NEW p \in Procs, UNCHANGED lvars,
           UNCHANGED <<offer, memberships, now, answered, cache>>,
           overlapped' \in BOOLEAN, overlapped => overlapped',
           orders' \in Seq(Order), OrdersOnward, Grows,
           NEW s \in {"idle", "grant", "insert"}, NEW x, Goto(p, s, x),
           DeliveryKnows(p)',
           \/ \A r \in Procs \ {p} : ~Granting(r)
           \/ overlapped' \/ s = "idle" \/ Granting(p)
    PROVE  Inv'
<1> USE Known
<1>1. /\ step' \in [Procs -> Steps] /\ at' = [q \in Procs |-> at'[q]]
      /\ step'[p] = s /\ at'[p] = x
      /\ \A q \in Procs : q # p => step'[q] = step[q] /\ at'[q] = at[q]
  BY Went DEF Steps
<1>2. Typed'
  BY <1>1 DEF Typed, lvars, Job, Rows
<1>3. RequestKnows(p)'
  BY <1>1 DEF RequestKnows
<1>4. \A q \in Procs : RequestKnows(q)'
  BY <1>1, <1>3, RequestWaits
<1>5. AnswersKnown'
  BY <1>4, AnswersStay
<1>6. ASSUME NEW q \in Procs, q # p PROVE DeliveryKnows(q)'
  <2>1. Granting(q) /\ ~overlapped' => \A r \in Procs : Granting(r)' => Granting(r)
    BY <1>1, <1>6 DEF Granting
  <2> QED BY <1>1, <1>6, <2>1, DeliveryWaits
<1>7. Covered' /\ PaidAndGranted'
  BY MembersRest DEF lvars
<1> QED BY <1>2, <1>5, <1>6, <1>7, PlatformSteps

LEMMA OrderRead ==
    ASSUME Inv, NEW p \in Procs, ReadOrder(p), UNCHANGED lvars
    PROVE  Inv'
<1> USE Known
<1>1. /\ step[p] = "idle" /\ overlapped' = (overlapped \/ \E q \in Procs : Granting(q))
      /\ UNCHANGED <<offer, gifts, unlocks, memberships, now, answered, cache>>
  BY DEF ReadOrder, content
<1>2. overlapped' \in BOOLEAN /\ (overlapped => overlapped')
  BY <1>1 DEF Typed
<1>3. PICK i \in DOMAIN orders :
        /\ orders[i].event = "pending"
        /\ IF orders[i].status = "paid"
             THEN /\ orders' = [orders EXCEPT ![i].event = "settled"]
                  /\ UNCHANGED <<step, at>>
             ELSE /\ Goto(p, "grant", [path |-> "deliver", order |-> i])
                  /\ UNCHANGED orders
  BY DEF ReadOrder
<1>4. CASE orders[i].status = "paid"
  <2> DEFINE new == [orders[i] EXCEPT !.event = "settled"]
  <2>1. orders' = [orders EXCEPT ![i] = new]
    BY <1>3, <1>4
  <2>2. EventWritten(i, new)
    BY <2>1, OrderColumns, EventColumn DEF EventWritten
  <2> HIDE DEF new
  <2>3. orders' \in Seq(Order) /\ OrdersOnward /\ Grows
    BY <1>1, <2>2, EventOnward
  <2>4. UNCHANGED <<step, at>>
    BY <1>3, <1>4
  <2>5. Goto(p, "idle", at[p])
    BY <1>1, <2>4 DEF Goto, Typed
  <2>6. DeliveryKnows(p)'
    BY <1>1, <2>4 DEF DeliveryKnows, Granting
  <2> QED BY <1>1, <1>2, <2>3, <2>5, <2>6, DeliverySteps
<1>5. CASE orders[i].status # "paid"
  <2> DEFINE new == [path |-> "deliver", order |-> i]
  <2>1. Goto(p, "grant", new) /\ UNCHANGED orders /\ new.order = i
    BY <1>3, <1>5
  <2> HIDE DEF new
  <2>2. Grows /\ OrdersOnward /\ orders' \in Seq(Order)
    BY <1>1, <2>1, NothingWritten
  <2>3. /\ step'[p] = "grant" /\ at'[p] = new
        /\ \A q \in Procs : q # p => step'[q] = step[q] /\ at'[q] = at[q]
    BY <2>1, Went DEF Steps
  <2>4. DeliveryKnows(p)'
    BY <1>1, <1>3, <1>5, <2>1, <2>3 DEF DeliveryKnows, Granting
  <2>5. overlapped' \/ \A r \in Procs \ {p} : ~Granting(r)
    BY <1>1
  <2> QED BY <1>1, <1>2, <2>1, <2>2, <2>4, <2>5, DeliverySteps
<1> QED BY <1>4, <1>5

LEMMA GrantFailed ==
    ASSUME Inv, NEW p \in Procs, GrantFails(p), UNCHANGED lvars
    PROVE  Inv'
<1> USE Known
<1> DEFINE i == at[p].order
           e == IF orders[i].tries + 1 = MaxTries[offer] THEN "dead" ELSE orders[i].event
           t == orders[i].tries + 1
           new == [orders[i] EXCEPT !.tries = t, !.event = e]
<1>1. /\ Granting(p) /\ Goto(p, "idle", None)
      /\ UNCHANGED <<offer, gifts, unlocks, memberships, now, overlapped, answered, cache>>
      /\ orders' = IF orders[i].event # "pending" THEN orders ELSE [orders EXCEPT ![i] = new]
  BY DEF GrantFails, Leave, content
<1>2. i \in DOMAIN orders
  BY <1>1 DEF DeliveryKnows
<1>3. orders' \in Seq(Order) /\ OrdersOnward /\ Grows
  <2>1. CASE orders[i].event # "pending"
    BY <1>1, <2>1, NothingWritten
  <2>2. CASE orders[i].event = "pending"
    <3>1. e \in {"pending", "settled", "dead"} /\ t \in Nat /\ orders[i] \in Order
      BY <1>2, <2>2, OrderColumns
    <3> HIDE DEF e, t
    <3>2. new \in Order /\ new.key = orders[i].key /\ new.status = orders[i].status /\ new.event = e
      <4>1. ASSUME NEW o \in Order
            PROVE  LET n == [o EXCEPT !.tries = t, !.event = e]
                   IN  n \in Order /\ n.key = o.key /\ n.status = o.status /\ n.event = e
        BY <3>1 DEF Order
      <4>2. orders[i] \in Order
        BY <3>1
      <4> HIDE DEF i
      <4> QED BY ONLY <4>1, <4>2
    <3>3. EventWritten(i, new)
      BY <1>1, <2>2, <3>1, <3>2 DEF EventWritten
    <3> HIDE DEF new, i
    <3> QED BY <1>1, <1>2, <3>3, EventOnward
  <2> QED BY <2>1, <2>2
<1> HIDE DEF new, i, e, t
<1>4. DeliveryKnows(p)'
  BY <1>1, Went DEF DeliveryKnows, Granting, Steps
<1>5. overlapped' \in BOOLEAN /\ (overlapped => overlapped')
  BY <1>1 DEF Typed
<1> QED BY <1>1, <1>3, <1>4, <1>5, DeliverySteps

LEMMA ActiveScanned ==
    ASSUME Inv, NEW p \in Procs, ScanActive(p), UNCHANGED lvars
    PROVE  Inv'
<1> USE Known
<1> DEFINE new == [path |-> "deliver", order |-> at[p].order, seen |-> Active]
<1>1. /\ step[p] = "grant" /\ Goto(p, "insert", new)
      /\ UNCHANGED <<offer, gifts, unlocks, orders, memberships, now, overlapped, answered, cache>>
  BY DEF ScanActive, content
<1>2. new.order = at[p].order /\ new.seen = Active
  OBVIOUS
<1> HIDE DEF new
<1>3. Grows /\ OrdersOnward /\ orders' \in Seq(Order)
  BY <1>1, NothingWritten
<1>4. /\ step'[p] = "insert" /\ at'[p] = new
      /\ \A q \in Procs : q # p => step'[q] = step[q] /\ at'[q] = at[q]
  BY <1>1, Went DEF Steps
<1>5. Granting(p) /\ DeliveryKnows(p)
  BY <1>1 DEF Granting
<1>6. DeliveryKnows(p)'
  BY <1>1, <1>2, <1>4, <1>5 DEF DeliveryKnows, Granting, BoughtActive, Active, Purchased
<1>7. overlapped' \in BOOLEAN /\ (overlapped => overlapped')
  BY <1>1 DEF Typed
<1> QED BY <1>1, <1>3, <1>5, <1>6, <1>7, DeliverySteps

LEMMA GrantColumns ==
    ASSUME Typed, NEW i \in Nat
    PROVE  /\ Granted(i) \in UserMembership /\ EndsAt \in Nat
           /\ Granted(i).status = "active" /\ Granted(i).ends_at = EndsAt
           /\ Granted(i).source = "purchase" /\ Granted(i).ref = i
<1>1. PlanDays \in Nat /\ MaxTime \in Nat /\ now \in Nat /\ now <= MaxTime
  BY EntitlementsAssumption DEF Typed
<1>2. EndsAt \in 0..Forever /\ EndsAt \in Nat
  BY <1>1 DEF EndsAt, Forever
<1> QED BY <1>2 DEF Granted, UserMembership

LEMMA ExpiredColumns ==
    ASSUME NEW m \in UserMembership
    PROVE  LET new == [m EXCEPT !.status = "expired"]
           IN  /\ new \in UserMembership /\ new.status = "expired" /\ new.ends_at = m.ends_at
               /\ new.source = m.source /\ new.ref = m.ref
BY DEF UserMembership

LEMMA RowsExpired ==
    ASSUME Typed, NEW ended
    PROVE  /\ Expired(ended) \in Seq(UserMembership) /\ DOMAIN Expired(ended) = DOMAIN memberships
           /\ Len(Expired(ended)) = Len(memberships)
           /\ \A k \in DOMAIN memberships :
                LET new == Expired(ended)[k]
                IN  /\ new.status = (IF k \in ended THEN "expired" ELSE memberships[k].status)
                    /\ new.ends_at = memberships[k].ends_at
                    /\ new.source = memberships[k].source /\ new.ref = memberships[k].ref
<1> DEFINE E == Expired(ended)
<1>1. E = [k \in DOMAIN memberships |-> E[k]]
  BY DEF Expired
<1>2. memberships \in Seq(UserMembership)
  BY DEF Typed
<1>3. ASSUME NEW k \in DOMAIN memberships
      PROVE  /\ E[k] \in UserMembership
             /\ E[k].status = (IF k \in ended THEN "expired" ELSE memberships[k].status)
             /\ E[k].ends_at = memberships[k].ends_at
             /\ E[k].source = memberships[k].source /\ E[k].ref = memberships[k].ref
  <2>1. memberships[k] \in UserMembership
    BY <1>2
  <2>2. E[k] = IF k \in ended THEN [memberships[k] EXCEPT !.status = "expired"] ELSE memberships[k]
    BY DEF Expired
  <2> HIDE DEF E
  <2>3. CASE k \in ended
    BY <2>1, <2>2, <2>3, ExpiredColumns
  <2>4. CASE k \notin ended
    BY <2>1, <2>2, <2>4
  <2> QED BY <2>3, <2>4
<1> HIDE DEF E
<1>4. E \in Seq(UserMembership) /\ DOMAIN E = DOMAIN memberships /\ Len(E) = Len(memberships)
  BY <1>1, <1>2, <1>3, Rewritten
<1> QED BY <1>3, <1>4 DEF E

LEMMA GrantInserted ==
    ASSUME Inv, NEW p \in Procs, InsertGrant(p), UNCHANGED lvars
    PROVE  Inv'
<1> USE Known
<1> DEFINE i == at[p].order
           seen == at[p].seen
           last == Len(memberships) + 1
           paid == [orders[i] EXCEPT !.status = "paid"]
<1>1. /\ step[p] = "insert" /\ Goto(p, "idle", None)
      /\ memberships' = Append(Expired(seen), Granted(i))
      /\ orders' = [orders EXCEPT ![i] = paid]
      /\ UNCHANGED <<offer, gifts, unlocks, now, overlapped, answered, cache>>
  BY DEF InsertGrant, Leave, content
<1>2. /\ Granting(p) /\ i \in DOMAIN orders /\ i \in Nat /\ orders[i].event # "none"
      /\ seen \subseteq DOMAIN memberships
      /\ ~overlapped => /\ orders[i].status # "paid" /\ BoughtActive \subseteq seen
                        /\ \A q \in Procs : Granting(q) => q = p
  <2>1. DeliveryKnows(p) /\ Granting(p)
    BY <1>1 DEF Granting
  <2>2. i \in DOMAIN orders
    BY <2>1 DEF DeliveryKnows
  <2>3. i \in Nat
    BY <2>2 DEF Typed
  <2> QED BY <1>1, <2>1, <2>3 DEF DeliveryKnows
<1>3. /\ orders' \in Seq(Order) /\ DOMAIN orders' = DOMAIN orders
      /\ orders'[i].status = "paid" /\ orders'[i].event = orders[i].event
      /\ orders'[i].key = orders[i].key
      /\ \A k \in DOMAIN orders : k # i => orders'[k] = orders[k]
  <2>1. paid \in Order /\ paid.key = orders[i].key /\ paid.status = "paid"
        /\ paid.event = orders[i].event
    BY <1>2, OrderColumns, EventColumn
  <2> HIDE DEF paid, i
  <2> QED BY <1>1, <1>2, <2>1, OrderWritten
<1>4. /\ memberships' \in Seq(UserMembership) /\ DOMAIN memberships' = DOMAIN memberships \cup {last}
      /\ last \notin DOMAIN memberships /\ memberships'[last] = Granted(i)
      /\ \A k \in DOMAIN memberships :
            /\ memberships'[k].status = (IF k \in seen THEN "expired" ELSE memberships[k].status)
            /\ memberships'[k].ends_at = memberships[k].ends_at
            /\ memberships'[k].source = memberships[k].source
            /\ memberships'[k].ref = memberships[k].ref
  <2> DEFINE E == Expired(seen)
             g == Granted(i)
  <2>1. E \in Seq(UserMembership) /\ DOMAIN E = DOMAIN memberships /\ Len(E) = Len(memberships)
        /\ g \in UserMembership /\ memberships' = Append(E, g)
    BY <1>1, <1>2, RowsExpired, GrantColumns
  <2>2. \A k \in DOMAIN memberships :
            /\ E[k].status = (IF k \in seen THEN "expired" ELSE memberships[k].status)
            /\ E[k].ends_at = memberships[k].ends_at
            /\ E[k].source = memberships[k].source
            /\ E[k].ref = memberships[k].ref
    BY RowsExpired
  <2> HIDE DEF E, g
  <2>3. /\ memberships' \in Seq(UserMembership) /\ DOMAIN memberships' = DOMAIN E \cup {Len(E) + 1}
        /\ Len(E) + 1 \notin DOMAIN E /\ memberships'[Len(E) + 1] = g
        /\ \A k \in DOMAIN E : memberships'[k] = E[k]
    BY <2>1, Appended
  <2> QED BY <2>1, <2>2, <2>3 DEF g
<1>5. /\ memberships'[last].status = "active" /\ memberships'[last].ends_at = EndsAt
      /\ memberships'[last].source = "purchase" /\ memberships'[last].ref = i /\ EndsAt \in Nat
      /\ EndsAt' = EndsAt
  BY <1>1, <1>2, <1>4, GrantColumns DEF EndsAt
<1>6. \A k \in DOMAIN memberships : memberships[k].ends_at \in Nat
  BY EndsTyped
<1> HIDE DEF i, seen, last, paid
<1>7. Covered'
  <2>1. ASSUME NEW k \in DOMAIN memberships'
        PROVE  IF Purchased(k)'
               THEN /\ memberships'[k].ref \in DOMAIN orders' /\ memberships'[k].ends_at <= EndsAt
                    /\ memberships'[last].ends_at >= memberships'[k].ends_at
               ELSE memberships'[k].ends_at = LegacyEnd /\ 1 \in refs'
    <3>1. CASE k = last
      BY <1>2, <1>3, <1>5, <3>1 DEF Purchased
    <3>2. CASE k \in DOMAIN memberships
      BY <1>3, <1>4, <1>5, <1>6, <3>2 DEF Covered, Purchased, lvars
    <3> QED BY <1>4, <3>1, <3>2
  <2>2. last \in Active'
    BY <1>4, <1>5 DEF Active
  <2>3. Migrated' = Migrated
    BY <1>4, <1>5 DEF Migrated
  <2> QED BY <1>5, <2>1, <2>2, <2>3 DEF Covered
<1>8. PaidAndGranted'
  <2>1. ASSUME NEW k \in DOMAIN orders'
        PROVE  /\ (orders'[k].status = "paid") <=>
                    \E j \in DOMAIN memberships' : Purchased(j)' /\ memberships'[j].ref = k
               /\ orders'[k].status = "paid" => orders'[k].event # "none"
    <3>1. CASE k = i
      BY <1>2, <1>3, <1>4, <1>5, <3>1 DEF Purchased
    <3>2. CASE k # i
      <4>1. k \in DOMAIN orders /\ orders'[k] = orders[k]
        BY <1>3, <2>1, <3>2
      <4>2. (\E j \in DOMAIN memberships' : Purchased(j)' /\ memberships'[j].ref = k) <=>
            (\E j \in DOMAIN memberships : Purchased(j) /\ memberships[j].ref = k)
        BY <1>4, <1>5, <3>2 DEF Purchased
      <4> QED BY <4>1, <4>2 DEF PaidAndGranted
    <3> QED BY <3>1, <3>2
  <2>2. ASSUME ~overlapped PROVE BoughtActive' \subseteq {last}
    BY <1>2, <1>4, <2>2 DEF BoughtActive, Active, Purchased
  <2>3. ASSUME ~overlapped, NEW j \in DOMAIN memberships, Purchased(j) PROVE memberships[j].ref # i
    BY <1>2, <2>3 DEF PaidAndGranted
  <2>4. ASSUME ~overlapped, NEW k \in DOMAIN memberships', NEW j \in DOMAIN memberships',
               Purchased(k)', Purchased(j)', memberships'[k].ref = memberships'[j].ref
        PROVE  k = j
    BY <1>4, <1>5, <2>3, <2>4 DEF PaidAndGranted, Purchased
  <2> QED BY <1>1, <2>1, <2>2, <2>4 DEF PaidAndGranted
<1>9. /\ step' \in [Procs -> Steps] /\ at' = [q \in Procs |-> at'[q]]
      /\ step'[p] = "idle"
      /\ \A q \in Procs : q # p => step'[q] = step[q] /\ at'[q] = at[q]
  BY <1>1, Went DEF Steps
<1>10. Typed'
  BY <1>1, <1>3, <1>4, <1>9 DEF Typed, lvars, Job, Rows
<1>11. Grows
  BY <1>1, <1>3 DEF Grows
<1>12. \A q \in Procs : RequestKnows(q)'
  <2>1. RequestKnows(p)'
    BY <1>9 DEF RequestKnows
  <2> QED BY <1>9, <1>11, <2>1, RequestWaits
<1>13. AnswersKnown'
  BY <1>1, <1>11, <1>12, AnswersStay
<1>14. ASSUME NEW q \in Procs PROVE DeliveryKnows(q)'
  <2>1. CASE q = p
    BY <1>9, <2>1 DEF DeliveryKnows, Granting
  <2>2. CASE q # p
    <3>1. step'[q] = step[q] /\ at'[q] = at[q] /\ DeliveryKnows(q)
      BY <1>9, <2>2
    <3>2. Granting(q) => overlapped
      BY <1>2, <2>2
    <3> QED BY <1>1, <1>3, <1>4, <3>1, <3>2 DEF DeliveryKnows, Granting
  <2> QED BY <2>1, <2>2
<1> QED BY <1>7, <1>8, <1>10, <1>13, <1>14, PlatformSteps

-----------------------------------------------------------------------------
(* The import *)

\* A step of the import: requests and deliveries rest.
LEMMA ImportSteps ==
    ASSUME Inv, UNCHANGED <<offer, gifts, unlocks, orders, now, overlapped, cache, answered, step, at>>,
           memberships' \in Seq(UserMembership), DOMAIN memberships \subseteq DOMAIN memberships',
           BoughtActive' = BoughtActive, Covered', PaidAndGranted',
           LTypeOK', job' \in Job, ImportKnows'
    PROVE  Inv'
<1> USE Known
<1>1. Typed'
  BY DEF Typed
<1>2. Grows
  BY DEF Grows
<1>3. \A q \in Procs : RequestKnows(q)'
  BY <1>2, RequestWaits
<1>4. AnswersKnown'
  BY <1>2, <1>3, AnswersStay
<1>5. ASSUME NEW q \in Procs PROVE DeliveryKnows(q)'
  <2>1. DeliveryKnows(q)
    OBVIOUS
  <2> QED BY <2>1 DEF DeliveryKnows, Granting
<1> QED BY <1>1, <1>4, <1>5 DEF Inv, EntitledInv

LEMMA JobSteps ==
    ASSUME Inv, UNCHANGED evars, refs \subseteq refs', LTypeOK', job' \in Job, ImportKnows'
    PROVE  Inv'
<1> USE Known
<1>1. UNCHANGED <<offer, gifts, unlocks, orders, now, overlapped, cache, answered, step, at, memberships>>
  BY DEF evars
<1>2. memberships' \in Seq(UserMembership) /\ BoughtActive' = BoughtActive
  BY <1>1 DEF Typed, BoughtActive, Active, Purchased
<1>3. Covered'
  BY <1>1 DEF Covered, Purchased, EndsAt, Active, Migrated
<1>4. PaidAndGranted'
  BY <1>1 DEF PaidAndGranted, BoughtActive, Active, Purchased
<1> QED BY <1>1, <1>2, <1>3, <1>4, ImportSteps

LEMMA JobColumns ==
    ASSUME NEW r \in Job
    PROVE  /\ r.command \in Commands \cup {"none"} /\ r.after \in {0} \cup Rows
           /\ r.errors \in SUBSET Rows /\ r.dry_run \in BOOLEAN
           /\ r.phase \in {"idle", "page", "checkpoint", "end"}
BY DEF Job

LEMMA NobodyRuns == NoJob \in Job /\ NoJob.phase = "idle"
BY DEF NoJob, Job

LEMMA Begun ==
    ASSUME Inv, NEW c \in Commands, BeginRun(c)
    PROVE  Inv'
<1> USE Known
<1>1. /\ UNCHANGED <<evars, legacy, users, refs, checkpoint, reported>>
      /\ finished' = [finished EXCEPT ![c] = FALSE]
  BY DEF BeginRun
<1>2. PICK resume \in BOOLEAN, dry_run \in BOOLEAN :
        job' = [NoJob EXCEPT !.command = c, !.phase = "page", !.dry_run = dry_run,
                             !.after = IF resume THEN checkpoint[c] ELSE 0]
  BY DEF BeginRun
<1>3. /\ job' \in Job /\ job'.command = c /\ job'.phase = "page"
      /\ job'.after \in {0, checkpoint[c]}
  <2> DEFINE a == IF resume THEN checkpoint[c] ELSE 0
  <2>1. a \in {0} \cup Rows /\ a \in {0, checkpoint[c]}
    BY DEF LTypeOK
  <2>2. job' = [NoJob EXCEPT !.command = c, !.phase = "page", !.dry_run = dry_run, !.after = a]
    BY <1>2
  <2> HIDE DEF a
  <2>3. ASSUME NEW r \in Job
        PROVE  LET n == [r EXCEPT !.command = c, !.phase = "page", !.dry_run = dry_run, !.after = a]
               IN  n \in Job /\ n.command = c /\ n.phase = "page" /\ n.after = a
    BY <2>1, <1>2 DEF Job
  <2>4. NoJob \in Job
    BY NobodyRuns
  <2>5. job' \in Job /\ job'.command = c /\ job'.phase = "page" /\ job'.after = a
    BY ONLY <2>2, <2>3, <2>4
  <2> QED BY <2>1, <2>5
<1>4. LTypeOK'
  BY <1>1, <1>3, JobColumns DEF LTypeOK, Rows
<1>5. ImportKnows'
  BY <1>1, <1>3 DEF ImportKnows, LTypeOK, Loaded, UpTo, Rows
<1> QED BY <1>1, <1>3, <1>4, <1>5, JobSteps

LEMMA Interrupted ==
    ASSUME Inv, Interrupt
    PROVE  Inv'
<1> USE Known
<1>1. UNCHANGED <<evars, legacy, users, refs, checkpoint, reported, finished>> /\ job' = NoJob
  BY DEF Interrupt
<1>2. LTypeOK'
  BY <1>1, NobodyRuns, JobColumns DEF LTypeOK, Rows
<1>3. ImportKnows'
  BY <1>1, NobodyRuns DEF ImportKnows, Loaded, UpTo, Rows
<1> QED BY <1>1, <1>2, <1>3, NobodyRuns, JobSteps

LEMMA Repaired ==
    ASSUME Inv, Repair
    PROVE  Inv'
<1> USE Known
<1>1. UNCHANGED <<evars, users, refs, checkpoint, job, reported, finished>>
      /\ \E r \in Rows : legacy' = [legacy EXCEPT ![r] = "fit"]
  BY DEF Repair
<1>2. LTypeOK'
  BY <1>1 DEF LTypeOK, Rows
<1>3. ImportKnows'
  BY <1>1 DEF ImportKnows, Loaded, UpTo, Rows, Page
<1> QED BY <1>1, <1>2, <1>3, JobSteps DEF Typed

\* The page's last row; a page that is not full reaches the end.
LEMMA LastOfPage ==
    ASSUME NEW after \in {0} \cup Rows, Page(after) # {}
    PROVE  LET last == CHOOSE r \in Page(after) : \A q \in Page(after) : q <= r
           IN  /\ last \in Rows
               /\ UpTo(last) \subseteq UpTo(after) \cup Page(after)
               /\ Cardinality(Page(after)) < PageSize => LastRow <= last
<1> USE LegacyAssumption
<1> DEFINE end == IF after + PageSize <= LastRow THEN after + PageSize ELSE LastRow
           last == CHOOSE r \in Page(after) : \A q \in Page(after) : q <= r
<1>1. after \in Nat /\ after < LastRow
  BY DEF Rows, Page
<1>2. end \in Page(after) /\ \A q \in Page(after) : q <= end
  BY <1>1 DEF Page, Rows
<1>3. last \in Page(after) /\ \A q \in Page(after) : q <= last
  BY <1>2
<1>4. last \in Rows /\ last \in Int /\ end \in Int
  BY <1>1, <1>3 DEF Page, Rows
<1>5. last = end
  <2>1. end <= last /\ last <= end
    BY <1>2, <1>3
  <2> QED BY <1>4, <2>1
<1> HIDE DEF last
<1>6. Page(after) = (after + 1)..last
  BY <1>1, <1>5 DEF Page, Rows
<1>7. Cardinality(Page(after)) = last - after
  <2>1. Cardinality((after + 1)..last) = last - (after + 1) + 1
    BY <1>1, <1>3, <1>4, <1>6, FS_Interval
  <2> QED BY <1>1, <1>4, <1>6, <2>1
<1>8. Cardinality(Page(after)) < PageSize => LastRow <= last
  BY <1>1, <1>4, <1>5, <1>7
<1>9. UpTo(last) \subseteq UpTo(after) \cup Page(after)
  BY <1>1, <1>4, <1>5 DEF UpTo, Page, Rows
<1> QED BY <1>4, <1>8, <1>9 DEF last

LEMMA CheckpointWritten ==
    ASSUME Inv, WriteCheckpoint
    PROVE  Inv'
<1> USE Known
<1> DEFINE page == Page(job.after)
           last == CHOOSE r \in Page(job.after) : \A q \in Page(job.after) : q <= r
           phase == IF Cardinality(page) < PageSize THEN "end" ELSE "page"
           c == job.command
           told == job.errors \cup IF job.after = 0 THEN {} ELSE reported[c]
<1>1. /\ job.phase = "checkpoint"
      /\ checkpoint' = IF job.dry_run THEN checkpoint ELSE [checkpoint EXCEPT ![c] = last]
      /\ job' = [job EXCEPT !.after = last, !.phase = phase]
      /\ reported' = IF job.dry_run THEN reported ELSE [reported EXCEPT ![c] = told]
      /\ UNCHANGED <<evars, legacy, users, refs, finished>>
  BY DEF WriteCheckpoint
<1>2. job \in Job /\ job.after \in {0} \cup Rows /\ job.errors \subseteq Rows /\ c \in Commands
      /\ job.dry_run \in BOOLEAN
  BY <1>1, JobColumns DEF Typed, ImportKnows
<1>3. page # {} /\ ~finished[c]
      /\ (~job.dry_run => job.after \in {0, checkpoint[c]} /\ page \subseteq Loaded(c) \cup job.errors)
  BY <1>1 DEF ImportKnows
<1>4. /\ last \in Rows /\ UpTo(last) \subseteq UpTo(job.after) \cup page
      /\ (phase = "end" => LastRow <= last)
  BY <1>2, <1>3, LastOfPage
<1>5. phase \in {"page", "end"}
  OBVIOUS
<1> HIDE DEF last, phase, page
<1>6. /\ job' \in Job /\ job'.command = c /\ job'.after = last /\ job'.phase = phase
      /\ job'.dry_run = job.dry_run
  <2>1. ASSUME NEW r \in Job
        PROVE  LET n == [r EXCEPT !.after = last, !.phase = phase]
               IN  /\ n \in Job /\ n.command = r.command /\ n.after = last /\ n.phase = phase
                   /\ n.dry_run = r.dry_run
    BY <1>4, <1>5 DEF Job
  <2>2. job' = [job EXCEPT !.after = last, !.phase = phase] /\ job \in Job
    BY <1>1, <1>2
  <2> QED BY ONLY <2>1, <2>2
<1>7. told \subseteq Rows
  BY <1>2 DEF LTypeOK
<1>8. ~job.dry_run => UpTo(last) \subseteq Loaded(c) \cup told
  <2>1. UpTo(0) = {}
    BY LegacyAssumption DEF UpTo, Rows
  <2>2. ~job.dry_run /\ job.after # 0 => UpTo(job.after) \subseteq Loaded(c) \cup reported[c]
    BY <1>2, <1>3 DEF ImportKnows
  <2> QED BY <1>3, <1>4, <2>1, <2>2
<1> HIDE DEF c, told
<1>9. LTypeOK'
  <2>1. checkpoint' \in [Commands -> {0} \cup Rows]
    BY <1>1, <1>2, <1>4 DEF LTypeOK
  <2>2. reported' \in [Commands -> SUBSET Rows]
    BY <1>1, <1>2, <1>7 DEF LTypeOK
  <2>3. job'.command \in Commands \cup {"none"} /\ job'.after \in {0} \cup Rows
    BY <1>2, <1>4, <1>6
  <2> QED BY <1>1, <2>1, <2>2, <2>3 DEF LTypeOK, Rows
<1>10. ASSUME NEW d \in Commands
       PROVE  /\ UpTo(checkpoint'[d]) \subseteq Loaded(d) \cup reported'[d]
              /\ finished[d] => Rows \subseteq Loaded(d) \cup reported'[d]
  <2>1. CASE d = c /\ ~job.dry_run
    BY <1>1, <1>2, <1>3, <1>8, <2>1 DEF LTypeOK
  <2>2. CASE d # c \/ job.dry_run
    <3>1. checkpoint'[d] = checkpoint[d] /\ reported'[d] = reported[d]
      BY <1>1, <1>2, <2>2 DEF LTypeOK
    <3> QED BY <3>1 DEF ImportKnows
  <2> QED BY <2>1, <2>2
<1>11. ~job.dry_run => checkpoint'[c] = last
  BY <1>1, <1>2 DEF LTypeOK
<1>12. ImportKnows'
  BY <1>1, <1>2, <1>3, <1>4, <1>5, <1>6, <1>10, <1>11 DEF ImportKnows, Loaded, UpTo, Rows
<1> QED BY <1>1, <1>6, <1>9, <1>12, JobSteps

LEMMA RunEnded ==
    ASSUME Inv, EndRun
    PROVE  Inv'
<1> USE Known
<1> DEFINE c == job.command
           clean == ~job.dry_run /\ job.errors = {}
<1>1. /\ job.phase = "end" \/ (job.phase = "page" /\ Page(job.after) = {})
      /\ checkpoint' = IF clean THEN [checkpoint EXCEPT ![c] = 0] ELSE checkpoint
      /\ finished' = [finished EXCEPT ![c] = clean]
      /\ job' = NoJob
      /\ UNCHANGED <<evars, legacy, users, refs, reported>>
  BY DEF EndRun
<1>2. job \in Job /\ job.after \in {0} \cup Rows /\ c \in Commands /\ job.dry_run \in BOOLEAN
  BY <1>1, JobColumns DEF Typed, ImportKnows
<1>3. LastRow <= job.after
  <2>1. CASE job.phase = "end"
    BY <2>1 DEF ImportKnows
  <2>2. CASE Page(job.after) = {}
    <3>1. job.after \in Nat /\ (job.after < LastRow => job.after + 1 \in Page(job.after))
      BY <1>2, LegacyAssumption DEF Page, Rows
    <3> QED BY <2>2, <3>1, LegacyAssumption
  <2> QED BY <1>1, <2>1, <2>2
<1>4. clean => Rows \subseteq Loaded(c) \cup reported[c]
  <2>1. ~job.dry_run => job.after \in {0, checkpoint[c]}
    BY <1>1 DEF ImportKnows
  <2>2. job.after # 0 /\ Rows \subseteq UpTo(job.after)
    BY <1>2, <1>3, LegacyAssumption DEF UpTo, Rows
  <2> QED BY <1>2, <2>1, <2>2 DEF ImportKnows
<1>5. UpTo(0) = {}
  BY LegacyAssumption DEF UpTo, Rows
<1>6. clean \in BOOLEAN
  OBVIOUS
<1> HIDE DEF c, clean
<1>7. LTypeOK'
  BY <1>1, <1>2, <1>6, NobodyRuns, JobColumns DEF LTypeOK, Rows
<1>8. ASSUME NEW d \in Commands
      PROVE  /\ UpTo(checkpoint'[d]) \subseteq Loaded(d) \cup reported[d]
             /\ finished'[d] => Rows \subseteq Loaded(d) \cup reported[d]
  <2>1. CASE d = c
    <3>1. finished'[d] = clean
      BY <1>1, <1>2, <2>1 DEF LTypeOK
    <3>2. checkpoint'[d] = IF clean THEN 0 ELSE checkpoint[d]
      BY <1>1, <1>2, <2>1 DEF LTypeOK
    <3> QED BY <1>4, <1>5, <2>1, <3>1, <3>2 DEF ImportKnows
  <2>2. CASE d # c
    <3>1. checkpoint'[d] = checkpoint[d] /\ finished'[d] = finished[d]
      BY <1>1, <1>2, <2>2 DEF LTypeOK
    <3> QED BY <3>1 DEF ImportKnows
  <2> QED BY <2>1, <2>2
<1>9. ImportKnows'
  BY <1>1, <1>8, NobodyRuns DEF ImportKnows, Loaded, UpTo, Rows
<1> QED BY <1>1, <1>7, <1>9, NobodyRuns, JobSteps

LEMMA FansRowColumns ==
    /\ FansRow \in UserMembership /\ FansRow.status = "active" /\ FansRow.ends_at = LegacyEnd
    /\ FansRow.source = "migration"
BY LegacyAssumption DEF FansRow, UserMembership

\* The fan's row, imported: nobody's membership ends, nothing purchased is touched.
LEMMA FanUpserted ==
    ASSUME Inv, UpsertFans, UNCHANGED <<orders, now, overlapped>>, 1 \in refs'
    PROVE  /\ memberships' \in Seq(UserMembership)
           /\ DOMAIN memberships \subseteq DOMAIN memberships' /\ BoughtActive' = BoughtActive
           /\ Covered' /\ PaidAndGranted'
<1> USE Known, FansRowColumns
<1>1. PICK new : /\ memberships' \in Seq(UserMembership) /\ DOMAIN memberships' = DOMAIN memberships \cup new
                 /\ new \cap DOMAIN memberships = {}
                 /\ \A i, j \in new : i = j
                 /\ new # {} => Migrated = {}
                 /\ \A i \in new : memberships'[i] = FansRow
                 /\ \A i \in DOMAIN memberships :
                      memberships'[i] = IF i \in Migrated THEN FansRow ELSE memberships[i]
  <2>1. memberships \in Seq(UserMembership)
    BY DEF Typed
  <2>2. CASE Migrated = {}
    <3> DEFINE f == FansRow
    <3>1. memberships' = Append(memberships, f) /\ f \in UserMembership
      BY <2>2 DEF UpsertFans
    <3> HIDE DEF f
    <3>2. /\ memberships' \in Seq(UserMembership) /\ DOMAIN memberships' = DOMAIN memberships \cup {Len(memberships) + 1}
          /\ Len(memberships) + 1 \notin DOMAIN memberships
          /\ memberships'[Len(memberships) + 1] = f /\ \A i \in DOMAIN memberships : memberships'[i] = memberships[i]
      BY <2>1, <3>1, Appended
    <3> WITNESS {Len(memberships) + 1}
    <3> QED BY <2>2, <3>2 DEF f
  <2>3. CASE Migrated # {}
    <3> DEFINE f == FansRow
    <3>1. memberships' = [i \in DOMAIN memberships |-> IF i \in Migrated THEN f ELSE memberships[i]]
          /\ f \in UserMembership
      BY <2>3 DEF UpsertFans
    <3> HIDE DEF f
    <3>2. /\ memberships' = [i \in DOMAIN memberships |-> memberships'[i]]
          /\ \A i \in DOMAIN memberships : memberships'[i] \in UserMembership
      BY <2>1, <3>1
    <3>3. memberships' \in Seq(UserMembership) /\ DOMAIN memberships' = DOMAIN memberships
      BY <2>1, <3>2, Rewritten
    <3> WITNESS {}
    <3> QED BY <3>1, <3>3 DEF f
  <2> QED BY <2>2, <2>3
<1> HIDE DEF FansRow
<1>2. \A i \in DOMAIN memberships :
        /\ Purchased(i) => memberships'[i] = memberships[i]
        /\ ~Purchased(i) => memberships[i].ends_at = LegacyEnd
        /\ Purchased(i)' <=> Purchased(i)
        /\ i \in Active => i \in Active' /\ memberships'[i].ends_at = memberships[i].ends_at
  BY <1>1 DEF Purchased, Migrated, Active, Covered
<1>3. \A i \in new : ~Purchased(i)' /\ i \notin DOMAIN memberships
  BY <1>1 DEF Purchased
<1>4. \A i \in DOMAIN memberships : i \in Migrated <=> ~Purchased(i)
  BY EndsTyped DEF Migrated, Purchased
<1>5. Covered'
  <2>1. ASSUME NEW i \in DOMAIN memberships'
        PROVE  IF Purchased(i)'
               THEN /\ memberships'[i].ref \in DOMAIN orders /\ memberships'[i].ends_at <= EndsAt
                    /\ \E j \in Active' : memberships'[j].ends_at >= memberships'[i].ends_at
               ELSE memberships'[i].ends_at = LegacyEnd
    <3>1. CASE i \in new
      BY <1>1, <1>3, <3>1
    <3>2. CASE i \in DOMAIN memberships /\ Purchased(i)
      <4>1. memberships'[i] = memberships[i] /\ Purchased(i)'
        BY <1>2, <3>2
      <4>2. memberships[i].ref \in DOMAIN orders /\ memberships[i].ends_at <= EndsAt
        BY <3>2 DEF Covered
      <4>3. PICK j \in Active : memberships[j].ends_at >= memberships[i].ends_at
        BY <3>2 DEF Covered
      <4>4. j \in Active' /\ memberships'[j].ends_at = memberships[j].ends_at
        BY <1>2 DEF Active
      <4> QED BY <4>1, <4>2, <4>3, <4>4
    <3>3. CASE i \in DOMAIN memberships /\ ~Purchased(i)
      BY <1>1, <1>2, <1>4, <3>3
    <3> QED BY <1>1, <3>1, <3>2, <3>3
  <2>2. \A i, j \in Migrated' : i = j
    <3>1. Migrated' \subseteq new \cup Migrated
      BY <1>1, <1>2, <1>4 DEF Migrated, Purchased
    <3> QED BY <1>1, <3>1 DEF Covered
  <2> QED BY <2>1, <2>2 DEF Covered, EndsAt
<1>6. BoughtActive' = BoughtActive
  <2>1. ASSUME NEW i \in BoughtActive PROVE i \in BoughtActive'
    BY <1>2 DEF BoughtActive, Active
  <2>2. ASSUME NEW i \in BoughtActive' PROVE i \in BoughtActive
    BY <1>1, <1>2, <1>3 DEF BoughtActive, Active
  <2> QED BY <2>1, <2>2
<1>7. PaidAndGranted'
  <2>1. ASSUME NEW k \in DOMAIN orders
        PROVE  (\E j \in DOMAIN memberships' : Purchased(j)' /\ memberships'[j].ref = k) <=>
               (\E j \in DOMAIN memberships : Purchased(j) /\ memberships[j].ref = k)
    BY <1>1, <1>2, <1>3
  <2>2. ASSUME NEW i \in DOMAIN memberships', Purchased(i)'
        PROVE  i \in DOMAIN memberships /\ Purchased(i) /\ memberships'[i] = memberships[i]
    BY <1>1, <1>2, <1>3, <2>2
  <2> QED BY <1>6, <2>1, <2>2 DEF PaidAndGranted
<1> QED BY <1>1, <1>5, <1>6, <1>7

LEMMA PageLoaded ==
    ASSUME Inv, LoadPage
    PROVE  Inv'
<1> USE Known
<1> DEFINE page == Page(job.after)
           loaded == {r \in page : Loadable(r)}
           c == job.command
           errors == job.errors \cup (page \ loaded)
<1>1. /\ job.phase = "page" /\ page # {} /\ UNCHANGED <<legacy, checkpoint, reported, finished>>
      /\ IF job.dry_run THEN UNCHANGED <<evars, users, refs>>
         ELSE IF c = "import_legacy_users" THEN LoadUsers(loaded) ELSE LoadMemberships(loaded)
      /\ job' = [job EXCEPT !.phase = "checkpoint", !.errors = errors]
  BY DEF LoadPage
<1>2. job \in Job /\ job.after \in {0} \cup Rows /\ job.errors \subseteq Rows /\ c \in Commands
      /\ job.dry_run \in BOOLEAN
  BY <1>1, JobColumns DEF Typed, ImportKnows
<1>3. page \subseteq Rows /\ loaded \subseteq page
  BY DEF Page
<1>4. errors \in SUBSET Rows /\ page \subseteq loaded \cup errors
  BY <1>2, <1>3
<1> HIDE DEF errors, loaded
<1>5. /\ job' \in Job /\ job'.command = c /\ job'.after = job.after /\ job'.phase = "checkpoint"
      /\ job'.dry_run = job.dry_run /\ job'.errors = errors
  <2>1. ASSUME NEW r \in Job
        PROVE  LET n == [r EXCEPT !.phase = "checkpoint", !.errors = errors]
               IN  /\ n \in Job /\ n.command = r.command /\ n.after = r.after /\ n.phase = "checkpoint"
                   /\ n.dry_run = r.dry_run /\ n.errors = errors
    BY <1>4 DEF Job
  <2>2. job' = [job EXCEPT !.phase = "checkpoint", !.errors = errors] /\ job \in Job
    BY <1>1, <1>2
  <2> QED BY ONLY <2>1, <2>2
<1>6. /\ users \subseteq users' /\ refs \subseteq refs' /\ users' \subseteq Rows /\ refs' \subseteq Rows
      /\ ~job.dry_run => loaded \subseteq Loaded(c)'
  BY <1>1, <1>2, <1>3 DEF LoadUsers, LoadMemberships, Loaded, LTypeOK, Commands
<1>7. LTypeOK'
  BY <1>1, <1>2, <1>5, <1>6 DEF LTypeOK, Rows
<1>8. \A d \in Commands : Loaded(d) \subseteq Loaded(d)'
  BY <1>6 DEF Loaded
<1>9. ImportKnows'
  <2>1. ASSUME NEW d \in Commands
        PROVE  /\ UpTo(checkpoint[d]) \subseteq Loaded(d)' \cup reported[d]
               /\ finished[d] => Rows \subseteq Loaded(d)' \cup reported[d]
    BY <1>8 DEF ImportKnows
  <2>2. /\ ~finished[c] /\ (~job.dry_run => job.after \in {0, checkpoint[c]})
    BY <1>1 DEF ImportKnows
  <2>3. ~job.dry_run => page \subseteq Loaded(c)' \cup errors
    BY <1>4, <1>6
  <2> QED BY <1>1, <1>2, <1>5, <2>1, <2>2, <2>3 DEF ImportKnows, UpTo, Rows, Page
<1>10. CASE UNCHANGED evars
  BY <1>5, <1>6, <1>7, <1>9, <1>10, JobSteps
<1>11. CASE UpsertFans /\ 1 \in loaded /\ refs' = refs \cup loaded
            /\ UNCHANGED <<offer, gifts, unlocks, orders, now, overlapped, cache, answered, step, at>>
  <2>1. /\ memberships' \in Seq(UserMembership)
        /\ DOMAIN memberships \subseteq DOMAIN memberships' /\ BoughtActive' = BoughtActive
        /\ Covered' /\ PaidAndGranted'
    BY <1>11, FanUpserted
  <2> QED BY <1>5, <1>7, <1>9, <1>11, <2>1, ImportSteps
<1> QED BY <1>1, <1>10, <1>11 DEF LoadUsers, LoadMemberships, evars, content

-----------------------------------------------------------------------------
(* The specification *)

LEMMA InitSound == LInit => Inv
<1> SUFFICES ASSUME LInit PROVE Inv
  OBVIOUS
<1>1. /\ offer \in Offers /\ orders = <<>> /\ memberships = <<>> /\ now = 0
      /\ cache = {} /\ answered = {} /\ overlapped = FALSE /\ job = NoJob
      /\ step = [p \in Procs |-> "idle"] /\ at = [p \in Procs |-> None]
  BY DEF LInit, EInit
<1>2. Typed
  <2>1. orders \in Seq(Order) /\ memberships \in Seq(UserMembership) /\ job \in Job
    BY <1>1, NobodyRuns
  <2>2. now \in 0..MaxTime
    BY <1>1, EntitlementsAssumption
  <2>3. step \in [Procs -> Steps] /\ at = [p \in Procs |-> at[p]]
    BY <1>1 DEF Steps
  <2> QED BY <1>1, <2>1, <2>2, <2>3 DEF Typed
<1>3. LTypeOK
  BY <1>1, NobodyRuns, JobColumns DEF LTypeOK, LInit, Rows
<1>4. AnswersKnown /\ \A p \in Procs : DeliveryKnows(p)
  BY <1>1 DEF AnswersKnown, RequestKnows, DeliveryKnows, Granting
<1>5. Covered /\ PaidAndGranted
  BY <1>1 DEF Covered, PaidAndGranted, Migrated, BoughtActive, Active
<1>6. ImportKnows
  BY <1>1, NobodyRuns DEF ImportKnows, LInit, UpTo, Rows
<1> QED BY <1>2, <1>3, <1>4, <1>5, <1>6 DEF Inv, EntitledInv

LEMMA NextSound ==
    ASSUME Inv, [LNext]_<<evars, lvars>>
    PROVE  Inv'
<1>1. CASE UNCHANGED <<evars, lvars>>
  BY <1>1 DEF Inv, Typed, EntitledInv, LTypeOK, AnswersKnown, RequestKnows, Found, DeliveryKnows,
              Granting, BoughtActive, Active, Purchased, Covered, EndsAt, Migrated, PaidAndGranted,
              ImportKnows, UpTo, Loaded, Page, evars, lvars
<1>2. CASE ENext /\ UNCHANGED lvars
  <2>1. ASSUME NEW p \in Procs, Call(p) PROVE Inv'
    BY <1>2, <2>1, Called
  <2>2. ASSUME NEW p \in Procs, Proceed(p) PROVE Inv'
    BY <1>2, <2>2, LookedUp, GiftSent, EpisodeUnlocked, OrderCreated, Stored, GivenUp DEF Proceed
  <2>3. ASSUME NEW p \in Procs, Deliver(p) PROVE Inv'
    BY <1>2, <2>3, OrderRead, GrantFailed, ActiveScanned, GrantInserted DEF Deliver
  <2>4. ASSUME NEW i \in DOMAIN orders, SettleStripe(i) PROVE Inv'
    BY <1>2, <2>4, StripeSettled
  <2>5. CASE Evict \/ NextDay \/ Withdraw
    BY <1>2, <2>5, OutsideActs
  <2> QED BY <1>2, <2>1, <2>2, <2>3, <2>4, <2>5 DEF ENext
<1>3. ASSUME NEW c \in Commands, BeginRun(c) PROVE Inv'
  BY <1>3, Begun
<1>4. CASE LoadPage \/ WriteCheckpoint \/ EndRun \/ Interrupt \/ Repair
  BY <1>4, PageLoaded, CheckpointWritten, RunEnded, Interrupted, Repaired
<1> QED BY <1>1, <1>2, <1>3, <1>4 DEF LNext

\* What the runs check as a type invariant and more holds in every reachable state.
THEOREM EntitledInductive == LSpec => []EntitledInv
<1>1. LInit => Inv
  BY InitSound
<1>2. Inv /\ [LNext]_<<evars, lvars>> => Inv'
  BY NextSound
<1>3. Inv => EntitledInv
  BY DEF Inv
<1> QED BY <1>1, <1>2, <1>3, PTL DEF LSpec

\* Answers hold, for any requests, keys and threads, and whatever is evicted from the
\* cache or given up on the way.
THEOREM AnswersSound == LSpec => []AnswersHold
<1>1. EntitledInv => AnswersHold
  BY DEF EntitledInv, AnswersKnown, AnswersHold
<1> QED BY <1>1, EntitledInductive, PTL

LEMMA AtMostOne ==
    ASSUME NEW S, \A i, j \in S : i = j
    PROVE  /\ Cardinality(S) \in {0, 1}
           /\ Cardinality(S) = 1 => S # {}
<1>1. CASE S = {}
  BY <1>1, FS_EmptySet
<1>2. ASSUME NEW x \in S PROVE Cardinality(S) = 1
  <2>1. S = {x}
    BY <1>2
  <2>2. Cardinality({x}) = 1
    BY FS_Singleton
  <2> QED BY <2>1, <2>2
<1> QED BY <1>1, <1>2

\* Of the active memberships one ends last.
LEMMA LatestActive ==
    ASSUME Typed, Active # {}
    PROVE  \E i \in Active : \A j \in Active : memberships[j].ends_at <= memberships[i].ends_at
<1>1. Forever \in Nat
  BY EntitlementsAssumption DEF Forever
<1>2. \A i \in Active : memberships[i].ends_at \in Nat /\ memberships[i].ends_at <= Forever
  BY EndsTyped DEF Active
<1> DEFINE T == {Forever - memberships[i].ends_at : i \in Active}
<1>3. T \subseteq Nat /\ T # {}
  BY <1>1, <1>2
<1>4. PICK x \in T : \A y \in T : x <= y
  <2> HIDE DEF T
  <2> QED BY <1>3, Least
<1>5. PICK i \in Active : x = Forever - memberships[i].ends_at
  OBVIOUS
<1>6. ASSUME NEW j \in Active PROVE memberships[j].ends_at <= memberships[i].ends_at
  <2>1. Forever - memberships[i].ends_at <= Forever - memberships[j].ends_at
    BY <1>4, <1>5
  <2> QED BY <1>1, <1>2, <2>1
<1> QED BY <1>6

\* Memberships follow the paid orders, and who paid for one that has not ended is shown
\* one, for any plan, any number of threads and any import beside them.
THEOREM MembershipFollowsOrders == LSpec => []MembershipSound
<1>1. ASSUME Inv PROVE MembershipSound
  <2> USE <1>1, Known
  <2>1. ASSUME NEW i \in DOMAIN memberships, Purchased(i), ~IsExpired(memberships[i])
        PROVE  \E m \in MyMembership : m.ends_at >= memberships[i].ends_at /\ ~m.is_expired
    <3>1. PICK j \in Active : memberships[j].ends_at >= memberships[i].ends_at
      BY <2>1 DEF Covered
    <3>2. PICK k \in Active : \A l \in Active : memberships[l].ends_at <= memberships[k].ends_at
      BY LatestActive
    <3>3. /\ memberships[i].ends_at \in Nat /\ memberships[j].ends_at \in Nat
          /\ memberships[k].ends_at \in Nat /\ memberships[k].ends_at <= Forever
          /\ memberships[i].ends_at <= Forever /\ now \in Nat /\ Forever \in Nat
      <4>1. Typed /\ {i, j, k} \subseteq DOMAIN memberships
        BY DEF Active
      <4>2. now \in Nat /\ Forever \in Nat
        BY ONLY <4>1, EntitlementsAssumption DEF Typed, Forever
      <4> QED BY ONLY <4>1, <4>2, EndsTyped
    <3>4. memberships[k].ends_at >= memberships[i].ends_at
      BY <3>1, <3>2, <3>3
    <3>5. ~IsExpired(memberships[k])
      BY <2>1, <3>3, <3>4 DEF IsExpired
    <3>6. k \in GetActiveMembership
      BY <3>2, <3>5 DEF GetActiveMembership
    <3> DEFINE m == [ends_at |-> memberships[k].ends_at, is_expired |-> IsExpired(memberships[k])]
    <3>7. m \in MyMembership
      BY <3>6 DEF MyMembership
    <3>8. m.ends_at = memberships[k].ends_at /\ m.is_expired = IsExpired(memberships[k])
      OBVIOUS
    <3> HIDE DEF m
    <3>9. m.ends_at >= memberships[i].ends_at
      BY <3>4, <3>8
    <3>10. ~m.is_expired
      BY <3>5, <3>8, Zenon
    <3> QED BY <3>7, <3>9, <3>10
  <2>2. ASSUME ~overlapped PROVE Cardinality({i \in Active : Purchased(i)}) <= 1
    <3>1. \A i, j \in BoughtActive : i = j
      BY <2>2 DEF PaidAndGranted
    <3>2. Cardinality(BoughtActive) \in {0, 1}
      BY <3>1, AtMostOne
    <3> QED BY <3>2 DEF BoughtActive
  <2> QED BY <2>1, <2>2 DEF MembershipSound, PaidAndGranted
<1>2. LSpec => []Inv
  BY InitSound, NextSound, PTL DEF LSpec
<1> QED BY <1>1, <1>2, PTL

\* An import that ends without an error has every old row that its runs did not report,
\* for any rows, page size and interruptions; and the gate counts right.
THEOREM ImportIsComplete == LSpec => []ImportComplete
<1>1. ASSUME Inv PROVE ImportComplete
  <2> USE <1>1, Known
  <2>1. ASSUME GatePasses, orders = <<>> PROVE users = Rows /\ refs = Rows
    <3>1. IsFiniteSet(Rows) /\ Cardinality(Rows) = LastRow /\ 1 \in Rows /\ LastRow \in Nat
      BY LegacyAssumption, FS_Interval DEF Rows
    <3>2. users \subseteq Rows /\ refs \subseteq Rows
      BY DEF LTypeOK
    <3>3. users = Rows
      BY <2>1, <3>1, <3>2, FS_Subset DEF GatePasses
    <3>4. \A i \in Active : i \in Migrated /\ 1 \in refs
      <4>1. ASSUME NEW i \in Active PROVE ~Purchased(i) /\ i \in DOMAIN memberships
        BY <2>1 DEF Active, Covered
      <4> QED BY <4>1, EndsTyped DEF Covered, Migrated, Purchased
    <3>5. \A i, j \in Active : i = j
      BY <3>4 DEF Covered
    <3>6. Cardinality(Active) \in {0, 1} /\ (Cardinality(Active) = 1 => 1 \in refs)
      BY <3>4, <3>5, AtMostOne
    <3>7. IsFiniteSet(Rows \ {1}) /\ Cardinality(Rows \ {1}) = LastRow - 1
      BY <3>1, FS_RemoveElement
    <3>8. /\ IsFiniteSet(refs \ {1}) /\ Cardinality(refs \ {1}) <= LastRow - 1
          /\ Cardinality(refs \ {1}) = LastRow - 1 => refs \ {1} = Rows \ {1}
      BY <3>2, <3>7, FS_Subset
    <3>9. Cardinality(refs \ {1}) \in Nat
      BY <3>8, FS_CardinalityType
    <3>10. Cardinality(Active) = 1 /\ Cardinality(refs \ {1}) = LastRow - 1
      BY <2>1, <3>1, <3>6, <3>8, <3>9 DEF GatePasses
    <3> QED BY <3>1, <3>2, <3>3, <3>6, <3>8, <3>10
  <2> QED BY <2>1 DEF ImportComplete, ImportKnows
<1>2. LSpec => []Inv
  BY InitSound, NextSound, PTL DEF LSpec
<1> QED BY <1>1, <1>2, PTL

-----------------------------------------------------------------------------
(* The books *)

\* What the books say, over the finitely many gifts there are.
Books == BooksBalance /\ IsFiniteSet(gifts)

Bought == {i \in DOMAIN orders : Wallet(i)}

\* The keys of the ledger are those of the rows.
LEMMA KeysOfRows ==
    ASSUME Books
    PROVE  \A key : key \in posted <=>
             \/ \E g \in gifts : key = <<"gift", g.key>>
             \/ \E e \in unlocks : key = <<"unlock", e>>
             \/ \E i \in Bought : key = <<"order", orders[i].key>>
BY DEF Books, BooksBalance, Bought

LEMMA GiftColumns ==
    ASSUME NEW g \in Gift
    PROVE  g.amount \in Int /\ g.key \in Keys
<1>1. Amounts \subseteq Nat
  BY EntitlementsAssumption
<1>2. g.amount \in Amounts /\ g.key \in Keys
  BY DEF Gift
<1>3. \A n \in Amounts : n \in Int
  BY <1>1
<1> QED BY ONLY <1>2, <1>3

LEMMA BooksTyped ==
    ASSUME Books
    PROVE  /\ money \in [Wallets -> Nat] /\ money["fan"] \in Int /\ money["owner"] \in Int
           /\ gifts \subseteq Gift /\ unlocks \subseteq Episodes
           /\ IsFiniteSet(gifts) /\ IsFiniteSet(unlocks) /\ IsFiniteSet(Bought)
           /\ Cardinality(unlocks) \in Nat /\ Cardinality(Bought) \in Nat
           /\ orders \in Seq(Order) /\ Funds \in Nat
           /\ \A g \in gifts : g.amount \in Int
           /\ money["owner"] = GiftTotals
           /\ money["fan"] = Funds - money["owner"] - (Cardinality(unlocks) + Cardinality(Bought))
<1>1. /\ money \in [Wallets -> Nat] /\ gifts \subseteq Gift /\ unlocks \subseteq Episodes
      /\ orders \in Seq(Order) /\ IsFiniteSet(gifts) /\ Funds \in Nat
  BY EntitlementsAssumption DEF Books, BooksBalance, ETypeOK
<1>2. money["fan"] \in Int /\ money["owner"] \in Int
  BY <1>1 DEF Wallets
<1>3. IsFiniteSet(Episodes)
  <2>1. IsFiniteSet({"free"})
    BY FS_Singleton
  <2>2. IsFiniteSet({"free"} \cup {"meow_points"})
    BY <2>1, FS_AddElement
  <2>3. IsFiniteSet(({"free"} \cup {"meow_points"}) \cup {"membership"})
    BY <2>2, FS_AddElement
  <2> QED BY <2>3, Episodes = ({"free"} \cup {"meow_points"}) \cup {"membership"} DEF Episodes
<1>4. IsFiniteSet(unlocks)
  BY <1>1, <1>3, FS_Subset
<1>5. IsFiniteSet(Bought)
  <2>1. DOMAIN orders = 1..Len(orders) /\ Len(orders) \in Nat
    BY <1>1
  <2>2. IsFiniteSet(DOMAIN orders) /\ Bought \subseteq DOMAIN orders
    BY <2>1, FS_Interval DEF Bought
  <2> QED BY <2>2, FS_Subset
<1>6. Cardinality(unlocks) \in Nat /\ Cardinality(Bought) \in Nat
  BY <1>4, <1>5, FS_CardinalityType
<1>7. \A g \in gifts : g.amount \in Int
  BY <1>1, GiftColumns
<1>8. money["owner"] = GiftTotals
  BY DEF Books, BooksBalance
<1>9. money["fan"] = Funds - money["owner"] - Price * (Cardinality(unlocks) + Cardinality(Bought))
  BY Zenon DEF Books, BooksBalance, Bought
<1>10. money["fan"] = Funds - money["owner"] - (Cardinality(unlocks) + Cardinality(Bought))
  BY <1>6, <1>9 DEF Price
<1> QED BY <1>1, <1>2, <1>4, <1>5, <1>6, <1>7, <1>8, <1>10

\* The same said of the next state, from its parts.
LEMMA BooksNext ==
    ASSUME Typed', money' \in [Wallets -> Nat], gifts' \subseteq Gift, unlocks' \subseteq Episodes,
           series' \in BOOLEAN, plan' \in BOOLEAN, called' \in 0..MaxCalls[offer'],
           IsFiniteSet(gifts'), GiftTotals' = money'["owner"],
           NEW u, NEW b, u = Cardinality(unlocks'), b = Cardinality(Bought'), u \in Nat, b \in Nat,
           money'["fan"] = Funds - money'["owner"] - (u + b),
           \A key : key \in posted' <=>
             \/ \E g \in gifts' : key = <<"gift", g.key>>
             \/ \E e \in unlocks' : key = <<"unlock", e>>
             \/ \E i \in Bought' : key = <<"order", orders'[i].key>>
    PROVE  Books'
<1>1. posted' = {<<"gift", g.key>> : g \in gifts'} \cup {<<"unlock", e>> : e \in unlocks'}
                 \cup {<<"order", orders'[i].key>> : i \in Bought'}
  OBVIOUS
<1>2. posted' \subseteq ({"gift", "order"} \X Keys) \cup ({"unlock"} \X Episodes)
  <2>1. \A g \in gifts' : g.key \in Keys
    BY DEF Gift
  <2>2. \A i \in Bought' : orders'[i].key \in Keys
    <3>1. \A i \in DOMAIN orders' : orders'[i] \in Order
      BY DEF Typed
    <3>2. \A o \in Order : o.key \in Keys
      BY DEF Order
    <3> QED BY <3>1, <3>2 DEF Bought
  <2> QED BY <1>1, <2>1, <2>2
<1>3. ETypeOK'
  BY <1>2 DEF ETypeOK, Typed, Steps
<1>4. Price * (u + b) = u + b
  BY DEF Price
<1>5. money'["fan"] = Funds - money'["owner"] - Price * (u + b)
  BY <1>4
<1>6. BooksBalance'
  BY Zenon, <1>1, <1>3, <1>5 DEF BooksBalance, Bought
<1> QED BY <1>6 DEF Books

\* A step that writes neither money nor what it is for.
LEMMA BooksKept ==
    ASSUME Books, Typed', UNCHANGED <<money, gifts, unlocks, posted>>,
           DOMAIN orders' = DOMAIN orders,
           \A i \in DOMAIN orders : /\ orders'[i].key = orders[i].key
                                    /\ orders'[i].provider = orders[i].provider,
           series' \in BOOLEAN, plan' \in BOOLEAN, called' \in 0..MaxCalls[offer']
    PROVE  Books'
<1>1. Bought' = Bought
  BY DEF Bought, Wallet
<1>2. \A i \in Bought : orders'[i].key = orders[i].key
  BY DEF Bought
<1>3. \A key : key \in posted' <=>
             \/ \E g \in gifts' : key = <<"gift", g.key>>
             \/ \E e \in unlocks' : key = <<"unlock", e>>
             \/ \E i \in Bought' : key = <<"order", orders'[i].key>>
  <2>1. \A key : key \in posted <=>
             \/ \E g \in gifts : key = <<"gift", g.key>>
             \/ \E e \in unlocks : key = <<"unlock", e>>
             \/ \E i \in Bought : key = <<"order", orders'[i].key>>
    BY <1>2, KeysOfRows
  <2> QED BY <1>1, <2>1
<1>4. GiftTotals' = GiftTotals
  BY DEF GiftTotals
<1> QED BY <1>1, <1>3, <1>4, BooksTyped, BooksNext

\* A debit of the fan for a key that is new.
LEMMA Debited ==
    ASSUME money \in [Wallets -> Nat], NEW key, key \notin posted, NEW n \in Nat,
           NEW to \in {"owner", "nobody"}, Post(key, "fan", n, to)
    PROVE  /\ money' \in [Wallets -> Nat] /\ posted' = posted \cup {key}
           /\ money'["fan"] = money["fan"] - n
           /\ money'["owner"] = money["owner"] + (IF to = "owner" THEN n ELSE 0)
<1>1. /\ money["fan"] >= n /\ posted' = posted \cup {key}
      /\ money' = [w \in Wallets |-> money[w] - (IF w = "fan" THEN n ELSE 0)
                                              + (IF w = to THEN n ELSE 0)]
  BY DEF Post
<1>2. money["fan"] \in Nat /\ money["owner"] \in Nat /\ "fan" \in Wallets /\ "owner" \in Wallets
  BY DEF Wallets
<1>3. /\ money'["fan"] = money["fan"] - n
      /\ money'["owner"] = money["owner"] + (IF to = "owner" THEN n ELSE 0)
  BY <1>1, <1>2
<1>4. money'["fan"] \in Nat /\ money'["owner"] \in Nat
  BY <1>1, <1>2, <1>3
<1> QED BY <1>1, <1>3, <1>4 DEF Wallets

LEMMA RequestColumns ==
    ASSUME Inv, NEW p \in Procs, step[p] = "commit"
    PROVE  /\ at[p].key \in Keys
           /\ at[p].path = "gift" => at[p].amount \in Amounts /\ at[p].amount \in Nat
           /\ at[p].path = "unlock" => at[p].episode \in Episodes
<1>1. at[p] \in Requests
  BY Known DEF RequestKnows
<1>2. ASSUME NEW r \in Requests
      PROVE  /\ r.key \in Keys
             /\ r.path = "gift" => r.amount \in Amounts /\ r.amount \in Nat
             /\ r.path = "unlock" => r.episode \in Episodes
  BY EntitlementsAssumption DEF Requests
<1> QED BY <1>1, <1>2

\* Another gift, for a key without one.
LEMMA OneMoreGift ==
    ASSUME NEW G \in SUBSET Gift, IsFiniteSet(G), NEW new \in Gift, new \notin G
    PROVE  SumFunctionOnSet([g \in G \cup {new} |-> g.amount], G \cup {new})
             = SumFunctionOnSet([g \in G |-> g.amount], G) + new.amount
<1> DEFINE f == [g \in G |-> g.amount]
           h == [g \in G \cup {new} |-> g.amount]
<1>1. \A g \in Gift : g.amount \in Int
  BY GiftColumns
<1>2. \A g \in G : h[g] = f[g] /\ h[g] \in Int
  BY <1>1
<1>3. \A g \in G \cup {new} : h[g] \in Int
  BY <1>1
<1>4. h[new] = new.amount
  OBVIOUS
<1> HIDE DEF f, h
<1>5. SumFunctionOnSet(h, G) = SumFunctionOnSet(f, G)
  BY ONLY <1>2, IsFiniteSet(G), SumSame
<1>6. SumFunctionOnSet(h, G \cup {new}) = SumFunctionOnSet(h, G) + h[new]
  BY ONLY <1>3, IsFiniteSet(G), new \notin G, SumAdd
<1> QED BY <1>4, <1>5, <1>6 DEF f, h

LEMMA GiftBooked ==
    ASSUME Inv, Inv', Books, NEW p \in Procs, SendGift(p)
    PROVE  Books'
<1> DEFINE new == [key |-> at[p].key, amount |-> at[p].amount, receiver |-> "owner"]
           key == <<"gift", at[p].key>>
           n == at[p].amount
<1>1. /\ step[p] = "commit" /\ at[p].path = "gift" /\ ~Found(at[p])
      /\ Post(key, "fan", n, "owner") /\ gifts' = gifts \cup {new}
      /\ UNCHANGED <<offer, unlocks, series, orders, plan, called>>
  BY DEF SendGift, member
<1>2. n \in Nat /\ new \in Gift
  BY <1>1, RequestColumns DEF Gift
<1>3. \A g \in gifts : g.key # at[p].key
  BY <1>1 DEF Found
<1>4. new \notin gifts /\ key \notin posted
  BY <1>3, KeysOfRows
<1>5. /\ money' \in [Wallets -> Nat] /\ posted' = posted \cup {key}
      /\ money'["fan"] = money["fan"] - n /\ money'["owner"] = money["owner"] + n
  BY <1>1, <1>2, <1>4, BooksTyped, Debited
<1>6. GiftTotals' = money'["owner"]
  <2>1. gifts \in SUBSET Gift /\ IsFiniteSet(gifts) /\ money["owner"] = GiftTotals
    BY BooksTyped
  <2>2. GiftTotals' = GiftTotals + new.amount
    BY <1>1, <1>2, <1>4, <2>1, OneMoreGift DEF GiftTotals
  <2> QED BY <1>5, <2>1, <2>2
<1>7. /\ Bought' = Bought /\ Typed' /\ gifts' \subseteq Gift /\ IsFiniteSet(gifts')
      /\ series' \in BOOLEAN /\ plan' \in BOOLEAN /\ called' \in 0..MaxCalls[offer']
  <2>1. IsFiniteSet(gifts \cup {new})
    BY BooksTyped, FS_AddElement
  <2> QED BY <1>1, <1>2, <2>1, BooksTyped DEF Bought, Wallet, Inv, Books, BooksBalance, ETypeOK
<1>8. \A k : k \in posted' <=>
             \/ \E g \in gifts' : k = <<"gift", g.key>>
             \/ \E e \in unlocks' : k = <<"unlock", e>>
             \/ \E i \in Bought' : k = <<"order", orders'[i].key>>
  <2>1. \A k : (\E g \in gifts' : k = <<"gift", g.key>>)
                 <=> (k = key \/ \E g \in gifts : k = <<"gift", g.key>>)
    <3>1. key = <<"gift", new.key>> /\ gifts' = gifts \cup {new}
      BY <1>1
    <3> HIDE DEF key, new
    <3> QED BY ONLY <3>1
  <2>2. \A k : k \in posted' <=> (k = key \/ k \in posted)
    BY <1>5
  <2> HIDE DEF key, new
  <2> QED BY <1>1, <1>7, <2>1, <2>2, KeysOfRows
<1>9. money'["fan"] = Funds - money'["owner"] - (Cardinality(unlocks) + Cardinality(Bought))
  <2>1. /\ money["fan"] = Funds - money["owner"] - (Cardinality(unlocks) + Cardinality(Bought))
        /\ money["fan"] \in Int /\ money["owner"] \in Int /\ Funds \in Nat
        /\ Cardinality(unlocks) \in Nat /\ Cardinality(Bought) \in Nat
    BY BooksTyped
  <2> HIDE DEF n
  <2> QED BY ONLY <1>2, <1>5, <2>1
<1> HIDE DEF new, key, n
<1> QED BY <1>1, <1>5, <1>6, <1>7, <1>8, <1>9, BooksTyped, BooksNext

LEMMA UnlockBooked ==
    ASSUME Inv, Inv', Books, NEW p \in Procs, UnlockEpisode(p)
    PROVE  Books'
<1> DEFINE e == at[p].episode
           key == <<"unlock", e>>
<1>1. /\ step[p] = "commit" /\ at[p].path = "unlock" /\ ~Found(at[p])
      /\ Post(key, "fan", 1, "nobody") /\ unlocks' = unlocks \cup {e}
      /\ UNCHANGED <<offer, gifts, series, orders, plan, called>>
  BY DEF UnlockEpisode, member, Price
<1>2. e \in Episodes /\ e \notin unlocks
  BY <1>1, RequestColumns DEF Found
<1>3. key \notin posted
  BY <1>2, KeysOfRows
<1>4. /\ money' \in [Wallets -> Nat] /\ posted' = posted \cup {key}
      /\ money'["fan"] = money["fan"] - 1 /\ money'["owner"] = money["owner"]
  <2>1. money["owner"] + 0 = money["owner"]
    BY BooksTyped
  <2> QED BY <1>1, <1>3, <2>1, BooksTyped, Debited
<1>5. Cardinality(unlocks') = Cardinality(unlocks) + 1
  BY <1>1, <1>2, BooksTyped, FS_AddElement
<1>6. /\ Bought' = Bought /\ Typed' /\ unlocks' \subseteq Episodes /\ GiftTotals' = GiftTotals
      /\ series' \in BOOLEAN /\ plan' \in BOOLEAN /\ called' \in 0..MaxCalls[offer']
  BY <1>1, <1>2, BooksTyped DEF Bought, Wallet, Inv, Books, BooksBalance, ETypeOK, GiftTotals
<1>7. \A k : k \in posted' <=>
             \/ \E g \in gifts' : k = <<"gift", g.key>>
             \/ \E x \in unlocks' : k = <<"unlock", x>>
             \/ \E i \in Bought' : k = <<"order", orders'[i].key>>
  <2>1. \A k : (\E x \in unlocks' : k = <<"unlock", x>>)
                 <=> (k = key \/ \E x \in unlocks : k = <<"unlock", x>>)
    BY <1>1
  <2>2. \A k : k \in posted' <=> (k = key \/ k \in posted)
    BY <1>4
  <2> HIDE DEF key
  <2> QED BY <1>1, <1>6, <2>1, <2>2, KeysOfRows
<1>8. /\ money'["fan"] = Funds - money'["owner"] - (Cardinality(unlocks') + Cardinality(Bought))
      /\ Cardinality(unlocks') \in Nat
  <2>1. /\ money["fan"] = Funds - money["owner"] - (Cardinality(unlocks) + Cardinality(Bought))
        /\ money["fan"] \in Int /\ money["owner"] \in Int /\ Funds \in Nat
        /\ Cardinality(unlocks) \in Nat /\ Cardinality(Bought) \in Nat
    BY BooksTyped
  <2> QED BY ONLY <1>4, <1>5, <2>1
<1>9. money'["owner"] = GiftTotals /\ IsFiniteSet(gifts') /\ gifts' \subseteq Gift
  BY <1>1, <1>4, BooksTyped
<1> HIDE DEF e, key
<1> QED BY <1>4, <1>6, <1>7, <1>8, <1>9, BooksTyped, BooksNext

LEMMA OrderBooked ==
    ASSUME Inv, Inv', Books, NEW p \in Procs, CreateOrder(p)
    PROVE  Books'
<1> DEFINE key == <<"order", at[p].key>>
           last == Len(orders) + 1
<1>1. /\ step[p] = "commit" /\ ~Found(at[p]) /\ at[p].path = "order"
      /\ UNCHANGED <<offer, gifts, unlocks, series, plan, called>>
  BY DEF CreateOrder, content
<1>2. PICK provider \in {"wallet", "stripe"} :
        /\ orders' = Append(orders, [key |-> at[p].key, status |-> "pending_payment",
                                     provider |-> provider, tries |-> 0,
                                     event |-> IF provider = "wallet" THEN "pending" ELSE "none"])
        /\ IF provider = "wallet" THEN Post(key, "fan", 1, "nobody")
                                  ELSE UNCHANGED <<money, posted>>
  BY DEF CreateOrder, Price
<1> DEFINE new == [key |-> at[p].key, status |-> "pending_payment",
                   provider |-> provider, tries |-> 0,
                   event |-> IF provider = "wallet" THEN "pending" ELSE "none"]
<1>3. new \in Order /\ new.key = at[p].key /\ new.provider = provider
  BY <1>1, RequestColumns DEF Order
<1>4. orders' = Append(orders, new) /\ orders \in Seq(Order)
  BY <1>2, BooksTyped
<1> HIDE DEF new
<1>5. /\ DOMAIN orders' = DOMAIN orders \cup {last} /\ last \notin DOMAIN orders
      /\ orders'[last] = new /\ \A i \in DOMAIN orders : orders'[i] = orders[i]
  BY ONLY <1>3, <1>4, Appended
<1>6. \A i \in Bought : orders[i].key # at[p].key
  BY <1>1 DEF Found, Bought
<1>7. key \notin posted
  BY <1>6, KeysOfRows
<1>8. /\ Typed' /\ GiftTotals' = GiftTotals /\ gifts' \subseteq Gift /\ IsFiniteSet(gifts')
      /\ unlocks' = unlocks /\ unlocks' \subseteq Episodes
      /\ series' \in BOOLEAN /\ plan' \in BOOLEAN /\ called' \in 0..MaxCalls[offer']
  BY <1>1, BooksTyped DEF Inv, Books, BooksBalance, ETypeOK, GiftTotals
<1>9. \A i \in Bought : orders'[i] = orders[i]
  BY <1>5 DEF Bought
<1>10. CASE provider = "wallet"
  <2>1. Bought' = Bought \cup {last} /\ last \notin Bought
    BY <1>3, <1>5, <1>10 DEF Bought, Wallet
  <2>2. Cardinality(Bought') = Cardinality(Bought) + 1
    BY <2>1, BooksTyped, FS_AddElement
  <2>3. /\ money' \in [Wallets -> Nat] /\ posted' = posted \cup {key}
        /\ money'["fan"] = money["fan"] - 1 /\ money'["owner"] = money["owner"]
    <3>1. money["owner"] + 0 = money["owner"]
      BY BooksTyped
    <3> QED BY <1>2, <1>7, <1>10, <3>1, BooksTyped, Debited
  <2>4. \A k : k \in posted' <=>
             \/ \E g \in gifts' : k = <<"gift", g.key>>
             \/ \E x \in unlocks' : k = <<"unlock", x>>
             \/ \E i \in Bought' : k = <<"order", orders'[i].key>>
    <3>1. \A k : (\E i \in Bought' : k = <<"order", orders'[i].key>>)
                   <=> (k = key \/ \E i \in Bought : k = <<"order", orders[i].key>>)
      BY <1>3, <1>5, <1>9, <2>1
    <3>2. \A k : k \in posted' <=> (k = key \/ k \in posted)
      BY <2>3
    <3> HIDE DEF key
    <3> QED BY <1>1, <3>1, <3>2, KeysOfRows
  <2>5. /\ money'["fan"] = Funds - money'["owner"] - (Cardinality(unlocks) + Cardinality(Bought'))
        /\ Cardinality(Bought') \in Nat
    <3>1. /\ money["fan"] = Funds - money["owner"] - (Cardinality(unlocks) + Cardinality(Bought))
          /\ money["fan"] \in Int /\ money["owner"] \in Int /\ Funds \in Nat
          /\ Cardinality(unlocks) \in Nat /\ Cardinality(Bought) \in Nat
      BY BooksTyped
    <3> QED BY ONLY <2>2, <2>3, <3>1
  <2>6. money'["owner"] = GiftTotals'
    BY <1>8, <2>3, BooksTyped
  <2> HIDE DEF key, last
  <2> QED BY <1>8, <2>3, <2>4, <2>5, <2>6, BooksTyped, BooksNext
<1>11. CASE provider # "wallet"
  <2>1. Bought' = Bought /\ UNCHANGED <<money, posted>>
    BY <1>2, <1>3, <1>5, <1>11 DEF Bought, Wallet
  <2>2. \A k : k \in posted' <=>
             \/ \E g \in gifts' : k = <<"gift", g.key>>
             \/ \E x \in unlocks' : k = <<"unlock", x>>
             \/ \E i \in Bought' : k = <<"order", orders'[i].key>>
    <3>1. \A k : (\E i \in Bought' : k = <<"order", orders'[i].key>>)
                   <=> (\E i \in Bought : k = <<"order", orders[i].key>>)
      BY <1>9, <2>1
    <3> QED BY <1>1, <2>1, <3>1, KeysOfRows
  <2> HIDE DEF key, last
  <2> QED BY <1>8, <2>1, <2>2, BooksTyped, BooksNext
<1> QED BY <1>10, <1>11

\* A step of the platform that leaves the orders too.
LEMMA OrdersKept ==
    ASSUME Inv', Books, UNCHANGED <<offer, money, gifts, unlocks, posted, orders>>,
           series' \in BOOLEAN, plan' \in BOOLEAN, called' \in 0..MaxCalls[offer]
    PROVE  Books'
<1>1. Typed'
  BY DEF Inv
<1> QED BY <1>1, BooksKept

\* The flags and the counter, when nobody writes them.
LEMMA FlagsTyped ==
    ASSUME Books
    PROVE  /\ series \in BOOLEAN /\ plan \in BOOLEAN /\ called \in 0..MaxCalls[offer]
           /\ called \in Nat /\ MaxCalls[offer] \in Nat
<1>1. series \in BOOLEAN /\ plan \in BOOLEAN /\ called \in 0..MaxCalls[offer] /\ offer \in Offers
  BY DEF Books, BooksBalance, ETypeOK
<1>2. MaxCalls[offer] \in Nat
  BY <1>1, EntitlementsAssumption
<1> QED BY <1>1, <1>2

LEMMA RestBooked ==
    ASSUME Inv', Books, UNCHANGED <<offer, money, gifts, unlocks, posted, orders>>,
           UNCHANGED <<series, plan, called>>
    PROVE  Books'
BY OrdersKept, FlagsTyped

LEMMA OutsideBooked ==
    ASSUME Inv', Books, Evict \/ NextDay \/ Withdraw
    PROVE  Books'
<1>1. UNCHANGED <<offer, money, gifts, unlocks, posted, orders, called>>
  BY DEF Evict, NextDay, Withdraw, content, member
<1>2. /\ series' = series \/ series' = ~series
      /\ plan' = plan \/ plan' = ~plan
  BY DEF Evict, NextDay, Withdraw, content, member
<1>3. series \in BOOLEAN /\ plan \in BOOLEAN /\ called \in 0..MaxCalls[offer]
  BY FlagsTyped
<1>4. series' \in BOOLEAN /\ plan' \in BOOLEAN
  BY ONLY <1>2, <1>3
<1>5. called' \in 0..MaxCalls[offer]
  BY <1>1, <1>3
<1> QED BY <1>1, <1>4, <1>5, OrdersKept

\* One order is written and keeps its key and provider.
LEMMA OneOrderKept ==
    ASSUME Inv, Inv', Books, UNCHANGED <<offer, money, gifts, unlocks, posted, series, plan, called>>,
           NEW i \in DOMAIN orders, NEW new, orders' = [orders EXCEPT ![i] = new],
           new.key = orders[i].key, new.provider = orders[i].provider
    PROVE  Books'
<1>1. Typed' /\ orders \in Seq(Order)
  BY DEF Inv, Typed
<1>2. /\ DOMAIN orders' = DOMAIN orders
      /\ \A j \in DOMAIN orders : /\ orders'[j].key = orders[j].key
                                  /\ orders'[j].provider = orders[j].provider
  BY <1>1
<1>3. series' \in BOOLEAN /\ plan' \in BOOLEAN /\ called' \in 0..MaxCalls[offer']
  BY FlagsTyped
<1> QED BY <1>1, <1>2, <1>3, BooksKept

LEMMA BuyerKept ==
    ASSUME NEW o \in Order, NEW e, NEW t
    PROVE  /\ LET new == [o EXCEPT !.event = e]
              IN  new.key = o.key /\ new.provider = o.provider
           /\ LET new == [o EXCEPT !.status = "paid"]
              IN  new.key = o.key /\ new.provider = o.provider
           /\ LET new == [o EXCEPT !.tries = t, !.event = e]
              IN  new.key = o.key /\ new.provider = o.provider
BY DEF Order

LEMMA DeliveryBooked ==
    ASSUME Inv, Inv', Books, NEW p \in Procs, Deliver(p)
    PROVE  Books'
<1>1. UNCHANGED <<offer, money, gifts, unlocks, posted, series, plan, called>>
  BY DEF Deliver, ReadOrder, GrantFails, ScanActive, InsertGrant, content
<1>2. CASE ReadOrder(p)
  <2>1. PICK i \in DOMAIN orders : orders' = [orders EXCEPT ![i].event = "settled"] \/ orders' = orders
    BY <1>2 DEF ReadOrder
  <2>2. CASE orders' = orders
    BY <1>1, <2>2, RestBooked
  <2>3. CASE orders' = [orders EXCEPT ![i].event = "settled"]
    <3> DEFINE new == [orders[i] EXCEPT !.event = "settled"]
    <3>1. new.key = orders[i].key /\ new.provider = orders[i].provider
      BY Known, OrderColumns, BuyerKept
    <3>2. orders' = [orders EXCEPT ![i] = new]
      BY <2>3
    <3> HIDE DEF new
    <3> QED BY <1>1, <3>1, <3>2, OneOrderKept
  <2> QED BY <2>1, <2>2, <2>3
<1>3. CASE GrantFails(p)
  <2> DEFINE i == at[p].order
             e == IF orders[i].tries + 1 = MaxTries[offer] THEN "dead" ELSE orders[i].event
             t == orders[i].tries + 1
             new == [orders[i] EXCEPT !.tries = t, !.event = e]
  <2>1. /\ Granting(p)
        /\ orders' = IF orders[i].event # "pending" THEN orders ELSE [orders EXCEPT ![i] = new]
    BY <1>3 DEF GrantFails
  <2>2. i \in DOMAIN orders
    BY <2>1, Known DEF DeliveryKnows
  <2>3. new.key = orders[i].key /\ new.provider = orders[i].provider
    <3> HIDE DEF e, t
    <3> QED BY <2>2, Known, OrderColumns, BuyerKept
  <2> HIDE DEF new, i
  <2> QED BY <1>1, <2>1, <2>2, <2>3, OneOrderKept, RestBooked
<1>4. CASE ScanActive(p)
  BY <1>1, <1>4, RestBooked DEF ScanActive
<1>5. CASE InsertGrant(p)
  <2> DEFINE i == at[p].order
             new == [orders[i] EXCEPT !.status = "paid"]
  <2>1. Granting(p) /\ orders' = [orders EXCEPT ![i] = new]
    BY <1>5 DEF InsertGrant, Granting
  <2>2. i \in DOMAIN orders
    BY <2>1, Known DEF DeliveryKnows
  <2>3. new.key = orders[i].key /\ new.provider = orders[i].provider
    BY <2>2, Known, OrderColumns, BuyerKept
  <2> HIDE DEF new, i
  <2> QED BY <1>1, <2>1, <2>2, <2>3, OneOrderKept
<1> QED BY <1>2, <1>3, <1>4, <1>5 DEF Deliver

LEMMA StripeBooked ==
    ASSUME Inv, Inv', Books, NEW i \in DOMAIN orders, SettleStripe(i)
    PROVE  Books'
<1> DEFINE new == [orders[i] EXCEPT !.event = "pending"]
<1>1. /\ orders' = [orders EXCEPT ![i] = new]
      /\ UNCHANGED <<offer, money, gifts, unlocks, posted, series, plan, called>>
  BY DEF SettleStripe, content
<1>2. new.key = orders[i].key /\ new.provider = orders[i].provider
  BY Known, OrderColumns, BuyerKept
<1> HIDE DEF new
<1> QED BY <1>1, <1>2, OneOrderKept

LEMMA RequestBooked ==
    ASSUME Inv, Inv', Books, NEW p \in Procs, Call(p) \/ Proceed(p)
    PROVE  Books'
<1>1. CASE Call(p)
  <2>1. /\ UNCHANGED <<offer, money, gifts, unlocks, posted, orders, series, plan>>
        /\ called < MaxCalls[offer] /\ called' = called + 1
    BY <1>1 DEF Call, content, member
  <2>2. called' \in 0..MaxCalls[offer] /\ series \in BOOLEAN /\ plan \in BOOLEAN
    BY <2>1, FlagsTyped
  <2> QED BY <2>1, <2>2, OrdersKept
<1>2. CASE Lookup(p) \/ Store(p) \/ GiveUp(p)
  <2>1. UNCHANGED <<offer, money, gifts, unlocks, posted, orders, series, plan, called>>
    BY <1>2 DEF Lookup, Store, GiveUp, content, member
  <2> QED BY <2>1, RestBooked
<1> QED BY <1>1, <1>2, GiftBooked, UnlockBooked, OrderBooked DEF Proceed

LEMMA ImportBooked ==
    ASSUME Inv', Books,
           (\E c \in Commands : BeginRun(c)) \/ LoadPage \/ WriteCheckpoint \/ EndRun \/ Interrupt \/ Repair
    PROVE  Books'
<1>1. UNCHANGED <<offer, money, gifts, unlocks, posted, orders, series, plan, called>>
  BY DEF BeginRun, LoadPage, LoadUsers, LoadMemberships, WriteCheckpoint, EndRun, Interrupt, Repair,
         evars, content
<1> QED BY <1>1, RestBooked

LEMMA BooksInit == LInit => Books
<1> SUFFICES ASSUME LInit PROVE Books
  OBVIOUS
<1>1. /\ offer \in Offers /\ money = [w \in Wallets |-> IF w = "fan" THEN Funds ELSE 0]
      /\ gifts = {} /\ unlocks = {} /\ posted = {} /\ series = TRUE /\ plan = TRUE
      /\ orders = <<>> /\ called = 0
  BY DEF LInit, EInit
<1>2. MaxCalls[offer] \in Nat /\ Funds \in Nat
  BY <1>1, EntitlementsAssumption
<1>3. money["fan"] = Funds /\ money["owner"] = 0 /\ money \in [Wallets -> Nat]
  BY <1>1, <1>2 DEF Wallets
<1>4. GiftTotals = 0
  BY <1>1, SumEmpty DEF GiftTotals
<1>5. Bought = {}
  BY <1>1 DEF Bought
<1>6. Cardinality(unlocks) = 0 /\ Cardinality(Bought) = 0 /\ IsFiniteSet(gifts)
  BY <1>1, <1>5, FS_EmptySet
<1>7. ETypeOK
  BY <1>1, <1>2, <1>3, InitSound DEF ETypeOK, Inv, Typed, Steps
<1>8. money["fan"] = Funds - money["owner"] - Price * (Cardinality(unlocks) + Cardinality(Bought))
  BY <1>2, <1>3, <1>6 DEF Price
<1>9. posted = {<<"gift", g.key>> : g \in gifts} \cup {<<"unlock", e>> : e \in unlocks}
                 \cup {<<"order", orders[i].key>> : i \in Bought}
  BY <1>1, <1>5
<1>10. BooksBalance
  BY ONLY <1>3, <1>4, <1>7, <1>8, <1>9 DEF BooksBalance, Bought
<1> QED BY <1>6, <1>10 DEF Books

LEMMA BooksStep ==
    ASSUME Inv, Inv', Books, [LNext]_<<evars, lvars>>
    PROVE  Books'
<1>1. CASE UNCHANGED <<evars, lvars>>
  BY <1>1, RestBooked DEF evars, content, member
<1>2. CASE ENext
  <2>1. ASSUME NEW p \in Procs, Call(p) \/ Proceed(p) PROVE Books'
    BY <2>1, RequestBooked
  <2>2. ASSUME NEW p \in Procs, Deliver(p) PROVE Books'
    BY <2>2, DeliveryBooked
  <2>3. ASSUME NEW i \in DOMAIN orders, SettleStripe(i) PROVE Books'
    BY <2>3, StripeBooked
  <2>4. CASE Evict \/ NextDay \/ Withdraw
    BY <2>4, OutsideBooked
  <2> QED BY <1>2, <2>1, <2>2, <2>3, <2>4 DEF ENext
<1>3. CASE (\E c \in Commands : BeginRun(c))
             \/ LoadPage \/ WriteCheckpoint \/ EndRun \/ Interrupt \/ Repair
  BY <1>3, ImportBooked
<1> QED BY <1>1, <1>2, <1>3 DEF LNext

\* Whatever requests with one key overlap, are given up, are repeated or are answered
\* from the cache: each gift, unlock and wallet order stands for one debit, each gift
\* for one credit, and the fan's balance is what the rows leave of the funds.
THEOREM BooksAreBalanced == LSpec => []BooksBalance
<1>1. LInit => Inv /\ Books
  BY InitSound, BooksInit
<1>2. Inv /\ Books /\ [LNext]_<<evars, lvars>> => (Inv /\ Books)'
  BY NextSound, BooksStep
<1>3. Books => BooksBalance
  BY DEF Books
<1> QED BY <1>1, <1>2, <1>3, PTL DEF LSpec
=============================================================================
