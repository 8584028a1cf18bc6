----------------------------- MODULE Live_proofs -----------------------------
(***************************************************************************)
(* Proofs about Live, for any threads, viewers, products, bounds and       *)
(* scenes: row and runtime differ only after a named accident, the views   *)
(* are counted, presence is cleared, and the chat ends with the stream.    *)
(*                                                                         *)
(* The argument: what a request has found holds until it writes, because   *)
(* it has the row locked or because the row only goes on (JobKnows); the   *)
(* runtime works on no more than one creation, and on a start or a stop    *)
(* only for a request that waits for it or has given it up (CallKnows).    *)
(***************************************************************************)
EXTENDS Live, FiniteSetTheorems, TLAPS

-----------------------------------------------------------------------------
(* Requests as rows *)

Ops == {"none", "create", "prepare", "start", "end", "update", "watch", "post", "delete",
        "pin", "unpin", "gift", "bind", "rebind", "unbind", "methods"}
Phases == {"idle", "call", "wait", "view", "count", "commit"}
Args == {0} \cup {"public", "private"} \cup Viewers \cup LiveStream \cup LiveChatMessage
        \cup (Nat \X LiveChatMessage) \cup LiveStreamProduct \cup Seq(Methods)
Job == [op : Ops, at : Phases, arg : Args]

Inv == LiveInv /\ job \in [Procs -> Job]

LEMMA IdleJob == Idle \in Job /\ Idle.op = "none" /\ Idle.at = "idle"
BY DEF Idle, Job, Ops, Phases, Args

LEMMA Known ==
    ASSUME Inv
    PROVE  /\ scene \in Scenes /\ mode \in {"fake", "refused", "served"}
           /\ row \in LiveStream /\ holder \in Procs \cup {NoProc}
           /\ views \subseteq LiveStreamView /\ minute \in 0..MaxMinutes
           /\ messages \in Seq(LiveChatMessage) /\ gifts \in Nat
           /\ made \in 0..MaxCalls[scene]
           /\ bindings \subseteq LiveStreamProduct /\ methods \in Seq(Methods)
           /\ onSale \subseteq Products
           /\ memory \in {"none", "ready", "live", "ended"} /\ presence \subseteq {"anon"}
           /\ slips \subseteq {"start", "end", "restart", "overlap", "uncounted"}
           /\ call \in [Procs -> Call] /\ job \in [Procs -> Job]
           /\ \A p \in Procs : JobKnows(p) /\ CallKnows(p)
           /\ RowAndMemory /\ ViewsCounted /\ BoundOnce /\ GhostsExplained
BY DEF Inv, LiveInv, TypeOK

LEMMA RowColumns ==
    ASSUME NEW r \in LiveStream
    PROVE  /\ r.status \in {"none", "idle", "ready", "live", "ended"}
           /\ r.visibility \in {"public", "private"} /\ r.viewer_count \in Nat
BY DEF LiveStream

\* A request moves to another phase.
LEMMA Advanced ==
    ASSUME job \in [Procs -> Job], NEW p \in Procs, NEW phase \in Phases, Advance(p, phase)
    PROVE  /\ job' \in [Procs -> Job]
           /\ job'[p].op = job[p].op /\ job'[p].arg = job[p].arg /\ job'[p].at = phase
           /\ \A q \in Procs : q # p => job'[q] = job[q]
<1> DEFINE new == [job[p] EXCEPT !.at = phase]
<1>1. job[p] \in Job
  OBVIOUS
<1>2. new \in Job /\ new.op = job[p].op /\ new.arg = job[p].arg /\ new.at = phase
  BY <1>1 DEF Job
<1>3. job' = [job EXCEPT ![p] = new]
  BY DEF Advance
<1> HIDE DEF new
<1> QED BY <1>2, <1>3

LEMMA Finished ==
    ASSUME job \in [Procs -> Job], NEW p \in Procs, Done(p)
    PROVE  /\ job' \in [Procs -> Job]
           /\ job'[p] = Idle /\ job'[p].op = "none" /\ job'[p].at = "idle"
           /\ \A q \in Procs : q # p => job'[q] = job[q]
BY IdleJob DEF Done

\* The runtime's thread goes on, or answers.
LEMMA CallWritten ==
    ASSUME call \in [Procs -> Call], NEW p \in Procs, NEW new \in Call,
           call' = [call EXCEPT ![p] = new]
    PROVE  /\ call' \in [Procs -> Call] /\ call'[p] = new
           /\ \A q \in Procs : q # p => call'[q] = call[q]
OBVIOUS

LEMMA CallGoesOn ==
    ASSUME call \in [Procs -> Call], NEW p \in Procs,
           NEW phase \in {"sent", "required", "stopped", "joining", "done"}, At(p, phase)
    PROVE  /\ call' \in [Procs -> Call]
           /\ call'[p].method = call[p].method /\ call'[p].at = phase
           /\ \A q \in Procs : q # p => call'[q] = call[q]
<1> DEFINE new == [call[p] EXCEPT !.at = phase]
<1>1. call[p] \in Call
  OBVIOUS
<1>2. new \in Call /\ new.method = call[p].method /\ new.at = phase
  BY <1>1 DEF Call
<1>3. call' = [call EXCEPT ![p] = new]
  BY DEF At
<1> HIDE DEF new
<1> QED BY <1>2, <1>3

LEMMA CallAnswers ==
    ASSUME call \in [Procs -> Call], NEW p \in Procs, NEW ok \in BOOLEAN, Reply(p, ok)
    PROVE  /\ call' \in [Procs -> Call]
           /\ call'[p].method = call[p].method /\ call'[p].at = "done" /\ call'[p].ok = ok
           /\ \A q \in Procs : q # p => call'[q] = call[q]
<1> DEFINE new == [call[p] EXCEPT !.at = "done", !.ok = ok]
<1>1. call[p] \in Call
  OBVIOUS
<1>2. new \in Call /\ new.method = call[p].method /\ new.at = "done" /\ new.ok = ok
  BY <1>1 DEF Call
<1>3. call' = [call EXCEPT ![p] = new]
  BY <1>1 DEF Reply, Call
<1> HIDE DEF new
<1> QED BY <1>2, <1>3

-----------------------------------------------------------------------------
(* What a step may do to the parts of the invariant *)

\* Statuses go on: nothing comes back to "none", nothing leaves the end.
RowOnward ==
    /\ row' \in LiveStream
    /\ row.status # "none" => row'.status # "none"
    /\ row.status \in {"live", "ended"} => row'.status \in {"live", "ended"}

\* A request that is not the one that moves.
LEMMA JobWaits ==
    ASSUME Inv, NEW q \in Procs, job'[q] = job[q], holder' = q <=> holder = q, RowOnward,
           holder = q => /\ row'.status = row.status /\ row'.viewer_count = row.viewer_count
                         /\ bindings' = bindings,
           DOMAIN messages \subseteq DOMAIN messages',
           job[q].op = "create" => /\ row'.status = "none"
                                   /\ \A r \in Procs : r # q => /\ job'[r].op # "create"
                                                                /\ call'[r].method # "CreateStream"
    PROVE  JobKnows(q)'
<1>1. JobKnows(q)
  BY Known
<1> QED BY <1>1 DEF JobKnows, RowOnward, Locking, Binds

\* An accident or a request on its way that explains a difference still does.
LEMMA StillSlipped ==
    ASSUME NEW op, slips \subseteq slips',
           \A q \in Procs : job[q].op = op /\ job[q].at \in {"wait", "commit"} =>
               \/ job'[q].op = op /\ job'[q].at \in {"wait", "commit"}
               \/ op \in slips'
    PROVE  Slipped(op) => Slipped(op)'
BY DEF Slipped, Ongoing

\* Nothing of the requests, the row and the tables changes.
DjangoRests ==
    UNCHANGED <<scene, mode, minute, onSale, views, messages, gifts, bindings, methods, row,
                holder, job, made>>

StepSound == Inv' /\ ChatStep

LEMMA ChatRests ==
    ASSUME Inv, UNCHANGED <<messages, gifts>>
    PROVE  ChatStep
<1>1. Len(messages') = Len(messages) /\ Len(messages) \in Nat
  BY Known
<1>2. \A v \in Users : ListMessages(v)' \cap DOMAIN messages
                          \subseteq {i \in DOMAIN messages : messages[i].is_active}
  BY DEF ListMessages
<1> QED BY <1>1, <1>2 DEF ChatStep

\* A step of the runtime: what is left to show is about calls and memory.
LEMMA RuntimeSteps ==
    ASSUME Inv, DjangoRests, slips \subseteq slips',
           "uncounted" \in slips' => "uncounted" \in slips,
           slips' \subseteq {"start", "end", "restart", "overlap", "uncounted"},
           memory' \in {"none", "ready", "live", "ended"}, presence' \subseteq {"anon"},
           call' \in [Procs -> Call],
           \A q \in Procs : call'[q].method = call[q].method,
           \A q \in Procs : CallKnows(q)',
           RowAndMemory', GhostsExplained'
    PROVE  StepSound
<1> USE Known
<1>1. TypeOK'
  BY DEF TypeOK, DjangoRests
<1>2. RowOnward
  BY RowColumns DEF RowOnward, DjangoRests
<1>3. \A q \in Procs : JobKnows(q)'
  <2> SUFFICES ASSUME NEW q \in Procs PROVE JobKnows(q)'
    OBVIOUS
  <2>1. job[q].op = "create" => /\ row.status = "none"
                                /\ \A r \in Procs : r # q => /\ job[r].op # "create"
                                                             /\ call[r].method # "CreateStream"
    BY DEF JobKnows
  <2> QED BY <1>2, <2>1, JobWaits DEF DjangoRests
<1>4. ViewsCounted'
  <2>1. Counting' = Counting
    BY DEF Counting, DjangoRests
  <2> QED BY <2>1 DEF ViewsCounted, DjangoRests
<1>5. BoundOnce'
  BY DEF BoundOnce, DjangoRests
<1>6. ChatStep
  BY ChatRests DEF DjangoRests
<1> QED BY <1>1, <1>3, <1>4, <1>5, <1>6 DEF StepSound, Inv, LiveInv, DjangoRests

\* Another thread of the runtime works on.
LEMMA CallWaits ==
    ASSUME Inv, NEW q \in Procs, call'[q] = call[q], job'[q] = job[q], UNCHANGED mode,
           slips \subseteq slips',
           row'.status = "none" => row.status = "none",
           row.status = "none" /\ row'.status # "none" /\ call[q].method = "CreateStream"
               => call[q].at = "done",
           memory' = memory
             \/ /\ call[q].at = "stopped" => memory' = "ended"
                /\ mode = "served" /\ memory' = "none" => "restart" \in slips'
                /\ job[q].op = "end" /\ memory \in {"ended", "none"} => memory' \in {"ended", "none"}
    PROVE  CallKnows(q)'
<1>1. CallKnows(q)
  BY Known
<1> QED BY <1>1, RowColumns DEF CallKnows

\* Row and memory, when the row rests.
LEMMA MemoryWritten ==
    ASSUME Inv, UNCHANGED <<mode, row, job>>, slips \subseteq slips',
           row.status = "none" => memory' \in {"none", "ready"},
           mode = "served" =>
             /\ row.status = "ended" => memory' \in {"ended", "none"}
             /\ row.status # "none" /\ memory' = "none" => memory = "none" \/ "restart" \in slips'
             /\ memory' = "ended" /\ row.status \in {"idle", "ready", "live"} => memory = "ended" \/ Slipped("end")'
             /\ memory' = "live" /\ row.status \in {"idle", "ready"} => memory = "live" \/ Slipped("start")'
    PROVE  RowAndMemory'
<1>1. RowAndMemory
  BY Known
<1>2. Slipped("end") => Slipped("end")'
  BY StillSlipped
<1>3. Slipped("start") => Slipped("start")'
  BY StillSlipped
<1> QED BY <1>1, <1>2, <1>3 DEF RowAndMemory

LEMMA RequireRuns ==
    ASSUME Inv, NEW p \in Procs, Require(p)
    PROVE  StepSound
<1>1. call' \in [Procs -> Call] /\ call'[p].method = call[p].method
      /\ call'[p].at \in {"required", "done"} /\ (call'[p].at = "done" => ~call'[p].ok)
      /\ (\A q \in Procs : q # p => call'[q] = call[q])
  BY Known, CallGoesOn, CallAnswers DEF Require
<1>2. DjangoRests /\ UNCHANGED <<memory, presence, slips>>
  BY DEF Require, DjangoRests, setting, tables
<1>3. \A q \in Procs : CallKnows(q)'
  <2>1. CallKnows(p)
    BY Known
  <2>2. CallKnows(p)'
    BY <1>1, <1>2, <2>1 DEF CallKnows, DjangoRests, Require
  <2>3. ASSUME NEW q \in Procs, q # p PROVE CallKnows(q)'
    BY <1>1, <1>2, <2>3, CallWaits DEF DjangoRests
  <2> QED BY <2>2, <2>3
<1>4. RowAndMemory'
  BY <1>2, Known, MemoryWritten DEF DjangoRests, RowAndMemory
<1>5. GhostsExplained'
  BY <1>1, <1>2, Known DEF GhostsExplained, Require
<1> QED BY <1>1, <1>2, <1>3, <1>4, <1>5, Known, RuntimeSteps

LEMMA CreateRuns ==
    ASSUME Inv, NEW p \in Procs, ServeCreate(p)
    PROVE  StepSound
<1>1. call' \in [Procs -> Call] /\ call'[p].method = call[p].method
      /\ call'[p].at = "done" /\ call'[p].ok
      /\ (\A q \in Procs : q # p => call'[q] = call[q])
  BY Known, CallAnswers DEF ServeCreate
<1>2. DjangoRests /\ UNCHANGED <<presence, slips>>
  BY DEF ServeCreate, DjangoRests, setting, tables
<1>3. row.status = "none" /\ memory \in {"none", "ready"} /\ memory' = "ready"
  BY Known DEF ServeCreate, CallKnows, RowAndMemory
<1>4. \A q \in Procs : CallKnows(q)'
  <2>1. CallKnows(p) /\ JobKnows(p)
    BY Known
  <2>2. CallKnows(p)'
    BY <1>1, <1>2, <1>3, <2>1 DEF CallKnows, DjangoRests, ServeCreate, JobKnows
  <2>3. ASSUME NEW q \in Procs, q # p PROVE CallKnows(q)'
    <3>1. CallKnows(q) /\ JobKnows(q)
      BY Known
    <3> QED BY <1>1, <1>2, <1>3, <2>3, <3>1, CallWaits DEF DjangoRests, CallKnows, JobKnows
  <2> QED BY <2>2, <2>3
<1>5. RowAndMemory'
  BY <1>2, <1>3, Known, MemoryWritten DEF DjangoRests
<1>6. GhostsExplained'
  BY <1>1, <1>2, <1>3, Known DEF GhostsExplained, ServeCreate
<1> QED BY <1>1, <1>2, <1>3, <1>4, <1>5, <1>6, Known, RuntimeSteps

LEMMA StartRuns ==
    ASSUME Inv, NEW p \in Procs, ServeStart(p)
    PROVE  StepSound
<1>1. call' \in [Procs -> Call] /\ call'[p].method = call[p].method /\ call'[p].at = "done"
      /\ (\A q \in Procs : q # p => call'[q] = call[q])
  BY Known, CallAnswers DEF ServeStart
<1>2. DjangoRests /\ UNCHANGED <<presence, slips>>
  BY DEF ServeStart, DjangoRests, setting, tables
<1>3. call[p].method = "StartBroadcast" /\ call[p].at = "required"
      /\ (memory' = memory \/ (memory \in {"ready", "live"} /\ memory' = "live"))
  BY DEF ServeStart
<1>4. row.status # "none" /\ Slipped("start")
  BY <1>3, Known DEF CallKnows, Slipped, Ongoing
<1>5. \A q \in Procs : CallKnows(q)'
  <2>1. CallKnows(p) /\ JobKnows(p)
    BY Known
  <2>2. CallKnows(p)'
    BY <1>1, <1>2, <1>3, <2>1 DEF CallKnows, DjangoRests, RpcOf
  <2>3. ASSUME NEW q \in Procs, q # p PROVE CallKnows(q)'
    <3>1. call[q].at = "stopped" => memory = "ended"
      BY Known DEF CallKnows
    <3> QED BY <1>1, <1>2, <1>3, <2>3, <3>1, CallWaits DEF DjangoRests
  <2> QED BY <2>2, <2>3
<1>6. RowAndMemory'
  <2>1. Slipped("start")'
    BY <1>2, <1>4, StillSlipped DEF DjangoRests
  <2> QED BY <1>2, <1>3, <1>4, <2>1, Known, MemoryWritten DEF DjangoRests, RowAndMemory
<1>7. GhostsExplained'
  BY <1>1, <1>2, <1>3, Known DEF GhostsExplained
<1> QED BY <1>1, <1>2, <1>3, <1>5, <1>6, <1>7, Known, RuntimeSteps

LEMMA StopRuns ==
    ASSUME Inv, NEW p \in Procs, ServeStop(p)
    PROVE  StepSound
<1>1. call' \in [Procs -> Call] /\ call'[p].method = call[p].method /\ call'[p].at = "stopped"
      /\ (\A q \in Procs : q # p => call'[q] = call[q])
  BY Known, CallGoesOn DEF ServeStop
<1>2. DjangoRests /\ UNCHANGED <<presence, slips>>
  BY DEF ServeStop, DjangoRests, setting, tables
<1>3. call[p].method = "StopBroadcast" /\ call[p].at = "required" /\ memory' = "ended"
  BY DEF ServeStop
<1>4. row.status # "none" /\ Slipped("end")
  BY <1>3, Known DEF CallKnows, Slipped, Ongoing
<1>5. \A q \in Procs : CallKnows(q)'
  <2>1. CallKnows(p) /\ JobKnows(p)
    BY Known
  <2>2. CallKnows(p)'
    BY <1>1, <1>2, <1>3, <2>1 DEF CallKnows, DjangoRests, RpcOf
  <2>3. ASSUME NEW q \in Procs, q # p PROVE CallKnows(q)'
    BY <1>1, <1>2, <1>3, <2>3, CallWaits DEF DjangoRests
  <2> QED BY <2>2, <2>3
<1>6. RowAndMemory'
  <2>1. Slipped("end")'
    BY <1>2, <1>4, StillSlipped DEF DjangoRests
  <2> QED BY <1>2, <1>3, <1>4, <2>1, Known, MemoryWritten DEF DjangoRests, RowAndMemory
<1>7. GhostsExplained'
  BY <1>1 DEF GhostsExplained
<1> QED BY <1>1, <1>2, <1>3, <1>5, <1>6, <1>7, Known, RuntimeSteps

LEMMA ClearRuns ==
    ASSUME Inv, NEW p \in Procs, ClearPresence(p)
    PROVE  StepSound
<1>1. call' \in [Procs -> Call] /\ call'[p].method = call[p].method /\ call'[p].at = "done"
      /\ (\A q \in Procs : q # p => call'[q] = call[q])
  BY Known, CallAnswers DEF ClearPresence
<1>2. DjangoRests /\ UNCHANGED memory /\ presence' = {} /\ slips \subseteq slips'
      /\ slips' \subseteq slips \cup {"overlap"}
      /\ ((\E q \in Procs : call[q].at = "joining") => "overlap" \in slips')
  BY DEF ClearPresence, DjangoRests, setting, tables
<1>3. call[p].method = "StopBroadcast" /\ call[p].at = "stopped" /\ memory = "ended"
  BY Known DEF ClearPresence, CallKnows
<1>4. \A q \in Procs : CallKnows(q)'
  <2>1. CallKnows(p) /\ JobKnows(p)
    BY Known
  <2>2. CallKnows(p)'
    BY <1>1, <1>2, <1>3, <2>1 DEF CallKnows, DjangoRests, RpcOf
  <2>3. ASSUME NEW q \in Procs, q # p PROVE CallKnows(q)'
    BY <1>1, <1>2, <2>3, CallWaits DEF DjangoRests
  <2> QED BY <2>2, <2>3
<1>5. RowAndMemory'
  BY <1>2, Known, MemoryWritten DEF DjangoRests, RowAndMemory
<1>6. GhostsExplained'
  BY <1>1, <1>2 DEF GhostsExplained
<1> QED BY <1>1, <1>2, <1>4, <1>5, <1>6, Known, RuntimeSteps

LEMMA WatchRuns ==
    ASSUME Inv, NEW p \in Procs, ServeWatch(p)
    PROVE  StepSound
<1>1. call' \in [Procs -> Call] /\ call'[p].method = call[p].method
      /\ (call'[p].at = "done" \/ (call'[p].at = "joining" /\ memory = "live"))
      /\ (\A q \in Procs : q # p => call'[q] = call[q])
  BY Known, CallGoesOn, CallAnswers DEF ServeWatch
<1>2. DjangoRests /\ UNCHANGED <<memory, presence, slips>>
  BY DEF ServeWatch, DjangoRests, setting, tables
<1>3. call[p].method = "GetWatchConfig" /\ call[p].at = "sent"
  BY DEF ServeWatch
<1>4. \A q \in Procs : CallKnows(q)'
  <2>1. CallKnows(p) /\ JobKnows(p)
    BY Known
  <2>2. CallKnows(p)'
    BY <1>1, <1>2, <1>3, <2>1 DEF CallKnows, DjangoRests, RpcOf
  <2>3. ASSUME NEW q \in Procs, q # p PROVE CallKnows(q)'
    BY <1>1, <1>2, <2>3, CallWaits DEF DjangoRests
  <2> QED BY <2>2, <2>3
<1>5. RowAndMemory'
  BY <1>2, Known, MemoryWritten DEF DjangoRests, RowAndMemory
<1>6. GhostsExplained'
  BY <1>1, <1>2, <1>3, Known DEF GhostsExplained
<1> QED BY <1>1, <1>2, <1>4, <1>5, <1>6, Known, RuntimeSteps

LEMMA JoinRuns ==
    ASSUME Inv, NEW p \in Procs, Join(p)
    PROVE  StepSound
<1>1. call' \in [Procs -> Call] /\ call'[p].method = call[p].method /\ call'[p].at = "done"
      /\ (\A q \in Procs : q # p => call'[q] = call[q])
  BY Known, CallAnswers DEF Join
<1>2. DjangoRests /\ UNCHANGED <<memory, slips>> /\ presence' = {"anon"}
  BY DEF Join, DjangoRests, setting, tables
<1>3. call[p].at = "joining"
  BY DEF Join
<1>4. \A q \in Procs : CallKnows(q)'
  <2>1. CallKnows(p) /\ JobKnows(p)
    BY Known
  <2>2. CallKnows(p)'
    BY <1>1, <1>2, <1>3, <2>1 DEF CallKnows, DjangoRests, RpcOf
  <2>3. ASSUME NEW q \in Procs, q # p PROVE CallKnows(q)'
    BY <1>1, <1>2, <2>3, CallWaits DEF DjangoRests
  <2> QED BY <2>2, <2>3
<1>5. RowAndMemory'
  BY <1>2, Known, MemoryWritten DEF DjangoRests, RowAndMemory
<1>6. GhostsExplained'
  BY <1>1, <1>2, <1>3, Known DEF GhostsExplained
<1> QED BY <1>1, <1>2, <1>4, <1>5, <1>6, Known, RuntimeSteps

LEMMA UnreachedRuns ==
    ASSUME Inv, NEW p \in Procs, Unreached(p)
    PROVE  StepSound
<1>1. call' \in [Procs -> Call] /\ call'[p].method = call[p].method
      /\ call'[p].at = "done" /\ ~call'[p].ok
      /\ (\A q \in Procs : q # p => call'[q] = call[q])
  BY Known, CallAnswers DEF Unreached
<1>2. DjangoRests /\ UNCHANGED <<memory, presence, slips>> /\ call[p].at = "sent"
  BY DEF Unreached, DjangoRests, setting, tables
<1>3. \A q \in Procs : CallKnows(q)'
  <2>1. CallKnows(p)
    BY Known
  <2>2. CallKnows(p)'
    BY <1>1, <1>2, <2>1 DEF CallKnows, DjangoRests
  <2>3. ASSUME NEW q \in Procs, q # p PROVE CallKnows(q)'
    BY <1>1, <1>2, <2>3, CallWaits DEF DjangoRests
  <2> QED BY <2>2, <2>3
<1>4. RowAndMemory'
  BY <1>2, Known, MemoryWritten DEF DjangoRests, RowAndMemory
<1>5. GhostsExplained'
  BY <1>1, <1>2, Known DEF GhostsExplained
<1> QED BY <1>1, <1>2, <1>3, <1>4, <1>5, Known, RuntimeSteps

LEMMA RestartRuns ==
    ASSUME Inv, Restart
    PROVE  StepSound
<1>1. call' \in [Procs -> Call]
      /\ \A q \in Procs : /\ call'[q].method = call[q].method /\ call'[q].at = "done"
                          /\ call'[q].ok => call[q].ok /\ call[q].at = "done"
  <2>1. call' = [q \in Procs |-> [call[q] EXCEPT !.at = "done", !.ok = call[q].ok /\ call[q].at = "done"]]
    BY DEF Restart
  <2>2. ASSUME NEW c \in Call, NEW b \in BOOLEAN
        PROVE  LET new == [c EXCEPT !.at = "done", !.ok = b]
               IN  new \in Call /\ new.method = c.method /\ new.at = "done" /\ new.ok = b
    BY DEF Call
  <2>3. ASSUME NEW q \in Procs
        PROVE  /\ call'[q] \in Call /\ call'[q].method = call[q].method /\ call'[q].at = "done"
               /\ call'[q].ok => call[q].ok /\ call[q].at = "done"
    <3>1. call[q] \in Call /\ (call[q].ok /\ call[q].at = "done") \in BOOLEAN
      BY Known
    <3> DEFINE b == call[q].ok /\ call[q].at = "done"
    <3>2. call'[q] = [call[q] EXCEPT !.at = "done", !.ok = b]
      BY <2>1
    <3> QED BY <2>2, <3>1, <3>2
  <2> QED BY <2>1, <2>3
<1>2. DjangoRests /\ mode = "served" /\ memory' = "none" /\ presence' = {}
      /\ slips' = slips \cup {"restart"}
  BY DEF Restart, DjangoRests, setting, tables
<1>3. \A q \in Procs : CallKnows(q)'
  <2> SUFFICES ASSUME NEW q \in Procs PROVE CallKnows(q)'
    OBVIOUS
  <2>1. CallKnows(q)
    BY Known
  <2> QED BY <1>1, <1>2, <2>1 DEF CallKnows, DjangoRests
<1>4. RowAndMemory'
  BY <1>2, Known, MemoryWritten DEF DjangoRests
<1>5. GhostsExplained'
  BY <1>1, <1>2 DEF GhostsExplained
<1> QED BY <1>1, <1>2, <1>3, <1>4, <1>5, Known, RuntimeSteps

-----------------------------------------------------------------------------
(* A new request *)

\* Only the request, the lock and their number change.
LEMMA Asked ==
    ASSUME Inv, NEW p \in Procs, NEW op \in Ops \ {"none"},
           NEW phase \in {"call", "view", "commit"}, NEW arg \in Args, Ask(p, op, phase, arg),
           phase = "commit" => op \notin {"create", "end"},
           op \in Locking => holder = NoProc /\ holder' = p /\ row.status # "none",
           op \notin Locking => holder' = holder,
           phase = "call" => op \in Calling, phase = "view" => op = "watch",
           op = "create" => /\ row.status = "none" /\ arg \in {"public", "private"}
                            /\ \A q \in Procs : job[q].op # "create" /\ call[q].method # "CreateStream",
           op = "prepare" => row.status = "idle",
           op = "start" => row.status \in {"idle", "ready"},
           op = "end" => row.status \in {"idle", "ready", "live"},
           op = "update" => /\ arg \in LiveStream /\ arg.status = row.status
                            /\ arg.viewer_count = row.viewer_count,
           op = "watch" => row.status # "none" /\ arg \in Viewers,
           op = "post" => row.status = "live" /\ arg \in LiveChatMessage,
           op \in {"delete", "pin", "unpin"} => arg[1] \in DOMAIN messages,
           op = "gift" => row.status \in {"live", "ended"},
           op \in {"bind", "rebind"} => arg \in LiveStreamProduct,
           op = "bind" => Binds(arg.product) = {},
           op = "methods" => arg \in Seq(Methods)
    PROVE  StepSound
<1> USE Known
<1> DEFINE new == [op |-> op, at |-> phase, arg |-> arg]
<1>1. new \in Job /\ new.op = op /\ new.at = phase /\ new.arg = arg
  BY DEF Job, Phases
<1>2. job' = [job EXCEPT ![p] = new] /\ job[p].op = "none" /\ made' \in 0..MaxCalls[scene]
      /\ UNCHANGED <<setting, tables, row, runtime, slips>>
  BY LiveAssumption DEF Ask
<1> HIDE DEF new
<1>3. job' \in [Procs -> Job] /\ job'[p] = new /\ (\A q \in Procs : q # p => job'[q] = job[q])
  BY <1>1, <1>2
<1>4. job[p] = Idle /\ job[p].at = "idle" /\ holder # p /\ p # NoProc
  BY <1>2, IdleJob, LiveAssumption DEF JobKnows, Locking
<1>5. TypeOK'
  BY <1>2 DEF TypeOK, setting, tables, runtime
<1>6. JobKnows(p)'
  BY <1>1, <1>2, <1>3, <1>4 DEF JobKnows, setting, tables, runtime, Binds
<1>7. ASSUME NEW q \in Procs, q # p PROVE JobKnows(q)'
  <2>1. JobKnows(q)
    OBVIOUS
  <2>2. (holder' = q) <=> (holder = q)
    BY <1>7, LiveAssumption
  <2>3. RowOnward
    BY <1>2, RowColumns DEF RowOnward
  <2>4. job[q].op = "create" => /\ row'.status = "none"
                                /\ \A r \in Procs : r # q => /\ job'[r].op # "create"
                                                             /\ call'[r].method # "CreateStream"
    BY <1>1, <1>2, <1>3, <2>1 DEF JobKnows, runtime
  <2> QED BY <1>2, <1>3, <1>7, <2>2, <2>3, <2>4, JobWaits DEF tables
<1>8. ASSUME NEW q \in Procs PROVE CallKnows(q)'
  <2>1. CallKnows(q)
    OBVIOUS
  <2>2. CASE q # p
    BY <1>2, <1>3, <2>2, CallWaits DEF setting, runtime
  <2>3. CASE q = p
    BY <1>1, <1>2, <1>3, <1>4, <2>1, <2>3 DEF CallKnows, setting, runtime
  <2> QED BY <2>2, <2>3
<1>9. RowAndMemory'
  <2>1. \A x : Slipped(x) => Slipped(x)'
    BY <1>2, <1>3, <1>4 DEF Slipped, Ongoing
  <2> QED BY <1>2, <2>1 DEF RowAndMemory, setting, runtime
<1>10. ViewsCounted'
  <2>1. Counting' = Counting
    BY <1>1, <1>3, <1>4 DEF Counting
  <2> QED BY <1>2, <2>1 DEF ViewsCounted, tables
<1>11. BoundOnce' /\ GhostsExplained' /\ ChatStep
  BY <1>2, ChatRests DEF BoundOnce, GhostsExplained, tables, runtime
<1> QED BY <1>2, <1>3, <1>5, <1>6, <1>7, <1>8, <1>9, <1>10, <1>11 DEF StepSound, Inv, LiveInv, runtime

LEMMA LockTaken ==
    ASSUME NEW p \in Procs, Lock(p)
    PROVE  row.status # "none" /\ holder = NoProc /\ holder' = p
BY DEF Lock

LEMMA RequestsStart ==
    ASSUME Inv, NEW p \in Procs, Request(p)
    PROVE  StepSound
<1> USE Known, LockTaken DEF Ops, Args, Locking, Calling
<1>1. CASE CreateStream(p)
  <2>1. PICK v \in {"public", "private"} : Ask(p, "create", "call", v)
    BY <1>1 DEF CreateStream
  <2> QED BY <1>1, <2>1, Asked DEF CreateStream
<1>2. CASE PrepareStream(p)
  BY <1>2, Asked DEF PrepareStream
<1>3. CASE StartStream(p)
  BY <1>3, Asked DEF StartStream
<1>4. CASE EndStream(p)
  BY <1>4, Asked DEF EndStream
<1>5. CASE UpdateStream(p)
  <2>1. PICK v \in {"public", "private"} :
          Ask(p, "update", "commit", [row EXCEPT !.visibility = v])
    BY <1>5 DEF UpdateStream
  <2>2. ASSUME NEW r \in LiveStream
        PROVE  LET new == [r EXCEPT !.visibility = v]
               IN  new \in LiveStream /\ new.status = r.status /\ new.viewer_count = r.viewer_count
    BY DEF LiveStream
  <2> DEFINE new == [row EXCEPT !.visibility = v]
  <2>3. new \in LiveStream /\ new.status = row.status /\ new.viewer_count = row.viewer_count
    BY <2>2
  <2>4. Ask(p, "update", "commit", new)
    BY <2>1
  <2> HIDE DEF new
  <2> QED BY <1>5, <2>3, <2>4, Asked DEF UpdateStream
<1>6. CASE Watch(p)
  <2>1. PICK v \in Viewers : Ask(p, "watch", "view", v)
    BY <1>6 DEF Watch
  <2> QED BY <1>6, <2>1, Asked DEF Watch
<1>7. CASE PostMessage(p)
  <2>1. PICK u \in Users, t \in {"text", "product"} :
          Ask(p, "post", "commit", [author |-> u, type |-> t, is_pinned |-> FALSE, is_active |-> TRUE])
    BY <1>7 DEF PostMessage
  <2> DEFINE new == [author |-> u, type |-> t, is_pinned |-> FALSE, is_active |-> TRUE]
  <2>2. new \in LiveChatMessage
    BY DEF LiveChatMessage
  <2>3. Ask(p, "post", "commit", new)
    BY <2>1
  <2> HIDE DEF new
  <2> QED BY <1>7, <2>2, <2>3, Asked DEF PostMessage
<1>8. CASE Moderate(p)
  <2>1. PICK i \in DOMAIN messages, op \in {"delete", "pin", "unpin"} :
          Ask(p, op, "commit", <<i, messages[i]>>)
    BY <1>8 DEF Moderate
  <2> DEFINE new == <<i, messages[i]>>
  <2>2. new \in Nat \X LiveChatMessage /\ new[1] = i
    OBVIOUS
  <2>3. Ask(p, op, "commit", new)
    BY <2>1
  <2> HIDE DEF new
  <2> QED BY <1>8, <2>2, <2>3, Asked DEF Moderate
<1>9. CASE CheckGift(p)
  BY <1>9, Asked DEF CheckGift
<1>10. CASE BindProduct(p)
  <2>1. PICK q \in onSale, f \in BOOLEAN :
          /\ Binds(q) = {}
          /\ Ask(p, "bind", "commit", [product |-> q, is_featured |-> f, is_active |-> TRUE])
    BY <1>10 DEF BindProduct
  <2> DEFINE new == [product |-> q, is_featured |-> f, is_active |-> TRUE]
  <2>2. new \in LiveStreamProduct /\ new.product = q
    BY DEF LiveStreamProduct
  <2>3. Ask(p, "bind", "commit", new) /\ Binds(new.product) = {}
    BY <2>1, <2>2
  <2> HIDE DEF new
  <2> QED BY <1>10, <2>2, <2>3, Asked DEF BindProduct
<1>11. CASE ChangeBinding(p)
  <2>1. ASSUME NEW b \in LiveStreamProduct, NEW f \in BOOLEAN, NEW a \in BOOLEAN
        PROVE  [b EXCEPT !.is_featured = f, !.is_active = a] \in LiveStreamProduct
    BY DEF LiveStreamProduct
  <2>2. PICK b \in bindings, new \in LiveStreamProduct, op \in {"rebind", "unbind"} :
          Ask(p, op, "commit", new)
    BY <1>11, <2>1 DEF ChangeBinding
  <2> QED BY <1>11, <2>2, Asked DEF ChangeBinding
<1>12. CASE SetPaymentMethods(p)
  <2>1. PICK s \in {<<>>, <<"stripe">>, <<"stripe", "meow_points">>, <<"meow_points", "stripe">>} :
          Ask(p, "methods", "commit", s)
    BY <1>12 DEF SetPaymentMethods
  <2>2. s \in Seq(Methods)
    <3>1. ASSUME NEW a \in Methods, NEW b \in Methods
          PROVE  <<>> \in Seq(Methods) /\ <<a>> \in Seq(Methods) /\ <<a, b>> \in Seq(Methods)
      OBVIOUS
    <3> QED BY <2>1, <3>1 DEF Methods
  <2> QED BY <1>12, <2>1, <2>2, Asked DEF SetPaymentMethods
<1> QED BY <1>1, <1>2, <1>3, <1>4, <1>5, <1>6, <1>7, <1>8, <1>9, <1>10, <1>11, <1>12 DEF Request

-----------------------------------------------------------------------------
(* A request goes on *)

\* What every such step does: it moves one request, whose lock it may let go of, and
\* what it writes is the one that has the lock or only goes on.
Works(p) ==
    /\ UNCHANGED <<setting, made, memory, presence>>
    /\ job' \in [Procs -> Job] /\ \A q \in Procs : q # p => job'[q] = job[q]
    /\ call' \in [Procs -> Call] /\ \A q \in Procs : q # p => call'[q] = call[q]
    /\ holder' = holder \/ (holder = p /\ holder' = NoProc)
    /\ RowOnward
    /\ holder \notin {p, NoProc} =>
         row'.status = row.status /\ row'.viewer_count = row.viewer_count /\ bindings' = bindings
    /\ row'.status # row.status => row.status # "none" \/ job[p].op = "create"
    /\ job'[p].op \in {job[p].op, "none"}
    /\ call'[p].method = "CreateStream" =>
         call[p].method = "CreateStream" \/ job[p].op = "create"
    /\ views' \subseteq LiveStreamView /\ gifts' \in Nat
    /\ messages' \in Seq(LiveChatMessage) /\ DOMAIN messages \subseteq DOMAIN messages'
    /\ bindings' \subseteq LiveStreamProduct /\ methods' \in Seq(Methods)
    /\ slips \subseteq slips'
    /\ slips' \subseteq {"start", "end", "restart", "overlap", "uncounted"}

LEMMA WorkSteps ==
    ASSUME Inv, NEW p \in Procs, Works(p),
           JobKnows(p)', CallKnows(p)', RowAndMemory', ViewsCounted', BoundOnce',
           GhostsExplained', ChatStep
    PROVE  StepSound
<1> USE Known
<1>1. TypeOK'
  BY DEF TypeOK, Works, RowOnward, setting
<1>2. ASSUME NEW q \in Procs, q # p PROVE JobKnows(q)'
  <2>1. JobKnows(q) /\ JobKnows(p)
    OBVIOUS
  <2>2. (holder' = q) <=> (holder = q)
    BY <1>2, LiveAssumption DEF Works
  <2>3. holder = q => /\ row'.status = row.status /\ row'.viewer_count = row.viewer_count
                      /\ bindings' = bindings
    BY <1>2, LiveAssumption DEF Works
  <2>4. job[q].op = "create" => /\ row'.status = "none"
                                /\ \A r \in Procs : r # q => /\ job'[r].op # "create"
                                                             /\ call'[r].method # "CreateStream"
    BY <1>2, <2>1 DEF JobKnows, Works
  <2> QED BY <1>2, <2>2, <2>3, <2>4, JobWaits DEF Works
<1>3. ASSUME NEW q \in Procs, q # p PROVE CallKnows(q)'
  <2>1. JobKnows(p)
    OBVIOUS
  <2>2. row.status = "none" /\ row'.status # "none" => call[q].method # "CreateStream"
    BY <1>3, <2>1 DEF JobKnows, Works
  <2> QED BY <1>3, <2>2, CallWaits DEF Works, RowOnward, setting
<1> QED BY <1>1, <1>2, <1>3 DEF StepSound, Inv, LiveInv, Works

\* The row rests, and an end or a start that is given up is noted.
LEMMA RowRests ==
    ASSUME Inv, NEW p \in Procs, Works(p), UNCHANGED row,
           job[p].op \in {"start", "end"} /\ job[p].at \in {"wait", "commit"} =>
               \/ job'[p].op = job[p].op /\ job'[p].at \in {"wait", "commit"}
               \/ job[p].op \in slips'
    PROVE  RowAndMemory'
<1>1. ASSUME NEW op \in {"start", "end"} PROVE Slipped(op) => Slipped(op)'
  BY StillSlipped DEF Works
<1>2. RowAndMemory
  BY Known
<1> QED BY <1>1, <1>2 DEF RowAndMemory, Works, setting

LEMMA GhostsRest ==
    ASSUME Inv, memory' = memory, presence' = presence, slips \subseteq slips',
           \A q \in Procs : call'[q].at = call[q].at \/ (call[q].at = "done" /\ call'[q].at = "sent")
    PROVE  GhostsExplained'
BY Known DEF GhostsExplained

LEMMA ViewsRest ==
    ASSUME Inv, UNCHANGED <<views, row>>, Counting' = Counting, slips \subseteq slips'
    PROVE  ViewsCounted'
BY Known DEF ViewsCounted

LEMMA FakeAnswers ==
    ASSUME Inv, NEW p \in Procs, FakeRuntime(p)
    PROVE  StepSound
<1> USE Known
<1>1. /\ job[p].at = "call" /\ mode = "fake" /\ Advance(p, "commit")
      /\ UNCHANGED <<setting, tables, row, holder, made, runtime, slips>>
  BY DEF FakeRuntime
<1>2. /\ job' \in [Procs -> Job] /\ job'[p].op = job[p].op /\ job'[p].arg = job[p].arg
      /\ job'[p].at = "commit" /\ \A q \in Procs : q # p => job'[q] = job[q]
  BY <1>1, Advanced DEF Phases
<1>3. Works(p)
  BY <1>1, <1>2, RowColumns DEF Works, RowOnward, tables, runtime
<1>4. JobKnows(p) /\ CallKnows(p)
  OBVIOUS
<1>5. JobKnows(p)'
  BY <1>1, <1>2, <1>4, IdleJob DEF JobKnows, Calling, tables, runtime, Binds
<1>6. CallKnows(p)'
  BY <1>1, <1>2, <1>4 DEF CallKnows, JobKnows, setting, runtime
<1>7. RowAndMemory'
  BY <1>1, <1>2, <1>3, RowRests
<1>8. ViewsCounted'
  <2>1. Counting' = Counting
    BY <1>1, <1>2 DEF Counting
  <2> QED BY <1>1, <2>1, ViewsRest DEF tables
<1>9. BoundOnce' /\ GhostsExplained' /\ ChatStep
  BY <1>1, ChatRests, GhostsRest DEF BoundOnce, tables, runtime
<1> QED BY <1>3, <1>5, <1>6, <1>7, <1>8, <1>9, WorkSteps

LEMMA RuntimeCalled ==
    ASSUME Inv, NEW p \in Procs, CallRuntime(p)
    PROVE  StepSound
<1> USE Known
<1>1. /\ job[p].at = "call" /\ mode # "fake" /\ Lets(GetMetadata) /\ call[p].at = "done"
      /\ Advance(p, "wait")
      /\ UNCHANGED <<setting, tables, row, holder, made, memory, presence, slips>>
  BY DEF CallRuntime
<1>2. /\ job' \in [Procs -> Job] /\ job'[p].op = job[p].op /\ job'[p].arg = job[p].arg
      /\ job'[p].at = "wait" /\ \A q \in Procs : q # p => job'[q] = job[q]
  BY <1>1, Advanced DEF Phases
<1>3. JobKnows(p) /\ CallKnows(p) /\ mode = "served" /\ job[p].op \in Calling
  BY <1>1 DEF JobKnows, Lets, GetMetadata
<1> DEFINE new == [method |-> RpcOf(job[p].op), at |-> "sent", ok |-> FALSE]
<1>4. new \in Call /\ new.method = RpcOf(job[p].op) /\ new.at = "sent"
  BY <1>3 DEF Call, Calling, RpcOf
<1>5. call' = [call EXCEPT ![p] = new]
  BY DEF CallRuntime
<1> HIDE DEF new
<1>6. call' \in [Procs -> Call] /\ call'[p] = new /\ \A q \in Procs : q # p => call'[q] = call[q]
  BY <1>4, <1>5, CallWritten
<1>7. Works(p)
  BY <1>1, <1>2, <1>3, <1>4, <1>6, RowColumns DEF Works, RowOnward, tables, Calling, RpcOf
<1>8. JobKnows(p)'
  BY <1>1, <1>2, <1>3, <1>6, IdleJob DEF JobKnows, tables, Binds
<1>9. CallKnows(p)'
  BY <1>1, <1>2, <1>3, <1>4, <1>6, <1>7 DEF CallKnows, JobKnows, Works, setting, Calling, RpcOf
<1>10. RowAndMemory'
  BY <1>1, <1>2, <1>7, RowRests
<1>11. ViewsCounted'
  <2>1. Counting' = Counting
    BY <1>1, <1>2 DEF Counting
  <2> QED BY <1>1, <2>1, ViewsRest DEF tables
<1>12. BoundOnce' /\ GhostsExplained' /\ ChatStep
  BY <1>1, <1>4, <1>6, ChatRests, GhostsRest DEF BoundOnce, tables
<1> QED BY <1>7, <1>8, <1>9, <1>10, <1>11, <1>12, WorkSteps

LEMMA AnswerTaken ==
    ASSUME Inv, NEW p \in Procs, Answered(p)
    PROVE  StepSound
<1> USE Known
<1>1. /\ job[p].at = "wait" /\ call[p].at = "done" /\ call[p].ok /\ Advance(p, "commit")
      /\ UNCHANGED <<setting, tables, row, holder, made, runtime, slips>>
  BY DEF Answered
<1>2. /\ job' \in [Procs -> Job] /\ job'[p].op = job[p].op /\ job'[p].arg = job[p].arg
      /\ job'[p].at = "commit" /\ \A q \in Procs : q # p => job'[q] = job[q]
  BY <1>1, Advanced DEF Phases
<1>3. Works(p)
  BY <1>1, <1>2, RowColumns DEF Works, RowOnward, tables, runtime
<1>4. JobKnows(p) /\ CallKnows(p)
  OBVIOUS
<1>5. JobKnows(p)'
  BY <1>1, <1>2, <1>4, IdleJob DEF JobKnows, Calling, tables, runtime, Binds
<1>6. CallKnows(p)'
  BY <1>1, <1>2, <1>4 DEF CallKnows, JobKnows, setting, runtime
<1>7. RowAndMemory'
  BY <1>1, <1>2, <1>3, RowRests
<1>8. ViewsCounted'
  <2>1. Counting' = Counting
    BY <1>1, <1>2 DEF Counting
  <2> QED BY <1>1, <2>1, ViewsRest DEF tables
<1>9. BoundOnce' /\ GhostsExplained' /\ ChatStep
  BY <1>1, ChatRests, GhostsRest DEF BoundOnce, tables, runtime
<1> QED BY <1>3, <1>5, <1>6, <1>7, <1>8, <1>9, WorkSteps

LEMMA LockReleased ==
    ASSUME Inv, NEW p \in Procs, Release(p)
    PROVE  holder' # p /\ (holder' = holder \/ (holder = p /\ holder' = NoProc))
BY LiveAssumption DEF Release

\* A request that is over knows nothing.
LEMMA NothingKnown ==
    ASSUME Inv, NEW p \in Procs, Done(p), holder' # p
    PROVE  JobKnows(p)'
BY Known, Finished, IdleJob DEF JobKnows, Locking

LEMMA Aborted ==
    ASSUME Inv, NEW p \in Procs, Abort(p)
    PROVE  StepSound
<1> USE Known
<1>1. /\ job[p].op # "none" /\ Done(p) /\ Release(p)
      /\ UNCHANGED <<setting, tables, row, made, runtime>>
      /\ slips \subseteq slips'
      /\ slips' \subseteq {"start", "end", "restart", "overlap", "uncounted"}
      /\ job[p].op \in {"start", "end"} /\ job[p].at # "call" => job[p].op \in slips'
      /\ job[p].at = "count" => "uncounted" \in slips'
  BY DEF Abort
<1>2. /\ job' \in [Procs -> Job] /\ job'[p] = Idle /\ job'[p].op = "none" /\ job'[p].at = "idle"
      /\ \A q \in Procs : q # p => job'[q] = job[q]
  BY <1>1, Finished
<1>3. holder' # p /\ (holder' = holder \/ (holder = p /\ holder' = NoProc))
  BY <1>1, LockReleased
<1>4. Works(p)
  BY <1>1, <1>2, <1>3, RowColumns DEF Works, RowOnward, tables, runtime
<1>5. JobKnows(p)'
  BY <1>1, <1>3, NothingKnown
<1>6. CallKnows(p)'
  <2>1. CallKnows(p)
    OBVIOUS
  <2> QED BY <1>1, <1>2, <2>1 DEF CallKnows, setting, runtime
<1>7. RowAndMemory'
  BY <1>1, <1>4, RowRests
<1>8. ViewsCounted'
  <2>1. CASE job[p].at = "count"
    <3>1. Counting' = Counting \ {p} /\ p \in Counting
      BY <1>2, <2>1 DEF Counting
    <3>2. /\ IsFiniteSet(Counting') /\ Cardinality(Counting') = Cardinality(Counting) - 1
          /\ Cardinality(Counting) \in Nat
      <4>1. IsFiniteSet(Counting)
        BY DEF ViewsCounted
      <4> QED BY <3>1, <4>1, FS_RemoveElement, FS_CardinalityType
    <3>3. Cardinality(views) \in Nat /\ row.viewer_count \in Nat
      BY FS_CardinalityType, RowColumns DEF ViewsCounted
    <3> QED BY <1>1, <2>1, <3>2, <3>3 DEF ViewsCounted, tables
  <2>2. CASE job[p].at # "count"
    <3>1. Counting' = Counting
      BY <1>2, <2>2 DEF Counting
    <3> QED BY <1>1, <3>1, ViewsRest DEF tables
  <2> QED BY <2>1, <2>2
<1>9. BoundOnce' /\ GhostsExplained' /\ ChatStep
  BY <1>1, ChatRests, GhostsRest DEF BoundOnce, tables, runtime
<1> QED BY <1>4, <1>5, <1>6, <1>7, <1>8, <1>9, WorkSteps

-----------------------------------------------------------------------------
(* A request writes *)

LEMMA ViewInserted ==
    ASSUME Inv, NEW p \in Procs, InsertView(p)
    PROVE  StepSound
<1> USE Known
<1> DEFINE key == <<job[p].arg, minute>>
<1>1. /\ job[p].op = "watch" /\ job[p].at = "view" /\ views' = views \cup {key}
      /\ Advance(p, IF key \in views THEN "call" ELSE "count")
      /\ UNCHANGED <<setting, row, holder, messages, gifts, bindings, methods, made, runtime, slips>>
  BY DEF InsertView
<1>2. JobKnows(p) /\ CallKnows(p) /\ job[p].arg \in Viewers
  BY <1>1 DEF JobKnows
<1>3. /\ job' \in [Procs -> Job] /\ job'[p].op = "watch" /\ job'[p].arg = job[p].arg
      /\ job'[p].at = IF key \in views THEN "call" ELSE "count"
      /\ \A q \in Procs : q # p => job'[q] = job[q]
  BY <1>1, Advanced DEF Phases
<1>4. views' \subseteq LiveStreamView
  BY <1>1, <1>2 DEF LiveStreamView
<1>5. Works(p)
  BY <1>1, <1>3, <1>4, RowColumns DEF Works, RowOnward, runtime
<1>6. JobKnows(p)'
  BY <1>1, <1>2, <1>3, IdleJob DEF JobKnows, Calling, Locking, runtime
<1>7. CallKnows(p)'
  BY <1>1, <1>2, <1>3 DEF CallKnows, setting, runtime
<1>8. RowAndMemory'
  BY <1>1, <1>5, RowRests
<1> HIDE DEF key
<1>9. ViewsCounted'
  <2>1. CASE key \in views
    <3>1. Counting' = Counting
      BY <1>1, <1>3, <2>1 DEF Counting
    <3>2. views' = views
      BY <1>1, <2>1
    <3> QED BY <1>1, <3>1, <3>2, ViewsRest
  <2>2. CASE key \notin views
    <3>1. Counting' = Counting \cup {p} /\ p \notin Counting
      BY <1>1, <1>3, <2>2 DEF Counting
    <3>2. /\ IsFiniteSet(Counting') /\ Cardinality(Counting') = Cardinality(Counting) + 1
          /\ Cardinality(Counting) \in Nat
      <4>1. IsFiniteSet(Counting)
        BY DEF ViewsCounted
      <4> QED BY <3>1, <4>1, FS_AddElement, FS_CardinalityType
    <3>3. /\ IsFiniteSet(views') /\ Cardinality(views') = Cardinality(views) + 1
          /\ Cardinality(views) \in Nat
      <4>1. IsFiniteSet(views)
        BY DEF ViewsCounted
      <4> QED BY <1>1, <2>2, <4>1, FS_AddElement, FS_CardinalityType
    <3>4. row.viewer_count \in Nat
      BY RowColumns
    <3>5. /\ row.viewer_count + Cardinality(Counting) <= Cardinality(views)
          /\ "uncounted" \notin slips => row.viewer_count + Cardinality(Counting) = Cardinality(views)
      BY DEF ViewsCounted
    <3>6. row' = row /\ slips' = slips
      BY <1>1
    <3>7. row.viewer_count + Cardinality(Counting') <= Cardinality(views')
      BY <3>2, <3>3, <3>4, <3>5
    <3>8. "uncounted" \notin slips => row.viewer_count + Cardinality(Counting') = Cardinality(views')
      BY <3>2, <3>3, <3>4, <3>5
    <3> QED BY <3>2, <3>3, <3>6, <3>7, <3>8 DEF ViewsCounted
  <2> QED BY <2>1, <2>2
<1>10. BoundOnce' /\ GhostsExplained' /\ ChatStep
  BY <1>1, ChatRests, GhostsRest DEF BoundOnce, runtime
<1> QED BY <1>5, <1>6, <1>7, <1>8, <1>9, <1>10, WorkSteps

LEMMA ViewCounted ==
    ASSUME Inv, NEW p \in Procs, CountView(p)
    PROVE  StepSound
<1> USE Known
<1>1. /\ job[p].op = "watch" /\ job[p].at = "count" /\ holder = NoProc
      /\ row' = [row EXCEPT !.viewer_count = @ + 1] /\ Advance(p, "call")
      /\ UNCHANGED <<setting, tables, holder, made, runtime, slips>>
  BY DEF CountView
<1>2. JobKnows(p) /\ CallKnows(p)
  OBVIOUS
<1>3. /\ job' \in [Procs -> Job] /\ job'[p].op = "watch" /\ job'[p].arg = job[p].arg
      /\ job'[p].at = "call" /\ \A q \in Procs : q # p => job'[q] = job[q]
  BY <1>1, Advanced DEF Phases
<1>4. /\ row' \in LiveStream /\ row'.status = row.status
      /\ row'.viewer_count = row.viewer_count + 1 /\ row.viewer_count \in Nat
  BY <1>1 DEF LiveStream
<1>5. Works(p)
  BY <1>1, <1>3, <1>4, RowColumns DEF Works, RowOnward, tables, runtime
<1>6. JobKnows(p)'
  BY <1>1, <1>2, <1>3, <1>4, IdleJob DEF JobKnows, Calling, Locking, tables, runtime
<1>7. CallKnows(p)'
  BY <1>1, <1>2, <1>3, <1>4 DEF CallKnows, setting, runtime
<1>8. RowAndMemory'
  <2>1. ASSUME NEW op \in {"start", "end"} PROVE Slipped(op) => Slipped(op)'
    BY <1>1, <1>3, StillSlipped
  <2> QED BY <1>1, <1>4, <2>1 DEF RowAndMemory, setting, runtime
<1>9. ViewsCounted'
  <2>1. Counting' = Counting \ {p} /\ p \in Counting
    BY <1>1, <1>3 DEF Counting
  <2>2. /\ IsFiniteSet(Counting') /\ Cardinality(Counting') = Cardinality(Counting) - 1
        /\ Cardinality(Counting) \in Nat
    <3>1. IsFiniteSet(Counting)
      BY DEF ViewsCounted
    <3> QED BY <2>1, <3>1, FS_RemoveElement, FS_CardinalityType
  <2>3. Cardinality(views) \in Nat
    BY FS_CardinalityType DEF ViewsCounted
  <2>4. /\ row.viewer_count + Cardinality(Counting) <= Cardinality(views)
        /\ "uncounted" \notin slips => row.viewer_count + Cardinality(Counting) = Cardinality(views)
    BY DEF ViewsCounted
  <2>5. views' = views /\ slips' = slips
    BY <1>1 DEF tables
  <2>6. row'.viewer_count + Cardinality(Counting') <= Cardinality(views)
    BY <1>4, <2>2, <2>3, <2>4
  <2>7. "uncounted" \notin slips => row'.viewer_count + Cardinality(Counting') = Cardinality(views)
    BY <1>4, <2>2, <2>3, <2>4
  <2>8. IsFiniteSet(views)
    BY DEF ViewsCounted
  <2> QED BY <2>2, <2>5, <2>6, <2>7, <2>8 DEF ViewsCounted
<1>10. BoundOnce' /\ GhostsExplained' /\ ChatStep
  BY <1>1, ChatRests, GhostsRest DEF BoundOnce, tables, runtime
<1> QED BY <1>5, <1>6, <1>7, <1>8, <1>9, <1>10, WorkSteps

\* What a transaction leaves of the row.
LEMMA RowSaved ==
    ASSUME Inv, NEW p \in Procs, job[p].at = "commit",
           job[p].op \in {"create", "prepare", "start", "end", "update", "watch"}
    PROVE  LET new == Saved(job[p]) IN
           /\ new \in LiveStream /\ new.viewer_count = row.viewer_count
           /\ job[p].op = "create" => new.status = "idle"
           /\ job[p].op = "prepare" => new.status = "ready"
           /\ job[p].op = "start" => new.status = "live"
           /\ job[p].op = "end" => new.status = "ended"
           /\ job[p].op \in {"update", "watch"} => new.status = row.status
<1>1. row \in LiveStream /\ JobKnows(p)
  BY Known
<1>2. ASSUME NEW r \in LiveStream, NEW v \in {"public", "private"},
             NEW s \in {"idle", "ready", "live", "ended"}
      PROVE  /\ LET new == [r EXCEPT !.status = "idle", !.visibility = v]
                IN  new \in LiveStream /\ new.viewer_count = r.viewer_count /\ new.status = "idle"
             /\ LET new == [r EXCEPT !.status = s]
                IN  new \in LiveStream /\ new.viewer_count = r.viewer_count /\ new.status = s
  BY DEF LiveStream
<1>3. CASE job[p].op = "create"
  <2>1. job[p].arg \in {"public", "private"}
    BY <1>1, <1>3 DEF JobKnows
  <2> QED BY <1>1, <1>2, <1>3, <2>1 DEF Saved
<1>4. CASE job[p].op = "prepare"
  BY <1>1, <1>2, <1>4 DEF Saved
<1>5. CASE job[p].op = "start"
  BY <1>1, <1>2, <1>5 DEF Saved
<1>6. CASE job[p].op = "end"
  BY <1>1, <1>2, <1>6 DEF Saved
<1>7. CASE job[p].op = "update"
  BY <1>1, <1>7 DEF Saved, JobKnows
<1>8. CASE job[p].op = "watch"
  BY <1>1, <1>8 DEF Saved
<1> QED BY <1>3, <1>4, <1>5, <1>6, <1>7, <1>8

LEMMA RowCommitted ==
    ASSUME Inv, NEW p \in Procs, Commit(p)
    PROVE  StepSound
<1> USE Known
<1> DEFINE new == Saved(job[p])
<1>1. /\ job[p].at = "commit"
      /\ job[p].op \in {"create", "prepare", "start", "end", "update", "watch"}
      /\ row' = new /\ Done(p) /\ Release(p)
      /\ UNCHANGED <<setting, tables, made, runtime, slips>>
  BY DEF Commit
<1>2. /\ new \in LiveStream /\ new.viewer_count = row.viewer_count
      /\ job[p].op = "create" => new.status = "idle"
      /\ job[p].op = "prepare" => new.status = "ready"
      /\ job[p].op = "start" => new.status = "live"
      /\ job[p].op = "end" => new.status = "ended"
      /\ job[p].op \in {"update", "watch"} => new.status = row.status
  BY <1>1, RowSaved
<1> HIDE DEF new
<1>3. JobKnows(p) /\ CallKnows(p) /\ row.status \in {"none", "idle", "ready", "live", "ended"}
  BY RowColumns
<1>4. /\ job' \in [Procs -> Job] /\ job'[p] = Idle /\ job'[p].op = "none" /\ job'[p].at = "idle"
      /\ \A q \in Procs : q # p => job'[q] = job[q]
  BY <1>1, Finished
<1>5. holder' # p /\ (holder' = holder \/ (holder = p /\ holder' = NoProc))
  BY <1>1, LockReleased
<1>6. RowOnward
  BY <1>1, <1>2, <1>3 DEF RowOnward, JobKnows
<1>7. /\ holder \notin {p, NoProc} => row'.status = row.status
      /\ row'.status # row.status => row.status # "none" \/ job[p].op = "create"
  <2>1. CASE job[p].op = "create"
    <3>1. holder = NoProc
      <4> SUFFICES ASSUME holder \in Procs PROVE FALSE
        OBVIOUS
      <4>1. JobKnows(holder) /\ row.status = "none"
        BY <1>3, <2>1 DEF JobKnows
      <4> QED BY <4>1 DEF JobKnows
    <3> QED BY <2>1, <3>1
  <2>2. CASE job[p].op \in {"prepare", "start", "end"}
    BY <1>3, <2>2 DEF JobKnows, Locking
  <2>3. CASE job[p].op \in {"update", "watch"}
    BY <1>1, <1>2, <2>3
  <2> QED BY <1>1, <2>1, <2>2, <2>3
<1>8. Works(p)
  BY <1>1, <1>2, <1>4, <1>5, <1>6, <1>7 DEF Works, tables, runtime
<1>9. JobKnows(p)'
  BY <1>1, <1>5, NothingKnown
<1>10. CallKnows(p)'
  BY <1>1, <1>2, <1>3, <1>4 DEF CallKnows, JobKnows, setting, runtime
<1>11. RowAndMemory'
  <2>1. ASSUME NEW op \in {"start", "end"}, op # job[p].op PROVE Slipped(op) => Slipped(op)'
    BY <1>1, <1>4, <2>1, StillSlipped
  <2> QED BY <1>1, <1>2, <1>3, <2>1 DEF RowAndMemory, CallKnows, JobKnows, setting, runtime
<1>12. ViewsCounted'
  <2>1. Counting' = Counting
    BY <1>1, <1>4 DEF Counting
  <2> QED BY <1>1, <1>2, <2>1 DEF ViewsCounted, tables
<1>13. BoundOnce' /\ GhostsExplained' /\ ChatStep
  BY <1>1, ChatRests, GhostsRest DEF BoundOnce, tables, runtime
<1> QED BY <1>8, <1>9, <1>10, <1>11, <1>12, <1>13, WorkSteps

-----------------------------------------------------------------------------
(* Chat, products and payment methods *)

\* A request that writes neither row nor views.
LEMMA TableWritten ==
    ASSUME Inv, NEW p \in Procs, job[p].at = "commit", job[p].op \notin {"create", "start", "end"},
           Done(p), Release(p), UNCHANGED <<setting, row, views, made, runtime, slips>>,
           messages' \in Seq(LiveChatMessage), DOMAIN messages \subseteq DOMAIN messages',
           gifts' \in Nat, bindings' \subseteq LiveStreamProduct, methods' \in Seq(Methods),
           bindings' = bindings \/ holder = p,
           BoundOnce', ChatStep
    PROVE  StepSound
<1> USE Known
<1>1. /\ job' \in [Procs -> Job] /\ job'[p] = Idle /\ job'[p].op = "none" /\ job'[p].at = "idle"
      /\ \A q \in Procs : q # p => job'[q] = job[q]
  BY Finished
<1>2. holder' # p /\ (holder' = holder \/ (holder = p /\ holder' = NoProc))
  BY LockReleased
<1>3. Works(p)
  BY <1>1, <1>2, RowColumns DEF Works, RowOnward, runtime
<1>4. JobKnows(p)'
  BY <1>2, NothingKnown
<1>5. CallKnows(p)'
  <2>1. CallKnows(p)
    OBVIOUS
  <2> QED BY <1>1, <2>1 DEF CallKnows, setting, runtime
<1>6. RowAndMemory'
  BY <1>3, RowRests
<1>7. ViewsCounted'
  <2>1. Counting' = Counting
    BY <1>1 DEF Counting
  <2> QED BY <2>1, ViewsRest
<1>8. GhostsExplained'
  BY GhostsRest DEF runtime
<1> QED BY <1>3, <1>4, <1>5, <1>6, <1>7, <1>8, WorkSteps

LEMMA ChatCommitted ==
    ASSUME Inv, NEW p \in Procs, CommitChat(p)
    PROVE  StepSound
<1> USE Known
<1>1. /\ job[p].at = "commit" /\ Done(p) /\ Release(p)
      /\ UNCHANGED <<setting, row, views, bindings, methods, made, runtime, slips>>
  BY DEF CommitChat
<1>2. JobKnows(p)
  OBVIOUS
<1>3. BoundOnce'
  BY <1>1 DEF BoundOnce
<1>4. UNCHANGED <<row, onSale>>
  BY <1>1 DEF setting
<1>5. CASE job[p].op = "post"
  <2> DEFINE new == job[p].arg
  <2>1. messages' = Append(messages, new) /\ UNCHANGED gifts
    BY <1>5 DEF CommitChat
  <2>2. new \in LiveChatMessage /\ row.status = "live"
    BY <1>2, <1>5 DEF JobKnows
  <2> HIDE DEF new
  <2>3. /\ messages' \in Seq(LiveChatMessage) /\ DOMAIN messages \subseteq DOMAIN messages'
        /\ \A i \in DOMAIN messages : messages'[i] = messages[i]
    BY <2>1, <2>2
  <2>4. ChatStep
    BY <2>1, <2>2, <2>3 DEF ChatStep, ListMessages
  <2> QED BY <1>1, <1>3, <1>5, <2>1, <2>3, <2>4, TableWritten
<1>6. CASE job[p].op \in {"delete", "pin", "unpin"}
  <2> DEFINE i == job[p].arg[1]
  <2> DEFINE new == IF job[p].op = "delete" THEN [messages[i] EXCEPT !.is_active = FALSE]
                    ELSE [messages[i] EXCEPT !.is_pinned = (job[p].op = "pin")]
  <2>1. i \in DOMAIN messages
    BY <1>2, <1>6 DEF JobKnows
  <2>2. messages' = [messages EXCEPT ![i] = new] /\ UNCHANGED gifts
    BY <1>6 DEF CommitChat, Moderated
  <2>3. ASSUME NEW m \in LiveChatMessage, NEW b \in BOOLEAN
        PROVE  /\ LET d == [m EXCEPT !.is_active = FALSE]
                  IN  d \in LiveChatMessage /\ (d.is_active => m.is_active)
               /\ LET d == [m EXCEPT !.is_pinned = b]
                  IN  d \in LiveChatMessage /\ (d.is_active => m.is_active)
    BY DEF LiveChatMessage
  <2>4. messages[i] \in LiveChatMessage
    BY <2>1
  <2>5. new \in LiveChatMessage /\ (new.is_active => messages[i].is_active)
    <3>1. (job[p].op = "pin") \in BOOLEAN
      OBVIOUS
    <3> QED BY <2>3, <2>4, <3>1
  <2> HIDE DEF new, i
  <2>6. /\ messages' \in Seq(LiveChatMessage) /\ DOMAIN messages' = DOMAIN messages
        /\ Len(messages') = Len(messages) /\ Len(messages) \in Nat
        /\ messages'[i] = new /\ \A k \in DOMAIN messages : k # i => messages'[k] = messages[k]
    BY <2>1, <2>2, <2>5
  <2>7. \A v \in Users : ListMessages(v)' \cap DOMAIN messages
                          \subseteq {k \in DOMAIN messages : messages[k].is_active}
    BY <2>5, <2>6 DEF ListMessages
  <2>8. ChatStep
    BY <2>2, <2>6, <2>7 DEF ChatStep
  <2> QED BY <1>1, <1>3, <1>6, <2>2, <2>6, <2>8, TableWritten
<1>7. CASE job[p].op = "gift"
  <2>1. gifts' = gifts + 1 /\ UNCHANGED messages
    BY <1>7 DEF CommitChat
  <2>2. row.status \in {"live", "ended"}
    BY <1>2, <1>7 DEF JobKnows
  <2>3. ChatStep
    BY <2>1, <2>2 DEF ChatStep, ListMessages
  <2> QED BY <1>1, <1>3, <1>7, <2>1, <2>3, TableWritten
<1> QED BY <1>5, <1>6, <1>7 DEF CommitChat

LEMMA PromotionCommitted ==
    ASSUME Inv, NEW p \in Procs, CommitPromotion(p)
    PROVE  StepSound
<1> USE Known
<1>1. /\ job[p].at = "commit" /\ Done(p) /\ Release(p)
      /\ UNCHANGED <<setting, row, views, messages, gifts, made, runtime, slips>>
  BY DEF CommitPromotion
<1>2. JobKnows(p)
  OBVIOUS
<1>3. ChatStep
  BY <1>1, ChatRests
<1> DEFINE new == job[p].arg
<1>4. CASE job[p].op \in {"bind", "rebind"}
  <2>1. /\ bindings' = (bindings \ IF job[p].op = "rebind" THEN Binds(new.product) ELSE {}) \cup {new}
        /\ UNCHANGED methods
    BY <1>4 DEF CommitPromotion
  <2>2. new \in LiveStreamProduct /\ holder = p /\ (job[p].op = "bind" => Binds(new.product) = {})
    BY <1>2, <1>4 DEF JobKnows, Locking
  <2> HIDE DEF new
  <2>3. \A b \in bindings' : b = new \/ (b \in bindings /\ b.product # new.product)
    BY <1>4, <2>1, <2>2 DEF Binds
  <2>4. BoundOnce'
    BY <2>3 DEF BoundOnce
  <2>5. bindings' \subseteq LiveStreamProduct
    BY <2>2, <2>3
  <2> QED BY <1>1, <1>3, <1>4, <2>1, <2>2, <2>4, <2>5, TableWritten
<1>5. CASE job[p].op = "unbind"
  <2>1. bindings' \subseteq bindings /\ UNCHANGED methods /\ holder = p
    BY <1>2, <1>5 DEF CommitPromotion, JobKnows, Locking
  <2>2. BoundOnce'
    BY <2>1 DEF BoundOnce
  <2> QED BY <1>1, <1>3, <1>5, <2>1, <2>2, TableWritten
<1>6. CASE job[p].op = "methods"
  <2>1. methods' \in Seq(Methods) /\ UNCHANGED bindings
    BY <1>2, <1>6 DEF CommitPromotion, JobKnows
  <2>2. BoundOnce'
    BY <2>1 DEF BoundOnce
  <2> QED BY <1>1, <1>3, <1>6, <2>1, <2>2, TableWritten
<1> QED BY <1>4, <1>5, <1>6 DEF CommitPromotion

-----------------------------------------------------------------------------
(* The invariant *)

\* Nothing but the minute and the products on sale changes.
LEMMA OutsideRests ==
    ASSUME Inv, minute' \in 0..MaxMinutes, onSale' \subseteq Products,
           UNCHANGED <<scene, mode, tables, row, holder, job, made, runtime, slips>>
    PROVE  StepSound
<1> USE Known DEF tables, runtime
<1>1. TypeOK'
  BY DEF TypeOK
<1>2. ASSUME NEW p \in Procs PROVE JobKnows(p)' /\ CallKnows(p)'
  BY DEF JobKnows, CallKnows, Binds
<1>3. RowAndMemory' /\ ViewsCounted' /\ BoundOnce' /\ GhostsExplained'
  BY DEF RowAndMemory, Slipped, Ongoing, ViewsCounted, Counting, BoundOnce, GhostsExplained
<1>4. ChatStep
  BY ChatRests
<1> QED BY <1>1, <1>2, <1>3, <1>4 DEF StepSound, Inv, LiveInv

LEMMA InitSound ==
    ASSUME Init
    PROVE  Inv
<1> USE LiveAssumption DEF Init
<1>1. row \in LiveStream /\ row.viewer_count = 0
      /\ row.status \in {"none", "ready", "live"}
      /\ (mode # "fake" => row.status = "none")
  BY DEF LiveStream
<1>2. job \in [Procs -> Job] /\ \A p \in Procs : job[p] = Idle
  BY IdleJob
<1>3. call \in [Procs -> Call] /\ \A p \in Procs : call[p].at = "done" /\ call[p].method = "none"
  BY DEF NoCall, Call
<1>4. mode \in {"fake", "refused", "served"}
  OBVIOUS
<1>5. TypeOK
  <2>1. made \in 0..MaxCalls[scene]
    OBVIOUS
  <2>2. messages \in Seq(LiveChatMessage) /\ methods \in Seq(Methods)
    OBVIOUS
  <2> QED BY <1>1, <1>4, <2>1, <2>2 DEF TypeOK
<1>6. ASSUME NEW p \in Procs PROVE JobKnows(p) /\ CallKnows(p)
  <2>1. JobKnows(p)
    BY <1>2, IdleJob DEF JobKnows, Locking
  <2>2. CallKnows(p)
    BY <1>2, <1>3, IdleJob DEF CallKnows
  <2> QED BY <2>1, <2>2
<1>7. RowAndMemory
  BY <1>1 DEF RowAndMemory
<1>8. ViewsCounted
  <2>1. Counting = {} /\ views = {}
    BY <1>2, IdleJob DEF Counting
  <2> QED BY <1>1, <2>1, FS_EmptySet DEF ViewsCounted
<1>9. BoundOnce /\ GhostsExplained
  BY <1>3 DEF BoundOnce, GhostsExplained
<1> QED BY <1>2, <1>3, <1>5, <1>6, <1>7, <1>8, <1>9 DEF Inv, LiveInv

LEMMA NextSound ==
    ASSUME Inv, Next
    PROVE  StepSound
<1>1. ASSUME NEW p \in Procs, Request(p) PROVE StepSound
  BY <1>1, RequestsStart
<1>2. ASSUME NEW p \in Procs, Work(p) PROVE StepSound
  BY <1>2, ViewInserted, ViewCounted, FakeAnswers, RuntimeCalled, AnswerTaken,
     RowCommitted, ChatCommitted, PromotionCommitted, Aborted DEF Work
<1>3. ASSUME NEW p \in Procs, Serve(p) PROVE StepSound
  BY <1>3, RequireRuns, CreateRuns, StartRuns, StopRuns, ClearRuns, WatchRuns, JoinRuns,
     UnreachedRuns DEF Serve
<1>4. CASE Restart
  BY <1>4, RestartRuns
<1>5. CASE NextMinute
  <2>1. minute' \in 0..MaxMinutes
    BY <1>5, Known, LiveAssumption DEF NextMinute
  <2> QED BY <1>5, <2>1, Known, OutsideRests DEF NextMinute
<1>6. CASE TurnProduct
  <2>1. onSale' \subseteq Products
    BY <1>6, Known DEF TurnProduct
  <2> QED BY <1>6, <2>1, Known, OutsideRests DEF TurnProduct
<1> QED BY <1>1, <1>2, <1>3, <1>4, <1>5, <1>6 DEF Next

LEMMA StutterSound ==
    ASSUME Inv, UNCHANGED vars
    PROVE  Inv'
<1>1. UNCHANGED <<scene, mode, tables, row, holder, job, made, runtime, slips>>
      /\ minute' = minute /\ onSale' = onSale
  BY DEF vars, tables, runtime
<1>2. minute' \in 0..MaxMinutes /\ onSale' \subseteq Products
  BY <1>1, Known
<1> QED BY <1>1, <1>2, OutsideRests DEF StepSound

LEMMA InvImplies == Inv => LiveSound /\ GhostsNeedOverlap
<1> SUFFICES ASSUME Inv PROVE LiveSound /\ GhostsNeedOverlap
  OBVIOUS
<1> USE Known
<1>1. TypeOK
  BY DEF Inv, LiveInv
<1>2. mode = "served" =>
         /\ row.status = "ended" => memory \in {"ended", "none"}
         /\ row.status # "none" /\ memory = "none" => "restart" \in slips
         /\ GetStatus.can_end /\ memory = "ended" => Slipped("end")
         /\ GetStatus.can_start /\ GetStreamStatus.can_end => Slipped("start")
         /\ GetStatus.can_start /\ memory = "ended" => Slipped("end")
  BY DEF RowAndMemory, GetStatus, GetStreamStatus
<1>3. ASSUME NEW v \in Users, NEW s \in GetStream(v)
      PROVE  /\ s.viewer_count <= Cardinality(views)
             /\ "uncounted" \notin slips => s.viewer_count + Cardinality(Counting) = Cardinality(views)
  <2>1. s.viewer_count = row.viewer_count
    BY <1>3 DEF GetStream
  <2>2. Cardinality(Counting) \in Nat /\ Cardinality(views) \in Nat /\ row.viewer_count \in Nat
    BY FS_CardinalityType, RowColumns DEF ViewsCounted
  <2>3. row.viewer_count + Cardinality(Counting) <= Cardinality(views)
    BY DEF ViewsCounted
  <2>4. "uncounted" \notin slips => row.viewer_count + Cardinality(Counting) = Cardinality(views)
    BY DEF ViewsCounted
  <2>5. row.viewer_count <= Cardinality(views)
    BY <2>2, <2>3
  <2> QED BY <2>1, <2>4, <2>5
<1>4. ASSUME NEW q \in Products PROVE Cardinality(Binds(q)) <= 1
  <2>1. CASE Binds(q) = {}
    <3>1. Cardinality(Binds(q)) = 0
      BY <2>1, FS_EmptySet
    <3> QED BY <3>1
  <2>2. CASE Binds(q) # {}
    <3>1. PICK b : b \in Binds(q)
      BY <2>2
    <3>2. Binds(q) = {b}
      BY <3>1 DEF Binds, BoundOnce
    <3>3. Cardinality(Binds(q)) = 1
      BY <3>2, FS_Singleton
    <3> QED BY <3>3
  <2> QED BY <2>1, <2>2
<1>5. holder # NoProc => job[holder].op # "none"
  BY DEF JobKnows, Locking
<1>6. GhostsNeedOverlap
  <2>1. presence = {} => GetStreamStatus.viewer_count = 0
    BY FS_EmptySet DEF GetStreamStatus
  <2> QED BY <2>1 DEF GhostsNeedOverlap, GhostsExplained
<1>7. mode = "refused" => row.status = "none"
  BY DEF RowAndMemory
<1> QED BY <1>1, <1>2, <1>3, <1>4, <1>5, <1>6, <1>7 DEF LiveSound

LEMMA StepKeeps == Inv /\ [Next]_vars => Inv' /\ [ChatStep]_vars
<1>1. ASSUME Inv, Next PROVE Inv' /\ ChatStep
  BY <1>1, NextSound DEF StepSound
<1>2. ASSUME Inv, UNCHANGED vars PROVE Inv'
  BY <1>2, StutterSound
<1> QED BY <1>1, <1>2

\* The parts of the invariant hold whatever the number of threads, viewers, products and
\* minutes (content/live/services.py, services/live/servicer.py).
THEOREM LiveInductive == Spec => []Inv
BY InitSound, StepKeeps, PTL DEF Spec

\* Row and runtime agree but for named accidents, an ended stream is never on air again,
\* every view is counted once and no product is bound twice, for any number of threads
\* (start_stream, end_stream, get_watch_config, bind_product).
THEOREM StreamIsSound == Spec => []LiveSound
BY InvImplies, LiveInductive, PTL

\* A viewer is left behind by StopBroadcast only when it was let in meanwhile
\* (GetWatchConfig, presence.py).
THEOREM PresenceIsCleared == Spec => []GhostsNeedOverlap
BY InvImplies, LiveInductive, PTL

\* The chat grows only while the stream is live, what is deleted stays deleted when it is
\* pinned at the same time, and gifts are for streams that were live (post_message,
\* delete_message, pin_message, gift_target).
THEOREM ChatEnds == Spec => ChatEndsWithStream
<1>1. Inv /\ [Next]_vars => [ChatStep]_vars
  BY StepKeeps
<1> QED BY <1>1, LiveInductive, PTL DEF Spec, ChatEndsWithStream
=============================================================================
