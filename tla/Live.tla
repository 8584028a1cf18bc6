-------------------------------- MODULE Live --------------------------------
(***************************************************************************)
(* A live stream: the row Django keeps and changes under its lock           *)
(* (content/live/services.py) and the live runtime service that is called   *)
(* from inside those transactions (services/live/servicer.py, presence.py). *)
(*                                                                          *)
(* The runtime is not there ("fake": content/live/runtime.py answers), it   *)
(* refuses every call ("refused": the client sends no token, and the        *)
(* interceptor wants one), or it serves them ("served": as its tests run    *)
(* it).  Its memory is lost at a restart; a call whose client has stopped   *)
(* waiting goes on in its thread.                                           *)
(***************************************************************************)
EXTENDS Integers, Sequences, FiniteSets

CONSTANTS Procs,      \* request threads, each with its last call to the runtime
          Viewers,    \* who watches, as the key of a view names them
          Products,   \* products of the shop
          MaxCalls,   \* bound on the requests, per scene
          MaxMinutes, \* bound on the minutes
          Scenes,     \* the groups of operations one behaviour draws on
          NoProc

ASSUME LiveAssumption ==
    /\ Scenes \subseteq SUBSET {"lifecycle", "watch", "chat", "promotion"}
    /\ MaxCalls \in [Scenes -> Nat] /\ MaxMinutes \in Nat
    /\ NoProc \notin Procs

VARIABLES scene, mode,   \* the groups of this behaviour, and how the runtime takes calls
          row,           \* the LiveStream row, as committed
          holder,        \* the transaction that has the row locked
          job,           \* per thread: the request it works on
          views, minute, \* the dedup keys of the LiveStreamView rows, the time
          messages,      \* the LiveChatMessage rows, oldest first
          gifts,         \* how many gifts the stream got
          bindings,      \* the LiveStreamProduct rows
          methods,       \* the payment methods enabled, in order
          onSale,        \* the products the shop shows
          made,          \* how many requests were made
          memory,        \* the runtime: the status it holds of the stream
          presence,      \*   its viewers present,
          call,          \*   and its thread for the last call of each of Django's
          slips          \* history: what went wrong

vars == <<scene, mode, row, holder, job, views, minute, messages, gifts, bindings,
          methods, onSale, made, memory, presence, call, slips>>
setting == <<scene, mode, minute, onSale>>
tables == <<views, messages, gifts, bindings, methods>>
runtime == <<memory, presence, call>>

Users == {"owner", "fan"}
Methods == {"meow_points", "stripe"}
LiveStream == [status : {"none", "idle", "ready", "live", "ended"},
               visibility : {"public", "private"}, viewer_count : Nat]
LiveStreamView == Viewers \X (0..MaxMinutes)
LiveChatMessage == [author : Users, type : {"text", "product"},
                    is_pinned : BOOLEAN, is_active : BOOLEAN]
LiveStreamProduct == [product : Products, is_featured : BOOLEAN, is_active : BOOLEAN]

Idle == [op |-> "none", at |-> "idle", arg |-> 0]
NoCall == [method |-> "none", at |-> "done", ok |-> FALSE]

TypeOK ==
    /\ scene \in Scenes /\ mode \in {"fake", "refused", "served"}
    /\ row \in LiveStream
    /\ holder \in Procs \cup {NoProc}
    /\ views \subseteq LiveStreamView /\ minute \in 0..MaxMinutes
    /\ messages \in Seq(LiveChatMessage)
    /\ gifts \in Nat /\ made \in 0..MaxCalls[scene]
    /\ bindings \subseteq LiveStreamProduct
    /\ methods \in Seq(Methods)
    /\ onSale \subseteq Products
    /\ memory \in {"none", "ready", "live", "ended"}
    /\ presence \subseteq {"anon"}
    /\ slips \subseteq {"start", "end", "restart", "overlap", "uncounted"}

\* Where the calls to the runtime are of interest the stream is created in the
\* behaviour; elsewhere it is there, ready or live.
Born == {"lifecycle", "watch"} \subseteq scene

Init ==
    /\ scene \in Scenes
    /\ mode \in IF Born THEN {"fake", "refused", "served"} ELSE {"fake"}
    /\ \E s \in IF Born THEN {"none"} ELSE {"ready", "live"} :
         row = [status |-> s, visibility |-> "public", viewer_count |-> 0]
    /\ holder = NoProc
    /\ job = [p \in Procs |-> Idle]
    /\ views = {} /\ minute = 0
    /\ messages = <<>> /\ gifts = 0
    /\ bindings = {} /\ methods = <<>> /\ onSale = Products
    /\ made = 0
    /\ memory = "none" /\ presence = {}
    /\ call = [p \in Procs |-> NoCall]
    /\ slips = {}

-----------------------------------------------------------------------------
(* The live runtime service *)

At(p, phase) == call' = [call EXCEPT ![p].at = phase]
Reply(p, ok) == call' = [call EXCEPT ![p].at = "done", ![p].ok = ok]

\* Defect: a stream that has ended may be started.
StartsEnded(p) ==
    /\ call[p].method = "StartBroadcast" /\ call[p].at = "required"
    /\ memory' = "live" /\ Reply(p, TRUE)
    /\ UNCHANGED <<setting, tables, row, holder, job, made, presence, slips>>

\* _require, in a hold of the lock of its own: a stream not in memory is NOT_FOUND.
Require(p) ==
    /\ call[p].method \in {"StartBroadcast", "StopBroadcast"} /\ call[p].at = "sent"
    /\ IF memory = "none" THEN Reply(p, FALSE) ELSE At(p, "required")
    /\ UNCHANGED <<setting, tables, row, holder, job, made, memory, presence, slips>>

\* CreateStream: a stream in memory already is answered as it is.
ServeCreate(p) ==
    /\ call[p].method = "CreateStream" /\ call[p].at = "sent"
    /\ memory' = IF memory = "none" THEN "ready" ELSE memory
    /\ Reply(p, TRUE)
    /\ UNCHANGED <<setting, tables, row, holder, job, made, presence, slips>>

ServeStart(p) ==
    /\ call[p].method = "StartBroadcast" /\ call[p].at = "required"
    /\ IF memory \in {"ready", "live"}
         THEN memory' = "live" /\ Reply(p, TRUE)
         ELSE Reply(p, FALSE) /\ UNCHANGED memory
    /\ UNCHANGED <<setting, tables, row, holder, job, made, presence, slips>>

ServeStop(p) ==
    /\ call[p].method = "StopBroadcast" /\ call[p].at = "required"
    /\ memory' = "ended" /\ At(p, "stopped")
    /\ UNCHANGED <<setting, tables, row, holder, job, made, presence, slips>>

\* Defect: StopBroadcast leaves the viewers.
ClearNothing(p) ==
    /\ call[p].at = "stopped"
    /\ Reply(p, TRUE)
    /\ UNCHANGED <<setting, tables, row, holder, job, made, memory, presence, slips>>

\* StopBroadcast clears the presence after it has let go of the lock.
ClearPresence(p) ==
    /\ call[p].at = "stopped"
    /\ presence' = {} /\ Reply(p, TRUE)
    /\ slips' = slips \cup (IF \E q \in Procs : call[q].at = "joining" THEN {"overlap"} ELSE {})
    /\ UNCHANGED <<setting, tables, row, holder, job, made, memory>>

\* GetWatchConfig reads the status under the lock and joins the viewer after it.
ServeWatch(p) ==
    /\ call[p].method = "GetWatchConfig" /\ call[p].at = "sent"
    /\ IF memory = "live" THEN At(p, "joining") ELSE Reply(p, TRUE)
    /\ UNCHANGED <<setting, tables, row, holder, job, made, memory, presence, slips>>

\* Django names neither user nor address to the runtime: the viewer is "anon".
Join(p) ==
    /\ call[p].at = "joining"
    /\ presence' = {"anon"} /\ Reply(p, TRUE)
    /\ UNCHANGED <<setting, tables, row, holder, job, made, memory, slips>>

\* The service restarts: its memory is gone, and so are the calls it works on.
Restart ==
    /\ mode = "served" /\ memory # "none"
    /\ memory' = "none" /\ presence' = {}
    /\ call' = [p \in Procs |-> [call[p] EXCEPT !.at = "done", !.ok = @ /\ call[p].at = "done"]]
    /\ slips' = slips \cup {"restart"}
    /\ UNCHANGED <<setting, tables, row, holder, job, made>>

-----------------------------------------------------------------------------
(* Requests *)

Offered(op) ==
    CASE op \in {"create", "prepare", "start", "end"} -> "lifecycle" \in scene
      [] op \in {"update", "watch"} -> "watch" \in scene
      [] op \in {"post", "delete", "pin", "unpin", "gift"} -> "chat" \in scene
      [] OTHER -> "promotion" \in scene

Ask(p, op, phase, arg) ==
    /\ job[p].op = "none" /\ Offered(op)
    /\ made < MaxCalls[scene] /\ made' = made + 1
    /\ job' = [job EXCEPT ![p] = [op |-> op, at |-> phase, arg |-> arg]]
    /\ UNCHANGED <<setting, tables, row, runtime, slips>>
Advance(p, phase) == job' = [job EXCEPT ![p].at = phase]
Done(p) == job' = [job EXCEPT ![p] = Idle]

\* The transaction of the owner's request begins with _owned_stream(lock=True).
Lock(p) == row.status # "none" /\ holder = NoProc /\ holder' = p
Release(p) == holder' = IF holder = p THEN NoProc ELSE holder

\* create_stream: the row is in the transaction alone, until it commits.
CreateStream(p) ==
    /\ row.status = "none" /\ memory = "none"
    /\ \A q \in Procs : job[q].op # "create" /\ call[q].method # "CreateStream"
    /\ \E v \in {"public", "private"} : Ask(p, "create", "call", v)
    /\ UNCHANGED holder

\* prepare_stream, start_stream, end_stream: what is so already is answered at once.
PrepareStream(p) == row.status = "idle" /\ Lock(p) /\ Ask(p, "prepare", "commit", 0)
StartStream(p) == row.status \in {"idle", "ready"} /\ Lock(p) /\ Ask(p, "start", "call", 0)
EndStream(p) ==
    /\ row.status \in {"live", "ready", "idle"}
    /\ Lock(p) /\ Ask(p, "end", "call", 0)

\* update_stream saves the whole row it has read.
UpdateStream(p) ==
    /\ Lock(p)
    /\ \E v \in {"public", "private"} : Ask(p, "update", "commit", [row EXCEPT !.visibility = v])

\* streams_queryset, get_stream: a private stream is its owner's.
Listed == row.status # "none" /\ row.visibility = "public"
Visible(v) == Listed \/ v = "owner"

\* get_watch_config: the view is its own transaction, unique by key; who sends a
\* second request in the minute is not counted.
Watch(p) ==
    /\ row.status # "none"
    /\ \E v \in Viewers : Visible(v) /\ Ask(p, "watch", "view", v)
    /\ UNCHANGED holder
InsertView(p) ==
    /\ job[p].op = "watch" /\ job[p].at = "view"
    /\ LET key == <<job[p].arg, minute>>
       IN  /\ Advance(p, IF key \in views THEN "call" ELSE "count")
           /\ views' = views \cup {key}
    /\ UNCHANGED <<setting, row, holder, messages, gifts, bindings, methods, made, runtime, slips>>

CountView(p) ==
    /\ job[p].op = "watch" /\ job[p].at = "count"
    /\ holder = NoProc
    /\ row' = [row EXCEPT !.viewer_count = @ + 1]
    /\ Advance(p, "call")
    /\ UNCHANGED <<setting, tables, holder, made, runtime, slips>>

\* get_metadata: what the client sends along with a call.
GetMetadata == {"x-trace-id", "traceparent", "x-request-id"}

\* AuthInterceptor: only a call with a bearer token reaches its handler.
Lets(metadata) == mode = "served" \/ "authorization" \in metadata

RpcOf(op) ==
    CASE op = "create" -> "CreateStream" [] op = "start" -> "StartBroadcast"
      [] op = "end" -> "StopBroadcast" [] op = "watch" -> "GetWatchConfig"

\* Without the runtime (LIVE_RUNTIME_ENABLED) the answer is made up.
FakeRuntime(p) ==
    /\ job[p].at = "call" /\ mode = "fake"
    /\ Advance(p, "commit")
    /\ UNCHANGED <<setting, tables, row, holder, made, runtime, slips>>

\* A call to the runtime, with the transaction open.  (A thread's next call waits
\* until the runtime is done with its last: another thread stands for an earlier one.)
CallRuntime(p) ==
    /\ job[p].at = "call" /\ mode # "fake"
    /\ Lets(GetMetadata)
    /\ call[p].at = "done"
    /\ Advance(p, "wait")
    /\ call' = [call EXCEPT ![p] = [method |-> RpcOf(job[p].op), at |-> "sent", ok |-> FALSE]]
    /\ UNCHANGED <<setting, tables, row, holder, made, memory, presence, slips>>

Answered(p) ==
    /\ job[p].at = "wait" /\ call[p].at = "done" /\ call[p].ok
    /\ Advance(p, "commit")
    /\ UNCHANGED <<setting, tables, row, holder, made, runtime, slips>>

\* An error of the runtime (or its refusal), a deadline, the death of the process:
\* the transaction is rolled back.  A call that was sent is not called back.
Abort(p) ==
    /\ job[p].op # "none"
    /\ Done(p) /\ Release(p)
    /\ slips' = slips
         \cup (IF job[p].op \in {"start", "end"} /\ job[p].at # "call" THEN {job[p].op} ELSE {})
         \cup (IF job[p].at = "count" THEN {"uncounted"} ELSE {})
    /\ UNCHANGED <<setting, tables, row, made, runtime>>

\* The runtime was never reached.
Unreached(p) ==
    /\ call[p].at = "sent" /\ Reply(p, FALSE)
    /\ UNCHANGED <<setting, tables, row, holder, job, made, memory, presence, slips>>

\* What the transaction leaves of the row.
Saved(j) ==
    CASE j.op = "create"  -> [row EXCEPT !.status = "idle", !.visibility = j.arg]
      [] j.op = "prepare" -> [row EXCEPT !.status = "ready"]
      [] j.op = "start"   -> [row EXCEPT !.status = "live"]
      [] j.op = "end"     -> [row EXCEPT !.status = "ended"]
      [] j.op = "update"  -> j.arg
      [] OTHER            -> row

Commit(p) ==
    /\ job[p].at = "commit"
    /\ job[p].op \in {"create", "prepare", "start", "end", "update", "watch"}
    /\ row' = Saved(job[p])
    /\ Done(p) /\ Release(p)
    /\ UNCHANGED <<setting, tables, made, runtime, slips>>

-----------------------------------------------------------------------------
(* Chat and gifts *)

\* post_message holds the lock of a live stream.
PostMessage(p) ==
    /\ row.status = "live" /\ Lock(p)
    /\ \E u \in Users, t \in {"text", "product"} :
         Ask(p, "post", "commit", [author |-> u, type |-> t, is_pinned |-> FALSE, is_active |-> TRUE])

\* delete_message (the owner or the author) and pin_message (the owner) read an active
\* message without a lock.
Moderate(p) ==
    /\ \E i \in DOMAIN messages, op \in {"delete", "pin", "unpin"} :
         /\ messages[i].is_active
         /\ \E u \in Users : u = "owner" \/ (op = "delete" /\ u = messages[i].author)
         /\ Ask(p, op, "commit", <<i, messages[i]>>)
    /\ UNCHANGED holder

\* gift_target reads the status without a lock, before the gift's transaction.
CheckGift(p) == row.status = "live" /\ Ask(p, "gift", "commit", 0) /\ UNCHANGED holder

\* Defect: the whole message is saved.
ModeratedWhole(j) ==
    [messages EXCEPT ![j.arg[1]] =
        IF j.op = "delete" THEN [j.arg[2] EXCEPT !.is_active = FALSE]
        ELSE [j.arg[2] EXCEPT !.is_pinned = (j.op = "pin")]]

\* Both save the one column.
Moderated(j) ==
    IF j.op = "delete" THEN [messages EXCEPT ![j.arg[1]].is_active = FALSE]
    ELSE [messages EXCEPT ![j.arg[1]].is_pinned = (j.op = "pin")]

CommitChat(p) ==
    /\ job[p].at = "commit" /\ Done(p) /\ Release(p)
    /\ CASE job[p].op = "post" -> messages' = Append(messages, job[p].arg) /\ UNCHANGED gifts
         [] job[p].op \in {"delete", "pin", "unpin"} -> messages' = Moderated(job[p]) /\ UNCHANGED gifts
         [] job[p].op = "gift" -> gifts' = gifts + 1 /\ UNCHANGED messages
         [] OTHER -> FALSE
    /\ UNCHANGED <<setting, row, views, bindings, methods, made, runtime, slips>>

-----------------------------------------------------------------------------
(* Products and payment methods *)

Binds(q) == {b \in bindings : b.product = q}

\* bind_product: a product on sale, bound once.
BindProduct(p) ==
    /\ Lock(p)
    /\ \E q \in onSale, f \in BOOLEAN :
         /\ Binds(q) = {}
         /\ Ask(p, "bind", "commit", [product |-> q, is_featured |-> f, is_active |-> TRUE])

\* update_product_binding, unbind_product.
ChangeBinding(p) ==
    /\ Lock(p)
    /\ \E b \in bindings :
         \/ \E f, a \in BOOLEAN :
              Ask(p, "rebind", "commit", [b EXCEPT !.is_featured = f, !.is_active = a])
         \/ Ask(p, "unbind", "commit", b)

\* set_payment_methods: the methods of the list, in its order, and no others.
SetPaymentMethods(p) ==
    /\ Lock(p)
    /\ \E s \in {<<>>, <<"stripe">>, <<"stripe", "meow_points">>, <<"meow_points", "stripe">>} :
         Ask(p, "methods", "commit", s)

CommitPromotion(p) ==
    /\ job[p].at = "commit" /\ Done(p) /\ Release(p)
    /\ CASE job[p].op \in {"bind", "rebind"} ->
              /\ bindings' = (bindings \ IF job[p].op = "rebind" THEN Binds(job[p].arg.product) ELSE {})
                               \cup {job[p].arg}
              /\ UNCHANGED methods
         [] job[p].op = "unbind"  -> bindings' = bindings \ {job[p].arg} /\ UNCHANGED methods
         [] job[p].op = "methods" -> methods' = job[p].arg /\ UNCHANGED bindings
         [] OTHER -> FALSE
    /\ UNCHANGED <<setting, row, views, messages, gifts, made, runtime, slips>>

-----------------------------------------------------------------------------
(* What is read *)

\* serialize_stream, as viewer v gets it.
GetStream(v) ==
    IF Visible(v) THEN {[status |-> row.status, viewer_count |-> row.viewer_count,
                         broadcaster |-> v = "owner"]}
    ELSE {}

\* list_messages, list_stream_products.
ListMessages(v) == {i \in DOMAIN messages : Visible(v) /\ messages[i].is_active}
ListProducts(v) == {b \in bindings : Visible(v) /\ b.is_active}

\* _serialize_bindings: the card of the shop, none if the product is not on sale.
Card(b) == b.product \in onSale

\* get_status, and what the runtime would say (GetStreamStatus, ViewerPresenceRegistry.count).
GetStatus == [can_start |-> row.status \in {"idle", "ready"}, can_end |-> row.status = "live"]
GetStreamStatus == [can_start |-> memory \in {"idle", "ready"}, can_end |-> memory = "live",
                    viewer_count |-> Cardinality(presence)]

-----------------------------------------------------------------------------
(* Outside *)

NextMinute ==
    /\ "watch" \in scene /\ minute < MaxMinutes /\ minute' = minute + 1
    /\ UNCHANGED <<scene, mode, onSale, tables, row, holder, job, made, runtime, slips>>

\* The seller takes a product off sale, or puts it back (commerce).
TurnProduct ==
    /\ "promotion" \in scene
    /\ \E q \in Products : onSale' = IF q \in onSale THEN onSale \ {q} ELSE onSale \cup {q}
    /\ UNCHANGED <<scene, mode, minute, tables, row, holder, job, made, runtime, slips>>

Serve(p) ==
    \/ Require(p) \/ ServeCreate(p) \/ ServeStart(p) \/ ServeStop(p)
    \/ ClearPresence(p) \/ ServeWatch(p) \/ Join(p) \/ Unreached(p)

Request(p) ==
    \/ CreateStream(p) \/ PrepareStream(p) \/ StartStream(p) \/ EndStream(p)
    \/ UpdateStream(p) \/ Watch(p) \/ PostMessage(p) \/ Moderate(p) \/ CheckGift(p)
    \/ BindProduct(p) \/ ChangeBinding(p) \/ SetPaymentMethods(p)

Work(p) ==
    \/ InsertView(p) \/ CountView(p) \/ FakeRuntime(p) \/ CallRuntime(p) \/ Answered(p)
    \/ Commit(p) \/ CommitChat(p) \/ CommitPromotion(p) \/ Abort(p)

Next ==
    \/ \E p \in Procs : Request(p) \/ Work(p) \/ Serve(p)
    \/ Restart \/ NextMinute \/ TurnProduct

Spec == Init /\ [][Next]_vars

-----------------------------------------------------------------------------
(* Properties *)

Ongoing(op) == \E p \in Procs : job[p].op = op /\ job[p].at \in {"wait", "commit"}
Slipped(op) == op \in slips \/ Ongoing(op)
Counting == {p \in Procs : job[p].at = "count"}

\* Row and runtime agree although each call to the runtime may take effect without
\* its transaction: an ended stream is not on air again, whatever late start arrives;
\* row and runtime differ in being live only after a start or an end that failed
\* between the two, or a restart (start_stream, end_stream, StartBroadcast,
\* StopBroadcast).  The views are counted one by one under concurrent updates of the
\* whole row, but for the requests that die before they count, and no product is
\* bound twice.
LiveSound ==
    /\ TypeOK
    /\ mode = "refused" => row.status = "none"
    /\ mode = "served" =>
         /\ row.status = "ended" => memory \in {"ended", "none"}
         /\ row.status # "none" /\ memory = "none" => "restart" \in slips
         /\ GetStatus.can_end /\ memory = "ended" => Slipped("end")
         /\ GetStatus.can_start /\ GetStreamStatus.can_end => Slipped("start")
         /\ GetStatus.can_start /\ memory = "ended" => Slipped("end")
    /\ \A v \in Users : \A s \in GetStream(v) :
         /\ s.viewer_count <= Cardinality(views)
         /\ "uncounted" \notin slips =>
              s.viewer_count + Cardinality(Counting) = Cardinality(views)
    /\ \A q \in Products : Cardinality(Binds(q)) <= 1
    /\ holder # NoProc => job[holder].op # "none"

\* When nothing is on air nobody is present ("clear", presence.py), once the calls
\* under way are done, unless a viewer was let in while the broadcast was stopped.
GhostsNeedOverlap ==
    /\ memory # "live"
    /\ \A p \in Procs : call[p].at \notin {"joining", "stopped"}
    /\ "overlap" \notin slips
    => GetStreamStatus.viewer_count = 0

\* The chat ends with the stream (post_message against end_stream) and is never
\* written on before it starts; what is deleted stays out of the list, also when it
\* is pinned at the same time; and no gift is taken for a stream that never was live.
ChatStep ==
    /\ Len(messages') > Len(messages) => row.status = "live"
    /\ \A v \in Users : ListMessages(v)' \cap DOMAIN messages
                          \subseteq {i \in DOMAIN messages : messages[i].is_active}
    /\ gifts' # gifts => row.status \in {"live", "ended"}
ChatEndsWithStream == [][ChatStep]_vars

-----------------------------------------------------------------------------
(* The inductive invariant *)

Locking == {"prepare", "start", "end", "update", "post", "bind", "rebind", "unbind", "methods"}
Calling == {"create", "start", "end", "watch"}
Call == [method : {"none", "CreateStream", "StartBroadcast", "StopBroadcast", "GetWatchConfig"},
         at : {"sent", "required", "stopped", "joining", "done"}, ok : BOOLEAN]

\* What holds of a request between its statements: it has the row locked, or what it
\* found can only have gone on.
JobKnows(p) ==
    LET op == job[p].op  arg == job[p].arg
    IN  /\ holder = p <=> op \in Locking
        /\ op \in Locking => row.status # "none"
        /\ op = "none" => job[p] = Idle
        /\ job[p].at \in {"call", "wait"} => op \in Calling
        /\ job[p].at \in {"view", "count"} => op = "watch"
        /\ op = "create" => /\ row.status = "none" /\ arg \in {"public", "private"}
                            /\ \A q \in Procs : q # p => /\ job[q].op # "create"
                                                         /\ call[q].method # "CreateStream"
        /\ op = "prepare" => row.status = "idle"
        /\ op = "start" => row.status \in {"idle", "ready"}
        /\ op = "end" => row.status \in {"idle", "ready", "live"}
        /\ op = "update" => /\ arg \in LiveStream /\ arg.status = row.status
                            /\ arg.viewer_count = row.viewer_count
        /\ op = "watch" => row.status # "none" /\ arg \in Viewers
        /\ op = "post" => row.status = "live" /\ arg \in LiveChatMessage
        /\ op \in {"delete", "pin", "unpin"} => arg[1] \in DOMAIN messages
        /\ op = "gift" => row.status \in {"live", "ended"}
        /\ op \in {"bind", "rebind"} => arg \in LiveStreamProduct
        /\ op = "bind" => Binds(arg.product) = {}
        /\ op = "methods" => arg \in Seq(Methods)

\* What holds of a thread of the runtime: there is no second creation, a call that
\* still works is waited for or has been given up, and an answer tells the truth.
CallKnows(p) ==
    LET op == job[p].op  c == call[p]
    IN  /\ mode # "served" => c.at = "done"
        /\ c.at = "required" => c.method \in {"StartBroadcast", "StopBroadcast"}
        /\ c.at = "stopped" => c.method = "StopBroadcast" /\ memory = "ended"
        /\ c.at = "joining" => c.method = "GetWatchConfig"
        /\ c.method = "CreateStream" /\ row.status # "none" => c.at = "done"
        /\ row.status = "none" => c.method \in {"none", "CreateStream"}
        /\ c.method = "StartBroadcast" /\ c.at # "done" =>
             (op = "start" /\ job[p].at = "wait") \/ "start" \in slips
        /\ c.method = "StopBroadcast" /\ c.at # "done" =>
             (op = "end" /\ job[p].at = "wait") \/ "end" \in slips
        /\ job[p].at = "wait" => c.method = RpcOf(op)
        /\ op = "create" /\ job[p].at \in {"wait", "commit"} => mode # "refused"
        /\ op = "create" /\ job[p].at = "commit" => c.at = "done"
        /\ mode = "served" /\ (job[p].at = "commit" \/ (job[p].at = "wait" /\ c.at = "done" /\ c.ok)) =>
             /\ op = "create" => memory # "none" \/ "restart" \in slips
             /\ op = "end" => memory \in {"ended", "none"}

RowAndMemory ==
    /\ mode = "refused" => row.status = "none"
    /\ row.status = "none" => memory \in {"none", "ready"}
    /\ mode = "served" =>
         /\ row.status = "ended" => memory \in {"ended", "none"}
         /\ row.status # "none" /\ memory = "none" => "restart" \in slips
         /\ row.status \in {"idle", "ready", "live"} /\ memory = "ended" => Slipped("end")
         /\ row.status \in {"idle", "ready"} /\ memory = "live" => Slipped("start")

ViewsCounted ==
    /\ IsFiniteSet(views) /\ IsFiniteSet(Counting)
    /\ row.viewer_count + Cardinality(Counting) <= Cardinality(views)
    /\ "uncounted" \notin slips => row.viewer_count + Cardinality(Counting) = Cardinality(views)

BoundOnce == \A b, c \in bindings : b.product = c.product => b = c

GhostsExplained ==
    memory # "live" /\ "overlap" \notin slips /\ (\A p \in Procs : call[p].at # "stopped") =>
        presence = {} /\ \A p \in Procs : call[p].at # "joining"

LiveInv ==
    /\ TypeOK
    /\ call \in [Procs -> Call]
    /\ \A p \in Procs : JobKnows(p) /\ CallKnows(p)
    /\ RowAndMemory
    /\ ViewsCounted
    /\ BoundOnce
    /\ GhostsExplained
=============================================================================
