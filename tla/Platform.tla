------------------------------ MODULE Platform ------------------------------
(***************************************************************************)
(* The site around the content: the configuration with its read-through     *)
(* cache (platform_config), the trail of its changes (audit) and the        *)
(* notification service, to which the handler of a UserRegistered event     *)
(* sends the welcome e-mail (identity/handlers.py, services/notification);  *)
(* the outbox delivers the event until the handler returns.                 *)
(***************************************************************************)
EXTENDS Integers, Sequences, FiniteSets, SequencesExt

CONSTANTS Threads,    \* of the application, and of the notification service
          Fields,     \* fields an administrator may set, each to 0 or 1
          Messages,   \* UserRegistered events, and the keys of their e-mails
          MaxEdits,   \* bound on the updates
          MaxSends    \* bound on the deliveries

ASSUME PlatformAssumption == MaxEdits \in Nat /\ MaxSends \in Nat

VARIABLES config,     \* the PlatformConfig row, as committed
          writer,     \* the transaction with the row written and not committed
          cached,     \* what the cache holds: at most one configuration
          duty,       \* per thread: what it is doing
          trail,      \* the AuditLog rows, oldest first: the fields changed
          toggles,    \* how many events of the change were emitted
          guarded,    \* is the interceptor in the way of the calls?
          settled,    \* the events whose handler has returned
          sent,       \* the keys the notification service knows
          queued,     \* how often each message was queued
          edits, sends,
          latest,     \* history: the last value committed of each field
          incidents   \* history: what came between

pvars == <<config, writer, cached, duty, trail, toggles, guarded, settled, sent, queued, edits,
           sends, latest, incidents>>
notice == <<guarded, settled, sent, queued, sends>>
site == <<config, writer, cached, trail, toggles, edits, latest>>

PlatformConfig == [Fields -> {0, 1}]
AuditLog == [action : {"platform.config.update"}, severity : {"sensitive"}, changed : SUBSET Fields]
Rest == [at |-> "idle"]

PInit ==
    /\ config = [f \in Fields |-> 0] /\ writer = {} /\ cached = {}
    /\ duty = [t \in Threads |-> Rest]
    /\ trail = <<>> /\ toggles = 0
    /\ guarded \in BOOLEAN /\ settled = {} /\ sent = {} /\ queued = [m \in Messages |-> 0]
    /\ edits = 0 /\ sends = 0
    /\ latest = config /\ incidents = {}

Do(t, d) == duty' = [duty EXCEPT ![t] = d]
Is(t, phase) == duty[t].at = phase
Some(phases) == \E t \in Threads : duty[t].at \in phases

-----------------------------------------------------------------------------
(* The configuration *)

\* get_platform_config finds nothing in the cache and loads the row ...
LoadConfig(t) ==
    /\ Is(t, "idle") /\ cached = {}
    /\ edits < MaxEdits \/ writer # {}
    /\ Do(t, [at |-> "fill", row |-> config])
    /\ UNCHANGED <<site, notice, incidents>>

\* ... and stores it, whatever happened since.
StoreConfig(t) ==
    /\ Is(t, "fill")
    /\ cached' = {duty[t].row}
    /\ Do(t, Rest)
    /\ incidents' = incidents \cup (IF writer # {} THEN {"filled"} ELSE {})
    /\ UNCHANGED <<config, writer, trail, toggles, edits, latest, notice>>

\* The entry lives for a minute.
ExpireConfig ==
    /\ cached # {} /\ cached' = {}
    /\ UNCHANGED <<config, writer, duty, trail, toggles, edits, latest, notice, incidents>>

\* update_config loads the row without a lock; a change that changes nothing is done.
LoadForUpdate(t) ==
    /\ Is(t, "idle")
    /\ edits < MaxEdits /\ edits' = edits + 1
    /\ \E change \in UNION {[s -> {0, 1}] : s \in SUBSET Fields \ {{}}} :
         LET updated == {f \in DOMAIN change : change[f] # config[f]}
         IN  /\ updated # {}
             /\ Do(t, [at |-> "update", updated |-> updated,
                       row |-> [f \in Fields |-> IF f \in updated THEN change[f] ELSE config[f]]])
    /\ incidents' = incidents \cup (IF Some({"update", "saved"}) THEN {"two updates"} ELSE {})
    /\ UNCHANGED <<config, writer, cached, trail, toggles, latest, notice>>

\* Defect: the cache is left as it is.
SaveKeepsCache(t) ==
    /\ Is(t, "update") /\ writer = {}
    /\ writer' = {t}
    /\ Do(t, [duty[t] EXCEPT !.at = "saved"])
    /\ UNCHANGED <<config, cached, trail, toggles, edits, latest, notice, incidents>>

\* PlatformConfig.save writes all of the row and empties the cache, both inside the
\* transaction: before the commit.
SaveConfig(t) ==
    /\ Is(t, "update") /\ writer = {}
    /\ writer' = {t} /\ cached' = {}
    /\ Do(t, [duty[t] EXCEPT !.at = "saved"])
    /\ UNCHANGED <<config, trail, toggles, edits, latest, notice, incidents>>

\* record_audit: a row of the caller's transaction; what it refuses is rolled back.
RecordAudit(row) == row \in AuditLog /\ trail' = Append(trail, row)

\* The commit, with the events and the audit row.
CommitConfig(t) ==
    /\ Is(t, "saved")
    /\ config' = duty[t].row
    /\ latest' = [f \in Fields |-> IF f \in duty[t].updated THEN duty[t].row[f] ELSE latest[f]]
    /\ RecordAudit([action |-> "platform.config.update", severity |-> "sensitive",
                    changed |-> duty[t].updated])
    /\ toggles' = toggles + 1
    /\ writer' = {} /\ Do(t, Rest)
    /\ incidents' = incidents \cup (IF Some({"fill"}) THEN {"filled"} ELSE {})
    /\ UNCHANGED <<cached, edits, notice>>

\* A thread fails, or dies, or has waited too long; a call of Send goes on without it.
RollBack(t) ==
    /\ duty[t].at \notin {"idle", "send"}
    /\ writer' = writer \ {t} /\ Do(t, Rest)
    /\ UNCHANGED <<config, cached, trail, toggles, edits, latest, notice, incidents>>

\* serialize_public, of what get_platform_config returns.
PublicConfig == IF cached = {} THEN config ELSE CHOOSE c \in cached : TRUE

\* audit_queryset, get_audit: the rows on a field.
AuditQueryset(f) == {i \in DOMAIN trail : f \in trail[i].changed}

-----------------------------------------------------------------------------
(* The notification service *)

\* get_metadata, and AuthInterceptor: only a call with a bearer token is let through.
Metadata == {"x-trace-id", "traceparent", "x-request-id"}
Lets == guarded => "authorization" \in Metadata

\* send_welcome_email: the key is that of the event, the same at each delivery.
SendWelcomeEmail(t) ==
    /\ Is(t, "idle")
    /\ sends < MaxSends /\ sends' = sends + 1
    /\ \E m \in Messages \ settled : Do(t, [at |-> "call", key |-> m])
    /\ UNCHANGED <<site, guarded, settled, sent, queued, incidents>>

\* Send looks whether it knows the key (DUPLICATE) ...
Send(t) ==
    /\ Is(t, "call") /\ Lets
    /\ Do(t, [duty[t] EXCEPT !.at = IF duty[t].key \in sent THEN "answered" ELSE "send"])
    /\ incidents' = incidents \cup
         (IF \E s \in Threads : Is(s, "send") /\ duty[s].key = duty[t].key THEN {"two sends"} ELSE {})
    /\ UNCHANGED <<site, notice>>

\* ... and queues the message: no lock is held, and a pool of threads serves the calls.
Queue(t) ==
    /\ Is(t, "send")
    /\ sent' = sent \cup {duty[t].key}
    /\ queued' = [queued EXCEPT ![duty[t].key] = @ + 1]
    /\ Do(t, [duty[t] EXCEPT !.at = "answered"])
    /\ UNCHANGED <<site, guarded, settled, sends, incidents>>

\* The handler returns, and the delivery is acknowledged.
Settle(t) ==
    /\ Is(t, "answered")
    /\ settled' = settled \cup {duty[t].key}
    /\ Do(t, Rest)
    /\ UNCHANGED <<site, guarded, sent, queued, sends, incidents>>

\* Its keys are in memory.
RestartNotification ==
    /\ sent # {} /\ sends < MaxSends
    /\ sent' = {}
    /\ duty' = [t \in Threads |-> IF Is(t, "send") THEN Rest ELSE duty[t]]
    /\ incidents' = incidents \cup {"restart"}
    /\ UNCHANGED <<site, guarded, settled, queued, sends>>

ConfigNext ==
    \/ \E t \in Threads : \/ LoadConfig(t) \/ StoreConfig(t) \/ LoadForUpdate(t) \/ SaveConfig(t)
                          \/ CommitConfig(t) \/ RollBack(t)
    \/ ExpireConfig

NoticeNext ==
    \/ \E t \in Threads : SendWelcomeEmail(t) \/ Send(t) \/ Queue(t) \/ Settle(t) \/ RollBack(t)
    \/ RestartNotification

PNext == ConfigNext \/ NoticeNext
PSpec == PInit /\ [][PNext]_pvars

-----------------------------------------------------------------------------
(* Properties *)

\* What is shown is the committed configuration unless the cache was filled while an update
\* was under way (get_platform_config, PlatformConfig.save); no update undoes
\* another's field unless they overlapped (update_config); each update that counts is
\* in the audit trail, none that was rolled back is (record_audit); and the welcome
\* e-mail of an event that is done is queued, once however often the event is delivered,
\* by a service that has not restarted and was not asked twice at once (Send).
PlatformSound ==
    /\ config \in PlatformConfig /\ \A c \in cached : c \in PlatformConfig
    /\ trail \in Seq(AuditLog)
    /\ "filled" \notin incidents /\ writer = {} => PublicConfig = config
    /\ "two updates" \notin incidents => config = latest
    /\ toggles = Len(trail)
    /\ \A f \in Fields : config[f] # 0 => AuditQueryset(f) # {}
    /\ \A m \in settled : ~guarded /\ queued[m] >= 1
    /\ incidents \cap {"restart", "two sends"} = {} => \A m \in Messages : queued[m] <= 1

-----------------------------------------------------------------------------
(* The inductive invariant *)

Updating == {"update", "saved"}
Duty == [at : {"idle"}] \cup [at : {"fill"}, row : PlatformConfig]
          \cup [at : Updating, updated : SUBSET Fields, row : PlatformConfig]
          \cup [at : {"call", "send", "answered"}, key : Messages]

PTypeOK ==
    /\ config \in PlatformConfig /\ latest \in PlatformConfig /\ cached \subseteq PlatformConfig
    /\ trail \in Seq(AuditLog) /\ toggles = Len(trail)
    /\ duty \in [Threads -> Duty]
    /\ guarded \in BOOLEAN /\ sent \subseteq Messages /\ settled \subseteq Messages
    /\ queued \in [Messages -> Nat]

\* As long as none filled it under an update, the cache is empty or true, and what is
\* about to be put there is true; an update that holds the row has emptied it.
CacheKnows ==
    /\ \A t \in Threads : Is(t, "saved") <=> writer = {t}
    /\ writer \subseteq Threads /\ \A s, t \in writer : s = t
    /\ "filled" \notin incidents =>
         /\ cached \subseteq {config} /\ (writer # {} => cached = {})
         /\ \A t \in Threads : Is(t, "fill") => duty[t].row = config

\* What an update has read and does not change is still so when it is alone; a field
\* that it takes from 0 is one that it changes, or one that the trail has.
UpdateKnows(t) ==
    duty[t].at \in Updating =>
      /\ "two updates" \notin incidents =>
           /\ \A s \in Threads : duty[s].at \in Updating => s = t
           /\ \A f \in Fields \ duty[t].updated : duty[t].row[f] = config[f]
      /\ \A f \in Fields \ duty[t].updated : duty[t].row[f] # 0 => AuditQueryset(f) # {}

\* What a call has been told of its key stays true while the service keeps its memory.
SendKnows(t) ==
    /\ duty[t].at \in {"send", "answered"} => ~guarded
    /\ Is(t, "answered") => queued[duty[t].key] >= 1
    /\ Is(t, "send") /\ incidents \cap {"restart", "two sends"} = {} =>
         /\ duty[t].key \notin sent
         /\ \A s \in Threads : Is(s, "send") /\ duty[s].key = duty[t].key => s = t

QueueKnows ==
    /\ \A m \in sent : queued[m] >= 1
    /\ incidents \cap {"restart", "two sends"} = {} => \A m \in Messages \ sent : queued[m] = 0

PlatformInv ==
    /\ PTypeOK /\ CacheKnows /\ QueueKnows
    /\ \A t \in Threads : UpdateKnows(t) /\ SendKnows(t)
    /\ PlatformSound
=============================================================================
