---------------------------- MODULE LegacyImport ----------------------------
(***************************************************************************)
(* libs/migration and the commands built on it: rows of the old platform   *)
(* are read page by page in the order of their key, each page is loaded in *)
(* one transaction with a savepoint per row, and then the checkpoint file  *)
(* is written.  A run may die anywhere, and the next one may resume.       *)
(*                                                                         *)
(* Row 1 of the memberships is the fan's of Entitlements; the platform is  *)
(* open meanwhile.                                                         *)
(***************************************************************************)
EXTENDS Entitlements

CONSTANTS LastRow,     \* the keys of the old rows are 1..LastRow, in both tables
          Unfit,       \* the user rows that cannot be imported as they are
          PageSize,   \* rows of a page
          LegacyEnd,   \* when the fan's old membership ends
          MaxRuns      \* bound on the runs, per group

ASSUME LegacyAssumption ==
    /\ LastRow \in Nat \ {0} /\ PageSize \in Nat \ {0} /\ MaxRuns \in [Offers -> Nat]
    /\ LegacyEnd \in 0..Forever
    /\ Unfit \subseteq 1..LastRow

VARIABLES legacy,      \* is the old user row fit to be imported?
          users,       \* the old users that are on the new platform
          refs,        \* the old memberships of others that were imported
          checkpoint,  \* per command: the file; 0: there is none
          job,         \* the run going on
          begun,       \* how many were started
          reported,    \* history: rows reported as errors by the runs a checkpoint stands for
          finished     \* history: did the latest run of the command end without error?

lvars == <<legacy, users, refs, checkpoint, job, begun, reported, finished>>

Rows == 1..LastRow
Commands == {"import_legacy_users", "import_legacy_memberships"}
NoJob == [command |-> "none", phase |-> "idle", dry_run |-> FALSE, after |-> 0, errors |-> {}]

LTypeOK ==
    /\ legacy \in [Rows -> {"fit", "unfit"}]
    /\ users \subseteq Rows
    /\ refs \subseteq Rows
    /\ checkpoint \in [Commands -> {0} \cup Rows]
    /\ job.command \in Commands \cup {"none"} /\ job.after \in {0} \cup Rows
    /\ reported \in [Commands -> SUBSET Rows]
    /\ finished \in [Commands -> BOOLEAN]

LInit ==
    /\ EInit
    /\ legacy = [r \in Rows |-> IF r \in Unfit THEN "unfit" ELSE "fit"]
    /\ users = {}
    /\ refs = {}
    /\ checkpoint = [c \in Commands |-> 0]
    /\ job = NoJob
    /\ begun = 0
    /\ reported = [c \in Commands |-> {}]
    /\ finished = [c \in Commands |-> FALSE]

-----------------------------------------------------------------------------

\* handle, up to the loop: from the start, or --resume from the checkpoint.
BeginRun(c) ==
    /\ "import" \in offer
    /\ job = NoJob
    /\ begun < MaxRuns[offer] /\ begun' = begun + 1
    /\ \E resume, dry_run \in BOOLEAN :
         LET from == IF resume THEN checkpoint[c] ELSE 0
         IN  job' = [NoJob EXCEPT !.command = c, !.phase = "page", !.dry_run = dry_run,
                                  !.after = from]
    /\ finished' = [finished EXCEPT ![c] = FALSE]
    /\ UNCHANGED <<evars, legacy, users, refs, checkpoint, reported>>

\* Defect: the key of the page's end is skipped once more.
PageSkips(after) == {r \in Rows : after + 1 < r /\ r <= after + 1 + PageSize}

\* build_sql: the next rows in the order of their key.
Page(after) == {r \in Rows : after < r /\ r <= after + PageSize}

\* load_one refuses a user without address or hash, and a membership whose user was
\* not imported.
Loadable(r) == IF job.command = "import_legacy_users"
               THEN legacy[r] = "fit"
               ELSE r \in users

FansRow == [status |-> "active", ends_at |-> LegacyEnd, source |-> "migration", ref |-> 1]
Migrated == {i \in DOMAIN memberships : memberships[i].source = "migration"}

\* update_or_create by source_ref: active again, whatever became of the row.
UpsertFans ==
    memberships' = IF Migrated = {} THEN Append(memberships, FansRow)
                   ELSE [i \in DOMAIN memberships |->
                           IF i \in Migrated THEN FansRow ELSE memberships[i]]

\* load_batch and the commit of the page: a user that is there already gets the old
\* columns, password included.
LoadUsers(loaded) ==
    /\ users' = users \cup loaded
    /\ UNCHANGED <<refs, evars>>

LoadMemberships(loaded) ==
    /\ refs' = refs \cup loaded
    /\ IF 1 \in loaded THEN UpsertFans ELSE UNCHANGED memberships
    /\ UNCHANGED <<users, offer, money, posted, content, plan, orders, now, overlapped,
                   cache, answered, called, step, at>>

LoadPage ==
    /\ job.phase = "page"
    /\ LET page == Page(job.after)
           loaded == {r \in page : Loadable(r)}
       IN  /\ page # {}
           /\ IF job.dry_run THEN UNCHANGED <<evars, users, refs>>
              ELSE IF job.command = "import_legacy_users"
                   THEN LoadUsers(loaded) ELSE LoadMemberships(loaded)
           /\ job' = [job EXCEPT !.phase = "checkpoint", !.errors = @ \cup (page \ loaded)]
    /\ UNCHANGED <<legacy, checkpoint, begun, reported, finished>>

\* write_checkpoint, after the commit: the key of the page's last row.  A page that was
\* not full is the last.
WriteCheckpoint ==
    /\ job.phase = "checkpoint"
    /\ LET page == Page(job.after)
           last == CHOOSE r \in page : \A q \in page : q <= r
       IN  /\ checkpoint' = IF job.dry_run THEN checkpoint
                            ELSE [checkpoint EXCEPT ![job.command] = last]
           /\ job' = [job EXCEPT !.after = last,
                        !.phase = IF Cardinality(page) < PageSize THEN "end" ELSE "page"]
           /\ reported' = IF job.dry_run THEN reported
                          ELSE [reported EXCEPT ![job.command] =
                                  job.errors \cup IF job.after = 0 THEN {} ELSE @]
    /\ UNCHANGED <<evars, legacy, users, refs, begun, finished>>

\* The end of handle: a clean run that was not a dry one removes the checkpoint.
EndRun ==
    /\ job.phase = "end" \/ (job.phase = "page" /\ Page(job.after) = {})
    /\ LET clean == ~job.dry_run /\ job.errors = {}
       IN  /\ checkpoint' = IF clean THEN [checkpoint EXCEPT ![job.command] = 0] ELSE checkpoint
           /\ finished' = [finished EXCEPT ![job.command] = clean]
    /\ job' = NoJob
    /\ UNCHANGED <<evars, legacy, users, refs, begun, reported>>

Interrupt ==
    /\ job # NoJob
    /\ job' = NoJob
    /\ UNCHANGED <<evars, legacy, users, refs, checkpoint, begun, reported, finished>>

\* Someone repairs a row of the old database.
Repair ==
    /\ job = NoJob /\ "import" \in offer
    /\ \E r \in Rows : legacy[r] = "unfit" /\ legacy' = [legacy EXCEPT ![r] = "fit"]
    /\ UNCHANGED <<evars, users, refs, checkpoint, job, begun, reported, finished>>

-----------------------------------------------------------------------------
(* validate_migration *)

\* run_checks: the numbers of users and of active memberships agree.
GatePasses ==
    /\ Cardinality(users) = LastRow
    /\ Cardinality(refs \ {1}) + Cardinality(Active) = LastRow

-----------------------------------------------------------------------------

LNext ==
    \/ ENext /\ UNCHANGED lvars
    \/ \E c \in Commands : BeginRun(c)
    \/ LoadPage \/ WriteCheckpoint \/ EndRun \/ Interrupt \/ Repair

LSpec == LInit /\ [][LNext]_<<evars, lvars>> /\ EFairness

-----------------------------------------------------------------------------
(* Properties *)

Loaded(c) == IF c = "import_legacy_users" THEN users ELSE refs

\* Whatever runs were interrupted and resumed, after one that ends without an error every
\* old row is imported - but for those that the runs its checkpoint stood for reported,
\* which a resumed run passes over even when they were repaired (report.py: a checkpoint
\* "records the last successfully-processed keyset value"), also when a run from the start
\* was begun, and interrupted, in between.  The cutover gate counts:
\* when no membership was bought here and nothing else made up for a missing row, a
\* pass means that all rows came over (validate_migration).
ImportComplete ==
    /\ LTypeOK
    /\ \A c \in Commands : finished[c] => Rows \subseteq Loaded(c) \cup reported[c]
    /\ GatePasses /\ orders = <<>> => users = Rows /\ refs = Rows

-----------------------------------------------------------------------------
(* The inductive invariant *)

\* A request that is about to be answered with success found or made what it asked for.
RequestKnows(p) ==
    step[p] \in {"lookup", "commit", "store"} =>
        at[p] \in Requests /\ (step[p] = "store" => Found(at[p]))

AnswersKnown ==
    /\ \A p \in Procs : RequestKnows(p)
    /\ \A r \in answered \cup cache : Found(r)

BoughtActive == {i \in Active : Purchased(i)}

\* A delivery works on an order that was settled; while none overlapped another it is
\* the only one, its order is not paid, and it saw what is to be expired.
DeliveryKnows(p) ==
    LET i == at[p].order
    IN  Granting(p) =>
          /\ i \in DOMAIN orders /\ orders[i].event # "none"
          /\ step[p] = "insert" => at[p].seen \subseteq DOMAIN memberships
          /\ ~overlapped =>
               /\ orders[i].status # "paid"
               /\ \A q \in Procs : Granting(q) => q = p
               /\ step[p] = "insert" => BoughtActive \subseteq at[p].seen

\* A later grant ends no earlier, an imported row ends when the old one did, and there is
\* one: what is purchased is covered by an active row for as long.
Covered ==
    /\ \A i \in DOMAIN memberships :
         IF Purchased(i)
         THEN /\ memberships[i].ref \in DOMAIN orders /\ memberships[i].ends_at <= EndsAt
              /\ \E j \in Active : memberships[j].ends_at >= memberships[i].ends_at
         ELSE memberships[i].ends_at = LegacyEnd /\ 1 \in refs
    /\ \A i, j \in Migrated : i = j

PaidAndGranted ==
    /\ \A i \in DOMAIN orders :
         /\ (orders[i].status = "paid") <=>
              \E j \in DOMAIN memberships : Purchased(j) /\ memberships[j].ref = i
         /\ orders[i].status = "paid" => orders[i].event # "none"
    /\ ~overlapped =>
         /\ \A i, j \in BoughtActive : i = j
         /\ \A i, j \in DOMAIN memberships :
              Purchased(i) /\ Purchased(j) /\ memberships[i].ref = memberships[j].ref => i = j

\* What a run has passed is imported or was reported; the file is behind the run.
UpTo(n) == {r \in Rows : r <= n}
ImportKnows ==
    /\ \A c \in Commands :
         /\ UpTo(checkpoint[c]) \subseteq Loaded(c) \cup reported[c]
         /\ finished[c] => Rows \subseteq Loaded(c) \cup reported[c]
    /\ job.phase # "idle" =>
         /\ job.command \in Commands /\ ~finished[job.command]
         /\ ~job.dry_run => job.after \in {0, checkpoint[job.command]}
         /\ job.phase = "checkpoint" =>
              /\ Page(job.after) # {}
              /\ ~job.dry_run => Page(job.after) \subseteq Loaded(job.command) \cup job.errors
         /\ job.phase = "end" => LastRow <= job.after

EntitledInv ==
    /\ LTypeOK
    /\ AnswersKnown
    /\ \A p \in Procs : DeliveryKnows(p)
    /\ Covered /\ PaidAndGranted
    /\ ImportKnows
=============================================================================
