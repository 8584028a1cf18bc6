----------------------------- MODULE Engagement -----------------------------
(***************************************************************************)
(* How people take part: likes, favourites, comments, views, shares and     *)
(* watch progress of a video (content/video) and a drama series             *)
(* (content/drama), and who follows whom (identity).                        *)
(*                                                                          *)
(* A row and the counter that goes with it are two transactions, except for *)
(* comments and follows: a request may die between the two, and other       *)
(* requests come in between.  A counter of the video waits for the lock the *)
(* owner's update holds on it.  What is counted is told to others by an     *)
(* event (module Outbox), whose key is refused the second time.             *)
(***************************************************************************)
EXTENDS Integers, Sequences, FiniteSets

CONSTANTS Handlers,      \* request threads
          Users,      \* who takes part, and follows
          MaxMade,    \* bound on the requests
          MaxMinutes, \* bound on the minutes
          Topics      \* the groups of operations one behaviour draws on

ASSUME EngagementAssumption ==
    /\ IsFiniteSet(Handlers) /\ "none" \notin Handlers /\ IsFiniteSet(Users)
    /\ Topics \subseteq SUBSET {"marks", "comments", "views", "owner", "follow"}
    /\ MaxMade \in [Topics -> Nat] /\ MaxMinutes \in Nat

VARIABLES topic,      \* the groups of this behaviour
          active,     \* the targets' is_active
          visibility, \* the video's; "none": it is not there yet
          counts,     \* its counters
          marks,      \* the VideoLike rows of the video, the DramaFavorite rows of the series
          comments,   \* the comments, oldest first
          views,      \* the dedup keys of the view rows
          shares,     \* how many shares there were
          progress,   \* the DramaWatchProgress rows
          follows,    \* the Follow rows
          followers,  \* follower_count and
          following,  \*   following_count of the users
          minute, holder,     \* the time; the transaction with the video locked
          task,       \* per thread: the request it works on
          spent,      \* how many requests were made
          told, keys, \* the last event on a mark; the keys of the events emitted
          times,      \* history: how often a mark was made
          mishaps     \* history: what came between

gvars == <<topic, active, visibility, counts, marks, comments, views, shares, progress, follows,
           followers, following, minute, holder, task, spent, told, keys, times, mishaps>>
marking == <<marks, told, keys, times>>
talk == <<comments, views, shares, progress>>
people == <<follows, followers, following>>
shown == <<active, visibility>>
clock == <<topic, minute>>

Targets == {"video", "series"}
Video == [like : Nat, comment : Nat, view : Nat, share : Nat]
VideoComment == [target : Targets, parent : Nat, reply_count : Nat]
DramaWatchProgress == [episode : {1, 2}, completed : BOOLEAN]
Empty == [like |-> 0, comment |-> 0, view |-> 0, share |-> 0]
Free == [op |-> "none", target |-> "video", user |-> "nobody", at |-> "idle", saw |-> Empty]

GTypeOK ==
    /\ topic \in Topics
    /\ active \in [Targets -> BOOLEAN]
    /\ visibility \in {"none", "public", "private"}
    /\ counts \in [Targets -> Video]
    /\ marks \in [Targets -> SUBSET Users]
    /\ comments \in Seq(VideoComment)
    /\ views \subseteq Targets \X Users \X (0..MaxMinutes)
    /\ shares \in [Targets -> Nat]
    /\ \A u \in DOMAIN progress : u \in Users /\ progress[u] \in DramaWatchProgress
    /\ follows \subseteq Users \X Users
    /\ followers \in [Users -> Nat] /\ following \in [Users -> Nat]
    /\ spent \in 0..MaxMade[topic]

GInit ==
    /\ topic \in Topics
    /\ active = [t \in Targets |-> TRUE]
    /\ visibility \in IF "owner" \in topic THEN {"none", "public"} ELSE {"public"}
    /\ counts = [t \in Targets |-> Empty]
    /\ marks = [t \in Targets |-> {}]
    /\ comments = <<>> /\ views = {} /\ shares = [t \in Targets |-> 0] /\ progress = << >>
    /\ follows = {}
    /\ followers = [u \in Users |-> 0] /\ following = [u \in Users |-> 0]
    /\ minute = 0 /\ holder = "none"
    /\ task = [p \in Handlers |-> Free]
    /\ spent = 0
    /\ told = [m \in Targets \X Users |-> "nothing"] /\ keys = {}
    /\ times = [m \in Targets \X Users |-> 0]
    /\ mishaps = {}

-----------------------------------------------------------------------------
(* Requests *)

Arrives(p, group) ==
    group \in topic /\ task[p].op = "none" /\ spent < MaxMade[topic] /\ spent' = spent + 1
Take(p, op, t, u, saw) ==
    task' = [task EXCEPT ![p] = [op |-> op, target |-> t, user |-> u, at |-> "row", saw |-> saw]]

\* _get_active_video, gift_target: what is not public, or deleted, is not found.
GetActiveVideo == active["video"] /\ visibility = "public"

\* _get_active_series.
GetActiveSeries == active["series"]

Seen(t) == IF t = "video" THEN GetActiveVideo ELSE GetActiveSeries

\* A request that sees its target.
Starts(p, group, op, t) ==
    /\ Arrives(p, group)
    /\ Seen(t)
    /\ \E u \in Users : Take(p, op, t, u, Empty)
    /\ UNCHANGED <<clock, shown, counts, marking, talk, people, mishaps>>
Advance(p, phase) == task' = [task EXCEPT ![p].at = phase]
Finish(p) == task' = [task EXCEPT ![p] = Free]
In(p, op, t, phase) == task[p].op = op /\ task[p].target = t /\ task[p].at = phase
Mark(p) == <<task[p].target, task[p].user>>

\* An UPDATE of a counter: F() in its own statement, behind the video's row lock.
Unlocked(t) == t = "series" \/ holder = "none"
Bump(t, field) == counts' = [counts EXCEPT ![t][field] = @ + 1]
LowerTo0(t) == counts' = [counts EXCEPT ![t].like = IF @ = 0 THEN 0 ELSE @ - 1]

-----------------------------------------------------------------------------
(* Marks *)

\* Defect: a like that was there is counted too.
InsertMarkTwice(p, t) ==
    /\ In(p, "mark", t, "row")
    /\ marks' = [marks EXCEPT ![t] = @ \cup {task[p].user}]
    /\ times' = [times EXCEPT ![Mark(p)] = @ + 1]
    /\ Advance(p, "count")
    /\ UNCHANGED <<clock, shown, counts, talk, people, holder, spent, told, keys, mishaps>>

\* get_or_create: one row for user and target.
InsertMark(p, t) ==
    /\ In(p, "mark", t, "row")
    /\ IF task[p].user \in marks[t]
         THEN Finish(p) /\ UNCHANGED <<marks, times>>
         ELSE /\ marks' = [marks EXCEPT ![t] = @ \cup {task[p].user}]
              /\ times' = [times EXCEPT ![Mark(p)] = @ + 1]
              /\ Advance(p, "count")
    /\ UNCHANGED <<clock, shown, counts, talk, people, holder, spent, told, keys, mishaps>>

Counting(t, op) == {p \in Handlers : In(p, op, t, "count")}

DeleteMark(p, t) ==
    /\ In(p, "unmark", t, "row")
    /\ IF task[p].user \notin marks[t]
         THEN Finish(p) /\ UNCHANGED <<marks, mishaps>>
         ELSE /\ marks' = [marks EXCEPT ![t] = @ \ {task[p].user}]
              /\ mishaps' = mishaps \cup
                   (IF \E q \in Handlers : Mark(q) = Mark(p) /\ task[q].op = "mark" THEN {"crossed"} ELSE {})
              /\ Advance(p, "count")
    /\ UNCHANGED <<clock, shown, counts, talk, people, holder, spent, told, keys, times>>

CountMark(p, op, t) ==
    /\ In(p, op, t, "count")
    /\ Unlocked(t)
    /\ IF op = "mark" THEN Bump(t, "like") ELSE LowerTo0(t)
    /\ Advance(p, "tell")
    /\ UNCHANGED <<clock, shown, marking, talk, people, holder, spent, mishaps>>

\* _emit swallows the refusal of a key: that of a like has no time in it.
TellMark(p, op, t) ==
    /\ In(p, op, t, "tell")
    /\ IF op = "mark" /\ Mark(p) \in keys THEN UNCHANGED <<told, keys>>
       ELSE /\ told' = [told EXCEPT ![Mark(p)] = op]
            /\ keys' = IF op = "mark" THEN keys \cup {Mark(p)} ELSE keys
    /\ mishaps' = mishaps \cup
         (IF \E q \in Handlers \ {p} : Mark(q) = Mark(p) /\ task[q].op \in {"mark", "unmark"}
            THEN {"crossed"} ELSE {})
    /\ Finish(p)
    /\ UNCHANGED <<clock, shown, counts, marks, times, talk, people, holder, spent>>

\* The steps of a request that marks its target, and of one that takes a mark back.
MarkSteps(p, t) ==
    \/ Starts(p, "marks", "mark", t) /\ UNCHANGED holder
    \/ InsertMark(p, t) \/ CountMark(p, "mark", t) \/ TellMark(p, "mark", t)
UnmarkSteps(p, t) ==
    \/ Starts(p, "marks", "unmark", t) /\ UNCHANGED holder
    \/ DeleteMark(p, t) \/ CountMark(p, "unmark", t) \/ TellMark(p, "unmark", t)

LikeVideo(p) == MarkSteps(p, "video")
UnlikeVideo(p) == UnmarkSteps(p, "video")
AddFavorite(p) == MarkSteps(p, "series")
RemoveFavorite(p) == UnmarkSteps(p, "series")

-----------------------------------------------------------------------------
(* Comments, views, shares, progress *)

On(t) == {i \in DOMAIN comments : comments[i].target = t}

\* comments_queryset: those that answer no other; replies_queryset.
Comments(t) == {i \in On(t) : comments[i].parent = 0}
Replies(i) == {j \in DOMAIN comments : comments[j].parent = i}

\* The comment, the counter of the target and, for a reply, that of the parent, which
\* is a comment on the same target.
InsertComment(p, t) ==
    /\ In(p, "comment", t, "row")
    /\ \E parent \in {0} \cup On(t) :
         comments' = Append([i \in DOMAIN comments |->
                               IF i = parent THEN [comments[i] EXCEPT !.reply_count = @ + 1]
                               ELSE comments[i]],
                            [target |-> t, parent |-> parent, reply_count |-> 0])
    /\ Bump(t, "comment")
    /\ holder' = IF holder = p THEN "none" ELSE holder
    /\ Finish(p)
    /\ UNCHANGED <<clock, shown, marking, views, shares, progress, people, spent, mishaps>>

\* add_comment of a video holds its lock; that of a series reads it without one.
CommentVideo(p) ==
    \/ Starts(p, "comments", "comment", "video") /\ holder = "none" /\ holder' = p
    \/ InsertComment(p, "video")
CommentSeries(p) ==
    \/ Starts(p, "comments", "comment", "series") /\ UNCHANGED holder
    \/ InsertComment(p, "series")

\* track_view: one row for viewer and minute, then the counter.
InsertView(p, t) ==
    /\ In(p, "view", t, "row")
    /\ LET key == <<t, task[p].user, minute>>
       IN  /\ views' = views \cup {key}
           /\ IF key \in views THEN Finish(p) ELSE Advance(p, "count")
    /\ UNCHANGED <<clock, shown, counts, marking, comments, shares, progress, people, holder,
                   spent, mishaps>>

\* track_share of a video: a row for each share.
InsertShare(p) ==
    /\ In(p, "share", "video", "row")
    /\ shares' = [shares EXCEPT !["video"] = @ + 1]
    /\ Advance(p, "count")
    /\ UNCHANGED <<clock, shown, counts, marking, comments, views, progress, people, holder,
                   spent, mishaps>>

CountIt(p, op, t) ==
    /\ In(p, op, t, "count")
    /\ Unlocked(t)
    /\ Bump(t, op)
    /\ Finish(p)
    /\ UNCHANGED <<clock, shown, marking, talk, people, holder, spent, mishaps>>

ViewSteps(p, t) ==
    \/ Starts(p, "views", "view", t) /\ UNCHANGED holder
    \/ InsertView(p, t) \/ CountIt(p, "view", t)

ViewVideo(p) == ViewSteps(p, "video")
ViewSeries(p) == ViewSteps(p, "series")
ShareVideo(p) ==
    \/ Starts(p, "views", "share", "video") /\ UNCHANGED holder
    \/ InsertShare(p) \/ CountIt(p, "share", "video")

\* track_share of a series keeps no row.
ShareSeries(p) ==
    /\ Arrives(p, "views") /\ GetActiveSeries
    /\ shares' = [shares EXCEPT !["series"] = @ + 1]
    /\ Bump("series", "share")
    /\ UNCHANGED <<clock, shown, marking, comments, views, progress, people, holder, task, mishaps>>

\* upsert_progress: update_or_create, one row for user and series.
UpsertProgress(p) ==
    /\ Arrives(p, "views")
    /\ GetActiveSeries
    /\ \E u \in Users, r \in DramaWatchProgress :
         progress' = [v \in DOMAIN progress \cup {u} |-> IF v = u THEN r ELSE progress[v]]
    /\ UNCHANGED <<clock, shown, counts, marking, comments, views, shares, people, holder, task, mishaps>>

-----------------------------------------------------------------------------
(* The owner *)

\* _owned_video: whatever its state.
OwnedVideo == [counts |-> counts["video"], active |-> active["video"], visibility |-> visibility]

\* create_video, by a creator.
CreateVideo(p) ==
    /\ Arrives(p, "owner")
    /\ visibility = "none" /\ visibility' \in {"public", "private"}
    /\ UNCHANGED <<clock, active, counts, marking, talk, people, holder, task, mishaps>>

\* Defect: update_my_video reads without the lock.
ReadUnlocked(p) ==
    /\ Arrives(p, "owner")
    /\ visibility # "none"
    /\ Take(p, "update", "video", "owner", OwnedVideo)
    /\ UNCHANGED <<clock, shown, counts, marking, talk, people, holder, mishaps>>

\* update_my_video locks and reads the video, deleted or not, ...
ReadOwned(p) ==
    /\ Arrives(p, "owner")
    /\ visibility # "none"
    /\ holder = "none" /\ holder' = p
    /\ Take(p, "update", "video", "owner", OwnedVideo)
    /\ UNCHANGED <<clock, shown, counts, marking, talk, people, mishaps>>

\* ... and saves the whole row it read, counters included.
SaveVideo(p) ==
    /\ task[p].op = "update"
    /\ counts' = [counts EXCEPT !["video"] = task[p].saw.counts]
    /\ active' = [active EXCEPT !["video"] = task[p].saw.active]
    /\ visibility' \in {task[p].saw.visibility, "public", "private"}
    /\ holder' = IF holder = p THEN "none" ELSE holder
    /\ Finish(p)
    /\ UNCHANGED <<clock, marking, talk, people, spent, mishaps>>

UpdateVideo(p) == ReadOwned(p) \/ SaveVideo(p)

\* delete_my_video: one transaction, under the lock.
DeleteVideo(p) ==
    /\ Arrives(p, "owner")
    /\ visibility # "none"
    /\ holder = "none" /\ active["video"]
    /\ active' = [active EXCEPT !["video"] = FALSE]
    /\ UNCHANGED <<clock, visibility, counts, marking, talk, people, holder, task, mishaps>>

-----------------------------------------------------------------------------
(* Follows *)

Counters(u, v) == [target |-> followers[v], follower |-> following[u]]
Other(q, u, v) == /\ task[q].op \in {"follow", "unfollow"}
                  /\ {u, v} \cap {task[q].user, task[q].target} # {}

\* Both users are read, or the follow, before the transaction.
AskFollow(p, op) ==
    /\ Arrives(p, "follow")
    /\ \E u, v \in Users :
         /\ u # v
         /\ op = "unfollow" => <<u, v>> \in follows
         /\ Take(p, op, v, u, Counters(u, v))
         /\ mishaps' = mishaps \cup
              (IF \E q \in Handlers : Other(q, u, v) THEN {"stale"} ELSE {})
    /\ UNCHANGED <<clock, shown, counts, marking, talk, people, holder>>

\* The counters become what was read and one more: not F(), as elsewhere.
InsertFollow(p) ==
    /\ task[p].op = "follow"
    /\ LET u == task[p].user  v == task[p].target
       IN  IF <<u, v>> \in follows THEN UNCHANGED people
           ELSE /\ follows' = follows \cup {<<u, v>>}
                /\ followers' = [followers EXCEPT ![v] = task[p].saw.target + 1]
                /\ following' = [following EXCEPT ![u] = task[p].saw.follower + 1]
    /\ Finish(p)
    /\ UNCHANGED <<clock, shown, counts, marking, talk, holder, spent, mishaps>>

\* The follower is read again in the transaction, the target is not; follower_count is a
\* PositiveIntegerField, and the database refuses to take it below 0: all is rolled back.
DeleteFollow(p) ==
    /\ task[p].op = "unfollow"
    /\ LET u == task[p].user  v == task[p].target  saw == task[p].saw.target
       IN  IF followers[v] > 0 /\ saw = 0 THEN UNCHANGED people
           ELSE /\ follows' = follows \ {<<u, v>>}
                /\ followers' = [followers EXCEPT ![v] = IF @ > 0 THEN saw - 1 ELSE @]
                /\ following' = [following EXCEPT ![u] = IF @ > 0 THEN @ - 1 ELSE @]
    /\ Finish(p)
    /\ UNCHANGED <<clock, shown, counts, marking, talk, holder, spent, mishaps>>

FollowUser(p) == AskFollow(p, "follow") \/ InsertFollow(p)
UnfollowUser(p) == AskFollow(p, "unfollow") \/ DeleteFollow(p)

-----------------------------------------------------------------------------
(* What is read *)

\* _continue_cards, get_progress.
ContinueCard(u) == IF u \in DOMAIN progress THEN {progress[u].episode} ELSE {}

\* serialize_video, serialize_series: what a card tells user u.
VideoCard(u) == [counts |-> counts["video"], is_marked |-> u \in marks["video"]]
SeriesCard(u) == [counts |-> counts["series"], is_marked |-> u \in marks["series"],
                  continue |-> ContinueCard(u)]

\* get_video, get_interactions, videos_queryset; get_series, series_queryset.
VideoShown(u) == IF GetActiveVideo THEN {VideoCard(u)} ELSE {}
SeriesShown(u) == IF GetActiveSeries THEN {SeriesCard(u)} ELSE {}

\* What user u may see; the owner sees the counters of the video in any state.
Shown(t, u) == IF t = "video" THEN VideoShown(u) ELSE SeriesShown(u)
CountsShown(t) == {card.counts : card \in UNION {Shown(t, u) : u \in Users}}
                    \cup (IF t = "video" THEN {OwnedVideo.counts} ELSE {})

FollowerCount(u) == followers[u]
FollowingIds(u) == {v \in Users : <<u, v>> \in follows}

-----------------------------------------------------------------------------
(* Outside *)

\* The process dies, or the client goes: an open transaction is rolled back.
Die(p) ==
    /\ task[p].op # "none"
    /\ Finish(p)
    /\ holder' = IF holder = p THEN "none" ELSE holder
    /\ mishaps' = mishaps \cup (IF task[p].at \in {"count", "tell"} THEN {"died"} ELSE {})
    /\ UNCHANGED <<clock, shown, counts, marking, talk, people, spent>>

Minute ==
    /\ "views" \in topic /\ minute < MaxMinutes /\ minute' = minute + 1
    /\ UNCHANGED <<topic, shown, counts, marking, talk, people, holder, task, spent, mishaps>>

\* The series is taken off by someone with access to the database.
WithdrawSeries ==
    /\ "comments" \in topic /\ active["series"]
    /\ active' = [active EXCEPT !["series"] = FALSE]
    /\ UNCHANGED <<clock, visibility, counts, marking, talk, people, holder, task, spent, mishaps>>

Step(p) ==
    \/ LikeVideo(p) \/ UnlikeVideo(p) \/ AddFavorite(p) \/ RemoveFavorite(p)
    \/ CommentVideo(p) \/ CommentSeries(p)
    \/ ViewVideo(p) \/ ViewSeries(p) \/ ShareVideo(p) \/ ShareSeries(p) \/ UpsertProgress(p)
    \/ CreateVideo(p) \/ UpdateVideo(p) \/ DeleteVideo(p)
    \/ FollowUser(p) \/ UnfollowUser(p) \/ Die(p)

GNext == (\E p \in Handlers : Step(p)) \/ Minute \/ WithdrawSeries
GSpec == GInit /\ [][GNext]_gvars

-----------------------------------------------------------------------------
(* Properties *)

InHand(m) == \E p \in Handlers : Mark(p) = m /\ task[p].op \in {"mark", "unmark"}

\* Each counter that the card of a target shows is the number of its rows - the
\* comments all those that can be listed - but for the requests on their way or dead
\* between the two: also while the owner saves the whole row, and although likes and
\* unlikes of several users overlap; a like and an unlike of the same user that cross
\* can leave it one too high, because the counter is held at zero.
CountersExplained ==
    /\ "died" \notin mishaps =>
         \A t \in Targets : \A c \in CountsShown(t) :
           /\ "crossed" \notin mishaps =>
                c.like + Cardinality(Counting(t, "mark"))
                  = Cardinality(marks[t]) + Cardinality(Counting(t, "unmark"))
           /\ c.view + Cardinality(Counting(t, "view")) = Cardinality({k \in views : k[1] = t})
           /\ c.share + Cardinality(Counting(t, "share")) = shares[t]
    /\ \A t \in Targets : \A c \in CountsShown(t) :
         c.comment = Cardinality(Comments(t) \cup UNION {Replies(i) : i \in On(t)})
    /\ \A i \in DOMAIN comments : comments[i].reply_count = Cardinality(Replies(i))
    /\ "stale" \notin mishaps =>
         \A u \in Users : /\ FollowerCount(u) = Cardinality({v \in Users : u \in FollowingIds(v)})
                          /\ following[u] = Cardinality(FollowingIds(u))

\* Who only hears the events knows who likes a video or has a series among the
\* favourites, once the requests are done, for the first like and its unlike: the key of
\* a like is the same every time (TellMark), so a second like is never told.
EventsTellMarks ==
    mishaps = {} =>
      \A t \in Targets, u \in Users :
        ~InHand(<<t, u>>) =>
          IF times[<<t, u>>] <= 1
            THEN \A card \in Shown(t, u) : card.is_marked <=> told[<<t, u>>] = "mark"
            ELSE told[<<t, u>>] = "unmark"

EngagementSound == GTypeOK /\ CountersExplained /\ EventsTellMarks

\* A video that its owner has deleted stays so, whatever update is under way, and
\* takes no comment (update_my_video, add_comment against delete_my_video).
DeletedStaysDeleted ==
    [][ ~active["video"] => /\ ~active'["video"]
                            /\ On("video")' = On("video") ]_gvars

-----------------------------------------------------------------------------
(* The inductive invariant *)

Task ==
    [op : {"none", "mark", "unmark", "comment", "view", "share", "update", "follow", "unfollow"},
     target : Targets \cup Users, user : Users \cup {"owner", "nobody"},
     at : {"idle", "row", "count", "tell"},
     saw : {Empty} \cup [counts : Video, active : BOOLEAN, visibility : {"public", "private"}]
             \cup [target : Nat, follower : Nat]]

TaskTyped(p) ==
    /\ task[p].op \in {"mark", "unmark", "comment", "view", "share"} =>
         task[p].target \in Targets /\ task[p].user \in Users
    /\ task[p].op \in {"follow", "unfollow"} =>
         /\ task[p].target \in Users /\ task[p].user \in Users /\ task[p].target # task[p].user
         /\ task[p].saw \in [target : Nat, follower : Nat]

TasksTyped ==
    /\ task \in [Handlers -> Task] /\ \A p \in Handlers : TaskTyped(p)
    /\ minute \in 0..MaxMinutes /\ IsFiniteSet(views)
    /\ told \in [Targets \X Users -> {"nothing", "mark", "unmark"}] /\ keys \subseteq Targets \X Users
    /\ times \in [Targets \X Users -> Nat]

\* Who works under the video's lock has it, and what it read is still so.
LockKnows(p) ==
    /\ task[p].op = "update" => holder = p /\ task[p].saw = OwnedVideo /\ visibility # "none"
    /\ task[p].op = "comment" /\ task[p].target = "video" => holder = p /\ active["video"]

\* Who still has to count a mark has its row, one request for each row: what a request
\* takes back has been counted, unless it crossed with that of the same user.
LikesKnow(t) ==
    mishaps \cap {"died", "crossed"} = {} =>
      /\ counts[t].like + Cardinality(Counting(t, "mark"))
           = Cardinality(marks[t]) + Cardinality(Counting(t, "unmark"))
      /\ \A p \in Counting(t, "mark") : task[p].user \in marks[t]
      /\ \A p, q \in Counting(t, "mark") : task[p].user = task[q].user => p = q

ViewsKnow(t) ==
    "died" \notin mishaps =>
      /\ counts[t].view + Cardinality(Counting(t, "view")) = Cardinality({k \in views : k[1] = t})
      /\ counts[t].share + Cardinality(Counting(t, "share")) = shares[t]

\* A reply answers a comment on the same target.
CommentsKnow ==
    /\ \A j \in DOMAIN comments : comments[j].parent \in {0} \cup On(comments[j].target)
    /\ \A t \in Targets : counts[t].comment = Cardinality(On(t))
    /\ \A i \in DOMAIN comments : comments[i].reply_count = Cardinality(Replies(i))

\* Unless two of them met, what a request has read of its two users is still so.
FollowersOf(u) == {v \in Users : <<v, u>> \in follows}
FollowKnows(p) ==
    LET u == task[p].user  v == task[p].target
    IN  task[p].op \in {"follow", "unfollow"} =>
          /\ task[p].saw = Counters(u, v)
          /\ task[p].op = "unfollow" => <<u, v>> \in follows
          /\ \A q \in Handlers \ {p} : ~Other(q, u, v)
FollowsKnow ==
    "stale" \notin mishaps =>
      /\ \A p \in Handlers : FollowKnows(p)
      /\ \A u \in Users : /\ followers[u] = Cardinality(FollowersOf(u))
                          /\ following[u] = Cardinality(FollowingIds(u))

\* A mark that no request has in its hands after the row: the events tell the first like
\* and its unlike; and one that one request has there: what it is about to tell is true.
Working(m) == {p \in Handlers : /\ Mark(p) = m /\ task[p].op \in {"mark", "unmark"}
                             /\ task[p].at \in {"count", "tell"}}
Told(m) ==
    /\ m \in keys <=> times[m] > 0
    /\ m[2] \in marks[m[1]] => times[m] > 0
    /\ times[m] = 1 => told[m] = IF m[2] \in marks[m[1]] THEN "mark" ELSE "unmark"
    /\ times[m] = 0 => told[m] # "mark"
    /\ times[m] > 1 => told[m] = "unmark"
Telling(p) ==
    LET m == Mark(p)
    IN  /\ times[m] > 0 /\ (m \in keys <=> task[p].op = "unmark" \/ times[m] > 1)
        /\ m[2] \in marks[m[1]] <=> task[p].op = "mark"
        /\ task[p].op = "mark" /\ times[m] > 1 => told[m] = "unmark"
EventsKnow ==
    mishaps = {} =>
      \A m \in Targets \X Users :
        /\ Working(m) = {} => Told(m)
        /\ \A p \in Handlers : Working(m) = {p} => Telling(p)

EngagementInv ==
    /\ GTypeOK /\ TasksTyped /\ CommentsKnow /\ FollowsKnow /\ EventsKnow
    /\ \A p \in Handlers : LockKnows(p)
    /\ \A t \in Targets : LikesKnow(t) /\ ViewsKnow(t)
=============================================================================
