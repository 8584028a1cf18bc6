---------------------------- MODULE MCEngagement ----------------------------
(* Three people and a video, a series, or each other; beside them the site's    *)
(* configuration and its notifications, each in behaviours of their own.      *)
EXTENDS Engagement, Platform, TLC

Groups == {{"marks", "owner"}, {"comments", "owner"}, {"views", "owner"}, {"follow"}, {}}
Requests == [g \in Groups |-> CASE "marks" \in g -> 4 [] "views" \in g -> 4 [] OTHER -> 5]

MCInit == GInit /\ PInit /\ (guarded => topic = {})
MCNext ==
    \/ topic # {} /\ GNext /\ UNCHANGED pvars
    \/ topic = {} /\ UNCHANGED gvars
         /\ \/ sends = 0 /\ ~guarded /\ ConfigNext
            \/ edits = 0 /\ NoticeNext
Alike == Permutations(Users)
MCSpec == MCInit /\ [][MCNext]_<<gvars, pvars>>
=============================================================================
