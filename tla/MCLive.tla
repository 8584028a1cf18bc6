------------------------------- MODULE MCLive -------------------------------
(* One stream: its life with and without the runtime, its viewers, its chat,  *)
(* and what is sold on it.                                                    *)
EXTENDS Live

Episodes == {{"lifecycle", "watch"}, {"lifecycle", "chat"}, {"promotion"}}
Requests == [s \in Episodes |-> CASE "watch" \in s -> 4 [] "chat" \in s -> 4 [] OTHER -> 4]
=============================================================================
