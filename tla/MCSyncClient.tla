---------------------------- MODULE MCSyncClient ----------------------------
(* Instances of SyncClient for TLC. *)
EXTENDS SyncClient, TLC

CONSTANTS poll, watcher

Triggers == Permutations({poll, watcher})

\* "a", what the server calls a second "a", and a's conflict copy.
Names == {"a", "a (1)", "a (copy)"}

Dedups == [n \in Names |-> IF n = "a" THEN "a (1)" ELSE n]

Copies == [n \in {"a"} |-> "a (copy)"]
=============================================================================
