------------------------------ MODULE MCWebSync ------------------------------
(* Instances of WebSync for TLC. *)
EXTENDS WebSync, TLC

CONSTANTS home, work, one, two, x, y

Symmetry == Permutations({home, work}) \cup Permutations({one, two}) \cup Permutations({x, y})

\* "a", what the server calls a second "a", and a's conflict copy.
Names == {"a", "a (1)", "a (copy)"}

Dedups == [n \in Names |-> IF n = "a" THEN "a (1)" ELSE n]

Copies == [n \in {"a"} |-> "a (copy)"]
=============================================================================
