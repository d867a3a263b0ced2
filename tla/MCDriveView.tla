----------------------------- MODULE MCDriveView -----------------------------
(* Instances of DriveView for TLC. *)
EXTENDS DriveView, TLC

CONSTANTS b1, b2

Batches == Permutations({b1, b2})

Plain == [desc |-> FALSE, filter |-> FALSE]

Newest == [desc |-> TRUE, filter |-> TRUE]

Views == {Plain, Newest}

Opened == <<"big", "small">>
=============================================================================
