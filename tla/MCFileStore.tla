----------------------------- MODULE MCFileStore -----------------------------
(* FileStore on a few request slots for TLC. *)
EXTENDS FileStore, TLC

CONSTANTS r1, r2, r3

\* Slots are interchangeable; used by safety runs only.
Slots == Permutations({r1, r2, r3} \cap Req)
=============================================================================
