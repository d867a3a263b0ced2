--------------------------- MODULE MCUploadSession ---------------------------
(* UploadSession on one or two sessions for TLC. *)
EXTENDS UploadSession, TLC

CONSTANTS s1, s2, c1, c2, c3

Sym == Permutations({c1, c2, c3} \cap Call) \cup Permutations({s1, s2} \cap Session)
=============================================================================
