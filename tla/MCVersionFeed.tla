---------------------------- MODULE MCVersionFeed ----------------------------
(* VersionFeed on a few writers and devices for TLC. *)
EXTENDS VersionFeed

CONSTANTS w1, w2, d1, d2
=============================================================================
