--------------------------- MODULE MCOwnerServices ---------------------------
(* Small instances of OwnerServices for TLC. *)
EXTENDS OwnerServices
=============================================================================
