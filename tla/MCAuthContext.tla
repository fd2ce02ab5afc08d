---------------------------- MODULE MCAuthContext ----------------------------
(* Small instances of AuthContext for TLC. *)
EXTENDS AuthContext
=============================================================================
