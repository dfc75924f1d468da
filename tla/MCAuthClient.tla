---------------------------- MODULE MCAuthClient ---------------------------
(* Small instances of AuthClient for TLC. *)
EXTENDS AuthClient
============================================================================
