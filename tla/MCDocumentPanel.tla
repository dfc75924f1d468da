-------------------------- MODULE MCDocumentPanel --------------------------
(* Small instances of DocumentPanel for TLC. *)
EXTENDS DocumentPanel, TLC
============================================================================
