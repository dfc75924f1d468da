----------------------------- MODULE MCChatApp -----------------------------
(* Small instances of ChatApp for TLC. *)
EXTENDS ChatApp, TLC

Symmetry == Permutations(Conv) \cup Permutations(Query)
============================================================================
