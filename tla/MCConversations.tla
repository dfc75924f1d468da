-------------------------- MODULE MCConversations ---------------------------
(* Small instances of Conversations for TLC. *)
EXTENDS Conversations, TLC

Symmetry == Permutations(Tab) \cup Permutations(User) \cup Permutations(Conv)
=============================================================================
