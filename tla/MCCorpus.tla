------------------------------ MODULE MCCorpus ------------------------------
(* Small instances of Corpus for TLC. *)
EXTENDS Corpus, TLC

Symmetry == Permutations(User) \cup Permutations(Page)
============================================================================
