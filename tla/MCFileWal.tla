----------------------------- MODULE MCFileWal -----------------------------
(* FileWal for TLC. *)
EXTENDS FileWal, TLC

Symmetry == Permutations(Ids)
=============================================================================
