---------------------------- MODULE MCFileStore ----------------------------
(* Instances of FileStore for TLC: a clock that may be set back. *)
EXTENDS FileStore

MCTimes == {1, 2}

KeySymmetry == Permutations(Keys)
=============================================================================
