----------------------------- MODULE MCFileWAL -----------------------------
(* FileWAL on a handful of events, which are interchangeable.              *)
EXTENDS FileWAL, TLC

EventSymmetry == Permutations(Events)
=============================================================================
