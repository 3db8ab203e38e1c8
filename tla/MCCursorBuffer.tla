---------------------------- MODULE MCCursorBuffer ----------------------------
(* The buffer with a few publishers and overlapping polls.                  *)
EXTENDS CursorBuffer, TLC

Symmetry == Permutations(Publishers) \cup Permutations(Polls)

=============================================================================
