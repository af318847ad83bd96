-------------------------- MODULE MCInitialization --------------------------
(***************************************************************************)
(* Commands of different shapes: the second of a kind is the first which   *)
(* a removal of its left neighbour skips, the third the first which moves  *)
(* twice; the mixed one has flags and args which change one another.       *)
(***************************************************************************)
EXTENDS Initialization

Shape(f, a, c) == [flag |-> f, arg |-> a, command |-> c]
MCInitial ==
  {Shape(0, 0, 0), Shape(3, 0, 0), Shape(0, 2, 0), Shape(0, 0, 2), Shape(1, 1, 1)}

=============================================================================
