------------------------- MODULE MCScheduleRegistry -------------------------
(* The threads of a shell are interchangeable, and so are task names.      *)
EXTENDS ScheduleRegistry, TLC

NameSymmetry == Permutations(Callers) \cup Permutations(Tasks)
=============================================================================
