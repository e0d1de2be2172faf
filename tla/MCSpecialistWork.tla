-------------------------- MODULE MCSpecialistWork --------------------------
(* Two versions of one Skill, of which an employee has one at a time; a     *)
(* coder that starts with the second, a designer that starts with the first.*)
EXTENDS SpecialistWork, TLC

CONSTANTS coder, designer, v1, v2

Together == [r \in Refs |-> Refs]
Lists == {<<v1>>, <<v2>>}
Files == <<coder, designer>>

FirstRegistry == [e \in Employees |-> IF e = coder THEN <<v2>> ELSE <<v1>>]

Symmetry == Permutations(Tasks) \cup Permutations(Names) \cup Permutations(Contents)
=============================================================================
