----------------------------- MODULE MCGraderHub -----------------------------
(***************************************************************************)
(* Small instances of GraderHub for TLC.                                   *)
(***************************************************************************)
EXTENDS GraderHub, TLC

\* Every grader satisfies every request.
NoTags == [g \in Graders |-> {}]
NoRequestTags == [s \in Submissions |-> {}]

\* Grader 2 has a tag that exactly one submission asks for.
OneTagged == [g \in Graders |-> IF g = 2 THEN {"gpu"} ELSE {}]
Asking == CHOOSE s \in Submissions : TRUE
OneAsks == [s \in Submissions |-> IF s = Asking THEN {"gpu"} ELSE {}]

OneEach == [g \in Graders |-> 1]

\* Only for runs without a temporal property.
Symmetry == Permutations(Submissions) \cup Permutations(Callers)
SymmetryOfOthers == Permutations(Submissions \ {Asking})
=============================================================================
