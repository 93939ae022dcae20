-------------------------- MODULE MCAuthorisation --------------------------
(***************************************************************************)
(* A small instance of Authorisation for TLC: one call of any method, and  *)
(* another that changes what the first one's checks read.                  *)
(***************************************************************************)
EXTENDS Authorisation

CONSTANTS p1, p2

MCWindows == {<<0, 0>>, <<1, 1>>, <<2, 2>>}

MCMethodsOf ==
  [p \in Calls |-> IF p = p1 THEN Methods
                   ELSE {"SetAdmin", "UpdateCourseMember", "RemoveCourseMembers", "UpdateAssignment"}]
=============================================================================
