------------------------------ MODULE Courses ------------------------------
(***************************************************************************)
(* The calls of AutograderService about courses: creation, members, join   *)
(* codes and the course record.  A membership is written under the user    *)
(* and under the course, in two writes.  The course record is read,        *)
(* changed and written back without a lock.                                *)
(***************************************************************************)
EXTENDS UserRepository

notCourses == <<userVars, codeVars, courseVars, memberVars, adminTokens, updateMu, restarts>>

CourseIds == 1..Len(courses)

\* RequireLogin, GetCourseId, RequireInCourse, RequireCourseWrite
Writers(c) == {u \in 1..Len(users) : userCourses[u][c] = "Instructor"}

-----------------------------------------------------------------------------
(* Members *)

\* CreateCourse: the record, then the caller as a member of the course.
CreateCourse(p) ==
  /\ \E u \in adminTokens :
       Begin(p, "addUser", [NoOp EXCEPT !.kind = "create", !.user = u,
                                        !.course = Len(courses) + 1, !.value = "Instructor"])
  /\ courses' = Append(courses, [name |-> "first", allows |-> FALSE, joinCode |-> <<>>])
  /\ UNCHANGED <<userVars, codeVars, joinKey, boardVars, memberVars, adminTokens, updateMu, restarts>>

\* Mutant: a code that is not in the index leads nowhere.
CourseOfIndexed(j) == joinKey[j]

\* The course a join code leads to: by the index, or by the id it spells.
CourseOf(j) == IF joinKey[j] # 0 THEN joinKey[j] ELSE j[1]

JoinCourse(p) ==
  \E u \in 1..Len(users), j \in JoinCodes :
    LET c == CourseOf(j) IN
      /\ c \in CourseIds /\ courses[c].allows /\ courses[c].joinCode = j
      /\ userCourses[u][c] = "none"
      /\ Begin(p, "addCourse", [NoOp EXCEPT !.kind = "join", !.user = u, !.course = c,
                                            !.value = "Student"])
      /\ UNCHANGED notCourses

\* AddCourseMembers, for one of the members it is given: a user with that
\* address, or a new one if the name is free.
AddCourseMembers(p) ==
  \E c \in CourseIds, n \in Usernames, e \in Emails, r \in Roles :
    /\ Writers(c) # {}
    /\ emailKey[e] = 0 => nameKey[n] = 0
    /\ Begin(p, IF emailKey[e] = 0 THEN "addNew" ELSE "known",
             [NoOp EXCEPT !.kind = "add", !.user = emailKey[e], !.course = c, !.value = r,
                          !.name = IF emailKey[e] = 0 THEN n ELSE @,
                          !.email = IF emailKey[e] = 0 THEN e ELSE @])
    /\ UNCHANGED notCourses

AddNewUser(p) ==
  /\ At(p, "addNew")
  /\ CreateUser(op[p].name, op[p].email, "none")
  /\ Goto(p, "known", [op[p] EXCEPT !.user = nameKey'[op[p].name]])
  /\ UNCHANGED <<githubKey, codeVars, courseVars, memberVars, adminTokens, updateMu, calls, restarts>>

\* A member is not added again.
AddKnown(p) ==
  /\ At(p, "known")
  /\ IF userCourses[op[p].user][op[p].course] = "none" THEN Goto(p, "addCourse", op[p]) ELSE End(p)
  /\ UNCHANGED <<calls, notCourses>>

\* UpdateCourseMember
UpdateCourseMember(p) ==
  \E c \in CourseIds, u \in 1..Len(users), r \in Roles :
    /\ Writers(c) # {}
    /\ userCourses[u][c] # "none"
    /\ Begin(p, "addCourse", [NoOp EXCEPT !.kind = "member", !.user = u, !.course = c, !.value = r])
    /\ UNCHANGED notCourses

\* userRepo.AddCourse; CreateCourse does this half last.
AddCourse(p) ==
  /\ At(p, "addCourse")
  /\ userCourses' = [userCourses EXCEPT ![op[p].user][op[p].course] = op[p].value]
  /\ IF op[p].kind = "create" THEN End(p) ELSE Goto(p, "addUser", op[p])
  /\ UNCHANGED <<userVars, codeVars, courseVars, courseUsers, adminTokens, updateMu, calls, restarts>>

\* courseRepo.AddUser
AddUser(p) ==
  /\ At(p, "addUser")
  /\ courseUsers' = [courseUsers EXCEPT ![op[p].user][op[p].course] = op[p].value]
  /\ IF op[p].kind = "create" THEN Goto(p, "addCourse", op[p]) ELSE End(p)
  /\ UNCHANGED <<userVars, codeVars, courseVars, userCourses, adminTokens, updateMu, calls, restarts>>

\* RemoveCourseMembers, for one member: not oneself.
RemoveCourseMembers(p) ==
  \E c \in CourseIds, u \in 1..Len(users) :
    /\ Writers(c) \ {u} # {}
    /\ Begin(p, "removeCourse", [NoOp EXCEPT !.kind = "remove", !.user = u, !.course = c])
    /\ UNCHANGED notCourses

\* Mutant: the entry under the course is forgotten.
RemoveCourseMemberOnly(p) ==
  /\ At(p, "removeCourse")
  /\ userCourses' = [userCourses EXCEPT ![op[p].user][op[p].course] = "none"]
  /\ End(p)
  /\ UNCHANGED <<userVars, codeVars, courseVars, courseUsers, adminTokens, updateMu, calls, restarts>>

RemoveCourseMember(p) ==
  /\ At(p, "removeCourse")
  /\ userCourses' = [userCourses EXCEPT ![op[p].user][op[p].course] = "none"]
  /\ Goto(p, "removeUser", op[p])
  /\ UNCHANGED <<userVars, codeVars, courseVars, courseUsers, adminTokens, updateMu, calls, restarts>>

RemoveUser(p) ==
  /\ At(p, "removeUser")
  /\ courseUsers' = [courseUsers EXCEPT ![op[p].user][op[p].course] = "none"]
  /\ End(p)
  /\ UNCHANGED <<userVars, codeVars, courseVars, userCourses, adminTokens, updateMu, calls, restarts>>

-----------------------------------------------------------------------------
(* The course record *)

\* UpdateCourse, ChangeAllowsJoinCourse and GenerateJoinCode read the record.
\* GenerateJoinCode goes on with a new code for the course.
CourseBegin(p) ==
  \E c \in CourseIds, k \in {"rename", "allow", "forbid", "generate"},
     x \in {"x", "y"} :
    /\ Writers(c) # {}
    /\ k # "generate" => x = "x"
    /\ LET old == courses[c].joinCode
           o == [NoOp EXCEPT !.kind = k, !.course = c, !.read = courses[c],
                             !.value = x] IN
         Begin(p, IF k = "generate" /\ old # <<>> /\ old # <<c, x>> THEN "unbindCode" ELSE "update", o)
    /\ UNCHANGED notCourses

UnbindJoinCode(p) ==
  /\ At(p, "unbindCode")
  /\ joinKey' = [joinKey EXCEPT ![op[p].read.joinCode] = 0]
  /\ Goto(p, "update", op[p])
  /\ UNCHANGED <<userVars, codeVars, courses, boardVars, memberVars, adminTokens, updateMu, calls, restarts>>

\* What a call makes of the record it has read.
Changed(o) ==
  CASE o.kind = "rename"   -> [o.read EXCEPT !.name = "second"]
    [] o.kind = "allow"    -> [o.read EXCEPT !.allows = TRUE]
    [] o.kind = "forbid"   -> [o.read EXCEPT !.allows = FALSE]
    [] o.kind = "generate" -> [o.read EXCEPT !.joinCode = <<o.course, o.value>>]

\* The record is written back with the change.
UpdateCourse(p) ==
  /\ At(p, "update")
  /\ LET o == op[p] IN
       /\ courses' = [courses EXCEPT ![o.course] = Changed(o)]
       /\ IF o.kind = "generate" THEN Goto(p, "bindCode", o) ELSE End(p)
  /\ UNCHANGED <<userVars, codeVars, joinKey, boardVars, memberVars, adminTokens, updateMu, calls, restarts>>

BindJoinCode(p) ==
  /\ At(p, "bindCode")
  /\ joinKey' = [joinKey EXCEPT ![<<op[p].course, op[p].value>>] = op[p].course]
  /\ End(p)
  /\ UNCHANGED <<userVars, codeVars, courses, boardVars, memberVars, adminTokens, updateMu, calls, restarts>>

CourseNext ==
  \/ \E p \in Ready :
       \/ CreateCourse(p) \/ JoinCourse(p) \/ AddCourseMembers(p) \/ UpdateCourseMember(p)
       \/ RemoveCourseMembers(p) \/ CourseBegin(p)
  \/ \E p \in Calls :
       \/ AddNewUser(p) \/ AddKnown(p) \/ AddCourse(p) \/ AddUser(p)
       \/ RemoveCourseMember(p) \/ RemoveUser(p)
       \/ UnbindJoinCode(p) \/ UpdateCourse(p) \/ BindJoinCode(p)
=============================================================================
