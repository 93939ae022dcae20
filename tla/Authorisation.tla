--------------------------- MODULE Authorisation ---------------------------
(***************************************************************************)
(* The authorisation of a call: AuthFunc runs the chain of checks that     *)
(* initAuthFuncs registers for the method, each check reads what earlier   *)
(* ones put into the context, and the handler runs after the last.  Other  *)
(* calls change roles, assignments and submissions between any two checks. *)
(* UnaryAuth calls AuthFunc before the handler; the handlers of the two    *)
(* streaming methods (SubscribeSubmission, StreamLog) call it themselves.  *)
(***************************************************************************)
EXTENDS Integers, FiniteSets, AuthTable

CONSTANTS
  Calls,           \* calls the server can have in progress
  MethodsOf,       \* the methods each of them may be a call of
  Users, Root,     \* user ids; the one dbInit creates
  Instructor, Student,  \* the first members of the first course
  Windows,         \* <<release, due>> pairs an assignment may have
  MaxTime, MaxCourses, MaxAssignments, MaxSubmissions, MaxManifests,
  MaxCalls         \* bound on calls begun

\* Ids begin with 1; 0 stands for no user, course, assignment or submission.
ASSUME AuthorisationAssumption ==
  /\ Users \subseteq Nat \ {0} /\ {Root, Instructor, Student} \subseteq Users
  /\ MethodsOf \in [Calls -> SUBSET Methods]
  /\ Windows \subseteq Int \X Int
  /\ MaxCourses \in Nat \ {0} /\ MaxAssignments \in Nat /\ MaxSubmissions \in Nat
  /\ MaxManifests \in Nat /\ MaxTime \in Nat /\ MaxCalls \in Nat

Roles == {"Reader", "Student", "TA", "Instructor"}
Staff == {"TA", "Instructor"}
Courses == 1..MaxCourses

VARIABLES
  admins,       \* users whose record says IsAdmin
  tokens,       \* tokens that were signed: [user, admin]
  role,         \* role[u][c], as userRepo.GetCourseMember finds it
  courses,      \* number of courses
  assignments,  \* assignments: [course, window]
  submissions,  \* submissions: [assignment, submitters]
  manifests,    \* owner of each manifest, or 0 once it is deleted
  now,
  call,         \* the call of each process, or NoCall
  calls,        \* calls begun
  everAdmin,    \* history: users who have been administrators
  seen          \* history: what held at some time during the call

world == <<admins, tokens, role, courses, assignments, submissions, manifests>>
vars == <<world, now, call, calls, everAdmin, seen>>

-----------------------------------------------------------------------------
(* A call, and what may have been true while it runs *)

NoCall == [method |-> "none"]
NoToken == [user |-> 0, admin |-> FALSE]
\* An absent key has the value 0, <<>> or "none"; the assignment is kept as its
\* dates, which is what the checks read of it.
NoCtx == [user |-> 0, course |-> 0, assignment |-> <<>>, submission |-> 0, member |-> "none"]

IdsOf(kind) ==
  CASE kind = "assignment" -> 1..MaxAssignments
    [] kind = "submission" -> 1..MaxSubmissions
    [] kind = "course"     -> Courses
    [] kind = "manifest"   -> 1..MaxManifests
    [] OTHER               -> {0}

AssignmentOf(c) ==
  IF Names(c.method) = "submission"
    THEN IF c.id \in 1..Len(submissions) THEN submissions[c.id].assignment ELSE 0
    ELSE IF Names(c.method) = "assignment" /\ c.id \in 1..Len(assignments) THEN c.id ELSE 0

\* The course the object of the call is in, 0 if it has none.
CourseNow(c) ==
  IF Names(c.method) = "course" THEN c.id
  ELSE IF AssignmentOf(c) = 0 THEN 0 ELSE assignments[AssignmentOf(c)].course

\* The dates of its assignment.
DatesNow(c) == IF AssignmentOf(c) = 0 THEN {} ELSE {assignments[AssignmentOf(c)].window}

RolesNow(u) == IF u = 0 THEN {} ELSE {<<k, role[u][k]>> : k \in Courses}

NoSeen == [roles |-> {}, sites |-> {}, dates |-> {}, times |-> {}]

\* Every step adds the state it starts from to what the calls have seen.
Watch ==
  /\ seen' = [p \in Calls |-> IF call[p] = NoCall \/ call'[p] = NoCall THEN NoSeen ELSE
       [roles |-> seen[p].roles \cup RolesNow(call[p].token.user),
        sites |-> seen[p].sites \cup {CourseNow(call[p])},
        dates |-> seen[p].dates \cup DatesNow(call[p]),
        times |-> seen[p].times \cup {now}]]
  /\ everAdmin' = everAdmin \cup admins

-----------------------------------------------------------------------------
(* AuthFunc *)

\* A call arrives, with a token its client holds or with none.
Begin(p) ==
  /\ call[p] = NoCall /\ calls < MaxCalls
  /\ \E m \in MethodsOf[p], t \in tokens \cup {NoToken} :
       \E i \in IdsOf(Names(m)) :
         /\ t # NoToken => Head(AuthFuncs(m)) = "RequireLogin"
         /\ call' = [call EXCEPT ![p] =
              [method |-> m, id |-> i, token |-> t, left |-> AuthFuncs(m), ctx |-> NoCtx]]
  /\ calls' = calls + 1
  /\ UNCHANGED <<world, now>> /\ Watch

Checks(p, f) == call[p] # NoCall /\ call[p].left # <<>> /\ Head(call[p].left) = f
Ctx(p) == call[p].ctx
Has(ctx, keys) == \A k \in keys : ctx[k] # NoCtx[k]

\* How a check ends: the call goes on with this context, fails with an error,
\* or takes a key that is not in the context.
Pass(p, ctx) == call' = [call EXCEPT ![p].left = Tail(@), ![p].ctx = ctx]
Refuse(p) == call' = [call EXCEPT ![p] = NoCall]
Panic(p) == call' = [call EXCEPT ![p].left = <<"panic">>]

Check(p, f, keys, ok, ctx) ==
  /\ Checks(p, f)
  /\ IF ~Has(Ctx(p), keys) THEN Panic(p) ELSE IF ok THEN Pass(p, ctx) ELSE Refuse(p)
  /\ UNCHANGED <<world, now, calls>> /\ Watch

NoopAuth(p) == Check(p, "NoopAuth", {}, TRUE, Ctx(p))

\* The captcha service accepts an answer or does not.
RequireCaptcha(p) == \E ok \in BOOLEAN : Check(p, "RequireCaptcha", {}, ok, Ctx(p))

\* The token may have run out.  If not, it is signed again, with what it says,
\* for another while: a token in use stays valid.
RequireLogin(p) ==
  \E expired \in BOOLEAN :
    Check(p, "RequireLogin", {}, call[p].token \in tokens /\ ~expired,
          [Ctx(p) EXCEPT !.user = call[p].token.user])

GetCourseId(p) ==
  LET a == AssignmentOf(call[p]) IN
    Check(p, "GetCourseId", {}, CourseNow(call[p]) # 0,
          [Ctx(p) EXCEPT !.course = CourseNow(call[p]),
                         !.assignment = IF a = 0 THEN <<>> ELSE assignments[a].window,
                         !.submission = IF Names(call[p].method) = "submission" THEN call[p].id ELSE 0])

\* Mutant: a membership in some course is enough.
RequireInCourseAny(p) ==
  LET u == Ctx(p).user
      k == CHOOSE c \in Courses : role[u][c] # "none" \/ \A d \in Courses : role[u][d] = "none" IN
    Check(p, "RequireInCourse", {"user", "course"}, role[u][k] # "none", [Ctx(p) EXCEPT !.member = role[u][k]])

RequireInCourse(p) ==
  LET u == Ctx(p).user
      r == IF u = 0 \/ Ctx(p).course = 0 THEN "none" ELSE role[u][Ctx(p).course] IN
    Check(p, "RequireInCourse", {"user", "course"}, r # "none", [Ctx(p) EXCEPT !.member = r])

\* Mutant: every user who is logged in passes.
RequireAdminNoop(p) == Check(p, "RequireAdmin", {"user"}, TRUE, Ctx(p))

\* By what the token says, not by the user's record.
RequireAdmin(p) == Check(p, "RequireAdmin", {"user"}, call[p].token.admin, Ctx(p))

CheckManifest(p) ==
  Check(p, "CheckManifest", {"user"},
        call[p].id \in 1..Len(manifests) /\ manifests[call[p].id] = Ctx(p).user, Ctx(p))

RequireCourseWrite(p) == Check(p, "RequireCourseWrite", {"member"}, Ctx(p).member \in Staff, Ctx(p))

IsSubmitter(p) == Ctx(p).submission # 0 /\ Ctx(p).user \in submissions[Ctx(p).submission].submitters

\* Mutant: members of the course read every submission in it.
RequireSubmissionReadAll(p) ==
  Check(p, "RequireSubmissionRead", {"user", "member"}, TRUE, Ctx(p))

\* A missing submission refuses the call; the member is only needed for others.
RequireSubmissionRead(p) ==
  LET s == Ctx(p).submission IN
    Check(p, "RequireSubmissionRead",
          IF s = 0 THEN {} ELSE IF IsSubmitter(p) THEN {"user"} ELSE {"user", "member"},
          s # 0 /\ (IsSubmitter(p) \/ Ctx(p).member \in Staff), Ctx(p))

\* Mutant: only the due date is checked.
NotAfterDueDateOnly(p) ==
  Check(p, "NotAfterDueDate", {"member"} \cup IF Ctx(p).member \in Staff THEN {} ELSE {"assignment"},
        Ctx(p).member \in Staff \/ now <= Ctx(p).assignment[2], Ctx(p))

\* By the dates read with the assignment earlier in the chain.
NotAfterDueDate(p) ==
  LET w == Ctx(p).assignment IN
    Check(p, "NotAfterDueDate", {"member"} \cup IF Ctx(p).member \in Staff THEN {} ELSE {"assignment"},
          Ctx(p).member \in Staff \/ (w[1] <= now /\ now <= w[2]), Ctx(p))

AuthFunc(p) ==
  \/ NoopAuth(p) \/ RequireCaptcha(p) \/ RequireLogin(p) \/ GetCourseId(p) \/ RequireInCourse(p)
  \/ RequireAdmin(p) \/ CheckManifest(p) \/ RequireCourseWrite(p) \/ RequireSubmissionRead(p)
  \/ NotAfterDueDate(p)

-----------------------------------------------------------------------------
(* The handlers that change what the checks read *)

Authorised(p) == call[p] # NoCall /\ call[p].left = <<>>

\* The handler of one of these methods runs and the call ends.
Handle(p, methods) ==
  /\ Authorised(p) /\ call[p].method \in methods /\ Has(Ctx(p), HandlerKeys(call[p].method))
  /\ Refuse(p)
  /\ UNCHANGED <<now, calls>>
  /\ Watch

Login(p) ==
  /\ Handle(p, {"Login", "GithubLogin"})
  /\ \E u \in Users : tokens' = tokens \cup {[user |-> u, admin |-> u \in admins]}
  /\ UNCHANGED <<admins, role, courses, assignments, submissions, manifests>>

\* Mutant: the root user can be demoted.
SetAdminUnguarded(p) ==
  /\ Handle(p, {"SetAdmin"})
  /\ \E u \in Users \ {Ctx(p).user} : admins' = admins \cup {u} \/ admins' = admins \ {u}
  /\ UNCHANGED <<tokens, role, courses, assignments, submissions, manifests>>

SetAdmin(p) ==
  /\ Handle(p, {"SetAdmin"})
  /\ \E u \in Users \ {Root, Ctx(p).user} : admins' = admins \cup {u} \/ admins' = admins \ {u}
  /\ UNCHANGED <<tokens, role, courses, assignments, submissions, manifests>>

SetRole(u, c, r) ==
  /\ role' = [role EXCEPT ![u][c] = r]
  /\ UNCHANGED <<admins, tokens, assignments, submissions, manifests>>

CreateCourse(p) ==
  /\ Handle(p, {"CreateCourse"}) /\ courses < MaxCourses
  /\ courses' = courses + 1
  /\ SetRole(Ctx(p).user, courses', "Instructor")

\* With the join code of a course that allows it.
JoinCourse(p) ==
  /\ Handle(p, {"JoinCourse"})
  /\ \E c \in 1..courses : role[Ctx(p).user][c] = "none" /\ SetRole(Ctx(p).user, c, "Student")
  /\ UNCHANGED courses

AddCourseMembers(p) ==
  /\ Handle(p, {"AddCourseMembers"})
  /\ \E u \in Users, r \in Roles : role[u][call[p].id] = "none" /\ SetRole(u, call[p].id, r)
  /\ UNCHANGED courses

UpdateCourseMember(p) ==
  /\ Handle(p, {"UpdateCourseMember"})
  /\ \E u \in Users, r \in Roles : role[u][call[p].id] # "none" /\ SetRole(u, call[p].id, r)
  /\ UNCHANGED courses

RemoveCourseMembers(p) ==
  /\ Handle(p, {"RemoveCourseMembers"})
  /\ \E u \in Users \ {Ctx(p).user} : SetRole(u, call[p].id, "none")
  /\ UNCHANGED courses

CreateAssignment(p) ==
  /\ Handle(p, {"CreateAssignment"}) /\ Len(assignments) < MaxAssignments
  /\ \E w \in Windows : assignments' = Append(assignments, [course |-> call[p].id, window |-> w])
  /\ UNCHANGED <<admins, tokens, role, courses, submissions, manifests>>

\* The assignment of the request replaces the record, its course included, which
\* a client may leave out.
UpdateAssignment(p) ==
  /\ Handle(p, {"UpdateAssignment"})
  /\ \E w \in Windows, c \in 0..courses :
       assignments' = [assignments EXCEPT ![call[p].id] = [course |-> c, window |-> w]]
  /\ UNCHANGED <<admins, tokens, role, courses, submissions, manifests>>

\* validateSubmitters: members of the course as it was read, and the caller
\* among them unless they are staff.  The manifest, which has files, is deleted.
CreateSubmission(p) ==
  /\ Handle(p, {"CreateSubmission"}) /\ Len(submissions) < MaxSubmissions
  /\ \E us \in SUBSET Users \ {{}}, m \in 1..Len(manifests) :
       /\ \A u \in us : role[u][Ctx(p).course] # "none"
       /\ Ctx(p).user \in us \/ Ctx(p).member \in Staff
       /\ manifests[m] # 0
       /\ submissions' = Append(submissions, [assignment |-> call[p].id, submitters |-> us])
       /\ manifests' = [manifests EXCEPT ![m] = 0]
  /\ UNCHANGED <<admins, tokens, role, courses, assignments>>

CreateManifest(p) ==
  /\ Handle(p, {"CreateManifest"}) /\ Len(manifests) < MaxManifests
  /\ manifests' = Append(manifests, Ctx(p).user)
  /\ UNCHANGED <<admins, tokens, role, courses, assignments, submissions>>

\* Any other method, and a method above that fails: nothing the checks read
\* changes.
Answer(p) ==
  /\ Authorised(p)
  /\ IF Has(Ctx(p), HandlerKeys(call[p].method)) THEN Refuse(p) ELSE Panic(p)
  /\ UNCHANGED <<world, now, calls>> /\ Watch

Handler(p) ==
  \/ Login(p) \/ SetAdmin(p) \/ CreateCourse(p) \/ JoinCourse(p)
  \/ AddCourseMembers(p) \/ UpdateCourseMember(p) \/ RemoveCourseMembers(p) \/ CreateAssignment(p)
  \/ UpdateAssignment(p) \/ CreateSubmission(p) \/ CreateManifest(p) \/ Answer(p)

-----------------------------------------------------------------------------
Tick == now < MaxTime /\ now' = now + 1 /\ UNCHANGED <<world, call, calls>> /\ Watch

\* A course with an instructor, a student who has submitted and has a manifest,
\* and an assignment; the root user is an administrator, the instructor was one
\* when they logged in.
Init ==
  /\ admins = {Root} /\ everAdmin = {Root, Instructor}
  /\ tokens = {[user |-> u, admin |-> u \in everAdmin] : u \in {Root, Instructor, Student}}
  /\ role = [u \in Users |-> [c \in Courses |->
       IF c = 1 /\ u = Instructor THEN "Instructor" ELSE IF c = 1 /\ u = Student THEN "Student" ELSE "none"]]
  /\ courses = 1
  /\ \E w \in Windows : assignments = <<[course |-> 1, window |-> w]>>
  /\ submissions = <<[assignment |-> 1, submitters |-> {Student}]>>
  /\ manifests = <<Student>>
  /\ now = 0
  /\ call = [p \in Calls |-> NoCall]
  /\ calls = 0
  /\ seen = [p \in Calls |-> NoSeen]

Next == Tick \/ \E p \in Calls : Begin(p) \/ AuthFunc(p) \/ Handler(p)

Spec == Init /\ [][Next]_vars

-----------------------------------------------------------------------------
(* Properties *)

\* Every variable has its type; an assignment is in a course that exists, or
\* has lost it in an UpdateAssignment.
TypeOK ==
  /\ admins \subseteq Users /\ Root \in admins
  /\ tokens \subseteq [user : Users, admin : BOOLEAN]
  /\ role \in [Users -> [Courses -> Roles \cup {"none"}]]
  /\ courses \in Courses
  /\ \A a \in 1..Len(assignments) : assignments[a].course \in 0..courses
  /\ \A s \in 1..Len(submissions) : submissions[s].assignment \in 1..Len(assignments)
  /\ \A m \in 1..Len(manifests) : manifests[m] \in Users \cup {0}
  /\ now \in 0..MaxTime /\ calls \in 0..MaxCalls

\* No check and no handler takes a value from the context that no earlier check
\* of the method's chain has put there (the type assertions of interceptor.go
\* and of the handlers).
NoMissingKey == \A p \in Calls : ~Checks(p, "panic")

\* The caller held one of these roles during the call, in a course the object
\* of the call was in during the call.
Held(p, roles) == \E c \in seen[p].sites, r \in roles : <<c, r>> \in seen[p].roles

\* The handler of a method about a course runs only for a caller who was, while
\* the call was checked, a member of the course its object was in, and one of
\* its staff if the method changes the course (RequireInCourse,
\* RequireCourseWrite), whatever roles and assignments others change meanwhile.
CourseAccess ==
  \A p \in Calls : Authorised(p) =>
    /\ Names(call[p].method) \in {"course", "assignment", "submission"} => Held(p, Roles)
    /\ call[p].method \in CourseWrites => Held(p, Staff)

\* A submission is read, cancelled or activated by those who submitted it and
\* by staff of the course it was in during the call (RequireSubmissionRead).
SubmissionAccess ==
  \A p \in Calls : Authorised(p) /\ call[p].method \in SubmissionReads \cup Activation =>
    call[p].token.user \in submissions[call[p].id].submitters \/ Held(p, Staff)

\* The handler of a method about a course, an assignment or a submission runs
\* only for those entitled to that object during the call (AuthFunc).
ObjectAccess == CourseAccess /\ SubmissionAccess

\* A student starts a submission or chooses one to count only in a call during
\* which the time came to lie within dates that the assignment had during the
\* call (NotAfterDueDate).  The dates are read before the time, so the two need
\* not have met: an assignment that is put off meanwhile still lets the call in.
WithinDates ==
  \A p \in Calls : Authorised(p) /\ call[p].method \in Submitting \cup Activation =>
    \/ Held(p, Staff)
    \/ \E w \in seen[p].dates, t \in seen[p].times : w[1] <= t /\ t <= w[2]

\* Administration is for users who have been administrators: no sequence of
\* logins and SetAdmin calls leads a token to say IsAdmin of anyone else
\* (RequireAdmin, signLoginToken).
AdminCalls ==
  \A p \in Calls : Authorised(p) /\ call[p].method \in Administration => call[p].token.user \in everAdmin
=============================================================================
