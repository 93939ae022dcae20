------------------------ MODULE Authorisation_proofs ------------------------
(***************************************************************************)
(* Theorems about Authorisation, for every number of calls, users,         *)
(* courses, assignments, submissions and moments.                          *)
(***************************************************************************)
EXTENDS Authorisation, SequenceTheorems, TLAPS

-----------------------------------------------------------------------------
(* The chains of the table *)

\* The methods about a course, and those of them with a fourth check.
CourseMethods == UNION {CourseReads, Submitting, CourseWrites, SubmissionReads, Activation}
Reading == SubmissionReads \cup Activation
Dated   == Submitting \cup Activation

\* What is left of the chain of a method in the course of a call.
LeftOK(m, l) ==
  /\ m \in Open            => l \in {<<"NoopAuth">>, <<>>}
  /\ m \in Captcha         => l \in {<<"RequireCaptcha">>, <<>>}
  /\ m \in Personal        => l \in {<<"RequireLogin">>, <<>>}
  /\ m \in Uploads         => l \in {<<"RequireLogin", "CheckManifest">>, <<"CheckManifest">>, <<>>}
  /\ m \in Administration  => l \in {<<"RequireLogin", "RequireAdmin">>, <<"RequireAdmin">>, <<>>}
  /\ m \in CourseReads     => l \in {<<"RequireLogin", "GetCourseId", "RequireInCourse">>,
                                     <<"GetCourseId", "RequireInCourse">>, <<"RequireInCourse">>, <<>>}
  /\ m \in Submitting      => l \in {<<"RequireLogin", "GetCourseId", "RequireInCourse", "NotAfterDueDate">>,
                                     <<"GetCourseId", "RequireInCourse", "NotAfterDueDate">>,
                                     <<"RequireInCourse", "NotAfterDueDate">>, <<"NotAfterDueDate">>, <<>>}
  /\ m \in CourseWrites    => l \in {<<"RequireLogin", "GetCourseId", "RequireInCourse", "RequireCourseWrite">>,
                                     <<"GetCourseId", "RequireInCourse", "RequireCourseWrite">>,
                                     <<"RequireInCourse", "RequireCourseWrite">>, <<"RequireCourseWrite">>, <<>>}
  /\ m \in SubmissionReads => l \in {<<"RequireLogin", "GetCourseId", "RequireInCourse", "RequireSubmissionRead">>,
                                     <<"GetCourseId", "RequireInCourse", "RequireSubmissionRead">>,
                                     <<"RequireInCourse", "RequireSubmissionRead">>,
                                     <<"RequireSubmissionRead">>, <<>>}
  /\ m \in Activation      => l \in {<<"RequireLogin", "GetCourseId", "RequireInCourse",
                                       "RequireSubmissionRead", "NotAfterDueDate">>,
                                     <<"GetCourseId", "RequireInCourse", "RequireSubmissionRead", "NotAfterDueDate">>,
                                     <<"RequireInCourse", "RequireSubmissionRead", "NotAfterDueDate">>,
                                     <<"RequireSubmissionRead", "NotAfterDueDate">>,
                                     <<"NotAfterDueDate">>, <<>>}

\* The next check of a chain, or the handler.
Stage(l) == IF l = <<>> THEN "handler" ELSE Head(l)

\* No method is of two classes.
LEMMA Classes ==
  ASSUME NEW m \in Methods
  PROVE  \/ m \in Open /\ m \notin Captcha \cup Personal \cup Uploads \cup Administration \cup CourseMethods
         \/ m \in Captcha /\ m \notin Open \cup Personal \cup Uploads \cup Administration \cup CourseMethods
         \/ m \in Personal /\ m \notin Open \cup Captcha \cup Uploads \cup Administration \cup CourseMethods
         \/ m \in Uploads /\ m \notin Open \cup Captcha \cup Personal \cup Administration \cup CourseMethods
         \/ m \in Administration /\ m \notin Open \cup Captcha \cup Personal \cup Uploads \cup CourseMethods
         \/ m \in CourseMethods /\ m \notin Open \cup Captcha \cup Personal \cup Uploads \cup Administration
  BY DEF Methods, Open, Captcha, Personal, Uploads, Administration, CourseMethods, CourseReads,
         Submitting, CourseWrites, SubmissionReads, Activation

LEMMA CourseClasses ==
  ASSUME NEW m \in CourseMethods
  PROVE  \/ m \in CourseReads /\ m \notin Submitting \cup CourseWrites \cup SubmissionReads \cup Activation
         \/ m \in Submitting /\ m \notin CourseReads \cup CourseWrites \cup SubmissionReads \cup Activation
         \/ m \in CourseWrites /\ m \notin CourseReads \cup Submitting \cup SubmissionReads \cup Activation
         \/ m \in SubmissionReads /\ m \notin CourseReads \cup Submitting \cup CourseWrites \cup Activation
         \/ m \in Activation /\ m \notin CourseReads \cup Submitting \cup CourseWrites \cup SubmissionReads
  BY DEF CourseMethods, CourseReads, Submitting, CourseWrites, SubmissionReads, Activation

LEMMA FourChecks ==
  ASSUME NEW a, NEW b, NEW c, NEW d
  PROVE  <<a, b, c>> \o <<d>> = <<a, b, c, d>>
  <1> DEFINE S == {a, b, c, d}
  <1>1. <<a, b, c>> \in Seq(S) /\ <<d>> \in Seq(S) /\ <<a, b, c, d>> \in Seq(S)
    OBVIOUS
  <1>2. /\ Len(<<a, b, c>> \o <<d>>) = 4
        /\ \A i \in 1..4 : (<<a, b, c>> \o <<d>>)[i] = <<a, b, c, d>>[i]
    OBVIOUS
  <1>3. <<a, b, c>> \o <<d>> \in Seq(S)
    BY <1>1, ConcatProperties
  <1> HIDE DEF S
  <1>4. Len(<<a, b, c, d>>) = 4
    OBVIOUS
  <1> QED BY <1>1, <1>2, <1>3, <1>4, SeqEqual

LEMMA FiveChecks ==
  ASSUME NEW a, NEW b, NEW c, NEW d, NEW e
  PROVE  <<a, b, c>> \o <<d, e>> = <<a, b, c, d, e>>
  <1> DEFINE S == {a, b, c, d, e}
  <1>1. <<a, b, c>> \in Seq(S) /\ <<d, e>> \in Seq(S) /\ <<a, b, c, d, e>> \in Seq(S)
    OBVIOUS
  <1>2. /\ Len(<<a, b, c>> \o <<d, e>>) = 5
        /\ \A i \in 1..5 : (<<a, b, c>> \o <<d, e>>)[i] = <<a, b, c, d, e>>[i]
    OBVIOUS
  <1>3. <<a, b, c>> \o <<d, e>> \in Seq(S)
    BY <1>1, ConcatProperties
  <1> HIDE DEF S
  <1>4. Len(<<a, b, c, d, e>>) = 5
    OBVIOUS
  <1> QED BY <1>1, <1>2, <1>3, <1>4, SeqEqual

\* Every method has a chain, the whole of which is left when a call begins.
LEMMA ChainBegins ==
  ASSUME NEW m \in Methods
  PROVE  /\ LeftOK(m, AuthFuncs(m))
         /\ Stage(AuthFuncs(m)) = Head(AuthFuncs(m))
         /\ m \notin Open \cup Captcha => Stage(AuthFuncs(m)) = "RequireLogin"
         /\ m \in Open \cup Captcha => Stage(AuthFuncs(m)) \in {"NoopAuth", "RequireCaptcha"}
  <1>1. CASE m \in Open
    <2>1. AuthFuncs(m) = <<"NoopAuth">>
      BY <1>1, Classes DEF AuthFuncs, CourseMethods
    <2> QED BY <1>1, <2>1, Classes DEF LeftOK, Stage, CourseMethods
  <1>2. CASE m \in Captcha
    <2>1. AuthFuncs(m) = <<"RequireCaptcha">>
      BY <1>2, Classes DEF AuthFuncs, CourseMethods
    <2> QED BY <1>2, <2>1, Classes DEF LeftOK, Stage, CourseMethods
  <1>3. CASE m \in Personal
    <2>1. AuthFuncs(m) = <<"RequireLogin">>
      BY <1>3, Classes DEF AuthFuncs, CourseMethods
    <2> QED BY <1>3, <2>1, Classes DEF LeftOK, Stage, CourseMethods
  <1>4. CASE m \in Uploads
    <2>1. AuthFuncs(m) = <<"RequireLogin", "CheckManifest">>
      BY <1>4, Classes DEF AuthFuncs, CourseMethods
    <2> QED BY <1>4, <2>1, Classes DEF LeftOK, Stage, CourseMethods
  <1>5. CASE m \in Administration
    <2>1. AuthFuncs(m) = <<"RequireLogin", "RequireAdmin">>
      BY <1>5, Classes DEF AuthFuncs, CourseMethods
    <2> QED BY <1>5, <2>1, Classes DEF LeftOK, Stage, CourseMethods
  <1>6. CASE m \in CourseMethods
    <2>0. m \notin Open \cup Captcha \cup Personal \cup Uploads \cup Administration
      BY <1>6, Classes
    <2>1. CASE m \in CourseReads
      <3>1. AuthFuncs(m) = <<"RequireLogin", "GetCourseId", "RequireInCourse">>
        BY <1>6, <2>0, <2>1, CourseClasses DEF AuthFuncs, InCourse
      <3> QED BY <1>6, <2>0, <2>1, <3>1, CourseClasses DEF LeftOK, Stage
    <2>2. CASE m \in Submitting
      <3>1. AuthFuncs(m) = <<"RequireLogin", "GetCourseId", "RequireInCourse", "NotAfterDueDate">>
        BY <1>6, <2>0, <2>2, CourseClasses, FourChecks DEF AuthFuncs, InCourse
      <3> QED BY <1>6, <2>0, <2>2, <3>1, CourseClasses DEF LeftOK, Stage
    <2>3. CASE m \in CourseWrites
      <3>1. AuthFuncs(m) = <<"RequireLogin", "GetCourseId", "RequireInCourse", "RequireCourseWrite">>
        BY <1>6, <2>0, <2>3, CourseClasses, FourChecks DEF AuthFuncs, InCourse
      <3> QED BY <1>6, <2>0, <2>3, <3>1, CourseClasses DEF LeftOK, Stage
    <2>4. CASE m \in SubmissionReads
      <3>1. AuthFuncs(m) = <<"RequireLogin", "GetCourseId", "RequireInCourse", "RequireSubmissionRead">>
        BY <1>6, <2>0, <2>4, CourseClasses, FourChecks DEF AuthFuncs, InCourse
      <3> QED BY <1>6, <2>0, <2>4, <3>1, CourseClasses DEF LeftOK, Stage
    <2>5. CASE m \in Activation
      <3>1. AuthFuncs(m) = <<"RequireLogin", "GetCourseId", "RequireInCourse",
                             "RequireSubmissionRead", "NotAfterDueDate">>
        BY <1>6, <2>0, <2>5, CourseClasses, FiveChecks DEF AuthFuncs, InCourse
      <3> QED BY <1>6, <2>0, <2>5, <3>1, CourseClasses DEF LeftOK, Stage
    <2> QED BY <1>6, <2>1, <2>2, <2>3, <2>4, <2>5, CourseClasses
  <1> QED BY <1>1, <1>2, <1>3, <1>4, <1>5, <1>6, Classes

\* The check after s in the chain of m is t.
After(m, s, t) ==
  /\ m \in Open            => s = "NoopAuth" /\ t = "handler"
  /\ m \in Captcha         => s = "RequireCaptcha" /\ t = "handler"
  /\ m \in Personal        => s = "RequireLogin" /\ t = "handler"
  /\ m \in Uploads         => \/ s = "RequireLogin" /\ t = "CheckManifest"
                              \/ s = "CheckManifest" /\ t = "handler"
  /\ m \in Administration  => \/ s = "RequireLogin" /\ t = "RequireAdmin"
                              \/ s = "RequireAdmin" /\ t = "handler"
  /\ m \in CourseMethods   => \/ s = "RequireLogin" /\ t = "GetCourseId"
                              \/ s = "GetCourseId" /\ t = "RequireInCourse"
                              \/ s = "RequireInCourse" /\ m \in CourseReads /\ t = "handler"
                              \/ s = "RequireInCourse" /\ m \in Submitting /\ t = "NotAfterDueDate"
                              \/ s = "RequireInCourse" /\ m \in CourseWrites /\ t = "RequireCourseWrite"
                              \/ s = "RequireInCourse" /\ m \in Reading /\ t = "RequireSubmissionRead"
                              \/ s = "RequireCourseWrite" /\ m \in CourseWrites /\ t = "handler"
                              \/ s = "RequireSubmissionRead" /\ m \in SubmissionReads /\ t = "handler"
                              \/ s = "RequireSubmissionRead" /\ m \in Activation /\ t = "NotAfterDueDate"
                              \/ s = "NotAfterDueDate" /\ m \in Dated /\ t = "handler"

LEMMA Tails ==
  ASSUME NEW a, NEW b, NEW c, NEW d, NEW e
  PROVE  /\ Tail(<<a>>) = <<>> /\ Tail(<<a, b>>) = <<b>> /\ Tail(<<a, b, c>>) = <<b, c>>
         /\ Tail(<<a, b, c, d>>) = <<b, c, d>> /\ Tail(<<a, b, c, d, e>>) = <<b, c, d, e>>
  OBVIOUS

LEMMA NextCheck ==
  ASSUME NEW m \in Methods, NEW l, LeftOK(m, l), l # <<>>
  PROVE  LeftOK(m, Tail(l)) /\ Stage(l) = Head(l) /\ After(m, Stage(l), Stage(Tail(l)))
  <1>0. Stage(l) = Head(l)
    BY DEF Stage
  <1>1. CASE m \in Open
    <2>1. CASE l = <<"NoopAuth">>
      BY <2>1, <1>0, <1>1, Classes, Tails DEF LeftOK, Stage, After, CourseMethods
    <2> QED BY <1>1, <2>1 DEF LeftOK
  <1>2. CASE m \in Captcha
    <2>1. CASE l = <<"RequireCaptcha">>
      BY <2>1, <1>0, <1>2, Classes, Tails DEF LeftOK, Stage, After, CourseMethods
    <2> QED BY <1>2, <2>1 DEF LeftOK
  <1>3. CASE m \in Personal
    <2>1. CASE l = <<"RequireLogin">>
      BY <2>1, <1>0, <1>3, Classes, Tails DEF LeftOK, Stage, After, CourseMethods
    <2> QED BY <1>3, <2>1 DEF LeftOK
  <1>4. CASE m \in Uploads
    <2>1. CASE l = <<"RequireLogin", "CheckManifest">>
      BY <2>1, <1>0, <1>4, Classes, Tails DEF LeftOK, Stage, After, CourseMethods
    <2>2. CASE l = <<"CheckManifest">>
      BY <2>2, <1>0, <1>4, Classes, Tails DEF LeftOK, Stage, After, CourseMethods
    <2> QED BY <1>4, <2>1, <2>2 DEF LeftOK
  <1>5. CASE m \in Administration
    <2>1. CASE l = <<"RequireLogin", "RequireAdmin">>
      BY <2>1, <1>0, <1>5, Classes, Tails DEF LeftOK, Stage, After, CourseMethods
    <2>2. CASE l = <<"RequireAdmin">>
      BY <2>2, <1>0, <1>5, Classes, Tails DEF LeftOK, Stage, After, CourseMethods
    <2> QED BY <1>5, <2>1, <2>2 DEF LeftOK
  <1>6. CASE m \in CourseMethods
    <2>0. m \notin Open \cup Captcha \cup Personal \cup Uploads \cup Administration
      BY <1>6, Classes
    <2>1. CASE m \in CourseReads
      <3>1. CASE l = <<"RequireLogin", "GetCourseId", "RequireInCourse">>
        BY <3>1, <1>0, <2>1, <1>6, <2>0, CourseClasses, Tails DEF LeftOK, Stage, After, Reading, Dated
      <3>2. CASE l = <<"GetCourseId", "RequireInCourse">>
        BY <3>2, <1>0, <2>1, <1>6, <2>0, CourseClasses, Tails DEF LeftOK, Stage, After, Reading, Dated
      <3>3. CASE l = <<"RequireInCourse">>
        BY <3>3, <1>0, <2>1, <1>6, <2>0, CourseClasses, Tails DEF LeftOK, Stage, After, Reading, Dated
      <3> QED BY <2>1, <3>1, <3>2, <3>3 DEF LeftOK
    <2>2. CASE m \in Submitting
      <3>1. CASE l = <<"RequireLogin", "GetCourseId", "RequireInCourse", "NotAfterDueDate">>
        BY <3>1, <1>0, <2>2, <1>6, <2>0, CourseClasses, Tails DEF LeftOK, Stage, After, Reading, Dated
      <3>2. CASE l = <<"GetCourseId", "RequireInCourse", "NotAfterDueDate">>
        BY <3>2, <1>0, <2>2, <1>6, <2>0, CourseClasses, Tails DEF LeftOK, Stage, After, Reading, Dated
      <3>3. CASE l = <<"RequireInCourse", "NotAfterDueDate">>
        BY <3>3, <1>0, <2>2, <1>6, <2>0, CourseClasses, Tails DEF LeftOK, Stage, After, Reading, Dated
      <3>4. CASE l = <<"NotAfterDueDate">>
        BY <3>4, <1>0, <2>2, <1>6, <2>0, CourseClasses, Tails DEF LeftOK, Stage, After, Reading, Dated
      <3> QED BY <2>2, <3>1, <3>2, <3>3, <3>4 DEF LeftOK
    <2>3. CASE m \in CourseWrites
      <3>1. CASE l = <<"RequireLogin", "GetCourseId", "RequireInCourse", "RequireCourseWrite">>
        BY <3>1, <1>0, <2>3, <1>6, <2>0, CourseClasses, Tails DEF LeftOK, Stage, After, Reading, Dated
      <3>2. CASE l = <<"GetCourseId", "RequireInCourse", "RequireCourseWrite">>
        BY <3>2, <1>0, <2>3, <1>6, <2>0, CourseClasses, Tails DEF LeftOK, Stage, After, Reading, Dated
      <3>3. CASE l = <<"RequireInCourse", "RequireCourseWrite">>
        BY <3>3, <1>0, <2>3, <1>6, <2>0, CourseClasses, Tails DEF LeftOK, Stage, After, Reading, Dated
      <3>4. CASE l = <<"RequireCourseWrite">>
        BY <3>4, <1>0, <2>3, <1>6, <2>0, CourseClasses, Tails DEF LeftOK, Stage, After, Reading, Dated
      <3> QED BY <2>3, <3>1, <3>2, <3>3, <3>4 DEF LeftOK
    <2>4. CASE m \in SubmissionReads
      <3>1. CASE l = <<"RequireLogin", "GetCourseId", "RequireInCourse", "RequireSubmissionRead">>
        BY <3>1, <1>0, <2>4, <1>6, <2>0, CourseClasses, Tails DEF LeftOK, Stage, After, Reading, Dated
      <3>2. CASE l = <<"GetCourseId", "RequireInCourse", "RequireSubmissionRead">>
        BY <3>2, <1>0, <2>4, <1>6, <2>0, CourseClasses, Tails DEF LeftOK, Stage, After, Reading, Dated
      <3>3. CASE l = <<"RequireInCourse", "RequireSubmissionRead">>
        BY <3>3, <1>0, <2>4, <1>6, <2>0, CourseClasses, Tails DEF LeftOK, Stage, After, Reading, Dated
      <3>4. CASE l = <<"RequireSubmissionRead">>
        BY <3>4, <1>0, <2>4, <1>6, <2>0, CourseClasses, Tails DEF LeftOK, Stage, After, Reading, Dated
      <3> QED BY <2>4, <3>1, <3>2, <3>3, <3>4 DEF LeftOK
    <2>5. CASE m \in Activation
      <3>1. CASE l = <<"RequireLogin", "GetCourseId", "RequireInCourse", "RequireSubmissionRead", "NotAfterDueDate">>
        BY <3>1, <1>0, <2>5, <1>6, <2>0, CourseClasses, Tails DEF LeftOK, Stage, After, Reading, Dated
      <3>2. CASE l = <<"GetCourseId", "RequireInCourse", "RequireSubmissionRead", "NotAfterDueDate">>
        BY <3>2, <1>0, <2>5, <1>6, <2>0, CourseClasses, Tails DEF LeftOK, Stage, After, Reading, Dated
      <3>3. CASE l = <<"RequireInCourse", "RequireSubmissionRead", "NotAfterDueDate">>
        BY <3>3, <1>0, <2>5, <1>6, <2>0, CourseClasses, Tails DEF LeftOK, Stage, After, Reading, Dated
      <3>4. CASE l = <<"RequireSubmissionRead", "NotAfterDueDate">>
        BY <3>4, <1>0, <2>5, <1>6, <2>0, CourseClasses, Tails DEF LeftOK, Stage, After, Reading, Dated
      <3>5. CASE l = <<"NotAfterDueDate">>
        BY <3>5, <1>0, <2>5, <1>6, <2>0, CourseClasses, Tails DEF LeftOK, Stage, After, Reading, Dated
      <3> QED BY <2>5, <3>1, <3>2, <3>3, <3>4, <3>5 DEF LeftOK
    <2> QED BY <1>6, <2>1, <2>2, <2>3, <2>4, <2>5, CourseClasses
  <1> QED BY <1>1, <1>2, <1>3, <1>4, <1>5, <1>6, Classes

-----------------------------------------------------------------------------
(* The inductive invariant *)

\* What may be left of the chain of any method.
Chains ==
  {<<>>, <<"NoopAuth">>, <<"RequireCaptcha">>, <<"RequireLogin">>,
   <<"RequireLogin", "CheckManifest">>, <<"CheckManifest">>,
   <<"RequireLogin", "RequireAdmin">>, <<"RequireAdmin">>,
   <<"RequireLogin", "GetCourseId", "RequireInCourse">>,
   <<"GetCourseId", "RequireInCourse">>, <<"RequireInCourse">>,
   <<"RequireLogin", "GetCourseId", "RequireInCourse", "NotAfterDueDate">>,
   <<"GetCourseId", "RequireInCourse", "NotAfterDueDate">>,
   <<"RequireInCourse", "NotAfterDueDate">>, <<"NotAfterDueDate">>,
   <<"RequireLogin", "GetCourseId", "RequireInCourse", "RequireCourseWrite">>,
   <<"GetCourseId", "RequireInCourse", "RequireCourseWrite">>,
   <<"RequireInCourse", "RequireCourseWrite">>, <<"RequireCourseWrite">>,
   <<"RequireLogin", "GetCourseId", "RequireInCourse", "RequireSubmissionRead">>,
   <<"GetCourseId", "RequireInCourse", "RequireSubmissionRead">>,
   <<"RequireInCourse", "RequireSubmissionRead">>, <<"RequireSubmissionRead">>,
   <<"RequireLogin", "GetCourseId", "RequireInCourse", "RequireSubmissionRead", "NotAfterDueDate">>,
   <<"GetCourseId", "RequireInCourse", "RequireSubmissionRead", "NotAfterDueDate">>,
   <<"RequireInCourse", "RequireSubmissionRead", "NotAfterDueDate">>,
   <<"RequireSubmissionRead", "NotAfterDueDate">>}
Tokens == [user : Users, admin : BOOLEAN]
Contexts == [user : Users \cup {0}, course : Nat, assignment : Windows \cup {<<>>},
             submission : Nat, member : Roles \cup {"none"}]
CallRecords == [method : Methods, id : Nat, token : Tokens \cup {NoToken}, left : Chains,
                ctx : Contexts]

AssignmentRecords == [course : Nat, window : Windows]
SubmissionRecords == [assignment : Nat, submitters : SUBSET Users]

\* What the checks read; who has a role has it in a course that exists.
WorldOK ==
  /\ admins \subseteq Users /\ Root \in admins
  /\ tokens \subseteq Tokens
  /\ role \in [Users -> [Courses -> Roles \cup {"none"}]]
  /\ \A u \in Users, c \in Courses : role[u][c] # "none" => c <= courses
  /\ courses \in Courses
  /\ assignments \in Seq(AssignmentRecords)
  /\ \A a \in 1..Len(assignments) : assignments[a].course \in 0..courses
  /\ submissions \in Seq(SubmissionRecords)
  /\ \A s \in 1..Len(submissions) : submissions[s].assignment \in 1..Len(assignments)
  /\ manifests \in Seq(Users \cup {0})

CallsOK ==
  /\ call \in [Calls -> CallRecords \cup {NoCall}]
  /\ now \in 0..MaxTime /\ calls \in 0..MaxCalls

TypeInv == WorldOK /\ CallsOK

\* A token says administrator only of those who have been one.
TokenInv == \A t \in tokens : t.admin => t.user \in everAdmin

\* What RequireLogin has found.
LoggedIn(p) == Ctx(p).user = call[p].token.user /\ call[p].token \in tokens

\* What GetCourseId has found.
Sited(p) ==
  /\ Ctx(p).course \in Courses /\ Ctx(p).course \in seen[p].sites
  /\ Names(call[p].method) = "course" => Ctx(p).course = call[p].id
  /\ Names(call[p].method) = "assignment" => call[p].id \in 1..Len(assignments)
  /\ Names(call[p].method) = "submission" =>
       call[p].id \in 1..Len(submissions) /\ Ctx(p).submission = call[p].id
  /\ Names(call[p].method) \in {"assignment", "submission"} =>
       Ctx(p).assignment \in Windows /\ Ctx(p).assignment \in seen[p].dates

\* What RequireInCourse has found.
Member(p) ==
  /\ Ctx(p).member \in Roles /\ <<Ctx(p).course, Ctx(p).member>> \in seen[p].roles
  /\ Ctx(p).course <= courses

\* What RequireSubmissionRead and NotAfterDueDate have found.
Reads(p) ==
  Ctx(p).member \in Staff \/ call[p].token.user \in submissions[call[p].id].submitters
InDates(p) ==
  \/ Ctx(p).member \in Staff
  \/ \E t \in seen[p].times : Ctx(p).assignment[1] <= t /\ t <= Ctx(p).assignment[2]

\* What is known of a call that has come to a check, or to the handler.
CallInv(p) ==
  LET m == call[p].method
      s == Stage(call[p].left) IN
  call[p] # NoCall =>
    /\ LeftOK(m, call[p].left) /\ call[p].id \in IdsOf(Names(m))
    /\ m \notin Open \cup Captcha /\ s # "RequireLogin" => LoggedIn(p)
    /\ m \in CourseMethods /\ s \notin {"RequireLogin", "GetCourseId"} => Sited(p)
    /\ m \in CourseMethods /\ s \notin {"RequireLogin", "GetCourseId", "RequireInCourse"} => Member(p)
    /\ m \in CourseWrites /\ s = "handler" => Ctx(p).member \in Staff
    /\ m \in Reading /\ s \in {"NotAfterDueDate", "handler"} => Reads(p)
    /\ m \in Dated /\ s = "handler" => InDates(p)
    /\ m \in Administration /\ s = "handler" => call[p].token.admin

Inv == TypeInv /\ TokenInv /\ \A p \in Calls : CallInv(p)

-----------------------------------------------------------------------------
(* Calls *)

\* What is left of a chain is one of these.
LEMMA ChainType ==
  ASSUME NEW m \in Methods, NEW l, LeftOK(m, l)
  PROVE  l \in Chains
  <1>1. CASE m \in Open
    BY <1>1 DEF LeftOK, Chains
  <1>2. CASE m \in Captcha
    BY <1>2 DEF LeftOK, Chains
  <1>3. CASE m \in Personal
    BY <1>3 DEF LeftOK, Chains
  <1>4. CASE m \in Uploads
    BY <1>4 DEF LeftOK, Chains
  <1>5. CASE m \in Administration
    BY <1>5 DEF LeftOK, Chains
  <1>6. CASE m \in CourseReads
    BY <1>6 DEF LeftOK, Chains
  <1>7. CASE m \in Submitting
    BY <1>7 DEF LeftOK, Chains
  <1>8. CASE m \in CourseWrites
    BY <1>8 DEF LeftOK, Chains
  <1>9. CASE m \in SubmissionReads
    BY <1>9 DEF LeftOK, Chains
  <1>10. CASE m \in Activation
    BY <1>10 DEF LeftOK, Chains
  <1> QED BY <1>1, <1>2, <1>3, <1>4, <1>5, <1>6, <1>7, <1>8, <1>9, <1>10 DEF Methods

LEMMA NoMethod == "none" \notin Methods
  BY DEF Methods, Open, Captcha, Personal, Uploads, Administration, CourseReads, Submitting,
         CourseWrites, SubmissionReads, Activation

LEMMA IsCall ==
  ASSUME NEW c \in CallRecords
  PROVE  c # NoCall
  <1>1. c.method \in Methods
    BY DEF CallRecords
  <1>2. NoCall.method = "none"
    BY DEF NoCall
  <1> QED BY <1>1, <1>2, NoMethod

\* A call goes on with the context x.
LEMMA Passed ==
  ASSUME CallsOK, NEW p \in Calls, call[p] # NoCall, call[p].left # <<>>, NEW x \in Contexts,
         Pass(p, x), LeftOK(call[p].method, Tail(call[p].left))
  PROVE  /\ call' \in [Calls -> CallRecords \cup {NoCall}] /\ call'[p] # NoCall
         /\ call'[p].method = call[p].method /\ call'[p].id = call[p].id
         /\ call'[p].token = call[p].token /\ call'[p].left = Tail(call[p].left)
         /\ call'[p].ctx = x
         /\ \A q \in Calls \ {p} : call'[q] = call[q]
  <1> DEFINE c == [call[p] EXCEPT !.left = Tail(@), !.ctx = x]
  <1>1. call[p] \in CallRecords
    BY DEF CallsOK
  <1>2. Tail(call[p].left) \in Chains
    BY <1>1, ChainType DEF CallRecords
  <1>3. c \in CallRecords
    BY <1>1, <1>2 DEF CallRecords
  <1>4. /\ c.method = call[p].method /\ c.id = call[p].id /\ c.token = call[p].token
        /\ c.left = Tail(call[p].left) /\ c.ctx = x
    BY <1>1 DEF CallRecords
  <1>5. call' = [call EXCEPT ![p] = c]
    BY <1>1 DEF Pass, CallsOK, CallRecords
  <1> HIDE DEF c
  <1>6. call'[p] = c /\ \A q \in Calls \ {p} : call'[q] = call[q]
    BY <1>5 DEF CallsOK
  <1>7. call' \in [Calls -> CallRecords \cup {NoCall}]
    BY <1>3, <1>5 DEF CallsOK
  <1> QED BY <1>3, <1>4, <1>6, <1>7, IsCall

LEMMA Refused ==
  ASSUME CallsOK, NEW p \in Calls, Refuse(p)
  PROVE  /\ call' \in [Calls -> CallRecords \cup {NoCall}] /\ call'[p] = NoCall
         /\ \A q \in Calls \ {p} : call'[q] = call[q]
  BY DEF CallsOK, Refuse

\* What a call has seen grows by the state that a step starts from.
LEMMA WatchGrows ==
  ASSUME Watch, NEW p \in Calls, call[p] # NoCall, call'[p] # NoCall
  PROVE  /\ seen'[p].roles = seen[p].roles \cup RolesNow(call[p].token.user)
         /\ seen'[p].sites = seen[p].sites \cup {CourseNow(call[p])}
         /\ seen'[p].dates = seen[p].dates \cup DatesNow(call[p])
         /\ seen'[p].times = seen[p].times \cup {now}
  <1> DEFINE w == [roles |-> seen[p].roles \cup RolesNow(call[p].token.user),
                   sites |-> seen[p].sites \cup {CourseNow(call[p])},
                   dates |-> seen[p].dates \cup DatesNow(call[p]),
                   times |-> seen[p].times \cup {now}]
  <1>1. seen'[p] = w
    BY DEF Watch
  <1> QED BY <1>1

\* Tokens, courses, assignments and submissions are never taken away.
Grows ==
  /\ tokens \subseteq tokens' /\ courses <= courses'
  /\ Len(assignments) <= Len(assignments')
  /\ Len(submissions) <= Len(submissions')
  /\ \A s \in 1..Len(submissions) : submissions'[s] = submissions[s]

\* What is known of a call that the step is not one of stays true.
LEMMA CallKeeps ==
  ASSUME TypeInv, TypeInv', Grows, Watch, NEW p \in Calls, CallInv(p), call'[p] = call[p]
  PROVE  CallInv(p)'
  <1> SUFFICES ASSUME call[p] # NoCall PROVE CallInv(p)'
    BY DEF CallInv
  <1>1. /\ seen[p].roles \subseteq seen'[p].roles /\ seen[p].sites \subseteq seen'[p].sites
        /\ seen[p].dates \subseteq seen'[p].dates /\ seen[p].times \subseteq seen'[p].times
    BY WatchGrows
  <1>2. Ctx(p)' = Ctx(p)
    BY DEF Ctx
  <1>3. /\ Len(assignments) \in Nat /\ Len(assignments') \in Nat /\ courses \in Nat /\ courses' \in Nat
        /\ Len(submissions) \in Nat /\ Len(submissions') \in Nat /\ Ctx(p).course \in Nat
    <2>1. call[p] \in CallRecords
      BY DEF TypeInv, CallsOK
    <2>2. Ctx(p).course \in Nat
      BY <2>1 DEF CallRecords, Contexts, Ctx
    <2> QED BY <2>2 DEF TypeInv, WorldOK, Courses
  <1>4. LoggedIn(p) => LoggedIn(p)'
    BY <1>2 DEF LoggedIn, Grows
  <1>5. Sited(p) => Sited(p)'
    BY <1>1, <1>2, <1>3 DEF Sited, Grows
  <1>6. Member(p) => Member(p)'
    BY <1>1, <1>2, <1>3 DEF Member, Grows
  <1>7. Sited(p) /\ Names(call[p].method) = "submission" /\ Reads(p) => Reads(p)'
    BY <1>2 DEF Sited, Reads, Grows
  <1>8. InDates(p) => InDates(p)'
    BY <1>1, <1>2 DEF InDates
  <1>9. call[p].method \in Reading => Names(call[p].method) = "submission"
    BY DEF Reading, Names, SubmissionRequests, SubmissionReads, Activation, AssignmentRequests,
           CourseReads, CourseWrites, Uploads
  <1>10. Reading \subseteq CourseMethods
    BY DEF Reading, CourseMethods
  <1> QED BY <1>2, <1>4, <1>5, <1>6, <1>7, <1>8, <1>9, <1>10 DEF CallInv

-----------------------------------------------------------------------------
(* Checks *)

\* A step of the call p that changes nothing else.
Alone(p) ==
  /\ UNCHANGED <<world, now, calls>> /\ Watch
  /\ call' \in [Calls -> CallRecords \cup {NoCall}]
  /\ \A q \in Calls \ {p} : call'[q] = call[q]

LEMMA AtCheck ==
  ASSUME CallsOK, NEW p \in Calls, CallInv(p), NEW f, Checks(p, f)
  PROVE  /\ call[p] # NoCall /\ call[p].left # <<>> /\ Stage(call[p].left) = f
         /\ call[p].method \in Methods /\ Ctx(p) \in Contexts
         /\ LeftOK(call[p].method, Tail(call[p].left))
         /\ After(call[p].method, f, Stage(Tail(call[p].left)))
  <1>1. call[p] # NoCall /\ call[p].left # <<>> /\ Head(call[p].left) = f
    BY DEF Checks
  <1>2. call[p].method \in Methods /\ Ctx(p) \in Contexts
    BY <1>1 DEF CallsOK, CallRecords, Ctx
  <1>3. LeftOK(call[p].method, call[p].left)
    BY <1>1 DEF CallInv
  <1> QED BY <1>1, <1>2, <1>3, NextCheck

\* What a check adds to the context x of a call that passes it.
LEMMA PassKeeps ==
  ASSUME TypeInv, NEW p \in Calls, CallInv(p), NEW f, Checks(p, f), NEW x \in Contexts, Pass(p, x),
         UNCHANGED world, Watch
  PROVE  /\ call' \in [Calls -> CallRecords \cup {NoCall}]
         /\ \A q \in Calls \ {p} : call'[q] = call[q]
         /\ call'[p] # NoCall /\ Ctx(p)' = x
         /\ call'[p].method = call[p].method /\ call'[p].id = call[p].id
         /\ call'[p].token = call[p].token
         /\ LeftOK(call'[p].method, call'[p].left) /\ call'[p].id \in IdsOf(Names(call'[p].method))
         /\ After(call'[p].method, f, Stage(call'[p].left))
         /\ x.user = Ctx(p).user /\ LoggedIn(p) => LoggedIn(p)'
         /\ x.course = Ctx(p).course /\ x.submission = Ctx(p).submission
              /\ x.assignment = Ctx(p).assignment /\ Sited(p) => Sited(p)'
         /\ x = Ctx(p) /\ Member(p) => Member(p)'
         /\ x = Ctx(p) /\ Reads(p) => Reads(p)'
  <1>1. /\ call' \in [Calls -> CallRecords \cup {NoCall}] /\ call'[p] # NoCall
        /\ call'[p].method = call[p].method /\ call'[p].id = call[p].id
        /\ call'[p].token = call[p].token /\ call'[p].left = Tail(call[p].left)
        /\ call'[p].ctx = x
        /\ \A q \in Calls \ {p} : call'[q] = call[q]
    BY AtCheck, Passed DEF TypeInv
  <1>2. Ctx(p)' = x
    BY <1>1 DEF Ctx
  <1>3. /\ LeftOK(call'[p].method, call'[p].left) /\ call'[p].id \in IdsOf(Names(call'[p].method))
        /\ After(call'[p].method, f, Stage(call'[p].left))
    BY <1>1, AtCheck DEF TypeInv, CallInv
  <1>4. /\ seen[p].roles \subseteq seen'[p].roles /\ seen[p].sites \subseteq seen'[p].sites
        /\ seen[p].dates \subseteq seen'[p].dates
    BY <1>1, AtCheck, WatchGrows DEF TypeInv
  <1>5. x.user = Ctx(p).user /\ LoggedIn(p) => LoggedIn(p)'
    BY <1>1, <1>2 DEF LoggedIn, world
  <1>6. x.course = Ctx(p).course /\ x.submission = Ctx(p).submission
          /\ x.assignment = Ctx(p).assignment /\ Sited(p) => Sited(p)'
    BY <1>1, <1>2, <1>4 DEF Sited, world
  <1>7. x = Ctx(p) /\ Member(p) => Member(p)'
    BY <1>1, <1>2, <1>4 DEF Member, world
  <1>8. x = Ctx(p) /\ Reads(p) => Reads(p)'
    BY <1>1, <1>2 DEF Reads, world
  <1> QED BY <1>1, <1>2, <1>3, <1>5, <1>6, <1>7, <1>8

LEMMA RefuseKeeps ==
  ASSUME CallsOK, NEW p \in Calls, Refuse(p), UNCHANGED <<world, now, calls>>, Watch
  PROVE  Alone(p) /\ CallInv(p)'
  BY Refused DEF Alone, CallInv

\* A key of the context is there if it has not the value of an absent one.
LEMMA HasKeys ==
  ASSUME NEW x, NEW keys, keys \subseteq {"user", "course", "assignment", "submission", "member"},
         "user" \in keys => x.user # 0, "course" \in keys => x.course # 0,
         "assignment" \in keys => x.assignment # <<>>,
         "submission" \in keys => x.submission # 0, "member" \in keys => x.member # "none"
  PROVE  Has(x, keys)
  <1> SUFFICES ASSUME NEW k \in keys PROVE x[k] # NoCtx[k]
    BY DEF Has
  <1>1. CASE k = "user"
    BY <1>1 DEF NoCtx
  <1>2. CASE k = "course"
    BY <1>2 DEF NoCtx
  <1>3. CASE k = "assignment"
    BY <1>3 DEF NoCtx
  <1>4. CASE k = "submission"
    BY <1>4 DEF NoCtx
  <1>5. CASE k = "member"
    BY <1>5 DEF NoCtx
  <1> QED BY <1>1, <1>2, <1>3, <1>4, <1>5

LEMMA DatesThere ==
  ASSUME NEW w \in Windows
  PROVE  w # <<>>
  BY AuthorisationAssumption

LEMMA LoggedInUser ==
  ASSUME WorldOK, NEW p \in Calls, LoggedIn(p)
  PROVE  Ctx(p).user \in Users /\ Ctx(p).user # 0
  BY AuthorisationAssumption DEF WorldOK, LoggedIn, Tokens

\* The checks of calls that are not about a course.
LEMMA SimpleChecks ==
  ASSUME TypeInv, NEW p \in Calls, CallInv(p),
         NoopAuth(p) \/ RequireCaptcha(p) \/ RequireAdmin(p) \/ CheckManifest(p)
  PROVE  Alone(p) /\ CallInv(p)'
  <1>0. CallsOK /\ WorldOK
    BY DEF TypeInv
  <1>1. PICK f \in {"NoopAuth", "RequireCaptcha", "RequireAdmin", "CheckManifest"} : Checks(p, f)
    BY DEF NoopAuth, RequireCaptcha, RequireAdmin, CheckManifest, Check
  <1>2. /\ call[p] # NoCall /\ Stage(call[p].left) = f /\ call[p].method \in Methods /\ Ctx(p) \in Contexts
        /\ After(call[p].method, f, Stage(Tail(call[p].left)))
    BY <1>0, <1>1, AtCheck
  <1>3. call[p].method \notin CourseMethods
    BY <1>1, <1>2 DEF After
  <1>4. Has(Ctx(p), {})
    BY DEF Has
  <1>5. f \in {"RequireAdmin", "CheckManifest"} => LoggedIn(p) /\ Has(Ctx(p), {"user"})
    <2>1. f \in {"RequireAdmin", "CheckManifest"} => LoggedIn(p)
      BY <1>2 DEF CallInv, After
    <2> QED BY <1>0, <2>1, LoggedInUser, HasKeys
  <1>6. /\ UNCHANGED <<world, now, calls>> /\ Watch
        /\ \/ Refuse(p)
           \/ Pass(p, Ctx(p)) /\ (f = "RequireAdmin" => call[p].token.admin)
    <2>1. CASE NoopAuth(p)
      BY <1>1, <1>4, <2>1 DEF NoopAuth, Check, Checks
    <2>2. CASE RequireCaptcha(p)
      BY <1>1, <1>4, <2>2 DEF RequireCaptcha, Check, Checks
    <2>3. CASE RequireAdmin(p)
      BY <1>1, <1>5, <2>3 DEF RequireAdmin, Check, Checks
    <2>4. CASE CheckManifest(p)
      BY <1>1, <1>5, <2>4 DEF CheckManifest, Check, Checks
    <2> QED BY <2>1, <2>2, <2>3, <2>4
  <1>7. CASE Refuse(p)
    BY <1>0, <1>6, <1>7, RefuseKeeps
  <1>8. CASE Pass(p, Ctx(p)) /\ (f = "RequireAdmin" => call[p].token.admin)
    <2>1. Alone(p)
      BY <1>1, <1>2, <1>6, <1>8, PassKeeps DEF Alone
    <2>2. /\ call'[p].method = call[p].method /\ call'[p].token = call[p].token
          /\ LeftOK(call'[p].method, call'[p].left) /\ call'[p].id \in IdsOf(Names(call'[p].method))
          /\ After(call'[p].method, f, Stage(call'[p].left))
          /\ LoggedIn(p) => LoggedIn(p)'
      BY <1>1, <1>2, <1>6, <1>8, PassKeeps
    <2>3. call[p].method \notin Open \cup Captcha => LoggedIn(p)
      BY <1>1, <1>2 DEF CallInv
    <2>4. call[p].method \in Administration => f = "RequireAdmin"
      BY <1>1, <1>2 DEF After
    <2>5. call[p].method \notin CourseWrites \cup Reading \cup Dated
      BY <1>3 DEF CourseMethods, Reading, Dated
    <2> QED BY <1>3, <1>8, <2>1, <2>2, <2>3, <2>4, <2>5 DEF CallInv
  <1> QED BY <1>6, <1>7, <1>8

LEMMA LoginCheck ==
  ASSUME TypeInv, NEW p \in Calls, CallInv(p), RequireLogin(p)
  PROVE  Alone(p) /\ CallInv(p)'
  <1> DEFINE x == [Ctx(p) EXCEPT !.user = call[p].token.user]
  <1>0. CallsOK /\ WorldOK /\ Checks(p, "RequireLogin") /\ UNCHANGED <<world, now, calls>> /\ Watch
    BY DEF TypeInv, RequireLogin, Check
  <1>1. /\ call[p] # NoCall /\ Stage(call[p].left) = "RequireLogin" /\ call[p].method \in Methods
        /\ Ctx(p) \in Contexts
        /\ After(call[p].method, "RequireLogin", Stage(Tail(call[p].left)))
    BY <1>0, AtCheck
  <1>2. Refuse(p) \/ (call[p].token \in tokens /\ Pass(p, x))
    BY DEF RequireLogin, Check, Has
  <1>3. CASE Refuse(p)
    BY <1>0, <1>3, RefuseKeeps
  <1>4. CASE call[p].token \in tokens /\ Pass(p, x)
    <2>1. call[p].token.user \in Users
      BY <1>0, <1>4 DEF WorldOK, Tokens
    <2>2. x \in Contexts /\ x.user = call[p].token.user
      BY <1>1, <2>1 DEF Contexts
    <2> HIDE DEF x
    <2>3. Alone(p)
      BY <1>0, <1>4, <2>2, PassKeeps DEF Alone
    <2>4. /\ call'[p].method = call[p].method /\ call'[p].token = call[p].token /\ Ctx(p)' = x
          /\ LeftOK(call'[p].method, call'[p].left) /\ call'[p].id \in IdsOf(Names(call'[p].method))
          /\ After(call'[p].method, "RequireLogin", Stage(call'[p].left))
      BY <1>0, <1>4, <2>2, PassKeeps
    <2>5. LoggedIn(p)'
      BY <1>0, <1>4, <2>2, <2>4 DEF LoggedIn, world
    <2>6. CASE call[p].method \in CourseMethods
      <3>1. Stage(call'[p].left) = "GetCourseId" /\ call[p].method \notin Administration
        BY <1>1, <2>4, <2>6, Classes DEF After
      <3> QED BY <2>3, <2>4, <2>5, <3>1 DEF CallInv
    <2>7. CASE call[p].method \notin CourseMethods
      <3>1. call[p].method \notin CourseWrites \cup Reading \cup Dated
        BY <2>7 DEF CourseMethods, Reading, Dated
      <3>2. call[p].method \in Administration => Stage(call'[p].left) # "handler"
        BY <2>4 DEF After
      <3> QED BY <2>3, <2>4, <2>5, <2>7, <3>1, <3>2 DEF CallInv
    <2> QED BY <2>6, <2>7
  <1> QED BY <1>2, <1>3, <1>4

\* The assignment a call is about exists, if it is about one.
LEMMA AssignmentFound ==
  ASSUME WorldOK, NEW c, AssignmentOf(c) # 0
  PROVE  AssignmentOf(c) \in 1..Len(assignments) /\ assignments[AssignmentOf(c)].course \in 0..courses
         /\ assignments[AssignmentOf(c)].window \in Windows
  <1>1. AssignmentOf(c) \in 1..Len(assignments)
    BY DEF AssignmentOf, WorldOK
  <1>2. \A a \in 1..Len(assignments) : /\ assignments[a].window \in Windows
                                        /\ assignments[a].course \in 0..courses
    <2>1. ASSUME NEW a \in 1..Len(assignments)
          PROVE  assignments[a].window \in Windows /\ assignments[a].course \in 0..courses
      <3>1. assignments[a] \in AssignmentRecords
        BY DEF WorldOK
      <3> QED BY <3>1 DEF WorldOK, AssignmentRecords
    <2> QED BY <2>1
  <1> QED BY <1>1, <1>2

LEMMA SiteCheck ==
  ASSUME TypeInv, NEW p \in Calls, CallInv(p), GetCourseId(p)
  PROVE  Alone(p) /\ CallInv(p)'
  <1> DEFINE c == call[p]
             a == AssignmentOf(c)
             w == IF a = 0 THEN <<>> ELSE assignments[a].window
             s == IF Names(c.method) = "submission" THEN c.id ELSE 0
             x == [Ctx(p) EXCEPT !.course = CourseNow(c), !.assignment = w, !.submission = s]
  <1>0. CallsOK /\ WorldOK /\ Checks(p, "GetCourseId") /\ UNCHANGED <<world, now, calls>> /\ Watch
    BY DEF TypeInv, GetCourseId, Check
  <1>1. /\ c # NoCall /\ Stage(c.left) = "GetCourseId" /\ c.method \in Methods
        /\ Ctx(p) \in Contexts
        /\ After(c.method, "GetCourseId", Stage(Tail(c.left)))
    BY <1>0, AtCheck
  <1>2. c.method \in CourseMethods /\ c.method \notin Open \cup Captcha \cup Administration
    BY <1>1, Classes DEF After
  <1>3. Refuse(p) \/ (CourseNow(c) # 0 /\ Pass(p, x))
    BY DEF GetCourseId, Check, Has
  <1>4. CASE Refuse(p)
    BY <1>0, <1>4, RefuseKeeps
  <1>5. CASE CourseNow(c) # 0 /\ Pass(p, x)
    <2>1. CourseNow(c) \in Courses /\ c.id \in Nat
      <3>1. c \in CallRecords
        BY <1>0, <1>1 DEF CallsOK
      <3>2. CASE Names(c.method) = "course"
        <4>1. c.id \in Courses
          BY <1>1, <3>2 DEF CallInv, IdsOf
        <4> QED BY <3>1, <3>2, <4>1 DEF CourseNow, CallRecords
      <3>3. CASE Names(c.method) # "course"
        <4>1. a # 0 /\ CourseNow(c) = assignments[a].course
          BY <1>5, <3>3 DEF CourseNow
        <4>2. CourseNow(c) \in 0..courses
          BY <1>0, <4>1, AssignmentFound
        <4> QED BY <1>0, <1>5, <3>1, <4>2, AuthorisationAssumption DEF WorldOK, Courses, CallRecords
      <3> QED BY <3>2, <3>3
    <2>2. a = 0 \/ (a \in 1..Len(assignments) /\ assignments[a].window \in Windows)
      BY <1>0, AssignmentFound
    <2>3. Names(c.method) = "assignment" => a # 0 /\ a = c.id
      BY <1>5 DEF CourseNow, AssignmentOf
    <2>4. Names(c.method) = "submission" => a # 0 /\ c.id \in 1..Len(submissions)
      BY <1>5 DEF CourseNow, AssignmentOf
    <2>5. /\ x \in Contexts /\ x.course = CourseNow(c) /\ x.assignment = w /\ x.submission = s
          /\ x.user = Ctx(p).user
      <3>1. w \in Windows \cup {<<>>} /\ s \in Nat /\ CourseNow(c) \in Nat
        BY <2>1, <2>2 DEF Courses
      <3> HIDE DEF w, s
      <3> QED BY <1>1, <3>1 DEF Contexts
    <2>6. w # <<>> => DatesNow(c) = {w}
      BY DEF DatesNow
    <2> HIDE DEF x
    <2>7. Alone(p)
      BY <1>0, <1>5, <2>5, PassKeeps DEF Alone
    <2>8. /\ call'[p] # NoCall /\ call'[p].method = c.method /\ call'[p].token = c.token
          /\ Ctx(p)' = x /\ call'[p].id = c.id
          /\ LeftOK(call'[p].method, call'[p].left) /\ call'[p].id \in IdsOf(Names(call'[p].method))
          /\ After(call'[p].method, "GetCourseId", Stage(call'[p].left))
          /\ LoggedIn(p) => LoggedIn(p)'
      BY <1>0, <1>5, <2>5, PassKeeps
    <2>9. CourseNow(c) \in seen'[p].sites /\ DatesNow(c) \subseteq seen'[p].dates
      BY <1>0, <1>1, <2>8, WatchGrows
    <2>10. Stage(call'[p].left) = "RequireInCourse"
      BY <1>2, <2>8 DEF After
    <2>11. LoggedIn(p)
      BY <1>1, <1>2 DEF CallInv
    <2>12. Sited(p)'
      <3>1. x.course \in Courses /\ x.course \in seen'[p].sites
        BY <2>1, <2>5, <2>9
      <3>2. Names(c.method) = "course" => x.course = c.id
        BY <2>5 DEF CourseNow
      <3>3. Names(c.method) = "assignment" => c.id \in 1..Len(assignments)
        BY <2>2, <2>3
      <3>4. Names(c.method) = "submission" => c.id \in 1..Len(submissions) /\ x.submission = c.id
        BY <2>4, <2>5
      <3>5. Names(c.method) \in {"assignment", "submission"} =>
              x.assignment \in Windows /\ x.assignment \in seen'[p].dates
        <4> SUFFICES ASSUME Names(c.method) \in {"assignment", "submission"}
                     PROVE  x.assignment \in Windows /\ x.assignment \in seen'[p].dates
          OBVIOUS
        <4>1. a # 0
          BY <2>3, <2>4
        <4>2. w \in Windows /\ DatesNow(c) = {w}
          BY <2>2, <4>1 DEF DatesNow
        <4> QED BY <2>5, <2>9, <4>2
      <3> HIDE DEF c
      <3> QED BY <1>0, <2>8, <3>1, <3>2, <3>3, <3>4, <3>5 DEF Sited, world
    <2> HIDE DEF c
    <2> QED BY <1>2, <2>7, <2>8, <2>10, <2>11, <2>12 DEF CallInv
  <1> QED BY <1>3, <1>4, <1>5

\* The checks of calls about a course that come after GetCourseId.
LEMMA AtCourseCheck ==
  ASSUME TypeInv, NEW p \in Calls, CallInv(p),
         NEW f \in {"RequireInCourse", "RequireCourseWrite", "RequireSubmissionRead", "NotAfterDueDate"},
         Checks(p, f)
  PROVE  /\ call[p] # NoCall /\ Ctx(p) \in Contexts /\ LoggedIn(p) /\ Sited(p)
         /\ call[p].method \in CourseMethods
         /\ call[p].method \notin Open \cup Captcha \cup Administration
         /\ f # "RequireInCourse" => Member(p)
         /\ f = "RequireCourseWrite" => call[p].method \in CourseWrites
         /\ f = "RequireSubmissionRead" => call[p].method \in Reading
         /\ f = "NotAfterDueDate" =>
              call[p].method \in Dated /\ (call[p].method \in Reading => Reads(p))
  <1>1. /\ call[p] # NoCall /\ Stage(call[p].left) = f /\ call[p].method \in Methods
        /\ Ctx(p) \in Contexts
        /\ After(call[p].method, f, Stage(Tail(call[p].left)))
    BY AtCheck DEF TypeInv
  <1>2. call[p].method \in CourseMethods /\ call[p].method \notin Open \cup Captcha \cup Administration
    BY <1>1, Classes DEF After
  <1>3. /\ f = "RequireCourseWrite" => call[p].method \in CourseWrites
        /\ f = "RequireSubmissionRead" => call[p].method \in Reading
        /\ f = "NotAfterDueDate" => call[p].method \in Dated
    BY <1>1, <1>2 DEF After, Reading
  <1> QED BY <1>1, <1>2, <1>3 DEF CallInv

LEMMA MemberCheck ==
  ASSUME TypeInv, NEW p \in Calls, CallInv(p), RequireInCourse(p)
  PROVE  Alone(p) /\ CallInv(p)'
  <1> DEFINE u == Ctx(p).user
             k == Ctx(p).course
             x == [Ctx(p) EXCEPT !.member = role[u][k]]
  <1>0. CallsOK /\ WorldOK /\ Checks(p, "RequireInCourse") /\ UNCHANGED <<world, now, calls>> /\ Watch
    BY DEF TypeInv, RequireInCourse, Check
  <1>1. /\ call[p] # NoCall /\ Ctx(p) \in Contexts /\ LoggedIn(p) /\ Sited(p)
        /\ call[p].method \in CourseMethods
        /\ call[p].method \notin Open \cup Captcha \cup Administration
    BY <1>0, AtCourseCheck
  <1>2. u \in Users /\ u # 0 /\ k \in Courses /\ k # 0
    BY <1>0, <1>1, LoggedInUser DEF Sited, Courses
  <1>3. Has(Ctx(p), {"user", "course"})
    BY <1>2, HasKeys
  <1>4. Refuse(p) \/ (role[u][k] # "none" /\ Pass(p, x))
    BY <1>2, <1>3 DEF RequireInCourse, Check
  <1>5. CASE Refuse(p)
    BY <1>0, <1>5, RefuseKeeps
  <1>6. CASE role[u][k] # "none" /\ Pass(p, x)
    <2>1. role[u][k] \in Roles /\ k <= courses
      BY <1>0, <1>2, <1>6 DEF WorldOK
    <2>2. <<k, role[u][k]>> \in RolesNow(call[p].token.user)
      BY <1>1, <1>2 DEF RolesNow, LoggedIn
    <2>3. x \in Contexts /\ x.member = role[u][k] /\ x.course = k /\ x.user = u
          /\ x.submission = Ctx(p).submission /\ x.assignment = Ctx(p).assignment
      BY <1>1, <2>1 DEF Contexts
    <2> HIDE DEF x, u, k
    <2>4. Alone(p)
      BY <1>0, <1>6, <2>3, PassKeeps DEF Alone
    <2>5. /\ call'[p] # NoCall /\ call'[p].method = call[p].method /\ Ctx(p)' = x
          /\ LeftOK(call'[p].method, call'[p].left) /\ call'[p].id \in IdsOf(Names(call'[p].method))
          /\ After(call'[p].method, "RequireInCourse", Stage(call'[p].left))
          /\ LoggedIn(p)' /\ Sited(p)'
      BY <1>0, <1>1, <1>6, <2>3, PassKeeps DEF u, k
    <2>6. Member(p)'
      <3>1. <<k, role[u][k]>> \in seen'[p].roles
        BY <1>0, <1>1, <2>2, <2>5, WatchGrows
      <3> QED BY <1>0, <2>1, <2>3, <2>5, <3>1 DEF Member, world
    <2>7. /\ call[p].method \in CourseWrites => Stage(call'[p].left) # "handler"
          /\ call[p].method \in Reading => Stage(call'[p].left) = "RequireSubmissionRead"
          /\ call[p].method \in Dated => Stage(call'[p].left) # "handler"
      BY <1>1, <2>5, CourseClasses DEF After, Reading, Dated
    <2> QED BY <1>1, <2>4, <2>5, <2>6, <2>7 DEF CallInv
  <1> QED BY <1>4, <1>5, <1>6

LEMMA WriteCheck ==
  ASSUME TypeInv, NEW p \in Calls, CallInv(p), RequireCourseWrite(p)
  PROVE  Alone(p) /\ CallInv(p)'
  <1>0. CallsOK /\ WorldOK /\ Checks(p, "RequireCourseWrite") /\ UNCHANGED <<world, now, calls>> /\ Watch
    BY DEF TypeInv, RequireCourseWrite, Check
  <1>1. /\ call[p] # NoCall /\ Ctx(p) \in Contexts /\ LoggedIn(p) /\ Sited(p) /\ Member(p)
        /\ call[p].method \in CourseMethods /\ call[p].method \in CourseWrites
        /\ call[p].method \notin Open \cup Captcha \cup Administration
    BY <1>0, AtCourseCheck
  <1>2. Has(Ctx(p), {"member"})
    BY <1>1, HasKeys DEF Member, Roles
  <1>3. Refuse(p) \/ (Ctx(p).member \in Staff /\ Pass(p, Ctx(p)))
    BY <1>2 DEF RequireCourseWrite, Check
  <1>4. CASE Refuse(p)
    BY <1>0, <1>4, RefuseKeeps
  <1>5. CASE Ctx(p).member \in Staff /\ Pass(p, Ctx(p))
    <2>1. Alone(p)
      BY <1>0, <1>1, <1>5, PassKeeps DEF Alone
    <2>2. /\ call'[p] # NoCall /\ call'[p].method = call[p].method /\ Ctx(p)' = Ctx(p)
          /\ LeftOK(call'[p].method, call'[p].left) /\ call'[p].id \in IdsOf(Names(call'[p].method))
          /\ LoggedIn(p)' /\ Sited(p)' /\ Member(p)'
      BY <1>0, <1>1, <1>5, PassKeeps
    <2>3. call[p].method \notin Reading \cup Dated
      BY <1>1, CourseClasses DEF Reading, Dated
    <2> QED BY <1>1, <1>5, <2>1, <2>2, <2>3 DEF CallInv
  <1> QED BY <1>3, <1>4, <1>5

LEMMA ReadCheck ==
  ASSUME TypeInv, NEW p \in Calls, CallInv(p), RequireSubmissionRead(p)
  PROVE  Alone(p) /\ CallInv(p)'
  <1>0. CallsOK /\ WorldOK /\ Checks(p, "RequireSubmissionRead")
        /\ UNCHANGED <<world, now, calls>> /\ Watch
    BY DEF TypeInv, RequireSubmissionRead, Check
  <1>1. /\ call[p] # NoCall /\ Ctx(p) \in Contexts /\ LoggedIn(p) /\ Sited(p) /\ Member(p)
        /\ call[p].method \in CourseMethods /\ call[p].method \in Reading
        /\ call[p].method \notin Open \cup Captcha \cup Administration
    BY <1>0, AtCourseCheck
  <1>2. Ctx(p).user # 0 /\ Ctx(p).member # "none"
    BY <1>0, <1>1, LoggedInUser DEF Member, Roles
  <1>3. Has(Ctx(p), {}) /\ Has(Ctx(p), {"user"}) /\ Has(Ctx(p), {"user", "member"})
    BY <1>2, HasKeys
  <1>4. \/ Refuse(p)
        \/ (IsSubmitter(p) \/ Ctx(p).member \in Staff) /\ Pass(p, Ctx(p))
    BY <1>3 DEF RequireSubmissionRead, Check
  <1>5. CASE Refuse(p)
    BY <1>0, <1>5, RefuseKeeps
  <1>6. CASE (IsSubmitter(p) \/ Ctx(p).member \in Staff) /\ Pass(p, Ctx(p))
    <2>1. Alone(p)
      BY <1>0, <1>1, <1>6, PassKeeps DEF Alone
    <2>2. Names(call[p].method) = "submission"
      BY <1>1 DEF Reading, Names, SubmissionRequests, SubmissionReads, Activation, AssignmentRequests,
                  CourseReads, CourseWrites, Uploads
    <2>3. Reads(p)
      BY <1>1, <1>6, <2>2 DEF Reads, IsSubmitter, Sited, LoggedIn
    <2>4. /\ call'[p] # NoCall /\ call'[p].method = call[p].method /\ Ctx(p)' = Ctx(p)
          /\ LeftOK(call'[p].method, call'[p].left) /\ call'[p].id \in IdsOf(Names(call'[p].method))
          /\ After(call'[p].method, "RequireSubmissionRead", Stage(call'[p].left))
          /\ LoggedIn(p)' /\ Sited(p)' /\ Member(p)' /\ Reads(p)'
      BY <1>0, <1>1, <1>6, <2>3, PassKeeps
    <2>5. /\ call[p].method \notin CourseWrites
          /\ call[p].method \in Dated => Stage(call'[p].left) # "handler"
      BY <1>1, <2>4, CourseClasses DEF After, Reading, Dated
    <2> QED BY <1>1, <2>1, <2>4, <2>5 DEF CallInv
  <1> QED BY <1>4, <1>5, <1>6

LEMMA DatedNames ==
  ASSUME NEW m \in Dated
  PROVE  Names(m) \in {"assignment", "submission"}
  BY DEF Dated, Names, SubmissionRequests, SubmissionReads, Activation, Submitting,
         AssignmentRequests, CourseReads, CourseWrites, Uploads

LEMMA DateCheck ==
  ASSUME TypeInv, NEW p \in Calls, CallInv(p), NotAfterDueDate(p)
  PROVE  Alone(p) /\ CallInv(p)'
  <1> DEFINE w == Ctx(p).assignment
  <1>0. CallsOK /\ WorldOK /\ Checks(p, "NotAfterDueDate") /\ UNCHANGED <<world, now, calls>> /\ Watch
    BY DEF TypeInv, NotAfterDueDate, Check
  <1>1. /\ call[p] # NoCall /\ Ctx(p) \in Contexts /\ LoggedIn(p) /\ Sited(p) /\ Member(p)
        /\ call[p].method \in CourseMethods /\ call[p].method \in Dated
        /\ call[p].method \in Reading => Reads(p)
        /\ call[p].method \notin Open \cup Captcha \cup Administration
    BY <1>0, AtCourseCheck
  <1>2. Names(call[p].method) \in {"assignment", "submission"}
    BY <1>1, DatedNames
  <1>3. w # <<>> /\ Ctx(p).member # "none"
    <2>1. w \in Windows
      BY <1>1, <1>2 DEF Sited
    <2>2. w # <<>>
      BY <2>1, DatesThere
    <2> QED BY <1>1, <2>2 DEF Member, Roles
  <1>4. Has(Ctx(p), {"member"}) /\ Has(Ctx(p), {"member", "assignment"})
    BY <1>3, HasKeys
  <1>5. Has(Ctx(p), {"member"} \cup IF Ctx(p).member \in Staff THEN {} ELSE {"assignment"})
    <2>1. CASE Ctx(p).member \in Staff
      <3>1. {"member"} \cup {} = {"member"}
        OBVIOUS
      <3> QED BY <1>4, <2>1, <3>1 DEF Has
    <2>2. CASE Ctx(p).member \notin Staff
      BY <1>4, <2>2 DEF Has
    <2> QED BY <2>1, <2>2
  <1>6. \/ Refuse(p)
        \/ /\ Ctx(p).member \in Staff \/ (w[1] <= now /\ now <= w[2])
           /\ Pass(p, Ctx(p))
    BY <1>5 DEF NotAfterDueDate, Check
  <1>7. CASE Refuse(p)
    BY <1>0, <1>7, RefuseKeeps
  <1>8. CASE (Ctx(p).member \in Staff \/ (w[1] <= now /\ now <= w[2])) /\ Pass(p, Ctx(p))
    <2>1. Alone(p)
      BY <1>0, <1>1, <1>8, PassKeeps DEF Alone
    <2>2. /\ call'[p] # NoCall /\ call'[p].method = call[p].method /\ Ctx(p)' = Ctx(p)
          /\ LeftOK(call'[p].method, call'[p].left) /\ call'[p].id \in IdsOf(Names(call'[p].method))
          /\ LoggedIn(p)' /\ Sited(p)' /\ Member(p)' /\ (Reads(p) => Reads(p)')
      BY <1>0, <1>1, <1>8, PassKeeps
    <2>3. now \in seen'[p].times
      BY <1>0, <1>1, <2>2, WatchGrows
    <2>4. InDates(p)'
      BY <1>8, <2>2, <2>3 DEF InDates
    <2>5. call[p].method \notin CourseWrites
      BY <1>1, CourseClasses DEF Dated
    <2> QED BY <1>1, <2>1, <2>2, <2>4, <2>5 DEF CallInv
  <1> QED BY <1>6, <1>7, <1>8

LEMMA AnyCheck ==
  ASSUME TypeInv, NEW p \in Calls, CallInv(p), AuthFunc(p)
  PROVE  Alone(p) /\ CallInv(p)'
  BY SimpleChecks, LoginCheck, SiteCheck, MemberCheck, WriteCheck, ReadCheck, DateCheck DEF AuthFunc

-----------------------------------------------------------------------------
(* Calls that begin, and handlers *)

LEMMA BeginKeeps ==
  ASSUME TypeInv, NEW p \in Calls, Begin(p)
  PROVE  /\ UNCHANGED <<world, now>> /\ Watch /\ calls' \in 0..MaxCalls
         /\ call' \in [Calls -> CallRecords \cup {NoCall}]
         /\ \A q \in Calls \ {p} : call'[q] = call[q]
         /\ CallInv(p)'
  <1>1. PICK m \in MethodsOf[p], t \in tokens \cup {NoToken} :
          \E i \in IdsOf(Names(m)) :
            call' = [call EXCEPT ![p] =
              [method |-> m, id |-> i, token |-> t, left |-> AuthFuncs(m), ctx |-> NoCtx]]
    BY DEF Begin
  <1>2. PICK i \in IdsOf(Names(m)) :
          call' = [call EXCEPT ![p] =
            [method |-> m, id |-> i, token |-> t, left |-> AuthFuncs(m), ctx |-> NoCtx]]
    BY <1>1
  <1> DEFINE c == [method |-> m, id |-> i, token |-> t, left |-> AuthFuncs(m), ctx |-> NoCtx]
  <1>3. m \in Methods
    BY AuthorisationAssumption
  <1>4. i \in Nat
    BY AuthorisationAssumption DEF IdsOf, Courses
  <1>5. LeftOK(m, AuthFuncs(m)) /\ AuthFuncs(m) \in Chains
    BY <1>3, ChainBegins, ChainType
  <1>6. t \in Tokens \cup {NoToken}
    BY DEF TypeInv, WorldOK
  <1>7. NoCtx \in Contexts
    BY DEF NoCtx, Contexts
  <1>8. c \in CallRecords
    BY <1>3, <1>4, <1>5, <1>6, <1>7 DEF CallRecords
  <1>9. c.method = m /\ c.id = i /\ c.left = AuthFuncs(m)
    OBVIOUS
  <1> HIDE DEF c
  <1>10. /\ call' \in [Calls -> CallRecords \cup {NoCall}] /\ call'[p] = c
         /\ \A q \in Calls \ {p} : call'[q] = call[q]
    BY <1>2, <1>8 DEF TypeInv, CallsOK, c
  <1>11. UNCHANGED <<world, now>> /\ Watch /\ calls' \in 0..MaxCalls
    BY AuthorisationAssumption DEF Begin, TypeInv, CallsOK
  <1>12. CallInv(p)'
    <2>1. CASE m \in Open \cup Captcha
      <3>1. m \notin CourseMethods \cup Administration
        BY <1>3, <2>1, Classes
      <3>2. m \notin CourseWrites \cup Reading \cup Dated
        BY <3>1 DEF CourseMethods, Reading, Dated
      <3> QED BY <1>5, <1>9, <1>10, <2>1, <3>1, <3>2 DEF CallInv
    <2>2. CASE m \notin Open \cup Captcha
      <3>1. Stage(AuthFuncs(m)) = "RequireLogin"
        BY <1>3, <2>2, ChainBegins
      <3> QED BY <1>5, <1>9, <1>10, <3>1 DEF CallInv
    <2> QED BY <2>1, <2>2
  <1> QED BY <1>10, <1>11, <1>12

\* What is known of a call whose handler runs.
LEMMA AtHandler ==
  ASSUME TypeInv, NEW p \in Calls, CallInv(p), Authorised(p)
  PROVE  /\ call[p].method \in Methods /\ Ctx(p) \in Contexts /\ call[p].id \in IdsOf(Names(call[p].method))
         /\ call[p].method \notin Open \cup Captcha => LoggedIn(p) /\ Ctx(p).user \in Users
         /\ call[p].method \in CourseMethods => Sited(p) /\ Member(p)
         /\ call[p].method \in CourseWrites => Ctx(p).member \in Staff
         /\ call[p].method \in Reading => Reads(p)
         /\ call[p].method \in Dated => InDates(p)
         /\ call[p].method \in Administration => call[p].token.admin
  <1>1. call[p] # NoCall /\ Stage(call[p].left) = "handler"
    BY DEF Authorised, Stage
  <1>2. call[p].method \in Methods /\ Ctx(p) \in Contexts
    BY <1>1 DEF TypeInv, CallsOK, CallRecords, Ctx
  <1>3. call[p].method \notin Open \cup Captcha => LoggedIn(p)
    BY <1>1 DEF CallInv
  <1>4. LoggedIn(p) => Ctx(p).user \in Users
    BY LoggedInUser DEF TypeInv
  <1> QED BY <1>1, <1>2, <1>3, <1>4 DEF CallInv

\* The handlers that write what the checks read: the end of the call, and ...
LEMMA HandlerEnds ==
  ASSUME TypeInv, NEW p \in Calls, Handler(p), ~Answer(p)
  PROVE  Authorised(p) /\ Refuse(p) /\ Watch /\ UNCHANGED <<now, calls>>
  BY DEF Handler, Login, SetAdmin, CreateCourse, JoinCourse, AddCourseMembers, UpdateCourseMember,
         RemoveCourseMembers, CreateAssignment, UpdateAssignment, CreateSubmission, CreateManifest,
         Handle

\* ... a world that has its type and has lost nothing.
LEMMA LoginWorld ==
  ASSUME WorldOK, NEW p \in Calls, Login(p) \/ SetAdmin(p)
  PROVE  WorldOK' /\ Grows
  <1>1. UNCHANGED <<role, courses, assignments, submissions, manifests>>
    BY DEF Login, SetAdmin
  <1>2. /\ Len(assignments) \in Nat /\ Len(submissions) \in Nat /\ courses \in Nat
    BY DEF WorldOK, Courses
  <1>3. /\ tokens \subseteq tokens' /\ tokens' \subseteq Tokens
        /\ admins' \subseteq Users /\ Root \in admins'
    <2>1. CASE Login(p)
      <3>1. PICK u \in Users : tokens' = tokens \cup {[user |-> u, admin |-> u \in admins]}
        BY <2>1 DEF Login
      <3>2. [user |-> u, admin |-> u \in admins] \in Tokens
        <4>1. (u \in admins) \in BOOLEAN
          OBVIOUS
        <4> QED BY <4>1 DEF Tokens
      <3> QED BY <2>1, <3>1, <3>2 DEF Login, WorldOK
    <2>2. CASE SetAdmin(p)
      BY <2>2 DEF SetAdmin, WorldOK
    <2> QED BY <2>1, <2>2
  <1> QED BY <1>1, <1>2, <1>3 DEF WorldOK, Grows

\* A role is set in a course that exists.
LEMMA RoleSet ==
  ASSUME WorldOK, NEW u \in Users, NEW c \in Courses, NEW r \in Roles \cup {"none"},
         SetRole(u, c, r), courses' \in Courses, courses <= courses', r # "none" => c <= courses'
  PROVE  WorldOK' /\ Grows
  <1>1. /\ Len(assignments) \in Nat /\ Len(submissions) \in Nat /\ courses \in Nat /\ courses' \in Nat
    BY DEF WorldOK, Courses
  <1>2. UNCHANGED <<admins, tokens, assignments, submissions, manifests>>
    BY DEF SetRole
  <1>3. role' \in [Users -> [Courses -> Roles \cup {"none"}]]
    BY DEF SetRole, WorldOK
  <1>4. ASSUME NEW v \in Users, NEW d \in Courses, role'[v][d] # "none" PROVE d <= courses'
    <2>1. d \in Nat
      BY DEF Courses
    <2>2. CASE v = u /\ d = c
      <3>1. role'[v][d] = r
        BY <2>2 DEF SetRole, WorldOK
      <3> QED BY <1>4, <2>2, <3>1
    <2>3. CASE ~(v = u /\ d = c)
      <3>1. role'[v][d] = role[v][d]
        BY <2>3 DEF SetRole, WorldOK
      <3>2. d <= courses
        BY <1>4, <3>1 DEF WorldOK
      <3> QED BY <1>1, <2>1, <3>2
    <2> QED BY <2>2, <2>3
  <1>5. \A a \in 1..Len(assignments) : assignments[a].course \in 0..courses'
    BY <1>1 DEF WorldOK
  <1> QED BY <1>1, <1>2, <1>3, <1>4, <1>5 DEF WorldOK, Grows

\* The kinds of the methods whose handlers write what the checks read.
LEMMA Writers ==
  /\ \A m \in {"AddCourseMembers", "UpdateCourseMember", "RemoveCourseMembers", "CreateAssignment"} :
       m \in CourseWrites /\ Names(m) = "course"
  /\ "UpdateAssignment" \in CourseWrites /\ Names("UpdateAssignment") = "assignment"
  /\ "CreateSubmission" \in Submitting /\ Names("CreateSubmission") = "assignment"
  /\ "CreateManifest" \in Submitting /\ "JoinCourse" \in Personal
  /\ "CreateCourse" \in Administration /\ "SetAdmin" \in Administration
  <1>1. /\ "CreateManifest" \in Submitting /\ "JoinCourse" \in Personal
        /\ "CreateCourse" \in Administration /\ "SetAdmin" \in Administration
        /\ "UpdateAssignment" \in CourseWrites /\ "CreateSubmission" \in Submitting
    BY DEF Submitting, Personal, Administration, CourseWrites
  <1>2. Names("UpdateAssignment") = "assignment" /\ Names("CreateSubmission") = "assignment"
    <2>1. /\ {"UpdateAssignment", "CreateSubmission"} \subseteq AssignmentRequests
          /\ {"UpdateAssignment", "CreateSubmission"} \cap SubmissionRequests = {}
          /\ {"UpdateAssignment", "CreateSubmission"} \cap Uploads = {}
      BY DEF AssignmentRequests, SubmissionRequests, SubmissionReads, Activation, Uploads
    <2> QED BY <2>1 DEF Names
  <1>3. ASSUME NEW m \in {"AddCourseMembers", "UpdateCourseMember", "RemoveCourseMembers", "CreateAssignment"}
        PROVE  m \in CourseWrites /\ Names(m) = "course"
    <2>1. m \in CourseWrites /\ m \notin AssignmentRequests /\ m \notin SubmissionRequests /\ m \notin Uploads
      BY DEF CourseWrites, AssignmentRequests, SubmissionRequests, SubmissionReads, Activation, Uploads
    <2> QED BY <2>1 DEF Names
  <1> QED BY <1>1, <1>2, <1>3

LEMMA MethodKinds ==
  /\ CourseWrites \cup Submitting \cup CourseReads \cup SubmissionReads \cup Activation \subseteq CourseMethods
  /\ (CourseMethods \cup Administration \cup Personal \cup Uploads) \cap (Open \cup Captcha) = {}
  BY DEF CourseMethods, CourseWrites, Submitting, CourseReads, SubmissionReads, Activation,
         Administration, Personal, Uploads, Open, Captcha

LEMMA NamedIn ==
  ASSUME NEW m \in Methods, Names(m) \in {"course", "assignment", "submission"}
  PROVE  m \in CourseMethods
  <1>1. m \in AssignmentRequests \cup SubmissionRequests \cup CourseReads \cup CourseWrites
    BY DEF Names
  <1>2. AssignmentRequests \cup SubmissionRequests \subseteq CourseMethods
    BY DEF AssignmentRequests, SubmissionRequests, CourseMethods, CourseReads, Submitting,
           CourseWrites, SubmissionReads, Activation
  <1> QED BY <1>1, <1>2, MethodKinds

LEMMA RoleWorld ==
  ASSUME TypeInv, NEW p \in Calls, CallInv(p),
         \/ CreateCourse(p) \/ JoinCourse(p) \/ AddCourseMembers(p) \/ UpdateCourseMember(p)
         \/ RemoveCourseMembers(p)
  PROVE  WorldOK' /\ Grows
  <1>0. WorldOK /\ courses \in Courses
    BY DEF TypeInv, WorldOK
  <1>4. courses \in Nat /\ courses >= 1 /\ courses <= MaxCourses
    BY <1>0 DEF Courses
  <1>1. CASE CreateCourse(p)
    <2>1. Authorised(p) /\ call[p].method = "CreateCourse"
      BY <1>1 DEF CreateCourse, Handle
    <2>2. Ctx(p).user \in Users
      BY <2>1, AtHandler, Writers, MethodKinds
    <2>3. courses' \in Courses /\ courses <= courses'
      BY <1>1, <1>4, AuthorisationAssumption DEF CreateCourse, Courses
    <2>4. SetRole(Ctx(p).user, courses', "Instructor")
      BY <1>1 DEF CreateCourse
    <2> QED BY <1>0, <2>2, <2>3, <2>4, RoleSet DEF Roles, Courses
  <1>2. CASE JoinCourse(p)
    <2>1. Authorised(p) /\ call[p].method = "JoinCourse" /\ courses' = courses
      BY <1>2 DEF JoinCourse, Handle
    <2>2. Ctx(p).user \in Users
      BY <2>1, AtHandler, Writers, MethodKinds
    <2>3. PICK c \in 1..courses : SetRole(Ctx(p).user, c, "Student")
      BY <1>2 DEF JoinCourse
    <2>4. c \in Courses /\ c <= courses
      BY <1>4, AuthorisationAssumption DEF Courses
    <2> QED BY <1>0, <2>1, <2>2, <2>3, <2>4, RoleSet DEF Roles
  <1>3. CASE AddCourseMembers(p) \/ UpdateCourseMember(p) \/ RemoveCourseMembers(p)
    <2>1. /\ Authorised(p) /\ courses' = courses
          /\ call[p].method \in {"AddCourseMembers", "UpdateCourseMember", "RemoveCourseMembers"}
      BY <1>3 DEF AddCourseMembers, UpdateCourseMember, RemoveCourseMembers, Handle
    <2>2. Sited(p) /\ Member(p) /\ Names(call[p].method) = "course"
      BY <2>1, AtHandler, Writers, MethodKinds
    <2>3. call[p].id \in Courses /\ call[p].id <= courses
      BY <2>2 DEF Sited, Member
    <2>4. PICK u \in Users, r \in Roles \cup {"none"} : SetRole(u, call[p].id, r)
      BY <1>3 DEF AddCourseMembers, UpdateCourseMember, RemoveCourseMembers
    <2>5. courses' \in Courses /\ courses <= courses' /\ call[p].id <= courses'
      BY <1>0, <1>4, <2>1, <2>3
    <2> QED BY <1>0, <2>3, <2>4, <2>5, RoleSet
  <1> QED BY <1>1, <1>2, <1>3

LEMMA AssignmentWorld ==
  ASSUME TypeInv, NEW p \in Calls, CallInv(p), CreateAssignment(p) \/ UpdateAssignment(p)
  PROVE  WorldOK' /\ Grows
  <1>0. /\ WorldOK /\ courses \in Nat /\ assignments \in Seq(AssignmentRecords)
        /\ Len(assignments) \in Nat /\ Len(submissions) \in Nat
    BY DEF TypeInv, WorldOK, Courses
  <1>1. /\ UNCHANGED <<admins, tokens, role, courses, submissions, manifests>> /\ Authorised(p)
        /\ call[p].method \in {"CreateAssignment", "UpdateAssignment"}
    BY DEF CreateAssignment, UpdateAssignment, Handle
  <1>2. /\ assignments' \in Seq(AssignmentRecords) /\ Len(assignments) <= Len(assignments')
        /\ \A a \in 1..Len(assignments') : assignments'[a].course \in 0..courses
    <2>1. CASE CreateAssignment(p)
      <3>1. call[p].method = "CreateAssignment"
        BY <2>1 DEF CreateAssignment, Handle
      <3>2. Sited(p) /\ Member(p) /\ Names(call[p].method) = "course"
        BY <1>1, <3>1, AtHandler, Writers, MethodKinds
      <3>3. call[p].id \in 0..courses /\ call[p].id \in Nat
        BY <1>0, <3>2 DEF Sited, Member, Courses
      <3>4. PICK w \in Windows : assignments' = Append(assignments, [course |-> call[p].id, window |-> w])
        BY <2>1 DEF CreateAssignment
      <3> DEFINE n == [course |-> call[p].id, window |-> w]
      <3>5. n \in AssignmentRecords /\ n.course = call[p].id
        BY <3>3 DEF AssignmentRecords
      <3> HIDE DEF n
      <3>6. /\ assignments' \in Seq(AssignmentRecords) /\ Len(assignments') = Len(assignments) + 1
            /\ \A a \in 1..Len(assignments) : assignments'[a] = assignments[a]
            /\ assignments'[Len(assignments) + 1] = n
        BY <1>0, <3>4, <3>5, AppendProperties DEF n
      <3>7. ASSUME NEW a \in 1..Len(assignments') PROVE assignments'[a].course \in 0..courses
        <4>1. CASE a \in 1..Len(assignments)
          BY <1>0, <3>6, <4>1 DEF WorldOK
        <4>2. CASE a = Len(assignments) + 1
          BY <3>3, <3>5, <3>6, <4>2
        <4> QED BY <1>0, <3>6, <4>1, <4>2
      <3> QED BY <1>0, <3>6, <3>7
    <2>2. CASE UpdateAssignment(p)
      <3>1. call[p].method = "UpdateAssignment"
        BY <2>2 DEF UpdateAssignment, Handle
      <3>2. call[p].id \in 1..Len(assignments)
        BY <1>1, <3>1, AtHandler, Writers, MethodKinds DEF Sited
      <3>3. PICK w \in Windows, c \in 0..courses :
              assignments' = [assignments EXCEPT ![call[p].id] = [course |-> c, window |-> w]]
        BY <2>2 DEF UpdateAssignment
      <3> DEFINE n == [course |-> c, window |-> w]
      <3>4. n \in AssignmentRecords /\ n.course = c
        BY <1>0 DEF AssignmentRecords
      <3> HIDE DEF n
      <3>5. /\ assignments' \in Seq(AssignmentRecords) /\ Len(assignments') = Len(assignments)
            /\ \A a \in 1..Len(assignments) :
                 assignments'[a] = IF a = call[p].id THEN n ELSE assignments[a]
        BY <1>0, <3>2, <3>3, <3>4, ExceptSeq DEF n
      <3>6. ASSUME NEW a \in 1..Len(assignments') PROVE assignments'[a].course \in 0..courses
        <4>1. CASE a = call[p].id
          BY <3>4, <3>5, <4>1
        <4>2. CASE a # call[p].id
          BY <1>0, <3>5, <4>2 DEF WorldOK
        <4> QED BY <4>1, <4>2
      <3> QED BY <1>0, <3>5, <3>6
    <2> QED BY <2>1, <2>2
  <1>3. Len(assignments') \in Nat
    BY <1>2
  <1>4. \A s \in 1..Len(submissions') : submissions'[s].assignment \in 1..Len(assignments')
    <2>1. \A s \in 1..Len(submissions) : submissions[s].assignment \in 1..Len(assignments)
      BY <1>0 DEF WorldOK
    <2>2. 1..Len(assignments) \subseteq 1..Len(assignments')
      BY <1>0, <1>2, <1>3
    <2> QED BY <1>1, <2>1, <2>2
  <1>5. WorldOK'
    <2>1. /\ admins \subseteq Users /\ Root \in admins /\ tokens \subseteq Tokens
          /\ role \in [Users -> [Courses -> Roles \cup {"none"}]]
          /\ \A u \in Users, c \in Courses : role[u][c] # "none" => c <= courses
          /\ courses \in Courses /\ submissions \in Seq(SubmissionRecords)
          /\ manifests \in Seq(Users \cup {0})
      BY <1>0 DEF WorldOK
    <2> QED BY <1>1, <1>2, <1>4, <2>1 DEF WorldOK
  <1>6. Grows
    BY <1>0, <1>1, <1>2 DEF Grows
  <1> QED BY <1>5, <1>6

LEMMA SubmissionWorld ==
  ASSUME TypeInv, NEW p \in Calls, CallInv(p), CreateSubmission(p) \/ CreateManifest(p)
  PROVE  WorldOK' /\ Grows
  <1>0. /\ WorldOK /\ courses \in Nat /\ submissions \in Seq(SubmissionRecords)
        /\ manifests \in Seq(Users \cup {0})
        /\ Len(assignments) \in Nat /\ Len(submissions) \in Nat /\ Len(manifests) \in Nat
    BY DEF TypeInv, WorldOK, Courses
  <1>1. UNCHANGED <<admins, tokens, role, courses, assignments>>
    BY DEF CreateSubmission, CreateManifest
  <1>2. CASE CreateSubmission(p)
    <2>1. Authorised(p) /\ call[p].method = "CreateSubmission"
      BY <1>2 DEF CreateSubmission, Handle
    <2>2. call[p].id \in 1..Len(assignments)
      BY <2>1, AtHandler, Writers, MethodKinds DEF Sited
    <2>3. PICK us \in SUBSET Users, m \in 1..Len(manifests) :
            /\ submissions' = Append(submissions, [assignment |-> call[p].id, submitters |-> us])
            /\ manifests' = [manifests EXCEPT ![m] = 0]
      BY <1>2 DEF CreateSubmission
    <2> DEFINE n == [assignment |-> call[p].id, submitters |-> us]
    <2>4. n \in SubmissionRecords /\ n.assignment = call[p].id
      BY <2>2 DEF SubmissionRecords
    <2> HIDE DEF n
    <2>5. /\ submissions' \in Seq(SubmissionRecords) /\ Len(submissions') = Len(submissions) + 1
          /\ \A s \in 1..Len(submissions) : submissions'[s] = submissions[s]
          /\ submissions'[Len(submissions) + 1] = n
      BY <1>0, <2>3, <2>4, AppendProperties DEF n
    <2>6. ASSUME NEW s \in 1..Len(submissions') PROVE submissions'[s].assignment \in 1..Len(assignments)
      <3>1. CASE s \in 1..Len(submissions)
        BY <1>0, <2>5, <3>1 DEF WorldOK
      <3>2. CASE s = Len(submissions) + 1
        BY <2>2, <2>4, <2>5, <3>2
      <3> QED BY <1>0, <2>5, <3>1, <3>2
    <2>7. manifests' \in Seq(Users \cup {0})
      BY <1>0, <2>3, ExceptSeq
    <2> QED BY <1>0, <1>1, <2>5, <2>6, <2>7 DEF WorldOK, Grows
  <1>3. CASE CreateManifest(p)
    <2>1. /\ Authorised(p) /\ call[p].method = "CreateManifest" /\ submissions' = submissions
          /\ manifests' = Append(manifests, Ctx(p).user)
      BY <1>3 DEF CreateManifest, Handle
    <2>2. Ctx(p).user \in Users
      BY <2>1, AtHandler, Writers, MethodKinds
    <2>3. manifests' \in Seq(Users \cup {0})
      BY <1>0, <2>1, <2>2, AppendProperties
    <2> QED BY <1>0, <1>1, <2>1, <2>3 DEF WorldOK, Grows
  <1> QED BY <1>2, <1>3

\* The keys a handler takes are those the checks of its chain have put there.
LEMMA KeysOfHandlers ==
  ASSUME NEW m \in Methods
  PROVE  /\ HandlerKeys(m) \subseteq {"user", "course", "assignment", "submission", "member"}
         /\ "user" \in HandlerKeys(m) => m \notin Open \cup Captcha
         /\ "course" \in HandlerKeys(m) \/ "member" \in HandlerKeys(m) => m \in CourseMethods
         /\ "assignment" \in HandlerKeys(m) => m \in CourseMethods /\ Names(m) = "assignment"
         /\ "submission" \in HandlerKeys(m) => m \in CourseMethods /\ Names(m) = "submission"
  <1> DEFINE S3 == {"GetCourse", "GetAssignment"}
             S4 == {"InspectAllSubmissionsInAssignment", "RegradeAssignment", "ExportAssignmentGrades"}
             S5 == {"GetFilesInSubmission", "InitDownload", "ActivateSubmission", "RegradeSubmission"}
             S6 == {"InitUpload", "GetSubmissionsInAssignment", "RemoveCourseMembers", "CreateCourse",
                    "SetAdmin", "GetAssignmentsInCourse"} \cup Personal
  <1>1. CASE m = "CreateSubmission"
    <2>1. HandlerKeys(m) = {"user", "member", "assignment", "course"}
      BY <1>1 DEF HandlerKeys, Personal
    <2>2. m \in Submitting /\ Names(m) = "assignment"
      BY <1>1, Writers
    <2> QED BY <2>1, <2>2, MethodKinds
  <1>2. CASE m = "CreateManifest"
    <2>1. HandlerKeys(m) = {"user", "assignment"}
      BY <1>2 DEF HandlerKeys, Personal
    <2>2. m \in Submitting
      BY <1>2, Writers
    <2>3. m \in AssignmentRequests /\ m \notin SubmissionRequests /\ m \notin Uploads
      BY <1>2 DEF AssignmentRequests, SubmissionRequests, SubmissionReads, Activation, Uploads
    <2>4. Names(m) = "assignment"
      BY <2>3 DEF Names
    <2> QED BY <2>1, <2>2, <2>4, MethodKinds
  <1>3. CASE m = "GetLeaderboard"
    <2>1. HandlerKeys(m) = {"user", "member"}
      BY <1>3 DEF HandlerKeys, Personal
    <2>2. m \in CourseReads
      BY <1>3 DEF CourseReads
    <2> QED BY <2>1, <2>2, MethodKinds
  <1>4. CASE m \in S3
    <2>1. HandlerKeys(m) = {"member"}
      BY <1>4 DEF HandlerKeys, Personal
    <2>2. m \in CourseReads
      BY <1>4 DEF CourseReads
    <2> QED BY <2>1, <2>2, MethodKinds
  <1>5. CASE m \in S4
    <2>1. HandlerKeys(m) = {"course"}
      BY <1>5 DEF HandlerKeys, Personal
    <2>2. m \in CourseWrites
      BY <1>5 DEF CourseWrites
    <2> QED BY <2>1, <2>2, MethodKinds
  <1>6. CASE m \in S5
    <2>1. HandlerKeys(m) = {"submission"}
      BY <1>6 DEF HandlerKeys, Personal
    <2>2. m \in CourseWrites \cup SubmissionReads \cup Activation
      BY <1>6 DEF CourseWrites, SubmissionReads, Activation
    <2>3. m \in SubmissionRequests /\ m \notin AssignmentRequests /\ m \notin Uploads
      BY <1>6 DEF AssignmentRequests, SubmissionRequests, SubmissionReads, Activation, Uploads
    <2>4. Names(m) = "submission"
      BY <2>3 DEF Names
    <2> QED BY <2>1, <2>2, <2>4, MethodKinds
  <1>7. CASE m \in S6
    <2>1. HandlerKeys(m) = {"user"}
      BY <1>7 DEF HandlerKeys, Personal
    <2>2. m \notin Open \cup Captcha
      BY <1>7 DEF Open, Captcha, Personal
    <2> QED BY <2>1, <2>2
  <1>8. CASE m \notin {"CreateSubmission", "CreateManifest", "GetLeaderboard"} \cup S3 \cup S4 \cup S5 \cup S6
    <2>1. HandlerKeys(m) = {}
      BY <1>8 DEF HandlerKeys
    <2> QED BY <2>1
  <1> QED BY <1>1, <1>2, <1>3, <1>4, <1>5, <1>6, <1>7, <1>8

LEMMA HandlerHasKeys ==
  ASSUME TypeInv, NEW p \in Calls, CallInv(p), Authorised(p)
  PROVE  Has(Ctx(p), HandlerKeys(call[p].method))
  <1> DEFINE m == call[p].method
  <1>1. /\ m \in Methods /\ Ctx(p) \in Contexts /\ call[p].id \in IdsOf(Names(m))
        /\ m \notin Open \cup Captcha => LoggedIn(p) /\ Ctx(p).user \in Users
        /\ m \in CourseMethods => Sited(p) /\ Member(p)
    BY AtHandler
  <1>2. m \notin Open \cup Captcha => Ctx(p).user # 0
    BY <1>1, LoggedInUser DEF TypeInv
  <1>3. m \in CourseMethods => Ctx(p).course # 0 /\ Ctx(p).member # "none"
    BY <1>1 DEF Sited, Member, Courses, Roles
  <1>4. m \in CourseMethods /\ Names(m) = "assignment" => Ctx(p).assignment # <<>>
    <2> SUFFICES ASSUME m \in CourseMethods, Names(m) = "assignment" PROVE Ctx(p).assignment # <<>>
      OBVIOUS
    <2>1. Ctx(p).assignment \in Windows
      BY <1>1 DEF Sited
    <2> QED BY <2>1, DatesThere
  <1>5. m \in CourseMethods /\ Names(m) = "submission" => Ctx(p).submission # 0
    BY <1>1 DEF Sited
  <1> HIDE DEF m
  <1>6. Has(Ctx(p), HandlerKeys(m))
    BY <1>1, <1>2, <1>3, <1>4, <1>5, KeysOfHandlers, HasKeys
  <1> QED BY <1>6 DEF m

-----------------------------------------------------------------------------
(* The invariant *)

LEMMA InvInit == Init => Inv
  <1> SUFFICES ASSUME Init PROVE Inv
    OBVIOUS
  <1>1. PICK w \in Windows : assignments = <<[course |-> 1, window |-> w]>>
    BY DEF Init
  <1>2. WorldOK
    <2>1. {Root, Instructor, Student} \subseteq Users /\ Users \subseteq Nat \ {0} /\ 1 \in Courses
      BY AuthorisationAssumption DEF Courses
    <2>2. tokens \subseteq Tokens
      <3> SUFFICES ASSUME NEW u \in {Root, Instructor, Student}
                   PROVE  [user |-> u, admin |-> u \in everAdmin] \in Tokens
        BY DEF Init
      <3>1. (u \in everAdmin) \in BOOLEAN
        OBVIOUS
      <3> QED BY <2>1, <3>1 DEF Tokens
    <2>3. /\ role \in [Users -> [Courses -> Roles \cup {"none"}]]
          /\ \A u \in Users, c \in Courses : role[u][c] # "none" => c <= courses
      BY DEF Init, Roles, Courses
    <2>4. /\ assignments \in Seq(AssignmentRecords) /\ Len(assignments) = 1
          /\ assignments[1].course = 1
      <3>1. [course |-> 1, window |-> w] \in AssignmentRecords
        BY DEF AssignmentRecords
      <3> QED BY <1>1, <3>1
    <2>5. /\ submissions \in Seq(SubmissionRecords) /\ Len(submissions) = 1
          /\ submissions[1].assignment = 1
      <3>1. [assignment |-> 1, submitters |-> {Student}] \in SubmissionRecords
        BY <2>1 DEF SubmissionRecords
      <3> QED BY <3>1 DEF Init
    <2>6. manifests \in Seq(Users \cup {0})
      BY <2>1 DEF Init
    <2>7. admins \subseteq Users /\ Root \in admins /\ courses = 1
      BY <2>1 DEF Init
    <2>8. /\ \A a \in 1..Len(assignments) : assignments[a].course \in 0..courses
          /\ \A s \in 1..Len(submissions) : submissions[s].assignment \in 1..Len(assignments)
      BY <2>4, <2>5, <2>7
    <2>9. courses \in Courses
      BY <2>1, <2>7
    <2> QED BY <2>2, <2>3, <2>4, <2>5, <2>6, <2>7, <2>8, <2>9 DEF WorldOK
  <1>3. CallsOK /\ \A p \in Calls : CallInv(p)
    BY AuthorisationAssumption DEF Init, CallsOK, CallInv
  <1>4. TokenInv
    <2> SUFFICES ASSUME NEW t \in tokens, t.admin PROVE t.user \in everAdmin
      BY DEF TokenInv
    <2>1. PICK u \in {Root, Instructor, Student} : t = [user |-> u, admin |-> u \in everAdmin]
      BY DEF Init
    <2>2. t.user = u /\ t.admin = (u \in everAdmin)
      BY <2>1
    <2> QED BY <2>2
  <1> QED BY <1>2, <1>3, <1>4 DEF Inv, TypeInv

\* A step of the call p: its own state, and what the world keeps for the others.
LEMMA CallStep ==
  ASSUME Inv, NEW p \in Calls, Begin(p) \/ AuthFunc(p) \/ Handler(p)
  PROVE  /\ WorldOK' /\ CallsOK' /\ Grows /\ Watch /\ CallInv(p)'
         /\ \A q \in Calls \ {p} : call'[q] = call[q]
  <1>0. TypeInv /\ WorldOK /\ CallsOK /\ CallInv(p)
    BY DEF Inv, TypeInv
  <1>1. UNCHANGED world => WorldOK' /\ Grows
    <2> SUFFICES ASSUME UNCHANGED world PROVE WorldOK' /\ Grows
      OBVIOUS
    <2>1. WorldOK'
      BY <1>0 DEF WorldOK, world
    <2>2. Len(assignments) \in Nat /\ Len(submissions) \in Nat /\ courses \in Nat
      BY <1>0 DEF WorldOK, Courses
    <2> QED BY <2>1, <2>2 DEF Grows, world
  <1>2. CASE Begin(p)
    BY <1>0, <1>1, <1>2, BeginKeeps DEF CallsOK
  <1>3. CASE AuthFunc(p)
    BY <1>0, <1>1, <1>3, AnyCheck DEF Alone, CallsOK
  <1>4. CASE Handler(p) /\ ~Answer(p)
    <2>1. Authorised(p) /\ Refuse(p) /\ Watch /\ UNCHANGED <<now, calls>>
      BY <1>0, <1>4, HandlerEnds
    <2>2. CallsOK' /\ CallInv(p)' /\ \A q \in Calls \ {p} : call'[q] = call[q]
      BY <1>0, <2>1, Refused DEF CallsOK, CallInv
    <2>3. WorldOK' /\ Grows
      BY <1>0, <1>4, LoginWorld, RoleWorld, AssignmentWorld, SubmissionWorld DEF Handler
    <2> QED BY <2>1, <2>2, <2>3
  <1>5. CASE Answer(p)
    <2>1. Refuse(p) /\ UNCHANGED <<world, now, calls>> /\ Watch
      BY <1>0, <1>5, HandlerHasKeys DEF Answer
    <2> QED BY <1>0, <1>1, <2>1, RefuseKeeps DEF Alone, CallsOK
  <1> QED BY <1>2, <1>3, <1>4, <1>5

\* A token that a step signs says administrator of those who are one then.
LEMMA TokensSigned ==
  ASSUME NEW p \in Calls, Begin(p) \/ AuthFunc(p) \/ Handler(p)
  PROVE  \A t \in tokens' : t \in tokens \/ (t.admin => t.user \in admins)
  <1> USE DEF world
  <1>1. CASE Begin(p)
    BY <1>1 DEF Begin
  <1>2. CASE AuthFunc(p)
    BY <1>2 DEF AuthFunc, NoopAuth, RequireCaptcha, RequireLogin, GetCourseId, RequireInCourse,
                RequireAdmin, CheckManifest, RequireCourseWrite, RequireSubmissionRead,
                NotAfterDueDate, Check
  <1>3. CASE Login(p)
    <2>1. PICK u \in Users : tokens' = tokens \cup {[user |-> u, admin |-> u \in admins]}
      BY <1>3 DEF Login
    <2>2. ASSUME NEW t, t = [user |-> u, admin |-> u \in admins], t.admin
          PROVE  t.user \in admins
      BY <2>2
    <2> QED BY <2>1, <2>2
  <1>4. CASE Handler(p) /\ ~Login(p)
    BY <1>4 DEF Handler, SetAdmin, CreateCourse, JoinCourse, AddCourseMembers, UpdateCourseMember,
                RemoveCourseMembers, SetRole, CreateAssignment, UpdateAssignment, CreateSubmission,
                CreateManifest, Answer
  <1> QED BY <1>1, <1>2, <1>3, <1>4

LEMMA InvStep == Inv /\ [Next]_vars => Inv'
  <1> SUFFICES ASSUME Inv, [Next]_vars PROVE Inv'
    OBVIOUS
  <1>0. TypeInv /\ WorldOK /\ CallsOK /\ TokenInv /\ \A q \in Calls : CallInv(q)
    BY DEF Inv, TypeInv
  <1>1. ASSUME NEW p \in Calls, Begin(p) \/ AuthFunc(p) \/ Handler(p) PROVE Inv'
    <2>1. /\ WorldOK' /\ CallsOK' /\ Grows /\ Watch /\ CallInv(p)'
          /\ \A q \in Calls \ {p} : call'[q] = call[q]
      BY <1>1, CallStep
    <2>2. ASSUME NEW q \in Calls \ {p} PROVE CallInv(q)'
      BY <1>0, <2>1, CallKeeps DEF TypeInv
    <2>3. TokenInv'
      BY <1>0, <1>1, <2>1, TokensSigned DEF TokenInv, Watch
    <2> QED BY <2>1, <2>2, <2>3 DEF Inv, TypeInv
  <1>2. CASE Tick
    <2>1. WorldOK' /\ Grows
      <3>1. UNCHANGED world
        BY <1>2 DEF Tick
      <3>2. Len(assignments) \in Nat /\ Len(submissions) \in Nat /\ courses \in Nat
        BY <1>0 DEF WorldOK, Courses
      <3>3. WorldOK'
        BY <1>0, <3>1 DEF WorldOK, world
      <3> QED BY <3>1, <3>2, <3>3 DEF Grows, world
    <2>2. CallsOK' /\ Watch /\ call' = call /\ tokens' = tokens
      BY <1>0, <1>2, AuthorisationAssumption DEF CallsOK, Tick, world
    <2>3. ASSUME NEW q \in Calls PROVE CallInv(q)'
      BY <1>0, <2>1, <2>2, CallKeeps DEF TypeInv
    <2>4. TokenInv'
      BY <1>0, <2>2 DEF TokenInv, Watch
    <2> QED BY <2>1, <2>2, <2>3, <2>4 DEF Inv, TypeInv
  <1>3. CASE UNCHANGED vars
    <2>1. WorldOK' /\ CallsOK'
      BY <1>0, <1>3 DEF WorldOK, CallsOK, vars, world
    <2>2. ASSUME NEW q \in Calls PROVE CallInv(q)'
      BY <1>0, <1>3 DEF CallInv, LoggedIn, Sited, Member, Reads, InDates, Ctx, vars, world
    <2>3. TokenInv'
      BY <1>0, <1>3 DEF TokenInv, vars, world
    <2> QED BY <2>1, <2>2, <2>3 DEF Inv, TypeInv
  <1> QED BY <1>1, <1>2, <1>3 DEF Next

-----------------------------------------------------------------------------
(* Theorems *)

\* The state of the checks is as the invariant says at every moment of every
\* run: what the context of a call holds at each check of its chain (AuthFunc),
\* and whom the tokens name (signLoginToken).
THEOREM ChecksKeepTheirWord == Spec => []Inv
  BY InvInit, InvStep, PTL DEF Spec

\* Every variable has its type, and an assignment is in a course that exists or
\* in none (createAssignment, UpdateAssignment).
THEOREM TypesHold == Spec => []TypeOK
  <1>1. Inv => TypeOK
    <2> SUFFICES ASSUME Inv PROVE TypeOK
      OBVIOUS
    <2>1. \A m \in 1..Len(manifests) : manifests[m] \in Users \cup {0}
      <3>1. manifests \in Seq(Users \cup {0})
        BY DEF Inv, TypeInv, WorldOK
      <3> QED BY <3>1
    <2> QED BY <2>1 DEF Inv, TypeInv, WorldOK, CallsOK, TypeOK, Tokens
  <1> QED BY <1>1, ChecksKeepTheirWord, PTL

\* No check and no handler takes a value that no earlier check of the chain has
\* put into the context: none of the type assertions of interceptor.go and of
\* the handlers can fail, whatever other calls change meanwhile.
THEOREM KeysAreThere == Spec => []NoMissingKey
  <1>1. Inv => NoMissingKey
    <2> SUFFICES ASSUME Inv, NEW p \in Calls, Checks(p, "panic") PROVE FALSE
      BY DEF NoMissingKey
    <2>1. call[p].method \in Methods /\ After(call[p].method, "panic", Stage(Tail(call[p].left)))
      BY AtCheck DEF Inv, TypeInv
    <2> QED BY <2>1, Classes DEF After
  <1> QED BY <1>1, ChecksKeepTheirWord, PTL

\* The handler of a method about a course, an assignment or a submission runs
\* only for those who were entitled to that object during the call: a member of
\* the course it was in, one of its staff if the method changes the course, a
\* submitter or staff for a submission (RequireInCourse, RequireCourseWrite,
\* RequireSubmissionRead).
THEOREM AccessIsEarned == Spec => []ObjectAccess
  <1>1. Inv => ObjectAccess
    <2> SUFFICES ASSUME Inv, NEW p \in Calls, Authorised(p)
                 PROVE  /\ Names(call[p].method) \in {"course", "assignment", "submission"} => Held(p, Roles)
                        /\ call[p].method \in CourseWrites => Held(p, Staff)
                        /\ call[p].method \in SubmissionReads \cup Activation =>
                             call[p].token.user \in submissions[call[p].id].submitters \/ Held(p, Staff)
      BY DEF ObjectAccess, CourseAccess, SubmissionAccess
    <2>1. /\ call[p].method \in CourseMethods => Sited(p) /\ Member(p)
          /\ call[p].method \in CourseWrites => Ctx(p).member \in Staff
          /\ call[p].method \in Reading => Reads(p)
          /\ call[p].method \in Methods
      BY AtHandler DEF Inv
    <2>2. ASSUME NEW roles, Sited(p), Member(p), Ctx(p).member \in roles PROVE Held(p, roles)
      BY <2>2 DEF Sited, Member, Held
    <2>3. Names(call[p].method) \in {"course", "assignment", "submission"} => call[p].method \in CourseMethods
      BY <2>1, NamedIn
    <2>4. Sited(p) /\ Member(p) => Held(p, Roles)
      BY <2>2 DEF Member
    <2> QED BY <2>1, <2>2, <2>3, <2>4, MethodKinds DEF Reads, Reading
  <1> QED BY <1>1, ChecksKeepTheirWord, PTL

\* A student starts a submission or chooses the one that counts only in a call
\* during which the time lay within dates the assignment had during the call
\* (NotAfterDueDate).
THEOREM DatesAreKept == Spec => []WithinDates
  <1>1. Inv => WithinDates
    <2> SUFFICES ASSUME Inv, NEW p \in Calls, Authorised(p),
                        call[p].method \in Submitting \cup Activation
                 PROVE  \/ Held(p, Staff)
                        \/ \E w \in seen[p].dates, t \in seen[p].times : w[1] <= t /\ t <= w[2]
      BY DEF WithinDates
    <2>1. Sited(p) /\ Member(p) /\ InDates(p)
      BY AtHandler, MethodKinds DEF Inv, Dated
    <2>2. Names(call[p].method) \in {"assignment", "submission"}
      BY DatedNames DEF Dated
    <2>3. Ctx(p).assignment \in seen[p].dates
      BY <2>1, <2>2 DEF Sited
    <2> QED BY <2>1, <2>3 DEF InDates, Member, Sited, Held
  <1> QED BY <1>1, ChecksKeepTheirWord, PTL

\* The handlers of administration run only for users who have been
\* administrators: no sequence of logins and SetAdmin calls leads a token to
\* say IsAdmin of anyone else (RequireAdmin, signLoginToken).
THEOREM OnlyAdministrators == Spec => []AdminCalls
  <1>1. Inv => AdminCalls
    <2> SUFFICES ASSUME Inv, NEW p \in Calls, Authorised(p), call[p].method \in Administration
                 PROVE  call[p].token.user \in everAdmin
      BY DEF AdminCalls
    <2>1. call[p].token.admin /\ LoggedIn(p)
      BY AtHandler, MethodKinds DEF Inv
    <2> QED BY <2>1 DEF Inv, TokenInv, LoggedIn
  <1> QED BY <1>1, ChecksKeepTheirWord, PTL
=============================================================================
