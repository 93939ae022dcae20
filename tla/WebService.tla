----------------------------- MODULE WebService -----------------------------
(***************************************************************************)
(* Accounts, courses and leaderboards together: calls of all kinds         *)
(* interleave, and the server may stop and start again between any two     *)
(* writes.                                                                 *)
(***************************************************************************)
EXTENDS Accounts, Courses, Leaderboards

FirstUsers ==
  <<[User(RootName, RootEmail, "old") EXCEPT !.admin = TRUE],
    User(MemberName, MemberEmail, "old")>>

\* dbInit has created the root user, who has created a course and a join
\* code for it, and a second user is in the course.
Init ==
  /\ users = FirstUsers /\ made = FirstUsers
  /\ nameKey = [n \in Usernames |-> IF n = RootName THEN 1 ELSE IF n = MemberName THEN 2 ELSE 0]
  /\ emailKey = [e \in Emails |-> IF e = RootEmail THEN 1 ELSE IF e = MemberEmail THEN 2 ELSE 0]
  /\ githubKey = [l \in Logins |-> 0]
  /\ code = [t \in Types |-> [e \in Emails |-> 0]]
  /\ issued = 0 /\ expired = {} /\ gcKeys = {} /\ used = {}
  /\ courses = <<[name |-> "first", allows |-> TRUE, joinCode |-> <<1, "x">>]>>
  /\ joinKey = [j \in JoinCodes |-> IF j = <<1, "x">> THEN 1 ELSE 0]
  /\ userCourses = [u \in Ids |-> [c \in Courses |->
       IF c = 1 /\ u = 1 THEN "Instructor" ELSE IF c = 1 /\ u = 2 THEN "Student" ELSE "none"]]
  /\ courseUsers = userCourses
  /\ entries = {} /\ marker = FALSE
  /\ adminTokens = {Root}
  /\ pc = [p \in Calls |-> "idle"]
  /\ op = [p \in Calls |-> NoOp]
  /\ updateMu = NoCall
  /\ calls = 0 /\ restarts = 0 /\ clashed = {}

\* The database and the clients' tokens remain; calls and locks do not.  A
\* restart with no call in progress changes nothing.
Restart ==
  /\ restarts < MaxRestarts
  /\ \E p \in Calls : pc[p] # "idle"
  /\ restarts' = restarts + 1
  /\ pc' = [p \in Calls |-> "idle"]
  /\ op' = [p \in Calls |-> NoOp]
  /\ updateMu' = NoCall
  /\ gcKeys' = {}
  /\ clashed' = clashed \cup UNION {InFlight(p) : p \in Calls}
  /\ UNCHANGED <<userVars, code, issued, expired, used, courseVars, memberVars, adminTokens, calls>>

Next == AccountNext \/ CourseNext \/ LeaderboardNext \/ Restart

Spec == Init /\ [][Next]_vars

-----------------------------------------------------------------------------
(* Properties *)

\* Every variable has its type; an index leads to users that exist.
TypeOK ==
  /\ \A u \in 1..Len(users) :
       users[u].name \in Usernames /\ users[u].email \in Emails /\ users[u].github \in Logins \cup {"none"}
  /\ nameKey \in [Usernames -> 0..Len(users)]
  /\ emailKey \in [Emails -> 0..Len(users)]
  /\ githubKey \in [Logins -> 0..Len(users)]
  /\ \A p \in Calls : op[p].user \in 0..Len(users)
  /\ updateMu \in Calls \cup {NoCall}
  /\ adminTokens \subseteq 1..Len(users)
  /\ userCourses \in [Ids -> [Courses -> Roles \cup {"none"}]]
  /\ courseUsers \in [Ids -> [Courses -> Roles \cup {"none"}]]

\* Every user has a name of their own, and the index by name finds them,
\* although sign-ups, GitHub logins and AddCourseMembers check the name and
\* create the user in separate steps (CreateUser).
NamesUnique == \A u \in 1..Len(users) : nameKey[users[u].name] = u

\* Updates of a user do not undo each other ("concurrent read-modify-write
\* updates ... cannot lose each other's changes", UpdateUserAtomic): the record
\* is what all of them amount to.
NoLostUpdate == users = made

\* A code that was accepted and deleted is not accepted again later, whatever
\* was issued, collected or expired in between (Validate).
UsedCodeGone == \A t \in Types, e \in Emails : code[t][e] \notin used

\* The login a user is bound to leads to that user (BindGithubId), unless two
\* calls about GitHub logins overlapped or a restart cut one short.
BoundLoginLeadsBack ==
  \A u \in 1..Len(users) :
    \/ users[u].github = "none" \/ githubKey[users[u].github] = u
    \/ GithubIndex \in clashed \/ \E p \in Calls : GithubIndex \in InFlight(p)

\* A membership is found under the user and under the course with the same
\* role, unless two calls about it overlapped or a restart cut one short.
MembershipAgrees ==
  \A u \in Ids, c \in Courses :
    \/ userCourses[u][c] = courseUsers[u][c]
    \/ <<u, c>> \in clashed \/ \E p \in Calls : <<u, c>> \in InFlight(p)

\* The join code a course shows leads to the course, even where a concurrent
\* UpdateCourse has written an earlier code back after its index entry was
\* removed (JoinCourse falls back on the id in the code).
JoinCodeResolves ==
  \A c \in CourseIds : courses[c].joinCode # <<>> => CourseOf(courses[c].joinCode) = c

\* There is a leaderboard exactly where there are entries (HasLeaderboard reads
\* a key of its own, which UpdateLeaderboardEntry and DeleteLeaderboardEntry
\* keep in separate writes), unless two calls about it overlapped or a restart
\* cut one short.
MarkedIfListed ==
  \/ marker = (entries # {})
  \/ Leaderboard \in clashed \/ \E p \in Calls : Leaderboard \in InFlight(p)

\* The two keys under which the repositories keep a GitHub login, a membership
\* or the existence of a leaderboard agree, in the cases named above.
TwoKeysAgree == BoundLoginLeadsBack /\ MembershipAgrees /\ MarkedIfListed
=============================================================================
