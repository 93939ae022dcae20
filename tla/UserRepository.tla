--------------------------- MODULE UserRepository ---------------------------
(***************************************************************************)
(* What the web service keeps of accounts and courses, with the operations *)
(* of the repositories (users, verification codes, courses) as they change *)
(* the database, and the calls in progress.  Every write of the database   *)
(* is a step; a batch is one write.                                        *)
(***************************************************************************)
EXTENDS Naturals, Sequences, FiniteSets

CONSTANTS
  Calls,                        \* calls in progress at a time
  Usernames, Emails, Logins,    \* user names, mail addresses, GitHub logins
  RootName, RootEmail,          \* the user that dbInit creates
  MemberName, MemberEmail,      \* a second user, who joined the first course
  Operations,                   \* the kinds of calls clients make
  MaxCalls,                     \* bound: calls
  MaxCodes,                     \* bound: verification codes
  MaxRestarts                   \* bound: restarts of the server

Root    == 1
\* A reader counts as a student, a TA as an instructor: the calls below do not
\* tell them apart.
Roles   == {"Student", "Instructor"}
Types   == {"sign_up", "password_reset"}
\* Ids of users: the two there are and those that calls create.
Ids     == 1..(2 + MaxCalls)
\* Course ids; a join code spells the id of its course and is otherwise random.
Courses   == 1..(1 + MaxCalls)
JoinCodes == Courses \X {"x", "y"}
\* Nobody holds updateMu.
NoCall  == "free"

ASSUME AccountAssumption ==
  /\ NoCall \notin Calls
  /\ RootName \in Usernames /\ MemberName \in Usernames \ {RootName}
  /\ Logins \subseteq Usernames
  /\ RootEmail \in Emails /\ MemberEmail \in Emails \ {RootEmail}
  /\ MaxCalls \in Nat /\ MaxCodes \in Nat /\ MaxRestarts \in Nat

VARIABLES
  \* users by id, and the indexes by name, address and GitHub login (0: no entry)
  users, nameKey, emailKey, githubKey,
  \* the code issued last for a type and an address (0: none) and how many there were;
  \* the keys whose code has expired; keys the garbage collector has found expired
  code, issued, expired, gcKeys,
  \* courses by id, and the index of join codes
  courses, joinKey,
  \* the role of a user in a course, by user and by course ("none": no entry)
  userCourses, courseUsers,
  \* the leaderboard of an assignment of the first course: the users who have an
  \* entry, and whether the key that says there is a leaderboard exists
  entries, marker,
  \* users who hold a login token that says they are administrators
  adminTokens,
  \* the calls; who holds updateMu; calls and restarts so far
  pc, op, updateMu, calls, restarts,
  \* history: the updates made to a user; codes that were accepted; what
  \* overlapping calls, or a restart, have worked on
  made, used, clashed

userVars   == <<users, nameKey, emailKey, githubKey, made>>
codeVars   == <<code, issued, expired, gcKeys, used>>
boardVars  == <<entries, marker>>
courseVars == <<courses, joinKey, boardVars>>
memberVars == <<userCourses, courseUsers>>
callVars   == <<pc, op, updateMu, calls, restarts, clashed>>
vars == <<userVars, codeVars, courseVars, memberVars, adminTokens, callVars>>

User(n, e, pw) == [name |-> n, email |-> e, password |-> pw, nickname |-> "first",
               github |-> "none", admin |-> FALSE]

\* The arguments of a call and what it has read.
NoOp == [kind |-> "none", user |-> 0, course |-> 0, name |-> "", email |-> "",
         login |-> "none", type |-> "none", code |-> 0, old |-> "none", value |-> "none",
         read |-> <<>>]

-----------------------------------------------------------------------------
(* Calls *)

\* Stands for the index by GitHub login among the pairs of a user and a course.
GithubIndex == <<0, 0>>
\* Stands for the leaderboard; a call that is about to create its user works on
\* a pair of 0 and a course.
Leaderboard == <<1, 0>>

\* What two calls must not work on at a time for the two halves of a fact to agree.
Subject(o) ==
  CASE o.kind \in {"join", "add", "member", "remove", "create"} -> {<<o.user, o.course>>}
    [] o.kind \in {"bind", "unbind", "github"}                  -> {GithubIndex}
    [] o.kind \in {"activate", "unlist"}                        -> {Leaderboard}
    [] OTHER                                                    -> {}

InFlight(p) == IF pc[p] = "idle" THEN {} ELSE Subject(op[p])

\* A call goes on at l as o.
Goto(p, l, o) ==
  /\ pc' = [pc EXCEPT ![p] = l]
  /\ op' = [op EXCEPT ![p] = o]
  /\ clashed' = clashed \cup
       UNION {Subject(o) \cap InFlight(q) : q \in IF l = "idle" THEN {} ELSE Calls \ {p}}

\* Where a call can arrive.
Ready == {p \in Calls : pc[p] = "idle" /\ calls < MaxCalls}

Begin(p, l, o) ==
  /\ o.kind \in Operations /\ p \in Ready
  /\ calls' = calls + 1
  /\ Goto(p, l, o)

At(p, l) == pc[p] = l

End(p) == Goto(p, "idle", NoOp)

-----------------------------------------------------------------------------
(* KVUserRepository *)

\* Mutant: the existence check is left to the caller.
CreateUserUnchecked(n, e, pw) ==
  /\ users' = Append(users, User(n, e, pw))
  /\ made' = Append(made, User(n, e, pw))
  /\ nameKey' = [nameKey EXCEPT ![n] = Len(users) + 1]
  /\ emailKey' = [emailKey EXCEPT ![e] = Len(users) + 1]

\* CreateUser, under createMu: nothing is created where the name exists.
CreateUser(n, e, pw) ==
  IF nameKey[n] # 0 THEN UNCHANGED <<users, made, nameKey, emailKey>>
  ELSE /\ users' = Append(users, User(n, e, pw))
       /\ made' = Append(made, User(n, e, pw))
       /\ nameKey' = [nameKey EXCEPT ![n] = Len(users) + 1]
       /\ emailKey' = [emailKey EXCEPT ![e] = Len(users) + 1]

\* What an update makes of the user u it has read.
Mutate(u, o) ==
  CASE o.kind = "nickname"                             -> [u EXCEPT !.nickname = o.value]
    [] o.kind = "password" /\ u.password = o.old       -> [u EXCEPT !.password = o.value]
    [] o.kind = "reset"                                -> [u EXCEPT !.password = o.value]
    [] o.kind = "admin"                                -> [u EXCEPT !.admin = o.value = "yes"]
    [] o.kind \in {"bind", "github"}                   -> [u EXCEPT !.github = o.login]
    [] o.kind = "unbind"                               -> [u EXCEPT !.github = "none"]
    [] OTHER                                           -> u

\* Mutant: the record is read before the lock is taken.
ReadUserUnlocked(p) ==
  /\ At(p, "read")
  /\ Goto(p, "write", [op[p] EXCEPT !.read = users[op[p].user]])
  /\ UNCHANGED <<userVars, codeVars, courseVars, memberVars, adminTokens, updateMu, calls, restarts>>

\* UpdateUserAtomic reads the record, ...
ReadUser(p) ==
  /\ At(p, "read") /\ updateMu = NoCall
  /\ updateMu' = p
  /\ Goto(p, "write", [op[p] EXCEPT !.read = users[op[p].user]])
  /\ UNCHANGED <<userVars, codeVars, courseVars, memberVars, adminTokens, calls, restarts>>

\* ... writes what the update makes of it and unlocks.  BindGithubId and
\* UnbindGithubId go on to the index.
WriteUser(p) ==
  /\ At(p, "write")
  /\ LET o == op[p]
         githubId == o.read.github IN
       /\ users' = [users EXCEPT ![o.user] = Mutate(o.read, o)]
       /\ made' = [made EXCEPT ![o.user] = Mutate(@, o)]
       /\ CASE o.kind \in {"bind", "github"} -> Goto(p, "index", o)
            [] o.kind = "unbind" /\ githubId # "none" ->
                 Goto(p, "unindex", [o EXCEPT !.login = githubId])
            [] OTHER -> End(p)
  /\ updateMu' = NoCall
  /\ UNCHANGED <<nameKey, emailKey, githubKey, codeVars, courseVars, memberVars, adminTokens,
                 calls, restarts>>

\* signLoginToken: whether the token says administrator is up to the caller.
SignLoginToken(u, isAdmin) == adminTokens' = IF isAdmin THEN adminTokens \cup {u} ELSE adminTokens

\* Mutant: the user is signed in without the index entry.
BindIndexSkipped(p) ==
  /\ At(p, "index")
  /\ SignLoginToken(op[p].user, op[p].old = "yes")
  /\ End(p)
  /\ UNCHANGED <<userVars, codeVars, courseVars, memberVars, updateMu, calls, restarts>>

\* The second half of BindGithubId; GithubLogin then signs the user in, as the
\* administrator it read them to be when it began.
BindIndex(p) ==
  /\ At(p, "index")
  /\ githubKey' = [githubKey EXCEPT ![op[p].login] = op[p].user]
  /\ IF op[p].kind = "github" THEN SignLoginToken(op[p].user, op[p].old = "yes") ELSE UNCHANGED adminTokens
  /\ End(p)
  /\ UNCHANGED <<users, nameKey, emailKey, made, codeVars, courseVars, memberVars, updateMu,
                 calls, restarts>>

UnbindIndex(p) ==
  /\ At(p, "unindex")
  /\ githubKey' = [githubKey EXCEPT ![op[p].login] = 0]
  /\ End(p)
  /\ UNCHANGED <<users, nameKey, emailKey, made, codeVars, courseVars, memberVars, adminTokens,
                 updateMu, calls, restarts>>

-----------------------------------------------------------------------------
(* KVVerificationCodeRepository *)

\* Issue replaces the code there was.
Issue(t, e) ==
  /\ issued < MaxCodes
  /\ issued' = issued + 1
  /\ code' = [code EXCEPT ![t][e] = issued + 1]
  /\ expired' = expired \ {<<t, e>>}
  /\ UNCHANGED <<userVars, gcKeys, used, courseVars, memberVars, adminTokens, callVars>>

\* The key is deleted, whatever it holds.
DeleteCode(t, e) ==
  /\ code' = [code EXCEPT ![t][e] = 0]
  /\ expired' = expired \ {<<t, e>>}

\* Mutant: an accepted code stays until it expires.
ValidateKeeps(p) ==
  /\ At(p, "delete")
  /\ used' = used \cup {op[p].code}
  /\ Goto(p, IF op[p].type = "sign_up" THEN "validate" ELSE "lookup", op[p])
  /\ UNCHANGED <<userVars, code, issued, expired, gcKeys, courseVars, memberVars, adminTokens,
                 updateMu, calls, restarts>>

\* Validate has compared the code it read with the one it was given and deletes
\* the key.  A code that has expired ends the call.
ValidateDelete(p) ==
  /\ At(p, "delete")
  /\ DeleteCode(op[p].type, op[p].email)
  /\ IF op[p].value = "expired" THEN End(p) /\ UNCHANGED used
     ELSE /\ used' = used \cup {op[p].code}
          /\ Goto(p, IF op[p].type = "sign_up" THEN "validate" ELSE "lookup",
                  [op[p] EXCEPT !.code = 0])
  /\ UNCHANGED <<userVars, issued, gcKeys, courseVars, memberVars, adminTokens,
                 updateMu, calls, restarts>>

\* Time passes for a code.
Expire ==
  /\ \E t \in Types, e \in Emails :
       /\ code[t][e] # 0 /\ <<t, e>> \notin expired
       /\ expired' = expired \cup {<<t, e>>}
  /\ UNCHANGED <<userVars, code, issued, gcKeys, used, courseVars, memberVars, adminTokens, callVars>>

\* GarbageCollect finds expired codes in a snapshot of the database, and
\* deletes their keys one by one, whatever they hold by then.
CollectCodes ==
  /\ gcKeys = {}
  /\ expired # {}
  /\ gcKeys' = expired
  /\ UNCHANGED <<userVars, code, issued, expired, used, courseVars, memberVars, adminTokens, callVars>>

CollectKey ==
  /\ \E k \in gcKeys :
       /\ DeleteCode(k[1], k[2])
       /\ gcKeys' = gcKeys \ {k}
  /\ UNCHANGED <<userVars, issued, used, courseVars, memberVars, adminTokens, callVars>>
=============================================================================
