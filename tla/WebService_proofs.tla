-------------------------- MODULE WebService_proofs --------------------------
(***************************************************************************)
(* Theorems about WebService, for every number of calls, users, courses,   *)
(* codes and restarts.                                                     *)
(***************************************************************************)
EXTENDS WebService, SequenceTheorems, TLAPS

-----------------------------------------------------------------------------
(* Types *)

\* The values that calls write, read or compare.
Values == {"none", "old", "new", "short", "long", "expired", "first", "second", "yes", "no",
           "x", "y", "Student", "Instructor"}

UserRecords == [name : Usernames, email : Emails, password : Values, nickname : Values,
                github : Logins \cup {"none"}, admin : BOOLEAN]

CourseRecords == [name : Values, allows : BOOLEAN, joinCode : {<<>>} \cup (Nat \X {"x", "y"})]

UpdateKinds == {"reset", "github", "bind", "unbind", "nickname", "password", "admin"}
MemberKinds == {"join", "add", "member", "create"}
RecordKinds == {"rename", "allow", "forbid", "generate"}
Kinds == UpdateKinds \cup MemberKinds \cup RecordKinds
           \cup {"none", "signup", "remove", "activate", "unlist"}

OpRecords == [kind : Kinds, user : Nat, course : Nat, name : Usernames \cup {""},
              email : Emails \cup {""}, login : Logins \cup {"none"},
              type : Types \cup {"none"}, code : Nat, old : Values, value : Values,
              read : UserRecords \cup CourseRecords \cup {<<>>}]

\* Where a call has its user: of n users there are.
WithUser == {"read", "write", "index", "unindex", "known", "addCourse", "addUser",
             "removeCourse", "removeUser", "entry", "mark", "unentry", "count", "unmark"}

Labels == WithUser \cup {"idle", "delete", "lookup", "validate", "create", "addNew",
                         "unbindCode", "update", "bindCode"}

\* The kind and the arguments a call has at l, when there are n users.
OpOK(l, o, n) ==
  /\ o.user \in 0..n
  /\ l \in WithUser => o.user \in 1..n
  /\ l = "idle" => o.kind = "none"
  /\ l = "delete" => o.kind \in {"signup", "reset"} /\ o.type \in Types
  /\ l = "delete" /\ o.kind = "signup" => o.type = "sign_up" /\ o.name \in Usernames
  /\ l = "delete" /\ o.kind = "reset" => o.type = "password_reset"
  /\ l \in {"delete", "lookup", "validate", "create", "addNew"} => o.email \in Emails
  /\ l = "lookup" => o.kind = "reset"
  /\ l \in {"validate", "create"} => o.kind \in {"signup", "github"}
  /\ l \in {"validate", "create", "addNew"} => o.name \in Usernames
  /\ l \in {"read", "write"} => o.kind \in UpdateKinds
  /\ o.kind \in {"bind", "github"} => o.login \in Logins
  /\ l = "write" => o.read \in UserRecords
  /\ l = "index" => o.kind \in {"bind", "github"}
  /\ l = "unindex" => o.kind = "unbind" /\ o.login \in Logins
  /\ l \in {"addNew", "known"} => o.kind = "add"
  /\ l \in {"addCourse", "addUser"} => o.kind \in MemberKinds
  /\ o.kind \in MemberKinds => o.value \in Roles
  /\ l \in {"removeCourse", "removeUser"} => o.kind = "remove"
  /\ l \in {"entry", "mark"} => o.kind = "activate"
  /\ l \in {"unentry", "count", "unmark"} => o.kind = "unlist"
  /\ l = "update" => o.kind \in RecordKinds
  /\ l \in {"unbindCode", "bindCode"} => o.kind = "generate"
  /\ o.kind = "generate" => o.value \in {"x", "y"}
  /\ l \in {"unbindCode", "update"} => o.read \in CourseRecords

CallsOK ==
  /\ pc \in [Calls -> Labels]
  /\ op \in [Calls -> OpRecords]
  /\ \A p \in Calls : OpOK(pc[p], op[p], Len(users))

\* What there is besides the calls.
DataOK ==
  /\ users \in Seq(UserRecords)
  /\ courses \in Seq(CourseRecords)
  /\ nameKey \in [Usernames -> 0..Len(users)]
  /\ emailKey \in [Emails -> 0..Len(users)]
  /\ githubKey \in [Logins -> 0..Len(users)]
  /\ code \in [Types -> [Emails -> Nat]] /\ issued \in Nat
  /\ updateMu \in Calls \cup {NoCall}
  /\ adminTokens \subseteq 1..Len(users)
  /\ userCourses \in [Ids -> [Courses -> Roles \cup {"none"}]]
  /\ courseUsers \in [Ids -> [Courses -> Roles \cup {"none"}]]
  /\ calls \in Nat

TypeInv == DataOK /\ CallsOK

LEMMA NoOpOK ==
  ASSUME NEW n \in Nat
  PROVE  NoOp \in OpRecords /\ OpOK("idle", NoOp, n)
  BY DEF NoOp, OpRecords, OpOK, WithUser, Kinds, MemberKinds, Values

\* A call goes on, and the others are where they were.
LEMMA GotoKeeps ==
  ASSUME CallsOK, NEW p \in Calls, NEW l \in Labels, NEW o \in OpRecords, Goto(p, l, o),
         OpOK(l, o, Len(users')), Len(users) \in Nat, Len(users') \in Nat,
         Len(users) <= Len(users')
  PROVE  CallsOK'
  <1>1. pc' \in [Calls -> Labels] /\ op' \in [Calls -> OpRecords]
    BY DEF CallsOK, Goto
  <1>2. ASSUME NEW q \in Calls PROVE OpOK(pc'[q], op'[q], Len(users'))
    <2>1. CASE q = p
      BY <2>1 DEF CallsOK, Goto
    <2>2. CASE q # p
      <3>1. pc'[q] = pc[q] /\ op'[q] = op[q]
        BY <2>2 DEF CallsOK, Goto
      <3>2. OpOK(pc[q], op[q], Len(users))
        BY DEF CallsOK
      <3>3. op[q].user \in 0..Len(users) => op[q].user \in 0..Len(users')
        OBVIOUS
      <3>4. op[q].user \in 1..Len(users) => op[q].user \in 1..Len(users')
        OBVIOUS
      <3> QED BY <3>1, <3>2, <3>3, <3>4 DEF OpOK
    <2> QED BY <2>1, <2>2
  <1> QED BY <1>1, <1>2 DEF CallsOK

LEMMA EndKeeps ==
  ASSUME CallsOK, NEW p \in Calls, End(p), Len(users) \in Nat, Len(users') \in Nat,
         Len(users) <= Len(users')
  PROVE  CallsOK'
  BY NoOpOK, GotoKeeps DEF End, Labels

\* CreateUser keeps the users and the indexes in their types; the name is
\* then one of a user.
LEMMA CreateUserType ==
  ASSUME TypeInv, NEW n \in Usernames, NEW e \in Emails, NEW pw \in {"old", "none"},
         CreateUser(n, e, pw)
  PROVE  /\ users' \in Seq(UserRecords)
         /\ Len(users) \in Nat /\ Len(users') \in Nat /\ Len(users) <= Len(users')
         /\ nameKey' \in [Usernames -> 0..Len(users')]
         /\ emailKey' \in [Emails -> 0..Len(users')]
         /\ nameKey'[n] \in 1..Len(users')
  <1>1. Len(users) \in Nat
    BY DEF TypeInv, DataOK
  <1>2. CASE nameKey[n] # 0
    BY <1>1, <1>2 DEF CreateUser, TypeInv, DataOK
  <1>3. CASE nameKey[n] = 0
    <2>1. User(n, e, pw) \in UserRecords
      BY DEF User, UserRecords, Values
    <2>2. users' \in Seq(UserRecords) /\ Len(users') = Len(users) + 1
      <3>1. users \in Seq(UserRecords) /\ users' = Append(users, User(n, e, pw))
        BY <1>3 DEF CreateUser, TypeInv, DataOK
      <3> QED BY <2>1, <3>1, AppendProperties
    <2>3. nameKey' = [nameKey EXCEPT ![n] = Len(users) + 1]
          /\ emailKey' = [emailKey EXCEPT ![e] = Len(users) + 1]
      BY <1>3 DEF CreateUser
    <2> QED BY <1>1, <2>2, <2>3 DEF TypeInv, DataOK
  <1> QED BY <1>2, <1>3

\* What an update makes of a user is a user of the same name.
LEMMA MutateType ==
  ASSUME NEW u \in UserRecords, NEW o \in OpRecords
  PROVE  Mutate(u, o) \in UserRecords /\ Mutate(u, o).name = u.name
  <1>1. o.value \in Values /\ o.login \in Logins \cup {"none"} /\ (o.value = "yes") \in BOOLEAN
    BY DEF OpRecords
  <1> QED BY <1>1 DEF Mutate, UserRecords


LEMMA DataUnchanged ==
  ASSUME DataOK, UNCHANGED <<userVars, codeVars, courseVars, memberVars, adminTokens, updateMu>>,
         calls' \in Nat
  PROVE  DataOK' /\ Len(users) \in Nat /\ users' = users
  BY DEF DataOK, userVars, codeVars, courseVars, memberVars

\* A call that changes nothing but where it is.
LEMMA OnlyGoto ==
  ASSUME TypeInv, NEW p \in Calls, NEW l \in Labels, NEW o \in OpRecords, Goto(p, l, o),
         OpOK(l, o, Len(users)), calls' \in Nat,
         UNCHANGED <<userVars, codeVars, courseVars, memberVars, adminTokens, updateMu>>
  PROVE  TypeInv'
  <1>1. DataOK' /\ Len(users) \in Nat /\ users' = users
    BY DataUnchanged DEF TypeInv, DataOK
  <1>2. CallsOK'
    BY <1>1, GotoKeeps DEF TypeInv
  <1> QED BY <1>1, <1>2 DEF TypeInv, DataOK

LEMMA OnlyEnd ==
  ASSUME TypeInv, NEW p \in Calls, End(p), calls' \in Nat,
         UNCHANGED <<userVars, codeVars, courseVars, memberVars, adminTokens, updateMu>>
  PROVE  TypeInv'
  <1>1. Len(users) \in Nat
    BY DEF TypeInv, DataOK
  <1> QED BY <1>1, NoOpOK, OnlyGoto DEF End, Labels

LEMMA IssueType ==
  ASSUME TypeInv, NEW t \in Types, NEW e \in Emails, Issue(t, e)
  PROVE  TypeInv'
  BY DEF TypeInv, DataOK, CallsOK, Issue, userVars, courseVars, memberVars, callVars

LEMMA DeleteCodeType ==
  ASSUME code \in [Types -> [Emails -> Nat]], NEW t, NEW e, DeleteCode(t, e)
  PROVE  code' \in [Types -> [Emails -> Nat]]
  BY DEF DeleteCode

\* The steps of accounts that are not steps of a call.
LEMMA TypeNoCall ==
  ASSUME TypeInv,
         \/ RequestSignUpToken \/ RequestPasswordReset \/ Expire \/ CollectCodes \/ CollectKey
         \/ \E u \in 1..Len(users) : Login(u)
         \/ \E l \in Logins : GithubLoginKnown(l)
  PROVE  TypeInv'
  <1>1. CASE RequestSignUpToken
    BY <1>1, IssueType DEF RequestSignUpToken, Types
  <1>2. CASE RequestPasswordReset
    BY <1>2, IssueType DEF RequestPasswordReset, Types
  <1>3. CASE Expire \/ CollectCodes
    BY <1>3 DEF Expire, CollectCodes, TypeInv, DataOK, CallsOK, userVars, courseVars, memberVars,
                callVars
  <1>4. CASE CollectKey
    <2>1. code' \in [Types -> [Emails -> Nat]]
      BY <1>4, DeleteCodeType DEF CollectKey, TypeInv, DataOK
    <2> QED BY <1>4, <2>1 DEF CollectKey, TypeInv, DataOK, CallsOK, userVars, courseVars,
                              memberVars, callVars
  <1>5. ASSUME NEW u \in 1..Len(users), Login(u) PROVE TypeInv'
    BY <1>5 DEF Login, SignLoginToken, TypeInv, DataOK, CallsOK, userVars, codeVars, courseVars,
                memberVars, callVars
  <1>6. ASSUME NEW l \in Logins, GithubLoginKnown(l) PROVE TypeInv'
    <2>1. githubKey[l] \in 1..Len(users)
      BY <1>6 DEF GithubLoginKnown, TypeInv, DataOK
    <2>2. adminTokens' \subseteq 1..Len(users)
      BY <1>6, <2>1 DEF GithubLoginKnown, SignLoginToken, TypeInv, DataOK
    <2> QED BY <1>6, <2>2 DEF GithubLoginKnown, TypeInv, DataOK, CallsOK, userVars, codeVars,
                              courseVars, memberVars, callVars
  <1> QED BY <1>1, <1>2, <1>3, <1>4, <1>5, <1>6

\* A call begins without writing.
LEMMA BeginType ==
  ASSUME TypeInv, NEW p \in Calls, NEW l \in Labels, NEW o \in OpRecords, Begin(p, l, o),
         OpOK(l, o, Len(users)),
         UNCHANGED <<userVars, codeVars, courseVars, memberVars, adminTokens, updateMu>>
  PROVE  TypeInv'
  <1>1. calls' \in Nat
    BY DEF TypeInv, DataOK, Begin
  <1> QED BY <1>1, OnlyGoto DEF Begin

LEMMA ValidateBeginType ==
  ASSUME TypeInv, NEW p \in Calls, NEW o \in OpRecords, o.user = 0,
         o.kind \in {"signup", "reset"}, o.email \in Emails,
         o.kind = "signup" => o.type = "sign_up" /\ o.name \in Usernames,
         o.kind = "reset" => o.type = "password_reset",
         ValidateBegin(p, o)
  PROVE  TypeInv'
  <1>1. PICK n \in {code[o.type][o.email]} \ {0} :
          /\ Begin(p, "delete", [o EXCEPT !.code = n,
               !.value = IF <<o.type, o.email>> \in expired THEN "expired" ELSE @])
          /\ UNCHANGED notCodes
    BY DEF ValidateBegin
  <1> DEFINE r == [o EXCEPT !.code = n,
                     !.value = IF <<o.type, o.email>> \in expired THEN "expired" ELSE @]
  <1>2. n \in Nat /\ o.type \in Types /\ Len(users) \in Nat
    BY DEF TypeInv, DataOK, Types
  <1>3. r \in OpRecords
    BY <1>2 DEF OpRecords, Values
  <1>4. OpOK("delete", r, Len(users))
    <2>1. r.user = o.user /\ r.kind = o.kind /\ r.type = o.type /\ r.email = o.email
          /\ r.name = o.name
      BY DEF OpRecords
    <2> HIDE DEF r
    <2> QED BY <1>2, <2>1 DEF OpOK, WithUser, MemberKinds
  <1> HIDE DEF r
  <1>5. "delete" \in Labels
    BY DEF Labels
  <1>6. Begin(p, "delete", r)
    BY <1>1 DEF r
  <1> QED BY <1>1, <1>3, <1>4, <1>5, <1>6, BeginType DEF notCodes

\* The calls about accounts begin.
LEMMA TypeAccountBegin ==
  ASSUME TypeInv, NEW p \in Calls,
         \/ SignUp(p) \/ ResetPassword(p) \/ GithubLogin(p) \/ BindGithub(p) \/ UnbindGithub(p)
         \/ UpdateUser(p) \/ UpdatePassword(p) \/ SetAdmin(p)
  PROVE  TypeInv'
  <1>0. /\ Len(users) \in Nat /\ emailKey \in [Emails -> 0..Len(users)]
        /\ \A u \in 1..Len(users) : users[u] \in UserRecords
    BY DEF TypeInv, DataOK
  <1>1. CASE SignUp(p)
    <2>1. PICK n \in Usernames, e \in Emails, v \in {"long", "short"} :
            ValidateBegin(p, [NoOp EXCEPT !.kind = "signup", !.type = "sign_up", !.name = n,
                                          !.email = e, !.value = v])
      BY <1>1 DEF SignUp
    <2> DEFINE o == [NoOp EXCEPT !.kind = "signup", !.type = "sign_up", !.name = n,
                                 !.email = e, !.value = v]
    <2>2. o \in OpRecords
      BY DEF OpRecords, NoOp, Kinds, Values, Types
    <2>3. o.user = 0 /\ o.kind = "signup" /\ o.type = "sign_up" /\ o.name = n /\ o.email = e
      BY DEF NoOp
    <2>4. ValidateBegin(p, o)
      BY <2>1
    <2> HIDE DEF o
    <2> QED BY <2>2, <2>3, <2>4, ValidateBeginType
  <1>2. CASE ResetPassword(p)
    <2>1. PICK e \in Emails, v \in {"new", "short"} :
            ValidateBegin(p, [NoOp EXCEPT !.kind = "reset", !.type = "password_reset", !.email = e,
                                          !.value = v])
      BY <1>2 DEF ResetPassword
    <2> DEFINE o == [NoOp EXCEPT !.kind = "reset", !.type = "password_reset", !.email = e,
                                 !.value = v]
    <2>2. o \in OpRecords
      BY DEF OpRecords, NoOp, Kinds, UpdateKinds, Values, Types
    <2>3. o.user = 0 /\ o.kind = "reset" /\ o.type = "password_reset" /\ o.email = e
      BY DEF NoOp
    <2>4. ValidateBegin(p, o)
      BY <2>1
    <2> HIDE DEF o
    <2> QED BY <2>2, <2>3, <2>4, ValidateBeginType
  <1>3. CASE GithubLogin(p)
    <2>1. PICK l \in Logins, e \in Emails :
            /\ Begin(p, IF emailKey[e] # 0 THEN "read" ELSE "validate",
                     [NoOp EXCEPT !.kind = "github", !.login = l, !.email = e, !.name = l,
                        !.user = emailKey[e],
                        !.old = IF emailKey[e] # 0 /\ users[emailKey[e]].admin THEN "yes" ELSE @])
            /\ UNCHANGED notCodes
      BY <1>3 DEF GithubLogin
    <2> DEFINE lab == IF emailKey[e] # 0 THEN "read" ELSE "validate"
               old == IF emailKey[e] # 0 /\ users[emailKey[e]].admin THEN "yes" ELSE "none"
               o == [NoOp EXCEPT !.kind = "github", !.login = l, !.email = e, !.name = l,
                        !.user = emailKey[e], !.old = old]
    <2>2. Begin(p, lab, o)
      BY <2>1 DEF NoOp
    <2>3. emailKey[e] \in 0..Len(users) /\ old \in Values /\ l \in Usernames
      BY <1>0, AccountAssumption DEF Values
    <2> HIDE DEF old
    <2>4. o \in OpRecords /\ lab \in Labels
      <3>1. emailKey[e] \in Nat
        BY <2>3, <1>0
      <3>2. o \in OpRecords
        BY <2>3, <3>1 DEF OpRecords, NoOp, Kinds, UpdateKinds, Values
      <3> QED BY <3>2 DEF Labels, WithUser
    <2>5. OpOK(lab, o, Len(users))
      <3>1. o.kind = "github" /\ o.user = emailKey[e] /\ o.login = l /\ o.email = e /\ o.name = l
        BY DEF NoOp
      <3> HIDE DEF o
      <3>2. CASE emailKey[e] # 0
        BY <2>3, <1>0, <3>1, <3>2 DEF OpOK, UpdateKinds, MemberKinds, WithUser
      <3>3. CASE emailKey[e] = 0
        BY <2>3, <1>0, <3>1, <3>3 DEF OpOK, UpdateKinds, MemberKinds, WithUser
      <3> QED BY <3>2, <3>3
    <2> HIDE DEF o, lab
    <2> QED BY <2>1, <2>2, <2>4, <2>5, BeginType DEF notCodes
  <1>4. CASE BindGithub(p)
    <2>1. PICK u \in 1..Len(users), l \in Logins :
            /\ Begin(p, "read", [NoOp EXCEPT !.kind = "bind", !.user = u, !.login = l])
            /\ UNCHANGED notCodes
      BY <1>4 DEF BindGithub
    <2> DEFINE o == [NoOp EXCEPT !.kind = "bind", !.user = u, !.login = l]
    <2>2. o \in OpRecords
      <3>1. u \in Nat
        BY <1>0
      <3> QED BY <3>1 DEF OpRecords, NoOp, Kinds, UpdateKinds, Values
    <2>3. o.kind = "bind" /\ o.user = u /\ o.login = l
      BY DEF NoOp
    <2>4. Begin(p, "read", o)
      BY <2>1
    <2> HIDE DEF o
    <2>5. "read" \in Labels
      BY DEF Labels, WithUser
    <2>6. OpOK("read", o, Len(users))
      BY <2>1, <2>3, <1>0 DEF OpOK, UpdateKinds, MemberKinds, RecordKinds, WithUser, Roles
    <2> QED BY <2>1, <2>2, <2>4, <2>5, <2>6, BeginType DEF notCodes
  <1>5. CASE UnbindGithub(p)
    <2>1. PICK u \in 1..Len(users) :
            /\ Begin(p, "read", [NoOp EXCEPT !.kind = "unbind", !.user = u])
            /\ UNCHANGED notCodes
      BY <1>5 DEF UnbindGithub
    <2> DEFINE o == [NoOp EXCEPT !.kind = "unbind", !.user = u]
    <2>2. o \in OpRecords
      <3>1. u \in Nat
        BY <1>0
      <3> QED BY <3>1 DEF OpRecords, NoOp, Kinds, UpdateKinds, Values
    <2>3. o.kind = "unbind" /\ o.user = u
      BY DEF NoOp
    <2>4. Begin(p, "read", o)
      BY <2>1
    <2> HIDE DEF o
    <2>5. "read" \in Labels
      BY DEF Labels, WithUser
    <2>6. OpOK("read", o, Len(users))
      BY <2>1, <2>3, <1>0 DEF OpOK, UpdateKinds, MemberKinds, RecordKinds, WithUser, Roles
    <2> QED BY <2>1, <2>2, <2>4, <2>5, <2>6, BeginType DEF notCodes
  <1>6. CASE UpdateUser(p)
    <2>1. PICK u \in 1..Len(users) :
            /\ Begin(p, "read", [NoOp EXCEPT !.kind = "nickname", !.user = u, !.value = "second"])
            /\ UNCHANGED notCodes
      BY <1>6 DEF UpdateUser
    <2> DEFINE o == [NoOp EXCEPT !.kind = "nickname", !.user = u, !.value = "second"]
    <2>2. o \in OpRecords
      <3>1. u \in Nat
        BY <1>0
      <3> QED BY <3>1 DEF OpRecords, NoOp, Kinds, UpdateKinds, Values
    <2>3. o.kind = "nickname" /\ o.user = u /\ o.value = "second"
      BY DEF NoOp
    <2>4. Begin(p, "read", o)
      BY <2>1
    <2> HIDE DEF o
    <2>5. "read" \in Labels
      BY DEF Labels, WithUser
    <2>6. OpOK("read", o, Len(users))
      BY <2>1, <2>3, <1>0 DEF OpOK, UpdateKinds, MemberKinds, RecordKinds, WithUser, Roles
    <2> QED BY <2>1, <2>2, <2>4, <2>5, <2>6, BeginType DEF notCodes
  <1>7. CASE UpdatePassword(p)
    <2>1. PICK u \in 1..Len(users) :
            /\ Begin(p, "read", [NoOp EXCEPT !.kind = "password", !.user = u, !.old = "old", !.value = "new"])
            /\ UNCHANGED notCodes
      BY <1>7 DEF UpdatePassword
    <2> DEFINE o == [NoOp EXCEPT !.kind = "password", !.user = u, !.old = "old", !.value = "new"]
    <2>2. o \in OpRecords
      <3>1. u \in Nat
        BY <1>0
      <3> QED BY <3>1 DEF OpRecords, NoOp, Kinds, UpdateKinds, Values
    <2>3. o.kind = "password" /\ o.user = u /\ o.value = "new"
      BY DEF NoOp
    <2>4. Begin(p, "read", o)
      BY <2>1
    <2> HIDE DEF o
    <2>5. "read" \in Labels
      BY DEF Labels, WithUser
    <2>6. OpOK("read", o, Len(users))
      BY <2>1, <2>3, <1>0 DEF OpOK, UpdateKinds, MemberKinds, RecordKinds, WithUser, Roles
    <2> QED BY <2>1, <2>2, <2>4, <2>5, <2>6, BeginType DEF notCodes
  <1>8. CASE SetAdmin(p)
    <2>1. PICK u \in 1..Len(users), v \in {"yes", "no"} :
            /\ Begin(p, "read", [NoOp EXCEPT !.kind = "admin", !.user = u, !.value = v])
            /\ UNCHANGED notCodes
      BY <1>8 DEF SetAdmin
    <2> DEFINE o == [NoOp EXCEPT !.kind = "admin", !.user = u, !.value = v]
    <2>2. o \in OpRecords
      <3>1. u \in Nat
        BY <1>0
      <3> QED BY <3>1 DEF OpRecords, NoOp, Kinds, UpdateKinds, Values
    <2>3. o.kind = "admin" /\ o.user = u /\ o.value = v
      BY DEF NoOp
    <2>4. Begin(p, "read", o)
      BY <2>1
    <2> HIDE DEF o
    <2>5. "read" \in Labels
      BY DEF Labels, WithUser
    <2>6. OpOK("read", o, Len(users))
      BY <2>1, <2>3, <1>0 DEF OpOK, UpdateKinds, MemberKinds, RecordKinds, WithUser, Roles
    <2> QED BY <2>1, <2>2, <2>4, <2>5, <2>6, BeginType DEF notCodes
  <1> QED BY <1>1, <1>2, <1>3, <1>4, <1>5, <1>6, <1>7, <1>8

\* The record a call has, with another user.
LEMMA OpWithUser ==
  ASSUME NEW o \in OpRecords, NEW u \in Nat
  PROVE  /\ [o EXCEPT !.user = u] \in OpRecords
         /\ [o EXCEPT !.user = u].user = u
         /\ [o EXCEPT !.user = u].kind = o.kind
         /\ [o EXCEPT !.user = u].login = o.login
         /\ [o EXCEPT !.user = u].value = o.value
         /\ [o EXCEPT !.user = u].name = o.name
         /\ [o EXCEPT !.user = u].course = o.course
  BY DEF OpRecords

\* The calls about accounts go on.
LEMMA TypeAccountStep ==
  ASSUME TypeInv, NEW p \in Calls,
         \/ ValidateDelete(p) \/ ResetLookup(p) \/ SignUpValidate(p) \/ SignUpCreate(p)
         \/ ReadUser(p) \/ WriteUser(p) \/ BindIndex(p) \/ UnbindIndex(p)
  PROVE  TypeInv'
  <1>0. /\ Len(users) \in Nat /\ op[p] \in OpRecords /\ OpOK(pc[p], op[p], Len(users))
        /\ calls \in Nat /\ DataOK /\ CallsOK
    BY DEF TypeInv, DataOK, CallsOK
  <1>1. CASE ValidateDelete(p)
    <2>1. code' \in [Types -> [Emails -> Nat]] /\ calls' = calls /\ users' = users
      BY <1>1, DeleteCodeType DEF ValidateDelete, TypeInv, DataOK, userVars
    <2>2. DataOK'
      BY <1>1, <2>1 DEF ValidateDelete, TypeInv, DataOK, userVars, courseVars, memberVars
    <2>3. CASE op[p].value = "expired"
      BY <1>0, <1>1, <2>1, <2>2, <2>3, EndKeeps DEF ValidateDelete, TypeInv
    <2>4. CASE op[p].value # "expired"
      <3> DEFINE o == [op[p] EXCEPT !.code = 0]
                 l == IF op[p].type = "sign_up" THEN "validate" ELSE "lookup"
      <3>1. Goto(p, l, o) /\ pc[p] = "delete"
        BY <1>1, <2>4 DEF ValidateDelete, At
      <3>2. /\ o \in OpRecords /\ o.user = op[p].user /\ o.kind = op[p].kind /\ o.name = op[p].name
            /\ o.email = op[p].email /\ o.login = op[p].login
        BY <1>0 DEF OpRecords
      <3> HIDE DEF o
      <3>3. OpOK(l, o, Len(users)) /\ l \in Labels
        BY <1>0, <3>1, <3>2 DEF OpOK, WithUser, MemberKinds, Labels, Types
      <3> HIDE DEF l
      <3>4. CallsOK'
        BY <1>0, <2>1, <3>1, <3>2, <3>3, GotoKeeps
      <3> QED BY <2>2, <3>4 DEF TypeInv
    <2> QED BY <2>3, <2>4
  <1>2. CASE ResetLookup(p)
    <2>1. /\ UNCHANGED <<userVars, codeVars, courseVars, memberVars, adminTokens, updateMu>>
          /\ calls' \in Nat /\ pc[p] = "lookup"
      BY <1>0, <1>2 DEF ResetLookup, notCodes, At
    <2>2. CASE End(p)
      BY <2>1, <2>2, OnlyEnd
    <2>3. CASE ~End(p)
      <3> DEFINE u == emailKey[op[p].email]
                 o == [op[p] EXCEPT !.user = u]
      <3>1. Goto(p, "read", o) /\ u # 0
        BY <1>2, <2>3 DEF ResetLookup
      <3>2. u \in 1..Len(users) /\ u \in Nat
        BY <1>0, <2>1, <3>1 DEF DataOK, OpOK
      <3>3. o \in OpRecords /\ o.user = u /\ o.kind = "reset"
        BY <1>0, <2>1, <3>2, OpWithUser DEF OpOK
      <3> HIDE DEF o, u
      <3>4. OpOK("read", o, Len(users)) /\ "read" \in Labels
        BY <1>0, <3>2, <3>3 DEF OpOK, WithUser, MemberKinds, UpdateKinds, Labels
      <3> QED BY <2>1, <3>1, <3>3, <3>4, OnlyGoto
    <2> QED BY <2>2, <2>3
  <1>3. CASE SignUpValidate(p)
    <2>1. /\ UNCHANGED <<userVars, codeVars, courseVars, memberVars, adminTokens, updateMu>>
          /\ calls' \in Nat /\ pc[p] = "validate"
      BY <1>0, <1>3 DEF SignUpValidate, notCodes, At
    <2>2. CASE End(p)
      BY <2>1, <2>2, OnlyEnd
    <2>3. CASE ~End(p)
      <3>1. Goto(p, "create", op[p])
        BY <1>3, <2>3 DEF SignUpValidate
      <3>2. OpOK("create", op[p], Len(users)) /\ "create" \in Labels
        BY <1>0, <2>1 DEF OpOK, WithUser, MemberKinds, Labels
      <3> QED BY <1>0, <2>1, <3>1, <3>2, OnlyGoto
    <2> QED BY <2>2, <2>3
  <1>4. CASE SignUpCreate(p)
    <2>1. /\ op[p].name \in Usernames /\ op[p].email \in Emails
          /\ op[p].kind \in {"signup", "github"}
          /\ op[p].kind = "github" => op[p].login \in Logins
      BY <1>0, <1>4 DEF SignUpCreate, At, OpOK
    <2> DEFINE pw == IF op[p].kind = "signup" THEN "old" ELSE "none"
               u == nameKey'[op[p].name]
               o == [op[p] EXCEPT !.user = u]
    <2>2. /\ users' \in Seq(UserRecords)
          /\ Len(users) \in Nat /\ Len(users') \in Nat /\ Len(users) <= Len(users')
          /\ nameKey' \in [Usernames -> 0..Len(users')]
          /\ emailKey' \in [Emails -> 0..Len(users')]
          /\ u \in 1..Len(users')
      <3>1. CreateUser(op[p].name, op[p].email, pw) /\ pw \in {"old", "none"}
        BY <1>4 DEF SignUpCreate
      <3> HIDE DEF pw
      <3> QED BY <2>1, <3>1, CreateUserType
    <2>3. DataOK'
      BY <1>0, <1>4, <2>2 DEF SignUpCreate, DataOK, codeVars, courseVars, memberVars
    <2>4. CASE End(p)
      BY <1>0, <2>2, <2>3, <2>4, EndKeeps DEF TypeInv
    <2>5. CASE ~End(p)
      <3>1. Goto(p, "read", o) /\ op[p].kind = "github"
        BY <1>4, <2>5 DEF SignUpCreate
      <3>2. u \in Nat
        BY <2>2
      <3>3. o \in OpRecords /\ o.user = u /\ o.kind = "github" /\ o.login \in Logins
        BY <1>0, <2>1, <3>1, <3>2, OpWithUser
      <3> HIDE DEF o, u
      <3>4. OpOK("read", o, Len(users')) /\ "read" \in Labels
        BY <2>2, <3>3 DEF OpOK, WithUser, MemberKinds, UpdateKinds, Labels
      <3>5. CallsOK'
        BY <1>0, <2>2, <3>1, <3>3, <3>4, GotoKeeps
      <3> QED BY <2>3, <3>5 DEF TypeInv
    <2> QED BY <2>4, <2>5
  <1>5. CASE ReadUser(p)
    <2> DEFINE o == [op[p] EXCEPT !.read = users[op[p].user]]
    <2>1. /\ Goto(p, "write", o) /\ pc[p] = "read" /\ updateMu' = p
          /\ UNCHANGED <<userVars, codeVars, courseVars, memberVars, adminTokens, calls>>
      BY <1>5 DEF ReadUser, At
    <2>2. users[op[p].user] \in UserRecords
      BY <1>0, <2>1 DEF OpOK, WithUser, DataOK
    <2>3. /\ o \in OpRecords /\ o.user = op[p].user /\ o.kind = op[p].kind
          /\ o.login = op[p].login /\ o.value = op[p].value /\ o.read = users[op[p].user]
      BY <1>0, <2>2 DEF OpRecords
    <2> HIDE DEF o
    <2>4. OpOK("write", o, Len(users)) /\ "write" \in Labels
      BY <1>0, <2>1, <2>2, <2>3 DEF OpOK, WithUser, MemberKinds, UpdateKinds, Labels
    <2>5. DataOK' /\ users' = users
      BY <1>0, <2>1 DEF DataOK, userVars, codeVars, courseVars, memberVars
    <2>6. CallsOK'
      BY <1>0, <2>1, <2>3, <2>4, <2>5, GotoKeeps
    <2> QED BY <2>5, <2>6 DEF TypeInv
  <1>6. CASE WriteUser(p)
    <2>1. /\ pc[p] = "write" /\ updateMu' = NoCall
          /\ users' = [users EXCEPT ![op[p].user] = Mutate(op[p].read, op[p])]
          /\ UNCHANGED <<nameKey, emailKey, githubKey, codeVars, courseVars, memberVars,
                         adminTokens, calls>>
          /\ CASE op[p].kind \in {"bind", "github"} -> Goto(p, "index", op[p])
               [] op[p].kind = "unbind" /\ op[p].read.github # "none" ->
                    Goto(p, "unindex", [op[p] EXCEPT !.login = op[p].read.github])
               [] OTHER -> End(p)
      BY <1>6 DEF WriteUser, At
    <2>2. op[p].read \in UserRecords /\ Mutate(op[p].read, op[p]) \in UserRecords
      BY <1>0, <2>1, MutateType DEF OpOK
    <2>3. users' \in Seq(UserRecords) /\ Len(users') = Len(users)
      <3>1. users \in Seq(UserRecords) /\ op[p].user \in 1..Len(users)
        BY <1>0, <2>1 DEF DataOK, OpOK, WithUser
      <3> QED BY <2>1, <2>2, <3>1, ExceptSeq
    <2>4. DataOK'
      BY <1>0, <2>1, <2>3 DEF DataOK, codeVars, courseVars, memberVars
    <2>5. CASE op[p].kind \in {"bind", "github"}
      <3>1. Goto(p, "index", op[p])
        BY <2>1, <2>5
      <3>2. OpOK("index", op[p], Len(users)) /\ "index" \in Labels
        BY <1>0, <2>1, <2>5 DEF OpOK, WithUser, MemberKinds, UpdateKinds, Labels
      <3> QED BY <1>0, <2>3, <2>4, <3>1, <3>2, GotoKeeps DEF TypeInv
    <2>6. CASE op[p].kind = "unbind" /\ op[p].read.github # "none"
      <3> DEFINE o == [op[p] EXCEPT !.login = op[p].read.github]
      <3>1. Goto(p, "unindex", o)
        BY <2>1, <2>6
      <3>2. op[p].read.github \in Logins
        BY <2>2, <2>6 DEF UserRecords
      <3>3. o \in OpRecords /\ o.login \in Logins /\ o.user = op[p].user /\ o.kind = "unbind"
        BY <1>0, <2>6, <3>2 DEF OpRecords
      <3> HIDE DEF o
      <3>4. OpOK("unindex", o, Len(users)) /\ "unindex" \in Labels
        BY <1>0, <2>1, <3>3 DEF OpOK, WithUser, MemberKinds, UpdateKinds, Labels
      <3> QED BY <1>0, <2>3, <2>4, <3>1, <3>3, <3>4, GotoKeeps DEF TypeInv
    <2>7. CASE End(p)
      BY <1>0, <2>3, <2>4, <2>7, EndKeeps DEF TypeInv
    <2> QED BY <2>1, <2>5, <2>6, <2>7
  <1>7. CASE BindIndex(p)
    <2>1. op[p].user \in 1..Len(users) /\ op[p].login \in Logins
      BY <1>0, <1>7 DEF BindIndex, At, OpOK, WithUser
    <2>2. /\ githubKey' \in [Logins -> 0..Len(users)] /\ adminTokens' \subseteq 1..Len(users)
          /\ users' = users
      BY <1>0, <1>7, <2>1 DEF BindIndex, SignLoginToken, DataOK
    <2>3. DataOK'
      BY <1>0, <1>7, <2>2 DEF BindIndex, DataOK, codeVars, courseVars, memberVars
    <2> QED BY <1>0, <1>7, <2>2, <2>3, EndKeeps DEF BindIndex, TypeInv
  <1>8. CASE UnbindIndex(p)
    <2>1. githubKey' \in [Logins -> 0..Len(users)] /\ users' = users
      <3>1. op[p].login \in Logins
        BY <1>0, <1>8 DEF UnbindIndex, At, OpOK
      <3> QED BY <1>0, <1>8, <3>1 DEF UnbindIndex, DataOK
    <2>2. DataOK'
      BY <1>0, <1>8, <2>1 DEF UnbindIndex, DataOK, codeVars, courseVars, memberVars
    <2> QED BY <1>0, <1>8, <2>1, <2>2, EndKeeps DEF UnbindIndex, TypeInv
  <1> QED BY <1>1, <1>2, <1>3, <1>4, <1>5, <1>6, <1>7, <1>8

\* The calls about courses and leaderboards begin.
LEMMA TypeCourseBegin ==
  ASSUME TypeInv, NEW p \in Calls,
         \/ CreateCourse(p) \/ JoinCourse(p) \/ AddCourseMembers(p) \/ UpdateCourseMember(p)
         \/ RemoveCourseMembers(p) \/ CourseBegin(p) \/ ActivateSubmission(p)
         \/ DeleteLeaderboard(p)
  PROVE  TypeInv'
  <1>0. /\ Len(users) \in Nat /\ emailKey \in [Emails -> 0..Len(users)]
        /\ Len(courses) \in Nat /\ \A c \in CourseIds : courses[c] \in CourseRecords
        /\ CourseIds \subseteq Nat /\ adminTokens \subseteq 1..Len(users) /\ DataOK /\ CallsOK
    BY DEF TypeInv, DataOK, CourseIds
  <1>1. CASE CreateCourse(p)
    <2> DEFINE c == Len(courses) + 1
    <2>1. PICK u \in adminTokens :
            Begin(p, "addUser", [NoOp EXCEPT !.kind = "create", !.user = u, !.course = c,
                                             !.value = "Instructor"])
      BY <1>1 DEF CreateCourse
    <2> DEFINE o == [NoOp EXCEPT !.kind = "create", !.user = u, !.course = c,
                                 !.value = "Instructor"]
    <2>2. u \in 1..Len(users) /\ u \in Nat /\ c \in Nat
      BY <1>0
    <2> HIDE DEF c
    <2>3. o \in OpRecords
      BY <2>2 DEF OpRecords, NoOp, Kinds, MemberKinds, Values
    <2>4. o.kind = "create" /\ o.user = u /\ o.value = "Instructor"
      BY DEF NoOp
    <2>5. Begin(p, "addUser", o)
      BY <2>1
    <2> HIDE DEF o
    <2>6. OpOK("addUser", o, Len(users)) /\ "addUser" \in Labels
      BY <2>2, <2>4, <1>0 DEF OpOK, WithUser, MemberKinds, Roles, Labels
    <2>7. courses' \in Seq(CourseRecords)
      <3> DEFINE r == [name |-> "first", allows |-> FALSE, joinCode |-> <<>>]
      <3>1. r \in CourseRecords
        BY DEF CourseRecords, Values
      <3>2. courses' = Append(courses, r)
        BY <1>1 DEF CreateCourse
      <3> HIDE DEF r
      <3> QED BY <1>0, <3>1, <3>2, AppendProperties DEF DataOK
    <2>8. DataOK' /\ users' = users
      <3>1. calls' \in Nat
        BY <1>0, <2>5 DEF Begin, DataOK
      <3>2. UNCHANGED <<userVars, codeVars, memberVars, adminTokens, updateMu>>
        BY <1>1 DEF CreateCourse
      <3>3. DataOK
        BY <1>0
      <3> QED BY <2>7, <3>1, <3>2, <3>3 DEF DataOK, userVars, codeVars, memberVars
    <2>9. CallsOK'
      BY <1>0, <2>3, <2>5, <2>6, <2>8, GotoKeeps DEF Begin
    <2> QED BY <2>8, <2>9 DEF TypeInv
  <1>2. CASE JoinCourse(p)
    <2>1. PICK u \in 1..Len(users), c \in CourseIds :
            /\ Begin(p, "addCourse", [NoOp EXCEPT !.kind = "join", !.user = u, !.course = c,
                                                  !.value = "Student"])
            /\ UNCHANGED notCourses
      BY <1>2 DEF JoinCourse
    <2> DEFINE o == [NoOp EXCEPT !.kind = "join", !.user = u, !.course = c, !.value = "Student"]
    <2>2. o \in OpRecords
      <3>1. u \in Nat /\ c \in Nat
        BY <1>0
      <3> QED BY <3>1 DEF OpRecords, NoOp, Kinds, MemberKinds, Values
    <2>3. o.kind = "join" /\ o.user = u /\ o.value = "Student"
      BY DEF NoOp
    <2>4. Begin(p, "addCourse", o)
      BY <2>1
    <2> HIDE DEF o
    <2>5. OpOK("addCourse", o, Len(users)) /\ "addCourse" \in Labels
      BY <2>3, <1>0 DEF OpOK, WithUser, MemberKinds, Roles, Labels
    <2> QED BY <2>1, <2>2, <2>4, <2>5, BeginType DEF notCourses
  <1>3. CASE AddCourseMembers(p)
    <2>1. PICK c \in CourseIds, n \in Usernames, e \in Emails, r \in Roles :
            /\ Begin(p, IF emailKey[e] = 0 THEN "addNew" ELSE "known",
                     [NoOp EXCEPT !.kind = "add", !.user = emailKey[e], !.course = c, !.value = r,
                                  !.name = IF emailKey[e] = 0 THEN n ELSE @,
                                  !.email = IF emailKey[e] = 0 THEN e ELSE @])
            /\ UNCHANGED notCourses
      BY <1>3 DEF AddCourseMembers
    <2> DEFINE l == IF emailKey[e] = 0 THEN "addNew" ELSE "known"
               nn == IF emailKey[e] = 0 THEN n ELSE ""
               ee == IF emailKey[e] = 0 THEN e ELSE ""
               o == [NoOp EXCEPT !.kind = "add", !.user = emailKey[e], !.course = c, !.value = r,
                                 !.name = nn, !.email = ee]
    <2>2. Begin(p, l, o)
      BY <2>1 DEF NoOp
    <2>3. /\ emailKey[e] \in 0..Len(users) /\ emailKey[e] \in Nat /\ c \in Nat
          /\ nn \in Usernames \cup {""} /\ ee \in Emails \cup {""}
      <3>1. emailKey[e] \in 0..Len(users)
        BY <1>0
      <3>2. emailKey[e] \in Nat /\ c \in Nat
        BY <1>0, <3>1
      <3> QED BY <3>1, <3>2
    <2>4. emailKey[e] = 0 => nn = n /\ ee = e
      OBVIOUS
    <2> HIDE DEF nn, ee
    <2>5. o \in OpRecords
      BY <2>3 DEF OpRecords, NoOp, Kinds, MemberKinds, Values, Roles
    <2>6. /\ o.kind = "add" /\ o.user = emailKey[e] /\ o.value = r /\ o.name = nn /\ o.email = ee
      BY DEF NoOp
    <2> HIDE DEF o
    <2>7. OpOK(l, o, Len(users)) /\ l \in Labels
      <3>1. CASE emailKey[e] = 0
        BY <2>3, <2>4, <2>6, <1>0, <3>1 DEF OpOK, MemberKinds, WithUser, Labels
      <3>2. CASE emailKey[e] # 0
        <4>1. Len(users) \in Nat
          BY <1>0
        <4>2. o.user \in 1..Len(users)
          <5>1. \A m \in Nat : \A i \in 0..m : i # 0 => i \in 1..m
            OBVIOUS
          <5>2. emailKey[e] \in 1..Len(users)
            BY <2>3, <3>2, <4>1, <5>1
          <5> QED BY <2>6, <5>2
        <4>3. l = "known"
          BY <3>2
        <4> QED BY <2>6, <4>1, <4>2, <4>3 DEF OpOK, MemberKinds, WithUser, Labels
      <3> QED BY <3>1, <3>2
    <2> HIDE DEF l
    <2> QED BY <2>1, <2>2, <2>5, <2>7, BeginType DEF notCourses
  <1>4. CASE UpdateCourseMember(p)
    <2>1. PICK u \in 1..Len(users), c \in CourseIds, r \in Roles :
            /\ Begin(p, "addCourse",
                     [NoOp EXCEPT !.kind = "member", !.user = u, !.course = c, !.value = r])
            /\ UNCHANGED notCourses
      BY <1>4 DEF UpdateCourseMember
    <2> DEFINE o == [NoOp EXCEPT !.kind = "member", !.user = u, !.course = c, !.value = r]
    <2>2. o \in OpRecords
      <3>1. u \in Nat /\ c \in Nat
        BY <1>0
      <3> QED BY <3>1 DEF OpRecords, NoOp, Kinds, MemberKinds, Roles, Values
    <2>3. o.kind = "member" /\ o.user = u /\ o.course = c /\ o.value = r
      BY DEF NoOp
    <2>4. Begin(p, "addCourse", o)
      BY <2>1
    <2> HIDE DEF o
    <2>5. "addCourse" \in Labels
      BY DEF Labels, WithUser
    <2>6. OpOK("addCourse", o, Len(users))
      BY <2>1, <2>3, <1>0 DEF OpOK, UpdateKinds, MemberKinds, RecordKinds, WithUser, Roles
    <2> QED BY <2>1, <2>2, <2>4, <2>5, <2>6, BeginType DEF notCourses
  <1>5. CASE RemoveCourseMembers(p)
    <2>1. PICK u \in 1..Len(users), c \in CourseIds :
            /\ Begin(p, "removeCourse",
                     [NoOp EXCEPT !.kind = "remove", !.user = u, !.course = c])
            /\ UNCHANGED notCourses
      BY <1>5 DEF RemoveCourseMembers
    <2> DEFINE o == [NoOp EXCEPT !.kind = "remove", !.user = u, !.course = c]
    <2>2. o \in OpRecords
      <3>1. u \in Nat /\ c \in Nat
        BY <1>0
      <3> QED BY <3>1 DEF OpRecords, NoOp, Kinds, Values
    <2>3. o.kind = "remove" /\ o.user = u /\ o.course = c
      BY DEF NoOp
    <2>4. Begin(p, "removeCourse", o)
      BY <2>1
    <2> HIDE DEF o
    <2>5. "removeCourse" \in Labels
      BY DEF Labels, WithUser
    <2>6. OpOK("removeCourse", o, Len(users))
      BY <2>1, <2>3, <1>0 DEF OpOK, UpdateKinds, MemberKinds, RecordKinds, WithUser, Roles
    <2> QED BY <2>1, <2>2, <2>4, <2>5, <2>6, BeginType DEF notCourses
  <1>6. CASE CourseBegin(p)
    <2>1. PICK c \in CourseIds, k \in RecordKinds, x \in {"x", "y"},
               l \in {"unbindCode", "update"} :
            /\ Begin(p, l, [NoOp EXCEPT !.kind = k, !.course = c, !.read = courses[c],
                                        !.value = x])
            /\ l = "unbindCode" => k = "generate"
            /\ UNCHANGED notCourses
      BY <1>6 DEF CourseBegin, RecordKinds
    <2> DEFINE o == [NoOp EXCEPT !.kind = k, !.course = c, !.read = courses[c], !.value = x]
    <2>2. c \in Nat /\ courses[c] \in CourseRecords
      BY <1>0
    <2>3. o \in OpRecords
      BY <2>2 DEF OpRecords, NoOp, Kinds, Values
    <2>4. o.kind = k /\ o.user = 0 /\ o.value = x /\ o.read = courses[c]
      BY DEF NoOp
    <2>5. Begin(p, l, o)
      BY <2>1
    <2> HIDE DEF o
    <2>6. OpOK(l, o, Len(users)) /\ l \in Labels
      BY <1>0, <2>1, <2>2, <2>4 DEF OpOK, MemberKinds, WithUser, Labels, RecordKinds
    <2> QED BY <2>1, <2>3, <2>5, <2>6, BeginType DEF notCourses
  <1>7. CASE ActivateSubmission(p)
    <2>1. PICK u \in 1..Len(users) :
            /\ Begin(p, "entry", [NoOp EXCEPT !.kind = "activate", !.user = u])
            /\ UNCHANGED <<boardVars, notBoard>>
      BY <1>7 DEF ActivateSubmission
    <2> DEFINE o == [NoOp EXCEPT !.kind = "activate", !.user = u]
    <2>2. o \in OpRecords
      <3>1. u \in Nat
        BY <1>0
      <3> QED BY <3>1 DEF OpRecords, NoOp, Kinds, Values
    <2>3. o.kind = "activate" /\ o.user = u
      BY DEF NoOp
    <2>4. Begin(p, "entry", o)
      BY <2>1
    <2> HIDE DEF o
    <2>5. "entry" \in Labels
      BY DEF Labels, WithUser
    <2>6. OpOK("entry", o, Len(users))
      BY <2>1, <2>3, <1>0 DEF OpOK, UpdateKinds, MemberKinds, RecordKinds, WithUser, Roles
    <2> QED BY <2>1, <2>2, <2>4, <2>5, <2>6, BeginType DEF notBoard, courseVars
  <1>8. CASE DeleteLeaderboard(p)
    <2>1. PICK u \in 1..Len(users) :
            /\ Begin(p, "unentry", [NoOp EXCEPT !.kind = "unlist", !.user = u])
            /\ UNCHANGED <<boardVars, notBoard>>
      BY <1>8 DEF DeleteLeaderboard
    <2> DEFINE o == [NoOp EXCEPT !.kind = "unlist", !.user = u]
    <2>2. o \in OpRecords
      <3>1. u \in Nat
        BY <1>0
      <3> QED BY <3>1 DEF OpRecords, NoOp, Kinds, Values
    <2>3. o.kind = "unlist" /\ o.user = u
      BY DEF NoOp
    <2>4. Begin(p, "unentry", o)
      BY <2>1
    <2> HIDE DEF o
    <2>5. "unentry" \in Labels
      BY DEF Labels, WithUser
    <2>6. OpOK("unentry", o, Len(users))
      BY <2>1, <2>3, <1>0 DEF OpOK, UpdateKinds, MemberKinds, RecordKinds, WithUser, Roles
    <2> QED BY <2>1, <2>2, <2>4, <2>5, <2>6, BeginType DEF notBoard, courseVars
  <1> QED BY <1>1, <1>2, <1>3, <1>4, <1>5, <1>6, <1>7, <1>8

\* A call goes on with the arguments it has.
LEMMA StepType ==
  ASSUME TypeInv, NEW p \in Calls, NEW l \in Labels, DataOK', Len(users') = Len(users),
         \/ End(p)
         \/ Goto(p, l, op[p]) /\ OpOK(l, op[p], Len(users))
  PROVE  TypeInv'
  <1>1. Len(users) \in Nat /\ op[p] \in OpRecords /\ CallsOK
    BY DEF TypeInv, DataOK, CallsOK
  <1>2. CASE End(p)
    BY <1>1, <1>2, EndKeeps DEF TypeInv
  <1>3. CASE Goto(p, l, op[p]) /\ OpOK(l, op[p], Len(users))
    BY <1>1, <1>3, GotoKeeps DEF TypeInv
  <1> QED BY <1>2, <1>3

LEMMA MemberWriteType ==
  ASSUME NEW f \in [Ids -> [Courses -> Roles \cup {"none"}]], NEW u, NEW c,
         NEW v \in Roles \cup {"none"}
  PROVE  [f EXCEPT ![u][c] = v] \in [Ids -> [Courses -> Roles \cup {"none"}]]
  OBVIOUS

\* What a call makes of a course record: the join code stays or is one that
\* spells the course.
LEMMA ChangedType ==
  ASSUME NEW o \in OpRecords, o.read \in CourseRecords, o.kind \in RecordKinds,
         o.kind = "generate" => o.value \in {"x", "y"}
  PROVE  /\ Changed(o) \in CourseRecords
         /\ Changed(o).joinCode = IF o.kind = "generate" THEN <<o.course, o.value>>
                                  ELSE o.read.joinCode
  <1>1. ASSUME NEW r \in CourseRecords, NEW b \in BOOLEAN
        PROVE  [r EXCEPT !.allows = b] \in CourseRecords
               /\ [r EXCEPT !.allows = b].joinCode = r.joinCode
    BY DEF CourseRecords
  <1>2. ASSUME NEW r \in CourseRecords
        PROVE  [r EXCEPT !.name = "second"] \in CourseRecords
               /\ [r EXCEPT !.name = "second"].joinCode = r.joinCode
    BY DEF CourseRecords, Values
  <1>3. ASSUME NEW r \in CourseRecords, NEW j \in Nat \X {"x", "y"}
        PROVE  [r EXCEPT !.joinCode = j] \in CourseRecords /\ [r EXCEPT !.joinCode = j].joinCode = j
    BY DEF CourseRecords
  <1>4. o.course \in Nat
    BY DEF OpRecords
  <1>5. CASE o.kind = "rename"
    BY <1>2, <1>5 DEF Changed
  <1>6. CASE o.kind = "allow"
    BY <1>1, <1>6 DEF Changed
  <1>7. CASE o.kind = "forbid"
    BY <1>1, <1>7 DEF Changed
  <1>8. CASE o.kind = "generate"
    BY <1>3, <1>4, <1>8 DEF Changed
  <1> QED BY <1>5, <1>6, <1>7, <1>8 DEF RecordKinds

\* The calls about courses go on.
LEMMA TypeCourseStep ==
  ASSUME TypeInv, NEW p \in Calls,
         \/ AddNewUser(p) \/ AddKnown(p) \/ AddCourse(p) \/ AddUser(p)
         \/ RemoveCourseMember(p) \/ RemoveUser(p)
         \/ UnbindJoinCode(p) \/ UpdateCourse(p) \/ BindJoinCode(p)
  PROVE  TypeInv'
  <1>0. /\ Len(users) \in Nat /\ op[p] \in OpRecords /\ OpOK(pc[p], op[p], Len(users))
        /\ DataOK /\ CallsOK
    BY DEF TypeInv, DataOK, CallsOK
  <1>1. CASE AddNewUser(p)
    <2>1. pc[p] = "addNew" /\ op[p].name \in Usernames /\ op[p].email \in Emails
          /\ op[p].kind = "add" /\ op[p].value \in Roles
      BY <1>0, <1>1 DEF AddNewUser, At, OpOK, MemberKinds
    <2> DEFINE u == nameKey'[op[p].name]
               o == [op[p] EXCEPT !.user = u]
    <2>2. /\ users' \in Seq(UserRecords)
          /\ Len(users') \in Nat /\ Len(users) <= Len(users')
          /\ nameKey' \in [Usernames -> 0..Len(users')]
          /\ emailKey' \in [Emails -> 0..Len(users')]
          /\ u \in 1..Len(users')
      BY <1>1, <2>1, CreateUserType DEF AddNewUser
    <2>3. DataOK'
      BY <1>0, <1>1, <2>2 DEF AddNewUser, DataOK, codeVars, courseVars, memberVars
    <2>4. Goto(p, "known", o) /\ u \in Nat
      BY <1>1, <2>2 DEF AddNewUser
    <2>5. o \in OpRecords /\ o.user = u /\ o.kind = "add" /\ o.value \in Roles
      BY <1>0, <2>1, <2>4, OpWithUser
    <2> HIDE DEF o, u
    <2>6. OpOK("known", o, Len(users')) /\ "known" \in Labels
      BY <2>2, <2>5 DEF OpOK, WithUser, MemberKinds, Labels
    <2>7. CallsOK'
      BY <1>0, <2>2, <2>4, <2>5, <2>6, GotoKeeps
    <2> QED BY <2>3, <2>7 DEF TypeInv
  <1>2. CASE AddKnown(p)
    <2>1. DataOK' /\ Len(users') = Len(users)
      BY <1>0, <1>2, DataUnchanged DEF AddKnown, notCourses, DataOK
    <2>2. OpOK("addCourse", op[p], Len(users)) /\ "addCourse" \in Labels
      BY <1>0, <1>2 DEF AddKnown, At, OpOK, WithUser, MemberKinds, Labels
    <2> QED BY <1>2, <2>1, <2>2, StepType DEF AddKnown
  <1>3. CASE AddCourse(p)
    <2>1. pc[p] = "addCourse" /\ op[p].value \in Roles
      BY <1>0, <1>3 DEF AddCourse, At, OpOK
    <2>2. DataOK' /\ Len(users') = Len(users)
      BY <1>0, <1>3, <2>1, MemberWriteType
         DEF AddCourse, DataOK, userVars, codeVars, courseVars
    <2>3. OpOK("addUser", op[p], Len(users)) /\ "addUser" \in Labels
      BY <1>0, <2>1 DEF OpOK, WithUser, MemberKinds, Labels
    <2> QED BY <1>3, <2>2, <2>3, StepType DEF AddCourse
  <1>4. CASE AddUser(p)
    <2>1. pc[p] = "addUser" /\ op[p].value \in Roles
      BY <1>0, <1>4 DEF AddUser, At, OpOK
    <2>2. DataOK' /\ Len(users') = Len(users)
      BY <1>0, <1>4, <2>1, MemberWriteType
         DEF AddUser, DataOK, userVars, codeVars, courseVars
    <2>3. OpOK("addCourse", op[p], Len(users)) /\ "addCourse" \in Labels
      BY <1>0, <2>1 DEF OpOK, WithUser, MemberKinds, Labels
    <2> QED BY <1>4, <2>2, <2>3, StepType DEF AddUser
  <1>5. CASE RemoveCourseMember(p)
    <2>1. DataOK' /\ Len(users') = Len(users)
      BY <1>0, <1>5, MemberWriteType
         DEF RemoveCourseMember, DataOK, userVars, codeVars, courseVars
    <2>2. OpOK("removeUser", op[p], Len(users)) /\ "removeUser" \in Labels
      BY <1>0, <1>5 DEF RemoveCourseMember, At, OpOK, WithUser, MemberKinds, Labels
    <2> QED BY <1>5, <2>1, <2>2, StepType DEF RemoveCourseMember
  <1>6. CASE RemoveUser(p)
    <2>1. DataOK' /\ Len(users') = Len(users)
      BY <1>0, <1>6, MemberWriteType
         DEF RemoveUser, DataOK, userVars, codeVars, courseVars
    <2> QED BY <1>6, <2>1, StepType DEF RemoveUser, Labels
  <1>7. CASE UnbindJoinCode(p)
    <2>1. DataOK' /\ Len(users') = Len(users)
      BY <1>0, <1>7 DEF UnbindJoinCode, DataOK, userVars, codeVars, boardVars, memberVars
    <2>2. OpOK("update", op[p], Len(users)) /\ "update" \in Labels
      BY <1>0, <1>7 DEF UnbindJoinCode, At, OpOK, WithUser, RecordKinds, Labels
    <2> QED BY <1>7, <2>1, <2>2, StepType DEF UnbindJoinCode
  <1>8. CASE UpdateCourse(p)
    <2> DEFINE o == op[p]
    <2>1. pc[p] = "update" /\ courses' = [courses EXCEPT ![o.course] = Changed(o)]
      BY <1>8 DEF UpdateCourse, At
    <2>2. End(p) \/ (Goto(p, "bindCode", o) /\ o.kind = "generate")
      BY <1>8 DEF UpdateCourse
    <2>3. /\ o.kind \in RecordKinds /\ o.read \in CourseRecords
          /\ o.kind = "generate" => o.value \in {"x", "y"}
      BY <1>0, <2>1 DEF OpOK
    <2>4. courses' \in Seq(CourseRecords)
      <3>1. Changed(o) \in CourseRecords
        BY <1>0, <2>3, ChangedType
      <3> HIDE DEF o
      <3>2. courses \in Seq(CourseRecords)
        BY <1>0 DEF DataOK
      <3>3. CASE o.course \in 1..Len(courses)
        BY <2>1, <3>1, <3>2, <3>3, ExceptSeq
      <3>4. CASE o.course \notin 1..Len(courses)
        <4>1. courses' = courses
          BY <2>1, <3>2, <3>4
        <4> QED BY <3>2, <4>1
      <3> QED BY <3>3, <3>4
    <2>5. DataOK' /\ Len(users') = Len(users)
      BY <1>0, <1>8, <2>4 DEF UpdateCourse, DataOK, userVars, codeVars, boardVars, memberVars
    <2>6. o.kind = "generate" => OpOK("bindCode", o, Len(users))
      BY <1>0, <2>1 DEF OpOK, WithUser
    <2>7. "bindCode" \in Labels
      BY DEF Labels
    <2> QED BY <2>2, <2>5, <2>6, <2>7, StepType
  <1>9. CASE BindJoinCode(p)
    <2>1. DataOK' /\ Len(users') = Len(users)
      BY <1>0, <1>9 DEF BindJoinCode, DataOK, userVars, codeVars, boardVars, memberVars
    <2> QED BY <1>9, <2>1, StepType DEF BindJoinCode, Labels
  <1> QED BY <1>1, <1>2, <1>3, <1>4, <1>5, <1>6, <1>7, <1>8, <1>9

\* The calls about the leaderboard go on.
LEMMA TypeBoardStep ==
  ASSUME TypeInv, NEW p \in Calls,
         UpdateEntry(p) \/ MarkBoard(p) \/ DeleteEntry(p) \/ CountEntries(p) \/ UnmarkBoard(p)
  PROVE  TypeInv'
  <1>0. Len(users) \in Nat /\ OpOK(pc[p], op[p], Len(users)) /\ DataOK
    BY DEF TypeInv, DataOK, CallsOK
  <1>1. DataOK' /\ Len(users') = Len(users)
    <2>1. calls' = calls /\ UNCHANGED notBoard
      BY DEF UpdateEntry, MarkBoard, DeleteEntry, CountEntries, UnmarkBoard
    <2> QED BY <1>0, <2>1 DEF notBoard, DataOK, userVars, codeVars, memberVars
  <1>2. CASE UpdateEntry(p)
    <2>1. OpOK("mark", op[p], Len(users)) /\ "mark" \in Labels
      BY <1>0, <1>2 DEF UpdateEntry, At, OpOK, WithUser, Labels
    <2> QED BY <1>1, <1>2, <2>1, StepType DEF UpdateEntry
  <1>3. CASE MarkBoard(p) \/ UnmarkBoard(p)
    BY <1>1, <1>3, StepType DEF MarkBoard, UnmarkBoard, Labels
  <1>4. CASE DeleteEntry(p)
    <2>1. OpOK("count", op[p], Len(users)) /\ "count" \in Labels
      BY <1>0, <1>4 DEF DeleteEntry, At, OpOK, WithUser, Labels
    <2> QED BY <1>1, <1>4, <2>1, StepType DEF DeleteEntry
  <1>5. CASE CountEntries(p)
    <2>1. OpOK("unmark", op[p], Len(users)) /\ "unmark" \in Labels
      BY <1>0, <1>5 DEF CountEntries, At, OpOK, WithUser, Labels
    <2> QED BY <1>1, <1>5, <2>1, StepType DEF CountEntries
  <1> QED BY <1>2, <1>3, <1>4, <1>5

LEMMA TypeRestart ==
  ASSUME TypeInv, Restart
  PROVE  TypeInv'
  <1>1. Len(users) \in Nat
    BY DEF TypeInv, DataOK
  <1>2. NoOp \in OpRecords /\ OpOK("idle", NoOp, Len(users)) /\ "idle" \in Labels
    BY <1>1, NoOpOK DEF Labels
  <1>3. DataOK' /\ users' = users
    BY DEF TypeInv, DataOK, Restart, userVars, courseVars, memberVars
  <1>4. CallsOK'
    <2>1. pc' = [q \in Calls |-> "idle"] /\ op' = [q \in Calls |-> NoOp]
      BY DEF Restart
    <2> QED BY <1>2, <1>3, <2>1 DEF CallsOK
  <1> QED BY <1>3, <1>4 DEF TypeInv

LEMMA TypeInit == Init => TypeInv
  <1> SUFFICES ASSUME Init PROVE TypeInv
    OBVIOUS
  <1>1. User(RootName, RootEmail, "old") \in UserRecords
        /\ User(MemberName, MemberEmail, "old") \in UserRecords
    BY AccountAssumption DEF User, UserRecords, Values
  <1>2. [User(RootName, RootEmail, "old") EXCEPT !.admin = TRUE] \in UserRecords
    <2>1. ASSUME NEW u \in UserRecords, NEW b \in BOOLEAN PROVE [u EXCEPT !.admin = b] \in UserRecords
      BY DEF UserRecords
    <2> QED BY <1>1, <2>1
  <1>3. FirstUsers \in Seq(UserRecords) /\ Len(FirstUsers) = 2
    BY <1>1, <1>2 DEF FirstUsers
  <1>4. courses \in Seq(CourseRecords)
    <2>1. [name |-> "first", allows |-> TRUE, joinCode |-> <<1, "x">>] \in CourseRecords
      BY DEF CourseRecords, Values
    <2> QED BY <2>1 DEF Init
  <1>5. NoOp \in OpRecords /\ OpOK("idle", NoOp, 2) /\ "idle" \in Labels
    BY NoOpOK DEF Labels
  <1>6. CallsOK
    BY <1>3, <1>5 DEF Init, CallsOK
  <1>7. DataOK
    <2>1. users = FirstUsers /\ Len(users) = 2
      BY <1>3 DEF Init
    <2>2. userCourses \in [Ids -> [Courses -> Roles \cup {"none"}]]
      BY DEF Init, Roles
    <2>3. code \in [Types -> [Emails -> Nat]] /\ issued \in Nat /\ updateMu = NoCall
          /\ calls \in Nat /\ courseUsers = userCourses /\ adminTokens = {1}
      BY DEF Init, Root
    <2>4. /\ nameKey \in [Usernames -> 0..2] /\ emailKey \in [Emails -> 0..2]
          /\ githubKey \in [Logins -> 0..2]
      BY DEF Init
    <2>5. users \in Seq(UserRecords)
      BY <1>3, <2>1
    <2>6. adminTokens \subseteq 1..Len(users)
      BY <2>1, <2>3
    <2> HIDE DEF FirstUsers
    <2> QED BY <1>4, <2>1, <2>2, <2>3, <2>4, <2>5, <2>6 DEF DataOK
  <1> QED BY <1>6, <1>7 DEF TypeInv

LEMMA TypeStep == TypeInv /\ [Next]_vars => TypeInv'
  <1> SUFFICES ASSUME TypeInv, [Next]_vars PROVE TypeInv'
    OBVIOUS
  <1>1. CASE AccountNext
    BY <1>1, TypeNoCall, TypeAccountBegin, TypeAccountStep DEF AccountNext, Ready
  <1>2. CASE CourseNext
    BY <1>2, TypeCourseBegin, TypeCourseStep DEF CourseNext, Ready
  <1>3. CASE LeaderboardNext
    BY <1>3, TypeCourseBegin, TypeBoardStep DEF LeaderboardNext, Ready
  <1>4. CASE Restart
    BY <1>4, TypeRestart
  <1>5. CASE UNCHANGED vars
    BY <1>5 DEF vars, userVars, codeVars, courseVars, memberVars, callVars, TypeInv, DataOK, CallsOK
  <1> QED BY <1>1, <1>2, <1>3, <1>4, <1>5 DEF Next

\* Every variable and every argument of a call in progress has its type,
\* whatever calls of AutograderService interleave and whenever the server stops.
THEOREM TypeInvHolds == Spec => []TypeInv
  BY TypeInit, TypeStep, PTL DEF Spec

\* Every variable keeps its type, and every index and every call in progress
\* leads to a user that exists (KVUserRepository).
THEOREM TypeCorrect == Spec => []TypeOK
  <1>1. TypeInv => TypeOK
    <2> SUFFICES ASSUME TypeInv PROVE TypeOK
      OBVIOUS
    <2>1. ASSUME NEW u \in 1..Len(users)
          PROVE  /\ users[u].name \in Usernames /\ users[u].email \in Emails
                 /\ users[u].github \in Logins \cup {"none"}
      <3>1. users[u] \in UserRecords
        BY DEF TypeInv, DataOK
      <3> QED BY <3>1 DEF UserRecords
    <2>2. \A p \in Calls : op[p].user \in 0..Len(users)
      BY DEF TypeInv, CallsOK, OpOK
    <2> QED BY <2>1, <2>2 DEF TypeInv, DataOK, TypeOK
  <1> QED BY <1>1, TypeInvHolds, PTL

-----------------------------------------------------------------------------
(* The inductive invariants of the properties *)

\* Whoever is to write a user holds updateMu and has read what there is.
LockInv ==
  \A p \in Calls : pc[p] = "write" => updateMu = p /\ op[p].read = users[op[p].user]

UserInv == LockInv /\ NamesUnique /\ NoLostUpdate

\* A number is given to one key only, and a call that is to delete a key has
\* read a number that no other key has.
CodeInv ==
  /\ used \subseteq 1..issued
  /\ \A t \in Types, e \in Emails : code[t][e] \in 0..issued /\ code[t][e] \notin used
  /\ \A s, t \in Types, d, e \in Emails :
       <<s, d>> # <<t, e>> /\ code[s][d] = code[t][e] => code[t][e] = 0
  /\ \A p \in Calls : pc[p] = "delete" =>
       /\ op[p].code \in 1..issued
       /\ \A t \in Types, e \in Emails :
            <<t, e>> # <<op[p].type, op[p].email>> => code[t][e] # op[p].code

\* The join codes of a course.
CodesOf(c) == {<<c, "x">>, <<c, "y">>}

\* A course has no code or one that spells its id, and so has the record that a
\* call has read of it; the index never leads elsewhere.
JoinInv ==
  /\ Len(courses) <= 1 + calls /\ calls <= MaxCalls
  /\ joinKey \in [JoinCodes -> Nat]
  /\ \A j \in JoinCodes : joinKey[j] \in {0, j[1]}
  /\ \A c \in CourseIds : courses[c].joinCode \in {<<>>} \cup CodesOf(c)
  /\ \A p \in Calls : pc[p] \in {"unbindCode", "update"} =>
       op[p].read.joinCode \in {<<>>} \cup CodesOf(op[p].course)

\* What two calls in progress both work on has been noted.
OverlapInv == \A p, q \in Calls : p # q => InFlight(p) \cap InFlight(q) \subseteq clashed

\* Where the two writes about the leaderboard stand.
BoardInv ==
  Leaderboard \in clashed \/
    /\ \A p \in Calls :
         /\ pc[p] = "mark" => entries # {}
         /\ pc[p] = "count" => (entries # {} => marker)
         /\ pc[p] = "unmark" => entries = {}
    /\ (\A p \in Calls : pc[p] \notin {"mark", "count", "unmark"}) => marker = (entries # {})

\* A call that has done one of the two writes of a membership.
HalfDone(p) ==
  \/ pc[p] = "addUser" /\ op[p].kind # "create"
  \/ pc[p] = "addCourse" /\ op[p].kind = "create"
  \/ pc[p] = "removeUser"

\* A call about the membership of u in c.
About(p, u, c) == op[p].user = u /\ op[p].course = c

\* Where the two writes about the membership of u in c stand.
MemberAt(u, c) ==
  <<u, c>> \in clashed \/
    /\ \A p \in Calls : About(p, u, c) =>
         /\ pc[p] = "addUser" /\ op[p].kind # "create" => userCourses[u][c] = op[p].value
         /\ pc[p] = "addCourse" /\ op[p].kind = "create" => courseUsers[u][c] = op[p].value
         /\ pc[p] = "removeUser" => userCourses[u][c] = "none"
    /\ (\A p \in Calls : About(p, u, c) => ~HalfDone(p)) => userCourses[u][c] = courseUsers[u][c]

MemberInv == \A u \in Ids, c \in Courses : MemberAt(u, c)

GithubKinds == {"bind", "unbind", "github"}

\* The user u is not bound, or the login leads back.
LeadsBack(u) == users[u].github = "none" \/ githubKey[users[u].github] = u

\* Where the two writes about GitHub logins stand.
GithubInv ==
  GithubIndex \in clashed \/
    /\ \A p \in Calls :
         /\ op[p].kind \in {"bind", "github"} => githubKey[op[p].login] = 0
         /\ pc[p] = "index" =>
              /\ users[op[p].user].github = op[p].login
              /\ \A u \in 1..Len(users) \ {op[p].user} : LeadsBack(u)
         /\ pc[p] = "unindex" =>
              /\ users[op[p].user].github = "none"
              /\ githubKey[op[p].login] = op[p].user
    /\ (\A p \in Calls : pc[p] # "index") => \A u \in 1..Len(users) : LeadsBack(u)

-----------------------------------------------------------------------------
(* Calls that begin and go on *)

\* A step of the call p only.
Moves(p) ==
  /\ Goto(p, pc'[p], op'[p])
  /\ \A q \in Calls \ {p} : pc'[q] = pc[q] /\ op'[q] = op[q]

LEMMA GotoMoves ==
  ASSUME CallsOK, NEW p \in Calls, NEW l, NEW o, Goto(p, l, o)
  PROVE  Moves(p) /\ pc'[p] = l /\ op'[p] = o
  BY DEF CallsOK, Goto, Moves

LEMMA EndMoves ==
  ASSUME CallsOK, NEW p \in Calls, End(p)
  PROVE  Moves(p) /\ pc'[p] = "idle" /\ op'[p] = NoOp
  BY GotoMoves DEF End

\* What a call is when it has begun.
Began(p) ==
  /\ Moves(p) /\ pc[p] = "idle" /\ calls < MaxCalls /\ calls' = calls + 1
  /\ UNCHANGED <<userVars, codeVars, joinKey, boardVars, memberVars, updateMu>>
  /\ pc'[p] \in {"delete", "read", "validate", "addUser", "addCourse", "addNew", "known",
                 "removeCourse", "unbindCode", "update", "entry", "unentry"}
  /\ pc'[p] = "delete" => op'[p].code = code[op'[p].type][op'[p].email] /\ op'[p].code # 0
  /\ op'[p].kind \in {"bind", "github"} => githubKey[op'[p].login] = 0
  /\ pc'[p] = "addUser" => op'[p].kind = "create"
  /\ pc'[p] = "addCourse" => op'[p].kind # "create"

LEMMA BeginMoves ==
  ASSUME TypeInv, NEW p \in Calls, NEW l, NEW o, Begin(p, l, o)
  PROVE  Moves(p) /\ pc'[p] = l /\ op'[p] = o /\ pc[p] = "idle" /\ calls < MaxCalls
         /\ calls' = calls + 1
  BY GotoMoves DEF Begin, Ready, TypeInv

LEMMA ValidateBegan ==
  ASSUME TypeInv, NEW p \in Calls, NEW o \in OpRecords, o.kind \in {"signup", "reset"},
         ValidateBegin(p, o)
  PROVE  Began(p) /\ UNCHANGED courses
  <1>1. PICK n \in {code[o.type][o.email]} \ {0} :
          /\ Begin(p, "delete", [o EXCEPT !.code = n,
               !.value = IF <<o.type, o.email>> \in expired THEN "expired" ELSE @])
          /\ UNCHANGED notCodes
    BY DEF ValidateBegin
  <1> DEFINE r == [o EXCEPT !.code = n,
                     !.value = IF <<o.type, o.email>> \in expired THEN "expired" ELSE @]
  <1>2. r.kind = o.kind /\ r.type = o.type /\ r.email = o.email /\ r.code = n
    BY DEF OpRecords
  <1> HIDE DEF r
  <1>3. Moves(p) /\ pc'[p] = "delete" /\ op'[p] = r /\ pc[p] = "idle" /\ calls < MaxCalls
        /\ calls' = calls + 1
    BY <1>1, BeginMoves DEF r
  <1> QED BY <1>1, <1>2, <1>3 DEF Began, notCodes, courseVars

LEMMA AccountBegan ==
  ASSUME TypeInv, NEW p \in Calls,
         \/ SignUp(p) \/ ResetPassword(p) \/ GithubLogin(p) \/ BindGithub(p) \/ UnbindGithub(p)
         \/ UpdateUser(p) \/ UpdatePassword(p) \/ SetAdmin(p)
  PROVE  Began(p) /\ UNCHANGED courses
  <1>1. CASE SignUp(p)
    <2>1. PICK n \in Usernames, e \in Emails, v \in {"long", "short"} :
            ValidateBegin(p, [NoOp EXCEPT !.kind = "signup", !.type = "sign_up", !.name = n,
                                          !.email = e, !.value = v])
      BY <1>1 DEF SignUp
    <2> DEFINE o == [NoOp EXCEPT !.kind = "signup", !.type = "sign_up", !.name = n,
                                 !.email = e, !.value = v]
    <2>2. o \in OpRecords /\ o.kind = "signup"
      BY DEF OpRecords, NoOp, Kinds, Values, Types
    <2> HIDE DEF o
    <2>3. ValidateBegin(p, o)
      BY <2>1 DEF o
    <2> QED BY <2>2, <2>3, ValidateBegan
  <1>2. CASE ResetPassword(p)
    <2>1. PICK e \in Emails, v \in {"new", "short"} :
            ValidateBegin(p, [NoOp EXCEPT !.kind = "reset", !.type = "password_reset", !.email = e,
                                          !.value = v])
      BY <1>2 DEF ResetPassword
    <2> DEFINE o == [NoOp EXCEPT !.kind = "reset", !.type = "password_reset", !.email = e,
                                 !.value = v]
    <2>2. o \in OpRecords /\ o.kind = "reset"
      BY DEF OpRecords, NoOp, Kinds, UpdateKinds, Values, Types
    <2> HIDE DEF o
    <2>3. ValidateBegin(p, o)
      BY <2>1 DEF o
    <2> QED BY <2>2, <2>3, ValidateBegan
  <1>3. CASE GithubLogin(p)
    <2>1. PICK l \in Logins, e \in Emails :
            /\ Begin(p, IF emailKey[e] # 0 THEN "read" ELSE "validate", [NoOp EXCEPT !.kind = "github", !.login = l, !.email = e, !.name = l,
                !.user = emailKey[e],
                !.old = IF emailKey[e] # 0 /\ users[emailKey[e]].admin THEN "yes" ELSE @])
            /\ UNCHANGED notCodes
            /\ githubKey[l] = 0
      BY <1>3 DEF GithubLogin
    <2>2. /\ Moves(p) /\ pc'[p] = (IF emailKey[e] # 0 THEN "read" ELSE "validate") /\ pc[p] = "idle" /\ calls < MaxCalls /\ calls' = calls + 1
          /\ op'[p] = [NoOp EXCEPT !.kind = "github", !.login = l, !.email = e, !.name = l,
                !.user = emailKey[e],
                !.old = IF emailKey[e] # 0 /\ users[emailKey[e]].admin THEN "yes" ELSE @]
      BY <2>1, BeginMoves
    <2>3. op'[p].kind = "github" /\ op'[p].login = l
      BY <2>2 DEF NoOp
    <2> QED BY <2>1, <2>2, <2>3 DEF Began, notCodes, courseVars
  <1>4. CASE BindGithub(p)
    <2>1. PICK u \in 1..Len(users), l \in Logins :
            /\ Begin(p, "read", [NoOp EXCEPT !.kind = "bind", !.user = u, !.login = l])
            /\ UNCHANGED notCodes
            /\ githubKey[l] = 0
      BY <1>4 DEF BindGithub
    <2>2. /\ Moves(p) /\ pc'[p] = "read" /\ pc[p] = "idle" /\ calls < MaxCalls /\ calls' = calls + 1
          /\ op'[p] = [NoOp EXCEPT !.kind = "bind", !.user = u, !.login = l]
      BY <2>1, BeginMoves
    <2>3. op'[p].kind = "bind" /\ op'[p].login = l
      BY <2>2 DEF NoOp
    <2> QED BY <2>1, <2>2, <2>3 DEF Began, notCodes, courseVars
  <1>5. CASE UnbindGithub(p)
    <2>1. PICK u \in 1..Len(users) :
            /\ Begin(p, "read", [NoOp EXCEPT !.kind = "unbind", !.user = u])
            /\ UNCHANGED notCodes
      BY <1>5 DEF UnbindGithub
    <2>2. /\ Moves(p) /\ pc'[p] = "read" /\ pc[p] = "idle" /\ calls < MaxCalls /\ calls' = calls + 1
          /\ op'[p] = [NoOp EXCEPT !.kind = "unbind", !.user = u]
      BY <2>1, BeginMoves
    <2>3. op'[p].kind = "unbind"
      BY <2>2 DEF NoOp
    <2> QED BY <2>1, <2>2, <2>3 DEF Began, notCodes, courseVars
  <1>6. CASE UpdateUser(p)
    <2>1. PICK u \in 1..Len(users) :
            /\ Begin(p, "read", [NoOp EXCEPT !.kind = "nickname", !.user = u, !.value = "second"])
            /\ UNCHANGED notCodes
      BY <1>6 DEF UpdateUser
    <2>2. /\ Moves(p) /\ pc'[p] = "read" /\ pc[p] = "idle" /\ calls < MaxCalls /\ calls' = calls + 1
          /\ op'[p] = [NoOp EXCEPT !.kind = "nickname", !.user = u, !.value = "second"]
      BY <2>1, BeginMoves
    <2>3. op'[p].kind = "nickname"
      BY <2>2 DEF NoOp
    <2> QED BY <2>1, <2>2, <2>3 DEF Began, notCodes, courseVars
  <1>7. CASE UpdatePassword(p)
    <2>1. PICK u \in 1..Len(users) :
            /\ Begin(p, "read", [NoOp EXCEPT !.kind = "password", !.user = u, !.old = "old", !.value = "new"])
            /\ UNCHANGED notCodes
      BY <1>7 DEF UpdatePassword
    <2>2. /\ Moves(p) /\ pc'[p] = "read" /\ pc[p] = "idle" /\ calls < MaxCalls /\ calls' = calls + 1
          /\ op'[p] = [NoOp EXCEPT !.kind = "password", !.user = u, !.old = "old", !.value = "new"]
      BY <2>1, BeginMoves
    <2>3. op'[p].kind = "password"
      BY <2>2 DEF NoOp
    <2> QED BY <2>1, <2>2, <2>3 DEF Began, notCodes, courseVars
  <1>8. CASE SetAdmin(p)
    <2>1. PICK u \in 1..Len(users), v \in {"yes", "no"} :
            /\ Begin(p, "read", [NoOp EXCEPT !.kind = "admin", !.user = u, !.value = v])
            /\ UNCHANGED notCodes
      BY <1>8 DEF SetAdmin
    <2>2. /\ Moves(p) /\ pc'[p] = "read" /\ pc[p] = "idle" /\ calls < MaxCalls /\ calls' = calls + 1
          /\ op'[p] = [NoOp EXCEPT !.kind = "admin", !.user = u, !.value = v]
      BY <2>1, BeginMoves
    <2>3. op'[p].kind = "admin"
      BY <2>2 DEF NoOp
    <2> QED BY <2>1, <2>2, <2>3 DEF Began, notCodes, courseVars
  <1> QED BY <1>1, <1>2, <1>3, <1>4, <1>5, <1>6, <1>7, <1>8

LEMMA CourseBegan ==
  ASSUME TypeInv, NEW p \in Calls,
         \/ CreateCourse(p) \/ JoinCourse(p) \/ AddCourseMembers(p) \/ UpdateCourseMember(p)
         \/ RemoveCourseMembers(p) \/ CourseBegin(p) \/ ActivateSubmission(p)
         \/ DeleteLeaderboard(p)
  PROVE  Began(p) /\ (CreateCourse(p) \/ UNCHANGED courses)
  <1>1. CASE CreateCourse(p)
    <2>1. PICK u \in adminTokens :
            Begin(p, "addUser", [NoOp EXCEPT !.kind = "create", !.user = u,
                                   !.course = Len(courses) + 1, !.value = "Instructor"])
      BY <1>1 DEF CreateCourse
    <2>2. /\ Moves(p) /\ pc'[p] = "addUser" /\ pc[p] = "idle" /\ calls < MaxCalls
          /\ calls' = calls + 1
          /\ op'[p] = [NoOp EXCEPT !.kind = "create", !.user = u,
                         !.course = Len(courses) + 1, !.value = "Instructor"]
      BY <2>1, BeginMoves
    <2>3. op'[p].kind = "create"
      BY <2>2 DEF NoOp
    <2> QED BY <1>1, <2>2, <2>3 DEF CreateCourse, Began
  <1>2. CASE JoinCourse(p)
    <2>1. PICK u \in 1..Len(users), c \in CourseIds :
            /\ Begin(p, "addCourse", [NoOp EXCEPT !.kind = "join", !.user = u, !.course = c,
                !.value = "Student"])
            /\ UNCHANGED notCourses
      BY <1>2 DEF JoinCourse
    <2>2. /\ Moves(p) /\ pc'[p] = "addCourse" /\ pc[p] = "idle" /\ calls < MaxCalls /\ calls' = calls + 1
          /\ op'[p] = [NoOp EXCEPT !.kind = "join", !.user = u, !.course = c,
                !.value = "Student"]
      BY <2>1, BeginMoves
    <2>3. op'[p].kind = "join"
      BY <2>2 DEF NoOp
    <2> QED BY <2>1, <2>2, <2>3 DEF Began, notCourses, courseVars
  <1>3. CASE UpdateCourseMember(p)
    <2>1. PICK u \in 1..Len(users), c \in CourseIds, r \in Roles :
            /\ Begin(p, "addCourse", [NoOp EXCEPT !.kind = "member", !.user = u, !.course = c,
                !.value = r])
            /\ UNCHANGED notCourses
      BY <1>3 DEF UpdateCourseMember
    <2>2. /\ Moves(p) /\ pc'[p] = "addCourse" /\ pc[p] = "idle" /\ calls < MaxCalls /\ calls' = calls + 1
          /\ op'[p] = [NoOp EXCEPT !.kind = "member", !.user = u, !.course = c,
                !.value = r]
      BY <2>1, BeginMoves
    <2>3. op'[p].kind = "member"
      BY <2>2 DEF NoOp
    <2> QED BY <2>1, <2>2, <2>3 DEF Began, notCourses, courseVars
  <1>4. CASE AddCourseMembers(p)
    <2>1. PICK c \in CourseIds, n \in Usernames, e \in Emails, r \in Roles :
            /\ Begin(p, IF emailKey[e] = 0 THEN "addNew" ELSE "known", [NoOp EXCEPT !.kind = "add", !.user = emailKey[e], !.course = c, !.value = r,
                !.name = IF emailKey[e] = 0 THEN n ELSE @,
                !.email = IF emailKey[e] = 0 THEN e ELSE @])
            /\ UNCHANGED notCourses
      BY <1>4 DEF AddCourseMembers
    <2>2. /\ Moves(p) /\ pc'[p] = (IF emailKey[e] = 0 THEN "addNew" ELSE "known") /\ pc[p] = "idle" /\ calls < MaxCalls /\ calls' = calls + 1
          /\ op'[p] = [NoOp EXCEPT !.kind = "add", !.user = emailKey[e], !.course = c, !.value = r,
                !.name = IF emailKey[e] = 0 THEN n ELSE @,
                !.email = IF emailKey[e] = 0 THEN e ELSE @]
      BY <2>1, BeginMoves
    <2>3. op'[p].kind = "add"
      BY <2>2 DEF NoOp
    <2> QED BY <2>1, <2>2, <2>3 DEF Began, notCourses, courseVars
  <1>5. CASE RemoveCourseMembers(p)
    <2>1. PICK u \in 1..Len(users), c \in CourseIds :
            /\ Begin(p, "removeCourse", [NoOp EXCEPT !.kind = "remove", !.user = u, !.course = c])
            /\ UNCHANGED notCourses
      BY <1>5 DEF RemoveCourseMembers
    <2>2. /\ Moves(p) /\ pc'[p] = "removeCourse" /\ pc[p] = "idle" /\ calls < MaxCalls /\ calls' = calls + 1
          /\ op'[p] = [NoOp EXCEPT !.kind = "remove", !.user = u, !.course = c]
      BY <2>1, BeginMoves
    <2>3. op'[p].kind = "remove"
      BY <2>2 DEF NoOp
    <2> QED BY <2>1, <2>2, <2>3 DEF Began, notCourses, courseVars
  <1>6. CASE CourseBegin(p)
    <2>1. PICK c \in CourseIds, k \in RecordKinds, x \in {"x", "y"}, l \in {"unbindCode", "update"} :
            /\ Begin(p, l, [NoOp EXCEPT !.kind = k, !.course = c, !.read = courses[c], !.value = x])
            /\ UNCHANGED notCourses
      BY <1>6 DEF CourseBegin, RecordKinds
    <2>2. /\ Moves(p) /\ pc'[p] = l /\ pc[p] = "idle" /\ calls < MaxCalls /\ calls' = calls + 1
          /\ op'[p] = [NoOp EXCEPT !.kind = k, !.course = c, !.read = courses[c], !.value = x]
      BY <2>1, BeginMoves
    <2>3. op'[p].kind = k
      BY <2>2 DEF NoOp
    <2> QED BY <2>1, <2>2, <2>3 DEF Began, notCourses, courseVars, RecordKinds
  <1>7. CASE ActivateSubmission(p)
    <2>1. PICK u \in 1..Len(users) :
            /\ Begin(p, "entry", [NoOp EXCEPT !.kind = "activate", !.user = u])
            /\ UNCHANGED <<boardVars, notBoard>>
      BY <1>7 DEF ActivateSubmission
    <2>2. /\ Moves(p) /\ pc'[p] = "entry" /\ pc[p] = "idle" /\ calls < MaxCalls /\ calls' = calls + 1
          /\ op'[p] = [NoOp EXCEPT !.kind = "activate", !.user = u]
      BY <2>1, BeginMoves
    <2>3. op'[p].kind = "activate"
      BY <2>2 DEF NoOp
    <2> QED BY <2>1, <2>2, <2>3 DEF Began, notBoard
  <1>8. CASE DeleteLeaderboard(p)
    <2>1. PICK u \in 1..Len(users) :
            /\ Begin(p, "unentry", [NoOp EXCEPT !.kind = "unlist", !.user = u])
            /\ UNCHANGED <<boardVars, notBoard>>
      BY <1>8 DEF DeleteLeaderboard
    <2>2. /\ Moves(p) /\ pc'[p] = "unentry" /\ pc[p] = "idle" /\ calls < MaxCalls /\ calls' = calls + 1
          /\ op'[p] = [NoOp EXCEPT !.kind = "unlist", !.user = u]
      BY <2>1, BeginMoves
    <2>3. op'[p].kind = "unlist"
      BY <2>2 DEF NoOp
    <2> QED BY <2>1, <2>2, <2>3 DEF Began, notBoard
  <1> QED BY <1>1, <1>2, <1>3, <1>4, <1>5, <1>6, <1>7, <1>8

\* Every step is one of these.
LEMMA Cases ==
  ASSUME TypeInv, Next
  PROVE  \/ \E p \in Calls : Began(p) /\ (CreateCourse(p) \/ UNCHANGED courses)
         \/ \E t \in Types, e \in Emails : Issue(t, e)
         \/ Expire \/ CollectCodes \/ CollectKey
         \/ UNCHANGED <<userVars, codeVars, courseVars, memberVars, callVars>>
         \/ Restart
         \/ \E p \in Calls :
              \/ ValidateDelete(p) \/ ResetLookup(p) \/ SignUpValidate(p) \/ SignUpCreate(p)
              \/ ReadUser(p) \/ WriteUser(p) \/ BindIndex(p) \/ UnbindIndex(p)
         \/ \E p \in Calls :
              \/ AddNewUser(p) \/ AddKnown(p) \/ AddCourse(p) \/ AddUser(p)
              \/ RemoveCourseMember(p) \/ RemoveUser(p)
              \/ UnbindJoinCode(p) \/ UpdateCourse(p) \/ BindJoinCode(p)
         \/ \E p \in Calls :
              UpdateEntry(p) \/ MarkBoard(p) \/ DeleteEntry(p) \/ CountEntries(p) \/ UnmarkBoard(p)
  <1>1. CASE AccountNext
    <2>1. CASE RequestSignUpToken \/ RequestPasswordReset
      BY <2>1 DEF RequestSignUpToken, RequestPasswordReset, Types
    <2>2. CASE (\E u \in 1..Len(users) : Login(u)) \/ (\E l \in Logins : GithubLoginKnown(l))
      BY <2>2 DEF Login, GithubLoginKnown
    <2> QED BY <1>1, <2>1, <2>2, AccountBegan DEF AccountNext, Ready
  <1>2. CASE CourseNext
    BY <1>2, CourseBegan DEF CourseNext, Ready
  <1>3. CASE LeaderboardNext
    BY <1>3, CourseBegan DEF LeaderboardNext, Ready
  <1> QED BY <1>1, <1>2, <1>3 DEF Next

-----------------------------------------------------------------------------
(* Names and updates *)

\* A step of p that leaves the users and the lock alone and does not come to
\* the write of an update.
LEMMA UserFrame ==
  ASSUME UserInv, NEW p \in Calls, Moves(p), pc'[p] # "write",
         UNCHANGED <<users, made, nameKey, updateMu>>
  PROVE  UserInv'
  BY DEF UserInv, LockInv, NamesUnique, NoLostUpdate, Moves

\* Nothing that the invariant is about changes.
LEMMA UserStutter ==
  ASSUME UserInv, UNCHANGED <<users, made, nameKey, updateMu, pc, op>>
  PROVE  UserInv'
  BY DEF UserInv, LockInv, NamesUnique, NoLostUpdate

\* CreateUser keeps the names apart, and the users there were.
LEMMA CreateUserKeeps ==
  ASSUME TypeInv, UserInv, NEW n \in Usernames, NEW e \in Emails, NEW pw \in {"old", "none"},
         CreateUser(n, e, pw)
  PROVE  /\ NamesUnique' /\ NoLostUpdate'
         /\ Len(users) \in Nat /\ \A u \in 1..Len(users) : users'[u] = users[u]
  <1>1. users \in Seq(UserRecords) /\ nameKey \in [Usernames -> 0..Len(users)] /\ Len(users) \in Nat
    BY DEF TypeInv, DataOK
  <1>2. CASE nameKey[n] # 0
    BY <1>1, <1>2 DEF CreateUser, UserInv, NamesUnique, NoLostUpdate
  <1>3. CASE nameKey[n] = 0
    <2> DEFINE v == User(n, e, pw)
    <2>1. v \in UserRecords /\ v.name = n
      BY DEF User, UserRecords, Values
    <2>2. /\ users' = Append(users, v) /\ made' = Append(made, v)
          /\ nameKey' = [nameKey EXCEPT ![n] = Len(users) + 1]
      BY <1>3 DEF CreateUser
    <2> HIDE DEF v
    <2>3. /\ Len(users') = Len(users) + 1 /\ users'[Len(users) + 1] = v
          /\ \A u \in 1..Len(users) : users'[u] = users[u]
      BY <1>1, <2>1, <2>2, AppendProperties
    <2>4. ASSUME NEW u \in 1..Len(users') PROVE nameKey'[users'[u].name] = u
      <3>1. CASE u = Len(users) + 1
        BY <1>1, <2>1, <2>2, <2>3, <3>1
      <3>2. CASE u # Len(users) + 1
        <4>1. u \in 1..Len(users) /\ users[u] \in UserRecords
          BY <1>1, <2>3, <3>2
        <4>2. users'[u].name = users[u].name /\ users[u].name \in Usernames
              /\ nameKey[users[u].name] = u
          BY <2>3, <4>1 DEF UserInv, NamesUnique, UserRecords
        <4>3. users[u].name # n
          BY <1>3, <4>1, <4>2, <1>1
        <4> QED BY <1>1, <2>2, <4>2, <4>3
      <3> QED BY <3>1, <3>2
    <2> QED BY <1>1, <2>2, <2>3, <2>4 DEF NamesUnique, NoLostUpdate, UserInv
  <1> QED BY <1>2, <1>3

\* A call that creates a user goes on.
LEMMA UserCreate ==
  ASSUME TypeInv, UserInv, NEW p \in Calls, Moves(p), pc'[p] # "write", UNCHANGED updateMu,
         NEW n \in Usernames, NEW e \in Emails, NEW pw \in {"old", "none"}, CreateUser(n, e, pw)
  PROVE  UserInv'
  <1>1. /\ NamesUnique' /\ NoLostUpdate'
        /\ Len(users) \in Nat /\ \A u \in 1..Len(users) : users'[u] = users[u]
    BY CreateUserKeeps
  <1>2. LockInv'
    <2> SUFFICES ASSUME NEW q \in Calls, pc'[q] = "write"
                 PROVE  updateMu' = q /\ op'[q].read = users'[op'[q].user]
      BY DEF LockInv
    <2>1. q # p /\ pc'[q] = pc[q] /\ op'[q] = op[q]
      BY DEF Moves
    <2>2. updateMu = q /\ op[q].read = users[op[q].user]
      BY <2>1 DEF UserInv, LockInv
    <2>3. op[q].user \in 1..Len(users)
      BY <2>1 DEF TypeInv, CallsOK, OpOK, WithUser
    <2> QED BY <1>1, <2>1, <2>2, <2>3
  <1> QED BY <1>1, <1>2 DEF UserInv

\* WriteUser writes what the update makes of the user there is: the lock was
\* held since the user was read.
LEMMA UserWrite ==
  ASSUME TypeInv, UserInv, NEW p \in Calls, WriteUser(p)
  PROVE  UserInv' /\ Moves(p) /\ users' = [users EXCEPT ![op[p].user] = Mutate(@, op[p])]
         /\ op[p].read = users[op[p].user]
  <1>1. /\ pc[p] = "write" /\ updateMu' = NoCall /\ UNCHANGED nameKey
        /\ users' = [users EXCEPT ![op[p].user] = Mutate(op[p].read, op[p])]
        /\ made' = [made EXCEPT ![op[p].user] = Mutate(@, op[p])]
        /\ CASE op[p].kind \in {"bind", "github"} -> Goto(p, "index", op[p])
             [] op[p].kind = "unbind" /\ op[p].read.github # "none" ->
                  Goto(p, "unindex", [op[p] EXCEPT !.login = op[p].read.github])
             [] OTHER -> End(p)
    BY DEF WriteUser, At
  <1>2. updateMu = p /\ op[p].read = users[op[p].user] /\ op[p] \in OpRecords
        /\ op[p].user \in 1..Len(users) /\ users \in Seq(UserRecords)
    BY <1>1 DEF UserInv, LockInv, TypeInv, DataOK, CallsOK, OpOK, WithUser
  <1>3. Moves(p) /\ pc'[p] # "write"
    <2>1. CASE op[p].kind \in {"bind", "github"}
      BY <1>1, <2>1, GotoMoves DEF TypeInv
    <2>2. CASE op[p].kind = "unbind" /\ op[p].read.github # "none"
      BY <1>1, <2>2, GotoMoves DEF TypeInv
    <2>3. CASE End(p)
      BY <2>3, EndMoves DEF TypeInv
    <2> QED BY <1>1, <2>1, <2>2, <2>3
  <1>4. users' = [users EXCEPT ![op[p].user] = Mutate(@, op[p])] /\ made' = users'
    BY <1>1, <1>2 DEF UserInv, NoLostUpdate
  <1>5. LockInv'
    <2> SUFFICES ASSUME NEW q \in Calls PROVE pc'[q] # "write"
      BY DEF LockInv
    <2>1. CASE q = p
      BY <1>3, <2>1
    <2>2. CASE q # p
      <3>1. pc'[q] = pc[q]
        BY <1>3, <2>2 DEF Moves
      <3> QED BY <1>2, <2>2, <3>1 DEF UserInv, LockInv
    <2> QED BY <2>1, <2>2
  <1>6. NamesUnique'
    <2>1. users[op[p].user] \in UserRecords
      BY <1>2
    <2>2. Mutate(op[p].read, op[p]).name = users[op[p].user].name
      BY <1>2, <2>1, MutateType
    <2>3. /\ Len(users') = Len(users)
          /\ \A u \in 1..Len(users) : users'[u].name = users[u].name
      BY <1>1, <1>2, <2>2
    <2> QED BY <1>1, <2>3 DEF NamesUnique, UserInv
  <1> QED BY <1>2, <1>3, <1>4, <1>5, <1>6 DEF UserInv, NoLostUpdate

LEMMA UserRead ==
  ASSUME TypeInv, UserInv, NEW p \in Calls, ReadUser(p)
  PROVE  UserInv'
  <1> DEFINE o == [op[p] EXCEPT !.read = users[op[p].user]]
  <1>1. /\ updateMu = NoCall /\ updateMu' = p /\ Goto(p, "write", o)
        /\ UNCHANGED <<users, made, nameKey>>
    BY DEF ReadUser, userVars
  <1>2. o.read = users[op[p].user] /\ o.user = op[p].user
    BY DEF TypeInv, CallsOK, OpRecords
  <1> HIDE DEF o
  <1>3. Moves(p) /\ op'[p] = o
    BY <1>1, GotoMoves DEF TypeInv
  <1>4. \A q \in Calls : pc[q] # "write"
    BY <1>1, AccountAssumption DEF UserInv, LockInv
  <1> QED BY <1>1, <1>2, <1>3, <1>4 DEF UserInv, LockInv, NamesUnique, NoLostUpdate, Moves

LEMMA UserInit == Init => UserInv
  <1> SUFFICES ASSUME Init PROVE UserInv
    OBVIOUS
  <1>1. LockInv /\ NoLostUpdate
    BY DEF Init, LockInv, NoLostUpdate
  <1>2. NamesUnique
    <2>1. /\ User(RootName, RootEmail, "old") \in UserRecords
          /\ User(RootName, RootEmail, "old").name = RootName
          /\ User(MemberName, MemberEmail, "old").name = MemberName
      BY AccountAssumption DEF User, UserRecords, Values
    <2>2. [User(RootName, RootEmail, "old") EXCEPT !.admin = TRUE].name = RootName
      BY <2>1 DEF UserRecords
    <2>3. users[1].name = RootName /\ users[2].name = MemberName /\ Len(users) = 2
      BY <2>1, <2>2 DEF Init, FirstUsers
    <2>4. nameKey[RootName] = 1 /\ nameKey[MemberName] = 2
      BY AccountAssumption DEF Init
    <2> QED BY <2>3, <2>4 DEF NamesUnique
  <1> QED BY <1>1, <1>2 DEF UserInv

LEMMA UserStep == TypeInv /\ UserInv /\ [Next]_vars => UserInv'
  <1> SUFFICES ASSUME TypeInv, UserInv, [Next]_vars PROVE UserInv'
    OBVIOUS
  <1>0. CallsOK
    BY DEF TypeInv
  <1>1. ASSUME NEW p \in Calls, Began(p) PROVE UserInv'
    BY <1>1, UserFrame DEF Began, userVars
  <1>2. ASSUME NEW t \in Types, NEW e \in Emails, Issue(t, e) PROVE UserInv'
    BY <1>2, UserStutter DEF Issue, userVars, callVars
  <1>3. CASE Expire \/ CollectCodes \/ CollectKey
    BY <1>3, UserStutter DEF Expire, CollectCodes, CollectKey, userVars, callVars
  <1>4. CASE UNCHANGED <<userVars, codeVars, courseVars, memberVars, callVars>>
    BY <1>4, UserStutter DEF userVars, callVars
  <1>5. CASE Restart
    BY <1>5 DEF Restart, UserInv, LockInv, NamesUnique, NoLostUpdate, userVars
  <1>6. ASSUME NEW p \in Calls, ValidateDelete(p) PROVE UserInv'
    BY <1>0, <1>6, GotoMoves, EndMoves, UserFrame DEF ValidateDelete, userVars
  <1>7. ASSUME NEW p \in Calls, ResetLookup(p) PROVE UserInv'
    BY <1>0, <1>7, GotoMoves, EndMoves, UserFrame DEF ResetLookup, notCodes, userVars
  <1>8. ASSUME NEW p \in Calls, SignUpValidate(p) PROVE UserInv'
    BY <1>0, <1>8, GotoMoves, EndMoves, UserFrame DEF SignUpValidate, notCodes, userVars
  <1>9. ASSUME NEW p \in Calls, SignUpCreate(p) PROVE UserInv'
    <2>1. op[p].name \in Usernames /\ op[p].email \in Emails
      BY <1>9 DEF SignUpCreate, At, TypeInv, CallsOK, OpOK
    <2>2. Moves(p) /\ pc'[p] # "write"
      BY <1>0, <1>9, GotoMoves, EndMoves DEF SignUpCreate
    <2> DEFINE pw == IF op[p].kind = "signup" THEN "old" ELSE "none"
    <2>3. CreateUser(op[p].name, op[p].email, pw) /\ updateMu' = updateMu /\ pw \in {"old", "none"}
      BY <1>9 DEF SignUpCreate
    <2> HIDE DEF pw
    <2> QED BY <2>1, <2>2, <2>3, UserCreate
  <1>10. ASSUME NEW p \in Calls, AddNewUser(p) PROVE UserInv'
    <2>1. op[p].name \in Usernames /\ op[p].email \in Emails
      BY <1>10 DEF AddNewUser, At, TypeInv, CallsOK, OpOK
    <2>2. Moves(p) /\ pc'[p] # "write"
      BY <1>0, <1>10, GotoMoves DEF AddNewUser
    <2>3. CreateUser(op[p].name, op[p].email, "none") /\ updateMu' = updateMu
      BY <1>10 DEF AddNewUser
    <2> QED BY <2>1, <2>2, <2>3, UserCreate
  <1>11. ASSUME NEW p \in Calls, BindIndex(p) \/ UnbindIndex(p) PROVE UserInv'
    BY <1>0, <1>11, EndMoves, UserFrame DEF BindIndex, UnbindIndex
  <1>12. ASSUME NEW p \in Calls,
                AddKnown(p) \/ AddCourse(p) \/ AddUser(p) \/ RemoveCourseMember(p) \/ RemoveUser(p)
         PROVE  UserInv'
    <2>1. Moves(p) /\ pc'[p] # "write"
      BY <1>0, <1>12, GotoMoves, EndMoves
         DEF AddKnown, AddCourse, AddUser, RemoveCourseMember, RemoveUser
    <2> QED BY <1>12, <2>1, UserFrame
            DEF AddKnown, AddCourse, AddUser, RemoveCourseMember, RemoveUser, notCourses, userVars
  <1>13. ASSUME NEW p \in Calls, UnbindJoinCode(p) \/ UpdateCourse(p) \/ BindJoinCode(p)
         PROVE  UserInv'
    <2>1. Moves(p) /\ pc'[p] # "write"
      BY <1>0, <1>13, GotoMoves, EndMoves DEF UnbindJoinCode, UpdateCourse, BindJoinCode
    <2> QED BY <1>13, <2>1, UserFrame DEF UnbindJoinCode, UpdateCourse, BindJoinCode, userVars
  <1>14. ASSUME NEW p \in Calls,
                UpdateEntry(p) \/ MarkBoard(p) \/ DeleteEntry(p) \/ CountEntries(p) \/ UnmarkBoard(p)
         PROVE  UserInv'
    <2>1. Moves(p) /\ pc'[p] # "write"
      BY <1>0, <1>14, GotoMoves, EndMoves
         DEF UpdateEntry, MarkBoard, DeleteEntry, CountEntries, UnmarkBoard
    <2> QED BY <1>14, <2>1, UserFrame
            DEF UpdateEntry, MarkBoard, DeleteEntry, CountEntries, UnmarkBoard, notBoard, userVars
  <1>15. CASE UNCHANGED vars
    BY <1>15, UserStutter DEF vars, userVars, callVars
  <1> QED BY <1>1, <1>2, <1>3, <1>4, <1>5, <1>6, <1>7, <1>8, <1>9, <1>10, <1>11, <1>12, <1>13,
             <1>14, <1>15, Cases, UserRead, UserWrite

\* Between the read and the write of UpdateUserAtomic nobody else writes a user,
\* so that what the call read is still what there is.
THEOREM UserInvHolds == Spec => [](TypeInv /\ UserInv)
  BY TypeInit, TypeStep, UserInit, UserStep, PTL DEF Spec

\* However sign-ups, GitHub logins and AddCourseMembers interleave, every user
\* has a name of their own that the index leads to (CreateUser checks the name
\* and writes under createMu).
THEOREM NamesAreUnique == Spec => []NamesUnique
  BY UserInvHolds, PTL DEF UserInv

\* No update of a user is lost, because UpdateUserAtomic holds updateMu from
\* the read of the record to its write.
THEOREM UpdatesAreKept == Spec => []NoLostUpdate
  BY UserInvHolds, PTL DEF UserInv

-----------------------------------------------------------------------------
(* Verification codes *)

\* A step of p that leaves the codes alone and does not come to the deletion of
\* a key.
LEMMA CodeFrame ==
  ASSUME CodeInv, NEW p \in Calls, Moves(p), pc'[p] # "delete", UNCHANGED <<code, issued, used>>
  PROVE  CodeInv'
  <1>1. \A q \in Calls : pc'[q] = "delete" => pc[q] = "delete" /\ op'[q] = op[q]
    BY DEF Moves
  <1> QED BY <1>1 DEF CodeInv

LEMMA CodeStutter ==
  ASSUME CodeInv, UNCHANGED <<code, issued, used, pc, op>>
  PROVE  CodeInv'
  BY DEF CodeInv

\* A call begins: it has read the code of its key.
LEMMA CodeBegan ==
  ASSUME TypeInv, TypeInv', CodeInv, NEW p \in Calls, Began(p)
  PROVE  CodeInv'
  <1>1. Moves(p) /\ UNCHANGED <<code, issued, used>>
    BY DEF Began, codeVars
  <1>2. CASE pc'[p] # "delete"
    BY <1>1, <1>2, CodeFrame
  <1>3. CASE pc'[p] = "delete"
    <2> DEFINE o == op'[p]
    <2>1. o.type \in Types /\ o.email \in Emails
      BY <1>3 DEF TypeInv, CallsOK, OpOK
    <2>2. o.code = code[o.type][o.email] /\ o.code # 0
      BY <1>3 DEF Began
    <2>3. o.code \in 1..issued
      <3>1. code[o.type][o.email] \in 0..issued /\ issued \in Nat
        BY <2>1 DEF CodeInv, TypeInv, DataOK
      <3> QED BY <2>2, <3>1
    <2>4. \A t \in Types, e \in Emails :
            <<t, e>> # <<o.type, o.email>> => code[t][e] # o.code
      BY <2>1, <2>2 DEF CodeInv
    <2>5. \A q \in Calls \ {p} : pc'[q] = pc[q] /\ op'[q] = op[q]
      BY <1>1 DEF Moves
    <2> QED BY <1>1, <2>3, <2>4, <2>5 DEF CodeInv
  <1> QED BY <1>2, <1>3

LEMMA CodeIssue ==
  ASSUME TypeInv, CodeInv, NEW t \in Types, NEW e \in Emails, Issue(t, e)
  PROVE  CodeInv'
  <1>1. /\ issued' = issued + 1 /\ code' = [code EXCEPT ![t][e] = issued + 1]
        /\ UNCHANGED <<used, pc, op>>
    BY DEF Issue, callVars
  <1>2. issued \in Nat /\ code \in [Types -> [Emails -> Nat]]
    BY DEF TypeInv, DataOK
  <1>3. code'[t][e] = issued + 1
    BY <1>1, <1>2
  <1>4. \A s \in Types, d \in Emails : <<s, d>> # <<t, e>> => code'[s][d] = code[s][d]
    BY <1>1, <1>2
  <1>5. \A s \in Types, d \in Emails : code[s][d] \in 0..issued /\ code[s][d] \notin used
    BY DEF CodeInv
  <1>6. \A s \in Types, d \in Emails : code'[s][d] \in 0..issued' /\ code'[s][d] \notin used'
    <2> SUFFICES ASSUME NEW s \in Types, NEW d \in Emails
                 PROVE  code'[s][d] \in 0..issued' /\ code'[s][d] \notin used'
      OBVIOUS
    <2>1. used \subseteq 1..issued
      BY DEF CodeInv
    <2>2. CASE <<s, d>> = <<t, e>>
      BY <1>1, <1>2, <1>3, <2>1, <2>2
    <2>3. CASE <<s, d>> # <<t, e>>
      BY <1>1, <1>2, <1>4, <1>5, <2>3
    <2> QED BY <2>2, <2>3
  <1>7. used' \subseteq 1..issued'
    BY <1>1, <1>2 DEF CodeInv
  <1>8. \A r, s \in Types, c, d \in Emails :
          <<r, c>> # <<s, d>> /\ code'[r][c] = code'[s][d] => code'[s][d] = 0
    <2> SUFFICES ASSUME NEW r \in Types, NEW s \in Types, NEW c \in Emails, NEW d \in Emails,
                        <<r, c>> # <<s, d>>, code'[r][c] = code'[s][d]
                 PROVE  code'[s][d] = 0
      OBVIOUS
    <2>1. code[r][c] \in 0..issued /\ code[s][d] \in 0..issued
      BY <1>5
    <2>2. CASE <<r, c>> = <<t, e>>
      BY <1>2, <1>3, <1>4, <2>1, <2>2
    <2>3. CASE <<s, d>> = <<t, e>>
      BY <1>2, <1>3, <1>4, <2>1, <2>3
    <2>4. CASE <<r, c>> # <<t, e>> /\ <<s, d>> # <<t, e>>
      <3>1. code'[r][c] = code[r][c] /\ code'[s][d] = code[s][d]
        BY <1>4, <2>4
      <3>2. code[r][c] = code[s][d] => code[s][d] = 0
        BY DEF CodeInv
      <3> QED BY <3>1, <3>2
    <2> QED BY <2>2, <2>3, <2>4
  <1>9. ASSUME NEW q \in Calls, pc'[q] = "delete"
        PROVE  /\ op'[q].code \in 1..issued'
               /\ \A s \in Types, d \in Emails :
                    <<s, d>> # <<op'[q].type, op'[q].email>> => code'[s][d] # op'[q].code
    <2>1. pc[q] = "delete" /\ op'[q] = op[q]
      BY <1>1, <1>9
    <2>2. /\ op[q].code \in 1..issued
          /\ \A s \in Types, d \in Emails :
               <<s, d>> # <<op[q].type, op[q].email>> => code[s][d] # op[q].code
      BY <2>1 DEF CodeInv
    <2>3. issued + 1 # op[q].code /\ op[q].code \in 1..issued'
      BY <1>1, <1>2, <2>2
    <2> QED BY <1>3, <1>4, <2>1, <2>2, <2>3
  <1> QED BY <1>6, <1>7, <1>8, <1>9 DEF CodeInv

\* A key is deleted, and used grows by a number that no other key has.
LEMMA CodeDeleted ==
  ASSUME TypeInv, CodeInv, NEW t, NEW e, DeleteCode(t, e), UNCHANGED issued,
         NEW A \in SUBSET (1..issued), used' = used \cup A,
         \A s \in Types, d \in Emails : <<s, d>> # <<t, e>> => code[s][d] \notin A
  PROVE  /\ used' \subseteq 1..issued'
         /\ \A s \in Types, d \in Emails :
              /\ code'[s][d] \in 0..issued' /\ code'[s][d] \notin used'
              /\ code'[s][d] \in {0, code[s][d]}
  <1>1. code' = [code EXCEPT ![t][e] = 0] /\ code \in [Types -> [Emails -> Nat]] /\ issued \in Nat
    BY DEF DeleteCode, TypeInv, DataOK
  <1>2. used \subseteq 1..issued
    BY DEF CodeInv
  <1>3. 0 \notin used' /\ used' \subseteq 1..issued'
    BY <1>1, <1>2
  <1>4. ASSUME NEW s \in Types, NEW d \in Emails
        PROVE  /\ code'[s][d] \in 0..issued' /\ code'[s][d] \notin used'
               /\ code'[s][d] \in {0, code[s][d]}
    <2>1. code[s][d] \in 0..issued /\ code[s][d] \notin used
      BY DEF CodeInv
    <2>2. CASE s = t /\ d = e
      <3>1. code'[s][d] = 0
        BY <1>1, <2>2
      <3> QED BY <1>1, <1>3, <3>1
    <2>3. CASE ~(s = t /\ d = e)
      <3>1. code'[s][d] = code[s][d] /\ <<s, d>> # <<t, e>>
        BY <1>1, <2>3
      <3> QED BY <2>1, <3>1
    <2> QED BY <2>2, <2>3
  <1> QED BY <1>3, <1>4

\* What remains of the invariant when keys only lose their codes.
LEMMA CodeLoses ==
  ASSUME CodeInv, UNCHANGED issued,
         used' \subseteq 1..issued',
         \A s \in Types, d \in Emails :
           /\ code'[s][d] \in 0..issued' /\ code'[s][d] \notin used'
           /\ code'[s][d] \in {0, code[s][d]},
         \A q \in Calls : pc'[q] = "delete" => pc[q] = "delete" /\ op'[q] = op[q]
  PROVE  CodeInv'
  <1>1. \A r, s \in Types, c, d \in Emails :
          <<r, c>> # <<s, d>> /\ code'[r][c] = code'[s][d] => code'[s][d] = 0
    <2> SUFFICES ASSUME NEW r \in Types, NEW s \in Types, NEW c \in Emails, NEW d \in Emails,
                        <<r, c>> # <<s, d>>, code'[r][c] = code'[s][d], code'[s][d] # 0
                 PROVE  FALSE
      OBVIOUS
    <2>1. code'[r][c] = code[r][c] /\ code'[s][d] = code[s][d]
      OBVIOUS
    <2>2. code[r][c] = code[s][d] => code[s][d] = 0
      BY DEF CodeInv
    <2> QED BY <2>1, <2>2
  <1>2. ASSUME NEW q \in Calls, pc'[q] = "delete"
        PROVE  /\ op'[q].code \in 1..issued'
               /\ \A s \in Types, d \in Emails :
                    <<s, d>> # <<op'[q].type, op'[q].email>> => code'[s][d] # op'[q].code
    <2>1. /\ op[q].code \in 1..issued /\ op'[q] = op[q]
          /\ \A s \in Types, d \in Emails :
               <<s, d>> # <<op[q].type, op[q].email>> => code[s][d] # op[q].code
      BY <1>2 DEF CodeInv
    <2>2. op[q].code # 0
      BY <2>1
    <2> QED BY <2>1, <2>2
  <1> QED BY <1>1, <1>2 DEF CodeInv

LEMMA CodeValidate ==
  ASSUME TypeInv, CodeInv, NEW p \in Calls, ValidateDelete(p)
  PROVE  CodeInv'
  <1>1. /\ pc[p] = "delete" /\ DeleteCode(op[p].type, op[p].email) /\ UNCHANGED issued
        /\ (used' = used \/ used' = used \cup {op[p].code})
    BY DEF ValidateDelete, At
  <1>2. Moves(p) /\ pc'[p] # "delete"
    BY GotoMoves, EndMoves DEF ValidateDelete, TypeInv
  <1>3. /\ op[p].code \in 1..issued
        /\ \A t \in Types, e \in Emails :
             <<t, e>> # <<op[p].type, op[p].email>> => code[t][e] # op[p].code
    BY <1>1 DEF CodeInv
  <1> DEFINE A == IF used' = used THEN {} ELSE {op[p].code}
  <1>4. /\ A \in SUBSET (1..issued) /\ used' = used \cup A
        /\ \A s \in Types, d \in Emails :
             <<s, d>> # <<op[p].type, op[p].email>> => code[s][d] \notin A
    BY <1>1, <1>3
  <1> HIDE DEF A
  <1>5. /\ used' \subseteq 1..issued'
        /\ \A s \in Types, d \in Emails :
             /\ code'[s][d] \in 0..issued' /\ code'[s][d] \notin used'
             /\ code'[s][d] \in {0, code[s][d]}
    BY <1>1, <1>4, CodeDeleted
  <1>6. \A q \in Calls : pc'[q] = "delete" => pc[q] = "delete" /\ op'[q] = op[q]
    BY <1>2 DEF Moves
  <1> QED BY <1>1, <1>5, <1>6, CodeLoses

LEMMA CodeCollect ==
  ASSUME TypeInv, CodeInv, CollectKey
  PROVE  CodeInv'
  <1>1. PICK k \in gcKeys : DeleteCode(k[1], k[2])
    BY DEF CollectKey
  <1>2. UNCHANGED <<issued, used, pc, op>>
    BY DEF CollectKey, callVars
  <1>3. {} \in SUBSET (1..issued) /\ used' = used \cup {}
    BY <1>2
  <1>4. /\ used' \subseteq 1..issued'
        /\ \A s \in Types, d \in Emails :
             /\ code'[s][d] \in 0..issued' /\ code'[s][d] \notin used'
             /\ code'[s][d] \in {0, code[s][d]}
    BY <1>1, <1>2, <1>3, CodeDeleted
  <1> QED BY <1>2, <1>4, CodeLoses

LEMMA CodeInit == Init => CodeInv
  BY DEF Init, CodeInv

LEMMA CodeStep == TypeInv /\ CodeInv /\ [Next]_vars => CodeInv'
  <1> SUFFICES ASSUME TypeInv, CodeInv, [Next]_vars PROVE CodeInv'
    OBVIOUS
  <1>0. CallsOK /\ TypeInv'
    BY TypeStep DEF TypeInv
  <1>1. ASSUME NEW p \in Calls, Began(p) PROVE CodeInv'
    BY <1>0, <1>1, CodeBegan
  <1>2. CASE Expire \/ CollectCodes
    BY <1>2, CodeStutter DEF Expire, CollectCodes, callVars
  <1>3. CASE UNCHANGED <<userVars, codeVars, courseVars, memberVars, callVars>>
    BY <1>3, CodeStutter DEF codeVars, callVars
  <1>4. CASE Restart
    BY <1>4 DEF Restart, CodeInv
  <1>5. ASSUME NEW p \in Calls,
               ResetLookup(p) \/ SignUpValidate(p) \/ SignUpCreate(p) \/ ReadUser(p)
        PROVE  CodeInv'
    <2>1. Moves(p) /\ pc'[p] # "delete"
      BY <1>0, <1>5, GotoMoves, EndMoves DEF ResetLookup, SignUpValidate, SignUpCreate, ReadUser
    <2> QED BY <1>5, <2>1, CodeFrame
            DEF ResetLookup, SignUpValidate, SignUpCreate, ReadUser, notCodes, codeVars
  <1>6. ASSUME NEW p \in Calls, WriteUser(p) \/ BindIndex(p) \/ UnbindIndex(p) PROVE CodeInv'
    <2>1. Moves(p) /\ pc'[p] # "delete"
      <3>1. CASE WriteUser(p)
        <4>1. \/ \E o : Goto(p, "index", o)
              \/ \E o : Goto(p, "unindex", o)
              \/ End(p)
          BY <3>1 DEF WriteUser
        <4> QED BY <1>0, <4>1, GotoMoves, EndMoves
      <3> QED BY <1>0, <1>6, <3>1, EndMoves DEF BindIndex, UnbindIndex
    <2> QED BY <1>6, <2>1, CodeFrame DEF WriteUser, BindIndex, UnbindIndex, codeVars
  <1>7. ASSUME NEW p \in Calls,
               \/ AddNewUser(p) \/ AddKnown(p) \/ AddCourse(p) \/ AddUser(p)
               \/ RemoveCourseMember(p) \/ RemoveUser(p)
        PROVE  CodeInv'
    <2>1. Moves(p) /\ pc'[p] # "delete"
      BY <1>0, <1>7, GotoMoves, EndMoves
         DEF AddNewUser, AddKnown, AddCourse, AddUser, RemoveCourseMember, RemoveUser
    <2> QED BY <1>7, <2>1, CodeFrame
            DEF AddNewUser, AddKnown, AddCourse, AddUser, RemoveCourseMember, RemoveUser,
                notCourses, codeVars
  <1>8. ASSUME NEW p \in Calls, UnbindJoinCode(p) \/ UpdateCourse(p) \/ BindJoinCode(p)
        PROVE  CodeInv'
    <2>1. Moves(p) /\ pc'[p] # "delete"
      BY <1>0, <1>8, GotoMoves, EndMoves DEF UnbindJoinCode, UpdateCourse, BindJoinCode
    <2> QED BY <1>8, <2>1, CodeFrame DEF UnbindJoinCode, UpdateCourse, BindJoinCode, codeVars
  <1>9. ASSUME NEW p \in Calls,
               UpdateEntry(p) \/ MarkBoard(p) \/ DeleteEntry(p) \/ CountEntries(p) \/ UnmarkBoard(p)
        PROVE  CodeInv'
    <2>1. Moves(p) /\ pc'[p] # "delete"
      BY <1>0, <1>9, GotoMoves, EndMoves
         DEF UpdateEntry, MarkBoard, DeleteEntry, CountEntries, UnmarkBoard
    <2> QED BY <1>9, <2>1, CodeFrame
            DEF UpdateEntry, MarkBoard, DeleteEntry, CountEntries, UnmarkBoard, notBoard, codeVars
  <1>10. CASE UNCHANGED vars
    BY <1>10, CodeStutter DEF vars, codeVars, callVars
  <1> QED BY <1>1, <1>2, <1>3, <1>4, <1>5, <1>6, <1>7, <1>8, <1>9, <1>10, Cases, CodeIssue,
             CodeValidate, CodeCollect

\* A verification code that was accepted is never accepted again, whichever
\* codes are issued, expire or are collected while Validate is between its read
\* and its deletion.
THEOREM UsedCodesStayGone == Spec => []UsedCodeGone
  <1>1. CodeInv => UsedCodeGone
    BY DEF CodeInv, UsedCodeGone
  <1> QED BY <1>1, TypeInit, TypeStep, CodeInit, CodeStep, PTL DEF Spec

-----------------------------------------------------------------------------
(* Join codes *)

\* Calls that have read a course record.
Holds(p) == pc[p] \in {"unbindCode", "update"}

LEMMA JoinFrame ==
  ASSUME TypeInv, JoinInv, NEW p \in Calls, Moves(p), UNCHANGED <<courses, joinKey>>,
         calls' = calls \/ (calls' = calls + 1 /\ calls < MaxCalls),
         Holds(p)' => op'[p].read.joinCode \in {<<>>} \cup CodesOf(op'[p].course)
  PROVE  JoinInv'
  <1>1. Len(courses') <= 1 + calls' /\ calls' <= MaxCalls
    BY AccountAssumption DEF JoinInv, TypeInv, DataOK
  <1>2. \A q \in Calls : pc'[q] \in {"unbindCode", "update"} =>
          op'[q].read.joinCode \in {<<>>} \cup CodesOf(op'[q].course)
    BY DEF Moves, JoinInv, Holds
  <1> QED BY <1>1, <1>2 DEF JoinInv, CourseIds

LEMMA JoinStutter ==
  ASSUME JoinInv, UNCHANGED <<courses, joinKey, calls, pc, op>>
  PROVE  JoinInv'
  BY DEF JoinInv, CourseIds

\* The record that a call of CourseBegin has read is the one of its course.
LEMMA CourseBeginReads ==
  ASSUME TypeInv, NEW p \in Calls, CourseBegin(p)
  PROVE  op'[p].course \in CourseIds /\ op'[p].read = courses[op'[p].course]
  <1>1. PICK c \in CourseIds, k \in RecordKinds, x \in {"x", "y"}, l \in {"unbindCode", "update"} :
          Begin(p, l, [NoOp EXCEPT !.kind = k, !.course = c, !.read = courses[c], !.value = x])
    BY DEF CourseBegin, RecordKinds
  <1>2. op'[p] = [NoOp EXCEPT !.kind = k, !.course = c, !.read = courses[c], !.value = x]
    BY <1>1, BeginMoves
  <1>3. op'[p].course = c /\ op'[p].read = courses[c]
    BY <1>2 DEF NoOp
  <1> QED BY <1>3

\* The calls that begin otherwise have not read a record.
LEMMA OthersDoNotHold ==
  ASSUME TypeInv, NEW p \in Calls,
         \/ SignUp(p) \/ ResetPassword(p) \/ GithubLogin(p) \/ BindGithub(p) \/ UnbindGithub(p)
         \/ UpdateUser(p) \/ UpdatePassword(p) \/ SetAdmin(p)
         \/ CreateCourse(p) \/ JoinCourse(p) \/ AddCourseMembers(p) \/ UpdateCourseMember(p)
         \/ RemoveCourseMembers(p) \/ ActivateSubmission(p) \/ DeleteLeaderboard(p)
  PROVE  ~Holds(p)'
  <1>1. \E l \in {"delete", "read", "validate", "addUser", "addCourse", "addNew", "known",
                  "removeCourse", "entry", "unentry"} : \E o : Begin(p, l, o)
    <2>1. ASSUME NEW o, ValidateBegin(p, o) PROVE \E r : Begin(p, "delete", r)
      BY <2>1 DEF ValidateBegin
    <2>2. CASE SignUp(p) \/ ResetPassword(p)
      BY <2>1, <2>2 DEF SignUp, ResetPassword
    <2>3. CASE GithubLogin(p)
      BY <2>3 DEF GithubLogin
    <2>4. CASE BindGithub(p) \/ UnbindGithub(p)
      BY <2>4 DEF BindGithub, UnbindGithub
    <2>5. CASE UpdateUser(p) \/ UpdatePassword(p) \/ SetAdmin(p)
      BY <2>5 DEF UpdateUser, UpdatePassword, SetAdmin
    <2>6. CASE CreateCourse(p) \/ JoinCourse(p)
      BY <2>6 DEF CreateCourse, JoinCourse
    <2>7. CASE AddCourseMembers(p)
      BY <2>7 DEF AddCourseMembers
    <2>8. CASE UpdateCourseMember(p) \/ RemoveCourseMembers(p)
      BY <2>8 DEF UpdateCourseMember, RemoveCourseMembers
    <2>9. CASE ActivateSubmission(p) \/ DeleteLeaderboard(p)
      BY <2>9 DEF ActivateSubmission, DeleteLeaderboard
    <2> QED BY <2>2, <2>3, <2>4, <2>5, <2>6, <2>7, <2>8, <2>9
  <1> QED BY <1>1, BeginMoves DEF Holds

LEMMA JoinCreate ==
  ASSUME TypeInv, JoinInv, NEW p \in Calls, CreateCourse(p), Began(p), ~Holds(p)'
  PROVE  JoinInv'
  <1> DEFINE r == [name |-> "first", allows |-> FALSE, joinCode |-> <<>>]
  <1>1. courses' = Append(courses, r) /\ r.joinCode = <<>> /\ courses \in Seq(CourseRecords)
        /\ r \in CourseRecords
    BY DEF CreateCourse, TypeInv, DataOK, CourseRecords, Values
  <1> HIDE DEF r
  <1>2. /\ Len(courses') = Len(courses) + 1 /\ courses'[Len(courses) + 1] = r
        /\ \A c \in 1..Len(courses) : courses'[c] = courses[c]
        /\ Len(courses) \in Nat
    BY <1>1, AppendProperties
  <1>3. Moves(p) /\ calls' = calls + 1 /\ calls < MaxCalls /\ UNCHANGED joinKey
    BY DEF Began
  <1>4. Len(courses') <= 1 + calls' /\ calls' <= MaxCalls
    BY <1>2, <1>3, AccountAssumption DEF JoinInv, TypeInv, DataOK
  <1>5. ASSUME NEW c \in CourseIds' PROVE courses'[c].joinCode \in {<<>>} \cup CodesOf(c)
    <2>1. CASE c = Len(courses) + 1
      BY <1>1, <1>2, <2>1
    <2>2. CASE c # Len(courses) + 1
      <3>1. c \in CourseIds
        BY <1>2, <2>2 DEF CourseIds
      <3> QED BY <1>2, <3>1 DEF JoinInv, CourseIds
    <2> QED BY <2>1, <2>2
  <1>6. \A q \in Calls : pc'[q] \in {"unbindCode", "update"} =>
          op'[q].read.joinCode \in {<<>>} \cup CodesOf(op'[q].course)
    BY <1>3 DEF Moves, JoinInv, Holds
  <1> QED BY <1>3, <1>4, <1>5, <1>6 DEF JoinInv

LEMMA JoinUpdate ==
  ASSUME TypeInv, JoinInv, NEW p \in Calls, UpdateCourse(p)
  PROVE  JoinInv'
  <1> DEFINE o == op[p]
  <1>1. /\ pc[p] = "update" /\ courses' = [courses EXCEPT ![o.course] = Changed(o)]
        /\ UNCHANGED <<joinKey, calls>>
    BY DEF UpdateCourse, At
  <1>2. Moves(p) /\ ~Holds(p)'
    BY GotoMoves, EndMoves DEF UpdateCourse, TypeInv, Holds
  <1>3. o \in OpRecords /\ o.kind \in RecordKinds /\ o.read \in CourseRecords
        /\ (o.kind = "generate" => o.value \in {"x", "y"})
        /\ courses \in Seq(CourseRecords)
    BY <1>1 DEF TypeInv, DataOK, CallsOK, OpOK
  <1>4. Changed(o).joinCode \in {<<>>} \cup CodesOf(o.course)
    <2>1. Changed(o).joinCode = IF o.kind = "generate" THEN <<o.course, o.value>>
                                ELSE o.read.joinCode
      BY <1>3, ChangedType
    <2>2. o.read.joinCode \in {<<>>} \cup CodesOf(o.course)
      BY <1>1 DEF JoinInv
    <2> QED BY <1>3, <2>1, <2>2 DEF CodesOf
  <1> HIDE DEF o
  <1>5. /\ Len(courses') = Len(courses)
        /\ \A c \in 1..Len(courses) :
             courses'[c] = IF c = o.course THEN Changed(o) ELSE courses[c]
    BY <1>1, <1>3
  <1>6. \A c \in CourseIds' : courses'[c].joinCode \in {<<>>} \cup CodesOf(c)
    BY <1>4, <1>5 DEF CourseIds, JoinInv
  <1>7. \A q \in Calls : pc'[q] \in {"unbindCode", "update"} =>
          op'[q].read.joinCode \in {<<>>} \cup CodesOf(op'[q].course)
    BY <1>2 DEF Moves, JoinInv, Holds
  <1> QED BY <1>1, <1>5, <1>6, <1>7 DEF JoinInv

\* The index entries that are written and removed.
LEMMA JoinIndex ==
  ASSUME TypeInv, JoinInv, NEW p \in Calls, UnbindJoinCode(p) \/ BindJoinCode(p)
  PROVE  JoinInv'
  <1>1. UNCHANGED <<courses, calls>>
    BY DEF UnbindJoinCode, BindJoinCode
  <1>2. Moves(p) /\ (Holds(p)' => Holds(p) /\ op'[p] = op[p])
    BY GotoMoves, EndMoves DEF UnbindJoinCode, BindJoinCode, Holds, At, TypeInv
  <1>3. joinKey' \in [JoinCodes -> Nat] /\ \A j \in JoinCodes : joinKey'[j] \in {0, j[1]}
    <2>1. joinKey \in [JoinCodes -> Nat] /\ \A j \in JoinCodes : joinKey[j] \in {0, j[1]}
      BY DEF JoinInv
    <2>2. CASE UnbindJoinCode(p)
      BY <2>1, <2>2 DEF UnbindJoinCode
    <2>3. CASE BindJoinCode(p)
      <3> DEFINE c == op[p].course
                 k == <<c, op[p].value>>
      <3>1. joinKey' = [joinKey EXCEPT ![k] = c] /\ k[1] = c
        BY <2>3 DEF BindJoinCode
      <3>2. c \in Nat
        BY DEF TypeInv, CallsOK, OpRecords
      <3> HIDE DEF c, k
      <3> QED BY <2>1, <3>1, <3>2
    <2> QED BY <2>2, <2>3
  <1>4. \A q \in Calls : pc'[q] \in {"unbindCode", "update"} =>
          op'[q].read.joinCode \in {<<>>} \cup CodesOf(op'[q].course)
    BY <1>2 DEF Moves, JoinInv, Holds
  <1> QED BY <1>1, <1>3, <1>4 DEF JoinInv, CourseIds

\* A call about something else, from its first step on.
LEMMA JoinOther ==
  ASSUME TypeInv, JoinInv, NEW p \in Calls, Moves(p), ~Holds(p)', UNCHANGED <<courses, joinKey>>,
         calls' = calls \/ (calls' = calls + 1 /\ calls < MaxCalls)
  PROVE  JoinInv'
  BY JoinFrame

LEMMA JoinBegin ==
  ASSUME TypeInv, JoinInv, NEW p \in Calls,
         \/ SignUp(p) \/ ResetPassword(p) \/ GithubLogin(p) \/ BindGithub(p) \/ UnbindGithub(p)
         \/ UpdateUser(p) \/ UpdatePassword(p) \/ SetAdmin(p)
         \/ CreateCourse(p) \/ JoinCourse(p) \/ AddCourseMembers(p) \/ UpdateCourseMember(p)
         \/ RemoveCourseMembers(p) \/ CourseBegin(p) \/ ActivateSubmission(p)
         \/ DeleteLeaderboard(p)
  PROVE  JoinInv'
  <1>1. Began(p) /\ (CreateCourse(p) \/ UNCHANGED courses)
    BY AccountBegan, CourseBegan
  <1>2. Moves(p) /\ calls' = calls + 1 /\ calls < MaxCalls /\ UNCHANGED joinKey
    BY <1>1 DEF Began
  <1>3. CASE CreateCourse(p)
    BY <1>1, <1>3, OthersDoNotHold, JoinCreate
  <1>4. CASE CourseBegin(p) /\ UNCHANGED courses
    <2>1. op'[p].course \in CourseIds /\ op'[p].read = courses[op'[p].course]
      BY <1>4, CourseBeginReads
    <2>2. op'[p].read.joinCode \in {<<>>} \cup CodesOf(op'[p].course)
      BY <2>1 DEF JoinInv
    <2> QED BY <1>2, <1>4, <2>2, JoinFrame
  <1>5. CASE ~Holds(p)' /\ UNCHANGED courses
    BY <1>2, <1>5, JoinOther
  <1> QED BY <1>1, <1>3, <1>4, <1>5, OthersDoNotHold

LEMMA JoinInit == Init => JoinInv
  <1> SUFFICES ASSUME Init PROVE JoinInv
    OBVIOUS
  <1>1. Len(courses) = 1 /\ courses[1].joinCode = <<1, "x">> /\ calls = 0
    BY DEF Init
  <1>2. joinKey \in [JoinCodes -> Nat] /\ \A j \in JoinCodes : joinKey[j] \in {0, j[1]}
    BY DEF Init, JoinCodes
  <1>3. \A p \in Calls : pc[p] = "idle"
    BY DEF Init
  <1>4. \A c \in CourseIds : courses[c].joinCode \in {<<>>} \cup CodesOf(c)
    <2>1. CourseIds = {1}
      BY <1>1 DEF CourseIds
    <2> QED BY <1>1, <2>1 DEF CodesOf
  <1> QED BY <1>1, <1>2, <1>3, <1>4, AccountAssumption DEF JoinInv

LEMMA JoinStep == TypeInv /\ JoinInv /\ [Next]_vars => JoinInv'
  <1> SUFFICES ASSUME TypeInv, JoinInv, [Next]_vars PROVE JoinInv'
    OBVIOUS
  <1>0. CallsOK
    BY DEF TypeInv
  <1>1. CASE AccountNext
    <2>1. CASE RequestSignUpToken \/ RequestPasswordReset
      BY <2>1, JoinStutter DEF RequestSignUpToken, RequestPasswordReset, Issue, courseVars, callVars
    <2>2. CASE Expire \/ CollectCodes \/ CollectKey
      BY <2>2, JoinStutter DEF Expire, CollectCodes, CollectKey, courseVars, callVars
    <2>3. CASE (\E u \in 1..Len(users) : Login(u)) \/ (\E l \in Logins : GithubLoginKnown(l))
      BY <2>3, JoinStutter DEF Login, GithubLoginKnown, courseVars, callVars
    <2>4. ASSUME NEW p \in Calls,
                 ValidateDelete(p) \/ ResetLookup(p) \/ SignUpValidate(p) \/ SignUpCreate(p) \/ ReadUser(p)
          PROVE  JoinInv'
      <3>1. Moves(p) /\ ~Holds(p)'
        BY <1>0, <2>4, GotoMoves, EndMoves
           DEF ValidateDelete, ResetLookup, SignUpValidate, SignUpCreate, ReadUser, Holds
      <3> QED BY <2>4, <3>1, JoinOther
              DEF ValidateDelete, ResetLookup, SignUpValidate, SignUpCreate, ReadUser, notCodes,
                  courseVars
    <2>5. ASSUME NEW p \in Calls, WriteUser(p) \/ BindIndex(p) \/ UnbindIndex(p) PROVE JoinInv'
      <3>1. Moves(p) /\ ~Holds(p)'
        <4>1. \/ \E o : Goto(p, "index", o)
              \/ \E o : Goto(p, "unindex", o)
              \/ End(p)
          BY <2>5 DEF WriteUser, BindIndex, UnbindIndex
        <4> QED BY <1>0, <4>1, GotoMoves, EndMoves DEF Holds
      <3> QED BY <2>5, <3>1, JoinOther DEF WriteUser, BindIndex, UnbindIndex, courseVars
    <2> QED BY <1>1, <2>1, <2>2, <2>3, <2>4, <2>5, JoinBegin DEF AccountNext, Ready
  <1>2. CASE CourseNext
    <2>1. ASSUME NEW p \in Calls,
                 \/ AddNewUser(p) \/ AddKnown(p) \/ AddCourse(p) \/ AddUser(p)
                 \/ RemoveCourseMember(p) \/ RemoveUser(p)
          PROVE  JoinInv'
      <3>1. Moves(p) /\ ~Holds(p)'
        BY <1>0, <2>1, GotoMoves, EndMoves
           DEF AddNewUser, AddKnown, AddCourse, AddUser, RemoveCourseMember, RemoveUser, Holds
      <3> QED BY <2>1, <3>1, JoinOther
              DEF AddNewUser, AddKnown, AddCourse, AddUser, RemoveCourseMember, RemoveUser,
                  notCourses, courseVars
    <2> QED BY <1>2, <2>1, JoinBegin, JoinUpdate, JoinIndex DEF CourseNext, Ready
  <1>3. CASE LeaderboardNext
    <2>1. ASSUME NEW p \in Calls,
                 UpdateEntry(p) \/ MarkBoard(p) \/ DeleteEntry(p) \/ CountEntries(p) \/ UnmarkBoard(p)
          PROVE  JoinInv'
      <3>1. Moves(p) /\ ~Holds(p)'
        BY <1>0, <2>1, GotoMoves, EndMoves
           DEF UpdateEntry, MarkBoard, DeleteEntry, CountEntries, UnmarkBoard, Holds
      <3> QED BY <2>1, <3>1, JoinOther
              DEF UpdateEntry, MarkBoard, DeleteEntry, CountEntries, UnmarkBoard, notBoard
    <2> QED BY <1>3, <2>1, JoinBegin DEF LeaderboardNext, Ready
  <1>4. CASE Restart
    BY <1>4 DEF Restart, JoinInv, CourseIds, courseVars
  <1>5. CASE UNCHANGED vars
    BY <1>5, JoinStutter DEF vars, courseVars, callVars
  <1> QED BY <1>1, <1>2, <1>3, <1>4, <1>5 DEF Next

\* The join code that a course shows always leads to the course, whatever
\* UpdateCourse, ChangeAllowsJoinCourse and GenerateJoinCode write over each
\* other (JoinCourse falls back on the id that the code spells).
THEOREM JoinCodesResolve == Spec => []JoinCodeResolves
  <1>1. TypeInv /\ JoinInv => JoinCodeResolves
    <2> SUFFICES ASSUME TypeInv, JoinInv, NEW c \in CourseIds, courses[c].joinCode # <<>>
                 PROVE  CourseOf(courses[c].joinCode) = c
      BY DEF JoinCodeResolves
    <2> DEFINE j == courses[c].joinCode
    <2>1. c \in Courses
      <3>1. Len(courses) <= 1 + MaxCalls /\ Len(courses) \in Nat
        BY AccountAssumption DEF JoinInv, TypeInv, DataOK
      <3> QED BY <3>1, AccountAssumption DEF CourseIds, Courses
    <2>2. j \in CodesOf(c)
      BY DEF JoinInv
    <2>3. j \in JoinCodes /\ j[1] = c
      BY <2>1, <2>2 DEF CodesOf, JoinCodes
    <2> HIDE DEF j
    <2>4. joinKey[j] \in {0, c}
      BY <2>3 DEF JoinInv
    <2> QED BY <2>3, <2>4 DEF CourseOf, j
  <1> QED BY <1>1, TypeInit, TypeStep, JoinInit, JoinStep, PTL DEF Spec

-----------------------------------------------------------------------------
(* Calls that overlap *)

LEMMA AccountMoves ==
  ASSUME TypeInv, NEW p \in Calls,
         \/ ValidateDelete(p) \/ ResetLookup(p) \/ SignUpValidate(p) \/ SignUpCreate(p)
         \/ ReadUser(p) \/ WriteUser(p) \/ BindIndex(p) \/ UnbindIndex(p)
  PROVE  Moves(p)
  <1>0. CallsOK
    BY DEF TypeInv
  <1>1. CASE ValidateDelete(p) \/ ResetLookup(p) \/ SignUpValidate(p) \/ SignUpCreate(p) \/ ReadUser(p)
    BY <1>0, <1>1, GotoMoves, EndMoves
       DEF ValidateDelete, ResetLookup, SignUpValidate, SignUpCreate, ReadUser
  <1>2. CASE WriteUser(p) \/ BindIndex(p) \/ UnbindIndex(p)
    <2>1. \/ \E o : Goto(p, "index", o)
          \/ \E o : Goto(p, "unindex", o)
          \/ End(p)
      BY <1>2 DEF WriteUser, BindIndex, UnbindIndex
    <2> QED BY <1>0, <2>1, GotoMoves, EndMoves
  <1> QED BY <1>1, <1>2

LEMMA CourseMoves ==
  ASSUME TypeInv, NEW p \in Calls,
         \/ AddNewUser(p) \/ AddKnown(p) \/ AddCourse(p) \/ AddUser(p)
         \/ RemoveCourseMember(p) \/ RemoveUser(p)
         \/ UnbindJoinCode(p) \/ UpdateCourse(p) \/ BindJoinCode(p)
  PROVE  Moves(p)
  <1>0. CallsOK
    BY DEF TypeInv
  <1>1. CASE AddNewUser(p) \/ AddKnown(p) \/ AddCourse(p) \/ AddUser(p)
    BY <1>0, <1>1, GotoMoves, EndMoves DEF AddNewUser, AddKnown, AddCourse, AddUser
  <1>2. CASE RemoveCourseMember(p) \/ RemoveUser(p)
    BY <1>0, <1>2, GotoMoves, EndMoves DEF RemoveCourseMember, RemoveUser
  <1>3. CASE UnbindJoinCode(p) \/ UpdateCourse(p) \/ BindJoinCode(p)
    BY <1>0, <1>3, GotoMoves, EndMoves DEF UnbindJoinCode, UpdateCourse, BindJoinCode
  <1> QED BY <1>1, <1>2, <1>3

LEMMA BoardMoves ==
  ASSUME TypeInv, NEW p \in Calls,
         UpdateEntry(p) \/ MarkBoard(p) \/ DeleteEntry(p) \/ CountEntries(p) \/ UnmarkBoard(p)
  PROVE  Moves(p)
  <1>0. CallsOK
    BY DEF TypeInv
  <1> QED BY <1>0, GotoMoves, EndMoves
          DEF UpdateEntry, MarkBoard, DeleteEntry, CountEntries, UnmarkBoard

\* What a step of p and a call in progress have in common is noted.
LEMMA MovesOverlap ==
  ASSUME OverlapInv, NEW p \in Calls, Moves(p)
  PROVE  OverlapInv' /\ clashed \subseteq clashed'
  <1>1. clashed' = clashed \cup
          UNION {Subject(op'[p]) \cap InFlight(q) : q \in IF pc'[p] = "idle" THEN {} ELSE Calls \ {p}}
    BY DEF Moves, Goto
  <1>2. clashed \subseteq clashed'
    BY <1>1
  <1>3. \A q \in Calls \ {p} : InFlight(q)' = InFlight(q)
    BY DEF Moves, InFlight
  <1>4. ASSUME NEW q \in Calls \ {p} PROVE InFlight(p)' \cap InFlight(q)' \subseteq clashed'
    <2>1. CASE pc'[p] = "idle"
      BY <2>1 DEF InFlight
    <2>2. CASE pc'[p] # "idle"
      <3>1. InFlight(p)' = Subject(op'[p])
        BY <2>2 DEF InFlight
      <3> QED BY <1>1, <1>3, <2>2, <3>1
    <2> QED BY <2>1, <2>2
  <1>5. ASSUME NEW q \in Calls, NEW r \in Calls, q # r
        PROVE  InFlight(q)' \cap InFlight(r)' \subseteq clashed'
    <2>1. CASE q = p
      BY <1>4, <1>5, <2>1
    <2>2. CASE r = p
      BY <1>4, <1>5, <2>2
    <2>3. CASE q # p /\ r # p
      BY <1>2, <1>3, <1>5, <2>3 DEF OverlapInv
    <2> QED BY <2>1, <2>2, <2>3
  <1> QED BY <1>2, <1>5 DEF OverlapInv

LEMMA OverlapInit == Init => OverlapInv
  BY DEF Init, OverlapInv, InFlight

LEMMA OverlapStep == TypeInv /\ OverlapInv /\ [Next]_vars => OverlapInv'
  <1> SUFFICES ASSUME TypeInv, OverlapInv, [Next]_vars PROVE OverlapInv'
    OBVIOUS
  <1>1. ASSUME NEW p \in Calls, Moves(p) PROVE OverlapInv'
    BY <1>1, MovesOverlap
  <1>2. ASSUME UNCHANGED <<pc, op, clashed>> PROVE OverlapInv'
    BY <1>2 DEF OverlapInv, InFlight
  <1>3. CASE Restart
    BY <1>3 DEF Restart, OverlapInv, InFlight
  <1>4. ASSUME NEW p \in Calls, Began(p) PROVE OverlapInv'
    BY <1>1, <1>4 DEF Began
  <1>5. ASSUME NEW t \in Types, NEW e \in Emails, Issue(t, e) PROVE OverlapInv'
    BY <1>2, <1>5 DEF Issue, callVars
  <1>6. CASE Expire \/ CollectCodes \/ CollectKey
    BY <1>2, <1>6 DEF Expire, CollectCodes, CollectKey, callVars
  <1>7. CASE UNCHANGED <<userVars, codeVars, courseVars, memberVars, callVars>>
    BY <1>2, <1>7 DEF callVars
  <1>8. CASE UNCHANGED vars
    BY <1>2, <1>8 DEF vars, callVars
  <1> QED BY <1>1, <1>3, <1>4, <1>5, <1>6, <1>7, <1>8, Cases, AccountMoves, CourseMoves, BoardMoves

-----------------------------------------------------------------------------
(* The leaderboard *)

BoardLabels == {"entry", "mark", "unentry", "count", "unmark"}

\* Unless that has been noted, one call at a time is about the leaderboard.
LEMMA BoardSole ==
  ASSUME TypeInv, OverlapInv, Leaderboard \notin clashed, NEW p \in Calls, NEW q \in Calls, p # q,
         pc[p] \in BoardLabels
  PROVE  pc[q] \notin BoardLabels
  <1> SUFFICES ASSUME pc[q] \in BoardLabels PROVE FALSE
    OBVIOUS
  <1>1. op[p].kind \in {"activate", "unlist"} /\ op[q].kind \in {"activate", "unlist"}
    BY DEF TypeInv, CallsOK, OpOK, BoardLabels
  <1>2. Leaderboard \in InFlight(p) /\ Leaderboard \in InFlight(q)
    BY <1>1 DEF InFlight, Subject, BoardLabels
  <1> QED BY <1>2 DEF OverlapInv

LEMMA BoardFrame ==
  ASSUME BoardInv, NEW p \in Calls, Moves(p), clashed \subseteq clashed', UNCHANGED boardVars,
         pc[p] \notin {"mark", "count", "unmark"}, pc'[p] \notin {"mark", "count", "unmark"}
  PROVE  BoardInv'
  <1>1. \A q \in Calls : pc'[q] \in {"mark", "count", "unmark"} => pc'[q] = pc[q]
    BY DEF Moves
  <1>2. \A q \in Calls : pc[q] \in {"mark", "count", "unmark"} => pc'[q] = pc[q]
    BY DEF Moves
  <1> QED BY <1>1, <1>2 DEF BoardInv, boardVars

LEMMA BoardStutter ==
  ASSUME BoardInv, UNCHANGED <<boardVars, pc, clashed>>
  PROVE  BoardInv'
  BY DEF BoardInv, boardVars

\* The two writes, and the count between them.
LEMMA BoardWrite ==
  ASSUME TypeInv, OverlapInv, BoardInv, NEW p \in Calls,
         UpdateEntry(p) \/ MarkBoard(p) \/ DeleteEntry(p) \/ CountEntries(p) \/ UnmarkBoard(p)
  PROVE  BoardInv'
  <1>0. CallsOK
    BY DEF TypeInv
  <1>1. Moves(p) /\ clashed \subseteq clashed'
    BY BoardMoves, MovesOverlap
  <1>2. SUFFICES ASSUME Leaderboard \notin clashed'
                 PROVE  BoardInv'
    BY DEF BoardInv
  <1>3. Leaderboard \notin clashed /\ pc[p] \in BoardLabels
    BY <1>1, <1>2 DEF UpdateEntry, MarkBoard, DeleteEntry, CountEntries, UnmarkBoard, At, BoardLabels
  <1>4. \A q \in Calls \ {p} : pc'[q] = pc[q] /\ pc[q] \notin BoardLabels
    BY <1>1, <1>3, BoardSole DEF Moves
  <1>5. CASE UpdateEntry(p)
    <2>1. entries' # {} /\ pc'[p] = "mark"
      BY <1>0, <1>5, GotoMoves DEF UpdateEntry
    <2> QED BY <1>4, <2>1 DEF BoardInv, BoardLabels
  <1>6. CASE MarkBoard(p)
    <2>1. pc[p] = "mark" /\ entries' = entries /\ marker' = TRUE /\ pc'[p] = "idle"
      BY <1>0, <1>6, EndMoves DEF MarkBoard, At
    <2>2. entries # {}
      BY <1>3, <2>1 DEF BoardInv
    <2> QED BY <1>4, <2>1, <2>2 DEF BoardInv, BoardLabels
  <1>7. CASE DeleteEntry(p)
    <2>1. pc[p] = "unentry" /\ entries' \subseteq entries /\ marker' = marker /\ pc'[p] = "count"
      BY <1>0, <1>7, GotoMoves DEF DeleteEntry, At
    <2>2. marker = (entries # {})
      BY <1>3, <1>4, <2>1 DEF BoardInv, BoardLabels
    <2>3. entries' # {} => marker'
      BY <2>1, <2>2
    <2> QED BY <1>4, <2>1, <2>3 DEF BoardInv, BoardLabels
  <1>8. CASE CountEntries(p)
    <2>1. pc[p] = "count" /\ UNCHANGED <<entries, marker>>
      BY <1>8 DEF CountEntries, At, boardVars
    <2>2. entries # {} => marker
      BY <1>3, <2>1 DEF BoardInv
    <2>3. CASE entries = {}
      <3>1. pc'[p] = "unmark"
        BY <1>0, <1>8, <2>3, GotoMoves DEF CountEntries
      <3> QED BY <1>4, <2>1, <2>3, <3>1 DEF BoardInv, BoardLabels
    <2>4. CASE entries # {}
      <3>1. pc'[p] = "idle"
        BY <1>0, <1>8, <2>4, EndMoves DEF CountEntries
      <3>2. marker' = (entries' # {})
        BY <2>1, <2>2, <2>4 DEF BoardInv
      <3> QED BY <1>4, <3>1, <3>2 DEF BoardInv, BoardLabels
    <2> QED BY <2>3, <2>4
  <1>9. CASE UnmarkBoard(p)
    <2>1. pc[p] = "unmark" /\ entries' = entries /\ marker' = FALSE /\ pc'[p] = "idle"
      BY <1>0, <1>9, EndMoves DEF UnmarkBoard, At
    <2>2. entries = {}
      BY <1>3, <2>1 DEF BoardInv
    <2> QED BY <1>4, <2>1, <2>2 DEF BoardInv, BoardLabels
  <1> QED BY <1>5, <1>6, <1>7, <1>8, <1>9

\* Where the calls about accounts and about courses are.
AccountLabels == {"delete", "lookup", "validate", "create", "read", "write", "index", "unindex"}
CourseLabels == {"addNew", "known", "addCourse", "addUser", "removeCourse", "removeUser",
                 "unbindCode", "update", "bindCode"}

LEMMA AccountAt ==
  ASSUME TypeInv, NEW p \in Calls,
         \/ ValidateDelete(p) \/ ResetLookup(p) \/ SignUpValidate(p) \/ SignUpCreate(p)
         \/ ReadUser(p) \/ WriteUser(p) \/ BindIndex(p) \/ UnbindIndex(p)
  PROVE  /\ pc[p] \in AccountLabels /\ pc'[p] \in AccountLabels \cup {"idle"}
         /\ UNCHANGED <<courseVars, memberVars>>
  <1>0. CallsOK
    BY DEF TypeInv
  <1>1. UNCHANGED <<courseVars, memberVars>>
    BY DEF ValidateDelete, ResetLookup, SignUpValidate, SignUpCreate, ReadUser, WriteUser, BindIndex,
           UnbindIndex, notCodes
  <1>2. pc[p] \in AccountLabels
    BY DEF ValidateDelete, ResetLookup, SignUpValidate, SignUpCreate, ReadUser, WriteUser, BindIndex,
           UnbindIndex, At, AccountLabels
  <1>3. CASE ValidateDelete(p) \/ ResetLookup(p) \/ SignUpValidate(p) \/ SignUpCreate(p) \/ ReadUser(p)
    BY <1>0, <1>1, <1>2, <1>3, GotoMoves, EndMoves
       DEF ValidateDelete, ResetLookup, SignUpValidate, SignUpCreate, ReadUser, AccountLabels
  <1>4. CASE WriteUser(p) \/ BindIndex(p) \/ UnbindIndex(p)
    <2>1. \/ \E o : Goto(p, "index", o)
          \/ \E o : Goto(p, "unindex", o)
          \/ End(p)
      BY <1>4 DEF WriteUser, BindIndex, UnbindIndex
    <2> QED BY <1>0, <1>1, <1>2, <2>1, GotoMoves, EndMoves DEF AccountLabels
  <1> QED BY <1>3, <1>4

LEMMA CourseAt ==
  ASSUME TypeInv, NEW p \in Calls,
         \/ AddNewUser(p) \/ AddKnown(p) \/ AddCourse(p) \/ AddUser(p)
         \/ RemoveCourseMember(p) \/ RemoveUser(p)
         \/ UnbindJoinCode(p) \/ UpdateCourse(p) \/ BindJoinCode(p)
  PROVE  /\ pc[p] \in CourseLabels /\ pc'[p] \in CourseLabels \cup {"idle"}
         /\ UNCHANGED boardVars
  <1>0. CallsOK
    BY DEF TypeInv
  <1>1. CASE AddNewUser(p) \/ AddKnown(p) \/ AddCourse(p) \/ AddUser(p)
    BY <1>0, <1>1, GotoMoves, EndMoves
       DEF AddNewUser, AddKnown, AddCourse, AddUser, At, CourseLabels, notCourses, courseVars
  <1>2. CASE RemoveCourseMember(p) \/ RemoveUser(p)
    BY <1>0, <1>2, GotoMoves, EndMoves DEF RemoveCourseMember, RemoveUser, At, CourseLabels, courseVars
  <1>3. CASE UnbindJoinCode(p) \/ UpdateCourse(p) \/ BindJoinCode(p)
    BY <1>0, <1>3, GotoMoves, EndMoves
       DEF UnbindJoinCode, UpdateCourse, BindJoinCode, At, CourseLabels
  <1> QED BY <1>1, <1>2, <1>3

LEMMA BoardInit == Init => BoardInv
  BY DEF Init, BoardInv

LEMMA BoardStep == TypeInv /\ OverlapInv /\ BoardInv /\ [Next]_vars => BoardInv'
  <1> SUFFICES ASSUME TypeInv, OverlapInv, BoardInv, [Next]_vars PROVE BoardInv'
    OBVIOUS
  <1>1. ASSUME NEW p \in Calls, Began(p) PROVE BoardInv'
    BY <1>1, MovesOverlap, BoardFrame DEF Began
  <1>2. ASSUME NEW t \in Types, NEW e \in Emails, Issue(t, e) PROVE BoardInv'
    BY <1>2, BoardStutter DEF Issue, callVars, courseVars
  <1>3. CASE Expire \/ CollectCodes \/ CollectKey
    BY <1>3, BoardStutter DEF Expire, CollectCodes, CollectKey, callVars, courseVars
  <1>4. CASE UNCHANGED <<userVars, codeVars, courseVars, memberVars, callVars>>
    BY <1>4, BoardStutter DEF callVars, courseVars
  <1>5. CASE Restart
    <2>1. \A p \in Calls : pc'[p] = "idle"
      BY <1>5 DEF Restart
    <2>2. UNCHANGED boardVars /\ clashed \subseteq clashed'
      BY <1>5 DEF Restart, courseVars
    <2>3. CASE \A p \in Calls : pc[p] \notin {"mark", "count", "unmark"}
      BY <2>1, <2>2, <2>3 DEF BoardInv, boardVars
    <2>4. ASSUME NEW p \in Calls, pc[p] \in {"mark", "count", "unmark"} PROVE BoardInv'
      <3>1. op[p].kind \in {"activate", "unlist"}
        BY <2>4 DEF TypeInv, CallsOK, OpOK
      <3>2. Leaderboard \in InFlight(p)
        BY <2>4, <3>1 DEF InFlight, Subject
      <3>3. Leaderboard \in clashed'
        BY <1>5, <3>2 DEF Restart
      <3> QED BY <3>3 DEF BoardInv
    <2> QED BY <2>3, <2>4
  <1>6. ASSUME NEW p \in Calls,
               \/ ValidateDelete(p) \/ ResetLookup(p) \/ SignUpValidate(p) \/ SignUpCreate(p)
               \/ ReadUser(p) \/ WriteUser(p) \/ BindIndex(p) \/ UnbindIndex(p)
        PROVE  BoardInv'
    <2>1. Moves(p) /\ clashed \subseteq clashed'
      BY <1>6, AccountMoves, MovesOverlap
    <2>2. pc[p] \in AccountLabels /\ pc'[p] \in AccountLabels \cup {"idle"} /\ UNCHANGED boardVars
      BY <1>6, AccountAt DEF courseVars
    <2> QED BY <2>1, <2>2, BoardFrame DEF AccountLabels
  <1>7. ASSUME NEW p \in Calls,
               \/ AddNewUser(p) \/ AddKnown(p) \/ AddCourse(p) \/ AddUser(p)
               \/ RemoveCourseMember(p) \/ RemoveUser(p)
               \/ UnbindJoinCode(p) \/ UpdateCourse(p) \/ BindJoinCode(p)
        PROVE  BoardInv'
    <2>1. Moves(p) /\ clashed \subseteq clashed'
      BY <1>7, CourseMoves, MovesOverlap
    <2>2. pc[p] \in CourseLabels /\ pc'[p] \in CourseLabels \cup {"idle"} /\ UNCHANGED boardVars
      BY <1>7, CourseAt
    <2> QED BY <2>1, <2>2, BoardFrame DEF CourseLabels
  <1>8. CASE UNCHANGED vars
    BY <1>8, BoardStutter DEF vars, callVars, courseVars
  <1> QED BY <1>1, <1>2, <1>3, <1>4, <1>5, <1>6, <1>7, <1>8, Cases, BoardWrite

-----------------------------------------------------------------------------
(* Memberships *)

MemberLabels == {"known", "addCourse", "addUser", "removeCourse", "removeUser"}

\* Unless that has been noted, one call at a time is about a membership.
LEMMA MemberSole ==
  ASSUME TypeInv, OverlapInv, NEW u, NEW c, <<u, c>> \notin clashed,
         NEW p \in Calls, NEW q \in Calls, p # q, About(p, u, c), pc[p] \in MemberLabels,
         About(q, u, c)
  PROVE  ~HalfDone(q)
  <1> SUFFICES ASSUME HalfDone(q) PROVE FALSE
    OBVIOUS
  <1>1. pc[q] \in MemberLabels
    BY DEF HalfDone, MemberLabels
  <1>2. /\ op[p].kind \in {"join", "add", "member", "remove", "create"}
        /\ op[q].kind \in {"join", "add", "member", "remove", "create"}
    BY <1>1 DEF TypeInv, CallsOK, OpOK, MemberLabels, MemberKinds
  <1>3. <<u, c>> \in InFlight(p) /\ <<u, c>> \in InFlight(q)
    BY <1>1, <1>2 DEF InFlight, Subject, About, MemberLabels
  <1> QED BY <1>3 DEF OverlapInv

LEMMA MemberFrame ==
  ASSUME MemberInv, NEW p \in Calls, Moves(p), clashed \subseteq clashed', UNCHANGED memberVars,
         ~HalfDone(p), ~HalfDone(p)'
  PROVE  MemberInv'
  <1> SUFFICES ASSUME NEW u \in Ids, NEW c \in Courses PROVE MemberAt(u, c)'
    BY DEF MemberInv
  <1>1. MemberAt(u, c)
    BY DEF MemberInv
  <1>2. \A q \in Calls \ {p} : /\ pc'[q] = pc[q] /\ op'[q] = op[q]
                               /\ About(q, u, c)' = About(q, u, c)
                               /\ HalfDone(q)' = HalfDone(q)
    BY DEF Moves, About, HalfDone
  <1>3. UNCHANGED <<userCourses, courseUsers>>
    BY DEF memberVars
  <1>4. CASE <<u, c>> \in clashed
    BY <1>4 DEF MemberAt
  <1>5. CASE <<u, c>> \notin clashed
    <2>1. ASSUME NEW q \in Calls, About(q, u, c)'
          PROVE  /\ pc'[q] = "addUser" /\ op'[q].kind # "create" => userCourses[u][c] = op'[q].value
                 /\ pc'[q] = "addCourse" /\ op'[q].kind = "create" => courseUsers[u][c] = op'[q].value
                 /\ pc'[q] = "removeUser" => userCourses[u][c] = "none"
      <3>1. CASE q = p
        BY <3>1 DEF HalfDone
      <3>2. CASE q # p
        BY <1>1, <1>2, <1>5, <2>1, <3>2 DEF MemberAt
      <3> QED BY <3>1, <3>2
    <2>2. (\A q \in Calls : About(q, u, c)' => ~HalfDone(q)') => userCourses[u][c] = courseUsers[u][c]
      <3> SUFFICES ASSUME \A q \in Calls : About(q, u, c)' => ~HalfDone(q)'
                   PROVE  userCourses[u][c] = courseUsers[u][c]
        OBVIOUS
      <3>1. \A q \in Calls : About(q, u, c) => ~HalfDone(q)
        BY <1>2
      <3> QED BY <1>1, <1>5, <3>1 DEF MemberAt
    <2> QED BY <1>3, <2>1, <2>2 DEF MemberAt
  <1> QED BY <1>4, <1>5

LEMMA MemberStutter ==
  ASSUME MemberInv, UNCHANGED <<memberVars, pc, op, clashed>>
  PROVE  MemberInv'
  BY DEF MemberInv, MemberAt, About, HalfDone, memberVars

\* What MemberAt says where the call p is the one that is about the membership,
\* and where it is another call that steps.
LEMMA MemberMine ==
  ASSUME NEW u, NEW c, NEW p \in Calls, \A q \in Calls \ {p} : About(q, u, c)' => ~HalfDone(q)',
         \/ ~About(p, u, c)' /\ userCourses'[u][c] = courseUsers'[u][c]
         \/ /\ pc'[p] = "addUser" /\ op'[p].kind # "create" /\ userCourses'[u][c] = op'[p].value
            /\ About(p, u, c)'
         \/ /\ pc'[p] = "addCourse" /\ op'[p].kind = "create" /\ courseUsers'[u][c] = op'[p].value
            /\ About(p, u, c)'
         \/ /\ pc'[p] = "removeUser" /\ userCourses'[u][c] = "none" /\ About(p, u, c)'
  PROVE  MemberAt(u, c)'
  BY DEF MemberAt, HalfDone

LEMMA MemberTheirs ==
  ASSUME NEW u, NEW c, NEW p \in Calls, Moves(p), clashed \subseteq clashed', MemberAt(u, c),
         ~About(p, u, c), ~About(p, u, c)',
         userCourses'[u][c] = userCourses[u][c], courseUsers'[u][c] = courseUsers[u][c]
  PROVE  MemberAt(u, c)'
  <1>1. \A q \in Calls \ {p} : /\ pc'[q] = pc[q] /\ op'[q] = op[q]
                               /\ About(q, u, c)' = About(q, u, c)
                               /\ HalfDone(q)' = HalfDone(q)
    BY DEF Moves, About, HalfDone
  <1>2. CASE <<u, c>> \in clashed
    BY <1>2 DEF MemberAt
  <1>3. CASE <<u, c>> \notin clashed
    <2>1. ASSUME NEW q \in Calls, About(q, u, c)'
          PROVE  /\ pc'[q] = "addUser" /\ op'[q].kind # "create" => userCourses[u][c] = op'[q].value
                 /\ pc'[q] = "addCourse" /\ op'[q].kind = "create" => courseUsers[u][c] = op'[q].value
                 /\ pc'[q] = "removeUser" => userCourses[u][c] = "none"
      BY <1>1, <1>3, <2>1 DEF MemberAt
    <2>2. (\A q \in Calls : About(q, u, c)' => ~HalfDone(q)') => userCourses[u][c] = courseUsers[u][c]
      BY <1>1, <1>3 DEF MemberAt
    <2> QED BY <2>1, <2>2 DEF MemberAt
  <1> QED BY <1>2, <1>3

\* An entry that is written, and the others.
LEMMA EntryWritten ==
  ASSUME NEW f \in [Ids -> [Courses -> Roles \cup {"none"}]], NEW u \in Ids, NEW c \in Courses,
         NEW i, NEW d, NEW v
  PROVE  /\ u = i /\ c = d => [f EXCEPT ![i][d] = v][u][c] = v
         /\ ~(u = i /\ c = d) => [f EXCEPT ![i][d] = v][u][c] = f[u][c]
  OBVIOUS

\* The writes of memberships.
LEMMA MemberWrite ==
  ASSUME TypeInv, OverlapInv, MemberInv, NEW p \in Calls,
         AddCourse(p) \/ AddUser(p) \/ RemoveCourseMember(p) \/ RemoveUser(p)
  PROVE  MemberInv'
  <1> SUFFICES ASSUME NEW u \in Ids, NEW c \in Courses PROVE MemberAt(u, c)'
    BY DEF MemberInv
  <1> DEFINE o == op[p]
  <1>1. Moves(p) /\ clashed \subseteq clashed'
    BY CourseMoves, MovesOverlap
  <1>2. MemberAt(u, c)
    BY DEF MemberInv
  <1>3. /\ userCourses \in [Ids -> [Courses -> Roles \cup {"none"}]]
        /\ courseUsers \in [Ids -> [Courses -> Roles \cup {"none"}]] /\ CallsOK
    BY DEF TypeInv, DataOK
  <1>4. u # 0
    BY DEF Ids
  <1>5. op'[p] = o \/ op'[p] = NoOp
    BY <1>3, GotoMoves, EndMoves DEF AddCourse, AddUser, RemoveCourseMember, RemoveUser
  <1>6. pc[p] \in MemberLabels
    BY DEF AddCourse, AddUser, RemoveCourseMember, RemoveUser, At, MemberLabels
  <1>7. CASE ~About(p, u, c)
    <2>1. ~About(p, u, c)'
      <3>1. NoOp.user = 0
        BY DEF NoOp
      <3> QED BY <1>4, <1>5, <1>7, <3>1 DEF About
    <2>2. ~(u = o.user /\ c = o.course)
      BY <1>7 DEF About
    <2>3. userCourses'[u][c] = userCourses[u][c]
      <3>1. \/ userCourses' = userCourses
            \/ \E v : userCourses' = [userCourses EXCEPT ![o.user][o.course] = v]
        BY DEF AddCourse, AddUser, RemoveCourseMember, RemoveUser
      <3>2. ASSUME NEW v, userCourses' = [userCourses EXCEPT ![o.user][o.course] = v]
            PROVE  userCourses'[u][c] = userCourses[u][c]
        BY <1>3, <2>2, <3>2
      <3> QED BY <3>1, <3>2
    <2>4. courseUsers'[u][c] = courseUsers[u][c]
      <3>1. \/ courseUsers' = courseUsers
            \/ \E v : courseUsers' = [courseUsers EXCEPT ![o.user][o.course] = v]
        BY DEF AddCourse, AddUser, RemoveCourseMember, RemoveUser
      <3>2. ASSUME NEW v, courseUsers' = [courseUsers EXCEPT ![o.user][o.course] = v]
            PROVE  courseUsers'[u][c] = courseUsers[u][c]
        BY <1>3, <2>2, <3>2
      <3> QED BY <3>1, <3>2
    <2> QED BY <1>1, <1>2, <1>7, <2>1, <2>3, <2>4, MemberTheirs
  <1>8. CASE About(p, u, c)
    <2>1. u = o.user /\ c = o.course
      BY <1>8 DEF About
    <2> SUFFICES ASSUME <<u, c>> \notin clashed' PROVE MemberAt(u, c)'
      BY DEF MemberAt
    <2>2. <<u, c>> \notin clashed
      BY <1>1
    <2>3. \A q \in Calls \ {p} : About(q, u, c)' => ~HalfDone(q)'
      <3>1. \A q \in Calls \ {p} : About(q, u, c) => ~HalfDone(q)
        BY <1>6, <1>8, <2>2, MemberSole
      <3> QED BY <1>1, <3>1 DEF Moves, About, HalfDone
    <2>4. ASSUME op'[p] = NoOp, userCourses'[u][c] = courseUsers'[u][c] PROVE MemberAt(u, c)'
      <3>1. ~About(p, u, c)'
        <4>1. NoOp.user = 0
          BY DEF NoOp
        <4> QED BY <1>4, <2>4, <4>1 DEF About
      <3> QED BY <2>3, <2>4, <3>1, MemberMine
    <2>5. ASSUME op'[p] = o,
                 \/ pc'[p] = "addUser" /\ o.kind # "create" /\ userCourses'[u][c] = o.value
                 \/ pc'[p] = "addCourse" /\ o.kind = "create" /\ courseUsers'[u][c] = o.value
                 \/ pc'[p] = "removeUser" /\ userCourses'[u][c] = "none"
          PROVE  MemberAt(u, c)'
      <3>1. About(p, u, c)'
        BY <1>8, <2>5 DEF About
      <3> QED BY <2>3, <2>5, <3>1, MemberMine
    <2>6. CASE AddCourse(p)
      <3>1. pc[p] = "addCourse" /\ courseUsers' = courseUsers
            /\ userCourses' = [userCourses EXCEPT ![o.user][o.course] = o.value]
        BY <2>6 DEF AddCourse, At
      <3>2. userCourses'[u][c] = o.value
        BY <1>3, <2>1, <3>1, EntryWritten
      <3>3. CASE o.kind = "create"
        <4>1. op'[p] = NoOp
          BY <1>3, <2>6, <3>3, EndMoves DEF AddCourse
        <4>2. courseUsers[u][c] = o.value
          BY <1>2, <1>8, <2>2, <3>1, <3>3 DEF MemberAt
        <4> QED BY <2>4, <3>1, <3>2, <4>1, <4>2
      <3>4. CASE o.kind # "create"
        <4>1. op'[p] = o /\ pc'[p] = "addUser"
          BY <1>3, <2>6, <3>4, GotoMoves DEF AddCourse
        <4> QED BY <2>5, <3>2, <3>4, <4>1
      <3> QED BY <3>3, <3>4
    <2>7. CASE AddUser(p)
      <3>1. pc[p] = "addUser" /\ userCourses' = userCourses
            /\ courseUsers' = [courseUsers EXCEPT ![o.user][o.course] = o.value]
        BY <2>7 DEF AddUser, At
      <3>2. courseUsers'[u][c] = o.value
        BY <1>3, <2>1, <3>1, EntryWritten
      <3>3. CASE o.kind # "create"
        <4>1. op'[p] = NoOp
          BY <1>3, <2>7, <3>3, EndMoves DEF AddUser
        <4>2. userCourses[u][c] = o.value
          BY <1>2, <1>8, <2>2, <3>1, <3>3 DEF MemberAt
        <4> QED BY <2>4, <3>1, <3>2, <4>1, <4>2
      <3>4. CASE o.kind = "create"
        <4>1. op'[p] = o /\ pc'[p] = "addCourse"
          BY <1>3, <2>7, <3>4, GotoMoves DEF AddUser
        <4> QED BY <2>5, <3>2, <3>4, <4>1
      <3> QED BY <3>3, <3>4
    <2>8. CASE RemoveCourseMember(p)
      <3>1. userCourses' = [userCourses EXCEPT ![o.user][o.course] = "none"]
        BY <2>8 DEF RemoveCourseMember
      <3>2. userCourses'[u][c] = "none"
        BY <1>3, <2>1, <3>1, EntryWritten
      <3>3. op'[p] = o /\ pc'[p] = "removeUser"
        BY <1>3, <2>8, GotoMoves DEF RemoveCourseMember
      <3> QED BY <2>5, <3>2, <3>3
    <2>9. CASE RemoveUser(p)
      <3>1. pc[p] = "removeUser" /\ userCourses' = userCourses
            /\ courseUsers' = [courseUsers EXCEPT ![o.user][o.course] = "none"]
        BY <2>9 DEF RemoveUser, At
      <3>2. courseUsers'[u][c] = "none"
        BY <1>3, <2>1, <3>1, EntryWritten
      <3>3. userCourses[u][c] = "none"
        BY <1>2, <1>8, <2>2, <3>1 DEF MemberAt
      <3>4. op'[p] = NoOp
        BY <1>3, <2>9, EndMoves DEF RemoveUser
      <3> QED BY <2>4, <3>1, <3>2, <3>3, <3>4
    <2> QED BY <2>6, <2>7, <2>8, <2>9
  <1> QED BY <1>7, <1>8

LEMMA MemberInit == Init => MemberInv
  BY DEF Init, MemberInv, MemberAt, HalfDone

LEMMA MemberRestart ==
  ASSUME TypeInv, MemberInv, Restart
  PROVE  MemberInv'
  <1> SUFFICES ASSUME NEW u \in Ids, NEW c \in Courses PROVE MemberAt(u, c)'
    BY DEF MemberInv
  <1>1. /\ \A p \in Calls : pc'[p] = "idle"
        /\ UNCHANGED <<userCourses, courseUsers>> /\ clashed \subseteq clashed'
        /\ \A p \in Calls : InFlight(p) \subseteq clashed'
    BY DEF Restart, memberVars
  <1>2. CASE \A p \in Calls : About(p, u, c) => ~HalfDone(p)
    BY <1>1, <1>2 DEF MemberInv, MemberAt, HalfDone
  <1>3. ASSUME NEW p \in Calls, About(p, u, c), HalfDone(p) PROVE MemberAt(u, c)'
    <2>1. /\ op[p].kind \in {"join", "add", "member", "remove", "create"} /\ pc[p] # "idle"
      BY <1>3 DEF TypeInv, CallsOK, OpOK, HalfDone, MemberKinds
    <2>2. <<u, c>> \in InFlight(p)
      BY <1>3, <2>1 DEF InFlight, Subject, About
    <2> QED BY <1>1, <2>2 DEF MemberAt
  <1> QED BY <1>2, <1>3

LEMMA MemberStep == TypeInv /\ OverlapInv /\ MemberInv /\ [Next]_vars => MemberInv'
  <1> SUFFICES ASSUME TypeInv, OverlapInv, MemberInv, [Next]_vars PROVE MemberInv'
    OBVIOUS
  <1>0. CallsOK
    BY DEF TypeInv
  <1>1. ASSUME NEW p \in Calls, Began(p) PROVE MemberInv'
    <2>1. ~HalfDone(p) /\ ~HalfDone(p)' /\ Moves(p) /\ UNCHANGED memberVars
      BY <1>1 DEF Began, HalfDone
    <2> QED BY <2>1, MovesOverlap, MemberFrame
  <1>2. ASSUME NEW t \in Types, NEW e \in Emails, Issue(t, e) PROVE MemberInv'
    BY <1>2, MemberStutter DEF Issue, callVars
  <1>3. CASE Expire \/ CollectCodes \/ CollectKey
    BY <1>3, MemberStutter DEF Expire, CollectCodes, CollectKey, callVars
  <1>4. CASE UNCHANGED <<userVars, codeVars, courseVars, memberVars, callVars>>
    BY <1>4, MemberStutter DEF callVars
  <1>5. ASSUME NEW p \in Calls,
               \/ ValidateDelete(p) \/ ResetLookup(p) \/ SignUpValidate(p) \/ SignUpCreate(p)
               \/ ReadUser(p) \/ WriteUser(p) \/ BindIndex(p) \/ UnbindIndex(p)
        PROVE  MemberInv'
    <2>1. Moves(p) /\ clashed \subseteq clashed'
      BY <1>5, AccountMoves, MovesOverlap
    <2>2. pc[p] \in AccountLabels /\ pc'[p] \in AccountLabels \cup {"idle"} /\ UNCHANGED memberVars
      BY <1>5, AccountAt
    <2> QED BY <2>1, <2>2, MemberFrame DEF AccountLabels, HalfDone
  <1>6. ASSUME NEW p \in Calls, AddNewUser(p) \/ AddKnown(p) PROVE MemberInv'
    <2>1. Moves(p) /\ clashed \subseteq clashed' /\ UNCHANGED memberVars
      BY <1>6, CourseMoves, MovesOverlap DEF AddNewUser, AddKnown, notCourses
    <2>2. ~HalfDone(p)
      BY <1>6 DEF AddNewUser, AddKnown, At, HalfDone
    <2>3. ~HalfDone(p)'
      <3>1. CASE AddNewUser(p)
        BY <1>0, <3>1, GotoMoves DEF AddNewUser, HalfDone
      <3>2. CASE AddKnown(p)
        <4>1. op[p].kind = "add"
          BY <3>2 DEF AddKnown, At, TypeInv, CallsOK, OpOK
        <4> QED BY <1>0, <3>2, <4>1, GotoMoves, EndMoves DEF AddKnown, HalfDone
      <3> QED BY <1>6, <3>1, <3>2
    <2> QED BY <2>1, <2>2, <2>3, MemberFrame
  <1>7. ASSUME NEW p \in Calls, UnbindJoinCode(p) \/ UpdateCourse(p) \/ BindJoinCode(p)
        PROVE  MemberInv'
    <2>1. Moves(p) /\ clashed \subseteq clashed' /\ UNCHANGED memberVars
      BY <1>7, CourseMoves, MovesOverlap DEF UnbindJoinCode, UpdateCourse, BindJoinCode
    <2>2. ~HalfDone(p) /\ ~HalfDone(p)'
      BY <1>0, <1>7, GotoMoves, EndMoves DEF UnbindJoinCode, UpdateCourse, BindJoinCode, At, HalfDone
    <2> QED BY <2>1, <2>2, MemberFrame
  <1>8. ASSUME NEW p \in Calls,
               UpdateEntry(p) \/ MarkBoard(p) \/ DeleteEntry(p) \/ CountEntries(p) \/ UnmarkBoard(p)
        PROVE  MemberInv'
    <2>1. Moves(p) /\ clashed \subseteq clashed' /\ UNCHANGED memberVars
      BY <1>8, BoardMoves, MovesOverlap
         DEF UpdateEntry, MarkBoard, DeleteEntry, CountEntries, UnmarkBoard, notBoard
    <2>2. ~HalfDone(p) /\ ~HalfDone(p)'
      BY <1>0, <1>8, GotoMoves, EndMoves
         DEF UpdateEntry, MarkBoard, DeleteEntry, CountEntries, UnmarkBoard, At, HalfDone
    <2> QED BY <2>1, <2>2, MemberFrame
  <1>9. CASE UNCHANGED vars
    BY <1>9, MemberStutter DEF vars, callVars
  <1> QED BY <1>1, <1>2, <1>3, <1>4, <1>5, <1>6, <1>7, <1>8, <1>9, Cases, MemberWrite, MemberRestart

-----------------------------------------------------------------------------
(* GitHub logins *)

\* Unless that has been noted, one call at a time is about GitHub logins.
LEMMA GithubSole ==
  ASSUME TypeInv, OverlapInv, GithubIndex \notin clashed, NEW p \in Calls, NEW q \in Calls, p # q,
         op[p].kind \in GithubKinds
  PROVE  op[q].kind \notin GithubKinds
  <1> SUFFICES ASSUME op[q].kind \in GithubKinds PROVE FALSE
    OBVIOUS
  <1>1. pc[p] # "idle" /\ pc[q] # "idle"
    BY DEF TypeInv, CallsOK, OpOK, GithubKinds
  <1>2. GithubIndex \in InFlight(p) /\ GithubIndex \in InFlight(q)
    BY <1>1 DEF InFlight, Subject, GithubKinds
  <1> QED BY <1>2 DEF OverlapInv

LEMMA MutateGithub ==
  ASSUME NEW u \in UserRecords, NEW o \in OpRecords
  PROVE  Mutate(u, o).github = IF o.kind \in {"bind", "github"} THEN o.login
                               ELSE IF o.kind = "unbind" THEN "none" ELSE u.github
  <1>1. o.value \in Values /\ (o.value = "yes") \in BOOLEAN
    BY DEF OpRecords
  <1> QED BY <1>1 DEF Mutate, UserRecords

\* Users keep their logins, new ones have none, and the index stays.
SameLogins ==
  /\ githubKey' = githubKey
  /\ Len(users) \in Nat /\ Len(users') \in Nat /\ Len(users) <= Len(users')
  /\ \A u \in 1..Len(users) : users'[u].github = users[u].github
  /\ \A u \in 1..Len(users') : u \notin 1..Len(users) => users'[u].github = "none"

LEMMA LeadsBackKept ==
  ASSUME SameLogins
  PROVE  /\ \A u \in 1..Len(users) : LeadsBack(u)' <=> LeadsBack(u)
         /\ \A u \in 1..Len(users') : u \notin 1..Len(users) => LeadsBack(u)'
  BY DEF SameLogins, LeadsBack

LEMMA GithubFrame ==
  ASSUME TypeInv, GithubInv, NEW p \in Calls, Moves(p), clashed \subseteq clashed', SameLogins,
         pc[p] \notin {"index", "unindex"}, pc'[p] \notin {"index", "unindex"},
         op'[p].kind \in {"bind", "github"} =>
           \/ githubKey[op'[p].login] = 0
           \/ op[p].kind \in {"bind", "github"} /\ op'[p].login = op[p].login
  PROVE  GithubInv'
  <1> SUFFICES ASSUME GithubIndex \notin clashed' PROVE GithubInv'
    BY DEF GithubInv
  <1>1. GithubIndex \notin clashed
    OBVIOUS
  <1>2. githubKey' = githubKey
    BY DEF SameLogins
  <1>3. ASSUME NEW q \in Calls, op'[q].kind \in {"bind", "github"} PROVE githubKey[op'[q].login] = 0
    <2>1. CASE q = p
      BY <1>1, <1>3, <2>1 DEF GithubInv
    <2>2. CASE q # p
      BY <1>1, <1>3, <2>2 DEF GithubInv, Moves
    <2> QED BY <2>1, <2>2
  <1>4. ASSUME NEW q \in Calls, pc'[q] = "index"
        PROVE  /\ users'[op'[q].user].github = op'[q].login
               /\ \A u \in 1..Len(users') \ {op'[q].user} : LeadsBack(u)'
    <2>1. q # p /\ pc[q] = "index" /\ op'[q] = op[q]
      BY <1>4 DEF Moves
    <2>2. op[q].user \in 1..Len(users)
      BY <2>1 DEF TypeInv, CallsOK, OpOK, WithUser
    <2>3. /\ users[op[q].user].github = op[q].login
          /\ \A u \in 1..Len(users) \ {op[q].user} : LeadsBack(u)
      BY <1>1, <2>1 DEF GithubInv
    <2>4. users'[op[q].user].github = users[op[q].user].github
      BY <2>2 DEF SameLogins
    <2> QED BY <2>1, <2>3, <2>4, LeadsBackKept
  <1>5. ASSUME NEW q \in Calls, pc'[q] = "unindex"
        PROVE  /\ users'[op'[q].user].github = "none"
               /\ githubKey[op'[q].login] = op'[q].user
    <2>1. q # p /\ pc[q] = "unindex" /\ op'[q] = op[q]
      BY <1>5 DEF Moves
    <2>2. op[q].user \in 1..Len(users)
      BY <2>1 DEF TypeInv, CallsOK, OpOK, WithUser
    <2>3. users'[op[q].user].github = users[op[q].user].github
      BY <2>2 DEF SameLogins
    <2> QED BY <1>1, <2>1, <2>3 DEF GithubInv
  <1>6. (\A q \in Calls : pc'[q] # "index") => \A u \in 1..Len(users') : LeadsBack(u)'
    <2> SUFFICES ASSUME \A q \in Calls : pc'[q] # "index"
                 PROVE  \A u \in 1..Len(users') : LeadsBack(u)'
      OBVIOUS
    <2>1. \A q \in Calls : pc[q] # "index"
      BY DEF Moves
    <2>2. \A u \in 1..Len(users) : LeadsBack(u)
      BY <1>1, <2>1 DEF GithubInv
    <2> QED BY <2>2, LeadsBackKept
  <1> QED BY <1>2, <1>3, <1>4, <1>5, <1>6 DEF GithubInv

LEMMA GithubStutter ==
  ASSUME GithubInv, UNCHANGED <<users, githubKey, pc, op, clashed>>
  PROVE  GithubInv'
  BY DEF GithubInv, LeadsBack

LEMMA SameUsers ==
  ASSUME TypeInv, UNCHANGED <<users, githubKey>>
  PROVE  SameLogins
  BY DEF TypeInv, DataOK, SameLogins

\* A user who is created is not bound.
LEMMA CreateSame ==
  ASSUME TypeInv, NEW n \in Usernames, NEW e \in Emails, NEW pw \in {"old", "none"},
         CreateUser(n, e, pw), UNCHANGED githubKey
  PROVE  SameLogins
  <1>1. users \in Seq(UserRecords) /\ Len(users) \in Nat
    BY DEF TypeInv, DataOK
  <1>2. CASE nameKey[n] # 0
    BY <1>1, <1>2 DEF CreateUser, SameLogins
  <1>3. CASE nameKey[n] = 0
    <2> DEFINE v == User(n, e, pw)
    <2>1. v \in UserRecords /\ v.github = "none"
      BY DEF User, UserRecords, Values
    <2>2. users' = Append(users, v)
      BY <1>3 DEF CreateUser
    <2> HIDE DEF v
    <2>3. /\ Len(users') = Len(users) + 1 /\ users'[Len(users) + 1] = v
          /\ \A u \in 1..Len(users) : users'[u] = users[u]
      BY <1>1, <2>1, <2>2, AppendProperties
    <2>4. \A u \in 1..Len(users') : u \notin 1..Len(users) => u = Len(users) + 1
      BY <1>1, <2>3
    <2>5. \A u \in 1..Len(users') : u \notin 1..Len(users) => users'[u].github = "none"
      BY <2>1, <2>3, <2>4
    <2> QED BY <1>1, <2>3, <2>5 DEF SameLogins
  <1> QED BY <1>2, <1>3

\* The first of the two writes.
LEMMA GithubWrite ==
  ASSUME TypeInv, UserInv, OverlapInv, GithubInv, NEW p \in Calls, WriteUser(p)
  PROVE  GithubInv'
  <1> DEFINE o == op[p]
  <1>1. /\ Moves(p) /\ clashed \subseteq clashed' /\ CallsOK
        /\ users' = [users EXCEPT ![o.user] = Mutate(@, o)] /\ o.read = users[o.user]
    BY UserWrite, MovesOverlap DEF TypeInv
  <1>2. pc[p] = "write" /\ githubKey' = githubKey
    BY DEF WriteUser, At
  <1>3. o \in OpRecords /\ o.user \in 1..Len(users) /\ users \in Seq(UserRecords)
        /\ (o.kind \in {"bind", "github"} => o.login \in Logins)
    BY <1>2 DEF TypeInv, DataOK, CallsOK, OpOK, WithUser
  <1>4. /\ Len(users') = Len(users) /\ Len(users) \in Nat
        /\ users'[o.user].github = IF o.kind \in {"bind", "github"} THEN o.login
                                   ELSE IF o.kind = "unbind" THEN "none" ELSE users[o.user].github
        /\ \A u \in 1..Len(users) : u # o.user => users'[u] = users[u]
    <2>1. users[o.user] \in UserRecords
      BY <1>3
    <2>2. Mutate(users[o.user], o).github =
            IF o.kind \in {"bind", "github"} THEN o.login
            ELSE IF o.kind = "unbind" THEN "none" ELSE users[o.user].github
      BY <1>3, <2>1, MutateGithub
    <2> HIDE DEF o
    <2> QED BY <1>1, <1>3, <2>2
  <1> SUFFICES ASSUME GithubIndex \notin clashed' PROVE GithubInv'
    BY DEF GithubInv
  <1>5. GithubIndex \notin clashed
    BY <1>1
  <1>6. CASE o.kind \in {"bind", "github"}
    <2>1. pc'[p] = "index" /\ op'[p] = o
      BY <1>1, <1>6, GotoMoves DEF WriteUser
    <2>2. \A q \in Calls \ {p} : op'[q] = op[q] /\ pc'[q] = pc[q] /\ op[q].kind \notin GithubKinds
      BY <1>1, <1>5, <1>6, GithubSole DEF Moves, GithubKinds
    <2>3. \A q \in Calls \ {p} : pc'[q] \notin {"index", "unindex"}
      BY <2>2 DEF TypeInv, CallsOK, OpOK, GithubKinds
    <2>4. \A u \in 1..Len(users) : LeadsBack(u)
      BY <1>2, <1>5, <2>2, <2>3 DEF GithubInv
    <2>5. \A u \in 1..Len(users') \ {o.user} : LeadsBack(u)'
      BY <1>2, <1>4, <2>4 DEF LeadsBack
    <2>6. githubKey[o.login] = 0 /\ users'[o.user].github = o.login
      BY <1>4, <1>5, <1>6 DEF GithubInv
    <2> HIDE DEF o
    <2>7. \A q \in Calls : op'[q].kind \in {"bind", "github"} => githubKey'[op'[q].login] = 0
      BY <1>2, <2>1, <2>2, <2>6 DEF GithubKinds
    <2> QED BY <2>1, <2>3, <2>5, <2>6, <2>7 DEF GithubInv
  <1>7. CASE o.kind = "unbind" /\ o.read.github # "none"
    <2> DEFINE g == o.read.github
               r == [o EXCEPT !.login = g]
    <2>1. Goto(p, "unindex", r)
      BY <1>7 DEF WriteUser
    <2>2. r.user = o.user /\ r.login = g /\ r.kind = "unbind"
      BY <1>3, <1>7 DEF OpRecords
    <2> HIDE DEF r
    <2>3. pc'[p] = "unindex" /\ op'[p] = r
      BY <1>1, <2>1, GotoMoves
    <2>4. \A q \in Calls \ {p} : op'[q] = op[q] /\ pc'[q] = pc[q] /\ op[q].kind \notin GithubKinds
      BY <1>1, <1>5, <1>7, GithubSole DEF Moves, GithubKinds
    <2>5. \A q \in Calls \ {p} : pc'[q] \notin {"index", "unindex"}
      BY <2>4 DEF TypeInv, CallsOK, OpOK, GithubKinds
    <2>6. \A u \in 1..Len(users) : LeadsBack(u)
      BY <1>2, <1>5, <2>4, <2>5 DEF GithubInv
    <2>7. githubKey[g] = o.user
      BY <1>1, <1>3, <1>7, <2>6 DEF LeadsBack
    <2>8. users'[o.user].github = "none"
      BY <1>4, <1>7
    <2>9. \A u \in 1..Len(users') : LeadsBack(u)'
      BY <1>2, <1>4, <2>6, <2>8 DEF LeadsBack
    <2> HIDE DEF o, g
    <2>10. \A q \in Calls : op'[q].kind \notin {"bind", "github"}
      BY <2>2, <2>3, <2>4 DEF GithubKinds
    <2>11. \A q \in Calls : pc'[q] # "index"
      BY <2>3, <2>5
    <2> QED BY <1>2, <2>2, <2>3, <2>5, <2>7, <2>8, <2>9, <2>10, <2>11 DEF GithubInv
  <1>8. CASE ~(o.kind \in {"bind", "github"}) /\ ~(o.kind = "unbind" /\ o.read.github # "none")
    <2>1. End(p)
      BY <1>8 DEF WriteUser
    <2>2. pc'[p] = "idle" /\ op'[p].kind = "none"
      <3>1. pc'[p] = "idle" /\ op'[p] = NoOp
        BY <1>1, <2>1, EndMoves
      <3>2. NoOp.kind = "none"
        BY DEF NoOp
      <3> QED BY <3>1, <3>2
    <2> HIDE DEF o
    <2>3. users'[o.user].github = users[o.user].github
      <3>1. CASE o.kind = "unbind"
        BY <1>1, <1>4, <1>8, <3>1
      <3>2. CASE o.kind # "unbind"
        BY <1>4, <1>8, <3>2
      <3> QED BY <3>1, <3>2
    <2>4. SameLogins
      BY <1>2, <1>3, <1>4, <2>3 DEF SameLogins
    <2> QED BY <1>1, <1>2, <2>2, <2>4, GithubFrame
  <1> QED BY <1>6, <1>7, <1>8

\* The second.
LEMMA GithubIndexed ==
  ASSUME TypeInv, OverlapInv, GithubInv, NEW p \in Calls, BindIndex(p) \/ UnbindIndex(p)
  PROVE  GithubInv'
  <1> DEFINE o == op[p]
  <1>1. Moves(p) /\ clashed \subseteq clashed' /\ CallsOK
    BY AccountMoves, MovesOverlap DEF TypeInv
  <1>2. /\ pc[p] \in {"index", "unindex"} /\ users' = users
        /\ githubKey' = [githubKey EXCEPT ![o.login] = IF pc[p] = "index" THEN o.user ELSE 0]
    BY DEF BindIndex, UnbindIndex, At
  <1>3. /\ o.login \in Logins /\ o.user \in 1..Len(users) /\ o.kind \in GithubKinds
        /\ pc[p] = "index" => o.kind \in {"bind", "github"}
        /\ githubKey \in [Logins -> 0..Len(users)]
        /\ \A u \in 1..Len(users) : users[u].github \in Logins \cup {"none"}
    <2>1. /\ pc[p] = "index" => o.kind \in {"bind", "github"}
          /\ pc[p] = "unindex" => o.kind = "unbind" /\ o.login \in Logins
          /\ o.kind \in {"bind", "github"} => o.login \in Logins
          /\ o.user \in 1..Len(users)
      BY <1>2 DEF TypeInv, CallsOK, OpOK, WithUser
    <2>2. githubKey \in [Logins -> 0..Len(users)] /\ users \in Seq(UserRecords)
      BY DEF TypeInv, DataOK
    <2>3. ASSUME NEW u \in 1..Len(users) PROVE users[u].github \in Logins \cup {"none"}
      <3>1. users[u] \in UserRecords
        BY <2>2
      <3> QED BY <3>1 DEF UserRecords
    <2> QED BY <1>2, <2>1, <2>2, <2>3 DEF GithubKinds
  <1> SUFFICES ASSUME GithubIndex \notin clashed' PROVE GithubInv'
    BY DEF GithubInv
  <1>4. GithubIndex \notin clashed
    BY <1>1
  <1>5. pc'[p] = "idle" /\ op'[p].kind = "none"
    <2>1. End(p)
      BY DEF BindIndex, UnbindIndex
    <2>2. pc'[p] = "idle" /\ op'[p] = NoOp
      BY <1>1, <2>1, EndMoves
    <2>3. NoOp.kind = "none"
      BY DEF NoOp
    <2> QED BY <2>2, <2>3
  <1>6. \A q \in Calls \ {p} : op'[q] = op[q] /\ pc'[q] = pc[q] /\ op[q].kind \notin GithubKinds
    BY <1>1, <1>3, <1>4, GithubSole DEF Moves
  <1>7. \A q \in Calls : /\ op'[q].kind \notin GithubKinds
                         /\ pc'[q] \notin {"index", "unindex"}
    <2>1. \A q \in Calls \ {p} : pc[q] \notin {"index", "unindex"}
      BY <1>6 DEF TypeInv, CallsOK, OpOK, GithubKinds
    <2> QED BY <1>5, <1>6, <2>1 DEF GithubKinds
  <1>8. \A u \in 1..Len(users) : LeadsBack(u)'
    <2> SUFFICES ASSUME NEW u \in 1..Len(users), users[u].github # "none"
                 PROVE  githubKey'[users[u].github] = u
      BY <1>2 DEF LeadsBack
    <2>1. users[u].github \in Logins
      BY <1>3
    <2>2. CASE pc[p] = "index"
      <3>1. /\ users[o.user].github = o.login /\ githubKey[o.login] = 0
            /\ \A v \in 1..Len(users) \ {o.user} : LeadsBack(v)
        BY <1>3, <1>4, <2>2 DEF GithubInv
      <3>2. CASE u = o.user
        BY <1>2, <1>3, <2>2, <3>1, <3>2
      <3>3. CASE u # o.user
        <4>1. githubKey[users[u].github] = u /\ u # 0
          BY <3>1, <3>3 DEF LeadsBack
        <4> QED BY <1>2, <1>3, <2>1, <3>1, <4>1
      <3> QED BY <3>2, <3>3
    <2>3. CASE pc[p] = "unindex"
      <3>1. users[o.user].github = "none" /\ githubKey[o.login] = o.user
        BY <1>4, <2>3 DEF GithubInv
      <3>2. \A q \in Calls : pc[q] # "index"
        BY <1>6, <1>7, <2>3
      <3>3. githubKey[users[u].github] = u
        BY <1>4, <3>2 DEF GithubInv, LeadsBack
      <3>4. users[u].github # o.login
        BY <3>1, <3>3
      <3> QED BY <1>2, <1>3, <2>1, <3>3, <3>4
    <2> QED BY <1>2, <2>2, <2>3
  <1> QED BY <1>2, <1>7, <1>8 DEF GithubInv, GithubKinds

LEMMA GithubInit == Init => GithubInv
  <1> SUFFICES ASSUME Init PROVE GithubInv
    OBVIOUS
  <1>1. users = FirstUsers /\ \A p \in Calls : pc[p] = "idle" /\ op[p] = NoOp
    BY DEF Init
  <1>2. Len(FirstUsers) = 2 /\ FirstUsers[1].github = "none" /\ FirstUsers[2].github = "none"
    BY DEF FirstUsers, User
  <1>3. NoOp.kind = "none"
    BY DEF NoOp
  <1>4. \A u \in 1..Len(users) : LeadsBack(u)
    BY <1>1, <1>2 DEF LeadsBack
  <1> QED BY <1>1, <1>3, <1>4 DEF GithubInv

\* After a restart nobody is about to write the index.
LEMMA GithubRestart ==
  ASSUME TypeInv, GithubInv, Restart
  PROVE  GithubInv'
  <1>1. /\ \A p \in Calls : pc'[p] = "idle" /\ op'[p] = NoOp
        /\ UNCHANGED <<users, githubKey>> /\ clashed \subseteq clashed'
        /\ \A p \in Calls : InFlight(p) \subseteq clashed'
    BY DEF Restart, userVars
  <1>2. NoOp.kind = "none"
    BY DEF NoOp
  <1>3. CASE \A p \in Calls : pc[p] # "index"
    BY <1>1, <1>2, <1>3 DEF GithubInv, LeadsBack
  <1>4. ASSUME NEW p \in Calls, pc[p] = "index" PROVE GithubInv'
    <2>1. op[p].kind \in GithubKinds
      BY <1>4 DEF TypeInv, CallsOK, OpOK, GithubKinds
    <2>2. GithubIndex \in InFlight(p)
      BY <1>4, <2>1 DEF InFlight, Subject, GithubKinds
    <2> QED BY <1>1, <2>2 DEF GithubInv
  <1> QED BY <1>3, <1>4

\* The steps of calls about accounts that are not writes of a user or the index
\* leave a call the login it is about.
LEMMA AccountKeepsLogin ==
  ASSUME TypeInv, NEW p \in Calls,
         \/ ValidateDelete(p) \/ ResetLookup(p) \/ SignUpValidate(p) \/ SignUpCreate(p) \/ ReadUser(p)
  PROVE  /\ pc[p] \notin {"index", "unindex"} /\ pc'[p] \notin {"index", "unindex"}
         /\ op'[p].kind = "none" \/ (op'[p].kind = op[p].kind /\ op'[p].login = op[p].login)
  <1>0. CallsOK /\ op[p] \in OpRecords /\ NoOp.kind = "none"
    BY DEF TypeInv, CallsOK, NoOp
  <1>1. CASE ValidateDelete(p)
    <2>1. pc[p] = "delete" /\ pc'[p] \in {"idle", "validate", "lookup"}
          /\ op'[p] \in {NoOp, [op[p] EXCEPT !.code = 0]}
      BY <1>0, <1>1, GotoMoves, EndMoves DEF ValidateDelete, At
    <2>2. /\ [op[p] EXCEPT !.code = 0].kind = op[p].kind
          /\ [op[p] EXCEPT !.code = 0].login = op[p].login
      BY <1>0 DEF OpRecords
    <2> QED BY <1>0, <2>1, <2>2
  <1>2. CASE ResetLookup(p)
    <2> DEFINE o == [op[p] EXCEPT !.user = emailKey[op[p].email]]
    <2>1. pc[p] = "lookup" /\ pc'[p] \in {"idle", "read"} /\ op'[p] \in {NoOp, o}
      BY <1>0, <1>2, GotoMoves, EndMoves DEF ResetLookup, At
    <2>2. o.kind = op[p].kind /\ o.login = op[p].login
      BY <1>0 DEF OpRecords
    <2> HIDE DEF o
    <2> QED BY <1>0, <2>1, <2>2
  <1>3. CASE SignUpValidate(p)
    BY <1>0, <1>3, GotoMoves, EndMoves DEF SignUpValidate, At
  <1>4. CASE SignUpCreate(p)
    <2> DEFINE o == [op[p] EXCEPT !.user = nameKey'[op[p].name]]
    <2>1. pc[p] = "create" /\ pc'[p] \in {"idle", "read"} /\ op'[p] \in {NoOp, o}
      BY <1>0, <1>4, GotoMoves, EndMoves DEF SignUpCreate, At
    <2>2. o.kind = op[p].kind /\ o.login = op[p].login
      BY <1>0 DEF OpRecords
    <2> HIDE DEF o
    <2> QED BY <1>0, <2>1, <2>2
  <1>5. CASE ReadUser(p)
    <2> DEFINE o == [op[p] EXCEPT !.read = users[op[p].user]]
    <2>1. pc[p] = "read" /\ pc'[p] = "write" /\ op'[p] = o
      BY <1>0, <1>5, GotoMoves DEF ReadUser, At
    <2>2. o.kind = op[p].kind /\ o.login = op[p].login
      BY <1>0 DEF OpRecords
    <2> HIDE DEF o
    <2> QED BY <2>1, <2>2
  <1> QED BY <1>1, <1>2, <1>3, <1>4, <1>5

LEMMA GithubStep == TypeInv /\ UserInv /\ OverlapInv /\ GithubInv /\ [Next]_vars => GithubInv'
  <1> SUFFICES ASSUME TypeInv, UserInv, OverlapInv, GithubInv, [Next]_vars PROVE GithubInv'
    OBVIOUS
  <1>0. TypeInv'
    BY TypeStep
  <1>1. ASSUME NEW p \in Calls, Began(p) PROVE GithubInv'
    <2>1. SameLogins
      BY <1>1, SameUsers DEF Began, userVars
    <2> QED BY <1>1, <2>1, MovesOverlap, GithubFrame DEF Began
  <1>2. ASSUME NEW t \in Types, NEW e \in Emails, Issue(t, e) PROVE GithubInv'
    BY <1>2, GithubStutter DEF Issue, callVars, userVars
  <1>3. CASE Expire \/ CollectCodes \/ CollectKey
    BY <1>3, GithubStutter DEF Expire, CollectCodes, CollectKey, callVars, userVars
  <1>4. CASE UNCHANGED <<userVars, codeVars, courseVars, memberVars, callVars>>
    BY <1>4, GithubStutter DEF callVars, userVars
  <1>5. ASSUME NEW p \in Calls,
               \/ ValidateDelete(p) \/ ResetLookup(p) \/ SignUpValidate(p) \/ SignUpCreate(p)
               \/ ReadUser(p)
        PROVE  GithubInv'
    <2>1. Moves(p) /\ clashed \subseteq clashed'
      BY <1>5, AccountMoves, MovesOverlap
    <2>2. SameLogins
      <3>1. CASE SignUpCreate(p)
        <4>1. op[p].name \in Usernames /\ op[p].email \in Emails
          BY <3>1 DEF SignUpCreate, At, TypeInv, CallsOK, OpOK
        <4> QED BY <3>1, <4>1, CreateSame DEF SignUpCreate
      <3>2. CASE ~SignUpCreate(p)
        BY <1>5, <3>2, SameUsers
           DEF ValidateDelete, ResetLookup, SignUpValidate, ReadUser, notCodes, userVars
      <3> QED BY <3>1, <3>2
    <2>3. /\ pc[p] \notin {"index", "unindex"} /\ pc'[p] \notin {"index", "unindex"}
          /\ op'[p].kind = "none" \/ (op'[p].kind = op[p].kind /\ op'[p].login = op[p].login)
      BY <1>5, AccountKeepsLogin
    <2> QED BY <2>1, <2>2, <2>3, GithubFrame
  <1>6. ASSUME NEW p \in Calls,
               \/ AddNewUser(p) \/ AddKnown(p) \/ AddCourse(p) \/ AddUser(p)
               \/ RemoveCourseMember(p) \/ RemoveUser(p)
               \/ UnbindJoinCode(p) \/ UpdateCourse(p) \/ BindJoinCode(p)
        PROVE  GithubInv'
    <2>1. Moves(p) /\ clashed \subseteq clashed'
      BY <1>6, CourseMoves, MovesOverlap
    <2>2. SameLogins
      <3>1. CASE AddNewUser(p)
        <4>1. op[p].name \in Usernames /\ op[p].email \in Emails
          BY <3>1 DEF AddNewUser, At, TypeInv, CallsOK, OpOK
        <4> QED BY <3>1, <4>1, CreateSame DEF AddNewUser
      <3>2. CASE ~AddNewUser(p)
        BY <1>6, <3>2, SameUsers
           DEF AddKnown, AddCourse, AddUser, RemoveCourseMember, RemoveUser, UnbindJoinCode,
               UpdateCourse, BindJoinCode, notCourses, userVars
      <3> QED BY <3>1, <3>2
    <2>3. pc[p] \in CourseLabels /\ pc'[p] \in CourseLabels \cup {"idle"}
      BY <1>6, CourseAt
    <2>4. op'[p].kind \notin {"bind", "github"}
      BY <1>0, <2>3 DEF TypeInv, CallsOK, OpOK, CourseLabels, MemberKinds, RecordKinds
    <2> QED BY <2>1, <2>2, <2>3, <2>4, GithubFrame DEF CourseLabels
  <1>7. ASSUME NEW p \in Calls,
               UpdateEntry(p) \/ MarkBoard(p) \/ DeleteEntry(p) \/ CountEntries(p) \/ UnmarkBoard(p)
        PROVE  GithubInv'
    <2>1. Moves(p) /\ clashed \subseteq clashed'
      BY <1>7, BoardMoves, MovesOverlap
    <2>2. SameLogins
      BY <1>7, SameUsers
         DEF UpdateEntry, MarkBoard, DeleteEntry, CountEntries, UnmarkBoard, notBoard, userVars
    <2>3. CallsOK
      BY DEF TypeInv
    <2>4. pc[p] \in BoardLabels /\ pc'[p] \in BoardLabels \cup {"idle"}
      BY <1>7, <2>3, GotoMoves, EndMoves
         DEF UpdateEntry, MarkBoard, DeleteEntry, CountEntries, UnmarkBoard, At, BoardLabels
    <2>5. op'[p].kind \notin {"bind", "github"}
      BY <1>0, <2>4 DEF TypeInv, CallsOK, OpOK, BoardLabels
    <2> QED BY <2>1, <2>2, <2>4, <2>5, GithubFrame DEF BoardLabels
  <1>8. CASE UNCHANGED vars
    BY <1>8, GithubStutter DEF vars, callVars, userVars
  <1> QED BY <1>1, <1>2, <1>3, <1>4, <1>5, <1>6, <1>7, <1>8, Cases, GithubWrite, GithubIndexed,
             GithubRestart

-----------------------------------------------------------------------------
(* The two keys of a fact *)

\* The two keys under which the code keeps a GitHub login, a membership or the
\* existence of a leaderboard (BindGithubId and UnbindGithubId, AddCourse and
\* AddUser, UpdateLeaderboardEntry and DeleteLeaderboardEntry) agree whenever
\* no call about that fact is in progress, unless two such calls overlapped or
\* a restart cut one short.
THEOREM TwoKeysAgreeHolds == Spec => []TwoKeysAgree
  <1> DEFINE Inv == TypeInv /\ UserInv /\ OverlapInv /\ BoardInv /\ MemberInv /\ GithubInv
  <1>1. Init => Inv
    BY TypeInit, UserInit, OverlapInit, BoardInit, MemberInit, GithubInit
  <1>2. Inv /\ [Next]_vars => Inv'
    BY TypeStep, UserStep, OverlapStep, BoardStep, MemberStep, GithubStep
  <1>3. Inv => TwoKeysAgree
    <2> SUFFICES ASSUME Inv PROVE TwoKeysAgree
      OBVIOUS
    <2>1. BoundLoginLeadsBack
      <3>1. CASE \E p \in Calls : pc[p] = "index"
        <4>1. PICK p \in Calls : pc[p] = "index"
          BY <3>1
        <4>2. op[p].kind \in GithubKinds
          BY <4>1 DEF TypeInv, CallsOK, OpOK, GithubKinds
        <4>3. GithubIndex \in InFlight(p)
          BY <4>1, <4>2 DEF InFlight, Subject, GithubKinds
        <4> QED BY <4>3 DEF BoundLoginLeadsBack
      <3>2. CASE ~\E p \in Calls : pc[p] = "index"
        BY <3>2 DEF GithubInv, LeadsBack, BoundLoginLeadsBack
      <3> QED BY <3>1, <3>2
    <2>2. MembershipAgrees
      <3> SUFFICES ASSUME NEW u \in Ids, NEW c \in Courses, <<u, c>> \notin clashed,
                          userCourses[u][c] # courseUsers[u][c]
                   PROVE  \E p \in Calls : <<u, c>> \in InFlight(p)
        BY DEF MembershipAgrees
      <3>1. PICK p \in Calls : About(p, u, c) /\ HalfDone(p)
        BY DEF MemberInv, MemberAt
      <3>2. op[p].kind \in {"join", "add", "member", "remove", "create"} /\ pc[p] # "idle"
        BY <3>1 DEF TypeInv, CallsOK, OpOK, HalfDone, MemberKinds
      <3>3. <<u, c>> \in InFlight(p)
        BY <3>1, <3>2 DEF InFlight, Subject, About
      <3> QED BY <3>3
    <2>3. MarkedIfListed
      <3>1. CASE \E p \in Calls : pc[p] \in {"mark", "count", "unmark"}
        <4>1. PICK p \in Calls : pc[p] \in {"mark", "count", "unmark"}
          BY <3>1
        <4>2. op[p].kind \in {"activate", "unlist"}
          BY <4>1 DEF TypeInv, CallsOK, OpOK
        <4>3. Leaderboard \in InFlight(p)
          BY <4>1, <4>2 DEF InFlight, Subject
        <4> QED BY <4>3 DEF MarkedIfListed
      <3>2. CASE ~\E p \in Calls : pc[p] \in {"mark", "count", "unmark"}
        BY <3>2 DEF BoardInv, MarkedIfListed
      <3> QED BY <3>1, <3>2
    <2> QED BY <2>1, <2>2, <2>3 DEF TwoKeysAgree
  <1> HIDE DEF Inv
  <1> QED BY <1>1, <1>2, <1>3, PTL DEF Spec
=============================================================================
