------------------------------ MODULE Accounts ------------------------------
(***************************************************************************)
(* The calls of AutograderService about accounts: sign-up, password reset, *)
(* login, GitHub, and the updates of a user.  A call that is refused       *)
(* without having changed anything is not a step.  Every user is taken to  *)
(* be logged in, as an administrator only with a token that says so.       *)
(***************************************************************************)
EXTENDS UserRepository

notCodes == <<userVars, codeVars, courseVars, memberVars, adminTokens, updateMu, restarts>>

\* validateUsernameAndEmail
Available(n, e) == emailKey[e] = 0 /\ nameKey[n] = 0

RequestSignUpToken ==
  /\ "signup" \in Operations
  /\ \E n \in Usernames, e \in Emails : Available(n, e) /\ Issue("sign_up", e)

RequestPasswordReset ==
  /\ "reset" \in Operations
  /\ \E e \in Emails : emailKey[e] # 0 /\ Issue("password_reset", e)

\* Validate reads the code of o's address: it must be the one the client gives.
ValidateBegin(p, o) ==
  \E n \in {code[o.type][o.email]} \ {0} :
    /\ Begin(p, "delete", [o EXCEPT !.code = n,
                                    !.value = IF <<o.type, o.email>> \in expired THEN "expired" ELSE @])
    /\ UNCHANGED notCodes

SignUp(p) ==
  \E n \in Usernames, e \in Emails, v \in {"long", "short"} :
    ValidateBegin(p, [NoOp EXCEPT !.kind = "signup", !.type = "sign_up", !.name = n,
                                  !.email = e, !.value = v])

ResetPassword(p) ==
  \E e \in Emails, v \in {"new", "short"} :
    ValidateBegin(p, [NoOp EXCEPT !.kind = "reset", !.type = "password_reset", !.email = e,
                                  !.value = v])

\* ResetPassword looks the user up; a password that is too short ends the call
\* after the code was spent.
ResetLookup(p) ==
  /\ At(p, "lookup")
  /\ LET u == emailKey[op[p].email] IN
       IF u = 0 \/ op[p].value = "short" THEN End(p)
       ELSE Goto(p, "read", [op[p] EXCEPT !.user = u])
  /\ UNCHANGED <<calls, notCodes>>

\* signUpNewUser: the name and the address must be free, ...
SignUpValidate(p) ==
  /\ At(p, "validate")
  /\ IF op[p].value # "short" /\ Available(op[p].name, op[p].email)
     THEN Goto(p, "create", op[p])
     ELSE End(p)
  /\ UNCHANGED <<calls, notCodes>>

\* Mutant: the new id is taken for the user's, also where the name was taken.
SignUpCreateCounts(p) ==
  /\ At(p, "create")
  /\ CreateUser(op[p].name, op[p].email, IF op[p].kind = "signup" THEN "old" ELSE "none")
  /\ IF op[p].kind = "github" THEN Goto(p, "read", [op[p] EXCEPT !.user = Len(users) + 1]) ELSE End(p)
  /\ UNCHANGED <<githubKey, codeVars, courseVars, memberVars, adminTokens, updateMu, calls, restarts>>

\* ... then the user is created.  Where the name was taken meanwhile the call
\* goes on with the user who has it.
SignUpCreate(p) ==
  /\ At(p, "create")
  /\ CreateUser(op[p].name, op[p].email, IF op[p].kind = "signup" THEN "old" ELSE "none")
  /\ IF op[p].kind = "github" THEN Goto(p, "read", [op[p] EXCEPT !.user = nameKey'[op[p].name]])
     ELSE End(p)
  /\ UNCHANGED <<githubKey, codeVars, courseVars, memberVars, adminTokens, updateMu, calls, restarts>>

Login(u) ==
  /\ users[u].password # "none"
  /\ u \notin adminTokens
  /\ users[u].admin
  /\ SignLoginToken(u, TRUE)
  /\ UNCHANGED <<userVars, codeVars, courseVars, memberVars, callVars>>

-----------------------------------------------------------------------------
(* GitHub *)

\* A known login: the user is signed in.
GithubLoginKnown(l) ==
  /\ githubKey[l] # 0
  /\ users[githubKey[l]].admin /\ githubKey[l] \notin adminTokens
  /\ SignLoginToken(githubKey[l], TRUE)
  /\ UNCHANGED <<userVars, codeVars, courseVars, memberVars, callVars>>

\* An unknown login with a verified address: the user of that address is bound
\* to it, or a new user is signed up under the login's name.
GithubLogin(p) ==
  \E l \in Logins, e \in Emails :
    LET u == emailKey[e]
        o == [NoOp EXCEPT !.kind = "github", !.login = l, !.email = e, !.name = l, !.user = u,
                          !.old = IF u # 0 /\ users[u].admin THEN "yes" ELSE @] IN
      /\ githubKey[l] = 0
      /\ u # 0 => users[u].github \in {"none", l}
      /\ Begin(p, IF u # 0 THEN "read" ELSE "validate", o)
      /\ UNCHANGED notCodes

BindGithub(p) ==
  \E u \in 1..Len(users), l \in Logins :
    /\ githubKey[l] = 0
    /\ Begin(p, "read", [NoOp EXCEPT !.kind = "bind", !.user = u, !.login = l])
    /\ UNCHANGED notCodes

UnbindGithub(p) ==
  \E u \in 1..Len(users) :
    /\ Begin(p, "read", [NoOp EXCEPT !.kind = "unbind", !.user = u])
    /\ UNCHANGED notCodes

-----------------------------------------------------------------------------
(* Updates of a user *)

UpdateUser(p) ==
  \E u \in 1..Len(users) :
    /\ Begin(p, "read", [NoOp EXCEPT !.kind = "nickname", !.user = u, !.value = "second"])
    /\ UNCHANGED notCodes

UpdatePassword(p) ==
  \E u \in 1..Len(users) :
    /\ Begin(p, "read", [NoOp EXCEPT !.kind = "password", !.user = u, !.old = "old", !.value = "new"])
    /\ UNCHANGED notCodes

\* SetAdmin: not oneself and not the root user.
SetAdmin(p) ==
  \E a \in adminTokens, u \in 1..Len(users), v \in {"yes", "no"} :
    /\ u # a /\ u # Root
    /\ Begin(p, "read", [NoOp EXCEPT !.kind = "admin", !.user = u, !.value = v])
    /\ UNCHANGED notCodes

AccountNext ==
  \/ RequestSignUpToken \/ RequestPasswordReset \/ Expire \/ CollectCodes \/ CollectKey
  \/ \E u \in 1..Len(users) : Login(u)
  \/ \E l \in Logins : GithubLoginKnown(l)
  \/ \E p \in Ready :
       \/ SignUp(p) \/ ResetPassword(p) \/ GithubLogin(p) \/ BindGithub(p) \/ UnbindGithub(p)
       \/ UpdateUser(p) \/ UpdatePassword(p) \/ SetAdmin(p)
  \/ \E p \in Calls :
       \/ ValidateDelete(p) \/ ResetLookup(p) \/ SignUpValidate(p) \/ SignUpCreate(p)
       \/ ReadUser(p) \/ WriteUser(p) \/ BindIndex(p) \/ UnbindIndex(p)
=============================================================================
