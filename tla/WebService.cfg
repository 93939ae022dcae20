CONSTANTS
  Calls = {p1, p2}
  Usernames = {"root", "ann", "bob"}
  Emails = {"r", "a", "b"}
  Logins = {"bob"}
  RootName = "root"
  RootEmail = "r"
  MemberName = "ann"
  MemberEmail = "a"
  Operations = {"signup", "reset", "github", "bind", "unbind", "nickname", "password", "admin", "create", "join", "add", "member", "remove", "rename", "allow", "forbid", "generate", "activate", "unlist"}
  MaxCalls = 2
  MaxCodes = 2
  MaxRestarts = 1
SPECIFICATION Spec
SYMMETRY Symmetry
INVARIANTS
  TypeOK
  NamesUnique
  NoLostUpdate
  
  TwoKeysAgree
  JoinCodeResolves
CHECK_DEADLOCK FALSE
