---------------------------- MODULE Leaderboards ----------------------------
(***************************************************************************)
(* The calls of AutograderService about a leaderboard.  An entry and the   *)
(* key that says that the assignment has a leaderboard are separate keys;  *)
(* the key goes when the last entry has gone.                              *)
(***************************************************************************)
EXTENDS UserRepository

notBoard == <<userVars, codeVars, courses, joinKey, memberVars, adminTokens, updateMu, restarts>>

\* ActivateSubmission: a user puts a submission whose report has leaderboard
\* items on the leaderboard.
ActivateSubmission(p) ==
  /\ \E u \in 1..Len(users) :
       /\ userCourses[u][1] # "none"
       /\ Begin(p, "entry", [NoOp EXCEPT !.kind = "activate", !.user = u])
  /\ UNCHANGED <<boardVars, notBoard>>

\* UpdateLeaderboardEntry: the entry, ...
UpdateEntry(p) ==
  /\ At(p, "entry")
  /\ entries' = entries \cup {op[p].user}
  /\ Goto(p, "mark", op[p])
  /\ UNCHANGED <<marker, calls, notBoard>>

\* ... then the key.
MarkBoard(p) ==
  /\ At(p, "mark")
  /\ marker' = TRUE
  /\ End(p)
  /\ UNCHANGED <<entries, calls, notBoard>>

\* DeleteLeaderboard, by staff of the course
DeleteLeaderboard(p) ==
  /\ \E u \in 1..Len(users), v \in 1..Len(users) :
       /\ userCourses[v][1] = "Instructor"
       /\ Begin(p, "unentry", [NoOp EXCEPT !.kind = "unlist", !.user = u])
  /\ UNCHANGED <<boardVars, notBoard>>

\* DeleteLeaderboardEntry: the entry is deleted, ...
DeleteEntry(p) ==
  /\ At(p, "unentry")
  /\ entries' = entries \ {op[p].user}
  /\ Goto(p, "count", op[p])
  /\ UNCHANGED <<marker, calls, notBoard>>

\* Mutant: the count is off by one.
CountEntriesOne(p) ==
  /\ At(p, "count")
  /\ IF Cardinality(entries) <= 1 THEN Goto(p, "unmark", op[p]) ELSE End(p)
  /\ UNCHANGED <<boardVars, calls, notBoard>>

\* ... the others are counted, ...
CountEntries(p) ==
  /\ At(p, "count")
  /\ IF entries = {} THEN Goto(p, "unmark", op[p]) ELSE End(p)
  /\ UNCHANGED <<boardVars, calls, notBoard>>

\* ... and the key goes with the last.
UnmarkBoard(p) ==
  /\ At(p, "unmark")
  /\ marker' = FALSE
  /\ End(p)
  /\ UNCHANGED <<entries, calls, notBoard>>

LeaderboardNext ==
  \/ \E p \in Ready : ActivateSubmission(p) \/ DeleteLeaderboard(p)
  \/ \E p \in Calls :
       UpdateEntry(p) \/ MarkBoard(p) \/ DeleteEntry(p) \/ CountEntries(p) \/ UnmarkBoard(p)
=============================================================================
