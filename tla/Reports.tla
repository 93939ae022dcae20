------------------------------ MODULE Reports ------------------------------
(***************************************************************************)
(* Grade reports as the subscribers of a submission see them.              *)
(*                                                                         *)
(* brief stands for the brief report's status and score: how far the       *)
(* submission has come, from 1 (Queued) to Final (Finished, Failed or      *)
(* Cancelled).  rank is the position in the pending list.  0 is an unset   *)
(* field (nil).  Report and DockerMetadata are merged like these two and   *)
(* never reach the client.                                                 *)
(***************************************************************************)
EXTENDS Naturals

CONSTANTS
  Final,     \* the last brief report; 1 is Queued, what lies between is Running
  MaxRank    \* bound: the position at which the submission is queued

ASSUME ReportsAssumption == Final \in Nat /\ Final >= 2 /\ MaxRank \in Nat

GradeReport == [brief : 0..Final, rank : 0..MaxRank]
NoReport    == [brief |-> 0, rank |-> 0]
BriefReport(b) == [brief |-> b, rank |-> 0]
RankReport(r)  == [brief |-> 0, rank |-> r]

\* Every field of newer, falling back to older for the fields newer leaves unset.
coalesceReports(older, newer) ==
  [brief |-> IF newer.brief # 0 THEN newer.brief ELSE older.brief,
   rank  |-> IF newer.rank  # 0 THEN newer.rank  ELSE older.rank]
=============================================================================
