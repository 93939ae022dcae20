---------------------------- MODULE PendingList ----------------------------
(***************************************************************************)
(* The hub's list of pending grade requests, as operators on sequences.    *)
(*                                                                         *)
(* queuedList is a linked list of PendingRequest{rank, request} and        *)
(* queuedListIndex maps a submission to the element that was pushed for it *)
(* LAST: a second push of the same submission overwrites the entry, so the *)
(* earlier element stays in the list but can no longer be found.  An index *)
(* entry therefore always denotes the last element of its submission, and  *)
(* the index is represented by the set of submissions that have an entry.  *)
(***************************************************************************)
EXTENDS Integers, Sequences

\* A PendingRequest; the request's payload is identified with its submission.
PendingRequest(s, rank) == [sub |-> s, rank |-> rank]

\* The submissions of the elements of a pending list, front to back.
SubsOf(list) == [i \in 1..Len(list) |-> list[i].sub]

\* pushPendingGradeQueue: the new element's rank is the new length.
PushBack(list, s) == Append(list, PendingRequest(s, Len(list) + 1))

\* The last position of s in a sequence of submissions.
LastIndex(subs, s) ==
  CHOOSE i \in 1..Len(subs) :
    /\ subs[i] = s
    /\ \A j \in 1..Len(subs) : subs[j] = s => j <= i

\* list.Remove on position i of any sequence.
Unlink(seq, i) == [k \in 1..(Len(seq) - 1) |-> IF k < i THEN seq[k] ELSE seq[k + 1]]

\* Mutant: a removal that forgets to move up the elements behind the removed one.
RemovePendingKeepsRanks(list, s) == Unlink(list, LastIndex(SubsOf(list), s))

\* removePendingGradeRequest: every element behind the removed one moves up.
RemovePending(list, s) ==
  LET i == LastIndex(SubsOf(list), s)
  IN  [k \in 1..(Len(list) - 1) |->
         IF k < i THEN list[k] ELSE PendingRequest(list[k + 1].sub, list[k + 1].rank - 1)]

(***************************************************************************)
(* What a scheduling pass still has to visit once it has dispatched        *)
(* Head(todo) = s and called removePendingGradeRequest(s).  The loop of    *)
(* schedulePass advances cur BEFORE it dispatches.  Normally the removed   *)
(* element is the one just left behind; with a duplicate it lies further   *)
(* ahead, and if it is the very element cur points to, that element is     *)
(* visited although it is no longer in the list, and its Next is nil.      *)
(***************************************************************************)
TodoAfterDispatch(todo, s, indexed) ==
  LET rest  == Tail(todo)
      ahead == \E i \in 1..Len(rest) : rest[i] = s
  IN  IF ~indexed \/ ~ahead        THEN rest
      ELSE IF LastIndex(rest, s) = 1 THEN <<s>>
      ELSE Unlink(rest, LastIndex(rest, s))
=============================================================================
