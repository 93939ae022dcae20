----------------------------- MODULE HubClients -----------------------------
(***************************************************************************)
(* The goroutines of the web service that act on the hub: runSubmission,   *)
(* which every created submission gets (and every unfinished one after a   *)
(* restart), and the callers of CancelGrade and regradeSubmission.  A      *)
(* caller makes one call.                                                  *)
(***************************************************************************)
EXTENDS HubState

\* What no caller writes.
notClients == <<graderVars, gradeRequestQueues, closed, streamVars, passVars,
                monitorVars, callback, workerVars, faults>>

Goto(p, pc) == proc' = [proc EXCEPT ![p].pc = pc]

\* CreateSubmission persists the submission and its queued brief report and
\* starts runSubmission, which has not yet set the unfinished marker.
CreateSubmission(s) ==
  /\ brief[s] = "None"
  /\ SetBrief(s, "Queued")
  /\ Goto(s, "mark")
  /\ UNCHANGED <<queueVars, runningList, claimVars, unfinished, requests, notClients>>

\* CancelSubmission calls CancelGrade whatever state the submission is in.
CancelSubmission(p, s) ==
  /\ "cancel" \in Operations
  /\ proc[p].pc = "idle"
  /\ brief[s] # "None"
  /\ proc' = [proc EXCEPT ![p] = [@ EXCEPT !.pc = "cancel", !.sub = s, !.then = "done"]]
  /\ UNCHANGED <<queueVars, runningList, claimVars, reportVars, requests, notClients>>

\* Mutant: the call loses the id of the submission it is about.
RegradeForgetsSubmission(p, s) ==
  /\ "regrade" \in Operations
  /\ proc[p].pc = "idle"
  /\ brief[s] # "None"
  /\ proc' = [proc EXCEPT ![p] = [@ EXCEPT !.pc = "mark", !.then = "mark"]]
  /\ UNCHANGED <<queueVars, runningList, claimVars, reportVars, requests, notClients>>

\* regradeSubmission calls it for one that is queued or running, then
\* runSubmission.
RegradeSubmission(p, s) ==
  /\ "regrade" \in Operations
  /\ proc[p].pc = "idle"
  /\ brief[s] # "None"
  /\ LET first == IF brief[s] \in {"Queued", "Running"} THEN "cancel" ELSE "mark"
     IN  proc' = [proc EXCEPT ![p] = [@ EXCEPT !.pc = first, !.sub = s, !.then = "mark"]]
  /\ UNCHANGED <<queueVars, runningList, claimVars, reportVars, requests, notClients>>

-----------------------------------------------------------------------------
(* runSubmission, EnqueueGrade and queueGradeRequest *)

RunMark(p) ==
  /\ proc[p].pc = "mark"
  /\ unfinished' = unfinished \cup {proc[p].sub}
  /\ SetBrief(proc[p].sub, "Queued")
  /\ Goto(p, "push")
  /\ UNCHANGED <<queueVars, runningList, claimVars, requests, notClients>>

RunPush(p) ==
  /\ proc[p].pc = "push"
  /\ PushPending(proc[p].sub)
  /\ Goto(p, "queued")
  /\ UNCHANGED <<runningList, claimVars, reportVars, requests, notClients>>

RunQueued(p) ==
  /\ proc[p].pc = "queued"
  /\ SetBrief(proc[p].sub, "Queued")
  /\ Goto(p, "done")
  /\ UNCHANGED <<queueVars, runningList, claimVars, unfinished, requests, notClients>>

-----------------------------------------------------------------------------
(* CancelGrade *)

\* Mutant: the element is unlinked, its index entry stays.
CancelPendingKeepsIndex(p) ==
  /\ proc[p].pc = "cancel"
  /\ QueuedMuFree
  /\ proc[p].sub \in queuedListIndex
  /\ queuedList' = RemovePending(queuedList, proc[p].sub)
  /\ Goto(p, "cancelled")
  /\ UNCHANGED <<queuedListIndex, schedulerWake, runningList, claimVars, reportVars,
                 requests, notClients>>

\* A pending submission is taken off the list under queuedMu.
CancelPending(p) ==
  /\ proc[p].pc = "cancel"
  /\ QueuedMuFree
  /\ IF proc[p].sub \in queuedListIndex
     THEN /\ queuedList' = RemovePending(queuedList, proc[p].sub)
          /\ queuedListIndex' = queuedListIndex \ {proc[p].sub}
          /\ Goto(p, "cancelled")
     ELSE /\ UNCHANGED <<queuedList, queuedListIndex>>
          /\ Goto(p, "owner")
  /\ UNCHANGED <<schedulerWake, runningList, claimVars, reportVars, requests, notClients>>

\* Otherwise look up the claim, and the outbox of the grader that holds it.
CancelOwner(p) ==
  /\ proc[p].pc = "owner"
  /\ LET g == submissionGrader[proc[p].sub]
     IN  IF g = 0 THEN Goto(p, "cancelled")
         ELSE IF gradeRequestQueues[g] = 0 THEN Goto(p, "cancelled")
         ELSE proc' = [proc EXCEPT ![p] = [@ EXCEPT !.pc = "send", !.grader = g,
                                                    !.queue = gradeRequestQueues[g]]]
  /\ UNCHANGED <<queueVars, runningList, claimVars, reportVars, requests, notClients>>

\* Ask that grader to stop; a closed outbox means it is unreachable.
CancelSend(p) ==
  /\ proc[p].pc = "send"
  /\ LET g == proc[p].grader  n == proc[p].queue
         next == [proc[p] EXCEPT !.grader = 0, !.queue = 0]
     IN  \/ /\ Push(g, n, [sub |-> proc[p].sub, cancel |-> TRUE])
            /\ proc' = [proc EXCEPT ![p] = [next EXCEPT !.pc = "cancelling"]]
         \/ /\ closed[g][n]
            /\ proc' = [proc EXCEPT ![p] = [next EXCEPT !.pc = "cancelled"]]
            /\ UNCHANGED requests
  /\ UNCHANGED <<queueVars, runningList, claimVars, reportVars, notClients>>

\* onSubmissionCancelling, after the request was pushed.
CancelCancelling(p) ==
  /\ proc[p].pc = "cancelling"
  /\ SetBrief(proc[p].sub, "Cancelling")
  /\ Goto(p, proc[p].then)
  /\ UNCHANGED <<queueVars, runningList, claimVars, unfinished, requests, notClients>>

\* onSubmissionCancelled: the brief report, then onSubmissionFinished.
CancelCancelled(p) ==
  /\ proc[p].pc = "cancelled"
  /\ SetBrief(proc[p].sub, "Cancelled")
  /\ Goto(p, "finish")
  /\ UNCHANGED <<queueVars, runningList, claimVars, unfinished, requests, notClients>>

CancelFinish(p) ==
  /\ proc[p].pc = "finish"
  /\ unfinished' = unfinished \ {proc[p].sub}
  /\ Goto(p, "release")
  /\ UNCHANGED <<queueVars, runningList, claimVars, brief, requests, notClients>>

CancelRelease(p) ==
  /\ proc[p].pc = "release"
  /\ ReleaseSubmission(proc[p].sub)
  /\ Goto(p, "drop")
  /\ UNCHANGED <<queueVars, runningList, reportVars, requests, notClients>>

CancelDrop(p) ==
  /\ proc[p].pc = "drop"
  /\ FinishDrop(proc[p].sub)
  /\ Goto(p, proc[p].then)
  /\ UNCHANGED <<queuedList, queuedListIndex, claimVars, reportVars, requests, notClients>>

\* The steps of a call that has begun.
ProcNext(p) ==
  \/ RunMark(p) \/ RunPush(p) \/ RunQueued(p)
  \/ CancelPending(p) \/ CancelOwner(p) \/ CancelSend(p) \/ CancelCancelling(p)
  \/ CancelCancelled(p) \/ CancelFinish(p) \/ CancelRelease(p) \/ CancelDrop(p)
=============================================================================
