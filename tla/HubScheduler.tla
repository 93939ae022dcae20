---------------------------- MODULE HubScheduler ----------------------------
(***************************************************************************)
(* The scheduler goroutine: scheduler, schedulePass, snapshotGraderLoads   *)
(* and pickGrader.  A pass holds queuedMu; everything else it touches is   *)
(* guarded by locks it takes and drops one at a time, so each of those     *)
(* critical sections is a step of its own.                                 *)
(***************************************************************************)
EXTENDS HubState

graderHasTags(g, s) == RequestTags[s] \subseteq GraderTags[g]

\* Mutant: an eligibility test that is off by one at the limit.
EligibleOffByOne(s) ==
  {g \in candidates : loads[g] <= Concurrency[g] /\ graderHasTags(g, s)}

\* The candidates of this pass that have room and the tags s asks for.
Eligible(s) ==
  {g \in candidates : loads[g] < Concurrency[g] /\ graderHasTags(g, s)}

\* The least loaded of them, the lowest id among equals.
pickGrader(s) ==
  CHOOSE g \in Eligible(s) :
    \A h \in Eligible(s) : loads[g] < loads[h] \/ (loads[g] = loads[h] /\ g <= h)

\* What the scheduler never writes.
notScheduler == <<reportVars, graderVars, gradeRequestQueues, closed, streamVars,
                  monitorVars, callback, proc, workerVars, faults>>

\* Top of the loop: take queuedMu and, if anything is pending, the snapshot.
BeginPass ==
  /\ scheduler = "lock"
  /\ IF queuedList = <<>> \/ onlineGraders = {}
     THEN /\ scheduler' = "wait"
          /\ UNCHANGED <<todo, loads, candidates>>
     ELSE /\ scheduler' = "visit"
          /\ todo' = SubsOf(queuedList)
          /\ candidates' = onlineGraders
          /\ loads' = [g \in Graders |-> Cardinality(graderSubmissions[g])]
  /\ UNCHANGED <<queueVars, runningList, claimVars, requests, target, targetQueue,
                 progressed, notScheduler>>

\* Nobody can take the request at Head(todo): it stays pending.
SkipPending ==
  /\ scheduler = "visit"
  /\ todo # <<>>
  /\ Eligible(Head(todo)) = {}
  /\ todo' = Tail(todo)
  /\ UNCHANGED <<queueVars, runningList, claimVars, requests, scheduler, loads,
                 candidates, target, targetQueue, progressed, notScheduler>>

\* pickGrader counts the pick at once; a grader without an outbox is dropped
\* from the pass and the same request tries the next one.
PickGrader ==
  /\ scheduler = "visit"
  /\ todo # <<>>
  /\ Eligible(Head(todo)) # {}
  /\ LET g == pickGrader(Head(todo))
     IN  /\ loads' = [loads EXCEPT ![g] = @ + 1]
         /\ IF gradeRequestQueues[g] = 0
            THEN /\ candidates' = candidates \ {g}
                 /\ UNCHANGED <<scheduler, target, targetQueue>>
            ELSE /\ scheduler' = "run"
                 /\ target' = g
                 /\ targetQueue' = gradeRequestQueues[g]
                 /\ UNCHANGED candidates
  /\ UNCHANGED <<queueVars, runningList, claimVars, requests, todo, progressed,
                 notScheduler>>

\* runningList is set first, then the claim, then the push.
MarkRunning ==
  /\ scheduler = "run"
  /\ runningList' = runningList \cup {Head(todo)}
  /\ scheduler' = "claim"
  /\ UNCHANGED <<queueVars, claimVars, requests, todo, loads, candidates, target,
                 targetQueue, progressed, notScheduler>>

Claim ==
  /\ scheduler = "claim"
  /\ ClaimSubmission(target, Head(todo))
  /\ scheduler' = "push"
  /\ UNCHANGED <<queueVars, runningList, requests, todo, loads, candidates, target,
                 targetQueue, progressed, notScheduler>>

\* Mutant: the request stays in the pending list after its dispatch.
PushAcceptedKeepsPending ==
  /\ scheduler = "push"
  /\ Push(target, targetQueue, [sub |-> Head(todo), cancel |-> FALSE])
  /\ todo' = Tail(todo)
  /\ progressed' = TRUE
  /\ scheduler' = "visit"
  /\ target' = 0
  /\ targetQueue' = 0
  /\ UNCHANGED <<queueVars, runningList, claimVars, loads, candidates, notScheduler>>

\* The outbox takes the request: it is no longer pending.
PushAccepted ==
  /\ scheduler = "push"
  /\ LET s == Head(todo)
     IN  /\ Push(target, targetQueue, [sub |-> s, cancel |-> FALSE])
         /\ IF s \in queuedListIndex
            THEN /\ queuedList' = RemovePending(queuedList, s)
                 /\ queuedListIndex' = queuedListIndex \ {s}
            ELSE UNCHANGED <<queuedList, queuedListIndex>>
         /\ todo' = TodoAfterDispatch(todo, s, s \in queuedListIndex)
  /\ progressed' = TRUE
  /\ scheduler' = "visit"
  /\ target' = 0
  /\ targetQueue' = 0
  /\ UNCHANGED <<schedulerWake, runningList, claimVars, loads, candidates, notScheduler>>

\* The outbox was closed since it was looked up.
PushRefused ==
  /\ scheduler = "push"
  /\ closed[target][targetQueue]
  /\ scheduler' = "undoRunning"
  /\ UNCHANGED <<queueVars, runningList, claimVars, requests, todo, loads, candidates,
                 target, targetQueue, progressed, notScheduler>>

UndoRunning ==
  /\ scheduler = "undoRunning"
  /\ runningList' = runningList \ {Head(todo)}
  /\ scheduler' = "undoClaim"
  /\ UNCHANGED <<queueVars, claimVars, requests, todo, loads, candidates, target,
                 targetQueue, progressed, notScheduler>>

\* The claim is undone and the same request tries the next grader.
UndoClaim ==
  /\ scheduler = "undoClaim"
  /\ ReleaseSubmission(Head(todo))
  /\ candidates' = candidates \ {target}
  /\ scheduler' = "visit"
  /\ target' = 0
  /\ targetQueue' = 0
  /\ UNCHANGED <<queueVars, runningList, requests, todo, loads, progressed, notScheduler>>

\* A pass that dispatched something is followed by another one at once.  The
\* variables local to schedulePass go out of scope.
EndPass ==
  /\ scheduler = "visit"
  /\ todo = <<>>
  /\ scheduler' = IF progressed THEN "lock" ELSE "wait"
  /\ loads' = [g \in Graders |-> 0]
  /\ candidates' = {}
  /\ progressed' = FALSE
  /\ UNCHANGED <<queueVars, runningList, claimVars, requests, todo, target, targetQueue,
                 notScheduler>>

AwaitWake ==
  /\ scheduler = "wait"
  /\ schedulerWake
  /\ schedulerWake' = FALSE
  /\ scheduler' = "lock"
  /\ UNCHANGED <<queuedList, queuedListIndex, runningList, claimVars, requests, todo,
                 loads, candidates, target, targetQueue, progressed, notScheduler>>

SchedulerNext ==
  \/ BeginPass \/ SkipPending \/ PickGrader \/ MarkRunning \/ Claim
  \/ PushAccepted \/ PushRefused \/ UndoRunning \/ UndoClaim \/ EndPass \/ AwaitWake
=============================================================================
