----------------------------- MODULE HubMonitor -----------------------------
(***************************************************************************)
(* Registration, heartbeat streams and the monitor goroutine of each       *)
(* grader: RegisterGrader, GraderHeartbeat, graderRequestSendLoop,         *)
(* graderMonitor and onGraderOffline.  Stream n of grader g is the n-th    *)
(* GraderHeartbeat call of g; its outbox carries the same number.          *)
(***************************************************************************)
EXTENDS HubState

\* What none of these goroutines writes.
notMonitor == <<passVars, callback, proc, unfinished>>

-----------------------------------------------------------------------------
(* The grader's side of registration and of the stream (WorkLoop) *)

\* A record that says Online only yields to the holder of its session token.
RegisterGrader(g) ==
  /\ worker[g] = "register"
  /\ status[g] = "Online" => session[g]
  /\ status' = [status EXCEPT ![g] = "Online"]
  /\ onlineGraders' = onlineGraders \cup {g}
  /\ session' = [session EXCEPT ![g] = TRUE]
  /\ worker' = [worker EXCEPT ![g] = "open"]
  /\ UNCHANGED <<queueVars, runningList, claimVars, brief, outboxVars, streamVars,
                 monitorVars, jobs, faults, notMonitor>>

\* Mutant: a new stream does not wake the scheduler.
GraderHeartbeatSilently(g, n) ==
  /\ worker[g] = "open"
  /\ session[g]
  /\ handler[g][n] = "new"
  /\ \A m \in Streams : m < n => handler[g][m] # "new"
  /\ handler' = [handler EXCEPT ![g][n] = "recv"]
  /\ linkUp' = [linkUp EXCEPT ![g][n] = TRUE]
  /\ sendLoop' = [sendLoop EXCEPT ![g][n] = TRUE]
  /\ gradeRequestQueues' = [gradeRequestQueues EXCEPT ![g] = n]
  /\ monitor' = [monitor EXCEPT ![g] = IF @ = "none" THEN "idle" ELSE @]
  /\ worker' = [worker EXCEPT ![g] = "stream"]
  /\ UNCHANGED <<queueVars, runningList, claimVars, brief, graderVars,
                 requests, closed, monQueue, monSubs, monRequeue, monCur, monFinal, jobs,
                 faults, notMonitor>>

\* A new GraderHeartbeat call: its outbox replaces the one in the map (which is
\* not closed), its send loop starts, and the monitor if there is none yet.
GraderHeartbeat(g, n) ==
  /\ worker[g] = "open"
  /\ session[g]
  /\ handler[g][n] = "new"
  /\ \A m \in Streams : m < n => handler[g][m] # "new"
  /\ handler' = [handler EXCEPT ![g][n] = "recv"]
  /\ linkUp' = [linkUp EXCEPT ![g][n] = TRUE]
  /\ sendLoop' = [sendLoop EXCEPT ![g][n] = TRUE]
  /\ gradeRequestQueues' = [gradeRequestQueues EXCEPT ![g] = n]
  /\ schedulerWake' = TRUE
  /\ monitor' = [monitor EXCEPT ![g] = IF @ = "none" THEN "idle" ELSE @]
  /\ worker' = [worker EXCEPT ![g] = "stream"]
  /\ UNCHANGED <<queuedList, queuedListIndex, runningList, claimVars, brief, graderVars,
                 requests, closed, monQueue, monSubs, monRequeue, monCur, monFinal, jobs,
                 faults, notMonitor>>

\* The worker's Recv fails, or its session is refused: it registers again.
Reconnect(g) ==
  /\ \/ worker[g] = "stream" /\ \A n \in Streams : ~linkUp[g][n]
     \/ worker[g] = "open" /\ ~session[g]
  /\ worker' = [worker EXCEPT ![g] = "register"]
  /\ UNCHANGED <<queueVars, runningList, claimVars, brief, graderVars, outboxVars,
                 streamVars, monitorVars, jobs, faults, notMonitor>>

-----------------------------------------------------------------------------
(* The read loop of a stream *)

\* A heartbeat of a grader that is not online ends the call; nothing is sent
\* to the monitor and the outbox stays where it is, open.
HeartbeatNotRegistered(g, n) ==
  /\ handler[g][n] = "recv"
  /\ linkUp[g][n]
  /\ g \notin onlineGraders
  /\ handler' = [handler EXCEPT ![g][n] = "done"]
  /\ linkUp' = [linkUp EXCEPT ![g][n] = FALSE]
  /\ UNCHANGED <<queueVars, runningList, claimVars, brief, graderVars, outboxVars,
                 sendLoop, monitorVars, workerVars, faults, notMonitor>>

\* Otherwise it is offered to the monitor on an unbuffered channel.
HeartbeatReceived(g, n) ==
  /\ handler[g][n] = "recv"
  /\ linkUp[g][n]
  /\ g \in onlineGraders
  /\ handler' = [handler EXCEPT ![g][n] = "beat"]
  /\ UNCHANGED <<queueVars, runningList, claimVars, brief, graderVars, outboxVars,
                 linkUp, sendLoop, monitorVars, workerVars, faults, notMonitor>>

\* RecvMsg fails: a goroutine is left behind that will send nil.
RecvError(g, n) ==
  /\ handler[g][n] = "recv"
  /\ ~linkUp[g][n]
  /\ handler' = [handler EXCEPT ![g][n] = "nil"]
  /\ UNCHANGED <<queueVars, runningList, claimVars, brief, graderVars, outboxVars,
                 linkUp, sendLoop, monitorVars, workerVars, faults, notMonitor>>

-----------------------------------------------------------------------------
(* The send loop of a stream *)

\* What the worker makes of the requests ops for a submission it has in state
\* old.  A grade request starts a job.  A cancel finds the job only once its
\* goroutine has registered itself (heard); otherwise it is ignored.
JobAfter(old, ops, heard) ==
  LET started == IF \E i \in 1..Len(ops) : ~ops[i].cancel THEN "active" ELSE old
  IN  CASE ops = <<>>               -> old
        [] ~ops[Len(ops)].cancel    -> "active"
        [] started # "none" /\ heard -> "stopping"
        [] OTHER                    -> started

\* The requests of a batch that are about s, in order.
RequestsFor(s, batch) == LET Mine(r) == r.sub = s IN SelectSeq(batch, Mine)

\* WaitAndDrain and Send: the whole batch reaches the worker ...
SendRequests(g, n) ==
  /\ sendLoop[g][n]
  /\ requests[g][n] # <<>>
  /\ linkUp[g][n]
  /\ \E heard \in SUBSET Submissions :
       jobs' = [jobs EXCEPT ![g] = [s \in Submissions |->
                 JobAfter(@[s], RequestsFor(s, requests[g][n]), s \in heard)]]
  /\ requests' = [requests EXCEPT ![g][n] = <<>>]
  /\ UNCHANGED <<queueVars, runningList, claimVars, brief, graderVars,
                 gradeRequestQueues, closed, streamVars, monitorVars, worker, faults,
                 notMonitor>>

\* ... or the connection is gone and the batch is lost.  Send need not notice;
\* if it does, the loop ends.
SendFails(g, n) ==
  /\ sendLoop[g][n]
  /\ requests[g][n] # <<>>
  /\ ~linkUp[g][n]
  /\ requests' = [requests EXCEPT ![g][n] = <<>>]
  /\ \E noticed \in BOOLEAN : sendLoop' = [sendLoop EXCEPT ![g][n] = ~noticed]
  /\ UNCHANGED <<queueVars, runningList, claimVars, brief, graderVars,
                 gradeRequestQueues, closed, handler, linkUp, monitorVars, workerVars,
                 faults, notMonitor>>

-----------------------------------------------------------------------------
(* graderMonitor *)

\* A heartbeat: the grader is online, unless the heartbeat is older than the
\* last one recorded (expired).
MonitorBeat(g, n) ==
  /\ monitor[g] = "idle"
  /\ handler[g][n] = "beat"
  /\ handler' = [handler EXCEPT ![g][n] = "recv"]
  /\ \E expired \in BOOLEAN :
       IF expired
       THEN UNCHANGED <<status, onlineGraders>>
       ELSE /\ status' = [status EXCEPT ![g] = "Online"]
            /\ onlineGraders' = onlineGraders \cup {g}
  /\ UNCHANGED <<queueVars, runningList, claimVars, brief, session, outboxVars, linkUp,
                 sendLoop, monitorVars, workerVars, faults, notMonitor>>

\* nil: the stream ended; onGraderOffline begins, and Offline is recorded when
\* it is done.
MonitorStreamEnded(g, n) ==
  /\ monitor[g] = "idle"
  /\ handler[g][n] = "nil"
  /\ handler' = [handler EXCEPT ![g][n] = "done"]
  /\ onlineGraders' = onlineGraders \ {g}
  /\ monitor' = [monitor EXCEPT ![g] = "take"]
  /\ monFinal' = [monFinal EXCEPT ![g] = "Offline"]
  /\ UNCHANGED <<queueVars, runningList, claimVars, brief, status, session, outboxVars,
                 linkUp, sendLoop, monQueue, monSubs, monRequeue, monCur, workerVars,
                 faults, notMonitor>>

\* No heartbeat within the timeout.  Online becomes Unknown and onGraderOffline
\* begins; Unknown becomes Offline the same way once the grace period is over
\* and is written back otherwise; Offline stays, without onGraderOffline.
MonitorTimeout(g) ==
  /\ Fault("timeout")
  /\ monitor[g] = "idle"
  /\ onlineGraders' = onlineGraders \ {g}
  /\ \/ /\ status[g] = "Online"
        /\ status' = [status EXCEPT ![g] = "Unknown"]
        /\ monitor' = [monitor EXCEPT ![g] = "offline"]
        /\ monFinal' = [monFinal EXCEPT ![g] = "None"]
     \/ /\ status[g] = "Unknown"
        /\ monitor' = [monitor EXCEPT ![g] = "offline"]
        /\ monFinal' = [monFinal EXCEPT ![g] = "Offline"]
        /\ UNCHANGED status
     \/ /\ status[g] = "Unknown"
        /\ monitor' = [monitor EXCEPT ![g] = "writeback"]
        /\ UNCHANGED <<status, monFinal>>
     \/ /\ status[g] = "Offline"
        /\ UNCHANGED <<status, monitor, monFinal>>
  /\ UNCHANGED <<queueVars, runningList, claimVars, brief, session, outboxVars,
                 streamVars, monQueue, monSubs, monRequeue, monCur, workerVars,
                 notMonitor>>

\* The record read before the grace period was checked is written back.
MonitorWriteBack(g) ==
  /\ monitor[g] = "writeback"
  /\ status' = [status EXCEPT ![g] = "Unknown"]
  /\ monitor' = [monitor EXCEPT ![g] = "idle"]
  /\ UNCHANGED <<queueVars, runningList, claimVars, brief, onlineGraders, session,
                 outboxVars, streamVars, monQueue, monSubs, monRequeue, monCur, monFinal,
                 workerVars, faults, notMonitor>>

-----------------------------------------------------------------------------
(* onGraderOffline *)

OfflineBegin(g) ==
  /\ monitor[g] = "offline"
  /\ onlineGraders' = onlineGraders \ {g}
  /\ monitor' = [monitor EXCEPT ![g] = "take"]
  /\ UNCHANGED <<queueVars, runningList, claimVars, brief, status, session, outboxVars,
                 streamVars, monQueue, monSubs, monRequeue, monCur, monFinal, workerVars,
                 faults, notMonitor>>

\* The outbox leaves the map ...
OfflineTake(g) ==
  /\ monitor[g] = "take"
  /\ monQueue' = [monQueue EXCEPT ![g] = gradeRequestQueues[g]]
  /\ gradeRequestQueues' = [gradeRequestQueues EXCEPT ![g] = 0]
  /\ monitor' = [monitor EXCEPT ![g] = "claims"]
  /\ UNCHANGED <<queueVars, runningList, claimVars, brief, graderVars, requests, closed,
                 streamVars, monSubs, monRequeue, monCur, monFinal, workerVars, faults,
                 notMonitor>>

\* ... and then the claims of g are read.
OfflineClaims(g) ==
  /\ monitor[g] = "claims"
  /\ monSubs' = [monSubs EXCEPT ![g] = graderSubmissions[g]]
  /\ monitor' = [monitor EXCEPT ![g] = "collect"]
  /\ UNCHANGED <<queueVars, runningList, claimVars, brief, graderVars, outboxVars,
                 streamVars, monQueue, monRequeue, monCur, monFinal, workerVars, faults,
                 notMonitor>>

\* The grade requests (not the cancels) still in the outbox taken from the map.
Undelivered(g) ==
  IF monQueue[g] = 0 THEN {}
  ELSE {requests[g][monQueue[g]][i].sub :
          i \in {j \in 1..Len(requests[g][monQueue[g]]) : ~requests[g][monQueue[g]][j].cancel}}

\* Mutant: a collection that closes the outbox but does not drain it.
OfflineCollectNoDrain(g) ==
  /\ monitor[g] = "collect"
  /\ LET inFlight == monSubs[g] \cap runningList
     IN  /\ monRequeue' = [monRequeue EXCEPT ![g] = inFlight]
         /\ runningList' = runningList \ (inFlight \cup Undelivered(g))
  /\ IF monQueue[g] = 0
     THEN UNCHANGED <<requests, closed, sendLoop>>
     ELSE /\ requests' = [requests EXCEPT ![g][monQueue[g]] = <<>>]
          /\ closed' = [closed EXCEPT ![g][monQueue[g]] = TRUE]
          /\ sendLoop' = [sendLoop EXCEPT ![g][monQueue[g]] = FALSE]
  /\ monQueue' = [monQueue EXCEPT ![g] = 0]
  /\ monitor' = [monitor EXCEPT ![g] = "release"]
  /\ UNCHANGED <<queueVars, claimVars, brief, graderVars, gradeRequestQueues, handler,
                 linkUp, monSubs, monCur, monFinal, workerVars, faults, notMonitor>>

\* Under runningMu: what was running or undelivered moves to the requeue list,
\* and the outbox is closed and emptied, which ends its send loop.
OfflineCollect(g) ==
  /\ monitor[g] = "collect"
  /\ LET inFlight == (monSubs[g] \cap runningList) \cup Undelivered(g)
     IN  /\ monRequeue' = [monRequeue EXCEPT ![g] = inFlight]
         /\ runningList' = runningList \ inFlight
  /\ IF monQueue[g] = 0
     THEN UNCHANGED <<requests, closed, sendLoop>>
     ELSE /\ requests' = [requests EXCEPT ![g][monQueue[g]] = <<>>]
          /\ closed' = [closed EXCEPT ![g][monQueue[g]] = TRUE]
          /\ sendLoop' = [sendLoop EXCEPT ![g][monQueue[g]] = FALSE]
  /\ monQueue' = [monQueue EXCEPT ![g] = 0]
  /\ monitor' = [monitor EXCEPT ![g] = "release"]
  /\ UNCHANGED <<queueVars, claimVars, brief, graderVars, gradeRequestQueues, handler,
                 linkUp, monSubs, monCur, monFinal, workerVars, faults, notMonitor>>

\* The claims read in OfflineClaims are released one by one.
OfflineRelease(g, s) ==
  /\ monitor[g] = "release"
  /\ s \in monSubs[g]
  /\ ReleaseSubmission(s)
  /\ monSubs' = [monSubs EXCEPT ![g] = @ \ {s}]
  /\ UNCHANGED <<queueVars, runningList, brief, graderVars, outboxVars, streamVars,
                 monitor, monQueue, monRequeue, monCur, monFinal, workerVars, faults,
                 notMonitor>>

\* isSubmissionTerminal of the next collected request: a final one is dropped.
OfflineCheck(g, s) ==
  /\ monitor[g] = "release"
  /\ monSubs[g] = {}
  /\ s \in monRequeue[g]
  /\ monRequeue' = [monRequeue EXCEPT ![g] = @ \ {s}]
  /\ IF brief[s] \in Terminal
     THEN UNCHANGED <<monitor, monCur>>
     ELSE /\ monitor' = [monitor EXCEPT ![g] = "push"]
          /\ monCur' = [monCur EXCEPT ![g] = s]
  /\ UNCHANGED <<queueVars, runningList, claimVars, brief, graderVars, outboxVars,
                 streamVars, monQueue, monSubs, monFinal, workerVars, faults, notMonitor>>

\* queueGradeRequest: push under queuedMu ...
OfflinePush(g) ==
  /\ monitor[g] = "push"
  /\ PushPending(monCur[g])
  /\ monitor' = [monitor EXCEPT ![g] = "brief"]
  /\ UNCHANGED <<runningList, claimVars, brief, graderVars, outboxVars, streamVars,
                 monQueue, monSubs, monRequeue, monCur, monFinal, workerVars, faults,
                 notMonitor>>

\* ... and, without it, the brief report becomes Queued.
OfflineBrief(g) ==
  /\ monitor[g] = "brief"
  /\ SetBrief(monCur[g], "Queued")
  /\ monCur' = [monCur EXCEPT ![g] = "none"]
  /\ monitor' = [monitor EXCEPT ![g] = "release"]
  /\ UNCHANGED <<queueVars, runningList, claimVars, graderVars, outboxVars, streamVars,
                 monQueue, monSubs, monRequeue, monFinal, workerVars, faults, notMonitor>>

\* onGraderOffline returns; the status it was called for is recorded.
OfflineEnd(g) ==
  /\ monitor[g] = "release"
  /\ monSubs[g] = {}
  /\ monRequeue[g] = {}
  /\ status' = [status EXCEPT ![g] = IF monFinal[g] = "None" THEN @ ELSE monFinal[g]]
  /\ monFinal' = [monFinal EXCEPT ![g] = "None"]
  /\ monitor' = [monitor EXCEPT ![g] = "idle"]
  /\ UNCHANGED <<queueVars, runningList, claimVars, brief, onlineGraders, session,
                 outboxVars, streamVars, monQueue, monSubs, monRequeue, monCur,
                 workerVars, faults, notMonitor>>

OfflineNext(g) ==
  \/ OfflineBegin(g) \/ OfflineTake(g) \/ OfflineClaims(g) \/ OfflineCollect(g)
  \/ \E s \in Submissions : OfflineRelease(g, s) \/ OfflineCheck(g, s)
  \/ OfflinePush(g) \/ OfflineBrief(g) \/ OfflineEnd(g)

StreamNext(g, n) ==
  \/ GraderHeartbeat(g, n) \/ HeartbeatNotRegistered(g, n) \/ HeartbeatReceived(g, n)
  \/ RecvError(g, n) \/ SendRequests(g, n) \/ SendFails(g, n)
  \/ MonitorBeat(g, n) \/ MonitorStreamEnded(g, n)
=============================================================================
