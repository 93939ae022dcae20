----------------------------- MODULE LogStream -----------------------------
(***************************************************************************)
(* Following the log of a submission that is being graded.  A web client's *)
(* StreamLog registers a channel at the hub and sends the grader a request *)
(* over its outbox; the worker's streamLog opens a StreamLogCallback       *)
(* stream and sends chunks, which the callback hands to the channel.  The  *)
(* client may leave, the job may end and the grader may be lost at any     *)
(* moment.  One submission, one grader, any number of requests.            *)
(***************************************************************************)
EXTENDS Integers, Sequences

CONSTANTS
  Requests,   \* request ids
  MaxLosses,  \* bound: 1 if the hub may take the grader for lost, else 0
  MaxWire     \* bound: chunks in flight on a callback stream

ASSUME LogStreamAssumption == MaxLosses \in {0, 1} /\ MaxWire \in Nat \ {0}

VARIABLES
  \* the job on the worker: its context and container, by progress
  job, containerStarted,
  \* the hub: whether the grader has an outbox, and its log requests
  online, outbox, logStreams,
  \* AutograderService.StreamLog of each request, its channel, its context, and
  \* whether the cancel request for it was sent
  web, chClosed, ctxDone, cancelled,
  \* StreamLogCallback, and the stream it reads
  callback, stream, wire,
  \* GraderWorker.streamLog: program counter, what it found at its start, the
  \* registered streams, their contexts, the waiters for the container's start
  worker, found, registered, streamDone, waiter,
  \* history: no callback can reach the client any more; a waiter registered
  \* after the job was cleaned up
  missed, late

jobVars    == <<job, containerStarted>>
hubVars    == <<online, outbox, logStreams>>
webVars    == <<web, chClosed, ctxDone, cancelled>>
callVars   == <<callback, stream, wire>>
workerVars == <<worker, found, registered, streamDone, waiter>>
vars == <<jobVars, hubVars, webVars, callVars, workerVars, missed, late>>

Set(f, r, v) == [f EXCEPT ![r] = v]

-----------------------------------------------------------------------------
(* The web client's call: AutograderService.StreamLog, GraderHubService.StreamLog *)

\* The submission has a grader and the grader an outbox, or the call fails.
Find(r) ==
  /\ web[r] = "idle"
  /\ \/ online /\ web' = Set(web, r, "found")
     \/ (~online \/ job = "finished") /\ web' = Set(web, r, "done")
  /\ UNCHANGED <<jobVars, hubVars, chClosed, ctxDone, cancelled, callVars, workerVars, missed, late>>

\* The channel is registered under the grader before the request is sent.
Register(r) ==
  /\ web[r] = "found"
  /\ logStreams' = logStreams \cup {r}
  /\ web' = Set(web, r, "push")
  /\ UNCHANGED <<jobVars, online, outbox, chClosed, ctxDone, cancelled, callVars, workerVars,
                 missed, late>>

\* An outbox that was closed meanwhile refuses the request.
Push(r) ==
  /\ web[r] = "push"
  /\ IF online
     THEN /\ outbox' = Append(outbox, <<"log", r>>)
          /\ web' = Set(web, r, "range")
          /\ UNCHANGED logStreams
     ELSE /\ logStreams' = logStreams \ {r}
          /\ web' = Set(web, r, "done")
          /\ UNCHANGED outbox
  /\ UNCHANGED <<jobVars, online, chClosed, ctxDone, cancelled, callVars, workerVars, missed, late>>

\* Mutant: a chunk that cannot be sent is tried again.
SendMsgRetries(r) ==
  /\ web[r] = "send"
  /\ web' = Set(web, r, IF ctxDone[r] THEN "send" ELSE "range")
  /\ UNCHANGED <<jobVars, hubVars, chClosed, ctxDone, cancelled, callVars, workerVars, missed, late>>

\* The chunk is sent to the client, which fails once it has left: the call
\* returns, and that ends its context too.
SendMsg(r) ==
  /\ web[r] = "send"
  /\ web' = Set(web, r, IF ctxDone[r] THEN "done" ELSE "range")
  /\ UNCHANGED <<jobVars, hubVars, chClosed, ctxDone, cancelled, callVars, workerVars, missed, late>>

\* The range over the channel ends when it is closed, and only then.
RangeEnds(r) ==
  /\ web[r] = "range" /\ chClosed[r]
  /\ web' = Set(web, r, "done")
  /\ ctxDone' = Set(ctxDone, r, TRUE)
  /\ UNCHANGED <<jobVars, hubVars, chClosed, cancelled, callVars, workerVars, missed, late>>

\* The client goes away.
Leave(r) ==
  /\ web[r] \in {"range", "send"} /\ ~ctxDone[r]
  /\ ctxDone' = Set(ctxDone, r, TRUE)
  /\ UNCHANGED <<jobVars, hubVars, web, chClosed, cancelled, callVars, workerVars, missed, late>>

\* The goroutine that waits for the context asks the grader to stop.
SendCancel(r) ==
  /\ ctxDone[r] /\ ~cancelled[r]
  /\ cancelled' = Set(cancelled, r, TRUE)
  /\ outbox' = IF online THEN Append(outbox, <<"cancel", r>>) ELSE outbox
  /\ UNCHANGED <<jobVars, online, logStreams, web, chClosed, ctxDone, callVars, workerVars,
                 missed, late>>

WebNext(r) == Find(r) \/ Register(r) \/ Push(r) \/ SendMsg(r) \/ RangeEnds(r)

-----------------------------------------------------------------------------
(* The hub: StreamLogCallback, onGraderOffline *)

\* A call for a request that is not registered returns at once.
Accept(r) ==
  /\ stream[r] = "sent" /\ callback[r] = "none"
  /\ callback' = Set(callback, r, IF r \in logStreams THEN "recv" ELSE "done")
  /\ UNCHANGED <<jobVars, hubVars, webVars, stream, wire, workerVars, missed, late>>

\* RecvMsg gives a chunk, or an error once the worker has closed the stream or
\* cancelled its context.
Recv(r) ==
  /\ callback[r] = "recv"
  /\ \/ wire[r] > 0 /\ callback' = Set(callback, r, "send") /\ wire' = Set(wire, r, wire[r] - 1)
     \/ /\ (stream[r] = "closed" /\ wire[r] = 0) \/ streamDone[r]
        /\ callback' = Set(callback, r, "close") /\ UNCHANGED wire
  /\ UNCHANGED <<jobVars, hubVars, webVars, stream, workerVars, missed, late>>

\* Mutant: the chunk waits for a reader and for nothing else.
HandOverBlind(r) ==
  /\ callback[r] = "send" /\ web[r] = "range"
  /\ web' = Set(web, r, "send")
  /\ callback' = Set(callback, r, IF ctxDone[r] THEN "close" ELSE "recv")
  /\ UNCHANGED <<jobVars, hubVars, chClosed, ctxDone, cancelled, stream, wire, workerVars, missed, late>>

\* The chunk is handed to the reader, or dropped when the client's context is
\* done; then the loop ends if the context is done.
HandOver(r) ==
  /\ callback[r] = "send"
  /\ \/ web[r] = "range" /\ web' = Set(web, r, "send")
     \/ ctxDone[r] /\ UNCHANGED web
  /\ callback' = Set(callback, r, IF ctxDone[r] THEN "close" ELSE "recv")
  /\ UNCHANGED <<jobVars, hubVars, chClosed, ctxDone, cancelled, stream, wire, workerVars, missed, late>>

CloseStream(r) ==
  /\ callback[r] = "close"
  /\ callback' = Set(callback, r, "done")
  /\ logStreams' = logStreams \ {r}
  /\ chClosed' = Set(chClosed, r, TRUE)
  /\ UNCHANGED <<jobVars, online, outbox, web, ctxDone, cancelled, stream, wire, workerVars, missed, late>>

CallbackNext(r) == Accept(r) \/ Recv(r) \/ HandOver(r) \/ CloseStream(r)

\* The registered channels and the unsent requests of the grader are dropped.
GraderOffline ==
  /\ MaxLosses = 1 /\ online
  /\ online' = FALSE
  /\ missed' = [r \in Requests |-> missed[r] \/ (r \in logStreams /\ callback[r] = "none")]
  /\ logStreams' = {}
  /\ outbox' = <<>>
  /\ UNCHANGED <<jobVars, webVars, callVars, workerVars, late>>

-----------------------------------------------------------------------------
(* The worker: WorkLoop, streamLog *)

WorkerGo(r, from, to) == worker[r] = from /\ worker' = Set(worker, r, to)

\* A request arrives.  A cancel request for a stream that is not registered
\* (yet) has no effect.
Receive ==
  /\ outbox # <<>>
  /\ outbox' = Tail(outbox)
  /\ LET r == Head(outbox)[2] IN
       IF Head(outbox)[1] = "log"
       THEN worker' = Set(worker, r, "begin") /\ UNCHANGED <<registered, streamDone>>
       ELSE /\ streamDone' = Set(streamDone, r, streamDone[r] \/ r \in registered)
            /\ registered' = registered \ {r}
            /\ UNCHANGED worker
  /\ UNCHANGED <<jobVars, online, logStreams, webVars, callVars, found, waiter, missed, late>>

\* The job's context, if it has one, is the parent of the stream's.
Begin(r) ==
  /\ WorkerGo(r, "begin", "register")
  /\ found' = Set(found, r, job)
  /\ UNCHANGED <<jobVars, hubVars, webVars, callVars, registered, streamDone, waiter, missed, late>>

\* A context whose parent is done meanwhile is done.
RegisterStream(r) ==
  /\ WorkerGo(r, "register", "dial")
  /\ registered' = registered \cup {r}
  /\ UNCHANGED <<jobVars, hubVars, webVars, callVars, found, streamDone, waiter, missed, late>>

\* The call fails when the context is done; otherwise the stream is open.  A
\* submission that was not found ends it at once.
Dial(r) ==
  /\ worker[r] = "dial"
  /\ IF streamDone[r]
     THEN /\ worker' = Set(worker, r, "done")
          /\ missed' = Set(missed, r, TRUE)
          /\ UNCHANGED stream
     ELSE /\ worker' = Set(worker, r, CASE found[r] = "finished" -> "close"
                                        [] found[r] = "running" -> "creating"
                                        [] OTHER -> "check")
          /\ stream' = Set(stream, r, "sent")
          /\ UNCHANGED missed
  /\ UNCHANGED <<jobVars, hubVars, webVars, callback, wire, found, registered, streamDone, waiter, late>>

\* Send waits for room on the stream, and fails once the hub's call has
\* returned or the context is done.
Broken(r) == callback[r] = "done" \/ streamDone[r]

SendChunk(r, from, to) ==
  /\ worker[r] = from
  /\ \/ Broken(r) /\ worker' = Set(worker, r, "close") /\ UNCHANGED wire
     \/ ~Broken(r) /\ wire[r] < MaxWire /\ wire' = Set(wire, r, wire[r] + 1) /\ worker' = Set(worker, r, to)

\* "creating container..." and a tick of a second
SendCreating(r) ==
  /\ SendChunk(r, "creating", "tick")
  /\ UNCHANGED <<jobVars, hubVars, webVars, callback, stream, found, registered, streamDone, waiter,
                 missed, late>>

Poll(r) ==
  /\ worker[r] = "tick"
  /\ \/ worker' = Set(worker, r, IF job \in {"created", "started"} THEN "check" ELSE "creating")
     \/ streamDone[r] /\ worker' = Set(worker, r, "close")
  /\ UNCHANGED <<jobVars, hubVars, webVars, callVars, found, registered, streamDone, waiter, missed, late>>

\* Under the worker's lock: follow the log of a container that has started, or
\* say so and become a waiter for its start.
CheckStarted(r) ==
  /\ \/ containerStarted /\ WorkerGo(r, "check", "logs") /\ UNCHANGED <<wire, waiter, late>>
     \/ /\ ~containerStarted
        /\ SendChunk(r, "check", "await")
        /\ IF worker'[r] = "await"
           THEN waiter' = Set(waiter, r, "waiting") /\ late' = Set(late, r, job = "finished")
           ELSE UNCHANGED <<waiter, late>>
  /\ UNCHANGED <<jobVars, hubVars, webVars, callback, stream, found, registered, streamDone, missed>>

\* <-ch, with no look at the context
Await(r) ==
  /\ \/ waiter[r] = "told" /\ WorkerGo(r, "await", "logs")
     \/ waiter[r] = "closed" /\ WorkerGo(r, "await", "close")
  /\ UNCHANGED <<jobVars, hubVars, webVars, callVars, found, registered, streamDone, waiter, missed, late>>

\* Output of the container, or its end: it has exited, the log cannot be read,
\* or the context is done.
ReadLog(r) ==
  /\ \/ ~streamDone[r] /\ WorkerGo(r, "logs", "chunk")
     \/ WorkerGo(r, "logs", "close")
  /\ UNCHANGED <<jobVars, hubVars, webVars, callVars, found, registered, streamDone, waiter, missed, late>>

SendLog(r) ==
  /\ SendChunk(r, "chunk", "logs")
  /\ UNCHANGED <<jobVars, hubVars, webVars, callback, stream, found, registered, streamDone, waiter,
                 missed, late>>

\* The deferred calls: CloseSend, conn.Close, cancel.  A call that has not
\* reached the hub when the connection is closed may never do so.
Close(r) ==
  /\ WorkerGo(r, "close", "done")
  /\ IF callback[r] = "none"
     THEN \E lost \in BOOLEAN : /\ stream' = Set(stream, r, IF lost THEN "closed" ELSE "sent")
                                /\ missed' = Set(missed, r, missed[r] \/ lost)
     ELSE stream' = Set(stream, r, "closed") /\ UNCHANGED missed
  /\ streamDone' = Set(streamDone, r, TRUE)
  /\ UNCHANGED <<jobVars, hubVars, webVars, callback, wire, found, registered, waiter, late>>

WorkerNext(r) ==
  \/ Begin(r) \/ RegisterStream(r) \/ Dial(r) \/ SendCreating(r) \/ Poll(r) \/ CheckStarted(r)
  \/ Await(r) \/ SendLog(r) \/ Close(r)

-----------------------------------------------------------------------------
(* The job *)

\* Mutant: the waiters are told of any report about the container.
JobGoesEarly ==
  /\ \/ job = "running" /\ job' = "created" /\ UNCHANGED containerStarted
     \/ job = "created" /\ job' \in {"created", "started"} /\ containerStarted' = (job' = "started")
  /\ waiter' = [r \in Requests |-> IF waiter[r] = "waiting" THEN "told" ELSE waiter[r]]
  /\ UNCHANGED <<hubVars, webVars, callVars, worker, found, registered, streamDone, missed, late>>

\* recordDockerMetadata: the waiters of a container that has started are told.
JobGoes ==
  /\ \/ job = "running" /\ job' = "created" /\ UNCHANGED <<containerStarted, waiter>>
     \/ /\ job = "created" /\ job' = "started"
        /\ containerStarted' = TRUE
        /\ waiter' = [r \in Requests |-> IF waiter[r] = "waiting" THEN "told" ELSE waiter[r]]
  /\ UNCHANGED <<hubVars, webVars, callVars, worker, found, registered, streamDone, missed, late>>

\* Which contexts are done when the job is: the children of the job's context
\* and the streams registered for the submission.
Cut == {r \in Requests : r \in registered \/ (worker[r] # "none" /\ worker[r] # "begin" /\ found[r] # "finished")}

\* Mutant: the waiters are forgotten.
JobEndsSilently ==
  /\ job # "finished" /\ job' = "finished"
  /\ streamDone' = [r \in Requests |-> streamDone[r] \/ r \in Cut]
  /\ registered' = {}
  /\ UNCHANGED <<containerStarted, hubVars, webVars, callVars, worker, found, waiter, missed, late>>

\* onSubmissionFinished
JobEnds ==
  /\ job # "finished" /\ job' = "finished"
  /\ waiter' = [r \in Requests |-> IF waiter[r] = "waiting" THEN "closed" ELSE waiter[r]]
  /\ streamDone' = [r \in Requests |-> streamDone[r] \/ r \in Cut]
  /\ registered' = {}
  /\ UNCHANGED <<containerStarted, hubVars, webVars, callVars, worker, found, missed, late>>

-----------------------------------------------------------------------------
Init ==
  /\ job = "running" /\ containerStarted = FALSE
  /\ online = TRUE /\ outbox = <<>> /\ logStreams = {}
  /\ web = [r \in Requests |-> "idle"]
  /\ chClosed = [r \in Requests |-> FALSE]
  /\ ctxDone = [r \in Requests |-> FALSE]
  /\ cancelled = [r \in Requests |-> FALSE]
  /\ callback = [r \in Requests |-> "none"]
  /\ stream = [r \in Requests |-> "none"]
  /\ wire = [r \in Requests |-> 0]
  /\ worker = [r \in Requests |-> "none"]
  /\ found = [r \in Requests |-> "none"]
  /\ registered = {}
  /\ streamDone = [r \in Requests |-> FALSE]
  /\ waiter = [r \in Requests |-> "none"]
  /\ missed = [r \in Requests |-> FALSE]
  /\ late = [r \in Requests |-> FALSE]

Next ==
  \/ \E r \in Requests : WebNext(r) \/ Leave(r) \/ SendCancel(r) \/ CallbackNext(r)
                         \/ WorkerNext(r) \/ ReadLog(r)
  \/ GraderOffline \/ Receive \/ JobGoes \/ JobEnds

\* Goroutines that can go on do; the outbox of an online grader is sent; a job
\* ends (the container has a time limit), and then so does its log.  A client
\* need not leave and a container need not print.
Fairness ==
  /\ \A r \in Requests :
       /\ WF_vars(WebNext(r)) /\ WF_vars(SendCancel(r)) /\ WF_vars(CallbackNext(r))
       /\ WF_vars(WorkerNext(r)) /\ WF_vars(streamDone[r] /\ ReadLog(r))
  /\ WF_vars(Receive) /\ WF_vars(JobEnds)

Spec == Init /\ [][Next]_vars /\ Fairness

-----------------------------------------------------------------------------
(* Properties *)

Messages == {"log", "cancel"} \X Requests

\* Every variable has its type; the log channel of a request stays open as long as
\* its StreamLogCallback may send to it or close it, which panics on a closed one,
\* and the waiters are told of no container that has not started.
TypeOK ==
  /\ job \in {"running", "created", "started", "finished"}
  /\ containerStarted \in BOOLEAN /\ online \in BOOLEAN
  /\ outbox \in Seq(Messages)
  /\ logStreams \subseteq Requests /\ registered \subseteq Requests
  /\ web \in [Requests -> {"idle", "found", "push", "range", "send", "done"}]
  /\ callback \in [Requests -> {"none", "recv", "send", "close", "done"}]
  /\ stream \in [Requests -> {"none", "sent", "closed"}]
  /\ wire \in [Requests -> 0..MaxWire]
  /\ worker \in [Requests -> {"none", "begin", "register", "dial", "creating", "tick", "check",
                              "await", "logs", "chunk", "close", "done"}]
  /\ found \in [Requests -> {"none", "running", "created", "started", "finished"}]
  /\ waiter \in [Requests -> {"none", "waiting", "told", "closed"}]
  /\ chClosed \in [Requests -> BOOLEAN] /\ ctxDone \in [Requests -> BOOLEAN]
  /\ cancelled \in [Requests -> BOOLEAN] /\ streamDone \in [Requests -> BOOLEAN]
  /\ missed \in [Requests -> BOOLEAN] /\ late \in [Requests -> BOOLEAN]
  /\ \A r \in Requests : chClosed[r] => callback[r] = "done"
  /\ \A r \in Requests : waiter[r] = "told" => containerStarted

\* A callback ends, whether or not its client still reads ("without the ctx
\* case this send would never return ... and the grader's stream would be stuck
\* forever", StreamLogCallback) and although a cancel request that overtakes
\* the registration of the stream is lost.
CallbackEnds == \A r \in Requests : (callback[r] # "none") ~> (callback[r] = "done")

\* A client's call ends, unless no callback can reach it any more.
ReaderEnds == \A r \in Requests : (web[r] = "range") ~> (web[r] = "done" \/ missed[r])

\* The worker's goroutine ends, unless it became a waiter for the start of a
\* container after the job was cleaned up.
StreamLogEnds == \A r \in Requests : (worker[r] = "begin") ~> (worker[r] = "done" \/ late[r])

\* Nobody who takes part in following a log is left behind, whoever of client,
\* callback (StreamLogCallback), worker (streamLog) and job goes first, in the
\* cases the code provides for.
FollowersEnd == CallbackEnds /\ ReaderEnds /\ StreamLogEnds
=============================================================================
