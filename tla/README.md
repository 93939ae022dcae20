# A verification of the autograder server

TLA+ modules, TLC configurations and TLAPS proofs for the autograder server and
its graders: how submissions are created, queued, handed to remote graders,
graded and reported, and how accounts, courses, uploads and permissions are kept
by calls that run concurrently and a server that may stop between two writes.
Paths below are relative to the repository; "hub" is
`pkg/grader/grpc/graderhub_service.go`.

## 1. The system

The server (`cmd/autograder-server`) serves the web clients
(`AutograderService`, `pkg/grpc`) and the graders (`GraderHubService`,
`pkg/grader/grpc`) over gRPC and keeps everything in one pebble database
(`pkg/repository`). A grader (`cmd/autograder-grader`) is a separate process
that registers, keeps one heartbeat stream open, receives grade, cancel and log
requests on it, runs a container per submission (`pkg/grader`) and reports on
one callback stream per submission.

| Component | State | Operations | What is hard, and what makes it correct |
|---|---|---|---|
| Pending list (hub) | `queuedList` with ranks, `queuedListIndex`, under `queuedMu` | push, remove, walk of a pass | the pass removes while it walks; a submission may be in the list twice. Rank = position; the index finds what is there |
| Scheduler (hub) | wake-up channel of capacity 1, snapshot of loads | `schedulePass`, `pickGrader`, dispatch, undo | works on stale loads and stale outboxes; goes to sleep on a channel. Never over capacity; never asleep beside free capacity |
| Registration, streams and monitors (hub) | `onlineGraders`, `gradeRequestQueues`, outboxes, one monitor per grader, grader records | `RegisterGrader`, `GraderHeartbeat`, send loop, `graderMonitor`, `onGraderOffline` | a nil of an old stream, a late heartbeat, a timeout or a re-registration in any order. Nothing a lost grader had is forgotten |
| Report callbacks (hub) | claims, brief reports, unfinished markers | `GradeCallback`, `onSubmissionFinished` | claim checked and report written in two steps; final report racing with requeueing |
| Cancel, regrade, run (`grpc/submission.go`) | the same | `CancelGrade`, `regradeSubmission`, `runSubmission` | a cancel at any point of a submission's life, several calls on one submission |
| Start-up | what the database kept | `NewGraderHubService`, `ClearRunning`, `runUnfinishedSubmissions` | a crash between any two writes. Every unfinished submission is run again |
| Subscriptions | `submissionSubs`, `ReportMailbox` | `Subscribe`, `Publish`, `Close`, `SubscribeSubmission` | publishers that must not block, merged reports, closing. Nothing is lost and the client sees the end |
| Grader worker | jobs and their contexts, report buffers, callback sessions | `gradeOneSubmission`, `submissionReporter`, `reportSession`, retries | reports resent after a broken stream, a cancel at any moment. Reports arrive once and in order |
| Docker grader | slots, containers, the notification channel | `GradeSubmission`, `runDocker` | a context cancelled at any stage; two goroutines and a channel one of them closes. The job ends and its slot is given back |
| Log streaming | `logStreams`, channels, waiters for the container's start | `StreamLog`, `StreamLogCallback`, the worker's `streamLog` | client, callback and worker may each leave first. None of them hangs |
| Id sequencer | next, limit, persisted limit | `GetNextId`, batch | a crash between persisting and using a batch. No id twice |
| Manifests and uploads | manifests, file entries, size counter, directory, map of mutexes | `CreateManifest`, `InitUpload`, upload, delete, `CreateSubmission`, garbage collection | mutexes are dropped from their map while others wait; limits are checked before they are used |
| Accounts | users with indexes by name, address and GitHub login; codes; tokens | sign-up, reset, GitHub login and binding, updates, code collection | check-then-create, read-modify-write, a fact under two keys |
| Courses and leaderboards | courses, memberships under two keys, join codes, entries with a marker key | create, join, add, change, remove, join codes | two writes for one fact, stale records written back |
| Authorisation | the table of checks, the context a chain of checks fills | `AuthFunc`, `Require...`, `NotAfterDueDate` | a check decides on what an earlier one read while others change it; a check that reads a key no earlier one has set |
| Pure algorithms | none | key ranges, the database's merge operator, output truncation | boundaries |
| Everything else | none of its own | gRPC-web bridge, mail, storage, web assets, generated code | input/output and plumbing |

The components meet in the hub: the web service's goroutines push and cancel
through `queuedMu`; the scheduler reads the loads the repositories keep, claims
and pushes into outboxes; send loops carry outboxes to graders; graders report
through callbacks, which release claims and wake the scheduler; monitors undo
the work of all of them for a lost grader; every status change is published to
the mailboxes. The web service's calls meet in the database: there is no
transaction around a call, a few mutexes (`updateMu`, one per manifest), and
otherwise whatever order the writes of concurrent calls come in.

## 2. Modules

| Module | Models |
|---|---|
| `PendingList` | the pending list as operators on sequences |
| `HubState` | the hub's variables and the operations several goroutines share |
| `HubScheduler` | the scheduler goroutine |
| `HubMonitor` | registration, heartbeat streams, send loops, monitors, `onGraderOffline`, and the worker's side of the stream |
| `HubReports` | `GradeCallback`, `onSubmissionFinished`, and the jobs that report |
| `HubClients` | `CreateSubmission`, `runSubmission`, `CancelGrade`, `regradeSubmission` |
| `GraderHub` | the composition, the faults, the restart, fairness and the properties |
| `Reports` | grade reports and `coalesceReports` |
| `LatestReport` | abstract: what a mailbox promises |
| `Subscription` | registry, mailboxes, publishers and `SubscribeSubmission`; refines `LatestReport` |
| `WorkerState` | the variables of a grader process and of what it shares with the hub |
| `DockerGrader` | `GradeSubmission`, `runDocker` and the goroutine that reports the container |
| `ReportSession` | `submissionReporter`, `reportSession`, and `GradeCallback` at the other end |
| `GraderWorker` | `WorkLoop`'s requests, `gradeOneSubmission`, the composition of the three above |
| `LogStream` | `StreamLog`, `StreamLogCallback`, the worker's `streamLog` |
| `Sequencer` | `KVSequencer` |
| `Manifests` | manifests, uploads, `LockManifest`, submissions made of manifests, garbage collection; uses `Sequencer` |
| `UserRepository` | what the repositories keep of accounts and courses, and their writes |
| `Accounts`, `Courses`, `Leaderboards` | the calls of `user.go`, `course.go` and `leaderboard.go`, write by write |
| `WebService` | their composition, the restart and the properties |
| `AuthTable` | which checks `initAuthFuncs` registers for which method, and what each handler takes from the context |
| `Authorisation` | the checks as steps, and the handlers that change what checks read |
| `MCGraderHub`, `MCGraderWorker`, `MCManifests`, `MCWebService`, `MCAuthorisation` | values of the constants for TLC |
| `PendingList_proofs`, `GraderHub_proofs` | theorems about the hub |
| `Subscription_proofs`, `GraderWorker_proofs`, `LogStream_proofs` | theorems about the mailboxes, the grader process and log streaming |
| `Manifests_proofs`, `WebService_proofs`, `Authorisation_proofs` | theorems about manifests and ids, accounts and courses, the checks |

### State and steps of the hub

The variables keep the names of the source where it has one. A goroutine is a
program counter with the locals that live across a step: `scheduler` (one),
`monitor[g]` (one per grader), `callback[g][s]` (one per callback stream),
`proc[p]` (a call of a client; the `runSubmission` of submission `s` is named
`s`), `handler[g][n]` and `sendLoop[g][n]` (the two halves of the n-th heartbeat
stream of `g`), `worker[g]` with `jobs[g]` (the grader process).

A step is what one goroutine does between two points where another can
interfere: a critical section, one database write, one channel operation.
`queuedMu` is held through a whole pass, so it is modelled as a lock
(`QueuedMuFree`); the other mutexes are held for a single step only.

The index entry of a submission always denotes the element pushed last for it,
so `queuedListIndex` is a set; an earlier element of the same submission is
unreachable by the index and still visited by the pass. `TodoAfterDispatch`
follows the pass's cursor through that case, which takes the element after the
current one before the current one is dispatched.

Data is abstracted to what the properties tell apart: a request is its
submission and whether it is a cancel, `Finished` stands for `Failed` too, a
session token is a flag, times are not modelled (a heartbeat timeout may happen
whenever the monitor waits; whether a heartbeat is older than the recorded one
and whether the grace period is over are choices).

Simplifications:

* the loads of all graders are read in one step; in the code one database read
  per grader follows another, and only releases can fall between them;
* the two keys of a claim are written and deleted in one step;
* two jobs of the same submission on the same grader are one job (`GraderWorker`
  tells them apart);
* a grader keeps its tags and its concurrency when it registers again;
* database errors, `Close` of the hub and the metadata RPCs are left out;
* a callback stream that breaks is in `GraderWorker`, not here.

### Subscriptions

`Subscription` follows one submission. `brief` is the persisted brief report, as
a number from 1 (Queued) to `Final`. Three goroutines report: whoever changes
ranks (one at a time, under `queuedMu`), the end of `queueGradeRequest`, and the
callback stream. A `Publish` has two steps in which the subscriber may empty the
channel first (`PublishTry`, `PublishTake`, `PublishAgain`). The Queued report
is written after the push, so the grader's reports may overtake it:
`overtaken` records that, and `ClientSeesFinal` promises a
terminal last message in all other cases. Only when the Queued report is
overtaken does a client ever read its last message from the database
(`ReadFinal`): otherwise the final report reaches its mailbox, or its first read.

### The grader process

A job has four goroutines, each a program counter: `main[j]`
(`gradeOneSubmission`: download, start, range over the buffer), `docker[j]`
(`GradeSubmission` with `runDocker`: slot, create, start, wait, collect,
remove), `meta[j]` (the goroutine that turns the container's id into a report)
and `reporter[j]` (`submissionReporter`). The hub's side of the callback stream
is `handler[j]`, with the reports in flight in `wire[j]`: a `Send` that succeeds
has only put a report there, and a stream that breaks loses what is in flight.
`ctxDone[j]` is the context a cancel or a lost grader ends. What Docker answers
is a choice; what the container computes is `Finished` or `Failed`. The hub's
check and write of a report are one step here (`HubReports` has both).

Left out: the files of a download are one file, the `.submission` marker
directory, test outputs, and what the run directory holds after the run.

### Log streaming

`LogStream` has one submission and one grader. `web[r]` is the client's call,
`callback[r]` the handler of the worker's stream, `worker[r]` the worker's
`streamLog`; `waiter[r]` is the channel on which it waits for the container's
start. Chunks are counted, not told apart. `missed[r]` and `late[r]` record the
two situations from which the code does not recover (see Known behaviours).
`streamLog`'s `Send` under the worker's mutex is taken not to block, and a job
whose request was cancelled but which still runs is not told from one that ended.

### Manifests

A call is a program counter, its arguments (`op`) and the mutex it has taken
(`mu`). `LockManifest` is four steps (`LoadMutex`, `LockMutex`, `LockFails`,
`ForgetMutex`), `DeleteManifest` two more (`DropMutex`; `CommitDelete`,
which also unlocks), because the entry in the map of mutexes comes and goes between
them. Mutexes are numbers, and one that nobody refers to may be used again. An
upload is three calls: `InitUpload` checks the limit and issues a token, the HTTP
handler writes the file (`UploadPut`), records and counts it (`UploadAdd`). A
submission takes over the directory. Tokens survive a restart, as the clients
keep them.

### Accounts, courses, leaderboards

Every write of the database is a step (a batch is one), and so is the read before
it; `op[p]` holds what a call has read and not yet written. Three histories serve
the properties only: `made` is what all updates of a user amount to, `used` the
codes that were accepted, `clashed` the facts on which two calls overlapped or
which a restart cut short. Passwords are `"old"` or the new one, a token is the
fact that somebody holds one that says `IsAdmin`. A random join code is one of
two that spell its course's id.

### Authorisation

`AuthTable` transcribes the registration of every method. A call of any method
goes through its chain one check at a time; a context holds what the checks of
`interceptor.go` put into it, and a check that takes a key that is not there
would panic (`Panic`). `seen[p]` records what was true at any time during the
call: the roles the caller held, the courses the object was in, the dates of the
assignment and the times that passed. `WithinDates` says that a handler runs only
if one of those dates holds one of those times: the check compares the dates that
were read earlier in the call with the clock, so dates that are replaced in
between still let the call in, and the pair that did so need not have been true
together. That a token cannot be forged is assumed.

## 3. Runs

`CHECK_DEADLOCK FALSE` is set because the systems may stop: when all submissions
are graded, or all calls made, and the bounds are used up nothing is left to do.

| Run | Instance | Shows |
|---|---|---|
| `dispatch` | 3 submissions, 2 graders of concurrency 1, a tag only one grader has | the loads of a pass and the wake-ups of the scheduler |
| `calls` | 2 submissions, 1 grader, one cancel or regrade | at any moment of a submission's life the call keeps list, index, ranks, running list and both claim indexes in step, also for a submission that is pending twice |
| `requeue` | 2 submissions, 1 grader, 2 streams; one broken stream, crash, timeout or restart of the server | nothing is forgotten, over capacity or left waiting beside the grader that is back |
| `faults` | 1 submission, 1 grader, 2 streams; two faults of any kind | the submission stays known to somebody, through grace period, write-back and re-registration |
| `liveness` | 2 submissions, 1 grader, one restart, fairness | both are graded in the end |
| `stranded` | 1 submission, 1 grader, 4 streams, one broken stream, fairness | a counterexample, see Known behaviours |
| `subscription` | 2 clients, one rank change, a Queued and a final report, fairness | `HoldsLatest` (refinement), `ClientSeesFinal`, `StreamEnds` |
| `worker` | 1 job; 3 disturbances out of broken stream, lost grader, cancel; fairness | reports arrive once, in order and to the last, the job and its reporter end |
| `manifests` | 1 manifest, 2 files, 2 calls and the garbage collector, limits of 1, one restart | ids, exclusion, limits, hand-over |
| `accounts` | 2 calls of 19 kinds, 3 names, a GitHub login, 2 codes, one restart | uniqueness, no lost update, codes, facts under two keys |
| `auth` | a call of any of the methods beside a `SetAdmin`, `UpdateCourseMember`, `RemoveCourseMembers` or `UpdateAssignment` | every handler runs for those entitled during the call only |
| `logs` | 1 client, one loss of the grader, 2 chunks in flight, fairness | client, callback and worker all end |

The properties, beside one type invariant per module:

* `RankIsPosition`, `IndexedIsPending`: ranks shown to clients and lookups by
  submission are right however pushes, cancels and dispatches interleave.
* `CapacityRespected`, `PassLoads`: no grader holds more claims than its
  concurrency, because the loads a pass decides on never underestimate.
* `NoMissedCapacity`: the scheduler does not sleep, with no wake-up under way,
  on a request some connected grader has room for.
* `ViewsAgree` (`QueuedOnce`, `WaitingHoldsNothing`, `ClaimIndexesAgree`): the
  views of who is pending, running and claimed agree.
* `UnfinishedIsTracked`, `UnfinishedFinishes`: an unfinished submission is
  always known to somebody, and finishes. Known means: in the list a pass walks
  (indexed or not), running, or in the hands of a goroutine that will push or
  finish it; a submission somebody has asked to cancel or regrade is excepted.
* `HoldsLatest`, `ClientSeesFinal`, `StreamEnds`: a mailbox is a register of the
  latest report; a client's stream ends, with a terminal status.
* `AppliedInOrder`, `DeliveredUnlessBroken`: the hub takes Running and one last
  report of a job, in this order, each once, over however many sessions; the last
  one is missing only if it was in flight on a stream that broke.
* `OpenBufferHasWriter`, `JobsEnd`: a report buffer somebody reads is closed by
  somebody, and a job ends whenever it is cancelled.
* `IdsFresh`: an id is handed out once, restarts included.
* `OneInSection`, `HolderRuns`: the mutexes of a manifest exclude and are given
  back, although they are dropped from their map.
* `CounterCoversFiles`, `OvershootBounded` (`UploadsBounded`,
  `SubmissionsBounded`): the counter never falls below what is recorded; the two limits are exceeded, but by no more
  than the calls that were past the check at the same time.
* `HandedOver`: a submitted manifest is deleted by the call that submitted it.
* `NamesUnique`, `NoLostUpdate`, `UsedCodeGone`: check-then-create, updates of a
  user and codes survive overlapping calls.
* `TwoKeysAgree` (`BoundLoginLeadsBack`, `MembershipAgrees`, `MarkedIfListed`):
  the two keys of a fact agree, unless two calls about the same fact overlapped or a restart cut
  one short. `JoinCodeResolves` holds even then.
* `NoMissingKey`, `ObjectAccess` (`CourseAccess`, `SubmissionAccess`),
  `WithinDates`, `AdminCalls`: the chains of checks are complete, and what they decide is true
  of the call's own time.
* `FollowersEnd` (`CallbackEnds`, `ReaderEnds`, `StreamLogEnds`): nobody who
  follows a log is left behind, in the cases the code provides for.

### Known behaviours

The one run that ends in a counterexample is `stranded`: a heartbeat handler that
finds its grader not registered returns and leaves its outbox in the map. A later
registration makes the grader online before its next stream is open; a request
pushed into the leftover outbox is neither delivered nor requeued. One broken
stream is enough.

The following are reachable in the models. No run is kept for them; where a
property is concerned it excepts exactly these cases, or is checked where the
fault does not occur.

In the hub:

* `queueGradeRequest` pushes first and writes Queued afterwards (hub 675-678).
  Scheduling, grading and the final report can all happen in between; Queued then
  overwrites Finished and stays, although `SubscribeSubmission` says that "its
  final brief is already persisted".
* A server that stops between the queued brief report of `CreateSubmission`
  (`submission.go` 251) and the marker set by `runSubmission` (452) leaves a
  submission that says Queued and that nobody runs. `UnfinishedIsTracked` and
  `UnfinishedFinishes` speak of submissions from the marker on.
* `GradeCallback` checks the claim and writes the report in two steps (941, 949);
  `onGraderOffline` can release the claim in between.
* `CancelGrade` that finds a submission neither pending nor claimed (987)
  declares it cancelled although `runSubmission` may be about to push it.
  What `onSubmissionFinished` still does for a call after it has removed the marker
  (768-778) can likewise meet a run of the submission that began in between, and
  drops it from the running list while it runs. `UnfinishedIsTracked` therefore
  excepts submissions that a call is or was about (`Called`).
* `QueuedOnce` fails with one broken stream: `onGraderOffline` requeues from the
  running list a submission whose dispatch has not yet taken it off the pending
  list, so it is pending, and dispatched, twice.
* `WaitingHoldsNothing` fails with one broken stream: a claim made between
  `onGraderOffline`'s reading of the claims and its draining of the outbox is not
  released, and the requeued submission occupies the slot it waits for.
  `ClaimIndexesAgree` fails with it once a second grader takes the submission.
* `ClaimIndexesAgree` also fails with two graders and one regrade: between the last
  report (949) and the release of the claim (`onSubmissionFinished`) a regraded
  submission can be given to the second grader, and then both have it in their claims.
* `NoMissedCapacity` fails with a timeout and a crash: a heartbeat held back while
  its grader timed out makes the grader online again without a wake-up.
* The terminal check and the push of `onGraderOffline` are two steps (294); the
  last report of the lost grader, accepted before the claim was released, is
  written in between and the finished submission is queued again.
* `SubscribeSubmission` sends Queued for a report that carries only a rank ("the
  submission is by definition still queued"). A client whose first read of the
  brief report finds Running can still have such a report in its mailbox and is
  sent Queued after Running.

In the grader process:

* When a context ends while the goroutine that reports the container has yet to
  send, `GradeSubmission` closes `notifyC` under it (`programming.go` 373, 379):
  a send on a closed channel, which ends the process. `JobsEnd` excepts it.
* A job cancelled between download and start returns without closing its buffer
  (`main.go` 719); its reporter waits on it for ever. `OpenBufferHasWriter` says
  that this is the only way.
* A last report in flight on a stream that breaks is lost, and the reporter ends
  as if it had arrived. The hub keeps the claim until the grader is lost.
* A worker that becomes a waiter for the container's start after the job was
  cleaned up (`main.go` 590-604) waits for ever (`late`).
* A client whose grader is lost, or whose job ends, before the worker's call
  reaches the hub waits on a channel nobody closes (hub 251; `missed`).

In the web service:

* A manifest that expires while it is being submitted is swept by the garbage
  collector after the submission took its directory over, files included.
* Two calls that both read a verification code before either deletes it both
  accept it. `UsedCodeGone` speaks of later calls.
* The two keys of a GitHub binding, of a membership and of a leaderboard diverge
  when two calls about the same fact overlap, or when the server stops between
  the writes; nothing repairs them.
* The token of a user who is no longer an administrator stays valid, and is
  renewed with the flag. `AdminCalls` promises only that the caller once was one.
* `UpdateAssignment` stores the record of the request; one without a course
  takes the assignment out of its course.

### Bounds

`MaxStreams` and `MaxFaults` bound the streams a grader opens and the faults of
a behaviour; each caller makes one call. Two submissions on one slot are the
least with which one waits for the other; a third one and a second grader
exercise ranks behind a removal and the choice of a grader. Two streams of a
grader are the least with which an old stream's end meets a new stream;
`stranded` needs four. Two faults are the least with which a grader whose
heartbeats have stopped is met by a second timeout (grace period, write-back). Three graders or more faults repeat these situations.
In `subscription` the rank
change and the two brief reports are the least with which a full mailbox is met
by a report that lacks the field it holds, and by one that replaces it.

In `worker` three disturbances let two sessions break around a cancel or a loss.
One job is enough for a reporter's and a container's life; what two jobs of one
submission do to `cancelChs`, to the slots and to a container's name takes a
larger instance, `Jobs = {1, 2}` with `SubmissionOf = <<1, 1>>`, whose
invariants were checked once without the liveness property: 18.0 million distinct
states in just under five minutes, no error. It is too slow to keep as a run. The hub's invariants likewise hold in
more instances than the table shows: `RankIsPosition` and `CapacityRespected` in
all of `dispatch`, `calls` and `requeue`, `UnfinishedIsTracked` in `dispatch`,
`NoMissedCapacity` in `calls`; and `UnfinishedIsTracked` and `NoMissedCapacity` with
1 submission, 2 graders and one fault of any kind (1.07 million states). The
inductive invariant of `UnfinishedIsTracked` was checked before it was proved: in
the instance of `calls` (1.4 million states), with 2 submissions, a call and a
restart (9.1 million), and with 1 submission and one or two faults of any kind
(8.5 million); those of `NoMissedCapacity` and `ViewsAgree` in the first two of
these. Each is kept where it is hardest to keep true.

In `manifests` a manifest, two calls and the collector are the least with which
one holds the mutex, one waits for it and one stores a new one; four mutexes are
enough for all of them to be alive at once. Limits of 1 make every call meet its
limit. In `accounts` two calls are the least that overlap; `MaxCalls` is 2, so
what a property excepts is what those two calls do. The root user's name, a
second user's and a free one let sign-up collide with either. In `auth` the
second call's methods are those that change what a check of the first has read;
three windows and one tick put an assignment before, in and after its dates, and
let its dates be replaced by ones that no longer hold the time, or do not yet.
In `logs` one client with one channel is what the goroutines share; requests of
several clients do not touch.

Symmetry is used only in runs without a temporal
property, on submissions that are not told apart by tags, on callers and on files.

### Fairness

* A goroutine that can run does run (weak fairness per goroutine; of the calls
  and of a grader's reports only *some* one is asked to go on, which is weaker
  and enough, as each has finitely many steps).
* Strong fairness where goroutines compete and Go queues the waiters: for
  `queuedMu` (`RunPush`, `CancelPending`, `OfflinePush`; Go's mutex hands over to
  a waiter that has starved for a millisecond) and for the monitor's channel
  (senders are queued in order).
* Strong fairness of a job's last report: a job has a time limit.
* In `Subscription` one condition is enough: the goroutines do not all stop while
  one of them can run.
* In `GraderWorker` weak fairness of each of a job's goroutines, of the hub's
  handler and of the registration after a loss; the Docker grader's waits end,
  because the container has a time limit and the daemon answers.
* In `LogStream` weak fairness of each goroutine and of the send loop that
  carries the outbox; a job ends, and its log with it. A container need not print
  and a client need not leave.
* No fairness for creating submissions, for calls, faults, cancels or disconnects.

## 4. Proofs

Proved by TLAPS for all values of the constants that satisfy `HubAssumption`
(finitely many submissions and graders, grader ids are positive, callers are not
submissions, concurrencies and bounds are natural numbers), `ReportsAssumption`,
`BatchAssumption` (a batch has at least one id),
`ManifestAssumption` (finitely many calls, the collector is not one of them,
sizes are positive, mutexes are positive numbers, limits are natural numbers),
`WorkerAssumption` (finitely many jobs with positive numbers),
`LogStreamAssumption`, `AccountAssumption` (the root user's and a second user's
names and addresses differ, a login is a name) and `AuthorisationAssumption`
(users are positive numbers, windows are pairs of integers, bounds are natural
numbers). Three theorems about the hub assume in addition that
`FaultKinds \subseteq {"restart"}`: the server may restart, heartbeat streams do
not break and graders neither crash nor time out. One of them also assumes that
`"regrade" \notin Operations`. Without these hypotheses the properties are false, see
Known behaviours:

| Theorem | States |
|---|---|
| `TypeCorrect` | `Spec => []TypeOK` of `GraderHub` |
| `RanksCorrect` | `Spec => []RankIsPosition` |
| `IndexSound` | `Spec => []IndexedIsPending` |
| `SnapshotSound` | `Spec => []PassLoads` |
| `CapacityCorrect` | `Spec => []CapacityRespected` |
| `NothingIsLost` | `Spec => []UnfinishedIsTracked` |
| `NoCapacityIsMissed` | `Spec => []NoMissedCapacity`, if graders stay connected |
| `WaitingOnce` | `Spec => [](QueuedOnce /\ WaitingHoldsNothing)`, if graders stay connected |
| `AllViewsAgree` | `Spec => []ViewsAgree`, if graders stay connected and nothing is regraded |
| `SubscriptionTypes` | `Spec => []TypeOK` of `Subscription` |
| `MailboxImplementsLatest` | `Spec => HoldsLatest`, the refinement of `LatestReport` |
| `LastStatusIsFinal` | `Spec => []ClientSeesFinal` |
| `TypesHold` | `Spec => []TypeOK` of `GraderWorker` |
| `ReportsArrive` | `Spec => []DeliveredUnlessBroken` |
| `ReportsInOrder` | `Spec => []AppliedInOrder` |
| `BuffersAreClosed` | `Spec => []OpenBufferHasWriter` |
| `LogTypes` | `Spec => []TypeOK` of `LogStream` |
| `RequestsServedOnce` | `Spec => [][ServedOnce]_vars`: no log request starts its goroutine twice |
| `ManifestTypes` | `Spec => []TypeOK` of `Manifests` |
| `FreshIds` | `Spec => []IdsFresh` |
| `ExclusiveSections` | `Spec => []OneInSection` |
| `HeldMutexesRun` | `Spec => []HolderRuns` |
| `SubmittedIsHandedOver` | `Spec => []HandedOver` |
| `CounterCovers` | `Spec => []CounterCoversFiles` |
| `OvershootIsBounded` | `Spec => []OvershootBounded` |
| `TypeCorrect` | `Spec => []TypeOK` of `WebService` |
| `NamesAreUnique` | `Spec => []NamesUnique` |
| `UpdatesAreKept` | `Spec => []NoLostUpdate` |
| `UsedCodesStayGone` | `Spec => []UsedCodeGone` |
| `JoinCodesResolve` | `Spec => []JoinCodeResolves` |
| `TwoKeysAgreeHolds` | `Spec => []TwoKeysAgree` |
| `TypesHold` | `Spec => []TypeOK` of `Authorisation` |
| `KeysAreThere` | `Spec => []NoMissingKey` |
| `AccessIsEarned` | `Spec => []ObjectAccess` |
| `DatesAreKept` | `Spec => []WithinDates` |
| `OnlyAdministrators` | `Spec => []AdminCalls` |

*The pending list.* `TypeOK` is not inductive: `removePendingGradeRequest` yields
a list only if what the index promises is in the list, and a goroutine's
submission is one only if its program counter and its locals agree. `ListInv` is
`TypeOK`, that agreement (`ControlInv`), `IndexedIsPending` and `RankIsPosition`.
Only `RunPush`, `OfflinePush`, `CancelPending`, `PushAccepted` and a restart change
the list; for them `PendingList_proofs` has one lemma per operator (what push and
remove do to types, ranks and membership). For all others
`ListInv` follows from their types.

*Capacity.* `CapacityRespected` says nothing about the pass that is about to
claim. `HubInv` adds `PassLoads`: for every candidate of a running pass the
claims it holds are at most its load, the load is at most its concurrency, and the
grader just picked has strictly fewer claims than its load. No action but `Claim`
adds a claim (`OthersClaimNothing`, `LoadShrinks`), and a pick counts itself
before it claims (`SchedulerKeepsCapacity`).

*No submission is lost.* `UnfinishedIsTracked` is carried by `TrackInv`, on top of
`ListInv`. A pass takes a request from the list under `queuedMu` and gives it to
the running list before the list lets go of it (`DispatchTracked`); it works on
what is left of the list as it was, so `TodoPending` says that this is still in
the list, and twice if a pass will find it twice: the removal of one of two
equal elements leaves the other (`RemovePendingOccurs`, `TodoAfterDispatchOccurs`).
A refused push takes the submission off the running list again while it is still
in the pending list. `onGraderOffline` drops from the running list exactly
what it goes on to push (`Requeues`: it starts with nothing), except what a report
has made final; then the handler of that report is about to remove the marker, or
has (`Reported`). That a final brief report belongs to this run, and not to an
earlier life of the submission, needs `Fresh` (nothing knows of a submission
before `runSubmission` pushes it) and `OnlyRuns` (the goroutine of a submission
never cancels). A call touches its own submission only (`OthersKeepTrack`,
`CallersKeepTrack`), which is why cancels and regrades of others do no harm.

*Wake-ups.* While graders stay connected monitors are idle, outboxes stay open and
no push is refused (`Calm`). `NoMissedCapacity` speaks of the scheduler asleep;
`PassSees` says what makes it safe to fall asleep, of a pass that has dispatched
nothing with no wake-up on its way: every connected grader is a candidate whose
load is no more than its claims, and for a pending request that the pass has
already visited no grader has room. Room comes to be only by a released claim, a
new stream or a new request, and each is followed by a wake-up: `WakePending`
covers the goroutines on their way to it, and it ends in a wake-up only. The channel of capacity 1 keeps
that wake-up until the pass is over. Others only take room away
(`OthersMissNothing`).

*One view of each submission.* `View` says of a submission that it is in the list
once and indexed, that its two claim indexes agree, that it is pending and running at
once only while a pass hands it over, and that the hub knows nothing of it
before `runSubmission` has pushed it. This last part keeps the push from adding
it twice, and `TodoPending` of `TrackInv` keeps a pass from handing over
what a cancel has removed. `RegradersPush` says that among the calls only
regrades push; a regraded submission is excepted (`Regraded`), as it can be
pushed while its last life has not ended. `ViewsAgree` has
no such exception for the claim indexes, so its theorem assumes that there are no
regrades.

*Mailboxes.* `latest` is mapped to what the client knows merged with what is
pending, where the pending report is the one in the publisher's hands while the
channel is empty for it. The invariant `BoxInv` says that a report is in hands
only under the mailbox's mutex and with the channel empty, and that a locked
mailbox is not closed. Publishing maps to `Publish` by the associativity of
`coalesceReports`, whichever of publisher and subscriber empties the channel.

*The last status.* A client leaves because its brief report or what it received
is terminal, or because its mailbox is closed and empty. Only the last case needs
an invariant (`FinalInv`): nobody but the goroutine that has persisted and sent
the final report closes a mailbox whose client still listens, and the persisted
report stays final from then on (`Settled`), because the grader's reports only
go up and a Queued that replaces one of them is `overtaken`.

*The grader process.* A report is in one of four places: the buffer, the report
the reporter has taken out and not sent, the stream, the hub. The invariant of
a job says how far its goroutines can be from each other (`PhasesOK`), what a
reporter and the hub's handler know of each other (`StreamOK`), that Running is
made once and is ahead of everything else in these four places (`OrderOK`), and
that the last report, once made, is in one of them, lost on a stream that broke,
or refused (`Tracked`). `Recast`, which a cancelled run applies to what is
buffered and unsent, keeps all four. A step of one job leaves the others as they
are (`Still`), except that a cancel ends contexts. `AppliedInOrder` needs one
more thing, `ClaimOK`: after the last report of a submission with one job the
claim is gone, so the hub refuses the next session and takes no second last
report. It was checked with TLC first: all states of one job with three
disturbances, and nine million states of two jobs with one.

*Log streaming.* `TypeOK` contains two facts that are not types: a log channel is
closed only with its callback, a waiter is told only of a container that has
started. `RequestsServedOnce` rests on `OnceInv`: a request is in the outbox at
most once, and only while its worker has not begun and its client is past the
push.

*Ids and manifests.* `IdInv` is type correctness, that a call's arguments fit its
program counter, that what a call names was created, and that the batch in memory
ends at or before the persisted limit. From it, handing out an id, taking a new
batch and a restart all keep every id in use below the next one.

*Mutexes.* That two calls are not between `LockManifest` and `Unlock` of the same
manifest does not follow from their holding *a* mutex of it: the map may have
had several. `MutexInv` says who holds what (`Held`), that a mutex belongs to one
manifest at a time (`OneManifest`), and (`Current`) that while a manifest exists
whoever has a mutex of it has the one in the map, or one that a call about to
delete the manifest has taken out of the map and still holds. `LockMutex` lets a
call in only if its mutex is free: then no deleting call holds it, so it is the
map's, and nobody else in the section can hold another. When the deleting call
lets go the manifest is gone. `HolderRuns` follows from `Held` and
`HandedOver` from an invariant about the calls that submit (`Submitters`).

*Sizes and limits.* A total of sizes is stated as the number of elements of a set
of bytes (`RecordedBytes`, `BytesInFlight`): a sum by a fold could not be reasoned
about without induction, the cardinality of a set that gains or loses the `n`
bytes of one file can (`BytesAdded`, `BytesTaken`). `CounterInv` says of every
manifest, deleted or not, that its counter is at least what is recorded:
`DeleteFileInManifest` takes off exactly what it deletes, `AddFileToManifest` adds
at least what it records. For `UploadsBounded`, `FlightInv` adds that each call
past the check fits the limit by itself: a call that passes the check leaves its
own limit for the counter and itself and one limit to each of the others
(`CheckKeepsFlight`), what `AddFileToManifest` counts was in flight before
(`AddKeepsFlight`), and a deleted manifest's counter starts from 0. `SubmitInv` bounds the
submissions together with the calls past `checkSubmissionLimit`.

*Accounts and courses.* Each property has an invariant of its own over the types
(`TypeInv`: what a call at each of its program counters has in `op`). A user is
written only under `updateMu` and as the change of what was read under it
(`LockInv`), from which `NoLostUpdate` follows; `CreateUser` looks up and creates
under one mutex, whatever its caller has found before, which gives `NamesUnique`. A code
is given to one key and the call that deletes a key has read a code nobody else
has (`CodeInv`). The join index leads to the course the code spells or nowhere,
and so does the record a call has read and will write back (`JoinInv`).

*Facts under two keys.* `OverlapInv` says that two calls in progress about the
same fact have been noted in `clashed`. Where a fact is not in `clashed`, its
writer is therefore alone, and `BoardInv`, `MemberInv` and `GithubInv` say where the
two writes stand at every program counter of that one call; a restart puts what
it cuts short into `clashed`.

*Checks.* What the handler may rely on is built up along the chain: `CallInv` says,
for every check a call may be waiting at, which earlier checks have passed and
what of it is still true: that the token was issued (`LoggedIn`), that the course, the
object and its dates are ones it had during the call (`Sited`), that the role is
one the caller held during it (`Member`), that the submission is readable
(`Reads`), that a time of the call was within the dates that were read
(`InDates`). `LeftOK` says which remainders of a chain there are: it is where the
table of `initAuthFuncs` enters. Calls that change roles, assignments or
submissions only add to `seen` (`Grows`), so they keep it. `NoMissingKey` follows
as every check, and every handler, comes after the ones that set its keys;
`AdminCalls` from `TokenInv`: a token that says administrator was signed for
somebody who was one.

Model-checked only:

* the liveness properties (`UnfinishedFinishes`, `StreamEnds`, `JobsEnd`,
  `FollowersEnd`): fairness is out of the prover's reach;
* `NoMissedCapacity` where graders are lost, and `ClaimIndexesAgree` with a
  regrade: they hold for the constants of `requeue` and of `calls`, and not for all;
  with other calls or faults they fail in the ways listed under Known behaviours.

## 5. Not modelled

* *Generated protocol code* (`*.pb.go`, `*_grpc.pb.go`): 17,400 of the
  repository's 26,500 lines of Go. It is accessors, descriptors and registration
  without behaviour of the program's own, so a definition can stand for none of it. Of
  the 9,100 lines written by hand the modules model a little under half.
* *Merge operator and key ranges* (`pkg/repository/merger.go`, `prefix.go`): pure
  functions over byte strings: a sum of counters, concatenations of lists, and an
  increment of the last byte. `Manifests` uses the sum as an integer
  (`open_test.go` tests it).
* *gRPC-web bridge, origin checks, rate limits*: transport without state of its own.
* *Mailer, object storage, configuration, logging, web assets*: input/output and
  wiring. What the code does when they fail is left out with them.
* *Reads*: downloads, lists, histories, the leaderboard's anonymous flag.
* *The submission limit over a period of time*: a count over time stamps, with
  the same check-then-create as the total limit.
* *What the run directory of a submission holds* when its reporter deletes it
  while a newer job of the submission uses it, and the container's name in use by
  an older job (which the two-job instance covers).
* *`Close` of the hub*, and the order in which its locks are taken: the locks other
  than `queuedMu` are never held across a step of the models.

## 6. Plan

In this order:

1. `NoMissedCapacity` where graders are lost and `ClaimIndexesAgree` with regrades,
   with the cases of Known behaviours as exceptions in their statements, so that
   they can be proved for all constants.
2. The two keys of a claim as two writes, with crashes between; the outbox as a
   condition-variable queue that refines a FIFO.
3. `Close` of the hub and the order of its locks.
4. Pure algorithms against reference definitions: key upper bounds, the merge
   operator, output truncation.
