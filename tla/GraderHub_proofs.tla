--------------------------- MODULE GraderHub_proofs ---------------------------
(***************************************************************************)
(* Theorems about GraderHub, for every set of submissions, graders and     *)
(* callers, every concurrency, all operations and any number of faults,    *)
(* and, where a theorem says so, for graders that stay connected.          *)
(***************************************************************************)
EXTENDS GraderHub, PendingList_proofs, FiniteSetTheorems

-----------------------------------------------------------------------------
(* Facts about single values *)

\* The claims of a grader are finitely many, so its load is a number.
LEMMA LoadIsNat ==
  ASSUME RepositoryType, NEW g \in Graders
  PROVE  /\ IsFiniteSet(graderSubmissions[g])
         /\ Cardinality(graderSubmissions[g]) \in Nat
  BY HubAssumption, FS_Subset, FS_CardinalityType DEF RepositoryType

\* A pass has a current request from PickGrader to the end of its dispatch.
LEMMA CurrentRequest ==
  ASSUME PassType, todo # <<>>
  PROVE  Head(todo) \in Submissions /\ Tail(todo) \in Seq(Submissions)
  BY HeadTailProperties DEF PassType

\* queuedList is a list of pending elements, whose submissions SubsOf lists.
LEMMA QueueIsPendingList ==
  ASSUME PendingType
  PROVE  queuedList \in Seq(Elements(Submissions)) /\ SubsOf(queuedList) \in Seq(Submissions)
<1>1. queuedList \in Seq(Elements(Submissions))
  BY DEF PendingType, Elements
<1> QED
  BY <1>1, SubsOfType

\* pickGrader returns one of the eligible graders.
LEMMA PickIsEligible ==
  ASSUME PassType, NEW s, Eligible(s) # {}
  PROVE  pickGrader(s) \in Eligible(s)
<1>1. Eligible(s) \subseteq Graders /\ \A g \in Eligible(s) : loads[g] \in Nat /\ g \in Nat
  BY HubAssumption DEF Eligible, PassType
<1>2. \E g \in Eligible(s) : \A h \in Eligible(s) :
        loads[g] < loads[h] \/ (loads[g] = loads[h] /\ g <= h)
  <2> DEFINE Loads == {loads[g] : g \in Eligible(s)}
  <2>1. Loads \subseteq Nat /\ Loads # {}
    BY <1>1
  <2>2. PICK k \in Loads : \A j \in Loads : ~ (<<j, k>> \in OpToRel(<, Nat))
    <3> HIDE DEF Loads
    <3> QED
      BY <2>1, WFMin, NatLessThanWellFounded
  <2>3. \A j \in Loads : ~ (j < k)
    <3> SUFFICES ASSUME NEW j \in Loads
                 PROVE  ~ (j < k)
      OBVIOUS
    <3>1. j \in Nat /\ k \in Nat
      BY <2>1
    <3> HIDE DEF Loads
    <3> QED
      BY <2>2, <3>1, Zenon DEF OpToRel
  <2> DEFINE Least == {g \in Eligible(s) : loads[g] = k}
  <2>4. Least \subseteq Nat /\ Least # {}
    BY <1>1
  <2>5. PICK g \in Least : \A h \in Least : ~ (<<h, g>> \in OpToRel(<, Nat))
    <3> HIDE DEF Least
    <3> QED
      BY <2>4, WFMin, NatLessThanWellFounded
  <2>6. \A h \in Least : ~ (h < g)
    <3> SUFFICES ASSUME NEW h \in Least
                 PROVE  ~ (h < g)
      OBVIOUS
    <3>1. h \in Nat /\ g \in Nat
      BY <2>4
    <3> HIDE DEF Least
    <3> QED
      BY <2>5, <3>1, Zenon DEF OpToRel
  <2>7. ASSUME NEW h \in Eligible(s)
        PROVE  loads[g] < loads[h] \/ (loads[g] = loads[h] /\ g <= h)
    <3>1. ~ (loads[h] < loads[g])
      BY <2>3
    <3>2. loads[h] = loads[g] => ~ (h < g)
      BY <2>6
    <3> QED
      BY <1>1, <3>1, <3>2
  <2> QED
    BY <2>7
<1> QED
  BY <1>2 DEF pickGrader

\* Push keeps every outbox a sequence of requests.
LEMMA PushKeepsType ==
  ASSUME StreamType, NEW g, NEW n, NEW req \in Request, Push(g, n, req)
  PROVE  requests' \in [Graders -> [Streams -> Seq(Request)]]
<1>1. ASSUME g \in Graders, n \in Streams
      PROVE  Append(requests[g][n], req) \in Seq(Request)
  BY <1>1, AppendProperties DEF StreamType
<1> QED
  BY <1>1 DEF Push, StreamType

\* Claims stay claims of graders on submissions when one of them is released, and
\* no grader's load grows.
LEMMA ReleaseKeepsClaims ==
  ASSUME RepositoryType, NEW s, ReleaseSubmission(s)
  PROVE  /\ submissionGrader' \in [Submissions -> Graders \cup {0}]
         /\ graderSubmissions' \in [Graders -> SUBSET Submissions]
         /\ \A g \in Graders : graderSubmissions'[g] \subseteq graderSubmissions[g]
  BY DEF ReleaseSubmission, RepositoryType

-----------------------------------------------------------------------------
(* The pending list *)

\* What a step may do to the pending list and its index: nothing, one push, one
\* removal, or (a restart) empty both.
PendingStep ==
  \/ UNCHANGED <<queuedList, queuedListIndex>>
  \/ \E s \in Submissions : /\ queuedList' = PushBack(queuedList, s)
                            /\ queuedListIndex' = queuedListIndex \cup {s}
  \/ \E s \in queuedListIndex : /\ queuedList' = RemovePending(queuedList, s)
                                /\ queuedListIndex' = queuedListIndex \ {s}
  \/ queuedList' = <<>> /\ queuedListIndex' = {}

PendingInv == PendingType /\ IndexedIsPending /\ RankIsPosition

\* Pushes and removals keep ranks equal to positions and indexed submissions in
\* the list, also when the list holds a submission twice.
LEMMA PendingStepKeepsInv ==
  ASSUME PendingInv, PendingStep
  PROVE  PendingInv'
<1>q. queuedList \in Seq(Elements(Submissions)) /\ Len(queuedList) \in Nat
  BY QueueIsPendingList, LenProperties DEF PendingInv
<1>r. RanksArePositions(queuedList)
  BY DEF PendingInv, RankIsPosition, RanksArePositions
<1> SUFFICES /\ queuedList' \in Seq(Elements(Submissions))
             /\ queuedListIndex' \subseteq Submissions
             /\ RanksArePositions(queuedList')
             /\ \A s \in queuedListIndex' : \E i \in 1..Len(queuedList') : queuedList'[i].sub = s
  BY DEF PendingInv, PendingType, IndexedIsPending, Listed, RankIsPosition, RanksArePositions, Elements
<1>1. CASE UNCHANGED <<queuedList, queuedListIndex>>
  BY <1>1, <1>q, <1>r DEF PendingInv, PendingType, IndexedIsPending, Listed
<1>2. ASSUME NEW s \in Submissions, queuedList' = PushBack(queuedList, s),
             queuedListIndex' = queuedListIndex \cup {s}
      PROVE  /\ queuedList' \in Seq(Elements(Submissions))
             /\ queuedListIndex' \subseteq Submissions
             /\ RanksArePositions(queuedList')
             /\ \A r \in queuedListIndex' : \E i \in 1..Len(queuedList') : queuedList'[i].sub = r
  <2>1. /\ queuedList' \in Seq(Elements(Submissions))
        /\ RanksArePositions(queuedList')
        /\ Len(queuedList') = Len(queuedList) + 1
        /\ \A i \in 1..Len(queuedList) : queuedList'[i] = queuedList[i]
        /\ queuedList'[Len(queuedList) + 1].sub = s
    BY <1>2, <1>q, <1>r, PushBackProperties
  <2>2. ASSUME NEW r \in queuedListIndex'
        PROVE  \E i \in 1..Len(queuedList') : queuedList'[i].sub = r
    <3>1. CASE r = s
      BY <1>q, <2>1, <3>1
    <3>2. CASE r \in queuedListIndex
      <4>1. PICK i \in 1..Len(queuedList) : queuedList[i].sub = r
        BY <3>2 DEF PendingInv, IndexedIsPending, Listed
      <4>2. i \in 1..Len(queuedList') /\ queuedList'[i].sub = r
        BY <1>q, <2>1, <4>1
      <4> QED
        BY <4>2
    <3> QED
      BY <1>2, <2>2, <3>1, <3>2
  <2> QED
    BY <1>2, <2>1, <2>2 DEF PendingInv, PendingType
<1>3. ASSUME NEW s \in queuedListIndex, queuedList' = RemovePending(queuedList, s),
             queuedListIndex' = queuedListIndex \ {s}
      PROVE  /\ queuedList' \in Seq(Elements(Submissions))
             /\ queuedListIndex' \subseteq Submissions
             /\ RanksArePositions(queuedList')
             /\ \A r \in queuedListIndex' : \E i \in 1..Len(queuedList') : queuedList'[i].sub = r
  <2>1. \A r \in queuedListIndex : \E i \in 1..Len(queuedList) : queuedList[i].sub = r
    BY DEF PendingInv, IndexedIsPending, Listed
  <2>2. /\ queuedList' \in Seq(Elements(Submissions))
        /\ RanksArePositions(queuedList')
        /\ \A i \in 1..Len(queuedList) : queuedList[i].sub # s =>
             \E j \in 1..Len(queuedList') : queuedList'[j].sub = queuedList[i].sub
    BY <1>3, <1>q, <1>r, <2>1, RemovePendingProperties
  <2>3. ASSUME NEW r \in queuedListIndex'
        PROVE  \E j \in 1..Len(queuedList') : queuedList'[j].sub = r
    <3>1. r \in queuedListIndex /\ r # s
      BY <1>3, <2>3
    <3>2. PICK i \in 1..Len(queuedList) : queuedList[i].sub = r
      BY <2>1, <3>1
    <3> QED
      BY <2>2, <3>1, <3>2
  <2>4. queuedListIndex' \subseteq Submissions
    BY <1>3 DEF PendingInv, PendingType
  <2> QED
    BY <2>2, <2>3, <2>4
<1>4. CASE queuedList' = <<>> /\ queuedListIndex' = {}
  BY <1>4 DEF RanksArePositions
<1> QED
  BY <1>1, <1>2, <1>3, <1>4 DEF PendingStep

-----------------------------------------------------------------------------
(* Type correctness *)

\* The types of everything but the pending list.
OtherTypes ==
  RunningType /\ RepositoryType /\ StreamType /\ PassType /\ MonitorType /\ WorkerType /\ ProcType

\* The steps of the scheduler keep every variable in its type.
LEMMA SchedulerKeepsTypes ==
  ASSUME TypeOK, ControlInv, SchedulerNext
  PROVE  OtherTypes' /\ ControlInv' /\ PendingStep
<1> USE DEF TypeOK, OtherTypes, ControlInv
<1>f. MonitorType' /\ WorkerType' /\ ProcType' /\ MonitorControl' /\ ProcControl'
  BY DEF SchedulerNext, BeginPass, SkipPending, PickGrader, MarkRunning, Claim, PushAccepted,
         PushRefused, UndoRunning, UndoClaim, EndPass, AwaitWake, notScheduler, monitorVars,
         workerVars, MonitorType, WorkerType, ProcType, MonitorControl, ProcControl
<1>h. todo # <<>> => Head(todo) \in Submissions /\ Tail(todo) \in Seq(Submissions)
  BY CurrentRequest
<1> USE DEF RunningType, RepositoryType, StreamType, PassType, PassControl, PendingStep,
            notScheduler, queueVars, claimVars, reportVars, graderVars, streamVars
<1>1. CASE BeginPass
  <2>1. SubsOf(queuedList) \in Seq(Submissions)
    BY QueueIsPendingList
  <2>2. [g \in Graders |-> Cardinality(graderSubmissions[g])] \in [Graders -> Nat]
    BY LoadIsNat
  <2> QED
    BY <1>f, <1>1, <2>1, <2>2 DEF BeginPass
<1>2. CASE SkipPending
  BY <1>f, <1>h, <1>2 DEF SkipPending
<1>3. CASE PickGrader
  <2>1. pickGrader(Head(todo)) \in Graders
    BY <1>3, PickIsEligible DEF PickGrader, Eligible
  <2> QED
    BY <1>f, <1>3, <2>1 DEF PickGrader
<1>4. CASE MarkRunning
  BY <1>f, <1>h, <1>4 DEF MarkRunning
<1>5. CASE Claim
  BY <1>f, <1>h, <1>5 DEF Claim, ClaimSubmission
<1>6. CASE PushAccepted
  <2>1. Head(todo) \in Submissions /\ todo \in Seq(Submissions) /\ todo # <<>>
    BY <1>h, <1>6 DEF PushAccepted
  <2>2. TodoAfterDispatch(todo, Head(todo), Head(todo) \in queuedListIndex) \in Seq(Submissions)
    BY <2>1, TodoAfterDispatchType, Zenon
  <2>3. PendingStep
    BY <1>6 DEF PushAccepted, PendingStep
  <2>4. requests' \in [Graders -> [Streams -> Seq(Request)]]
    BY <1>6, <2>1, PushKeepsType DEF PushAccepted, Request
  <2>5. todo' \in Seq(Submissions)
    BY <1>6, <2>2 DEF PushAccepted
  <2>6. PassType' /\ PassControl'
    BY <1>6, <2>5, HubAssumption DEF PushAccepted
  <2>7. RunningType' /\ RepositoryType' /\ StreamType'
    BY <1>6, <2>4 DEF PushAccepted
  <2> QED
    BY <1>f, <2>3, <2>6, <2>7
<1>7. CASE PushRefused
  BY <1>f, <1>7 DEF PushRefused
<1>8. CASE UndoRunning
  BY <1>f, <1>8 DEF UndoRunning
<1>9. CASE UndoClaim
  <2>1. /\ submissionGrader' \in [Submissions -> Graders \cup {0}]
        /\ graderSubmissions' \in [Graders -> SUBSET Submissions]
    BY <1>9, ReleaseKeepsClaims DEF UndoClaim
  <2>2. RepositoryType' /\ RunningType' /\ StreamType' /\ PendingStep
    BY <1>9, <2>1 DEF UndoClaim
  <2>3. PassType' /\ PassControl'
    BY <1>9, HubAssumption DEF UndoClaim
  <2> QED
    BY <1>f, <2>2, <2>3
<1>10. CASE EndPass
  BY <1>f, <1>10 DEF EndPass
<1>11. CASE AwaitWake
  BY <1>f, <1>11 DEF AwaitWake
<1> QED
  BY <1>1, <1>2, <1>3, <1>4, <1>5, <1>6, <1>7, <1>8, <1>9, <1>10, <1>11 DEF SchedulerNext

\* A call may change its own record as long as it names a submission, and a
\* runSubmission its own one.
LEMMA RecordKeepsProcs ==
  ASSUME ProcType, ProcControl, NEW p \in Procs, NEW r \in Proc, r.sub \in Submissions,
         p \in Submissions => r.sub = p, proc' = [proc EXCEPT ![p] = r]
  PROVE  ProcType' /\ ProcControl'
<1> HIDE DEF Proc
<1> QED
  BY DEF ProcType, ProcControl

\* A call that moves on to another step keeps its submission.
LEMMA GotoKeepsProcs ==
  ASSUME ProcType, ProcControl, NEW p \in Procs, NEW pc \in ProcPcs,
         proc[p].sub \in Submissions, Goto(p, pc)
  PROVE  ProcType' /\ ProcControl'
<1>1. [proc[p] EXCEPT !.pc = pc] \in Proc /\ [proc[p] EXCEPT !.pc = pc].sub = proc[p].sub
  BY DEF ProcType, Proc
<1>2. proc' = [proc EXCEPT ![p] = [proc[p] EXCEPT !.pc = pc]]
  BY DEF Goto
<1>3. p \in Submissions => proc[p].sub = p
  BY DEF ProcControl
<1> QED
  BY <1>1, <1>2, <1>3, RecordKeepsProcs

\* The calls of the web service keep every variable in its type.
LEMMA ClientsKeepTypes ==
  ASSUME TypeOK, ControlInv, NEW p \in Procs, NEW s \in Submissions,
         \/ CreateSubmission(s) \/ ProcNext(p)
         \/ p \in Callers /\ (CancelSubmission(p, s) \/ RegradeSubmission(p, s))
  PROVE  OtherTypes' /\ ControlInv' /\ PendingStep
<1> USE DEF TypeOK, OtherTypes, ControlInv
<1>f. PassType' /\ MonitorType' /\ WorkerType' /\ PassControl' /\ MonitorControl'
      /\ UNCHANGED <<status, onlineGraders, session, gradeRequestQueues, closed, streamVars>>
  <2> USE DEF notClients, passVars, monitorVars, workerVars, graderVars
  <2>1. UNCHANGED notClients
    BY DEF CreateSubmission, CancelSubmission, RegradeSubmission, ProcNext, RunMark, RunPush,
         RunQueued, CancelPending, CancelOwner, CancelSend, CancelCancelling, CancelCancelled,
         CancelFinish, CancelRelease, CancelDrop
  <2> QED
    BY <2>1 DEF PassType, MonitorType, WorkerType, PassControl, MonitorControl
<1>s. proc[p].pc # "idle" => proc[p].sub \in Submissions
  BY DEF ProcControl
<1>t. proc[p].pc \in ProcPcs /\ proc[p].then \in {"mark", "done"}
      /\ proc[p].grader \in Graders \cup {0} /\ proc[p].queue \in 0..MaxStreams
  BY DEF ProcType, Proc
<1>u. {"mark", "push", "queued", "cancel", "owner", "send", "cancelling",
       "cancelled", "finish", "release", "drop", "done"} \subseteq ProcPcs
  BY DEF ProcPcs
<1> USE DEF RunningType, RepositoryType, PendingStep, Briefs, Terminal, SetBrief,
            queueVars, claimVars, reportVars
<1>r. ASSUME UNCHANGED requests
      PROVE  StreamType'
  BY <1>f, <1>r DEF StreamType, streamVars
<1> HIDE DEF ProcPcs
<1>1. CASE CreateSubmission(s)
  <2>1. s \in Procs /\ proc[s].sub \in Submissions /\ Goto(s, "mark")
    BY <1>1 DEF CreateSubmission, Procs, ProcControl
  <2>2. ProcType' /\ ProcControl'
    BY <1>u, <2>1, GotoKeepsProcs
  <2> QED
    BY <1>f, <1>r, <1>1, <2>2 DEF CreateSubmission
<1>2. CASE p \in Callers /\ CancelSubmission(p, s)
  <2>1. p \notin Submissions
    BY <1>2, HubAssumption
  <2>2. ProcType' /\ ProcControl'
    <3> DEFINE r == [proc[p] EXCEPT !.pc = "cancel", !.sub = s, !.then = "done"]
    <3>1. r \in Proc /\ r.sub = s
      BY <1>u DEF ProcType, Proc
    <3>2. proc' = [proc EXCEPT ![p] = r]
      BY <1>2 DEF CancelSubmission
    <3> HIDE DEF r
    <3> QED
      BY <2>1, <3>1, <3>2, RecordKeepsProcs
  <2> QED
    BY <1>f, <1>r, <1>2, <2>2 DEF CancelSubmission
<1>3. CASE p \in Callers /\ RegradeSubmission(p, s)
  <2>1. p \notin Submissions
    BY <1>3, HubAssumption
  <2>2. ProcType' /\ ProcControl'
    <3> DEFINE first == IF brief[s] \in {"Queued", "Running"} THEN "cancel" ELSE "mark"
               r     == [proc[p] EXCEPT !.pc = first, !.sub = s, !.then = "mark"]
    <3>1. r \in Proc /\ r.sub = s
      BY <1>u DEF ProcType, Proc
    <3>2. proc' = [proc EXCEPT ![p] = r]
      BY <1>3 DEF RegradeSubmission
    <3> HIDE DEF r
    <3> QED
      BY <2>1, <3>1, <3>2, RecordKeepsProcs
  <2> QED
    BY <1>f, <1>r, <1>3, <2>2 DEF RegradeSubmission
<1>4. CASE RunMark(p)
  <2>2. ProcType' /\ ProcControl'
    BY <1>4, <1>s, <1>u, GotoKeepsProcs DEF RunMark
  <2> QED
    BY <1>f, <1>r, <1>s, <1>4, <2>2 DEF RunMark
<1>5. CASE RunPush(p)
  <2>2. ProcType' /\ ProcControl'
    BY <1>5, <1>s, <1>u, GotoKeepsProcs DEF RunPush
  <2> QED
    BY <1>f, <1>r, <1>s, <1>5, <2>2 DEF RunPush, PushPending
<1>6. CASE RunQueued(p)
  <2>2. ProcType' /\ ProcControl'
    BY <1>6, <1>s, <1>u, GotoKeepsProcs DEF RunQueued
  <2> QED
    BY <1>f, <1>r, <1>s, <1>6, <2>2 DEF RunQueued
<1>7. CASE CancelPending(p)
  <2>2. ProcType' /\ ProcControl'
    BY <1>7, <1>s, <1>u, GotoKeepsProcs DEF CancelPending
  <2> QED
    BY <1>f, <1>r, <1>s, <1>7, <2>2 DEF CancelPending
<1>8. CASE CancelOwner(p)
  <2> DEFINE g == submissionGrader[proc[p].sub]
             r == [proc[p] EXCEPT !.pc = "send", !.grader = g, !.queue = gradeRequestQueues[g]]
  <2>1. g \in Graders \cup {0} /\ proc[p].sub \in Submissions
    BY <1>8, <1>s DEF CancelOwner
  <2>2. ASSUME g \in Graders, proc' = [proc EXCEPT ![p] = r]
        PROVE  ProcType' /\ ProcControl'
    <3>1. gradeRequestQueues[g] \in 0..MaxStreams
      BY <2>2 DEF StreamType
    <3> HIDE DEF g
    <3>2. r \in Proc /\ r.sub = proc[p].sub
      BY <1>u, <2>2, <3>1 DEF ProcType, Proc
    <3>3. p \in Submissions => proc[p].sub = p
      BY DEF ProcControl
    <3> HIDE DEF r
    <3> QED
      BY <2>1, <2>2, <3>2, <3>3, RecordKeepsProcs
  <2>3. ProcType' /\ ProcControl'
    BY <1>8, <1>u, <2>1, <2>2, GotoKeepsProcs DEF CancelOwner
  <2> QED
    BY <1>f, <1>r, <1>8, <2>3 DEF CancelOwner
<1>9. CASE CancelSend(p)
  <2>1. ASSUME NEW pc \in ProcPcs,
               proc' = [proc EXCEPT ![p] = [[proc[p] EXCEPT !.grader = 0, !.queue = 0]
                                            EXCEPT !.pc = pc]]
        PROVE  ProcType' /\ ProcControl'
    <3>1. 0 \in 0..MaxStreams
      BY HubAssumption
    <3>2. [[proc[p] EXCEPT !.grader = 0, !.queue = 0] EXCEPT !.pc = pc] \in Proc
      BY <2>1, <3>1 DEF ProcType, Proc
    <3>3. [[proc[p] EXCEPT !.grader = 0, !.queue = 0] EXCEPT !.pc = pc].sub = proc[p].sub
      BY DEF ProcType, Proc
    <3> QED
      BY <1>9, <1>s, <2>1, <3>2, <3>3 DEF ProcType, ProcControl, CancelSend
  <2>2. ProcType' /\ ProcControl'
    BY <1>9, <1>u, <2>1 DEF CancelSend
  <2>3. [sub |-> proc[p].sub, cancel |-> TRUE] \in Request
    BY <1>9, <1>s DEF CancelSend, Request
  <2>4. requests' \in [Graders -> [Streams -> Seq(Request)]]
    <3>1. CASE Push(proc[p].grader, proc[p].queue, [sub |-> proc[p].sub, cancel |-> TRUE])
      BY <2>3, <3>1, PushKeepsType
    <3>2. CASE UNCHANGED requests
      BY <3>2 DEF StreamType
    <3> QED
      BY <1>9, <3>1, <3>2 DEF CancelSend
  <2>5. StreamType'
    BY <1>f, <2>4 DEF StreamType, streamVars
  <2> QED
    BY <1>f, <1>9, <2>2, <2>5 DEF CancelSend
<1>10. CASE CancelCancelling(p)
  <2>2. ProcType' /\ ProcControl'
    BY <1>10, <1>s, <1>t, <1>u, GotoKeepsProcs DEF CancelCancelling
  <2> QED
    BY <1>f, <1>r, <1>s, <1>10, <2>2 DEF CancelCancelling
<1>11. CASE CancelCancelled(p)
  <2>2. ProcType' /\ ProcControl'
    BY <1>11, <1>s, <1>u, GotoKeepsProcs DEF CancelCancelled
  <2> QED
    BY <1>f, <1>r, <1>s, <1>11, <2>2 DEF CancelCancelled
<1>12. CASE CancelFinish(p)
  <2>2. ProcType' /\ ProcControl'
    BY <1>12, <1>s, <1>u, GotoKeepsProcs DEF CancelFinish
  <2> QED
    BY <1>f, <1>r, <1>12, <2>2 DEF CancelFinish
<1>13. CASE CancelRelease(p)
  <2>1. /\ submissionGrader' \in [Submissions -> Graders \cup {0}]
        /\ graderSubmissions' \in [Graders -> SUBSET Submissions]
    BY <1>13, ReleaseKeepsClaims DEF CancelRelease
  <2>2. ProcType' /\ ProcControl'
    BY <1>13, <1>s, <1>u, GotoKeepsProcs DEF CancelRelease
  <2> QED
    BY <1>f, <1>r, <1>13, <2>1, <2>2 DEF CancelRelease
<1>14. CASE CancelDrop(p)
  <2>2. ProcType' /\ ProcControl'
    BY <1>14, <1>s, <1>t, <1>u, GotoKeepsProcs DEF CancelDrop
  <2> QED
    BY <1>f, <1>r, <1>14, <2>2 DEF CancelDrop, FinishDrop
<1> QED
  BY <1>1, <1>2, <1>3, <1>4, <1>5, <1>6, <1>7, <1>8, <1>9, <1>10, <1>11, <1>12, <1>13, <1>14
  DEF ProcNext

\* The report handlers keep every variable in its type.
LEMMA ReportsKeepTypes ==
  ASSUME TypeOK, ControlInv, NEW g \in Graders, NEW s \in Submissions, ReportNext(g, s)
  PROVE  OtherTypes' /\ ControlInv' /\ PendingStep
<1> USE DEF TypeOK, OtherTypes, ControlInv
<1>f. StreamType' /\ PassType' /\ MonitorType' /\ ProcType' /\ ControlInv' /\ PendingStep
      /\ UNCHANGED <<status, worker, faults>>
  <2>1. UNCHANGED notReports
    BY DEF ReportNext, CallbackAccepted, CallbackDenied, CallbackWrite, JobStopsSilently,
           CallbackFinish, CallbackRelease, CallbackDrop
  <2> USE DEF notReports, graderVars, outboxVars, streamVars, passVars, monitorVars
  <2>2. StreamType' /\ PassType' /\ PassControl' /\ PendingStep
    BY <2>1 DEF StreamType, PassType, PassControl, PendingStep
  <2>3. MonitorType' /\ MonitorControl' /\ ProcType' /\ ProcControl'
    BY <2>1 DEF MonitorType, MonitorControl, ProcType, ProcControl
  <2> QED
    BY <2>1, <2>2, <2>3
<1> USE DEF RunningType, RepositoryType, WorkerType, claimVars, reportVars
<1>1. CASE CallbackAccepted(g, s)
  <2>1. PICK report \in NextReports(jobs[g][s]) :
          /\ callback' = [callback EXCEPT ![g][s] = report]
          /\ jobs' = [jobs EXCEPT ![g][s] = IF report \in Terminal THEN "none" ELSE @]
    BY <1>1 DEF CallbackAccepted
  <2>2. report \in {"Running", "Finished", "Cancelled"}
    BY <2>1 DEF NextReports
  <2>3. WorkerType'
    BY <1>f, <2>1, <2>2 DEF Terminal
  <2> QED
    BY <1>f, <1>1, <2>3 DEF CallbackAccepted
<1>2. CASE CallbackDenied(g, s)
  BY <1>f, <1>2 DEF CallbackDenied
<1>3. CASE CallbackWrite(g, s)
  <2>1. callback[g][s] \in {"Running"} \cup Terminal
    BY <1>3 DEF CallbackWrite
  <2>2. RepositoryType' /\ RunningType'
    BY <1>f, <1>3, <2>1 DEF CallbackWrite, SetBrief, Briefs
  <2>3. WorkerType'
    BY <1>f, <1>3 DEF CallbackWrite
  <2> QED
    BY <1>f, <2>2, <2>3
<1>4. CASE JobStopsSilently(g, s)
  BY <1>f, <1>4 DEF JobStopsSilently
<1>5. CASE CallbackFinish(g, s)
  BY <1>f, <1>5 DEF CallbackFinish
<1>6. CASE CallbackRelease(g, s)
  <2>1. /\ submissionGrader' \in [Submissions -> Graders \cup {0}]
        /\ graderSubmissions' \in [Graders -> SUBSET Submissions]
    BY <1>6, ReleaseKeepsClaims DEF CallbackRelease
  <2>2. RepositoryType' /\ RunningType'
    BY <1>f, <1>6, <2>1 DEF CallbackRelease
  <2>3. WorkerType'
    BY <1>f, <1>6 DEF CallbackRelease
  <2> QED
    BY <1>f, <2>2, <2>3
<1>7. CASE CallbackDrop(g, s)
  BY <1>f, <1>7 DEF CallbackDrop, FinishDrop
<1> QED
  BY <1>1, <1>2, <1>3, <1>4, <1>5, <1>6, <1>7 DEF ReportNext

\* What a batch of requests makes of a worker's job is a state of a job.
LEMMA JobAfterType ==
  ASSUME NEW old \in {"none", "active", "stopping"}, NEW ops, NEW heard
  PROVE  JobAfter(old, ops, heard) \in {"none", "active", "stopping"}
  BY DEF JobAfter

\* Registration and the streams keep every variable in its type.
LEMMA StreamsKeepTypes ==
  ASSUME TypeOK, ControlInv, NEW g \in Graders, NEW n \in Streams,
         RegisterGrader(g) \/ Reconnect(g) \/ StreamNext(g, n)
  PROVE  OtherTypes' /\ ControlInv' /\ PendingStep
<1> USE DEF TypeOK, OtherTypes, ControlInv
<1>f. /\ PassType' /\ ProcType' /\ RepositoryType' /\ PassControl' /\ ProcControl' /\ PendingStep
      /\ UNCHANGED <<runningList, closed, monQueue, monSubs, monRequeue, monCur, callback, faults>>
  <2>1. UNCHANGED <<queuedList, queuedListIndex, runningList, claimVars, brief, closed, monQueue,
                    monSubs, monRequeue, monCur, notMonitor, faults>>
    BY DEF RegisterGrader, Reconnect, StreamNext, GraderHeartbeat, HeartbeatNotRegistered,
           HeartbeatReceived, RecvError, SendRequests, SendFails, MonitorBeat, MonitorStreamEnded,
           queueVars, outboxVars, monitorVars
  <2>2. status' \in [Graders -> {"None", "Online", "Unknown", "Offline"}]
    BY DEF RegisterGrader, Reconnect, StreamNext, GraderHeartbeat, HeartbeatNotRegistered,
           HeartbeatReceived, RecvError, SendRequests, SendFails, MonitorBeat, MonitorStreamEnded,
           graderVars, RepositoryType
  <2> USE DEF notMonitor, passVars, claimVars
  <2>3. RepositoryType' /\ PendingStep
    BY <2>1, <2>2 DEF RepositoryType, PendingStep
  <2>4. PassType' /\ PassControl' /\ ProcType' /\ ProcControl'
    BY <2>1 DEF PassType, PassControl, ProcType, ProcControl
  <2> QED
    BY <2>1, <2>3, <2>4
<1> USE DEF RunningType, StreamType, MonitorType, WorkerType, MonitorControl, MonitorPcs,
            queueVars, graderVars, outboxVars, streamVars, monitorVars, workerVars
<1>1. CASE RegisterGrader(g)
  BY <1>f, <1>1 DEF RegisterGrader
<1>2. CASE Reconnect(g)
  BY <1>f, <1>2 DEF Reconnect
<1>3. CASE GraderHeartbeat(g, n)
  <2>1. RunningType' /\ WorkerType'
    BY <1>f, <1>3 DEF GraderHeartbeat
  <2>2. MonitorType' /\ MonitorControl'
    BY <1>f, <1>3 DEF GraderHeartbeat
  <2>3. n \in 0..MaxStreams
    BY HubAssumption DEF Streams
  <2>4. StreamType'
    BY <1>f, <1>3, <2>3 DEF GraderHeartbeat
  <2> QED
    BY <1>f, <2>1, <2>2, <2>4
<1>4. CASE HeartbeatNotRegistered(g, n)
  BY <1>f, <1>4 DEF HeartbeatNotRegistered
<1>5. CASE HeartbeatReceived(g, n)
  BY <1>f, <1>5 DEF HeartbeatReceived
<1>6. CASE RecvError(g, n)
  BY <1>f, <1>6 DEF RecvError
<1>7. CASE SendRequests(g, n)
  <2>1. PICK heard \in SUBSET Submissions :
          jobs' = [jobs EXCEPT ![g] = [s \in Submissions |->
                    JobAfter(@[s], RequestsFor(s, requests[g][n]), s \in heard)]]
    BY <1>7 DEF SendRequests
  <2>2. jobs' \in [Graders -> [Submissions -> {"none", "active", "stopping"}]]
    <3>1. ASSUME NEW s \in Submissions
          PROVE  JobAfter(jobs[g][s], RequestsFor(s, requests[g][n]), s \in heard)
                   \in {"none", "active", "stopping"}
      <4>1. jobs[g][s] \in {"none", "active", "stopping"}
        OBVIOUS
      <4> QED
        BY <4>1, JobAfterType, Zenon
    <3> QED
      BY <2>1, <3>1
  <2>3. WorkerType'
    BY <1>f, <1>7, <2>2 DEF SendRequests
  <2>4. StreamType' /\ RunningType' /\ MonitorType' /\ MonitorControl'
    BY <1>f, <1>7 DEF SendRequests
  <2> QED
    BY <1>f, <2>3, <2>4
<1>8. CASE SendFails(g, n)
  BY <1>f, <1>8 DEF SendFails
<1>9. CASE MonitorBeat(g, n)
  <2>1. onlineGraders' \subseteq Graders
    BY <1>9 DEF MonitorBeat
  <2> QED
    BY <1>f, <1>9, <2>1 DEF MonitorBeat
<1>10. CASE MonitorStreamEnded(g, n)
  <2>1. StreamType' /\ RunningType' /\ WorkerType'
    BY <1>f, <1>10 DEF MonitorStreamEnded
  <2>2. MonitorType' /\ MonitorControl'
    BY <1>f, <1>10 DEF MonitorStreamEnded
  <2> QED
    BY <1>f, <2>1, <2>2
<1> QED
  BY <1>1, <1>2, <1>3, <1>4, <1>5, <1>6, <1>7, <1>8, <1>9, <1>10 DEF StreamNext

\* What was in an outbox are requests about submissions.
LEMMA UndeliveredType ==
  ASSUME StreamType, MonitorType, NEW g \in Graders
  PROVE  Undelivered(g) \subseteq Submissions
<1>1. CASE monQueue[g] = 0
  BY <1>1 DEF Undelivered
<1>2. CASE monQueue[g] # 0
  <2>1. monQueue[g] \in Streams
    BY <1>2, HubAssumption DEF MonitorType, Streams
  <2>2. requests[g][monQueue[g]] \in Seq(Request)
    BY <2>1 DEF StreamType
  <2>3. \A i \in 1..Len(requests[g][monQueue[g]]) : requests[g][monQueue[g]][i].sub \in Submissions
    <3> SUFFICES ASSUME NEW batch \in Seq(Request), NEW i \in 1..Len(batch)
                 PROVE  batch[i].sub \in Submissions
      BY <2>2
    <3>1. batch[i] \in Request
      BY ElementOfSeq
    <3> QED
      BY <3>1 DEF Request
  <2> QED
    BY <1>2, <2>3 DEF Undelivered
<1> QED
  BY <1>1, <1>2

\* The timer and onGraderOffline keep every variable in its type.
LEMMA MonitorKeepsTypes ==
  ASSUME TypeOK, ControlInv, NEW g \in Graders,
         MonitorTimeout(g) \/ MonitorWriteBack(g) \/ OfflineNext(g)
  PROVE  OtherTypes' /\ ControlInv' /\ PendingStep
<1> USE DEF TypeOK, OtherTypes, ControlInv
<1>f. /\ PassType' /\ ProcType' /\ PassControl' /\ ProcControl'
      /\ UNCHANGED <<unfinished, session, handler, linkUp, callback, worker, jobs>>
  <2>1. UNCHANGED <<notMonitor, session, handler, linkUp, worker, jobs>>
    BY DEF MonitorTimeout, MonitorWriteBack, OfflineNext, OfflineBegin, OfflineTake, OfflineClaims,
           OfflineCollect, OfflineRelease, OfflineCheck, OfflinePush, OfflineBrief, OfflineEnd,
           graderVars, streamVars, workerVars
  <2> QED
    BY <2>1 DEF notMonitor, passVars, PassType, PassControl, ProcType, ProcControl
<1> USE DEF RunningType, RepositoryType, StreamType, MonitorType, WorkerType, MonitorControl,
            MonitorPcs, PendingStep, queueVars, claimVars, graderVars, outboxVars, streamVars,
            workerVars
<1>1. CASE MonitorTimeout(g)
  <2>1. MonitorType' /\ MonitorControl'
    BY <1>f, <1>1 DEF MonitorTimeout
  <2>2. faults' \in 0..MaxFaults
    BY <1>1, HubAssumption DEF MonitorTimeout, Fault
  <2>3. RunningType' /\ RepositoryType' /\ PendingStep
    BY <1>f, <1>1 DEF MonitorTimeout
  <2>4. StreamType' /\ WorkerType'
    BY <1>f, <1>1, <2>2 DEF MonitorTimeout
  <2> QED
    BY <1>f, <2>1, <2>3, <2>4
<1>2. CASE MonitorWriteBack(g)
  <2>1. MonitorType' /\ MonitorControl'
    BY <1>f, <1>2 DEF MonitorWriteBack
  <2> QED
    BY <1>f, <1>2, <2>1 DEF MonitorWriteBack
<1>3. CASE OfflineBegin(g)
  <2>1. MonitorType' /\ MonitorControl'
    BY <1>f, <1>3 DEF OfflineBegin
  <2> QED
    BY <1>f, <1>3, <2>1 DEF OfflineBegin
<1>4. CASE OfflineTake(g)
  <2>1. MonitorType' /\ MonitorControl'
    BY <1>f, <1>4 DEF OfflineTake
  <2>2. StreamType'
    BY <1>f, <1>4, HubAssumption DEF OfflineTake
  <2>3. RunningType' /\ RepositoryType' /\ WorkerType' /\ PendingStep
    BY <1>f, <1>4 DEF OfflineTake
  <2> QED
    BY <1>f, <2>1, <2>2, <2>3
<1>5. CASE OfflineClaims(g)
  <2>1. MonitorType' /\ MonitorControl'
    BY <1>f, <1>5 DEF OfflineClaims
  <2> QED
    BY <1>f, <1>5, <2>1 DEF OfflineClaims
<1>6. CASE OfflineCollect(g)
  <2>1. (monSubs[g] \cap runningList) \cup Undelivered(g) \subseteq Submissions
    BY UndeliveredType
  <2>2. MonitorType' /\ MonitorControl'
    BY <1>f, <1>6, <2>1, HubAssumption DEF OfflineCollect
  <2>3. RunningType' /\ RepositoryType' /\ WorkerType' /\ PendingStep
    BY <1>f, <1>6 DEF OfflineCollect
  <2>4. \/ UNCHANGED <<requests, closed, sendLoop>>
        \/ \E n \in Streams : /\ requests' = [requests EXCEPT ![g][n] = <<>>]
                              /\ closed' = [closed EXCEPT ![g][n] = TRUE]
                              /\ sendLoop' = [sendLoop EXCEPT ![g][n] = FALSE]
    <3>1. monQueue[g] # 0 => monQueue[g] \in Streams
      BY HubAssumption DEF Streams
    <3>2. CASE monQueue[g] = 0
      BY <1>6, <3>2 DEF OfflineCollect
    <3>3. CASE monQueue[g] # 0
      <4>1. /\ requests' = [requests EXCEPT ![g][monQueue[g]] = <<>>]
            /\ closed' = [closed EXCEPT ![g][monQueue[g]] = TRUE]
            /\ sendLoop' = [sendLoop EXCEPT ![g][monQueue[g]] = FALSE]
        BY <1>6, <3>3 DEF OfflineCollect
      <4> QED
        BY <3>1, <3>3, <4>1
    <3> QED
      BY <3>2, <3>3
  <2>5. /\ requests' \in [Graders -> [Streams -> Seq(Request)]]
        /\ closed' \in [Graders -> [Streams -> BOOLEAN]]
        /\ sendLoop' \in [Graders -> [Streams -> BOOLEAN]]
    <3>1. CASE UNCHANGED <<requests, closed, sendLoop>>
      BY <3>1
    <3>2. ASSUME NEW n \in Streams, requests' = [requests EXCEPT ![g][n] = <<>>],
                 closed' = [closed EXCEPT ![g][n] = TRUE],
                 sendLoop' = [sendLoop EXCEPT ![g][n] = FALSE]
          PROVE  /\ requests' \in [Graders -> [Streams -> Seq(Request)]]
                 /\ closed' \in [Graders -> [Streams -> BOOLEAN]]
                 /\ sendLoop' \in [Graders -> [Streams -> BOOLEAN]]
      BY <3>2
    <3> QED
      BY <2>4, <3>1, <3>2
  <2>6. StreamType'
    BY <1>f, <1>6, <2>5 DEF OfflineCollect
  <2> QED
    BY <1>f, <2>2, <2>3, <2>6
<1>7. ASSUME NEW s \in Submissions, OfflineRelease(g, s)
      PROVE  OtherTypes' /\ ControlInv' /\ PendingStep
  <2>1. /\ submissionGrader' \in [Submissions -> Graders \cup {0}]
        /\ graderSubmissions' \in [Graders -> SUBSET Submissions]
    BY <1>7, ReleaseKeepsClaims DEF OfflineRelease
  <2>2. MonitorType' /\ MonitorControl'
    BY <1>f, <1>7 DEF OfflineRelease
  <2>3. RunningType' /\ RepositoryType' /\ WorkerType' /\ PendingStep
    BY <1>f, <1>7, <2>1 DEF OfflineRelease
  <2>4. StreamType'
    BY <1>f, <1>7 DEF OfflineRelease
  <2> QED
    BY <1>f, <2>2, <2>3, <2>4
<1>8. ASSUME NEW s \in Submissions, OfflineCheck(g, s)
      PROVE  OtherTypes' /\ ControlInv' /\ PendingStep
  <2>1. \/ UNCHANGED <<monitor, monCur>>
        \/ /\ monitor' = [monitor EXCEPT ![g] = "push"]
           /\ monCur' = [monCur EXCEPT ![g] = s]
    BY <1>8 DEF OfflineCheck
  <2>2. MonitorType'
    <3>1. monRequeue' = [monRequeue EXCEPT ![g] = @ \ {s}] /\ UNCHANGED <<monQueue, monSubs, monFinal>>
      BY <1>8 DEF OfflineCheck
    <3>2. monRequeue' \in [Graders -> SUBSET Submissions]
      BY <3>1
    <3>3. monitor' \in [Graders -> MonitorPcs] /\ monCur' \in [Graders -> Submissions \cup {"none"}]
      <4>1. CASE UNCHANGED <<monitor, monCur>>
        BY <4>1
      <4>2. CASE monitor' = [monitor EXCEPT ![g] = "push"] /\ monCur' = [monCur EXCEPT ![g] = s]
        BY <4>2
      <4> QED
        BY <2>1, <4>1, <4>2
    <3> QED
      BY <3>1, <3>2, <3>3
  <2>3. MonitorControl'
    <3>1. CASE UNCHANGED <<monitor, monCur>>
      BY <3>1
    <3>2. CASE monitor' = [monitor EXCEPT ![g] = "push"] /\ monCur' = [monCur EXCEPT ![g] = s]
      BY <3>2
    <3> QED
      BY <2>1, <3>1, <3>2
  <2>4. RunningType' /\ RepositoryType' /\ WorkerType' /\ PendingStep
    BY <1>f, <1>8 DEF OfflineCheck
  <2>5. StreamType'
    BY <1>f, <1>8 DEF OfflineCheck
  <2> QED
    BY <1>f, <2>2, <2>3, <2>4, <2>5
<1>9. CASE OfflinePush(g)
  <2>1. MonitorType' /\ MonitorControl'
    BY <1>f, <1>9 DEF OfflinePush
  <2>2. PendingStep /\ schedulerWake' = TRUE
    BY <1>9 DEF OfflinePush, PushPending
  <2>3. RunningType' /\ RepositoryType' /\ WorkerType'
    BY <1>f, <1>9, <2>2 DEF OfflinePush
  <2>4. StreamType'
    BY <1>f, <1>9 DEF OfflinePush
  <2> QED
    BY <1>f, <2>1, <2>2, <2>3, <2>4
<1>10. CASE OfflineBrief(g)
  <2>1. MonitorType' /\ MonitorControl'
    BY <1>f, <1>10 DEF OfflineBrief
  <2>2. RunningType' /\ RepositoryType' /\ WorkerType' /\ PendingStep
    BY <1>f, <1>10 DEF OfflineBrief, SetBrief, Briefs
  <2>3. StreamType'
    BY <1>f, <1>10 DEF OfflineBrief
  <2> QED
    BY <1>f, <2>1, <2>2, <2>3
<1>11. CASE OfflineEnd(g)
  <2>1. MonitorType' /\ MonitorControl'
    BY <1>f, <1>11 DEF OfflineEnd
  <2>2. RunningType' /\ RepositoryType' /\ WorkerType' /\ PendingStep
    BY <1>f, <1>11 DEF OfflineEnd
  <2>3. StreamType'
    BY <1>f, <1>11 DEF OfflineEnd
  <2> QED
    BY <1>f, <2>1, <2>2, <2>3
<1> QED
  BY <1>1, <1>2, <1>3, <1>4, <1>5, <1>6, <1>7, <1>8, <1>9, <1>10, <1>11 DEF OfflineNext

\* Faults keep every variable in its type.
LEMMA FaultsKeepTypes ==
  ASSUME TypeOK, ControlInv,
         \/ \E g \in Graders, n \in Streams : StreamBreak(g, n)
         \/ \E g \in Graders : GraderCrash(g)
         \/ Restart
  PROVE  OtherTypes' /\ ControlInv' /\ PendingStep
<1> USE DEF TypeOK, OtherTypes, ControlInv
<1>f. faults' \in 0..MaxFaults /\ 0 \in 0..MaxStreams /\ <<>> \in Seq(Request) /\ <<>> \in Seq(Submissions)
  BY HubAssumption DEF WorkerType, StreamBreak, GraderCrash, Restart, Fault
<1>1. ASSUME NEW g \in Graders, NEW n \in Streams, StreamBreak(g, n)
      PROVE  OtherTypes' /\ ControlInv' /\ PendingStep
  <2> USE DEF StreamBreak, queueVars, claimVars, reportVars, graderVars, outboxVars, passVars,
              monitorVars, workerVars
  <2>1. RunningType' /\ RepositoryType' /\ WorkerType' /\ PendingStep
    BY <1>f, <1>1 DEF RunningType, RepositoryType, WorkerType, PendingStep
  <2>2. StreamType'
    BY <1>1 DEF StreamType
  <2>3. PassType' /\ PassControl' /\ MonitorType' /\ MonitorControl' /\ ProcType' /\ ProcControl'
    BY <1>1 DEF PassType, PassControl, MonitorType, MonitorControl, ProcType, ProcControl
  <2> QED
    BY <2>1, <2>2, <2>3
<1>2. ASSUME NEW g \in Graders, GraderCrash(g)
      PROVE  OtherTypes' /\ ControlInv' /\ PendingStep
  <2> USE DEF GraderCrash, queueVars, claimVars, reportVars, outboxVars, passVars, monitorVars
  <2>1. RunningType' /\ RepositoryType' /\ WorkerType' /\ PendingStep
    BY <1>f, <1>2 DEF RunningType, RepositoryType, WorkerType, PendingStep
  <2>2. StreamType'
    BY <1>2 DEF StreamType
  <2>3. PassType' /\ PassControl' /\ MonitorType' /\ MonitorControl' /\ ProcType' /\ ProcControl'
    BY <1>2 DEF PassType, PassControl, MonitorType, MonitorControl, ProcType, ProcControl
  <2> QED
    BY <2>1, <2>2, <2>3
<1>3. CASE Restart
  <2> USE DEF Restart
  <2>1. RunningType' /\ RepositoryType' /\ PendingStep
    BY <1>3 DEF RunningType, RepositoryType, PendingStep, NewGraderHubService, ClearRunning, reportVars
  <2>2. StreamType'
    BY <1>f, <1>3 DEF StreamType, NewGraderHubService
  <2>3. PassType' /\ PassControl'
    BY <1>f, <1>3 DEF PassType, PassControl, NewGraderHubService
  <2>4. MonitorType' /\ MonitorControl'
    BY <1>f, <1>3 DEF MonitorType, MonitorControl, NewGraderHubService, MonitorPcs
  <2>5. WorkerType'
    BY <1>f, <1>3 DEF WorkerType, workerVars
  <2>6. ProcType' /\ ProcControl'
    <3> DEFINE pc(p) == IF p \in unfinished THEN "mark"
                        ELSE IF proc[p].pc = "idle" THEN "idle" ELSE "done"
               r(p)  == [proc[p] EXCEPT !.pc = pc(p), !.grader = 0, !.queue = 0]
    <3>1. proc' = [p \in Procs |-> r(p)]
      BY <1>3 DEF runUnfinishedSubmissions
    <3>2. ASSUME NEW p \in Procs
          PROVE  r(p) \in Proc /\ r(p).sub = proc[p].sub /\ r(p).pc = pc(p)
      <4>1. pc(p) \in ProcPcs
        BY DEF ProcPcs
      <4>2. ASSUME NEW c \in ProcPcs, NEW q \in Proc
            PROVE  LET x == [q EXCEPT !.pc = c, !.grader = 0, !.queue = 0]
                   IN  x \in Proc /\ x.sub = q.sub /\ x.pc = c
        BY <1>f DEF Proc
      <4>3. proc[p] \in Proc
        BY DEF ProcType
      <4> HIDE DEF pc
      <4> QED
        BY <4>1, <4>2, <4>3
    <3>3. ASSUME NEW p \in Procs, pc(p) # "idle"
          PROVE  proc[p].sub \in Submissions
      BY <3>3 DEF ProcControl, RepositoryType
    <3> HIDE DEF r, pc
    <3>4. ProcType'
      BY <3>1, <3>2 DEF ProcType
    <3>5. ProcControl'
      BY <3>1, <3>2, <3>3 DEF ProcControl, Procs
    <3> QED
      BY <3>4, <3>5
  <2> QED
    BY <2>1, <2>2, <2>3, <2>4, <2>5, <2>6
<1> QED
  BY <1>1, <1>2, <1>3

\* Every step of the hub keeps every variable in its type.
LEMMA NextKeepsTypes ==
  ASSUME TypeOK, ControlInv, [Next]_vars
  PROVE  OtherTypes' /\ ControlInv' /\ PendingStep
<1>1. CASE SchedulerNext
  BY <1>1, SchedulerKeepsTypes
<1>2. ASSUME NEW g \in Graders, RegisterGrader(g) \/ Reconnect(g)
      PROVE  OtherTypes' /\ ControlInv' /\ PendingStep
  <2>1. 1 \in Streams
    BY HubAssumption DEF Streams
  <2> QED
    BY <1>2, <2>1, StreamsKeepTypes
<1>3. ASSUME NEW g \in Graders, NEW n \in Streams, StreamNext(g, n)
      PROVE  OtherTypes' /\ ControlInv' /\ PendingStep
  BY <1>3, StreamsKeepTypes
<1>4. ASSUME NEW g \in Graders, MonitorTimeout(g) \/ MonitorWriteBack(g) \/ OfflineNext(g)
      PROVE  OtherTypes' /\ ControlInv' /\ PendingStep
  BY <1>4, MonitorKeepsTypes
<1>5. ASSUME NEW g \in Graders, NEW s \in Submissions, ReportNext(g, s)
      PROVE  OtherTypes' /\ ControlInv' /\ PendingStep
  BY <1>5, ReportsKeepTypes
<1>6. ASSUME NEW s \in Submissions, CreateSubmission(s)
      PROVE  OtherTypes' /\ ControlInv' /\ PendingStep
  <2>1. s \in Procs
    BY DEF Procs
  <2> QED
    BY <1>6, <2>1, ClientsKeepTypes
<1>7. ASSUME NEW p \in Callers, NEW s \in Submissions, CancelSubmission(p, s) \/ RegradeSubmission(p, s)
      PROVE  OtherTypes' /\ ControlInv' /\ PendingStep
  <2>1. p \in Procs
    BY DEF Procs
  <2> QED
    BY <1>7, <2>1, ClientsKeepTypes
<1>8. ASSUME NEW p \in Procs, ProcNext(p)
      PROVE  OtherTypes' /\ ControlInv' /\ PendingStep
  <2>1. proc[p].pc # "idle"
    BY <1>8 DEF ProcNext, RunMark, RunPush, RunQueued, CancelPending, CancelOwner, CancelSend,
                CancelCancelling, CancelCancelled, CancelFinish, CancelRelease, CancelDrop
  <2>2. proc[p].sub \in Submissions
    BY <2>1 DEF ControlInv, ProcControl
  <2> QED
    BY <1>8, <2>2, ClientsKeepTypes
<1>9. CASE \/ \E g \in Graders, n \in Streams : StreamBreak(g, n)
           \/ \E g \in Graders : GraderCrash(g)
           \/ Restart
  BY <1>9, FaultsKeepTypes
<1>10. CASE UNCHANGED vars
  <2> USE <1>10 DEF TypeOK, OtherTypes, ControlInv, vars, queueVars, claimVars, reportVars, graderVars,
                    outboxVars, streamVars, passVars, monitorVars, workerVars
  <2>1. RunningType' /\ RepositoryType' /\ PendingStep /\ PassType' /\ PassControl'
    BY DEF RunningType, RepositoryType, PendingStep, PassType, PassControl
  <2>2. StreamType' /\ MonitorType' /\ MonitorControl' /\ WorkerType' /\ ProcType' /\ ProcControl'
    BY DEF StreamType, MonitorType, MonitorControl, WorkerType, ProcType, ProcControl
  <2> QED
    BY <2>1, <2>2
<1> QED
  BY <1>1, <1>2, <1>3, <1>4, <1>5, <1>6, <1>7, <1>8, <1>9, <1>10 DEF Next

\* The inductive invariant behind types and ranks.  TypeOK alone is not
\* inductive: removePendingGradeRequest and the pushes stay within the list and
\* the submissions only because the index promises no more than the list holds
\* and because a goroutine past its first step knows its submission.
ListInv == TypeOK /\ ControlInv /\ IndexedIsPending /\ RankIsPosition

\* The empty hub satisfies it.
LEMMA InitListInv == Init => ListInv
<1> SUFFICES ASSUME Init
             PROVE  ListInv
  OBVIOUS
<1> USE DEF Init
<1>0. 0 \in 0..MaxStreams /\ 0 \in 0..MaxFaults
  BY HubAssumption
<1>1. PendingType /\ RunningType /\ IndexedIsPending /\ RankIsPosition
  <2>1. queuedList \in Seq([sub : Submissions, rank : Int]) /\ Len(queuedList) = 0
    OBVIOUS
  <2>2. PendingType /\ RunningType /\ IndexedIsPending
    BY <2>1 DEF PendingType, RunningType, IndexedIsPending, Listed
  <2>3. RankIsPosition
    BY <2>1 DEF RankIsPosition
  <2> QED
    BY <2>2, <2>3
<1>2. RepositoryType
  BY DEF RepositoryType, Briefs
<1>3. StreamType
  BY <1>0 DEF StreamType
<1>4. PassType /\ PassControl
  <2>1. todo \in Seq(Submissions) /\ loads \in [Graders -> Nat]
    OBVIOUS
  <2> QED
    BY <1>0, <2>1 DEF PassType, PassControl
<1>5. MonitorType /\ MonitorControl
  BY <1>0 DEF MonitorType, MonitorControl, MonitorPcs
<1>6. WorkerType
  BY <1>0 DEF WorkerType
<1>7. ProcType /\ ProcControl
  BY <1>0 DEF ProcType, ProcControl, Proc, ProcPcs, Procs
<1> QED
  BY <1>1, <1>2, <1>3, <1>4, <1>5, <1>6, <1>7 DEF ListInv, TypeOK, ControlInv

\* Every step keeps it.
LEMMA NextListInv == ListInv /\ [Next]_vars => ListInv'
<1> SUFFICES ASSUME ListInv, [Next]_vars
             PROVE  ListInv'
  OBVIOUS
<1>1. OtherTypes' /\ ControlInv' /\ PendingStep
  BY NextKeepsTypes DEF ListInv
<1>2. PendingInv
  BY DEF ListInv, TypeOK, PendingInv
<1>3. PendingInv'
  BY <1>1, <1>2, PendingStepKeepsInv
<1> QED
  BY <1>1, <1>3 DEF ListInv, TypeOK, OtherTypes, PendingInv

\* In every reachable state of the hub every variable has its type, whatever the
\* numbers of submissions, graders, callers, streams and faults.
THEOREM TypeCorrect == Spec => []TypeOK
<1>1. ListInv => TypeOK
  BY DEF ListInv
<1> QED
  BY <1>1, InitListInv, NextListInv, PTL DEF Spec

\* The rank of a pending request is always its position in the pending list:
\* no interleaving of pushes, cancels, dispatches, requeues and restarts, nor a
\* submission that is in the list twice, breaks the numbers shown to clients.
THEOREM RanksCorrect == Spec => []RankIsPosition
<1>1. ListInv => RankIsPosition
  BY DEF ListInv
<1> QED
  BY <1>1, InitListInv, NextListInv, PTL DEF Spec

\* removePendingGradeRequest always finds the element the index promises.
THEOREM IndexSound == Spec => []IndexedIsPending
<1>1. ListInv => IndexedIsPending
  BY DEF ListInv
<1> QED
  BY <1>1, InitListInv, NextListInv, PTL DEF Spec

-----------------------------------------------------------------------------
(* The capacity of the graders *)

\* A grader's load does not grow when its claims are a subset of what they were.
LEMMA LoadShrinks ==
  ASSUME RepositoryType, RepositoryType', NEW g \in Graders,
         graderSubmissions'[g] \subseteq graderSubmissions[g]
  PROVE  Cardinality(graderSubmissions'[g]) <= Cardinality(graderSubmissions[g])
<1>1. IsFiniteSet(graderSubmissions[g])
  BY LoadIsNat
<1> QED
  BY <1>1, FS_Subset

\* Nobody but the scheduler (and a restart) touches a pass, and nobody else
\* makes a claim.
LEMMA OthersClaimNothing ==
  ASSUME TypeOK, ControlInv, [Next]_vars, ~SchedulerNext, ~Restart
  PROVE  /\ UNCHANGED passVars
         /\ \A g \in Graders : graderSubmissions'[g] \subseteq graderSubmissions[g]
<1> DEFINE Goal == /\ UNCHANGED passVars
                   /\ UNCHANGED graderSubmissions \/ \E s : ReleaseSubmission(s)
<1> USE DEF claimVars
<1>1. ASSUME NEW g \in Graders, RegisterGrader(g) \/ Reconnect(g) \/ MonitorTimeout(g) \/ MonitorWriteBack(g)
      PROVE  Goal
  BY <1>1 DEF RegisterGrader, Reconnect, MonitorTimeout, MonitorWriteBack, notMonitor
<1>2. ASSUME NEW g \in Graders, OfflineNext(g)
      PROVE  Goal
  BY <1>2 DEF OfflineNext, OfflineBegin, OfflineTake, OfflineClaims, OfflineCollect, OfflineRelease,
              OfflineCheck, OfflinePush, OfflineBrief, OfflineEnd, notMonitor
<1>3. ASSUME NEW g \in Graders, NEW n \in Streams, StreamNext(g, n)
      PROVE  Goal
  BY <1>3 DEF StreamNext, GraderHeartbeat, HeartbeatNotRegistered, HeartbeatReceived, RecvError,
              SendRequests, SendFails, MonitorBeat, MonitorStreamEnded, notMonitor
<1>4. ASSUME NEW g \in Graders, GraderCrash(g) \/ \E n \in Streams : StreamBreak(g, n)
      PROVE  Goal
  BY <1>4 DEF GraderCrash, StreamBreak
<1>5. ASSUME NEW g \in Graders, NEW s \in Submissions, ReportNext(g, s)
      PROVE  Goal
  BY <1>5 DEF ReportNext, CallbackAccepted, CallbackDenied, CallbackWrite, JobStopsSilently,
              CallbackFinish, CallbackRelease, CallbackDrop, notReports
<1>6. ASSUME NEW p, NEW s \in Submissions,
             CreateSubmission(s) \/ CancelSubmission(p, s) \/ RegradeSubmission(p, s)
      PROVE  Goal
  BY <1>6 DEF CreateSubmission, CancelSubmission, RegradeSubmission, notClients
<1>7. ASSUME NEW p \in Procs, ProcNext(p)
      PROVE  Goal
  BY <1>7 DEF ProcNext, RunMark, RunPush, RunQueued, CancelPending, CancelOwner, CancelSend,
              CancelCancelling, CancelCancelled, CancelFinish, CancelRelease, CancelDrop, notClients
<1>8. ASSUME UNCHANGED vars
      PROVE  Goal
  BY <1>8 DEF vars
<1>9. Goal
  <2> HIDE DEF Goal
  <2> QED
    BY <1>1, <1>2, <1>3, <1>4, <1>5, <1>6, <1>7, <1>8 DEF Next
<1> QED
  BY <1>9, ReleaseKeepsClaims DEF TypeOK

\* A step of the scheduler keeps the loads of its pass above the claims, and the
\* claims within the concurrency.
LEMMA SchedulerKeepsCapacity ==
  ASSUME TypeOK, ControlInv, TypeOK', PassLoads, CapacityRespected, SchedulerNext
  PROVE  PassLoads' /\ CapacityRespected'
<1>t. /\ PassType /\ PassControl /\ RepositoryType /\ RepositoryType'
      /\ Concurrency \in [Graders -> Nat]
      /\ \A g \in Graders : Cardinality(graderSubmissions[g]) \in Nat
  BY HubAssumption, LoadIsNat DEF TypeOK, ControlInv
<1> USE DEF PassType, PassLoads, CapacityRespected, claimVars
<1>1. CASE BeginPass
  <2>1. UNCHANGED graderSubmissions /\ onlineGraders \subseteq Graders
    BY <1>1 DEF BeginPass, TypeOK, StreamType
  <2> QED
    BY <1>t, <1>1, <2>1 DEF BeginPass
<1>2. CASE SkipPending
  BY <1>t, <1>2 DEF SkipPending
<1>3. CASE PickGrader
  <2> DEFINE g == pickGrader(Head(todo))
  <2>1. g \in candidates /\ g \in Graders /\ loads[g] < Concurrency[g]
    BY <1>t, <1>3, PickIsEligible DEF PickGrader, Eligible
  <2>2. /\ scheduler = "visit"
        /\ UNCHANGED graderSubmissions
        /\ loads' = [loads EXCEPT ![g] = @ + 1]
        /\ \/ candidates' = candidates \ {g} /\ scheduler' = "visit"
           \/ candidates' = candidates /\ scheduler' = "run" /\ target' = g
    BY <1>3 DEF PickGrader
  <2> HIDE DEF g
  <2> QED
    BY <1>t, <2>1, <2>2
<1>4. CASE MarkRunning
  BY <1>t, <1>4 DEF MarkRunning
<1>5. CASE Claim
  <2>1. /\ scheduler = "claim" /\ scheduler' = "push" /\ target \in candidates /\ target \in Graders
        /\ graderSubmissions' = [graderSubmissions EXCEPT ![target] = @ \cup {Head(todo)}]
        /\ Cardinality(graderSubmissions[target]) < loads[target]
        /\ UNCHANGED <<loads, candidates>>
    BY <1>t, <1>5 DEF Claim, ClaimSubmission
  <2>2. Cardinality(graderSubmissions'[target]) <= Cardinality(graderSubmissions[target]) + 1
    <3>1. graderSubmissions'[target] = graderSubmissions[target] \cup {Head(todo)}
      BY <1>t, <2>1 DEF RepositoryType
    <3>2. IsFiniteSet(graderSubmissions[target])
      BY <1>t, <2>1, LoadIsNat
    <3>3. \/ Cardinality(graderSubmissions[target] \cup {Head(todo)}) = Cardinality(graderSubmissions[target])
          \/ Cardinality(graderSubmissions[target] \cup {Head(todo)}) = Cardinality(graderSubmissions[target]) + 1
      BY <3>2, FS_AddElement
    <3>4. Cardinality(graderSubmissions[target]) \in Nat
      BY <1>t, <2>1
    <3> QED
      BY <3>1, <3>3, <3>4
  <2>3. Cardinality(graderSubmissions'[target]) \in Nat
    BY <1>t, <2>1, LoadIsNat, FS_Subset, FS_CardinalityType, HubAssumption DEF RepositoryType
  <2>4. \A g \in Graders \ {target} : graderSubmissions'[g] = graderSubmissions[g]
    BY <1>t, <2>1 DEF RepositoryType
  <2>5. loads[target] <= Concurrency[target] /\ loads[target] \in Nat /\ Concurrency[target] \in Nat
    BY <1>t, <2>1
  <2>6. /\ Cardinality(graderSubmissions'[target]) <= loads[target]
        /\ Cardinality(graderSubmissions'[target]) <= Concurrency[target]
    BY <1>t, <2>1, <2>2, <2>3, <2>5
  <2> QED
    BY <1>t, <2>1, <2>4, <2>6
<1>6. CASE PushAccepted
  BY <1>t, <1>6 DEF PushAccepted
<1>7. CASE PushRefused
  BY <1>t, <1>7 DEF PushRefused
<1>8. CASE UndoRunning
  BY <1>t, <1>8 DEF UndoRunning
<1>9. CASE UndoClaim
  <2>1. \A g \in Graders : graderSubmissions'[g] \subseteq graderSubmissions[g]
    BY <1>t, <1>9, ReleaseKeepsClaims DEF UndoClaim
  <2>2. \A g \in Graders : Cardinality(graderSubmissions'[g]) <= Cardinality(graderSubmissions[g])
    BY <1>t, <2>1, LoadShrinks
  <2>3. \A g \in Graders : Cardinality(graderSubmissions'[g]) \in Nat
    BY <1>t, FS_Subset, FS_CardinalityType, HubAssumption DEF RepositoryType
  <2> QED
    BY <1>t, <1>9, <2>2, <2>3 DEF UndoClaim
<1>10. CASE EndPass
  BY <1>t, <1>10 DEF EndPass
<1>11. CASE AwaitWake
  BY <1>t, <1>11 DEF AwaitWake
<1> QED
  BY <1>1, <1>2, <1>3, <1>4, <1>5, <1>6, <1>7, <1>8, <1>9, <1>10, <1>11 DEF SchedulerNext

\* CapacityRespected is not inductive: a claim stays within the concurrency
\* only because the loads a pass works with bound the claims from above.
HubInv == ListInv /\ PassLoads /\ CapacityRespected

\* Every step keeps claims within the concurrency.
LEMMA NextHubInv == HubInv /\ [Next]_vars => HubInv'
<1> SUFFICES ASSUME HubInv, [Next]_vars
             PROVE  HubInv'
  OBVIOUS
<1>1. TypeOK /\ ControlInv /\ TypeOK' /\ ListInv'
  BY NextListInv DEF HubInv, ListInv
<1>2. CASE SchedulerNext
  BY <1>1, <1>2, SchedulerKeepsCapacity DEF HubInv
<1>3. CASE Restart
  <2>1. /\ scheduler' = "lock" /\ graderSubmissions' = [g \in Graders |-> {}]
    BY <1>3 DEF Restart, NewGraderHubService, ClearRunning
  <2>2. \A g \in Graders : Cardinality(graderSubmissions'[g]) = 0
    BY <2>1, FS_EmptySet
  <2> QED
    BY <1>1, <2>1, <2>2, HubAssumption DEF HubInv, PassLoads, CapacityRespected
<1>4. CASE ~SchedulerNext /\ ~Restart
  <2>1. UNCHANGED passVars /\ \A g \in Graders : graderSubmissions'[g] \subseteq graderSubmissions[g]
    BY <1>1, <1>4, OthersClaimNothing
  <2>2. \A g \in Graders : Cardinality(graderSubmissions'[g]) <= Cardinality(graderSubmissions[g])
    BY <1>1, <2>1, LoadShrinks DEF TypeOK
  <2>3. \A g \in Graders : Cardinality(graderSubmissions[g]) \in Nat /\ Cardinality(graderSubmissions'[g]) \in Nat
    BY <1>1, FS_Subset, FS_CardinalityType, HubAssumption DEF RepositoryType, TypeOK
  <2>4. CapacityRespected'
    <3> SUFFICES ASSUME NEW g \in Graders
                 PROVE  Cardinality(graderSubmissions'[g]) <= Concurrency[g]
      BY DEF CapacityRespected
    <3>1. Cardinality(graderSubmissions[g]) <= Concurrency[g] /\ Concurrency[g] \in Nat
      BY HubAssumption DEF HubInv, CapacityRespected
    <3> QED
      BY <2>2, <2>3, <3>1
  <2>5. PassLoads'
    BY <1>1, <2>1, <2>2, <2>3, HubAssumption DEF HubInv, PassLoads, passVars, TypeOK, PassType
  <2> QED
    BY <1>1, <2>4, <2>5 DEF HubInv
<1> QED
  BY <1>2, <1>3, <1>4

\* The empty hub holds no claims.
LEMMA InitHubInv == Init => HubInv
<1> SUFFICES ASSUME Init
             PROVE  HubInv
  OBVIOUS
<1>1. scheduler = "lock" /\ graderSubmissions = [g \in Graders |-> {}]
  BY DEF Init
<1>2. \A g \in Graders : Cardinality(graderSubmissions[g]) = 0
  BY <1>1, FS_EmptySet
<1> QED
  BY <1>1, <1>2, InitListInv, HubAssumption DEF HubInv, PassLoads, CapacityRespected

\* No grader ever holds more claims than the concurrency it registered with,
\* whatever stale snapshots the scheduler decides on and whatever fails.
THEOREM CapacityCorrect == Spec => []CapacityRespected
<1>1. HubInv => CapacityRespected
  BY DEF HubInv
<1> QED
  BY <1>1, InitHubInv, NextHubInv, PTL DEF Spec

\* The loads a pass decides on never underestimate the claims of a candidate.
THEOREM SnapshotSound == Spec => []PassLoads
<1>1. HubInv => PassLoads
  BY DEF HubInv
<1> QED
  BY <1>1, InitHubInv, NextHubInv, PTL DEF Spec

-----------------------------------------------------------------------------
(* No submission is lost *)

Holds(outbox, s) == \E i \in 1..Len(outbox) : outbox[i].sub = s

\* A request for s is in some outbox.
Outstanding(s) == \E g \in Graders, n \in Streams : Holds(requests[g][n], s)

\* Nobody has heard of s but its runSubmission.
Untouched(s) ==
  /\ ~Listed(s) /\ s \notin runningList
  /\ submissionGrader[s] = 0 /\ ~Outstanding(s)
  /\ \A g \in Graders : /\ callback[g][s] = "idle" /\ s \notin monRequeue[g]
                        /\ monitor[g] = "push" => monCur[g] # s

\* The goroutine started for a submission runs it and does nothing else.
OnlyRuns == \A s \in Submissions : proc[s].pc \in {"idle", "mark", "push", "queued", "done"}

\* Before it is created a submission is not marked and nobody calls for it; before
\* it is pushed it is untouched.
Fresh ==
  \A s \in Submissions :
    /\ brief[s] = "None" => proc[s].pc = "idle" /\ s \notin unfinished /\ ~Called(s)
    /\ proc[s].pc \in {"idle", "mark", "push"} => Called(s) \/ Untouched(s)

\* A final report is written by a handler that removes the marker next, and a
\* handler that drops s from the running list has removed it.
Reported ==
  /\ \A s \in unfinished : brief[s] \in Terminal =>
       Called(s) \/ proc[s].pc = "mark" \/ \E g \in Graders : callback[g][s] = "finish"
  /\ \A g \in Graders, s \in Submissions :
       callback[g][s] \in {"release", "drop"} => Called(s) \/ s \notin unfinished

\* What a pass has left to visit is in the list, and as long as it is indexed, so
\* that a dispatch would remove it, twice in the list if twice in the pass.
TodoPending ==
  ~QueuedMuFree =>
    /\ \A i \in 1..Len(todo) : Listed(todo[i])
    /\ \A s \in queuedListIndex : Twice(todo, s) => OccursTwice(queuedList, s)

\* The request a pass is about to hand over has another place than the list.
DispatchTracked ==
  scheduler \in {"claim", "push"} /\ Head(todo) \in unfinished =>
    Called(Head(todo)) \/ Head(todo) \in runningList \/ InHands(Head(todo))

\* onGraderOffline has nothing to requeue before it collects.
Requeues ==
  \A g \in Graders :
    monitor[g] \in {"none", "idle", "writeback", "offline", "take", "claims", "collect"} =>
      monRequeue[g] = {}

TrackInv ==
  OnlyRuns /\ Fresh /\ Reported /\ TodoPending /\ DispatchTracked /\ Requeues /\ UnfinishedIsTracked

\* The steps of the streams, of the monitors before and after they requeue, and
\* the lost connections: they take requests out of outboxes and release claims.
LEMMA QuietKeeps ==
  ASSUME TrackInv,
         UNCHANGED <<queuedList, queuedListIndex, runningList, brief, unfinished, scheduler, todo,
                     callback, proc, monRequeue, monCur>>,
         \A g \in Graders : monitor[g] = "push" <=> monitor'[g] = "push",
         \A g \in Graders :
           monitor'[g] \in {"none", "idle", "writeback", "offline", "take", "claims", "collect"} =>
             monRequeue[g] = {},
         \A s \in Submissions : submissionGrader'[s] \in {submissionGrader[s], 0},
         \A s \in Submissions : Outstanding(s)' => Outstanding(s)
  PROVE  TrackInv'
<1>c. \A s : Called(s) <=> Called(s)'
  BY DEF Called
<1>1. OnlyRuns' /\ Reported' /\ Requeues' /\ TodoPending'
  BY <1>c DEF TrackInv, OnlyRuns, Reported, Requeues, TodoPending, QueuedMuFree, Listed
<1>2. Fresh'
  BY <1>c DEF TrackInv, Fresh, Untouched, Listed
<1>3. \A s : InHands(s) <=> InHands(s)'
  BY DEF InHands
<1>4. DispatchTracked' /\ UnfinishedIsTracked'
  BY <1>3, <1>c DEF TrackInv, DispatchTracked, UnfinishedIsTracked, Listed
<1> QED
  BY <1>1, <1>2, <1>4 DEF TrackInv

\* A step that touches neither reports nor requests in hands.
LEMMA PassFrame ==
  ASSUME TrackInv, UNCHANGED <<brief, unfinished, proc, callback, monitor, monRequeue, monCur>>
  PROVE  /\ OnlyRuns' /\ Reported' /\ Requeues'
         /\ \A s : (InHands(s) <=> InHands(s)') /\ (Called(s) <=> Called(s)')
<1>1. \A s : (InHands(s) <=> InHands(s)') /\ (Called(s) <=> Called(s)')
  BY DEF InHands, Called
<1> QED
  BY <1>1 DEF TrackInv, OnlyRuns, Reported, Requeues

\* The current request of a pass is in the pending list, and the rest of the pass
\* is a rest of it.
LEMMA CurrentIsListed ==
  ASSUME PassType, TodoPending, ~QueuedMuFree, todo # <<>>
  PROVE  /\ Listed(Head(todo))
         /\ \A i \in 1..Len(Tail(todo)) : \E k \in 1..Len(todo) : todo[k] = Tail(todo)[i]
         /\ \A x : Twice(Tail(todo), x) => Twice(todo, x)
<1>1. todo \in Seq(Submissions)
  BY DEF PassType
<1>2. /\ Len(todo) \in Nat /\ Len(todo) > 0 /\ Head(todo) = todo[1]
      /\ Len(Tail(todo)) = Len(todo) - 1
      /\ \A i \in 1..Len(Tail(todo)) : Tail(todo)[i] = todo[i + 1]
  BY <1>1, HeadTailProperties, EmptySeq, LenProperties
<1>3. 1 \in 1..Len(todo) /\ \A i \in 1..Len(Tail(todo)) : i + 1 \in 1..Len(todo)
  BY <1>2
<1>4. ASSUME NEW x, Twice(Tail(todo), x)
      PROVE  Twice(todo, x)
  <2>1. PICK i \in 1..Len(Tail(todo)), j \in 1..Len(Tail(todo)) :
          i # j /\ Tail(todo)[i] = x /\ Tail(todo)[j] = x
    BY <1>4 DEF Twice
  <2>2. i + 1 # j + 1
    BY <2>1
  <2> QED
    BY <1>2, <1>3, <2>1, <2>2 DEF Twice
<1> QED
  BY <1>2, <1>3, <1>4 DEF TodoPending

\* pushPendingGradeQueue lists its submission and leaves the others where they are.
LEMMA PushListed ==
  ASSUME PendingType, NEW s \in Submissions, PushPending(s), NEW r
  PROVE  Listed(r)' <=> Listed(r) \/ r = s
<1>1. (Listed(r) <=> Occurs(queuedList, r)) /\ (Listed(r)' <=> Occurs(queuedList', r))
  BY DEF Listed, Occurs
<1>2. queuedList \in Seq(Elements(Submissions)) /\ queuedList' = PushBack(queuedList, s)
  BY QueueIsPendingList DEF PushPending
<1> QED
  BY <1>1, <1>2, PushBackOccurs

\* Pushing a request makes no other submission outstanding.
LEMMA PushOutstanding ==
  ASSUME StreamType, NEW g, NEW n, NEW req \in Request, Push(g, n, req),
         NEW s, s # req.sub, Outstanding(s)'
  PROVE  Outstanding(s)
<1>1. PICK h \in Graders, m \in Streams : Holds(requests'[h][m], s)
  BY DEF Outstanding, Holds
<1>2. requests[h][m] \in Seq(Request)
  BY DEF StreamType
<1>3. requests'[h][m] = requests[h][m] \/ requests'[h][m] = Append(requests[h][m], req)
  BY DEF Push, StreamType
<1>4. ASSUME requests'[h][m] = Append(requests[h][m], req)
      PROVE  Holds(requests[h][m], s)
  <2>1. /\ Len(requests'[h][m]) = Len(requests[h][m]) + 1
        /\ requests'[h][m][Len(requests[h][m]) + 1] = req
        /\ \A i \in 1..Len(requests[h][m]) : requests'[h][m][i] = requests[h][m][i]
    BY <1>2, <1>4, AppendProperties
  <2>2. PICK i \in 1..Len(requests'[h][m]) : requests'[h][m][i].sub = s
    BY <1>1 DEF Holds
  <2>3. Len(requests[h][m]) \in Nat
    BY <1>2, LenProperties
  <2>4. i \in 1..Len(requests[h][m])
    BY <2>1, <2>2, <2>3
  <2> QED
    BY <2>1, <2>2, <2>4 DEF Holds
<1> QED
  BY <1>1, <1>3, <1>4 DEF Outstanding

\* The scheduler drops no submission: a request leaves the pending list when the
\* outbox has it, and is still pending when its dispatch is undone.
LEMMA SchedulerKeepsTrack ==
  ASSUME TypeOK, ControlInv, TrackInv, SchedulerNext
  PROVE  TrackInv'
<1>t. PendingType /\ PassType /\ RepositoryType /\ StreamType /\ PassControl
  BY DEF TypeOK, ControlInv
<1>i. /\ OnlyRuns /\ Fresh /\ TodoPending /\ DispatchTracked /\ UnfinishedIsTracked
  BY DEF TrackInv
<1>u. UNCHANGED <<brief, unfinished, proc, callback, monitor, monRequeue, monCur>>
  BY DEF SchedulerNext, BeginPass, SkipPending, PickGrader, MarkRunning, Claim, PushAccepted,
         PushRefused, UndoRunning, UndoClaim, EndPass, AwaitWake, notScheduler, reportVars,
         monitorVars
<1>f. /\ OnlyRuns' /\ Reported' /\ Requeues'
      /\ \A s : (InHands(s) <=> InHands(s)') /\ (Called(s) <=> Called(s)')
  BY <1>u, PassFrame
<1>h. ~QueuedMuFree /\ todo # <<>> =>
        /\ Listed(Head(todo))
        /\ \A i \in 1..Len(Tail(todo)) : \E k \in 1..Len(todo) : todo[k] = Tail(todo)[i]
        /\ \A x : Twice(Tail(todo), x) => Twice(todo, x)
  BY <1>i, <1>t, CurrentIsListed
<1>l. UNCHANGED queuedList => \A s : Listed(s) <=> Listed(s)'
  BY DEF Listed
<1> SUFFICES Fresh' /\ TodoPending' /\ DispatchTracked' /\ UnfinishedIsTracked'
  BY <1>f DEF TrackInv
<1> USE DEF queueVars, claimVars, QueuedMuFree
<1>w. ASSUME UNCHANGED <<queuedList, runningList, submissionGrader, requests>>
      PROVE  Fresh' /\ UnfinishedIsTracked'
  BY <1>f, <1>i, <1>l, <1>u, <1>w DEF Fresh, Untouched, Outstanding, Holds, UnfinishedIsTracked
<1>1. CASE BeginPass
  <2>1. /\ Len(SubsOf(queuedList)) = Len(queuedList)
        /\ \A i \in 1..Len(queuedList) : SubsOf(queuedList)[i] = queuedList[i].sub
    BY <1>t, QueueIsPendingList, SubsOfType
  <2>2. TodoPending' /\ DispatchTracked'
    BY <1>1, <2>1 DEF BeginPass, TodoPending, Listed, Twice, OccursTwice, DispatchTracked
  <2> QED
    BY <1>1, <1>w, <2>2 DEF BeginPass
<1>2. CASE SkipPending
  BY <1>2, <1>h, <1>i, <1>l, <1>w DEF SkipPending, TodoPending, DispatchTracked
<1>3. CASE PickGrader
  BY <1>3, <1>i, <1>l, <1>w DEF PickGrader, TodoPending, DispatchTracked
<1>4. CASE MarkRunning
  <2>1. Listed(Head(todo))
    BY <1>4, <1>h, <1>t DEF MarkRunning, PassControl
  <2>2. Fresh'
    BY <1>4, <1>f, <1>i, <1>l, <1>u, <2>1 DEF MarkRunning, Fresh, Untouched, Outstanding, Holds
  <2> QED
    BY <1>4, <1>f, <1>i, <1>l, <1>u, <2>2
       DEF MarkRunning, TodoPending, DispatchTracked, UnfinishedIsTracked
<1>5. CASE Claim
  <2>1. Listed(Head(todo))
    BY <1>5, <1>h, <1>t DEF Claim, PassControl
  <2>2. Fresh'
    BY <1>5, <1>f, <1>i, <1>l, <1>t, <1>u, <2>1
       DEF Claim, ClaimSubmission, RepositoryType, Fresh, Untouched, Outstanding, Holds
  <2> QED
    BY <1>5, <1>f, <1>i, <1>l, <1>u, <2>2
       DEF Claim, TodoPending, DispatchTracked, UnfinishedIsTracked
<1>6. CASE PushAccepted
  <2>s. PICK s : s = Head(todo)
    OBVIOUS
  <2>l. PICK left : left = TodoAfterDispatch(todo, s, s \in queuedListIndex)
    OBVIOUS
  <2>1. Listed(s) /\ todo # <<>> /\ s \in Submissions
    BY <1>6, <1>h, <1>t, <2>s, CurrentRequest DEF PushAccepted, PassControl
  <2>2. /\ todo' = left /\ UNCHANGED <<runningList, submissionGrader>>
        /\ IF s \in queuedListIndex
           THEN queuedList' = RemovePending(queuedList, s) /\ queuedListIndex' = queuedListIndex \ {s}
           ELSE UNCHANGED <<queuedList, queuedListIndex>>
    BY <1>6, <2>l, <2>s DEF PushAccepted
  <2>3. /\ \A i \in 1..Len(left) : \E k \in 1..Len(todo) : todo[k] = left[i]
        /\ \A i \in 1..Len(left) : left[i] = s => Twice(todo, s)
        /\ \A x : Twice(left, x) => Twice(todo, x)
    <3>1. todo \in Seq(Submissions) /\ todo # <<>>
      BY <1>t, <2>1 DEF PassType
    <3>2. LET x    == Head(todo)
              rest == TodoAfterDispatch(todo, x, s \in queuedListIndex)
          IN  /\ \A i \in 1..Len(rest) : \E k \in 1..Len(todo) : todo[k] = rest[i]
              /\ \A i \in 1..Len(rest) : rest[i] = x => Twice(todo, x)
              /\ \A y : Twice(rest, y) => Twice(todo, y)
      BY <3>1, TodoAfterDispatchOccurs, Zenon
    <3> QED
      BY <2>l, <2>s, <3>2
  <2>4. \A r : r # s /\ Outstanding(r)' => Outstanding(r)
    <3>1. [sub |-> s, cancel |-> FALSE] \in Request /\ [sub |-> s, cancel |-> FALSE].sub = s
      BY <2>1 DEF Request
    <3>2. Push(target, targetQueue, [sub |-> s, cancel |-> FALSE])
      BY <1>6, <2>s DEF PushAccepted
    <3> QED
      BY <1>t, <3>1, <3>2, PushOutstanding
  <2>5. \A r : /\ Listed(r)' => Listed(r)
               /\ r # s /\ Listed(r) => Listed(r)'
               /\ r # s /\ OccursTwice(queuedList, r) => OccursTwice(queuedList', r)
               /\ s \in queuedListIndex /\ OccursTwice(queuedList, s) => Listed(s)'
    <3>1. \A r : (Listed(r) <=> Occurs(queuedList, r)) /\ (Listed(r)' <=> Occurs(queuedList', r))
      BY DEF Listed, Occurs
    <3>2. CASE s \in queuedListIndex
      <4>1. queuedList \in Seq(Elements(Submissions)) /\ Occurs(queuedList, s)
        BY <1>t, <2>1, <3>1, QueueIsPendingList
      <4>2. queuedList' = RemovePending(queuedList, s)
        BY <2>2, <3>2
      <4> QED
        BY <3>1, <4>1, <4>2, RemovePendingOccurs
    <3>3. CASE s \notin queuedListIndex
      BY <2>2, <3>1, <3>3
    <3> QED
      BY <3>2, <3>3
  <2>6. TodoPending'
    <3>0. /\ \A i \in 1..Len(todo) : Listed(todo[i])
          /\ \A r \in queuedListIndex : Twice(todo, r) => OccursTwice(queuedList, r)
      BY <1>6, <1>i DEF PushAccepted, TodoPending
    <3>1. ASSUME NEW x, \E i \in 1..Len(left) : left[i] = x
          PROVE  Listed(x)'
      <4>1. Listed(x)
        BY <2>3, <3>0, <3>1
      <4>2. CASE x = s /\ s \in queuedListIndex
        BY <2>3, <2>5, <3>0, <3>1, <4>2
      <4>3. CASE x = s /\ s \notin queuedListIndex
        BY <1>l, <2>2, <4>1, <4>3
      <4>4. CASE x # s
        BY <2>5, <4>1, <4>4
      <4> QED
        BY <4>2, <4>3, <4>4
    <3>2. ASSUME NEW r \in queuedListIndex', Twice(left, r)
          PROVE  OccursTwice(queuedList', r)
      <4>1. r \in queuedListIndex /\ OccursTwice(queuedList, r)
        BY <2>2, <2>3, <3>0, <3>2
      <4> QED
        BY <2>2, <2>5, <4>1
    <3> QED
      BY <2>2, <3>1, <3>2 DEF TodoPending
  <2>7. Fresh'
    BY <1>f, <1>i, <1>u, <2>1, <2>2, <2>4, <2>5 DEF Fresh, Untouched
  <2>8. DispatchTracked' /\ UnfinishedIsTracked'
    BY <1>6, <1>f, <1>i, <1>u, <2>2, <2>5, <2>s
       DEF PushAccepted, DispatchTracked, UnfinishedIsTracked
  <2> QED
    BY <2>6, <2>7, <2>8
<1>7. CASE PushRefused
  BY <1>7, <1>i, <1>l, <1>w DEF PushRefused, TodoPending, DispatchTracked
<1>8. CASE UndoRunning
  <2>1. Listed(Head(todo))
    BY <1>8, <1>h, <1>t DEF UndoRunning, PassControl
  <2>2. Fresh'
    BY <1>8, <1>f, <1>i, <1>l, <1>u DEF UndoRunning, Fresh, Untouched, Outstanding, Holds
  <2> QED
    BY <1>8, <1>f, <1>i, <1>l, <1>u, <2>1, <2>2
       DEF UndoRunning, TodoPending, DispatchTracked, UnfinishedIsTracked
<1>9. CASE UndoClaim
  <2>1. \A s \in Submissions : submissionGrader'[s] \in {submissionGrader[s], 0}
    BY <1>9, <1>t DEF UndoClaim, ReleaseSubmission, RepositoryType
  <2>2. Fresh'
    BY <1>9, <1>f, <1>i, <1>l, <1>u, <2>1 DEF UndoClaim, Fresh, Untouched, Outstanding, Holds
  <2> QED
    BY <1>9, <1>f, <1>i, <1>l, <1>u, <2>2
       DEF UndoClaim, TodoPending, DispatchTracked, UnfinishedIsTracked
<1>10. CASE EndPass
  BY <1>10, <1>w DEF EndPass, TodoPending, DispatchTracked
<1>11. CASE AwaitWake
  BY <1>11, <1>w DEF AwaitWake, TodoPending, DispatchTracked
<1> QED
  BY <1>1, <1>2, <1>3, <1>4, <1>5, <1>6, <1>7, <1>8, <1>9, <1>10, <1>11 DEF SchedulerNext

\* A step of runSubmission moves that goroutine and no other.
LEMMA RunMoves ==
  ASSUME ProcType, ProcControl, OnlyRuns, NEW p \in Submissions,
         NEW pc \in {"mark", "push", "queued", "done"}, Goto(p, pc)
  PROVE  /\ OnlyRuns'
         /\ proc'[p].pc = pc /\ proc[p].sub = p /\ proc'[p].sub = p
         /\ \A q \in Procs : q # p => proc'[q] = proc[q]
         /\ \A s : Called(s) <=> Called(s)'
<1>1. p \in Procs /\ p \notin Callers
  BY HubAssumption DEF Procs
<1>2. /\ proc'[p] = [proc[p] EXCEPT !.pc = pc] /\ proc[p] \in Proc
      /\ \A q \in Procs : q # p => proc'[q] = proc[q]
  BY <1>1 DEF Goto, ProcType
<1>3. proc'[p].pc = pc /\ proc'[p].sub = proc[p].sub /\ proc[p].sub = p
  BY <1>2 DEF Proc, ProcControl
<1>4. OnlyRuns'
  BY <1>1, <1>2, <1>3 DEF OnlyRuns, Procs
<1>5. \A s : Called(s) <=> Called(s)'
  BY <1>1, <1>2 DEF Called, Procs
<1> QED
  BY <1>2, <1>3, <1>4, <1>5

\* The goroutine started for a submission takes the steps of runSubmission only.
LEMMA RunsOnly ==
  ASSUME OnlyRuns, NEW p \in Submissions, ProcNext(p)
  PROVE  RunMark(p) \/ RunPush(p) \/ RunQueued(p)
<1>1. proc[p].pc # "idle"
  BY DEF ProcNext, RunMark, RunPush, RunQueued, CancelPending, CancelOwner, CancelSend,
         CancelCancelling, CancelCancelled, CancelFinish, CancelRelease, CancelDrop
<1>2. proc[p].pc \in {"mark", "push", "queued", "done"}
  BY <1>1 DEF OnlyRuns
<1> QED
  BY <1>2 DEF ProcNext, CancelPending, CancelOwner, CancelSend, CancelCancelling,
              CancelCancelled, CancelFinish, CancelRelease, CancelDrop

\* A step that concerns p alone leaves the reports on others as they are.
LEMMA OthersReported ==
  ASSUME Reported, NEW p, UNCHANGED callback, unfinished' \subseteq unfinished \cup {p},
         \A s \in unfinished : s # p => proc'[s].pc = proc[s].pc /\ brief'[s] = brief[s],
         \A s : Called(s) <=> Called(s)',
         p \in unfinished' /\ brief'[p] \in Terminal =>
           Called(p) \/ \E g \in Graders : callback[g][p] = "finish",
         \A g \in Graders : callback[g][p] \in {"release", "drop"} => Called(p) \/ p \notin unfinished'
  PROVE  Reported'
<1>1. ASSUME NEW s \in unfinished', brief'[s] \in Terminal
      PROVE  Called(s)' \/ proc'[s].pc = "mark" \/ \E g \in Graders : callback'[g][s] = "finish"
  <2>1. CASE s = p
    BY <1>1, <2>1
  <2>2. CASE s # p
    <3>1. s \in unfinished /\ proc'[s].pc = proc[s].pc /\ brief'[s] = brief[s]
      BY <2>2
    <3> QED
      BY <1>1, <3>1 DEF Reported
  <2> QED
    BY <2>1, <2>2
<1>2. ASSUME NEW g \in Graders, NEW s \in Submissions, callback'[g][s] \in {"release", "drop"}
      PROVE  Called(s)' \/ s \notin unfinished'
  <2>1. callback[g][s] \in {"release", "drop"}
    BY <1>2
  <2>2. Called(s) \/ s \notin unfinished
    BY <2>1 DEF Reported
  <2> QED
    BY <2>1, <2>2
<1> QED
  BY <1>1, <1>2 DEF Reported

\* runSubmission has its submission in hands from the moment it is created until
\* it is pending.
LEMMA RunsKeepTrack ==
  ASSUME TypeOK, ControlInv, TrackInv, NEW p \in Submissions,
         CreateSubmission(p) \/ RunMark(p) \/ RunPush(p) \/ RunQueued(p)
  PROVE  TrackInv'
<1>t. /\ PendingType /\ ProcType /\ ProcControl /\ brief \in [Submissions -> Briefs]
      /\ p \in Procs
  BY DEF TypeOK, ControlInv, RepositoryType, Procs
<1>a. unfinished \subseteq Procs /\ Terminal = {"Finished", "Cancelled"}
  BY DEF TypeOK, RepositoryType, Procs, Terminal
<1>i. /\ OnlyRuns /\ Fresh /\ Reported /\ TodoPending /\ DispatchTracked /\ Requeues
      /\ UnfinishedIsTracked
  BY DEF TrackInv
<1>u. UNCHANGED <<runningList, submissionGrader, requests, scheduler, todo, monitor,
                  monRequeue, monCur, callback>>
  BY DEF CreateSubmission, RunMark, RunPush, RunQueued, PushPending, notClients, passVars,
         monitorVars, claimVars
<1>r. Requeues' /\ \A s : Outstanding(s) <=> Outstanding(s)'
  BY <1>i, <1>u DEF Requeues, Outstanding, Holds
<1>l. UNCHANGED queuedList => \A s : Listed(s) <=> Listed(s)'
  BY DEF Listed
<1>o. ASSUME NEW s, s # p
      PROVE  (\A q \in Procs : q # p => proc'[q] = proc[q]) /\ proc[p].sub = p /\ proc'[p].sub = p
               => (InHands(s) <=> InHands(s)')
  BY <1>o, <1>u DEF InHands
<1> USE DEF queueVars, reportVars, claimVars, SetBrief, QueuedMuFree
<1>1. CASE CreateSubmission(p)
  <2>1. /\ OnlyRuns' /\ proc'[p].pc = "mark" /\ proc[p].sub = p /\ proc'[p].sub = p
        /\ \A q \in Procs : q # p => proc'[q] = proc[q]
        /\ \A s : Called(s) <=> Called(s)'
    BY <1>1, <1>i, <1>t, RunMoves DEF CreateSubmission
  <2>2. /\ proc[p].pc = "idle" /\ p \notin unfinished /\ ~Called(p) /\ UNCHANGED <<unfinished, queuedList, queuedListIndex>>
        /\ brief' = [brief EXCEPT ![p] = "Queued"]
    BY <1>1, <1>i, <1>t DEF CreateSubmission, Fresh
  <2>3. Fresh'
    BY <1>i, <1>l, <1>r, <1>t, <1>u, <2>1, <2>2 DEF Fresh, Untouched, Procs
  <2>4. Reported'
    <3>0. \A s \in unfinished : s # p => proc'[s].pc = proc[s].pc /\ brief'[s] = brief[s]
      BY <1>a, <1>t, <2>1, <2>2
    <3>1. p \notin unfinished'
      BY <2>2
    <3> QED
      BY <1>i, <1>u, <2>1, <2>2, <3>0, <3>1, OthersReported
  <2>5. InHands(p)'
    BY <1>t, <2>1 DEF InHands
  <2>6. TodoPending' /\ DispatchTracked' /\ UnfinishedIsTracked'
    BY <1>i, <1>l, <1>o, <1>u, <2>1, <2>2, <2>5
       DEF TodoPending, DispatchTracked, UnfinishedIsTracked
  <2> QED
    BY <1>r, <2>1, <2>3, <2>4, <2>6 DEF TrackInv
<1>2. CASE RunMark(p)
  <2>1. /\ OnlyRuns' /\ proc'[p].pc = "push" /\ proc[p].sub = p /\ proc'[p].sub = p
        /\ \A q \in Procs : q # p => proc'[q] = proc[q]
        /\ \A s : Called(s) <=> Called(s)'
    BY <1>2, <1>i, <1>t, RunMoves DEF RunMark
  <2>2. /\ proc[p].pc = "mark" /\ unfinished' = unfinished \cup {p} /\ UNCHANGED <<queuedList, queuedListIndex>>
        /\ brief' = [brief EXCEPT ![p] = "Queued"]
    BY <1>2, <2>1 DEF RunMark
  <2>3. Fresh'
    BY <1>i, <1>l, <1>r, <1>t, <1>u, <2>1, <2>2 DEF Fresh, Untouched, Procs
  <2>4. Reported'
    <3>1. Called(p) \/ \A g \in Graders : callback[g][p] = "idle"
      BY <1>i, <2>2 DEF Fresh, Untouched
    <3>0. \A s \in unfinished : s # p => proc'[s].pc = proc[s].pc /\ brief'[s] = brief[s]
      BY <1>a, <1>t, <2>1, <2>2
    <3>2. brief'[p] \notin Terminal
      BY <1>a, <1>t, <2>2
    <3> QED
      BY <1>i, <1>u, <2>1, <2>2, <3>0, <3>1, <3>2, OthersReported
  <2>5. InHands(p)'
    BY <1>t, <2>1 DEF InHands
  <2>6. TodoPending' /\ DispatchTracked' /\ UnfinishedIsTracked'
    BY <1>i, <1>l, <1>o, <1>u, <2>1, <2>2, <2>5
       DEF TodoPending, DispatchTracked, UnfinishedIsTracked
  <2> QED
    BY <1>r, <2>1, <2>3, <2>4, <2>6 DEF TrackInv
<1>3. CASE RunPush(p)
  <2>1. /\ OnlyRuns' /\ proc'[p].pc = "queued" /\ proc[p].sub = p /\ proc'[p].sub = p
        /\ \A q \in Procs : q # p => proc'[q] = proc[q]
        /\ \A s : Called(s) <=> Called(s)'
    BY <1>3, <1>i, <1>t, RunMoves DEF RunPush
  <2>2. /\ proc[p].pc = "push" /\ scheduler \in {"lock", "wait"} /\ UNCHANGED <<brief, unfinished>>
        /\ \A s : Listed(s)' <=> Listed(s) \/ s = p
    <3>1. PushPending(p)
      BY <1>3, <2>1 DEF RunPush
    <3> QED
      BY <1>3, <1>t, <2>1, <3>1, PushListed DEF RunPush, PushPending
  <2>3. Fresh'
    BY <1>i, <1>l, <1>r, <1>t, <1>u, <2>1, <2>2 DEF Fresh, Untouched, Procs
  <2>4. Reported'
    <3>0. \A s \in unfinished : s # p => proc'[s].pc = proc[s].pc /\ brief'[s] = brief[s]
      BY <1>a, <1>t, <2>1, <2>2
    <3>1. p \in unfinished /\ brief[p] \in Terminal => Called(p) \/ \E g \in Graders : callback[g][p] = "finish"
      BY <1>i, <2>2 DEF Reported
    <3>2. \A g \in Graders : callback[g][p] \in {"release", "drop"} => Called(p) \/ p \notin unfinished
      BY <1>i DEF Reported
    <3> QED
      BY <1>i, <1>u, <2>1, <2>2, <3>0, <3>1, <3>2, OthersReported
  <2>6. TodoPending' /\ DispatchTracked' /\ UnfinishedIsTracked'
    BY <1>i, <1>l, <1>o, <1>u, <2>1, <2>2 DEF TodoPending, DispatchTracked, UnfinishedIsTracked
  <2> QED
    BY <1>r, <2>1, <2>3, <2>4, <2>6 DEF TrackInv
<1>4. CASE RunQueued(p)
  <2>1. /\ OnlyRuns' /\ proc'[p].pc = "done" /\ proc[p].sub = p /\ proc'[p].sub = p
        /\ \A q \in Procs : q # p => proc'[q] = proc[q]
        /\ \A s : Called(s) <=> Called(s)'
    BY <1>4, <1>i, <1>t, RunMoves DEF RunQueued
  <2>2. /\ proc[p].pc = "queued" /\ UNCHANGED <<unfinished, queuedList, queuedListIndex>>
        /\ brief' = [brief EXCEPT ![p] = "Queued"]
    BY <1>4, <2>1 DEF RunQueued
  <2>3. Fresh'
    BY <1>i, <1>l, <1>r, <1>t, <1>u, <2>1, <2>2 DEF Fresh, Untouched, Procs
  <2>4. Reported'
    <3>0. \A s \in unfinished : s # p => proc'[s].pc = proc[s].pc /\ brief'[s] = brief[s]
      BY <1>a, <1>t, <2>1, <2>2
    <3>1. brief'[p] \notin Terminal
      BY <1>a, <1>t, <2>2
    <3>2. \A g \in Graders : callback[g][p] \in {"release", "drop"} => Called(p) \/ p \notin unfinished
      BY <1>i DEF Reported
    <3> QED
      BY <1>i, <1>u, <2>1, <2>2, <3>0, <3>1, <3>2, OthersReported
  <2>5. InHands(p) <=> InHands(p)'
    BY <1>u, <2>1, <2>2 DEF InHands
  <2>6. TodoPending' /\ DispatchTracked' /\ UnfinishedIsTracked'
    BY <1>i, <1>l, <1>o, <1>u, <2>1, <2>2, <2>5
       DEF TodoPending, DispatchTracked, UnfinishedIsTracked
  <2> QED
    BY <1>r, <2>1, <2>3, <2>4, <2>6 DEF TrackInv
<1> QED
  BY <1>1, <1>2, <1>3, <1>4

\* What a report handler of g may do about s without losing it: as long as s is
\* marked it stays in the running list and in hands, and a final report is
\* written only by a handler that goes on to remove the marker.
LEMMA HandlerKeepsTrack ==
  ASSUME TrackInv, NEW g \in Graders, NEW s \in Submissions,
         unfinished \subseteq Submissions,
         UNCHANGED <<queuedList, queuedListIndex, requests, scheduler, todo, proc, monitor,
                     monRequeue, monCur>>,
         \A h \in Graders, r \in Submissions : h # g \/ r # s => callback'[h][r] = callback[h][r],
         Called(s) \/ proc[s].pc \notin {"idle", "mark", "push"},
         \A r \in Submissions : submissionGrader'[r] \in {submissionGrader[r], 0},
         runningList' \subseteq runningList, \A r \in runningList : r # s => r \in runningList',
         \A r \in Submissions : r # s => brief'[r] = brief[r],
         brief'[s] = "None" => brief[s] = "None",
         unfinished' \subseteq unfinished,
         s \in unfinished' /\ ~Called(s) =>
           /\ UNCHANGED runningList
           /\ callback[g][s] = "finish" => callback'[g][s] = "finish"
           /\ brief'[s] \in Terminal => brief[s] \in Terminal \/ callback'[g][s] = "finish",
         callback'[g][s] \in {"release", "drop"} => Called(s) \/ s \notin unfinished'
  PROVE  TrackInv'
<1>i. /\ OnlyRuns /\ Fresh /\ Reported /\ TodoPending /\ DispatchTracked /\ Requeues
      /\ UnfinishedIsTracked
  BY DEF TrackInv
<1>c. \A r : Called(r) <=> Called(r)'
  BY DEF Called
<1>1. OnlyRuns' /\ TodoPending' /\ Requeues'
  BY <1>i DEF OnlyRuns, TodoPending, Requeues, QueuedMuFree, Listed
<1>2. Fresh'
  <2>1. ASSUME NEW r \in Submissions, brief'[r] = "None"
        PROVE  proc'[r].pc = "idle" /\ r \notin unfinished' /\ ~Called(r)'
    BY <1>c, <1>i, <2>1 DEF Fresh
  <2>2. ASSUME NEW r \in Submissions, proc'[r].pc \in {"idle", "mark", "push"}, ~Called(r)
        PROVE  Untouched(r)'
    <3>1. r # s /\ Untouched(r)
      BY <1>i, <2>2 DEF Fresh
    <3>2. submissionGrader'[r] = 0 /\ \A h \in Graders : callback'[h][r] = "idle"
      BY <3>1 DEF Untouched
    <3> QED
      BY <3>1, <3>2 DEF Untouched, Listed, Outstanding, Holds
  <2> QED
    BY <1>c, <2>1, <2>2 DEF Fresh
<1>3. Reported'
  <2>1. ASSUME NEW r \in unfinished', brief'[r] \in Terminal, ~Called(r)
        PROVE  proc'[r].pc = "mark" \/ \E h \in Graders : callback'[h][r] = "finish"
    <3>1. r \in unfinished /\ r \in Submissions
      OBVIOUS
    <3>2. CASE r = s /\ callback'[g][s] = "finish"
      BY <3>2
    <3>3. CASE ~(r = s /\ callback'[g][s] = "finish")
      <4>1. brief[r] \in Terminal
        BY <2>1, <3>1, <3>3
      <4>2. CASE proc[r].pc = "mark"
        BY <4>2
      <4>3. ASSUME NEW h \in Graders, callback[h][r] = "finish"
            PROVE  callback'[h][r] = "finish"
        BY <2>1, <3>1, <4>3
      <4> QED
        BY <1>i, <2>1, <3>1, <4>1, <4>2, <4>3 DEF Reported
    <3> QED
      BY <3>2, <3>3
  <2>2. ASSUME NEW h \in Graders, NEW r \in Submissions, ~Called(r),
               callback'[h][r] \in {"release", "drop"}
        PROVE  r \notin unfinished'
    <3>1. CASE h = g /\ r = s
      BY <2>2, <3>1
    <3>2. CASE h # g \/ r # s
      <4>1. callback[h][r] \in {"release", "drop"}
        BY <2>2, <3>2
      <4>2. r \notin unfinished
        BY <1>i, <2>2, <4>1 DEF Reported
      <4> QED
        BY <4>2
    <3> QED
      BY <3>1, <3>2
  <2> QED
    BY <1>c, <2>1, <2>2 DEF Reported
<1>4. ASSUME NEW r \in unfinished', ~Called(r), InHands(r)
      PROVE  InHands(r)'
  <2>1. r \in Submissions
    OBVIOUS
  <2>2. ASSUME NEW h \in Graders, callback[h][r] = "finish"
        PROVE  callback'[h][r] = "finish"
    BY <1>4, <2>1, <2>2
  <2> QED
    BY <1>4, <2>2 DEF InHands
<1>5. \A r \in unfinished' : ~Called(r) /\ r \in runningList => r \in runningList'
  OBVIOUS
<1>6. DispatchTracked' /\ UnfinishedIsTracked'
  BY <1>c, <1>i, <1>4, <1>5 DEF DispatchTracked, UnfinishedIsTracked, Listed
<1> QED
  BY <1>1, <1>2, <1>3, <1>6 DEF TrackInv

\* The report handlers lose no submission: they drop one from the running list
\* only after they removed its marker.
LEMMA ReportsKeepTrack ==
  ASSUME TypeOK, TrackInv, NEW g \in Graders, NEW s \in Submissions, ReportNext(g, s)
  PROVE  TrackInv'
<1>t. /\ RepositoryType /\ callback \in [Graders -> [Submissions ->
             {"idle", "Running", "finish", "release", "drop"} \cup Terminal]]
      /\ unfinished \subseteq Submissions
  BY DEF TypeOK, WorkerType, RepositoryType
<1>i. Fresh /\ Reported
  BY DEF TrackInv
<1>u. UNCHANGED <<queuedList, queuedListIndex, requests, scheduler, todo, proc, monitor,
                  monRequeue, monCur>>
  BY DEF ReportNext, CallbackAccepted, CallbackDenied, CallbackWrite, JobStopsSilently,
         CallbackFinish, CallbackRelease, CallbackDrop, notReports, outboxVars, passVars,
         monitorVars
<1>a. Terminal = {"Finished", "Cancelled"}
  BY DEF Terminal
<1>b. callback[g][s] # "idle" \/ submissionGrader[s] = g =>
        Called(s) \/ proc[s].pc \notin {"idle", "mark", "push"}
  BY <1>i, HubAssumption DEF Fresh, Untouched
<1> USE DEF claimVars, reportVars
<1>1. CASE CallbackAccepted(g, s)
  <2>1. PICK report \in NextReports(jobs[g][s]) :
          callback' = [callback EXCEPT ![g][s] = report] /\ callback[g][s] = "idle"
    BY <1>1 DEF CallbackAccepted
  <2>2. report \in {"Running", "Finished", "Cancelled"}
    BY DEF NextReports
  <2>3. /\ \A h \in Graders, r \in Submissions : h # g \/ r # s => callback'[h][r] = callback[h][r]
        /\ callback'[g][s] = report
    BY <1>t, <2>1
  <2>4. /\ Called(s) \/ proc[s].pc \notin {"idle", "mark", "push"}
        /\ UNCHANGED <<runningList, submissionGrader, brief, unfinished>>
    BY <1>1, <1>b DEF CallbackAccepted
  <2> QED
    BY <1>t, <1>u, <2>1, <2>2, <2>3, <2>4, HandlerKeepsTrack
<1>2. CASE CallbackDenied(g, s) \/ JobStopsSilently(g, s)
  <2>1. UNCHANGED <<callback, runningList, submissionGrader, brief, unfinished>>
    BY <1>2 DEF CallbackDenied, JobStopsSilently
  <2>2. \A r : Called(r) <=> Called(r)'
    BY <1>u DEF Called
  <2> QED
    BY <1>u, <2>1, <2>2 DEF TrackInv, Listed, OnlyRuns, Fresh, Untouched, Outstanding, Holds, Reported,
                      TodoPending, QueuedMuFree, DispatchTracked, Requeues, UnfinishedIsTracked,
                      InHands
<1>3. CASE CallbackWrite(g, s)
  <2>1. /\ callback[g][s] \in {"Running", "Finished", "Cancelled"}
        /\ callback' = [callback EXCEPT ![g][s] = IF @ \in Terminal THEN "finish" ELSE "idle"]
        /\ brief' = [brief EXCEPT ![s] = callback[g][s]]
        /\ UNCHANGED <<runningList, submissionGrader, unfinished>>
    BY <1>3 DEF CallbackWrite, SetBrief, Terminal
  <2>2. /\ \A h \in Graders, r \in Submissions : h # g \/ r # s => callback'[h][r] = callback[h][r]
        /\ callback'[g][s] = IF callback[g][s] \in Terminal THEN "finish" ELSE "idle"
        /\ brief'[s] = callback[g][s] /\ \A r \in Submissions : r # s => brief'[r] = brief[r]
    BY <1>t, <2>1 DEF RepositoryType
  <2>3. Called(s) \/ proc[s].pc \notin {"idle", "mark", "push"}
    BY <1>b, <2>1
  <2> QED
    BY <1>a, <1>t, <1>u, <2>1, <2>2, <2>3, HandlerKeepsTrack
<1>4. CASE CallbackFinish(g, s)
  <2>1. /\ callback[g][s] = "finish" /\ callback' = [callback EXCEPT ![g][s] = "release"]
        /\ unfinished' = unfinished \ {s} /\ UNCHANGED <<runningList, submissionGrader, brief>>
    BY <1>4 DEF CallbackFinish
  <2>2. \A h \in Graders, r \in Submissions : h # g \/ r # s => callback'[h][r] = callback[h][r]
    BY <1>t, <2>1
  <2>3. Called(s) \/ proc[s].pc \notin {"idle", "mark", "push"}
    BY <1>b, <2>1
  <2> QED
    BY <1>t, <1>u, <2>1, <2>2, <2>3, HandlerKeepsTrack
<1>5. CASE CallbackRelease(g, s)
  <2>1. /\ callback[g][s] = "release" /\ callback' = [callback EXCEPT ![g][s] = "drop"]
        /\ UNCHANGED <<runningList, brief, unfinished>>
        /\ \A r \in Submissions : submissionGrader'[r] \in {submissionGrader[r], 0}
    BY <1>t, <1>5 DEF CallbackRelease, ReleaseSubmission, RepositoryType
  <2>2. \A h \in Graders, r \in Submissions : h # g \/ r # s => callback'[h][r] = callback[h][r]
    BY <1>t, <2>1
  <2>3. Called(s) \/ (proc[s].pc \notin {"idle", "mark", "push"} /\ s \notin unfinished)
    BY <1>b, <1>i, <2>1 DEF Reported
  <2> QED
    BY <1>t, <1>u, <2>1, <2>2, <2>3, HandlerKeepsTrack
<1>6. CASE CallbackDrop(g, s)
  <2>1. /\ callback[g][s] = "drop" /\ callback' = [callback EXCEPT ![g][s] = "idle"]
        /\ runningList' = runningList \ {s} /\ UNCHANGED <<submissionGrader, brief, unfinished>>
    BY <1>6 DEF CallbackDrop, FinishDrop
  <2>2. /\ \A h \in Graders, r \in Submissions : h # g \/ r # s => callback'[h][r] = callback[h][r]
        /\ callback'[g][s] = "idle"
    BY <1>t, <2>1
  <2>3. Called(s) \/ (proc[s].pc \notin {"idle", "mark", "push"} /\ s \notin unfinished)
    BY <1>b, <1>i, <2>1 DEF Reported
  <2> QED
    BY <1>t, <1>u, <2>1, <2>2, <2>3, HandlerKeepsTrack
<1> QED
  BY <1>1, <1>2, <1>3, <1>4, <1>5, <1>6 DEF ReportNext

\* Emptying an outbox makes no submission outstanding.
LEMMA EmptiedOutbox ==
  ASSUME StreamType, NEW g, NEW n, NEW s, Outstanding(s)',
         requests' = requests \/ requests' = [requests EXCEPT ![g][n] = <<>>]
  PROVE  Outstanding(s)
<1>1. PICK h \in Graders, m \in Streams : Holds(requests'[h][m], s)
  BY DEF Outstanding, Holds
<1>2. requests'[h][m] = requests[h][m] \/ requests'[h][m] = <<>>
  <2>1. requests \in [Graders -> [Streams -> Seq(Request)]]
    BY DEF StreamType
  <2>2. CASE requests' = [requests EXCEPT ![g][n] = <<>>]
    <3>1. CASE h = g /\ m = n
      BY <2>1, <2>2, <3>1
    <3>2. CASE h # g \/ m # n
      BY <2>1, <2>2, <3>2
    <3> QED
      BY <3>1, <3>2
  <2> QED
    BY <2>2
<1>3. ~Holds(<<>>, s)
  BY DEF Holds
<1> QED
  BY <1>1, <1>2, <1>3 DEF Outstanding

\* Heartbeats, broken connections, time-outs and the steps of onGraderOffline
\* that move no request lose no submission.
LEMMA QuietKeepTrack ==
  ASSUME TypeOK, TrackInv, NEW g \in Graders, NEW n \in Streams,
         \/ RegisterGrader(g) \/ Reconnect(g) \/ MonitorTimeout(g) \/ MonitorWriteBack(g)
         \/ StreamNext(g, n) \/ StreamBreak(g, n) \/ GraderCrash(g)
         \/ OfflineBegin(g) \/ OfflineTake(g) \/ OfflineClaims(g) \/ OfflineEnd(g)
         \/ \E s \in Submissions : OfflineRelease(g, s)
  PROVE  TrackInv'
<1>t. MonitorType /\ RepositoryType /\ StreamType
  BY DEF TypeOK
<1>i. Requeues
  BY DEF TrackInv
<1> USE DEF queueVars, claimVars, reportVars, outboxVars, passVars, monitorVars, notMonitor,
            StreamNext
<1>1. UNCHANGED <<queuedList, queuedListIndex, runningList, brief, unfinished, scheduler, todo,
                  callback, proc, monRequeue, monCur>>
  BY DEF RegisterGrader, Reconnect, MonitorTimeout, MonitorWriteBack, GraderHeartbeat,
         HeartbeatNotRegistered, HeartbeatReceived, RecvError, SendRequests, SendFails,
         MonitorBeat, MonitorStreamEnded, StreamBreak, GraderCrash, OfflineBegin, OfflineTake,
         OfflineClaims, OfflineRelease, OfflineEnd
<1>2. /\ \A h \in Graders : h # g => monitor'[h] = monitor[h]
      /\ monitor[g] = "push" <=> monitor'[g] = "push"
      /\ monitor'[g] \in {"none", "idle", "writeback", "offline", "take", "claims", "collect"} =>
           \/ monitor[g] \in {"none", "idle", "writeback", "offline", "take", "claims", "collect"}
           \/ monRequeue[g] = {}
  BY <1>t DEF MonitorType, RegisterGrader, Reconnect, MonitorTimeout, MonitorWriteBack, GraderHeartbeat,
         HeartbeatNotRegistered, HeartbeatReceived, RecvError, SendRequests, SendFails,
         MonitorBeat, MonitorStreamEnded, StreamBreak, GraderCrash, OfflineBegin, OfflineTake,
         OfflineClaims, OfflineRelease, OfflineEnd
<1>3. \A h \in Graders :
        monitor'[h] \in {"none", "idle", "writeback", "offline", "take", "claims", "collect"} =>
          monRequeue[h] = {}
  BY <1>2, <1>i DEF Requeues
<1>4. \A r \in Submissions : submissionGrader'[r] \in {submissionGrader[r], 0}
  BY <1>t DEF RepositoryType, ReleaseSubmission,
         RegisterGrader, Reconnect, MonitorTimeout, MonitorWriteBack, GraderHeartbeat,
         HeartbeatNotRegistered, HeartbeatReceived, RecvError, SendRequests, SendFails,
         MonitorBeat, MonitorStreamEnded, StreamBreak, GraderCrash, OfflineBegin, OfflineTake,
         OfflineClaims, OfflineRelease, OfflineEnd
<1>5. requests' = requests \/ requests' = [requests EXCEPT ![g][n] = <<>>]
  BY DEF RegisterGrader, Reconnect, MonitorTimeout, MonitorWriteBack, GraderHeartbeat,
         HeartbeatNotRegistered, HeartbeatReceived, RecvError, SendRequests, SendFails,
         MonitorBeat, MonitorStreamEnded, StreamBreak, GraderCrash, OfflineBegin, OfflineTake,
         OfflineClaims, OfflineRelease, OfflineEnd
<1>6. \A r \in Submissions : Outstanding(r)' => Outstanding(r)
  BY <1>5, <1>t, EmptiedOutbox
<1>7. \A h \in Graders : monitor[h] = "push" <=> monitor'[h] = "push"
  BY <1>2
<1> QED
  BY <1>1, <1>3, <1>4, <1>6, <1>7, QuietKeeps

\* onGraderOffline takes running and undelivered requests in hands, pushes them
\* or finds them finished.
LEMMA OfflineKeepsTrack ==
  ASSUME TypeOK, ControlInv, TrackInv, NEW g \in Graders,
         \/ OfflineCollect(g) \/ OfflinePush(g) \/ OfflineBrief(g)
         \/ \E s \in Submissions : OfflineCheck(g, s)
  PROVE  TrackInv'
<1>t. PendingType /\ MonitorType /\ RepositoryType /\ StreamType /\ MonitorControl /\ ProcControl
  BY DEF TypeOK, ControlInv
<1>i. /\ OnlyRuns /\ Fresh /\ Reported /\ TodoPending /\ DispatchTracked /\ Requeues
      /\ UnfinishedIsTracked
  BY DEF TrackInv
<1>u. UNCHANGED <<submissionGrader, unfinished, scheduler, todo, callback, proc>>
  BY DEF OfflineCollect, OfflineCheck, OfflinePush, OfflineBrief, notMonitor, passVars, claimVars
<1>c. \A r : Called(r) <=> Called(r)'
  BY <1>u DEF Called
<1>o. OnlyRuns'
  BY <1>c, <1>i, <1>u DEF OnlyRuns
<1> USE DEF queueVars, outboxVars
<1>1. CASE OfflineCollect(g)
  <2> DEFINE inFlight == (monSubs[g] \cap runningList) \cup Undelivered(g)
  <2>1. /\ monitor[g] = "collect" /\ monitor' = [monitor EXCEPT ![g] = "release"]
        /\ monRequeue' = [monRequeue EXCEPT ![g] = inFlight]
        /\ runningList' = runningList \ inFlight
        /\ requests' = requests \/ requests' = [requests EXCEPT ![g][monQueue[g]] = <<>>]
        /\ UNCHANGED <<queuedList, queuedListIndex, brief, monCur>>
    BY <1>1 DEF OfflineCollect
  <2>2. monRequeue[g] = {}
    BY <1>i, <2>1 DEF Requeues
  <2>3. \A r \in inFlight : r \in runningList \/ Outstanding(r)
    <3>1. ASSUME NEW r \in Undelivered(g)
          PROVE  Outstanding(r)
      <4>1. monQueue[g] \in Streams
        BY <1>t, <3>1 DEF Undelivered, MonitorType, Streams
      <4>2. PICK i \in 1..Len(requests[g][monQueue[g]]) : requests[g][monQueue[g]][i].sub = r
        BY <3>1 DEF Undelivered
      <4> QED
        BY <4>1, <4>2 DEF Outstanding, Holds
    <3> QED
      BY <3>1
  <2> HIDE DEF inFlight
  <2>4. \A r \in Submissions : Outstanding(r)' => Outstanding(r)
    BY <1>t, <2>1, EmptiedOutbox
  <2>5. /\ \A h \in Graders : h # g => monRequeue'[h] = monRequeue[h] /\ monitor'[h] = monitor[h]
        /\ monRequeue'[g] = inFlight /\ monitor'[g] = "release"
    BY <1>t, <2>1 DEF MonitorType
  <2>6. Fresh'
    <3>1. ASSUME NEW r \in Submissions, Untouched(r)
          PROVE  Untouched(r)'
      <4>1. r \notin inFlight
        BY <2>3, <3>1 DEF Untouched, Listed
      <4>2. ~Outstanding(r)'
        BY <2>4, <3>1 DEF Untouched, Listed
      <4> QED
        BY <1>u, <2>1, <2>5, <3>1, <4>1, <4>2 DEF Untouched, Listed
    <3> QED
      BY <1>c, <1>i, <1>u, <2>1, <3>1 DEF Fresh
  <2>7. Reported' /\ TodoPending'
    BY <1>c, <1>i, <1>u, <2>1 DEF Reported, TodoPending, QueuedMuFree, Listed
  <2>8. Requeues'
    BY <1>i, <2>5 DEF Requeues
  <2>9. \A r : InHands(r) \/ r \in runningList => InHands(r)' \/ r \in runningList'
    BY <1>u, <2>1, <2>2, <2>5 DEF InHands
  <2>10. DispatchTracked' /\ UnfinishedIsTracked'
    BY <1>c, <1>i, <1>u, <2>1, <2>9 DEF Listed, DispatchTracked, UnfinishedIsTracked
  <2> QED
    BY <1>o, <2>6, <2>7, <2>8, <2>10 DEF TrackInv
<1>2. ASSUME NEW s \in Submissions, OfflineCheck(g, s)
      PROVE  TrackInv'
  <2>1. /\ monitor[g] = "release" /\ s \in monRequeue[g]
        /\ monRequeue' = [monRequeue EXCEPT ![g] = @ \ {s}]
        /\ UNCHANGED <<queuedList, queuedListIndex, runningList, requests, brief>>
        /\ IF brief[s] \in Terminal THEN UNCHANGED <<monitor, monCur>>
           ELSE /\ monitor' = [monitor EXCEPT ![g] = "push"]
                /\ monCur' = [monCur EXCEPT ![g] = s]
    BY <1>2 DEF OfflineCheck
  <2>2. /\ \A h \in Graders : h # g => /\ monRequeue'[h] = monRequeue[h]
                                       /\ monitor'[h] = monitor[h] /\ monCur'[h] = monCur[h]
        /\ monRequeue'[g] = monRequeue[g] \ {s}
        /\ monitor'[g] \in {"release", "push"}
        /\ monitor'[g] = "push" <=> brief[s] \notin Terminal
        /\ monitor'[g] = "push" => monCur'[g] = s
    BY <1>t, <2>1 DEF MonitorType
  <2>3. Fresh'
    <3>1. ASSUME NEW r \in Submissions, Untouched(r)
          PROVE  Untouched(r)'
      BY <1>u, <2>1, <2>2, <3>1 DEF Untouched, Listed, Outstanding, Holds
    <3> QED
      BY <1>c, <1>i, <1>u, <2>1, <3>1 DEF Fresh
  <2>4. Reported' /\ TodoPending'
    BY <1>c, <1>i, <1>u, <2>1 DEF Reported, TodoPending, QueuedMuFree, Listed
  <2>5. Requeues'
    BY <1>i, <2>2 DEF Requeues
  <2>6. ASSUME NEW r \in unfinished, InHands(r)
        PROVE  InHands(r)' \/ Called(r)
    <3>1. CASE r # s
      <4>1. \A h \in Graders : r \in monRequeue[h] => r \in monRequeue'[h]
        BY <2>2, <3>1
      <4>2. \A h \in Graders : monitor[h] = "push" => monitor'[h] = "push" /\ monCur'[h] = monCur[h]
        BY <2>1, <2>2
      <4> QED
        BY <1>u, <2>6, <4>1, <4>2 DEF InHands
    <3>2. CASE r = s /\ brief[s] \in Terminal
      <4>1. Called(s) \/ proc[s].pc = "mark" \/ \E h \in Graders : callback[h][s] = "finish"
        BY <1>i, <3>2 DEF Reported
      <4>2. s \in Procs /\ proc[s].sub = s
        BY <1>t DEF Procs, ProcControl
      <4> QED
        BY <1>u, <3>2, <4>1, <4>2 DEF InHands
    <3>3. CASE r = s /\ brief[s] \notin Terminal
      BY <2>2, <3>3 DEF InHands
    <3> QED
      BY <3>1, <3>2, <3>3
  <2>7. DispatchTracked' /\ UnfinishedIsTracked'
    BY <1>c, <1>i, <1>u, <2>1, <2>6 DEF Listed, DispatchTracked, UnfinishedIsTracked
  <2> QED
    BY <1>o, <2>3, <2>4, <2>5, <2>7 DEF TrackInv
<1>3. CASE OfflinePush(g)
  <2>1. /\ monitor[g] = "push" /\ monitor' = [monitor EXCEPT ![g] = "brief"]
        /\ scheduler \in {"lock", "wait"} /\ \A s : Listed(s)' <=> Listed(s) \/ s = monCur[g]
        /\ UNCHANGED <<runningList, requests, brief, monRequeue, monCur>>
    <3>1. PushPending(monCur[g]) /\ monCur[g] \in Submissions
      BY <1>3, <1>t DEF OfflinePush, MonitorControl
    <3> QED
      BY <1>3, <1>t, <3>1, PushListed DEF OfflinePush, PushPending, QueuedMuFree
  <2>2. /\ \A h \in Graders : h # g => monitor'[h] = monitor[h]
        /\ monitor'[g] = "brief"
    BY <1>t, <2>1 DEF MonitorType
  <2>3. Fresh'
    <3>1. ASSUME NEW r \in Submissions, Untouched(r)
          PROVE  Untouched(r)'
      BY <1>u, <2>1, <2>2, <3>1 DEF Untouched, Outstanding, Holds
    <3> QED
      BY <1>c, <1>i, <1>u, <2>1, <3>1 DEF Fresh
  <2>4. Reported' /\ TodoPending' /\ DispatchTracked'
    BY <1>c, <1>i, <1>u, <2>1 DEF Reported, TodoPending, QueuedMuFree, DispatchTracked
  <2>5. Requeues'
    BY <1>i, <2>1, <2>2 DEF Requeues
  <2>6. ASSUME NEW r, InHands(r), r # monCur[g]
        PROVE  InHands(r)'
    <3>1. \A h \in Graders : monitor[h] = "push" /\ monCur[h] = r => monitor'[h] = "push"
      BY <2>2, <2>6
    <3> QED
      BY <1>u, <2>1, <2>6, <3>1 DEF InHands
  <2>7. UnfinishedIsTracked'
    BY <1>c, <1>i, <1>u, <2>1, <2>6 DEF UnfinishedIsTracked
  <2> QED
    BY <1>o, <2>3, <2>4, <2>5, <2>7 DEF TrackInv
<1>4. CASE OfflineBrief(g)
  <2>1. /\ monitor[g] = "brief" /\ monitor' = [monitor EXCEPT ![g] = "release"]
        /\ brief' = [brief EXCEPT ![monCur[g]] = "Queued"]
        /\ monCur' = [monCur EXCEPT ![g] = "none"]
        /\ UNCHANGED <<queuedList, queuedListIndex, runningList, requests, monRequeue>>
    BY <1>4 DEF OfflineBrief, SetBrief
  <2>2. /\ \A h \in Graders : h # g => monitor'[h] = monitor[h] /\ monCur'[h] = monCur[h]
        /\ monitor'[g] = "release"
    BY <1>t, <2>1 DEF MonitorType
  <2>3. \A r \in Submissions : brief'[r] = brief[r] \/ brief'[r] = "Queued"
    BY <1>t, <2>1 DEF RepositoryType
  <2>4. Fresh'
    <3>1. ASSUME NEW r \in Submissions, Untouched(r)
          PROVE  Untouched(r)'
      BY <1>u, <2>1, <2>2, <3>1 DEF Untouched, Listed, Outstanding, Holds
    <3>2. \A r \in Submissions : brief'[r] = "None" => brief[r] = "None"
      BY <2>3
    <3> QED
      BY <1>c, <1>i, <1>u, <3>1, <3>2 DEF Fresh
  <2>5. Reported'
    <3>1. unfinished \subseteq Submissions /\ Terminal = {"Finished", "Cancelled"}
      BY <1>t DEF RepositoryType, Terminal
    <3>2. \A r \in unfinished : brief'[r] \in Terminal => brief[r] \in Terminal
      BY <2>3, <3>1
    <3> QED
      BY <1>c, <1>i, <1>u, <3>2 DEF Reported
  <2>6. Requeues'
    BY <1>i, <2>1, <2>2 DEF Requeues
  <2>7. \A r : InHands(r) => InHands(r)'
    BY <1>u, <2>1, <2>2 DEF InHands
  <2>8. TodoPending' /\ DispatchTracked' /\ UnfinishedIsTracked'
    BY <1>c, <1>i, <1>u, <2>1, <2>7 DEF TodoPending, QueuedMuFree, Listed, DispatchTracked, UnfinishedIsTracked
  <2> QED
    BY <1>o, <2>4, <2>5, <2>6, <2>8 DEF TrackInv
<1> QED
  BY <1>1, <1>2, <1>3, <1>4

\* A restart forgets everything but the markers, and starts a runSubmission for
\* each of them.
LEMMA RestartKeepsTrack ==
  ASSUME TypeOK, ControlInv, TrackInv, Restart
  PROVE  TrackInv'
<1>t. /\ ProcType /\ ProcControl /\ unfinished \subseteq Submissions
  BY DEF TypeOK, ControlInv, RepositoryType
<1>i. OnlyRuns /\ Fresh
  BY DEF TrackInv
<1>1. /\ queuedList' = <<>> /\ runningList' = {} /\ scheduler' = "lock"
      /\ submissionGrader' = [s \in Submissions |-> 0]
      /\ callback' = [g \in Graders |-> [s \in Submissions |-> "idle"]]
      /\ monRequeue' = [g \in Graders |-> {}]
      /\ requests' = [g \in Graders |-> [n \in Streams |-> <<>>]]
      /\ UNCHANGED <<brief, unfinished>>
  BY DEF Restart, NewGraderHubService, ClearRunning, reportVars
<1>2. \A g \in Graders : monitor'[g] # "push"
  BY DEF Restart, NewGraderHubService
<1>3. ASSUME NEW p \in Procs
      PROVE  /\ proc'[p].pc = IF p \in unfinished THEN "mark"
                              ELSE IF proc[p].pc = "idle" THEN "idle" ELSE "done"
             /\ proc'[p].then = proc[p].then /\ proc'[p].sub = proc[p].sub
  <2>1. proc[p] \in Proc
    BY <1>t DEF ProcType
  <2>2. proc'[p] = [proc[p] EXCEPT !.pc = IF p \in unfinished THEN "mark"
                                          ELSE IF @ = "idle" THEN "idle" ELSE "done",
                                   !.grader = 0, !.queue = 0]
    BY DEF Restart, runUnfinishedSubmissions
  <2> QED
    BY <2>1, <2>2 DEF Proc
<1>c. \A s : Called(s) <=> Called(s)'
  <2>1. \A p \in Callers : p \in Procs /\ p \notin unfinished
    BY <1>t, HubAssumption DEF Procs
  <2>2. \A p \in Callers : proc'[p].sub = proc[p].sub /\ (proc'[p].pc = "idle" <=> proc[p].pc = "idle")
    BY <1>3, <2>1
  <2> QED
    BY <2>2 DEF Called
<1>4. OnlyRuns'
  BY <1>3, <1>i DEF OnlyRuns, Procs
<1>5. \A s \in Submissions : ~Outstanding(s)'
  BY <1>1 DEF Outstanding, Holds
<1>6. Fresh'
  BY <1>1, <1>2, <1>3, <1>5, <1>c, <1>i DEF Fresh, Untouched, Listed, Procs
<1>7. \A s \in unfinished : proc'[s].pc = "mark" /\ proc'[s].sub = s /\ s \in Procs
  BY <1>3, <1>t DEF Procs, ProcControl
<1>8. Reported' /\ Requeues'
  BY <1>1, <1>7 DEF Reported, Requeues
<1>9. TodoPending' /\ DispatchTracked'
  BY <1>1 DEF TodoPending, QueuedMuFree, DispatchTracked
<1>10. UnfinishedIsTracked'
  BY <1>1, <1>7 DEF UnfinishedIsTracked, InHands
<1> QED
  BY <1>4, <1>6, <1>8, <1>9, <1>10 DEF TrackInv

\* A call to cancel or regrade s leaves every other submission where it is.
LEMMA OthersKeepTrack ==
  ASSUME TrackInv, unfinished \subseteq Submissions, NEW p \in Callers, NEW s,
         UNCHANGED <<scheduler, todo, callback, monitor, monRequeue, monCur>>,
         \A q \in Procs : q # p => proc'[q] = proc[q],
         proc[p].pc = "idle" \/ proc[p].sub = s,
         proc'[p].pc # "idle" /\ proc'[p].sub = s,
         brief'[s] # "None",
         QueuedMuFree \/ UNCHANGED <<queuedList, queuedListIndex>>,
         \A r : r # s => /\ r \in unfinished' <=> r \in unfinished
                         /\ r \in runningList' <=> r \in runningList
                         /\ Listed(r)' <=> Listed(r)
                         /\ Outstanding(r)' => Outstanding(r),
         \A r \in Submissions : r # s => /\ brief'[r] = brief[r]
                                         /\ submissionGrader'[r] = submissionGrader[r]
  PROVE  TrackInv'
<1>i. /\ OnlyRuns /\ Fresh /\ Reported /\ TodoPending /\ DispatchTracked /\ Requeues
      /\ UnfinishedIsTracked
  BY DEF TrackInv
<1>p. /\ p \in Procs /\ p \notin Submissions /\ Submissions \subseteq Procs /\ Callers \subseteq Procs
  BY HubAssumption DEF Procs
<1>c. Called(s)' /\ \A r : r # s => (Called(r) <=> Called(r)')
  BY <1>p DEF Called
<1>h. \A r : r # s /\ InHands(r) => InHands(r)'
  BY <1>p DEF InHands
<1>1. OnlyRuns'
  BY <1>i, <1>p DEF OnlyRuns
<1>2. Fresh'
  <2>1. ASSUME NEW r \in Submissions, r # s, Untouched(r)
        PROVE  Untouched(r)'
    BY <2>1 DEF Untouched
  <2> QED
    BY <1>c, <1>i, <1>p, <2>1 DEF Fresh
<1>3. Reported'
  <2>1. ASSUME NEW r \in unfinished', brief'[r] \in Terminal, r # s
        PROVE  Called(r)' \/ proc'[r].pc = "mark" \/ \E g \in Graders : callback'[g][r] = "finish"
    <3>1. r \in unfinished /\ r \in Submissions
      BY <2>1
    <3>2. brief[r] \in Terminal /\ proc'[r] = proc[r]
      BY <1>p, <2>1, <3>1
    <3> QED
      BY <1>c, <1>i, <2>1, <3>1, <3>2 DEF Reported
  <2>2. ASSUME NEW g \in Graders, NEW r \in Submissions, r # s, callback'[g][r] \in {"release", "drop"}
        PROVE  Called(r)' \/ r \notin unfinished'
    BY <1>c, <1>i, <2>2 DEF Reported
  <2> QED
    BY <1>c, <2>1, <2>2 DEF Reported
<1>4. TodoPending' /\ Requeues'
  <2>1. QueuedMuFree \/ \A r : Listed(r) <=> Listed(r)'
    BY DEF Listed
  <2> QED
    BY <1>i, <2>1 DEF TodoPending, QueuedMuFree, Requeues
<1>5. DispatchTracked' /\ UnfinishedIsTracked'
  <2>1. Head(todo)' = Head(todo)
    OBVIOUS
  <2>2. DispatchTracked'
    BY <1>c, <1>h, <1>i, <2>1 DEF DispatchTracked
  <2>3. UnfinishedIsTracked'
    BY <1>c, <1>h, <1>i DEF UnfinishedIsTracked
  <2> QED
    BY <2>2, <2>3
<1> QED
  BY <1>1, <1>2, <1>3, <1>4, <1>5 DEF TrackInv

\* A call of s that has not ended at p still is one, and is the only thing at p.
StaysCalled(p, s) ==
  /\ \A q \in Procs : q # p => proc'[q] = proc[q]
  /\ proc'[p].pc # "idle" /\ proc'[p].sub = s

\* Advancing a call changes neither its submission nor any other call.
LEMMA GotoStaysCalled ==
  ASSUME ProcType, NEW p \in Procs, NEW pc, pc # "idle", Goto(p, pc)
  PROVE  StaysCalled(p, proc[p].sub)
<1>1. PICK r \in Proc : r = proc[p]
  BY DEF ProcType
<1>2. [r EXCEPT !.pc = pc].pc = pc /\ [r EXCEPT !.pc = pc].sub = r.sub
  BY DEF Proc
<1>3. proc' = [proc EXCEPT ![p] = [r EXCEPT !.pc = pc]]
  BY <1>1 DEF Goto
<1>4. \A q \in Procs : proc'[q] = IF q = p THEN [r EXCEPT !.pc = pc] ELSE proc[q]
  BY <1>3 DEF ProcType
<1> QED
  BY <1>1, <1>2, <1>4 DEF StaysCalled

\* Nor does the first step of a call, which names its submission, ...
LEMMA StartStaysCalled ==
  ASSUME ProcType, NEW p \in Procs, NEW s, NEW pc, NEW then, pc # "idle",
         proc' = [proc EXCEPT ![p] = [@ EXCEPT !.pc = pc, !.sub = s, !.then = then]]
  PROVE  StaysCalled(p, s)
<1>1. PICK r \in Proc : r = proc[p]
  BY DEF ProcType
<1>d. DEFINE v == [r EXCEPT !.pc = pc, !.sub = s, !.then = then]
<1>2. v.pc = pc /\ v.sub = s
  BY DEF Proc
<1>3. proc' = [proc EXCEPT ![p] = v]
  BY <1>1
<1> HIDE DEF v
<1>4. \A q \in Procs : proc'[q] = IF q = p THEN v ELSE proc[q]
  BY <1>3 DEF ProcType
<1> QED
  BY <1>2, <1>4 DEF StaysCalled

\* ... or the ones that look up and drop the outbox it writes to.
LEMMA OutboxStaysCalled ==
  ASSUME ProcType, NEW p \in Procs, NEW g, NEW n, NEW pc, pc # "idle",
         \/ proc' = [proc EXCEPT ![p] = [@ EXCEPT !.pc = pc, !.grader = g, !.queue = n]]
         \/ proc' = [proc EXCEPT ![p] = [[proc[p] EXCEPT !.grader = g, !.queue = n] EXCEPT !.pc = pc]]
  PROVE  StaysCalled(p, proc[p].sub)
<1>1. PICK r \in Proc : r = proc[p]
  BY DEF ProcType
<1>2. PICK v : /\ v.pc = pc /\ v.sub = r.sub
               /\ proc' = [proc EXCEPT ![p] = v]
  <2>1. CASE proc' = [proc EXCEPT ![p] = [@ EXCEPT !.pc = pc, !.grader = g, !.queue = n]]
    <3>d. DEFINE v == [r EXCEPT !.pc = pc, !.grader = g, !.queue = n]
    <3>1. v.pc = pc /\ v.sub = r.sub
      BY DEF Proc
    <3>2. proc' = [proc EXCEPT ![p] = v]
      BY <1>1, <2>1
    <3> HIDE DEF v
    <3> QED
      BY <3>1, <3>2
  <2>2. CASE proc' = [proc EXCEPT ![p] = [[proc[p] EXCEPT !.grader = g, !.queue = n] EXCEPT !.pc = pc]]
    <3>d. DEFINE v == [[r EXCEPT !.grader = g, !.queue = n] EXCEPT !.pc = pc]
    <3>1. v.pc = pc /\ v.sub = r.sub
      BY DEF Proc
    <3>2. proc' = [proc EXCEPT ![p] = v]
      BY <1>1, <2>2
    <3> HIDE DEF v
    <3> QED
      BY <3>1, <3>2
  <2> QED
    BY <2>1, <2>2
<1>3. \A q \in Procs : proc'[q] = IF q = p THEN v ELSE proc[q]
  BY <1>2 DEF ProcType
<1> QED
  BY <1>1, <1>2, <1>3 DEF StaysCalled

\* The calls of CancelSubmission and RegradeSubmission are such calls.
LEMMA CallersKeepTrack ==
  ASSUME TypeOK, ControlInv, IndexedIsPending, TrackInv, NEW p \in Callers,
         ProcNext(p) \/ \E s \in Submissions : CancelSubmission(p, s) \/ RegradeSubmission(p, s)
  PROVE  TrackInv'
<1>t. /\ PendingType /\ RepositoryType /\ StreamType /\ ProcType /\ ProcControl
      /\ unfinished \subseteq Submissions
  BY DEF TypeOK, ControlInv, RepositoryType
<1>i. Fresh
  BY DEF TrackInv
<1>p. p \in Procs /\ proc[p] \in Proc
  BY <1>t DEF Procs, ProcType
<1>u. UNCHANGED <<scheduler, todo, callback, monitor, monRequeue, monCur>>
  BY DEF ProcNext, RunMark, RunPush, RunQueued, CancelPending, CancelOwner, CancelSend,
         CancelCancelling, CancelCancelled, CancelFinish, CancelRelease, CancelDrop,
         CancelSubmission, RegradeSubmission, notClients, passVars, monitorVars
<1> USE DEF queueVars, claimVars, reportVars
<1>1. ASSUME NEW s \in Submissions, CancelSubmission(p, s) \/ RegradeSubmission(p, s)
      PROVE  TrackInv'
  <2>1. UNCHANGED <<queuedList, queuedListIndex, runningList, submissionGrader, brief, unfinished,
                    requests>> /\ proc[p].pc = "idle" /\ brief[s] # "None"
    BY <1>1 DEF CancelSubmission, RegradeSubmission
  <2>2. /\ \A q \in Procs : q # p => proc'[q] = proc[q]
        /\ proc'[p].pc # "idle" /\ proc'[p].sub = s
    <3>1. PICK pc \in {"cancel", "mark"}, then \in {"mark", "done"} :
            proc' = [proc EXCEPT ![p] = [@ EXCEPT !.pc = pc, !.sub = s, !.then = then]]
      <4>1. CASE CancelSubmission(p, s)
        BY <4>1 DEF CancelSubmission
      <4>2. CASE RegradeSubmission(p, s)
        <5>1. CASE brief[s] \in {"Queued", "Running"}
          <6>1. proc' = [proc EXCEPT ![p] = [@ EXCEPT !.pc = "cancel", !.sub = s, !.then = "mark"]]
            BY <4>2, <5>1 DEF RegradeSubmission
          <6> QED
            BY <6>1
        <5>2. CASE brief[s] \notin {"Queued", "Running"}
          <6>1. proc' = [proc EXCEPT ![p] = [@ EXCEPT !.pc = "mark", !.sub = s, !.then = "mark"]]
            BY <4>2, <5>2 DEF RegradeSubmission
          <6> QED
            BY <6>1
        <5> QED
          BY <5>1, <5>2
      <4> QED
        BY <1>1, <4>1, <4>2
    <3>2. pc # "idle"
      BY <3>1
    <3>3. StaysCalled(p, s)
      BY <1>p, <1>t, <3>1, <3>2, StartStaysCalled
    <3> QED
      BY <3>3 DEF StaysCalled
  <2>3. \A r : (Listed(r) <=> Listed(r)') /\ (Outstanding(r)' => Outstanding(r))
    BY <2>1 DEF Listed, Outstanding, Holds
  <2> QED
    BY <1>t, <1>u, <2>1, <2>2, <2>3, OthersKeepTrack
<1>2. ASSUME ProcNext(p)
      PROVE  TrackInv'
  <2>s. PICK s : s = proc[p].sub
    OBVIOUS
  <2>1. proc[p].pc # "idle" /\ s \in Submissions
    <3>1. proc[p].pc # "idle"
      BY <1>2 DEF ProcNext, RunMark, RunPush, RunQueued, CancelPending, CancelOwner, CancelSend,
             CancelCancelling, CancelCancelled, CancelFinish, CancelRelease, CancelDrop
    <3> QED
      BY <1>p, <1>t, <2>s, <3>1 DEF ProcControl
  <2>2. brief[s] # "None"
    BY <1>i, <2>1, <2>s DEF Fresh, Called
  <2>3. /\ \A q \in Procs : q # p => proc'[q] = proc[q]
        /\ proc'[p].pc # "idle" /\ proc'[p].sub = s
    <3>1. CASE \E pc \in ProcPcs \ {"idle"} : Goto(p, pc)
      <4>1. StaysCalled(p, proc[p].sub)
        BY <1>p, <1>t, <3>1, GotoStaysCalled
      <4> QED
        BY <2>s, <4>1 DEF StaysCalled
    <3>2. CASE CancelOwner(p) /\ ~\E pc \in ProcPcs \ {"idle"} : Goto(p, pc)
      <4>1. "cancelled" \in ProcPcs \ {"idle"}
        BY DEF ProcPcs
      <4>2. PICK g, n : proc' = [proc EXCEPT ![p] = [@ EXCEPT !.pc = "send", !.grader = g, !.queue = n]]
        BY <3>2, <4>1 DEF CancelOwner
      <4>3. StaysCalled(p, proc[p].sub)
        BY <1>p, <1>t, <4>2, OutboxStaysCalled
      <4> QED
        BY <2>s, <4>3 DEF StaysCalled
    <3>3. CASE CancelSend(p)
      <4>1. PICK pc \in {"cancelling", "cancelled"} :
              proc' = [proc EXCEPT ![p] = [[proc[p] EXCEPT !.grader = 0, !.queue = 0] EXCEPT !.pc = pc]]
        BY <3>3 DEF CancelSend
      <4>2. StaysCalled(p, proc[p].sub)
        BY <1>p, <1>t, <4>1, OutboxStaysCalled
      <4> QED
        BY <2>s, <4>2 DEF StaysCalled
    <3>4. CASE ~CancelOwner(p) /\ ~CancelSend(p)
      <4>1. /\ {"push", "queued", "done", "cancelled", "owner", "finish", "release", "drop", "mark"}
                \subseteq ProcPcs \ {"idle"}
            /\ proc[p].then \in ProcPcs \ {"idle"}
        <5>1. proc[p].then \in {"mark", "done"}
          BY <1>p DEF Proc
        <5> QED
          BY <5>1 DEF ProcPcs
      <4>2. \E pc \in ProcPcs \ {"idle"} : Goto(p, pc)
        BY <1>2, <3>4, <4>1 DEF ProcNext, RunMark, RunPush, RunQueued, CancelPending,
           CancelCancelling, CancelCancelled, CancelFinish, CancelRelease, CancelDrop
      <4> QED
        BY <3>1, <4>2
    <3> QED
      BY <3>1, <3>2, <3>3, <3>4
  <2>4. /\ brief'[s] # "None"
        /\ \A r \in Submissions : r # s => brief'[r] = brief[r]
    BY <1>2, <1>t, <2>1, <2>2, <2>s DEF SetBrief, RepositoryType, ProcNext, RunMark, RunPush,
         RunQueued, CancelPending, CancelOwner, CancelSend, CancelCancelling, CancelCancelled,
         CancelFinish, CancelRelease, CancelDrop
  <2>5. /\ \A r : r # s => (r \in unfinished' <=> r \in unfinished) /\ (r \in runningList' <=> r \in runningList)
        /\ \A r \in Submissions : r # s => submissionGrader'[r] = submissionGrader[r]
    BY <1>2, <1>t, <2>1, <2>s DEF ReleaseSubmission, FinishDrop, RepositoryType, ProcNext, RunMark,
         RunPush, RunQueued, CancelPending, CancelOwner, CancelSend, CancelCancelling,
         CancelCancelled, CancelFinish, CancelRelease, CancelDrop
  <2>6. \A r : r # s => (Listed(r)' <=> Listed(r))
    <3>1. CASE RunPush(p)
      BY <1>t, <2>1, <2>s, <3>1, PushListed DEF RunPush
    <3>2. CASE CancelPending(p) /\ s \in queuedListIndex
      <4>1. queuedList' = RemovePending(queuedList, s)
        BY <2>s, <3>2 DEF CancelPending
      <4>2. queuedList \in Seq(Elements(Submissions)) /\ Occurs(queuedList, s)
        BY <1>t, <3>2, QueueIsPendingList DEF IndexedIsPending, Listed, Occurs
      <4>3. \A r : (Listed(r) <=> Occurs(queuedList, r)) /\ (Listed(r)' <=> Occurs(queuedList', r))
        BY DEF Listed, Occurs
      <4> QED
        BY <4>1, <4>2, <4>3, RemovePendingOccurs
    <3>3. CASE UNCHANGED queuedList
      BY <3>3 DEF Listed
    <3> QED
      BY <1>2, <2>s, <3>1, <3>2, <3>3 DEF ProcNext, RunMark, RunQueued, CancelPending, CancelOwner,
         CancelSend, CancelCancelling, CancelCancelled, CancelFinish, CancelRelease, CancelDrop
  <2>7. QueuedMuFree \/ UNCHANGED <<queuedList, queuedListIndex>>
    BY <1>2 DEF PushPending, ProcNext, RunMark, RunPush, RunQueued, CancelPending, CancelOwner,
         CancelSend, CancelCancelling, CancelCancelled, CancelFinish, CancelRelease, CancelDrop
  <2>8. \A r : r # s /\ Outstanding(r)' => Outstanding(r)
    <3>1. CASE CancelSend(p) /\ requests' # requests
      <4>1. [sub |-> s, cancel |-> TRUE] \in Request /\ [sub |-> s, cancel |-> TRUE].sub = s
        BY <2>1 DEF Request
      <4>2. Push(proc[p].grader, proc[p].queue, [sub |-> s, cancel |-> TRUE])
        BY <2>s, <3>1 DEF CancelSend
      <4> QED
        BY <1>t, <4>1, <4>2, PushOutstanding
    <3>2. CASE UNCHANGED requests
      BY <3>2 DEF Outstanding, Holds
    <3> QED
      BY <1>2, <3>1, <3>2 DEF ProcNext, RunMark, RunPush, RunQueued, CancelPending, CancelOwner,
         CancelCancelling, CancelCancelled, CancelFinish, CancelRelease, CancelDrop
  <2> QED
    BY <1>t, <1>u, <2>1, <2>3, <2>4, <2>5, <2>6, <2>7, <2>8, <2>s, OthersKeepTrack
<1> QED
  BY <1>1, <1>2

\* The empty hub has nothing to lose.
LEMMA InitTrackInv == Init => TrackInv
<1> SUFFICES ASSUME Init
             PROVE  TrackInv
  OBVIOUS
<1>1. /\ unfinished = {} /\ queuedList = <<>> /\ runningList = {} /\ scheduler = "lock"
      /\ submissionGrader = [s \in Submissions |-> 0]
      /\ requests = [g \in Graders |-> [n \in Streams |-> <<>>]]
      /\ monitor = [g \in Graders |-> "none"] /\ monRequeue = [g \in Graders |-> {}]
      /\ callback = [g \in Graders |-> [s \in Submissions |-> "idle"]]
  BY DEF Init
<1>2. \A p \in Procs : proc[p].pc = "idle"
  BY DEF Init
<1>3. \A s \in Submissions : ~Outstanding(s)
  BY <1>1 DEF Outstanding, Holds
<1>4. OnlyRuns /\ Fresh
  BY <1>1, <1>2, <1>3 DEF OnlyRuns, Fresh, Untouched, Listed, Called, Procs
<1>5. Reported /\ TodoPending /\ DispatchTracked /\ Requeues /\ UnfinishedIsTracked
  BY <1>1 DEF Reported, TodoPending, QueuedMuFree, DispatchTracked, Requeues, UnfinishedIsTracked
<1> QED
  BY <1>4, <1>5 DEF TrackInv

\* Every step keeps track of the unfinished submissions.
LEMMA NextTrackInv == ListInv /\ TrackInv /\ [Next]_vars => TrackInv'
<1> SUFFICES ASSUME ListInv, TrackInv, [Next]_vars
             PROVE  TrackInv'
  OBVIOUS
<1>t. TypeOK /\ ControlInv /\ IndexedIsPending
  BY DEF ListInv
<1>1. CASE SchedulerNext
  BY <1>t, <1>1, SchedulerKeepsTrack
<1>2. ASSUME NEW g \in Graders, NEW n \in Streams,
             \/ RegisterGrader(g) \/ Reconnect(g) \/ MonitorTimeout(g) \/ MonitorWriteBack(g)
             \/ StreamNext(g, n) \/ StreamBreak(g, n) \/ GraderCrash(g)
             \/ OfflineBegin(g) \/ OfflineTake(g) \/ OfflineClaims(g) \/ OfflineEnd(g)
             \/ \E s \in Submissions : OfflineRelease(g, s)
      PROVE  TrackInv'
  BY <1>t, <1>2, QuietKeepTrack
<1>3. ASSUME NEW g \in Graders,
             \/ OfflineCollect(g) \/ OfflinePush(g) \/ OfflineBrief(g)
             \/ \E s \in Submissions : OfflineCheck(g, s)
      PROVE  TrackInv'
  BY <1>t, <1>3, OfflineKeepsTrack
<1>4. ASSUME NEW g \in Graders, NEW s \in Submissions, ReportNext(g, s)
      PROVE  TrackInv'
  BY <1>t, <1>4, ReportsKeepTrack
<1>5. ASSUME NEW s \in Submissions, CreateSubmission(s)
      PROVE  TrackInv'
  BY <1>t, <1>5, RunsKeepTrack
<1>6. ASSUME NEW p \in Procs, ProcNext(p)
      PROVE  TrackInv'
  BY <1>t, <1>6, RunsOnly, RunsKeepTrack, CallersKeepTrack DEF TrackInv, Procs
<1>7. ASSUME NEW p \in Callers, NEW s \in Submissions,
             CancelSubmission(p, s) \/ RegradeSubmission(p, s)
      PROVE  TrackInv'
  BY <1>t, <1>7, CallersKeepTrack
<1>8. CASE Restart
  BY <1>t, <1>8, RestartKeepsTrack
<1>9. CASE UNCHANGED vars
  BY <1>9 DEF TrackInv, Called, Listed, OnlyRuns, Fresh, Untouched, Outstanding, Holds, Reported, TodoPending,
              QueuedMuFree, DispatchTracked, Requeues, UnfinishedIsTracked, InHands, vars,
              queueVars, claimVars, reportVars, outboxVars, passVars, monitorVars
<1>10. ASSUME NEW g \in Graders,
              \/ RegisterGrader(g) \/ Reconnect(g) \/ MonitorTimeout(g) \/ MonitorWriteBack(g)
              \/ OfflineNext(g) \/ GraderCrash(g)
       PROVE  TrackInv'
  <2>1. 1 \in Streams
    BY HubAssumption DEF Streams
  <2>2. CASE \/ OfflineCollect(g) \/ OfflinePush(g) \/ OfflineBrief(g)
             \/ \E s \in Submissions : OfflineCheck(g, s)
    BY <1>3, <2>2
  <2>3. CASE \/ RegisterGrader(g) \/ Reconnect(g) \/ MonitorTimeout(g) \/ MonitorWriteBack(g)
             \/ GraderCrash(g) \/ OfflineBegin(g) \/ OfflineTake(g) \/ OfflineClaims(g)
             \/ OfflineEnd(g) \/ \E s \in Submissions : OfflineRelease(g, s)
    BY <1>2, <2>1, <2>3
  <2> QED
    BY <1>10, <2>2, <2>3 DEF OfflineNext
<1>11. ASSUME NEW g \in Graders, NEW n \in Streams, StreamNext(g, n) \/ StreamBreak(g, n)
       PROVE  TrackInv'
  BY <1>2, <1>11
<1> QED
  BY <1>1, <1>4, <1>5, <1>6, <1>7, <1>8, <1>9, <1>10, <1>11 DEF Next

\* No submission is lost: one that is marked unfinished is in the pending list, or
\* running, or in the hands of a goroutine that will push it or finish it, whatever
\* connections break, graders die or time out, however often the server restarts
\* and whatever other submissions are cancelled and regraded, also when it is
\* pending or running twice (onGraderOffline, schedulePass, CancelGrade,
\* runUnfinishedSubmissions).
THEOREM NothingIsLost == Spec => []UnfinishedIsTracked
<1>1. TrackInv => UnfinishedIsTracked
  BY DEF TrackInv
<1> QED
  BY <1>1, InitListInv, NextListInv, InitTrackInv, NextTrackInv, PTL DEF Spec

-----------------------------------------------------------------------------
(* While the graders stay connected *)

\* The graders stay connected: the server may restart, nothing else fails.
Quiet == FaultKinds \subseteq {"restart"}

\* Then no monitor has anything to do, outboxes stay open, and a grader with a
\* stream is online.
StreamsCalm ==
  \A g \in Graders :
    /\ monitor[g] \in {"none", "idle"} /\ monRequeue[g] = {}
    /\ session[g] => g \in onlineGraders
    /\ \A n \in Streams :
         /\ ~closed[g][n] /\ handler[g][n] # "nil"
         /\ handler[g][n] \in {"recv", "beat"} => linkUp[g][n]
         /\ linkUp[g][n] => g \in onlineGraders

\* So no push is refused: a pass has looked up an outbox that is still open.
PassCalm ==
  /\ scheduler \notin {"undoRunning", "undoClaim"}
  /\ scheduler \in {"run", "claim", "push"} => target \in Graders /\ targetQueue \in Streams

Calm == StreamsCalm /\ PassCalm

\* g has a stream, and the hub has its outbox in the map.
Connected(g) ==
  /\ g \in onlineGraders
  /\ \E n \in Streams : gradeRequestQueues[g] = n /\ handler[g][n] # "done" /\ linkUp[g][n]

\* What registration, streams and monitors leave alone.
notStreams == <<queuedList, queuedListIndex, runningList, claimVars, passVars, callback, proc,
                monRequeue>>

\* A new stream wakes the scheduler; nothing else connects a grader.
LEMMA StreamsStayCalm ==
  ASSUME TypeOK, Calm, NEW g \in Graders, NEW n \in Streams, StreamNext(g, n)
  PROVE  /\ Calm' /\ UNCHANGED notStreams /\ (schedulerWake => schedulerWake')
         /\ \A h \in Graders : monitor'[h] \in {"none", "idle"}
         /\ schedulerWake' \/ \A h \in Graders : Connected(h)' => Connected(h)
<1>t. StreamType /\ MonitorType /\ RunningType
  BY DEF TypeOK
<1>c. StreamsCalm /\ PassCalm
  BY DEF Calm
<1> USE DEF passVars, monitorVars, graderVars, outboxVars, streamVars, queueVars, notMonitor, notStreams
<1> SUFFICES /\ StreamsCalm' /\ UNCHANGED notStreams /\ (schedulerWake => schedulerWake')
             /\ schedulerWake' \/ \A h \in Graders : Connected(h)' => Connected(h)
  <2>1. ASSUME StreamsCalm', UNCHANGED notStreams
        PROVE  Calm' /\ \A h \in Graders : monitor'[h] \in {"none", "idle"}
    BY <1>c, <2>1 DEF Calm, PassCalm, StreamsCalm
  <2> QED
    BY <2>1
<1>1. CASE GraderHeartbeat(g, n)
  <2>1. g \in onlineGraders
    BY <1>1, <1>c DEF GraderHeartbeat, StreamsCalm
  <2>2. /\ handler' = [handler EXCEPT ![g][n] = "recv"]
        /\ linkUp' = [linkUp EXCEPT ![g][n] = TRUE]
        /\ monitor' = [monitor EXCEPT ![g] = IF @ = "none" THEN "idle" ELSE @]
        /\ schedulerWake' = TRUE
        /\ UNCHANGED <<monRequeue, session, onlineGraders, closed>>
        /\ UNCHANGED notStreams
    BY <1>1 DEF GraderHeartbeat
  <2>3. \A h \in Graders : monitor'[h] \in {"none", "idle"}
    BY <1>t, <1>c, <2>2 DEF StreamsCalm, MonitorType
  <2>4. ASSUME NEW h \in Graders, NEW m \in Streams
        PROVE  /\ handler'[h][m] # "nil"
               /\ handler'[h][m] \in {"recv", "beat"} => linkUp'[h][m]
               /\ linkUp'[h][m] => h \in onlineGraders
    <3>1. CASE h = g /\ m = n
      BY <1>t, <2>1, <2>2, <3>1 DEF StreamType
    <3>2. CASE ~(h = g /\ m = n)
      <4>1. handler'[h][m] = handler[h][m] /\ linkUp'[h][m] = linkUp[h][m]
        BY <1>t, <2>2, <3>2 DEF StreamType
      <4> QED
        BY <1>c, <4>1 DEF StreamsCalm
    <3> QED
      BY <3>1, <3>2
  <2>5. StreamsCalm'
    BY <1>c, <2>2, <2>3, <2>4 DEF StreamsCalm
  <2> QED
    BY <2>2, <2>5
<1>2. ASSUME HeartbeatNotRegistered(g, n) \/ RecvError(g, n) \/ MonitorStreamEnded(g, n)
      PROVE  FALSE
  BY <1>2, <1>c DEF HeartbeatNotRegistered, RecvError, MonitorStreamEnded, StreamsCalm
<1>3. CASE HeartbeatReceived(g, n) \/ MonitorBeat(g, n)
  <2>1. /\ handler[g][n] \in {"recv", "beat"} /\ linkUp[g][n] /\ g \in onlineGraders
        /\ \/ handler' = [handler EXCEPT ![g][n] = "recv"]
           \/ handler' = [handler EXCEPT ![g][n] = "beat"]
        /\ UNCHANGED <<monitor, monRequeue, session, closed, linkUp, gradeRequestQueues, schedulerWake>>
        /\ UNCHANGED notStreams
    BY <1>3, <1>c DEF HeartbeatReceived, MonitorBeat, StreamsCalm
  <2>2. onlineGraders' = onlineGraders
    BY <1>3, <2>1 DEF HeartbeatReceived, MonitorBeat
  <2>3. ASSUME NEW h \in Graders, NEW m \in Streams
        PROVE  /\ handler'[h][m] # "nil"
               /\ handler'[h][m] \in {"recv", "beat"} => linkUp'[h][m]
               /\ handler'[h][m] # "done" => handler[h][m] # "done"
    <3>1. CASE h = g /\ m = n
      BY <1>t, <2>1, <3>1 DEF StreamType
    <3>2. CASE ~(h = g /\ m = n)
      <4>1. handler'[h][m] = handler[h][m]
        BY <1>t, <2>1, <3>2 DEF StreamType
      <4> QED
        BY <1>c, <2>1, <4>1 DEF StreamsCalm
    <3> QED
      BY <3>1, <3>2
  <2>4. StreamsCalm'
    BY <1>c, <2>1, <2>2, <2>3 DEF StreamsCalm
  <2>5. \A h \in Graders : Connected(h)' => Connected(h)
    BY <2>1, <2>2, <2>3 DEF Connected
  <2> QED
    BY <2>1, <2>4, <2>5
<1>4. CASE SendRequests(g, n) \/ SendFails(g, n)
  <2>1. /\ UNCHANGED <<monitor, monRequeue, session, onlineGraders, closed, handler, linkUp,
                       gradeRequestQueues, schedulerWake>>
        /\ UNCHANGED notStreams
    BY <1>4 DEF SendRequests, SendFails
  <2> QED
    BY <1>c, <2>1 DEF StreamsCalm, Connected
<1> QED
  BY <1>1, <1>2, <1>3, <1>4 DEF StreamNext

\* A registration puts a grader online whose stream is not open yet.
LEMMA GradersStayCalm ==
  ASSUME Quiet, TypeOK, Calm, NEW g \in Graders,
         \/ RegisterGrader(g) \/ Reconnect(g) \/ MonitorTimeout(g) \/ MonitorWriteBack(g)
         \/ OfflineNext(g) \/ GraderCrash(g) \/ \E n \in Streams : StreamBreak(g, n)
  PROVE  /\ Calm' /\ UNCHANGED notStreams /\ UNCHANGED schedulerWake
         /\ \A h \in Graders : monitor'[h] \in {"none", "idle"}
         /\ \A h \in Graders : Connected(h)' => Connected(h)
<1>t. StreamType
  BY DEF TypeOK
<1>c. StreamsCalm /\ PassCalm
  BY DEF Calm
<1> USE DEF passVars, monitorVars, graderVars, outboxVars, streamVars, queueVars, notMonitor, notStreams
<1>1. ~MonitorTimeout(g) /\ ~GraderCrash(g) /\ \A n : ~StreamBreak(g, n)
  BY DEF Quiet, MonitorTimeout, GraderCrash, StreamBreak, Fault
<1>2. ~MonitorWriteBack(g) /\ ~OfflineNext(g)
  <2>1. monitor[g] \in {"none", "idle"}
    BY <1>c DEF StreamsCalm
  <2> QED
    BY <2>1 DEF MonitorWriteBack, OfflineNext, OfflineBegin, OfflineTake, OfflineClaims, OfflineCollect,
                OfflineRelease, OfflineCheck, OfflinePush, OfflineBrief, OfflineEnd
<1>3. /\ onlineGraders' \in {onlineGraders, onlineGraders \cup {g}}
      /\ session' = session \/ (session' = [session EXCEPT ![g] = TRUE] /\ g \in onlineGraders')
      /\ UNCHANGED <<monitor, monRequeue, closed, handler, linkUp, gradeRequestQueues, schedulerWake>>
      /\ UNCHANGED notStreams
  BY <1>1, <1>2 DEF RegisterGrader, Reconnect
<1>4. StreamsCalm'
  BY <1>t, <1>c, <1>3 DEF StreamsCalm, StreamType
<1>5. \A h \in Graders : Connected(h)' => Connected(h)
  BY <1>c, <1>3 DEF StreamsCalm, Connected
<1> QED
  BY <1>c, <1>3, <1>4, <1>5 DEF Calm, PassCalm, StreamsCalm

\* The calls and the reports do not concern the streams.
LEMMA CallsStayCalm ==
  ASSUME Calm,
         \/ \E g \in Graders, s \in Submissions : ReportNext(g, s)
         \/ \E s \in Submissions : CreateSubmission(s)
         \/ \E p \in Callers, s \in Submissions : CancelSubmission(p, s) \/ RegradeSubmission(p, s)
         \/ \E p \in Procs : ProcNext(p)
  PROVE  /\ Calm' /\ UNCHANGED <<passVars, monitor, monRequeue>>
         /\ \A h \in Graders : monitor[h] \in {"none", "idle"}
         /\ \A h \in Graders : Connected(h)' <=> Connected(h)
<1>1. UNCHANGED <<monitor, monRequeue, session, onlineGraders, closed, handler, linkUp,
                  gradeRequestQueues, passVars>>
  <2> USE DEF graderVars, outboxVars, streamVars, passVars, monitorVars
  <2>1. ASSUME NEW g \in Graders, NEW s \in Submissions, ReportNext(g, s)
        PROVE  UNCHANGED <<monitor, monRequeue, session, onlineGraders, closed, handler, linkUp,
                           gradeRequestQueues, passVars>>
    BY <2>1 DEF ReportNext, CallbackAccepted, CallbackDenied, CallbackWrite, JobStopsSilently,
                CallbackFinish, CallbackRelease, CallbackDrop, notReports
  <2>2. ASSUME NEW p, NEW s \in Submissions,
               CreateSubmission(s) \/ CancelSubmission(p, s) \/ RegradeSubmission(p, s)
        PROVE  UNCHANGED <<monitor, monRequeue, session, onlineGraders, closed, handler, linkUp,
                           gradeRequestQueues, passVars>>
    BY <2>2 DEF CreateSubmission, CancelSubmission, RegradeSubmission, notClients
  <2>3. ASSUME NEW p \in Procs, ProcNext(p)
        PROVE  UNCHANGED <<monitor, monRequeue, session, onlineGraders, closed, handler, linkUp,
                           gradeRequestQueues, passVars>>
    BY <2>3 DEF ProcNext, RunMark, RunPush, RunQueued, CancelPending, CancelOwner, CancelSend,
                CancelCancelling, CancelCancelled, CancelFinish, CancelRelease, CancelDrop, notClients
  <2> QED
    BY <2>1, <2>2, <2>3
<1>2. Calm' /\ \A h \in Graders : Connected(h)' <=> Connected(h)
  BY <1>1 DEF Calm, StreamsCalm, PassCalm, passVars, Connected
<1> QED
  BY <1>1, <1>2 DEF Calm, StreamsCalm

\* The scheduler looks up outboxes that stay open.
LEMMA SchedulerStaysCalm ==
  ASSUME TypeOK, Calm, SchedulerNext
  PROVE  /\ Calm' /\ ~PushRefused /\ ~UndoRunning /\ ~UndoClaim
         /\ \A h \in Graders : Connected(h)' <=> Connected(h)
<1>t. PassType /\ StreamType
  BY DEF TypeOK
<1>c. StreamsCalm /\ PassCalm
  BY DEF Calm
<1>1. UNCHANGED <<monitor, monRequeue, session, onlineGraders, closed, handler, linkUp, gradeRequestQueues>>
  BY DEF SchedulerNext, BeginPass, SkipPending, PickGrader, MarkRunning, Claim, PushAccepted,
         PushRefused, UndoRunning, UndoClaim, EndPass, AwaitWake, notScheduler, graderVars,
         streamVars, monitorVars
<1>2. ~PushRefused /\ ~UndoRunning /\ ~UndoClaim
  BY <1>c DEF PushRefused, UndoRunning, UndoClaim, StreamsCalm, PassCalm
<1>3. PassCalm'
  <2>1. CASE PickGrader
    <3>1. PICK g : g = pickGrader(Head(todo))
      OBVIOUS
    <3>2. g \in Graders
      BY <1>t, <2>1, <3>1, PickIsEligible DEF PickGrader, Eligible, PassType
    <3>3. /\ scheduler = "visit"
          /\ \/ UNCHANGED scheduler
             \/ scheduler' = "run" /\ target' = g /\ targetQueue' = gradeRequestQueues[g]
                /\ gradeRequestQueues[g] # 0
      BY <2>1, <3>1 DEF PickGrader
    <3>4. gradeRequestQueues[g] # 0 => gradeRequestQueues[g] \in Streams
      BY <1>t, <3>2, HubAssumption DEF StreamType, Streams
    <3> QED
      BY <3>2, <3>3, <3>4 DEF PassCalm
  <2>2. CASE BeginPass \/ SkipPending \/ MarkRunning \/ Claim \/ PushAccepted \/ EndPass \/ AwaitWake
    BY <1>c, <2>2 DEF PassCalm, BeginPass, SkipPending, MarkRunning, Claim, PushAccepted, EndPass, AwaitWake
  <2> QED
    BY <1>2, <2>1, <2>2 DEF SchedulerNext
<1>4. StreamsCalm' /\ \A h \in Graders : Connected(h)' <=> Connected(h)
  BY <1>c, <1>1 DEF StreamsCalm, Connected
<1> QED
  BY <1>2, <1>3, <1>4 DEF Calm

\* A server that starts has no streams.
LEMMA StartsCalm ==
  ASSUME Calm, Restart
  PROVE  Calm' /\ scheduler' = "lock" /\ ~progressed'
<1>1. /\ monitor' = [g \in Graders |-> IF status[g] = "None" THEN "none" ELSE "idle"]
      /\ monRequeue' = [g \in Graders |-> {}]
      /\ session' = [g \in Graders |-> FALSE]
      /\ handler' = [g \in Graders |-> [n \in Streams |-> IF handler[g][n] = "new" THEN "new" ELSE "done"]]
      /\ linkUp' = [g \in Graders |-> [n \in Streams |-> FALSE]]
      /\ scheduler' = "lock" /\ progressed' = FALSE /\ UNCHANGED closed
  BY DEF Restart, NewGraderHubService
<1> QED
  BY <1>1 DEF Calm, StreamsCalm, PassCalm

\* It starts calm.
LEMMA InitCalm == Init => Calm
  BY DEF Init, Calm, StreamsCalm, PassCalm

\* Every step keeps it so.
LEMMA NextCalm ==
  ASSUME Quiet, TypeOK, Calm, [Next]_vars
  PROVE  Calm'
<1>1. CASE UNCHANGED vars
  BY <1>1 DEF vars, Calm, StreamsCalm, PassCalm, graderVars, outboxVars, streamVars, passVars, monitorVars
<1>2. CASE Next
  BY <1>2, StreamsStayCalm, GradersStayCalm, CallsStayCalm, SchedulerStaysCalm, StartsCalm DEF Next
<1> QED
  BY <1>1, <1>2

\* A pass that has dispatched nothing sees every connected grader with the claims
\* it has, and has found no room for what it has already visited, unless a wake-up
\* is on its way.
PassSees ==
  scheduler = "visit" /\ ~progressed /\ ~WakePending =>
    /\ \A g \in Graders : Connected(g) =>
         g \in candidates /\ loads[g] <= Cardinality(graderSubmissions[g])
    /\ \A s \in Submissions : Listed(s) =>
         (\E i \in 1..Len(todo) : todo[i] = s) \/ \A g \in Graders : ~HasRoomFor(g, s)

NothingMissed == PassSees /\ NoMissedCapacity

\* Room is room of a connected grader.
LEMMA RoomOfConnected ==
  ASSUME NEW g, NEW s
  PROVE  HasRoomFor(g, s) <=> /\ Connected(g) /\ graderHasTags(g, s)
                              /\ Cardinality(graderSubmissions[g]) < Concurrency[g]
BY DEF HasRoomFor, Connected

\* The elements of a list of pending elements are submissions.
LEMMA ElementIsPending ==
  ASSUME NEW list \in Seq([sub : Submissions, rank : Int]), NEW i \in 1..Len(list)
  PROVE  list[i].sub \in Submissions
<1>1. list \in Seq(Elements(Submissions))
  BY DEF Elements
<1>2. list[i] \in Elements(Submissions)
  BY <1>1
<1> QED
  BY <1>2 DEF Elements

\* A step beside the scheduler that leaves a wake-up behind, or neither queues a
\* submission nor makes room, misses nothing.
LEMMA OthersMissNothing ==
  ASSUME TypeOK, NothingMissed, UNCHANGED passVars, PendingType',
         \/ WakePending'
         \/ /\ ~WakePending /\ UNCHANGED graderSubmissions
            /\ \A s \in Submissions : Listed(s)' => Listed(s)
            /\ \A g \in Graders : Connected(g)' => Connected(g)
  PROVE  NothingMissed'
<1>1. CASE WakePending'
  BY <1>1 DEF NothingMissed, PassSees, NoMissedCapacity
<1>2. CASE /\ ~WakePending /\ UNCHANGED graderSubmissions
           /\ \A s \in Submissions : Listed(s)' => Listed(s)
           /\ \A g \in Graders : Connected(g)' => Connected(g)
  <2>1. \A s : \A g \in Graders : HasRoomFor(g, s)' => HasRoomFor(g, s)
    BY <1>2 DEF HasRoomFor, Connected, graderHasTags
  <2>2. PassSees'
    BY <1>2, <2>1 DEF NothingMissed, PassSees, passVars
  <2>3. NoMissedCapacity'
    <3> SUFFICES ASSUME scheduler' = "wait", NEW i \in 1..Len(queuedList'), NEW g \in Graders,
                        HasRoomFor(g, queuedList[i].sub)'
                 PROVE  FALSE
      BY DEF NoMissedCapacity
    <3>1. queuedList'[i].sub \in Submissions /\ Listed(queuedList[i].sub)'
      BY ElementIsPending DEF PendingType, Listed
    <3>2. PICK s \in Submissions : s = queuedList'[i].sub
      BY <3>1
    <3>3. Listed(s)' /\ HasRoomFor(g, s)'
      BY <3>1, <3>2 DEF Listed, HasRoomFor, graderHasTags
    <3>4. PICK j \in 1..Len(queuedList) : queuedList[j].sub = s
      BY <1>2, <3>3 DEF Listed
    <3>5. scheduler = "wait"
      BY DEF passVars
    <3> QED
      BY <1>2, <2>1, <3>3, <3>4, <3>5 DEF NothingMissed, NoMissedCapacity
  <2> QED
    BY <2>2, <2>3 DEF NothingMissed
<1> QED
  BY <1>1, <1>2

\* The scheduler goes to sleep when it has seen every connected grader full, and
\* when it wakes it looks again.
LEMMA SchedulerMissesNothing ==
  ASSUME TypeOK, Calm, NothingMissed, SchedulerNext
  PROVE  NothingMissed'
<1>t. PassType /\ PendingType /\ StreamType /\ RepositoryType
  BY DEF TypeOK
<1>c. /\ ~PushRefused /\ ~UndoRunning /\ ~UndoClaim
      /\ \A g \in Graders : Connected(g)' <=> Connected(g)
  BY SchedulerStaysCalm
<1>u. UNCHANGED <<proc, callback, monRequeue, monitor>>
  BY DEF SchedulerNext, BeginPass, SkipPending, PickGrader, MarkRunning, Claim, PushAccepted,
         PushRefused, UndoRunning, UndoClaim, EndPass, AwaitWake, notScheduler, monitorVars
<1>w. UNCHANGED schedulerWake => (WakePending' <=> WakePending)
  BY <1>u DEF WakePending
<1>1. CASE BeginPass
  <2>1. UNCHANGED <<queuedList, schedulerWake, graderSubmissions, onlineGraders>>
    BY <1>1 DEF BeginPass, queueVars, claimVars, notScheduler, graderVars
  <2>2. CASE queuedList = <<>> \/ onlineGraders = {}
    <3>1. scheduler' = "wait"
      BY <1>1, <2>2 DEF BeginPass
    <3>2. \A i \in 1..Len(queuedList'), g \in Graders : ~HasRoomFor(g, queuedList[i].sub)'
      BY <2>1, <2>2 DEF HasRoomFor
    <3> QED
      BY <3>1, <3>2 DEF NothingMissed, PassSees, NoMissedCapacity
  <2>3. CASE ~(queuedList = <<>> \/ onlineGraders = {})
    <3>1. /\ scheduler' = "visit" /\ todo' = SubsOf(queuedList) /\ candidates' = onlineGraders
          /\ loads' = [g \in Graders |-> Cardinality(graderSubmissions[g])]
      BY <1>1, <2>3 DEF BeginPass
    <3>2. \A g \in Graders : Connected(g)' => g \in candidates' /\ loads'[g] <= Cardinality(graderSubmissions'[g])
      <4>1. \A g \in Graders : Cardinality(graderSubmissions[g]) \in Nat
        BY <1>t, LoadIsNat
      <4> QED
        BY <2>1, <3>1, <4>1 DEF Connected
    <3>3. \A s \in Submissions : Listed(s)' => \E i \in 1..Len(todo') : todo'[i] = s
      <4>1. /\ Len(SubsOf(queuedList)) = Len(queuedList)
            /\ \A i \in 1..Len(queuedList) : SubsOf(queuedList)[i] = queuedList[i].sub
        BY <1>t, QueueIsPendingList, SubsOfType
      <4> QED
        BY <2>1, <3>1, <4>1 DEF Listed
    <3> QED
      BY <3>1, <3>2, <3>3 DEF NothingMissed, PassSees, NoMissedCapacity
  <2> QED
    BY <2>2, <2>3
<1>2. CASE SkipPending
  <2>1. /\ scheduler = "visit" /\ scheduler' = "visit" /\ todo # <<>> /\ Eligible(Head(todo)) = {}
        /\ todo' = Tail(todo)
        /\ UNCHANGED <<queuedList, schedulerWake, graderSubmissions, loads, candidates, progressed>>
    BY <1>2 DEF SkipPending, queueVars, claimVars
  <2> SUFFICES ASSUME ~progressed, ~WakePending
               PROVE  /\ \A g \in Graders : Connected(g)' =>
                            g \in candidates' /\ loads'[g] <= Cardinality(graderSubmissions'[g])
                      /\ \A s \in Submissions : Listed(s)' =>
                            (\E i \in 1..Len(todo') : todo'[i] = s) \/ \A g \in Graders : ~HasRoomFor(g, s)'
    BY <1>w, <2>1 DEF NothingMissed, PassSees, NoMissedCapacity
  <2>2. \A g \in Graders : Connected(g)' =>
            g \in candidates' /\ loads'[g] <= Cardinality(graderSubmissions'[g])
    BY <1>c, <2>1 DEF NothingMissed, PassSees
  <2>3. ASSUME NEW g \in Graders
        PROVE  ~HasRoomFor(g, Head(todo))
    <3> SUFFICES ASSUME HasRoomFor(g, Head(todo))
                 PROVE  FALSE
      OBVIOUS
    <3>1. /\ Connected(g) /\ graderHasTags(g, Head(todo))
          /\ Cardinality(graderSubmissions[g]) < Concurrency[g]
      BY RoomOfConnected
    <3>2. g \in candidates /\ loads[g] <= Cardinality(graderSubmissions[g])
      BY <2>1, <3>1 DEF NothingMissed, PassSees
    <3>3. loads[g] \in Nat /\ Cardinality(graderSubmissions[g]) \in Nat /\ Concurrency[g] \in Nat
      BY <1>t, LoadIsNat, HubAssumption DEF PassType
    <3>4. loads[g] < Concurrency[g]
      BY <3>1, <3>2, <3>3
    <3> QED
      BY <2>1, <3>1, <3>2, <3>4 DEF Eligible
  <2>4. ASSUME NEW s \in Submissions, Listed(s)'
        PROVE  (\E i \in 1..Len(todo') : todo'[i] = s) \/ \A g \in Graders : ~HasRoomFor(g, s)'
    <3>1. Listed(s) /\ \A g : HasRoomFor(g, s)' => HasRoomFor(g, s) \/ g \notin Graders
      <4>1. Listed(s)
        BY <2>1, <2>4 DEF Listed
      <4>2. \A g \in Graders : HasRoomFor(g, s)' => HasRoomFor(g, s)
        BY <1>c, <2>1 DEF HasRoomFor, Connected, graderHasTags
      <4> QED
        BY <4>1, <4>2
    <3>2. CASE \A g \in Graders : ~HasRoomFor(g, s)
      BY <3>1, <3>2
    <3>3. ASSUME NEW i \in 1..Len(todo), todo[i] = s
          PROVE  (\E k \in 1..Len(todo') : todo'[k] = s) \/ s = Head(todo)
      <4>1. /\ Len(todo) \in Nat /\ Head(todo) = todo[1] /\ Len(Tail(todo)) = Len(todo) - 1
            /\ \A k \in 1..Len(Tail(todo)) : Tail(todo)[k] = todo[k + 1]
        BY <1>t, <2>1, HeadTailProperties, LenProperties DEF PassType
      <4>2. CASE i = 1
        BY <3>3, <4>1, <4>2
      <4>3. CASE i # 1
        <5>1. i - 1 \in 1..Len(Tail(todo)) /\ (i - 1) + 1 = i
          BY <4>1, <4>3
        <5> QED
          BY <2>1, <3>3, <4>1, <5>1
      <4> QED
        BY <4>2, <4>3
    <3>4. CASE s = Head(todo)
      BY <2>3, <3>1, <3>4
    <3> QED
      BY <2>1, <3>1, <3>2, <3>3, <3>4 DEF NothingMissed, PassSees
  <2> QED
    BY <2>2, <2>4
<1>3. CASE PickGrader
  <2>1. PICK g : g = pickGrader(Head(todo))
    OBVIOUS
  <2>2. g \in Graders
    BY <1>t, <1>3, <2>1, PickIsEligible DEF PickGrader, Eligible, PassType
  <2>3. /\ scheduler = "visit"
        /\ loads' = [loads EXCEPT ![g] = @ + 1]
        /\ \/ scheduler' = "run"
           \/ gradeRequestQueues[g] = 0 /\ candidates' = candidates \ {g} /\ scheduler' = "visit"
        /\ UNCHANGED <<queuedList, schedulerWake, graderSubmissions, todo, progressed>>
    BY <1>3, <2>1 DEF PickGrader, queueVars, claimVars
  <2>4. CASE scheduler' = "run"
    BY <2>4 DEF NothingMissed, PassSees, NoMissedCapacity
  <2>5. CASE gradeRequestQueues[g] = 0 /\ candidates' = candidates \ {g} /\ scheduler' = "visit"
    <3>1. ~Connected(g)
      BY <2>5, HubAssumption DEF Connected, Streams
    <3>2. \A h \in Graders : h # g => loads'[h] = loads[h] /\ (h \in candidates' <=> h \in candidates)
      BY <1>t, <2>3, <2>5 DEF PassType
    <3>3. \A s : \A h \in Graders : HasRoomFor(h, s)' => HasRoomFor(h, s)
      BY <1>c, <2>3 DEF HasRoomFor, Connected, graderHasTags
    <3>4. PassSees'
      BY <1>c, <1>w, <2>3, <3>1, <3>2, <3>3 DEF NothingMissed, PassSees, Listed
    <3> QED
      BY <2>5, <3>4 DEF NothingMissed, NoMissedCapacity
  <2> QED
    BY <2>3, <2>4, <2>5
<1>4. CASE MarkRunning \/ Claim
  BY <1>4 DEF MarkRunning, Claim, NothingMissed, PassSees, NoMissedCapacity
<1>5. CASE PushAccepted
  BY <1>5 DEF PushAccepted, NothingMissed, PassSees, NoMissedCapacity
<1>6. CASE EndPass
  <2>1. /\ scheduler = "visit" /\ todo = <<>>
        /\ scheduler' = IF progressed THEN "lock" ELSE "wait"
        /\ UNCHANGED <<queuedList, schedulerWake, graderSubmissions>>
    BY <1>6 DEF EndPass, queueVars, claimVars
  <2>2. CASE progressed
    BY <2>1, <2>2 DEF NothingMissed, PassSees, NoMissedCapacity
  <2>3. CASE ~progressed
    <3> SUFFICES ASSUME ~WakePending, NEW i \in 1..Len(queuedList), NEW g \in Graders
                 PROVE  ~HasRoomFor(g, queuedList[i].sub)'
      BY <1>w, <2>1, <2>3 DEF NothingMissed, PassSees, NoMissedCapacity
    <3>1. queuedList[i].sub \in Submissions /\ Listed(queuedList[i].sub)
      BY <1>t, ElementIsPending DEF PendingType, Listed
    <3>2. PICK s \in Submissions : s = queuedList[i].sub
      BY <3>1
    <3>3. ~HasRoomFor(g, s)
      BY <2>1, <2>3, <3>1, <3>2 DEF NothingMissed, PassSees
    <3> QED
      BY <1>c, <2>1, <3>2, <3>3 DEF HasRoomFor, Connected, graderHasTags
  <2> QED
    BY <1>t, <2>2, <2>3 DEF PassType
<1>7. CASE AwaitWake
  BY <1>7 DEF AwaitWake, NothingMissed, PassSees, NoMissedCapacity
<1> QED
  BY <1>c, <1>1, <1>2, <1>3, <1>4, <1>5, <1>6, <1>7 DEF SchedulerNext

\* A cancelled submission leaves the list, the others stay where they are.
LEMMA CancelUnlists ==
  ASSUME PendingType, IndexedIsPending, NEW p \in Procs, CancelPending(p)
  PROVE  \A r : /\ Listed(r)' => Listed(r)
                /\ r # proc[p].sub => (Listed(r)' <=> Listed(r))
<1>1. PICK s : s = proc[p].sub
  OBVIOUS
<1>2. \A r : (Listed(r) <=> Occurs(queuedList, r)) /\ (Listed(r)' <=> Occurs(queuedList', r))
  BY DEF Listed, Occurs
<1>3. CASE s \in queuedListIndex
  <2>1. queuedList' = RemovePending(queuedList, s)
    BY <1>1, <1>3 DEF CancelPending
  <2>2. queuedList \in Seq(Elements(Submissions)) /\ Occurs(queuedList, s)
    BY <1>3, QueueIsPendingList DEF IndexedIsPending, Listed, Occurs
  <2> QED
    BY <1>1, <1>2, <2>1, <2>2, RemovePendingOccurs
<1>4. CASE s \notin queuedListIndex
  BY <1>1, <1>4 DEF CancelPending, Listed
<1> QED
  BY <1>3, <1>4

\* Whatever will wake the scheduler goes on to wake it.
LEMMA CallsStillWake ==
  ASSUME TypeOK, IndexedIsPending, OnlyRuns,
         \/ \E s \in Submissions : CreateSubmission(s)
         \/ \E p \in Callers, s \in Submissions : CancelSubmission(p, s) \/ RegradeSubmission(p, s)
         \/ \E p \in Procs : ProcNext(p)
  PROVE  /\ WakePending => WakePending'
         /\ \/ WakePending'
            \/ UNCHANGED graderSubmissions /\ \A s \in Submissions : Listed(s)' => Listed(s)
<1> DEFINE Waking(p) == proc[p].pc \in {"finish", "release", "drop"}
<1>t. PendingType /\ ProcType
  BY DEF TypeOK
<1>u. /\ UNCHANGED <<callback, monRequeue, monitor>>
      /\ UNCHANGED schedulerWake \/ schedulerWake'
  BY DEF CreateSubmission, CancelSubmission, RegradeSubmission, ProcNext, RunMark, RunPush, PushPending,
         RunQueued, CancelPending, CancelOwner, CancelSend, CancelCancelling, CancelCancelled, CancelFinish,
         CancelRelease, CancelDrop, FinishDrop, notClients, monitorVars, queueVars
<1>1. ASSUME NEW p \in Procs, ~Waking(p) \/ schedulerWake' \/ Waking(p)',
             \A q \in Procs : q # p => proc'[q] = proc[q]
      PROVE  WakePending => WakePending'
  BY <1>u, <1>1 DEF WakePending
<1> DEFINE Moves(p) == \A q \in Procs : q # p => proc'[q] = proc[q]
           Goal == /\ WakePending => WakePending'
                   /\ \/ WakePending'
                      \/ UNCHANGED graderSubmissions /\ \A s \in Submissions : Listed(s)' => Listed(s)
<1>2. ASSUME NEW s \in Submissions, CreateSubmission(s)
      PROVE  Goal
  <2>1. s \in Procs /\ Moves(s) /\ UNCHANGED <<queuedList, graderSubmissions>>
    BY <1>2, <1>t DEF CreateSubmission, Goto, ProcType, Procs, queueVars, claimVars
  <2>2. ~Waking(s)
    BY DEF OnlyRuns
  <2> HIDE DEF Waking
  <2> QED
    BY <1>1, <2>1, <2>2 DEF Listed
<1>3. ASSUME NEW p \in Callers, NEW s \in Submissions, CancelSubmission(p, s) \/ RegradeSubmission(p, s)
      PROVE  Goal
  <2>1. p \in Procs /\ Moves(p) /\ UNCHANGED <<queuedList, graderSubmissions>>
    <3>1. p \in Procs /\ UNCHANGED <<queuedList, graderSubmissions>>
      BY <1>3 DEF CancelSubmission, RegradeSubmission, Procs, queueVars, claimVars
    <3>2. \E v : proc' = [proc EXCEPT ![p] = v]
      BY <1>3 DEF CancelSubmission, RegradeSubmission
    <3> QED
      BY <1>t, <3>1, <3>2 DEF ProcType
  <2>2. ~Waking(p)
    BY <1>3 DEF CancelSubmission, RegradeSubmission
  <2> HIDE DEF Waking
  <2> QED
    BY <1>1, <2>1, <2>2 DEF Listed
<1>4. ASSUME NEW p \in Procs, ProcNext(p)
      PROVE  Goal
  <2>1. Moves(p)
    <3>1. \E v : proc' = [proc EXCEPT ![p] = v]
      BY <1>4 DEF Goto, ProcNext, RunMark, RunPush, RunQueued, CancelPending, CancelOwner, CancelSend,
         CancelCancelling, CancelCancelled, CancelFinish, CancelRelease, CancelDrop
    <3> QED
      BY <1>t, <3>1 DEF ProcType
  <2>2. CASE RunPush(p) \/ CancelDrop(p)
    <3>1. schedulerWake'
      BY <2>2 DEF RunPush, PushPending, CancelDrop, FinishDrop
    <3> QED
      BY <3>1 DEF WakePending
  <2>3. CASE CancelCancelled(p) \/ CancelFinish(p) \/ CancelRelease(p)
    <3>1. PICK pc \in {"finish", "release", "drop"} : Goto(p, pc)
      BY <2>3 DEF CancelCancelled, CancelFinish, CancelRelease
    <3>2. proc[p] \in Proc /\ proc' = [proc EXCEPT ![p].pc = pc]
      BY <1>t, <3>1 DEF Goto, ProcType
    <3>3. proc'[p].pc = pc
      BY <1>t, <3>2 DEF ProcType, Proc
    <3> QED
      BY <3>1, <3>3 DEF WakePending
  <2>4. CASE RunMark(p) \/ RunQueued(p) \/ CancelOwner(p) \/ CancelSend(p) \/ CancelCancelling(p)
    <3>1. ~Waking(p) /\ UNCHANGED <<queuedList, graderSubmissions>>
      BY <2>4 DEF RunMark, RunQueued, CancelOwner, CancelSend, CancelCancelling, queueVars, claimVars
    <3> HIDE DEF Waking
    <3> QED
      BY <1>1, <2>1, <3>1 DEF Listed
  <2>5. CASE CancelPending(p)
    <3>1. ~Waking(p) /\ UNCHANGED graderSubmissions
      BY <2>5 DEF CancelPending, claimVars
    <3>2. \A s \in Submissions : Listed(s)' => Listed(s)
      BY <1>t, <2>5, CancelUnlists
    <3> HIDE DEF Waking
    <3> QED
      BY <1>1, <2>1, <3>1, <3>2
  <2> QED
    BY <1>4, <2>2, <2>3, <2>4, <2>5 DEF ProcNext
<1> QED
  BY <1>2, <1>3, <1>4

\* So do the handlers of reports.
LEMMA ReportsStillWake ==
  ASSUME TypeOK, NEW g \in Graders, NEW s \in Submissions, ReportNext(g, s)
  PROVE  /\ WakePending => WakePending'
         /\ WakePending' \/ UNCHANGED <<queuedList, graderSubmissions>>
<1> DEFINE Waking(h, r) == callback[h][r] \in {"finish", "release", "drop"}
<1>t. callback \in [Graders -> [Submissions -> {"idle", "Running", "finish", "release", "drop"} \cup Terminal]]
  BY DEF TypeOK, WorkerType
<1>u. /\ UNCHANGED <<proc, monRequeue, monitor, queuedList>>
      /\ UNCHANGED schedulerWake \/ schedulerWake'
  BY DEF ReportNext, CallbackAccepted, CallbackDenied, CallbackWrite, JobStopsSilently, CallbackFinish,
         CallbackRelease, CallbackDrop, FinishDrop, notReports, monitorVars
<1>1. CASE CallbackDrop(g, s)
  <2>1. schedulerWake'
    BY <1>1 DEF CallbackDrop, FinishDrop
  <2> QED
    BY <2>1 DEF WakePending
<1>2. CASE CallbackFinish(g, s) \/ CallbackRelease(g, s)
  <2>1. PICK pc \in {"release", "drop"} : callback' = [callback EXCEPT ![g][s] = pc]
    BY <1>2 DEF CallbackFinish, CallbackRelease
  <2>2. callback'[g][s] = pc
    BY <1>t, <2>1
  <2> QED
    BY <2>1, <2>2 DEF WakePending
<1>3. CASE CallbackDenied(g, s) \/ JobStopsSilently(g, s)
  <2>1. UNCHANGED <<graderSubmissions, callback>>
    BY <1>3 DEF CallbackDenied, JobStopsSilently, claimVars
  <2> QED
    BY <1>u, <2>1 DEF WakePending
<1>4. CASE CallbackAccepted(g, s) \/ CallbackWrite(g, s)
  <2>1. UNCHANGED graderSubmissions
    BY <1>4 DEF CallbackAccepted, CallbackWrite, claimVars
  <2>2. ~Waking(g, s)
    BY <1>4 DEF CallbackAccepted, CallbackWrite, Terminal
  <2>3. \E v : callback' = [callback EXCEPT ![g][s] = v]
    <3>1. CASE CallbackAccepted(g, s)
      BY <3>1 DEF CallbackAccepted
    <3>2. CASE CallbackWrite(g, s)
      BY <3>2 DEF CallbackWrite
    <3> QED
      BY <1>4, <3>1, <3>2
  <2>4. \A h \in Graders, r \in Submissions : ~(h = g /\ r = s) => callback'[h][r] = callback[h][r]
    BY <1>t, <2>3
  <2>5. \A h \in Graders, r \in Submissions : Waking(h, r) => Waking(h, r)'
    BY <2>2, <2>4
  <2>6. WakePending => WakePending'
    BY <1>u, <2>5 DEF WakePending
  <2> QED
    BY <1>u, <2>1, <2>6
<1> QED
  BY <1>1, <1>2, <1>3, <1>4 DEF ReportNext

\* Every step keeps it.
LEMMA NextNothingMissed ==
  ASSUME Quiet, ListInv, PendingType', OnlyRuns, Calm, NothingMissed, [Next]_vars
  PROVE  NothingMissed'
<1>t. TypeOK /\ ControlInv /\ IndexedIsPending
  BY DEF ListInv
<1>1. CASE UNCHANGED vars
  BY <1>1 DEF vars, NothingMissed, PassSees, NoMissedCapacity, WakePending, Listed, HasRoomFor, Connected,
              graderHasTags, queueVars, claimVars, graderVars, outboxVars, streamVars, passVars, monitorVars
<1>2. CASE SchedulerNext
  BY <1>t, <1>2, SchedulerMissesNothing
<1>3. CASE Restart
  <2>1. scheduler' = "lock"
    BY <1>3, StartsCalm
  <2> QED
    BY <2>1 DEF NothingMissed, PassSees, NoMissedCapacity
<1>4. ASSUME UNCHANGED notStreams, schedulerWake => schedulerWake',
             \A h \in Graders : monitor[h] # "push" /\ monitor'[h] # "push",
             schedulerWake' \/ \A h \in Graders : Connected(h)' => Connected(h)
      PROVE  NothingMissed'
  <2>1. UNCHANGED <<passVars, queuedList, graderSubmissions, proc, callback, monRequeue>>
    BY <1>4 DEF notStreams, claimVars
  <2>2. WakePending => WakePending'
    BY <1>4, <2>1 DEF WakePending
  <2>3. \A s \in Submissions : Listed(s)' => Listed(s)
    BY <2>1 DEF Listed
  <2>4. schedulerWake' => WakePending'
    BY DEF WakePending
  <2> QED
    BY <1>t, <1>4, <2>1, <2>2, <2>3, <2>4, OthersMissNothing
<1>m. \A h \in Graders : monitor[h] # "push"
  BY DEF Calm, StreamsCalm
<1>5. ASSUME NEW g \in Graders, NEW n \in Streams, StreamNext(g, n)
      PROVE  NothingMissed'
  BY <1>t, <1>m, <1>4, <1>5, StreamsStayCalm
<1>6. ASSUME NEW g \in Graders,
             \/ RegisterGrader(g) \/ Reconnect(g) \/ MonitorTimeout(g) \/ MonitorWriteBack(g)
             \/ OfflineNext(g) \/ GraderCrash(g) \/ \E n \in Streams : StreamBreak(g, n)
      PROVE  NothingMissed'
  BY <1>t, <1>m, <1>4, <1>6, GradersStayCalm
<1>7. CASE \/ \E s \in Submissions : CreateSubmission(s)
           \/ \E p \in Callers, s \in Submissions : CancelSubmission(p, s) \/ RegradeSubmission(p, s)
           \/ \E p \in Procs : ProcNext(p)
  <2>1. UNCHANGED passVars /\ \A h \in Graders : Connected(h)' <=> Connected(h)
    BY <1>7, CallsStayCalm
  <2>2. /\ WakePending => WakePending'
        /\ \/ WakePending'
           \/ UNCHANGED graderSubmissions /\ \A s \in Submissions : Listed(s)' => Listed(s)
    BY <1>t, <1>7, CallsStillWake
  <2> QED
    BY <1>t, <2>1, <2>2, OthersMissNothing
<1>8. ASSUME NEW g \in Graders, NEW s \in Submissions, ReportNext(g, s)
      PROVE  NothingMissed'
  <2>1. UNCHANGED passVars /\ \A h \in Graders : Connected(h)' <=> Connected(h)
    BY <1>8, CallsStayCalm
  <2>2. /\ WakePending => WakePending'
        /\ WakePending' \/ UNCHANGED <<queuedList, graderSubmissions>>
    BY <1>t, <1>8, ReportsStillWake
  <2> QED
    BY <1>t, <2>1, <2>2, OthersMissNothing DEF Listed
<1> QED
  BY <1>1, <1>2, <1>3, <1>5, <1>6, <1>7, <1>8 DEF Next

\* While the graders stay connected the scheduler never sleeps, with no wake-up on
\* its way, on a request that some grader has room for, however its stale snapshot
\* interleaves with calls, reports, new streams and restarts (scheduler,
\* schedulePass, wakeScheduler).
THEOREM NoCapacityIsMissed ==
  ASSUME FaultKinds \subseteq {"restart"}
  PROVE  Spec => []NoMissedCapacity
<1>q. Quiet
  BY DEF Quiet
<1>1. Init => Calm /\ NothingMissed
  BY InitCalm DEF Init, NothingMissed, PassSees, NoMissedCapacity
<1>3. ListInv /\ TrackInv /\ Calm /\ NothingMissed /\ [Next]_vars =>
        ListInv' /\ TrackInv' /\ Calm' /\ NothingMissed'
  <2> SUFFICES ASSUME ListInv, TrackInv, Calm, NothingMissed, [Next]_vars
               PROVE  ListInv' /\ TrackInv' /\ Calm' /\ NothingMissed'
    OBVIOUS
  <2>1. ListInv' /\ TrackInv' /\ PendingType'
    BY NextListInv, NextTrackInv DEF ListInv, TypeOK
  <2>2. TypeOK /\ OnlyRuns
    BY DEF ListInv, TrackInv
  <2> QED
    BY <1>q, <2>1, <2>2, NextCalm, NextNothingMissed
<1>4. NothingMissed => NoMissedCapacity
  BY DEF NothingMissed
<1> QED
  BY <1>1, <1>3, <1>4, InitListInv, InitTrackInv, PTL DEF Spec

-----------------------------------------------------------------------------
(* The views of who is pending, running and claimed *)

\* A call that pushes is a regrade, and one that has not begun asks for nothing.
RegradersPush ==
  \A p \in Callers :
    /\ proc[p].pc = "idle" \/ "regrade" \notin Operations => proc[p].then = "done"
    /\ proc[p].pc \in {"mark", "push"} => proc[p].then = "mark"

\* s is in the list once, where the index finds it.
ListedOnce(s) == (Listed(s) => s \in queuedListIndex) /\ ~OccursTwice(queuedList, s)

\* Nothing in the hub knows of s.
NotYet(s) == ~Listed(s) /\ s \notin runningList /\ submissionGrader[s] = 0

ClaimAgrees(s) == \A g \in Graders : s \in graderSubmissions[g] <=> submissionGrader[s] = g

\* An indexed submission is running or claimed only while a pass hands it over.
View(s) ==
  /\ ListedOnce(s) /\ ClaimAgrees(s)
  /\ s \in queuedListIndex /\ s \in runningList => scheduler \in {"claim", "push"} /\ Head(todo) = s
  /\ s \in queuedListIndex /\ submissionGrader[s] # 0 => scheduler = "push" /\ Head(todo) = s
  /\ proc[s].pc \in {"idle", "mark", "push"} => NotYet(s)

\* Every submission that was not regraded has one view.
Views == \A s \in Submissions : Regraded(s) \/ View(s)

\* Releasing a claim clears both indexes.
LEMMA ReleaseAgrees ==
  ASSUME RepositoryType, NEW r \in Submissions, ReleaseSubmission(r), NEW s \in Submissions
  PROVE  /\ ClaimAgrees(s) => ClaimAgrees(s)'
         /\ submissionGrader'[s] # 0 => submissionGrader[s] # 0
<1>1. /\ submissionGrader' = [submissionGrader EXCEPT ![r] = 0]
      /\ \A g \in Graders : graderSubmissions'[g] =
           IF g = submissionGrader[r] THEN graderSubmissions[g] \ {r} ELSE graderSubmissions[g]
  BY DEF ReleaseSubmission
<1>2. submissionGrader'[s] = IF s = r THEN 0 ELSE submissionGrader[s]
  BY <1>1 DEF RepositoryType
<1>3. 0 \notin Graders
  BY HubAssumption
<1>4. ASSUME ClaimAgrees(s), NEW g \in Graders
      PROVE  s \in graderSubmissions'[g] <=> submissionGrader'[s] = g
  <2>1. s \in graderSubmissions[g] <=> submissionGrader[s] = g
    BY <1>4 DEF ClaimAgrees
  <2>2. CASE s = r
    BY <1>1, <1>2, <1>3, <2>1, <2>2
  <2>3. CASE s # r
    BY <1>1, <1>2, <2>1, <2>3
  <2> QED
    BY <2>2, <2>3
<1> QED
  BY <1>2, <1>4 DEF ClaimAgrees

\* A step that does not push, hand over or claim s keeps its view.
LEMMA ViewStays ==
  ASSUME NEW s \in Submissions, View(s), UNCHANGED <<scheduler, todo>>,
         ListedOnce(s)', ClaimAgrees(s)', Listed(s)' => Listed(s),
         s \in queuedListIndex' => s \in queuedListIndex,
         s \in runningList' => s \in runningList,
         submissionGrader'[s] # 0 => submissionGrader[s] # 0,
         proc'[s].pc \in {"idle", "mark", "push"} => proc[s].pc \in {"idle", "mark", "push"}
  PROVE  View(s)'
BY DEF View, NotYet

\* The steps of streams, monitors and reports.
LEMMA QuietKeepsViews ==
  ASSUME TypeOK, RegradersPush, Views,
         UNCHANGED <<queuedList, queuedListIndex, proc, scheduler, todo>>,
         runningList' \subseteq runningList,
         UNCHANGED claimVars \/ \E r \in Submissions : ReleaseSubmission(r)
  PROVE  RegradersPush' /\ Views'
<1>1. RegradersPush'
  BY DEF RegradersPush
<1>2. \A s : Regraded(s) <=> Regraded(s)'
  BY DEF Regraded
<1>3. ASSUME NEW s \in Submissions, View(s)
      PROVE  View(s)'
  <2>1. ListedOnce(s)' /\ (Listed(s)' => Listed(s))
    BY <1>3 DEF View, ListedOnce, Listed, OccursTwice
  <2>2. ClaimAgrees(s)' /\ (submissionGrader'[s] # 0 => submissionGrader[s] # 0)
    <3>1. CASE UNCHANGED claimVars
      BY <1>3, <3>1 DEF View, ClaimAgrees, claimVars
    <3>2. CASE \E r \in Submissions : ReleaseSubmission(r)
      BY <1>3, <3>2, ReleaseAgrees DEF View, TypeOK
    <3> QED
      BY <3>1, <3>2
  <2> QED
    BY <1>3, <2>1, <2>2, ViewStays
<1> QED
  BY <1>1, <1>2, <1>3 DEF Views

\* A call that has begun is about its submission, and about it only.
LEMMA CallsKeepRegraded ==
  ASSUME RegradersPush, NEW p, \A q \in Procs : q # p => proc'[q] = proc[q],
         p \in Callers => proc[p].pc = "idle" \/ (proc'[p].sub = proc[p].sub /\ proc'[p].then = proc[p].then)
  PROVE  \A s : Regraded(s) => Regraded(s)'
<1>1. Callers \subseteq Procs
  BY DEF Procs
<1>2. ASSUME NEW s, NEW q \in Callers, proc[q].sub = s, proc[q].then = "mark"
      PROVE  Regraded(s)'
  <2>1. proc[q].pc # "idle"
    BY <1>2 DEF RegradersPush
  <2> QED
    BY <1>1, <1>2, <2>1 DEF Regraded
<1> QED
  BY <1>2 DEF Regraded

\* A pass hands over what is pending and not yet claimed, and then it is no longer
\* pending.
LEMMA SchedulerKeepsViews ==
  ASSUME TypeOK, ControlInv, IndexedIsPending, TodoPending, Calm, RegradersPush, Views, SchedulerNext
  PROVE  RegradersPush' /\ Views'
<1>t. PassType /\ PassControl /\ RepositoryType /\ PendingType /\ todo \in Seq(Submissions)
  BY DEF TypeOK, ControlInv, PassType
<1>c. ~PushRefused /\ ~UndoRunning /\ ~UndoClaim /\ PassCalm
  BY SchedulerStaysCalm DEF Calm
<1>u. UNCHANGED proc
  BY DEF SchedulerNext, BeginPass, SkipPending, PickGrader, MarkRunning, Claim, PushAccepted,
         PushRefused, UndoRunning, UndoClaim, EndPass, AwaitWake, notScheduler
<1>r. RegradersPush' /\ \A s : Regraded(s) <=> Regraded(s)'
  BY <1>u DEF RegradersPush, Regraded
<1>f. ASSUME UNCHANGED <<queuedList, queuedListIndex>>, NEW s \in Submissions, View(s)
      PROVE  ListedOnce(s)' /\ (Listed(s)' <=> Listed(s))
  BY <1>f DEF View, ListedOnce, Listed, OccursTwice
\* Of the request a pass has at hand, unless it was regraded.
<1>h. ASSUME scheduler \in {"run", "claim", "push"}, View(Head(todo))
      PROVE  /\ Head(todo) \in Submissions /\ Listed(Head(todo)) /\ Head(todo) \in queuedListIndex
             /\ proc[Head(todo)].pc \notin {"idle", "mark", "push"}
  <2>1. todo # <<>> /\ ~QueuedMuFree
    BY <1>t, <1>h DEF PassControl, QueuedMuFree
  <2>2. Head(todo) \in Submissions /\ Listed(Head(todo))
    BY <1>t, <2>1, CurrentIsListed, CurrentRequest
  <2> QED
    BY <1>h, <2>2 DEF View, ListedOnce, NotYet
<1>1. CASE BeginPass \/ SkipPending \/ PickGrader \/ EndPass \/ AwaitWake
  <2>1. /\ UNCHANGED <<queuedList, queuedListIndex, runningList, submissionGrader, graderSubmissions>>
        /\ scheduler \in {"lock", "visit", "wait"}
    BY <1>1 DEF BeginPass, SkipPending, PickGrader, EndPass, AwaitWake, queueVars, claimVars
  <2>2. ASSUME NEW s \in Submissions, View(s)
        PROVE  View(s)'
    BY <1>f, <1>u, <2>1, <2>2 DEF View, ClaimAgrees, NotYet
  <2> QED
    BY <1>r, <2>2 DEF Views
<1>2. CASE MarkRunning
  <2>1. /\ scheduler = "run" /\ scheduler' = "claim" /\ runningList' = runningList \cup {Head(todo)}
        /\ UNCHANGED <<queuedList, queuedListIndex, submissionGrader, graderSubmissions, todo>>
    BY <1>2 DEF MarkRunning, queueVars, claimVars
  <2>2. ASSUME NEW s \in Submissions, View(s)
        PROVE  View(s)'
    <3>1. CASE s = Head(todo)
      BY <1>f, <1>h, <1>u, <2>1, <2>2, <3>1 DEF View, ClaimAgrees
    <3>2. CASE s # Head(todo)
      BY <1>f, <1>u, <2>1, <2>2, <3>2 DEF View, ClaimAgrees, NotYet
    <3> QED
      BY <3>1, <3>2
  <2> QED
    BY <1>r, <2>2 DEF Views
<1>3. CASE Claim
  <2>1. /\ scheduler = "claim" /\ scheduler' = "push" /\ target \in Graders
        /\ UNCHANGED <<queuedList, queuedListIndex, runningList, todo>>
        /\ submissionGrader' = [submissionGrader EXCEPT ![Head(todo)] = target]
        /\ graderSubmissions' = [graderSubmissions EXCEPT ![target] = @ \cup {Head(todo)}]
    BY <1>3, <1>c DEF Claim, ClaimSubmission, queueVars, PassCalm
  <2>2. ASSUME NEW s \in Submissions, View(s)
        PROVE  View(s)'
    <3>1. CASE s = Head(todo)
      <4>1. s \in queuedListIndex /\ submissionGrader[s] = 0 /\ proc[s].pc \notin {"idle", "mark", "push"}
        BY <1>h, <2>1, <2>2, <3>1 DEF View
      <4>2. \A g \in Graders : s \notin graderSubmissions[g]
        BY <2>2, <4>1, HubAssumption DEF View, ClaimAgrees
      <4>3. submissionGrader'[s] = target
        BY <1>t, <2>1, <3>1 DEF RepositoryType
      <4>4. \A g \in Graders : s \in graderSubmissions'[g] <=> g = target
        BY <1>t, <2>1, <3>1, <4>2 DEF RepositoryType
      <4>5. ClaimAgrees(s)'
        BY <4>3, <4>4 DEF ClaimAgrees
      <4> QED
        BY <1>f, <1>u, <2>1, <2>2, <3>1, <4>1, <4>5 DEF View
    <3>2. CASE s # Head(todo)
      <4>1. submissionGrader'[s] = submissionGrader[s]
        BY <1>t, <2>1, <3>2 DEF RepositoryType
      <4>2. \A g \in Graders : s \in graderSubmissions'[g] <=> s \in graderSubmissions[g]
        BY <1>t, <2>1, <3>2 DEF RepositoryType
      <4> QED
        BY <1>f, <1>u, <2>1, <2>2, <3>2, <4>1, <4>2 DEF View, ClaimAgrees, NotYet
    <3> QED
      BY <3>1, <3>2
  <2> QED
    BY <1>r, <2>2 DEF Views
<1>4. CASE PushAccepted
  <2>1. /\ scheduler = "push" /\ scheduler' = "visit"
        /\ UNCHANGED <<runningList, submissionGrader, graderSubmissions>>
        /\ IF Head(todo) \in queuedListIndex
           THEN /\ queuedList' = RemovePending(queuedList, Head(todo))
                /\ queuedListIndex' = queuedListIndex \ {Head(todo)}
           ELSE UNCHANGED <<queuedList, queuedListIndex>>
    BY <1>4 DEF PushAccepted, claimVars
  <2>2. ASSUME NEW s \in Submissions, View(s)
        PROVE  /\ ListedOnce(s)' /\ (Listed(s)' => Listed(s))
               /\ s \in queuedListIndex' => s \in queuedListIndex /\ s # Head(todo)
    <3>1. CASE Head(todo) \notin queuedListIndex
      BY <1>f, <2>1, <2>2, <3>1
    <3>2. CASE Head(todo) \in queuedListIndex
      <4>1. queuedList \in Seq(Elements(Submissions)) /\ Occurs(queuedList, Head(todo))
        BY <1>t, <3>2, QueueIsPendingList DEF IndexedIsPending, Listed, Occurs
      <4>2. \A r : (Listed(r) <=> Occurs(queuedList, r)) /\ (Listed(r)' <=> Occurs(queuedList', r))
        BY DEF Listed, Occurs
      <4>3. ~OccursTwice(queuedList, s) /\ (Listed(s) => s \in queuedListIndex)
        BY <2>2 DEF View, ListedOnce
      <4>4. Listed(s)' => Listed(s)
        BY <2>1, <3>2, <4>1, <4>2, RemovePendingOccurs
      <4>5. ~OccursTwice(queuedList', s)
        BY <2>1, <3>2, <4>1, <4>3, RemovePendingOnce
      <4>6. s = Head(todo) => ~Listed(s)'
        BY <2>1, <3>2, <4>1, <4>2, <4>3, RemovePendingOnce
      <4> QED
        BY <2>1, <3>2, <4>3, <4>4, <4>5, <4>6 DEF ListedOnce
    <3> QED
      BY <3>1, <3>2
  <2>3. ASSUME NEW s \in Submissions, View(s)
        PROVE  View(s)'
    <3>1. /\ ListedOnce(s)' /\ (Listed(s)' => Listed(s))
          /\ s \in queuedListIndex' => s \in queuedListIndex /\ s # Head(todo)
      BY <2>2, <2>3
    <3> QED
      BY <1>u, <2>1, <2>3, <3>1 DEF View, ClaimAgrees, NotYet
  <2> QED
    BY <1>r, <2>3 DEF Views
<1> QED
  BY <1>c, <1>1, <1>2, <1>3, <1>4 DEF SchedulerNext

\* Advancing a call changes its program counter and nothing else of any call.
LEMMA GotoMoves ==
  ASSUME ProcType, NEW p \in Procs, NEW pc, Goto(p, pc)
  PROVE  /\ \A q \in Procs : q # p => proc'[q] = proc[q]
         /\ proc'[p].pc = pc /\ proc'[p].sub = proc[p].sub /\ proc'[p].then = proc[p].then
<1>1. PICK r \in Proc : r = proc[p]
  BY DEF ProcType
<1>2. /\ [r EXCEPT !.pc = pc].pc = pc /\ [r EXCEPT !.pc = pc].sub = r.sub
      /\ [r EXCEPT !.pc = pc].then = r.then
  BY DEF Proc
<1>3. proc' = [proc EXCEPT ![p] = [r EXCEPT !.pc = pc]]
  BY <1>1 DEF Goto
<1>4. \A q \in Procs : proc'[q] = IF q = p THEN [r EXCEPT !.pc = pc] ELSE proc[q]
  BY <1>3 DEF ProcType
<1> QED
  BY <1>1, <1>2, <1>4

\* A call that goes on stays what it is, and marks or pushes only if it regrades.
LEMMA CallMoves ==
  ASSUME ProcType, NEW p \in Procs, ProcNext(p)
  PROVE  /\ \A q \in Procs : q # p => proc'[q] = proc[q]
         /\ proc[p].pc # "idle" /\ proc'[p].pc # "idle"
         /\ proc'[p].sub = proc[p].sub /\ proc'[p].then = proc[p].then
         /\ proc'[p].pc = "push" => proc[p].pc = "mark"
         /\ proc'[p].pc = "mark" => proc[p].then = "mark" /\ proc[p].pc \in {"cancelling", "drop"}
<1>t. proc[p] \in Proc /\ proc[p].then \in {"mark", "done"}
  BY DEF ProcType, Proc
<1>1. CASE RunMark(p)
  BY <1>1, GotoMoves DEF RunMark
<1>2. CASE RunPush(p) \/ RunQueued(p) \/ CancelCancelled(p) \/ CancelFinish(p) \/ CancelRelease(p)
  BY <1>2, GotoMoves DEF RunPush, RunQueued, CancelCancelled, CancelFinish, CancelRelease
<1>3. CASE CancelPending(p)
  <2>1. proc[p].pc = "cancel" /\ (Goto(p, "cancelled") \/ Goto(p, "owner"))
    BY <1>3 DEF CancelPending
  <2> QED
    BY <2>1, GotoMoves
<1>4. CASE CancelCancelling(p) \/ CancelDrop(p)
  <2>1. proc[p].pc \in {"cancelling", "drop"} /\ Goto(p, proc[p].then)
    BY <1>4 DEF CancelCancelling, CancelDrop
  <2> QED
    BY <1>t, <2>1, GotoMoves
<1>5. CASE CancelOwner(p) \/ CancelSend(p)
  <2>1. proc[p].pc \in {"owner", "send"}
    BY <1>5 DEF CancelOwner, CancelSend
  <2>2. PICK r \in Proc : r = proc[p]
    BY <1>t
  <2>3. PICK v : /\ proc' = [proc EXCEPT ![p] = v]
                 /\ v.pc \in {"cancelled", "send", "cancelling"} /\ v.sub = r.sub /\ v.then = r.then
    <3>1. CASE CancelOwner(p) /\ Goto(p, "cancelled")
      <4>1. /\ [r EXCEPT !.pc = "cancelled"].pc = "cancelled" /\ [r EXCEPT !.pc = "cancelled"].sub = r.sub
            /\ [r EXCEPT !.pc = "cancelled"].then = r.then
        BY DEF Proc
      <4>2. proc' = [proc EXCEPT ![p] = [r EXCEPT !.pc = "cancelled"]]
        BY <2>2, <3>1 DEF Goto
      <4> QED
        BY <4>1, <4>2
    <3>2. CASE CancelOwner(p) /\ ~Goto(p, "cancelled")
      <4>1. PICK g, n : proc' = [proc EXCEPT ![p] = [@ EXCEPT !.pc = "send", !.grader = g, !.queue = n]]
        BY <3>2 DEF CancelOwner
      <4>d. DEFINE v == [r EXCEPT !.pc = "send", !.grader = g, !.queue = n]
      <4>2. v.pc = "send" /\ v.sub = r.sub /\ v.then = r.then
        BY DEF Proc
      <4>3. proc' = [proc EXCEPT ![p] = v]
        BY <2>2, <4>1
      <4> HIDE DEF v
      <4> QED
        BY <4>2, <4>3
    <3>3. CASE CancelSend(p)
      <4>1. PICK pc \in {"cancelling", "cancelled"} :
              proc' = [proc EXCEPT ![p] = [[proc[p] EXCEPT !.grader = 0, !.queue = 0] EXCEPT !.pc = pc]]
        BY <3>3 DEF CancelSend
      <4>d. DEFINE v == [[r EXCEPT !.grader = 0, !.queue = 0] EXCEPT !.pc = pc]
      <4>2. v.pc = pc /\ v.sub = r.sub /\ v.then = r.then
        BY DEF Proc
      <4>3. proc' = [proc EXCEPT ![p] = v]
        BY <2>2, <4>1
      <4> HIDE DEF v
      <4> QED
        BY <4>1, <4>2, <4>3
    <3> QED
      BY <1>5, <3>1, <3>2, <3>3
  <2>4. \A q \in Procs : proc'[q] = IF q = p THEN v ELSE proc[q]
    BY <2>3 DEF ProcType
  <2> QED
    BY <2>1, <2>2, <2>3, <2>4
<1> QED
  BY <1>1, <1>2, <1>3, <1>4, <1>5 DEF ProcNext

\* What a call does beside pushing takes submissions out of views.
LEMMA CallsKeepViews ==
  ASSUME TypeOK, ControlInv, IndexedIsPending, OnlyRuns, RegradersPush, Views,
         NEW p \in Procs, ProcNext(p)
  PROVE  RegradersPush' /\ Views'
<1>t. /\ PendingType /\ RepositoryType /\ ProcType /\ ProcControl
      /\ \A q \in Callers : q \in Procs /\ q \notin Submissions
      /\ \A s \in Submissions : s \in Procs
  BY HubAssumption DEF TypeOK, ControlInv, Procs
<1>m. /\ \A q \in Procs : q # p => proc'[q] = proc[q]
      /\ proc[p].pc # "idle" /\ proc'[p].pc # "idle"
      /\ proc'[p].sub = proc[p].sub /\ proc'[p].then = proc[p].then
      /\ proc'[p].pc = "push" => proc[p].pc = "mark"
      /\ proc'[p].pc = "mark" => proc[p].then = "mark" /\ proc[p].pc \in {"cancelling", "drop"}
  BY <1>t, CallMoves
<1>u. UNCHANGED <<scheduler, todo>>
  BY DEF ProcNext, RunMark, RunPush, RunQueued, CancelPending, CancelOwner, CancelSend, passVars,
         CancelCancelling, CancelCancelled, CancelFinish, CancelRelease, CancelDrop, notClients
<1>s. PICK r \in Submissions : r = proc[p].sub
  BY <1>m, <1>t DEF ProcControl
<1>1. RegradersPush'
  <2> SUFFICES ASSUME NEW q \in Callers
               PROVE  /\ proc'[q].pc = "idle" \/ "regrade" \notin Operations => proc'[q].then = "done"
                      /\ proc'[q].pc \in {"mark", "push"} => proc'[q].then = "mark"
    BY DEF RegradersPush
  <2>1. CASE q = p
    BY <1>m, <2>1 DEF RegradersPush
  <2>2. CASE q # p
    BY <1>m, <1>t, <2>2 DEF RegradersPush
  <2> QED
    BY <2>1, <2>2
<1>2. \A s : Regraded(s) => Regraded(s)'
  BY <1>m, CallsKeepRegraded
<1>3. \A s \in Submissions : proc'[s].pc \in {"idle", "mark", "push"} => proc[s].pc \in {"idle", "mark", "push"}
  BY <1>m, <1>t DEF OnlyRuns
<1>4. CASE RunPush(p)
  <2>1. /\ proc[p].pc = "push" /\ QueuedMuFree /\ PushPending(r)
        /\ queuedListIndex' = queuedListIndex \cup {r}
        /\ queuedList' = PushBack(queuedList, r)
        /\ UNCHANGED <<runningList, submissionGrader, graderSubmissions>>
    BY <1>4, <1>s DEF RunPush, PushPending, claimVars
  <2>2. queuedList \in Seq(Elements(Submissions))
    BY <1>t, QueueIsPendingList
  <2>3. \A s : Listed(s)' <=> Listed(s) \/ s = r
    BY <1>t, <2>1, PushListed
  <2>4. \A s : OccursTwice(queuedList', s) => OccursTwice(queuedList, s) \/ (s = r /\ Listed(s))
    <3>1. \A s : Listed(s) <=> Occurs(queuedList, s)
      BY DEF Listed, Occurs
    <3> QED
      BY <2>1, <2>2, <3>1, PushBackOnce
  <2>5. ASSUME NEW s \in Submissions, View(s), s # r
        PROVE  View(s)'
    <3>1. ListedOnce(s)' /\ (Listed(s)' => Listed(s)) /\ ClaimAgrees(s)'
      BY <2>1, <2>3, <2>4, <2>5 DEF View, ListedOnce, ClaimAgrees
    <3>2. s \in queuedListIndex' => s \in queuedListIndex
      BY <2>1, <2>5
    <3> QED
      BY <1>3, <1>u, <2>1, <2>5, <3>1, <3>2, ViewStays
  <2>6. CASE p \in Callers
    <3>1. Regraded(r)
      BY <1>s, <2>1, <2>6 DEF RegradersPush, Regraded
    <3> QED
      BY <1>1, <1>2, <2>5, <3>1 DEF Views
  <2>7. CASE p \in Submissions
    <3>1. r = p /\ proc'[p].pc = "queued"
      <4>1. Goto(p, "queued")
        BY <1>4 DEF RunPush
      <4> QED
        BY <1>s, <1>t, <2>7, <4>1, GotoMoves DEF ProcControl
    <3>2. ASSUME View(r)
          PROVE  View(r)'
      <4>1. NotYet(r) /\ ClaimAgrees(r) /\ ~OccursTwice(queuedList, r)
        BY <2>1, <3>1, <3>2 DEF View, ListedOnce
      <4>2. ListedOnce(r)'
        BY <2>1, <2>4, <4>1 DEF ListedOnce, NotYet
      <4>3. ClaimAgrees(r)' /\ r \notin runningList' /\ submissionGrader'[r] = 0
        BY <2>1, <4>1 DEF ClaimAgrees, NotYet
      <4> QED
        BY <3>1, <4>2, <4>3 DEF View
    <3> QED
      BY <1>1, <1>2, <2>5, <3>2 DEF Views
  <2> QED
    BY <2>6, <2>7 DEF Procs
<1>5. CASE ~RunPush(p)
  <2>1. ASSUME NEW s \in Submissions, View(s)
        PROVE  View(s)'
    <3>1. /\ ListedOnce(s)' /\ (Listed(s)' => Listed(s))
          /\ s \in queuedListIndex' => s \in queuedListIndex
      <4>1. CASE CancelPending(p) /\ r \in queuedListIndex
        <5>1. queuedList' = RemovePending(queuedList, r) /\ queuedListIndex' = queuedListIndex \ {r}
          BY <1>s, <4>1 DEF CancelPending
        <5>2. queuedList \in Seq(Elements(Submissions)) /\ Occurs(queuedList, r)
          BY <1>t, <4>1, QueueIsPendingList DEF IndexedIsPending, Listed, Occurs
        <5>3. (Listed(s) <=> Occurs(queuedList, s)) /\ (Listed(s)' <=> Occurs(queuedList', s))
          BY DEF Listed, Occurs
        <5>4. ~OccursTwice(queuedList, s) /\ (Listed(s) => s \in queuedListIndex)
          BY <2>1 DEF View, ListedOnce
        <5>5. Listed(s)' => Listed(s)
          BY <5>1, <5>2, <5>3, RemovePendingOccurs
        <5>6. ~OccursTwice(queuedList', s)
          BY <5>1, <5>2, <5>4, RemovePendingOnce
        <5>7. s = r => ~Listed(s)'
          BY <5>1, <5>2, <5>3, <5>4, RemovePendingOnce
        <5> QED
          BY <5>1, <5>4, <5>5, <5>6, <5>7 DEF ListedOnce
      <4>2. CASE UNCHANGED <<queuedList, queuedListIndex>>
        BY <2>1, <4>2 DEF View, ListedOnce, Listed, OccursTwice
      <4> QED
        BY <1>5, <1>s, <4>1, <4>2 DEF ProcNext, RunMark, RunQueued, CancelPending, CancelOwner, CancelSend,
           CancelCancelling, CancelCancelled, CancelFinish, CancelRelease, CancelDrop, queueVars
    <3>2. ClaimAgrees(s)' /\ (submissionGrader'[s] # 0 => submissionGrader[s] # 0)
      <4>1. CASE CancelRelease(p)
        BY <1>s, <1>t, <2>1, <4>1, ReleaseAgrees DEF CancelRelease, View
      <4>2. CASE UNCHANGED claimVars
        BY <2>1, <4>2 DEF View, ClaimAgrees, claimVars
      <4> QED
        BY <1>5, <4>1, <4>2 DEF ProcNext, RunMark, RunQueued, CancelPending, CancelOwner, CancelSend,
           CancelCancelling, CancelCancelled, CancelFinish, CancelDrop
    <3>3. s \in runningList' => s \in runningList
      BY <1>5 DEF FinishDrop, ProcNext, RunMark, RunQueued, CancelPending, CancelOwner, CancelSend,
         CancelCancelling, CancelCancelled, CancelFinish, CancelRelease, CancelDrop
    <3> QED
      BY <1>3, <1>u, <2>1, <3>1, <3>2, <3>3, ViewStays
  <2> QED
    BY <1>1, <1>2, <2>1 DEF Views
<1> QED
  BY <1>4, <1>5
\* A caller's record as its call begins.
Starts(p, s, pc, then) ==
  proc' = [proc EXCEPT ![p] = [@ EXCEPT !.pc = pc, !.sub = s, !.then = then]]


\* The first step of a call decides what it is about and whether it is a regrade.
LEMMA StartMoves ==
  ASSUME ProcType, NEW p \in Procs, NEW s, NEW pc, NEW then,
         Starts(p, s, pc, then)
  PROVE  /\ \A q \in Procs : q # p => proc'[q] = proc[q]
         /\ proc'[p].pc = pc /\ proc'[p].sub = s /\ proc'[p].then = then
<1>1. PICK r \in Proc : r = proc[p]
  BY DEF ProcType
<1>d. DEFINE v == [r EXCEPT !.pc = pc, !.sub = s, !.then = then]
<1>2. v.pc = pc /\ v.sub = s /\ v.then = then
  BY DEF Proc
<1>3. proc' = [proc EXCEPT ![p] = v]
  BY <1>1 DEF Starts
<1> HIDE DEF v
<1>4. \A q \in Procs : proc'[q] = IF q = p THEN v ELSE proc[q]
  BY <1>3 DEF ProcType
<1> QED
  BY <1>2, <1>4

\* A call that begins touches nothing yet.
LEMMA StartsKeepViews ==
  ASSUME TypeOK, Fresh, RegradersPush, Views,
         \/ \E s \in Submissions : CreateSubmission(s)
         \/ \E p \in Callers, s \in Submissions : CancelSubmission(p, s) \/ RegradeSubmission(p, s)
  PROVE  RegradersPush' /\ Views'
<1>t. /\ ProcType
      /\ \A q \in Callers : q \in Procs /\ q \notin Submissions
      /\ \A s \in Submissions : s \in Procs
  BY HubAssumption DEF TypeOK, Procs
<1>1. UNCHANGED <<queuedList, queuedListIndex, runningList, submissionGrader, graderSubmissions,
                  scheduler, todo>>
  BY DEF CreateSubmission, CancelSubmission, RegradeSubmission, queueVars, claimVars, notClients, passVars
<1>2. ASSUME RegradersPush', \A s : Regraded(s) => Regraded(s)',
             \A s \in Submissions :
               proc'[s].pc \in {"idle", "mark", "push"} => proc[s].pc \in {"idle", "mark", "push"}
      PROVE  RegradersPush' /\ Views'
  <2>1. ASSUME NEW s \in Submissions, View(s)
        PROVE  View(s)'
    <3>1. ListedOnce(s)' /\ ClaimAgrees(s)' /\ (Listed(s)' => Listed(s))
      BY <1>1, <2>1 DEF View, ListedOnce, ClaimAgrees, Listed, OccursTwice
    <3> QED
      BY <1>1, <1>2, <2>1, <3>1, ViewStays
  <2> QED
    BY <1>2, <2>1 DEF Views
<1>3. ASSUME NEW s \in Submissions, CreateSubmission(s)
      PROVE  RegradersPush' /\ Views'
  <2>1. /\ \A q \in Procs : q # s => proc'[q] = proc[q]
        /\ proc[s].pc = "idle"
    BY <1>3, <1>t, GotoMoves DEF CreateSubmission, Fresh
  <2>2. RegradersPush'
    BY <1>t, <2>1 DEF RegradersPush
  <2>3. \A r : Regraded(r) => Regraded(r)'
    BY <1>t, <2>1 DEF Regraded
  <2>4. \A r \in Submissions :
          proc'[r].pc \in {"idle", "mark", "push"} => proc[r].pc \in {"idle", "mark", "push"}
    BY <1>t, <2>1
  <2> QED
    BY <1>2, <2>2, <2>3, <2>4
<1>4. ASSUME NEW p \in Callers, NEW s \in Submissions, CancelSubmission(p, s) \/ RegradeSubmission(p, s)
      PROVE  RegradersPush' /\ Views'
  <2>1. PICK pc, then :
          /\ Starts(p, s, pc, then)
          /\ proc[p].pc = "idle" /\ pc \in {"cancel", "mark"}
          /\ \/ then = "done" /\ pc = "cancel"
             \/ then = "mark" /\ "regrade" \in Operations
    <3>1. CASE CancelSubmission(p, s)
      <4>1. Starts(p, s, "cancel", "done") /\ proc[p].pc = "idle"
        BY <3>1 DEF CancelSubmission, Starts
      <4> QED
        BY <4>1
    <3>2. CASE RegradeSubmission(p, s) /\ brief[s] \in {"Queued", "Running"}
      <4>1. /\ Starts(p, s, "cancel", "mark")
            /\ proc[p].pc = "idle" /\ "regrade" \in Operations
        BY <3>2 DEF RegradeSubmission, Starts
      <4> QED
        BY <4>1
    <3>3. CASE RegradeSubmission(p, s) /\ brief[s] \notin {"Queued", "Running"}
      <4>1. /\ Starts(p, s, "mark", "mark")
            /\ proc[p].pc = "idle" /\ "regrade" \in Operations
        BY <3>3 DEF RegradeSubmission, Starts
      <4> QED
        BY <4>1
    <3> QED
      BY <1>4, <3>1, <3>2, <3>3
  <2>2. /\ \A q \in Procs : q # p => proc'[q] = proc[q]
        /\ proc'[p].pc = pc /\ proc'[p].then = then
    <3>1. Starts(p, s, pc, then)
      BY <2>1
    <3> QED
      BY <1>t, <3>1, StartMoves
  <2>3. RegradersPush'
    BY <1>t, <2>1, <2>2 DEF RegradersPush
  <2>4. \A r : Regraded(r) => Regraded(r)'
    <3>1. \A q \in Procs : q # p => proc'[q] = proc[q]
      BY <2>2
    <3>2. p \in Callers =>
            proc[p].pc = "idle" \/ (proc'[p].sub = proc[p].sub /\ proc'[p].then = proc[p].then)
      BY <2>1
    <3>3. RegradersPush
      OBVIOUS
    <3> QED
      BY <3>1, <3>2, <3>3, CallsKeepRegraded
  <2>5. \A r \in Submissions :
          proc'[r].pc \in {"idle", "mark", "push"} => proc[r].pc \in {"idle", "mark", "push"}
    BY <1>t, <2>2
  <2> QED
    BY <1>2, <2>3, <2>4, <2>5
<1> QED
  BY <1>3, <1>4

\* A restart leaves nothing in any view.
LEMMA RestartKeepsViews ==
  ASSUME TypeOK, RegradersPush, Restart
  PROVE  RegradersPush' /\ Views'
<1>t. ProcType /\ unfinished \subseteq Submissions
  BY DEF TypeOK, RepositoryType
<1>1. /\ queuedList' = <<>> /\ queuedListIndex' = {} /\ runningList' = {}
      /\ submissionGrader' = [s \in Submissions |-> 0]
      /\ graderSubmissions' = [g \in Graders |-> {}]
  BY DEF Restart, NewGraderHubService, ClearRunning
<1>2. ASSUME NEW s \in Submissions
      PROVE  View(s)'
  <2>1. ~Listed(s)' /\ ~OccursTwice(queuedList', s) /\ submissionGrader'[s] = 0
    BY <1>1 DEF Listed, OccursTwice
  <2>2. ClaimAgrees(s)'
    BY <1>1, <2>1, HubAssumption DEF ClaimAgrees
  <2> QED
    BY <1>1, <2>1, <2>2 DEF View, ListedOnce, NotYet
<1>3. ASSUME NEW p \in Callers
      PROVE  /\ proc'[p].then = proc[p].then
             /\ proc'[p].pc \in {"idle", "done"} /\ (proc'[p].pc = "idle" <=> proc[p].pc = "idle")
  <2>1. p \in Procs /\ p \notin unfinished /\ proc[p] \in Proc
    BY <1>t, HubAssumption DEF Procs, ProcType
  <2>2. proc'[p] = [proc[p] EXCEPT !.pc = IF p \in unfinished THEN "mark"
                                          ELSE IF @ = "idle" THEN "idle" ELSE "done",
                                   !.grader = 0, !.queue = 0]
    BY <2>1 DEF Restart, runUnfinishedSubmissions
  <2> QED
    BY <2>1, <2>2 DEF Proc
<1>4. RegradersPush'
  BY <1>3 DEF RegradersPush
<1> QED
  BY <1>2, <1>4 DEF Views

\* The empty hub shows nothing.
LEMMA InitViews == Init => RegradersPush /\ Views
<1> SUFFICES ASSUME Init
             PROVE  RegradersPush /\ Views
  OBVIOUS
<1>1. /\ queuedList = <<>> /\ queuedListIndex = {} /\ runningList = {}
      /\ submissionGrader = [s \in Submissions |-> 0]
      /\ graderSubmissions = [g \in Graders |-> {}]
      /\ \A p \in Procs : proc[p].pc = "idle" /\ proc[p].then = "done"
  BY DEF Init
<1>2. ASSUME NEW s \in Submissions
      PROVE  View(s)
  <2>1. ~Listed(s) /\ ~OccursTwice(queuedList, s) /\ submissionGrader[s] = 0
    BY <1>1 DEF Listed, OccursTwice
  <2>2. ClaimAgrees(s)
    BY <1>1, <2>1, HubAssumption DEF ClaimAgrees
  <2> QED
    BY <1>1, <2>1, <2>2 DEF View, ListedOnce, NotYet
<1> QED
  BY <1>1, <1>2 DEF Views, RegradersPush, Procs

\* Every step keeps the views.
LEMMA NextViews ==
  ASSUME Quiet, ListInv, TrackInv, Calm, RegradersPush, Views, [Next]_vars
  PROVE  RegradersPush' /\ Views'
<1>t. TypeOK /\ ControlInv /\ IndexedIsPending /\ OnlyRuns /\ Fresh /\ TodoPending
  BY DEF ListInv, TrackInv
<1>1. CASE UNCHANGED vars
  BY <1>t, <1>1, QuietKeepsViews DEF vars, queueVars, passVars
<1>2. CASE SchedulerNext
  BY <1>t, <1>2, SchedulerKeepsViews
<1>3. CASE Restart
  BY <1>t, <1>3, RestartKeepsViews
<1>4. CASE UNCHANGED notStreams
  BY <1>t, <1>4, QuietKeepsViews DEF notStreams, passVars
<1>5. ASSUME NEW g \in Graders, NEW s \in Submissions, ReportNext(g, s)
      PROVE  RegradersPush' /\ Views'
  <2>1. UNCHANGED <<queuedList, queuedListIndex, proc, scheduler, todo>>
    BY <1>5 DEF ReportNext, CallbackAccepted, CallbackDenied, CallbackWrite, JobStopsSilently,
                CallbackFinish, CallbackRelease, CallbackDrop, notReports, passVars
  <2>2. runningList' \subseteq runningList
    BY <1>5 DEF ReportNext, CallbackAccepted, CallbackDenied, CallbackWrite, JobStopsSilently,
                CallbackFinish, CallbackRelease, CallbackDrop, FinishDrop
  <2>3. UNCHANGED claimVars \/ ReleaseSubmission(s)
    BY <1>5 DEF ReportNext, CallbackAccepted, CallbackDenied, CallbackWrite, JobStopsSilently,
                CallbackFinish, CallbackRelease, CallbackDrop
  <2> QED
    BY <1>t, <2>1, <2>2, <2>3, QuietKeepsViews
<1>6. CASE \/ \E s \in Submissions : CreateSubmission(s)
           \/ \E p \in Callers, s \in Submissions : CancelSubmission(p, s) \/ RegradeSubmission(p, s)
  BY <1>t, <1>6, StartsKeepViews
<1>7. ASSUME NEW p \in Procs, ProcNext(p)
      PROVE  RegradersPush' /\ Views'
  BY <1>t, <1>7, CallsKeepViews
<1>8. ASSUME NEW g \in Graders, NEW n \in Streams, StreamNext(g, n)
      PROVE  RegradersPush' /\ Views'
  BY <1>t, <1>4, <1>8, StreamsStayCalm
<1>9. ASSUME NEW g \in Graders,
             \/ RegisterGrader(g) \/ Reconnect(g) \/ MonitorTimeout(g) \/ MonitorWriteBack(g)
             \/ OfflineNext(g) \/ GraderCrash(g) \/ \E n \in Streams : StreamBreak(g, n)
      PROVE  RegradersPush' /\ Views'
  BY <1>t, <1>4, <1>9, GradersStayCalm
<1> QED
  BY <1>1, <1>2, <1>3, <1>5, <1>6, <1>7, <1>8, <1>9 DEF Next

\* One view means: at most one element, and nothing held while it waits.
LEMMA OneViewEach ==
  ASSUME ListInv, Views
  PROVE  QueuedOnce /\ WaitingHoldsNothing
<1>1. ASSUME NEW s \in Submissions, View(s)
      PROVE  Cardinality({i \in 1..Len(queuedList) : queuedList[i].sub = s})
               = (IF s \in queuedListIndex THEN 1 ELSE 0)
  <2>1. CASE s \in queuedListIndex
    <3>1. PICK i \in 1..Len(queuedList) : queuedList[i].sub = s
      BY <2>1 DEF ListInv, IndexedIsPending, Listed
    <3>2. {k \in 1..Len(queuedList) : queuedList[k].sub = s} = {i}
      BY <1>1, <3>1 DEF View, ListedOnce, OccursTwice
    <3> QED
      BY <2>1, <3>2, FS_Singleton
  <2>2. CASE s \notin queuedListIndex
    <3>1. {k \in 1..Len(queuedList) : queuedList[k].sub = s} = {}
      BY <1>1, <2>2 DEF View, ListedOnce, Listed
    <3> QED
      BY <2>2, <3>1, FS_EmptySet
  <2> QED
    BY <2>1, <2>2
<1>2. QueuedOnce
  BY <1>1 DEF Views, QueuedOnce
<1>3. WaitingHoldsNothing
  BY DEF ListInv, TypeOK, PendingType, Views, View, WaitingHoldsNothing, QueuedMuFree
<1> QED
  BY <1>2, <1>3

\* The inductive invariant of the views.
ViewInv == ListInv /\ TrackInv /\ Calm /\ RegradersPush /\ Views

LEMMA ViewInvHolds ==
  ASSUME FaultKinds \subseteq {"restart"}
  PROVE  Spec => []ViewInv
<1>1. Init => ViewInv
  BY InitListInv, InitTrackInv, InitCalm, InitViews DEF ViewInv
<1>2. ViewInv /\ [Next]_vars => ViewInv'
  <2> SUFFICES ASSUME ListInv, TrackInv, Calm, RegradersPush, Views, [Next]_vars
               PROVE  ViewInv'
    BY DEF ViewInv
  <2>1. Quiet /\ TypeOK
    BY DEF Quiet, ListInv
  <2> QED
    BY <2>1, NextListInv, NextTrackInv, NextCalm, NextViews DEF ViewInv
<1> QED
  BY <1>1, <1>2, PTL DEF Spec

\* While the graders stay connected, a submission that was not regraded is in the
\* pending list at most once, where the index finds it, and while it waits there it
\* is not running and holds no slot, however calls for it and for others, reports
\* and restarts interleave (pushPendingGradeQueue, schedulePass, CancelGrade,
\* onSubmissionFinished).
THEOREM WaitingOnce ==
  ASSUME FaultKinds \subseteq {"restart"}
  PROVE  Spec => [](QueuedOnce /\ WaitingHoldsNothing)
<1>1. ViewInv => QueuedOnce /\ WaitingHoldsNothing
  BY OneViewEach DEF ViewInv
<1> QED
  BY <1>1, ViewInvHolds, PTL

\* If there are no regrades either, all views agree: the list, its index, the
\* running list and the two claim indexes, at whatever moment of its life a
\* submission is cancelled (ClaimSubmission, ReleaseSubmission, CancelGrade).
THEOREM AllViewsAgree ==
  ASSUME FaultKinds \subseteq {"restart"}, "regrade" \notin Operations
  PROVE  Spec => []ViewsAgree
<1>1. ViewInv => ViewsAgree
  <2> SUFFICES ASSUME ListInv, TrackInv, Calm, RegradersPush, Views
               PROVE  ViewsAgree
    BY DEF ViewInv
  <2>1. \A s \in Submissions : ~Regraded(s)
    BY DEF RegradersPush, Regraded
  <2>2. ClaimIndexesAgree
    BY <2>1 DEF Views, View, ClaimAgrees, ClaimIndexesAgree, ListInv, TypeOK, RepositoryType
  <2> QED
    BY <2>2, OneViewEach DEF ViewsAgree
<1> QED
  BY <1>1, ViewInvHolds, PTL
=============================================================================
