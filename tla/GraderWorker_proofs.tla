------------------------ MODULE GraderWorker_proofs ------------------------
(***************************************************************************)
(* Theorems about GraderWorker, for every number of jobs of any            *)
(* submissions, every concurrency and any number of broken streams, lost   *)
(* graders and cancel requests.                                            *)
(***************************************************************************)
EXTENDS GraderWorker, SequenceTheorems, TLAPS

-----------------------------------------------------------------------------
(* Queues of reports *)

Within(q, kinds) == \A i \in 1..Len(q) : q[i] \in kinds
HasFinal(q)   == \E i \in 1..Len(q) : q[i] \in Final
HasRunning(q) == \E i \in 1..Len(q) : q[i] = "Running"

\* Running comes first, if it comes.
RunningFirst(q) == \A i \in 1..Len(q) : q[i] = "Running" => i = 1

\* What travels on the stream.
Streamed == {"Running"} \cup Final

LEMMA Empty ==
  /\ Within(<<>>, Streamed) /\ ~HasFinal(<<>>) /\ ~HasRunning(<<>>) /\ RunningFirst(<<>>)
  /\ <<>> \in Seq(Reports)
  BY DEF Within, HasFinal, HasRunning, RunningFirst

LEMMA Appended ==
  ASSUME NEW q \in Seq(Reports), NEW r \in Reports
  PROVE  /\ Append(q, r) \in Seq(Reports) /\ Append(q, r) # <<>>
         /\ HasFinal(q) \/ r \in Final <=> HasFinal(Append(q, r))
         /\ HasRunning(q) \/ r = "Running" <=> HasRunning(Append(q, r))
         /\ RunningFirst(q) /\ (r # "Running" \/ q = <<>>) => RunningFirst(Append(q, r))
         /\ \A kinds : Within(q, kinds) /\ r \in kinds => Within(Append(q, r), kinds)
         /\ Len(Append(q, r)) = Len(q) + 1
         /\ \A i \in 1..Len(q) : Append(q, r)[i] = q[i]
         /\ Append(q, r)[Len(q) + 1] = r
  <1> DEFINE a == Append(q, r)
  <1>1. /\ a \in Seq(Reports) /\ a # <<>> /\ Len(a) = Len(q) + 1 /\ Len(q) \in Nat
        /\ \A i \in 1..Len(q) : a[i] = q[i]
        /\ a[Len(q) + 1] = r
    BY AppendProperties
  <1> HIDE DEF a
  <1>2. \A i \in 1..Len(a) : i \in 1..Len(q) \/ i = Len(q) + 1
    BY <1>1
  <1>3. Len(q) + 1 \in 1..Len(a) /\ \A i \in 1..Len(q) : i \in 1..Len(a)
    BY <1>1
  <1>4. HasFinal(q) \/ r \in Final <=> HasFinal(a)
    BY <1>1, <1>2, <1>3 DEF HasFinal
  <1>5. HasRunning(q) \/ r = "Running" <=> HasRunning(a)
    BY <1>1, <1>2, <1>3 DEF HasRunning
  <1>6. RunningFirst(q) /\ (r # "Running" \/ q = <<>>) => RunningFirst(a)
    <2>1. q = <<>> => Len(q) = 0
      OBVIOUS
    <2> QED BY <1>1, <1>2, <2>1 DEF RunningFirst
  <1>7. \A kinds : Within(q, kinds) /\ r \in kinds => Within(a, kinds)
    BY <1>1, <1>2 DEF Within
  <1> QED BY <1>1, <1>4, <1>5, <1>6, <1>7 DEF a

LEMMA Taken ==
  ASSUME NEW q \in Seq(Reports), q # <<>>
  PROVE  /\ Head(q) \in Reports /\ Tail(q) \in Seq(Reports)
         /\ HasFinal(q) <=> Head(q) \in Final \/ HasFinal(Tail(q))
         /\ Head(q) = "Running" => HasRunning(q)
         /\ RunningFirst(q) => ~HasRunning(Tail(q)) /\ RunningFirst(Tail(q))
         /\ \A kinds : Within(q, kinds) => Head(q) \in kinds /\ Within(Tail(q), kinds)
  <1> DEFINE t == Tail(q)
  <1>1. /\ t \in Seq(Reports) /\ Len(t) = Len(q) - 1 /\ Len(q) \in Nat /\ Len(q) >= 1
        /\ \A i \in 1..Len(t) : t[i] = q[i + 1]
        /\ Head(q) = q[1]
    BY HeadTailProperties, EmptySeq
  <1> HIDE DEF t
  <1>2. \A i \in 1..Len(q) : i = 1 \/ (i - 1 \in 1..Len(t) /\ t[i - 1] = q[i])
    <2>1. ASSUME NEW i \in 1..Len(q), i # 1 PROVE i - 1 \in 1..Len(t) /\ t[i - 1] = q[i]
      <3>1. i - 1 \in 1..Len(t) /\ (i - 1) + 1 = i
        BY <1>1, <2>1
      <3> QED BY <1>1, <3>1
    <2> QED BY <2>1
  <1>3. \A i \in 1..Len(t) : i + 1 \in 1..Len(q) /\ i + 1 # 1
    BY <1>1
  <1>4. 1 \in 1..Len(q) /\ Head(q) \in Reports
    BY <1>1
  <1>5. HasFinal(q) <=> Head(q) \in Final \/ HasFinal(t)
    <2>1. HasFinal(q) => Head(q) \in Final \/ HasFinal(t)
      BY <1>1, <1>2 DEF HasFinal
    <2>2. Head(q) \in Final \/ HasFinal(t) => HasFinal(q)
      BY <1>1, <1>3, <1>4 DEF HasFinal
    <2> QED BY <2>1, <2>2
  <1>6. Head(q) = "Running" => HasRunning(q)
    BY <1>1, <1>4 DEF HasRunning
  <1>7. RunningFirst(q) => ~HasRunning(t) /\ RunningFirst(t)
    BY <1>1, <1>3 DEF RunningFirst, HasRunning
  <1>8. \A kinds : Within(q, kinds) => Head(q) \in kinds /\ Within(t, kinds)
    BY <1>1, <1>3, <1>4 DEF Within
  <1> QED BY <1>1, <1>4, <1>5, <1>6, <1>7, <1>8 DEF t

\* What a cancelled run makes of a queue has no Running, and whatever was last.
LEMMA Recasted ==
  ASSUME NEW q \in Seq(Reports)
  PROVE  /\ Recast(q) \in Seq(Reports) /\ ~HasRunning(Recast(q)) /\ RunningFirst(Recast(q))
         /\ HasFinal(q) => HasFinal(Recast(q))
         /\ Recast(q) = <<>> <=> q = <<>>
  <1>1. q \in [1..Len(q) -> Reports] /\ Len(q) \in Nat /\ DOMAIN q = 1..Len(q)
    BY LenProperties
  <1>2. "Cancelled" \in Reports /\ "Cancelled" \in Final
    BY DEF Reports, Final
  <1>3. Recast(q) \in [1..Len(q) -> Reports]
    BY <1>1, <1>2 DEF Recast
  <1>4. Recast(q) \in Seq(Reports) /\ Len(Recast(q)) = Len(q)
    BY <1>1, <1>3, LenProperties
  <1>5. \A i \in 1..Len(q) : Recast(q)[i] = IF q[i] = "Running" THEN "Cancelled" ELSE q[i]
    BY <1>1 DEF Recast
  <1>6. ~HasRunning(Recast(q)) /\ RunningFirst(Recast(q))
    BY <1>4, <1>5 DEF HasRunning, RunningFirst
  <1>7. HasFinal(q) => HasFinal(Recast(q))
    BY <1>4, <1>5, <1>2 DEF HasFinal
  <1>8. Recast(q) = <<>> <=> q = <<>>
    BY <1>4, EmptySeq
  <1> QED BY <1>4, <1>6, <1>7, <1>8

\* On the stream everything after the first report is a last one.
LEMMA StreamEnds ==
  ASSUME NEW q \in Seq(Reports), Within(q, Streamed), RunningFirst(q), HasFinal(q)
  PROVE  Ended(q)
  <1>1. PICK i \in 1..Len(q) : q[i] \in Final
    BY DEF HasFinal
  <1>2. Len(q) \in Nat /\ Len(q) \in 1..Len(q) /\ q # <<>>
    BY <1>1
  <1>3. q[Len(q)] \in Final
    <2>1. q[Len(q)] \in Streamed
      BY <1>2 DEF Within
    <2>2. q[Len(q)] = "Running" => Len(q) = 1
      BY <1>2 DEF RunningFirst
    <2>3. "Running" \notin Final
      BY DEF Final
    <2> QED BY <1>1, <2>1, <2>2, <2>3 DEF Streamed
  <1> QED BY <1>2, <1>3 DEF Ended

-----------------------------------------------------------------------------
(* The inductive invariant *)

TypeInv ==
  /\ cancelChs \in [Subs -> Jobs \cup {0}]
  /\ ctxDone \in [Jobs -> BOOLEAN]
  /\ main \in [Jobs -> MainPcs]
  /\ buffer \in [Jobs -> Seq(Reports)]
  /\ bufferClosed \in [Jobs -> BOOLEAN]
  /\ docker \in [Jobs -> DockerPcs]
  /\ meta \in [Jobs -> MetaPcs]
  /\ notifyClosed \in [Jobs -> BOOLEAN]
  /\ outcome \in [Jobs -> Final \cup {"none"}]
  /\ containers \subseteq Jobs
  /\ reporter \in [Jobs -> ReporterPcs]
  /\ unsent \in [Jobs -> Seq(Reports)]
  /\ handler \in [Jobs -> Handlers]
  /\ wire \in [Jobs -> Seq(Reports)]
  /\ claim \in [Subs -> BOOLEAN]
  /\ metadata \in [Subs -> Jobs \cup {0}]
  /\ applied \in [Jobs -> Seq(Reports)]
  /\ result \in [Subs -> Jobs \cup {0}]
  /\ crashed \in BOOLEAN /\ reregister \in BOOLEAN
  /\ lost \in [Jobs -> BOOLEAN]

\* The Docker grader has not reported Running yet.
Before(j) == docker[j] \in {"none", "slot", "running"}

\* How far the goroutines of a job can be from each other.
PhasesOK(j) ==
  /\ main[j] = "idle" => reporter[j] = "none"
  /\ main[j] \in {"idle", "download", "failed", "check"} => docker[j] = "none"
  /\ main[j] \in {"idle", "download", "failed"} => ~bufferClosed[j]
  /\ main[j] = "done" /\ ~bufferClosed[j] => ctxDone[j] /\ docker[j] = "none"
  /\ Before(j) => meta[j] = "none"
  /\ docker[j] = "final" => outcome[j] \in Final
  /\ notifyClosed[j] => docker[j] = "done"

\* The reporter and the hub's handler of its stream.
StreamOK(j) ==
  /\ reporter[j] = "none" => handler[j] = "none"
  /\ reporter[j] = "dial" => handler[j] \in {"none", "ok", "broken"}
  /\ reporter[j] \in {"open", "close"} => handler[j] # "none"
  /\ reporter[j] = "done" => handler[j] \in {"ok", "denied"}
  /\ reporter[j] = "close" \/ (reporter[j] = "done" /\ handler[j] # "denied") =>
       bufferClosed[j] /\ buffer[j] = <<>> /\ unsent[j] = <<>>
  /\ handler[j] = "ok" => HasFinal(applied[j]) \/ reporter[j] \in {"close", "done"}
  /\ handler[j] # "open" /\ HasFinal(wire[j]) => HasFinal(applied[j])

\* Running is reported once, and is ahead of everything else that the job has
\* in its buffer, unsent, on the stream and with the hub.
OrderOK(j) ==
  /\ RunningFirst(buffer[j]) /\ RunningFirst(unsent[j])
  /\ RunningFirst(wire[j]) /\ RunningFirst(applied[j])
  /\ unsent[j] # <<>> => ~HasRunning(buffer[j])
  /\ wire[j] # <<>> => ~HasRunning(buffer[j]) /\ ~HasRunning(unsent[j])
  /\ applied[j] # <<>> => ~HasRunning(buffer[j]) /\ ~HasRunning(unsent[j]) /\ ~HasRunning(wire[j])
  /\ Within(wire[j], Streamed) /\ Within(applied[j], Streamed)
  /\ Before(j) => /\ ~HasRunning(buffer[j]) /\ ~HasRunning(unsent[j])
                  /\ ~HasRunning(wire[j]) /\ ~HasRunning(applied[j])
  /\ Before(j) /\ ~bufferClosed[j] /\ main[j] # "failed" =>
       buffer[j] = <<>> /\ unsent[j] = <<>> /\ wire[j] = <<>> /\ applied[j] = <<>>

\* Where the last report of a job is, once it has been made.
Somewhere(j) ==
  \/ HasFinal(buffer[j]) \/ HasFinal(unsent[j]) \/ HasFinal(wire[j]) \/ HasFinal(applied[j])
  \/ lost[j] \/ handler[j] = "denied"
Tracked(j) ==
  main[j] = "failed" \/ bufferClosed[j] \/ docker[j] \in {"close", "done"} => Somewhere(j)

\* No other job of the submission was started: the claim ends with its last report.
Alone(j) == \A k \in Jobs : k # j /\ sub(k) = sub(j) => main[k] = "idle"
ClaimOK(j) == Alone(j) /\ HasFinal(applied[j]) => ~claim[sub(j)]
InOrder(q) == Len(q) <= 2 /\ \A i, k \in 1..Len(q) : i < k => q[i] = "Running" /\ q[k] \in Final

JobInv(j) == PhasesOK(j) /\ StreamOK(j) /\ OrderOK(j) /\ Tracked(j)

Inv ==
  /\ TypeInv
  /\ \A j \in Jobs : JobInv(j)
  /\ \A j \in Jobs : ClaimOK(j) /\ (Alone(j) => InOrder(applied[j]))

-----------------------------------------------------------------------------
(* Steps *)

\* A step of another job leaves this one as it is, but may end its context.
Still(j) ==
  /\ main'[j] = main[j] /\ buffer'[j] = buffer[j] /\ bufferClosed'[j] = bufferClosed[j]
  /\ docker'[j] = docker[j] /\ meta'[j] = meta[j] /\ notifyClosed'[j] = notifyClosed[j]
  /\ outcome'[j] = outcome[j] /\ reporter'[j] = reporter[j] /\ unsent'[j] = unsent[j]
  /\ handler'[j] = handler[j] /\ wire'[j] = wire[j] /\ applied'[j] = applied[j]
  /\ lost'[j] = lost[j] /\ (ctxDone[j] => ctxDone'[j])

LEMMA StillKeeps ==
  ASSUME NEW j, JobInv(j), Still(j)
  PROVE  JobInv(j)'
  <1>1. PhasesOK(j)'
    BY DEF JobInv, Still, PhasesOK, Before
  <1>2. StreamOK(j)'
    BY DEF JobInv, Still, StreamOK
  <1>3. OrderOK(j)'
    BY DEF JobInv, Still, OrderOK, Before
  <1>4. Tracked(j)'
    BY DEF JobInv, Still, Tracked, Somewhere
  <1> QED BY <1>1, <1>2, <1>3, <1>4 DEF JobInv

\* What a step of the job j comes to.
Step(j) == TypeInv' /\ JobInv(j)' /\ \A k \in Jobs \ {j} : Still(k)

LEMMA Forgotten ==
  ASSUME TypeInv, NEW s \in Subs, ForgetContext(s)
  PROVE  /\ cancelChs' \in [Subs -> Jobs \cup {0}] /\ ctxDone' \in [Jobs -> BOOLEAN]
         /\ \A j \in Jobs : ctxDone[j] => ctxDone'[j]
  BY DEF TypeInv, ForgetContext

LEMMA SubOf ==
  ASSUME NEW j \in Jobs
  PROVE  sub(j) \in Subs
  BY DEF Subs, sub

LEMMA MainSteps ==
  ASSUME TypeInv, NEW j \in Jobs, JobInv(j), MainNext(j)
  PROVE  Step(j)
  <1>0. PhasesOK(j) /\ StreamOK(j) /\ OrderOK(j) /\ Tracked(j)
    BY DEF JobInv
  <1>1. CASE Downloaded(j)
    <2>1. /\ main[j] = "download" /\ main' = [main EXCEPT ![j] = "check"] /\ main'[j] = "check"
          /\ UNCHANGED <<buffer, bufferClosed, ctxVars, notMain>>
      BY <1>1 DEF Downloaded, MainGo, TypeInv
    <2> USE DEF notMain, dockerVars, sendVars, streamVars, hubVars, ctxVars
    <2>2. TypeInv'
      BY <2>1 DEF TypeInv, MainPcs
    <2>3. PhasesOK(j)' /\ StreamOK(j)'
      BY <1>0, <2>1 DEF PhasesOK, StreamOK, Before
    <2>4. OrderOK(j)' /\ Tracked(j)'
      BY <1>0, <2>1 DEF OrderOK, Tracked, Somewhere, Before
    <2>5. \A k \in Jobs \ {j} : Still(k)
      BY <2>1 DEF Still, TypeInv
    <2> QED BY <2>2, <2>3, <2>4, <2>5 DEF Step, JobInv
  <1>2. CASE DownloadFails(j)
    <2>1. /\ main[j] = "download" /\ main' = [main EXCEPT ![j] = "failed"] /\ main'[j] = "failed"
          /\ ~bufferClosed[j] /\ buffer[j] = <<>>
          /\ UNCHANGED <<bufferClosed, ctxVars, notMain>>
      BY <1>0, <1>2 DEF DownloadFails, MainGo, TypeInv, PhasesOK, OrderOK, Before
    <2>2. /\ buffer' \in [Jobs -> Seq(Reports)]
          /\ HasFinal(buffer'[j]) /\ ~HasRunning(buffer'[j]) /\ RunningFirst(buffer'[j])
          /\ \A k \in Jobs \ {j} : buffer'[k] = buffer[k]
      <3>1. "Failed" \in Reports /\ "Failed" \in Final
        BY DEF Reports, Final
      <3>2. /\ Append(buffer[j], "Failed") \in Seq(Reports) /\ HasFinal(Append(buffer[j], "Failed"))
            /\ ~HasRunning(Append(buffer[j], "Failed")) /\ RunningFirst(Append(buffer[j], "Failed"))
        BY <2>1, <3>1, Appended, Empty
      <3>3. buffer' = [buffer EXCEPT ![j] = Append(buffer[j], "Failed")]
        BY <1>2, <2>1 DEF DownloadFails, BufferSend, TypeInv
      <3> QED BY <3>2, <3>3 DEF TypeInv
    <2> USE DEF notMain, dockerVars, sendVars, streamVars, hubVars, ctxVars
    <2>3. TypeInv'
      BY <2>1, <2>2 DEF TypeInv, MainPcs
    <2>4. PhasesOK(j)' /\ StreamOK(j)'
      BY <1>0, <2>1 DEF PhasesOK, StreamOK, Before
    <2>5. OrderOK(j)' /\ Tracked(j)'
      BY <1>0, <2>1, <2>2 DEF OrderOK, Tracked, Somewhere, Before
    <2>6. \A k \in Jobs \ {j} : Still(k)
      BY <2>1, <2>2 DEF Still, TypeInv
    <2> QED BY <2>3, <2>4, <2>5, <2>6 DEF Step, JobInv
  <1>3. CASE CloseFailed(j)
    <2>1. /\ main[j] = "failed" /\ main' = [main EXCEPT ![j] = "check"] /\ main'[j] = "check"
          /\ bufferClosed' = [bufferClosed EXCEPT ![j] = TRUE] /\ bufferClosed'[j]
          /\ UNCHANGED <<buffer, notMain>>
      BY <1>3 DEF CloseFailed, MainGo, TypeInv
    <2>2. /\ cancelChs' \in [Subs -> Jobs \cup {0}] /\ ctxDone' \in [Jobs -> BOOLEAN]
          /\ \A k \in Jobs : ctxDone[k] => ctxDone'[k]
      BY <1>3, SubOf, Forgotten DEF CloseFailed
    <2> USE DEF notMain, dockerVars, sendVars, streamVars, hubVars
    <2>3. TypeInv'
      BY <2>1, <2>2 DEF TypeInv, MainPcs
    <2>4. PhasesOK(j)' /\ StreamOK(j)'
      BY <1>0, <2>1 DEF PhasesOK, StreamOK, Before
    <2>5. OrderOK(j)' /\ Tracked(j)'
      BY <1>0, <2>1 DEF OrderOK, Tracked, Somewhere, Before
    <2>6. \A k \in Jobs \ {j} : Still(k)
      BY <2>1, <2>2 DEF Still, TypeInv
    <2> QED BY <2>3, <2>4, <2>5, <2>6 DEF Step, JobInv
  <1>4. CASE Abandon(j)
    <2>1. /\ main[j] = "check" /\ main' = [main EXCEPT ![j] = "done"] /\ main'[j] = "done" /\ ctxDone[j]
          /\ UNCHANGED <<buffer, bufferClosed, notMain>>
      BY <1>4 DEF Abandon, MainGo, TypeInv
    <2>2. /\ cancelChs' \in [Subs -> Jobs \cup {0}] /\ ctxDone' \in [Jobs -> BOOLEAN]
          /\ \A k \in Jobs : ctxDone[k] => ctxDone'[k]
      BY <1>4, SubOf, Forgotten DEF Abandon
    <2> USE DEF notMain, dockerVars, sendVars, streamVars, hubVars
    <2>3. TypeInv'
      BY <2>1, <2>2 DEF TypeInv, MainPcs
    <2>4. PhasesOK(j)' /\ StreamOK(j)'
      BY <1>0, <2>1, <2>2 DEF PhasesOK, StreamOK, Before
    <2>5. OrderOK(j)' /\ Tracked(j)'
      BY <1>0, <2>1 DEF OrderOK, Tracked, Somewhere, Before
    <2>6. \A k \in Jobs \ {j} : Still(k)
      BY <2>1, <2>2 DEF Still, TypeInv
    <2> QED BY <2>3, <2>4, <2>5, <2>6 DEF Step, JobInv
  <1>5. CASE StartDocker(j)
    <2>1. /\ main[j] = "check" /\ main' = [main EXCEPT ![j] = "range"] /\ main'[j] = "range"
          /\ docker' = [docker EXCEPT ![j] = "slot"] /\ docker'[j] = "slot"
          /\ UNCHANGED <<buffer, bufferClosed, ctxVars, meta, notifyClosed, outcome, containers,
                         sendVars, streamVars, hubVars, metadata, crashed, reregister, disturbed>>
      BY <1>5 DEF StartDocker, MainGo, TypeInv
    <2> USE DEF sendVars, streamVars, hubVars, ctxVars
    <2>3. TypeInv'
      BY <2>1 DEF TypeInv, MainPcs, DockerPcs
    <2>4. PhasesOK(j)' /\ StreamOK(j)'
      BY <1>0, <2>1 DEF PhasesOK, StreamOK, Before
    <2>5. OrderOK(j)' /\ Tracked(j)'
      BY <1>0, <2>1 DEF OrderOK, Tracked, Somewhere, Before, PhasesOK
    <2>6. \A k \in Jobs \ {j} : Still(k)
      BY <2>1 DEF Still, TypeInv
    <2> QED BY <2>3, <2>4, <2>5, <2>6 DEF Step, JobInv
  <1>6. CASE RangeEnds(j)
    <2>1. /\ main[j] = "range" /\ main' = [main EXCEPT ![j] = "done"] /\ main'[j] = "done" /\ notifyClosed[j]
          /\ bufferClosed' = [bufferClosed EXCEPT ![j] = TRUE] /\ bufferClosed'[j]
          /\ UNCHANGED <<buffer, notMain>>
      BY <1>6 DEF RangeEnds, MainGo, TypeInv
    <2>2. /\ cancelChs' \in [Subs -> Jobs \cup {0}] /\ ctxDone' \in [Jobs -> BOOLEAN]
          /\ \A k \in Jobs : ctxDone[k] => ctxDone'[k]
      BY <1>6, SubOf, Forgotten DEF RangeEnds
    <2> USE DEF notMain, dockerVars, sendVars, streamVars, hubVars
    <2>3. TypeInv'
      BY <2>1, <2>2 DEF TypeInv, MainPcs
    <2>4. PhasesOK(j)' /\ StreamOK(j)'
      BY <1>0, <2>1 DEF PhasesOK, StreamOK, Before
    <2>5. OrderOK(j)' /\ Tracked(j)'
      BY <1>0, <2>1 DEF OrderOK, Tracked, Somewhere, Before, PhasesOK
    <2>6. \A k \in Jobs \ {j} : Still(k)
      BY <2>1, <2>2 DEF Still, TypeInv
    <2> QED BY <2>3, <2>4, <2>5, <2>6 DEF Step, JobInv
  <1> QED BY <1>1, <1>2, <1>3, <1>4, <1>5, <1>6 DEF MainNext

\* A report after Running joins the others, unless the buffer is closed.
LEMMA Noted ==
  ASSUME TypeInv, NEW j \in Jobs, OrderOK(j), NEW r \in Reports, r # "Running", BufferSend(j, r)
  PROVE  /\ buffer' \in [Jobs -> Seq(Reports)] /\ \A k \in Jobs \ {j} : buffer'[k] = buffer[k]
         /\ HasFinal(buffer[j]) => HasFinal(buffer'[j])
         /\ ~HasRunning(buffer[j]) => ~HasRunning(buffer'[j])
         /\ RunningFirst(buffer'[j])
         /\ bufferClosed[j] => buffer'[j] = buffer[j]
         /\ ~bufferClosed[j] /\ r \in Final => HasFinal(buffer'[j])
  <1>1. buffer[j] \in Seq(Reports) /\ RunningFirst(buffer[j])
    BY DEF TypeInv, OrderOK
  <1>2. CASE bufferClosed[j]
    <2>1. buffer' = [buffer EXCEPT ![j] = buffer[j]]
      BY <1>2 DEF BufferSend
    <2> QED BY <1>1, <1>2, <2>1 DEF TypeInv
  <1>3. CASE ~bufferClosed[j]
    <2>1. buffer' = [buffer EXCEPT ![j] = Append(buffer[j], r)]
      BY <1>3 DEF BufferSend
    <2>2. Append(buffer[j], r) \in Seq(Reports)
      BY <1>1, Appended
    <2>3. /\ buffer' \in [Jobs -> Seq(Reports)] /\ buffer'[j] = Append(buffer[j], r)
          /\ \A k \in Jobs \ {j} : buffer'[k] = buffer[k]
      BY <2>1, <2>2 DEF TypeInv
    <2> QED BY <1>1, <1>3, <2>3, Appended
  <1> QED BY <1>2, <1>3

\* The steps of the Docker grader that report nothing.
LEMMA QuietDockerSteps ==
  ASSUME TypeInv, NEW j \in Jobs, JobInv(j),
         \/ TakeSlot(j) \/ RunFails(j) \/ CreateContainer(j) \/ StartContainer(j) \/ TellStarted(j)
         \/ WaitContainer(j) \/ LeaveDocker(j) \/ RemoveContainer(j) \/ MetaPanics(j)
  PROVE  Step(j)
  <1>0. PhasesOK(j) /\ StreamOK(j) /\ OrderOK(j) /\ Tracked(j)
    BY DEF JobInv
  <1>1. UNCHANGED <<buffer, notDocker>>
    BY DEF TakeSlot, RunFails, CreateContainer, StartContainer, TellStarted, WaitContainer,
           LeaveDocker, RemoveContainer, MetaPanics
  <1> USE DEF notDocker, sendVars, streamVars, hubVars, ctxVars
  <1>2. /\ docker' \in [Jobs -> DockerPcs] /\ meta' \in [Jobs -> MetaPcs]
        /\ notifyClosed' \in [Jobs -> BOOLEAN] /\ outcome' \in [Jobs -> Final \cup {"none"}]
        /\ containers' \subseteq Jobs /\ crashed' \in BOOLEAN
        /\ \A k \in Jobs \ {j} : /\ docker'[k] = docker[k] /\ meta'[k] = meta[k]
                                 /\ notifyClosed'[k] = notifyClosed[k] /\ outcome'[k] = outcome[k]
        /\ docker'[j] = "none" <=> docker[j] = "none"
        /\ Before(j)' => Before(j) /\ meta'[j] = meta[j]
        /\ docker'[j] = "final" => outcome'[j] \in Final
        /\ notifyClosed'[j] => docker'[j] = "done"
        /\ docker'[j] \in {"close", "done"} => docker[j] \in {"close", "done"}
    <2> USE <1>0 DEF TypeInv, PhasesOK, Before
    <2>1. CASE TakeSlot(j)
      BY <2>1 DEF TakeSlot, Go, DockerPcs
    <2>2. CASE RunFails(j)
      <3>1. PICK o \in Errors(j) : Return(j, o)
        BY <2>2 DEF RunFails
      <3>2. o \in Final
        <4>1. Errors(j) \subseteq Final
          BY DEF Errors, Final
        <4> QED BY <4>1
      <3> QED BY <2>2, <3>1, <3>2 DEF RunFails, Return, DockerPcs, MetaPcs
    <2>3. CASE CreateContainer(j)
      BY <2>3 DEF CreateContainer, Go, DockerPcs, MetaPcs
    <2>4. CASE StartContainer(j)
      BY <2>4 DEF StartContainer, Go, DockerPcs
    <2>5. CASE TellStarted(j)
      BY <2>5 DEF TellStarted, Go, DockerPcs, MetaPcs
    <2>6. CASE WaitContainer(j)
      <3>1. PICK o \in {"Finished", "Failed"} \cup (IF ctxDone[j] THEN {"Cancelled"} ELSE {}) : Return(j, o)
        BY <2>6 DEF WaitContainer
      <3>2. o \in Final
        BY DEF Final
      <3> QED BY <2>6, <3>1, <3>2 DEF WaitContainer, Return, DockerPcs, MetaPcs
    <2>7. CASE LeaveDocker(j)
      BY <2>7 DEF LeaveDocker, Go, DockerPcs
    <2>8. CASE RemoveContainer(j)
      BY <2>8 DEF RemoveContainer
    <2>9. CASE MetaPanics(j)
      BY <2>9 DEF MetaPanics
    <2> QED BY <2>1, <2>2, <2>3, <2>4, <2>5, <2>6, <2>7, <2>8, <2>9
  <1>3. TypeInv'
    BY <1>1, <1>2 DEF TypeInv
  <1>4. PhasesOK(j)' /\ StreamOK(j)'
    BY <1>0, <1>1, <1>2 DEF PhasesOK, StreamOK
  <1>5. OrderOK(j)' /\ Tracked(j)'
    BY <1>0, <1>1, <1>2 DEF OrderOK, Tracked, Somewhere
  <1>6. \A k \in Jobs \ {j} : Still(k)
    BY <1>1, <1>2 DEF Still
  <1> QED BY <1>3, <1>4, <1>5, <1>6 DEF Step, JobInv

LEMMA RunningStep ==
  ASSUME TypeInv, NEW j \in Jobs, JobInv(j), ReportRunning(j)
  PROVE  Step(j)
  <1>0. PhasesOK(j) /\ StreamOK(j) /\ OrderOK(j) /\ Tracked(j)
    BY DEF JobInv
  <1>1. /\ docker[j] = "running" /\ docker' = [docker EXCEPT ![j] = "create"] /\ docker'[j] = "create"
        /\ meta' = [meta EXCEPT ![j] = "id"] /\ main[j] = "range" /\ ~notifyClosed[j]
        /\ BufferSend(j, "Running")
        /\ UNCHANGED <<notifyClosed, outcome, containers, crashed, notDocker>>
    BY DEF ReportRunning, Go, Notify, TypeInv
  <1> USE DEF notDocker, sendVars, streamVars, hubVars, ctxVars
  <1>2. /\ buffer' \in [Jobs -> Seq(Reports)] /\ \A k \in Jobs \ {j} : buffer'[k] = buffer[k]
        /\ RunningFirst(buffer'[j])
        /\ \/ bufferClosed[j] /\ buffer'[j] = buffer[j]
           \/ ~bufferClosed[j] /\ unsent[j] = <<>> /\ wire[j] = <<>> /\ applied[j] = <<>>
    <2>1. CASE bufferClosed[j]
      <3>1. buffer' = [buffer EXCEPT ![j] = buffer[j]]
        BY <1>1, <2>1 DEF BufferSend
      <3> QED BY <1>0, <2>1, <3>1 DEF TypeInv, OrderOK
    <2>2. CASE ~bufferClosed[j]
      <3>1. buffer[j] = <<>> /\ unsent[j] = <<>> /\ wire[j] = <<>> /\ applied[j] = <<>>
        BY <1>0, <1>1, <2>2 DEF OrderOK, Before
      <3>2. "Running" \in Reports
        BY DEF Reports
      <3>3. Append(buffer[j], "Running") \in Seq(Reports) /\ RunningFirst(Append(buffer[j], "Running"))
        BY <3>1, <3>2, Appended, Empty
      <3>4. buffer' = [buffer EXCEPT ![j] = Append(buffer[j], "Running")]
        BY <1>1, <2>2 DEF BufferSend
      <3> QED BY <2>2, <3>1, <3>3, <3>4 DEF TypeInv
    <2> QED BY <2>1, <2>2
  <1>3. TypeInv'
    BY <1>1, <1>2 DEF TypeInv, DockerPcs, MetaPcs
  <1>4. PhasesOK(j)' /\ StreamOK(j)'
    BY <1>0, <1>1, <1>2 DEF PhasesOK, StreamOK, Before
  <1>5. OrderOK(j)' /\ Tracked(j)'
    BY <1>0, <1>1, <1>2, Empty DEF OrderOK, Tracked, Somewhere, Before
  <1>6. \A k \in Jobs \ {j} : Still(k)
    BY <1>1, <1>2 DEF Still, TypeInv
  <1> QED BY <1>3, <1>4, <1>5, <1>6 DEF Step, JobInv

LEMMA MetaStep ==
  ASSUME TypeInv, NEW j \in Jobs, JobInv(j), MetaReport(j)
  PROVE  Step(j)
  <1>0. PhasesOK(j) /\ StreamOK(j) /\ OrderOK(j) /\ Tracked(j)
    BY DEF JobInv
  <1> DEFINE r == IF meta[j] = "created" THEN "Created" ELSE "Started"
  <1>1. /\ meta[j] \in {"created", "started"} /\ ~Before(j) /\ BufferSend(j, r)
        /\ main[j] = "range" /\ meta' = [meta EXCEPT ![j] = NextMeta(j)]
        /\ UNCHANGED <<docker, notifyClosed, outcome, containers, crashed, notDocker>>
    BY <1>0 DEF MetaReport, Notify, PhasesOK
  <1>2. r \in Reports /\ r # "Running"
    BY DEF Reports, Metadata
  <1> HIDE DEF r
  <1> USE DEF notDocker, sendVars, streamVars, hubVars, ctxVars
  <1>3. /\ buffer' \in [Jobs -> Seq(Reports)] /\ \A k \in Jobs \ {j} : buffer'[k] = buffer[k]
        /\ HasFinal(buffer[j]) => HasFinal(buffer'[j])
        /\ ~HasRunning(buffer[j]) => ~HasRunning(buffer'[j])
        /\ RunningFirst(buffer'[j])
        /\ bufferClosed[j] => buffer'[j] = buffer[j]
    BY <1>0, <1>1, <1>2, Noted
  <1>4. NextMeta(j) \in MetaPcs
    BY DEF NextMeta, MetaPcs
  <1>5. TypeInv'
    BY <1>1, <1>3, <1>4 DEF TypeInv
  <1>6. PhasesOK(j)' /\ StreamOK(j)'
    BY <1>0, <1>1, <1>3 DEF PhasesOK, StreamOK, Before
  <1>7. OrderOK(j)' /\ Tracked(j)'
    BY <1>0, <1>1, <1>3 DEF OrderOK, Tracked, Somewhere, Before
  <1>8. \A k \in Jobs \ {j} : Still(k)
    BY <1>1, <1>3 DEF Still, TypeInv
  <1> QED BY <1>5, <1>6, <1>7, <1>8 DEF Step, JobInv

LEMMA FinalStep ==
  ASSUME TypeInv, NEW j \in Jobs, JobInv(j), ReportFinal(j)
  PROVE  Step(j)
  <1>0. PhasesOK(j) /\ StreamOK(j) /\ OrderOK(j) /\ Tracked(j)
    BY DEF JobInv
  <1>1. /\ docker[j] = "final" /\ docker' = [docker EXCEPT ![j] = "close"] /\ docker'[j] = "close"
        /\ main[j] = "range" /\ outcome[j] \in Final
        /\ outcome' = [outcome EXCEPT ![j] = "none"]
        /\ UNCHANGED <<meta, notifyClosed, containers, crashed, main, bufferClosed,
                       reporter, streamVars, hubVars, metadata, ctxVars, reregister, disturbed>>
    BY <1>0 DEF ReportFinal, Go, TypeInv, PhasesOK
  <1> USE DEF streamVars, hubVars, ctxVars
  <1>2. /\ buffer' \in [Jobs -> Seq(Reports)] /\ \A k \in Jobs \ {j} : buffer'[k] = buffer[k]
        /\ unsent' \in [Jobs -> Seq(Reports)] /\ \A k \in Jobs \ {j} : unsent'[k] = unsent[k]
        /\ HasFinal(buffer[j]) => HasFinal(buffer'[j])
        /\ HasFinal(unsent[j]) => HasFinal(unsent'[j])
        /\ ~HasRunning(buffer[j]) => ~HasRunning(buffer'[j])
        /\ ~HasRunning(unsent[j]) => ~HasRunning(unsent'[j])
        /\ RunningFirst(buffer'[j]) /\ RunningFirst(unsent'[j])
        /\ ~bufferClosed[j] => HasFinal(buffer'[j])
        /\ unsent[j] = <<>> <=> unsent'[j] = <<>>
        /\ bufferClosed[j] /\ buffer[j] = <<>> => buffer'[j] = <<>>
    <2>1. CASE outcome[j] # "Cancelled"
      <3>1. BufferSend(j, outcome[j]) /\ unsent' = unsent
        BY <2>1 DEF ReportFinal, Notify
      <3>2. outcome[j] \in Reports /\ outcome[j] # "Running"
        BY <1>1 DEF Reports, Final
      <3> QED BY <1>0, <1>1, <3>1, <3>2, Noted DEF OrderOK, TypeInv
    <2>2. CASE outcome[j] = "Cancelled"
      <3> DEFINE b == Recast(buffer[j])
                 u == Recast(unsent[j])
                 n == IF bufferClosed[j] THEN b ELSE Append(b, "Cancelled")
      <3>1. buffer' = [buffer EXCEPT ![j] = n] /\ unsent' = [unsent EXCEPT ![j] = u]
        BY <2>2 DEF ReportFinal
      <3>2. /\ u \in Seq(Reports) /\ ~HasRunning(u) /\ RunningFirst(u)
            /\ HasFinal(unsent[j]) => HasFinal(u)
            /\ u = <<>> <=> unsent[j] = <<>>
        BY Recasted DEF TypeInv
      <3>3. /\ b \in Seq(Reports) /\ ~HasRunning(b) /\ RunningFirst(b)
            /\ HasFinal(buffer[j]) => HasFinal(b)
            /\ b = <<>> <=> buffer[j] = <<>>
        BY Recasted DEF TypeInv
      <3> HIDE DEF b, u
      <3>4. "Cancelled" \in Reports /\ "Cancelled" \in Final
        BY DEF Reports, Final
      <3>5. /\ n \in Seq(Reports) /\ ~HasRunning(n) /\ RunningFirst(n)
            /\ HasFinal(buffer[j]) => HasFinal(n)
            /\ ~bufferClosed[j] => HasFinal(n)
            /\ bufferClosed[j] /\ buffer[j] = <<>> => n = <<>>
        BY <3>3, <3>4, Appended
      <3> HIDE DEF n
      <3> QED BY <3>1, <3>2, <3>5 DEF TypeInv
    <2> QED BY <2>1, <2>2
  <1>3. TypeInv'
    BY <1>1, <1>2 DEF TypeInv, DockerPcs
  <1>4. PhasesOK(j)' /\ StreamOK(j)'
    BY <1>0, <1>1, <1>2 DEF PhasesOK, StreamOK, Before
  <1>5. OrderOK(j)' /\ Tracked(j)'
    BY <1>0, <1>1, <1>2 DEF OrderOK, Tracked, Somewhere, Before
  <1>6. \A k \in Jobs \ {j} : Still(k)
    BY <1>1, <1>2 DEF Still, TypeInv
  <1> QED BY <1>3, <1>4, <1>5, <1>6 DEF Step, JobInv

LEMMA DockerSteps ==
  ASSUME TypeInv, NEW j \in Jobs, JobInv(j), DockerNext(j)
  PROVE  Step(j)
  BY QuietDockerSteps, RunningStep, MetaStep, FinalStep DEF DockerNext

\* The reporter's steps that keep every report where it is.
LEMMA Retried ==
  ASSUME TypeInv, NEW j \in Jobs, StreamOK(j), handler[j] \in {"ok", "denied", "broken"}, Retry(j)
  PROVE  /\ reporter' \in [Jobs -> ReporterPcs] /\ \A k \in Jobs \ {j} : reporter'[k] = reporter[k]
         /\ reporter'[j] = IF handler[j] = "denied" THEN "done" ELSE "dial"
         /\ cancelChs' \in [Subs -> Jobs \cup {0}] /\ ctxDone' \in [Jobs -> BOOLEAN]
         /\ \A k \in Jobs : ctxDone[k] => ctxDone'[k]
  BY DEF Retry, TypeInv, ReporterPcs, ctxVars

LEMMA RetrySteps ==
  ASSUME TypeInv, NEW j \in Jobs, JobInv(j),
         \/ SendFails(j) \/ ProbeFails(j)
         \/ CloseAndRecv(j) /\ handler[j] \in {"denied", "broken"}
  PROVE  Step(j)
  <1>0. PhasesOK(j) /\ StreamOK(j) /\ OrderOK(j) /\ Tracked(j)
    BY DEF JobInv
  <1>1. /\ Retry(j) /\ handler[j] \in {"ok", "denied", "broken"} /\ reporter[j] \in {"open", "close"}
        /\ UNCHANGED <<buffer, unsent, streamVars, hubVars, metadata, notSession>>
    BY DEF SendFails, ProbeFails, CloseAndRecv
  <1>2. /\ reporter' \in [Jobs -> ReporterPcs] /\ \A k \in Jobs \ {j} : reporter'[k] = reporter[k]
        /\ reporter'[j] = IF handler[j] = "denied" THEN "done" ELSE "dial"
        /\ cancelChs' \in [Subs -> Jobs \cup {0}] /\ ctxDone' \in [Jobs -> BOOLEAN]
        /\ \A k \in Jobs : ctxDone[k] => ctxDone'[k]
    BY <1>0, <1>1, Retried
  <1>3. handler[j] = "ok" => HasFinal(applied[j])
    BY <1>0, <1>1 DEF StreamOK, SendFails, ProbeFails, CloseAndRecv
  <1> USE DEF notSession, dockerVars, streamVars, hubVars
  <1>4. TypeInv'
    BY <1>1, <1>2 DEF TypeInv
  <1>5. PhasesOK(j)' /\ StreamOK(j)'
    BY <1>0, <1>1, <1>2, <1>3 DEF PhasesOK, StreamOK, Before
  <1>6. OrderOK(j)' /\ Tracked(j)'
    BY <1>0, <1>1 DEF OrderOK, Tracked, Somewhere, Before
  <1>7. \A k \in Jobs \ {j} : Still(k)
    BY <1>1, <1>2 DEF Still
  <1> QED BY <1>4, <1>5, <1>6, <1>7 DEF Step, JobInv

LEMMA DialSteps ==
  ASSUME TypeInv, NEW j \in Jobs, JobInv(j),
         \/ Dial(j) \/ Drained(j) \/ Probe(j)
         \/ CloseAndRecv(j) /\ handler[j] = "ok"
  PROVE  Step(j)
  <1>0. PhasesOK(j) /\ StreamOK(j) /\ OrderOK(j) /\ Tracked(j)
    BY DEF JobInv
  <1> USE DEF notSession, dockerVars, streamVars, hubVars, sendVars, ctxVars
  <1>1. CASE Dial(j)
    <2>1. /\ reporter[j] = "dial" /\ reporter' = [reporter EXCEPT ![j] = "open"] /\ reporter'[j] = "open"
          /\ handler' = [handler EXCEPT ![j] = "open"] /\ handler'[j] = "open"
          /\ wire' = [wire EXCEPT ![j] = <<>>] /\ wire'[j] = <<>>
          /\ UNCHANGED <<buffer, unsent, lost, hubVars, metadata, ctxVars, notSession>>
      BY <1>1 DEF Dial, ReporterGo, TypeInv
    <2>2. TypeInv'
      BY <2>1, Empty DEF TypeInv, ReporterPcs, Handlers
    <2>3. PhasesOK(j)' /\ StreamOK(j)'
      BY <1>0, <2>1 DEF PhasesOK, StreamOK, Before
    <2>4. OrderOK(j)'
      BY <1>0, <2>1, Empty DEF OrderOK, Before
    <2>5. Tracked(j)'
      BY <1>0, <2>1 DEF Tracked, Somewhere, StreamOK
    <2>6. \A k \in Jobs \ {j} : Still(k)
      BY <2>1 DEF Still, TypeInv
    <2> QED BY <2>2, <2>3, <2>4, <2>5, <2>6 DEF Step, JobInv
  <1>2. CASE Drained(j)
    <2>1. /\ reporter[j] = "open" /\ reporter' = [reporter EXCEPT ![j] = "close"] /\ reporter'[j] = "close"
          /\ unsent[j] = <<>> /\ buffer[j] = <<>> /\ bufferClosed[j]
          /\ UNCHANGED <<buffer, unsent, streamVars, hubVars, metadata, ctxVars, notSession>>
      BY <1>2 DEF Drained, ReporterGo, TypeInv
    <2>2. TypeInv'
      BY <2>1 DEF TypeInv, ReporterPcs
    <2>3. PhasesOK(j)' /\ StreamOK(j)'
      BY <1>0, <2>1 DEF PhasesOK, StreamOK, Before
    <2>4. OrderOK(j)' /\ Tracked(j)'
      BY <1>0, <2>1 DEF OrderOK, Tracked, Somewhere, Before
    <2>5. \A k \in Jobs \ {j} : Still(k)
      BY <2>1 DEF Still, TypeInv
    <2> QED BY <2>2, <2>3, <2>4, <2>5 DEF Step, JobInv
  <1>3. CASE Probe(j)
    <2>1. /\ reporter[j] = "open" /\ wire[j] = <<>>
          /\ handler' = [handler EXCEPT ![j] = "denied"] /\ handler'[j] = "denied"
          /\ UNCHANGED <<buffer, sendVars, wire, lost, hubVars, metadata, ctxVars, notSession>>
      BY <1>3 DEF Probe, TypeInv
    <2>2. TypeInv'
      BY <2>1 DEF TypeInv, Handlers
    <2>3. PhasesOK(j)' /\ StreamOK(j)'
      BY <1>0, <2>1, Empty DEF PhasesOK, StreamOK, Before
    <2>4. OrderOK(j)' /\ Tracked(j)'
      BY <1>0, <2>1 DEF OrderOK, Tracked, Somewhere, Before
    <2>5. \A k \in Jobs \ {j} : Still(k)
      BY <2>1 DEF Still, TypeInv
    <2> QED BY <2>2, <2>3, <2>4, <2>5 DEF Step, JobInv
  <1>4. CASE CloseAndRecv(j) /\ handler[j] = "ok"
    <2>1. /\ reporter[j] = "close" /\ reporter' = [reporter EXCEPT ![j] = "done"] /\ reporter'[j] = "done"
          /\ UNCHANGED <<buffer, unsent, streamVars, hubVars, metadata, ctxVars, notSession>>
      BY <1>4 DEF CloseAndRecv, TypeInv
    <2>2. TypeInv'
      BY <2>1 DEF TypeInv, ReporterPcs
    <2>3. PhasesOK(j)' /\ StreamOK(j)'
      BY <1>0, <1>4, <2>1 DEF PhasesOK, StreamOK, Before
    <2>4. OrderOK(j)' /\ Tracked(j)'
      BY <1>0, <2>1 DEF OrderOK, Tracked, Somewhere, Before
    <2>5. \A k \in Jobs \ {j} : Still(k)
      BY <2>1 DEF Still, TypeInv
    <2> QED BY <2>2, <2>3, <2>4, <2>5 DEF Step, JobInv
  <1> QED BY <1>1, <1>2, <1>3, <1>4

\* What is taken from the unsent reports.
LEMMA UnsentTaken ==
  ASSUME TypeInv, NEW j \in Jobs, OrderOK(j), unsent[j] # <<>>, unsent' = [unsent EXCEPT ![j] = Tail(@)]
  PROVE  /\ Head(unsent[j]) \in Reports /\ unsent' \in [Jobs -> Seq(Reports)]
         /\ \A k \in Jobs \ {j} : unsent'[k] = unsent[k]
         /\ RunningFirst(unsent'[j]) /\ ~HasRunning(unsent'[j])
         /\ HasFinal(unsent[j]) => Head(unsent[j]) \in Final \/ HasFinal(unsent'[j])
         /\ Head(unsent[j]) = "Running" => HasRunning(unsent[j])
  <1>1. unsent[j] \in Seq(Reports) /\ RunningFirst(unsent[j])
    BY DEF TypeInv, OrderOK
  <1>2. Tail(unsent[j]) \in Seq(Reports)
    BY <1>1, Taken
  <1>3. unsent'[j] = Tail(unsent[j])
    BY DEF TypeInv
  <1> QED BY <1>1, <1>2, <1>3, Taken DEF TypeInv

LEMMA SendSteps ==
  ASSUME TypeInv, NEW j \in Jobs, JobInv(j), SendMetadata(j) \/ SendReport(j) \/ Drain(j)
  PROVE  Step(j)
  <1>0. PhasesOK(j) /\ StreamOK(j) /\ OrderOK(j) /\ Tracked(j)
    BY DEF JobInv
  <1> USE DEF notSession, dockerVars, streamVars, hubVars, ctxVars
  <1>1. CASE SendMetadata(j)
    <2>1. /\ reporter[j] = "open" /\ unsent[j] # <<>> /\ Head(unsent[j]) \in Metadata
          /\ metadata' = [metadata EXCEPT ![sub(j)] = j]
          /\ unsent' = [unsent EXCEPT ![j] = Tail(@)]
          /\ UNCHANGED <<buffer, reporter, streamVars, hubVars, ctxVars, notSession>>
      BY <1>1 DEF SendMetadata
    <2>2. /\ unsent' \in [Jobs -> Seq(Reports)] /\ \A k \in Jobs \ {j} : unsent'[k] = unsent[k]
          /\ RunningFirst(unsent'[j]) /\ ~HasRunning(unsent'[j])
          /\ HasFinal(unsent[j]) => HasFinal(unsent'[j])
      <3>1. Head(unsent[j]) \notin Final
        BY <2>1 DEF Metadata, Final
      <3> QED BY <1>0, <2>1, <3>1, UnsentTaken
    <2>3. TypeInv'
      BY <2>1, <2>2, SubOf DEF TypeInv
    <2>4. PhasesOK(j)' /\ StreamOK(j)'
      BY <1>0, <2>1 DEF PhasesOK, StreamOK, Before
    <2>5. OrderOK(j)' /\ Tracked(j)'
      BY <1>0, <2>1, <2>2 DEF OrderOK, Tracked, Somewhere, Before
    <2>6. \A k \in Jobs \ {j} : Still(k)
      BY <2>1, <2>2 DEF Still
    <2> QED BY <2>3, <2>4, <2>5, <2>6 DEF Step, JobInv
  <1>2. CASE SendReport(j)
    <2> DEFINE r == Head(unsent[j])
    <2>1. /\ reporter[j] = "open" /\ unsent[j] # <<>> /\ r \notin Metadata
          /\ wire' = [wire EXCEPT ![j] = IF handler[j] = "open" THEN Append(@, r) ELSE @]
          /\ lost' = [lost EXCEPT ![j] = @ \/ (handler[j] = "broken" /\ r \in Final)]
          /\ metadata' = [metadata EXCEPT ![sub(j)] = IF r \in Final THEN 0 ELSE @]
          /\ unsent' = [unsent EXCEPT ![j] = Tail(@)]
          /\ UNCHANGED <<buffer, reporter, handler, hubVars, ctxVars, notSession>>
      BY <1>2 DEF SendReport
    <2>2. /\ r \in Reports /\ unsent' \in [Jobs -> Seq(Reports)]
          /\ \A k \in Jobs \ {j} : unsent'[k] = unsent[k]
          /\ RunningFirst(unsent'[j]) /\ ~HasRunning(unsent'[j])
          /\ HasFinal(unsent[j]) => r \in Final \/ HasFinal(unsent'[j])
          /\ r = "Running" => HasRunning(unsent[j])
      BY <1>0, <2>1, UnsentTaken
    <2>3. r \in Streamed
      BY <2>1, <2>2 DEF Streamed, Reports
    <2>4. ~HasRunning(buffer[j])
      BY <1>0, <2>1 DEF OrderOK
    <2> HIDE DEF r
    <2>5. /\ wire' \in [Jobs -> Seq(Reports)] /\ \A k \in Jobs \ {j} : wire'[k] = wire[k]
          /\ RunningFirst(wire'[j]) /\ Within(wire'[j], Streamed)
          /\ HasFinal(wire[j]) => HasFinal(wire'[j])
          /\ handler[j] # "open" => wire'[j] = wire[j]
          /\ handler[j] = "open" /\ r \in Final => HasFinal(wire'[j])
          /\ HasRunning(wire'[j]) => HasRunning(wire[j]) \/ r = "Running"
      <3>1. wire[j] \in Seq(Reports) /\ RunningFirst(wire[j]) /\ Within(wire[j], Streamed)
        BY <1>0 DEF TypeInv, OrderOK
      <3>2. CASE handler[j] # "open"
        <4>1. wire' = [wire EXCEPT ![j] = wire[j]]
          BY <2>1, <3>2
        <4>2. wire'[j] = wire[j] /\ wire' \in [Jobs -> Seq(Reports)] /\ \A k \in Jobs \ {j} : wire'[k] = wire[k]
          BY <4>1 DEF TypeInv
        <4> QED BY <3>1, <3>2, <4>2
      <3>3. CASE handler[j] = "open"
        <4>1. wire' = [wire EXCEPT ![j] = Append(wire[j], r)]
          BY <2>1, <3>3
        <4>2. Append(wire[j], r) \in Seq(Reports)
          BY <2>2, <3>1, Appended
        <4>3. /\ wire' \in [Jobs -> Seq(Reports)] /\ wire'[j] = Append(wire[j], r)
              /\ \A k \in Jobs \ {j} : wire'[k] = wire[k]
          BY <4>1, <4>2 DEF TypeInv
        <4>4. r # "Running" \/ wire[j] = <<>>
          BY <1>0, <2>2 DEF OrderOK
        <4> QED BY <2>2, <2>3, <3>1, <3>3, <4>3, <4>4, Appended
      <3> QED BY <3>2, <3>3
    <2>6. /\ lost' \in [Jobs -> BOOLEAN] /\ \A k \in Jobs \ {j} : lost'[k] = lost[k]
          /\ lost[j] => lost'[j]
          /\ handler[j] = "broken" /\ r \in Final => lost'[j]
      BY <2>1 DEF TypeInv
    <2>7. TypeInv'
      BY <2>1, <2>2, <2>5, <2>6, SubOf DEF TypeInv
    <2>8. PhasesOK(j)' /\ StreamOK(j)'
      BY <1>0, <2>1, <2>5 DEF PhasesOK, StreamOK, Before
    <2>9. OrderOK(j)'
      <3>1. HasRunning(wire'[j]) => applied[j] = <<>> /\ ~Before(j)
        BY <1>0, <2>2, <2>5 DEF OrderOK
      <3> QED BY <1>0, <2>1, <2>2, <2>4, <2>5, <3>1 DEF OrderOK, Before
    <2>10. Tracked(j)'
      <3>1. r \in Final => \/ HasFinal(wire'[j]) \/ lost'[j] \/ HasFinal(applied[j])
                           \/ handler[j] = "denied"
        BY <1>0, <2>1, <2>5, <2>6 DEF StreamOK, TypeInv, Handlers
      <3> QED BY <1>0, <2>1, <2>2, <2>5, <2>6, <3>1 DEF Tracked, Somewhere
    <2>11. \A k \in Jobs \ {j} : Still(k)
      BY <2>1, <2>2, <2>5, <2>6 DEF Still
    <2> QED BY <2>7, <2>8, <2>9, <2>10, <2>11 DEF Step, JobInv
  <1>3. CASE Drain(j)
    <2>1. /\ reporter[j] = "open" /\ unsent[j] = <<>> /\ buffer[j] # <<>>
          /\ unsent' = [unsent EXCEPT ![j] = buffer[j]] /\ unsent'[j] = buffer[j]
          /\ buffer' = [buffer EXCEPT ![j] = <<>>] /\ buffer'[j] = <<>>
          /\ UNCHANGED <<reporter, streamVars, hubVars, metadata, ctxVars, notSession>>
      BY <1>3 DEF Drain, TypeInv
    <2>2. TypeInv'
      BY <2>1, Empty DEF TypeInv
    <2>3. PhasesOK(j)' /\ StreamOK(j)'
      BY <1>0, <2>1 DEF PhasesOK, StreamOK, Before
    <2>4. OrderOK(j)' /\ Tracked(j)'
      BY <1>0, <2>1, Empty DEF OrderOK, Tracked, Somewhere, Before
    <2>5. \A k \in Jobs \ {j} : Still(k)
      BY <2>1 DEF Still, TypeInv
    <2> QED BY <2>2, <2>3, <2>4, <2>5 DEF Step, JobInv
  <1> QED BY <1>1, <1>2, <1>3

LEMMA ReporterSteps ==
  ASSUME TypeInv, NEW j \in Jobs, JobInv(j), ReporterNext(j)
  PROVE  Step(j)
  <1>1. CloseAndRecv(j) => handler[j] \in {"ok", "denied", "broken"}
    BY DEF CloseAndRecv
  <1> QED BY <1>1, RetrySteps, DialSteps, SendSteps DEF ReporterNext

LEMMA HubSteps ==
  ASSUME TypeInv, NEW j \in Jobs, JobInv(j), HandlerNext(j) \/ BreakStream(j)
  PROVE  Step(j)
  <1>0. PhasesOK(j) /\ StreamOK(j) /\ OrderOK(j) /\ Tracked(j)
    BY DEF JobInv
  <1>1. wire[j] \in Seq(Reports) /\ applied[j] \in Seq(Reports)
    BY DEF TypeInv
  <1> USE DEF notSession, dockerVars, sendVars, hubVars, ctxVars
  <1>2. CASE GradeCallbackRefuses(j)
    <2>1. /\ handler[j] = "open" /\ handler' = [handler EXCEPT ![j] = "denied"] /\ handler'[j] = "denied"
          /\ wire' = [wire EXCEPT ![j] = <<>>] /\ wire'[j] = <<>>
          /\ UNCHANGED <<buffer, sendVars, lost, hubVars, metadata, ctxVars, notSession>>
      BY <1>2 DEF GradeCallbackRefuses, TypeInv
    <2>2. TypeInv'
      BY <2>1, Empty DEF TypeInv, Handlers
    <2>3. PhasesOK(j)' /\ StreamOK(j)'
      BY <1>0, <2>1, Empty DEF PhasesOK, StreamOK, Before
    <2>4. OrderOK(j)' /\ Tracked(j)'
      BY <1>0, <2>1, Empty DEF OrderOK, Tracked, Somewhere, Before
    <2>5. \A k \in Jobs \ {j} : Still(k)
      BY <2>1 DEF Still, TypeInv
    <2> QED BY <2>2, <2>3, <2>4, <2>5 DEF Step, JobInv
  <1>3. CASE GradeCallback(j)
    <2> DEFINE r == Head(wire[j])
    <2>1. /\ handler[j] = "open" /\ wire[j] # <<>>
          /\ applied' = [applied EXCEPT ![j] = Append(@, r)]
          /\ wire' = [wire EXCEPT ![j] = Tail(@)]
          /\ UNCHANGED <<buffer, sendVars, lost, metadata, ctxVars, notSession>>
          /\ IF r \in Final
             THEN /\ result' = [result EXCEPT ![sub(j)] = j]
                  /\ claim' = [claim EXCEPT ![sub(j)] = FALSE]
                  /\ handler' = [handler EXCEPT ![j] = "ok"]
             ELSE UNCHANGED <<result, claim, handler>>
      BY <1>3 DEF GradeCallback
    <2>2. /\ r \in Reports /\ r \in Streamed /\ Tail(wire[j]) \in Seq(Reports)
          /\ HasFinal(wire[j]) => r \in Final \/ HasFinal(Tail(wire[j]))
          /\ r = "Running" => HasRunning(wire[j])
          /\ ~HasRunning(Tail(wire[j])) /\ RunningFirst(Tail(wire[j])) /\ Within(Tail(wire[j]), Streamed)
      BY <1>0, <1>1, <2>1, Taken DEF OrderOK
    <2>3. r = "Running" => applied[j] = <<>> /\ ~Before(j)
      BY <1>0, <2>2 DEF OrderOK
    <2>4. ~HasRunning(buffer[j]) /\ ~HasRunning(unsent[j])
      BY <1>0, <2>1 DEF OrderOK
    <2> HIDE DEF r
    <2>5. /\ Append(applied[j], r) \in Seq(Reports) /\ RunningFirst(Append(applied[j], r))
          /\ HasFinal(applied[j]) \/ r \in Final <=> HasFinal(Append(applied[j], r))
          /\ Within(Append(applied[j], r), Streamed)
          /\ HasRunning(applied[j]) \/ r = "Running" <=> HasRunning(Append(applied[j], r))
      BY <1>0, <1>1, <2>2, <2>3, Appended DEF OrderOK
    <2>6. /\ wire' \in [Jobs -> Seq(Reports)] /\ wire'[j] = Tail(wire[j])
          /\ applied' \in [Jobs -> Seq(Reports)] /\ applied'[j] = Append(applied[j], r)
          /\ handler' \in [Jobs -> Handlers]
          /\ handler'[j] = IF r \in Final THEN "ok" ELSE "open"
          /\ \A k \in Jobs \ {j} : /\ wire'[k] = wire[k] /\ applied'[k] = applied[k]
                                   /\ handler'[k] = handler[k]
      BY <2>1, <2>2, <2>5 DEF TypeInv, Handlers
    <2>7. TypeInv'
      <3>1. result' \in [Subs -> Jobs \cup {0}] /\ claim' \in [Subs -> BOOLEAN]
        BY <2>1, SubOf DEF TypeInv
      <3> QED BY <2>1, <2>6, <3>1 DEF TypeInv
    <2>8. PhasesOK(j)' /\ StreamOK(j)'
      BY <1>0, <2>1, <2>5, <2>6 DEF PhasesOK, StreamOK, Before
    <2>9. OrderOK(j)'
      BY <1>0, <2>1, <2>2, <2>3, <2>4, <2>5, <2>6 DEF OrderOK, Before
    <2>10. Tracked(j)'
      BY <1>0, <2>1, <2>2, <2>5, <2>6 DEF Tracked, Somewhere
    <2>11. \A k \in Jobs \ {j} : Still(k)
      BY <2>1, <2>6 DEF Still
    <2> QED BY <2>7, <2>8, <2>9, <2>10, <2>11 DEF Step, JobInv
  <1>4. CASE GradeCallbackEnds(j)
    <2>1. /\ handler[j] = "open" /\ handler' = [handler EXCEPT ![j] = "ok"] /\ handler'[j] = "ok"
          /\ wire[j] = <<>> /\ reporter[j] = "close"
          /\ UNCHANGED <<buffer, sendVars, wire, lost, hubVars, metadata, ctxVars, notSession>>
      BY <1>4 DEF GradeCallbackEnds, TypeInv
    <2>2. TypeInv'
      BY <2>1 DEF TypeInv, Handlers
    <2>3. PhasesOK(j)' /\ StreamOK(j)'
      BY <1>0, <2>1, Empty DEF PhasesOK, StreamOK, Before
    <2>4. OrderOK(j)' /\ Tracked(j)'
      BY <1>0, <2>1 DEF OrderOK, Tracked, Somewhere, Before
    <2>5. \A k \in Jobs \ {j} : Still(k)
      BY <2>1 DEF Still, TypeInv
    <2> QED BY <2>2, <2>3, <2>4, <2>5 DEF Step, JobInv
  <1>5. CASE BreakStream(j)
    <2>1. /\ handler[j] \in {"open", "ok"} /\ reporter[j] \in {"open", "close"}
          /\ handler' = [handler EXCEPT ![j] = "broken"] /\ handler'[j] = "broken"
          /\ lost' = [lost EXCEPT ![j] = @ \/ (handler[j] = "open" /\ Ended(wire[j]))]
          /\ wire' = [wire EXCEPT ![j] = <<>>] /\ wire'[j] = <<>>
          /\ UNCHANGED <<buffer, sendVars, hubVars, metadata, ctxVars, main, bufferClosed,
                         dockerVars, crashed, reregister>>
      BY <1>5 DEF BreakStream, TypeInv
    <2>2. /\ lost' \in [Jobs -> BOOLEAN] /\ \A k \in Jobs \ {j} : lost'[k] = lost[k]
          /\ lost[j] => lost'[j]
          /\ handler[j] = "open" /\ HasFinal(wire[j]) => lost'[j]
      <3>1. lost[j] => lost'[j]
        BY <2>1 DEF TypeInv
      <3>2. handler[j] = "open" /\ HasFinal(wire[j]) => Ended(wire[j])
        BY <1>0, <1>1, StreamEnds DEF OrderOK
      <3>3. handler[j] = "open" /\ Ended(wire[j]) => lost'[j]
        BY <2>1 DEF TypeInv
      <3>4. lost' \in [Jobs -> BOOLEAN]
        <4>1. (lost[j] \/ (handler[j] = "open" /\ Ended(wire[j]))) \in BOOLEAN
          OBVIOUS
        <4> QED BY <2>1, <4>1 DEF TypeInv
      <3> QED BY <2>1, <3>1, <3>2, <3>3, <3>4 DEF TypeInv
    <2>3. TypeInv'
      BY <2>1, <2>2, Empty DEF TypeInv, Handlers
    <2>4. PhasesOK(j)' /\ StreamOK(j)'
      BY <1>0, <2>1, Empty DEF PhasesOK, StreamOK, Before
    <2>5. OrderOK(j)'
      BY <1>0, <2>1, Empty DEF OrderOK, Before
    <2>6. Tracked(j)'
      BY <1>0, <2>1, <2>2 DEF Tracked, Somewhere, StreamOK
    <2>7. \A k \in Jobs \ {j} : Still(k)
      BY <2>1, <2>2 DEF Still, TypeInv
    <2> QED BY <2>3, <2>4, <2>5, <2>6, <2>7 DEF Step, JobInv
  <1> QED BY <1>2, <1>3, <1>4, <1>5 DEF HandlerNext

LEMMA BeginStep ==
  ASSUME TypeInv, NEW j \in Jobs, JobInv(j), BeginGrade(j)
  PROVE  Step(j)
  <1>0. PhasesOK(j) /\ StreamOK(j) /\ OrderOK(j) /\ Tracked(j)
    BY DEF JobInv
  <1> USE DEF dockerVars, streamVars
  <1>1. /\ main[j] = "idle" /\ main' = [main EXCEPT ![j] = "download"] /\ main'[j] = "download"
        /\ reporter' = [reporter EXCEPT ![j] = "dial"] /\ reporter'[j] = "dial"
        /\ claim' = [claim EXCEPT ![sub(j)] = TRUE]
        /\ cancelChs' = [cancelChs EXCEPT ![sub(j)] = j]
        /\ UNCHANGED <<ctxDone, buffer, bufferClosed, dockerVars, unsent, streamVars, applied, result,
                       metadata, crashed, reregister, disturbed>>
    BY DEF BeginGrade, TypeInv
  <1>2. TypeInv'
    BY <1>1, SubOf DEF TypeInv, MainPcs, ReporterPcs
  <1>3. PhasesOK(j)' /\ StreamOK(j)'
    BY <1>0, <1>1 DEF PhasesOK, StreamOK, Before
  <1>4. OrderOK(j)' /\ Tracked(j)'
    BY <1>0, <1>1 DEF OrderOK, Tracked, Somewhere, Before, PhasesOK
  <1>5. \A k \in Jobs \ {j} : Still(k)
    BY <1>1 DEF Still, TypeInv
  <1> QED BY <1>2, <1>3, <1>4, <1>5 DEF Step, JobInv

\* What the environment does to the grader as a whole.
LEMMA WorkerSteps ==
  ASSUME TypeInv, GraderOffline \/ Reregister \/ \E s \in Subs : CancelJob(s)
  PROVE  TypeInv' /\ \A k \in Jobs : Still(k)
  <1> USE DEF jobVars, dockerVars, sendVars, streamVars, hubVars, ctxVars
  <1>1. CASE GraderOffline
    BY <1>1 DEF GraderOffline, TypeInv, Still
  <1>2. CASE Reregister
    <2>1. containers' \subseteq Jobs
      BY <1>2 DEF Reregister, TypeInv
    <2> QED BY <1>2, <2>1 DEF Reregister, TypeInv, Still
  <1>3. ASSUME NEW s \in Subs, CancelJob(s) PROVE TypeInv' /\ \A k \in Jobs : Still(k)
    BY <1>3, Forgotten DEF CancelJob, TypeInv, Still
  <1> QED BY <1>1, <1>2, <1>3

-----------------------------------------------------------------------------
(* The claim of a submission with one job *)

LEMMA InOrderAppended ==
  ASSUME NEW q \in Seq(Reports), Within(q, Streamed), RunningFirst(q), ~HasFinal(q),
         NEW r \in Streamed, RunningFirst(Append(q, r))
  PROVE  InOrder(Append(q, r))
  <1> DEFINE a == Append(q, r)
  <1>1. r \in Reports
    BY DEF Streamed, Reports
  <1>2. /\ Len(a) = Len(q) + 1 /\ Len(q) \in Nat /\ a[Len(q) + 1] = r
        /\ \A i \in 1..Len(q) : a[i] = q[i]
    BY <1>1, Appended
  <1>3. \A i \in 1..Len(q) : q[i] = "Running" /\ i = 1
    BY DEF Within, Streamed, HasFinal, RunningFirst
  <1>4. Len(q) <= 1
    <2>1. CASE Len(q) >= 1
      <3>1. Len(q) \in 1..Len(q)
        BY <1>2, <2>1
      <3> QED BY <1>3, <3>1
    <2> QED BY <1>2, <2>1
  <1> HIDE DEF a
  <1>5. RunningFirst(a)
    BY DEF a
  <1>6. ASSUME NEW i \in 1..Len(a), NEW k \in 1..Len(a), i < k
        PROVE  a[i] = "Running" /\ a[k] \in Final
    <2>1. i \in 1..Len(q) /\ k = Len(q) + 1 /\ k # 1
      BY <1>2, <1>4, <1>6
    <2>2. a[i] = "Running"
      BY <1>2, <1>3, <2>1
    <2>3. a[k] = r /\ r # "Running"
      BY <1>2, <1>5, <2>1 DEF RunningFirst
    <2> QED BY <2>2, <2>3 DEF Streamed
  <1> QED BY <1>2, <1>4, <1>6 DEF InOrder, a

\* A job that has begun has not begun in the future.
LEMMA AloneBefore ==
  ASSUME TypeInv, [Next]_vars, NEW j \in Jobs, Alone(j)'
  PROVE  Alone(j)
  <1> USE DEF vars, jobVars, dockerVars, sendVars, streamVars, hubVars, ctxVars
  <1>1. \A k \in Jobs : main'[k] = "idle" => main[k] = "idle"
    <2>1. ASSUME NEW k \in Jobs, BeginGrade(k) \/ MainNext(k) PROVE \A i \in Jobs : main'[i] = "idle" => main[i] = "idle"
      BY <2>1 DEF BeginGrade, MainNext, Downloaded, DownloadFails, CloseFailed, Abandon, StartDocker,
                  RangeEnds, MainGo, TypeInv
    <2>2. ASSUME NEW k \in Jobs, DockerNext(k) PROVE main' = main
      BY <2>2 DEF DockerNext, TakeSlot, ReportRunning, RunFails, CreateContainer, StartContainer,
                  TellStarted, WaitContainer, ReportFinal, LeaveDocker, RemoveContainer, MetaReport,
                  MetaPanics, notDocker
    <2>3. ASSUME NEW k \in Jobs, ReporterNext(k) PROVE main' = main
      BY <2>3 DEF ReporterNext, Dial, SendMetadata, SendReport, SendFails, Drain, Drained, Probe,
                  ProbeFails, CloseAndRecv, notSession
    <2>4. ASSUME NEW k \in Jobs, HandlerNext(k) \/ BreakStream(k) PROVE main' = main
      BY <2>4 DEF HandlerNext, GradeCallbackRefuses, GradeCallback, GradeCallbackEnds, BreakStream,
                  notSession
    <2>5. GraderOffline \/ Reregister \/ (\E s \in Subs : CancelJob(s)) => main' = main
      BY DEF GraderOffline, Reregister, CancelJob
    <2> QED BY <2>1, <2>2, <2>3, <2>4, <2>5 DEF Next
  <1>2. \A k \in Jobs : sub(k)' = sub(k)
    BY DEF sub
  <1> QED BY <1>1 DEF Alone, sub

\* Only GradeCallback writes a report, and only BeginGrade claims.
LEMMA HubWrites ==
  ASSUME TypeInv, [Next]_vars
  PROVE  \/ \E k \in Jobs : BeginGrade(k) \/ GradeCallback(k)
         \/ applied' = applied /\ \A s \in Subs : claim'[s] => claim[s]
  <1> USE DEF vars, jobVars, dockerVars, sendVars, streamVars, hubVars, ctxVars
  <1>1. ASSUME NEW k \in Jobs, MainNext(k) PROVE applied' = applied /\ claim' = claim
    BY <1>1 DEF MainNext, Downloaded, DownloadFails, CloseFailed, Abandon, StartDocker, RangeEnds, notMain
  <1>2. ASSUME NEW k \in Jobs, DockerNext(k) PROVE applied' = applied /\ claim' = claim
    BY <1>2 DEF DockerNext, TakeSlot, ReportRunning, RunFails, CreateContainer, StartContainer,
                TellStarted, WaitContainer, ReportFinal, LeaveDocker, RemoveContainer, MetaReport,
                MetaPanics, notDocker
  <1>3. ASSUME NEW k \in Jobs, ReporterNext(k) PROVE applied' = applied /\ claim' = claim
    BY <1>3 DEF ReporterNext, Dial, SendMetadata, SendReport, SendFails, Drain, Drained, Probe,
                ProbeFails, CloseAndRecv
  <1>4. ASSUME NEW k \in Jobs, GradeCallbackRefuses(k) \/ GradeCallbackEnds(k) \/ BreakStream(k)
        PROVE  applied' = applied /\ claim' = claim
    BY <1>4 DEF GradeCallbackRefuses, GradeCallbackEnds, BreakStream
  <1>5. GraderOffline \/ Reregister \/ (\E s \in Subs : CancelJob(s)) =>
          applied' = applied /\ \A s \in Subs : claim'[s] => claim[s]
    BY DEF GraderOffline, Reregister, CancelJob
  <1> QED BY <1>1, <1>2, <1>3, <1>4, <1>5 DEF Next, HandlerNext

LEMMA ClaimStep ==
  ASSUME Inv, [Next]_vars, NEW j \in Jobs
  PROVE  (ClaimOK(j) /\ (Alone(j) => InOrder(applied[j])))'
  <1> SUFFICES ASSUME Alone(j)'
               PROVE  (HasFinal(applied'[j]) => ~claim'[sub(j)]) /\ InOrder(applied'[j])
    BY DEF ClaimOK, sub
  <1>1. Alone(j) /\ TypeInv /\ JobInv(j) /\ sub(j) \in Subs
    BY AloneBefore, SubOf DEF Inv
  <1>2. (HasFinal(applied[j]) => ~claim[sub(j)]) /\ InOrder(applied[j])
    BY <1>1 DEF Inv, ClaimOK
  <1>3. CASE applied' = applied /\ \A s \in Subs : claim'[s] => claim[s]
    BY <1>1, <1>2, <1>3
  <1>4. ASSUME NEW k \in Jobs, BeginGrade(k)
        PROVE  (HasFinal(applied'[j]) => ~claim'[sub(j)]) /\ InOrder(applied'[j])
    <2>1. applied' = applied /\ claim' = [claim EXCEPT ![sub(k)] = TRUE] /\ main'[k] # "idle" /\ main[k] = "idle"
      BY <1>1, <1>4 DEF BeginGrade, TypeInv
    <2>2. CASE k = j
      <3>1. applied[j] = <<>>
        BY <1>1, <2>1, <2>2 DEF JobInv, PhasesOK, OrderOK, Before
      <3> QED BY <1>2, <2>1, <3>1, Empty
    <2>3. CASE k # j
      <3>1. sub(k) # sub(j)
        BY <2>1, <2>3 DEF Alone, sub
      <3> QED BY <1>1, <1>2, <2>1, <3>1 DEF TypeInv
    <2> QED BY <2>2, <2>3
  <1>5. ASSUME NEW k \in Jobs, GradeCallback(k)
        PROVE  (HasFinal(applied'[j]) => ~claim'[sub(j)]) /\ InOrder(applied'[j])
    <2> DEFINE r == Head(wire[k])
    <2>1. /\ claim[sub(k)] /\ wire[k] # <<>> /\ applied' = [applied EXCEPT ![k] = Append(@, r)]
          /\ IF r \in Final THEN claim' = [claim EXCEPT ![sub(k)] = FALSE] ELSE claim' = claim
      BY <1>5 DEF GradeCallback
    <2>2. \A s \in Subs : claim'[s] => claim[s]
      BY <1>1, <2>1 DEF TypeInv
    <2>3. CASE k # j
      <3>1. applied'[j] = applied[j]
        BY <1>1, <2>1, <2>3 DEF TypeInv
      <3> QED BY <1>1, <1>2, <2>2, <3>1
    <2>4. CASE k = j
      <3>1. applied'[j] = Append(applied[j], r) /\ applied[j] \in Seq(Reports) /\ wire[j] \in Seq(Reports)
        BY <1>1, <2>1, <2>4 DEF TypeInv
      <3>2. ~HasFinal(applied[j])
        BY <1>2, <2>1, <2>4
      <3>3. r \in Reports /\ r \in Streamed /\ (r = "Running" => HasRunning(wire[j]))
        BY <1>1, <2>1, <2>4, <3>1, Taken DEF JobInv, OrderOK
      <3>4. RunningFirst(applied[j]) /\ Within(applied[j], Streamed) /\ (r = "Running" => applied[j] = <<>>)
        BY <1>1, <3>3 DEF JobInv, OrderOK
      <3> HIDE DEF r
      <3>5. RunningFirst(Append(applied[j], r)) /\ (HasFinal(Append(applied[j], r)) => r \in Final)
        BY <3>1, <3>2, <3>3, <3>4, Appended
      <3>6. InOrder(applied'[j])
        BY <3>1, <3>2, <3>3, <3>4, <3>5, InOrderAppended
      <3>7. r \in Final => ~claim'[sub(j)]
        BY <1>1, <2>1, <2>4 DEF TypeInv
      <3> QED BY <3>1, <3>5, <3>6, <3>7
    <2> QED BY <2>3, <2>4
  <1> QED BY <1>1, <1>3, <1>4, <1>5, HubWrites

-----------------------------------------------------------------------------
(* Theorems *)

LEMMA InvInit == Init => Inv
  <1> SUFFICES ASSUME Init PROVE Inv
    OBVIOUS
  <1>1. TypeInv
    BY Empty DEF Init, TypeInv, MainPcs, DockerPcs, MetaPcs, ReporterPcs, Handlers
  <1>2. ASSUME NEW j \in Jobs PROVE JobInv(j)
    <2>1. PhasesOK(j) /\ StreamOK(j)
      BY Empty DEF Init, PhasesOK, StreamOK, Before
    <2>2. OrderOK(j) /\ Tracked(j)
      BY Empty DEF Init, OrderOK, Tracked, Before
    <2> QED BY <2>1, <2>2 DEF JobInv
  <1>3. ASSUME NEW j \in Jobs PROVE ClaimOK(j) /\ InOrder(applied[j])
    <2>1. applied[j] = <<>>
      BY DEF Init
    <2>2. InOrder(<<>>)
      BY DEF InOrder
    <2> QED BY <2>1, <2>2, Empty DEF ClaimOK
  <1> QED BY <1>1, <1>2, <1>3 DEF Inv

LEMMA InvStep == Inv /\ [Next]_vars => Inv'
  <1> SUFFICES ASSUME Inv, [Next]_vars PROVE Inv'
    OBVIOUS
  <1>0. TypeInv /\ \A j \in Jobs : JobInv(j)
    BY DEF Inv
  <1>1. TypeInv' /\ \A j \in Jobs : JobInv(j)'
    <2>1. ASSUME NEW j \in Jobs, Step(j) PROVE TypeInv' /\ \A k \in Jobs : JobInv(k)'
      BY <1>0, <2>1, StillKeeps DEF Step
    <2>2. ASSUME TypeInv', \A k \in Jobs : Still(k) PROVE TypeInv' /\ \A k \in Jobs : JobInv(k)'
      BY <1>0, <2>2, StillKeeps
    <2>3. CASE UNCHANGED vars
      <3>1. TypeInv'
        BY <1>0, <2>3 DEF TypeInv, vars, jobVars, dockerVars, sendVars, streamVars, hubVars, ctxVars
      <3>2. \A k \in Jobs : Still(k)
        BY <2>3 DEF Still, vars, jobVars, dockerVars, sendVars, streamVars, hubVars, ctxVars
      <3> QED BY <2>2, <3>1, <3>2
    <2>4. CASE GraderOffline \/ Reregister \/ \E s \in Subs : CancelJob(s)
      BY <1>0, <2>2, <2>4, WorkerSteps
    <2>5. ASSUME NEW j \in Jobs,
                 \/ BeginGrade(j) \/ MainNext(j) \/ DockerNext(j) \/ ReporterNext(j)
                 \/ HandlerNext(j) \/ BreakStream(j)
          PROVE  TypeInv' /\ \A k \in Jobs : JobInv(k)'
      <3>1. Step(j)
        BY <1>0, <2>5, BeginStep, MainSteps, DockerSteps, ReporterSteps, HubSteps
      <3> QED BY <2>1, <3>1
    <2> QED BY <2>3, <2>4, <2>5 DEF Next
  <1>2. \A j \in Jobs : (ClaimOK(j) /\ (Alone(j) => InOrder(applied[j])))'
    BY ClaimStep
  <1> QED BY <1>1, <1>2 DEF Inv

\* The state of every job, its goroutines, streams and reports is as the
\* invariant says at every moment of every run of the grader process.
THEOREM JobsKeepTheirState == Spec => []Inv
  BY InvInit, InvStep, PTL DEF Spec

\* Every variable has its type, and every report that is buffered, unsent or
\* with the hub is one a job can make.
THEOREM TypesHold == Spec => []TypeOK
  <1>1. Inv => TypeOK
    <2> SUFFICES ASSUME Inv PROVE TypeOK
      OBVIOUS
    <2>1. ASSUME NEW j \in Jobs, NEW q \in {buffer[j], unsent[j], applied[j]}, NEW i \in DOMAIN q
          PROVE  q[i] \in Reports
      <3>1. q \in Seq(Reports)
        BY <2>1 DEF Inv, TypeInv
      <3> QED BY <3>1
    <2> QED BY <2>1 DEF Inv, TypeInv, TypeOK
  <1> QED BY <1>1, JobsKeepTheirState, PTL

\* A reporter that has ended has brought the last report of its job to the hub,
\* over however many sessions, unless the hub refused the stream or the report
\* was in flight on a stream that broke (submissionReporter, reportSession).
THEOREM ReportsArrive == Spec => []DeliveredUnlessBroken
  <1>1. Inv => DeliveredUnlessBroken
    <2> SUFFICES ASSUME Inv, NEW j \in Jobs, reporter[j] = "done", handler[j] # "denied", ~lost[j]
                 PROVE  buffer[j] = <<>> /\ unsent[j] = <<>> /\ bufferClosed[j] /\ Ended(applied[j])
      BY DEF DeliveredUnlessBroken
    <2>1. /\ handler[j] = "ok" /\ buffer[j] = <<>> /\ unsent[j] = <<>> /\ bufferClosed[j]
          /\ HasFinal(wire[j]) => HasFinal(applied[j])
      BY DEF Inv, JobInv, StreamOK
    <2>2. HasFinal(applied[j])
      BY <2>1, Empty DEF Inv, JobInv, Tracked, Somewhere
    <2>3. applied[j] \in Seq(Reports) /\ Within(applied[j], Streamed) /\ RunningFirst(applied[j])
      BY DEF Inv, TypeInv, JobInv, OrderOK
    <2> QED BY <2>1, <2>2, <2>3, StreamEnds
  <1> QED BY <1>1, JobsKeepTheirState, PTL

\* What the hub takes from a job is Running and then one last report, each at
\* most once, however often its sessions break and are resumed and a cancelled
\* run rewrites the report it has sent, for as long as no other job of the
\* submission was started (sendReports, GradeCallback, onSubmissionFinished).
THEOREM ReportsInOrder == Spec => []AppliedInOrder
  <1>1. Inv => AppliedInOrder
    <2> SUFFICES ASSUME Inv, NEW j \in Jobs, Alone(j)
                 PROVE  /\ Len(applied[j]) <= 2
                        /\ \A i, k \in DOMAIN applied[j] :
                             i < k => applied[j][i] = "Running" /\ applied[j][k] \in Final
      BY DEF AppliedInOrder, Alone
    <2>1. InOrder(applied[j]) /\ DOMAIN applied[j] = 1..Len(applied[j])
      BY DEF Inv, TypeInv
    <2> QED BY <2>1 DEF InOrder
  <1> QED BY <1>1, JobsKeepTheirState, PTL

\* A job whose buffer is open when gradeOneSubmission has returned is one whose
\* context was done before the Docker grader started; any other buffer is
\* closed or still has the goroutine that will close it.
THEOREM BuffersAreClosed == Spec => []OpenBufferHasWriter
  <1>1. Inv => OpenBufferHasWriter
    BY DEF Inv, JobInv, PhasesOK, OpenBufferHasWriter
  <1> QED BY <1>1, JobsKeepTheirState, PTL
=============================================================================
