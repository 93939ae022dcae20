-------------------------- MODULE LogStream_proofs --------------------------
(***************************************************************************)
(* Proofs about LogStream: its types, with what they say of the channels   *)
(* that must not be closed twice, and that one goroutine serves a request, *)
(* for any number of requests.                                             *)
(***************************************************************************)
EXTENDS LogStream, TLAPS

-----------------------------------------------------------------------------
(* Types *)

\* TypeOK by the owner of the variables, and what it says of closing and telling.
JobTypes == job \in {"running", "created", "started", "finished"} /\ containerStarted \in BOOLEAN

HubTypes ==
  online \in BOOLEAN /\ outbox \in Seq(Messages) /\ logStreams \subseteq Requests

WebTypes ==
  /\ web \in [Requests -> {"idle", "found", "push", "range", "send", "done"}]
  /\ chClosed \in [Requests -> BOOLEAN]
  /\ ctxDone \in [Requests -> BOOLEAN]
  /\ cancelled \in [Requests -> BOOLEAN]

CallTypes ==
  /\ callback \in [Requests -> {"none", "recv", "send", "close", "done"}]
  /\ stream \in [Requests -> {"none", "sent", "closed"}]
  /\ wire \in [Requests -> 0..MaxWire]

StreamTypes ==
  /\ worker \in [Requests -> {"none", "begin", "register", "dial", "creating", "tick", "check",
                              "await", "logs", "chunk", "close", "done"}]
  /\ found \in [Requests -> {"none", "running", "created", "started", "finished"}]
  /\ registered \subseteq Requests
  /\ streamDone \in [Requests -> BOOLEAN]
  /\ waiter \in [Requests -> {"none", "waiting", "told", "closed"}]

HistoryTypes == missed \in [Requests -> BOOLEAN] /\ late \in [Requests -> BOOLEAN]

OpenWhileUsed == \A r \in Requests : chClosed[r] => callback[r] = "done"
ToldOnceStarted == \A r \in Requests : waiter[r] = "told" => containerStarted

Typed ==
  /\ JobTypes /\ HubTypes /\ WebTypes /\ CallTypes /\ StreamTypes /\ HistoryTypes
  /\ OpenWhileUsed /\ ToldOnceStarted

LEMMA TypedIsTypeOK == Typed => TypeOK
  BY DEF Typed, TypeOK, JobTypes, HubTypes, WebTypes, CallTypes, StreamTypes, HistoryTypes,
         OpenWhileUsed, ToldOnceStarted

\* What an action leaves alone keeps its types.
LEMMA Kept ==
  ASSUME Typed
  PROVE  /\ UNCHANGED jobVars => JobTypes'
         /\ UNCHANGED hubVars => HubTypes'
         /\ UNCHANGED webVars => WebTypes'
         /\ UNCHANGED callVars => CallTypes'
         /\ UNCHANGED workerVars => StreamTypes'
         /\ UNCHANGED <<missed, late>> => HistoryTypes'
         /\ UNCHANGED <<chClosed, callback>> => OpenWhileUsed'
         /\ UNCHANGED <<containerStarted, waiter>> => ToldOnceStarted'
<1> USE DEF Typed
<1>1. UNCHANGED jobVars => JobTypes'
  BY DEF JobTypes, jobVars
<1>2. UNCHANGED hubVars => HubTypes'
  BY DEF HubTypes, hubVars
<1>3. UNCHANGED webVars => WebTypes'
  BY DEF WebTypes, webVars
<1>4. UNCHANGED callVars => CallTypes'
  BY DEF CallTypes, callVars
<1>5. UNCHANGED workerVars => StreamTypes'
  BY DEF StreamTypes, workerVars
<1>6. UNCHANGED <<missed, late>> => HistoryTypes'
  BY DEF HistoryTypes
<1>7. UNCHANGED <<chClosed, callback>> => OpenWhileUsed'
  BY DEF OpenWhileUsed
<1>8. UNCHANGED <<containerStarted, waiter>> => ToldOnceStarted'
  BY DEF ToldOnceStarted, JobTypes
<1> QED
  BY <1>1, <1>2, <1>3, <1>4, <1>5, <1>6, <1>7, <1>8

LEMMA InitTyped == Init => Typed
<1> SUFFICES ASSUME Init PROVE Typed
  OBVIOUS
<1>1. JobTypes /\ HubTypes
  <2>1. <<>> \in Seq(Messages)
    OBVIOUS
  <2> QED
    BY <2>1 DEF Init, JobTypes, HubTypes
<1>2. WebTypes
  BY DEF Init, WebTypes
<1>3. CallTypes
  BY LogStreamAssumption DEF Init, CallTypes
<1>4. StreamTypes
  BY DEF Init, StreamTypes
<1>5. HistoryTypes
  BY DEF Init, HistoryTypes
<1>6. OpenWhileUsed /\ ToldOnceStarted
  BY DEF Init, OpenWhileUsed, ToldOnceStarted
<1> QED
  BY <1>1, <1>2, <1>3, <1>4, <1>5, <1>6 DEF Typed

\* A message for the worker keeps the outbox's type.
LEMMA OutboxType ==
  ASSUME outbox \in Seq(Messages), NEW r \in Requests, NEW kind \in {"log", "cancel"}
  PROVE  Append(outbox, <<kind, r>>) \in Seq(Messages)
<1>1. <<kind, r>> \in Messages
  BY DEF Messages
<1> QED
  BY <1>1

LEMMA ClientKeepsTypes ==
  ASSUME Typed, NEW r \in Requests, WebNext(r) \/ Leave(r) \/ SendCancel(r)
  PROVE  Typed'
<1>0. UNCHANGED <<jobVars, callVars, workerVars, missed, late, chClosed>>
  BY DEF WebNext, Find, Register, Push, SendMsg, RangeEnds, Leave, SendCancel
<1>1. JobTypes' /\ CallTypes' /\ StreamTypes' /\ HistoryTypes' /\ OpenWhileUsed' /\ ToldOnceStarted'
  BY <1>0, Kept DEF jobVars, callVars, workerVars
<1>2. WebTypes /\ HubTypes
  BY DEF Typed
<1>3. HubTypes'
  <2>1. CASE Register(r)
    BY <1>2, <2>1 DEF Register, HubTypes
  <2>2. CASE Push(r)
    <3>1. Append(outbox, <<"log", r>>) \in Seq(Messages)
      BY <1>2, OutboxType DEF HubTypes
    <3> QED
      BY <1>2, <2>2, <3>1 DEF Push, HubTypes
  <2>3. CASE SendCancel(r)
    <3>1. Append(outbox, <<"cancel", r>>) \in Seq(Messages)
      BY <1>2, OutboxType DEF HubTypes
    <3> QED
      BY <1>2, <2>3, <3>1 DEF SendCancel, HubTypes
  <2>4. CASE Find(r) \/ SendMsg(r) \/ RangeEnds(r) \/ Leave(r)
    BY <2>4, Kept DEF Find, SendMsg, RangeEnds, Leave
  <2> QED
    BY <2>1, <2>2, <2>3, <2>4 DEF WebNext
<1>4. WebTypes'
  <2>1. CASE Find(r) \/ Register(r) \/ Push(r) \/ SendMsg(r)
    BY <1>2, <2>1 DEF Find, Register, Push, SendMsg, Set, WebTypes
  <2>2. CASE RangeEnds(r)
    BY <1>2, <2>2 DEF RangeEnds, Set, WebTypes
  <2>3. CASE Leave(r) \/ SendCancel(r)
    BY <1>2, <2>3 DEF Leave, SendCancel, Set, WebTypes
  <2> QED
    BY <2>1, <2>2, <2>3 DEF WebNext
<1> QED
  BY <1>1, <1>3, <1>4 DEF Typed

LEMMA CallbackKeepsTypes ==
  ASSUME Typed, NEW r \in Requests, CallbackNext(r)
  PROVE  Typed'
<1>0. UNCHANGED <<jobVars, workerVars, missed, late, online, outbox, ctxDone, cancelled, stream>>
  BY DEF CallbackNext, Accept, Recv, HandOver, CloseStream, hubVars, webVars
<1>1. JobTypes' /\ StreamTypes' /\ HistoryTypes' /\ ToldOnceStarted'
  BY <1>0, Kept DEF jobVars, workerVars
<1>2. WebTypes /\ HubTypes /\ CallTypes /\ OpenWhileUsed
  BY DEF Typed
<1>3. CASE Accept(r)
  <2>1. CallTypes' /\ OpenWhileUsed'
    BY <1>2, <1>3 DEF Accept, Set, CallTypes, OpenWhileUsed, webVars
  <2> QED
    BY <1>1, <1>3, <2>1, Kept DEF Typed, Accept
<1>4. CASE Recv(r)
  <2>1. callback' \in [Requests -> {"none", "recv", "send", "close", "done"}]
    BY <1>2, <1>4 DEF Recv, Set, CallTypes
  <2>2. wire' \in [Requests -> 0..MaxWire]
    BY <1>2, <1>4, LogStreamAssumption DEF Recv, Set, CallTypes
  <2>3. OpenWhileUsed'
    BY <1>2, <1>4 DEF Recv, Set, CallTypes, OpenWhileUsed, webVars
  <2> QED
    BY <1>0, <1>1, <1>2, <1>4, <2>1, <2>2, <2>3, Kept DEF Typed, Recv, CallTypes
<1>5. CASE HandOver(r)
  <2>1. CallTypes' /\ OpenWhileUsed'
    BY <1>2, <1>5 DEF HandOver, Set, CallTypes, OpenWhileUsed
  <2>2. WebTypes'
    BY <1>2, <1>5 DEF HandOver, Set, WebTypes
  <2> QED
    BY <1>1, <1>5, <2>1, <2>2, Kept DEF Typed, HandOver
<1>6. CASE CloseStream(r)
  <2>1. CallTypes' /\ OpenWhileUsed'
    BY <1>2, <1>6 DEF CloseStream, Set, CallTypes, OpenWhileUsed, WebTypes
  <2>2. WebTypes' /\ HubTypes'
    BY <1>2, <1>6 DEF CloseStream, Set, WebTypes, HubTypes
  <2> QED
    BY <1>1, <2>1, <2>2 DEF Typed
<1> QED
  BY <1>3, <1>4, <1>5, <1>6 DEF CallbackNext

\* A chunk is put on the stream only where there is room for it, and the worker
\* goes where it was about to go.
LEMMA ChunkTypes ==
  ASSUME Typed, NEW r \in Requests, NEW from,
         NEW to \in {"tick", "await", "logs"}, SendChunk(r, from, to)
  PROVE  /\ wire' \in [Requests -> 0..MaxWire]
         /\ worker' \in [Requests -> {"none", "begin", "register", "dial", "creating", "tick", "check",
                              "await", "logs", "chunk", "close", "done"}]
<1>1. CallTypes /\ StreamTypes
  BY DEF Typed
<1>2. wire' \in [Requests -> 0..MaxWire]
  BY <1>1, LogStreamAssumption DEF SendChunk, Set, CallTypes
<1> QED
  BY <1>1, <1>2 DEF SendChunk, Set, StreamTypes

LEMMA StreamLogKeepsTypes ==
  ASSUME Typed, NEW r \in Requests, WorkerNext(r) \/ ReadLog(r)
  PROVE  Typed'
<1>0. UNCHANGED <<jobVars, hubVars, webVars, callback>>
  BY DEF WorkerNext, Begin, RegisterStream, Dial, SendCreating, Poll, CheckStarted, Await, SendLog,
         Close, ReadLog, callVars
<1>1. JobTypes' /\ HubTypes' /\ WebTypes' /\ OpenWhileUsed'
  BY <1>0, Kept DEF webVars
<1>2. JobTypes /\ CallTypes /\ StreamTypes /\ HistoryTypes /\ ToldOnceStarted
  BY DEF Typed
<1>3. CASE Begin(r) \/ RegisterStream(r)
  <2>1. StreamTypes'
    BY <1>2, <1>3 DEF Begin, RegisterStream, WorkerGo, Set, StreamTypes, JobTypes
  <2> QED
    BY <1>0, <1>1, <1>3, <2>1, Kept DEF Typed, Begin, RegisterStream, jobVars
<1>4. CASE Dial(r)
  <2>1. StreamTypes'
    BY <1>2, <1>4 DEF Dial, Set, StreamTypes
  <2>2. CallTypes' /\ HistoryTypes'
    BY <1>2, <1>4 DEF Dial, Set, CallTypes, HistoryTypes
  <2> QED
    BY <1>0, <1>1, <1>4, <2>1, <2>2, Kept DEF Typed, Dial, jobVars
<1>5. CASE SendCreating(r) \/ SendLog(r)
  <2>1. CallTypes' /\ StreamTypes'
    BY <1>0, <1>2, <1>5, ChunkTypes DEF SendCreating, SendLog, CallTypes, StreamTypes
  <2> QED
    BY <1>0, <1>1, <1>5, <2>1, Kept DEF Typed, SendCreating, SendLog, jobVars
<1>6. CASE Poll(r) \/ Await(r) \/ ReadLog(r)
  <2>1. StreamTypes'
    BY <1>2, <1>6 DEF Poll, Await, ReadLog, WorkerGo, Set, StreamTypes
  <2> QED
    BY <1>0, <1>1, <1>6, <2>1, Kept DEF Typed, Poll, Await, ReadLog, jobVars
<1>7. CASE CheckStarted(r)
  <2>1. CASE containerStarted /\ WorkerGo(r, "check", "logs") /\ UNCHANGED <<wire, waiter, late>>
    <3>1. StreamTypes'
      BY <1>2, <1>7, <2>1 DEF CheckStarted, WorkerGo, Set, StreamTypes
    <3> QED
      BY <1>0, <1>1, <1>7, <2>1, <3>1, Kept DEF Typed, CheckStarted, callVars, jobVars
  <2>2. CASE SendChunk(r, "check", "await")
    <3>1. /\ waiter' = waiter \/ waiter' = Set(waiter, r, "waiting")
          /\ late' = late \/ late' = Set(late, r, job = "finished")
      BY <1>7, <2>2 DEF CheckStarted, WorkerGo, SendChunk
    <3>2. CallTypes' /\ StreamTypes'
      BY <1>0, <1>2, <1>7, <2>2, <3>1, ChunkTypes DEF CheckStarted, Set, CallTypes, StreamTypes
    <3>3. HistoryTypes'
      BY <1>2, <1>7, <3>1 DEF CheckStarted, Set, HistoryTypes
    <3>4. ToldOnceStarted'
      BY <1>0, <1>2, <3>1 DEF jobVars, Set, StreamTypes, ToldOnceStarted
    <3> QED
      BY <1>1, <3>2, <3>3, <3>4 DEF Typed
  <2> QED
    BY <1>7, <2>1, <2>2 DEF CheckStarted
<1>8. CASE Close(r)
  <2>1. StreamTypes'
    BY <1>2, <1>8 DEF Close, WorkerGo, Set, StreamTypes
  <2>2. CallTypes' /\ HistoryTypes'
    <3>1. CASE callback[r] = "none"
      <4>1. PICK lost \in BOOLEAN : /\ stream' = Set(stream, r, IF lost THEN "closed" ELSE "sent")
                                   /\ missed' = Set(missed, r, missed[r] \/ lost)
        BY <1>8, <3>1 DEF Close
      <4> QED
        BY <1>0, <1>2, <1>8, <4>1 DEF Close, Set, CallTypes, HistoryTypes
    <3>2. CASE callback[r] # "none"
      BY <1>2, <1>8, <3>2 DEF Close, Set, CallTypes, HistoryTypes
    <3> QED
      BY <3>1, <3>2
  <2> QED
    BY <1>0, <1>1, <1>8, <2>1, <2>2, Kept DEF Typed, Close, jobVars
<1> QED
  BY <1>3, <1>4, <1>5, <1>6, <1>7, <1>8 DEF WorkerNext

LEMMA OthersKeepTypes ==
  ASSUME Typed, GraderOffline \/ Receive \/ JobGoes \/ JobEnds
  PROVE  Typed'
<1>0. UNCHANGED <<webVars, callVars>>
  BY DEF GraderOffline, Receive, JobGoes, JobEnds
<1>1. WebTypes' /\ CallTypes' /\ OpenWhileUsed'
  BY <1>0, Kept DEF webVars, callVars
<1>2. JobTypes /\ HubTypes /\ StreamTypes /\ HistoryTypes /\ ToldOnceStarted
  BY DEF Typed
<1>3. CASE GraderOffline
  <2>1. HubTypes'
    <3>1. <<>> \in Seq(Messages)
      OBVIOUS
    <3> QED
      BY <1>3, <3>1 DEF GraderOffline, HubTypes
  <2>2. HistoryTypes'
    BY <1>2, <1>3 DEF GraderOffline, HistoryTypes
  <2> QED
    BY <1>1, <1>3, <2>1, <2>2, Kept DEF Typed, GraderOffline, jobVars, workerVars
<1>4. CASE Receive
  <2>1. HubTypes'
    BY <1>2, <1>4 DEF Receive, HubTypes
  <2>2. StreamTypes'
    BY <1>2, <1>4 DEF Receive, Set, StreamTypes
  <2> QED
    BY <1>1, <1>4, <2>1, <2>2, Kept DEF Typed, Receive, jobVars
<1>5. CASE JobGoes
  <2>1. JobTypes' /\ ToldOnceStarted'
    BY <1>2, <1>5 DEF JobGoes, JobTypes, ToldOnceStarted
  <2>2. StreamTypes'
    BY <1>2, <1>5 DEF JobGoes, StreamTypes
  <2> QED
    BY <1>1, <1>5, <2>1, <2>2, Kept DEF Typed, JobGoes
<1>6. CASE JobEnds
  <2>1. JobTypes' /\ ToldOnceStarted'
    BY <1>2, <1>6 DEF JobEnds, JobTypes, ToldOnceStarted
  <2>2. StreamTypes'
    BY <1>2, <1>6 DEF JobEnds, StreamTypes
  <2> QED
    BY <1>1, <1>6, <2>1, <2>2, Kept DEF Typed, JobEnds
<1> QED
  BY <1>3, <1>4, <1>5, <1>6

LEMMA NextTyped == Typed /\ [Next]_vars => Typed'
<1> SUFFICES ASSUME Typed, [Next]_vars PROVE Typed'
  OBVIOUS
<1>1. CASE \E r \in Requests : WebNext(r) \/ Leave(r) \/ SendCancel(r)
  BY <1>1, ClientKeepsTypes
<1>2. CASE \E r \in Requests : CallbackNext(r) \/ WorkerNext(r) \/ ReadLog(r)
  BY <1>2, CallbackKeepsTypes, StreamLogKeepsTypes
<1>3. CASE GraderOffline \/ Receive \/ JobGoes \/ JobEnds
  BY <1>3, OthersKeepTypes
<1>4. CASE UNCHANGED vars
  BY <1>4, Kept DEF Typed, vars, jobVars, webVars, callVars, workerVars
<1> QED
  BY <1>1, <1>2, <1>3, <1>4 DEF Next

\* Type correctness of log streaming.  With its last two parts: the channel of a
\* request is open as long as StreamLogCallback can send to it or close it (Go
\* panics on a closed one), and only a container that has started is reported.
THEOREM LogTypes == Spec => []TypeOK
<1> QED
  BY InitTyped, NextTyped, TypedIsTypeOK, PTL DEF Spec

-----------------------------------------------------------------------------
(* One goroutine for a request *)

\* The request of a client is in the outbox once, or with the worker, never both,
\* and then the client's call has pushed it and will not do so again.
Sent == {"range", "send", "done"}

OnceInv ==
  /\ \A i \in 1..Len(outbox) :
       outbox[i][1] = "log" => worker[outbox[i][2]] = "none" /\ web[outbox[i][2]] \in Sent
  /\ \A i, j \in 1..Len(outbox) : outbox[i][1] = "log" /\ outbox[j] = outbox[i] => i = j
  /\ \A r \in Requests : worker[r] # "none" => web[r] \in Sent

LEMMA InitOnce == Init => OnceInv
  BY DEF Init, OnceInv

\* Steps that keep the outbox and do not bring a worker to its feet.
LEMMA OnceUnlessMoved ==
  ASSUME TypeOK, OnceInv, outbox' = outbox,
         \A r \in Requests : web[r] \in Sent => web'[r] \in Sent,
         \A r \in Requests : (worker[r] = "none") = (worker'[r] = "none")
  PROVE  OnceInv'
<1>1. \A i \in 1..Len(outbox) : outbox[i] \in Messages /\ outbox[i][2] \in Requests
  BY DEF TypeOK, Messages
<1> QED
  BY <1>1 DEF OnceInv

LEMMA AppendOnce ==
  ASSUME TypeOK, OnceInv, NEW r \in Requests, NEW kind \in {"log", "cancel"},
         kind = "log" => web[r] = "push" /\ web'[r] \in Sent,
         outbox' = Append(outbox, <<kind, r>>),
         worker' = worker, \A q \in Requests : web[q] \in Sent => web'[q] \in Sent
  PROVE  OnceInv'
<1>1. /\ Len(outbox') = Len(outbox) + 1 /\ Len(outbox) \in Nat
      /\ outbox'[Len(outbox) + 1] = <<kind, r>>
      /\ \A i \in 1..Len(outbox) : /\ outbox'[i] = outbox[i]
                                   /\ outbox[i] \in Messages /\ outbox[i][2] \in Requests
  BY DEF TypeOK, Messages
<1>2. kind = "log" => /\ worker[r] = "none"
                      /\ \A i \in 1..Len(outbox) : outbox[i] # <<kind, r>>
  BY <1>1 DEF OnceInv, Sent
<1>3. ASSUME NEW i \in 1..Len(outbox'), outbox'[i][1] = "log"
      PROVE  worker'[outbox'[i][2]] = "none" /\ web'[outbox'[i][2]] \in Sent
  <2>1. CASE i = Len(outbox) + 1
    BY <1>1, <1>2, <1>3, <2>1
  <2>2. CASE i \in 1..Len(outbox)
    BY <1>1, <1>3, <2>2 DEF OnceInv
  <2> QED
    BY <1>1, <2>1, <2>2
<1>4. ASSUME NEW i \in 1..Len(outbox'), NEW j \in 1..Len(outbox'),
             outbox'[i][1] = "log", outbox'[j] = outbox'[i]
      PROVE  i = j
  <2>1. CASE i \in 1..Len(outbox) /\ j \in 1..Len(outbox)
    BY <1>1, <1>4, <2>1 DEF OnceInv
  <2>2. CASE i = Len(outbox) + 1 \/ j = Len(outbox) + 1
    BY <1>1, <1>2, <1>4, <2>2
  <2> QED
    BY <1>1, <2>1, <2>2
<1>5. \A q \in Requests : worker'[q] # "none" => web'[q] \in Sent
  BY DEF OnceInv
<1> QED
  BY <1>3, <1>4, <1>5 DEF OnceInv

LEMMA ReceiveOnce ==
  ASSUME TypeOK, OnceInv, Receive
  PROVE  /\ OnceInv'
         /\ \A r \in Requests : worker'[r] = "begin" => worker[r] \in {"none", "begin"}
<1> DEFINE head == Head(outbox)
<1>1. /\ Len(outbox) \in Nat /\ Len(outbox) > 0 /\ head = outbox[1]
      /\ outbox' = Tail(outbox) /\ Len(outbox') = Len(outbox) - 1
      /\ \A i \in 1..Len(outbox') : outbox'[i] = outbox[i + 1] /\ i + 1 \in 1..Len(outbox)
      /\ \A i \in 1..Len(outbox) : outbox[i] \in Messages
  BY DEF Receive, TypeOK
<1>2. \A i \in 1..Len(outbox) : /\ outbox[i][2] \in Requests
                                /\ outbox[i] = <<outbox[i][1], outbox[i][2]>>
  BY <1>1 DEF Messages
<1>3. UNCHANGED web
  BY DEF Receive, webVars
<1>4. CASE head[1] = "log"
  <2>1. worker' = [worker EXCEPT ![head[2]] = "begin"] /\ worker[head[2]] = "none" /\ web[head[2]] \in Sent
    BY <1>1, <1>4 DEF Receive, Set, OnceInv
  <2>2. ASSUME NEW i \in 1..Len(outbox'), outbox'[i][1] = "log"
        PROVE  outbox'[i][2] # head[2]
    <3>1. i + 1 \in 1..Len(outbox) /\ outbox[i + 1][1] = "log" /\ i + 1 # 1 /\ 1 \in 1..Len(outbox)
      BY <1>1, <2>2
    <3>2. outbox[i + 1] # outbox[1]
      BY <1>1, <3>1 DEF OnceInv
    <3> QED
      BY <1>1, <1>2, <1>4, <3>1, <3>2
  <2>3. ASSUME NEW i \in 1..Len(outbox'), outbox'[i][1] = "log"
        PROVE  worker'[outbox'[i][2]] = "none" /\ web'[outbox'[i][2]] \in Sent
    <3>1. worker[outbox[i + 1][2]] = "none" /\ web[outbox[i + 1][2]] \in Sent
      BY <1>1, <2>3 DEF OnceInv
    <3> QED
      BY <1>1, <1>2, <1>3, <2>1, <2>2, <2>3, <3>1 DEF TypeOK, Sent
  <2>4. ASSUME NEW i \in 1..Len(outbox'), NEW j \in 1..Len(outbox'),
               outbox'[i][1] = "log", outbox'[j] = outbox'[i]
        PROVE  i = j
    BY <1>1, <2>4 DEF OnceInv
  <2>5. \A q \in Requests : worker'[q] # "none" => web'[q] \in Sent
    BY <1>3, <2>1 DEF OnceInv, Sent, TypeOK
  <2> QED
    BY <2>1, <2>3, <2>4, <2>5 DEF OnceInv, TypeOK
<1>5. CASE head[1] # "log"
  <2>1. worker' = worker
    BY <1>5 DEF Receive
  <2>2. ASSUME NEW i \in 1..Len(outbox'), outbox'[i][1] = "log"
        PROVE  worker'[outbox'[i][2]] = "none" /\ web'[outbox'[i][2]] \in Sent
    BY <1>1, <1>3, <2>1, <2>2 DEF OnceInv, Sent
  <2>3. ASSUME NEW i \in 1..Len(outbox'), NEW j \in 1..Len(outbox'),
               outbox'[i][1] = "log", outbox'[j] = outbox'[i]
        PROVE  i = j
    BY <1>1, <2>3 DEF OnceInv
  <2> QED
    BY <1>3, <2>1, <2>2, <2>3 DEF OnceInv, Sent
<1> QED
  BY <1>4, <1>5

\* The worker of a request comes out of "none" by receiving it, and never returns.
ServedOnce == \A r \in Requests : worker'[r] = "begin" => worker[r] \in {"none", "begin"}

LEMMA ClientKeepsOnce ==
  ASSUME TypeOK, OnceInv, NEW r \in Requests, WebNext(r) \/ Leave(r) \/ SendCancel(r)
  PROVE  OnceInv' /\ worker' = worker
<1>0. worker' = worker
  BY DEF WebNext, Find, Register, Push, SendMsg, RangeEnds, Leave, SendCancel, workerVars
<1>1. \A q \in Requests : web[q] \in Sent => web'[q] \in Sent
  BY DEF WebNext, Find, Register, Push, SendMsg, RangeEnds, Leave, SendCancel, Set, TypeOK, Sent
<1>2. CASE outbox' = outbox
  BY <1>0, <1>1, <1>2, OnceUnlessMoved
<1>3. CASE Push(r) /\ outbox' # outbox
  <2>1. web[r] = "push" /\ web'[r] \in Sent /\ outbox' = Append(outbox, <<"log", r>>)
    BY <1>3 DEF Push, Set, TypeOK, Sent
  <2> QED
    BY <1>0, <1>1, <2>1, AppendOnce
<1>4. CASE SendCancel(r) /\ outbox' # outbox
  <2>1. outbox' = Append(outbox, <<"cancel", r>>)
    BY <1>4 DEF SendCancel
  <2> QED
    BY <1>0, <1>1, <2>1, AppendOnce
<1>5. Find(r) \/ Register(r) \/ SendMsg(r) \/ RangeEnds(r) \/ Leave(r) => outbox' = outbox
  BY DEF Find, Register, SendMsg, RangeEnds, Leave, hubVars
<1> QED
  BY <1>0, <1>2, <1>3, <1>4, <1>5 DEF WebNext

LEMMA CallbackKeepsOnce ==
  ASSUME TypeOK, OnceInv, NEW r \in Requests, CallbackNext(r)
  PROVE  OnceInv' /\ worker' = worker
<1>1. worker' = worker /\ outbox' = outbox
  BY DEF CallbackNext, Accept, Recv, HandOver, CloseStream, hubVars, workerVars
<1>2. \A q \in Requests : web[q] \in Sent => web'[q] \in Sent
  BY DEF CallbackNext, Accept, Recv, HandOver, CloseStream, Set, TypeOK, Sent, webVars
<1> QED
  BY <1>1, <1>2, OnceUnlessMoved

\* streamLog goes on from where it is, and not back to its beginning.
LEMMA StreamLogKeepsOnce ==
  ASSUME TypeOK, OnceInv, NEW r \in Requests, WorkerNext(r) \/ ReadLog(r)
  PROVE  OnceInv' /\ ServedOnce
<1>1. web' = web /\ outbox' = outbox
  BY DEF WorkerNext, Begin, RegisterStream, Dial, SendCreating, Poll, CheckStarted, Await, SendLog,
         Close, ReadLog, hubVars, webVars
<1>2. /\ worker[r] # "none" /\ worker'[r] \notin {"none", "begin"}
      /\ \A q \in Requests \ {r} : worker'[q] = worker[q]
  <2>0. worker \in [Requests -> {"none", "begin", "register", "dial", "creating", "tick", "check",
                                "await", "logs", "chunk", "close", "done"}]
    BY DEF TypeOK
  <2>1. CASE Begin(r) \/ RegisterStream(r) \/ Await(r)
    BY <2>0, <2>1 DEF Begin, RegisterStream, Await, WorkerGo, Set
  <2>2. CASE ReadLog(r) \/ Close(r)
    BY <2>0, <2>2 DEF ReadLog, Close, WorkerGo, Set
  <2>3. CASE Dial(r)
    <3>1. PICK to \in {"done", "close", "creating", "check"} : worker' = Set(worker, r, to)
      BY <2>3 DEF Dial
    <3> QED
      BY <2>0, <2>3, <3>1 DEF Dial, Set
  <2>4. CASE Poll(r)
    BY <2>0, <2>4 DEF Poll, Set
  <2>5. CASE SendCreating(r) \/ SendLog(r)
    BY <2>0, <2>5 DEF SendCreating, SendLog, SendChunk, Set
  <2>6. CASE CheckStarted(r)
    BY <2>0, <2>6 DEF CheckStarted, SendChunk, WorkerGo, Set
  <2> QED
    BY <2>1, <2>2, <2>3, <2>4, <2>5, <2>6 DEF WorkerNext
<1>3. /\ \A q \in Requests : (worker[q] = "none") = (worker'[q] = "none")
      /\ \A q \in Requests : worker'[q] = "begin" => worker[q] = "begin"
  BY <1>2
<1>4. \A q \in Requests : web[q] \in Sent => web'[q] \in Sent
  BY <1>1
<1>5. OnceInv'
  BY <1>1, <1>3, <1>4, OnceUnlessMoved
<1> QED
  BY <1>3, <1>5 DEF ServedOnce

LEMMA OthersKeepOnce ==
  ASSUME TypeOK, OnceInv, GraderOffline \/ JobGoes \/ JobEnds
  PROVE  OnceInv' /\ worker' = worker
<1>1. UNCHANGED <<worker, web>>
  BY DEF GraderOffline, JobGoes, JobEnds, workerVars, webVars
<1>2. CASE GraderOffline
  <2>1. outbox' = <<>>
    BY <1>2 DEF GraderOffline
  <2> QED
    BY <1>1, <2>1 DEF OnceInv
<1>3. CASE JobGoes \/ JobEnds
  <2>1. outbox' = outbox
    BY <1>3 DEF JobGoes, JobEnds, hubVars
  <2> QED
    BY <1>1, <2>1, OnceUnlessMoved
<1> QED
  BY <1>2, <1>3

LEMMA NextOnce ==
  ASSUME TypeOK, OnceInv, [Next]_vars
  PROVE  OnceInv' /\ ServedOnce
<1>1. CASE \E r \in Requests : WebNext(r) \/ Leave(r) \/ SendCancel(r) \/ CallbackNext(r)
  BY <1>1, ClientKeepsOnce, CallbackKeepsOnce DEF ServedOnce
<1>2. CASE \E r \in Requests : WorkerNext(r) \/ ReadLog(r)
  BY <1>2, StreamLogKeepsOnce
<1>3. CASE GraderOffline \/ JobGoes \/ JobEnds
  BY <1>3, OthersKeepOnce DEF ServedOnce
<1>4. CASE Receive
  BY <1>4, ReceiveOnce DEF ServedOnce
<1>5. CASE UNCHANGED vars
  <2>1. UNCHANGED <<worker, web, outbox>>
    BY <1>5 DEF vars, hubVars, webVars, workerVars
  <2> QED
    BY <2>1, OnceUnlessMoved DEF ServedOnce
<1> QED
  BY <1>1, <1>2, <1>3, <1>4, <1>5 DEF Next

\* A request is served by one goroutine: no message brings streamLog of a request
\* to its beginning while it runs or after it has ended, so that its entry among
\* the registered streams is never taken by a second one.
THEOREM RequestsServedOnce == Spec => [][ServedOnce]_vars
<1>1. TypeOK /\ OnceInv /\ [Next]_vars => OnceInv' /\ [ServedOnce]_vars
  BY NextOnce
<1>2. Spec => Init /\ [][Next]_vars
  BY DEF Spec
<1> QED
  BY <1>1, <1>2, InitOnce, LogTypes, PTL
=============================================================================
