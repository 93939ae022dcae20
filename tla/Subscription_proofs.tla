------------------------ MODULE Subscription_proofs ------------------------
(***************************************************************************)
(* Proofs about Subscription: its types, that the mailboxes implement      *)
(* LatestReport, and that a stream which ends by itself has ended with the *)
(* final status, for any number of clients, reports and ranks.             *)
(***************************************************************************)
EXTENDS Subscription, TLAPS

-----------------------------------------------------------------------------
(* Merging *)

LEMMA NoReportType == NoReport \in GradeReport
  BY ReportsAssumption DEF NoReport, GradeReport

LEMMA CoalesceType ==
  ASSUME NEW a \in GradeReport, NEW b \in GradeReport
  PROVE  coalesceReports(a, b) \in GradeReport
  BY DEF GradeReport, coalesceReports

\* An unset report changes nothing.
LEMMA CoalesceUnset ==
  ASSUME NEW a \in GradeReport
  PROVE  coalesceReports(a, NoReport) = a /\ coalesceReports(NoReport, a) = a
  BY ReportsAssumption DEF GradeReport, coalesceReports, NoReport

\* Merging into what is pending is merging into what is known and pending.
LEMMA CoalesceAssociative ==
  ASSUME NEW a \in GradeReport, NEW b \in GradeReport, NEW c \in GradeReport
  PROVE  coalesceReports(a, coalesceReports(b, c)) = coalesceReports(coalesceReports(a, b), c)
  BY DEF GradeReport, coalesceReports

-----------------------------------------------------------------------------
(* Types *)

LEMMA InitTypes == Init => TypeOK
<1> SUFFICES ASSUME Init PROVE TypeOK
  OBVIOUS
<1>1. brief \in 1..Final /\ rank \in 0..MaxRank /\ 0 \in 0..Final
  BY ReportsAssumption DEF Init
<1>2. writer \in [Writers -> Writer]
  BY NoReportType DEF Init, Writer
<1> QED
  BY <1>1, <1>2, NoReportType DEF Init, TypeOK

\* Whoever sends a well-formed report keeps the types of the writers.
LEMMA ReportType ==
  ASSUME writer \in [Writers -> Writer], NEW w \in Writers, NEW r \in GradeReport, Report(w, r)
  PROVE  writer' \in [Writers -> Writer]
  BY DEF Report, Writer

LEMMA WriterTypes ==
  ASSUME TypeOK, RankChanged \/ Queued \/ Callback
  PROVE  TypeOK'
<1>1. CASE RankChanged
  <2>1. rank' \in 0..MaxRank /\ RankReport(rank') \in GradeReport
    BY <1>1, ReportsAssumption DEF RankChanged, TypeOK, RankReport, GradeReport
  <2>2. writer' \in [Writers -> Writer]
    BY <1>1, <2>1, ReportType DEF RankChanged, TypeOK, Writers
  <2> QED
    BY <1>1, <2>1, <2>2 DEF RankChanged, TypeOK, boxVars
<1>2. CASE Queued
  <2>1. BriefReport(1) \in GradeReport /\ 1 \in 1..Final
    BY ReportsAssumption DEF BriefReport, GradeReport
  <2>2. writer' \in [Writers -> Writer]
    BY <1>2, <2>1, ReportType DEF Queued, TypeOK, Writers
  <2> QED
    BY <1>2, <2>1, <2>2 DEF Queued, TypeOK, boxVars
<1>3. CASE Callback
  <2>1. PICK b \in 2..Final : brief' = b /\ Report("callback", BriefReport(b))
    BY <1>3 DEF Callback
  <2>2. BriefReport(b) \in GradeReport /\ b \in 1..Final
    BY ReportsAssumption DEF BriefReport, GradeReport
  <2>3. writer' \in [Writers -> Writer]
    BY <2>1, <2>2, ReportType DEF TypeOK, Writers
  <2> QED
    BY <1>3, <2>1, <2>2, <2>3, ReportsAssumption DEF Callback, TypeOK, boxVars
<1> QED
  BY <1>1, <1>2, <1>3

LEMMA SendTypes ==
  ASSUME TypeOK, NEW w \in Writers, SendGradeReport(w) \/ SendDone(w) \/ CloseDone
  PROVE  TypeOK'
<1>1. CASE SendGradeReport(w)
  BY <1>1 DEF SendGradeReport, TypeOK, Writer, boxVars
<1>2. CASE SendDone(w)
  BY <1>2, NoReportType DEF SendDone, TypeOK, Writer, boxVars
<1>3. CASE CloseDone
  BY <1>3 DEF CloseDone, TypeOK, Writer, Writers, boxVars
<1> QED
  BY <1>1, <1>2, <1>3

LEMMA MailboxTypes ==
  ASSUME TypeOK, NEW w \in Writers, NEW c \in Clients,
         \/ PublishTry(w, c) \/ PublishTake(w, c) \/ PublishAgain(w, c) \/ CloseSubscriber(c)
  PROVE  TypeOK'
<1>1. CASE PublishTry(w, c)
  <2>1. writer[w].report \in GradeReport /\ w \in Writers \cup {"none"}
    BY DEF TypeOK, Writer
  <2>2. writer' \in [Writers -> Writer]
    BY <1>1 DEF PublishTry, TypeOK, Writer
  <2>3. ch' \in [Clients -> GradeReport] /\ mu' \in [Clients -> Writers \cup {"none"}]
    BY <1>1, <2>1 DEF PublishTry, TypeOK
  <2> QED
    BY <1>1, <2>2, <2>3 DEF PublishTry, TypeOK
<1>2. CASE PublishTake(w, c)
  <2>1. coalesceReports(ch[c], writer[w].report) \in GradeReport
    BY CoalesceType DEF TypeOK, Writer
  <2> QED
    BY <1>2, <2>1, NoReportType DEF PublishTake, TypeOK
<1>3. CASE PublishAgain(w, c)
  BY <1>3, NoReportType DEF PublishAgain, TypeOK, Writer
<1>4. CASE CloseSubscriber(c)
  BY <1>4 DEF CloseSubscriber, Close, TypeOK, Writer, Writers
<1> QED
  BY <1>1, <1>2, <1>3, <1>4

LEMMA ClientTypes ==
  ASSUME TypeOK, NEW c \in Clients, ClientNext(c) \/ Subscribe(c) \/ Disconnect(c)
  PROVE  TypeOK'
<1>1. CASE ReadBrief(c)
  BY <1>1 DEF ReadBrief, SendStatus, TypeOK, boxVars
<1>2. CASE Receive(c)
  <2>1. coalesceReports(known[c], ch[c]) \in GradeReport
    BY CoalesceType DEF TypeOK
  <2>2. (IF ch[c].brief # 0 THEN ch[c].brief ELSE 1) \in 0..Final
    BY ReportsAssumption DEF TypeOK, GradeReport
  <2> QED
    BY <1>2, <2>1, <2>2, NoReportType DEF Receive, SendStatus, TypeOK
<1>3. CASE ReadFinal(c)
  BY <1>3 DEF ReadFinal, TypeOK, boxVars
<1>4. CASE Unsubscribe(c)
  BY <1>4 DEF Unsubscribe, TypeOK, boxVars
<1>5. CASE UnsubscribeClose(c)
  BY <1>5 DEF UnsubscribeClose, Close, TypeOK
<1>6. CASE Subscribe(c)
  BY <1>6 DEF Subscribe, TypeOK, boxVars
<1>7. CASE Disconnect(c)
  BY <1>7 DEF Disconnect, TypeOK, boxVars
<1> QED
  BY <1>1, <1>2, <1>3, <1>4, <1>5, <1>6, <1>7 DEF ClientNext

LEMMA NextTypes == TypeOK /\ [Next]_vars => TypeOK'
<1> SUFFICES ASSUME TypeOK, [Next]_vars PROVE TypeOK'
  OBVIOUS
<1>1. CASE RankChanged \/ Queued \/ Callback
  BY <1>1, WriterTypes
<1>2. CASE \E w \in Writers : WriterNext(w)
  BY <1>2, SendTypes, MailboxTypes DEF WriterNext
<1>3. CASE CloseDone \/ \E c \in Clients : CloseSubscriber(c)
  BY <1>3, SendTypes, MailboxTypes DEF Writers
<1>4. CASE \E c \in Clients : ClientNext(c) \/ Subscribe(c) \/ Disconnect(c)
  BY <1>4, ClientTypes
<1>5. CASE UNCHANGED vars
  BY <1>5 DEF vars, boxVars, TypeOK
<1> QED
  BY <1>1, <1>2, <1>3, <1>4, <1>5 DEF Next

\* Type correctness of the subscriptions, for every number of clients.
THEOREM SubscriptionTypes == Spec => []TypeOK
<1> QED
  BY InitTypes, NextTypes, PTL DEF Spec

-----------------------------------------------------------------------------
(* The refinement *)

\* A merged report is in hands only while its mailbox is locked and its channel
\* empty, and a locked mailbox is not closed.
BoxInv ==
  \A c \in Clients :
    /\ held[c] # NoReport => ch[c] = NoReport /\ mu[c] # "none"
    /\ mu[c] # "none" => ~closed[c]

MailboxInv == TypeOK /\ BoxInv

LEMMA InitMailboxInv == Init => MailboxInv
  BY InitTypes DEF Init, MailboxInv, BoxInv

\* What changes no mailbox and nothing a client knows maps to a stutter.
LEMMA BoxesUnchanged ==
  ASSUME BoxInv, UNCHANGED <<boxVars, known>>
  PROVE  /\ BoxInv'
         /\ UNCHANGED <<[c \in Clients |-> coalesceReports(known[c], Pending(c))], known,
                        {c \in Clients : ~closed[c]}>>
  BY DEF BoxInv, boxVars, Pending

\* The steps that do change a mailbox keep BoxInv.
LEMMA BoxStep ==
  ASSUME MailboxInv, NEW c \in Clients,
         \/ \E w \in Writers : PublishTry(w, c) \/ PublishTake(w, c) \/ PublishAgain(w, c)
         \/ CloseSubscriber(c) \/ UnsubscribeClose(c) \/ Receive(c)
  PROVE  BoxInv'
<1>1. ASSUME NEW w \in Writers, PublishTry(w, c) PROVE BoxInv'
  BY <1>1 DEF PublishTry, MailboxInv, BoxInv, TypeOK
<1>2. ASSUME NEW w \in Writers, PublishTake(w, c) PROVE BoxInv'
  BY <1>2 DEF PublishTake, MailboxInv, BoxInv, TypeOK, Writers
<1>3. ASSUME NEW w \in Writers, PublishAgain(w, c) PROVE BoxInv'
  BY <1>3 DEF PublishAgain, MailboxInv, BoxInv, TypeOK
<1>4. CASE CloseSubscriber(c)
  BY <1>4 DEF CloseSubscriber, Close, MailboxInv, BoxInv, TypeOK
<1>5. CASE UnsubscribeClose(c)
  BY <1>5 DEF UnsubscribeClose, Close, MailboxInv, BoxInv, TypeOK
<1>6. CASE Receive(c)
  BY <1>6 DEF Receive, MailboxInv, BoxInv, TypeOK
<1> QED
  BY <1>1, <1>2, <1>3, <1>4, <1>5, <1>6

\* Every other step of a behaviour changes no mailbox.
LEMMA StepKinds ==
  ASSUME [Next]_vars
  PROVE  \/ UNCHANGED <<boxVars, known>>
         \/ \E c \in Clients, w \in Writers :
              PublishTry(w, c) \/ PublishTake(w, c) \/ PublishAgain(w, c)
         \/ \E c \in Clients : CloseSubscriber(c) \/ UnsubscribeClose(c) \/ Receive(c)
  BY DEF Next, vars, RankChanged, Queued, Callback, WriterNext, SendGradeReport, SendDone,
         CloseDone, ClientNext, ReadBrief, ReadFinal, Unsubscribe, Subscribe, Disconnect

LEMMA NextMailboxInv == MailboxInv /\ [Next]_vars => MailboxInv'
  BY NextTypes, StepKinds, BoxStep, BoxesUnchanged DEF MailboxInv

-----------------------------------------------------------------------------

\* The refined value of one mailbox; latest is this as a function.
Value(c) == coalesceReports(known[c], Pending(c))

\* Publishing a report that finds the channel empty, or replaces what it holds.
LEMMA PublishRefines ==
  ASSUME MailboxInv, NEW c \in Clients, NEW w \in Writers,
         PublishTry(w, c) \/ PublishTake(w, c) \/ PublishAgain(w, c)
  PROVE  [Latest!Next]_<<[d \in Clients |-> coalesceReports(known[d], Pending(d))], known,
                         {d \in Clients : ~closed[d]}>>
<1> DEFINE report == writer[w].report
<1>1. /\ report \in GradeReport /\ ch[c] \in GradeReport /\ known[c] \in GradeReport
      /\ \A d \in Clients : Pending(d) \in GradeReport
  BY DEF MailboxInv, TypeOK, Writer, Pending
<1>2. ASSUME ~closed[c], closed' = closed, known' = known,
             Pending(c)' = coalesceReports(Pending(c), report),
             \A d \in Clients : d # c => Pending(d)' = Pending(d)
      PROVE  Latest!Publish(c, report)
  <2>1. Value(c)' = coalesceReports(Value(c), report)
    BY <1>1, <1>2, CoalesceAssociative DEF Value
  <2>2. \A d \in Clients : d # c => Value(d)' = Value(d)
    BY <1>2 DEF Value
  <2>3. Latest!coalesceReports(Value(c), report) = coalesceReports(Value(c), report)
    BY DEF Latest!coalesceReports, coalesceReports
  <2>4. [d \in Clients |-> Value(d)]' =
          [[d \in Clients |-> Value(d)] EXCEPT ![c] = coalesceReports(Value(c), report)]
    BY <2>1, <2>2
  <2>5. UNCHANGED <<known, {d \in Clients : ~closed[d]}>> /\ c \in {d \in Clients : ~closed[d]}
    BY <1>2
  <2> QED
    BY <2>3, <2>4, <2>5 DEF Latest!Publish, Value
<1>3. CASE PublishTry(w, c)
  <2>1. CASE closed[c] \/ ch[c] # NoReport
    BY <1>3, <2>1 DEF PublishTry, MailboxInv, TypeOK, Pending
  <2>2. CASE ~closed[c] /\ ch[c] = NoReport
    <3>1. held[c] = NoReport
      BY <1>3 DEF PublishTry, MailboxInv, BoxInv
    <3>2. Pending(c) = NoReport /\ Pending(c)' = report
      BY <1>3, <2>2, <3>1 DEF PublishTry, Pending, MailboxInv, TypeOK
    <3>3. Pending(c)' = coalesceReports(Pending(c), report)
      BY <1>1, <3>2, CoalesceUnset
    <3>4. \A d \in Clients : d # c => Pending(d)' = Pending(d)
      BY <1>3, <2>2 DEF PublishTry, Pending, MailboxInv, TypeOK
    <3>5. Latest!Publish(c, report)
      BY <1>2, <1>3, <2>2, <3>3, <3>4 DEF PublishTry
    <3> QED
      BY <1>1, <3>5 DEF Latest!Next, Latest!GradeReport, GradeReport
  <2> QED
    BY <2>1, <2>2
<1>4. CASE PublishTake(w, c)
  <2>1. Pending(c) = ch[c] /\ ~closed[c]
    BY <1>4 DEF PublishTake, Pending, MailboxInv, BoxInv, Writers
  <2>2. Pending(c)' = coalesceReports(Pending(c), report)
    BY <1>4, <2>1 DEF PublishTake, Pending, MailboxInv, TypeOK
  <2>3. \A d \in Clients : d # c => Pending(d)' = Pending(d)
    BY <1>4 DEF PublishTake, Pending, MailboxInv, TypeOK
  <2>4. Latest!Publish(c, report)
    BY <1>2, <1>4, <2>1, <2>2, <2>3 DEF PublishTake
  <2> QED
    BY <1>1, <2>4 DEF Latest!Next, Latest!GradeReport, GradeReport
<1>5. CASE PublishAgain(w, c)
  <2>1. \A d \in Clients : Pending(d)' = Pending(d)
    BY <1>5 DEF PublishAgain, Pending, MailboxInv, TypeOK
  <2> QED
    BY <1>5, <2>1 DEF PublishAgain
<1> QED
  BY <1>3, <1>4, <1>5

\* What a client receives brings it up to date.
LEMMA ReceiveRefines ==
  ASSUME MailboxInv, NEW c \in Clients, Receive(c)
  PROVE  Latest!Deliver(c)
<1>1. held[c] = NoReport /\ known[c] \in GradeReport /\ ch[c] \in GradeReport
  BY DEF Receive, MailboxInv, BoxInv, TypeOK
<1>2. Pending(c) = ch[c] /\ Pending(c)' = NoReport
  BY <1>1 DEF Receive, Pending, MailboxInv, TypeOK
<1>3. known' = [known EXCEPT ![c] = Value(c)]
  BY <1>2 DEF Receive, Value, MailboxInv, TypeOK
<1>4. Value(c)' = Value(c)
  <2>1. known'[c] = Value(c)
    BY <1>3 DEF MailboxInv, TypeOK
  <2>2. Value(c) \in GradeReport
    BY <1>1, <1>2, CoalesceType DEF Value
  <2> QED
    BY <1>2, <2>1, <2>2, CoalesceUnset DEF Value
<1>5. \A d \in Clients : d # c => Value(d)' = Value(d)
  BY DEF Receive, Value, Pending, MailboxInv, TypeOK
<1>6. closed' = closed
  BY DEF Receive
<1> QED
  BY <1>3, <1>4, <1>5, <1>6 DEF Latest!Deliver, Value

LEMMA CloseRefines ==
  ASSUME MailboxInv, NEW c \in Clients, CloseSubscriber(c) \/ UnsubscribeClose(c)
  PROVE  Latest!Close(c)
<1>1. closed' = [closed EXCEPT ![c] = TRUE] /\ UNCHANGED <<known, ch, held>>
  BY DEF CloseSubscriber, UnsubscribeClose, Close
<1>2. \A d \in Clients : Pending(d)' = Pending(d)
  BY <1>1 DEF Pending
<1>3. {d \in Clients : ~closed'[d]} = {d \in Clients : ~closed[d]} \ {c}
  BY <1>1 DEF MailboxInv, TypeOK
<1> QED
  BY <1>1, <1>2, <1>3 DEF Latest!Close

LEMMA InitRefines == Init => Latest!Init
<1> SUFFICES ASSUME Init PROVE Latest!Init
  OBVIOUS
<1>1. \A c \in Clients : coalesceReports(known[c], Pending(c)) = NoReport
  BY NoReportType, CoalesceUnset DEF Init, Pending
<1> QED
  BY <1>1 DEF Init, Latest!Init, Latest!NoReport, NoReport

LEMMA NextRefines ==
  ASSUME MailboxInv, [Next]_vars
  PROVE  [Latest!Next]_<<[c \in Clients |-> coalesceReports(known[c], Pending(c))], known,
                         {c \in Clients : ~closed[c]}>>
<1>1. CASE UNCHANGED <<boxVars, known>>
  BY <1>1, BoxesUnchanged DEF MailboxInv
<1>2. CASE \E c \in Clients, w \in Writers :
              PublishTry(w, c) \/ PublishTake(w, c) \/ PublishAgain(w, c)
  BY <1>2, PublishRefines
<1>3. CASE \E c \in Clients : CloseSubscriber(c) \/ UnsubscribeClose(c) \/ Receive(c)
  BY <1>3, CloseRefines, ReceiveRefines DEF Latest!Next
<1> QED
  BY <1>1, <1>2, <1>3, StepKinds

\* The mailboxes implement a register of the latest report: nothing that was
\* published to an open mailbox is lost or overtaken by an older value.
THEOREM MailboxImplementsLatest == Spec => HoldsLatest
<1> QED
  BY InitMailboxInv, NextMailboxInv, InitRefines, NextRefines, PTL
     DEF Spec, HoldsLatest, Latest!Spec

-----------------------------------------------------------------------------
(* The last status *)

\* Nothing but the final brief report closes a mailbox under a client that still
\* listens: the goroutine that closes has persisted it before it sends it, and no
\* report but an overtaken Queued replaces it.
Settled == brief = Final \/ overtaken

FinalInv ==
  /\ overtaken => writer["queued"].pc # "idle"
  /\ Terminal(writer["callback"].report.brief) => Settled
  /\ writer["callback"].pc = "close" => Settled
  /\ \A c \in Clients : closed[c] => Settled \/ client[c] = "done"

SeenInv == TypeOK /\ FinalInv /\ ClientSeesFinal

LEMMA InitSeenInv == Init => SeenInv
<1> SUFFICES ASSUME Init PROVE FinalInv /\ ClientSeesFinal
  BY InitTypes DEF SeenInv
<1>1. Final # 0
  BY ReportsAssumption
<1> QED
  BY <1>1 DEF Init, FinalInv, ClientSeesFinal, Terminal, NoReport, Writers

\* Whoever writes a report keeps what is settled: the grader's reports only go
\* up, and a Queued that replaces one of them is known to be overtaken.
LEMMA ReportersKeepFinal ==
  ASSUME SeenInv, RankChanged \/ Queued \/ Callback
  PROVE  FinalInv' /\ ClientSeesFinal'
<1>0. Final \in Nat /\ Final >= 2 /\ brief \in 1..Final
  BY ReportsAssumption DEF SeenInv, TypeOK
<1>1. CASE RankChanged
  <2>1. /\ UNCHANGED <<brief, overtaken, closed, client, status>>
        /\ writer' = [writer EXCEPT !["rank"].pc = "send", !["rank"].report = RankReport(rank')]
    BY <1>1 DEF RankChanged, Report, boxVars
  <2>2. writer'["callback"] = writer["callback"] /\ writer'["queued"] = writer["queued"]
    BY <2>1 DEF SeenInv, TypeOK, Writers
  <2> QED
    BY <2>1, <2>2 DEF SeenInv, FinalInv, Settled, ClientSeesFinal, Terminal
<1>2. CASE Queued
  <2>1. /\ brief' = 1 /\ overtaken' = (brief # 1) /\ UNCHANGED <<closed, client, status>>
        /\ writer' = [writer EXCEPT !["queued"].pc = "send", !["queued"].report = BriefReport(1)]
        /\ ~overtaken
    BY <1>2 DEF Queued, Report, boxVars, SeenInv, FinalInv
  <2>2. writer'["callback"] = writer["callback"] /\ writer'["queued"].pc = "send"
    BY <2>1 DEF SeenInv, TypeOK, Writers, Writer
  <2>3. Settled => overtaken'
    <3>1. Settled => brief # 1
      BY <1>0, <2>1 DEF Settled
    <3> QED
      BY <2>1, <3>1
  <2> QED
    BY <2>1, <2>2, <2>3 DEF SeenInv, FinalInv, Settled, ClientSeesFinal, Terminal
<1>3. CASE Callback
  <2>1. PICK b \in 2..Final :
          /\ b > brief /\ brief' = b
          /\ writer' = [writer EXCEPT !["callback"].pc = "send",
                                      !["callback"].report = BriefReport(b)]
    BY <1>3 DEF Callback, Report
  <2>2. UNCHANGED <<overtaken, closed, client, status>>
    BY <1>3 DEF Callback, boxVars
  <2>3. /\ writer'["queued"] = writer["queued"]
        /\ writer'["callback"].pc = "send" /\ writer'["callback"].report.brief = b
    BY <2>1 DEF SeenInv, TypeOK, Writers, Writer, BriefReport
  <2>4. Settled => Settled'
    BY <1>0, <2>1, <2>2 DEF Settled
  <2> QED
    BY <2>1, <2>2, <2>3, <2>4 DEF SeenInv, FinalInv, Settled, ClientSeesFinal, Terminal
<1> QED
  BY <1>1, <1>2, <1>3

\* A goroutine that sends changes its own progress only, and starts to close
\* when it has sent the final report.
LEMMA SendersKeepFinal ==
  ASSUME SeenInv, NEW w \in Writers,
         \/ SendGradeReport(w) \/ SendDone(w) \/ CloseDone
         \/ \E c \in Clients : PublishTry(w, c) \/ PublishTake(w, c) \/ PublishAgain(w, c)
  PROVE  FinalInv' /\ ClientSeesFinal'
<1>1. UNCHANGED <<brief, overtaken, closed, client, status>>
  BY DEF SendGradeReport, SendDone, CloseDone, PublishTry, PublishTake, PublishAgain, boxVars
<1>2. /\ writer'["queued"].pc = "idle" => writer["queued"].pc = "idle"
      /\ Terminal(writer'["callback"].report.brief) => Terminal(writer["callback"].report.brief)
      /\ writer'["callback"].pc = "close" =>
           writer["callback"].pc = "close" \/ Terminal(writer["callback"].report.brief)
  <2>0. /\ writer \in [Writers -> Writer] /\ "queued" \in Writers /\ "callback" \in Writers
        /\ ~Terminal(NoReport.brief)
    BY ReportsAssumption DEF SeenInv, TypeOK, Writers, Terminal, NoReport
  <2>1. CASE SendGradeReport(w)
    BY <2>0, <2>1 DEF SendGradeReport, Writer
  <2>2. CASE SendDone(w)
    <3>1. CASE w = "callback" /\ Terminal(writer[w].report.brief)
      BY <2>0, <2>2, <3>1 DEF SendDone, Writer
    <3>2. CASE ~(w = "callback" /\ Terminal(writer[w].report.brief))
      BY <2>0, <2>2, <3>2 DEF SendDone, Writer
    <3> QED
      BY <3>1, <3>2
  <2>3. CASE CloseDone
    BY <2>0, <2>3 DEF CloseDone, Writer
  <2>4. ASSUME NEW c \in Clients, PublishTry(w, c) \/ PublishTake(w, c) \/ PublishAgain(w, c)
        PROVE  \/ writer' = writer
               \/ writer' = [writer EXCEPT ![w].todo = @ \ {c}]
    BY <2>4 DEF PublishTry, PublishTake, PublishAgain
  <2>5. ASSUME NEW c \in Clients, writer' = [writer EXCEPT ![w].todo = @ \ {c}]
        PROVE  \A v \in Writers : /\ writer'[v].pc = writer[v].pc
                                  /\ writer'[v].report = writer[v].report
    BY <2>0, <2>5 DEF Writer
  <2> QED
    BY <2>0, <2>1, <2>2, <2>3, <2>4, <2>5
<1> QED
  BY <1>1, <1>2 DEF SeenInv, FinalInv, Settled, ClientSeesFinal

\* A mailbox is closed once the final report is sent, or by its own client.
LEMMA ClosersKeepFinal ==
  ASSUME SeenInv, NEW c \in Clients, CloseSubscriber(c)
  PROVE  FinalInv' /\ ClientSeesFinal'
<1>1. /\ UNCHANGED <<brief, overtaken, client, status>>
      /\ closed' = [closed EXCEPT ![c] = TRUE]
      /\ writer["callback"].pc = "close"
      /\ writer' = [writer EXCEPT !["callback"].todo = @ \ {c}]
  BY DEF CloseSubscriber, Close
<1>2. \A v \in Writers : writer'[v].pc = writer[v].pc /\ writer'[v].report = writer[v].report
  BY <1>1 DEF SeenInv, TypeOK, Writers, Writer
<1>3. Settled /\ Settled' = Settled
  BY <1>1 DEF SeenInv, FinalInv, Settled
<1> QED
  BY <1>1, <1>2, <1>3 DEF SeenInv, FinalInv, ClientSeesFinal, TypeOK, Writers

\* What a client does: it leaves with a terminal status, read from the brief
\* report or received, or because its mailbox was closed under it.
LEMMA ClientsKeepFinal ==
  ASSUME SeenInv, NEW c \in Clients, ClientNext(c) \/ Subscribe(c) \/ Disconnect(c)
  PROVE  FinalInv' /\ ClientSeesFinal'
<1>1. UNCHANGED <<brief, overtaken, writer>>
  BY DEF ClientNext, ReadBrief, Receive, ReadFinal, Unsubscribe, UnsubscribeClose, Subscribe,
         Disconnect, SendStatus, boxVars
<1>2. Settled' = Settled
  BY <1>1 DEF Settled
<1>3. ASSUME closed' = closed, client[c] # "done",
             \A d \in Clients \ {c} : client'[d] = client[d] /\ status'[d] = status[d],
             client'[c] = "leave" => Terminal(status'[c]) \/ overtaken
      PROVE  FinalInv' /\ ClientSeesFinal'
  BY <1>1, <1>2, <1>3 DEF SeenInv, FinalInv, ClientSeesFinal
<1>4. CASE ReadBrief(c)
  BY <1>3, <1>4 DEF ReadBrief, SendStatus, boxVars, SeenInv, TypeOK
<1>5. CASE Receive(c)
  BY <1>3, <1>5 DEF Receive, SendStatus, SeenInv, TypeOK
<1>6. CASE ReadFinal(c)
  <2>1. Settled
    BY <1>6 DEF ReadFinal, SeenInv, FinalInv
  <2>2. status'[c] = brief /\ (Terminal(brief) \/ overtaken)
    BY <1>6, <2>1 DEF ReadFinal, Settled, Terminal, SeenInv, TypeOK
  <2> QED
    BY <1>3, <1>6, <2>2 DEF ReadFinal, boxVars, SeenInv, TypeOK
<1>7. CASE Unsubscribe(c) \/ Subscribe(c) \/ Disconnect(c)
  BY <1>3, <1>7 DEF Unsubscribe, Subscribe, Disconnect, boxVars, SeenInv, TypeOK
<1>8. CASE UnsubscribeClose(c)
  BY <1>1, <1>2, <1>8 DEF UnsubscribeClose, Close, SeenInv, FinalInv, ClientSeesFinal, TypeOK
<1> QED
  BY <1>4, <1>5, <1>6, <1>7, <1>8 DEF ClientNext

LEMMA NextSeenInv == SeenInv /\ [Next]_vars => SeenInv'
<1> SUFFICES ASSUME SeenInv, [Next]_vars PROVE FinalInv' /\ ClientSeesFinal'
  BY NextTypes DEF SeenInv
<1>1. CASE RankChanged \/ Queued \/ Callback
  BY <1>1, ReportersKeepFinal
<1>2. CASE \E w \in Writers : WriterNext(w)
  BY <1>2, SendersKeepFinal DEF WriterNext
<1>3. CASE CloseDone
  BY <1>3, SendersKeepFinal DEF Writers
<1>4. CASE \E c \in Clients : CloseSubscriber(c)
  BY <1>4, ClosersKeepFinal
<1>5. CASE \E c \in Clients : ClientNext(c) \/ Subscribe(c) \/ Disconnect(c)
  BY <1>5, ClientsKeepFinal
<1>6. CASE UNCHANGED vars
  BY <1>6 DEF vars, boxVars, SeenInv, FinalInv, Settled, ClientSeesFinal
<1> QED
  BY <1>1, <1>2, <1>3, <1>4, <1>5, <1>6 DEF Next

\* A SubscribeSubmission that returns by itself has sent a terminal status last,
\* however subscribing, reading, publishing and closing interleave, unless the
\* Queued report was overtaken.
THEOREM LastStatusIsFinal == Spec => []ClientSeesFinal
<1>1. SeenInv => ClientSeesFinal
  BY DEF SeenInv
<1> QED
  BY InitSeenInv, NextSeenInv, <1>1, PTL DEF Spec
=============================================================================
