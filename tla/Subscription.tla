---------------------------- MODULE Subscription ----------------------------
(***************************************************************************)
(* How the progress of one submission reaches the clients that watch it:   *)
(* the hub's subscription registry, ReportMailbox and SubscribeSubmission. *)
(*                                                                         *)
(* Three goroutines report: "rank", whoever changes the pending list       *)
(* (under queuedMu, so one at a time and not once the submission has been  *)
(* dispatched), "queued", the end of queueGradeRequest, and "callback",    *)
(* the GradeCallback stream.  The Queued report is written after the push, *)
(* so the reports of the grader may overtake it; overtaken records that    *)
(* they have.                                                              *)
(***************************************************************************)
EXTENDS Reports

CONSTANT Clients

VARIABLES
  brief,    \* the persisted brief report
  overtaken, \* the Queued report was written after one of the grader's
  rank,     \* the position in the pending list, 0 once dispatched
  subs,     \* submissionSubs: the mailboxes registered for the submission
  writer,   \* the reporting goroutines
  \* per mailbox: the channel of capacity 1, closed, the goroutine whose Publish
  \* holds the mutex between two steps, and the report it has merged
  ch, closed, mu, held,
  client,   \* how far the SubscribeSubmission of each client is
  status,   \* the status it has sent last, 0 before the first
  known     \* everything it has received from its mailbox, merged

boxVars == <<ch, closed, mu, held>>
vars == <<brief, overtaken, rank, subs, writer, boxVars, client, status, known>>

Writers == {"rank", "queued", "callback"}
\* "close" is closeAllSubmissionSubscribers, "publish" the loop of sendGradeReport.
Writer == [pc : {"idle", "send", "publish", "close", "done"}, report : GradeReport,
           todo : SUBSET Clients]

Terminal(b) == b = Final

Init ==
  /\ brief = 1 /\ overtaken = FALSE /\ rank = MaxRank
  /\ subs = {}
  /\ writer = [w \in Writers |-> [pc |-> "idle", report |-> NoReport, todo |-> {}]]
  /\ ch = [c \in Clients |-> NoReport]
  /\ closed = [c \in Clients |-> FALSE]
  /\ mu = [c \in Clients |-> "none"]
  /\ held = [c \in Clients |-> NoReport]
  /\ client = [c \in Clients |-> "idle"]
  /\ status = [c \in Clients |-> 0]
  /\ known = [c \in Clients |-> NoReport]

-----------------------------------------------------------------------------
(* What is reported.  The brief report is persisted before it is sent. *)

\* w goes to sendGradeReport with this report.
Report(w, report) ==
  writer' = [writer EXCEPT ![w].pc = "send", ![w].report = report]

\* Mutant: the ranks of all elements are decremented, dispatched or not.
RankChangedAnyway ==
  /\ writer["rank"].pc = "idle"
  /\ rank' = rank - 1
  /\ Report("rank", RankReport(rank'))
  /\ UNCHANGED <<brief, overtaken, subs, boxVars, client, status, known>>

\* onPendingRankChanged: an element before this one has left the pending list.
RankChanged ==
  /\ writer["rank"].pc = "idle"
  /\ rank > 1
  /\ rank' = rank - 1
  /\ Report("rank", RankReport(rank'))
  /\ UNCHANGED <<brief, overtaken, subs, boxVars, client, status, known>>

\* onSubmissionQueued.
Queued ==
  /\ writer["queued"].pc = "idle"
  /\ brief' = 1
  /\ overtaken' = (brief # 1)
  /\ Report("queued", BriefReport(1))
  /\ UNCHANGED <<rank, subs, boxVars, client, status, known>>

\* Mutant: the report is sent and not persisted.
CallbackUnpersisted ==
  /\ writer["callback"].pc = "idle"
  /\ writer["rank"].pc = "idle"
  /\ \E b \in 2..Final : Report("callback", BriefReport(b))
  /\ rank' = 0
  /\ UNCHANGED <<brief, overtaken, subs, boxVars, client, status, known>>

\* GradeCallback: the submission has been dispatched, and its grader reports.
Callback ==
  /\ writer["callback"].pc = "idle"
  /\ writer["rank"].pc = "idle"
  /\ \E b \in 2..Final : b > brief /\ brief' = b /\ Report("callback", BriefReport(b))
  /\ rank' = 0
  /\ UNCHANGED <<overtaken, subs, boxVars, client, status, known>>

-----------------------------------------------------------------------------
(* sendGradeReport and closeAllSubmissionSubscribers *)

\* The mailboxes are copied under subsMu and published to one by one after it.
SendGradeReport(w) ==
  /\ writer[w].pc = "send"
  /\ writer' = [writer EXCEPT ![w].pc = "publish", ![w].todo = subs]
  /\ UNCHANGED <<brief, overtaken, rank, subs, boxVars, client, status, known>>

\* All mailboxes served: a terminal report is followed by onSubmissionFinished,
\* which takes the subscribers out of the registry.
SendDone(w) ==
  /\ writer[w].pc = "publish"
  /\ writer[w].todo = {}
  /\ IF w = "callback" /\ Terminal(writer[w].report.brief)
     THEN /\ writer' = [writer EXCEPT ![w] = [pc |-> "close", report |-> NoReport, todo |-> subs]]
          /\ subs' = {}
     ELSE /\ writer' = [writer EXCEPT ![w] =
                          [pc |-> IF w = "queued" THEN "done" ELSE "idle",
                           report |-> NoReport, todo |-> {}]]
          /\ UNCHANGED subs
  /\ UNCHANGED <<brief, overtaken, rank, boxVars, client, status, known>>

-----------------------------------------------------------------------------
(* ReportMailbox *)

\* Publish holds mu from its first step to its last, and a goroutine is in one
\* mailbox at a time.  A closed mailbox takes nothing; an empty channel takes the
\* report; a full one has to be emptied first.
PublishTry(w, c) ==
  /\ writer[w].pc = "publish"
  /\ c \in writer[w].todo
  /\ mu[c] = "none" /\ \A d \in Clients : mu[d] # w
  /\ IF closed[c] \/ ch[c] = NoReport
     THEN /\ writer' = [writer EXCEPT ![w].todo = @ \ {c}]
          /\ ch' = [ch EXCEPT ![c] = IF closed[c] THEN @ ELSE writer[w].report]
          /\ UNCHANGED mu
     ELSE /\ mu' = [mu EXCEPT ![c] = w]
          /\ UNCHANGED <<ch, writer>>
  /\ UNCHANGED <<brief, overtaken, rank, subs, closed, held, client, status, known>>

\* Mutant: the stale report is thrown away, not merged.
PublishTakeDrops(w, c) ==
  /\ mu[c] = w
  /\ held[c] = NoReport
  /\ held' = [held EXCEPT ![c] = writer[w].report]
  /\ ch' = [ch EXCEPT ![c] = NoReport]
  /\ UNCHANGED <<brief, overtaken, rank, subs, writer, closed, mu, client, status, known>>

\* The stale report is taken out and merged, unless the subscriber was faster:
\* then the channel is empty and merging changes nothing.
PublishTake(w, c) ==
  /\ mu[c] = w
  /\ held[c] = NoReport
  /\ held' = [held EXCEPT ![c] = coalesceReports(ch[c], writer[w].report)]
  /\ ch' = [ch EXCEPT ![c] = NoReport]
  /\ UNCHANGED <<brief, overtaken, rank, subs, writer, closed, mu, client, status, known>>

\* The next iteration finds the channel empty.
PublishAgain(w, c) ==
  /\ mu[c] = w
  /\ held[c] # NoReport
  /\ ch' = [ch EXCEPT ![c] = held[c]]
  /\ held' = [held EXCEPT ![c] = NoReport]
  /\ mu' = [mu EXCEPT ![c] = "none"]
  /\ writer' = [writer EXCEPT ![w].todo = @ \ {c}]
  /\ UNCHANGED <<brief, overtaken, rank, subs, closed, client, status, known>>

\* Close of a mailbox; what is in its channel can still be received.
Close(c) ==
  /\ mu[c] = "none"
  /\ closed' = [closed EXCEPT ![c] = TRUE]

\* Mutant: the mailboxes leave the registry and are never closed.
CloseForgotten(c) ==
  /\ writer["callback"].pc = "close"
  /\ c \in writer["callback"].todo
  /\ writer' = [writer EXCEPT !["callback"].todo = @ \ {c}]
  /\ UNCHANGED <<brief, overtaken, rank, subs, boxVars, client, status, known>>

CloseSubscriber(c) ==
  /\ writer["callback"].pc = "close"
  /\ c \in writer["callback"].todo
  /\ Close(c)
  /\ writer' = [writer EXCEPT !["callback"].todo = @ \ {c}]
  /\ UNCHANGED <<brief, overtaken, rank, subs, ch, mu, held, client, status, known>>

CloseDone ==
  /\ writer["callback"].pc = "close"
  /\ writer["callback"].todo = {}
  /\ writer' = [writer EXCEPT !["callback"].pc = "done"]
  /\ UNCHANGED <<brief, overtaken, rank, subs, boxVars, client, status, known>>

-----------------------------------------------------------------------------
(* SubscribeSubmission *)

\* The mailbox is registered before the brief report is read.
Subscribe(c) ==
  /\ client[c] = "idle"
  /\ subs' = subs \cup {c}
  /\ client' = [client EXCEPT ![c] = "read"]
  /\ UNCHANGED <<brief, overtaken, rank, writer, boxVars, status, known>>

\* The client is sent status b; a terminal one ends the call.
SendStatus(c, b) ==
  /\ status' = [status EXCEPT ![c] = b]
  /\ client' = [client EXCEPT ![c] = IF Terminal(b) THEN "leave" ELSE "loop"]

ReadBrief(c) ==
  /\ client[c] = "read"
  /\ SendStatus(c, brief)
  /\ UNCHANGED <<brief, overtaken, rank, subs, writer, boxVars, known>>

\* A report without a brief is sent as Queued.
Receive(c) ==
  /\ client[c] = "loop"
  /\ ch[c] # NoReport
  /\ ch' = [ch EXCEPT ![c] = NoReport]
  /\ known' = [known EXCEPT ![c] = coalesceReports(@, ch[c])]
  /\ SendStatus(c, IF ch[c].brief # 0 THEN ch[c].brief ELSE 1)
  /\ UNCHANGED <<brief, overtaken, rank, subs, writer, closed, mu, held>>

\* The channel is closed and empty: the persisted brief is the last message.
ReadFinal(c) ==
  /\ client[c] = "loop"
  /\ closed[c] /\ ch[c] = NoReport
  /\ status' = [status EXCEPT ![c] = brief]
  /\ client' = [client EXCEPT ![c] = "leave"]
  /\ UNCHANGED <<brief, overtaken, rank, subs, writer, boxVars, known>>

\* The client goes away: its context is done, or sending to it fails.
Disconnect(c) ==
  /\ client[c] = "loop"
  /\ client' = [client EXCEPT ![c] = "gone"]
  /\ UNCHANGED <<brief, overtaken, rank, subs, writer, boxVars, status, known>>

\* Unsubscribe: out of the registry, and then the mailbox is closed.
Unsubscribe(c) ==
  /\ client[c] \in {"leave", "gone"}
  /\ subs' = subs \ {c}
  /\ client' = [client EXCEPT ![c] = "close"]
  /\ UNCHANGED <<brief, overtaken, rank, writer, boxVars, status, known>>

UnsubscribeClose(c) ==
  /\ client[c] = "close"
  /\ Close(c)
  /\ client' = [client EXCEPT ![c] = "done"]
  /\ UNCHANGED <<brief, overtaken, rank, subs, writer, ch, mu, held, status, known>>

-----------------------------------------------------------------------------

WriterNext(w) ==
  \/ SendGradeReport(w) \/ SendDone(w)
  \/ \E c \in Clients : PublishTry(w, c) \/ PublishTake(w, c) \/ PublishAgain(w, c)

ClientNext(c) ==
  \/ ReadBrief(c) \/ Receive(c) \/ ReadFinal(c) \/ Unsubscribe(c) \/ UnsubscribeClose(c)

Next ==
  \/ RankChanged \/ Queued \/ Callback
  \/ \E w \in Writers : WriterNext(w)
  \/ \E c \in Clients : CloseSubscriber(c)
  \/ CloseDone
  \/ \E c \in Clients : ClientNext(c) \/ Subscribe(c) \/ Disconnect(c)

Spec == Init /\ [][Next]_vars

\* The goroutines do not all stop while one of them can run.  Each has finitely
\* many steps, so this much fairness brings every one of them to its end.
FairSpec ==
  /\ Spec
  /\ WF_vars(\/ \E w \in Writers : WriterNext(w)
             \/ CloseDone \/ \E c \in Clients : CloseSubscriber(c) \/ ClientNext(c))

-----------------------------------------------------------------------------
(* Properties *)

\* Every variable of the registry, the mailboxes and the clients has its type.
TypeOK ==
  /\ brief \in 1..Final
  /\ overtaken \in BOOLEAN
  /\ rank \in 0..MaxRank
  /\ subs \subseteq Clients
  /\ writer \in [Writers -> Writer]
  /\ ch \in [Clients -> GradeReport]
  /\ closed \in [Clients -> BOOLEAN]
  /\ mu \in [Clients -> Writers \cup {"none"}]
  /\ held \in [Clients -> GradeReport]
  /\ client \in [Clients -> {"idle", "read", "loop", "leave", "gone", "close", "done"}]
  /\ status \in [Clients -> 0..Final]
  /\ known \in [Clients -> GradeReport]

\* What has been published to c and not received: in the channel or in hands.
Pending(c) == IF held[c] = NoReport THEN ch[c] ELSE held[c]

Latest == INSTANCE LatestReport WITH
  latest <- [c \in Clients |-> coalesceReports(known[c], Pending(c))],
  open   <- {c \in Clients : ~closed[c]}

\* ReportMailbox implements a register of the latest report: "no field is lost" by
\* merging, and no older value overwrites a newer one, whoever wins the race for
\* the full channel.
HoldsLatest == Latest!Spec

\* "the client always observes the terminal state": a SubscribeSubmission that
\* returns by itself has sent a terminal status last, in every interleaving of
\* subscribing, reading, publishing and closing but the one in which the Queued
\* report was overtaken.
ClientSeesFinal ==
  \A c \in Clients : client[c] = "leave" => Terminal(status[c]) \/ overtaken

\* The stream of every client that is registered when the final report is on its
\* way ends, whether its mailbox was there in time to be published to or is only
\* closed by closeAllSubmissionSubscribers, and whatever it reads.
StreamEnds ==
  \A c \in Clients :
    c \in subs /\ writer["callback"].report = BriefReport(Final) ~> client[c] = "done"
=============================================================================
