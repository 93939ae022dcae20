---------------------------- MODULE ReportSession ----------------------------
(***************************************************************************)
(* submissionReporter of the worker and GradeCallback of the hub: the      *)
(* reports in a job's buffer travel over one callback stream after another *)
(* until the buffer is closed and drained or the hub refuses the stream.   *)
(* A Send that succeeds has only put the message in flight.  The hub's     *)
(* check of the claim and its writes, which other goroutines of the hub    *)
(* can separate, are one step here (GraderHub has them in full).           *)
(***************************************************************************)
EXTENDS WorkerState

notSession == <<main, bufferClosed, dockerVars, crashed, reregister, disturbed>>

ReporterGo(j, from, to) ==
  /\ reporter[j] = from
  /\ reporter' = [reporter EXCEPT ![j] = to]

\* reportSession opens a stream.
Dial(j) ==
  /\ ReporterGo(j, "dial", "open")
  /\ handler' = [handler EXCEPT ![j] = "open"]
  /\ wire' = [wire EXCEPT ![j] = <<>>]
  /\ UNCHANGED <<buffer, unsent, lost, hubVars, metadata, ctxVars, notSession>>

\* recordDockerMetadata: kept with the hub, not part of the stream.
SendMetadata(j) ==
  /\ reporter[j] = "open" /\ unsent[j] # <<>> /\ Head(unsent[j]) \in Metadata
  /\ metadata' = [metadata EXCEPT ![sub(j)] = j]
  /\ unsent' = [unsent EXCEPT ![j] = Tail(@)]
  /\ UNCHANGED <<buffer, reporter, streamVars, hubVars, ctxVars, notSession>>

\* rpCli.Send succeeds.  The hub reads it if its handler still runs; after that
\* the message goes nowhere.  With the last report the metadata is deleted.
SendReport(j) ==
  /\ reporter[j] = "open" /\ unsent[j] # <<>> /\ Head(unsent[j]) \notin Metadata
  /\ LET r == Head(unsent[j]) IN
       /\ wire' = [wire EXCEPT ![j] = IF handler[j] = "open" THEN Append(@, r) ELSE @]
       /\ lost' = [lost EXCEPT ![j] = @ \/ (handler[j] = "broken" /\ r \in Final)]
       /\ metadata' = [metadata EXCEPT ![sub(j)] = IF r \in Final THEN 0 ELSE @]
  /\ unsent' = [unsent EXCEPT ![j] = Tail(@)]
  /\ UNCHANGED <<buffer, reporter, handler, hubVars, ctxVars, notSession>>

\* shouldRetryCallback: a refused stream cancels what is registered for the
\* submission and ends the reporter, any other error means another session.
Retry(j) ==
  IF handler[j] = "denied"
  THEN /\ reporter' = [reporter EXCEPT ![j] = "done"]
       /\ ctxDone' = [k \in Jobs |-> ctxDone[k] \/ cancelChs[sub(j)] = k]
       /\ UNCHANGED cancelChs
  ELSE /\ reporter' = [reporter EXCEPT ![j] = "dial"]
       /\ UNCHANGED ctxVars

\* Mutant: a failed Send drops what was drained from the buffer.
SendFailsDrop(j) ==
  /\ reporter[j] = "open" /\ unsent[j] # <<>> /\ Head(unsent[j]) \notin Metadata
  /\ handler[j] \in {"ok", "denied", "broken"}
  /\ Retry(j)
  /\ unsent' = [unsent EXCEPT ![j] = <<>>]
  /\ UNCHANGED <<buffer, streamVars, hubVars, metadata, notSession>>

\* Send fails once the worker has noticed that the stream is over; the report
\* and those behind it are kept for the next session.
SendFails(j) ==
  /\ reporter[j] = "open" /\ unsent[j] # <<>> /\ Head(unsent[j]) \notin Metadata
  /\ handler[j] \in {"ok", "denied", "broken"}
  /\ Retry(j)
  /\ UNCHANGED <<buffer, unsent, streamVars, hubVars, metadata, notSession>>

\* waitAndDrain
Drain(j) ==
  /\ reporter[j] = "open" /\ unsent[j] = <<>> /\ buffer[j] # <<>>
  /\ unsent' = [unsent EXCEPT ![j] = buffer[j]]
  /\ buffer' = [buffer EXCEPT ![j] = <<>>]
  /\ UNCHANGED <<reporter, streamVars, hubVars, metadata, ctxVars, notSession>>

Drained(j) ==
  /\ ReporterGo(j, "open", "close")
  /\ unsent[j] = <<>> /\ buffer[j] = <<>> /\ bufferClosed[j]
  /\ UNCHANGED <<buffer, unsent, streamVars, hubVars, metadata, ctxVars, notSession>>

\* Nothing to send for reportKeepaliveInterval: an empty report probes the
\* stream.  The hub checks the claim for it too and otherwise ignores it, so
\* only a probe that is refused is a step.
Probe(j) ==
  /\ reporter[j] = "open" /\ unsent[j] = <<>> /\ buffer[j] = <<>> /\ ~bufferClosed[j]
  /\ handler[j] = "open" /\ wire[j] = <<>>
  /\ ~claim[sub(j)]
  /\ handler' = [handler EXCEPT ![j] = "denied"]
  /\ UNCHANGED <<buffer, sendVars, wire, lost, hubVars, metadata, ctxVars, notSession>>

ProbeFails(j) ==
  /\ reporter[j] = "open" /\ unsent[j] = <<>> /\ buffer[j] = <<>> /\ ~bufferClosed[j]
  /\ handler[j] \in {"ok", "denied", "broken"}
  /\ Retry(j)
  /\ UNCHANGED <<buffer, unsent, streamVars, hubVars, metadata, notSession>>

\* CloseAndRecv: the reporter is done when the hub has completed the stream.
CloseAndRecv(j) ==
  /\ reporter[j] = "close"
  /\ \/ handler[j] = "ok" /\ reporter' = [reporter EXCEPT ![j] = "done"] /\ UNCHANGED ctxVars
     \/ handler[j] \in {"denied", "broken"} /\ Retry(j)
  /\ UNCHANGED <<buffer, unsent, streamVars, hubVars, metadata, notSession>>

-----------------------------------------------------------------------------
(* The hub's side *)

\* GradeCallback reads the next report: it must come from the grader that holds
\* the claim.
GradeCallbackRefuses(j) ==
  /\ handler[j] = "open" /\ wire[j] # <<>>
  /\ ~claim[sub(j)]
  /\ handler' = [handler EXCEPT ![j] = "denied"]
  /\ wire' = [wire EXCEPT ![j] = <<>>]
  /\ UNCHANGED <<buffer, sendVars, lost, hubVars, metadata, ctxVars, notSession>>

\* Mutant: the report is written whoever holds the claim.
GradeCallbackTrusting(j) ==
  /\ handler[j] = "open" /\ wire[j] # <<>>
  /\ LET r == Head(wire[j]) IN
       /\ applied' = [applied EXCEPT ![j] = Append(@, r)]
       /\ IF r \in Final
          THEN /\ result' = [result EXCEPT ![sub(j)] = j]
               /\ claim' = [claim EXCEPT ![sub(j)] = FALSE]
               /\ handler' = [handler EXCEPT ![j] = "ok"]
          ELSE UNCHANGED <<result, claim, handler>>
  /\ wire' = [wire EXCEPT ![j] = Tail(@)]
  /\ UNCHANGED <<buffer, sendVars, lost, metadata, ctxVars, notSession>>

\* The last report is written, onSubmissionFinished releases the claim, and the
\* stream is completed.
GradeCallback(j) ==
  /\ handler[j] = "open" /\ wire[j] # <<>>
  /\ claim[sub(j)]
  /\ LET r == Head(wire[j]) IN
       /\ applied' = [applied EXCEPT ![j] = Append(@, r)]
       /\ IF r \in Final
          THEN /\ result' = [result EXCEPT ![sub(j)] = j]
               /\ claim' = [claim EXCEPT ![sub(j)] = FALSE]
               /\ handler' = [handler EXCEPT ![j] = "ok"]
          ELSE UNCHANGED <<result, claim, handler>>
  /\ wire' = [wire EXCEPT ![j] = Tail(@)]
  /\ UNCHANGED <<buffer, sendVars, lost, metadata, ctxVars, notSession>>

\* The worker has closed its side and everything has been read.
GradeCallbackEnds(j) ==
  /\ handler[j] = "open" /\ wire[j] = <<>> /\ reporter[j] = "close"
  /\ handler' = [handler EXCEPT ![j] = "ok"]
  /\ UNCHANGED <<buffer, sendVars, wire, lost, hubVars, metadata, ctxVars, notSession>>

\* The connection breaks: what is in flight, or the hub's answer, is lost.
BreakStream(j) ==
  /\ handler[j] \in {"open", "ok"} /\ reporter[j] \in {"open", "close"}
  /\ Disturb("break")
  /\ handler' = [handler EXCEPT ![j] = "broken"]
  /\ lost' = [lost EXCEPT ![j] = @ \/ (handler[j] = "open" /\ Ended(wire[j]))]
  /\ wire' = [wire EXCEPT ![j] = <<>>]
  /\ UNCHANGED <<buffer, sendVars, hubVars, metadata, ctxVars, main, bufferClosed,
                 dockerVars, crashed, reregister>>

ReporterNext(j) ==
  \/ Dial(j) \/ SendMetadata(j) \/ SendReport(j) \/ SendFails(j) \/ Drain(j)
  \/ Drained(j) \/ Probe(j) \/ ProbeFails(j) \/ CloseAndRecv(j)

HandlerNext(j) ==
  \/ GradeCallbackRefuses(j) \/ GradeCallback(j) \/ GradeCallbackEnds(j)
=============================================================================
