---------------------------- MODULE LatestReport ----------------------------
(***************************************************************************)
(* What a mailbox promises its subscriber: it holds the latest state of    *)
(* the submission, publishing changes that state and is never refused      *)
(* while the mailbox is open, and whatever the subscriber receives brings  *)
(* it up to date in every field.  Intermediate states may be skipped.      *)
(***************************************************************************)
EXTENDS Reports

CONSTANT Clients

VARIABLES
  latest,   \* everything published to a client, merged
  known,    \* everything the client has received, merged
  open      \* the clients whose mailbox is open

Init ==
  /\ latest = [c \in Clients |-> NoReport]
  /\ known  = [c \in Clients |-> NoReport]
  /\ open   = Clients

Publish(c, report) ==
  /\ c \in open
  /\ latest' = [latest EXCEPT ![c] = coalesceReports(@, report)]
  /\ UNCHANGED <<known, open>>

Deliver(c) ==
  /\ known' = [known EXCEPT ![c] = latest[c]]
  /\ UNCHANGED <<latest, open>>

Close(c) ==
  /\ open' = open \ {c}
  /\ UNCHANGED <<latest, known>>

Next ==
  \E c \in Clients :
    \/ \E report \in GradeReport : Publish(c, report)
    \/ Deliver(c) \/ Close(c)

Spec == Init /\ [][Next]_<<latest, known, open>>
=============================================================================
