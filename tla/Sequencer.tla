------------------------------ MODULE Sequencer ------------------------------
(***************************************************************************)
(* KVSequencer: ids are handed out from a batch whose end was written to   *)
(* the database before the batch is used.  A restart goes on at that end,  *)
(* so what was left of the batch is skipped.                               *)
(***************************************************************************)
EXTENDS Naturals

CONSTANT BatchSize

ASSUME BatchAssumption == BatchSize \in Nat \ {0}

VARIABLES
  next,        \* the next id
  limit,       \* the end of the current batch
  persisted    \* the value of the sequencer's key

seqVars == <<next, limit, persisted>>

\* The key is absent the first time: ids start at 1.
NewKVSequencerFirst ==
  /\ next = 1
  /\ limit = 1 + BatchSize
  /\ persisted = 1 + BatchSize

\* Mutant: the key is taken for the start of the batch.
NewKVSequencerBack ==
  /\ next' = persisted - BatchSize
  /\ limit' = persisted
  /\ persisted' = persisted

\* NewKVSequencer after a restart reads the key and requests a batch.
NewKVSequencer ==
  /\ next' = persisted
  /\ limit' = persisted + BatchSize
  /\ persisted' = persisted + BatchSize

\* The end of the next batch is written, then used; the sequencer's lock is held.
requestNextBatch ==
  /\ next >= limit
  /\ persisted' = limit + BatchSize
  /\ limit' = limit + BatchSize
  /\ UNCHANGED next

\* GetNextId hands out id.
GetNextId(id) ==
  /\ next < limit
  /\ id = next
  /\ next' = next + 1
  /\ UNCHANGED <<limit, persisted>>
=============================================================================
