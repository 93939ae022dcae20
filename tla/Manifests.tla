------------------------------ MODULE Manifests ------------------------------
(***************************************************************************)
(* Manifests and what is made of them: a client creates a manifest,        *)
(* uploads files into it and turns it into a submission, which takes over  *)
(* the manifest's directory; a garbage collector deletes manifests that    *)
(* were not turned into one in time.  Calls run concurrently.  They take a *)
(* mutex per manifest (LockManifest), which DeleteManifest drops from the  *)
(* map of mutexes while it holds it.                                       *)
(***************************************************************************)
EXTENDS Sequencer, Integers, Sequences, FiniteSets

CONSTANTS
  Calls,           \* calls in progress at a time
  GC,              \* the garbage collector
  Files, Sizes,    \* file names; sizes of uploaded files
  UploadLimit,     \* Assignment.UploadLimit
  SubmissionLimit, \* SubmissionLimitConfig.Total
  Mutexes,         \* identities of mutexes (a mutex nobody refers to is reused)
  MaxManifests,    \* bound: manifests
  MaxSubmissions,  \* bound: submissions
  MaxRestarts      \* bound: restarts of the server

Procs     == Calls \cup {GC}
NoProc    == ""
Manifests == 1..MaxManifests

ASSUME ManifestAssumption ==
  /\ IsFiniteSet(Calls) /\ GC \notin Calls /\ NoProc \notin Procs
  /\ Sizes \subseteq Nat \ {0}
  /\ UploadLimit \in Nat /\ SubmissionLimit \in Nat
  /\ Mutexes \subseteq Nat \ {0}
  /\ MaxManifests \in Nat /\ MaxSubmissions \in Nat /\ MaxRestarts \in Nat

VARIABLES
  \* the database: the metadata of a manifest, its file entries (0: none), its
  \* size counter and whether the counter's key exists
  metadata, recorded, counter, sized,
  \* the directory of a manifest: the size of what is stored under a name (0: nothing)
  stored,
  \* submissions: the manifest whose directory each took over and its files
  submissions,
  \* the map of mutexes (0: no entry) and who holds a mutex
  locks, holder,
  \* the calls: where each is and its arguments
  pc, op, mu,
  \* manifests that have expired; upload tokens issued; restarts so far
  expired, tokens, restarts

dbVars   == <<metadata, recorded, counter, sized>>
lockVars == <<locks, holder, mu>>
vars == <<seqVars, dbVars, stored, submissions, lockVars, pc, op, expired, tokens, restarts>>

Kinds == {"none", "init", "upload", "add", "delete", "submit", "gc"}
Pcs   == {"idle", "load", "lock", "forget", "in", "commit", "put", "unlink", "create", "sweep"}

NoOp  == [kind |-> "none", m |-> 0, f |-> "", z |-> 0, files |-> {}]

Init ==
  /\ NewKVSequencerFirst
  /\ metadata = [m \in Manifests |-> "none"]
  /\ recorded = [m \in Manifests |-> [f \in Files |-> 0]]
  /\ counter = [m \in Manifests |-> 0]
  /\ sized = [m \in Manifests |-> FALSE]
  /\ stored = [m \in Manifests |-> [f \in Files |-> 0]]
  /\ submissions = <<>>
  /\ locks = [m \in Manifests |-> 0]
  /\ holder = [x \in Mutexes |-> NoProc]
  /\ mu = [p \in Procs |-> 0]
  /\ pc = [p \in Procs |-> "idle"]
  /\ op = [p \in Procs |-> NoOp]
  /\ expired = {}
  /\ tokens = {}
  /\ restarts = 0

-----------------------------------------------------------------------------
(* LockManifest: load the manifest's mutex or store a new one, lock it, and    *)
(* see whether the manifest exists; if not, unlock and remove the entry.       *)

Free == {x \in Mutexes : /\ \A m \in Manifests : locks[m] # x
                         /\ \A p \in Procs : mu[p] # x}

Goto(p, l) == pc' = [pc EXCEPT ![p] = l]

Finish(p) ==
  /\ Goto(p, "idle")
  /\ op' = [op EXCEPT ![p] = NoOp]

Unlock(p) ==
  /\ holder' = [x \in Mutexes |-> IF x = mu[p] THEN NoProc ELSE holder[x]]
  /\ mu' = [mu EXCEPT ![p] = 0]

\* DeleteManifest goes on when the manifest is gone, the others end with an error.
Deleting(p) == op[p].kind \in {"submit", "gc"}

\* Mutant: a new mutex is stored whether or not there is one.
LoadMutexStore(p) ==
  /\ pc[p] = "load"
  /\ \E x \in Free :
       /\ \A y \in Free : x <= y
       /\ locks' = [locks EXCEPT ![op[p].m] = x]
       /\ mu' = [mu EXCEPT ![p] = x]
  /\ Goto(p, "lock")
  /\ UNCHANGED <<seqVars, dbVars, stored, submissions, holder, op, expired, tokens, restarts>>

LoadMutex(p) ==
  /\ pc[p] = "load"
  /\ LET m == op[p].m IN
       \E x \in IF locks[m] # 0 THEN {locks[m]} ELSE Free :
         /\ locks[m] = 0 => \A y \in Free : x <= y
         /\ locks' = [locks EXCEPT ![m] = x]
         /\ mu' = [mu EXCEPT ![p] = x]
  /\ Goto(p, "lock")
  /\ UNCHANGED <<seqVars, dbVars, stored, submissions, holder, op, expired, tokens, restarts>>

LockMutex(p) ==
  /\ pc[p] = "lock" /\ holder[mu[p]] = NoProc
  /\ metadata[op[p].m] = "live"
  /\ holder' = [holder EXCEPT ![mu[p]] = p]
  /\ Goto(p, "in")
  /\ UNCHANGED <<seqVars, dbVars, stored, submissions, locks, mu, op, expired, tokens, restarts>>

\* The manifest is gone: the mutex is unlocked again, ...
LockFails(p) ==
  /\ pc[p] = "lock" /\ holder[mu[p]] = NoProc
  /\ metadata[op[p].m] # "live"
  /\ mu' = [mu EXCEPT ![p] = 0]
  /\ Goto(p, "forget")
  /\ UNCHANGED <<seqVars, dbVars, stored, submissions, locks, holder, op, expired, tokens, restarts>>

\* ... and the entry of the map removed, whichever mutex it holds by then.
ForgetMutex(p) ==
  /\ pc[p] = "forget"
  /\ locks' = [locks EXCEPT ![op[p].m] = 0]
  /\ IF Deleting(p) THEN Goto(p, "commit") /\ UNCHANGED op ELSE Finish(p)
  /\ UNCHANGED <<seqVars, dbVars, stored, submissions, holder, mu, expired, tokens, restarts>>

-----------------------------------------------------------------------------
(* The manifest repository *)

\* The metadata and the counter are two writes; nobody knows the id before the
\* second, so they are one step.
CreateManifest ==
  /\ \E m \in Manifests :
       /\ GetNextId(m)
       /\ metadata' = [metadata EXCEPT ![m] = "live"]
       /\ sized' = [sized EXCEPT ![m] = TRUE]         \* a merge of 0
  /\ UNCHANGED <<recorded, counter, stored, submissions, lockVars, pc, op, expired, tokens, restarts>>

NextBatch ==
  /\ requestNextBatch
  /\ UNCHANGED <<dbVars, stored, submissions, lockVars, pc, op, expired, tokens, restarts>>

\* GetManifestFilesize: a negative counter counts as 0.
Filesize(c) == IF c < 0 THEN 0 ELSE c

\* Mutant: the entry is overwritten with the merge operand.
DeleteFileNegated(m, f) ==
  /\ recorded' = [recorded EXCEPT ![m][f] = 0 - @]
  /\ counter' = [counter EXCEPT ![m] = @ - recorded[m][f]]

\* Mutant: the size is taken off twice.
DeleteFileTwice(m, f) ==
  /\ recorded' = [recorded EXCEPT ![m][f] = 0]
  /\ counter' = [counter EXCEPT ![m] = @ - recorded[m][f] - recorded[m][f]]

\* DeleteFileInManifest: one batch deletes the entry and takes its size off.
DeleteFileEntry(m, f) ==
  /\ recorded' = [recorded EXCEPT ![m][f] = 0]
  /\ counter' = [counter EXCEPT ![m] = @ - recorded[m][f]]

\* AddFileToManifest: one batch sets the entry and adds its size.
AddFileToManifest(m, f, z) ==
  /\ recorded' = [recorded EXCEPT ![m][f] = z]
  /\ counter' = [counter EXCEPT ![m] = @ + z]
  /\ sized' = [sized EXCEPT ![m] = TRUE]

\* DeleteManifest drops the mutex it holds from the map.
DropMutex(p) ==
  /\ pc[p] = "in" /\ Deleting(p)
  /\ locks' = [locks EXCEPT ![op[p].m] = 0]
  /\ Goto(p, "commit")
  /\ UNCHANGED <<seqVars, dbVars, stored, submissions, holder, mu, op, expired, tokens, restarts>>

\* One batch deletes the manifest; then the mutex, if there is one, is unlocked.
CommitDelete(p) ==
  /\ pc[p] = "commit"
  /\ LET m == op[p].m IN
       /\ metadata' = [metadata EXCEPT ![m] = "gone"]
       /\ recorded' = [recorded EXCEPT ![m] = [f \in Files |-> 0]]
       /\ counter' = [counter EXCEPT ![m] = 0]
       /\ sized' = [sized EXCEPT ![m] = FALSE]
  /\ Unlock(p)
  /\ IF p = GC THEN Goto(p, "sweep") /\ UNCHANGED op ELSE Finish(p)
  /\ UNCHANGED <<seqVars, stored, submissions, locks, expired, tokens, restarts>>

-----------------------------------------------------------------------------
(* The calls of AutograderService.  A call begins with its arguments; the      *)
(* interceptors have found the manifest.                                       *)

Begin(p, l, o) ==
  /\ pc[p] = "idle" /\ p \in Calls
  /\ op' = [op EXCEPT ![p] = o]
  /\ Goto(p, l)
  /\ UNCHANGED <<seqVars, dbVars, stored, submissions, lockVars, expired, tokens, restarts>>

InitUploadBegin(p) ==
  \E m \in Manifests, f \in Files, z \in Sizes :
    /\ metadata[m] = "live"
    /\ Begin(p, "load", [NoOp EXCEPT !.kind = "init", !.m = m, !.f = f, !.z = z])

\* A token is issued for a file that fits, not counting what it replaces.
InitUpload(p) ==
  /\ pc[p] = "in" /\ op[p].kind = "init"
  /\ LET m == op[p].m
         f == op[p].f
         fits == Filesize(counter[m]) - recorded[m][f] + op[p].z <= UploadLimit IN
       tokens' = IF sized[m] /\ fits THEN tokens \cup {<<m, f>>} ELSE tokens
  /\ Unlock(p)
  /\ Finish(p)
  /\ UNCHANGED <<seqVars, dbVars, stored, submissions, locks, expired, restarts>>

\* HandleFileUpload: the size is that of the upload, whatever the token was for.
UploadBegin(p) ==
  \E t \in tokens, z \in Sizes :
    Begin(p, "load", [NoOp EXCEPT !.kind = "upload", !.m = t[1], !.f = t[2], !.z = z])

\* Mutant: the limit is only checked for the token.
UploadUnchecked(p) ==
  /\ pc[p] = "in" /\ op[p].kind = "upload"
  /\ DeleteFileEntry(op[p].m, op[p].f)
  /\ Goto(p, "put")
  /\ Unlock(p)
  /\ UNCHANGED <<seqVars, metadata, sized, stored, submissions, locks, op, expired, tokens, restarts>>

\* Mutant: a refused upload returns without unlocking.
UploadReturnsLocked(p) ==
  /\ pc[p] = "in" /\ op[p].kind = "upload"
  /\ LET m == op[p].m
         f == op[p].f IN
       /\ DeleteFileEntry(m, f)
       /\ UNCHANGED <<metadata, sized>>
       /\ IF sized[m] /\ Filesize(counter'[m]) + op[p].z <= UploadLimit
          THEN Goto(p, "put") /\ Unlock(p) /\ UNCHANGED op
          ELSE Finish(p) /\ UNCHANGED <<holder, mu>>
  /\ UNCHANGED <<seqVars, stored, submissions, locks, expired, tokens, restarts>>

\* Under the lock the old entry is deleted and the limit is checked.
UploadCheck(p) ==
  /\ pc[p] = "in" /\ op[p].kind = "upload"
  /\ LET m == op[p].m
         f == op[p].f IN
       /\ DeleteFileEntry(m, f)
       /\ UNCHANGED <<metadata, sized>>
       /\ IF sized[m] /\ Filesize(counter'[m]) + op[p].z <= UploadLimit
          THEN Goto(p, "put") /\ UNCHANGED op
          ELSE Finish(p)
  /\ Unlock(p)
  /\ UNCHANGED <<seqVars, stored, submissions, locks, expired, tokens, restarts>>

\* Without the lock the file is written; then the manifest is locked again.
UploadPut(p) ==
  /\ pc[p] = "put"
  /\ stored' = [stored EXCEPT ![op[p].m][op[p].f] = op[p].z]
  /\ Goto(p, "load")
  /\ op' = [op EXCEPT ![p].kind = "add"]
  /\ UNCHANGED <<seqVars, dbVars, submissions, lockVars, expired, tokens, restarts>>

UploadAdd(p) ==
  /\ pc[p] = "in" /\ op[p].kind = "add"
  /\ AddFileToManifest(op[p].m, op[p].f, op[p].z)
  /\ Unlock(p)
  /\ Finish(p)
  /\ UNCHANGED <<seqVars, metadata, stored, submissions, locks, expired, tokens, restarts>>

\* DeleteFileInManifest: the entry under the lock, the file after it.
DeleteFileBegin(p) ==
  \E m \in Manifests, f \in Files :
    /\ metadata[m] = "live"
    /\ Begin(p, "load", [NoOp EXCEPT !.kind = "delete", !.m = m, !.f = f])

DeleteFileInManifest(p) ==
  /\ pc[p] = "in" /\ op[p].kind = "delete"
  /\ DeleteFileEntry(op[p].m, op[p].f)
  /\ Unlock(p)
  /\ Goto(p, "unlink")
  /\ UNCHANGED <<seqVars, metadata, sized, stored, submissions, locks, op, expired, tokens, restarts>>

Unlink(p) ==
  /\ pc[p] = "unlink"
  /\ stored' = [stored EXCEPT ![op[p].m][op[p].f] = 0]
  /\ Finish(p)
  /\ UNCHANGED <<seqVars, dbVars, submissions, lockVars, expired, tokens, restarts>>

-----------------------------------------------------------------------------
(* CreateSubmission *)

\* Mutant: the limit is off by one.
UnderOrAtLimit == SubmissionLimit = 0 \/ Len(submissions) <= SubmissionLimit

\* checkSubmissionLimit
UnderLimit == SubmissionLimit = 0 \/ Len(submissions) < SubmissionLimit

\* The limit is checked and the files are listed, without a lock.
SubmitBegin(p) ==
  \E m \in Manifests :
    LET files == {f \in Files : recorded[m][f] # 0} IN
      /\ UnderLimit
      /\ files # {}
      /\ Begin(p, "create", [NoOp EXCEPT !.kind = "submit", !.m = m, !.files = files])

\* Mutant: the manifest is left to the garbage collector.
CreateSubmissionOnly(p) ==
  /\ pc[p] = "create"
  /\ Len(submissions) < MaxSubmissions
  /\ submissions' = Append(submissions, [m |-> op[p].m, files |-> op[p].files])
  /\ Finish(p)
  /\ UNCHANGED <<seqVars, dbVars, stored, lockVars, expired, tokens, restarts>>

\* The submission is created, with the manifest's directory as its path; then
\* the manifest is deleted.
CreateSubmission(p) ==
  /\ pc[p] = "create"
  /\ Len(submissions) < MaxSubmissions
  /\ submissions' = Append(submissions, [m |-> op[p].m, files |-> op[p].files])
  /\ Goto(p, "load")
  /\ UNCHANGED <<seqVars, dbVars, stored, lockVars, op, expired, tokens, restarts>>

-----------------------------------------------------------------------------
(* GarbageCollect, and manifestGarbageCollect, which deletes the directory     *)

Expire(m) ==
  /\ metadata[m] = "live" /\ m \notin expired
  /\ expired' = expired \cup {m}
  /\ UNCHANGED <<seqVars, dbVars, stored, submissions, lockVars, pc, op, tokens, restarts>>

\* An expired manifest is found.
GarbageCollect(m) ==
  /\ pc[GC] = "idle"
  /\ metadata[m] = "live" /\ m \in expired
  /\ op' = [op EXCEPT ![GC] = [NoOp EXCEPT !.kind = "gc", !.m = m]]
  /\ Goto(GC, "load")
  /\ UNCHANGED <<seqVars, dbVars, stored, submissions, lockVars, expired, tokens, restarts>>

Sweep ==
  /\ pc[GC] = "sweep"
  /\ stored' = [stored EXCEPT ![op[GC].m] = [f \in Files |-> 0]]
  /\ Finish(GC)
  /\ UNCHANGED <<seqVars, dbVars, submissions, lockVars, expired, tokens, restarts>>

-----------------------------------------------------------------------------
\* The server stops at any point and starts again: the database, the files and
\* the clients' tokens remain.
Restart ==
  /\ restarts < MaxRestarts
  /\ restarts' = restarts + 1
  /\ NewKVSequencer
  /\ locks' = [m \in Manifests |-> 0]
  /\ holder' = [x \in Mutexes |-> NoProc]
  /\ mu' = [p \in Procs |-> 0]
  /\ pc' = [p \in Procs |-> "idle"]
  /\ op' = [p \in Procs |-> NoOp]
  /\ UNCHANGED <<dbVars, stored, submissions, expired, tokens>>

Step(p) ==
  \/ LoadMutex(p) \/ LockMutex(p) \/ LockFails(p) \/ ForgetMutex(p) \/ DropMutex(p) \/ CommitDelete(p)
  \/ InitUpload(p) \/ UploadCheck(p) \/ UploadPut(p) \/ UploadAdd(p)
  \/ DeleteFileInManifest(p) \/ Unlink(p) \/ CreateSubmission(p)

Next ==
  \/ CreateManifest \/ NextBatch \/ Restart \/ Sweep
  \/ \E m \in Manifests : Expire(m) \/ GarbageCollect(m)
  \/ \E p \in Calls :
       InitUploadBegin(p) \/ UploadBegin(p) \/ DeleteFileBegin(p) \/ SubmitBegin(p)
  \/ \E p \in Procs : Step(p)

Spec == Init /\ [][Next]_vars

-----------------------------------------------------------------------------
(* Properties *)

\* Every variable has its type.
TypeOK ==
  /\ next \in Nat /\ limit \in Nat /\ persisted \in Nat
  /\ metadata \in [Manifests -> {"none", "live", "gone"}]
  /\ recorded \in [Manifests -> [Files -> Nat]]
  /\ counter \in [Manifests -> Int]
  /\ locks \in [Manifests -> Mutexes \cup {0}]
  /\ holder \in [Mutexes -> Procs \cup {NoProc}]
  /\ mu \in [Procs -> Mutexes \cup {0}]
  /\ pc \in [Procs -> Pcs]
  /\ \A p \in Procs : op[p].kind \in Kinds /\ op[p].m \in Manifests \cup {0}

\* An id is handed out once, restarts included (KVSequencer persists the end of
\* a batch before it uses the batch): every manifest is below what is next, in
\* memory and after a restart.
IdsFresh ==
  \A m \in Manifests : metadata[m] # "none" => m < next /\ m < persisted

Section(p) == pc[p] = "in" /\ ~Deleting(p)

\* While a manifest exists at most one call that is not deleting it is between
\* LockManifest and Unlock, although DeleteManifest takes the mutex out of the
\* map while others wait for it or store a new one.
OneInSection ==
  \A p, q \in Procs : Section(p) /\ Section(q) /\ op[p].m = op[q].m /\ metadata[op[p].m] = "live" => p = q

\* The n bytes of x: sizes add up to the number of bytes.
Bytes(x, n) == {x} \X (1..n)

RecordedBytes(m) == UNION {Bytes(f, recorded[m][f]) : f \in Files}

\* The counter of a manifest covers the files recorded in it: InitUpload can
\* take the size of the file to be replaced off the total without wrapping around.
CounterCoversFiles ==
  \A m \in Manifests : metadata[m] = "live" => counter[m] >= Cardinality(RecordedBytes(m))

\* The uploads past the check that are not counted yet.
InFlight(m) == {p \in Procs : op[p].m = m /\ (pc[p] = "put" \/ op[p].kind = "add")}

BytesInFlight(m) == UNION {Bytes(p, op[p].z) : p \in InFlight(m)}

\* Uploads check the limit before the file is written and counted: together
\* they overshoot it, but by no more than one limit for each concurrent call.
UploadsBounded ==
  \A m \in Manifests :
    counter[m] + Cardinality(BytesInFlight(m)) <= Cardinality(Calls) * UploadLimit

\* The limit on submissions is checked before a submission is created: at most
\* the concurrent calls get past it.
SubmissionsBounded ==
  SubmissionLimit > 0 => Len(submissions) <= SubmissionLimit + Cardinality(Calls) - 1

\* Both limits (InitUpload, CreateSubmission) are checked without being
\* reserved: they are overshot by no more than the calls past the check.
OvershootBounded == UploadsBounded /\ SubmissionsBounded

\* A manifest that was turned into a submission is deleted, unless the server
\* stopped on the way.
HandedOver ==
  \A i \in DOMAIN submissions :
    \/ metadata[submissions[i].m] = "gone" \/ restarts > 0
    \/ \E p \in Calls : op[p].kind = "submit" /\ op[p].m = submissions[i].m

\* Nobody waits for a mutex that will not be unlocked: it is held by a call
\* that is between LockManifest and Unlock.
HolderRuns ==
  \A p \in Procs : pc[p] = "lock" /\ holder[mu[p]] # NoProc =>
    LET q == holder[mu[p]] IN pc[q] \in {"in", "commit"} /\ mu[q] = mu[p]
=============================================================================
