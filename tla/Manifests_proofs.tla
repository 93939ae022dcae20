--------------------------- MODULE Manifests_proofs ---------------------------
(***************************************************************************)
(* Theorems about Manifests, for every number of calls, files, mutexes,    *)
(* manifests and restarts and every batch size of the sequencer.           *)
(***************************************************************************)
EXTENDS Manifests, FiniteSetTheorems, TLAPS

-----------------------------------------------------------------------------
(* The inductive invariant *)

OpRecords == [kind : Kinds, m : Manifests \cup {0}, f : Files \cup {""}, z : Sizes \cup {0},
              files : SUBSET Files]

\* Types of what the calls share and of the calls.
Types ==
  /\ next \in Nat /\ limit \in Nat /\ persisted \in Nat
  /\ metadata \in [Manifests -> {"none", "live", "gone"}]
  /\ recorded \in [Manifests -> [Files -> Nat]]
  /\ counter \in [Manifests -> Int]
  /\ locks \in [Manifests -> Mutexes \cup {0}]
  /\ holder \in [Mutexes -> Procs \cup {NoProc}]
  /\ mu \in [Procs -> Mutexes \cup {0}]
  /\ pc \in [Procs -> Pcs]
  /\ op \in [Procs -> OpRecords]
  /\ tokens \subseteq Manifests \X Files

\* A call in progress has arguments, and is of the kind its program counter says.
Arguments ==
  \A p \in Procs :
    /\ pc[p] # "idle" => op[p].m \in Manifests /\ op[p].kind # "none"
    /\ pc[p] = "idle" => op[p].kind = "none"
    /\ op[p].kind \in {"init", "upload", "add", "delete"} => op[p].f \in Files
    /\ pc[p] = "put" => op[p].kind = "upload"
    /\ pc[p] = "unlink" => op[p].kind = "delete"
    /\ pc[p] = "create" => op[p].kind = "submit"
    /\ pc[p] = "sweep" => p = GC
    /\ pc[p] = "commit" => Deleting(p)

\* A batch ends where the database says, and every manifest is before what is next.
Batches ==
  /\ limit = persisted /\ next <= limit
  /\ \A m \in Manifests : metadata[m] # "none" => m < next

\* Calls, tokens and files are about manifests that were created.
Known ==
  /\ \A p \in Procs : pc[p] # "idle" => metadata[op[p].m] # "none"
  /\ \A t \in tokens : metadata[t[1]] # "none"
  /\ \A m \in Manifests, f \in Files : recorded[m][f] # 0 => metadata[m] # "none"

\* Who has a mutex, and who holds it.
Held ==
  /\ \A p \in Procs :
       /\ pc[p] \in {"lock", "in"} => mu[p] # 0
       /\ pc[p] \notin {"lock", "in", "commit"} => mu[p] = 0
       /\ pc[p] \in {"in", "commit"} /\ mu[p] # 0 => holder[mu[p]] = p
  /\ \A x \in Mutexes : holder[x] # NoProc =>
       pc[holder[x]] \in {"in", "commit"} /\ mu[holder[x]] = x

\* A mutex is of one manifest.
OneManifest ==
  /\ \A p, q \in Procs : mu[p] # 0 /\ mu[p] = mu[q] => op[p].m = op[q].m
  /\ \A p \in Procs, m \in Manifests : mu[p] # 0 /\ mu[p] = locks[m] => op[p].m = m
  /\ \A m, n \in Manifests : locks[m] # 0 /\ locks[m] = locks[n] => m = n

\* While a manifest exists, whoever has a mutex of it has the one in the map, or
\* one that a call about to delete the manifest has taken out of the map and holds.
Current ==
  /\ \A p \in Procs : pc[p] \in {"lock", "in"} /\ metadata[op[p].m] = "live" =>
       mu[p] = locks[op[p].m] \/ (holder[mu[p]] # NoProc /\ pc[holder[mu[p]]] = "commit")
  /\ \A p \in Procs : pc[p] = "forget" => metadata[op[p].m] # "live"

MutexInv == Held /\ OneManifest /\ Current

-----------------------------------------------------------------------------
(* Types and arguments *)

LEMMA NoOpType == NoOp \in OpRecords
  BY DEF NoOp, OpRecords, Kinds

LEMMA ExceptType ==
  ASSUME NEW S, NEW T, NEW f \in [S -> T], NEW x, NEW y \in T
  PROVE  [f EXCEPT ![x] = y] \in [S -> T]
  OBVIOUS

LEMMA SizeIsNat ==
  ASSUME NEW z \in Sizes \cup {0}
  PROVE  z \in Nat
  BY ManifestAssumption

\* The types of the calls.
CallTypes == pc \in [Procs -> Pcs] /\ op \in [Procs -> OpRecords]

LEMMA FinishKeeps ==
  ASSUME CallTypes, Arguments, NEW p \in Procs, Finish(p)
  PROVE  CallTypes' /\ Arguments'
  BY NoOpType DEF CallTypes, Arguments, Finish, Goto, Deleting, NoOp, Pcs

\* Going on at l with the same arguments.
LEMMA GotoKeeps ==
  ASSUME CallTypes, Arguments, NEW p \in Procs, pc[p] # "idle", UNCHANGED op,
         NEW l \in Pcs \ {"idle", "create"}, Goto(p, l),
         l = "put" => op[p].kind = "upload", l = "unlink" => op[p].kind = "delete",
         l = "sweep" => p = GC, l = "commit" => Deleting(p)
  PROVE  CallTypes' /\ Arguments'
  BY DEF CallTypes, Arguments, Goto, Deleting

LEMMA UnlockKeeps ==
  ASSUME Types, NEW p \in Procs, Unlock(p)
  PROVE  holder' \in [Mutexes -> Procs \cup {NoProc}] /\ mu' \in [Procs -> Mutexes \cup {0}]
  BY DEF Types, Unlock

LEMMA DeleteEntryKeeps ==
  ASSUME Types, NEW m \in Manifests, NEW f \in Files, DeleteFileEntry(m, f)
  PROVE  recorded' \in [Manifests -> [Files -> Nat]] /\ counter' \in [Manifests -> Int]
  BY DEF Types, DeleteFileEntry

LEMMA AddFileKeeps ==
  ASSUME Types, NEW m \in Manifests, NEW f \in Files, NEW z \in Nat, AddFileToManifest(m, f, z)
  PROVE  recorded' \in [Manifests -> [Files -> Nat]] /\ counter' \in [Manifests -> Int]
  BY DEF Types, AddFileToManifest

\* A step of a call keeps types and arguments.
LEMMA StepKeepsTypes ==
  ASSUME Types, Arguments, NEW p \in Procs, Step(p)
  PROVE  Types' /\ Arguments'
<1> USE ManifestAssumption
<1>a. CallTypes
  BY DEF Types, CallTypes
<1>b. pc[p] # "idle"
  BY DEF Step, LoadMutex, LockMutex, LockFails, ForgetMutex, DropMutex, CommitDelete, InitUpload,
         UploadCheck, UploadPut, UploadAdd, DeleteFileInManifest, Unlink, CreateSubmission
<1>c. op[p].m \in Manifests /\ op[p].z \in Nat
  <2>1. op[p] \in OpRecords
    BY DEF Types
  <2>2. op[p].z \in Sizes \cup {0}
    BY <2>1 DEF OpRecords
  <2>3. op[p].z \in Nat
    BY <2>2, SizeIsNat
  <2>4. op[p].m \in Manifests
    BY <1>b DEF Arguments
  <2> QED
    BY <2>3, <2>4
<1>1. CASE LoadMutex(p)
  <2>1. CallTypes' /\ Arguments'
    BY <1>a, <1>b, <1>1, GotoKeeps DEF LoadMutex, Pcs
  <2>2. PICK x \in Mutexes \cup {0} : locks' = [locks EXCEPT ![op[p].m] = x] /\ mu' = [mu EXCEPT ![p] = x]
    BY <1>1, <1>c DEF LoadMutex, Types, Free
  <2> QED
    BY <2>1, <2>2, <1>1 DEF LoadMutex, Types, seqVars, dbVars, CallTypes
<1>2. CASE LockMutex(p)
  <2>1. CallTypes' /\ Arguments'
    BY <1>a, <1>b, <1>2, GotoKeeps DEF LockMutex, Pcs
  <2> QED
    BY <2>1, <1>2 DEF LockMutex, Types, seqVars, dbVars, lockVars, CallTypes
<1>3. CASE LockFails(p)
  <2>1. CallTypes' /\ Arguments'
    BY <1>a, <1>b, <1>3, GotoKeeps DEF LockFails, Pcs
  <2> QED
    BY <2>1, <1>3 DEF LockFails, Types, seqVars, dbVars, lockVars, CallTypes
<1>4. CASE ForgetMutex(p)
  <2>1. CallTypes' /\ Arguments'
    BY <1>a, <1>b, <1>4, GotoKeeps, FinishKeeps DEF ForgetMutex, Pcs
  <2> QED
    BY <2>1, <1>4 DEF ForgetMutex, Types, seqVars, dbVars, lockVars, CallTypes
<1>5. CASE DropMutex(p)
  <2>1. CallTypes' /\ Arguments'
    BY <1>a, <1>b, <1>5, GotoKeeps DEF DropMutex, Pcs, Deleting
  <2> QED
    BY <2>1, <1>5 DEF DropMutex, Types, seqVars, dbVars, lockVars, CallTypes
<1>6. CASE CommitDelete(p)
  <2>1. CallTypes' /\ Arguments'
    BY <1>a, <1>b, <1>6, GotoKeeps, FinishKeeps DEF CommitDelete, Pcs
  <2>2. holder' \in [Mutexes -> Procs \cup {NoProc}] /\ mu' \in [Procs -> Mutexes \cup {0}]
    BY <1>6, UnlockKeeps DEF CommitDelete
  <2>3. metadata' \in [Manifests -> {"none", "live", "gone"}]
    BY <1>6 DEF CommitDelete, Types
  <2> DEFINE none == [f \in Files |-> 0]
  <2>a. none \in [Files -> Nat]
    OBVIOUS
  <2>b. recorded' = [recorded EXCEPT ![op[p].m] = none]
    BY <1>6 DEF CommitDelete
  <2> HIDE DEF none
  <2>5. recorded' \in [Manifests -> [Files -> Nat]]
    BY <2>a, <2>b DEF Types
  <2>c. counter' = [counter EXCEPT ![op[p].m] = 0]
    BY <1>6 DEF CommitDelete
  <2>6. counter' \in [Manifests -> Int]
    <3>1. counter \in [Manifests -> Int]
      BY DEF Types
    <3>2. 0 \in Int
      OBVIOUS
    <3> QED
      BY <2>c, <3>1, <3>2, ExceptType
  <2> QED
    BY <2>1, <2>2, <2>3, <2>5, <2>6, <1>6 DEF CommitDelete, Types, seqVars, CallTypes
<1>7. CASE InitUpload(p)
  <2>1. CallTypes' /\ Arguments'
    BY <1>a, <1>b, <1>7, FinishKeeps DEF InitUpload
  <2>2. holder' \in [Mutexes -> Procs \cup {NoProc}] /\ mu' \in [Procs -> Mutexes \cup {0}]
    BY <1>7, UnlockKeeps DEF InitUpload
  <2>3. tokens' \subseteq Manifests \X Files
    BY <1>7, <1>c DEF InitUpload, Types, Arguments
  <2> QED
    BY <2>1, <2>2, <2>3, <1>7 DEF InitUpload, Types, seqVars, dbVars, lockVars, CallTypes
<1>8. CASE UploadCheck(p)
  <2>1. CallTypes' /\ Arguments'
    BY <1>a, <1>b, <1>8, GotoKeeps, FinishKeeps DEF UploadCheck, Pcs
  <2>2. holder' \in [Mutexes -> Procs \cup {NoProc}] /\ mu' \in [Procs -> Mutexes \cup {0}]
    BY <1>8, UnlockKeeps DEF UploadCheck
  <2>3. recorded' \in [Manifests -> [Files -> Nat]] /\ counter' \in [Manifests -> Int]
    BY <1>c, <1>8, DeleteEntryKeeps DEF UploadCheck, Arguments
  <2> QED
    BY <2>1, <2>2, <2>3, <1>8 DEF UploadCheck, Types, seqVars, dbVars, lockVars, CallTypes
<1>9. CASE UploadPut(p)
  <2>1. op[p] \in OpRecords /\ op[p].kind = "upload" /\ op[p].f \in Files
    BY <1>9 DEF UploadPut, Types, Arguments
  <2>2. op' = [op EXCEPT ![p] = [op[p] EXCEPT !.kind = "add"]]
    BY <1>9 DEF UploadPut, Types
  <2>3. [op[p] EXCEPT !.kind = "add"] \in OpRecords
    BY <2>1 DEF OpRecords, Kinds
  <2>4. op' \in [Procs -> OpRecords]
    BY <2>2, <2>3 DEF Types
  <2>5. op'[p].kind = "add" /\ op'[p].m = op[p].m /\ op'[p].f = op[p].f
    BY <2>1, <2>2 DEF Types, OpRecords
  <2>6. \A q \in Procs : q # p => op'[q] = op[q]
    BY <2>2 DEF Types
  <2>7. Arguments'
    BY <1>9, <1>c, <2>1, <2>5, <2>6 DEF UploadPut, Goto, Types, Arguments, Deleting
  <2> QED
    BY <1>9, <2>4, <2>7 DEF UploadPut, Goto, Types, Pcs, seqVars, dbVars, lockVars
<1>10. CASE UploadAdd(p)
  <2>1. CallTypes' /\ Arguments'
    BY <1>a, <1>b, <1>10, FinishKeeps DEF UploadAdd, Pcs
  <2>2. holder' \in [Mutexes -> Procs \cup {NoProc}] /\ mu' \in [Procs -> Mutexes \cup {0}]
    BY <1>10, UnlockKeeps DEF UploadAdd
  <2>3. recorded' \in [Manifests -> [Files -> Nat]] /\ counter' \in [Manifests -> Int]
    BY <1>c, <1>10, AddFileKeeps DEF UploadAdd, Arguments
  <2> QED
    BY <2>1, <1>10, <2>2, <2>3 DEF UploadAdd, Types, seqVars, dbVars, lockVars, CallTypes
<1>11. CASE DeleteFileInManifest(p)
  <2>1. CallTypes' /\ Arguments'
    BY <1>a, <1>b, <1>11, GotoKeeps DEF DeleteFileInManifest, Pcs
  <2>2. holder' \in [Mutexes -> Procs \cup {NoProc}] /\ mu' \in [Procs -> Mutexes \cup {0}]
    BY <1>11, UnlockKeeps DEF DeleteFileInManifest
  <2>3. recorded' \in [Manifests -> [Files -> Nat]] /\ counter' \in [Manifests -> Int]
    BY <1>c, <1>11, DeleteEntryKeeps DEF DeleteFileInManifest, Arguments
  <2> QED
    BY <2>1, <1>11, <2>2, <2>3 DEF DeleteFileInManifest, Types, seqVars, dbVars, lockVars, CallTypes
<1>12. CASE Unlink(p)
  <2>1. CallTypes' /\ Arguments'
    BY <1>a, <1>b, <1>12, FinishKeeps DEF Unlink, Pcs
  <2> QED
    BY <2>1, <1>12 DEF Unlink, Types, seqVars, dbVars, lockVars, CallTypes
<1>13. CASE CreateSubmission(p)
  <2>1. CallTypes' /\ Arguments'
    BY <1>a, <1>b, <1>13, GotoKeeps DEF CreateSubmission, Pcs
  <2> QED
    BY <2>1, <1>13 DEF CreateSubmission, Types, seqVars, dbVars, lockVars, CallTypes
<1> QED
  BY <1>1, <1>2, <1>3, <1>4, <1>5, <1>6, <1>7, <1>8, <1>9, <1>10, <1>11, <1>12, <1>13 DEF Step

\* So does the beginning of a call.
LEMMA BeginKeepsTypes ==
  ASSUME Types, Arguments, NEW p \in Procs, NEW l \in {"load", "create"}, NEW o \in OpRecords,
         pc[p] = "idle", o.m \in Manifests, o.kind # "none",
         o.kind \in {"init", "upload", "add", "delete"} => o.f \in Files,
         l = "create" => o.kind = "submit",
         op' = [op EXCEPT ![p] = o], Goto(p, l),
         UNCHANGED <<seqVars, dbVars, lockVars, tokens>>
  PROVE  Types' /\ Arguments'
<1>1. op' \in [Procs -> OpRecords] /\ op'[p] = o /\ \A q \in Procs : q # p => op'[q] = op[q]
  BY DEF Types
<1>2. pc' \in [Procs -> Pcs] /\ pc'[p] = l /\ \A q \in Procs : q # p => pc'[q] = pc[q]
  BY DEF Types, Goto, Pcs
<1>3. Arguments'
  BY <1>1, <1>2 DEF Arguments, Deleting
<1> QED
  BY <1>1, <1>2, <1>3 DEF Types, seqVars, dbVars, lockVars

\* The ways in which a call begins.
CallBegins(p) ==
  InitUploadBegin(p) \/ UploadBegin(p) \/ DeleteFileBegin(p) \/ SubmitBegin(p)

\* A call begins with arguments of its kind, about a manifest that was created.
LEMMA BeginArguments ==
  ASSUME Types, Known, NEW p \in Calls, CallBegins(p)
  PROVE  \E l \in {"load", "create"}, o \in OpRecords :
           /\ pc[p] = "idle" /\ o.m \in Manifests /\ metadata[o.m] # "none" /\ o.kind \notin {"none", "add"}
           /\ o.kind \in {"init", "upload", "add", "delete"} => o.f \in Files
           /\ l = "create" => o.kind = "submit"
           /\ op' = [op EXCEPT ![p] = o] /\ Goto(p, l)
           /\ UNCHANGED <<seqVars, dbVars, stored, submissions, lockVars, expired, tokens, restarts>>
<1> USE NoOpType DEF Begin
<1>1. CASE InitUploadBegin(p)
  <2>1. PICK m \in Manifests, f \in Files, z \in Sizes :
          /\ metadata[m] = "live"
          /\ Begin(p, "load", [NoOp EXCEPT !.kind = "init", !.m = m, !.f = f, !.z = z])
    BY <1>1 DEF InitUploadBegin
  <2> DEFINE o == [NoOp EXCEPT !.kind = "init", !.m = m, !.f = f, !.z = z]
  <2>2. o \in OpRecords /\ o.m = m /\ o.kind = "init" /\ o.f = f
    BY DEF NoOp, OpRecords, Kinds
  <2> HIDE DEF o
  <2> QED
    BY <2>1, <2>2 DEF o
<1>2. CASE UploadBegin(p)
  <2>1. PICK t \in tokens, z \in Sizes :
          Begin(p, "load", [NoOp EXCEPT !.kind = "upload", !.m = t[1], !.f = t[2], !.z = z])
    BY <1>2 DEF UploadBegin
  <2>2. t[1] \in Manifests /\ t[2] \in Files /\ metadata[t[1]] # "none"
    BY DEF Types, Known
  <2> DEFINE o == [NoOp EXCEPT !.kind = "upload", !.m = t[1], !.f = t[2], !.z = z]
  <2>3. o \in OpRecords /\ o.m = t[1] /\ o.kind = "upload" /\ o.f = t[2]
    BY <2>2 DEF NoOp, OpRecords, Kinds
  <2> HIDE DEF o
  <2> QED
    BY <2>1, <2>2, <2>3 DEF o
<1>3. CASE DeleteFileBegin(p)
  <2>1. PICK m \in Manifests, f \in Files :
          /\ metadata[m] = "live"
          /\ Begin(p, "load", [NoOp EXCEPT !.kind = "delete", !.m = m, !.f = f])
    BY <1>3 DEF DeleteFileBegin
  <2> DEFINE o == [NoOp EXCEPT !.kind = "delete", !.m = m, !.f = f]
  <2>2. o \in OpRecords /\ o.m = m /\ o.kind = "delete" /\ o.f = f
    BY DEF NoOp, OpRecords, Kinds
  <2> HIDE DEF o
  <2> QED
    BY <2>1, <2>2 DEF o
<1>4. CASE SubmitBegin(p)
  <2>1. PICK m \in Manifests :
          LET files == {f \in Files : recorded[m][f] # 0} IN
            /\ files # {}
            /\ Begin(p, "create", [NoOp EXCEPT !.kind = "submit", !.m = m, !.files = files])
    BY <1>4 DEF SubmitBegin
  <2> DEFINE o == [NoOp EXCEPT !.kind = "submit", !.m = m, !.files = {f \in Files : recorded[m][f] # 0}]
  <2>2. o \in OpRecords /\ o.m = m /\ o.kind = "submit"
    BY DEF NoOp, OpRecords, Kinds
  <2>3. metadata[m] # "none"
    BY <2>1 DEF Known
  <2>4. Begin(p, "create", o)
    BY <2>1
  <2> HIDE DEF o
  <2> QED
    BY <2>2, <2>3, <2>4
<1> QED
  BY <1>1, <1>2, <1>3, <1>4 DEF CallBegins

\* The garbage collector begins with a manifest that was created.
LEMMA CollectArguments ==
  ASSUME Types, NEW m \in Manifests, GarbageCollect(m)
  PROVE  \E o \in OpRecords :
           /\ pc[GC] = "idle" /\ o.m \in Manifests /\ metadata[o.m] # "none" /\ o.kind = "gc"
           /\ op' = [op EXCEPT ![GC] = o] /\ Goto(GC, "load")
           /\ UNCHANGED <<seqVars, dbVars, stored, submissions, lockVars, expired, tokens, restarts>>
<1> DEFINE o == [NoOp EXCEPT !.kind = "gc", !.m = m]
<1>1. o \in OpRecords /\ o.m = m /\ o.kind = "gc"
  BY DEF NoOp, OpRecords, Kinds
<1>2. pc[GC] = "idle" /\ metadata[m] # "none" /\ op' = [op EXCEPT ![GC] = o] /\ Goto(GC, "load")
  BY DEF GarbageCollect
<1> HIDE DEF o
<1> QED
  BY <1>1, <1>2 DEF GarbageCollect

LEMMA InitTypes == Init => Types /\ Arguments
<1> SUFFICES ASSUME Init PROVE Types /\ Arguments
  OBVIOUS
<1> USE ManifestAssumption, BatchAssumption DEF Init
<1>1. next \in Nat /\ limit \in Nat /\ persisted \in Nat
  BY DEF NewKVSequencerFirst
<1>2. op \in [Procs -> OpRecords]
  BY NoOpType
<1>3. recorded \in [Manifests -> [Files -> Nat]] /\ counter \in [Manifests -> Int]
  OBVIOUS
<1>4. Types
  BY <1>1, <1>2, <1>3 DEF Types, Pcs
<1>5. Arguments
  BY DEF Arguments, NoOp
<1> QED
  BY <1>4, <1>5

LEMMA NextKeepsTypes ==
  ASSUME Types, Arguments, Known, [Next]_vars
  PROVE  Types' /\ Arguments'
<1> USE ManifestAssumption, BatchAssumption
<1>a. GC \in Procs /\ Calls \subseteq Procs
  BY DEF Procs
<1>1. CASE CreateManifest
  BY <1>1 DEF CreateManifest, GetNextId, Types, Arguments, Deleting, lockVars
<1>2. CASE NextBatch
  BY <1>2 DEF NextBatch, requestNextBatch, Types, Arguments, Deleting, dbVars, lockVars
<1>3. CASE Restart
  <2>1. next' \in Nat /\ limit' \in Nat /\ persisted' \in Nat
    BY <1>3 DEF Restart, NewKVSequencer, Types
  <2>2. op' \in [Procs -> OpRecords]
    BY <1>3, NoOpType DEF Restart
  <2>3. Arguments'
    BY <1>3 DEF Restart, Arguments, NoOp
  <2> QED
    BY <1>3, <2>1, <2>2, <2>3 DEF Restart, Types, Pcs, dbVars
<1>4. CASE Sweep
  <2>1. CallTypes' /\ Arguments'
    BY <1>4, <1>a, FinishKeeps DEF Sweep, Types, CallTypes
  <2> QED
    BY <2>1, <1>4 DEF Sweep, Types, CallTypes, seqVars, dbVars, lockVars
<1>5. CASE \E m \in Manifests : Expire(m)
  BY <1>5 DEF Expire, Types, Arguments, Deleting, seqVars, dbVars, lockVars
<1>6. CASE \E m \in Manifests : GarbageCollect(m)
  BY <1>6, <1>a, CollectArguments, BeginKeepsTypes
<1>7. CASE \E p \in Calls : CallBegins(p)
  BY <1>7, <1>a, BeginArguments, BeginKeepsTypes
<1>8. CASE \E p \in Procs : Step(p)
  BY <1>8, StepKeepsTypes
<1>9. CASE UNCHANGED vars
  BY <1>9 DEF vars, Types, Arguments, Deleting, seqVars, dbVars, lockVars
<1> QED
  BY <1>1, <1>2, <1>3, <1>4, <1>5, <1>6, <1>7, <1>8, <1>9 DEF Next, CallBegins

-----------------------------------------------------------------------------
(* Ids *)

\* A call goes on about its manifest, and only then.
LEMMA StepStays ==
  ASSUME Types, Arguments, NEW p \in Procs, Step(p)
  PROVE  /\ pc[p] # "idle" /\ UNCHANGED seqVars
         /\ \A q \in Procs : pc'[q] # "idle" => pc[q] # "idle" /\ op'[q].m = op[q].m
<1> USE DEF Types, Goto, seqVars
<1>1. CASE LoadMutex(p)
  BY <1>1 DEF LoadMutex
<1>2. CASE LockMutex(p)
  BY <1>2 DEF LockMutex
<1>3. CASE LockFails(p)
  BY <1>3 DEF LockFails
<1>4. CASE ForgetMutex(p)
  BY <1>4 DEF ForgetMutex, Finish
<1>5. CASE DropMutex(p)
  BY <1>5 DEF DropMutex
<1>6. CASE CommitDelete(p)
  BY <1>6 DEF CommitDelete, Finish
<1>7. CASE InitUpload(p)
  BY <1>7 DEF InitUpload, Finish
<1>8. CASE UploadCheck(p)
  BY <1>8 DEF UploadCheck, Finish
<1>9. CASE UploadPut(p)
  <2>1. op' = [op EXCEPT ![p] = [op[p] EXCEPT !.kind = "add"]] /\ op[p] \in OpRecords
    BY <1>9 DEF UploadPut
  <2>2. op'[p].m = op[p].m /\ \A q \in Procs : q # p => op'[q] = op[q]
    BY <2>1 DEF OpRecords
  <2> QED
    BY <1>9, <2>2 DEF UploadPut
<1>10. CASE UploadAdd(p)
  BY <1>10 DEF UploadAdd, Finish
<1>11. CASE DeleteFileInManifest(p)
  BY <1>11 DEF DeleteFileInManifest
<1>12. CASE Unlink(p)
  BY <1>12 DEF Unlink, Finish
<1>13. CASE CreateSubmission(p)
  BY <1>13 DEF CreateSubmission
<1> QED
  BY <1>1, <1>2, <1>3, <1>4, <1>5, <1>6, <1>7, <1>8, <1>9, <1>10, <1>11, <1>12, <1>13 DEF Step

\* What a call writes is about its manifest.
LEMMA StepWrites ==
  ASSUME Types, Arguments, NEW p \in Procs, Step(p)
  PROVE  /\ \A m \in Manifests : metadata'[m] # metadata[m] => m = op[p].m /\ metadata'[m] = "gone"
         /\ \A t \in tokens' : t \in tokens \/ t[1] = op[p].m
         /\ \A m \in Manifests, f \in Files :
              recorded'[m][f] # 0 => recorded[m][f] # 0 \/ m = op[p].m
<1>1. CASE CommitDelete(p)
  BY <1>1 DEF CommitDelete, Types
<1>2. CASE InitUpload(p)
  BY <1>2 DEF InitUpload, dbVars
<1>3. CASE UploadCheck(p)
  BY <1>3 DEF UploadCheck, DeleteFileEntry, Types
<1>4. CASE UploadAdd(p)
  BY <1>4 DEF UploadAdd, AddFileToManifest, Types
<1>5. CASE DeleteFileInManifest(p)
  BY <1>5 DEF DeleteFileInManifest, DeleteFileEntry, Types
<1>6. CASE UNCHANGED <<dbVars, tokens>>
  BY <1>6 DEF dbVars
<1> QED
  BY <1>1, <1>2, <1>3, <1>4, <1>5, <1>6
     DEF Step, LoadMutex, LockMutex, LockFails, ForgetMutex, DropMutex, UploadPut, Unlink,
         CreateSubmission

LEMMA StepKeepsKnown ==
  ASSUME Types, Arguments, Known, Batches, NEW p \in Procs, Step(p)
  PROVE  Known' /\ Batches'
<1>1. op[p].m \in Manifests /\ metadata[op[p].m] # "none"
  BY StepStays DEF Arguments, Known
<1>2. \A m \in Manifests : metadata[m] # "none" <=> metadata'[m] # "none"
  BY <1>1, StepWrites
<1>3. \A q \in Procs : pc'[q] # "idle" => op'[q].m \in Manifests /\ metadata'[op'[q].m] # "none"
  BY <1>2, StepStays DEF Known, Arguments
<1>4. \A t \in tokens' : metadata'[t[1]] # "none"
  BY <1>1, <1>2, StepWrites DEF Known, Types
<1>5. \A m \in Manifests, f \in Files : recorded'[m][f] # 0 => metadata'[m] # "none"
  BY <1>1, <1>2, StepWrites DEF Known
<1>6. Batches'
  BY <1>2, StepStays DEF Batches, seqVars
<1> QED
  BY <1>3, <1>4, <1>5, <1>6 DEF Known

\* A call that begins knows its manifest.
LEMMA BeginKeepsKnown ==
  ASSUME Types, Known, Batches, NEW p \in Procs, NEW l \in {"load", "create"}, NEW o \in OpRecords,
         metadata[o.m] # "none", op' = [op EXCEPT ![p] = o], Goto(p, l),
         UNCHANGED <<seqVars, dbVars, tokens>>
  PROVE  Known' /\ Batches'
<1>1. op'[p] = o /\ \A q \in Procs : q # p => op'[q] = op[q] /\ pc'[q] = pc[q]
  BY DEF Types, Goto
<1>2. UNCHANGED <<metadata, recorded, tokens, next, limit, persisted>>
  BY DEF dbVars, seqVars
<1> QED
  BY <1>1, <1>2 DEF Known, Batches

LEMMA NextKeepsKnown ==
  ASSUME Types, Arguments, Known, Batches, [Next]_vars
  PROVE  Known' /\ Batches'
<1> USE ManifestAssumption, BatchAssumption
<1>a. GC \in Procs /\ Calls \subseteq Procs
  BY DEF Procs
<1>1. CASE CreateManifest
  <2>1. PICK m \in Manifests : GetNextId(m) /\ metadata' = [metadata EXCEPT ![m] = "live"]
    BY <1>1 DEF CreateManifest
  <2>2. \A n \in Manifests : (metadata[n] # "none" \/ n = m) <=> metadata'[n] # "none"
    BY <2>1 DEF Types
  <2>3. Batches'
    BY <2>1, <2>2 DEF Batches, GetNextId, Types, Manifests
  <2>4. Known'
    BY <1>1, <2>2 DEF CreateManifest, Known, Types, Arguments, lockVars
  <2> QED
    BY <2>3, <2>4
<1>2. CASE NextBatch
  BY <1>2 DEF NextBatch, requestNextBatch, Types, Known, Batches, dbVars
<1>3. CASE Restart
  <2>1. Batches'
    BY <1>3 DEF Restart, NewKVSequencer, Types, Batches, dbVars, Manifests
  <2>2. Known'
    BY <1>3 DEF Restart, Known, dbVars
  <2> QED
    BY <2>1, <2>2
<1>4. CASE Sweep
  <2>1. \A q \in Procs : pc'[q] # "idle" => pc'[q] = pc[q] /\ op'[q] = op[q]
    BY <1>4 DEF Sweep, Finish, Goto, Types
  <2> QED
    BY <2>1, <1>4 DEF Sweep, Known, Batches, seqVars, dbVars
<1>5. CASE \E m \in Manifests : Expire(m)
  BY <1>5 DEF Expire, Known, Batches, seqVars, dbVars
<1>6. CASE \E m \in Manifests : GarbageCollect(m)
  BY <1>6, <1>a, CollectArguments, BeginKeepsKnown
<1>7. CASE \E p \in Calls : CallBegins(p)
  BY <1>7, <1>a, BeginArguments, BeginKeepsKnown
<1>8. CASE \E p \in Procs : Step(p)
  BY <1>8, StepKeepsKnown
<1>9. CASE UNCHANGED vars
  BY <1>9 DEF vars, Known, Batches, seqVars, dbVars
<1> QED
  BY <1>1, <1>2, <1>3, <1>4, <1>5, <1>6, <1>7, <1>8, <1>9 DEF Next, CallBegins

LEMMA InitKnown == Init => Known /\ Batches
  BY BatchAssumption DEF Init, NewKVSequencerFirst, Known, Batches

\* The invariant of the types and the ids.
IdInv == Types /\ Arguments /\ Known /\ Batches

LEMMA IdInvariant == Spec => []IdInv
<1>1. Init => IdInv
  BY InitTypes, InitKnown DEF IdInv
<1>2. IdInv /\ [Next]_vars => IdInv'
  BY NextKeepsTypes, NextKeepsKnown DEF IdInv
<1> QED
  BY <1>1, <1>2, PTL DEF Spec

\* The type invariant of the manifests, whatever the calls in progress and
\* wherever the server stops.
THEOREM ManifestTypes == Spec => []TypeOK
<1>1. IdInv => TypeOK
  BY DEF IdInv, Types, TypeOK, OpRecords
<1> QED
  BY <1>1, IdInvariant, PTL

\* KVSequencer hands out an id once, whatever the batch size and the number of
\* restarts: every manifest is below what the sequencer hands out next, in memory
\* (GetNextId) and after a restart (NewKVSequencer).
THEOREM FreshIds == Spec => []IdsFresh
<1>1. IdInv => IdsFresh
  BY DEF IdInv, Types, Batches, IdsFresh, Manifests
<1> QED
  BY <1>1, IdInvariant, PTL

-----------------------------------------------------------------------------
(* Mutexes *)

\* Where a call neither waits for a mutex, nor holds one, nor drops one.
Outer == {"idle", "load", "put", "unlink", "create", "sweep"}

\* A step outside the critical sections.
LEMMA OutsideKeeps ==
  ASSUME Types, Arguments, Known, MutexInv, UNCHANGED lockVars,
         \A q \in Procs : \/ pc'[q] = pc[q] /\ op'[q] = op[q]
                          \/ pc[q] \in Outer /\ pc'[q] \in Outer,
         \A m \in Manifests : metadata'[m] # metadata[m] => metadata[m] = "none"
  PROVE  MutexInv'
<1>a. UNCHANGED <<locks, holder, mu>>
  BY DEF lockVars
<1>b. \A q \in Procs : (pc[q] \notin Outer \/ pc'[q] \notin Outer) => pc'[q] = pc[q] /\ op'[q] = op[q]
  OBVIOUS
<1>c. \A q \in Procs : mu[q] # 0 => pc[q] \in {"lock", "in", "commit"}
  BY DEF MutexInv, Held
<1>d. \A q \in Procs : mu[q] # 0 => pc'[q] = pc[q] /\ op'[q] = op[q]
  BY <1>b, <1>c DEF Outer
<1>e. \A x \in Mutexes : holder[x] # NoProc => holder[x] \in Procs
  BY DEF Types
<1>1. Held'
  <2>1. \A q \in Procs : pc'[q] \in {"lock", "in", "commit"} => pc'[q] = pc[q]
    BY <1>b DEF Outer
  <2>2. \A q \in Procs : pc'[q] \notin {"lock", "in", "commit"} => mu[q] = 0
    BY <1>c, <1>d
  <2>3. \A x \in Mutexes : holder[x] # NoProc =>
          pc'[holder[x]] \in {"in", "commit"} /\ mu[holder[x]] = x
    BY <1>b, <1>e DEF MutexInv, Held, Outer
  <2> QED
    BY <1>a, <2>1, <2>2, <2>3 DEF MutexInv, Held
<1>2. OneManifest'
  BY <1>a, <1>d DEF MutexInv, OneManifest
<1>3. Current'
  <2>1. \A q \in Procs : pc'[q] \in {"lock", "in", "forget"} =>
          /\ pc'[q] = pc[q] /\ op'[q] = op[q]
          /\ metadata'[op[q].m] = metadata[op[q].m]
    <3>1. \A q \in Procs : pc'[q] \in {"lock", "in", "forget"} => pc'[q] = pc[q] /\ op'[q] = op[q]
      BY <1>b DEF Outer
    <3>2. \A q \in Procs : pc'[q] \in {"lock", "in", "forget"} =>
            op[q].m \in Manifests /\ metadata[op[q].m] # "none"
      BY <3>1 DEF Arguments, Known
    <3> QED
      BY <3>1, <3>2
  <2>2. \A x \in Mutexes : holder[x] # NoProc /\ pc[holder[x]] = "commit" => pc'[holder[x]] = "commit"
    BY <1>b, <1>e DEF Outer
  <2>3. \A q \in Procs : pc[q] \in {"lock", "in"} => mu[q] \in Mutexes
    BY DEF MutexInv, Held, Types
  <2> QED
    BY <1>a, <2>1, <2>2, <2>3 DEF MutexInv, Current
<1> QED
  BY <1>1, <1>2, <1>3 DEF MutexInv

\* A call unlocks the mutex it holds, after the delete if it deletes the manifest.
LEMMA LeavingKeeps ==
  ASSUME Types, Arguments, MutexInv, NEW p \in Procs, pc[p] \in {"in", "commit"},
         Unlock(p), UNCHANGED locks, pc'[p] \in Outer,
         \A q \in Procs : q # p => pc'[q] = pc[q] /\ op'[q] = op[q],
         \A m \in Manifests : metadata'[m] = "live" => metadata[m] = "live",
         pc[p] = "commit" => metadata'[op[p].m] # "live"
  PROVE  MutexInv'
<1> USE ManifestAssumption
<1>a. mu'[p] = 0 /\ \A q \in Procs : q # p => mu'[q] = mu[q]
  BY DEF Unlock, Types
<1>b. \A x \in Mutexes : holder'[x] = IF x = mu[p] THEN NoProc ELSE holder[x]
  BY DEF Unlock, Types
<1>c. \A x \in Mutexes : holder'[x] # NoProc => holder'[x] = holder[x] /\ holder[x] \in Procs \ {p}
  BY <1>b DEF Types, MutexInv, Held
<1>d. \A q \in Procs : q # p /\ pc[q] \in {"in", "commit"} /\ mu[q] # 0 => holder'[mu[q]] = q
  <2>1. \A q \in Procs : mu[q] \in Mutexes \cup {0}
    BY DEF Types
  <2>2. \A q \in Procs : pc[q] \in {"in", "commit"} /\ mu[q] # 0 => holder[mu[q]] = q
    BY DEF MutexInv, Held
  <2>3. \A q \in Procs : q # p /\ pc[q] \in {"in", "commit"} /\ mu[q] # 0 => mu[q] # mu[p]
    BY <2>2
  <2> QED
    BY <1>b, <2>1, <2>2, <2>3
<1>1. Held'
  <2>1. \A q \in Procs :
       /\ pc'[q] \in {"lock", "in"} => mu'[q] # 0
       /\ pc'[q] \notin {"lock", "in", "commit"} => mu'[q] = 0
       /\ pc'[q] \in {"in", "commit"} /\ mu'[q] # 0 => holder'[mu'[q]] = q
    BY <1>a, <1>d DEF MutexInv, Held, Outer
  <2>2. \A x \in Mutexes : holder'[x] # NoProc =>
       pc'[holder'[x]] \in {"in", "commit"} /\ mu'[holder'[x]] = x
    BY <1>a, <1>c DEF MutexInv, Held
  <2> QED
    BY <2>1, <2>2 DEF Held
<1>2. OneManifest'
  BY <1>a DEF MutexInv, OneManifest
<1>3. Current'
  <2>1. ASSUME NEW q \in Procs, pc'[q] \in {"lock", "in"}, metadata'[op'[q].m] = "live"
        PROVE  mu'[q] = locks'[op'[q].m] \/ (holder'[mu'[q]] # NoProc /\ pc'[holder'[mu'[q]]] = "commit")
    <3>1. q # p /\ pc[q] \in {"lock", "in"} /\ op'[q] = op[q] /\ mu'[q] = mu[q]
      BY <2>1, <1>a DEF Outer
    <3>2. op[q].m \in Manifests /\ mu[q] \in Mutexes
      BY <3>1 DEF Arguments, MutexInv, Held, Types
    <3>3. metadata[op[q].m] = "live"
      BY <2>1, <3>1, <3>2
    <3>4. CASE mu[q] = locks[op[q].m]
      BY <3>1, <3>4
    <3>5. CASE holder[mu[q]] # NoProc /\ pc[holder[mu[q]]] = "commit"
      <4>1. holder[mu[q]] # p
        <5>1. SUFFICES ASSUME holder[mu[q]] = p PROVE FALSE
          OBVIOUS
        <5>2. pc[p] = "commit" /\ mu[p] = mu[q]
          BY <5>1, <3>5, <3>2 DEF MutexInv, Held
        <5>3. op[p].m = op[q].m
          BY <5>2, <3>2 DEF MutexInv, OneManifest
        <5> QED
          BY <5>2, <5>3, <2>1, <3>1
      <4>2. holder[mu[q]] \in Procs
        BY <3>2, <3>5 DEF Types
      <4>3. mu[q] # mu[p]
        <5>1. ASSUME mu[q] = mu[p] PROVE holder[mu[q]] = p
          BY <5>1, <3>2 DEF MutexInv, Held
        <5> QED
          BY <5>1, <4>1
      <4>4. holder'[mu[q]] = holder[mu[q]]
        BY <4>3, <1>b, <3>2
      <4> QED
        BY <3>1, <3>5, <4>1, <4>2, <4>4
    <3> QED
      BY <3>1, <3>3, <3>4, <3>5 DEF MutexInv, Current
  <2>2. \A q \in Procs : pc'[q] = "forget" => metadata'[op'[q].m] # "live"
    <3>1. ASSUME NEW q \in Procs, pc'[q] = "forget" PROVE metadata'[op'[q].m] # "live"
      <4>1. q # p /\ pc[q] = "forget" /\ op'[q] = op[q]
        BY <3>1 DEF Outer
      <4>2. op[q].m \in Manifests /\ metadata[op[q].m] # "live"
        BY <4>1 DEF Arguments, MutexInv, Current
      <4> QED
        BY <4>1, <4>2
    <3> QED
      BY <3>1
  <2> QED
    BY <2>1, <2>2 DEF Current
<1> QED
  BY <1>1, <1>2, <1>3 DEF MutexInv

\* LockManifest loads the mutex of the map or stores one nobody refers to.
LEMMA LoadKeeps ==
  ASSUME Types, Arguments, MutexInv, NEW p \in Procs, LoadMutex(p)
  PROVE  MutexInv'
<1> USE ManifestAssumption
<1> DEFINE m == op[p].m
<1>a. m \in Manifests /\ mu[p] = 0 /\ pc[p] = "load"
  BY DEF LoadMutex, Arguments, MutexInv, Held
<1>b. PICK x \in Mutexes :
        /\ locks[m] = x \/ (locks[m] = 0 /\ x \in Free)
        /\ locks' = [locks EXCEPT ![m] = x] /\ mu' = [mu EXCEPT ![p] = x]
  BY <1>a DEF LoadMutex, Types, Free
<1>c. x # 0
  OBVIOUS
<1>d. UNCHANGED <<holder, op, metadata>>
  BY DEF LoadMutex, dbVars
<1>e. pc'[p] = "lock" /\ \A q \in Procs : q # p => pc'[q] = pc[q]
  BY DEF LoadMutex, Goto, Types
<1>f. mu'[p] = x /\ \A q \in Procs : q # p => mu'[q] = mu[q]
  BY <1>b DEF Types
<1>g. locks'[m] = x /\ \A n \in Manifests : n # m => locks'[n] = locks[n]
  BY <1>a, <1>b DEF Types
<1>h. \A y \in Mutexes : holder[y] # NoProc => holder[y] \in Procs \ {p}
  BY <1>a DEF Types, MutexInv, Held
<1>i. \A q \in Procs : mu[q] = x => op[q].m = m
  BY <1>a, <1>b, <1>c DEF Free, MutexInv, OneManifest
<1>j. \A n \in Manifests : locks[n] = x => n = m
  BY <1>a, <1>b, <1>c DEF Free, MutexInv, OneManifest
<1> HIDE DEF m
<1>1. Held'
  <2>1. \A q \in Procs :
       /\ pc'[q] \in {"lock", "in"} => mu'[q] # 0
       /\ pc'[q] \notin {"lock", "in", "commit"} => mu'[q] = 0
       /\ pc'[q] \in {"in", "commit"} /\ mu'[q] # 0 => holder'[mu'[q]] = q
    BY <1>c, <1>d, <1>e, <1>f DEF MutexInv, Held
  <2>2. \A y \in Mutexes : holder'[y] # NoProc =>
       pc'[holder'[y]] \in {"in", "commit"} /\ mu'[holder'[y]] = y
    BY <1>d, <1>e, <1>f, <1>h DEF MutexInv, Held
  <2> QED
    BY <2>1, <2>2 DEF Held
<1>2. OneManifest'
  <2>1. \A q, r \in Procs : mu'[q] # 0 /\ mu'[q] = mu'[r] => op[q].m = op[r].m
    BY <1>f, <1>i DEF MutexInv, OneManifest, m
  <2>2. \A q \in Procs, n \in Manifests : mu'[q] # 0 /\ mu'[q] = locks'[n] => op[q].m = n
    BY <1>f, <1>g, <1>i, <1>j DEF MutexInv, OneManifest, m
  <2>3. \A n, l \in Manifests : locks'[n] # 0 /\ locks'[n] = locks'[l] => n = l
    BY <1>g, <1>j DEF MutexInv, OneManifest
  <2> QED
    BY <1>d, <2>1, <2>2, <2>3 DEF OneManifest
<1>3. Current'
  <2>1. ASSUME NEW q \in Procs, pc'[q] \in {"lock", "in"}, metadata'[op'[q].m] = "live"
        PROVE  mu'[q] = locks'[op'[q].m] \/ (holder'[mu'[q]] # NoProc /\ pc'[holder'[mu'[q]]] = "commit")
    <3>1. CASE q = p
      BY <3>1, <1>d, <1>f, <1>g DEF m
    <3>2. CASE q # p
      <4>1. pc[q] \in {"lock", "in"} /\ mu'[q] = mu[q] /\ op[q].m \in Manifests
        BY <2>1, <3>2, <1>e, <1>f DEF Arguments
      <4>2. mu[q] \in Mutexes /\ mu[q] # 0
        BY <4>1 DEF MutexInv, Held, Types
      <4>3. CASE mu[q] = locks[op[q].m]
        BY <4>1, <4>2, <4>3, <1>b, <1>d, <1>g
      <4>4. CASE holder[mu[q]] # NoProc /\ pc[holder[mu[q]]] = "commit"
        BY <4>1, <4>2, <4>4, <1>d, <1>e, <1>h
      <4> QED
        BY <2>1, <4>1, <4>3, <4>4, <1>d DEF MutexInv, Current
    <3> QED
      BY <3>1, <3>2
  <2>2. \A q \in Procs : pc'[q] = "forget" => metadata'[op'[q].m] # "live"
    BY <1>d, <1>e DEF MutexInv, Current
  <2> QED
    BY <2>1, <2>2 DEF Current
<1> QED
  BY <1>1, <1>2, <1>3 DEF MutexInv

\* A free mutex is locked.
LEMMA LockKeeps ==
  ASSUME Types, Arguments, MutexInv, NEW p \in Procs, LockMutex(p)
  PROVE  MutexInv'
<1> USE ManifestAssumption
<1>a. pc[p] = "lock" /\ mu[p] \in Mutexes /\ mu[p] # 0 /\ holder[mu[p]] = NoProc
  BY DEF LockMutex, MutexInv, Held, Types
<1>b. UNCHANGED <<locks, mu, op, metadata>>
  BY DEF LockMutex, dbVars
<1>c. pc'[p] = "in" /\ \A q \in Procs : q # p => pc'[q] = pc[q]
  BY DEF LockMutex, Goto, Types
<1>d. holder'[mu[p]] = p /\ \A x \in Mutexes : x # mu[p] => holder'[x] = holder[x]
  BY <1>a DEF LockMutex, Types
<1>e. \A x \in Mutexes : holder[x] # NoProc => holder[x] \in Procs \ {p} /\ x # mu[p]
  BY <1>a DEF Types, MutexInv, Held
<1>f. p # NoProc /\ \A q \in Procs : mu[q] \in Mutexes \cup {0}
  BY DEF Types
<1>1. Held'
  <2>1. \A q \in Procs :
       /\ pc'[q] \in {"lock", "in"} => mu'[q] # 0
       /\ pc'[q] \notin {"lock", "in", "commit"} => mu'[q] = 0
    BY <1>a, <1>b, <1>c DEF MutexInv, Held
  <2>2. ASSUME NEW q \in Procs, pc'[q] \in {"in", "commit"}, mu'[q] # 0
        PROVE  holder'[mu'[q]] = q
    <3>1. CASE q = p
      BY <3>1, <1>b, <1>d
    <3>2. CASE q # p
      <4>1. holder[mu[q]] = q /\ mu[q] \in Mutexes
        BY <2>2, <3>2, <1>b, <1>c, <1>f DEF MutexInv, Held
      <4> QED
        BY <4>1, <1>a, <1>b, <1>d, ManifestAssumption
    <3> QED
      BY <3>1, <3>2
  <2>3. \A x \in Mutexes : holder'[x] # NoProc =>
       pc'[holder'[x]] \in {"in", "commit"} /\ mu'[holder'[x]] = x
    BY <1>b, <1>c, <1>d, <1>e DEF MutexInv, Held
  <2> QED
    BY <2>1, <2>2, <2>3 DEF Held
<1>2. OneManifest'
  BY <1>b DEF MutexInv, OneManifest
<1>3. Current'
  <2>1. ASSUME NEW q \in Procs, pc'[q] \in {"lock", "in"}, metadata'[op'[q].m] = "live"
        PROVE  mu'[q] = locks'[op'[q].m] \/ (holder'[mu'[q]] # NoProc /\ pc'[holder'[mu'[q]]] = "commit")
    <3>1. pc[q] \in {"lock", "in"} /\ metadata[op[q].m] = "live"
      BY <2>1, <1>a, <1>b, <1>c
    <3>2. mu[q] \in Mutexes
      BY <3>1, <1>f DEF MutexInv, Held
    <3>3. CASE mu[q] = locks[op[q].m]
      BY <3>3, <1>b
    <3>4. CASE holder[mu[q]] # NoProc /\ pc[holder[mu[q]]] = "commit"
      BY <3>2, <3>4, <1>b, <1>c, <1>d, <1>e
    <3> QED
      BY <3>1, <3>3, <3>4 DEF MutexInv, Current
  <2>2. \A q \in Procs : pc'[q] = "forget" => metadata'[op'[q].m] # "live"
    BY <1>b, <1>c DEF MutexInv, Current
  <2> QED
    BY <2>1, <2>2 DEF Current
<1> QED
  BY <1>1, <1>2, <1>3 DEF MutexInv

\* The manifest is gone: the mutex is given back, ...
LEMMA FailKeeps ==
  ASSUME Types, Arguments, MutexInv, NEW p \in Procs, LockFails(p)
  PROVE  MutexInv'
<1>a. pc[p] = "lock" /\ metadata[op[p].m] # "live"
  BY DEF LockFails
<1>b. UNCHANGED <<locks, holder, op, metadata>>
  BY DEF LockFails, dbVars
<1>c. pc'[p] = "forget" /\ \A q \in Procs : q # p => pc'[q] = pc[q]
  BY DEF LockFails, Goto, Types
<1>d. mu'[p] = 0 /\ \A q \in Procs : q # p => mu'[q] = mu[q]
  BY DEF LockFails, Types
<1>e. \A x \in Mutexes : holder[x] # NoProc => holder[x] \in Procs \ {p}
  BY <1>a DEF Types, MutexInv, Held
<1>1. Held'
  BY <1>b, <1>c, <1>d, <1>e DEF MutexInv, Held
<1>2. OneManifest'
  BY <1>b, <1>d DEF MutexInv, OneManifest
<1>3. Current'
  <2>1. \A q \in Procs : pc[q] \in {"lock", "in"} => mu[q] \in Mutexes
    BY DEF MutexInv, Held, Types
  <2> QED
    BY <1>a, <1>b, <1>c, <1>d, <1>e, <2>1 DEF MutexInv, Current
<1> QED
  BY <1>1, <1>2, <1>3 DEF MutexInv

\* ... and the entry removed: whoever has a mutex of a manifest that exists is
\* not concerned.
LEMMA ForgetKeeps ==
  ASSUME Types, Arguments, MutexInv, NEW p \in Procs, ForgetMutex(p)
  PROVE  MutexInv'
<1>a. pc[p] = "forget" /\ metadata[op[p].m] # "live" /\ mu[p] = 0 /\ op[p].m \in Manifests
  BY DEF ForgetMutex, MutexInv, Held, Current, Arguments
<1>b. UNCHANGED <<holder, mu, metadata>>
  BY DEF ForgetMutex, dbVars
<1>c. pc'[p] \in {"idle", "commit"}
      /\ \A q \in Procs : q # p => pc'[q] = pc[q] /\ op'[q] = op[q]
  BY DEF ForgetMutex, Goto, Finish, Types
<1>d. locks'[op[p].m] = 0 /\ \A n \in Manifests : n # op[p].m => locks'[n] = locks[n]
  BY <1>a DEF ForgetMutex, Types
<1>e. \A x \in Mutexes : holder[x] # NoProc => holder[x] \in Procs \ {p}
  BY <1>a DEF Types, MutexInv, Held
<1>1. Held'
  BY <1>a, <1>b, <1>c, <1>e DEF MutexInv, Held
<1>2. OneManifest'
  BY <1>a, <1>b, <1>c, <1>d DEF MutexInv, OneManifest
<1>3. Current'
  <2>1. \A q \in Procs : pc[q] \in {"lock", "in"} => mu[q] \in Mutexes /\ op[q].m \in Manifests
    BY DEF MutexInv, Held, Types, Arguments
  <2> QED
    BY <1>a, <1>b, <1>c, <1>d, <1>e, <2>1 DEF MutexInv, Current
<1> QED
  BY <1>1, <1>2, <1>3 DEF MutexInv

\* DeleteManifest drops the mutex it holds: whoever waits for it now waits for a
\* call about to delete the manifest.
LEMMA DropKeeps ==
  ASSUME Types, Arguments, MutexInv, NEW p \in Procs, DropMutex(p)
  PROVE  MutexInv'
<1> USE ManifestAssumption
<1>a. pc[p] = "in" /\ op[p].m \in Manifests /\ mu[p] \in Mutexes /\ holder[mu[p]] = p
  BY DEF DropMutex, MutexInv, Held, Arguments, Types
<1>b. UNCHANGED <<holder, mu, op, metadata>>
  BY DEF DropMutex, dbVars
<1>c. pc'[p] = "commit" /\ \A q \in Procs : q # p => pc'[q] = pc[q]
  BY DEF DropMutex, Goto, Types
<1>d. locks'[op[p].m] = 0 /\ \A n \in Manifests : n # op[p].m => locks'[n] = locks[n]
  BY <1>a DEF DropMutex, Types
<1>e. p # NoProc /\ \A x \in Mutexes : holder[x] # NoProc => holder[x] \in Procs
  BY DEF Types
<1>1. Held'
  BY <1>a, <1>b, <1>c, <1>e DEF MutexInv, Held
<1>2. OneManifest'
  BY <1>a, <1>b, <1>d DEF MutexInv, OneManifest
<1>3. Current'
  <2>1. ASSUME NEW q \in Procs, pc'[q] \in {"lock", "in"}, metadata'[op'[q].m] = "live"
        PROVE  mu'[q] = locks'[op'[q].m] \/ (holder'[mu'[q]] # NoProc /\ pc'[holder'[mu'[q]]] = "commit")
    <3>1. q # p /\ pc[q] \in {"lock", "in"} /\ metadata[op[q].m] = "live"
      BY <2>1, <1>b, <1>c
    <3>2. mu[q] \in Mutexes /\ op[q].m \in Manifests
      BY <3>1 DEF MutexInv, Held, Types, Arguments
    <3>3. CASE holder[mu[q]] # NoProc /\ pc[holder[mu[q]]] = "commit"
      BY <3>2, <3>3, <1>b, <1>c, <1>e
    <3>4. CASE mu[q] = locks[op[q].m] /\ op[q].m # op[p].m
      BY <3>2, <3>4, <1>b, <1>d
    <3>5. CASE mu[q] = locks[op[q].m] /\ op[q].m = op[p].m
      <4>1. mu[p] = locks[op[p].m]
        BY <3>1, <3>5, <1>a DEF MutexInv, Current
      <4> QED
        BY <4>1, <3>5, <1>a, <1>b, <1>c, <1>e
    <3> QED
      BY <3>1, <3>3, <3>4, <3>5 DEF MutexInv, Current
  <2>2. \A q \in Procs : pc'[q] = "forget" => metadata'[op'[q].m] # "live"
    BY <1>b, <1>c DEF MutexInv, Current
  <2> QED
    BY <2>1, <2>2 DEF Current
<1> QED
  BY <1>1, <1>2, <1>3 DEF MutexInv

LEMMA StepKeepsMutexes ==
  ASSUME Types, Arguments, Known, MutexInv, NEW p \in Procs, Step(p)
  PROVE  MutexInv'
<1>a. op[p].m \in Manifests
  BY StepStays DEF Arguments
<1>1. CASE LoadMutex(p) \/ LockMutex(p) \/ LockFails(p) \/ ForgetMutex(p) \/ DropMutex(p)
  BY <1>1, LoadKeeps, LockKeeps, FailKeeps, ForgetKeeps, DropKeeps
<1>2. CASE CommitDelete(p)
  <2>1. pc[p] = "commit" /\ Unlock(p) /\ UNCHANGED locks
    BY <1>2 DEF CommitDelete
  <2>2. pc'[p] \in Outer /\ \A q \in Procs : q # p => pc'[q] = pc[q] /\ op'[q] = op[q]
    BY <1>2 DEF CommitDelete, Finish, Goto, Types, Outer
  <2>3. metadata'[op[p].m] = "gone" /\ \A m \in Manifests : metadata'[m] = "live" => metadata[m] = "live"
    BY <1>2, <1>a DEF CommitDelete, Types
  <2> QED
    BY <2>1, <2>2, <2>3, LeavingKeeps
<1>3. CASE InitUpload(p) \/ UploadCheck(p) \/ UploadAdd(p) \/ DeleteFileInManifest(p)
  <2>1. pc[p] = "in" /\ Unlock(p) /\ UNCHANGED <<locks, metadata>>
    BY <1>3 DEF InitUpload, UploadCheck, UploadAdd, DeleteFileInManifest, dbVars
  <2>2. pc'[p] \in Outer /\ \A q \in Procs : q # p => pc'[q] = pc[q] /\ op'[q] = op[q]
    BY <1>3 DEF InitUpload, UploadCheck, UploadAdd, DeleteFileInManifest, Finish, Goto, Types, Outer
  <2> QED
    BY <2>1, <2>2, LeavingKeeps
<1>4. CASE UploadPut(p) \/ Unlink(p) \/ CreateSubmission(p)
  <2>1. UNCHANGED lockVars /\ UNCHANGED metadata
    BY <1>4 DEF UploadPut, Unlink, CreateSubmission, dbVars
  <2>2. pc[p] \in Outer /\ pc'[p] \in Outer /\ \A q \in Procs : q # p => pc'[q] = pc[q] /\ op'[q] = op[q]
    BY <1>4 DEF UploadPut, Unlink, CreateSubmission, Finish, Goto, Types, Outer
  <2> QED
    BY <2>1, <2>2, OutsideKeeps
<1> QED
  BY <1>1, <1>2, <1>3, <1>4 DEF Step

\* A call that begins is outside.
LEMMA BeginKeepsMutexes ==
  ASSUME Types, Arguments, Known, MutexInv, NEW p \in Procs, NEW l \in {"load", "create"}, NEW o,
         pc[p] = "idle", op' = [op EXCEPT ![p] = o], Goto(p, l), UNCHANGED <<dbVars, lockVars>>
  PROVE  MutexInv'
<1>1. pc[p] \in Outer /\ pc'[p] \in Outer /\ \A q \in Procs : q # p => pc'[q] = pc[q] /\ op'[q] = op[q]
  BY DEF Goto, Types, Outer
<1>2. UNCHANGED lockVars /\ UNCHANGED metadata
  BY DEF dbVars
<1> QED
  BY <1>1, <1>2, OutsideKeeps

LEMMA NextKeepsMutexes ==
  ASSUME Types, Arguments, Known, Batches, MutexInv, [Next]_vars
  PROVE  MutexInv'
<1> USE ManifestAssumption
<1>a. GC \in Procs /\ Calls \subseteq Procs
  BY DEF Procs
<1>1. CASE CreateManifest
  <2>1. PICK m \in Manifests : GetNextId(m) /\ metadata' = [metadata EXCEPT ![m] = "live"]
    BY <1>1 DEF CreateManifest
  <2>2. metadata[m] = "none"
    BY <2>1 DEF GetNextId, Batches, Types, Manifests
  <2>3. \A n \in Manifests : metadata'[n] # metadata[n] => metadata[n] = "none"
    BY <2>1, <2>2 DEF Types
  <2>4. UNCHANGED lockVars /\ UNCHANGED <<pc, op>>
    BY <1>1 DEF CreateManifest
  <2> QED
    BY <2>3, <2>4, OutsideKeeps
<1>2. CASE NextBatch \/ (\E m \in Manifests : Expire(m)) \/ UNCHANGED vars
  <2>1. UNCHANGED lockVars /\ UNCHANGED <<pc, op, metadata>>
    BY <1>2 DEF NextBatch, Expire, vars, dbVars
  <2> QED
    BY <2>1, OutsideKeeps
<1>3. CASE Restart
  <2>1. /\ \A m \in Manifests : locks'[m] = 0
        /\ \A x \in Mutexes : holder'[x] = NoProc
        /\ \A p \in Procs : mu'[p] = 0 /\ pc'[p] = "idle"
    BY <1>3 DEF Restart
  <2> QED
    BY <2>1 DEF MutexInv, Held, OneManifest, Current
<1>4. CASE Sweep
  <2>1. pc[GC] \in Outer /\ pc'[GC] \in Outer
        /\ \A q \in Procs : q # GC => pc'[q] = pc[q] /\ op'[q] = op[q]
    BY <1>4, <1>a DEF Sweep, Finish, Goto, Types, Outer
  <2>2. UNCHANGED lockVars /\ UNCHANGED metadata
    BY <1>4 DEF Sweep, dbVars
  <2> QED
    BY <2>1, <2>2, OutsideKeeps
<1>6. CASE \E m \in Manifests : GarbageCollect(m)
  BY <1>6, <1>a, CollectArguments, BeginKeepsMutexes
<1>7. CASE \E p \in Calls : CallBegins(p)
  BY <1>7, <1>a, BeginArguments, BeginKeepsMutexes
<1>8. CASE \E p \in Procs : Step(p)
  BY <1>8, StepKeepsMutexes
<1> QED
  BY <1>1, <1>2, <1>3, <1>4, <1>6, <1>7, <1>8 DEF Next, CallBegins

LEMMA InitMutexes == Init => MutexInv
  BY DEF Init, MutexInv, Held, OneManifest, Current

LEMMA MutexInvariant == Spec => [](IdInv /\ MutexInv)
<1>1. Init => MutexInv
  BY InitMutexes
<1>2. IdInv /\ MutexInv /\ [Next]_vars => MutexInv'
  BY NextKeepsMutexes DEF IdInv
<1> QED
  BY <1>1, <1>2, IdInvariant, PTL DEF Spec

\* LockManifest keeps the calls about a manifest apart while the manifest exists,
\* for any number of calls and manifests, although DeleteManifest and a failed
\* LockManifest take the mutex out of the map while others wait for it.
THEOREM ExclusiveSections == Spec => []OneInSection
<1>1. IdInv /\ MutexInv => OneInSection
  <2> SUFFICES ASSUME IdInv, MutexInv, NEW p \in Procs, NEW q \in Procs, Section(p), Section(q),
                      op[p].m = op[q].m, metadata[op[p].m] = "live"
               PROVE  p = q
    BY DEF OneInSection
  <2>1. holder[mu[p]] = p /\ holder[mu[q]] = q
    BY DEF MutexInv, Held, Section
  <2>2. mu[p] = locks[op[p].m] /\ mu[q] = locks[op[q].m]
    BY <2>1 DEF MutexInv, Current, Section
  <2> QED
    BY <2>1, <2>2
<1> QED
  BY <1>1, MutexInvariant, PTL

\* Nobody waits in LockManifest for a mutex that nobody will unlock: it is held
\* by a call between LockManifest and Unlock, however often mutexes were dropped.
THEOREM HeldMutexesRun == Spec => []HolderRuns
<1>1. IdInv /\ MutexInv => HolderRuns
  <2> SUFFICES ASSUME IdInv, MutexInv, NEW p \in Procs, pc[p] = "lock", holder[mu[p]] # NoProc
               PROVE  pc[holder[mu[p]]] \in {"in", "commit"} /\ mu[holder[mu[p]]] = mu[p]
    BY DEF HolderRuns
  <2>1. mu[p] \in Mutexes
    BY DEF MutexInv, Held, IdInv, Types
  <2> QED
    BY <2>1 DEF MutexInv, Held
<1> QED
  BY <1>1, MutexInvariant, PTL

-----------------------------------------------------------------------------
(* Manifests that became submissions *)

SubmissionRecords == [m : Manifests, files : SUBSET Files]

\* Submissions are made of manifests, and only calls make them.
Submitters ==
  /\ submissions \in Seq(SubmissionRecords)
  /\ restarts \in Nat
  /\ \A p \in Procs : op[p].kind = "submit" => p \in Calls

\* A step that leaves the submissions alone, and a call that is submitting too
\* unless its manifest is gone.
LEMMA HandedOverKeeps ==
  ASSUME Types, Submitters, HandedOver, UNCHANGED submissions,
         restarts' \in Nat, restarts' >= restarts,
         \A m \in Manifests : metadata[m] = "gone" => metadata'[m] = "gone",
         \A p \in Calls : op[p].kind = "submit" =>
           \/ op'[p].kind = "submit" /\ op'[p].m = op[p].m
           \/ metadata'[op[p].m] = "gone" \/ restarts' > 0
  PROVE  HandedOver'
<1> SUFFICES ASSUME NEW i \in DOMAIN submissions
             PROVE  \/ metadata'[submissions[i].m] = "gone" \/ restarts' > 0
                    \/ \E p \in Calls : op'[p].kind = "submit" /\ op'[p].m = submissions[i].m
  BY DEF HandedOver
<1>1. submissions[i].m \in Manifests
  <2>1. submissions[i] \in SubmissionRecords
    BY DEF Submitters
  <2> QED
    BY <2>1 DEF SubmissionRecords
<1> QED
  BY <1>1 DEF HandedOver, Submitters

\* The kind of a call stays, but for an upload that goes on to add its file, or
\* the call ends; a submission ends when the manifest is gone.
LEMMA StepKinds ==
  ASSUME Types, Arguments, Known, MutexInv, NEW p \in Procs, Step(p)
  PROVE  /\ \A q \in Procs : op'[q].kind = "submit" => op[q].kind = "submit"
         /\ \A q \in Procs : op[q].kind = "submit" =>
              \/ op'[q].kind = "submit" /\ op'[q].m = op[q].m
              \/ op[q].m \in Manifests /\ metadata'[op[q].m] = "gone"
<1>1. CASE UNCHANGED op
  BY <1>1
<1>2. CASE CommitDelete(p)
  <2>1. op[p].m \in Manifests /\ metadata'[op[p].m] = "gone"
    BY <1>2 DEF CommitDelete, Types, Arguments
  <2>2. op'[p].kind \in {"none", op[p].kind} /\ \A q \in Procs : q # p => op'[q] = op[q]
    <3>1. CASE UNCHANGED op
      BY <3>1
    <3>2. CASE op' = [op EXCEPT ![p] = NoOp]
      BY <3>2 DEF Types, NoOp
    <3> QED
      BY <1>2, <3>1, <3>2 DEF CommitDelete, Finish
  <2> QED
    BY <2>1, <2>2
<1>3. CASE op[p].kind # "submit" /\ op' = [op EXCEPT ![p] = NoOp]
  <2>1. op'[p].kind = "none" /\ \A q \in Procs : q # p => op'[q] = op[q]
    BY <1>3 DEF Types, NoOp
  <2> QED
    BY <1>3, <2>1
<1>4. CASE UploadPut(p)
  <2>1. op[p].kind = "upload" /\ op[p] \in OpRecords
    BY <1>4 DEF UploadPut, Arguments, Types
  <2>2. op' = [op EXCEPT ![p] = [op[p] EXCEPT !.kind = "add"]]
    BY <1>4 DEF UploadPut
  <2>3. op'[p].kind = "add" /\ \A q \in Procs : q # p => op'[q] = op[q]
    BY <2>1, <2>2 DEF Types, OpRecords
  <2> QED
    BY <2>1, <2>3
<1>5. CASE ForgetMutex(p)
  BY <1>5, <1>1, <1>3 DEF ForgetMutex, Finish, Deleting
<1>6. CASE InitUpload(p) \/ UploadCheck(p) \/ UploadAdd(p) \/ Unlink(p)
  <2>1. op[p].kind # "submit"
    BY <1>6 DEF InitUpload, UploadCheck, UploadAdd, Unlink, Arguments
  <2> QED
    BY <1>6, <2>1, <1>1, <1>3 DEF InitUpload, UploadCheck, UploadAdd, Unlink, Finish
<1> QED
  BY <1>1, <1>2, <1>4, <1>5, <1>6
     DEF Step, LoadMutex, LockMutex, LockFails, DropMutex, DeleteFileInManifest, CreateSubmission

LEMMA NextKeepsHandedOver ==
  ASSUME Types, Arguments, Known, Batches, MutexInv, Submitters, HandedOver, [Next]_vars
  PROVE  Submitters' /\ HandedOver'
<1> USE ManifestAssumption
<1>a. GC \in Procs /\ Calls \subseteq Procs /\ GC \notin Calls
  BY DEF Procs
<1>b. restarts \in Nat /\ submissions \in Seq(SubmissionRecords)
  BY DEF Submitters
<1>1. CASE CreateManifest
  <2>1. PICK m \in Manifests : GetNextId(m) /\ metadata' = [metadata EXCEPT ![m] = "live"]
    BY <1>1 DEF CreateManifest
  <2>2. metadata[m] = "none"
    BY <2>1 DEF GetNextId, Batches, Types, Manifests
  <2>3. \A n \in Manifests : metadata[n] = "gone" => metadata'[n] = "gone"
    BY <2>1, <2>2 DEF Types
  <2>4. UNCHANGED <<submissions, restarts, op>>
    BY <1>1 DEF CreateManifest
  <2> QED
    BY <1>b, <2>3, <2>4, HandedOverKeeps DEF Submitters
<1>2. CASE NextBatch \/ (\E m \in Manifests : Expire(m)) \/ UNCHANGED vars
  <2>1. UNCHANGED <<submissions, restarts, op, metadata>>
    BY <1>2 DEF NextBatch, Expire, vars, dbVars
  <2> QED
    BY <1>b, <2>1, HandedOverKeeps DEF Submitters
<1>3. CASE Restart
  <2>1. restarts' = restarts + 1 /\ UNCHANGED <<submissions, metadata>>
        /\ \A p \in Procs : op'[p].kind = "none"
    BY <1>3 DEF Restart, dbVars, NoOp
  <2> QED
    BY <1>b, <2>1, HandedOverKeeps DEF Submitters
<1>4. CASE Sweep
  <2>1. UNCHANGED <<submissions, restarts, metadata>>
        /\ op'[GC].kind = "none" /\ \A q \in Procs : q # GC => op'[q] = op[q]
    BY <1>4, <1>a DEF Sweep, Finish, Types, NoOp, dbVars
  <2> QED
    BY <1>a, <1>b, <2>1, HandedOverKeeps DEF Submitters
<1>6. CASE \E m \in Manifests : GarbageCollect(m)
  <2>1. PICK o \in OpRecords : /\ o.kind = "gc" /\ op' = [op EXCEPT ![GC] = o]
                               /\ UNCHANGED <<submissions, restarts, metadata>>
    BY <1>6, CollectArguments DEF dbVars
  <2>2. op'[GC].kind = "gc" /\ \A q \in Procs : q # GC => op'[q] = op[q]
    BY <2>1, <1>a DEF Types
  <2> QED
    BY <1>a, <1>b, <2>1, <2>2, HandedOverKeeps DEF Submitters
<1>7. CASE \E p \in Calls : CallBegins(p)
  <2>1. PICK p \in Calls : CallBegins(p)
    BY <1>7
  <2>2. PICK o \in OpRecords : /\ pc[p] = "idle" /\ op' = [op EXCEPT ![p] = o]
                               /\ UNCHANGED <<submissions, restarts, metadata>>
    BY <2>1, BeginArguments DEF dbVars
  <2>3. op[p].kind = "none" /\ \A q \in Procs : q # p => op'[q] = op[q]
    BY <2>2, <1>a DEF Types, Arguments
  <2> QED
    BY <1>a, <1>b, <2>2, <2>3, HandedOverKeeps DEF Submitters
<1>8. CASE \E p \in Procs : Step(p)
  <2>1. PICK p \in Procs : Step(p)
    BY <1>8
  <2>2. UNCHANGED restarts
    BY <2>1 DEF Step, LoadMutex, LockMutex, LockFails, ForgetMutex, DropMutex, CommitDelete, InitUpload,
         UploadCheck, UploadPut, UploadAdd, DeleteFileInManifest, Unlink, CreateSubmission
  <2>3. \A m \in Manifests : metadata[m] = "gone" => metadata'[m] = "gone"
    BY <2>1, StepWrites
  <2>4. CASE UNCHANGED submissions
    BY <1>a, <1>b, <2>1, <2>2, <2>3, <2>4, StepKinds, HandedOverKeeps DEF Submitters
  <2>5. CASE CreateSubmission(p)
    <3> DEFINE s == [m |-> op[p].m, files |-> op[p].files]
    <3>1. op[p].kind = "submit" /\ op[p].m \in Manifests /\ op[p] \in OpRecords
      BY <2>5 DEF CreateSubmission, Arguments, Types
    <3>2. s \in SubmissionRecords /\ s.m = op[p].m
      BY <3>1 DEF OpRecords, SubmissionRecords
    <3>3. submissions' = Append(submissions, s) /\ UNCHANGED <<op, metadata>>
      BY <2>5 DEF CreateSubmission, dbVars
    <3> HIDE DEF s
    <3>4. p \in Calls
      BY <3>1 DEF Submitters
    <3>5. submissions' \in Seq(SubmissionRecords)
      BY <1>b, <3>2, <3>3
    <3>6. ASSUME NEW i \in DOMAIN submissions'
          PROVE  \/ metadata[submissions'[i].m] = "gone" \/ restarts > 0
                 \/ \E q \in Calls : op[q].kind = "submit" /\ op[q].m = submissions'[i].m
      <4>1. CASE i \in DOMAIN submissions
        <5>1. submissions'[i] = submissions[i]
          BY <1>b, <3>2, <3>3, <4>1
        <5> QED
          BY <5>1, <4>1 DEF HandedOver
      <4>2. CASE i \notin DOMAIN submissions
        <5>1. submissions'[i] = s
          BY <1>b, <3>2, <3>3, <4>2
        <5> QED
          BY <5>1, <3>1, <3>2, <3>4
      <4> QED
        BY <4>1, <4>2
    <3>7. HandedOver'
      BY <2>2, <3>3, <3>6 DEF HandedOver
    <3> QED
      BY <3>3, <3>5, <3>7, <2>2 DEF Submitters
  <2> QED
    BY <2>1, <2>4, <2>5 DEF Step, LoadMutex, LockMutex, LockFails, ForgetMutex, DropMutex, CommitDelete,
         InitUpload, UploadCheck, UploadPut, UploadAdd, DeleteFileInManifest, Unlink
<1> QED
  BY <1>1, <1>2, <1>3, <1>4, <1>6, <1>7, <1>8 DEF Next, CallBegins

LEMMA SubmitterInvariant == Spec => [](Submitters /\ HandedOver)
<1>1. Init => Submitters /\ HandedOver
  <2> SUFFICES ASSUME Init PROVE Submitters /\ HandedOver
    OBVIOUS
  <2>1. submissions = <<>> /\ restarts = 0 /\ \A p \in Procs : op[p].kind = "none"
    BY DEF Init, NoOp
  <2> QED
    BY <2>1 DEF Submitters, HandedOver
<1>2. IdInv /\ MutexInv /\ Submitters /\ HandedOver /\ [Next]_vars => Submitters' /\ HandedOver'
  BY NextKeepsHandedOver DEF IdInv
<1> QED
  BY <1>1, <1>2, MutexInvariant, PTL DEF Spec

\* CreateSubmission takes over the manifest's directory and then deletes the
\* manifest: the garbage collector finds it again only when the server stopped
\* between the two, however calls, uploads and the collector interleave.
THEOREM SubmittedIsHandedOver == Spec => []HandedOver
BY SubmitterInvariant, PTL

-----------------------------------------------------------------------------
(* Bytes *)

\* n bytes are n.
LEMMA BytesCount ==
  ASSUME NEW x, NEW n \in Nat
  PROVE  IsFiniteSet(Bytes(x, n)) /\ Cardinality(Bytes(x, n)) = n
<1>1. IsFiniteSet({x}) /\ Cardinality({x}) = 1
  BY FS_Singleton
<1>2. IsFiniteSet(1..n) /\ Cardinality(1..n) = n
  BY FS_Interval
<1>3. /\ IsFiniteSet({x} \X (1..n))
      /\ Cardinality({x} \X (1..n)) = Cardinality({x}) * Cardinality(1..n)
  BY <1>1, <1>2, FS_Product, Zenon
<1>4. Cardinality({x} \X (1..n)) = n
  BY <1>1, <1>2, <1>3
<1> QED
  BY <1>3, <1>4 DEF Bytes

LEMMA BytesOf ==
  \A x, n, b : b \in Bytes(x, n) <=> b = <<x, b[2]>> /\ b[2] \in 1..n
  BY DEF Bytes

\* Taking n bytes away from a set that has them, and adding n bytes to a set.
LEMMA BytesTaken ==
  ASSUME NEW S, IsFiniteSet(S), NEW x, NEW n \in Nat, Bytes(x, n) \subseteq S
  PROVE  IsFiniteSet(S \ Bytes(x, n)) /\ Cardinality(S \ Bytes(x, n)) = Cardinality(S) - n
<1>1. S \cap Bytes(x, n) = Bytes(x, n)
  OBVIOUS
<1>2. /\ IsFiniteSet(S \ Bytes(x, n))
      /\ Cardinality(S \ Bytes(x, n)) = Cardinality(S) - Cardinality(S \cap Bytes(x, n))
  BY FS_Difference, Zenon
<1> QED
  BY <1>1, <1>2, BytesCount

LEMMA BytesAdded ==
  ASSUME NEW S, IsFiniteSet(S), NEW x, NEW n \in Nat
  PROVE  IsFiniteSet(S \cup Bytes(x, n)) /\ Cardinality(S \cup Bytes(x, n)) <= Cardinality(S) + n
<1>1. IsFiniteSet(Bytes(x, n)) /\ Cardinality(Bytes(x, n)) = n
  BY BytesCount
<1>2. Cardinality(S \cap Bytes(x, n)) \in Nat
  BY FS_Intersection, FS_CardinalityType
<1>3. IsFiniteSet(S \cup Bytes(x, n))
      /\ Cardinality(S \cup Bytes(x, n)) = Cardinality(S) + n - Cardinality(S \cap Bytes(x, n))
  BY <1>1, FS_Union
<1> QED
  BY <1>2, <1>3, FS_CardinalityType

-----------------------------------------------------------------------------
(* The counter of a manifest *)

\* The counter covers what is recorded in the manifest, whether or not it exists.
Covered(m) ==
  IsFiniteSet(RecordedBytes(m)) /\ counter[m] >= Cardinality(RecordedBytes(m))

CounterInv == \A m \in Manifests : Covered(m)

LEMMA RecordedBytesOf ==
  ASSUME NEW m, NEW b
  PROVE  b \in RecordedBytes(m) <=>
           b = <<b[1], b[2]>> /\ b[1] \in Files /\ b[2] \in 1..recorded[m][b[1]]
<1>1. b \in RecordedBytes(m) <=> \E f \in Files : b = <<f, b[2]>> /\ b[2] \in 1..recorded[m][f]
  BY BytesOf DEF RecordedBytes
<1> QED
  BY <1>1

\* The entry of one file becomes z.
LEMMA EntryCount ==
  ASSUME Types, CounterInv, NEW m \in Manifests, NEW f \in Files, NEW z \in Nat,
         recorded' = [recorded EXCEPT ![m][f] = z]
  PROVE  /\ IsFiniteSet(RecordedBytes(m)')
         /\ Cardinality(RecordedBytes(m)') <= Cardinality(RecordedBytes(m)) - recorded[m][f] + z
         /\ \A n \in Manifests : n # m => RecordedBytes(n)' = RecordedBytes(n)
<1> DEFINE S == RecordedBytes(m)
           T == S \ Bytes(f, recorded[m][f])
<1>1. recorded[m][f] \in Nat /\ recorded'[m][f] = z
      /\ \A g \in Files : g # f => recorded'[m][g] = recorded[m][g]
  BY DEF Types
<1>2. IsFiniteSet(S)
  BY DEF CounterInv, Covered
<1>3. Bytes(f, recorded[m][f]) \subseteq S
  BY DEF RecordedBytes
<1>4. IsFiniteSet(T) /\ Cardinality(T) = Cardinality(S) - recorded[m][f]
  BY <1>1, <1>2, <1>3, BytesTaken
<1>5. RecordedBytes(m)' = T \cup Bytes(f, z)
  <2>1. ASSUME NEW b PROVE b \in RecordedBytes(m)' <=> b \in T \cup Bytes(f, z)
    <3>1. b \in RecordedBytes(m)' <=>
            b = <<b[1], b[2]>> /\ b[1] \in Files /\ b[2] \in 1..recorded'[m][b[1]]
      <4>1. b \in RecordedBytes(m)' <=> \E g \in Files : b = <<g, b[2]>> /\ b[2] \in 1..recorded'[m][g]
        BY BytesOf DEF RecordedBytes
      <4> QED
        BY <4>1
    <3>2. b \in S <=> b = <<b[1], b[2]>> /\ b[1] \in Files /\ b[2] \in 1..recorded[m][b[1]]
      BY RecordedBytesOf
    <3>3. b \in Bytes(f, recorded[m][f]) <=> b = <<f, b[2]>> /\ b[2] \in 1..recorded[m][f]
      BY BytesOf
    <3>4. b \in Bytes(f, z) <=> b = <<f, b[2]>> /\ b[2] \in 1..z
      BY BytesOf
    <3> HIDE DEF S
    <3>5. CASE b[1] = f
      BY <3>1, <3>2, <3>3, <3>4, <3>5, <1>1
    <3>6. CASE b[1] # f
      <4>1. b # <<f, b[2]>>
        BY <3>6
      <4> QED
        BY <3>1, <3>2, <3>3, <3>4, <3>6, <4>1, <1>1
    <3> QED
      BY <3>5, <3>6
  <2> QED
    BY <2>1
<1> HIDE DEF S, T
<1>6. IsFiniteSet(T \cup Bytes(f, z)) /\ Cardinality(T \cup Bytes(f, z)) <= Cardinality(T) + z
  BY <1>4, BytesAdded
<1>7. \A n \in Manifests : n # m => RecordedBytes(n)' = RecordedBytes(n)
  BY DEF RecordedBytes, Types
<1>8. IsFiniteSet(RecordedBytes(m)') /\ Cardinality(RecordedBytes(m)') <= Cardinality(S) - recorded[m][f] + z
  BY <1>4, <1>5, <1>6
<1> QED
  BY <1>7, <1>8 DEF S

LEMMA DeleteEntryCovers ==
  ASSUME Types, CounterInv, NEW m \in Manifests, NEW f \in Files, DeleteFileEntry(m, f)
  PROVE  CounterInv'
<1>1. /\ IsFiniteSet(RecordedBytes(m)')
      /\ Cardinality(RecordedBytes(m)') <= Cardinality(RecordedBytes(m)) - recorded[m][f]
      /\ \A n \in Manifests : n # m => RecordedBytes(n)' = RecordedBytes(n)
  <2>1. recorded' = [recorded EXCEPT ![m][f] = 0] /\ 0 \in Nat
    BY DEF DeleteFileEntry
  <2>2. IsFiniteSet(RecordedBytes(m)) /\ recorded[m][f] \in Nat
    BY DEF CounterInv, Covered, Types
  <2>3. Cardinality(RecordedBytes(m)) \in Nat
    BY <2>2, FS_CardinalityType
  <2>4. Cardinality(RecordedBytes(m)) - recorded[m][f] + 0 = Cardinality(RecordedBytes(m)) - recorded[m][f]
    BY <2>2, <2>3
  <2> QED
    BY <2>1, <2>4, EntryCount
<1>2. counter'[m] = counter[m] - recorded[m][f] /\ counter[m] \in Int /\ recorded[m][f] \in Nat
      /\ \A n \in Manifests : n # m => counter'[n] = counter[n]
  BY DEF DeleteFileEntry, Types
<1>3. Cardinality(RecordedBytes(m)') \in Nat /\ Cardinality(RecordedBytes(m)) \in Nat
  BY <1>1, FS_CardinalityType DEF CounterInv, Covered
<1>4. counter[m] >= Cardinality(RecordedBytes(m))
  BY DEF CounterInv, Covered
<1>5. counter'[m] >= Cardinality(RecordedBytes(m)')
  BY <1>1, <1>2, <1>3, <1>4
<1> QED
  BY <1>1, <1>2, <1>5 DEF CounterInv, Covered

LEMMA AddFileCovers ==
  ASSUME Types, CounterInv, NEW m \in Manifests, NEW f \in Files, NEW z \in Nat,
         AddFileToManifest(m, f, z)
  PROVE  CounterInv'
<1>1. /\ IsFiniteSet(RecordedBytes(m)')
      /\ Cardinality(RecordedBytes(m)') <= Cardinality(RecordedBytes(m)) - recorded[m][f] + z
      /\ \A n \in Manifests : n # m => RecordedBytes(n)' = RecordedBytes(n)
  BY EntryCount DEF AddFileToManifest
<1>2. counter'[m] = counter[m] + z /\ counter[m] \in Int /\ recorded[m][f] \in Nat
      /\ \A n \in Manifests : n # m => counter'[n] = counter[n]
  BY DEF AddFileToManifest, Types
<1>3. Cardinality(RecordedBytes(m)') \in Nat /\ Cardinality(RecordedBytes(m)) \in Nat
  BY <1>1, FS_CardinalityType DEF CounterInv, Covered
<1>4. counter[m] >= Cardinality(RecordedBytes(m))
  BY DEF CounterInv, Covered
<1>5. counter'[m] >= Cardinality(RecordedBytes(m)')
  BY <1>1, <1>2, <1>3, <1>4
<1> QED
  BY <1>1, <1>2, <1>5 DEF CounterInv, Covered

LEMMA CommitCovers ==
  ASSUME Types, CounterInv, NEW p \in Procs, NEW m \in Manifests, op[p].m = m, CommitDelete(p)
  PROVE  CounterInv'
<1>1. counter'[m] = 0 /\ \A f \in Files : recorded'[m][f] = 0
  BY DEF CommitDelete, Types
<1>2. \A n \in Manifests : n # m => counter'[n] = counter[n] /\ recorded'[n] = recorded[n]
  BY DEF CommitDelete, Types
<1>3. RecordedBytes(m)' = {}
  <2>1. \A f \in Files : Bytes(f, recorded'[m][f]) = {}
    BY <1>1 DEF Bytes
  <2> QED
    BY <2>1 DEF RecordedBytes
<1>4. \A n \in Manifests : n # m => RecordedBytes(n)' = RecordedBytes(n)
  BY <1>2 DEF RecordedBytes
<1> QED
  BY <1>1, <1>2, <1>3, <1>4, FS_EmptySet DEF CounterInv, Covered

LEMMA NextCovers ==
  ASSUME Types, Arguments, Known, CounterInv, [Next]_vars
  PROVE  CounterInv'
<1>1. ASSUME UNCHANGED <<recorded, counter>>
      PROVE  CounterInv'
  BY <1>1 DEF CounterInv, Covered, RecordedBytes
<1>2. CASE CreateManifest \/ NextBatch \/ Restart \/ Sweep \/ UNCHANGED vars
  BY <1>1, <1>2 DEF CreateManifest, NextBatch, Restart, Sweep, vars, dbVars
<1>3. CASE \E m \in Manifests : Expire(m) \/ GarbageCollect(m)
  BY <1>1, <1>3 DEF Expire, GarbageCollect, dbVars
<1>4. CASE \E p \in Calls : CallBegins(p)
  BY <1>1, <1>4 DEF CallBegins, InitUploadBegin, UploadBegin, DeleteFileBegin, SubmitBegin, Begin, dbVars
<1>5. CASE \E p \in Procs : Step(p)
  <2>1. PICK p \in Procs : Step(p)
    BY <1>5
  <2>2. op[p].m \in Manifests
    BY <2>1, StepStays DEF Arguments
  <2>3. op[p].z \in Nat
    <3>1. op[p].z \in Sizes \cup {0}
      BY DEF Types, OpRecords
    <3> QED
      BY <3>1, SizeIsNat
  <2>4. CASE CommitDelete(p)
    BY <2>2, <2>4, CommitCovers
  <2>5. CASE UploadCheck(p) \/ DeleteFileInManifest(p)
    BY <2>2, <2>5, DeleteEntryCovers DEF UploadCheck, DeleteFileInManifest, Arguments
  <2>6. CASE UploadAdd(p)
    BY <2>2, <2>3, <2>6, AddFileCovers DEF UploadAdd, Arguments
  <2>7. CASE UNCHANGED <<recorded, counter>>
    BY <1>1, <2>7
  <2> QED
    BY <2>1, <2>4, <2>5, <2>6, <2>7
       DEF Step, LoadMutex, LockMutex, LockFails, ForgetMutex, DropMutex, InitUpload, UploadPut, Unlink,
           CreateSubmission, dbVars
<1> QED
  BY <1>2, <1>3, <1>4, <1>5 DEF Next, CallBegins

LEMMA InitCovers == Init => CounterInv
<1> SUFFICES ASSUME Init, NEW m \in Manifests PROVE Covered(m)
  BY DEF CounterInv
<1>1. counter[m] = 0 /\ \A f \in Files : recorded[m][f] = 0
  BY DEF Init
<1>2. RecordedBytes(m) = {}
  BY <1>1 DEF RecordedBytes, Bytes
<1> QED
  BY <1>1, <1>2, FS_EmptySet DEF Covered

\* The size counter of a manifest is at least what is recorded in it, for every
\* number of calls, files and sizes: DeleteFileInManifest takes off exactly what
\* its batch deletes, AddFileToManifest adds a size without taking off that of an
\* entry it replaces, so that the counter may be too high but never too low.
THEOREM CounterCovers == Spec => []CounterCoversFiles
<1>1. IdInv /\ CounterInv /\ [Next]_vars => CounterInv'
  BY NextCovers DEF IdInv
<1>2. CounterInv => CounterCoversFiles
  BY DEF CounterInv, Covered, CounterCoversFiles
<1> QED
  BY <1>1, <1>2, InitCovers, IdInvariant, PTL DEF Spec

-----------------------------------------------------------------------------
(* Uploads past the check *)

\* p has passed the check of the upload limit and is not counted yet.
Flying(p) == pc[p] = "put" \/ op[p].kind = "add"

\* Only calls upload, and each fits the limit by itself.
FlightInv ==
  /\ op[GC].kind \in {"none", "gc"}
  /\ \A p \in Procs : Flying(p) => op[p].z <= UploadLimit

\* The bytes the calls of P may have in flight.
Allowance(P) == P \X (1..UploadLimit)

LEMMA AllowanceCount ==
  ASSUME NEW P \in SUBSET Calls
  PROVE  IsFiniteSet(Allowance(P)) /\ Cardinality(Allowance(P)) = Cardinality(P) * UploadLimit
<1>1. IsFiniteSet(P) /\ UploadLimit \in Nat
  BY ManifestAssumption, FS_Subset
<1>2. IsFiniteSet(1..UploadLimit) /\ Cardinality(1..UploadLimit) = UploadLimit
  BY <1>1, FS_Interval
<1> QED
  BY <1>1, <1>2, FS_Product DEF Allowance

LEMMA WithinAllowance ==
  ASSUME NEW P \in SUBSET Calls, NEW B \in SUBSET Allowance(P)
  PROVE  /\ IsFiniteSet(B) /\ Cardinality(B) \in Nat
         /\ Cardinality(B) <= Cardinality(P) * UploadLimit
<1>1. IsFiniteSet(Allowance(P)) /\ Cardinality(Allowance(P)) = Cardinality(P) * UploadLimit
  BY AllowanceCount
<1>2. IsFiniteSet(B) /\ Cardinality(B) <= Cardinality(Allowance(P))
  BY <1>1, FS_Subset, Zenon
<1> QED
  BY <1>1, <1>2, FS_CardinalityType

LEMMA BytesInFlightOf ==
  ASSUME NEW m, NEW b
  PROVE  b \in BytesInFlight(m) <=>
           /\ b = <<b[1], b[2]>> /\ b[1] \in Procs /\ b[2] \in 1..op[b[1]].z
           /\ op[b[1]].m = m /\ Flying(b[1])
<1>1. b \in BytesInFlight(m) <=> \E p \in InFlight(m) : b = <<p, b[2]>> /\ b[2] \in 1..op[p].z
  BY BytesOf DEF BytesInFlight
<1> QED
  BY <1>1 DEF InFlight, Flying

\* The same after a step.
LEMMA BytesInFlightNext ==
  ASSUME NEW m, NEW b
  PROVE  b \in BytesInFlight(m)' <=>
           /\ b = <<b[1], b[2]>> /\ b[1] \in Procs /\ b[2] \in 1..op'[b[1]].z
           /\ op'[b[1]].m = m /\ (pc'[b[1]] = "put" \/ op'[b[1]].kind = "add")
<1>1. b \in BytesInFlight(m)' <=> \E p \in InFlight(m)' : b = <<p, b[2]>> /\ b[2] \in 1..op'[p].z
  BY BytesOf DEF BytesInFlight
<1> QED
  BY <1>1 DEF InFlight

\* A size is a natural number.
LEMMA SizeOfCall ==
  ASSUME Types
  PROVE  \A p \in Procs : op[p].z \in Nat
<1> SUFFICES ASSUME NEW p \in Procs PROVE op[p].z \in Nat
  OBVIOUS
<1>1. op[p].z \in Sizes \cup {0}
  BY DEF Types, OpRecords
<1> QED
  BY <1>1, SizeIsNat

\* What is in flight is within the allowance of the calls.
LEMMA FlightBound ==
  ASSUME Types, Arguments, FlightInv, NEW m, NEW P \in SUBSET Calls,
         \A p \in Calls : Flying(p) => p \in P
  PROVE  /\ IsFiniteSet(BytesInFlight(m))
         /\ Cardinality(BytesInFlight(m)) \in Nat
         /\ Cardinality(BytesInFlight(m)) <= Cardinality(P) * UploadLimit
<1>1. ASSUME NEW b, b \in BytesInFlight(m) PROVE b \in Allowance(P)
  <2>1. /\ b = <<b[1], b[2]>> /\ b[1] \in Procs /\ b[2] \in 1..op[b[1]].z
        /\ op[b[1]].m = m /\ Flying(b[1])
    BY <1>1, BytesInFlightOf
  <2>2. b[1] \in P
    BY <2>1 DEF Flying, FlightInv, Arguments, Procs
  <2>3. b[2] \in 1..UploadLimit
    BY <2>1, SizeOfCall, ManifestAssumption DEF FlightInv
  <2> QED
    BY <2>1, <2>2, <2>3 DEF Allowance
<1> QED
  BY <1>1, WithinAllowance

\* The limit of all calls together, and what one of them leaves to the others.
LEMMA AllCalls ==
  /\ Cardinality(Calls) * UploadLimit \in Nat
  /\ \A p \in Calls :
       Cardinality(Calls \ {p}) * UploadLimit + UploadLimit = Cardinality(Calls) * UploadLimit
<1>1. IsFiniteSet(Calls) /\ UploadLimit \in Nat
  BY ManifestAssumption
<1>2. Cardinality(Calls) \in Nat
  BY <1>1, FS_CardinalityType
<1>3. ASSUME NEW c \in Nat, NEW d \in Nat, c = d + 1
      PROVE  d * UploadLimit + UploadLimit = c * UploadLimit
  BY <1>1, <1>3
<1>4. ASSUME NEW p \in Calls
      PROVE  Cardinality(Calls \ {p}) \in Nat /\ Cardinality(Calls) = Cardinality(Calls \ {p}) + 1
  <2>1. IsFiniteSet(Calls \ {p}) /\ Cardinality(Calls \ {p}) = Cardinality(Calls) - 1
    BY <1>1, FS_RemoveElement
  <2> QED
    BY <1>2, <2>1, FS_CardinalityType
<1>5. Cardinality(Calls) * UploadLimit \in Nat
  BY <1>1, <1>2
<1> QED
  BY <1>2, <1>3, <1>4, <1>5

Bounded(m) == counter[m] + Cardinality(BytesInFlight(m)) <= Cardinality(Calls) * UploadLimit

\* A manifest for which no upload passes the check.
LEMMA FlightKept ==
  ASSUME Types, Arguments, FlightInv, NEW m \in Manifests, Bounded(m),
         BytesInFlight(m)' \subseteq BytesInFlight(m),
         counter'[m] \in Int, counter'[m] <= counter[m] \/ counter'[m] = 0
  PROVE  Bounded(m)'
<1> DEFINE all == Cardinality(Calls) * UploadLimit
           old == Cardinality(BytesInFlight(m))
           new == Cardinality(BytesInFlight(m)')
<1>1. all \in Nat
  BY AllCalls
<1>2. IsFiniteSet(BytesInFlight(m)) /\ old \in Nat /\ old <= all
  BY FlightBound
<1>3. IsFiniteSet(BytesInFlight(m)') /\ new <= old
  BY <1>2, FS_Subset
<1>4. new \in Nat
  BY <1>3, FS_CardinalityType
<1>5. counter[m] \in Int /\ counter[m] + old <= all
  BY DEF Types, Bounded
<1> HIDE DEF all, old, new
<1>6. counter'[m] + new <= all
  BY <1>1, <1>2, <1>3, <1>4, <1>5
<1> QED
  BY <1>6 DEF all, new, Bounded

\* A step in which no upload passes the check and none is counted.
LEMMA FlightShrinks ==
  ASSUME Types, Arguments, FlightInv, UploadsBounded,
         op'[GC].kind \in {"none", "gc"},
         \A q \in Procs : pc'[q] = "put" \/ op'[q].kind = "add" =>
           Flying(q) /\ op'[q].z = op[q].z /\ op'[q].m = op[q].m,
         \A m \in Manifests : counter'[m] \in Int /\ (counter'[m] <= counter[m] \/ counter'[m] = 0)
  PROVE  FlightInv' /\ UploadsBounded'
<1>1. FlightInv'
  BY DEF FlightInv, Flying
<1>2. ASSUME NEW m \in Manifests PROVE Bounded(m)'
  <2>1. BytesInFlight(m)' \subseteq BytesInFlight(m)
    BY BytesInFlightOf, BytesInFlightNext
  <2>2. Bounded(m)
    BY DEF Bounded, UploadsBounded
  <2> QED
    BY <2>1, <2>2, FlightKept
<1> QED
  BY <1>1, <1>2 DEF UploadsBounded, Bounded

\* An upload that passes the check fits what the counter leaves.
LEMMA CheckKeepsFlight ==
  ASSUME Types, Arguments, FlightInv, UploadsBounded, NEW p \in Procs, NEW m \in Manifests,
         op[p].m = m, UploadCheck(p), pc'[p] = "put"
  PROVE  FlightInv' /\ UploadsBounded'
<1> USE ManifestAssumption
<1> DEFINE f == op[p].f
           z == op[p].z
<1>1. z \in Nat /\ f \in Files /\ op[p].kind = "upload" /\ pc[p] = "in"
  BY SizeOfCall DEF UploadCheck, Arguments
<1>2. /\ UNCHANGED op
      /\ pc'[p] = "put" /\ \A q \in Procs : q # p => pc'[q] = pc[q]
      /\ DeleteFileEntry(m, f)
      /\ Filesize(counter'[m]) + z <= UploadLimit
  BY DEF UploadCheck, Goto, Finish, Types
<1>3. p \in Calls /\ p # GC /\ ~Flying(p)
  BY <1>1 DEF FlightInv, Flying, Procs
<1>4. /\ counter'[m] \in Int /\ counter[m] \in Int
      /\ \A n \in Manifests : n # m => counter'[n] = counter[n] /\ counter'[n] \in Int
  BY <1>1, <1>2 DEF DeleteFileEntry, Types
<1> HIDE DEF f, z
<1>5. counter'[m] + z <= UploadLimit /\ z <= UploadLimit
  BY <1>1, <1>2, <1>4 DEF Filesize
<1>6. FlightInv'
  BY <1>2, <1>3, <1>5 DEF FlightInv, Flying, z
<1>7. ASSUME NEW n \in Manifests, n # m PROVE Bounded(n)'
  <2>1. ASSUME NEW b, b \in BytesInFlight(n)' PROVE b \in BytesInFlight(n)
    <3>1. /\ b = <<b[1], b[2]>> /\ b[1] \in Procs /\ b[2] \in 1..op[b[1]].z
          /\ op[b[1]].m = n /\ (pc'[b[1]] = "put" \/ op[b[1]].kind = "add")
      BY <2>1, <1>2, BytesInFlightNext
    <3>2. b[1] # p
      BY <3>1, <1>7
    <3> QED
      BY <3>1, <3>2, <1>2, BytesInFlightOf DEF Flying
  <2>2. Bounded(n)
    BY DEF Bounded, UploadsBounded
  <2>3. counter'[n] \in Int /\ counter'[n] <= counter[n]
    BY <1>4, <1>7
  <2> QED
    BY <2>1, <2>2, <2>3, FlightKept
<1>8. Bounded(m)'
  <2> DEFINE R == BytesInFlight(m)
             rest == Cardinality(Calls \ {p}) * UploadLimit
             all == Cardinality(Calls) * UploadLimit
             new == Cardinality(BytesInFlight(m)')
  <2>1. IsFiniteSet(R) /\ Cardinality(R) \in Nat /\ Cardinality(R) <= rest
    <3>1. \A q \in Calls : Flying(q) => q \in Calls \ {p}
      BY <1>3
    <3> QED
      BY <3>1, FlightBound
  <2>2. all \in Nat /\ rest + UploadLimit = all
    BY <1>3, AllCalls
  <2>3. IsFiniteSet(R \cup Bytes(p, z)) /\ Cardinality(R \cup Bytes(p, z)) <= Cardinality(R) + z
    BY <1>1, <2>1, BytesAdded
  <2>4. BytesInFlight(m)' \subseteq R \cup Bytes(p, z)
    <3>1. ASSUME NEW b, b \in BytesInFlight(m)', b \notin Bytes(p, z) PROVE b \in R
      <4>1. /\ b = <<b[1], b[2]>> /\ b[1] \in Procs /\ b[2] \in 1..op[b[1]].z
            /\ op[b[1]].m = m /\ (pc'[b[1]] = "put" \/ op[b[1]].kind = "add")
        BY <3>1, <1>2, BytesInFlightNext
      <4>2. b[1] # p
        BY <4>1, <3>1, BytesOf DEF z
      <4> QED
        BY <4>1, <4>2, <1>2, BytesInFlightOf DEF Flying
    <3> QED
      BY <3>1
  <2>5. IsFiniteSet(BytesInFlight(m)') /\ new <= Cardinality(R \cup Bytes(p, z))
    BY <2>3, <2>4, FS_Subset
  <2>6. new \in Nat /\ Cardinality(R \cup Bytes(p, z)) \in Nat
    BY <2>3, <2>5, FS_CardinalityType
  <2>7. rest \in Int
    <3>1. IsFiniteSet(Calls \ {p})
      BY FS_Difference
    <3> QED
      BY <3>1, FS_CardinalityType
  <2> HIDE DEF R, rest, all, new
  <2>8. counter'[m] + new <= all
    BY <1>1, <1>4, <1>5, <2>1, <2>2, <2>3, <2>5, <2>6, <2>7
  <2> QED
    BY <2>8 DEF all, new, Bounded
<1> QED
  BY <1>6, <1>7, <1>8 DEF UploadsBounded, Bounded

\* What an upload adds to the counter was in flight.
LEMMA AddKeepsFlight ==
  ASSUME Types, Arguments, FlightInv, UploadsBounded, NEW p \in Procs, NEW m \in Manifests,
         op[p].m = m, UploadAdd(p)
  PROVE  FlightInv' /\ UploadsBounded'
<1> DEFINE f == op[p].f
           z == op[p].z
<1>1. z \in Nat /\ f \in Files /\ op[p].kind = "add" /\ Flying(p)
  BY SizeOfCall DEF UploadAdd, Arguments, Flying
<1>2. /\ op'[p] = NoOp /\ \A q \in Procs : q # p => op'[q] = op[q]
      /\ pc'[p] = "idle" /\ \A q \in Procs : q # p => pc'[q] = pc[q]
      /\ AddFileToManifest(m, f, z)
  BY DEF UploadAdd, Goto, Finish, Types
<1>3. p # GC
  BY <1>1 DEF FlightInv
<1>4. /\ counter'[m] = counter[m] + z /\ counter[m] \in Int
      /\ \A n \in Manifests : n # m => counter'[n] = counter[n] /\ counter'[n] \in Int
  BY <1>1, <1>2 DEF AddFileToManifest, Types
<1> HIDE DEF f, z
<1>5. ASSUME NEW q \in Procs, pc'[q] = "put" \/ op'[q].kind = "add"
      PROVE  q # p
  <2>1. NoOp.kind = "none"
    BY DEF NoOp
  <2> QED
    BY <1>2, <1>5, <2>1
<1>6. FlightInv'
  BY <1>2, <1>3, <1>5 DEF FlightInv, Flying, Procs, ManifestAssumption
<1>7. ASSUME NEW n \in Manifests, NEW b, b \in BytesInFlight(n)'
      PROVE  b \in BytesInFlight(n) /\ b[1] # p
  <2>1. /\ b = <<b[1], b[2]>> /\ b[1] \in Procs /\ b[2] \in 1..op'[b[1]].z
        /\ op'[b[1]].m = n /\ (pc'[b[1]] = "put" \/ op'[b[1]].kind = "add")
    BY <1>7, BytesInFlightNext
  <2>2. b[1] # p
    BY <2>1, <1>5
  <2> QED
    BY <2>1, <2>2, <1>2, BytesInFlightOf DEF Flying
<1>8. ASSUME NEW n \in Manifests, n # m PROVE Bounded(n)'
  <2>1. Bounded(n)
    BY DEF Bounded, UploadsBounded
  <2>2. counter'[n] \in Int /\ counter'[n] <= counter[n]
    BY <1>4, <1>8
  <2>3. BytesInFlight(n)' \subseteq BytesInFlight(n)
    BY <1>7
  <2> QED
    BY <2>1, <2>2, <2>3, FlightKept
<1>9. Bounded(m)'
  <2> DEFINE R == BytesInFlight(m)
             S == R \ Bytes(p, z)
             all == Cardinality(Calls) * UploadLimit
             new == Cardinality(BytesInFlight(m)')
  <2>1. IsFiniteSet(R) /\ Cardinality(R) \in Nat
    BY FlightBound
  <2>2. Bytes(p, z) \subseteq R
    BY <1>1, BytesOf, BytesInFlightOf DEF z
  <2>3. IsFiniteSet(S) /\ Cardinality(S) = Cardinality(R) - z
    BY <1>1, <2>1, <2>2, BytesTaken
  <2>4. BytesInFlight(m)' \subseteq S
    BY <1>7, BytesOf
  <2>5. IsFiniteSet(BytesInFlight(m)') /\ new <= Cardinality(S)
    BY <2>3, <2>4, FS_Subset
  <2>6. new \in Nat /\ all \in Nat
    BY <2>5, FS_CardinalityType, AllCalls
  <2>7. counter[m] + Cardinality(R) <= all
    BY DEF UploadsBounded
  <2> HIDE DEF R, S, all, new
  <2>8. counter'[m] + new <= all
    BY <1>1, <1>4, <2>1, <2>3, <2>5, <2>6, <2>7
  <2> QED
    BY <2>8 DEF all, new, Bounded
<1> QED
  BY <1>6, <1>8, <1>9 DEF UploadsBounded, Bounded

\* A step of a call that is neither the check nor the end of an upload: no call
\* comes to be past the check, and the counter of its manifest only shrinks.
LEMMA StepShrinks ==
  ASSUME Types, Arguments, NEW p \in Procs, Step(p),
         ~(UploadCheck(p) /\ pc'[p] = "put"), ~UploadAdd(p)
  PROVE  /\ \A q \in Procs : op'[q].kind \in {op[q].kind, "none"} \/ op[q].kind = "upload"
         /\ \A q \in Procs : pc'[q] = "put" \/ op'[q].kind = "add" =>
              Flying(q) /\ op'[q].z = op[q].z /\ op'[q].m = op[q].m
         /\ \A m \in Manifests : counter'[m] \in Int /\ (counter'[m] <= counter[m] \/ counter'[m] = 0)
<1> DEFINE Calm == \A q \in Procs : op'[q].kind \in {op[q].kind, "none"} \/ op[q].kind = "upload"
           Less == \A q \in Procs : pc'[q] = "put" \/ op'[q].kind = "add" =>
                     Flying(q) /\ op'[q].z = op[q].z /\ op'[q].m = op[q].m
           Down == \A m \in Manifests : counter'[m] \in Int /\ (counter'[m] <= counter[m] \/ counter'[m] = 0)
<1>a. op[p].m \in Manifests
  BY StepStays DEF Arguments
<1>b. NoOp.kind = "none"
  BY DEF NoOp
<1>1. ASSUME UNCHANGED counter PROVE Down
  BY <1>1 DEF Types
<1>2. ASSUME UNCHANGED op, pc'[p] # "put", \A q \in Procs : q # p => pc'[q] = pc[q] PROVE Calm /\ Less
  BY <1>2 DEF Flying
<1>3. ASSUME op' = [op EXCEPT ![p] = NoOp], pc'[p] # "put", \A q \in Procs : q # p => pc'[q] = pc[q]
      PROVE  Calm /\ Less
  <2>1. op'[p].kind = "none" /\ \A q \in Procs : q # p => op'[q] = op[q]
    BY <1>3, <1>b DEF Types
  <2> QED
    BY <1>3, <2>1 DEF Flying
<1>4. ASSUME NEW f \in Files, DeleteFileEntry(op[p].m, f) PROVE Down
  <2>1. /\ counter'[op[p].m] = counter[op[p].m] - recorded[op[p].m][f]
        /\ counter[op[p].m] \in Int /\ recorded[op[p].m][f] \in Nat
        /\ \A m \in Manifests : m # op[p].m => counter'[m] = counter[m] /\ counter[m] \in Int
    BY <1>a, <1>4 DEF DeleteFileEntry, Types
  <2> QED
    BY <2>1
<1> HIDE DEF Calm, Less, Down
<1>11. ASSUME LoadMutex(p) \/ LockMutex(p) \/ LockFails(p) \/ DropMutex(p) \/ CreateSubmission(p)
       PROVE  Calm /\ Less /\ Down
  BY <1>11, <1>1, <1>2 DEF LoadMutex, LockMutex, LockFails, DropMutex, CreateSubmission, Goto, Types, dbVars
<1>12. ASSUME ForgetMutex(p)
       PROVE  Calm /\ Less /\ Down
  BY <1>12, <1>1, <1>2, <1>3 DEF ForgetMutex, Goto, Finish, Types, dbVars
<1>13. ASSUME CommitDelete(p)
       PROVE  Calm /\ Less /\ Down
  <2>1. Down
    BY <1>13, <1>a DEF CommitDelete, Types, Down
  <2> QED
    BY <1>13, <2>1, <1>2, <1>3 DEF CommitDelete, Goto, Finish, Types
<1>14. ASSUME InitUpload(p) \/ Unlink(p)
       PROVE  Calm /\ Less /\ Down
  BY <1>14, <1>1, <1>3 DEF InitUpload, Unlink, Goto, Finish, Types, dbVars
<1>15. ASSUME UploadCheck(p)
       PROVE  Calm /\ Less /\ Down
  <2>1. op[p].f \in Files
    BY <1>15 DEF UploadCheck, Arguments
  <2>2. Down
    BY <1>15, <2>1, <1>4 DEF UploadCheck
  <2>3. Finish(p)
    BY <1>15 DEF UploadCheck, Goto, Types
  <2> QED
    BY <2>2, <2>3, <1>3 DEF Goto, Finish, Types
<1>16. ASSUME UploadPut(p)
       PROVE  Calm /\ Less /\ Down
  <2>1. pc[p] = "put" /\ op[p].kind = "upload" /\ op[p] \in OpRecords
    BY <1>16 DEF UploadPut, Arguments, Types
  <2>2. op' = [op EXCEPT ![p] = [op[p] EXCEPT !.kind = "add"]]
    BY <1>16 DEF UploadPut
  <2>3. /\ op'[p].z = op[p].z /\ op'[p].m = op[p].m
        /\ \A q \in Procs : q # p => op'[q] = op[q]
    BY <2>1, <2>2 DEF Types, OpRecords
  <2>4. \A q \in Procs : q # p => pc'[q] = pc[q]
    BY <1>16 DEF UploadPut, Goto, Types
  <2>5. Calm
    BY <2>1, <2>3 DEF Calm
  <2>6. Less
    BY <2>1, <2>3, <2>4 DEF Less, Flying
  <2> QED
    BY <1>16, <2>5, <2>6, <1>1 DEF UploadPut, dbVars
<1>17. ASSUME DeleteFileInManifest(p)
       PROVE  Calm /\ Less /\ Down
  <2>1. op[p].f \in Files
    BY <1>17 DEF DeleteFileInManifest, Arguments
  <2> QED
    BY <1>17, <2>1, <1>2, <1>4 DEF DeleteFileInManifest, Goto, Types
<1>18. Calm /\ Less /\ Down
  BY <1>11, <1>12, <1>13, <1>14, <1>15, <1>16, <1>17 DEF Step
<1> QED
  BY <1>18 DEF Calm, Less, Down

\* A call that begins, or the collector, is not past the check.
LEMMA BeginShrinks ==
  ASSUME Types, Arguments, FlightInv, UploadsBounded, NEW p \in Procs, NEW l \in {"load", "create"},
         NEW o \in OpRecords, o.kind # "add", p = GC => o.kind = "gc",
         op' = [op EXCEPT ![p] = o], Goto(p, l), UNCHANGED dbVars
  PROVE  FlightInv' /\ UploadsBounded'
<1>1. op'[p] = o /\ \A q \in Procs : q # p => op'[q] = op[q]
  BY DEF Types
<1>2. pc'[p] # "put" /\ \A q \in Procs : q # p => pc'[q] = pc[q]
  BY DEF Types, Goto
<1>3. op'[GC].kind \in {"none", "gc"}
  BY <1>1 DEF FlightInv, Procs
<1>4. \A q \in Procs : pc'[q] = "put" \/ op'[q].kind = "add" =>
        Flying(q) /\ op'[q].z = op[q].z /\ op'[q].m = op[q].m
  BY <1>1, <1>2 DEF Flying
<1>5. \A m \in Manifests : counter'[m] \in Int /\ counter'[m] <= counter[m]
  BY DEF dbVars, Types
<1> QED
  BY <1>3, <1>4, <1>5, FlightShrinks

LEMMA NextKeepsFlight ==
  ASSUME Types, Arguments, Known, FlightInv, UploadsBounded, [Next]_vars
  PROVE  FlightInv' /\ UploadsBounded'
<1> USE ManifestAssumption
<1>a. GC \in Procs /\ Calls \subseteq Procs /\ GC \notin Calls
  BY DEF Procs
<1>b. \A m \in Manifests : counter[m] \in Int /\ counter[m] <= counter[m]
  BY DEF Types
<1>1. CASE CreateManifest \/ NextBatch \/ (\E m \in Manifests : Expire(m)) \/ UNCHANGED vars
  <2>1. UNCHANGED <<counter, pc, op>>
    BY <1>1 DEF CreateManifest, NextBatch, Expire, vars, dbVars
  <2>2. op'[GC].kind \in {"none", "gc"}
    BY <2>1 DEF FlightInv
  <2> QED
    BY <2>1, <2>2, <1>b, FlightShrinks DEF Flying
<1>3. CASE Restart
  <2>1. NoOp.kind = "none"
    BY DEF NoOp
  <2>2. UNCHANGED counter /\ \A q \in Procs : pc'[q] = "idle" /\ op'[q] = NoOp
    BY <1>3 DEF Restart, dbVars
  <2>3. op'[GC].kind \in {"none", "gc"} /\ \A q \in Procs : ~(pc'[q] = "put" \/ op'[q].kind = "add")
    BY <1>a, <2>1, <2>2
  <2> QED
    BY <2>2, <2>3, <1>b, FlightShrinks
<1>4. CASE Sweep
  <2>1. op'[GC] = NoOp /\ pc'[GC] = "idle" /\ UNCHANGED counter
    BY <1>4, <1>a DEF Sweep, Finish, Goto, Types, dbVars
  <2>2. \A q \in Procs : q # GC => op'[q] = op[q] /\ pc'[q] = pc[q]
    BY <1>4 DEF Sweep, Finish, Goto, Types
  <2>3. NoOp.kind = "none"
    BY DEF NoOp
  <2>4. \A q \in Procs : pc'[q] = "put" \/ op'[q].kind = "add" =>
          Flying(q) /\ op'[q].z = op[q].z /\ op'[q].m = op[q].m
    BY <2>1, <2>2, <2>3 DEF Flying
  <2>5. op'[GC].kind \in {"none", "gc"}
    BY <2>1, <2>3
  <2> QED
    BY <2>1, <2>4, <2>5, <1>b, FlightShrinks
<1>6. CASE \E m \in Manifests : GarbageCollect(m)
  BY <1>6, <1>a, CollectArguments, BeginShrinks
<1>7. CASE \E p \in Calls : CallBegins(p)
  <2>1. PICK p \in Calls : CallBegins(p)
    BY <1>7
  <2>2. PICK l \in {"load", "create"}, o \in OpRecords :
          op' = [op EXCEPT ![p] = o] /\ Goto(p, l) /\ UNCHANGED dbVars /\ o.kind # "add"
    BY <2>1, BeginArguments
  <2> QED
    BY <2>2, <1>a, BeginShrinks
<1>8. CASE \E p \in Procs : Step(p)
  <2>1. PICK p \in Procs : Step(p)
    BY <1>8
  <2>2. op[p].m \in Manifests
    BY <2>1, StepStays DEF Arguments
  <2>3. CASE UploadCheck(p) /\ pc'[p] = "put"
    BY <2>2, <2>3, CheckKeepsFlight
  <2>4. CASE UploadAdd(p)
    BY <2>2, <2>4, AddKeepsFlight
  <2>5. CASE ~(UploadCheck(p) /\ pc'[p] = "put") /\ ~UploadAdd(p)
    <3>1. op'[GC].kind \in {"none", "gc"}
      BY <2>1, <2>5, <1>a, StepShrinks DEF FlightInv
    <3> QED
      BY <2>1, <2>5, <3>1, StepShrinks, FlightShrinks
  <2> QED
    BY <2>3, <2>4, <2>5
<1> QED
  BY <1>1, <1>3, <1>4, <1>6, <1>7, <1>8 DEF Next, CallBegins

-----------------------------------------------------------------------------
(* Submissions past the check *)

\* The calls that have passed checkSubmissionLimit and have not created theirs.
Creating == {p \in Calls : pc[p] = "create"}

SubmitInv ==
  SubmissionLimit > 0 =>
    Len(submissions) + Cardinality(Creating) <= SubmissionLimit + Cardinality(Calls) - 1

LEMMA CreatingCount ==
  /\ IsFiniteSet(Creating) /\ Cardinality(Creating) \in Nat
  /\ IsFiniteSet(Creating') /\ Cardinality(Creating') \in Nat
  /\ Cardinality(Creating') <= Cardinality(Calls)
  /\ Cardinality(Calls) \in Nat
<1>1. IsFiniteSet(Calls)
  BY ManifestAssumption
<1>2. Creating \subseteq Calls /\ Creating' \subseteq Calls
  BY DEF Creating
<1>3. IsFiniteSet(Creating)
  BY <1>1, <1>2, FS_Subset
<1>4. IsFiniteSet(Creating') /\ Cardinality(Creating') <= Cardinality(Calls)
  BY <1>1, <1>2, FS_Subset
<1> QED
  BY <1>1, <1>3, <1>4, FS_CardinalityType

\* No call comes to be past the check.
LEMMA CreatingShrinks ==
  ASSUME Submitters, SubmitInv, UNCHANGED submissions,
         \A p \in Calls : pc'[p] = "create" => pc[p] = "create"
  PROVE  SubmitInv'
<1>1. Creating' \subseteq Creating
  BY DEF Creating
<1>2. Cardinality(Creating') <= Cardinality(Creating)
  BY <1>1, CreatingCount, FS_Subset
<1>3. Len(submissions) \in Nat /\ SubmissionLimit \in Nat
  BY ManifestAssumption DEF Submitters
<1>4. CASE SubmissionLimit = 0
  BY <1>4 DEF SubmitInv
<1>5. CASE SubmissionLimit > 0
  <2> DEFINE new == Cardinality(Creating')
             old == Cardinality(Creating)
             calls == Cardinality(Calls)
  <2>1. new \in Nat /\ old \in Nat /\ calls \in Nat
    BY CreatingCount
  <2>2. Len(submissions) + old <= SubmissionLimit + calls - 1
    BY <1>5 DEF SubmitInv
  <2>3. new <= old
    BY <1>2
  <2> HIDE DEF new, old, calls
  <2>4. Len(submissions) + new <= SubmissionLimit + calls - 1
    BY <1>3, <2>1, <2>2, <2>3
  <2> QED
    BY <2>4 DEF SubmitInv, new, calls
<1> QED
  BY <1>3, <1>4, <1>5

\* A call that has just passed the check.
LEMMA SubmitBeginKeeps ==
  ASSUME Types, Submitters, SubmitInv, NEW p \in Calls, SubmitBegin(p)
  PROVE  SubmitInv'
<1>1. UnderLimit /\ UNCHANGED submissions
  BY DEF SubmitBegin, Begin
<1>2. Len(submissions) \in Nat /\ SubmissionLimit \in Nat
  BY ManifestAssumption DEF Submitters
<1>3. SubmissionLimit > 0 => Len(submissions) < SubmissionLimit
  BY <1>1, <1>2 DEF UnderLimit
<1> DEFINE new == Cardinality(Creating')
           calls == Cardinality(Calls)
<1>4. new \in Nat /\ calls \in Nat /\ new <= calls
  BY CreatingCount
<1> HIDE DEF new, calls
<1>5. SubmissionLimit > 0 => Len(submissions) + new <= SubmissionLimit + calls - 1
  BY <1>2, <1>3, <1>4
<1> QED
  BY <1>1, <1>5 DEF SubmitInv, new, calls

\* A call that creates its submission is no longer past the check.
LEMMA CreateSubmissionKeeps ==
  ASSUME Types, Arguments, Submitters, SubmitInv, NEW p \in Procs, CreateSubmission(p)
  PROVE  SubmitInv'
<1>1. p \in Calls /\ pc[p] = "create"
  BY DEF CreateSubmission, Arguments, Submitters
<1>2. Creating' = Creating \ {p} /\ p \in Creating
  BY <1>1 DEF CreateSubmission, Goto, Creating, Types, Procs
<1>3. Cardinality(Creating') = Cardinality(Creating) - 1
  BY <1>2, CreatingCount, FS_RemoveElement
<1>4. submissions \in Seq(SubmissionRecords) /\ SubmissionLimit \in Nat
  BY ManifestAssumption DEF Submitters
<1>5. Len(submissions') = Len(submissions) + 1 /\ Len(submissions) \in Nat
  <2> DEFINE s == [m |-> op[p].m, files |-> op[p].files]
  <2>1. op[p].m \in Manifests /\ op[p] \in OpRecords
    BY <1>1 DEF Arguments, Types, Procs
  <2>2. s \in SubmissionRecords
    BY <2>1 DEF OpRecords, SubmissionRecords
  <2>3. submissions' = Append(submissions, s)
    BY DEF CreateSubmission
  <2> HIDE DEF s
  <2> QED
    BY <1>4, <2>2, <2>3
<1> DEFINE new == Cardinality(Creating')
           old == Cardinality(Creating)
           calls == Cardinality(Calls)
<1>6. new = old - 1 /\ old \in Nat /\ calls \in Nat
  BY <1>3, CreatingCount
<1>7. SubmissionLimit > 0 => Len(submissions) + old <= SubmissionLimit + calls - 1
  BY DEF SubmitInv
<1> HIDE DEF new, old, calls
<1>8. SubmissionLimit > 0 => Len(submissions') + new <= SubmissionLimit + calls - 1
  BY <1>4, <1>5, <1>6, <1>7
<1> QED
  BY <1>8 DEF SubmitInv, new, calls

LEMMA NextKeepsSubmit ==
  ASSUME Types, Arguments, Submitters, SubmitInv, [Next]_vars
  PROVE  SubmitInv'
<1>a. Calls \subseteq Procs /\ GC \notin Calls
  BY ManifestAssumption DEF Procs
<1>1. CASE CreateManifest \/ NextBatch \/ UNCHANGED vars
  BY <1>1, CreatingShrinks DEF CreateManifest, NextBatch, vars
<1>2. CASE Restart
  BY <1>2, <1>a, CreatingShrinks DEF Restart
<1>3. CASE Sweep
  BY <1>3, <1>a, CreatingShrinks DEF Sweep, Finish, Goto, Types
<1>4. CASE \E m \in Manifests : Expire(m) \/ GarbageCollect(m)
  BY <1>4, <1>a, CreatingShrinks DEF Expire, GarbageCollect, Goto, Types
<1>5. CASE \E p \in Calls : SubmitBegin(p)
  BY <1>5, SubmitBeginKeeps
<1>6. CASE \E p \in Calls : InitUploadBegin(p) \/ UploadBegin(p) \/ DeleteFileBegin(p)
  <2>1. PICK p \in Calls : Goto(p, "load") /\ UNCHANGED submissions
    BY <1>6 DEF InitUploadBegin, UploadBegin, DeleteFileBegin, Begin
  <2> QED
    BY <2>1, <1>a, CreatingShrinks DEF Goto, Types
<1>7. CASE \E p \in Procs : Step(p)
  <2>1. PICK p \in Procs : Step(p)
    BY <1>7
  <2>2. CASE CreateSubmission(p)
    BY <2>2, CreateSubmissionKeeps
  <2>3. CASE ~CreateSubmission(p)
    <3>1. UNCHANGED submissions
      BY <2>1, <2>3 DEF Step, LoadMutex, LockMutex, LockFails, ForgetMutex, DropMutex, CommitDelete,
            InitUpload, UploadCheck, UploadPut, UploadAdd, DeleteFileInManifest, Unlink
    <3>2. \E l \in Pcs \ {"create"} : Goto(p, l)
      BY <2>1, <2>3 DEF Step, LoadMutex, LockMutex, LockFails, ForgetMutex, DropMutex, CommitDelete,
            InitUpload, UploadCheck, UploadPut, UploadAdd, DeleteFileInManifest, Unlink, Finish, Pcs
    <3>3. \A q \in Calls : pc'[q] = "create" => pc[q] = "create"
      BY <3>2, <1>a DEF Goto, Types
    <3> QED
      BY <3>1, <3>3, CreatingShrinks
  <2> QED
    BY <2>2, <2>3
<1> QED
  BY <1>1, <1>2, <1>3, <1>4, <1>5, <1>6, <1>7 DEF Next

LEMMA InitOvershoot == Init => FlightInv /\ UploadsBounded /\ SubmitInv
<1> SUFFICES ASSUME Init PROVE FlightInv /\ UploadsBounded /\ SubmitInv
  OBVIOUS
<1>1. NoOp.kind = "none"
  BY DEF NoOp
<1>2. \A p \in Procs : pc[p] = "idle" /\ op[p].kind = "none"
  BY <1>1 DEF Init
<1>3. FlightInv
  BY <1>2 DEF FlightInv, Flying, Procs
<1>4. ASSUME NEW m \in Manifests
      PROVE  counter[m] + Cardinality(BytesInFlight(m)) <= Cardinality(Calls) * UploadLimit
  <2>1. BytesInFlight(m) = {}
    BY <1>2, BytesInFlightOf DEF Flying
  <2>2. counter[m] = 0
    BY DEF Init
  <2> QED
    BY <2>1, <2>2, FS_EmptySet, AllCalls
<1>5. SubmitInv
  <2>1. Creating = {}
    BY <1>2 DEF Creating, Procs
  <2>2. Len(submissions) = 0
    BY DEF Init
  <2>3. Cardinality(Calls) \in Nat /\ SubmissionLimit \in Nat
    BY CreatingCount, ManifestAssumption
  <2> QED
    BY <2>1, <2>2, <2>3, FS_EmptySet DEF SubmitInv
<1> QED
  BY <1>3, <1>4, <1>5 DEF UploadsBounded

\* The limits are overshot by no more than the concurrent calls: the counted and
\* the uploading bytes of a manifest stay within one UploadLimit for each call,
\* and the submissions within the limit and the calls but one, for every number of
\* calls, although both limits are checked (InitUpload, checkSubmissionLimit)
\* without reserving anything.
THEOREM OvershootIsBounded == Spec => []OvershootBounded
<1>1. IdInv /\ FlightInv /\ UploadsBounded /\ [Next]_vars => FlightInv' /\ UploadsBounded'
  BY NextKeepsFlight DEF IdInv
<1>2. IdInv /\ Submitters /\ SubmitInv /\ [Next]_vars => SubmitInv'
  BY NextKeepsSubmit DEF IdInv
<1>3. Submitters /\ UploadsBounded /\ SubmitInv => OvershootBounded
  <2> SUFFICES ASSUME Submitters, SubmitInv, SubmissionLimit > 0
               PROVE  Len(submissions) <= SubmissionLimit + Cardinality(Calls) - 1
    BY DEF OvershootBounded, SubmissionsBounded
  <2> DEFINE creating == Cardinality(Creating)
             calls == Cardinality(Calls)
  <2>1. creating \in Nat /\ calls \in Nat
    BY CreatingCount
  <2>2. Len(submissions) + creating <= SubmissionLimit + calls - 1
    BY DEF SubmitInv
  <2>3. Len(submissions) \in Nat /\ SubmissionLimit \in Nat
    BY ManifestAssumption DEF Submitters
  <2> HIDE DEF creating, calls
  <2>4. Len(submissions) <= SubmissionLimit + calls - 1
    BY <2>1, <2>2, <2>3
  <2> QED
    BY <2>4 DEF calls
<1> QED
  BY <1>1, <1>2, <1>3, InitOvershoot, IdInvariant, SubmitterInvariant, PTL DEF Spec
=============================================================================
