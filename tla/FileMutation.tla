---------------------------- MODULE FileMutation ----------------------------
(***************************************************************************)
(* The single-file mutations of server.py: write_file, the binary writers  *)
(* behind _atomic_binary_mutation (structured_file_apply, zip_entry_extract,*)
(* artifact_upload and artifact_import_file, which prepare their output    *)
(* before they lock anything), and move, copy, delete and mkdir behind     *)
(* _run_filesystem_primitive.  Each takes the slots of its paths one after *)
(* the other (resources.py), checks the client's expectation, checkpoints, *)
(* opens a journal, commits all its paths in one TxF transaction           *)
(* (windows_transaction.py), verifies, records and finalizes; every later  *)
(* failure is undone in process, and what a dead process leaves is         *)
(* reconciled by the next AuditStore, which takes every slot.              *)
(*                                                                         *)
(* A path's state is a file identity, its content and, as an observation,  *)
(* the operation whose commit it is.  The user's editor takes no lock and  *)
(* is held off only by the open handles of Held.                           *)
(***************************************************************************)
EXTENDS Integers, FiniteSets

CONSTANTS
  Paths, Contents, Absent, Dir,
  Ops,
  Kind,       \* which tool each call is
  Src, Dst,   \* the paths of each call; the same path where it has only one
  Expected,   \* the source content the client names (Absent: a new file)
  New,        \* the content a write stores
  Slot,       \* the lock slot a path hashes to
  Nobody, Free, Reconciler,
  InitialData,
  Mixes,      \* bound: the sets of calls made in one behaviour
  MaxEdits, MaxCrashes, MaxFaults, MaxReconciles

\* The tools behind _atomic_binary_mutation.
Derived == {"structured", "extract", "upload", "import"}
Single == {"write"} \cup Derived
Primitives == {"move", "copy", "delete", "mkdir"}
Slots == {Slot[p] : p \in Paths}

ASSUME RequestAssumption ==
  /\ IsFiniteSet(Paths)
  /\ Kind \in [Ops -> Single \cup Primitives]
  /\ Src \in [Ops -> Paths] /\ Dst \in [Ops -> Paths]
  /\ Absent \in Contents /\ Dir \in Contents /\ Absent # Dir
  /\ Expected \in [Ops -> Contents] /\ New \in [Ops -> Contents]
  /\ InitialData \in [Paths -> Contents]
ASSUME MixesAssumption == Mixes \subseteq SUBSET Ops
ASSUME SlotAssumption == Slot \in [Paths -> Nat]
ASSUME ActorAssumption ==
  Nobody \notin Ops /\ Free \notin Ops /\ Reconciler \notin Ops /\ Free # Reconciler
ASSUME LimitAssumption ==
  MaxEdits \in Nat /\ MaxCrashes \in Nat /\ MaxFaults \in Nat /\ MaxReconciles \in Nat

VARIABLES
  ws,         \* path -> [id, data, by]
  nextId,     \* the file index NTFS gives out next
  slot,       \* who holds each lock slot
  queue,      \* the slots each actor has still to take
  pc,         \* where each call is
  row,        \* operations.status
  jstate,     \* "state" of its journal
  reconciled, \* its "audit_reconciled"
  got,        \* the identities and contents the call read
  base,       \* its before checkpoint
  cid,        \* the identity its commit returned
  seen, todo, \* the scan _apply_manifest compares with, and the paths left
  rpc, rop,   \* where the reconciling AuditStore is, and on which journal
  rqueue,     \* the journals of its list it has not handled
  edits, crashes, faults, reconciles

lockVars == <<slot, queue>>
auditVars == <<row, jstate, reconciled>>
fileVars == <<ws, nextId>>
readVars == <<got, base, cid>>
undoVars == <<seen, todo>>
recVars == <<rpc, rop, rqueue, reconciles>>
boundVars == <<edits, crashes, faults>>
vars == <<ws, nextId, slot, queue, pc, row, jstate, reconciled, got, base, cid, seen, todo,
          rpc, rop, rqueue, edits, crashes, faults, reconciles>>

JournalStates ==
  {"none", "applying", "applied_verified", "complete", "failed_recovered", "recovery_required"}
RowStates == {"none", "running", "succeeded", "failed", "interrupted"}
Labels ==
  {"idle", "fetch", "prepared", "lock", "check", "row", "base", "begin", "bind", "commit", "hold",
   "rebind", "after", "apply", "record", "finalize", "event", "undo", "undone", "rscan", "rpath", "rverify", "failing",
   "recovered", "mark", "returned", "raised", "dead"}
Ended == {"returned", "raised", "dead"}

Data == [Paths -> Contents]
Files == [Paths -> [id : Nat, data : Contents, by : Ops \cup {Nobody}]]

FilesOK ==
  /\ ws \in Files /\ nextId \in Nat \ {0}
  /\ got \in [Ops -> Files] /\ base \in [Ops -> Data] /\ cid \in [Ops -> Nat]
  /\ seen \in [Ops -> Data] /\ todo \in [Ops -> SUBSET Paths]

LocksOK ==
  /\ slot \in [Slots -> Ops \cup {Free, Reconciler}]
  /\ queue \in [Ops \cup {Reconciler} -> SUBSET Slots]

ControlOK ==
  /\ pc \in [Ops -> Labels]
  /\ row \in [Ops -> RowStates] /\ jstate \in [Ops -> JournalStates]
  /\ reconciled \in [Ops -> BOOLEAN]
  /\ rpc \in {"idle", "lock", "next", "rscan", "rpath", "row", "mark"}
  /\ rop \in Ops \cup {Nobody}
  /\ rqueue \in SUBSET Ops

BoundsOK ==
  /\ edits \in 0..MaxEdits /\ crashes \in 0..MaxCrashes /\ faults \in 0..MaxFaults
  /\ reconciles \in 0..MaxReconciles

TypeOK == FilesOK /\ LocksOK /\ ControlOK /\ BoundsOK

-----------------------------------------------------------------------------
(* Requests                                                                *)

SlotsOf(o) == {Slot[Src[o]], Slot[Dst[o]]}

\* What each tool asks of its paths before it starts (an absent file or the content the client
\* names), and the paths it changes.
WriteFile(o) == [start |-> [p \in {Dst[o]} |-> Expected[o]], touched |-> {Dst[o]}]
DeleteFile(o) == [start |-> [p \in {Src[o]} |-> Expected[o]], touched |-> {Src[o]}]
MoveFile(o) ==
  [start |-> [p \in {Src[o], Dst[o]} |-> IF p = Dst[o] THEN Absent ELSE Expected[o]],
   touched |-> {Src[o], Dst[o]}]
CopyFile(o) ==
  [start |-> [p \in {Src[o], Dst[o]} |-> IF p = Dst[o] THEN Absent ELSE Expected[o]],
   touched |-> {Dst[o]}]
MakeDirectory(o) == [start |-> [p \in {Dst[o]} |-> Absent], touched |-> {Dst[o]}]

\* A source of its own is only read, and bound by its digest; the output is then a new file.
Bound(o) == Kind[o] \in Derived /\ Src[o] # Dst[o]
DerivedFile(o) == IF Bound(o) THEN CopyFile(o) ELSE WriteFile(o)

Tool ==
  [o \in Ops |->
     CASE Kind[o] = "write"    -> WriteFile(o)
       [] Kind[o] \in Derived  -> DerivedFile(o)
       [] Kind[o] = "delete"   -> DeleteFile(o)
       [] Kind[o] = "move"     -> MoveFile(o)
       [] Kind[o] = "copy"     -> CopyFile(o)
       [] Kind[o] = "mkdir"    -> MakeDirectory(o)]

StartData(o, p) == Tool[o].start[p]
Touched(o) == Tool[o].touched

\* What one TxF transaction leaves at a path of the call.
WriteEffect(o, p) == New[o]
DeleteEffect(o, p) == Absent
MoveEffect(o, p) == IF p = Src[o] THEN Absent ELSE Expected[o]
CopyEffect(o, p) == Expected[o]
MkdirEffect(o, p) == Dir

TargetData(o, p) ==
  CASE Kind[o] \in Single -> WriteEffect(o, p)
    [] Kind[o] = "delete" -> DeleteEffect(o, p)
    [] Kind[o] = "move"   -> MoveEffect(o, p)
    [] Kind[o] = "copy"   -> CopyEffect(o, p)
    [] Kind[o] = "mkdir"  -> MkdirEffect(o, p)

Start(o) == \A p \in DOMAIN Tool[o].start : ws[p].data = StartData(o, p)

Settled(o) ==
  jstate[o] = "none" \/ (jstate[o] \in {"complete", "failed_recovered"} /\ reconciled[o])
Incomplete == {o \in Ops : ~Settled(o)}
Ready == Incomplete = {}

Goto(o, label) == pc' = [pc EXCEPT ![o] = label]
SetRow(o, s) == row' = [row EXCEPT ![o] = s]
SetJournal(o, s) == jstate' = [jstate EXCEPT ![o] = s]
Release(a) == slot' = [s \in Slots |-> IF slot[s] = a THEN Free ELSE slot[s]]

\* Leaving the `with` block, or dying: the slots are free again.
Leave(o, label) == Goto(o, label) /\ Release(o) /\ queue' = [queue EXCEPT ![o] = {}]

\* An exception before the journal exists: only a row that is already there must be closed.
GiveUp(o) == Leave(o, IF row[o] = "running" THEN "failing" ELSE "raised")

\* A readable handle without write sharing: the committed target of a write until the call
\* ends, the source of a copy from the moment it is read.
Held(p) ==
  \E o \in Ops :
    \/ /\ Kind[o] \in Single /\ p = Dst[o]
       /\ pc[o] \in {"rebind", "after", "apply", "record", "finalize", "event"}
    \/ Kind[o] = "copy" /\ p = Src[o] /\ pc[o] \notin {"idle", "lock", "check"} \cup Ended

-----------------------------------------------------------------------------
(* Slots                                                                   *)

Least(S) == CHOOSE s \in S : \A t \in S : s <= t

\* Mutant: slots are taken in the order of the request, source first.
NextSlotUnsorted(a) ==
  IF a # Reconciler /\ Slot[Src[a]] \in queue[a] THEN Slot[Src[a]] ELSE Least(queue[a])

\* WorkspaceExecutionLock sorts its slots.
NextSlot(a) == Least(queue[a])

TakeSlot(a) ==
  LET s == NextSlot(a) IN
  /\ slot[s] = Free
  /\ slot' = [slot EXCEPT ![s] = a]
  /\ queue' = [queue EXCEPT ![a] = @ \ {s}]

Scheduled(o) == \E mix \in Mixes : {o} \cup {x \in Ops : pc[x] # "idle"} \subseteq mix

Call(o) ==
  /\ \/ pc[o] = "idle" /\ Kind[o] \notin Derived /\ Scheduled(o)
     \/ pc[o] = "prepared"
  /\ IF Ready
     THEN Goto(o, "lock") /\ queue' = [queue EXCEPT ![o] = SlotsOf(o)] /\ UNCHANGED slot
     ELSE GiveUp(o)
  /\ UNCHANGED <<fileVars, auditVars, readVars, undoVars, recVars, boundVars>>

AcquireSlot(o) ==
  /\ pc[o] = "lock" /\ queue[o] # {}
  /\ TakeSlot(o)
  /\ UNCHANGED <<pc, fileVars, auditVars, readVars, undoVars, recVars, boundVars>>

Acquired(o) ==
  /\ pc[o] = "lock" /\ queue[o] = {}
  /\ Goto(o, "check")
  /\ UNCHANGED <<lockVars, fileVars, auditVars, readVars, undoVars, recVars, boundVars>>

\* The deadline passed while another call held a slot: every slot taken so far is given back.
LockTimeout(o) ==
  /\ pc[o] = "lock" /\ queue[o] # {} /\ slot[NextSlot(o)] # Free
  /\ GiveUp(o)
  /\ UNCHANGED <<fileVars, auditVars, readVars, undoVars, recVars, boundVars>>

-----------------------------------------------------------------------------
(* Preparation of the binary writers, which hold no slot meanwhile         *)

\* _read_bounded_binary locks each path only while it reads it.
Readable(o) == \A p \in DOMAIN Tool[o].start : slot[Slot[p]] = Free

\* The digests of the request fit; the output of an extraction is not looked at yet.
Prepared(o) ==
  /\ Kind[o] \in {"upload", "import"} => Ready
  /\ ws[Src[o]].data = Expected[o]
  /\ Kind[o] # "extract" => Start(o)

\* The output is computed from these bytes.  structured_file_apply registers itself first.
Prepare(o) ==
  /\ pc[o] = "idle" /\ Kind[o] \in Derived /\ Scheduled(o)
  /\ Readable(o) /\ Prepared(o)
  /\ IF Kind[o] = "structured" THEN SetRow(o, "running") ELSE UNCHANGED row
  /\ Goto(o, IF Kind[o] = "import" THEN "fetch" ELSE "prepared")
  /\ UNCHANGED <<jstate, reconciled, lockVars, fileVars, readVars, undoVars, recVars, boundVars>>

RejectPreparation(o) ==
  /\ pc[o] = "idle" /\ Kind[o] \in Derived /\ Scheduled(o)
  /\ ~(Readable(o) /\ Prepared(o))
  /\ GiveUp(o)
  /\ UNCHANGED <<fileVars, auditVars, readVars, undoVars, recVars, boundVars>>

\* The "attachment-import" lock is kept from the download to the end of the call.
ImportBusy ==
  \E o \in Ops : Kind[o] = "import" /\ pc[o] \notin {"idle", "fetch"} \cup Ended

Fetch(o) ==
  /\ pc[o] = "fetch" /\ ~ImportBusy
  /\ Goto(o, "prepared")
  /\ UNCHANGED <<lockVars, fileVars, auditVars, readVars, undoVars, recVars, boundVars>>

\* The lock is not free in time, or the download fails.
FetchFails(o) ==
  /\ pc[o] = "fetch"
  /\ GiveUp(o)
  /\ UNCHANGED <<fileVars, auditVars, readVars, undoVars, recVars, boundVars>>

\* The transform of a call fails; its row is closed by the tool itself.
TransformFails(o) ==
  /\ pc[o] = "prepared" /\ Kind[o] = "structured"
  /\ faults < MaxFaults /\ faults' = faults + 1
  /\ GiveUp(o)
  /\ UNCHANGED <<fileVars, auditVars, readVars, undoVars, recVars, edits, crashes>>

-----------------------------------------------------------------------------
(* Admission, checkpoint and journal                                       *)

\* A write asks again whether mutations are allowed, then reads; a primitive reads first.
ReadTarget(o) ==
  /\ pc[o] = "check"
  /\ Kind[o] \in Single => Ready
  /\ Start(o)
  /\ got' = [got EXCEPT ![o] = ws]
  /\ Goto(o, "row")
  /\ UNCHANGED <<lockVars, fileVars, auditVars, base, cid, undoVars, recVars, boundVars>>

Reject(o) ==
  /\ \/ pc[o] = "check" /\ ~(Start(o) /\ (Kind[o] \in Single => Ready))
     \/ pc[o] = "row" /\ Kind[o] \in Primitives /\ ~Ready
  /\ GiveUp(o)
  /\ UNCHANGED <<fileVars, auditVars, readVars, undoVars, recVars, boundVars>>

CreateRow(o) ==
  /\ pc[o] = "row"
  /\ Kind[o] \in Primitives => Ready
  /\ SetRow(o, "running")
  /\ Goto(o, "base")
  /\ UNCHANGED <<jstate, reconciled, lockVars, fileVars, readVars, undoVars, recVars, boundVars>>

CheckpointBefore(o) ==
  /\ pc[o] = "base"
  /\ base' = [base EXCEPT ![o] = [p \in Paths |-> ws[p].data]]
  /\ Goto(o, "begin")
  /\ UNCHANGED <<lockVars, fileVars, auditVars, got, cid, undoVars, recVars, boundVars>>

BeginJournal(o) ==
  /\ pc[o] = "begin"
  /\ SetJournal(o, "applying")
  /\ Goto(o, IF Bound(o) THEN "bind" ELSE "commit")
  /\ UNCHANGED <<row, reconciled, lockVars, fileVars, readVars, undoVars, recVars, boundVars>>

-----------------------------------------------------------------------------
(* Commit, verification and completion                                     *)

\* The bound source still has the digest it was prepared from.
SourceBound(o) == ws[Src[o]].data = Expected[o]

\* Checked right before the commit, and again after it.
BindSource(o) ==
  /\ pc[o] \in {"bind", "rebind"}
  /\ SourceBound(o)
  /\ Goto(o, IF pc[o] = "bind" THEN "commit" ELSE "after")
  /\ UNCHANGED <<lockVars, fileVars, auditVars, readVars, undoVars, recVars, boundVars>>

\* The files the transaction itself opens.
Opened(o) == IF Bound(o) THEN {Dst[o]} ELSE {Src[o], Dst[o]}

\* Mutant: the content is not compared in the transaction.
SameIdentity(o) == \A p \in Opened(o) : ws[p].id = got[o][p].id

\* Identity, size and digest on the transacted handle; a missing target must still be missing.
Unchanged(o) ==
  \A p \in Opened(o) : ws[p].id = got[o][p].id /\ ws[p].data = got[o][p].data

\* Where the committed file's identity comes from: kept by an overwrite and a move, new otherwise.
CommitId(o) ==
  IF (Kind[o] \in Single /\ StartData(o, Dst[o]) # Absent) \/ Kind[o] = "move"
  THEN got[o][Src[o]].id ELSE nextId

File(o, p, id) ==
  IF TargetData(o, p) = Absent THEN [id |-> 0, data |-> Absent, by |-> o]
  ELSE [id |-> id, data |-> TargetData(o, p), by |-> o]

Commit(o) ==
  /\ pc[o] = "commit"
  /\ Unchanged(o)
  /\ ws' = [p \in Paths |-> IF p \in Touched(o) THEN File(o, p, CommitId(o)) ELSE ws[p]]
  /\ nextId' = IF CommitId(o) = nextId THEN nextId + 1 ELSE nextId
  /\ cid' = [cid EXCEPT ![o] = CommitId(o)]
  /\ Goto(o, IF Kind[o] \in Single THEN "hold" ELSE "after")
  /\ UNCHANGED <<lockVars, auditVars, got, base, undoVars, recVars, boundVars>>

Committed(o) == ws[Dst[o]].id = cid[o] /\ ws[Dst[o]].data = New[o]

Hold(o) ==
  /\ pc[o] = "hold"
  /\ Committed(o)
  /\ Goto(o, IF Bound(o) THEN "rebind" ELSE "after")
  /\ UNCHANGED <<lockVars, fileVars, auditVars, readVars, undoVars, recVars, boundVars>>

\* The after checkpoint equals the target, a move left its own file there, and a copy still has
\* its source.
Verified(o) ==
  /\ \A p \in Touched(o) : ws[p].data = TargetData(o, p)
  /\ Kind[o] = "move" => ws[Dst[o]].id = cid[o]
  /\ Kind[o] = "copy" => ws[Src[o]].id = got[o][Src[o]].id

CheckpointAfter(o) ==
  /\ pc[o] = "after"
  /\ Verified(o)
  /\ Goto(o, "apply")
  /\ UNCHANGED <<lockVars, fileVars, auditVars, readVars, undoVars, recVars, boundVars>>

MarkApplied(o) ==
  /\ pc[o] = "apply"
  /\ SetJournal(o, "applied_verified")
  /\ Goto(o, "record")
  /\ UNCHANGED <<row, reconciled, lockVars, fileVars, readVars, undoVars, recVars, boundVars>>

RecordSuccess(o) ==
  /\ pc[o] = "record"
  /\ row' = [row EXCEPT ![o] = IF @ = "running" THEN "succeeded" ELSE @]
  /\ Goto(o, "finalize")
  /\ UNCHANGED <<jstate, reconciled, lockVars, fileVars, readVars, undoVars, recVars, boundVars>>

\* Mutant: the finalized journal is not marked as reconciled.
FinalizeUnmarked(o) ==
  /\ pc[o] = "finalize"
  /\ SetJournal(o, "complete")
  /\ Goto(o, "event")
  /\ UNCHANGED <<row, reconciled, lockVars, fileVars, readVars, undoVars, recVars, boundVars>>

Finalize(o) ==
  /\ pc[o] = "finalize"
  /\ SetJournal(o, "complete")
  /\ reconciled' = [reconciled EXCEPT ![o] = TRUE]
  /\ Goto(o, "event")
  /\ UNCHANGED <<row, lockVars, fileVars, readVars, undoVars, recVars, boundVars>>

AddEvent(o) ==
  /\ pc[o] = "event"
  /\ Leave(o, "returned")
  /\ UNCHANGED <<fileVars, auditVars, readVars, undoVars, recVars, boundVars>>

-----------------------------------------------------------------------------
(* Failure                                                                 *)

\* write_file leaves its locks before the outer handler records the failure.
ToFailing(o, label) == IF Kind[o] = "write" THEN Leave(o, label) ELSE Goto(o, label) /\ UNCHANGED lockVars

\* A step raises before it did anything.
Fault(o) ==
  /\ pc[o] \in {"base", "begin", "bind", "commit", "hold", "rebind", "after", "apply", "record",
               "finalize", "event"}
  /\ faults < MaxFaults /\ faults' = faults + 1

\* Nothing was written: the journal of a single-file write is closed on the spot.
CommitFails(o) ==
  /\ pc[o] \in {"bind", "commit"}
  /\ \/ pc[o] = "commit" /\ ~Unchanged(o) /\ UNCHANGED faults
     \/ pc[o] = "bind" /\ ~SourceBound(o) /\ UNCHANGED faults
     \/ Fault(o)
  /\ IF Kind[o] \in Single
     THEN SetJournal(o, "failed_recovered") /\ ToFailing(o, "recovered")
     ELSE Goto(o, "undo") /\ UNCHANGED <<jstate, lockVars>>
  /\ UNCHANGED <<row, reconciled, fileVars, readVars, undoVars, recVars, edits, crashes>>

\* The committed target is gone or changed before it could be held: write_file raises with its
\* journal still "applying", _atomic_binary_mutation recovers.
HoldFails(o) ==
  /\ pc[o] = "hold"
  /\ \/ ~Committed(o) /\ UNCHANGED faults
     \/ Fault(o)
  /\ IF Kind[o] = "write" THEN Leave(o, "failing") ELSE Goto(o, "undo") /\ UNCHANGED lockVars
  /\ UNCHANGED <<auditVars, fileVars, readVars, undoVars, recVars, edits, crashes>>

StepFails(o) ==
  /\ \/ pc[o] = "after" /\ ~Verified(o) /\ UNCHANGED faults
     \/ pc[o] = "rebind" /\ ~SourceBound(o) /\ UNCHANGED faults
     \/ pc[o] \notin {"bind", "commit", "hold"} /\ Fault(o)
  /\ IF pc[o] \in {"base", "begin"}
     THEN ToFailing(o, "failing")
     ELSE Goto(o, "undo") /\ UNCHANGED lockVars
  /\ UNCHANGED <<auditVars, fileVars, readVars, undoVars, recVars, edits, crashes>>

\* What _recover_single_file_commit finds: its own file, unchanged.
StillOurs(o) == Committed(o)

PutBack(o) ==
  ws' = [ws EXCEPT ![Dst[o]] =
           IF StartData(o, Dst[o]) = Absent THEN [id |-> 0, data |-> Absent, by |-> Nobody]
           ELSE [id |-> cid[o], data |-> got[o][Dst[o]].data, by |-> Nobody]]

UndoWrite(o) ==
  /\ pc[o] = "undo" /\ Kind[o] \in Single
  /\ StillOurs(o)
  /\ PutBack(o)
  /\ Goto(o, "undone")
  /\ UNCHANGED <<nextId, lockVars, auditVars, readVars, undoVars, recVars, boundVars>>

Restored(o) ==
  /\ ws[Dst[o]].data = got[o][Dst[o]].data
  /\ StartData(o, Dst[o]) # Absent => ws[Dst[o]].id = cid[o]

UndoVerified(o) ==
  /\ pc[o] = "undone"
  /\ Restored(o)
  /\ SetJournal(o, "failed_recovered")
  /\ ToFailing(o, "recovered")
  /\ UNCHANGED <<row, reconciled, fileVars, readVars, undoVars, recVars, boundVars>>

\* Recovery refuses: somebody else's content is there, or the state cannot be verified.
UndoRefused(o) ==
  /\ \/ pc[o] = "undo" /\ Kind[o] \in Single /\ ~StillOurs(o)
     \/ pc[o] = "undone" /\ ~Restored(o)
  /\ SetJournal(o, "recovery_required")
  /\ ToFailing(o, "failing")
  /\ UNCHANGED <<row, reconciled, fileVars, readVars, undoVars, recVars, boundVars>>

(* rollback_filesystem_primitive_transaction, shared with the reconciler   *)

\* What the journal allows a changed path to hold: a write records the digest it read, a
\* primitive its checkpoint, next to the target.
Owned(o, p) ==
  {IF Kind[o] \in Single THEN StartData(o, p) ELSE base[o][p], TargetData(o, p)}

Attributable(o) == \A p \in Touched(o) : ws[p].data \in Owned(o, p)

\* Mutant: only the files of the manifest are compared.
AtStartPresent(o) == \A p \in Touched(o) : base[o][p] # Absent => ws[p].data = base[o][p]

AtStart(o) == \A p \in Touched(o) : ws[p].data = base[o][p]

\* The second scan, the one _apply_manifest compares digests with.  It writes only what
\* differs: rewriting equal bytes changes nothing.
ApplyScan(o) ==
  /\ seen' = [seen EXCEPT ![o] = [p \in Paths |-> ws[p].data]]
  /\ todo' = [todo EXCEPT ![o] = {p \in Touched(o) : ws[p].data # base[o][p]}]

\* Deletions first; an overwrite keeps the identity it finds.
ApplyPath(o, p) ==
  /\ p \in todo[o] /\ ws[p].data = seen[o][p]
  /\ base[o][p] # Absent => \A q \in todo[o] : base[o][q] # Absent
  /\ LET id == IF base[o][p] = Absent THEN 0 ELSE IF ws[p].id = 0 THEN nextId ELSE ws[p].id
     IN  /\ ws' = [ws EXCEPT ![p] = [id |-> id, data |-> base[o][p], by |-> Nobody]]
         /\ nextId' = IF id = nextId THEN nextId + 1 ELSE nextId
  /\ todo' = [todo EXCEPT ![o] = @ \ {p}]

\* A path of the scan is not what it was: the whole recovery is given up.
ApplyConflict(o) == \E p \in todo[o] : ws[p].data # seen[o][p]

RollbackScan(o) ==
  /\ pc[o] = "undo" /\ Kind[o] \in Primitives
  /\ jstate[o] \in {"applying", "applied_verified"} /\ Attributable(o)
  /\ Goto(o, "rscan")
  /\ UNCHANGED <<lockVars, fileVars, auditVars, readVars, undoVars, recVars, boundVars>>

RollbackApplyScan(o) ==
  /\ pc[o] = "rscan"
  /\ ApplyScan(o)
  /\ Goto(o, "rpath")
  /\ UNCHANGED <<lockVars, fileVars, auditVars, readVars, recVars, boundVars>>

RollbackPath(o) ==
  /\ pc[o] = "rpath"
  /\ \E p \in Paths : ApplyPath(o, p)
  /\ UNCHANGED <<pc, seen, lockVars, auditVars, readVars, recVars, boundVars>>

RollbackApplied(o) ==
  /\ pc[o] = "rpath" /\ todo[o] = {}
  /\ Goto(o, "rverify")
  /\ UNCHANGED <<lockVars, fileVars, auditVars, readVars, undoVars, recVars, boundVars>>

RollbackVerified(o) ==
  /\ pc[o] = "rverify" /\ AtStart(o)
  /\ SetJournal(o, "failed_recovered")
  /\ Goto(o, "recovered")
  /\ UNCHANGED <<row, reconciled, lockVars, fileVars, readVars, undoVars, recVars, boundVars>>

\* The journal of an operation that is already complete is not recoverable either.
RollbackRefused(o) ==
  /\ \/ /\ pc[o] = "undo" /\ Kind[o] \in Primitives
        /\ ~(jstate[o] \in {"applying", "applied_verified"} /\ Attributable(o))
     \/ pc[o] = "rpath" /\ ApplyConflict(o)
     \/ pc[o] = "rverify" /\ ~AtStart(o)
  /\ SetJournal(o, "recovery_required")
  /\ Goto(o, "failing")
  /\ UNCHANGED <<row, reconciled, lockVars, fileVars, readVars, undoVars, recVars, boundVars>>

RecordFailure(o) ==
  /\ pc[o] \in {"failing", "recovered"}
  /\ row' = [row EXCEPT ![o] = IF @ = "running" THEN "failed" ELSE @]
  /\ IF pc[o] = "recovered" /\ row[o] = "running"
     THEN Goto(o, "mark") /\ UNCHANGED lockVars
     ELSE Leave(o, "raised")
  /\ UNCHANGED <<jstate, reconciled, fileVars, readVars, undoVars, recVars, boundVars>>

MarkReconciled(o) ==
  /\ pc[o] = "mark"
  /\ reconciled' = [reconciled EXCEPT ![o] = TRUE]
  /\ Leave(o, "raised")
  /\ UNCHANGED <<row, jstate, fileVars, readVars, undoVars, recVars, boundVars>>

Crash(o) ==
  /\ pc[o] \notin {"idle"} \cup Ended
  /\ crashes < MaxCrashes /\ crashes' = crashes + 1
  /\ Leave(o, "dead")
  /\ UNCHANGED <<fileVars, auditVars, readVars, undoVars, recVars, edits, faults>>

-----------------------------------------------------------------------------
(* The reconciling AuditStore                                              *)

RecCall ==
  /\ rpc = "idle" /\ Incomplete # {}
  /\ reconciles < MaxReconciles /\ reconciles' = reconciles + 1
  /\ rpc' = "lock"
  /\ queue' = [queue EXCEPT ![Reconciler] = Slots]
  /\ UNCHANGED <<slot, pc, rop, rqueue, fileVars, auditVars, readVars, undoVars, boundVars>>

RecAcquireSlot ==
  /\ rpc = "lock" /\ queue[Reconciler] # {}
  /\ TakeSlot(Reconciler)
  /\ UNCHANGED <<pc, fileVars, auditVars, readVars, undoVars, recVars, boundVars>>

RecGiveUp ==
  /\ rpc = "lock" /\ queue[Reconciler] # {} /\ slot[NextSlot(Reconciler)] # Free
  /\ rpc' = "idle"
  /\ Release(Reconciler) /\ queue' = [queue EXCEPT ![Reconciler] = {}]
  /\ UNCHANGED <<pc, rop, rqueue, reconciles, fileVars, auditVars, readVars, undoVars, boundVars>>

RecList ==
  /\ rpc = "lock" /\ queue[Reconciler] = {}
  /\ rqueue' = Incomplete /\ rpc' = "next"
  /\ UNCHANGED <<pc, rop, reconciles, lockVars, fileVars, auditVars, readVars, undoVars, boundVars>>

RecUnchanged == UNCHANGED <<pc, reconciles, lockVars, row, reconciled, readVars, boundVars>>

\* Whether the applied target of a journal is still in place.
AtTarget(o) == \A p \in Touched(o) : ws[p].data = TargetData(o, p)

\* Take the next journal: recover it, keep it, or block on it.
RecJournal(o) ==
  /\ rpc = "next" /\ o \in rqueue
  /\ rqueue' = rqueue \ {o} /\ rop' = o
  /\ LET recoverable == jstate[o] = "applying" /\ Attributable(o)
         blocked == \/ jstate[o] = "applying" /\ ~Attributable(o)
                    \/ jstate[o] = "applied_verified" /\ ~AtTarget(o)
         undone == recoverable /\ Kind[o] \in Single /\ AtStart(o)
     IN  /\ rpc' = IF recoverable /\ ~undone THEN "rscan" ELSE "row"
         /\ jstate' = [jstate EXCEPT ![o] = IF blocked THEN "recovery_required"
                                            ELSE IF undone THEN "failed_recovered" ELSE @]
  /\ RecUnchanged /\ UNCHANGED <<fileVars, undoVars>>

RecScan ==
  /\ rpc = "rscan"
  /\ ApplyScan(rop) /\ rpc' = "rpath"
  /\ RecUnchanged /\ UNCHANGED <<rop, rqueue, jstate, fileVars>>

RecPath ==
  /\ rpc = "rpath"
  /\ \E p \in Paths : ApplyPath(rop, p)
  /\ RecUnchanged /\ UNCHANGED <<rpc, rop, rqueue, jstate, seen>>

RecVerify ==
  /\ rpc = "rpath" /\ (todo[rop] = {} \/ ApplyConflict(rop))
  /\ SetJournal(rop, IF todo[rop] = {} /\ AtStart(rop) THEN "failed_recovered" ELSE "recovery_required")
  /\ rpc' = "row"
  /\ RecUnchanged /\ UNCHANGED <<rop, rqueue, fileVars, undoVars>>

RecRow ==
  /\ rpc = "row"
  /\ row' = [row EXCEPT ![rop] =
               IF @ = "none" THEN @
               ELSE IF jstate[rop] = "applied_verified" THEN "succeeded" ELSE "interrupted"]
  /\ rpc' = "mark"
  /\ UNCHANGED <<pc, rop, rqueue, reconciles, lockVars, jstate, reconciled, fileVars, readVars,
                 undoVars, boundVars>>

RecMark ==
  /\ rpc = "mark"
  /\ jstate' = [jstate EXCEPT ![rop] = IF @ = "applied_verified" THEN "complete" ELSE @]
  /\ reconciled' = [reconciled EXCEPT ![rop] = TRUE]
  /\ rpc' = "next" /\ rop' = Nobody
  /\ UNCHANGED <<pc, row, rqueue, reconciles, lockVars, fileVars, readVars, undoVars, boundVars>>

RecEnd ==
  /\ rpc = "next" /\ rqueue = {}
  /\ rpc' = "idle" /\ Release(Reconciler)
  /\ UNCHANGED <<pc, rop, rqueue, reconciles, queue, auditVars, fileVars, readVars, undoVars,
                 boundVars>>

RecCrash ==
  /\ rpc # "idle"
  /\ crashes < MaxCrashes /\ crashes' = crashes + 1
  /\ rpc' = "idle" /\ rop' = Nobody /\ rqueue' = {}
  /\ Release(Reconciler) /\ queue' = [queue EXCEPT ![Reconciler] = {}]
  /\ UNCHANGED <<pc, reconciles, fileVars, auditVars, readVars, undoVars, edits, faults>>

-----------------------------------------------------------------------------
(* The user's editor, and the specification                                *)

\* Saves in place, replaces by a new file, creates or deletes.
Edit(p) ==
  /\ edits < MaxEdits /\ edits' = edits + 1
  /\ ~Held(p) /\ ws[p].data # Dir
  /\ \E c \in Contents \ {Dir, ws[p].data}, fresh \in BOOLEAN :
       LET id == IF c = Absent THEN 0 ELSE IF fresh \/ ws[p].id = 0 THEN nextId ELSE ws[p].id
       IN  /\ ws' = [ws EXCEPT ![p] = [id |-> id, data |-> c, by |-> Nobody]]
           /\ nextId' = IF id = nextId THEN nextId + 1 ELSE nextId
  /\ UNCHANGED <<pc, lockVars, auditVars, readVars, undoVars, recVars, crashes, faults>>

Blank == [p \in Paths |-> [id |-> 0, data |-> Absent, by |-> Nobody]]

Init ==
  /\ \E number \in [Paths -> 0..Cardinality(Paths)] :
       /\ \A p \in Paths : number[p] = 0 <=> InitialData[p] = Absent
       /\ \A p, q \in Paths : p # q /\ number[p] = number[q] => number[p] = 0
       /\ ws = [p \in Paths |-> [id |-> number[p], data |-> InitialData[p], by |-> Nobody]]
  /\ nextId = Cardinality(Paths) + 1
  /\ slot = [s \in Slots |-> Free]
  /\ queue = [a \in Ops \cup {Reconciler} |-> {}]
  /\ pc = [o \in Ops |-> "idle"]
  /\ row = [o \in Ops |-> "none"] /\ jstate = [o \in Ops |-> "none"]
  /\ reconciled = [o \in Ops |-> FALSE]
  /\ got = [o \in Ops |-> Blank]
  /\ base = [o \in Ops |-> [p \in Paths |-> Absent]]
  /\ cid = [o \in Ops |-> 0]
  /\ seen = base /\ todo = [o \in Ops |-> {}]
  /\ rpc = "idle" /\ rop = Nobody /\ rqueue = {}
  /\ edits = 0 /\ crashes = 0 /\ faults = 0 /\ reconciles = 0

Proceed(o) ==
  \/ Prepare(o) \/ RejectPreparation(o) \/ Fetch(o) \/ FetchFails(o) \/ TransformFails(o)
  \/ Call(o) \/ AcquireSlot(o) \/ Acquired(o) \/ LockTimeout(o)
  \/ ReadTarget(o) \/ Reject(o) \/ CreateRow(o) \/ CheckpointBefore(o) \/ BeginJournal(o)
  \/ BindSource(o) \/ Commit(o) \/ Hold(o) \/ CheckpointAfter(o) \/ MarkApplied(o) \/ RecordSuccess(o)
  \/ Finalize(o) \/ AddEvent(o)
  \/ CommitFails(o) \/ HoldFails(o) \/ StepFails(o)
  \/ UndoWrite(o) \/ UndoVerified(o) \/ UndoRefused(o)
  \/ RollbackScan(o) \/ RollbackApplyScan(o) \/ RollbackPath(o) \/ RollbackApplied(o)
  \/ RollbackVerified(o) \/ RollbackRefused(o)
  \/ RecordFailure(o) \/ MarkReconciled(o)

Reconcile ==
  \/ RecCall \/ RecAcquireSlot \/ RecGiveUp \/ RecList \/ (\E o \in Ops : RecJournal(o))
  \/ RecScan \/ RecPath \/ RecVerify \/ RecRow \/ RecMark \/ RecEnd

Next ==
  \/ \E o \in Ops : Proceed(o) \/ Crash(o)
  \/ Reconcile \/ RecCrash
  \/ \E p \in Paths : Edit(p)

Spec == Init /\ [][Next]_vars

-----------------------------------------------------------------------------
(* Properties                                                              *)

\* Slots of several paths, and the whole set the reconciler takes, are taken one by one: no two
\* actors ever wait for a slot the other one holds (WorkspaceExecutionLock._acquire_slot).
Waiting(a) == queue[a] # {} /\ slot[NextSlot(a)] # Free
NoCircularWait ==
  \A a, c \in Ops \cup {Reconciler} :
    Waiting(a) /\ Waiting(c) => ~(slot[NextSlot(a)] = c /\ slot[NextSlot(c)] = a)

\* A call that ended without success and whose journal no longer blocks anybody has left
\* nothing of its commit in the workspace, whatever failed, died or was edited in between: a path
\* that still carries its commit holds the bytes its checkpoint took.
FailureLeavesNothing ==
  \A o \in Ops :
    pc[o] \in {"raised", "dead"} /\ Settled(o) /\ row[o] # "succeeded"
      => \A p \in Paths : ws[p].by = o => ws[p].data = base[o][p]

\* What a client was told stays true: a returned call has a "succeeded" row and a finalized
\* journal, and neither a later reconciliation nor another call's recovery changes that.
ReturnedIsRecorded ==
  \A o \in Ops : pc[o] = "returned" => row[o] = "succeeded" /\ jstate[o] = "complete" /\ Settled(o)

\* The abstract promise.  A call is open until it commits, applied until it returns, failing
\* while something may still undo it, and closed when it has settled.
PhaseOf(o) ==
  CASE pc[o] = "returned" -> "returned"
    [] pc[o] \in {"raised", "dead"} -> IF Settled(o) THEN "closed" ELSE "failing"
    [] pc[o] \in {"hold", "rebind", "after", "apply", "record", "finalize", "event"} -> "applied"
    [] pc[o] \in {"undo", "undone", "rscan", "rpath", "rverify", "failing", "recovered", "mark"}
         -> "failing"
    [] OTHER -> "open"

Promise == INSTANCE AtomicFiles WITH
  disk <- [p \in Paths |-> ws[p].data],
  phase <- [o \in Ops |-> PhaseOf(o)],
  kept <- base,
  foreign <- edits,
  Scope <- [o \in Ops |-> Touched(o)],
  From <- [o \in Ops |-> [p \in Paths |-> StartData(o, p)]],
  To <- [o \in Ops |-> [p \in Paths |-> TargetData(o, p)]]

\* Every step of the calls, the reconciler and the editor is a step of the promise.
KeepsPromise == Promise!AbstractSpec
=============================================================================
