------------------------ MODULE WorkspaceTransaction ------------------------
(***************************************************************************)
(* The journaled workspace transaction of workspace_history.py, the three  *)
(* callers that run it, and the reconciliation AuditStore performs when it *)
(* is constructed (audit.py).                                              *)
(*                                                                         *)
(*  plan     run_workspace_plan (workspace_operations.py): holds the locks *)
(*           of its own paths until the journal is finalized;              *)
(*  sandbox  the worker's commit of a staged Codex Sandbox result          *)
(*           (worker.py): holds the whole workspace lock, but releases it  *)
(*           before it records the result and finalizes the journal;       *)
(*  control  an approved rollback or selective undo run by approval_ui.py: *)
(*           the checkpoints were taken when approval was requested.       *)
(*                                                                         *)
(* A path's content stands for an entry of _state_map: absent, a directory *)
(* or the digest of a file.  Processes die at any step, the user's editor  *)
(* changes any file at any time without taking a lock, and I/O fails; the  *)
(* constants MaxEdits, MaxCrashes and MaxFaults bound how often, and Mixes *)
(* which operations meet.                                                  *)
(***************************************************************************)
EXTENDS Naturals

CONSTANTS
  Paths,      \* workspace-relative paths
  Contents,   \* states of a path
  Absent,     \* the state of a path that does not exist
  Ops,        \* operation ids
  Kind,       \* the caller that runs each operation
  Free,       \* holder of an unlocked slot
  Reconciler, \* holder of the slots taken by a reconciling AuditStore
  InitialWs,  \* the workspace before the first operation
  Mixes,      \* the sets of operations that may be made in one behaviour
  MaxEdits, MaxCrashes, MaxFaults

Kinds == {"plan", "sandbox", "control"}

ASSUME PathsAssumption ==
  Paths # {} /\ Absent \in Contents /\ InitialWs \in [Paths -> Contents]
ASSUME OpsAssumption == Kind \in [Ops -> Kinds]
ASSUME HolderAssumption ==
  Free \notin Ops /\ Reconciler \notin Ops /\ Free # Reconciler
ASSUME BoundsAssumption == MaxEdits \in Nat /\ MaxCrashes \in Nat /\ MaxFaults \in Nat

VARIABLES
  ws,         \* the live workspace
  lock,       \* who holds each path's WorkspaceExecutionLock slot
  row,        \* operations.status in the audit database
  jstate,     \* "state" of the operation's journal.json
  reconciled, \* its "audit_reconciled"
  scope,      \* the paths its checkpoints cover
  before,     \* the expected (and transaction-before) checkpoint
  target,     \* the target checkpoint
  pc,         \* where the process running the operation is
  seen,       \* the scan the current _apply_manifest compares digests with
  todo,       \* the paths it has still to commit
  rpc,        \* where the reconciling AuditStore is
  rop,        \* the operation it is reconciling
  rcopy,      \* the journal states it read into memory
  rqueue,     \* the journals of its list it has not handled yet
  edits, crashes, faults

wsVars == <<ws, edits>>
journalVars == <<jstate, reconciled>>
checkpointVars == <<scope, before, target>>
applyVars == <<seen, todo>>
recVars == <<rpc, rop, rcopy, rqueue>>
boundVars == <<crashes, faults>>
vars == <<ws, lock, row, jstate, reconciled, scope, before, target, pc, seen, todo,
          rpc, rop, rcopy, rqueue, edits, crashes, faults>>

JournalTerminal == {"complete", "failed_recovered", "failed_preflight"}

JournalStates ==
  {"none", "preflight", "staged", "applying", "recovering", "applied_verified",
   "recovery_required"} \cup JournalTerminal

RowTerminal ==
  {"succeeded", "failed", "cancelled", "timed_out", "interrupted", "conflict"}

RowStates == {"none", "pending_approval", "queued", "running", "committing"} \cup RowTerminal

ProcessStates ==
  {"idle", "locking", "child", "journal", "preflight", "staged", "scan", "apply",
   "recover", "rconf", "rscan", "rapply", "applied", "unlocked", "recorded",
   "finalized", "aborted", "failing", "mark", "done", "dead"}

States == [Paths -> Contents]

TypeOK ==
  /\ ws \in States
  /\ lock \in [Paths -> Ops \cup {Free, Reconciler}]
  /\ row \in [Ops -> RowStates]
  /\ jstate \in [Ops -> JournalStates]
  /\ reconciled \in [Ops -> BOOLEAN]
  /\ scope \in [Ops -> SUBSET Paths]
  /\ before \in [Ops -> States]
  /\ target \in [Ops -> States]
  /\ pc \in [Ops -> ProcessStates]
  /\ seen \in [Ops -> States]
  /\ todo \in [Ops -> SUBSET Paths]
  /\ rpc \in {"idle", "next", "rscan", "rapply", "db", "mark"}
  /\ rop \in Ops \cup {Free}
  /\ rcopy \in [Ops -> JournalStates]
  /\ rqueue \in SUBSET Ops
  /\ edits \in 0..MaxEdits /\ crashes \in 0..MaxCrashes /\ faults \in 0..MaxFaults

-----------------------------------------------------------------------------
(* Journals, scans and locks                                               *)

Settled(o) == jstate[o] = "none" \/ (jstate[o] \in JournalTerminal /\ reconciled[o])

Incomplete == {o \in Ops : ~Settled(o)}

\* Mutant: mutations are not held back by an incomplete journal.
ReadyAlways == TRUE

Ready == Incomplete = {}

Changed(o) == {p \in scope[o] : before[o][p] # target[o][p]}

Matches(o, state) == \A p \in scope[o] : ws[p] = state[p]

\* Mutant: a path already committed counts as foreign.
AttributableStart(o) == \A p \in Changed(o) : ws[p] = before[o][p]

\* No path the transaction may change holds anything but its start or its target.
Attributable(o) == \A p \in Changed(o) : ws[p] \in {before[o][p], target[o][p]}

\* Mutant: paths the manifest lacks are not deleted.
ToCommitPresent(o, manifest) == {p \in Changed(o) : manifest[p] # Absent}

\* _apply_manifest rewrites every changed file of the manifest and deletes what it lacks.
ToCommit(o, manifest) == {p \in Changed(o) : manifest[p] # Absent \/ ws[p] # Absent}

\* Mutant: slots are released without looking at their holder.
ReleaseAll(holder) == [p \in Paths |-> Free]

Release(holder) == [p \in Paths |-> IF lock[p] = holder THEN Free ELSE lock[p]]

SetRow(o, status) == row' = [row EXCEPT ![o] = status]

SetJournal(o, state) == jstate' = [jstate EXCEPT ![o] = state]

Goto(o, label) == pc' = [pc EXCEPT ![o] = label]

-----------------------------------------------------------------------------
(* Admission: the row, the lock and the second readiness check             *)

Checkpoint(o, s, t) ==
  /\ scope' = [scope EXCEPT ![o] = s]
  /\ before' = [before EXCEPT ![o] = ws]
  /\ target' = [target EXCEPT ![o] = t]

\* A target differs from the checkpoint somewhere in its scope and nowhere else.
TargetsOf(s) == {t \in States : t # ws /\ \A p \in Paths \ s : t[p] = ws[p]}

InMix(o) == \E mix \in Mixes : {o} \cup {x \in Ops : row[x] # "none"} \subseteq mix

\* create_operation; a rollback or an undo is previewed under the whole lock first.
Create(o) ==
  /\ pc[o] = "idle" /\ row[o] = "none" /\ InMix(o)
  /\ \/ /\ Kind[o] = "plan" /\ SetRow(o, "running") /\ Goto(o, "locking")
        /\ UNCHANGED checkpointVars
     \/ /\ Kind[o] = "sandbox" /\ SetRow(o, "queued") /\ Goto(o, "locking")
        /\ UNCHANGED checkpointVars
     \/ /\ Kind[o] = "control" /\ SetRow(o, "pending_approval") /\ UNCHANGED pc
        /\ Ready /\ \A p \in Paths : lock[p] = Free
        /\ \E s \in (SUBSET Paths) \ {{}} : \E t \in TargetsOf(s) : Checkpoint(o, s, t)
  /\ UNCHANGED <<wsVars, lock, journalVars, applyVars, recVars, boundVars>>

\* The user approves: approval_ui goes for the workspace lock.
Approve(o) ==
  /\ Kind[o] = "control" /\ pc[o] = "idle" /\ row[o] = "pending_approval"
  /\ Goto(o, "locking")
  /\ UNCHANGED <<wsVars, lock, row, journalVars, checkpointVars, applyVars, recVars, boundVars>>

Acquire(o, s) ==
  /\ \A p \in s : lock[p] = Free
  /\ lock' = [p \in Paths |-> IF p \in s THEN o ELSE lock[p]]

Lock(o) ==
  /\ pc[o] = "locking" /\ Ready
  /\ \/ /\ Kind[o] = "plan" /\ UNCHANGED row /\ Goto(o, "journal")
        /\ \E s \in (SUBSET Paths) \ {{}} : \E t \in TargetsOf(s) :
             Acquire(o, s) /\ Checkpoint(o, s, t)
     \/ /\ Kind[o] = "sandbox" /\ Acquire(o, Paths)
        /\ IF row[o] = "queued"
           THEN SetRow(o, "running") /\ Goto(o, "child") /\ Checkpoint(o, Paths, ws)
           ELSE UNCHANGED <<row, checkpointVars>> /\ Goto(o, "aborted")
     \/ /\ Kind[o] = "control" /\ Acquire(o, Paths)
        /\ SetRow(o, "running") /\ Goto(o, "journal") /\ UNCHANGED checkpointVars
  /\ UNCHANGED <<wsVars, journalVars, applyVars, recVars, boundVars>>

\* The lock timed out or an incomplete journal blocks mutations.  A refused
\* rollback or undo stays pending: its row is not in the failing transition's sources.
Refuse(o) ==
  /\ pc[o] = "locking"
  /\ ~Ready \/ \E p \in Paths : lock[p] # Free
  /\ IF Kind[o] = "control"
     THEN UNCHANGED row /\ Goto(o, "idle")
     ELSE /\ row' = [row EXCEPT ![o] = IF @ \in {"queued", "running"} THEN "failed" ELSE @]
          /\ Goto(o, "done")
  /\ UNCHANGED <<wsVars, lock, journalVars, checkpointVars, applyVars, recVars, boundVars>>

-----------------------------------------------------------------------------
(* The sandboxed child and the claim to commit its result                  *)

ChildSucceeds(o) ==
  /\ pc[o] = "child"
  /\ IF row[o] = "running"
     THEN /\ SetRow(o, "committing") /\ Goto(o, "journal")
          /\ \E t \in States : target' = [target EXCEPT ![o] = t]
     ELSE UNCHANGED <<row, target>> /\ Goto(o, "aborted")
  /\ UNCHANGED <<wsVars, lock, journalVars, scope, before, applyVars, recVars, boundVars>>

ChildFails(o) ==
  /\ pc[o] = "child" /\ Goto(o, "aborted")
  /\ UNCHANGED <<wsVars, lock, row, journalVars, checkpointVars, applyVars, recVars, boundVars>>

\* approval_ui records a launch failure although the worker it spawned is running.
LaunchFailed(o) ==
  /\ Kind[o] = "sandbox" /\ pc[o] \notin {"idle", "done", "dead"}
  /\ row[o] \in {"queued", "running", "committing"}
  /\ SetRow(o, "failed")
  /\ UNCHANGED <<wsVars, lock, journalVars, checkpointVars, pc, applyVars, recVars, boundVars>>

-----------------------------------------------------------------------------
(* restore_workspace_state                                                 *)

WriteJournal(o) ==
  /\ pc[o] = "journal" /\ SetJournal(o, "preflight") /\ Goto(o, "preflight")
  /\ UNCHANGED <<wsVars, lock, row, reconciled, checkpointVars, applyVars, recVars, boundVars>>

Preflight(o) ==
  /\ pc[o] = "preflight"
  /\ IF Matches(o, before[o])
     THEN SetJournal(o, "staged") /\ Goto(o, "staged")
     ELSE SetJournal(o, "failed_preflight") /\ Goto(o, "aborted")
  /\ UNCHANGED <<wsVars, lock, row, reconciled, checkpointVars, applyVars, recVars, boundVars>>

\* Mutant: the journal is not advanced before the first write.
StartApplyUnwritten(o) ==
  /\ pc[o] = "staged" /\ Goto(o, "scan")
  /\ UNCHANGED <<wsVars, lock, row, journalVars, checkpointVars, applyVars, recVars, boundVars>>

StartApply(o) ==
  /\ pc[o] = "staged" /\ SetJournal(o, "applying") /\ Goto(o, "scan")
  /\ UNCHANGED <<wsVars, lock, row, reconciled, checkpointVars, applyVars, recVars, boundVars>>

ApplyScan(o) ==
  /\ pc[o] = "scan"
  /\ IF Matches(o, before[o])
     THEN /\ seen' = [seen EXCEPT ![o] = ws]
          /\ todo' = [todo EXCEPT ![o] = ToCommit(o, target[o])]
          /\ Goto(o, "apply")
     ELSE UNCHANGED applyVars /\ Goto(o, "recover")
  /\ UNCHANGED <<wsVars, lock, row, journalVars, checkpointVars, recVars, boundVars>>

\* commit_bytes, commit_delete, commit_remove_directory: compare and swap one path.
CommitPath(o, p) ==
  /\ pc[o] = "apply" /\ p \in todo[o]
  /\ IF ws[p] = seen[o][p]
     THEN /\ ws' = [ws EXCEPT ![p] = target[o][p]]
          /\ todo' = [todo EXCEPT ![o] = @ \ {p}] /\ UNCHANGED pc
     ELSE UNCHANGED <<ws, todo>> /\ Goto(o, "recover")
  /\ UNCHANGED <<lock, row, journalVars, checkpointVars, seen, recVars, edits, boundVars>>

VerifyTarget(o) ==
  /\ pc[o] = "apply" /\ todo[o] = {}
  /\ IF Matches(o, target[o])
     THEN SetJournal(o, "applied_verified") /\ Goto(o, "applied")
     ELSE UNCHANGED jstate /\ Goto(o, "recover")
  /\ UNCHANGED <<wsVars, lock, row, reconciled, checkpointVars, applyVars, recVars, boundVars>>

MarkRecovering(o) ==
  /\ pc[o] = "recover" /\ SetJournal(o, "recovering") /\ Goto(o, "rconf")
  /\ UNCHANGED <<wsVars, lock, row, reconciled, checkpointVars, applyVars, recVars, boundVars>>

\* Shared by the recovery inside restore_workspace_state (journal "recovering") and
\* rollback_applied_workspace_transaction (journal "applied_verified").
ConflictScan(o) ==
  /\ pc[o] = "rconf"
  /\ IF Attributable(o)
     THEN UNCHANGED jstate /\ Goto(o, "rscan")
     ELSE SetJournal(o, "recovery_required") /\ Goto(o, "aborted")
  /\ UNCHANGED <<wsVars, lock, row, reconciled, checkpointVars, applyVars, recVars, boundVars>>

\* _apply_manifest scans again, without expected_hashes.
RecoverScan(o) ==
  /\ pc[o] = "rscan"
  /\ seen' = [seen EXCEPT ![o] = ws]
  /\ todo' = [todo EXCEPT ![o] = ToCommit(o, before[o])]
  /\ Goto(o, "rapply")
  /\ UNCHANGED <<wsVars, lock, row, journalVars, checkpointVars, recVars, boundVars>>

\* An error while an applied transaction is rolled back leaves its journal as it is.
RecoveryFails(o) ==
  /\ jstate' = [jstate EXCEPT ![o] = IF @ = "recovering" THEN "recovery_required" ELSE @]
  /\ Goto(o, "aborted")

RecoverPath(o, p) ==
  /\ pc[o] = "rapply" /\ p \in todo[o]
  /\ IF ws[p] = seen[o][p]
     THEN /\ ws' = [ws EXCEPT ![p] = before[o][p]]
          /\ todo' = [todo EXCEPT ![o] = @ \ {p}] /\ UNCHANGED <<pc, jstate>>
     ELSE RecoveryFails(o) /\ UNCHANGED <<ws, todo>>
  /\ UNCHANGED <<lock, row, reconciled, checkpointVars, seen, recVars, edits, boundVars>>

VerifyRecovered(o) ==
  /\ pc[o] = "rapply" /\ todo[o] = {}
  /\ SetJournal(o, IF \A p \in Changed(o) : ws[p] = before[o][p]
                   THEN "failed_recovered" ELSE "recovery_required")
  /\ Goto(o, "aborted")
  /\ UNCHANGED <<wsVars, lock, row, reconciled, checkpointVars, applyVars, recVars, boundVars>>

-----------------------------------------------------------------------------
(* Recording the result and finalizing the journal                         *)

\* A plan compares the after checkpoint with its target and records success under its locks.
PlanRecord(o) ==
  /\ Kind[o] = "plan" /\ pc[o] = "applied"
  /\ IF Matches(o, target[o]) /\ row[o] = "running"
     THEN SetRow(o, "succeeded") /\ Goto(o, "recorded")
     ELSE UNCHANGED row /\ Goto(o, "rconf")
  /\ UNCHANGED <<wsVars, lock, journalVars, checkpointVars, applyVars, recVars, boundVars>>

\* The worker and approval_ui give the workspace lock back first.
UnlockApplied(o) ==
  /\ Kind[o] # "plan" /\ pc[o] = "applied"
  /\ lock' = Release(o) /\ Goto(o, "unlocked")
  /\ UNCHANGED <<wsVars, row, journalVars, checkpointVars, applyVars, recVars, boundVars>>

\* The worker turns success into timed_out when its deadline passed meanwhile.
RecordUnlocked(o) ==
  /\ pc[o] = "unlocked"
  /\ \/ /\ Kind[o] = "sandbox" /\ row[o] = "committing"
        /\ \E status \in {"succeeded", "timed_out"} : SetRow(o, status)
        /\ Goto(o, "recorded")
     \/ /\ Kind[o] = "control" /\ row[o] = "running"
        /\ SetRow(o, "committing") /\ Goto(o, "recorded")
     \/ /\ row[o] # IF Kind[o] = "sandbox" THEN "committing" ELSE "running"
        /\ UNCHANGED row /\ Goto(o, "done")
  /\ UNCHANGED <<wsVars, lock, journalVars, checkpointVars, applyVars, recVars, boundVars>>

\* Mutant: the journal's state is not checked again before it is completed.
FinalizeBlind(o) ==
  /\ pc[o] = "recorded"
  /\ SetJournal(o, "complete")
  /\ reconciled' = [reconciled EXCEPT ![o] = TRUE]
  /\ Goto(o, IF Kind[o] = "control" THEN "finalized" ELSE "done")
  /\ lock' = Release(o)
  /\ UNCHANGED <<wsVars, row, checkpointVars, applyVars, recVars, boundVars>>

Finalize(o) ==
  /\ pc[o] = "recorded" /\ jstate[o] = "applied_verified"
  /\ SetJournal(o, "complete")
  /\ reconciled' = [reconciled EXCEPT ![o] = TRUE]
  /\ Goto(o, IF Kind[o] = "control" THEN "finalized" ELSE "done")
  /\ lock' = Release(o)
  /\ UNCHANGED <<wsVars, row, checkpointVars, applyVars, recVars, boundVars>>

\* finalize_workspace_transaction raises: the journal is no longer applied_verified.
FinalizeRaises(o) ==
  /\ pc[o] = "recorded" /\ jstate[o] # "applied_verified"
  /\ row' = [row EXCEPT ![o] = IF @ = "committing" THEN "interrupted" ELSE @]
  /\ Goto(o, "done")
  /\ UNCHANGED <<wsVars, lock, journalVars, checkpointVars, applyVars, recVars, boundVars>>

ControlSucceeds(o) ==
  /\ pc[o] = "finalized"
  /\ row' = [row EXCEPT ![o] = IF @ = "committing" THEN "succeeded" ELSE @]
  /\ Goto(o, "done")
  /\ UNCHANGED <<wsVars, lock, journalVars, checkpointVars, applyVars, recVars, boundVars>>

UnlockAborted(o) ==
  /\ pc[o] = "aborted" /\ lock' = Release(o) /\ Goto(o, "failing")
  /\ UNCHANGED <<wsVars, row, journalVars, checkpointVars, applyVars, recVars, boundVars>>

\* The text of the error tells a conflict from a failure, the deadline a timeout.
RecordFailure(o) ==
  /\ pc[o] = "failing"
  /\ IF row[o] \in IF Kind[o] = "plan" THEN {"running", "succeeded"}
                                       ELSE {"queued", "running", "committing"}
     THEN /\ \E status \in IF Kind[o] = "sandbox" THEN {"failed", "conflict", "timed_out"}
                                                  ELSE {"failed"} : SetRow(o, status)
          /\ Goto(o, IF Kind[o] = "plan" /\ jstate[o] \in {"failed_recovered", "failed_preflight"}
                     THEN "mark" ELSE "done")
     ELSE UNCHANGED row /\ Goto(o, "done")
  /\ UNCHANGED <<wsVars, lock, journalVars, checkpointVars, applyVars, recVars, boundVars>>

\* mark_workspace_transaction_audit_reconciled
MarkReconciled(o) ==
  /\ pc[o] = "mark"
  /\ reconciled' = [reconciled EXCEPT ![o] = TRUE]
  /\ Goto(o, "done")
  /\ UNCHANGED <<wsVars, lock, row, jstate, checkpointVars, applyVars, recVars, boundVars>>

-----------------------------------------------------------------------------
(* Reconciliation: AuditStore.__init__ in any process                      *)

Unlocked == \A p \in Paths : lock[p] = Free

RecIdle == rpc' = "idle" /\ rop' = Free /\ rqueue' = {} /\ lock' = Release(Reconciler)
           /\ rcopy' = [o \in Ops |-> "none"]

\* The whole lock is taken and the journals are listed again, into memory.
RecStart ==
  /\ rpc = "idle" /\ Incomplete # {} /\ Unlocked
  /\ lock' = [p \in Paths |-> Reconciler]
  /\ rpc' = "next" /\ rcopy' = jstate /\ rqueue' = Incomplete
  /\ UNCHANGED <<wsVars, row, journalVars, checkpointVars, pc, applyVars, rop, boundVars>>

\* Recovery ends by writing the copy held in memory, with its new state.
RecWrite(o, state) ==
  /\ SetJournal(o, state)
  /\ reconciled' = [reconciled EXCEPT ![o] = FALSE]
  /\ rcopy' = [rcopy EXCEPT ![o] = state]
  /\ rpc' = "db"

RecProceed(label) == rpc' = label /\ UNCHANGED <<journalVars, rcopy>>

\* recover_incomplete_workspace_transaction, up to its own _apply_manifest.
RecJournal(o) ==
  /\ rpc = "next" /\ o \in rqueue
  /\ rop' = o /\ rqueue' = rqueue \ {o}
  /\ \/ rcopy[o] \in {"preflight", "staged"} /\ RecWrite(o, "failed_preflight")
     \/ /\ rcopy[o] \in {"applied_verified", "complete"}
        /\ IF Matches(o, target[o]) THEN RecProceed("db")
                                    ELSE RecWrite(o, "recovery_required")
     \/ /\ rcopy[o] \in {"applying", "recovering"}
        /\ IF Attributable(o) /\ \A p \in scope[o] \ Changed(o) : ws[p] = before[o][p]
           THEN RecProceed("rscan")
           ELSE RecWrite(o, "recovery_required")
     \/ rcopy[o] \in {"failed_preflight", "failed_recovered", "recovery_required"}
        /\ RecProceed("db")
  /\ UNCHANGED <<wsVars, lock, row, checkpointVars, pc, applyVars, boundVars>>

RecScan ==
  /\ rpc = "rscan" /\ rpc' = "rapply"
  /\ seen' = [seen EXCEPT ![rop] = ws]
  /\ todo' = [todo EXCEPT ![rop] = ToCommit(rop, before[rop])]
  /\ UNCHANGED <<wsVars, lock, row, journalVars, checkpointVars, pc, rop, rcopy, rqueue, boundVars>>

RecPath(p) ==
  /\ rpc = "rapply" /\ p \in todo[rop]
  /\ IF ws[p] = seen[rop][p]
     THEN /\ ws' = [ws EXCEPT ![p] = before[rop][p]]
          /\ todo' = [todo EXCEPT ![rop] = @ \ {p}]
          /\ UNCHANGED <<rpc, journalVars, rcopy>>
     ELSE RecWrite(rop, "recovery_required") /\ UNCHANGED <<ws, todo>>
  /\ UNCHANGED <<lock, row, checkpointVars, pc, seen, rop, rqueue, edits, boundVars>>

RecVerify ==
  /\ rpc = "rapply" /\ todo[rop] = {}
  /\ RecWrite(rop, IF Matches(rop, before[rop]) THEN "failed_recovered" ELSE "recovery_required")
  /\ UNCHANGED <<wsVars, lock, row, checkpointVars, pc, applyVars, rop, rqueue, boundVars>>

\* Mutant: an applied transaction is recorded as interrupted.
RecAuditInterrupted ==
  /\ rpc = "db" /\ rpc' = "mark"
  /\ SetRow(rop, IF rcopy[rop] = "complete" THEN "succeeded" ELSE "interrupted")
  /\ UNCHANGED <<wsVars, lock, journalVars, checkpointVars, pc, applyVars, rop, rcopy, rqueue, boundVars>>

\* A plain UPDATE: whatever status the row has is replaced.
RecAudit ==
  /\ rpc = "db" /\ rpc' = "mark"
  /\ SetRow(rop, IF rcopy[rop] \in {"applied_verified", "complete"}
                 THEN "succeeded" ELSE "interrupted")
  /\ UNCHANGED <<wsVars, lock, journalVars, checkpointVars, pc, applyVars, rop, rcopy, rqueue, boundVars>>

\* Mutant: the journal is completed but not marked as reconciled.
RecMarkUnmarked ==
  /\ rpc = "mark"
  /\ SetJournal(rop, IF rcopy[rop] = "applied_verified" THEN "complete" ELSE jstate[rop])
  /\ rpc' = "next" /\ UNCHANGED <<rop, rcopy, rqueue, lock, reconciled>>
  /\ UNCHANGED <<wsVars, row, checkpointVars, pc, applyVars, boundVars>>

\* The journal file is read again; finalizing one that moved on raises out of __init__.
RecMark ==
  /\ rpc = "mark"
  /\ IF rcopy[rop] = "applied_verified" /\ jstate[rop] # "applied_verified"
     THEN RecIdle /\ UNCHANGED journalVars
     ELSE /\ SetJournal(rop, IF rcopy[rop] = "applied_verified" THEN "complete" ELSE jstate[rop])
          /\ reconciled' = [reconciled EXCEPT ![rop] = TRUE]
          /\ rpc' = "next" /\ UNCHANGED <<rop, rcopy, rqueue, lock>>
  /\ UNCHANGED <<wsVars, row, checkpointVars, pc, applyVars, boundVars>>

RecEnd ==
  /\ rpc = "next" /\ rqueue = {} /\ RecIdle
  /\ UNCHANGED <<wsVars, row, journalVars, checkpointVars, pc, applyVars, boundVars>>

-----------------------------------------------------------------------------
(* The environment                                                         *)

\* The user's editor, or any process that takes no lock.
Edit(p, c) ==
  /\ edits < MaxEdits /\ ws[p] # c
  /\ ws' = [ws EXCEPT ![p] = c] /\ edits' = edits + 1
  /\ UNCHANGED <<lock, row, journalVars, checkpointVars, pc, applyVars, recVars, boundVars>>

\* The process dies; the operating system drops its file locks.  A pending
\* approval outlives the approval_ui that was about to run it.
Crash(o) ==
  /\ crashes < MaxCrashes /\ crashes' = crashes + 1
  /\ pc[o] \notin {"idle", "done", "dead"}
  /\ Goto(o, IF row[o] = "pending_approval" THEN "idle" ELSE "dead")
  /\ lock' = Release(o)
  /\ UNCHANGED <<wsVars, row, journalVars, checkpointVars, applyVars, recVars, faults>>

RecCrash ==
  /\ crashes < MaxCrashes /\ crashes' = crashes + 1
  /\ rpc # "idle" /\ RecIdle
  /\ UNCHANGED <<wsVars, row, journalVars, checkpointVars, pc, applyVars, faults>>

\* stop_job after terminating a worker, or _reconcile_stale_jobs at the next start.
StaleRow(o) ==
  /\ pc[o] = "dead" /\ row[o] \in {"queued", "running"}
  /\ \E status \in {"interrupted"} \cup (IF Kind[o] = "sandbox" THEN {"cancelled"} ELSE {}) :
       SetRow(o, status)
  /\ UNCHANGED <<wsVars, lock, journalVars, checkpointVars, pc, applyVars, recVars, boundVars>>

\* Reading, staging, writing or recording fails, and the handler's error path runs.
Fault(o) ==
  /\ faults < MaxFaults /\ faults' = faults + 1
  /\ \/ /\ pc[o] = "journal" /\ Goto(o, "aborted") /\ UNCHANGED <<row, jstate>>
     \/ /\ pc[o] = "preflight" /\ SetJournal(o, "failed_preflight") /\ Goto(o, "aborted")
        /\ UNCHANGED row
     \/ /\ pc[o] \in {"staged", "scan", "apply"} /\ Goto(o, "recover")
        /\ UNCHANGED <<row, jstate>>
     \/ /\ pc[o] \in {"rconf", "rscan", "rapply"} /\ RecoveryFails(o) /\ UNCHANGED row
     \/ /\ Kind[o] = "plan" /\ pc[o] \in {"applied", "recorded"} /\ Goto(o, "rconf")
        /\ UNCHANGED <<row, jstate>>
     \/ /\ Kind[o] = "control" /\ pc[o] = "applied" /\ Goto(o, "aborted")
        /\ UNCHANGED <<row, jstate>>
     \/ /\ Kind[o] = "control" /\ pc[o] = "recorded" /\ Goto(o, "done")
        /\ row' = [row EXCEPT ![o] = IF @ = "committing" THEN "interrupted" ELSE @]
        /\ UNCHANGED jstate
     \/ \* The event after a successful restore: the result counts as failed, and is finalized.
        /\ Kind[o] = "sandbox" /\ pc[o] = "unlocked" /\ row[o] = "committing"
        /\ SetRow(o, "failed") /\ Goto(o, "recorded") /\ UNCHANGED jstate
     \/ /\ Kind[o] = "sandbox" /\ pc[o] = "recorded" /\ Goto(o, "done")
        /\ UNCHANGED <<row, jstate>>
  /\ UNCHANGED <<wsVars, lock, reconciled, checkpointVars, applyVars, recVars, crashes>>

\* Also when the after checkpoint of an applied transaction cannot be captured.
RecFault ==
  /\ faults < MaxFaults /\ faults' = faults + 1
  /\ \/ rpc \in {"rscan", "rapply"}
     \/ rpc = "db" /\ rcopy[rop] \in {"applied_verified", "complete"}
  /\ RecWrite(rop, "recovery_required")
  /\ UNCHANGED <<wsVars, lock, row, checkpointVars, pc, applyVars, rop, rqueue, crashes>>

-----------------------------------------------------------------------------
Init ==
  /\ ws = InitialWs
  /\ lock = [p \in Paths |-> Free]
  /\ row = [o \in Ops |-> "none"]
  /\ jstate = [o \in Ops |-> "none"]
  /\ reconciled = [o \in Ops |-> FALSE]
  /\ scope = [o \in Ops |-> {}]
  /\ before = [o \in Ops |-> InitialWs]
  /\ target = [o \in Ops |-> InitialWs]
  /\ pc = [o \in Ops |-> "idle"]
  /\ seen = [o \in Ops |-> InitialWs]
  /\ todo = [o \in Ops |-> {}]
  /\ rpc = "idle" /\ rop = Free /\ rqueue = {}
  /\ rcopy = [o \in Ops |-> "none"]
  /\ edits = 0 /\ crashes = 0 /\ faults = 0

\* The steps a live process takes towards the end of its operation.
Proceed(o) ==
  \/ Lock(o) \/ Refuse(o) \/ ChildSucceeds(o) \/ ChildFails(o)
  \/ WriteJournal(o) \/ Preflight(o) \/ StartApply(o) \/ ApplyScan(o)
  \/ \E p \in Paths : CommitPath(o, p) \/ RecoverPath(o, p)
  \/ VerifyTarget(o) \/ MarkRecovering(o) \/ ConflictScan(o) \/ RecoverScan(o)
  \/ VerifyRecovered(o) \/ PlanRecord(o) \/ UnlockApplied(o) \/ RecordUnlocked(o)
  \/ Finalize(o) \/ FinalizeRaises(o) \/ ControlSucceeds(o)
  \/ UnlockAborted(o) \/ RecordFailure(o) \/ MarkReconciled(o)

Reconcile ==
  \/ RecStart \/ RecScan \/ RecVerify \/ RecAudit \/ RecMark \/ RecEnd
  \/ \E o \in Ops : RecJournal(o)
  \/ \E p \in Paths : RecPath(p)

Environment ==
  \/ \E p \in Paths, c \in Contents : Edit(p, c)
  \/ \E o \in Ops : Create(o) \/ Approve(o) \/ LaunchFailed(o) \/ Crash(o) \/ StaleRow(o) \/ Fault(o)
  \/ RecCrash \/ RecFault

Running == {o \in Ops : pc[o] \notin {"idle", "done", "dead"}}

Next == (\E o \in Running : Proceed(o)) \/ Reconcile \/ Environment

Spec == Init /\ [][Next]_vars

\* A live process runs on, and some process constructs an AuditStore again and again
\* (every server, worker and approval_ui start does).
Fairness == (\A o \in Ops : WF_vars(Proceed(o))) /\ WF_vars(Reconcile)

LiveSpec == Spec /\ Fairness

-----------------------------------------------------------------------------
(* Properties                                                              *)

\* restore_workspace_state, audit.py: two transactions whose outcome is still open never
\* cover the same path, so recovering one cannot undo the other.  The readiness check under
\* the lock, the lock itself and the journal kept until the audit row is written enforce it.
NoOverlappingUnsettled ==
  \A a, b \in Incomplete : a # b => scope[a] \cap scope[b] = {}

\* recover_incomplete_workspace_transaction: processes dying at any step, the reconciler
\* included, never leave a journal that automatic recovery gives up on; only a concurrent
\* edit or an I/O error does.
CrashesAloneRecover ==
  edits = 0 /\ faults = 0 => \A o \in Ops : jstate[o] # "recovery_required"

\* What approval_ui and the worker may leave as the row of a completed transaction: approval_ui
\* finalizes before it writes its last status, and the worker reports failure when the event
\* after the commit cannot be written.  A plan is recorded as failed although a reconciler
\* completed it when its own rollback was interrupted, which takes a second accident.
CompletedRow(o) ==
  \/ row[o] \in {"succeeded", "timed_out"}
  \/ Kind[o] = "control" /\ row[o] = "committing"
  \/ Kind[o] = "sandbox" /\ row[o] = "failed" /\ faults > 0
  \/ Kind[o] = "plan" /\ row[o] = "failed" /\ edits + faults > 1

\* Once an operation has stopped and its journal is settled, audit row and journal tell the
\* same story: success is recorded only for a completed transaction, and a completed one is
\* recorded as a success, but for the exceptions above.
SettledAuditAgrees ==
  \A o \in Ops :
    pc[o] \in {"done", "dead"} /\ jstate[o] # "none" /\ Settled(o) =>
      /\ row[o] = "succeeded" => jstate[o] = "complete"
      /\ jstate[o] = "complete" => CompletedRow(o)

\* _apply_manifest: the program changes a path only under that path's lock, for a journal
\* that names the path and is already durable, and going forward it replaces only the
\* content the preview checkpoint recorded.
MutationsAreJournaled ==
  [][\A p \in Paths : ws'[p] # ws[p] /\ edits' = edits =>
       \E o \in Incomplete :
         /\ p \in Changed(o) /\ lock[p] \in {o, Reconciler}
         /\ \/ jstate[o] = "applying" /\ ws[p] = before[o][p] /\ ws'[p] = target[o][p]
            \/ jstate[o] \in {"applying", "recovering", "applied_verified"}
               /\ ws'[p] = before[o][p]]_vars

\* Startup reconciliation: every journal left open is eventually settled, or marked
\* recovery_required so that mutations stay blocked.
EventuallySettled ==
  \A o \in Ops :
    jstate[o] # "none" ~> (Settled(o) \/ jstate[o] = "recovery_required")

\* SECURITY_CONTRACT.md section H and rollback_applied_workspace_transaction: recovery never
\* overwrites content that is neither the start nor the target of the transaction.
ThirdPartyChangesKept ==
  [][\A p \in Paths : ws'[p] # ws[p] /\ edits' = edits =>
       \E o \in Ops : p \in Changed(o) /\ ws[p] \in {before[o][p], target[o][p]}]_vars
=============================================================================
