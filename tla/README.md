# Formal models of Windows Local MCP

TLA+ modules, TLC configurations and TLAPS proofs for the Python and PowerShell programs in `src/`:
a local MCP server that lets a client read and change a Windows workspace, run commands in a sandbox
or on the host after a local user approved them, and undo what it did. The modules model what the
programs do, not what their documents say; where the two disagree a run shows it, or section 15
names it.

Source paths below are relative to `src/src/windows_local_mcp/` unless they start with a script's
name. `PROJECT.json` maps every definition to its lines.

## 1. Inventory

| Component | State it keeps | Operations | Interacts with |
|---|---|---|---|
| Audit store (`audit.py`) | SQLite table of operations and events | create, transition (compare and swap), approve and claim, reject, expire, capacity check, reconcile journals at construction, prune | everything; named lock `audit-state` |
| Workspace transactions (`workspace_history.py`) | checkpoints, blobs, one `journal.json` per transaction | capture, build target, restore, finalize, roll back, recover, selective undo | workspace files, audit store |
| Plans (`workspace_plan.py`, `workspace_operations.py`, `workspace_batch.py`, `workspace_replace.py`) | plans in memory with expiry | build, show, put, take, run | locks, transactions, audit store |
| Worker (`worker.py`) | its child, checkpoints | verify, bind identity, check grant, start child, wait, commit, record | audit store, locks, transactions, sandbox |
| Executor (`executor.py`, `process_utils.py`, `windows_job.py`) | process identities in the audit row | launch, stop, reconcile stale jobs | worker processes |
| Approval (`approval_ui.py`, `approval.py`) | bundle of frozen inputs; the request on screen | prepare, verify, materialize, show, approve and launch, reject, rollback/undo | audit store, executor, transactions |
| MCP server (`server.py`) | pending requests, transfers | queue command, request approval, poll, stop, file tools, transfers | all of the above |
| Locks (`resources.py`) | byte-range locks, 256 slots per workspace, named control-plane locks | acquire with timeout, release; release by process exit | all writers |
| Transfers (`server.py`, `transfer_receipts.py`, `artifact_fast_path.py`) | directory and manifest per transfer | begin, chunk, commit, cancel, status, retention | quota, single-file write |
| Single-file writes, filesystem primitives (`server.py`, `windows_transaction.py`, `paths.py`) | journal, handles | write, structured edit, extract, import, move, copy, delete, mkdir | locks, audit store |
| Approved Host (`approved_host_*.py`, `windows_user_process.py`) | active operation, proof and status files of a privileged service | launch, watch, consume, recover | pipe, worker |
| Control-plane guard (`control_plane*.py`) | generation, digests, postflight and tamper markers | arm, compare, block | worker, server start |
| Sandbox (`sandbox_*.py`), network guard (`wfp_*.py`) | live-verification evidence, attempt file, filters | verify, repair, hold, launch, clean up | worker, elevated helper |
| Git broker (`git_broker_*.py`) | projection of the repository | stage, run a batch, remove | executor, audit store |
| Runtime update and launcher (`update-localmcp.ps1`, `scripts/runtime_update_support.py`, `run-localmcp.ps1`, `secure-mcp-tunnel.ps1`) | status and decision files, the installed runtime and its backup, the Tunnel's binding | prepare, switch, roll back, bind, restart | service, server, Tunnel |
| Live activity (`live_activity.py`, `activity_monitor.py`, `timeline.py`) | cursor of a follower | poll, merge, render | audit store |
| Reading (`context_*.py`, `high_level_read.py`) | export continuation tokens | read, continue | workspace |
| Structured files, policy, configuration | none after start | parse, classify, validate | - |

What is hard here: several processes (servers, approval UIs, workers, Executors, a service, elevated
helpers, an updater) share one database, one set of journals, one workspace and one installation; any
of them dies at any step; the user's editor and Git take no lock; process identities are recorded
after the process runs; approvals expire while they are acted on; evidence is read long before it is
relied on. `PROJECT.json` lists each hazard at its line with the properties that watch it.

What makes each modelled component correct:

* a transaction changes files only under their locks and only when a durable journal says so;
  transactions that may still be undone never overlap; a crash alone is always recoverable; journal
  and audit row agree in the end;
* an operation starts its child at most once and only after it was approved; a cancelled job is
  really stopped and stays cancelled; slots are bounded and come free when nobody is left at work;
* a file tool changes all its paths at once and only from the state its client named;
* what is executed, or applied to the workspace, is what was approved;
* an unverified host run closes the host until it is verified or an administrator recovers it;
* a sandbox child is created only behind a verification that stands;
* a call that was planned earlier does what it would do now, or fails;
* an update ends in what its status says.

## 2. Plan

Done, in this order: `WorkspaceTransaction`, `OperationLifecycle` and their proofs; `BinaryTransfer`
and its proofs; `FileMutation` with the abstract `AtomicFiles`; `ApprovedHost`; `SandboxVerification`;
`RuntimeUpdate`; `ApprovedRequest` and, on top of it, `WorkspaceControl`; `WorkspacePlan` and, on top
of it, `GitBroker`; the Git worker as a tier of `OperationLifecycle`; `FileMutationProofs`,
`WorkspaceControlProofs`, `SandboxVerificationProofs`, `HostRuntimeProofs` and `GitBrokerProofs`.

Left, the most useful first:

1. the follower of `live_activity.py`: what a reader sees of rows that are written, pruned and
   reconciled while it polls;
2. the limits of retention: how many rows and how many bytes of blobs are kept (`ApprovedRequest` deletes any set of
   ended rows);
3. output capture (`resources.py`) and diff statistics as operators against a reference definition.

Which module composes which:

```
AtomicFiles  <-implements-  FileMutation
ApprovedRequest  <-EXTENDS-  WorkspaceControl        (commands and undo share UI, locks and rows)
WorkspacePlan    <-EXTENDS-  GitBroker               (staging beside plans, edits and restarts)
WorkspaceTransaction, OperationLifecycle, BinaryTransfer, FileMutation, ApprovedHost,
    WorkspaceControl, SandboxVerification, GitBroker  <-EXTENDS-  ...Proofs
ApprovedHost, RuntimeUpdate  <-EXTENDS-  HostRuntimeProofs   (they share no name)
```

Every module is written from one concern down to the step of the code that matters for it and takes
the others in one step: the call between `SyncOpensJournal` and `SyncClosesJournal` of `OperationLifecycle` is
all of `WorkspaceTransaction`; the commit of `WorkspacePlan` as well; `StartsChild` of `ApprovedRequest` is all of `SandboxVerification` or `ApprovedHost`.

## 3. WorkspaceTransaction

The module follows one journal from its creation to the moment its audit row agrees with it. A
path's value is an entry of `_state_map` (absent, a directory, or a file digest).

| Model | Code |
|---|---|
| `ws` | the files, as `_scan_current_state` sees them |
| `lock` | the byte-range slots of `WorkspaceExecutionLock`, one per path, taken together |
| `row` | `operations.status` |
| `jstate`, `reconciled` | `state` and `audit_reconciled` of `journal.json` |
| `scope`, `before`, `target` | the entries of the expected and target checkpoints |
| `pc`, `seen`, `todo` | the program counter of the process that runs the operation, and the digests and remaining entries of its current `_apply_manifest` |
| `rpc`, `rop`, `rcopy`, `rqueue` | the same for the one `AuditStore.__init__` that reconciles: `rcopy` is the list of journals it read into memory |

Three callers run the same protocol and differ in where they stand when something fails. `plan` is
`run_workspace_plan`: it locks its own paths, keeps the locks until the journal is finalized, and
rolls back when the success it has just recorded cannot be finalized. `sandbox` is the worker: it
takes the whole lock before its child runs, claims `committing`, and gives the lock back *before* it
records and finalizes. `control` is an approved rollback or selective undo: its checkpoints are old,
its row returns to `pending_approval` when the lock is refused, and it passes through `committing`.

The restore itself is `WriteJournal`, `Preflight`, `StartApply`, `ApplyScan`, `CommitPath` (one path
per step, compare and swap), `VerifyTarget`; on failure `MarkRecovering`, `ConflictScan`,
`RecoverScan`, `RecoverPath`, `VerifyRecovered`. Each is one durable write or one read of the
workspace, so a crash, an edit or the other processes can come between any two. Reconciliation is
`RecStart` to `RecEnd` with the same grain. `Fault` takes the error path of each of these steps.

Properties: `NoOverlappingUnsettled`, `CrashesAloneRecover`, `SettledAuditAgrees`,
`MutationsAreJournaled`, `EventuallySettled`; and the violated `ThirdPartyChangesKept` (section 15).

## 4. OperationLifecycle

The module follows an operation's row and every process that acts on it. A statement of
`audit.py` is one step, because SQLite runs it under the `audit-state` lock; what a process read
before (`view`, `stopSeen`, `recSeen`) stays in its memory and may be stale when it is used.

| Model | Code |
|---|---|
| `status`, `approval`, `claimed`, `owner` | columns of the row |
| `reqLive`, `grantLive` | `request_expires_at`, `approval_expires_at` compared with the clock |
| `ident`, `childId` | worker identity (none, the launcher's bootstrap, the worker's own) and child identity |
| `handler`, `view` | the call that creates and launches the operation; the request on an approval UI's screen |
| `journal` | an incomplete `journal.json` of the operation |
| `worker`, `outcome`, `child` | where `run_operation` is, the status it will record, its child |
| `starts` | history: how often a child started |
| `stopPc`, `stopSeen`, `recPc`, `recSeen` | `Executor.stop` and `_reconcile_stale_jobs` with the rows they read |

A broker command goes `Submit`, `Spawn`, `RecordBootstrap`, `LaunchReturns`; a sandbox command
`Admit`, `Request`, then in an approval UI `Show`, `ApproveAndClaim` (or `Reject`, `Skip`,
`ApproveRefused`) and the same launch. The worker is `Bind` (queued to running together with its own
identity), `CheckGrant`, `StartChild`, `RecordChild`, `WaitEnds`, `Finish` and the failure of each; the commit of a
staged result cannot be reached (section 15) and is left out. `Executor.stop` is `StopRead`, `StopChild`, `StopMatch`, `StopKill`,
`StopCancel`: kill the recorded child, verify the worker's identity, list and terminate its
descendants, terminate it, and only then record `cancelled`.

A Git command (`git_broker_worker.py`) is launched like a broker command and run by a worker of its
own: `GitRefuses`, `GitRuns`, `GitFails`, `GitFinish`. Its child never appears in the row, there is no
grant, and the end is recorded from `running` only. A batch is one child start; what
happens in it is the subject of `GitBroker`.

Work the server does itself (tier `sync` of the model; the code writes `broker` with status `running`)
is `RunSync` and `SyncSucceeds`. A plan has a journal in between (`SyncOpensJournal`,
`SyncClosesJournal`), and two of its statements write over a terminal status: `SyncFails` names `succeeded` among its
sources, and `ReconcileJournal` is an UPDATE without a condition. `FinishedRowsKept` says that nothing else
does: no command's row ever changes once it has ended, and a row of synchronous work only then. What journal and
row say of each other is `SettledAuditAgrees`. Retention deletes terminal rows (`_prune_database`); that is left to `ApprovedRequest`.

## 5. BinaryTransfer

A transfer is a directory with a manifest, a payload and, for an upload, an index of receipts. A
critical section under a transfer's lock that makes one durable write is one step; a chunk
(payload, receipt, manifest) and a commit (target file, manifest) are one step per write.

| Model | Code |
|---|---|
| `pool`, `looked`, `counted` | the lock `binary-transfer` and the loop of `_admit_transfer` |
| `begin` | where the begin call is: scan, snapshot copy, publication, audit row |
| `state`, `received`, `rcount`, `intact` | `state`, `received`, `receipt_count`, `payload_identity` of `manifest.json` against the payload |
| `live` | `expires_at` compared with the clock |
| `payload`, `receipts` | `payload.bin`, `chunks.bin` without its unused slots |
| `call` | the call inside `transfer-<id>` and the chunk it carries |
| `marks` | calls of `_mark_transfer_failed` that follow a failed call, with the states each may replace |
| `expected`, `file`, `ready`, `applied`, `torn` | the target of the commit; the last two are history |
| `acked`, `skipped`, `orphans` | history: acknowledged chunks, manifests a scan could not read, begin calls that lost their process or their mark |

A begin call is `BeginLock`, one `AdmitLook` (or `AdmitSkip`, `AdmitTimeout`) per transfer, then
`AdmitRefuse`, `ReserveFails` or `Reserve`; a download goes on with `Copy` and `Publish`; both end with
`BeginLogged` or `BeginLogFails`. Clients then call `DownloadChunk`, `ChunkStart` (with `WritePayload`,
`WriteReceipt`, `PublishChunk`), `CommitStart` (with `Mutate`, `CommitPublish`) and `Cancel` in any
order and as often as they like. An identical retry of a received chunk writes nothing and is no
step; `AckedStays` says that it is answered. `FindReceipt` is the binary search of `find_receipt`.

Properties: `OpenWithinLimit`, `LostBeginHoldsNoSlot`, `AckedStays`, `AppliedIsCommitted`; proved
besides, `EndedStaysEnded`. `AppliedIsCommitted` excepts the commits in `torn`: after a crash between
the two writes the upload stays `open`, a retry is refused because the target no longer has the
expected content, and the upload expires although its bytes are in the workspace.

## 6. AtomicFiles and FileMutation

`AtomicFiles` is what a client of the file tools may rely on, and nothing about how: a call changes
all its paths in one step and only from the state the client named (`Apply`); a call that returned
keeps its effect; a failing call may put back, path by path, what it had looked at (`Look`, `Restore`);
a closed one touches nothing any more; others may change any path at any time (`Foreign`), and the count
of their changes, which maps to the editor's, keeps the writes of the calls apart from theirs.

`FileMutation` is the code: `write_file`, the binary writers behind `_atomic_binary_mutation` (a
structured edit, an archive extraction, the import of an attachment, a one-shot upload), and move, copy,
delete and mkdir behind `_run_filesystem_primitive`.

| Model | Code |
|---|---|
| `ws`, `nextId` | per path the NTFS file identity, the content and (history) the call whose commit it is |
| `slot`, `queue` | the slots of `WorkspaceExecutionLock`, taken one by one in their order, with a timeout at each |
| `pc` | where the call is |
| `row`, `jstate`, `reconciled` | audit row and journal |
| `got`, `base`, `cid` | what the call read, its checkpoint, the identity its commit returned |
| `seen`, `todo` | the scan `_apply_manifest` compares with, and the paths left |
| `rpc`, `rop`, `rqueue` | the reconciling `AuditStore`, which takes every slot |

A call is `Call`, `AcquireSlot`, `Acquired` or `LockTimeout`, `ReadTarget` or `Reject`, `CreateRow`,
`CheckpointBefore`, `BeginJournal`, `Commit` (one TxF transaction), `Hold`, `CheckpointAfter`, `MarkApplied`,
`RecordSuccess`, `Finalize`, `AddEvent`; every one of them may fail (`CommitFails`, `HoldFails`,
`StepFails`) or be the last of a process (`Crash`). What follows a failure is `UndoWrite` for the
single-file writers and `RollbackScan` to `RollbackVerified` for the primitives. The binary writers
prepare their output first and hold no slot meanwhile (`Prepare`, `Fetch`, `TransformFails`); a
structured call has its row by then, an import takes the lock of attachments; a source of its own is
checked before the commit and again after it (`BindSource`).

Properties: `NoCircularWait`, `FailureLeavesNothing` (a path that still carries a failed call's commit holds
the bytes of its checkpoint), `ReturnedIsRecorded`, and `KeepsPromise`: every
behaviour of the calls, the reconciler and the editor is one of `AtomicFiles`, under the refinement
mapping at the end of the module (`PhaseOf` maps program counters to phases, `base` to `kept`).

## 7. ApprovedHost

A command outside the sandbox, run by a SYSTEM worker of a privileged service. Two latches say that
such a run has not been verified: `active.json` of the service, and the postflight marker of the
user's control plane.

| Model | Code |
|---|---|
| `active`, `status`, `proofs` | the files of `approved_host_authority.py`; the archive is a record nothing reads again |
| `tamper`, `pending`, `quarantine` | the markers of `control_plane.py`, and those a recovery moved aside |
| `service`, `call`, `watch` | the service process and its epoch, the launch request it serves, its watcher threads |
| `client`, `worker`, `lease`, `child`, `helper` | requester, SYSTEM worker, `approved_host_worker_lease.py`, the user's command, and what it left outside its job |
| `dirty` | the control plane is not as the guard recorded it |
| `recovery`, `cleared` | the administrator's script, step by step, and the operations whose latch it removed |
| `gate` | `assert_control_plane_healthy` of some other operation, which reads three files one after the other |

The launch is `ClientChecks`, `Arm`, `Spawn`, `RecordRunning` or `LaunchFails`; the worker `Preflight`,
`StartChild`, `ChildEnds`, `Census`, `Capture`, `MarkVerified`, `ReleaseGuard`, `WriteTamper`,
`ClearPending`, `Return`; the watcher `Reap`, `DropProof`, `DropStatus`, `DropLatch`; the recovery
`Review`, `StopService`, `MoveMarker`, `ConfirmClear`, `RemoveProofs`, `RemoveStatus`, `RemoveLatch`.
Service, worker and script may die between any two of their steps.

`Review` is what `recover-approved-host-authority.ps1` checks before it asks the administrator, and no
more: somebody may work on the latch it shows, its worker may live without being recorded, and while the
question stands the run may end and another begin. The script then stops the service and removes the
latch that is there, so `cleared` takes its operation and not the one shown. What protects a running
child is its marker: the worker's handle keeps it in place, and a recovery that was bound to it ends
there. Only an administrator who acknowledges that no marker was found removes the latch of a worker that
goes on; `ChildRunsLatched` names this exception. The service is not started by others while the script
is past its question: it has no failure action and starts with Windows, with the script or by hand.

Properties: `LatchHolds`, `ChildRunsLatched`, `AdmittedWhenSettled`, `LatchResolves`.

## 8. SandboxVerification

What stands between an approved command and its sandbox: the marker of the last live verification
and the network Guard, three objects of the Windows filtering platform that are read and written one
call at a time.

| Model | Code |
|---|---|
| `lock` | the named lock `sandbox-verification` |
| `marker`, `attempt` | `sandbox-live-verification.json`, `sandbox-live-verification-attempt.json` |
| `guard` | sublayer and two filters: absent, readable, or unreadable without elevation |
| `backend` | the installed backend with everything a marker is bound to; `None` while an update replaces it |
| `starter` | a server start in the background, or the operator's `verify-codex-sandbox` |
| `launch` | a worker in `guard_and_launch_codex_sandbox` |
| `helper`, `cleanup` | the elevated helper of a starter, the administrator's removal |
| `probed`, `backing` | history: the last attempt that began; what the published marker rests on |
| `whole` of a task | history: the Guard was complete when it read an object, or was completed between two of them (`Amid`) |

A starter is `Begin`, `Decide`, `Announce`, `Hold`, `EnsureGuard` (with `Elevated` or `ElevationTimeout`),
`Probe`, `Second`, `Brokered`, `Publish`, `Record`; a launch `Bind`, `Check`, `LaunchReads`, `VerifyGuard`,
`Preflight`, `LastLook`, `Create`. A helper outlives the minute it is waited for (`Proceed` to `Report`).

Properties: `ReadBackSound`, `VerifiedMeansProbed`, `ChildOnStandingMarker`, `AttemptsApart`.

## 9. RuntimeUpdate

`update-localmcp.ps1` is two processes. The parent runs as the ordinary user, closes the Tunnel, holds
its mutex, verifies what the child built and binds the Tunnel's state to the new launcher; the child
runs elevated, builds the new version, stops the service, moves the two directories and starts it
again. They talk through `status.json` and one decision file per phase.

| Model | Code |
|---|---|
| `oldAt`, `newAt`, `sound` | which directory holds which version, and whether the new one passes the checks |
| `serviceState`, `host` | the Approved Host service, and its latch |
| `server`, `ui`, `row`, `mutex`, `checked` | what runs from the installed version, and the launcher between its two checks |
| `tunnel` | the launcher the Tunnel's state names, and who wrote it last |
| `statusFile`, `decision` | the files between the two processes |
| `ppc`, `handled`, `launcher`, `saved`, `final` | the parent |
| `cpc`, `retired`, `published`, `stopped` | the child and the flags its `catch` block looks at |

Any step of either may raise (`MaxRaises`), either may be killed (`MaxKills`) or give up waiting
(`Deadline`); servers and windows start meanwhile, through the launcher or past it (`MaxVisits`).

Properties: `StatusTellsRuntime`, `BindingFollowsRuntime`, `RetiredOnlyIdle`, `ServiceComesBack`.

## 10. ApprovedRequest and WorkspaceControl

`ApprovedRequest` follows a command from the request to the end of its child through three processes
that share nothing but files and named locks: the server copies the workspace into a bundle file by
file (`OpenBundle`, `CopyFile`, `SealBundle`) and creates the row; the approval UI verifies the bundle and
claims the row (`UiVerifies`, `UiClaims`, `UiLaunches`); a worker verifies it again, materializes a copy,
claims the row, takes its checkpoint and, for a host run, every named lock one by one and a census of
active operations (`WorkerVerifies`, `Materializes`, `WorkerClaims`, `Checkpoints`, `TakesGuard`,
`Counts`, `HoldsTools`, `StartsChild`). Beside them an editor saves, the broker writes and runs safe
commands, configuration, environment, build and executable are replaced (`Reconfigure`, `Upgrade`),
processes restart, and a starting process opens the audit store, deletes rows that have ended without
any lock, reads which rows are left and removes artifacts later (`SweepOpens`, `SweepPrunes`, `SweepReads`,
`SweepRemoves`).

| Model | Code |
|---|---|
| `live` | the workspace, with an identity per file that every write renews |
| `config`, `exe`, `server` | settings, environment and build as installed; the executable; what the server loaded |
| `bundle`, `tree` | `approval-staging` and `approval-inputs`, `runs` |
| `row`, `grant`, `approved` | audit store; `approved` is history: the bundle at the claim |
| `ask`, `ui`, `worker`, `child` | the four processes of a command |
| `call`, `sweep` | the broker's other calls; the one process that opens the audit store and sweeps |

`WorkspaceControl` adds selective undo and rollback (`AsksUndo`, `ClaimsUndo`, `RestoresUndo`, ...): the
result is computed when it is asked for, shown, and applied later by another process. A file is a list of
lines; what one call changed in it are one or two hunks (`Hunks`: two if it changed both sides of a line that it
kept). As in the code each hunk is looked for by its lines, must be found exactly once, and all are
replaced at the places found before the first of them was replaced, the last first (`ReverseTextChange`); nothing
compares the places with each other. `UndoTakesOwnText` says what the others' lines keep, unless two places
reach into each other (section 15).

Properties: `RunsWhatWasApproved`, `WriterStartsFresh`, `HostRunsAlone`, `BrokerKeepsOut`,
`GuardedStateKept`, `UndoAsShown`, `UndoTakesOwnText`; and the violated `UndoKeepsOtherWork`.

## 11. WorkspacePlan

`workspace_batch` and `workspace_replace` plan from verified reads without a lock, a preview waits in
`WorkspacePlanStore`, and `run_workspace_plan` locks, holds, checks and commits; `workspace_apply` and
`text_file_apply` lock first and read afterwards.

| Model | Code |
|---|---|
| `disk`, `stamp` | kind, identity and text of each path; a text is its writer and the number of matches in it |
| `plan`, `queue` | the plan under construction (`snaps`, `absent`, `changes`, `dels`, `dirs`, `parents`), the operations left |
| `lock`, `held`, `before` | slots, verified handles, the checkpoint |
| `store` | previews whose `plan_id` can still be applied |

A call is `Start` (or `Scan`), `PlanOp` per operation, `Counted`, `Bind`, then `StorePlan` for a preview;
`Take` brings one back, once. It goes on with `Lock`, `Hold`, `Validate`, `Checkpoint`, `Recheck`,
`Preflight`, `Commit`. Meanwhile files are edited, removed and made, and directories are swapped for
others of the same name (`SwapDirectory`); only a held handle stops that.

`AfterOps` is the reference definition: the operations done one after the other on a workspace that has
only one caller. `CommitsInSequence` says that a call that succeeds did that, whatever was read when;
`StaysInDirectories` that it did it inside the directories it was planned for. `EditsExpected` is not
checked by a run (section 15).

## 12. GitBroker

`stage_git_repository` copies worktree and `.git` into a projection while the user's Git goes on;
`run_git_broker_batch` then runs the commands over the copy.

| Model | Code |
|---|---|
| `repo` | `.git`: HEAD, loose and packed refs, index (or none, `NoIndex`), loose and packed objects |
| `request` | the commands with what they look at beyond HEAD; of the repository, the directories `.gitignore` names, the `.gitattributes` files, whether there is `.git/info/attributes`, the paths no tool may read, whether the settings are plain |
| `stage`, `todo` | where the staging is, the entries still to be listed or copied |
| `pins`, `absent` | files whose handles stay open, files that must not appear |
| `copy` | the projection |
| `began`, `seen` | history: the workspace at the beginning; HEAD's commit and the index at every moment since |

The policies come first (`PlanPruning`, `PinHead`, `PinPacked`, `PinRef`), then the tree entry by entry
(`ListDirectory`, `CopyFile`, `ListGit`, `CopyHead`, `CopyIndex`, `CopyRef`, `CopyPack`, ...), then the
commands. The user indexes, commits, switches, packs refs and repacks between any two steps, except
where a kept handle stops the rename.

A path that no tool may read is passed over, a `.gitattributes` becomes comment signs of the same length
(`Projected`), and with attributes the index must describe the files as they are (`Rebased`).

Properties: `HeadAndIndexOfOneMoment`, `TrackedIsCopied`. The second has two exceptions: what no tool may read, and
what lies in an ignored directory that was left out while there was no index: a missing index tracks nothing and has
no handle, so one that appears before `.git` is copied is believed (section 15). The first has one exception, `Unborn`: while HEAD names
a branch without a commit and there is no `packed-refs`, no handle keeps the user from making both, and
`expected_absent` is looked at once, when the directory is listed. A commit, `pack-refs` and the removal of the
ref between the listings of `.git` and of `refs` then leave no trace, and Git is shown an index of later
than its HEAD. It takes four commands of the user inside one staging.

## 13. Runs, bounds and fairness

| Run | Instance | What it shows |
|---|---|---|
| `workspace_commits` | two paths, two contents; two plans, or a staged result beside a rollback or undo; two of: an edit, a crash, up to two failed steps | overlap, recovery after crashes, row against journal, journaled writes |
| `workspace_liveness` | a plan and a staged result, a crash and a failed step, with fairness | every journal is settled or marked `recovery_required` |
| `workspace_foreign_change` | one staged result, three contents, an edit and a failed step | violation: recovery overwrites an edit (section 15) |
| `lifecycle` | one operation of each tier on its own, two approval UIs, one slot, one pending request, a crash and a failed step, with fairness | one start, cancelled means stopped, an ended row stays, slots come free unless an orphan runs |
| `transfers` | three begins over a pool of two, two of them with nothing to carry; two uploads to one edited file; an upload of three bytes in chunks beside a download; two of: an edit, a crash, a failed step | the pool limit, commits and their records, a lost begin, acknowledged chunks |
| `file_mutation` | four pairs of calls on two paths whose slots are taken in the other order; two of: an edit, a crash, a failed step; a reconciliation | no circular wait, nothing left of a failed call, and the refinement of `AtomicFiles` |
| `approved_host` | two host runs at once or in turn, one failure of anything, up to two restarts of the service before a recovery, with fairness | latches, admission, an end of every latch |
| `sandbox_verification` | two starters, or a starter and a launch; two backends, one failure, a marker that expires at once | what a child and a marker rest on |
| `runtime_update` | one update; two failed steps, two kills, two visits by a server or a window, two reconfigurations of the Tunnel, with fairness | status, binding, nothing in use retired, the service returns |
| `approved_requests` | twelve mixes of three commands, two writers, a job, an undo, a rollback, an editor, a process that opens the audit store, and an accident; two files of three to five lines | what runs and what is applied is what was approved |
| `undo_moved_text` | an undo beside two writers | violation: lines of a later call are taken back (section 15) |
| `broker_tools` | nine calls in six mixes on a tree of seven paths; three repositories, one without an index, and six stagings; two of: two changes by others, a restart | planned calls and staged repositories |

*Mixes.* Operations that do not meet cannot disturb each other, and the state space grows with every
operation that may be there. `Mixes` (`Casts`, `Stagings`) lists the sets that may meet in one
behaviour, chosen so that every pair of kinds that share a file, a row or a lock meets in one.
`Editor`, `Accident` and `Sweeper` in a mix of `ApprovedRequest` say which of these may act in it;
`Edited` names the transfers whose target another program may change.

*Accidents.* `MaxEdits`, `MaxCrashes`, `MaxFaults`, `MaxRaises`, `MaxKills`, `MaxRestarts`, `MaxVisits` count what
the environment does. One of each at any step, the steps of recovery included, is the weakest
instance in which a handler of a failure can itself be interrupted; where only a second one shows
something (the row of a plan whose rollback fails) the bound is
two. `TwoAccidents` is a `CONSTRAINT` of four runs: any two of the accidents meet in one behaviour, and
behaviours with three are left out. The theorems of section 14 have no such bound.

*Sizes.* Two paths are the least that a multi-file commit can leave half done; two contents tell start
from target, the third of `workspace_foreign_change` is a stranger's. `MaxPending`, `MaxJobs` and `MaxOpen` are one
below what the mix asks for, so that the limit is met. `MaxReconciles` lets one reconciliation run
beside the calls. `MaxFiles`, `MaxPlans` and `MaxBytes` are the limits of `workspace_plan.py` at a size the mixes
reach. `Ttl`, `Cooldown` and `MaxClock` are the shortest clock on which a marker expires and an attempt
may be repeated. `Installed` is the backend at the beginning.

*Symmetry.* `SamePlans` and `SamePaths` swap values the module does not tell apart, in runs without
liveness only. `InOrder` of `approved_host` is a constraint with the same purpose that liveness allows: of two
runs that are alike, one asks first and is served first.

*Deadlock* is not checked: every instance ends when its operations have ended and nobody edits any
more. That nothing waits for ever is `NoCircularWait` and the liveness properties.

*Fairness.* A process that is alive takes its next step, because Python's scheduler and Windows run it:
`WF(Proceed(o))` in `WorkspaceTransaction`; handlers and workers in `OperationLifecycle`; the
two processes of `ApprovedHost` and its watcher; the elevated child of the updater. A live worker ends
its wait for the child at the deadline; no child is assumed to exit by itself, and a broker child whose worker died has no
deadline at all (`SlotsReleased` names it `Orphaned`). Somebody constructs an `AuditStore` or an `Executor` again and
again (`WF(Reconcile)`, `Reconciling`): every server, worker and approval UI does so at its start. The
host service is started some time after it stopped or crashed (`ServiceStarts`: at the latest with Windows, as its start
type is automatic), and a recovery script that was started goes on (`Recover`); nobody need start one. Nothing is assumed of users, approvals, editors, clocks,
crashes and faults, and no fairness at all in the modules without a liveness property.

## 14. Proofs

TLAPS checks the theorems below for every value of the constants: any number of operations, paths,
transfers, approval UIs, crashes, faults and edits. The only hypotheses are the named assumptions of the
modules (sets of identifiers, bounds that are natural numbers, sentinels outside the sets they are added to).
The runs check the same properties on the instances of section 13.

**WorkspaceTransaction** (`WorkspaceTransactionProofs`).

* `TypeCorrect`: the type invariant, with `RecTarget`: the reconciler's program counter says what its
  registers hold.
* `OpenTransactionsDisjoint` (`NoOverlappingUnsettled`). The property is not inductive: two operations can
  pass the check for unsettled journals unless their locks are disjoint while they check. `ClaimInv` adds
  who claims which paths before and after the journal exists.
* `WritesJournaled` (`MutationsAreJournaled`). `JournalInv` ties the process to its journal: between the
  start of the restore and its end the journal is in the state the program counter implies, what is left to
  write lies in its scope, and the copy the reconciler read is of a journal that still stands.
* `CrashesRecover` (`CrashesAloneRecover`). `QuietInv` says, per program counter, which entries of the
  scope already have the target and which still the start, as long as nobody else wrote. Its step needs two
  facts proved first: a process that holds the lock excludes the reconciler (`LockedExcludes`), and, by `ClaimInv`,
  nobody writes another's paths (`StepKeepsOthers`).
* `AuditAgrees` (`SettledAuditAgrees`). `RowInv` follows the row through rollback and finalization. The
  exception `CompletedRow` of the property was found here: without it the invariant fails, and TLC has the
  counterexample (section 15).

**OperationLifecycle** (`OperationLifecycleProofs`).

* `TypeCorrect`; `ChildStartedOnce` (`StartedOnce`), `WorkerIdentityKept`, `FinishedRowsStay` (`FinishedRowsKept`), from
  `OrderInv`: the stages of handler, launch, worker and row follow each other in one order, so a second worker
  can never find the row it would need. The Git worker is included.
* `CancelledIsStopped` (`CancelledMeansStopped`), from `JobInv`: when a child may run, and what a row and
  the copy that `stop_job` read say of a worker. `stop_job` may act on a stale copy; the invariant shows
  that a copy that names a child names the identity of the worker which bound it.
* `CapacityKept`: `max_concurrent_jobs` holds for any limit, because admission and insertion are one
  statement of SQLite.

**BinaryTransfer** (`BinaryTransferProofs`).

* `TypeCorrect`, `PoolLimitKept` (`OpenWithinLimit`), `CommitsAgree` (`AppliedIsCommitted`),
  `EndedTransfersStay`, from `TransferInv`, and `LostBeginFreesSlot` (`LostBeginHoldsNoSlot`), from
  `Covered`: until its mark is through, a lost begin has a mark that covers the state its manifest is in.
  For the limit `TransferInv` states what the scan under the pool lock has
  counted against what can still open behind it; for the commit, which step of `Mutate` and `CommitPublish` a
  manifest state and a target can be between.

**FileMutation** (`FileMutationProofs`).

* `TypeCorrect`. File identities are unbounded: a rollback that creates a file again takes a new one.
* `NeverCircularWait` (`NoCircularWait`), from `SlotInv`: what an actor holds comes before all it still wants,
  and what it holds at each label. The slots are any natural numbers the paths hash to.
* `ReturnedStaysRecorded` (`ReturnedIsRecorded`), from `JournalInv`: row and journal at each label, and that the
  journals on the reconciler's list are of calls that are failing or dead. The reconciler lists them while it
  has every slot, so `SlotInv` comes first.
* `FailedLeavesNothing` (`FailureLeavesNothing`), from `MarkInv`: a call leaves its mark at its own paths, not
  before its commit, and not in a journal that was recovered, but where it put what its checkpoint held. The
  last clause was found by the proof: without it the property is false as soon as an editor acts twice,
  once to put the target's bytes there before the checkpoint and once to take them away before the commit.
* `ImplementsAtomicFiles` (`KeepsPromise`), step by step from the same invariant: `Commit` is `Apply`,
  `CheckpointBefore` is `Look`, `Edit` is `Foreign`, `UndoWrite` and every path of a rollback or a reconciliation
  is `Restore`, what ends a call is `Return`, `Fail` or `Close`, and the rest stutters.

**ApprovedHost** (`HostRuntimeProofs`).

* `TypeCorrect`, `LatchKept` (`LatchHolds`), `RunningChildLatched` (`ChildRunsLatched`), `AdmissionSettled`
  (`AdmittedWhenSettled`), from `HostInvariant`: which latch must stand at each stage of the worker and its
  watcher, given that each may have died at the stage before, and that a marker once moved aside is that of a
  worker which can start nothing any more.

**ApprovedRequest and WorkspaceControl** (`WorkspaceControlProofs`): `ControlSpec`, which is `ApprovedRequest`
with undos and rollbacks beside it.

* `TypeCorrect`; `ApprovedIsRun` (`RunsWhatWasApproved`), `WritersStartFresh` (`WriterStartsFresh`) and `HostsRunAlone`
  (`HostRunsAlone`), from `ControlInv`. None of them is inductive: a child is started several steps after
  its inputs were compared. `LockInv` says which locks a request holds at each label of server and worker,
  and that a host run has every named lock up to the one it waits for; `StageInv`, that a request is with
  the server, the UI and the worker one after the other; `BundleInv`, that a bundle which was claimed is
  the approved one or swept away, never another; `WorkerInv`, what each comparison of the worker has
  established and nothing but an edit of another program undoes; `ChildInv`, that a child was started from
  that. Executables are numbered in the order of their installation, so that the executable of the request,
  that of the bundle and the one that is held are ordered and the comparison of the first with the last
  settles the middle.
* `BrokerStaysOut` (`BrokerKeepsOut`): four actions change a file of the workspace (`LiveChanges`), and the
  lock of the workspace excludes three of them.
* `GuardsKeep` (`GuardedStateKept`), from `GuardsKeepOut`: with the named locks of a host run held nobody else
  writes to the audit store, the staging area or the history, but for a process that opened the store before and
  deletes rows that had ended. The property says so, because the code does (section 15).
* `UndoesAsShown` (`UndoAsShown`) and `UndoesWhatIsThere`, from `PlanInv`: what is applied was
  computed from the text that is still there; it is the reversal of the call, for files of any number of lines, and
  each hunk of the call was found exactly once. What the reversal leaves of the others' lines
  (`UndoTakesOwnText`) is checked and not proved, see below.

**SandboxVerification** (`SandboxVerificationProofs`).

* `TypeCorrect`; `VerifiedIsProbed` (`VerifiedMeansProbed`), `ChildrenOnMarker` (`ChildOnStandingMarker`) and
  `AttemptsKeptApart` (`AttemptsApart`), from `SandboxInv`: a starter between `Announce` and `Record`, and a launch
  between `Check` and `Create`, has the lock, and the backend it found is the installed one as long as it holds
  the files; what a starter will publish as passed rests on a complete Guard at each stage.
* `ReadBackIsSound` (`ReadBackSound`), from `GuardInv`, `HelperInv` and `ReadInv`: filters stand on their sublayer; one
  filter stands alone only after the cleanup has cut into the Guard; so a reading that found the first
  filter and never the whole Guard can only be completed by a helper in its middle, which is a moment at
  which all stood. The theorem is about behaviours with one maintenance cleanup, as the model has them: a
  second one, between two readings of one read-back and together with late helpers, could break it.

**RuntimeUpdate** (`HostRuntimeProofs`).

* `UpdateTypeCorrect`, `StatusIsTold` (`StatusTellsRuntime`) and `BindingFollows` (`BindingFollowsRuntime`), from `UpdateInv`.
  Neither property is inductive: the status is written last, after everything it speaks of. `ParentAlone`,
  `ChildBefore`, `ChildSwitching` and `ChildUndoing` say where the two versions and the service are at each label of the
  child and what its catch block may find; `OfflineKept`, that without a visit nothing gets in its way after
  the check; `Answers`, that the parent answered a phase once and accepted only what passed; `Bound`, whose launcher
  the Tunnel names between the moment the parent binds it and the moment it learns the end.
* `RetiresOnlyIdle` (`RetiredOnlyIdle`): one action takes the installed version away, and its own second look at
  the runtime excludes what began after the first.

**GitBroker** (`GitBrokerProofs`).

* `GitInvariant` and `GitSeesOneMoment` (`HeadAndIndexOfOneMoment`). The property speaks of the end of the copy;
  what makes it true happens one file at a time. `PinsHold` and `Covered`: of `HEAD`, `packed-refs` and the ref
  that `HEAD` names each is held, so that the copy says what the repository says, or had no file when it
  was looked for. `KeptAbsent`: a ref without a file that comes back does so with a commit nobody had before,
  because `packed-refs` is held and cannot take it up. `Moment`: once the index is read, commit and
  index are of one moment, or the ref has come back since and `ListRefs` will find it and refuse (`Doomed`), or
  `HEAD` had no commit at all (`Unborn`, the exception of the property). `Objects`: packs are read before
  loose objects and a repack moves objects the other way, so that without one the commit is in one of the
  two when it is read. `Shape` says in which order the entries come, for any number of files, directories and
  branches between them.
* `CallInvariant`: `PlanInv`, what holds of each call of `WorkspacePlan` with the staging and the user beside it,
  and `DiskOK`, that the workspace stays a tree whose files each have an identity of their own.
* `PlansStayInDirectories` (`StaysInDirectories`), from `CallInvariant`. A directory of the plan is compared once, and
  a later step commits; `HandlesOK` says that from the comparison on it is the one the plan was bound to,
  because its handle was opened before. That no other call's commit turns it into something else needs
  `LocksOK` (slots of two calls are disjoint), `PlanOK` (a plan changes what it has loaded or made, and a directory it
  makes is a file to it nowhere) and, for text edits, which hold no handle before they commit, `EditsOK`: what
  they have read is not a directory as long as they have its slot, because only a commit makes directories
  where nothing was. Step by step over the operations: `PlannedSteps`.
* `GitCopiesTracked` (`TrackedIsCopied`), from `CallInvariant` and `WalkInv`. The property is about the end of the walk.
  `AllComing`: a file that nobody touched and that is under no directory left out and no path passed over is copied, or
  on the list, or a directory above it is; when that directory is listed the next one below is put on the list, and it is
  there and no file, because the workspace is a tree (`AncestorsChain`, `AncestorsAreDirectories`). `PrunedOK`: what is
  left out has no tracked file below it in the index that is kept from then on, or there was no index at a moment of the
  staging (the exception of the property), so the other tracked files are wanted (`CompleteWalks`). `FilesOK`: what
  is in the copy of a file that nobody touched is what the disk has, attributes made inert. `UntouchedBefore`: a file
  that was touched never looks untouched again.
* Three assumptions came with these proofs and TLC evaluates them on the instance: the directories of
  the paths form a tree, the workspace at the beginning is one too, and each tool asks only for its own
  kinds of operations (`workspace_batch.py:327-346` refuses any other).

Left to TLC:

* `EventuallySettled`, `SlotsReleased`, `LatchResolves`, `ServiceComesBack`: liveness rests on fairness, and
  the prover handles neither `ENABLED` nor the well-founded arguments it would need.
* `AckedStays`: `FindReceipt` is a recursive binary search; what it returns for every index is an
  induction over data.
* `UndoTakesOwnText`: where a line comes to be is a sum over the hunks before it, a fold over a set.
* `CommitsInSequence`: what the operations of a plan do one after the other is a fold over a list, an
  induction over data.

## 15. Disagreements and observations

Two runs expect a violation:

* `workspace_foreign_change`: recovery scans a second time before it writes and takes what it finds as
  its own (`workspace_history.py:670`, also 784 and 1161). An edit between the two scans is overwritten,
  which `SECURITY_CONTRACT.md:342` and the docstring at `workspace_history.py:746` exclude.
* `undo_moved_text`: `_reverse_text_change` looks for the operation's text anywhere in the file
  (`workspace_history.py:1489`). After a later call replaced it in its place and wrote the same lines
  elsewhere, the undo takes the later lines (`SPEC.md:310`, `SPEC.md:316`).

Observations met while modelling, without a run of their own:

* *A completed plan recorded as failed.* When the rollback of an applied plan is interrupted by a second
  accident, its journal stays `applied_verified`; an `AuditStore` completes it and writes `succeeded`, and
  the plan's handler, whose sources include `succeeded` (`workspace_operations.py:215`), then writes
  `failed`. `CompletedRow` names this exception. It appeared when `SettledAuditAgrees` was prepared for its proof.
* *A text edit loses an editor's save.* `text_file_apply` and `workspace_apply` compare
  `expected_sha256` before they take the checkpoint their commit is compared with (`server.py:3836`); a
  save in between is overwritten, against `README.md:716`, `SECURITY_CONTRACT.md:334`, `SPEC.md:66`.
  `EditsExpected` of `WorkspacePlan` states it.
* *The journal of a staged result is finalized without the workspace lock*
  (`workspace_history.py:731`, `worker.py:335`): a host run can be admitted in between, because a `committing`
  row is outside `list_active_operations`. Like every staged
  commit this is unreachable today, see the next point.
* *The staged commit is out of reach*: the worker commits when the manifest says `staged-workspace-write`
  (`worker.py:273`), the bundle says `staged-sandbox-workspace-write` (`approval.py:175`), so the result of a
  sandbox that may write is never brought back, against `SPEC.md:209`. `WorkspaceTransaction` keeps the commit of
  the worker as it is written, because the protocol is the one of plans; `OperationLifecycle` leaves it out.
* *Two hunks at one place*: `_reverse_text_change` finds the place of every hunk before it replaces any and never
  compares the places (`workspace_history.py:1488-1498`). When an operation wrote the same lines twice and a later call
  removed one of them, both hunks are found at the one that is left; the second replacement hits what the first put
  there and, if that is shorter, the lines behind it, which belong to others. `SPEC.md:316` says that ambiguous
  or overlapping text stops as a conflict. `SpliceBoth` does what the code does, and `UndoTakesOwnText` excepts
  it (`FoundApart`).
* *Rows deleted under a guarded host run*: constructing an `AuditStore` deletes rows beyond the retention limit
  without a lock (`audit.py:74-77`, `audit.py:219`), and the guard compares the rows
  (`control_plane_guard.py:301`). A process that passed the construction's locked part before the host run took
  `audit-state` can delete one while the host child runs, and the comparison calls it tampering, which the comment at
  `worker.py:335` wants to exclude. `GuardedStateKept` names the exception.
* *A journal reopened*: the reconciler writes the copy it read, so a journal completed meanwhile can go
  back to `recovery_required` (`audit.py:310`).
* *`failed_recovered` blocks* mutations until a reconciliation has marked it (`SPEC.md:314`).
* *`write_file`*: the event after a commit may fail and the row stays `succeeded` while the caller gets an
  error (`server.py:2997`).
* *Recovery of the host* looks for a live worker only where the sidecar recorded one, which a restart of the
  service wipes (`docs/APPROVED_HOST_RUNTIME.md:129`); and what it saw is old when the administrator has
  answered: it removes whatever `active.json` is there then (`recover-approved-host-authority.ps1:57`, 103,
  165), with an acknowledged missing marker even under a recorded live worker, which the comment at line 74
  excludes. `ChildRunsLatched` names the exception.
* *The grant is checked before the preflight* that may take long; it can expire before the child starts
  (`SPEC.md:221`).
* *`max_pending_approvals`* can be exceeded by one: the count and the insertion are two statements.
* *Terminal states*: `audit.py:498` says that a transition never rolls a terminal state back, and the
  failing transition of a plan names `succeeded` among its sources; `server.py:1946` says that no terminal
  decision is overridden, and the mark on a damaged download replaces `completed`.
* *A rollback or undo whose preflight fails before the claim* stays pending and is asked again
  (`approval_ui.py:389`); an exception of `decide_approval` ends the UI (`approval_ui.py:204`).
* *The checkpoint a rollback restores* lies in the history directory, which the guard does not cover.
* *Git*: refs, HEAD and packed refs are copied at different moments unless pinned; a repack between packs
  and loose objects loses objects and the command fails; an index that is not pinned is copied after
  the worktree; staging takes no workspace lock and may see half of a multi-file commit.
* *An index that appears*: without `.git/index` the directories that `.gitignore` names are left out and nothing is held
  (`git_broker_sandbox.py:861-863`). The first `git add -f` of a file in one of them, before `.git` is copied, is believed,
  and Git shows the file as deleted. `IndexAppeared` is the exception of `TrackedIsCopied`. Tracked files that no tool may
  read are always shown as deleted (`git_broker_sandbox.py:1173`), as
  `docs/AUTOMATIC_GIT_BROKER_PRODUCT_INVARIANT.md:29` says.
* *A broker child* started between the listing and the kill outlives its cancelled job
  (`process_utils.py:240`).

## 16. Abstractions and what is not modelled

* `WorkspaceTransaction`: a path's lock slots are taken together (one by one in `FileMutation`); one
  reconciler at a time, as the whole lock enforces; directories are contents; several rollbacks never wait
  in one approval UI.
* `OperationLifecycle`: a Git batch is one child start; timeouts are nondeterministic; process identities
  are compared, never computed.
* `BinaryTransfer`: bytes are model values; the quota of the audit directory always suffices; manifest
  versions before the current one are not read.
* `FileMutation`: the kind `upload` is modelled and not instantiated, because it differs from `structured` in
  its source alone; the two reads of a structured call are one step; reparse points and alternate streams are left out.
* `ApprovedHost`: pipe, token and DPAPI calls succeed or fail as one step.
* `SandboxVerification`: the backend is one value; a probe passes or fails; an administrator removes the
  Guard at most once.
* `RuntimeUpdate`: download and signature checks are one step; the launchers of both versions are alike
  but for their name.
* `ApprovedRequest`: a file is an opaque text with an identity; a process that opens the audit store may delete any set of
  ended rows, as for any limit; a bundle is opened with both locks in one
  step; binding, verification and materialization are atomic; external argument files and the digest
  of Git metadata are left out; one approval UI; marker and backend are `SandboxVerification`'s, the latch
  is `ApprovedHost`'s.
* `WorkspaceControl`: one file per undo; a call changes one stretch of it, or one on each side of a line that it keeps
  (`Seam`), the contexts of which do not overlap; the unchanged lines that a real hunk carries around its own
  are left out, so a hunk that put in nothing is found wherever the file has room, and so almost always a
  conflict; a restore is atomic; request and row are created in one step; checkpoints are never pruned.
* `WorkspacePlan`: binding, validation and each listing are one step, the commit is atomic; a text is its
  writer and a number of matches; the row is left out; locks come at once or time out.
* `GitBroker`: whether a path is protected, ignored or holds attributes does not change during a staging; a Git
  command of the user is one rename per file it changes; an index entry is the file's entry with its stat identity; configuration and attributes matter by
  whether they are plain; how a command ends is nondeterministic.

Branches that the code has and no caller reaches are modelled where they guard something
(`WorkerClaims` without a grant, `StagedCommit`) and left out where they do not (the code-loader modes of
`server.py:4356`).

Not modelled: the acceptance programs of Approved Host (run by hand against a live service); live
activity, timeline, reading and context export (readers that change nothing); entry points; the parsing
of Office, ZIP and CSV contents; the tables of the command policy; the validation of configuration
files; the content of the sandbox probes and WFP filter conditions; the limits of the retention
of rows and blobs, and the deletion of blobs. `PROJECT.json` gives the reason for each.
