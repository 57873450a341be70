------------------------- MODULE OperationLifecycle -------------------------
(***************************************************************************)
(* The life of an operation's audit row (audit.py) and of the processes    *)
(* that act on it: the server that queues or requests it (server.py), the  *)
(* approval UI, Executor.launch, stop and stale-job reconciliation         *)
(* (executor.py), the worker and its child (worker.py).                    *)
(*                                                                         *)
(*  broker   a command queued by _queue_command, no approval;              *)
(*  git      the same, run by a worker of its own (git_broker_worker.py);  *)
(*  sandbox  a command that a local user approves for the sandbox;         *)
(*  sync     work the server does itself under a "running" row, a workspace *)
(*           plan with its journal included (workspace_operations.py).     *)
(*                                                                         *)
(* A status change is one SQL statement under the audit-state lock and is  *)
(* atomic; everything between two of them interleaves.  Time is the two    *)
(* expiry times of a row, which may pass at any moment.                    *)
(***************************************************************************)
EXTENDS Naturals, FiniteSets

CONSTANTS
  Ops,          \* operation ids
  Tier,         \* the tier of each operation
  Approvers,    \* approval UI processes
  Server,       \* the MCP server process
  Nobody,       \* no process, or one that is gone
  MaxJobs,      \* max_concurrent_jobs
  MaxPending,   \* max_pending_approvals
  Mixes,        \* bound: the sets of operations requested in one behaviour
  StopTargets,  \* the operations stop_job is called for, as often as one likes
  MaxCrashes, MaxFaults

Tiers == {"broker", "git", "sandbox", "sync"}

ASSUME TierAssumption == Tier \in [Ops -> Tiers] /\ IsFiniteSet(Ops)
ASSUME ProcessAssumption ==
  Server \notin Approvers /\ Nobody \notin Approvers \cup Ops /\ Nobody # Server
ASSUME StopAssumption == StopTargets \subseteq Ops /\ Mixes \subseteq SUBSET Ops
ASSUME LimitAssumption == MaxJobs \in Nat \ {0} /\ MaxPending \in Nat \ {0}
ASSUME BoundAssumption == MaxCrashes \in Nat /\ MaxFaults \in Nat

VARIABLES
  status,     \* operations.status
  approval,   \* operations.approval_status
  claimed,    \* claimed_at is set
  reqLive,    \* request_expires_at is in the future
  grantLive,  \* approval_expires_at is in the future
  owner,      \* the process of execution_owner_json, Nobody once it is gone
  ident,      \* worker_pid, worker_create_time, worker_executable: whose they are
  childId,    \* child_pid and its companions are recorded
  handler,    \* where the call that creates and launches the operation is
  view,       \* the request each approval UI has on screen
  worker,     \* where the worker process is
  outcome,    \* the status the worker will record
  child,      \* the child process
  starts,     \* how often a child was started
  journal,    \* an incomplete workspace journal names the operation
  stopPc,     \* where stop_job for the operation is
  stopSeen,   \* the row it read
  recPc, recSeen, \* the same for _reconcile_stale_jobs
  crashes, faults

rowVars == <<status, approval, claimed, owner, ident, childId>>
clockVars == <<reqLive, grantLive>>
callVars == <<handler, view, journal>>
workerVars == <<worker, outcome, child, starts>>
stopVars == <<stopPc, stopSeen>>
recVars == <<recPc, recSeen>>
boundVars == <<crashes, faults>>
vars == <<status, approval, claimed, owner, ident, childId, reqLive, grantLive, handler, view,
          journal, worker, outcome, child, starts, stopPc, stopSeen, recPc, recSeen,
          crashes, faults>>

Terminal == {"succeeded", "failed", "rejected", "expired", "cancelled", "timed_out",
             "interrupted", "conflict"}
Statuses == {"none", "pending_approval", "queued", "running", "committing"} \cup Terminal
Active == {"queued", "running"}
Launching == {"launching", "spawned", "recorded"}
WorkerLive == {"boot", "bound", "checked", "started", "waiting", "post"}
Bound == WorkerLive \ {"boot"}
Identities == {"none", "bootstrap", "stable"}
Rows == [status : Statuses, ident : Identities, child : BOOLEAN]
NoRow == [status |-> "none", ident |-> "none", child |-> FALSE]

TypeOK ==
  /\ status \in [Ops -> Statuses]
  /\ approval \in [Ops -> {"none", "pending", "approved", "rejected", "expired"}]
  /\ claimed \in [Ops -> BOOLEAN]
  /\ reqLive \in [Ops -> BOOLEAN] /\ grantLive \in [Ops -> BOOLEAN]
  /\ owner \in [Ops -> Approvers \cup {Server, Nobody}]
  /\ ident \in [Ops -> Identities] /\ childId \in [Ops -> BOOLEAN]
  /\ handler \in [Ops -> {"idle", "admitted", "sync", "failing", "returned", "gone"} \cup Launching]
  /\ view \in [Approvers -> Ops \cup {Nobody}]
  /\ worker \in [Ops -> {"none", "dead"} \cup WorkerLive]
  /\ outcome \in [Ops -> Statuses]
  /\ child \in [Ops -> {"none", "running", "ok", "bad"}]
  /\ starts \in [Ops -> Nat] /\ journal \in [Ops -> BOOLEAN]
  /\ stopPc \in [Ops -> {"idle", "read", "hit", "missed", "tree", "root", "killed"}]
  /\ recPc \in [Ops -> {"idle", "read"}]
  /\ stopSeen \in [Ops -> Rows] /\ recSeen \in [Ops -> Rows]
  /\ crashes \in 0..MaxCrashes /\ faults \in 0..MaxFaults

-----------------------------------------------------------------------------
(* The audit store                                                         *)

ActiveOps == {o \in Ops : status[o] \in Active}

Pending == {o \in Ops : approval[o] = "pending" /\ status[o] = "pending_approval"}

\* _ensure_job_capacity, inside the transaction that takes the slot.
HasCapacity == Cardinality(ActiveOps) < MaxJobs

\* transition_operation: compare and swap; a row in another status stays as it is.
Transition(o, from, to) ==
  status' = [status EXCEPT ![o] = IF @ \in from THEN to ELSE @]

Expired(o) == approval[o] = "pending" /\ ~reqLive[o]

\* expire_pending
ExpireRows ==
  /\ status' = [o \in Ops |-> IF Expired(o) THEN "expired" ELSE status[o]]
  /\ approval' = [o \in Ops |-> IF Expired(o) THEN "expired" ELSE approval[o]]

\* Mutant: only the expiry time is compared.
ClaimableByTime(o) == reqLive[o]

\* The predicate of approve_and_claim and decide_approval.
Claimable(o) == approval[o] = "pending" /\ status[o] = "pending_approval" /\ reqLive[o]

Row(o) == [status |-> status[o], ident |-> ident[o], child |-> childId[o]]

\* A process exits: operating-system liveness checks of its identity fail from now on.
Exits(p) ==
  /\ owner' = [o \in Ops |-> IF owner[o] = p THEN Nobody ELSE owner[o]]
  /\ handler' = [o \in Ops |-> IF \/ owner[o] = p /\ handler[o] \in Launching \cup {"sync", "failing"}
                                  \/ p = Server /\ handler[o] = "admitted"
                               THEN "gone" ELSE handler[o]]
  /\ view' = [a \in Approvers |-> IF a = p THEN Nobody ELSE view[a]]

-----------------------------------------------------------------------------
(* The server's tools                                                      *)

\* _queue_command up to launch.
InMix(o) == \E mix \in Mixes : {o} \cup {x \in Ops : handler[x] # "idle"} \subseteq mix

Submit(o) ==
  /\ Tier[o] \in {"broker", "git"} /\ handler[o] = "idle" /\ InMix(o) /\ HasCapacity
  /\ status' = [status EXCEPT ![o] = "queued"]
  /\ owner' = [owner EXCEPT ![o] = Server]
  /\ handler' = [handler EXCEPT ![o] = "launching"]
  /\ UNCHANGED <<approval, claimed, ident, childId, clockVars, view, journal, workerVars, stopVars, recVars, boundVars>>

\* create_operation with status "running": no capacity check.
RunSync(o) ==
  /\ Tier[o] = "sync" /\ handler[o] = "idle" /\ InMix(o)
  /\ status' = [status EXCEPT ![o] = "running"]
  /\ owner' = [owner EXCEPT ![o] = Server]
  /\ handler' = [handler EXCEPT ![o] = "sync"]
  /\ UNCHANGED <<approval, claimed, ident, childId, clockVars, view, journal, workerVars, stopVars, recVars, boundVars>>

\* A workspace plan opens its journal: restore_workspace_state, modelled in WorkspaceTransaction.
SyncOpensJournal(o) ==
  /\ handler[o] = "sync" /\ status[o] = "running" /\ ~journal[o]
  /\ journal' = [journal EXCEPT ![o] = TRUE]
  /\ UNCHANGED <<rowVars, clockVars, handler, view, workerVars, stopVars, recVars, boundVars>>

\* The result is recorded; a plan has yet to close its journal.
SyncSucceeds(o) ==
  /\ handler[o] = "sync" /\ status[o] = "running"
  /\ Transition(o, {"running"}, "succeeded")
  /\ handler' = [handler EXCEPT ![o] = IF journal[o] THEN @ ELSE "returned"]
  /\ UNCHANGED <<approval, claimed, owner, ident, childId, journal, clockVars, view, workerVars,
                 stopVars, recVars, boundVars>>

SyncClosesJournal(o) ==
  /\ handler[o] = "sync" /\ status[o] # "running"
  /\ journal' = [journal EXCEPT ![o] = FALSE]
  /\ handler' = [handler EXCEPT ![o] = "returned"]
  /\ UNCHANGED <<rowVars, clockVars, view, workerVars, stopVars, recVars, boundVars>>

\* Something raises, the last event and the closing of the journal included; the locks are
\* released on the way out ...
SyncRaises(o) ==
  /\ handler[o] = "sync"
  /\ handler' = [handler EXCEPT ![o] = "failing"]
  /\ UNCHANGED <<rowVars, clockVars, view, journal, workerVars, stopVars, recVars, boundVars>>

\* ... and the failure is recorded, also over a success; then a journal whose changes were
\* undone is closed.
SyncFails(o) ==
  /\ handler[o] = "failing"
  /\ Transition(o, {"running", "succeeded"}, "failed")
  /\ handler' = [handler EXCEPT ![o] = "returned"]
  /\ \/ UNCHANGED journal
     \/ status[o] \in {"running", "succeeded"} /\ journal' = [journal EXCEPT ![o] = FALSE]
  /\ UNCHANGED <<approval, claimed, owner, ident, childId, clockVars, view, workerVars, stopVars,
                 recVars, boundVars>>

\* A process that constructs its AuditStore takes the workspace lock, recovers the journals it
\* finds and writes their rows whatever they say; only a recovery that failed, or a crash,
\* leaves the journal open.
ReconcileJournal(o) ==
  /\ journal[o] /\ handler[o] # "sync"
  /\ \E result \in {"succeeded", "interrupted"} : status' = [status EXCEPT ![o] = result]
  /\ \/ UNCHANGED journal
     \/ journal' = [journal EXCEPT ![o] = FALSE]
  /\ UNCHANGED <<approval, claimed, owner, ident, childId, clockVars, handler, view, workerVars,
                 stopVars, recVars, boundVars>>

\* _request_approved_command counts the pending requests, prepares the bundle, ...
Admit(o) ==
  /\ Tier[o] = "sandbox" /\ handler[o] = "idle" /\ InMix(o)
  /\ ExpireRows
  /\ Cardinality({x \in Pending : reqLive[x]}) < MaxPending
  /\ handler' = [handler EXCEPT ![o] = "admitted"]
  /\ UNCHANGED <<claimed, owner, ident, childId, clockVars, view, journal, workerVars, stopVars, recVars, boundVars>>

\* ... and creates the row.
Request(o) ==
  /\ handler[o] = "admitted"
  /\ status' = [status EXCEPT ![o] = "pending_approval"]
  /\ approval' = [approval EXCEPT ![o] = "pending"]
  /\ reqLive' = [reqLive EXCEPT ![o] = TRUE]
  /\ handler' = [handler EXCEPT ![o] = "returned"]
  /\ UNCHANGED <<claimed, owner, ident, childId, grantLive, view, journal, workerVars, stopVars, recVars, boundVars>>

\* poll_approval
Poll ==
  /\ \E o \in Ops : Expired(o)
  /\ ExpireRows
  /\ UNCHANGED <<claimed, owner, ident, childId, clockVars, callVars, workerVars, stopVars, recVars, boundVars>>

-----------------------------------------------------------------------------
(* The approval UI                                                         *)

Show(a, o) ==
  /\ view[a] = Nobody /\ o \in Pending /\ reqLive[o]
  /\ ExpireRows
  /\ view' = [view EXCEPT ![a] = o]
  /\ UNCHANGED <<claimed, owner, ident, childId, clockVars, handler, journal, workerVars, stopVars, recVars, boundVars>>

\* The screen is waiting for a decision, not launching.
Deciding(a, o) == view[a] = o /\ ~(owner[o] = a /\ handler[o] \in Launching)

Skip(a, o) ==
  /\ Deciding(a, o) /\ view' = [view EXCEPT ![a] = Nobody]
  /\ UNCHANGED <<rowVars, clockVars, handler, journal, workerVars, stopVars, recVars, boundVars>>

\* decide_approval raises when the request is no longer pending, and nothing in
\* run_approval_ui catches it: the UI exits.
Reject(a, o) ==
  /\ Deciding(a, o)
  /\ IF Claimable(o)
     THEN /\ status' = [status EXCEPT ![o] = "rejected"]
          /\ approval' = [approval EXCEPT ![o] = "rejected"]
          /\ view' = [view EXCEPT ![a] = Nobody]
          /\ UNCHANGED <<owner, handler>>
     ELSE /\ status' = [status EXCEPT ![o] = IF Expired(o) THEN "expired" ELSE @]
          /\ approval' = [approval EXCEPT ![o] = IF Expired(o) THEN "expired" ELSE @]
          /\ Exits(a)
  /\ UNCHANGED <<claimed, ident, childId, journal, clockVars, workerVars, stopVars, recVars, boundVars>>

ApproveAndClaim(a, o) ==
  /\ Deciding(a, o) /\ HasCapacity /\ Claimable(o)
  /\ status' = [status EXCEPT ![o] = "queued"]
  /\ approval' = [approval EXCEPT ![o] = "approved"]
  /\ claimed' = [claimed EXCEPT ![o] = TRUE]
  /\ grantLive' = [grantLive EXCEPT ![o] = TRUE]
  /\ owner' = [owner EXCEPT ![o] = a]
  /\ handler' = [handler EXCEPT ![o] = "launching"]
  /\ UNCHANGED <<ident, childId, reqLive, view, journal, workerVars, stopVars, recVars, boundVars>>

\* The UI's handler of every error of an approval: the row is failed and rejected unless
\* it is terminal already.
FailApproval(o) ==
  LET open == {"pending_approval", "queued", "running", "committing"} IN
  /\ Transition(o, open, "failed")
  /\ approval' = [approval EXCEPT ![o] = IF status[o] \in open THEN "rejected" ELSE @]

\* No free slot, a request decided or expired meanwhile, or a bundle that no longer verifies.
ApproveRefused(a, o) ==
  /\ Deciding(a, o)
  /\ view' = [view EXCEPT ![a] = Nobody]
  /\ \/ /\ HasCapacity /\ Expired(o)
        /\ status' = [status EXCEPT ![o] = "expired"]
        /\ approval' = [approval EXCEPT ![o] = "expired"]
        /\ UNCHANGED faults
     \/ ~(HasCapacity /\ (Claimable(o) \/ Expired(o))) /\ FailApproval(o) /\ UNCHANGED faults
     \/ faults < MaxFaults /\ faults' = faults + 1 /\ FailApproval(o)
  /\ UNCHANGED <<claimed, owner, ident, childId, clockVars, handler, journal, workerVars, stopVars, recVars, crashes>>

-----------------------------------------------------------------------------
(* Executor.launch                                                         *)

\* The row being launched is already counted.
Spawn(o) ==
  /\ handler[o] = "launching" /\ Cardinality(ActiveOps) <= MaxJobs
  /\ handler' = [handler EXCEPT ![o] = "spawned"]
  /\ worker' = [worker EXCEPT ![o] = "boot"]
  /\ UNCHANGED <<rowVars, clockVars, view, journal, outcome, child, starts, stopVars, recVars, boundVars>>

\* The identity of the process just spawned is recorded while the row is still queued.
RecordBootstrap(o) ==
  /\ handler[o] = "spawned" /\ worker[o] # "dead"
  /\ ident' = [ident EXCEPT ![o] = IF status[o] = "queued" THEN "bootstrap" ELSE @]
  /\ handler' = [handler EXCEPT ![o] = "recorded"]
  /\ UNCHANGED <<status, approval, claimed, owner, childId, clockVars, view, journal, workerVars, stopVars, recVars, boundVars>>

\* The caller is done with o: an approval UI goes on to its next request.
Returns(o) ==
  /\ handler' = [handler EXCEPT ![o] = "returned"]
  /\ view' = [a \in Approvers |-> IF owner[o] = a /\ view[a] = o THEN Nobody ELSE view[a]]

LaunchReturns(o) ==
  /\ handler[o] = "recorded" /\ Returns(o)
  /\ UNCHANGED <<rowVars, journal, clockVars, workerVars, stopVars, recVars, boundVars>>

\* launch raises: too many active rows, a worker gone before its identity was read, or a fault.
\* The server frees the slot only of a job without a worker; the UI fails the row regardless.
LaunchFails(o) ==
  /\ handler[o] \in Launching /\ Returns(o)
  /\ IF \/ handler[o] = "launching" /\ Cardinality(ActiveOps) > MaxJobs
        \/ handler[o] = "spawned" /\ worker[o] = "dead"
     THEN UNCHANGED faults
     ELSE faults < MaxFaults /\ faults' = faults + 1
  /\ IF owner[o] = Server
     THEN /\ IF ident[o] = "none" /\ ~childId[o] THEN Transition(o, {"queued"}, "failed")
                                                ELSE UNCHANGED status
          /\ UNCHANGED approval
     ELSE FailApproval(o)
  /\ UNCHANGED <<claimed, owner, ident, childId, journal, clockVars, workerVars, stopVars, recVars,
                 crashes>>

-----------------------------------------------------------------------------
(* The worker and its child                                                *)

Worker(o, label) == worker' = [worker EXCEPT ![o] = label]

Outcome(o, result) == outcome' = [outcome EXCEPT ![o] = result]

\* The lock, the recovery check or the pre-execution verification fails.
WorkerRefuses(o) ==
  /\ worker[o] = "boot" /\ Tier[o] # "git" /\ Worker(o, "dead")
  /\ Transition(o, {"queued", "running", "committing"}, "failed")
  /\ UNCHANGED <<approval, claimed, owner, ident, childId, clockVars, callVars, outcome, child,
                 starts, stopVars, recVars, boundVars>>

\* The control-plane generation, the settings, the command or the worker's identity changed.
GitRefuses(o) ==
  /\ worker[o] = "boot" /\ Tier[o] = "git" /\ Worker(o, "dead")
  /\ Transition(o, {"queued", "running"}, "failed")
  /\ UNCHANGED <<approval, claimed, owner, ident, childId, clockVars, callVars, outcome, child,
                 starts, stopVars, recVars, boundVars>>

\* queued -> running and the stable worker identity, in one statement.
Bind(o) ==
  /\ worker[o] = "boot"
  /\ Transition(o, {"queued"}, "running")
  /\ ident' = [ident EXCEPT ![o] = IF status[o] = "queued" THEN "stable" ELSE @]
  /\ Worker(o, IF status[o] = "queued" THEN "bound" ELSE "dead")
  /\ UNCHANGED <<approval, claimed, owner, childId, clockVars, callVars, outcome, child, starts,
                 stopVars, recVars, boundVars>>

\* The before checkpoint fails.
CheckpointFails(o) ==
  /\ worker[o] = "bound" /\ Tier[o] # "git" /\ Worker(o, "dead")
  /\ Transition(o, {"running"}, "failed")
  /\ UNCHANGED <<approval, claimed, owner, ident, childId, clockVars, callVars, outcome, child,
                 starts, stopVars, recVars, boundVars>>

\* _ensure_approval_execution_fresh; a broker command has no grant.
CheckGrant(o) ==
  /\ worker[o] = "bound"
  /\ \/ Tier[o] = "broker" /\ Worker(o, "checked") /\ UNCHANGED outcome
     \/ /\ Tier[o] = "sandbox" /\ (approval[o] # "approved" \/ ~claimed[o])
        /\ Worker(o, "post") /\ Outcome(o, "failed")
     \/ /\ Tier[o] = "sandbox" /\ approval[o] = "approved" /\ claimed[o]
        /\ IF grantLive[o] THEN Worker(o, "checked") /\ UNCHANGED outcome
                           ELSE Worker(o, "post") /\ Outcome(o, "expired")
  /\ UNCHANGED <<rowVars, clockVars, callVars, child, starts, stopVars, recVars, boundVars>>

\* The executable, backend, network guard and storage preflight pass and the child starts,
\* or one of them fails.
StartChild(o) ==
  /\ worker[o] = "checked"
  /\ child' = [child EXCEPT ![o] = "running"]
  /\ starts' = [starts EXCEPT ![o] = @ + 1]
  /\ Worker(o, "started")
  /\ UNCHANGED <<rowVars, clockVars, callVars, outcome, stopVars, recVars, boundVars>>

StartFails(o) ==
  /\ worker[o] = "checked" /\ Worker(o, "post") /\ Outcome(o, "failed")
  /\ UNCHANGED <<rowVars, clockVars, callVars, child, starts, stopVars, recVars, boundVars>>

\* run_git_broker_command stages the repository and starts Git, or something fails before.
\* The row never names this child: it is found below its worker and lives in a job object.
GitRuns(o) ==
  /\ worker[o] = "bound" /\ Tier[o] = "git" /\ Worker(o, "waiting")
  /\ child' = [child EXCEPT ![o] = "running"]
  /\ starts' = [starts EXCEPT ![o] = @ + 1]
  /\ UNCHANGED <<rowVars, clockVars, callVars, outcome, stopVars, recVars, boundVars>>

GitFails(o) ==
  /\ worker[o] = "bound" /\ Tier[o] = "git" /\ Worker(o, "post") /\ Outcome(o, "failed")
  /\ UNCHANGED <<rowVars, clockVars, callVars, child, starts, stopVars, recVars, boundVars>>

\* update_operation: no condition on the status.
RecordChild(o) ==
  /\ worker[o] = "started" /\ Worker(o, "waiting")
  /\ childId' = [childId EXCEPT ![o] = TRUE]
  /\ UNCHANGED <<status, approval, claimed, owner, ident, clockVars, callVars, outcome, child,
                 starts, stopVars, recVars, boundVars>>

Kill(o) == child' = [child EXCEPT ![o] = IF @ = "running" THEN "bad" ELSE @]

RecordChildFails(o) ==
  /\ worker[o] = "started" /\ Worker(o, "post") /\ Outcome(o, "failed") /\ Kill(o)
  /\ UNCHANGED <<rowVars, clockVars, callVars, starts, stopVars, recVars, boundVars>>

ChildExits(o) ==
  /\ child[o] = "running"
  /\ \E code \in {"ok", "bad"} : child' = [child EXCEPT ![o] = code]
  /\ UNCHANGED <<rowVars, clockVars, callVars, worker, outcome, starts, stopVars,
                 recVars, boundVars>>

\* The wait loop: exit code, storage and resource limits, deadline.
WaitEnds(o) ==
  /\ worker[o] = "waiting" /\ Worker(o, "post") /\ Kill(o)
  /\ \E result \in CASE child[o] = "ok" -> {"succeeded", "failed"}
                     [] child[o] = "bad" -> {"failed"}
                     [] OTHER -> {"timed_out", "failed"} : Outcome(o, result)
  /\ UNCHANGED <<rowVars, clockVars, callVars, starts, stopVars, recVars, boundVars>>

\* The last transition; the deadline may have passed during finalization.
Finish(o) ==
  /\ worker[o] = "post" /\ Tier[o] # "git" /\ Worker(o, "dead")
  /\ \E result \in {outcome[o]} \cup (IF outcome[o] = "succeeded" THEN {"timed_out"} ELSE {}) :
       Transition(o, {"queued", "running", "committing"}, result)
  /\ approval' = [approval EXCEPT ![o] =
                    IF outcome[o] = "expired" /\ Tier[o] = "sandbox"
                       /\ status[o] \in {"queued", "running", "committing"} THEN "expired" ELSE @]
  /\ UNCHANGED <<claimed, owner, ident, childId, clockVars, callVars, outcome, child, starts,
                 stopVars, recVars, boundVars>>

\* The terminal transition of a Git worker starts from "running" alone: a row that was
\* cancelled or interrupted meanwhile suppresses it.
GitFinish(o) ==
  /\ worker[o] = "post" /\ Tier[o] = "git" /\ Worker(o, "dead")
  /\ Transition(o, {"running"}, outcome[o])
  /\ UNCHANGED <<approval, claimed, owner, ident, childId, clockVars, callVars, outcome, child,
                 starts, stopVars, recVars, boundVars>>

-----------------------------------------------------------------------------
(* stop_job and _reconcile_stale_jobs                                      *)

\* process_identity_matches.  The interpreter may have replaced the executable the
\* bootstrap identity names, so that identity may or may not match a live worker.
WorkerMatches(o, seen, bootstrap) ==
  /\ worker[o] \in WorkerLive
  /\ seen.ident = "stable" \/ (seen.ident = "bootstrap" /\ bootstrap)

ChildMatches(o, seen) == seen.child /\ child[o] = "running"

StopReturns(o) ==
  stopPc' = [stopPc EXCEPT ![o] = "idle"] /\ stopSeen' = [stopSeen EXCEPT ![o] = NoRow]

\* The row is read again on every round of the loop.
StopRead(o) ==
  /\ o \in StopTargets /\ stopPc[o] = "idle" /\ status[o] \notin Terminal
  /\ ident[o] # "none" \/ childId[o]
  /\ stopPc' = [stopPc EXCEPT ![o] = "read"]
  /\ stopSeen' = [stopSeen EXCEPT ![o] = Row(o)]
  /\ UNCHANGED <<rowVars, clockVars, callVars, workerVars, recVars, boundVars>>

\* terminate_process_tree of the child's identity comes first, ...
StopChild(o) ==
  /\ stopPc[o] = "read"
  /\ IF ChildMatches(o, stopSeen[o])
     THEN Kill(o) /\ stopPc' = [stopPc EXCEPT ![o] = "hit"]
     ELSE UNCHANGED child /\ stopPc' = [stopPc EXCEPT ![o] = "missed"]
  /\ UNCHANGED <<rowVars, clockVars, callVars, worker, outcome, starts, stopSeen,
                 recVars, boundVars>>

\* ... then the worker's identity is verified and its descendants are listed.  When neither
\* matched the row is interrupted if it still has the status that was read.
StopMatch(o) ==
  /\ stopPc[o] \in {"hit", "missed"}
  /\ \E bootstrap \in BOOLEAN :
       IF WorkerMatches(o, stopSeen[o], bootstrap)
       THEN /\ stopPc' = [stopPc EXCEPT ![o] = IF child[o] = "running" THEN "tree" ELSE "root"]
            /\ UNCHANGED <<status, stopSeen>>
       ELSE \/ /\ stopPc[o] = "hit" /\ stopPc' = [stopPc EXCEPT ![o] = "killed"]
               /\ UNCHANGED <<status, stopSeen>>
            \/ /\ stopPc[o] = "missed" /\ StopReturns(o)
               /\ IF stopSeen[o].status \in Active
                  THEN Transition(o, {stopSeen[o].status}, "interrupted") ELSE UNCHANGED status
  /\ UNCHANGED <<approval, claimed, owner, ident, childId, clockVars, callVars, workerVars,
                 recVars, boundVars>>

\* A sandboxed child lives in a job object that closes with its worker.
WorkerDies(o) ==
  /\ Worker(o, "dead")
  /\ child' = [child EXCEPT ![o] = IF @ = "running" /\ Tier[o] # "broker" THEN "bad" ELSE @]

\* Mutant: the listed descendants are terminated and the worker is left.
StopKillTreeOnly(o) ==
  /\ \/ stopPc[o] = "tree" /\ Kill(o) /\ UNCHANGED worker
     \/ stopPc[o] = "root" /\ WorkerDies(o)
  /\ stopPc' = [stopPc EXCEPT ![o] = "killed"]
  /\ UNCHANGED <<rowVars, clockVars, callVars, outcome, starts, stopSeen, recVars, boundVars>>

\* Listed descendants are terminated before the worker.
StopKill(o) ==
  /\ \/ stopPc[o] = "tree" /\ Kill(o) /\ UNCHANGED worker
        /\ stopPc' = [stopPc EXCEPT ![o] = "root"]
     \/ stopPc[o] = "root" /\ WorkerDies(o) /\ stopPc' = [stopPc EXCEPT ![o] = "killed"]
  /\ UNCHANGED <<rowVars, clockVars, callVars, outcome, starts, stopSeen, recVars, boundVars>>

StopCancel(o) ==
  /\ stopPc[o] = "killed" /\ StopReturns(o)
  /\ Transition(o, Active, "cancelled")
  /\ UNCHANGED <<approval, claimed, owner, ident, childId, clockVars, callVars, workerVars,
                 recVars, boundVars>>

\* Every Executor that is constructed looks at every active row.
RecRead(o) ==
  /\ recPc[o] = "idle" /\ status[o] \in Active
  /\ recPc' = [recPc EXCEPT ![o] = "read"]
  /\ recSeen' = [recSeen EXCEPT ![o] = Row(o)]
  /\ UNCHANGED <<rowVars, clockVars, callVars, workerVars, stopVars, boundVars>>

\* Mutant: a live owner vouches for a worker that was recorded and died.
OwnedElsewhereAlways(o, seen) == owner[o] # Nobody

\* Without a recorded worker the liveness of the owner decides, otherwise the worker's.
OwnedElsewhere(o, seen) == seen.ident = "none" /\ ~seen.child /\ owner[o] # Nobody

\* Mutant: the interruption is an UPDATE without a condition on the status.
RecDecideBlind(o) ==
  /\ recPc[o] = "read"
  /\ recPc' = [recPc EXCEPT ![o] = "idle"] /\ recSeen' = [recSeen EXCEPT ![o] = NoRow]
  /\ \E bootstrap \in BOOLEAN :
       IF \/ OwnedElsewhere(o, recSeen[o])
          \/ WorkerMatches(o, recSeen[o], bootstrap)
          \/ ChildMatches(o, recSeen[o])
       THEN UNCHANGED status
       ELSE status' = [status EXCEPT ![o] = "interrupted"]
  /\ UNCHANGED <<approval, claimed, owner, ident, childId, clockVars, callVars, workerVars,
                 stopVars, boundVars>>

RecDecide(o) ==
  /\ recPc[o] = "read"
  /\ recPc' = [recPc EXCEPT ![o] = "idle"] /\ recSeen' = [recSeen EXCEPT ![o] = NoRow]
  /\ \E bootstrap \in BOOLEAN :
       IF \/ OwnedElsewhere(o, recSeen[o])
          \/ WorkerMatches(o, recSeen[o], bootstrap)
          \/ ChildMatches(o, recSeen[o])
       THEN UNCHANGED status
       ELSE Transition(o, {recSeen[o].status}, "interrupted")
  /\ UNCHANGED <<approval, claimed, owner, ident, childId, clockVars, callVars, workerVars,
                 stopVars, boundVars>>

-----------------------------------------------------------------------------
(* The environment                                                         *)

Crash(p) ==
  /\ crashes < MaxCrashes /\ crashes' = crashes + 1 /\ Exits(p)
  /\ UNCHANGED <<status, approval, claimed, ident, childId, journal, clockVars, workerVars, stopVars,
                 recVars, faults>>

\* Also the errors of run_operation that no handler catches.
WorkerCrash(o) ==
  /\ crashes < MaxCrashes /\ crashes' = crashes + 1
  /\ worker[o] \in WorkerLive /\ WorkerDies(o)
  /\ UNCHANGED <<rowVars, clockVars, callVars, outcome, starts, stopVars, recVars, faults>>

RequestTtl(o) ==
  /\ approval[o] = "pending" /\ reqLive[o] /\ reqLive' = [reqLive EXCEPT ![o] = FALSE]
  /\ UNCHANGED <<rowVars, grantLive, callVars, workerVars, stopVars, recVars, boundVars>>

GrantTtl(o) ==
  /\ claimed[o] /\ grantLive[o] /\ grantLive' = [grantLive EXCEPT ![o] = FALSE]
  /\ UNCHANGED <<rowVars, reqLive, callVars, workerVars, stopVars, recVars, boundVars>>

-----------------------------------------------------------------------------
Init ==
  /\ status = [o \in Ops |-> "none"] /\ approval = [o \in Ops |-> "none"]
  /\ claimed = [o \in Ops |-> FALSE]
  /\ reqLive = [o \in Ops |-> FALSE] /\ grantLive = [o \in Ops |-> FALSE]
  /\ owner = [o \in Ops |-> Nobody]
  /\ ident = [o \in Ops |-> "none"] /\ childId = [o \in Ops |-> FALSE]
  /\ handler = [o \in Ops |-> "idle"] /\ view = [a \in Approvers |-> Nobody]
  /\ worker = [o \in Ops |-> "none"] /\ outcome = [o \in Ops |-> "none"]
  /\ child = [o \in Ops |-> "none"] /\ starts = [o \in Ops |-> 0]
  /\ journal = [o \in Ops |-> FALSE]
  /\ stopPc = [o \in Ops |-> "idle"] /\ stopSeen = [o \in Ops |-> NoRow]
  /\ recPc = [o \in Ops |-> "idle"] /\ recSeen = [o \in Ops |-> NoRow]
  /\ crashes = 0 /\ faults = 0

Handling(o) ==
  \/ SyncOpensJournal(o) \/ SyncSucceeds(o) \/ SyncClosesJournal(o) \/ SyncRaises(o) \/ SyncFails(o)
  \/ Request(o) \/ Spawn(o) \/ RecordBootstrap(o) \/ LaunchReturns(o) \/ LaunchFails(o)

Working(o) ==
  \/ WorkerRefuses(o) \/ Bind(o) \/ CheckpointFails(o) \/ CheckGrant(o) \/ StartChild(o)
  \/ StartFails(o) \/ RecordChild(o) \/ RecordChildFails(o) \/ WaitEnds(o) \/ Finish(o)
  \/ GitRefuses(o) \/ GitRuns(o) \/ GitFails(o) \/ GitFinish(o)

Reconciling(o) == RecRead(o) \/ RecDecide(o)

Next ==
  \/ \E o \in Ops :
       \/ Submit(o) \/ RunSync(o) \/ Admit(o) \/ Handling(o) \/ Working(o) \/ Reconciling(o)
       \/ ReconcileJournal(o) \/ ChildExits(o) \/ StopRead(o) \/ StopChild(o) \/ StopMatch(o) \/ StopKill(o) \/ StopCancel(o)
       \/ WorkerCrash(o) \/ RequestTtl(o) \/ GrantTtl(o)
  \/ \E a \in Approvers, o \in Ops :
       Show(a, o) \/ Skip(a, o) \/ Reject(a, o) \/ ApproveAndClaim(a, o) \/ ApproveRefused(a, o)
  \/ \E p \in Approvers \cup {Server} : Crash(p)
  \/ Poll

Spec == Init /\ [][Next]_vars

\* Live processes run on: a worker ends its wait for the child at the deadline, and Executors
\* are constructed again and again (each server and approval UI start).  Nothing makes a child
\* exit by itself, and nothing but its worker enforces its deadline.
Fairness ==
  \A o \in Ops : WF_vars(Handling(o)) /\ WF_vars(Working(o)) /\ WF_vars(Reconciling(o))

LiveSpec == Spec /\ Fairness

-----------------------------------------------------------------------------
(* Properties                                                              *)

\* approve_and_claim, SPEC.md section 5: whatever the approval UIs, launches and workers do,
\* an operation's child is started at most once.
StartedOnce == \A o \in Ops : starts[o] <= 1

\* Executor.launch against run_operation: once the worker has bound its own identity, the
\* launcher never replaces it, so stop_job and reconciliation see the live worker.
StableIdentityKept ==
  \A o \in Ops : worker[o] \in Bound => ident[o] = "stable"

\* Executor.stop: a job recorded as cancelled has no live worker, and no live child where the
\* child cannot outlive its worker.
CancelledMeansStopped ==
  \A o \in Ops : status[o] = "cancelled" =>
    worker[o] = "dead" /\ (Tier[o] # "broker" => child[o] # "running")

\* _ensure_job_capacity: jobs never hold more slots than max_concurrent_jobs, however
\* submissions, approvals and synchronous work interleave.
JobsWithinCapacity == Cardinality({o \in ActiveOps : Tier[o] # "sync"}) <= MaxJobs

\* transition_operation promises to act "without allowing terminal-state rollback"; the failure
\* path of a plan and the UPDATE of the reconciliation do not keep to that.  Whatever
\* launchers, workers, stop_job, expiry and reconciliation write late, a row that has ended
\* changes only while its call has yet to report a failure after its success, or while its own
\* journal is open; the row of a command never does.
FinishedRowsKept ==
  [][\A o \in Ops : status[o] \in Terminal /\ status'[o] # status[o] =>
       /\ Tier[o] = "sync"
       /\ \/ handler[o] = "failing" /\ status[o] = "succeeded" /\ status'[o] = "failed"
          \/ journal[o] /\ status'[o] \in {"succeeded", "interrupted"}]_vars

\* A command without approval runs in no job object of its worker: its child, once recorded,
\* keeps the row's slot for as long as it outlives the worker.
Orphaned(o) == Tier[o] = "broker" /\ worker[o] = "dead" /\ childId[o] /\ child[o] = "running"

\* docs/MULTI_CLIENT_AUDIT.md: no crash, failed launch or lost worker leaves a row holding an
\* execution slot for ever, unless the child of a lost worker still runs.  A row takes a slot
\* once, so one that is never given back would keep the table from draining.
SlotsReleased == ActiveOps # {} ~> \A o \in ActiveOps : Orphaned(o)
=============================================================================
