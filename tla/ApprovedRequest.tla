---- MODULE ApprovedRequest ----
(***************************************************************************)
(* A command that a person approves, from the request to the end of its    *)
(* child: what is approved is a bundle, a manifest with the digests of     *)
(* everything that decides what the command does, and three processes that *)
(* share nothing but files and named locks each compare it with the world. *)
(*                                                                         *)
(* The server copies the workspace into the bundle file by file, the       *)
(* approval UI verifies it and claims the row, a worker verifies it again, *)
(* runs the child and ends the row.  Meanwhile another program edits the   *)
(* workspace, the broker writes to it and runs safe commands, the          *)
(* configuration and the executable are replaced, grants expire, processes *)
(* restart, and every process that opens the audit store deletes old rows  *)
(* and sweeps away old artifacts.                                          *)
(*                                                                         *)
(* Codex Sandbox children run on a copy of the bundle; Approved Host       *)
(* children run in the workspace, with every named lock held.              *)
(***************************************************************************)
EXTENDS Naturals, Sequences, FiniteSets

CONSTANTS
    Requests,   \* approved commands
    Kind,       \* of each: "reader" or "writer" (Codex Sandbox), "host" (Approved Host)
    Writes,     \* calls of the broker that change one file
    Jobs,       \* safe commands: no workspace lock
    Rows,       \* the operations of the audit store that a census looks at
    Mixes,      \* who takes part in one behaviour, and what else happens in it
    Paths, Texts, Absent,
    Initial,    \* the files at the beginning
    Nobody, Sweeper, Editor, Accident,
    MaxEdits, MaxFaults

Calls == Writes \cup Jobs

ASSUME RequestAssumption ==
    /\ Kind \in [Requests -> {"reader", "writer", "host"}]
    /\ Requests \subseteq Rows /\ Rows \cap Calls = {} /\ Writes \cap Jobs = {}
    /\ Nobody \notin Rows \cup Calls /\ Sweeper \notin Rows \cup Calls \cup {Nobody}
    /\ Absent \notin Texts /\ Initial \in [Paths -> Texts \cup {Absent}]
    /\ MaxEdits \in Nat /\ MaxFaults \in Nat

VARIABLES
    live,       \* the workspace: [text, id] of each path, id for identity and time
    config,     \* [settings, environment, build]: the file, what new processes inherit, what is installed
    exe,        \* the executable the commands name
    lock,       \* holder of each cross-process lock
    bundle,     \* approval-staging/<id> and approval-inputs/<id>
    tree,       \* runs/<id>
    row, grant, \* of the audit store
    approved,   \* history: the bundle as it was when the approval was claimed
    server,     \* the settings and the environment of the server
    ask,        \* the server's handling of each request: [pc, exe, asked, left]
    ui,         \* the approval UI: [pc, on, conf]
    worker,     \* of each request: [pc, conf, next, touched]
    child,      \* what the child was started with
    call,       \* the broker's other calls: [pc, path, pre, post]
    sweep,      \* one process that opens the audit store: [pc, kept]
    stamp, edits, faults

vars == <<live, config, exe, lock, bundle, tree, row, grant, approved, server, ask, ui, worker,
          child, call, sweep, stamp, edits, faults>>

world == <<live, config, exe, stamp, edits>>
stores == <<bundle, tree>>
tasks == <<server, ask, ui, worker, child, call, sweep>>

\* Every lock that two of these processes contend for, in the order a host worker takes them
\* after the first.
Locks == {"workspace", "approval-staging", "audit-state", "worker-context", "workspace-cas"}
\* Mutant: the workspace history is left open.
GuardsButHistory == <<"approval-staging", "audit-state", "worker-context">>

Guards == <<"approval-staging", "audit-state", "worker-context", "workspace-cas">>

NewCall == [pc |-> "idle", path |-> Nobody, pre |-> Absent, post |-> Absent]
AsInstalled == [settings |-> 0, environment |-> 0, build |-> 0]
NewWorker == [pc |-> "none", conf |-> AsInstalled, next |-> 1, touched |-> FALSE]

Init ==
    /\ live = [p \in Paths |-> [text |-> Initial[p], id |-> 0]]
    /\ config = AsInstalled /\ exe = 0 /\ server = AsInstalled
    /\ lock = [n \in Locks |-> Nobody]
    /\ bundle = [r \in Requests |-> Nobody] /\ tree = [r \in Requests |-> Nobody]
    /\ row = [r \in Rows |-> "none"] /\ grant = [r \in Requests |-> "none"]
    /\ approved = [r \in Requests |-> Nobody]
    /\ ask = [r \in Requests |-> [pc |-> "idle", exe |-> 0, asked |-> AsInstalled, left |-> Paths]]
    /\ ui = [pc |-> "idle", on |-> Nobody, conf |-> AsInstalled]
    /\ worker = [r \in Requests |-> NewWorker] /\ child = [r \in Requests |-> Nobody]
    /\ call = [c \in Calls |-> NewCall]
    /\ sweep = [pc |-> "idle", kept |-> {}]
    /\ stamp = 0 /\ edits = 0 /\ faults = 0

\* Bounds.
Taking ==
    UNION {{r \in Requests : ask[r].pc # "idle"}, {u \in Rows \ Requests : row[u] # "none"},
           {c \in Calls : call[c].pc # "idle"},
           {x \in {Editor} : edits > 0}, {x \in {Accident} : faults > 0},
           {x \in {Sweeper} : sweep.pc # "idle"}}
Enters(x) == LET taking == Taking \cup {x} IN \E mix \in Mixes : taking \subseteq mix
Fault == faults < MaxFaults /\ Enters(Accident) /\ faults' = faults + 1

----
\* Locks and rows.

\* NamedControlPlaneLock, WorkspaceExecutionLock: the holder may nest.
Free(n, x) == lock[n] \in {Nobody, x}
Take(n, x) == lock[n] = Nobody /\ lock' = [lock EXCEPT ![n] = x]
Released(x) == [n \in Locks |-> IF lock[n] = x THEN Nobody ELSE lock[n]]

\* Every write to the audit store, _serialized_audit_mutation.
Audits(x) == Free("audit-state", x)

\* transition_operation.
Moved(r, from, to) == [row EXCEPT ![r] = IF @ \in from THEN to ELSE @]

\* list_active_operations.
Active == {r \in Rows : row[r] \in {"queued", "running"}} \cup
          {c \in Calls : call[c].pc \in {"ready", "holding"}}

----
\* The workspace and what runs beside the requests.

Put(p, t) ==
    /\ live' = [live EXCEPT ![p] = [text |-> t, id |-> stamp + 1]]
    /\ stamp' = stamp + 1

Verified == {"verified", "copied", "claimed", "guarding", "guarded", "fresh", "running", "ended", "closed"}

\* Another program saves a file, whoever holds a lock.
Edit(p, t) ==
    /\ edits < MaxEdits /\ live[p].text # t /\ Enters(Editor)
    /\ Put(p, t)
    /\ edits' = edits + 1
    /\ worker' = [r \in Requests |->
                    [worker[r] EXCEPT !.touched = @ \/ worker[r].pc \in Verified]]
    /\ UNCHANGED <<config, exe, lock, stores, row, grant, approved, server, ask, ui, child, call,
                   sweep, faults>>

\* The configuration is edited, the environment of the processes to come changes, or a release
\* is installed.
Reconfigure ==
    /\ Fault /\ \E part \in DOMAIN config : config' = [config EXCEPT ![part] = @ + 1]
    /\ UNCHANGED <<live, exe, stamp, edits, lock, stores, row, grant, approved, tasks>>

\* hold_executable_identity: an executable that is held cannot be replaced.
Upgrade ==
    /\ Fault
    /\ \A r \in Requests : worker[r].pc \notin {"fresh", "running", "ended"}
    /\ exe' = exe + 1
    /\ UNCHANGED <<live, config, stamp, edits, lock, stores, row, grant, approved, tasks>>

\* A call of the broker creates its row.
BeginCall(c) ==
    /\ call[c].pc = "idle" /\ Enters(c) /\ Audits(c)
    /\ call' = [call EXCEPT ![c].pc = "ready"]
    /\ UNCHANGED <<world, lock, stores, row, grant, approved, server, ask, ui, worker, child, sweep,
                   faults>>

\* It waits for the workspace unless it is a safe command, and changes one file.
Write(c, p, t) ==
    /\ c \in Writes /\ call[c].pc = "ready" /\ live[p].text # t
    /\ Take("workspace", c)
    /\ Put(p, t)
    /\ call' = [call EXCEPT ![c] = [pc |-> "holding", path |-> p, pre |-> live[p].text, post |-> t]]
    /\ UNCHANGED <<config, exe, edits, stores, row, grant, approved, server, ask, ui, worker, child,
                   sweep, faults>>

\* It ends its row, or gives up waiting for the workspace.
EndCall(c) ==
    /\ \/ call[c].pc = "holding"
       \/ c \in Jobs /\ call[c].pc = "ready"
       \/ c \in Writes /\ call[c].pc = "ready" /\ ~Free("workspace", c)
    /\ Audits(c)
    /\ lock' = Released(c)
    /\ call' = [call EXCEPT ![c].pc = "done"]
    /\ UNCHANGED <<world, stores, row, grant, approved, server, ask, ui, worker, child, sweep,
                   faults>>

\* A process opens the audit store: _init_db, the only part under the lock of the store.
SweepOpens ==
    /\ sweep.pc = "idle" /\ Enters(Sweeper) /\ Audits(Sweeper)
    /\ sweep' = [sweep EXCEPT !.pc = "opened"]
    /\ UNCHANGED <<world, lock, stores, row, grant, approved, server, ask, ui, worker, child, call,
                   faults>>

\* Rows that have ended, and may be deleted.
Ended == {"succeeded", "failed", "rejected", "expired", "interrupted", "conflict"}

\* _prune_database: what has ended is deleted beyond the newest, by any limit and without a lock.
SweepPrunes(S) ==
    /\ sweep.pc = "opened"
    /\ S \subseteq {r \in Rows : row[r] \in Ended} \cup {c \in Calls : call[c].pc = "done"}
    /\ row' = [r \in Rows |-> IF r \in S THEN "gone" ELSE row[r]]
    /\ call' = [c \in Calls |-> IF c \in S THEN [call[c] EXCEPT !.pc = "gone"] ELSE call[c]]
    /\ sweep' = [sweep EXCEPT !.pc = "pruned"]
    /\ UNCHANGED <<world, lock, stores, grant, approved, server, ask, ui, worker, child, faults>>

\* prune_artifacts: the rows are read first, the artifacts of everything else are removed later,
\* under the lock of the workspace history alone.
SweepReads ==
    /\ sweep.pc = "pruned"
    /\ sweep' = [pc |-> "read",
                 kept |-> {r \in Requests : row[r] \in {"pending", "queued", "running"}}]
    /\ UNCHANGED <<world, lock, stores, row, grant, approved, server, ask, ui, worker, child, call,
                   faults>>

SweepRemoves(S) ==
    /\ sweep.pc = "read" /\ Free("workspace-cas", Sweeper)
    /\ S \cap sweep.kept = {}
    /\ bundle' = [r \in Requests |-> IF r \in S THEN Nobody ELSE bundle[r]]
    /\ tree' = [r \in Requests |-> IF r \in S THEN Nobody ELSE tree[r]]
    /\ sweep' = [sweep EXCEPT !.pc = "done"]
    /\ UNCHANGED <<world, lock, row, grant, approved, server, ask, ui, worker, child, call, faults>>

----
\* The server: request_sandbox_command and request_host_command.

AskGo(r, step) == ask' = [ask EXCEPT ![r].pc = step]

\* The command is normalized: the identity of its executable is captured.
Admit(r) ==
    /\ ask[r].pc = "idle" /\ Enters(r)
    /\ ask' = [ask EXCEPT ![r] = [pc |-> "admitted", exe |-> exe, asked |-> server, left |-> Paths]]
    /\ UNCHANGED <<world, lock, stores, row, grant, approved, server, ui, worker, child, call, sweep,
                   faults>>

\* prepare_approval_bundle begins.
OpenBundle(r) ==
    /\ ask[r].pc = "admitted"
    /\ lock["workspace"] = Nobody /\ lock["approval-staging"] = Nobody
    /\ lock' = [lock EXCEPT !["workspace"] = r, !["approval-staging"] = r]
    /\ bundle' = [bundle EXCEPT ![r] =
                    [sealed |-> FALSE, conf |-> server, exe |-> exe,
                     copy |-> [p \in Paths |-> Absent], bound |-> Nobody]]
    /\ AskGo(r, "copying")
    /\ UNCHANGED <<world, tree, row, grant, approved, server, ui, worker, child, call, sweep, faults>>

\* _copy_tree_bounded: one file after the other.
CopyFile(r, p) ==
    /\ ask[r].pc = "copying" /\ p \in ask[r].left /\ bundle[r] # Nobody
    /\ bundle' = [bundle EXCEPT ![r].copy[p] = live[p].text]
    /\ ask' = [ask EXCEPT ![r].left = @ \ {p}]
    /\ UNCHANGED <<world, lock, tree, row, grant, approved, server, ui, worker, child, call, sweep,
                   faults>>

\* _broker_mutable_workspace_binding reads the files again; the manifest is written.
SealBundle(r) ==
    /\ ask[r].pc = "copying" /\ ask[r].left = {} /\ bundle[r] # Nobody
    /\ bundle' = [bundle EXCEPT ![r].sealed = TRUE,
                                ![r].bound = IF Kind[r] = "host" THEN Nobody ELSE live]
    /\ lock' = Released(r)
    /\ AskGo(r, "bundled")
    /\ UNCHANGED <<world, tree, row, grant, approved, server, ui, worker, child, call, sweep, faults>>

\* A limit is exceeded, a file cannot be read, or what was copied has been swept away.
BundleFails(r) ==
    /\ ask[r].pc = "copying" /\ IF bundle[r] = Nobody THEN UNCHANGED faults ELSE Fault
    /\ bundle' = [bundle EXCEPT ![r] = Nobody]
    /\ lock' = Released(r)
    /\ AskGo(r, "refused")
    /\ UNCHANGED <<world, tree, row, grant, approved, server, ui, worker, child, call, sweep>>

\* export_config_binding: the file a process has loaded its settings from is still the same.
BindsConfig(conf) == conf.settings = config.settings

\* control_plane_generation: the loaded settings, and the build that is installed now.
Generation(conf) == [conf EXCEPT !.build = config.build]

\* The row is created with the generation of the request; the bundle stays behind when the
\* configuration file is no longer the one the server has loaded.
AskForApproval(r) ==
    /\ ask[r].pc = "bundled"
    /\ IF BindsConfig(server)
       THEN /\ Audits(r)
            /\ row' = [row EXCEPT ![r] = "pending"]
            /\ ask' = [ask EXCEPT ![r].pc = "asked", ![r].asked = Generation(server)]
       ELSE AskGo(r, "refused") /\ UNCHANGED row
    /\ UNCHANGED <<world, lock, stores, grant, approved, server, ui, worker, child, call, sweep,
                   faults>>

\* The server waits in vain for a lock.
AskTimesOut(r) ==
    /\ \/ ask[r].pc = "admitted" /\ \E n \in {"workspace", "approval-staging"} : ~Free(n, r)
       \/ ask[r].pc = "bundled" /\ ~Audits(r)
    /\ AskGo(r, "refused")
    /\ UNCHANGED <<world, lock, stores, row, grant, approved, server, ui, worker, child, call, sweep,
                   faults>>

\* The server is restarted: what it was doing is lost, its locks are free.
ServerRestarts ==
    /\ Fault
    /\ server' = config
    /\ LET lost == {r \in Requests : ask[r].pc \in {"admitted", "copying", "bundled"}}
           cut == {c \in Writes : call[c].pc \in {"ready", "holding"}}
       IN /\ ask' = [r \in Requests |->
                        IF r \in lost THEN [ask[r] EXCEPT !.pc = "refused"] ELSE ask[r]]
          /\ call' = [c \in Calls |-> IF c \in cut THEN [call[c] EXCEPT !.pc = "done"] ELSE call[c]]
          /\ lock' = [n \in Locks |-> IF lock[n] \in lost \cup cut THEN Nobody ELSE lock[n]]
    /\ UNCHANGED <<world, stores, row, grant, approved, ui, worker, child, sweep>>

----
\* What is verified.

\* verify_control_plane_generation: the process still runs with the settings, and on the build, of
\* the request.
SameGeneration(asked, conf) ==
    BindsConfig(conf) /\ asked.settings = conf.settings /\ asked.build = config.build

\* settings_digest, _environment_digest.
SameDigests(r, conf) ==
    bundle[r].conf.settings = conf.settings /\ bundle[r].conf.environment = conf.environment

\* _source_inventory, and the comparison of a writer's source records.
SameFiles(r) ==
    \A p \in Paths :
        bundle[r].copy[p] # Absent \/ Kind[r] = "host" => live[p].text = bundle[r].copy[p]

\* _broker_mutable_workspace_binding: identity and time of every file as well.
SameBinding(r) == bundle[r].bound = live

\* Mutant: a writer's files are not compared, its binding is taken to be enough.
BundleHoldsBinding(r, conf) ==
    /\ bundle[r] # Nobody /\ bundle[r].sealed /\ SameDigests(r, conf) /\ bundle[r].exe = exe
    /\ IF Kind[r] = "host" THEN SameFiles(r) ELSE SameBinding(r)

\* Mutant: a host run is left to its approver.
BundleHoldsSandbox(r, conf) ==
    /\ bundle[r] # Nobody /\ bundle[r].sealed /\ SameDigests(r, conf) /\ bundle[r].exe = exe
    /\ Kind[r] # "host" => SameBinding(r)

\* verify_approval_bundle.
BundleHolds(r, conf) ==
    /\ bundle[r] # Nobody /\ bundle[r].sealed
    /\ SameDigests(r, conf)
    /\ bundle[r].exe = exe
    /\ Kind[r] # "reader" => SameFiles(r)
    /\ Kind[r] # "host" => SameBinding(r)

----
\* The approval UI.

Expires(r) ==
    /\ row[r] = "pending" /\ Audits(Nobody)
    /\ row' = [row EXCEPT ![r] = "expired"]
    /\ UNCHANGED <<world, lock, stores, grant, approved, tasks, faults>>

\* The person says yes; what they saw is verified before the row is claimed.
UiVerifies(r) ==
    /\ ui.pc = "idle" /\ row[r] = "pending" /\ Free("approval-staging", Nobody)
    /\ IF SameGeneration(ask[r].asked, ui.conf) /\ BundleHolds(r, ui.conf)
       THEN ui' = [ui EXCEPT !.pc = "verified", !.on = r]
       ELSE ui' = [ui EXCEPT !.pc = "failing", !.on = r]
    /\ UNCHANGED <<world, lock, stores, row, grant, approved, server, ask, worker, child, call, sweep,
                   faults>>

UiRejects(r) ==
    /\ ui.pc = "idle" /\ row[r] = "pending" /\ Audits(Nobody)
    /\ row' = [row EXCEPT ![r] = "rejected"]
    /\ UNCHANGED <<world, lock, stores, grant, approved, tasks, faults>>

\* approve_and_claim: only a row that is still pending, and bound to the request that was shown.
UiClaims(r) ==
    /\ ui.pc = "verified" /\ ui.on = r /\ Audits(Nobody)
    /\ IF row[r] = "pending"
       THEN /\ row' = [row EXCEPT ![r] = "queued"]
            /\ grant' = [grant EXCEPT ![r] = "live"]
            /\ approved' = [approved EXCEPT ![r] = bundle[r]]
            /\ ui' = [ui EXCEPT !.pc = "claimed"]
       ELSE ui' = [ui EXCEPT !.pc = "failing"] /\ UNCHANGED <<row, grant, approved>>
    /\ UNCHANGED <<world, lock, stores, server, ask, worker, child, call, sweep, faults>>

\* create_worker_context and executor.launch.
UiLaunches(r) ==
    /\ ui.pc = "claimed" /\ ui.on = r /\ Free("worker-context", Nobody)
    /\ IF BindsConfig(ui.conf)
       THEN /\ worker' = [worker EXCEPT ![r] =
                            [NewWorker EXCEPT !.pc = "started", !.conf = Generation(ui.conf)]]
            /\ ui' = [ui EXCEPT !.pc = "idle", !.on = Nobody]
       ELSE ui' = [ui EXCEPT !.pc = "failing"] /\ UNCHANGED worker
    /\ UNCHANGED <<world, lock, stores, row, grant, approved, server, ask, child, call, sweep, faults>>

\* The row is failed by whatever went wrong.
UiFails ==
    /\ ui.pc = "failing" /\ Audits(Nobody)
    /\ row' = Moved(ui.on, {"pending", "queued", "running"}, "failed")
    /\ ui' = [ui EXCEPT !.pc = "idle", !.on = Nobody]
    /\ UNCHANGED <<world, lock, stores, grant, approved, server, ask, worker, child, call, sweep,
                   faults>>

\* A lock is not granted in time.
UiTimesOut ==
    /\ \/ ui.pc = "verified" /\ ~Audits(Nobody)
       \/ ui.pc = "claimed" /\ ~Free("worker-context", Nobody)
    /\ ui' = [ui EXCEPT !.pc = "failing"]
    /\ UNCHANGED <<world, lock, stores, row, grant, approved, server, ask, worker, child, call, sweep,
                   faults>>

\* The UI is closed or killed, and started again.
UiRestarts ==
    /\ Fault
    /\ ui' = [pc |-> "idle", on |-> Nobody, conf |-> config]
    /\ lock' = Released(ui.on)
    /\ UNCHANGED <<world, stores, row, grant, approved, server, ask, worker, child, call, sweep>>

\* approval_execution_ttl_seconds have passed.
GrantExpires(r) ==
    /\ grant[r] = "live"
    /\ grant' = [grant EXCEPT ![r] = "over"]
    /\ UNCHANGED <<world, lock, stores, row, approved, tasks, faults>>

----
\* The worker: run_operation.

Go(r, step) == worker' = [worker EXCEPT ![r].pc = step]
Sandboxed(r) == Kind[r] # "host"
Mine == <<world, server, ask, ui, call, sweep, approved>>

\* Whatever fails ends the row and gives everything back.
Fail(r, status) ==
    /\ Audits(r)
    /\ row' = Moved(r, {"queued", "running"}, status)
    /\ lock' = Released(r)
    /\ Go(r, "over")
    /\ UNCHANGED <<world, stores, server, ask, ui, call, sweep, approved, grant, child, faults>>

\* load_worker_context and the first lines of run_operation: the generations of the launch and of
\* the request must both be that of now.
WorkerLoads(r) ==
    /\ worker[r].pc = "started" /\ Audits(r)
    /\ Go(r, IF row[r] # "gone" /\
                \A asked \in {worker[r].conf, ask[r].asked} : SameGeneration(asked, worker[r].conf)
             THEN "waiting" ELSE "dead")
    /\ UNCHANGED <<Mine, lock, stores, row, grant, child, faults>>

\* Mutant: a run that only reads takes no lock.
LocksWorkspaceWriters(r) == Kind[r] # "reader"

\* _requires_workspace_execution_lock.
LocksWorkspace(r) == Kind[r] \in {"reader", "writer", "host"}

WorkerLocks(r) ==
    /\ worker[r].pc = "waiting"
    /\ IF LocksWorkspace(r) THEN Take("workspace", r) ELSE UNCHANGED lock
    /\ Go(r, "locked")
    /\ UNCHANGED <<Mine, stores, row, grant, child, faults>>

WorkerVerifies(r) ==
    /\ worker[r].pc = "locked" /\ Free("approval-staging", r)
    /\ BundleHolds(r, worker[r].conf)
    /\ worker' = [worker EXCEPT ![r].pc = "verified", ![r].touched = FALSE]
    /\ UNCHANGED <<Mine, lock, stores, row, grant, child, faults>>

\* materialize_execution_copy: a host run has no copy.
Materializes(r) ==
    /\ worker[r].pc = "verified" /\ Free("approval-staging", r)
    /\ Sandboxed(r) => bundle[r] # Nobody
    /\ tree' = IF Sandboxed(r) THEN [tree EXCEPT ![r] = bundle[r].copy] ELSE tree
    /\ Go(r, "copied")
    /\ UNCHANGED <<Mine, lock, bundle, row, grant, child, faults>>

\* The row runs; one that has ended meanwhile is left alone.
WorkerClaims(r) ==
    /\ worker[r].pc = "copied" /\ Audits(r)
    /\ IF row[r] = "queued"
       THEN /\ row' = [row EXCEPT ![r] = "running"]
            /\ Go(r, "claimed") /\ UNCHANGED lock
       ELSE Go(r, "over") /\ lock' = Released(r) /\ UNCHANGED row
    /\ UNCHANGED <<Mine, stores, grant, child, faults>>

\* The checkpoint before.
Checkpoints(r) ==
    /\ worker[r].pc = "claimed" /\ Free("workspace-cas", r) /\ Audits(r)
    /\ Go(r, IF Sandboxed(r) THEN "guarded" ELSE "guarding")
    /\ UNCHANGED <<Mine, lock, stores, row, grant, child, faults>>

\* A host run takes the named locks, one after the other.
TakesGuard(r) ==
    /\ worker[r].pc = "guarding" /\ worker[r].next <= Len(Guards)
    /\ Take(Guards[worker[r].next], r)
    /\ worker' = [worker EXCEPT ![r].next = @ + 1]
    /\ UNCHANGED <<Mine, stores, row, grant, child, faults>>

\* Mutant: the census is taken before the audit store is locked.
CountsEarly(r) ==
    /\ worker[r].pc = "guarding" /\ worker[r].next = 1
    /\ Active = {r}
    /\ Go(r, "guarded")
    /\ UNCHANGED <<Mine, lock, stores, row, grant, child, faults>>

\* With all of them, it must be the only operation that is active.
Counts(r) ==
    /\ worker[r].pc = "guarding" /\ worker[r].next > Len(Guards)
    /\ Active = {r}
    /\ Go(r, "guarded")
    /\ UNCHANGED <<Mine, lock, stores, row, grant, child, faults>>

\* _ensure_approval_execution_fresh, hold_executable_identity.
Holds(r) == worker[r].pc = "guarded" /\ grant[r] = "live" /\ ask[r].exe = exe

HoldsTools(r) ==
    /\ Holds(r)
    /\ Go(r, "fresh")
    /\ UNCHANGED <<Mine, lock, stores, row, grant, child, faults>>

\* What the child finds: its copy, or the workspace.
Finds(r) == IF Sandboxed(r) THEN tree[r] ELSE [p \in Paths |-> live[p].text]

StartsChild(r) ==
    /\ worker[r].pc = "fresh" /\ Audits(r)
    /\ Sandboxed(r) => tree[r] # Nobody
    /\ child' = [child EXCEPT ![r] =
                    [conf |-> worker[r].conf, exe |-> exe, inputs |-> Finds(r),
                     beside |-> [p \in Paths |-> live[p].text], untouched |-> ~worker[r].touched, wrote |-> Nobody]]
    /\ Go(r, "running")
    /\ UNCHANGED <<Mine, lock, stores, row, grant, faults>>

\* The child writes where it may: a host child in the workspace.
ChildWrites(r, p, t) ==
    /\ worker[r].pc = "running" /\ child[r].wrote = Nobody
    /\ child[r].inputs[p] # t
    /\ IF Sandboxed(r)
       THEN /\ tree[r] # Nobody
            /\ tree' = [tree EXCEPT ![r][p] = t]
            /\ UNCHANGED <<live, stamp>>
       ELSE Put(p, t) /\ UNCHANGED tree
    /\ child' = [child EXCEPT ![r].wrote = p]
    /\ UNCHANGED <<config, exe, edits, lock, bundle, row, grant, approved, server, ask, ui, worker,
                   call, sweep, faults>>

\* It exits or is killed at its deadline, with all of its descendants.
ChildEnds(r) ==
    /\ worker[r].pc = "running"
    /\ Go(r, "ended")
    /\ UNCHANGED <<Mine, lock, stores, row, grant, child, faults>>

\* The named locks of a host run are given back after its postflight.
GivesGuardsBack(r) ==
    /\ worker[r].pc = "ended"
    /\ lock' = [n \in Locks |-> IF n # "workspace" /\ lock[n] = r THEN Nobody ELSE lock[n]]
    /\ Go(r, "closed")
    /\ UNCHANGED <<Mine, stores, row, grant, child, faults>>

\* prepare_approval_bundle, with snapshot_workspace for every sandbox.
Mode(r) ==
    CASE Kind[r] = "writer" -> "staged-sandbox-workspace-write"
      [] Kind[r] = "reader" -> "staged-sandbox-workspace"
      [] OTHER -> "source-workspace"

\* staged_sandbox_commit: what the child changed in its copy is taken over into the workspace.
StagedCommit(r) == Kind[r] = "writer" /\ Mode(r) = "staged-workspace-write"

\* collect_staged_workspace_changes.
StagedChanges(r) == {p \in Paths : tree[r][p] # bundle[r].copy[p]}

\* The rest of run_operation: commit, the checkpoint after, the workspace lock, the row; "failed"
\* stands for every way a child ends without success.
WorkerEnds(r) ==
    /\ worker[r].pc = "closed" /\ Free("workspace-cas", r) /\ Audits(r)
    /\ \E status \in {"succeeded", "failed"} :
          /\ IF status = "succeeded" /\ StagedCommit(r) /\ tree[r] # Nobody /\ bundle[r] # Nobody
             THEN /\ live' = [p \in Paths |-> IF p \in StagedChanges(r)
                                              THEN [text |-> tree[r][p], id |-> stamp + 1]
                                              ELSE live[p]]
                  /\ stamp' = stamp + 1
             ELSE UNCHANGED <<live, stamp>>
          /\ row' = Moved(r, {"running"}, status)
    /\ lock' = Released(r) /\ Go(r, "over")
    /\ UNCHANGED <<config, exe, edits, stores, grant, approved, server, ask, ui, child, call, sweep,
                   faults>>

\* Something the worker needs is not as it was approved, or not there in time.
WorkerFails(r) ==
    \/ worker[r].pc \in {"waiting", "locked", "verified"} /\ Fail(r, "failed") /\
          \/ worker[r].pc = "waiting" /\ ~Free("workspace", r)
          \/ worker[r].pc \in {"locked", "verified"} /\ ~Free("approval-staging", r)
          \/ worker[r].pc = "locked" /\ ~BundleHolds(r, worker[r].conf)
          \/ worker[r].pc = "verified" /\ Sandboxed(r) /\ bundle[r] = Nobody
    \/ /\ worker[r].pc = "guarding"
       /\ IF worker[r].next <= Len(Guards) THEN ~Free(Guards[worker[r].next], r) ELSE Active # {r}
       /\ Fail(r, "failed")
    \/ worker[r].pc = "guarded" /\ ~Holds(r) /\ Fail(r, IF grant[r] = "over" THEN "expired" ELSE "failed")
    \/ worker[r].pc = "fresh" /\ Sandboxed(r) /\ tree[r] = Nobody /\ Fail(r, "failed")

\* A lock of the audit store or of the history is not granted in time, or the worker is killed:
\* its child dies with its job, the row stays.
WorkerDies(r) ==
    /\ worker[r].pc \notin {"none", "over", "dead"}
    /\ \/ Fault
       \/ UNCHANGED faults /\
          \/ ~Audits(r)
          \/ worker[r].pc \in {"claimed", "closed"} /\ ~Free("workspace-cas", r)
    /\ lock' = Released(r)
    /\ Go(r, "dead")
    /\ UNCHANGED <<Mine, stores, row, grant, child>>

\* A row whose worker is gone, or never came, is reconciled.
Reap(r) ==
    /\ row[r] \in {"queued", "running"} /\ worker[r].pc \in {"none", "dead"} /\ ui.on # r
    /\ Audits(Nobody)
    /\ row' = [row EXCEPT ![r] = "interrupted"]
    /\ UNCHANGED <<world, lock, stores, grant, approved, tasks, faults>>

----
RequestStep(r) ==
    \/ Admit(r) \/ OpenBundle(r) \/ (\E p \in Paths : CopyFile(r, p)) \/ SealBundle(r)
    \/ BundleFails(r) \/ AskForApproval(r) \/ AskTimesOut(r)
    \/ Expires(r) \/ UiVerifies(r) \/ UiRejects(r) \/ UiClaims(r) \/ UiLaunches(r)
    \/ GrantExpires(r) \/ Reap(r)

WorkerStep(r) ==
    \/ WorkerLoads(r) \/ WorkerLocks(r) \/ WorkerVerifies(r) \/ Materializes(r) \/ WorkerClaims(r)
    \/ Checkpoints(r) \/ TakesGuard(r) \/ Counts(r) \/ HoldsTools(r) \/ StartsChild(r)
    \/ ChildEnds(r) \/ GivesGuardsBack(r) \/ WorkerEnds(r) \/ WorkerFails(r)

Beside ==
    \/ \E p \in Paths, t \in Texts \cup {Absent} : Edit(p, t)
    \/ Reconfigure \/ Upgrade \/ ServerRestarts \/ UiRestarts \/ UiFails \/ UiTimesOut
    \/ \E c \in Calls :
          \/ BeginCall(c) \/ EndCall(c)
          \/ \E p \in Paths, t \in Texts \cup {Absent} : Write(c, p, t)
    \/ SweepOpens \/ SweepReads
    \/ (\E S \in SUBSET (Rows \cup Calls) : SweepPrunes(S)) \/ \E S \in SUBSET Requests : SweepRemoves(S)

Next ==
    \/ \E r \in Requests :
          \/ RequestStep(r) \/ WorkerStep(r) \/ WorkerDies(r)
          \/ \E p \in Paths, t \in Texts \cup {Absent} : ChildWrites(r, p, t)
    \/ Beside

Spec == Init /\ [][Next]_vars

----
\* Properties.

\* A child is started with the executable, the settings and the environment of the bundle its
\* approver's claim was for, by the build of the request.  A sandbox child finds the approved copy of every file, a host child the
\* approved files themselves unless another program has edited one since its worker verified
\* them: whatever was replaced, edited, restarted or swept away between request, approval,
\* verification and start (verify_approval_bundle, materialize_execution_copy).
RunsWhatWasApproved ==
    \A r \in Requests : child[r] # Nobody =>
        /\ approved[r] # Nobody
        /\ child[r].exe = approved[r].exe /\ child[r].conf.build = ask[r].asked.build
        /\ [child[r].conf EXCEPT !.build = 0] = [approved[r].conf EXCEPT !.build = 0]
        /\ (Sandboxed(r) \/ child[r].untouched) => child[r].inputs = approved[r].copy

\* The files a writing sandbox starts from are the workspace's own at that moment, unless another
\* program has edited one since the verification: a copy torn by an edit while it was made is
\* never handed out (the comparison of source records in verify_approval_bundle).
WriterStartsFresh ==
    \A r \in Requests : Kind[r] = "writer" /\ child[r] # Nobody /\ child[r].untouched =>
        \A p \in Paths : approved[r].copy[p] # Absent => child[r].inputs[p] = child[r].beside[p]

\* While a host child may run no other operation is active: the census under the lock of the
\* audit store decides for the whole run (run_operation).
HostRunsAlone ==
    \A r \in Requests : Kind[r] = "host" /\ worker[r].pc \in {"guarded", "fresh", "running"} =>
        Active \subseteq {r}

\* From its verification to the end of its child an approved command shares the workspace with
\* no writer of the broker: only another program changes a file, or the host child itself
\* (_requires_workspace_execution_lock).
BrokerKeepsOut ==
    [][\A r \in Requests : worker[r].pc \in Verified /\ worker'[r].pc \in Verified /\ live' # live =>
            edits' # edits \/ (Kind[r] = "host" /\ worker[r].pc = "running")]_vars

\* While a host child is guarded no process of the broker changes what the guard compares
\* afterwards, so that a change is a change by the child (the comment in run_operation), but for
\* one: a process that opened the audit store before deletes rows that had ended.
GuardedStateKept ==
    [][\A r \in Requests : Kind[r] = "host" /\ worker[r].pc \in {"guarded", "fresh", "running"}
                           /\ worker'[r].pc \in {"fresh", "running", "ended"} =>
            /\ stores' = stores
            /\ \A q \in Rows \ {r} :
                  row'[q] = row[q] \/ (sweep.pc = "opened" /\ row[q] \in Ended /\ row'[q] = "gone")]_vars
====
