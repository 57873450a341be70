---- MODULE ApprovedHost ----
(***************************************************************************)
(* The Approved Host: a command that runs outside the sandbox, as the      *)
(* ordinary user, under the authority of a LocalSystem service.            *)
(*                                                                         *)
(* Two latches say that such a run has not been verified yet.  The first,  *)
(* active.json, belongs to the service: it is written before the SYSTEM    *)
(* worker is created and leaves only with the proof of a normal return or  *)
(* with an administrator's recovery.  The second, the postflight marker,   *)
(* belongs to the user's control plane: the worker arms it before the      *)
(* child starts and clears it when the control plane is found unchanged.   *)
(*                                                                         *)
(* Service, watcher thread, workers, children, their helpers outside the   *)
(* job, the recovery script and the health gate of every other operation   *)
(* run concurrently; service, workers and script may die between any two   *)
(* of their steps.                                                         *)
(***************************************************************************)
EXTENDS Naturals, FiniteSets

CONSTANTS
    Ops,        \* Approved Host operations, each launched at most once
    None,       \* "no such file", "nobody"
    MaxFaults   \* bound: crashes, failed steps, abandoned recoveries; starts a recovery is made after

\* "No such file" is neither an operation nor what such a file would hold.
ASSUME HostAssumption ==
  None \notin Ops /\ None \notin [op : Ops, epoch : Nat] /\ MaxFaults \in Nat

VARIABLES
    active,     \* active.json: None or [op, epoch]
    status,     \* active-status.json: None or [op, epoch, state, worker]
    proofs,     \* completion-*.json: set of [op, epoch, started, verified]
    tamper,     \* tamper-detected.json exists
    pending,    \* approved-host-postflight-pending.json: None or its operation
    quarantine, \* operations whose marker a recovery moved aside
    service,    \* [state: up | down, epoch]
    call,       \* the launch request in progress: [op, at]
    watch,      \* watcher threads: operation -> how far it got
    client,     \* requester of each operation: none | checked | done
    worker,     \* SYSTEM worker of each operation
    lease,      \* what the worker's lease says: [epoch, started, verified]
    child,      \* the user's command: none | running | gone
    helper,     \* a process of the child outside its job is alive
    dirty,      \* the control plane differs from what the guard expects
    recovery,   \* recover-approved-host-authority.ps1: [at, op, bound]
    cleared,    \* operations whose latch a recovery removed
    gate,       \* assert_control_plane_healthy of some other operation
    faults      \* faults so far

system  == <<active, status, proofs>>
user    == <<tamper, pending, quarantine>>
serving == <<service, call, watch, client>>
running == <<worker, lease, child, helper, dirty>>
operator == <<recovery, cleared>>
vars == <<active, status, proofs, tamper, pending, quarantine, service, call,
          watch, client, worker, lease, child, helper, dirty, recovery, cleared, gate, faults>>

Holding == {"guarded", "child", "post", "checked", "uncertain"}   \* holds the marker's handle
Locking == Holding \cup {"captured", "mismatch", "tampered"}      \* holds the control-plane locks
Live    == Locking \cup {"starting", "finishing"}
Gone    == {"exited", "dead"}

NoCall == [op |-> None, at |-> "idle"]
AtRest == [at |-> "idle", op |-> None, bound |-> FALSE]

Init ==
    /\ active = None /\ status = None /\ proofs = {}
    /\ tamper = FALSE /\ pending = None /\ quarantine = {}
    /\ service = [state |-> "up", epoch |-> 0]
    /\ call = NoCall
    /\ watch = [o \in Ops |-> "none"]
    /\ client = [o \in Ops |-> "none"]
    /\ worker = [o \in Ops |-> "none"]
    /\ lease = [o \in Ops |-> [epoch |-> 0, started |-> FALSE, verified |-> FALSE]]
    /\ child = [o \in Ops |-> "none"]
    /\ helper = [o \in Ops |-> FALSE]
    /\ dirty = FALSE
    /\ recovery = AtRest /\ cleared = {}
    /\ gate = "idle"
    /\ faults = 0

Fault == faults < MaxFaults /\ faults' = faults + 1

----
\* The store.

\* read_active answers None; a sidecar without its latch is an error, never "none".
Inactive == active = None /\ status = None

\* mark_recovery_required writes a sidecar of its own: the worker's identity is not carried over.
Recoverable == [op |-> active.op, epoch |-> active.epoch, state |-> "recovery", worker |-> FALSE]

MarkRecovery == status' = IF active = None THEN status ELSE Recoverable

\* require_current_active.
Current == active # None /\ active.epoch = service.epoch

----
\* The service: one thread answers requests, a daemon thread watches each worker.

\* The requester finds the control plane healthy and the authority available, then asks.
ClientChecks(o) ==
    /\ client[o] = "none" /\ ~tamper /\ pending = None
    /\ service.state = "up" /\ Inactive
    /\ client' = [client EXCEPT ![o] = "checked"]
    /\ UNCHANGED <<system, user, service, call, watch, running, operator, gate, faults>>

\* _launch as far as the latch: by now another run may be active, and the request is refused.
Arm(o) ==
    /\ service.state = "up" /\ call = NoCall /\ client[o] = "checked"
    /\ client' = [client EXCEPT ![o] = "done"]
    /\ IF Inactive
       THEN /\ active' = [op |-> o, epoch |-> service.epoch]
            /\ call' = [op |-> o, at |-> "armed"]
       ELSE UNCHANGED <<active, call>>
    /\ UNCHANGED <<status, proofs, user, service, watch, running, operator,
                   gate, faults>>

Spawn(o) ==
    /\ call = [op |-> o, at |-> "armed"]
    /\ worker' = [worker EXCEPT ![o] = "starting"]
    /\ lease' = [lease EXCEPT ![o].epoch = service.epoch]
    /\ call' = [call EXCEPT !.at = "spawned"]
    /\ UNCHANGED <<system, user, service, watch, client, child, helper, dirty, operator, gate,
                   faults>>

\* mark_running, then the watcher is started and the requester gets its answer.
RecordRunning(o) ==
    /\ call = [op |-> o, at |-> "spawned"] /\ Current
    /\ status' = [op |-> active.op, epoch |-> active.epoch, state |-> "running", worker |-> TRUE]
    /\ call' = NoCall
    /\ watch' = [watch EXCEPT ![o] = "waiting"]
    /\ UNCHANGED <<active, proofs, user, service, client, running, operator, gate,
                   faults>>

\* Anything that fails after the latch was armed; the worker may already run, unwatched.
LaunchFails ==
    /\ Fault /\ call.at # "idle"
    /\ MarkRecovery
    /\ call' = NoCall
    /\ UNCHANGED <<active, proofs, user, service, watch, client, running,
                   operator, gate>>

ReadyProof(o) ==
    \E p \in proofs : /\ p.op = o /\ active.op = o /\ p.epoch = active.epoch
                      /\ p.started => p.verified

\* Mutant: the watcher of a worker that left no proof ends without a word.
ReapSilent(o) ==
    /\ watch[o] = "waiting" /\ worker[o] \in Gone
    /\ IF Current /\ ReadyProof(o)
       THEN watch' = [watch EXCEPT ![o] = "archived"]
       ELSE watch' = [watch EXCEPT ![o] = "none"]
    /\ UNCHANGED <<active, status, proofs, user, service, call, client, running,
                   operator, gate, faults>>

\* _watch_worker once the worker is gone: the proof is archived (a record nothing reads again), or
\* recovery is required.
Reap(o) ==
    /\ watch[o] = "waiting" /\ worker[o] \in Gone
    /\ IF Current /\ ReadyProof(o)
       THEN watch' = [watch EXCEPT ![o] = "archived"] /\ UNCHANGED status
       ELSE watch' = [watch EXCEPT ![o] = "none"] /\ MarkRecovery
    /\ UNCHANGED <<active, proofs, user, service, call, client, running, operator,
                   gate, faults>>

\* consume_completion after the archive: proof, sidecar and, last, the latch.
DropProof(o) ==
    /\ watch[o] = "archived"
    /\ proofs' = {p \in proofs : p.op # o}
    /\ watch' = [watch EXCEPT ![o] = "proofless"]
    /\ UNCHANGED <<active, status, user, service, call, client, running,
                   operator, gate, faults>>

DropStatus(o) ==
    /\ watch[o] = "proofless"
    /\ status' = None
    /\ watch' = [watch EXCEPT ![o] = "statusless"]
    /\ UNCHANGED <<active, proofs, user, service, call, client, running,
                   operator, gate, faults>>

DropLatch(o) ==
    /\ watch[o] = "statusless"
    /\ active' = None
    /\ watch' = [watch EXCEPT ![o] = "none"]
    /\ UNCHANGED <<status, proofs, user, service, call, client, running,
                   operator, gate, faults>>

ConsumeFails(o) ==
    /\ Fault /\ watch[o] \notin {"none", "waiting"}
    /\ MarkRecovery
    /\ watch' = [watch EXCEPT ![o] = "none"]
    /\ UNCHANGED <<active, proofs, user, service, call, client, running,
                   operator, gate>>

\* The process goes with its threads; the workers it created do not.
Stops ==
    /\ service' = [service EXCEPT !.state = "down"]
    /\ call' = NoCall
    /\ watch' = [o \in Ops |-> "none"]

ServiceDies ==
    /\ Fault /\ service.state = "up"
    /\ Stops
    /\ UNCHANGED <<system, user, client, running, operator, gate>>

\* Mutant: the service starts from a clean state.
ServiceStartsClean ==
    /\ service.state # "up" /\ recovery.at \in {"idle", "reviewed"}
    /\ service' = [state |-> "up", epoch |-> service.epoch + 1]
    /\ active' = None /\ status' = None
    /\ UNCHANGED <<proofs, user, call, watch, client, running, operator,
                   gate, faults>>

\* The recovery script starts what it stopped; a service that crashed has no failure action and
\* waits for an administrator or a boot.  Neither comes between, while the script is at work.
ServiceStarts ==
    /\ service.state # "up" /\ recovery.at \in {"idle", "reviewed"}
    /\ active = None => status = None
    /\ service' = [state |-> "up", epoch |-> service.epoch + 1]
    /\ MarkRecovery
    /\ UNCHANGED <<active, proofs, user, call, watch, client, running,
                   operator, gate, faults>>

----
\* The SYSTEM worker.

To(o, phase) == worker' = [worker EXCEPT ![o] = phase]

Phase(o, from, to) == worker[o] = from /\ To(o, to)

\* run_operation returns before anything was guarded: locks, recovery or a changed request.
Decline(o) ==
    /\ Phase(o, "starting", "finishing")
    /\ UNCHANGED <<system, user, serving, lease, child, helper, dirty, operator, gate, faults>>

\* capture_critical_state before the run: a healthy control plane is recorded, and the marker
\* is created where there was none.
TakeSnapshot(o) ==
    /\ ~tamper /\ pending = None
    /\ pending' = o
    /\ dirty' = FALSE

\* Alone under the control-plane locks.
Preflight(o) ==
    /\ Phase(o, "starting", "guarded")
    /\ \A p \in Ops : worker[p] \notin Locking
    /\ TakeSnapshot(o)
    /\ UNCHANGED <<system, tamper, quarantine, serving, lease, child, helper, operator, gate,
                   faults>>

StartChild(o) ==
    /\ Phase(o, "guarded", "child")
    /\ lease' = [lease EXCEPT ![o].started = TRUE]
    /\ child' = [child EXCEPT ![o] = "running"]
    /\ UNCHANGED <<system, user, serving, helper, dirty, operator, gate, faults>>

\* The launch fails: no child, and the postflight runs all the same.
NoChild(o) ==
    /\ Phase(o, "guarded", "post")
    /\ UNCHANGED <<system, user, serving, lease, child, helper, dirty, operator, gate, faults>>

\* The child ends or its deadline passes; its job is terminated and seen empty...
ChildEnds(o) ==
    /\ Phase(o, "child", "post")
    /\ child' = [child EXCEPT ![o] = "gone"]
    /\ UNCHANGED <<system, user, serving, lease, helper, dirty, operator, gate, faults>>

\* ...or its end cannot be verified.
CleanupFails(o) ==
    /\ Fault /\ Phase(o, "child", "uncertain")
    /\ child' = [child EXCEPT ![o] = "gone"]
    /\ UNCHANGED <<system, user, serving, lease, helper, dirty, operator, gate>>

\* The census waits for new processes of the user until the operation's deadline.
Census(o) ==
    /\ \/ Phase(o, "post", "checked") /\ ~helper[o]
       \/ Phase(o, "post", "uncertain") /\ helper[o]
    /\ UNCHANGED <<system, user, serving, lease, child, helper, dirty, operator, gate, faults>>

\* capture_critical_state after the run: the guard ends; only an expected state clears the marker.
Capture(o) ==
    /\ IF dirty
       THEN Phase(o, "checked", "mismatch") /\ UNCHANGED pending
       ELSE Phase(o, "checked", "captured") /\ pending' = None
    /\ UNCHANGED <<system, tamper, quarantine, serving, lease, child, helper, dirty, operator,
                   gate, faults>>

\* authority_capture: the lease of a started child is marked once the capture has returned.
MarkVerified(o) ==
    /\ Phase(o, "captured", "finishing")
    /\ lease' = [lease EXCEPT ![o].verified = lease[o].started]
    /\ UNCHANGED <<system, user, serving, child, helper, dirty, operator, gate, faults>>

\* mark_control_plane_tamper: guard off, tamper marker written, then the pending one cleared.
ReleaseGuard(o) ==
    /\ Phase(o, "uncertain", "mismatch")
    /\ UNCHANGED <<system, user, serving, lease, child, helper, dirty, operator, gate, faults>>

WriteTamper(o) ==
    /\ Phase(o, "mismatch", "tampered")
    /\ tamper' = TRUE
    /\ UNCHANGED <<system, pending, quarantine, serving, lease, child, helper, dirty, operator,
                   gate, faults>>

ClearPending(o) ==
    /\ Phase(o, "tampered", "finishing")
    /\ pending' = IF pending = o THEN None ELSE pending
    /\ UNCHANGED <<system, tamper, quarantine, serving, lease, child, helper, dirty, operator,
                   gate, faults>>

\* finalize_normal_return: a proof unless a started child was not verified.
Return(o) ==
    /\ Phase(o, "finishing", "exited")
    /\ proofs' = IF lease[o].started => lease[o].verified
                 THEN proofs \cup {[op |-> o, epoch |-> lease[o].epoch,
                                    started |-> lease[o].started,
                                    verified |-> lease[o].verified]}
                 ELSE proofs
    /\ UNCHANGED <<active, status, user, serving, lease, child, helper,
                   dirty, operator, gate, faults>>

\* Killed, or an exception escapes run_operation: no proof, and the job takes the child along.
WorkerDies(o) ==
    /\ Fault /\ worker[o] \in Live
    /\ To(o, "dead")
    /\ child' = [child EXCEPT ![o] = IF @ = "running" THEN "gone" ELSE @]
    /\ UNCHANGED <<system, user, serving, lease, helper, dirty, operator, gate>>

----
\* The child and what it leaves behind.

SpawnHelper(o) ==
    /\ child[o] = "running" /\ ~helper[o]
    /\ helper' = [helper EXCEPT ![o] = TRUE]
    /\ UNCHANGED <<system, user, serving, worker, lease, child, dirty, operator, gate, faults>>

HelperExits(o) ==
    /\ helper[o]
    /\ helper' = [helper EXCEPT ![o] = FALSE]
    /\ UNCHANGED <<system, user, serving, worker, lease, child, dirty, operator, gate, faults>>

\* The user's command may change whatever the user may.
Mutate(o) ==
    /\ child[o] = "running" \/ helper[o]
    /\ dirty' = TRUE
    /\ UNCHANGED <<system, user, serving, worker, lease, child, helper, operator, gate, faults>>

----
\* The administrator's recovery.  Nothing keeps it from a latch that somebody still works on: it
\* removes the latch that is there at its end, not the one it has shown.

Step(from, to) == recovery.at = from /\ recovery' = [recovery EXCEPT !.at = to]

\* As far as the question to the administrator: a recorded worker must be gone, no tamper marker
\* present, the postflight marker of this operation or none.  The administrator may acknowledge a
\* missing marker, whoever is at work.
Review ==
    /\ recovery = AtRest
    /\ active # None /\ service.epoch <= MaxFaults
    /\ status # None => ~(status.worker /\ worker[status.op] \in Live)
    /\ ~tamper
    /\ LET o == active.op
       IN /\ pending \in {o, None} /\ ~(pending = o /\ o \in quarantine)
          /\ recovery' = [at |-> "reviewed", op |-> o, bound |-> pending = o \/ o \in quarantine]
    /\ UNCHANGED <<system, user, serving, running, cleared, gate, faults>>

StopService ==
    /\ Step("reviewed", "stopped")
    /\ IF service.state = "up"
       THEN Stops
       ELSE UNCHANGED <<service, call, watch>>
    /\ UNCHANGED <<system, user, client, running, cleared, gate, faults>>

\* Mutant: the worker's handle lets others move the marker.
MarkerMovesAnyway ==
    /\ ~tamper
    /\ IF recovery.op \in quarantine THEN pending = None ELSE pending = recovery.op

\* Windows refuses the move while the worker holds the marker.
MarkerMoves ==
    /\ ~tamper
    /\ IF recovery.op \in quarantine
       THEN pending = None
       ELSE pending = recovery.op /\ worker[recovery.op] \notin Holding

MoveMarker ==
    /\ recovery.bound /\ Step("stopped", "moved")
    /\ MarkerMoves
    /\ pending' = None
    /\ quarantine' = quarantine \cup {recovery.op}
    /\ UNCHANGED <<system, tamper, serving, running, cleared, gate, faults>>

\* Both user-owned latches must be seen clear before anything of the service's is touched.
MarkersClear == ~tamper /\ pending = None

ConfirmClear ==
    /\ Step("moved", "confirmed")
    /\ MarkersClear
    /\ UNCHANGED <<system, user, serving, running, cleared, gate, faults>>

\* An error ends the script; the service is started all the same.
RecoveryRefused ==
    /\ \/ recovery.at = "stopped" /\ recovery.bound /\ ~MarkerMoves
       \/ recovery.at = "moved" /\ ~MarkersClear
       \/ recovery.at = "statusless" /\ active = None
    /\ recovery' = AtRest
    /\ UNCHANGED <<system, user, serving, running, cleared, gate, faults>>

\* An acknowledged absence leaves no marker to move, and none to look for.
RemoveProofs ==
    /\ Step(IF recovery.bound THEN "confirmed" ELSE "stopped", "proofless")
    /\ proofs' = {}
    /\ UNCHANGED <<active, status, user, serving, running, cleared, gate,
                   faults>>

RemoveStatus ==
    /\ Step("proofless", "statusless")
    /\ status' = None
    /\ UNCHANGED <<active, proofs, user, serving, running, cleared, gate,
                   faults>>

RemoveLatch ==
    /\ recovery.at = "statusless" /\ active # None
    /\ active' = None
    /\ cleared' = cleared \cup {active.op}
    /\ recovery' = AtRest
    /\ UNCHANGED <<status, proofs, user, serving, running, gate, faults>>

\* The script is interrupted; what was moved or removed stays so.
RecoveryStops ==
    /\ Fault /\ recovery # AtRest
    /\ recovery' = AtRest
    /\ UNCHANGED <<system, user, serving, running, cleared, gate>>

----
\* Every other operation asks three files, one after the other, before it is admitted.

Gate(from, to, clear) == gate = from /\ clear /\ gate' = to

\* Mutant: the user's markers alone decide.
GateReadsMarkers ==
    /\ \/ Gate("idle", "tamperRead", ~tamper)
       \/ Gate("tamperRead", "admitted", pending = None)
    /\ UNCHANGED <<system, user, serving, running, operator, faults>>

GateReads ==
    /\ \/ Gate("idle", "tamperRead", ~tamper)
       \/ Gate("tamperRead", "pendingRead", pending = None)
       \/ Gate("pendingRead", "admitted", service.state = "up" /\ Inactive)
    /\ UNCHANGED <<system, user, serving, running, operator, faults>>

\* It was admitted and goes on, or was refused.
GateEnds ==
    /\ gate # "idle" /\ gate' = "idle"
    /\ UNCHANGED <<system, user, serving, running, operator, faults>>

----
Serve(o) == ClientChecks(o) \/ Arm(o) \/ Spawn(o) \/ RecordRunning(o)

Watch(o) == Reap(o) \/ DropProof(o) \/ DropStatus(o) \/ DropLatch(o)

Work(o) ==
    \/ Decline(o) \/ Preflight(o) \/ StartChild(o) \/ NoChild(o) \/ ChildEnds(o) \/ Census(o)
    \/ Capture(o) \/ MarkVerified(o) \/ ReleaseGuard(o) \/ WriteTamper(o) \/ ClearPending(o)
    \/ Return(o)

Recover ==
    \/ StopService \/ MoveMarker \/ ConfirmClear \/ RecoveryRefused
    \/ RemoveProofs \/ RemoveStatus \/ RemoveLatch

Next ==
    \/ \E o \in Ops :
          \/ Serve(o) \/ Watch(o) \/ Work(o)
          \/ ConsumeFails(o) \/ CleanupFails(o) \/ WorkerDies(o)
          \/ SpawnHelper(o) \/ HelperExits(o) \/ Mutate(o)
    \/ LaunchFails \/ ServiceDies \/ ServiceStarts
    \/ Review \/ Recover \/ RecoveryStops
    \/ GateReads \/ GateEnds

Spec == Init /\ [][Next]_vars

\* The service's threads and the worker run on, waits in the worker have deadlines, and a service
\* that is down is started some time.  Nobody promises that an administrator recovers.
Fairness ==
    /\ \A o \in Ops : WF_vars(Spawn(o) \/ RecordRunning(o)) /\ WF_vars(Watch(o))
                      /\ WF_vars(Work(o))
    /\ WF_vars(ServiceStarts)
    /\ WF_vars(Recover)

LiveSpec == Spec /\ Fairness

----
\* Properties.

TypeOK ==
    /\ active = None \/ active \in [op : Ops, epoch : Nat]
    /\ status = None \/ status \in [op : Ops, epoch : Nat, state : {"running", "recovery"},
                                   worker : BOOLEAN]
    /\ proofs \subseteq [op : Ops, epoch : Nat, started : BOOLEAN, verified : BOOLEAN]
    /\ quarantine \subseteq Ops /\ cleared \subseteq Ops
    /\ tamper \in BOOLEAN /\ dirty \in BOOLEAN
    /\ pending \in Ops \cup {None}
    /\ service \in [state : {"up", "down"}, epoch : Nat]
    /\ call \in [op : Ops \cup {None}, at : {"idle", "armed", "spawned"}]
    /\ watch \in [Ops -> {"none", "waiting", "archived", "proofless", "statusless"}]
    /\ client \in [Ops -> {"none", "checked", "done"}]
    /\ worker \in [Ops -> {"none"} \cup Live \cup Gone]
    /\ lease \in [Ops -> [epoch : Nat, started : BOOLEAN, verified : BOOLEAN]]
    /\ child \in [Ops -> {"none", "running", "gone"}]
    /\ helper \in [Ops -> BOOLEAN]
    /\ recovery \in [at : {"idle", "reviewed", "stopped", "moved", "confirmed", "proofless",
                           "statusless"},
                     op : Ops \cup {None}, bound : BOOLEAN]
    /\ recovery.at # "idle" => recovery.op \in Ops
    /\ gate \in {"idle", "tamperRead", "pendingRead", "admitted"}
    /\ faults \in 0..MaxFaults

\* The run of o needs no latch: no child, a verified one, or one whose latch a recovery removed.
Settled(o) == lease[o].started => lease[o].verified \/ o \in cleared

\* Whatever dies and restarts, the service's latch stays until a child's run is verified or an
\* administrator's recovery removes it (consume_completion, HardenedAuthorityStateStore).
LatchHolds == \A o \in Ops : Settled(o) \/ (active # None /\ active.op = o)

\* A child never runs without its marker, which no recovery takes from under its worker, and
\* without the service's latch only when a recovery removed that one, its administrator having
\* acknowledged that the marker was missing (arm before Popen, the marker before the child, the
\* worker's handle on the marker).
ChildRunsLatched ==
    \A o \in Ops : child[o] = "running" =>
        /\ pending = o
        /\ (active # None /\ active.op = o) \/ o \in cleared \ quarantine

\* assert_control_plane_healthy reads three files at three times, and still admits an operation
\* only when every Approved Host run is settled.
AdmittedWhenSettled ==
    [][gate' = "admitted" /\ gate # "admitted" => \A o \in Ops : Settled(o)]_vars

\* A latch does not stay in between: it leaves, or the service gives it up, so that a recovery can
\* be made (_watch_worker, the start of the service).
GivenUp == status # None /\ status.state = "recovery"

LatchResolves == active # None ~> active = None \/ GivenUp
====
