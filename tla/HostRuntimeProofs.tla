--------------------------- MODULE HostRuntimeProofs ---------------------------
(***************************************************************************)
(* Proofs about the two parts that run beside the server: ApprovedHost,    *)
(* the service, and RuntimeUpdate, the replacement of the version that     *)
(* server and service run from.                                            *)
(*                                                                         *)
(* ApprovedHost, for any number of operations and of faults: types, the    *)
(* service's latch, both latches of a running child, and the admission of  *)
(* other operations.                                                       *)
(*                                                                         *)
(* RuntimeUpdate: whatever the parent, the elevated child and the servers  *)
(* beside them do, and whichever of the two dies, status.json tells what   *)
(* is installed, the Tunnel ends bound to it, and the old version is only  *)
(* taken away from an idle runtime.                                        *)
(***************************************************************************)
EXTENDS ApprovedHost, RuntimeUpdate, TLAPS

-------------------------------------------------------------------------------
(* ApprovedHost: the inductive invariant.                                  *)

\* Who works on a launch: the request works on its own latch and creates one worker, and no
\* watcher is there before the worker is recorded.
Launching ==
    /\ \A o \in Ops : client[o] # "done" => worker[o] = "none"
    /\ call.at # "idle" =>
          /\ active # None /\ active.op = call.op /\ client[call.op] = "done"
          /\ \A o \in Ops : watch[o] = "none"
    /\ call.at = "armed" => worker[call.op] = "none"
    /\ service.state = "down" => call.at = "idle" /\ \A o \in Ops : watch[o] = "none"

\* A watcher has the latch of its own operation; past the archive the run is known to be good.
Watching ==
    \A o \in Ops : watch[o] # "none" =>
        /\ active # None /\ active.op = o
        /\ watch[o] # "waiting" =>
              worker[o] \in Gone /\ (lease[o].started => lease[o].verified)

\* A proof repeats the lease of a worker that has gone.
Proven ==
    \A p \in proofs :
        /\ worker[p.op] \in Gone
        /\ p.started = lease[p.op].started /\ p.verified = lease[p.op].verified

\* A worker that may still start a child, or has one, holds what it needs.
Working ==
    \A o \in Ops :
        /\ worker[o] \in Holding => pending = o
        /\ worker[o] \in Holding \cup {"starting"} =>
              (active # None /\ active.op = o) \/ o \in cleared
        /\ child[o] = "running" => worker[o] = "child"
        /\ pending = o => worker[o] \notin {"none", "starting"}
        /\ o \in quarantine => worker[o] \notin Holding \cup {"none", "starting"}

\* Once the recovery has stopped the service, nobody but workers is at work beside it.
Recovering == recovery.at \notin {"idle", "reviewed"} => service.state = "down"

HostInv ==
    TypeOK /\ Launching /\ Watching /\ Proven /\ Working /\ Recovering /\ LatchHolds

-------------------------------------------------------------------------------
(* Its types.                                                              *)

\* No step of the service and its clients leaves the types.
LEMMA ServiceTypes ==
  ASSUME TypeOK,
         \/ \E o \in Ops : Serve(o)
         \/ LaunchFails \/ ServiceDies \/ ServiceStarts
  PROVE  TypeOK'
<1> USE HostAssumption DEF TypeOK, Holding, Locking, Live, Gone,
       system, user, serving, running, operator
<1>1. ASSUME NEW o \in Ops, ClientChecks(o) PROVE TypeOK'
  BY <1>1 DEF ClientChecks
<1>2. ASSUME NEW o \in Ops, Arm(o) PROVE TypeOK'
  BY <1>2 DEF Arm, NoCall, Inactive
<1>3. ASSUME NEW o \in Ops, Spawn(o) PROVE TypeOK'
  <2>1. worker' \in [Ops -> {"none"} \cup Live \cup Gone]
    BY <1>3 DEF Spawn
  <2>2. [lease[o] EXCEPT !.epoch = service.epoch] \in [epoch : Nat, started : BOOLEAN,
                                                       verified : BOOLEAN]
    OBVIOUS
  <2>3. lease' \in [Ops -> [epoch : Nat, started : BOOLEAN, verified : BOOLEAN]]
    BY <1>3, <2>2 DEF Spawn
  <2>4. call' \in [op : Ops \cup {None}, at : {"idle", "armed", "spawned"}]
    BY <1>3 DEF Spawn
  <2> QED BY <1>3, <2>1, <2>3, <2>4 DEF Spawn
<1>4. ASSUME NEW o \in Ops, RecordRunning(o) PROVE TypeOK'
  BY <1>4 DEF RecordRunning, Current, NoCall
<1>5. ASSUME LaunchFails PROVE TypeOK'
  BY <1>5 DEF LaunchFails, NoCall, Fault, MarkRecovery, Recoverable
<1>6. ASSUME ServiceDies PROVE TypeOK'
  BY <1>6 DEF ServiceDies, Stops, NoCall, Fault
<1>7. ASSUME ServiceStarts PROVE TypeOK'
  BY <1>7 DEF ServiceStarts, MarkRecovery, Recoverable
<1> QED BY <1>1, <1>2, <1>3, <1>4, <1>5, <1>6, <1>7 DEF Serve

\* No step of its watchers leaves the types.
LEMMA WatcherTypes ==
  ASSUME TypeOK,
         \E o \in Ops : Watch(o) \/ ConsumeFails(o)
  PROVE  TypeOK'
<1> USE HostAssumption DEF TypeOK, Holding, Locking, Live, Gone,
       system, user, serving, running, operator
<1>1. ASSUME NEW o \in Ops, Reap(o) PROVE TypeOK'
  <2>1. active' = None \/ active' \in [op : Ops, epoch : Nat]
    BY <1>1 DEF Reap
  <2>2. Recoverable \in [op : Ops, epoch : Nat, state : {"running", "recovery"},
                         worker : BOOLEAN] \/ active = None
    BY DEF Recoverable
  <2>3. status' = None \/ status' \in [op : Ops, epoch : Nat, state : {"running", "recovery"},
                                       worker : BOOLEAN]
    BY <1>1, <2>2 DEF Reap, MarkRecovery
  <2>4. watch' \in [Ops -> {"none", "waiting", "archived", "proofless", "statusless"}]
    BY <1>1 DEF Reap
  <2> QED BY <1>1, <2>1, <2>3, <2>4 DEF Reap
<1>2. ASSUME NEW o \in Ops, DropProof(o) PROVE TypeOK'
  BY <1>2 DEF DropProof
<1>3. ASSUME NEW o \in Ops, DropStatus(o) PROVE TypeOK'
  BY <1>3 DEF DropStatus
<1>4. ASSUME NEW o \in Ops, DropLatch(o) PROVE TypeOK'
  BY <1>4 DEF DropLatch
<1>5. ASSUME NEW o \in Ops, ConsumeFails(o) PROVE TypeOK'
  BY <1>5 DEF ConsumeFails, Fault, MarkRecovery, Recoverable
<1> QED BY <1>1, <1>2, <1>3, <1>4, <1>5 DEF Watch

\* No step of the worker, its child and what the child leaves behind leaves the types.
LEMMA WorkerTypes ==
  ASSUME TypeOK,
         \/ \E o \in Ops : Work(o) \/ CleanupFails(o) \/ WorkerDies(o)
         \/ \E o \in Ops : SpawnHelper(o) \/ HelperExits(o) \/ Mutate(o)
  PROVE  TypeOK'
<1> USE HostAssumption DEF TypeOK, Holding, Locking, Live, Gone,
       system, user, serving, running, operator
<1>1. ASSUME NEW o \in Ops, Decline(o) PROVE TypeOK'
  BY <1>1 DEF Decline, Phase, To
<1>2. ASSUME NEW o \in Ops, Preflight(o) PROVE TypeOK'
  <2>1. worker' \in [Ops -> {"none"} \cup Live \cup Gone]
    BY <1>2 DEF Preflight, Phase, To
  <2>2. pending' \in Ops \cup {None} /\ dirty' \in BOOLEAN
    BY <1>2 DEF Preflight, TakeSnapshot
  <2> QED BY <1>2, <2>1, <2>2 DEF Preflight
<1>3. ASSUME NEW o \in Ops, StartChild(o) PROVE TypeOK'
  <2>1. worker' \in [Ops -> {"none"} \cup Live \cup Gone]
    BY <1>3 DEF StartChild, Phase, To
  <2>2. lease[o] \in [epoch : Nat, started : BOOLEAN, verified : BOOLEAN]
    OBVIOUS
  <2>3. [lease[o] EXCEPT !.started = TRUE] \in [epoch : Nat, started : BOOLEAN,
                                                 verified : BOOLEAN]
    BY <2>2
  <2>4. lease' \in [Ops -> [epoch : Nat, started : BOOLEAN, verified : BOOLEAN]]
    BY <1>3, <2>3 DEF StartChild
  <2>5. child' \in [Ops -> {"none", "running", "gone"}]
    BY <1>3 DEF StartChild
  <2> QED BY <1>3, <2>1, <2>4, <2>5 DEF StartChild
<1>4. ASSUME NEW o \in Ops, NoChild(o) PROVE TypeOK'
  BY <1>4 DEF NoChild, Phase, To
<1>5. ASSUME NEW o \in Ops, ChildEnds(o) PROVE TypeOK'
  BY <1>5 DEF ChildEnds, Phase, To
<1>6. ASSUME NEW o \in Ops, CleanupFails(o) PROVE TypeOK'
  BY <1>6 DEF CleanupFails, Phase, To, Fault
<1>7. ASSUME NEW o \in Ops, Census(o) PROVE TypeOK'
  BY <1>7 DEF Census, Phase, To
<1>8. ASSUME NEW o \in Ops, Capture(o) PROVE TypeOK'
  <2>1. \E phase \in {"mismatch", "captured"} : worker' = [worker EXCEPT ![o] = phase]
    BY <1>8 DEF Capture, Phase, To
  <2>2. worker' \in [Ops -> {"none"} \cup Live \cup Gone]
    BY <2>1
  <2>3. pending' \in Ops \cup {None}
    BY <1>8 DEF Capture
  <2> QED BY <1>8, <2>2, <2>3 DEF Capture
<1>9. ASSUME NEW o \in Ops, MarkVerified(o) PROVE TypeOK'
  BY <1>9 DEF MarkVerified, Phase, To
<1>10. ASSUME NEW o \in Ops, ReleaseGuard(o) PROVE TypeOK'
  BY <1>10 DEF ReleaseGuard, Phase, To
<1>11. ASSUME NEW o \in Ops, WriteTamper(o) PROVE TypeOK'
  BY <1>11 DEF WriteTamper, Phase, To
<1>12. ASSUME NEW o \in Ops, ClearPending(o) PROVE TypeOK'
  BY <1>12 DEF ClearPending, Phase, To
<1>13. ASSUME NEW o \in Ops, Return(o) PROVE TypeOK'
  BY <1>13 DEF Return, Phase, To
<1>14. ASSUME NEW o \in Ops, WorkerDies(o) PROVE TypeOK'
  BY <1>14 DEF WorkerDies, To, Fault
<1>15. ASSUME NEW o \in Ops, SpawnHelper(o) PROVE TypeOK'
  BY <1>15 DEF SpawnHelper
<1>16. ASSUME NEW o \in Ops, HelperExits(o) PROVE TypeOK'
  BY <1>16 DEF HelperExits
<1>17. ASSUME NEW o \in Ops, Mutate(o) PROVE TypeOK'
  BY <1>17 DEF Mutate
<1> QED BY <1>1, <1>2, <1>3, <1>4, <1>5, <1>6, <1>7, <1>8, <1>9, <1>10, <1>11, <1>12, <1>13,
           <1>14, <1>15, <1>16, <1>17 DEF Work

\* No step of the recovery script and the gate of other operations leaves the types.
LEMMA RecoveryTypes ==
  ASSUME TypeOK,
         \/ Review \/ Recover \/ RecoveryStops
         \/ GateReads \/ GateEnds
  PROVE  TypeOK'
<1> USE HostAssumption DEF TypeOK, Holding, Locking, Live, Gone,
       system, user, serving, running, operator
<1>1. ASSUME Review PROVE TypeOK'
  BY <1>1 DEF Review, AtRest
<1>2. ASSUME StopService PROVE TypeOK'
  BY <1>2 DEF StopService, Step, Stops, NoCall
<1>3. ASSUME MoveMarker PROVE TypeOK'
  <2>1. recovery.op \in Ops
    BY <1>3 DEF MoveMarker, Step
  <2>2. /\ recovery' \in [at : {"idle", "reviewed", "stopped", "moved", "confirmed",
                                "proofless", "statusless"},
                          op : Ops \cup {None}, bound : BOOLEAN]
        /\ recovery'.op \in Ops
    BY <1>3, <2>1 DEF MoveMarker, Step
  <2>3. pending' \in Ops \cup {None} /\ quarantine' \subseteq Ops
    BY <1>3, <2>1 DEF MoveMarker
  <2> QED BY <1>3, <2>2, <2>3 DEF MoveMarker
<1>4. ASSUME ConfirmClear PROVE TypeOK'
  BY <1>4 DEF ConfirmClear, Step
<1>5. ASSUME RecoveryRefused PROVE TypeOK'
  BY <1>5 DEF RecoveryRefused, AtRest
<1>6. ASSUME RemoveProofs PROVE TypeOK'
  BY <1>6 DEF RemoveProofs, Step
<1>7. ASSUME RemoveStatus PROVE TypeOK'
  <2>1. /\ recovery' \in [at : {"idle", "reviewed", "stopped", "moved", "confirmed",
                                "proofless", "statusless"},
                          op : Ops \cup {None}, bound : BOOLEAN]
        /\ recovery'.op \in Ops
    BY <1>7 DEF RemoveStatus, Step
  <2> QED BY <1>7, <2>1 DEF RemoveStatus
<1>8. ASSUME RemoveLatch PROVE TypeOK'
  <2>1. recovery' = [at |-> "idle", op |-> None, bound |-> FALSE] /\ active' = None
    BY <1>8 DEF RemoveLatch, AtRest
  <2>2. active.op \in Ops
    BY <1>8 DEF RemoveLatch
  <2>3. cleared' \subseteq Ops
    BY <1>8, <2>2 DEF RemoveLatch
  <2> QED BY <1>8, <2>1, <2>3 DEF RemoveLatch
<1>9. ASSUME RecoveryStops PROVE TypeOK'
  BY <1>9 DEF RecoveryStops, Fault, AtRest
<1>10. ASSUME GateReads PROVE TypeOK'
  BY <1>10 DEF GateReads, Gate
<1>11. ASSUME GateEnds PROVE TypeOK'
  BY <1>11 DEF GateEnds
<1> QED BY <1>1, <1>2, <1>3, <1>4, <1>5, <1>6, <1>7, <1>8, <1>9, <1>10, <1>11 DEF Recover

\* The initial state has the types.
LEMMA InitTypes == Init => TypeOK
<1> SUFFICES ASSUME Init PROVE TypeOK
  OBVIOUS
<1>1. /\ active = None /\ status = None /\ proofs = {}
      /\ quarantine = {} /\ cleared = {} /\ tamper = FALSE /\ dirty = FALSE
      /\ pending = None /\ gate = "idle" /\ faults \in 0..MaxFaults
  BY HostAssumption DEF Init
<1>2. /\ call \in [op : Ops \cup {None}, at : {"idle", "armed", "spawned"}]
      /\ service \in [state : {"up", "down"}, epoch : Nat]
      /\ recovery \in [at : {"idle", "reviewed", "stopped", "moved", "confirmed", "proofless",
                             "statusless"},
                       op : Ops \cup {None}, bound : BOOLEAN]
      /\ recovery.at = "idle"
  BY DEF Init, NoCall, AtRest
<1>3. /\ watch \in [Ops -> {"none", "waiting", "archived", "proofless", "statusless"}]
      /\ client \in [Ops -> {"none", "checked", "done"}]
      /\ worker \in [Ops -> {"none"} \cup Live \cup Gone]
      /\ child \in [Ops -> {"none", "running", "gone"}]
      /\ helper \in [Ops -> BOOLEAN]
  BY DEF Init
<1>4. lease \in [Ops -> [epoch : Nat, started : BOOLEAN, verified : BOOLEAN]]
  BY DEF Init
<1> QED BY <1>1, <1>2, <1>3, <1>4 DEF TypeOK

\* So does every step's.
LEMMA StepTypes == TypeOK /\ [Next]_vars => TypeOK'
<1> SUFFICES ASSUME TypeOK, [Next]_vars PROVE TypeOK'
  OBVIOUS
<1>1. CASE Next
  BY <1>1, ServiceTypes, WatcherTypes, WorkerTypes, RecoveryTypes
     DEF Next
<1>2. CASE UNCHANGED vars
  BY <1>2 DEF vars, TypeOK
<1> QED BY <1>1, <1>2

\* Every variable keeps its type.
THEOREM TypeCorrect == Spec => []TypeOK
BY InitTypes, StepTypes, PTL DEF Spec

-------------------------------------------------------------------------------
(* The latch.                                                              *)

\* The steps of the service and its clients.
LEMMA ServiceKeeps ==
  ASSUME HostInv, TypeOK',
         \/ \E o \in Ops : Serve(o)
         \/ LaunchFails \/ ServiceDies \/ ServiceStarts
  PROVE  HostInv'
<1> USE HostAssumption DEF HostInv, Holding, Locking, Live, Gone,
       system, user, serving, running, operator
<1>1. ASSUME NEW o \in Ops, ClientChecks(o) PROVE HostInv'
  BY <1>1 DEF ClientChecks, TypeOK, Launching, Watching, Proven, Working, Recovering,
     LatchHolds, Settled
<1>2. ASSUME NEW o \in Ops, Arm(o) PROVE HostInv'
  <2>1. CASE Inactive
    <3>1. active = None /\ call.at = "idle"
      BY <1>2, <2>1 DEF Arm, Inactive, NoCall
    <3>2. \A p \in Ops : watch[p] = "none"
      BY <3>1 DEF Watching
    <3>3. worker[o] = "none"
      BY <1>2 DEF Arm, Launching
    <3>4. active' = [op |-> o, epoch |-> service.epoch] /\ call' = [op |-> o, at |-> "armed"]
      BY <1>2, <2>1 DEF Arm
    <3>5. client'[o] = "done" /\ \A p \in Ops : client'[p] # "done" => client[p] # "done"
      BY <1>2 DEF Arm, TypeOK
    <3>6. UNCHANGED <<proofs, worker, watch, lease, child, pending, quarantine, service,
                    recovery, cleared>>
      BY <1>2 DEF Arm
    <3>7. active' # None
      BY <3>4, HostAssumption DEF TypeOK
    <3>8. Launching'
      BY <1>2, <3>2, <3>3, <3>4, <3>5, <3>6, <3>7 DEF Arm, Launching
    <3>9. Watching' /\ Proven' /\ Working' /\ Recovering' /\ LatchHolds'
      BY <3>1, <3>2, <3>6 DEF Watching, Proven, Working, Recovering, LatchHolds, Settled
    <3> QED BY <3>8, <3>9
  <2>2. CASE ~Inactive
    <3>1. UNCHANGED <<active, call, proofs, worker, watch, lease, child, pending, quarantine,
                      service, recovery, cleared>>
      BY <1>2, <2>2 DEF Arm
    <3>2. \A p \in Ops : /\ client'[p] # "done" => client[p] # "done"
                         /\ client[p] = "done" => client'[p] = "done"
      BY <1>2 DEF Arm, TypeOK
    <3>3. Launching'
      BY <3>1, <3>2 DEF Launching, TypeOK
    <3>4. Watching' /\ Proven' /\ Working' /\ Recovering' /\ LatchHolds'
      BY <3>1 DEF Watching, Proven, Working, Recovering, LatchHolds, Settled
    <3> QED BY <3>3, <3>4
  <2> QED BY <2>1, <2>2
<1>3. ASSUME NEW o \in Ops, Spawn(o) PROVE HostInv'
  BY <1>3 DEF Spawn, TypeOK, Launching, Watching, Proven, Working, Recovering, LatchHolds,
     Settled
<1>4. ASSUME NEW o \in Ops, RecordRunning(o) PROVE HostInv'
  BY <1>4 DEF RecordRunning, Current, NoCall, TypeOK, Launching, Watching, Proven, Working,
     Recovering, LatchHolds, Settled
<1>5. ASSUME LaunchFails PROVE HostInv'
  BY <1>5 DEF LaunchFails, NoCall, Fault, MarkRecovery, Recoverable, TypeOK, Launching,
     Watching, Proven, Working, Recovering, LatchHolds, Settled
<1>6. ASSUME ServiceDies PROVE HostInv'
  BY <1>6 DEF ServiceDies, Stops, NoCall, Fault, TypeOK, Launching, Watching, Proven, Working,
     Recovering, LatchHolds, Settled
<1>7. ASSUME ServiceStarts PROVE HostInv'
  BY <1>7 DEF ServiceStarts, MarkRecovery, Recoverable, TypeOK, Launching, Watching, Proven,
     Working, Recovering, LatchHolds, Settled
<1> QED BY <1>1, <1>2, <1>3, <1>4, <1>5, <1>6, <1>7 DEF Serve

\* The steps of the watchers.
LEMMA WatcherKeeps ==
  ASSUME HostInv, TypeOK',
         \E o \in Ops : Watch(o) \/ ConsumeFails(o)
  PROVE  HostInv'
<1> USE HostAssumption DEF HostInv, Holding, Locking, Live, Gone,
       system, user, serving, running, operator
<1>1. ASSUME NEW o \in Ops, Reap(o) PROVE HostInv'
  BY <1>1 DEF Reap, MarkRecovery, Recoverable, Current, ReadyProof, TypeOK, Launching, Watching,
     Proven, Working, Recovering, LatchHolds, Settled
<1>2. ASSUME NEW o \in Ops, DropProof(o) PROVE HostInv'
  BY <1>2 DEF DropProof, TypeOK, Launching, Watching, Proven, Working, Recovering, LatchHolds,
     Settled
<1>3. ASSUME NEW o \in Ops, DropStatus(o) PROVE HostInv'
  BY <1>3 DEF DropStatus, TypeOK, Launching, Watching, Proven, Working, Recovering, LatchHolds,
     Settled
<1>4. ASSUME NEW o \in Ops, DropLatch(o) PROVE HostInv'
  BY <1>4 DEF DropLatch, TypeOK, Launching, Watching, Proven, Working, Recovering, LatchHolds,
     Settled
<1>5. ASSUME NEW o \in Ops, ConsumeFails(o) PROVE HostInv'
  BY <1>5 DEF ConsumeFails, Fault, MarkRecovery, Recoverable, TypeOK, Launching, Watching,
     Proven, Working, Recovering, LatchHolds, Settled
<1> QED BY <1>1, <1>2, <1>3, <1>4, <1>5 DEF Watch

\* The steps of the worker and its child.
LEMMA WorkerKeeps ==
  ASSUME HostInv, TypeOK',
         \/ \E o \in Ops : Work(o) \/ CleanupFails(o) \/ WorkerDies(o)
         \/ \E o \in Ops : SpawnHelper(o) \/ HelperExits(o) \/ Mutate(o)
  PROVE  HostInv'
<1> USE HostAssumption DEF HostInv, Holding, Locking, Live, Gone,
       system, user, serving, running, operator
<1>1. ASSUME NEW o \in Ops, Decline(o) PROVE HostInv'
  BY <1>1 DEF Decline, Phase, To, TypeOK, Launching, Watching, Proven, Working, Recovering,
     LatchHolds, Settled
<1>2. ASSUME NEW o \in Ops, Preflight(o) PROVE HostInv'
  BY <1>2 DEF Preflight, Phase, To, TakeSnapshot, TypeOK, Launching, Watching, Proven, Working,
     Recovering, LatchHolds, Settled
<1>3. ASSUME NEW o \in Ops, StartChild(o) PROVE HostInv'
  <2>1. worker[o] = "guarded" /\ worker' = [worker EXCEPT ![o] = "child"]
    BY <1>3 DEF StartChild, Phase, To
  <2>2. Proven'
    <3> SUFFICES ASSUME NEW p \in proofs
                 PROVE  /\ worker'[p.op] \in Gone /\ p.started = lease'[p.op].started
                        /\ p.verified = lease'[p.op].verified
      BY <1>3 DEF StartChild, Proven
    <3>1. p.op \in Ops /\ worker[p.op] \in Gone
      BY DEF Proven, TypeOK
    <3>2. p.op # o
      BY <2>1, <3>1
    <3>3. worker'[p.op] = worker[p.op] /\ lease'[p.op] = lease[p.op]
      BY <1>3, <2>1, <3>1, <3>2 DEF StartChild, TypeOK
    <3> QED BY <3>1, <3>3 DEF Proven
  <2>3. Launching' /\ Working' /\ Recovering'
    BY <1>3, <2>1 DEF StartChild, Launching, Working, Recovering, TypeOK
  <2>4. Watching'
    BY <1>3, <2>1 DEF StartChild, Watching, TypeOK
  <2>5. LatchHolds'
    BY <1>3, <2>1 DEF StartChild, Working, LatchHolds, Settled, TypeOK
  <2> QED BY <2>2, <2>3, <2>4, <2>5
<1>4. ASSUME NEW o \in Ops, NoChild(o) PROVE HostInv'
  BY <1>4 DEF NoChild, Phase, To, TypeOK, Launching, Watching, Proven, Working, Recovering,
     LatchHolds, Settled
<1>5. ASSUME NEW o \in Ops, ChildEnds(o) PROVE HostInv'
  BY <1>5 DEF ChildEnds, Phase, To, TypeOK, Launching, Watching, Proven, Working, Recovering,
     LatchHolds, Settled
<1>6. ASSUME NEW o \in Ops, CleanupFails(o) PROVE HostInv'
  <2>1. worker[o] = "child" /\ worker' = [worker EXCEPT ![o] = "uncertain"]
    BY <1>6 DEF CleanupFails, Phase, To
  <2>2. child' = [child EXCEPT ![o] = "gone"]
    BY <1>6 DEF CleanupFails
  <2>3. Working'
    BY <1>6, <2>1, <2>2 DEF CleanupFails, Working, TypeOK
  <2>4. Launching' /\ Recovering' /\ Watching' /\ Proven'
    BY <1>6, <2>1 DEF CleanupFails, Launching, Recovering, Watching, Proven, TypeOK
  <2>5. LatchHolds'
    BY <1>6 DEF CleanupFails, LatchHolds, Settled
  <2> QED BY <2>3, <2>4, <2>5
<1>7. ASSUME NEW o \in Ops, Census(o) PROVE HostInv'
  BY <1>7 DEF Census, Phase, To, TypeOK, Launching, Watching, Proven, Working, Recovering,
     LatchHolds, Settled
<1>8. ASSUME NEW o \in Ops, Capture(o) PROVE HostInv'
  <2>1. pending = o /\ worker[o] = "checked"
    BY <1>8 DEF Capture, Phase, Working
  <2>2. \E phase \in {"mismatch", "captured"} : worker' = [worker EXCEPT ![o] = phase]
    BY <1>8 DEF Capture, Phase, To
  <2>3. pending' \in {pending, None}
    BY <1>8 DEF Capture
  <2>4. Working'
    BY <1>8, <2>1, <2>2, <2>3 DEF Capture, Working, TypeOK
  <2>5. Launching' /\ Recovering'
    BY <1>8, <2>1, <2>2 DEF Capture, Launching, Recovering, TypeOK
  <2>6. Watching' /\ Proven'
    BY <1>8, <2>1, <2>2 DEF Capture, Watching, Proven, TypeOK
  <2>7. LatchHolds'
    BY <1>8 DEF Capture, LatchHolds, Settled
  <2> QED BY <2>4, <2>5, <2>6, <2>7
<1>9. ASSUME NEW o \in Ops, MarkVerified(o) PROVE HostInv'
  BY <1>9 DEF MarkVerified, Phase, To, TypeOK, Launching, Watching, Proven, Working, Recovering,
     LatchHolds, Settled
<1>10. ASSUME NEW o \in Ops, ReleaseGuard(o) PROVE HostInv'
  BY <1>10 DEF ReleaseGuard, Phase, To, TypeOK, Launching, Watching, Proven, Working,
     Recovering, LatchHolds, Settled
<1>11. ASSUME NEW o \in Ops, WriteTamper(o) PROVE HostInv'
  BY <1>11 DEF WriteTamper, Phase, To, TypeOK, Launching, Watching, Proven, Working, Recovering,
     LatchHolds, Settled
<1>12. ASSUME NEW o \in Ops, ClearPending(o) PROVE HostInv'
  BY <1>12 DEF ClearPending, Phase, To, TypeOK, Launching, Watching, Proven, Working,
     Recovering, LatchHolds, Settled
<1>13. ASSUME NEW o \in Ops, Return(o) PROVE HostInv'
  BY <1>13 DEF Return, Phase, To, TypeOK, Launching, Watching, Proven, Working, Recovering,
     LatchHolds, Settled
<1>14. ASSUME NEW o \in Ops, WorkerDies(o) PROVE HostInv'
  BY <1>14 DEF WorkerDies, To, Fault, TypeOK, Launching, Watching, Proven, Working, Recovering,
     LatchHolds, Settled
<1>15. ASSUME NEW o \in Ops, SpawnHelper(o) PROVE HostInv'
  BY <1>15 DEF SpawnHelper, TypeOK, Launching, Watching, Proven, Working, Recovering,
     LatchHolds, Settled
<1>16. ASSUME NEW o \in Ops, HelperExits(o) PROVE HostInv'
  BY <1>16 DEF HelperExits, TypeOK, Launching, Watching, Proven, Working, Recovering,
     LatchHolds, Settled
<1>17. ASSUME NEW o \in Ops, Mutate(o) PROVE HostInv'
  BY <1>17 DEF Mutate, TypeOK, Launching, Watching, Proven, Working, Recovering, LatchHolds,
     Settled
<1> QED BY <1>1, <1>2, <1>3, <1>4, <1>5, <1>6, <1>7, <1>8, <1>9, <1>10, <1>11, <1>12, <1>13,
           <1>14, <1>15, <1>16, <1>17 DEF Work

\* The steps of the recovery script and of the gate.
LEMMA RecoveryKeeps ==
  ASSUME HostInv, TypeOK',
         \/ Review \/ Recover \/ RecoveryStops
         \/ GateReads \/ GateEnds
  PROVE  HostInv'
<1> USE HostAssumption DEF HostInv, Holding, Locking, Live, Gone,
       system, user, serving, running, operator
<1>1. ASSUME Review PROVE HostInv'
  <2>1. recovery'.at = "reviewed"
    BY <1>1 DEF Review
  <2>2. UNCHANGED <<active, service, call, watch, client, proofs, worker, lease, child, pending,
                    quarantine, cleared>>
    BY <1>1 DEF Review
  <2>3. Recovering'
    BY <2>1 DEF Recovering
  <2>4. Launching' /\ Watching' /\ Proven' /\ Working' /\ LatchHolds'
    BY <2>2 DEF Launching, Watching, Proven, Working, LatchHolds, Settled
  <2> QED BY <2>3, <2>4
<1>2. ASSUME StopService PROVE HostInv'
  BY <1>2 DEF StopService, Step, Stops, NoCall, TypeOK, Launching, Watching, Proven, Working,
     Recovering, LatchHolds, Settled
<1>3. ASSUME MoveMarker PROVE HostInv'
  BY <1>3 DEF MoveMarker, Step, MarkerMoves, TypeOK, Launching, Watching, Proven, Working,
     Recovering, LatchHolds, Settled
<1>4. ASSUME ConfirmClear PROVE HostInv'
  BY <1>4 DEF ConfirmClear, Step, TypeOK, Launching, Watching, Proven, Working, Recovering,
     LatchHolds, Settled
<1>5. ASSUME RecoveryRefused PROVE HostInv'
  BY <1>5 DEF RecoveryRefused, AtRest, TypeOK, Launching, Watching, Proven, Working, Recovering,
     LatchHolds, Settled
<1>6. ASSUME RemoveProofs PROVE HostInv'
  BY <1>6 DEF RemoveProofs, Step, TypeOK, Launching, Watching, Proven, Working, Recovering,
     LatchHolds, Settled
<1>7. ASSUME RemoveStatus PROVE HostInv'
  BY <1>7 DEF RemoveStatus, Step, TypeOK, Launching, Watching, Proven, Working, Recovering,
     LatchHolds, Settled
<1>8. ASSUME RemoveLatch PROVE HostInv'
  BY <1>8 DEF RemoveLatch, AtRest, TypeOK, Launching, Watching, Proven, Working, Recovering,
     LatchHolds, Settled
<1>9. ASSUME RecoveryStops PROVE HostInv'
  BY <1>9 DEF RecoveryStops, Fault, AtRest, TypeOK, Launching, Watching, Proven, Working,
     Recovering, LatchHolds, Settled
<1>10. ASSUME GateReads PROVE HostInv'
  BY <1>10 DEF GateReads, Gate, TypeOK, Launching, Watching, Proven, Working, Recovering,
     LatchHolds, Settled
<1>11. ASSUME GateEnds PROVE HostInv'
  BY <1>11 DEF GateEnds, TypeOK, Launching, Watching, Proven, Working, Recovering, LatchHolds,
     Settled
<1> QED BY <1>1, <1>2, <1>3, <1>4, <1>5, <1>6, <1>7, <1>8, <1>9, <1>10, <1>11 DEF Recover

\* The invariant holds before anything was launched.
LEMMA InitHolds == Init => HostInv
BY HostAssumption, InitTypes
   DEF Init, HostInv, Launching, Watching, Proven, Working, Recovering, LatchHolds, Settled,
       NoCall, AtRest, Holding

\* Every step keeps it.
LEMMA StepHolds == HostInv /\ [Next]_vars => HostInv'
<1> SUFFICES ASSUME HostInv, [Next]_vars PROVE HostInv'
  OBVIOUS
<1>1. TypeOK'
  BY StepTypes DEF HostInv
<1>2. CASE Next
  BY <1>1, <1>2, ServiceKeeps, WatcherKeeps, WorkerKeeps, RecoveryKeeps
     DEF Next
<1>3. CASE UNCHANGED vars
  BY <1>1, <1>3 DEF vars, HostInv, Launching, Watching, Proven, Working, Recovering, LatchHolds,
     Settled
<1> QED BY <1>2, <1>3

\* The invariant the other theorems rest on.
THEOREM HostInvariant == Spec => []HostInv
BY InitHolds, StepHolds, PTL DEF Spec

\* Whatever dies and restarts, and however often, the latch of a started child stays until its
\* run is verified or a recovery removes it.
THEOREM LatchKept == Spec => []LatchHolds
<1>1. HostInv => LatchHolds
  BY DEF HostInv
<1> QED BY <1>1, HostInvariant, PTL

\* A child that runs has its marker, and the service's latch unless a recovery removed that one
\* without having moved a marker.
THEOREM RunningChildLatched == Spec => []ChildRunsLatched
<1>1. HostInv => ChildRunsLatched
  BY DEF HostInv, Working, ChildRunsLatched, Holding
<1> QED BY <1>1, HostInvariant, PTL

\* The three files of the gate are read one after the other; the last one decides.
THEOREM AdmissionSettled == Spec => AdmittedWhenSettled
<1>1. HostInv /\ [Next]_vars =>
        [gate' = "admitted" /\ gate # "admitted" => \A o \in Ops : Settled(o)]_vars
  <2> SUFFICES ASSUME HostInv, [Next]_vars, gate' = "admitted", gate # "admitted"
               PROVE  \A o \in Ops : Settled(o)
    OBVIOUS
  <2>1. GateReads
    BY DEF Next, vars, Serve, Watch, Work, Recover, ClientChecks, Arm, Spawn, RecordRunning, Reap,
       DropProof, DropStatus, DropLatch, Decline, Preflight, StartChild, NoChild, ChildEnds,
       Census, Capture, MarkVerified, ReleaseGuard, WriteTamper, ClearPending, Return,
       ConsumeFails, CleanupFails, WorkerDies, SpawnHelper, HelperExits, Mutate, LaunchFails,
       ServiceDies, ServiceStarts, Review, StopService, MoveMarker, ConfirmClear,
       RecoveryRefused, RemoveProofs, RemoveStatus, RemoveLatch, RecoveryStops, GateEnds
  <2>2. active = None
    BY <2>1 DEF GateReads, Gate, Inactive
  <2> QED BY <2>2 DEF HostInv, LatchHolds
<1> QED BY <1>1, HostInvariant, PTL DEF Spec, AdmittedWhenSettled

-------------------------------------------------------------------------------
(* RuntimeUpdate: the inductive invariant.                                 *)

\* Where the parent still prepares the update, after the service answered it.
Preparing == {"closing", "dismissing", "waiting", "settling", "copying", "preparing"}

\* Where it answers a phase.
Answering == {"probing", "binding", "saving", "rebound"}

\* The parent works alone until it asks for the elevation, and the service answers meanwhile:
\* a child that fails at once leaves it running.
ParentAlone ==
    /\ ppc \in {"idle", "checking"} \cup Preparing => cpc = "none"
    /\ ppc \in Preparing => serviceState = "running"

Untouched == oldAt = "install" /\ ~retired /\ ~published

\* Nothing has been stopped or moved yet.
ChildBefore ==
    /\ cpc \in {"none", "start", "building"} =>
         Untouched /\ newAt = "none" /\ ~stopped /\ handled = {}
    /\ cpc \in {"none", "start"} => statusFile = "none"
    /\ cpc = "building" => statusFile = "building"
    /\ cpc \in {"start", "building"} => serviceState = "running"
    /\ cpc \in {"staged", "accepted"} =>
         Untouched /\ newAt = "ready" /\ ~stopped /\ serviceState = "running"
    /\ cpc \in {"staged", "accepted", "stopping", "again", "retiring", "publishing", "starting"} =>
         statusFile = "staged"

\* What stands where while the child replaces the version.
ChildSwitching ==
    /\ cpc \in {"accepted", "stopping", "again", "retiring", "publishing", "starting", "switched"}
         => decision["staged"] = "accept"
    /\ cpc \in {"stopping", "again", "retiring"} => Untouched /\ newAt = "ready" /\ stopped
    /\ cpc \in {"again", "retiring", "publishing", "starting"} => serviceState = "stopped"
    /\ cpc = "retiring" => host = "idle"
    /\ cpc = "publishing" => oldAt = "backup" /\ newAt = "ready" /\ retired /\ ~published
    /\ cpc \in {"starting", "switched"} => oldAt = "backup" /\ newAt = "install" /\ retired /\ published
    /\ cpc = "switched" => serviceState = "running" /\ statusFile = "switched"

\* The old version is aside; the new one is at the install root or was not moved yet.
Aside == oldAt = "backup" /\ retired /\ newAt = (IF published THEN "install" ELSE "ready")

\* What the catch block finds, and how far it has come.
ChildUndoing ==
    /\ cpc = "caught" =>
         \/ /\ Untouched /\ newAt \in {"none", "ready"}
            /\ stopped \/ serviceState = "running"
         \/ Aside
    /\ cpc \in {"undoing", "withdrawing"} => Aside
    /\ cpc = "restoring" => oldAt = "backup" /\ retired /\ newAt \in {"ready", "failed"}
    /\ cpc = "reviving" => oldAt = "install" /\ retired /\ newAt \in {"ready", "failed"}
    /\ cpc \in {"caught", "undoing", "withdrawing", "restoring", "reviving"} => statusFile \notin Final

\* A final status is the child's last step, and tells what it left.
ChildEnded ==
    /\ cpc = "exited" <=> statusFile \in Final
    /\ statusFile = "switched" => retired
    /\ statusFile = "failed_before_switch" => ~retired

\* Without a visit nothing is in the way of a child that found the runtime offline.
OfflineKept ==
    visits = 0 =>
      /\ ~checked
      /\ cpc \in {"retiring", "publishing", "starting", "switched", "undoing", "withdrawing"} =>
           Offline
      /\ cpc = "caught" /\ retired => Offline

\* The parent answers each phase once, in their order, and accepts what passed.
Answers ==
    /\ handled # {} => statusFile \in Phases \cup Final
    /\ "switched" \in handled => retired /\ statusFile \in {"switched"} \cup Final
    /\ \A p \in Phases : decision[p] # "none" => p \in handled
    /\ ppc \in Answering => PhaseAsked \in handled /\ decision[PhaseAsked] = "none"
    /\ ppc \in Answering \ {"probing"} => "switched" \in handled
    /\ decision["staged"] = "accept" => sound
    /\ final # "none" => final = statusFile

\* Whose launcher the Tunnel is bound to.
Bound ==
    /\ ppc \in {"probing", "binding", "saving"} => saved = "none"
    /\ saved # "none" => "switched" \in handled
    /\ saved = "none" =>
         (tunnel = [script |-> "old", writer |-> "setup"] \/ tunnel.writer = "other")
    /\ saved = "kept" /\ ppc # "ended" => (tunnel = Rebound \/ tunnel.writer = "other")
    /\ decision["switched"] = "accept" /\ (cpc = "switched" \/ statusFile = "installed") =>
         (tunnel.script = "new" \/ tunnel.writer = "other")

\* What the types leave to say.
Consistent ==
    /\ ParentAlone /\ ChildBefore /\ ChildSwitching /\ ChildUndoing /\ ChildEnded
    /\ OfflineKept /\ Answers /\ Bound
    /\ StatusTellsRuntime /\ BindingFollowsRuntime

UpdateInv == UpdateTypeOK /\ Consistent

-------------------------------------------------------------------------------
(* The types, in parts: Boolean flags and the rest go to different provers. *)

\* Places, processes and the mutex.
PlaceTypes ==
    /\ oldAt \in {"install", "backup"} /\ newAt \in {"none", "ready", "install", "failed"}
    /\ serviceState \in {"running", "stopped"} /\ host \in {"idle", "busy"}
    /\ server \in {"down", "tunnel", "direct"} /\ mutex \in {"free", "updater", "launcher"}

\* Booleans.
FlagTypes ==
    /\ sound \in BOOLEAN /\ ui \in BOOLEAN /\ row \in BOOLEAN /\ checked \in BOOLEAN
    /\ retired \in BOOLEAN /\ published \in BOOLEAN /\ stopped \in BOOLEAN

\* Counters.
BoundTypes ==
    /\ raised \in 0..MaxRaises /\ kills \in 0..MaxKills
    /\ visits \in 0..MaxVisits /\ edits \in 0..MaxEdits

\* The Tunnel's state and the files the two processes exchange.
FileTypes ==
    /\ tunnel \in [script : {"old", "new", "none"}, writer : {"setup", "updater", "other"}]
    /\ statusFile \in Phases \cup Final \cup {"none", "building"}
    /\ decision \in [Phases -> {"none", "accept", "reject"}]

\* Where the two processes are, and what the parent knows.
ControlTypes ==
    /\ ppc \in Parents /\ handled \subseteq Phases /\ launcher \in {"none", "old", "new"}
    /\ saved \in {"none", "kept", "lost"} /\ final \in Final \cup {"none"} /\ cpc \in Children

-------------------------------------------------------------------------------
(* Every step keeps the invariant.                                         *)

\* Before the updater runs nothing has moved and nobody was asked.
LEMMA InitUpdate == UpdateInit => UpdateInv
PROOF
<1> SUFFICES ASSUME UpdateInit
             PROVE  UpdateInv
  OBVIOUS
<1>1. UpdateTypeOK
  <2>1. FlagTypes
    BY Zenon DEF UpdateInit, FlagTypes
  <2>2. PlaceTypes /\ BoundTypes /\ FileTypes /\ ControlTypes
    BY UpdateAssumption
    DEF UpdateInit, PlaceTypes, BoundTypes, FileTypes, ControlTypes, Phases, Final, Parents, Children
  <2> QED
    BY <2>1, <2>2
    DEF UpdateTypeOK, PlaceTypes, FlagTypes, BoundTypes, FileTypes, ControlTypes
<1>2. Consistent
  BY DEF UpdateInit, Consistent, ParentAlone, ChildBefore, ChildSwitching, ChildUndoing, ChildEnded,
         OfflineKept, Answers, Bound, StatusTellsRuntime, BindingFollowsRuntime, Preparing,
         Answering, Untouched, Phases, Final
<1> QED
  BY <1>1, <1>2 DEF UpdateInv

\* Servers, launchers, windows and rows come and go, the user edits the Tunnel's state, a step
\* raises, a process is killed.
LEMMA EnvironmentKeeps ==
    ASSUME UpdateInv, Environment
    PROVE  UpdateInv'
PROOF
<1> USE DEF UpdateInv, Consistent, ParentAlone, ChildBefore, ChildSwitching, ChildUndoing,
       ChildEnded, OfflineKept, Answers, Bound, StatusTellsRuntime, BindingFollowsRuntime, UpdateTypeOK,
       PlaceTypes, FlagTypes, BoundTypes, FileTypes, ControlTypes, Preparing, Answering,
       Untouched, Aside, Phases, Final, Parents, Children, Installed, InUse, Idle, Offline, PhaseAsked,
       Rebound
<1>1. CASE ServerStarts
  <2>1. PlaceTypes' /\ BoundTypes' /\ FileTypes' /\ ControlTypes'
    BY <1>1, UpdateAssumption DEF ServerStarts, Visit, Still, places, files, parent, flags
  <2>2. FlagTypes'
    BY <1>1, Zenon DEF ServerStarts, Visit, Still, places, files, parent, flags
  <2>3. Consistent'
    BY <1>1 DEF ServerStarts, Visit, Still, places, files, parent, flags
  <2> QED
    BY <2>1, <2>2, <2>3
<1>2. CASE LauncherChecks
  <2>1. PlaceTypes' /\ BoundTypes' /\ FileTypes' /\ ControlTypes'
    BY <1>2, UpdateAssumption DEF LauncherChecks, Visit, Still, places, files, parent, flags
  <2>2. FlagTypes'
    BY <1>2, Zenon DEF LauncherChecks, Visit, Still, places, files, parent, flags
  <2>3. Consistent'
    BY <1>2 DEF LauncherChecks, Visit, Still, places, files, parent, flags
  <2> QED
    BY <2>1, <2>2, <2>3
<1>3. CASE LauncherStarts
  <2>1. PlaceTypes'
    BY <1>3, Zenon DEF LauncherStarts, Still, places, files, parent, flags
  <2>2. BoundTypes' /\ FileTypes' /\ ControlTypes'
    BY <1>3, UpdateAssumption DEF LauncherStarts, Still, places, files, parent, flags
  <2>3. FlagTypes'
    BY <1>3, Zenon DEF LauncherStarts, Still, places, files, parent, flags
  <2>4. Consistent'
    BY <1>3 DEF LauncherStarts, Still, places, files, parent, flags
  <2> QED
    BY <2>1, <2>2, <2>3, <2>4
<1>4. CASE UiOpens
  <2>1. PlaceTypes' /\ BoundTypes' /\ FileTypes' /\ ControlTypes'
    BY <1>4, UpdateAssumption DEF UiOpens, Visit, Still, places, files, parent, flags
  <2>2. FlagTypes'
    BY <1>4, Zenon DEF UiOpens, Visit, Still, places, files, parent, flags
  <2>3. Consistent'
    BY <1>4 DEF UiOpens, Visit, Still, places, files, parent, flags
  <2> QED
    BY <2>1, <2>2, <2>3
<1>5. CASE UiCloses
  <2>1. PlaceTypes' /\ BoundTypes' /\ FileTypes' /\ ControlTypes'
    BY <1>5, UpdateAssumption DEF UiCloses, Still, places, files, parent, flags
  <2>2. FlagTypes'
    BY <1>5, Zenon DEF UiCloses, Still, places, files, parent, flags
  <2>3. Consistent'
    BY <1>5 DEF UiCloses, Still, places, files, parent, flags
  <2> QED
    BY <2>1, <2>2, <2>3
<1>6. CASE ServerStops
  <2>1. PlaceTypes' /\ BoundTypes' /\ FileTypes' /\ ControlTypes'
    BY <1>6, UpdateAssumption DEF ServerStops, Still, places, files, parent, flags
  <2>2. FlagTypes'
    BY <1>6, Zenon DEF ServerStops, Still, places, files, parent, flags
  <2>3. Consistent'
    BY <1>6 DEF ServerStops, Still, places, files, parent, flags
  <2> QED
    BY <2>1, <2>2, <2>3
<1>7. CASE LauncherExits
  <2>1. PlaceTypes' /\ BoundTypes' /\ FileTypes' /\ ControlTypes'
    BY <1>7, UpdateAssumption DEF LauncherExits, Still, places, files, parent, flags
  <2>2. Offline => Offline'
    BY <1>7, Zenon DEF LauncherExits, Still, places, files, parent, flags
  <2>3. FlagTypes'
    BY <1>7, Zenon DEF LauncherExits, Still, places, files, parent, flags
  <2>4. ChildSwitching' /\ OfflineKept'
    BY <1>7, <2>2 DEF LauncherExits, Still, files, parent, flags, places
  <2>5. Consistent'
    BY <1>7, <2>4 DEF LauncherExits, Still, places, files, parent, flags
  <2> QED
    BY <2>1, <2>3, <2>5
<1>8. CASE RowBegins
  <2>1. PlaceTypes' /\ BoundTypes' /\ FileTypes' /\ ControlTypes'
    BY <1>8, UpdateAssumption DEF RowBegins, Still, places, files, parent, flags
  <2>2. FlagTypes'
    BY <1>8, Zenon DEF RowBegins, Still, places, files, parent, flags
  <2>3. Consistent'
    BY <1>8 DEF RowBegins, Still, places, files, parent, flags
  <2> QED
    BY <2>1, <2>2, <2>3
<1>9. CASE RowEnds
  <2>1. PlaceTypes' /\ BoundTypes' /\ FileTypes' /\ ControlTypes'
    BY <1>9, UpdateAssumption DEF RowEnds, Still, places, files, parent, flags
  <2>2. FlagTypes'
    BY <1>9, Zenon DEF RowEnds, Still, places, files, parent, flags
  <2>3. Consistent'
    BY <1>9 DEF RowEnds, Still, places, files, parent, flags
  <2> QED
    BY <2>1, <2>2, <2>3
<1>10. CASE HostRuns
  <2>1. PlaceTypes' /\ BoundTypes' /\ FileTypes' /\ ControlTypes'
    BY <1>10, UpdateAssumption DEF HostRuns, Still, places, files, parent, flags
  <2>2. FlagTypes'
    BY <1>10, Zenon DEF HostRuns, Still, places, files, parent, flags
  <2>3. Consistent'
    BY <1>10 DEF HostRuns, Still, places, files, parent, flags
  <2> QED
    BY <2>1, <2>2, <2>3
<1>11. CASE HostEnds
  <2>1. PlaceTypes' /\ BoundTypes' /\ FileTypes' /\ ControlTypes'
    BY <1>11, UpdateAssumption DEF HostEnds, Still, places, files, parent, flags
  <2>2. FlagTypes'
    BY <1>11, Zenon DEF HostEnds, Still, places, files, parent, flags
  <2>3. Consistent'
    BY <1>11 DEF HostEnds, Still, places, files, parent, flags
  <2> QED
    BY <2>1, <2>2, <2>3
<1>12. CASE Reconfigure
  <2>1. PlaceTypes' /\ BoundTypes' /\ FileTypes' /\ ControlTypes'
    BY <1>12, UpdateAssumption DEF Reconfigure, places, world, files, parent, flags
  <2>2. FlagTypes'
    BY <1>12, Zenon DEF Reconfigure, places, world, files, parent, flags
  <2>3. Consistent'
    BY <1>12 DEF Reconfigure, places, world, files, parent, flags
  <2> QED
    BY <2>1, <2>2, <2>3
<1>13. CASE ChildFails
  <2>1. PlaceTypes' /\ BoundTypes' /\ FileTypes' /\ ControlTypes'
    BY <1>13, UpdateAssumption DEF ChildFails, Throw, Unsettled, GiveUp, places, world, parent,
           flags, SetStatus
  <2>2. FlagTypes'
    BY <1>13, Zenon DEF ChildFails, Throw, Unsettled, GiveUp, places, world, parent, flags,
           SetStatus
  <2>3. Consistent'
    BY <1>13 DEF ChildFails, Throw, Unsettled, GiveUp, places, world, parent, flags, SetStatus
  <2> QED
    BY <2>1, <2>2, <2>3
<1>14. CASE ChildKilled
  <2>1. PlaceTypes' /\ BoundTypes' /\ FileTypes' /\ ControlTypes'
    BY <1>14, UpdateAssumption DEF ChildKilled, places, world, files, parent, flags
  <2>2. FlagTypes'
    BY <1>14, Zenon DEF ChildKilled, places, world, files, parent, flags
  <2>3. Consistent'
    BY <1>14 DEF ChildKilled, places, world, files, parent, flags
  <2> QED
    BY <2>1, <2>2, <2>3
<1>15. CASE ParentKilled
  <2>1. PlaceTypes' /\ BoundTypes' /\ FileTypes' /\ ControlTypes'
    BY <1>15, UpdateAssumption DEF ParentKilled, places, files, flags
  <2>2. FlagTypes'
    BY <1>15, Zenon DEF ParentKilled, places, files, flags
  <2>3. Consistent'
    BY <1>15 DEF ParentKilled, places, files, flags
  <2> QED
    BY <2>1, <2>2, <2>3
<1> QED
  BY <1>1, <1>2, <1>3, <1>4, <1>5, <1>6, <1>7, <1>8, <1>9, <1>10, <1>11, <1>12, <1>13, <1>14,
         <1>15 DEF Environment

\* The parent: what it prepares alone, and its answers beside the child.
LEMMA ParentKeeps ==
    ASSUME UpdateInv, Parent
    PROVE  UpdateInv'
PROOF
<1> USE DEF UpdateInv, Consistent, ParentAlone, ChildBefore, ChildSwitching, ChildUndoing,
       ChildEnded, OfflineKept, Answers, Bound, StatusTellsRuntime, BindingFollowsRuntime, UpdateTypeOK,
       PlaceTypes, FlagTypes, BoundTypes, FileTypes, ControlTypes, Preparing, Answering,
       Untouched, Aside, Phases, Final, Parents, Children, Installed, InUse, Idle, Offline, PhaseAsked,
       Rebound
<1>1. CASE Begin
  <2>1. PlaceTypes' /\ BoundTypes' /\ FileTypes' /\ ControlTypes'
    BY <1>1, UpdateAssumption DEF Begin, ParentOnly, places, files, flags, bounds
  <2>2. FlagTypes'
    BY <1>1, Zenon DEF Begin, ParentOnly, places, files, flags, bounds
  <2>3. Consistent'
    BY <1>1 DEF Begin, ParentOnly, places, files, flags, bounds
  <2> QED
    BY <2>1, <2>2, <2>3
<1>2. CASE CheckIdle
  <2>1. PlaceTypes' /\ BoundTypes' /\ FileTypes' /\ ControlTypes'
    BY <1>2, UpdateAssumption DEF CheckIdle, Unchanged, world, ParentOnly, places, files, flags,
           bounds
  <2>2. FlagTypes'
    BY <1>2, Zenon DEF CheckIdle, Unchanged, world, ParentOnly, places, files, flags, bounds
  <2>3. Consistent'
    BY <1>2 DEF CheckIdle, Unchanged, world, ParentOnly, places, files, flags, bounds
  <2> QED
    BY <2>1, <2>2, <2>3
<1>3. CASE StopTunnel
  <2>1. PlaceTypes' /\ BoundTypes' /\ FileTypes' /\ ControlTypes'
    BY <1>3, UpdateAssumption DEF StopTunnel, ParentOnly, places, files, flags, bounds
  <2>2. FlagTypes'
    BY <1>3, Zenon DEF StopTunnel, ParentOnly, places, files, flags, bounds
  <2>3. Consistent'
    BY <1>3 DEF StopTunnel, ParentOnly, places, files, flags, bounds
  <2> QED
    BY <2>1, <2>2, <2>3
<1>4. CASE CloseUi
  <2>1. PlaceTypes'
    BY <1>4, Zenon DEF CloseUi, AuthorityReady, ParentOnly, places, files, flags, bounds
  <2>2. BoundTypes' /\ FileTypes' /\ ControlTypes'
    BY <1>4, UpdateAssumption DEF CloseUi, AuthorityReady, ParentOnly, places, files, flags,
           bounds
  <2>3. FlagTypes'
    BY <1>4, Zenon DEF CloseUi, AuthorityReady, ParentOnly, places, files, flags, bounds
  <2>4. Consistent'
    BY <1>4 DEF CloseUi, AuthorityReady, ParentOnly, places, files, flags, bounds
  <2> QED
    BY <2>1, <2>2, <2>3, <2>4
<1>5. CASE AwaitMutex
  <2>1. PlaceTypes' /\ BoundTypes' /\ FileTypes' /\ ControlTypes'
    BY <1>5, UpdateAssumption DEF AwaitMutex, ParentOnly, places, files, flags, bounds
  <2>2. FlagTypes'
    BY <1>5, Zenon DEF AwaitMutex, ParentOnly, places, files, flags, bounds
  <2>3. Consistent'
    BY <1>5 DEF AwaitMutex, ParentOnly, places, files, flags, bounds
  <2> QED
    BY <2>1, <2>2, <2>3
<1>6. CASE AwaitOffline
  <2>1. PlaceTypes' /\ BoundTypes' /\ FileTypes' /\ ControlTypes'
    BY <1>6, UpdateAssumption DEF AwaitOffline, Unchanged, world, ParentOnly, places, files,
           flags, bounds
  <2>2. FlagTypes'
    BY <1>6, Zenon DEF AwaitOffline, Unchanged, world, ParentOnly, places, files, flags, bounds
  <2>3. Consistent'
    BY <1>6 DEF AwaitOffline, Unchanged, world, ParentOnly, places, files, flags, bounds
  <2> QED
    BY <2>1, <2>2, <2>3
<1>7. CASE Snapshot
  <2>1. PlaceTypes' /\ BoundTypes' /\ FileTypes' /\ ControlTypes'
    BY <1>7, UpdateAssumption DEF Snapshot, world, ParentOnly, places, files, flags, bounds
  <2>2. FlagTypes'
    BY <1>7, Zenon DEF Snapshot, world, ParentOnly, places, files, flags, bounds
  <2>3. Consistent'
    BY <1>7 DEF Snapshot, world, ParentOnly, places, files, flags, bounds
  <2> QED
    BY <2>1, <2>2, <2>3
<1>8. CASE Prepare
  <2>1. PlaceTypes' /\ BoundTypes' /\ FileTypes' /\ ControlTypes'
    BY <1>8, UpdateAssumption DEF Prepare, places, world, files, flags, bounds
  <2>2. FlagTypes'
    BY <1>8, Zenon DEF Prepare, places, world, files, flags, bounds
  <2>3. Consistent'
    BY <1>8 DEF Prepare, places, world, files, flags, bounds
  <2> QED
    BY <2>1, <2>2, <2>3
<1>9. CASE Notice
  <2>1. PlaceTypes' /\ BoundTypes' /\ FileTypes' /\ ControlTypes'
    BY <1>9, UpdateAssumption DEF Notice, Verifying, places, world, flags, bounds
  <2>2. FlagTypes'
    BY <1>9, Zenon DEF Notice, Verifying, places, world, flags, bounds
  <2>3. Consistent'
    BY <1>9 DEF Notice, Verifying, places, world, flags, bounds
  <2> QED
    BY <2>1, <2>2, <2>3
<1>10. CASE Probe
  <2>1. PlaceTypes' /\ BoundTypes' /\ FileTypes' /\ ControlTypes'
    BY <1>10, UpdateAssumption DEF Probe, Unchanged, Passes, Decide, AuthorityReady, Verifying,
           places, world, flags, bounds
  <2>2. PhaseAsked \in Phases /\ PhaseAsked \in handled /\ PhaseAsked' = PhaseAsked
    BY <1>10 DEF Probe, Unchanged, Passes, Decide, AuthorityReady, Verifying, places, world,
           flags, bounds
  <2>3. FlagTypes'
    BY <1>10, Zenon DEF Probe, Unchanged, Passes, Decide, AuthorityReady, Verifying, places,
           world, flags, bounds
  <2>4. ASSUME NEW answer \in {"accept", "reject"}, Decide(answer)
        PROVE  \A p \in Phases : decision'[p] = IF p = PhaseAsked THEN answer ELSE decision[p]
    BY <2>2, <2>4 DEF Decide
  <2>5. Answers'
    BY <1>10, <2>2, <2>4 DEF Probe, Unchanged, Passes, Decide, AuthorityReady, Verifying, places,
           world, flags, bounds
  <2>6. Consistent'
    BY <1>10, <2>5 DEF Probe, Unchanged, Passes, Decide, AuthorityReady, Verifying, places, world,
           flags, bounds
  <2> QED
    BY <2>1, <2>3, <2>6
<1>11. CASE Bind
  <2>1. PlaceTypes' /\ BoundTypes' /\ FileTypes' /\ ControlTypes'
    BY <1>11, UpdateAssumption DEF Bind, Unchanged, Decide, Verifying, places, world, flags,
           bounds
  <2>2. FlagTypes'
    BY <1>11, Zenon DEF Bind, Unchanged, Decide, Verifying, places, world, flags, bounds
  <2>3. Consistent'
    BY <1>11 DEF Bind, Unchanged, Decide, Verifying, places, world, flags, bounds
  <2> QED
    BY <2>1, <2>2, <2>3
<1>12. CASE Save
  <2>1. PlaceTypes' /\ BoundTypes' /\ FileTypes' /\ ControlTypes'
    BY <1>12, UpdateAssumption DEF Save, Decide, places, world, flags
  <2>2. FlagTypes'
    BY <1>12, Zenon DEF Save, Decide, places, world, flags
  <2>3. Consistent'
    BY <1>12 DEF Save, Decide, places, world, flags
  <2> QED
    BY <2>1, <2>2, <2>3
<1>13. CASE Confirm
  <2>1. PlaceTypes' /\ BoundTypes' /\ FileTypes' /\ ControlTypes'
    BY <1>13, UpdateAssumption DEF Confirm, Decide, Verifying, places, world, flags, bounds
  <2>2. FlagTypes'
    BY <1>13, Zenon DEF Confirm, Decide, Verifying, places, world, flags, bounds
  <2>3. Consistent'
    BY <1>13 DEF Confirm, Decide, Verifying, places, world, flags, bounds
  <2> QED
    BY <2>1, <2>2, <2>3
<1>14. CASE Learn
  <2>1. PlaceTypes' /\ BoundTypes' /\ FileTypes'
    BY <1>14, UpdateAssumption DEF Learn, Conclude, places, world, files, flags, bounds
  <2>2. final' \in Final \cup {"none"} /\ ppc' = "finishing"
    BY <1>14 DEF Learn, Conclude
  <2>3. ControlTypes'
    BY <1>14, <2>2 DEF Learn, Conclude, places, world, files, flags, bounds
  <2>4. FlagTypes'
    BY <1>14, Zenon DEF Learn, Conclude, places, world, files, flags, bounds
  <2>5. Consistent'
    BY <1>14 DEF Learn, Conclude, places, world, files, flags, bounds
  <2> QED
    BY <2>1, <2>3, <2>4, <2>5
<1>15. CASE Deadline
  <2>1. PlaceTypes' /\ BoundTypes' /\ FileTypes' /\ ControlTypes'
    BY <1>15, UpdateAssumption DEF Deadline, Conclude, places, world, files, flags, bounds
  <2>2. FlagTypes'
    BY <1>15, Zenon DEF Deadline, Conclude, places, world, files, flags, bounds
  <2>3. Consistent'
    BY <1>15 DEF Deadline, Conclude, places, world, files, flags, bounds
  <2> QED
    BY <2>1, <2>2, <2>3
<1>16. CASE Finish
  <2>1. PlaceTypes' /\ BoundTypes' /\ FileTypes' /\ ControlTypes'
    BY <1>16, UpdateAssumption DEF Finish, Restorable, places, files, flags, bounds
  <2>2. FlagTypes'
    BY <1>16, Zenon DEF Finish, Restorable, places, files, flags, bounds
  <2>3. Consistent'
    BY <1>16 DEF Finish, Restorable, places, files, flags, bounds
  <2> QED
    BY <2>1, <2>2, <2>3
<1> QED
  BY <1>1, <1>2, <1>3, <1>4, <1>5, <1>6, <1>7, <1>8, <1>9, <1>10, <1>11, <1>12, <1>13, <1>14,
         <1>15, <1>16 DEF Parent

\* The elevated child: from its checks to the switch, and back when something is in the way.
LEMMA ChildKeeps ==
    ASSUME UpdateInv, Child
    PROVE  UpdateInv'
PROOF
<1> USE DEF UpdateInv, Consistent, ParentAlone, ChildBefore, ChildSwitching, ChildUndoing,
       ChildEnded, OfflineKept, Answers, Bound, StatusTellsRuntime, BindingFollowsRuntime, UpdateTypeOK,
       PlaceTypes, FlagTypes, BoundTypes, FileTypes, ControlTypes, Preparing, Answering,
       Untouched, Aside, Phases, Final, Parents, Children, Installed, InUse, Idle, Offline, PhaseAsked,
       Rebound
<1>1. CASE ChildBegins
  <2>1. PlaceTypes' /\ BoundTypes' /\ FileTypes' /\ ControlTypes'
    BY <1>1, UpdateAssumption DEF ChildBegins, SetStatus, Throw, places, flags, ChildOnly, world,
           parent, bounds
  <2>2. FlagTypes'
    BY <1>1, Zenon DEF ChildBegins, SetStatus, Throw, places, flags, ChildOnly, world, parent,
           bounds
  <2>3. Consistent'
    BY <1>1 DEF ChildBegins, SetStatus, Throw, places, flags, ChildOnly, world, parent, bounds
  <2> QED
    BY <2>1, <2>2, <2>3
<1>2. CASE Build
  <2>1. PlaceTypes' /\ BoundTypes' /\ FileTypes' /\ ControlTypes'
    BY <1>2, UpdateAssumption DEF Build, SetStatus, Throw, flags, ChildOnly, world, parent, bounds
  <2>2. FlagTypes'
    BY <1>2, Zenon DEF Build, SetStatus, Throw, flags, ChildOnly, world, parent, bounds
  <2>3. Consistent'
    BY <1>2 DEF Build, SetStatus, Throw, flags, ChildOnly, world, parent, bounds
  <2> QED
    BY <2>1, <2>2, <2>3
<1>3. CASE AwaitStaged
  <2>1. PlaceTypes' /\ BoundTypes' /\ FileTypes' /\ ControlTypes'
    BY <1>3, UpdateAssumption DEF AwaitStaged, Accepted, Throw, places, flags, ChildOnly, world,
           parent, bounds
  <2>2. FlagTypes'
    BY <1>3, Zenon DEF AwaitStaged, Accepted, Throw, places, flags, ChildOnly, world, parent,
           bounds
  <2>3. Consistent'
    BY <1>3 DEF AwaitStaged, Accepted, Throw, places, flags, ChildOnly, world, parent, bounds
  <2> QED
    BY <2>1, <2>2, <2>3
<1>4. CASE Recheck
  <2>1. PlaceTypes' /\ BoundTypes' /\ FileTypes' /\ ControlTypes'
    BY <1>4, UpdateAssumption DEF Recheck, Throw, places, ChildOnly, world, parent, bounds
  <2>2. FlagTypes'
    BY <1>4, Zenon DEF Recheck, Throw, places, ChildOnly, world, parent, bounds
  <2>3. Consistent'
    BY <1>4 DEF Recheck, Throw, places, ChildOnly, world, parent, bounds
  <2> QED
    BY <2>1, <2>2, <2>3
<1>5. CASE StopHostService
  <2>1. PlaceTypes' /\ BoundTypes' /\ FileTypes' /\ ControlTypes'
    BY <1>5, UpdateAssumption DEF StopHostService, places, flags, ChildOnly, world, parent, bounds
  <2>2. FlagTypes'
    BY <1>5, Zenon DEF StopHostService, places, flags, ChildOnly, world, parent, bounds
  <2>3. Consistent'
    BY <1>5 DEF StopHostService, places, flags, ChildOnly, world, parent, bounds
  <2> QED
    BY <2>1, <2>2, <2>3
<1>6. CASE CheckAgain
  <2>1. PlaceTypes' /\ BoundTypes' /\ FileTypes' /\ ControlTypes'
    BY <1>6, UpdateAssumption DEF CheckAgain, Throw, places, flags, ChildOnly, world, parent,
           bounds
  <2>2. FlagTypes'
    BY <1>6, Zenon DEF CheckAgain, Throw, places, flags, ChildOnly, world, parent, bounds
  <2>3. Consistent'
    BY <1>6 DEF CheckAgain, Throw, places, flags, ChildOnly, world, parent, bounds
  <2> QED
    BY <2>1, <2>2, <2>3
<1>7. CASE Retire
  <2>1. PlaceTypes' /\ BoundTypes' /\ FileTypes' /\ ControlTypes'
    BY <1>7, UpdateAssumption DEF Retire, Throw, ChildOnly, world, parent, bounds
  <2>2. FlagTypes'
    BY <1>7, Zenon DEF Retire, Throw, ChildOnly, world, parent, bounds
  <2>3. Consistent'
    BY <1>7 DEF Retire, Throw, ChildOnly, world, parent, bounds
  <2> QED
    BY <2>1, <2>2, <2>3
<1>8. CASE Publish
  <2>1. PlaceTypes' /\ BoundTypes' /\ FileTypes' /\ ControlTypes'
    BY <1>8, UpdateAssumption DEF Publish, ChildOnly, world, parent, bounds
  <2>2. FlagTypes'
    BY <1>8, Zenon DEF Publish, ChildOnly, world, parent, bounds
  <2>3. Consistent'
    BY <1>8 DEF Publish, ChildOnly, world, parent, bounds
  <2> QED
    BY <2>1, <2>2, <2>3
<1>9. CASE StartNew
  <2>1. PlaceTypes' /\ BoundTypes' /\ FileTypes' /\ ControlTypes'
    BY <1>9, UpdateAssumption DEF StartNew, SetStatus, places, ChildOnly, world, parent, bounds
  <2>2. FlagTypes'
    BY <1>9, Zenon DEF StartNew, SetStatus, places, ChildOnly, world, parent, bounds
  <2>3. Consistent'
    BY <1>9 DEF StartNew, SetStatus, places, ChildOnly, world, parent, bounds
  <2> QED
    BY <2>1, <2>2, <2>3
<1>10. CASE AwaitSwitched
  <2>1. PlaceTypes' /\ BoundTypes' /\ FileTypes' /\ ControlTypes'
    BY <1>10, UpdateAssumption DEF AwaitSwitched, Accepted, SetStatus, Throw, places, flags,
           ChildOnly, world, parent, bounds
  <2>2. FlagTypes'
    BY <1>10, Zenon DEF AwaitSwitched, Accepted, SetStatus, Throw, places, flags, ChildOnly,
           world, parent, bounds
  <2>3. Consistent'
    BY <1>10 DEF AwaitSwitched, Accepted, SetStatus, Throw, places, flags, ChildOnly, world,
           parent, bounds
  <2> QED
    BY <2>1, <2>2, <2>3
<1>11. CASE Caught
  <2>1. PlaceTypes' /\ BoundTypes' /\ FileTypes' /\ ControlTypes'
    BY <1>11, UpdateAssumption DEF Caught, GiveUp, SetStatus, places, flags, ChildOnly, world,
           parent, bounds
  <2>2. FlagTypes'
    BY <1>11, Zenon DEF Caught, GiveUp, SetStatus, places, flags, ChildOnly, world, parent, bounds
  <2>3. Consistent'
    BY <1>11 DEF Caught, GiveUp, SetStatus, places, flags, ChildOnly, world, parent, bounds
  <2> QED
    BY <2>1, <2>2, <2>3
<1>12. CASE UndoStop
  <2>1. PlaceTypes' /\ BoundTypes' /\ FileTypes' /\ ControlTypes'
    BY <1>12, UpdateAssumption DEF UndoStop, places, flags, ChildOnly, world, parent, bounds
  <2>2. FlagTypes'
    BY <1>12, Zenon DEF UndoStop, places, flags, ChildOnly, world, parent, bounds
  <2>3. Consistent'
    BY <1>12 DEF UndoStop, places, flags, ChildOnly, world, parent, bounds
  <2> QED
    BY <2>1, <2>2, <2>3
<1>13. CASE Withdraw
  <2>1. PlaceTypes' /\ BoundTypes' /\ FileTypes' /\ ControlTypes'
    BY <1>13, UpdateAssumption DEF Withdraw, GiveUp, flags, ChildOnly, SetStatus, world, parent,
           bounds
  <2>2. FlagTypes'
    BY <1>13, Zenon DEF Withdraw, GiveUp, flags, ChildOnly, SetStatus, world, parent, bounds
  <2>3. Consistent'
    BY <1>13 DEF Withdraw, GiveUp, flags, ChildOnly, SetStatus, world, parent, bounds
  <2> QED
    BY <2>1, <2>2, <2>3
<1>14. CASE RestoreOld
  <2>1. PlaceTypes' /\ BoundTypes' /\ FileTypes' /\ ControlTypes'
    BY <1>14, UpdateAssumption DEF RestoreOld, flags, ChildOnly, world, parent, bounds
  <2>2. FlagTypes'
    BY <1>14, Zenon DEF RestoreOld, flags, ChildOnly, world, parent, bounds
  <2>3. Consistent'
    BY <1>14 DEF RestoreOld, flags, ChildOnly, world, parent, bounds
  <2> QED
    BY <2>1, <2>2, <2>3
<1>15. CASE Revive
  <2>1. PlaceTypes' /\ BoundTypes' /\ FileTypes' /\ ControlTypes'
    BY <1>15, UpdateAssumption DEF Revive, SetStatus, places, flags, ChildOnly, world, parent,
           bounds
  <2>2. FlagTypes'
    BY <1>15, Zenon DEF Revive, SetStatus, places, flags, ChildOnly, world, parent, bounds
  <2>3. Consistent'
    BY <1>15 DEF Revive, SetStatus, places, flags, ChildOnly, world, parent, bounds
  <2> QED
    BY <2>1, <2>2, <2>3
<1> QED
  BY <1>1, <1>2, <1>3, <1>4, <1>5, <1>6, <1>7, <1>8, <1>9, <1>10, <1>11, <1>12, <1>13, <1>14,
         <1>15 DEF Child

\* A stuttering step changes nothing the invariant speaks of.
LEMMA StutterKeeps ==
    ASSUME UpdateInv, UNCHANGED updateVars
    PROVE  UpdateInv'
BY DEF updateVars, UpdateInv, Consistent, UpdateTypeOK, ParentAlone, ChildBefore, ChildSwitching,
       ChildUndoing, ChildEnded, OfflineKept, Answers, Bound, StatusTellsRuntime,
       BindingFollowsRuntime, Untouched, Aside, Installed, InUse, Idle, Offline, PhaseAsked, Rebound

-------------------------------------------------------------------------------
(* Theorems.                                                               *)

\* update-localmcp.ps1: the invariant, for any number of failing steps, killed processes,
\* servers that start meanwhile and changes to the Tunnel's state.
THEOREM UpdateInvariant == UpdateSpec => []UpdateInv
PROOF
<1>1. UpdateInv /\ [UpdateNext]_updateVars => UpdateInv'
  BY EnvironmentKeeps, ParentKeeps, ChildKeeps, StutterKeeps DEF UpdateNext
<1> QED
  BY <1>1, InitUpdate, PTL DEF UpdateSpec

\* Every variable of the updater keeps its type.
THEOREM UpdateTypeCorrect == UpdateSpec => []UpdateTypeOK
PROOF
<1>1. UpdateInv => UpdateTypeOK
  BY DEF UpdateInv
<1> QED
  BY <1>1, UpdateInvariant, PTL

\* Invoke-ElevatedUpdate: what status.json says in the end is what is installed, and recovery
\* is only asked for after a failing step or with a server in the way.
THEOREM StatusIsTold == UpdateSpec => []StatusTellsRuntime
PROOF
<1>1. UpdateInv => StatusTellsRuntime
  BY DEF UpdateInv, Consistent
<1> QED
  BY <1>1, UpdateInvariant, PTL

\* Invoke-LocalMcpUpdate, Update-ServerScriptBinding: the Tunnel ends bound to the launcher
\* that is installed, whoever gave up and when.
THEOREM BindingFollows == UpdateSpec => []BindingFollowsRuntime
PROOF
<1>1. UpdateInv => BindingFollowsRuntime
  BY DEF UpdateInv, Consistent
<1> QED
  BY <1>1, UpdateInvariant, PTL

\* Only Retire takes the old version away, and the service has been stopped since the child
\* last saw the Approved Host idle.
LEMMA OnlyRetireTakesAway ==
    ASSUME UpdateInv, [UpdateNext]_updateVars, oldAt = "install", oldAt' = "backup"
    PROVE  Retire
PROOF
<1>1. CASE Environment
  BY <1>1 DEF Environment, ServerStarts, LauncherChecks, LauncherStarts, UiOpens, UiCloses,
         ServerStops, LauncherExits, RowBegins, RowEnds, HostRuns, HostEnds, Reconfigure,
         ChildFails, ChildKilled, ParentKilled, Still, places
<1>2. CASE Parent
  BY <1>2 DEF Parent, Begin, CheckIdle, StopTunnel, CloseUi, AwaitMutex, AwaitOffline, Snapshot,
         Prepare, Notice, Probe, Bind, Save, Confirm, Learn, Deadline, Finish, ParentOnly,
         Verifying, Conclude, places
<1>3. CASE Child
  BY <1>3 DEF Child, ChildBegins, Build, AwaitStaged, Recheck, StopHostService, CheckAgain, Publish,
         StartNew, AwaitSwitched, Caught, UndoStop, Withdraw, RestoreOld, Revive, places
<1>4. CASE UNCHANGED updateVars
  BY <1>4 DEF updateVars
<1> QED
  BY <1>1, <1>2, <1>3, <1>4 DEF UpdateNext

\* Invoke-ElevatedUpdate: the old version is taken away only while nothing runs from it and
\* no Approved Host run is active, whatever began after the first check.
THEOREM RetiresOnlyIdle == UpdateSpec => RetiredOnlyIdle
PROOF
<1>1. ASSUME UpdateInv, [UpdateNext]_updateVars, oldAt = "install", oldAt' = "backup"
      PROVE  ~InUse /\ host = "idle"
  <2>1. Retire
    BY <1>1, OnlyRetireTakesAway
  <2> QED
    BY <1>1, <2>1 DEF Retire, UpdateInv, Consistent, ChildSwitching
<1>2. UpdateInv /\ [UpdateNext]_updateVars =>
        [oldAt = "install" /\ oldAt' = "backup" => ~InUse /\ host = "idle"]_updateVars
  BY <1>1
<1> QED
  BY <1>2, UpdateInvariant, PTL DEF UpdateSpec, RetiredOnlyIdle
===============================================================================
