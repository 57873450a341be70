----------------------- MODULE OperationLifecycleProofs -----------------------
(***************************************************************************)
(* Proofs about OperationLifecycle: type correctness, the capacity of the  *)
(* job table, and what follows from the order in which an operation's row, *)
(* its launch and its worker come to be.                                   *)
(***************************************************************************)
EXTENDS OperationLifecycle, FiniteSetTheorems, TLAPS

\* The initial state is well typed.
LEMMA InitTypeOK == Init => TypeOK
  BY ProcessAssumption, BoundAssumption
  DEF Init, TypeOK, Statuses, Terminal, Identities, Launching, WorkerLive, Rows, NoRow

\* A row that is read is a row of the table.
LEMMA RowType ==
  ASSUME TypeOK, NEW o \in Ops
  PROVE  Row(o) \in Rows
  BY DEF TypeOK, Row, Rows

\* What the statements on a row and on a process leave behind.
LEMMA TransitionType ==
  ASSUME TypeOK, NEW o \in Ops, NEW from, NEW to \in Statuses, Transition(o, from, to)
  PROVE  status' \in [Ops -> Statuses]
  BY DEF TypeOK, Transition

\* FailApproval writes both columns.
LEMMA FailApprovalType ==
  ASSUME TypeOK, NEW o \in Ops, FailApproval(o)
  PROVE  /\ status' \in [Ops -> Statuses]
         /\ approval' \in [Ops -> {"none", "pending", "approved", "rejected", "expired"}]
PROOF
<1>1. status' \in [Ops -> Statuses]
  BY TransitionType DEF FailApproval, Statuses, Terminal
<1>2. approval' \in [Ops -> {"none", "pending", "approved", "rejected", "expired"}]
  BY DEF TypeOK, FailApproval
<1> QED
  BY <1>1, <1>2

\* A process that exits leaves the calls it was making behind.
LEMMA ExitsType ==
  ASSUME TypeOK, NEW p \in Approvers \cup {Server}, Exits(p)
  PROVE  /\ owner' \in [Ops -> Approvers \cup {Server, Nobody}]
         /\ handler' \in [Ops -> {"idle", "admitted", "sync", "failing", "returned", "gone"} \cup Launching]
         /\ view' \in [Approvers -> Ops \cup {Nobody}]
  BY DEF TypeOK, Exits

\* Every step keeps every variable in its type.
LEMMA StepTypeOK == TypeOK /\ [Next]_vars => TypeOK'
PROOF
<1> SUFFICES ASSUME TypeOK, [Next]_vars PROVE TypeOK'
  OBVIOUS
<1> USE DEF rowVars, clockVars, callVars, workerVars, stopVars, recVars, boundVars,
            Transition, ExpireRows, FailApproval, Exits, Returns, Worker, Outcome, Kill, WorkerDies,
            StopReturns, Statuses, Terminal, Active, Identities, Launching, WorkerLive, NoRow
<1> USE ProcessAssumption, BoundAssumption
<1>1. ASSUME NEW o \in Ops, Submit(o) PROVE TypeOK'
  BY <1>1 DEF TypeOK, Submit, Rows
<1>2. ASSUME NEW o \in Ops, RunSync(o) PROVE TypeOK'
  BY <1>2 DEF TypeOK, RunSync, Rows
<1>3. ASSUME NEW o \in Ops, Admit(o) PROVE TypeOK'
  BY <1>3 DEF TypeOK, Admit, Rows
<1>4. ASSUME NEW o \in Ops, SyncSucceeds(o) PROVE TypeOK'
  BY <1>4 DEF TypeOK, SyncSucceeds, Rows
<1>45. ASSUME NEW o \in Ops, SyncOpensJournal(o) PROVE TypeOK'
  BY <1>45 DEF TypeOK, SyncOpensJournal, Rows
<1>46. ASSUME NEW o \in Ops, SyncClosesJournal(o) PROVE TypeOK'
  BY <1>46 DEF TypeOK, SyncClosesJournal, Rows
<1>47. ASSUME NEW o \in Ops, SyncRaises(o) PROVE TypeOK'
  BY <1>47 DEF TypeOK, SyncRaises, Rows
<1>48. ASSUME NEW o \in Ops, SyncFails(o) PROVE TypeOK'
  <2>1. status' \in [Ops -> Statuses]
    BY <1>48 DEF SyncFails, TypeOK
  <2>2. journal' \in [Ops -> BOOLEAN]
    <3> HIDE DEF Transition
    <3>1. journal' = journal \/ journal' = [journal EXCEPT ![o] = FALSE]
      BY <1>48 DEF SyncFails
    <3>2. journal \in [Ops -> BOOLEAN]
      BY DEF TypeOK
    <3> QED
      BY <3>1, <3>2, Zenon
  <2> HIDE DEF Transition
  <2> QED
    BY <1>48, <2>1, <2>2 DEF TypeOK, SyncFails, Rows
<1>49. ASSUME NEW o \in Ops, ReconcileJournal(o) PROVE TypeOK'
  <2>1. status' \in [Ops -> Statuses]
    BY <1>49 DEF ReconcileJournal, TypeOK
  <2>2. journal' \in [Ops -> BOOLEAN]
    <3>1. journal' = journal \/ journal' = [journal EXCEPT ![o] = FALSE]
      BY <1>49 DEF ReconcileJournal
    <3>2. journal \in [Ops -> BOOLEAN]
      BY DEF TypeOK
    <3> QED
      BY <3>1, <3>2, Zenon
  <2> QED
    BY <1>49, <2>1, <2>2 DEF TypeOK, ReconcileJournal, Rows
<1>5. ASSUME NEW o \in Ops, Request(o) PROVE TypeOK'
  BY <1>5 DEF TypeOK, Request, Rows
<1>6. ASSUME NEW o \in Ops, Spawn(o) PROVE TypeOK'
  BY <1>6 DEF TypeOK, Spawn, Rows
<1>7. ASSUME NEW o \in Ops, RecordBootstrap(o) PROVE TypeOK'
  BY <1>7 DEF TypeOK, RecordBootstrap, Rows
<1>8. ASSUME NEW o \in Ops, LaunchReturns(o) PROVE TypeOK'
  BY <1>8 DEF TypeOK, LaunchReturns, Rows
<1>9. ASSUME NEW o \in Ops, LaunchFails(o) PROVE TypeOK'
  <2>1. status' \in [Ops -> Statuses]
        /\ approval' \in [Ops -> {"none", "pending", "approved", "rejected", "expired"}]
    <3> HIDE DEF Transition, FailApproval
    <3>1. CASE owner[o] = Server
      BY <1>9, <3>1, TransitionType DEF LaunchFails, TypeOK
    <3>2. CASE owner[o] # Server
      BY <1>9, <3>2, FailApprovalType DEF LaunchFails
    <3> QED
      BY <3>1, <3>2
  <2>2. faults' \in 0..MaxFaults
    BY <1>9 DEF LaunchFails, TypeOK
  <2> HIDE DEF Transition, FailApproval
  <2> QED
    BY <1>9, <2>1, <2>2 DEF TypeOK, LaunchFails, Rows
<1>10. ASSUME NEW o \in Ops, WorkerRefuses(o) PROVE TypeOK'
  BY <1>10 DEF TypeOK, WorkerRefuses, Rows
<1>11. ASSUME NEW o \in Ops, Bind(o) PROVE TypeOK'
  BY <1>11 DEF TypeOK, Bind, Rows
<1>12. ASSUME NEW o \in Ops, CheckpointFails(o) PROVE TypeOK'
  BY <1>12 DEF TypeOK, CheckpointFails, Rows
<1>13. ASSUME NEW o \in Ops, CheckGrant(o) PROVE TypeOK'
  <2>1. worker' \in [Ops -> {"none", "dead"} \cup WorkerLive]
    BY <1>13 DEF CheckGrant, TypeOK
  <2>2. outcome' \in [Ops -> Statuses]
    BY <1>13 DEF CheckGrant, TypeOK
  <2> QED
    BY <1>13, <2>1, <2>2 DEF TypeOK, CheckGrant
<1>14. ASSUME NEW o \in Ops, StartChild(o) PROVE TypeOK'
  BY <1>14 DEF TypeOK, StartChild, Rows
<1>15. ASSUME NEW o \in Ops, StartFails(o) PROVE TypeOK'
  BY <1>15 DEF TypeOK, StartFails, Rows
<1>16. ASSUME NEW o \in Ops, RecordChild(o) PROVE TypeOK'
  BY <1>16 DEF TypeOK, RecordChild, Rows
<1>17. ASSUME NEW o \in Ops, RecordChildFails(o) PROVE TypeOK'
  BY <1>17 DEF TypeOK, RecordChildFails, Rows
<1>18. ASSUME NEW o \in Ops, WaitEnds(o) PROVE TypeOK'
  BY <1>18 DEF TypeOK, WaitEnds, Rows
<1>21. ASSUME NEW o \in Ops, Finish(o) PROVE TypeOK'
  <2>1. status' \in [Ops -> Statuses]
    <3> HIDE DEF Transition
    <3>1. outcome[o] \in Statuses
      BY DEF TypeOK
    <3> QED
      BY <1>21, <3>1, TransitionType DEF Finish
  <2>2. worker' \in [Ops -> {"none", "dead"} \cup WorkerLive]
    BY <1>21 DEF Finish, TypeOK
  <2>3. approval' \in [Ops -> {"none", "pending", "approved", "rejected", "expired"}]
    BY <1>21 DEF Finish, TypeOK
  <2> HIDE DEF Transition, Worker
  <2> QED
    BY <1>21, <2>1, <2>2, <2>3 DEF TypeOK, Finish
<1>41. ASSUME NEW o \in Ops, GitRefuses(o) PROVE TypeOK'
  BY <1>41 DEF TypeOK, GitRefuses, Rows
<1>42. ASSUME NEW o \in Ops, GitRuns(o) PROVE TypeOK'
  BY <1>42 DEF TypeOK, GitRuns, Rows
<1>43. ASSUME NEW o \in Ops, GitFails(o) PROVE TypeOK'
  BY <1>43 DEF TypeOK, GitFails, Rows
<1>44. ASSUME NEW o \in Ops, GitFinish(o) PROVE TypeOK'
  BY <1>44 DEF TypeOK, GitFinish, Rows
<1>22. ASSUME NEW o \in Ops, RecRead(o) PROVE TypeOK'
  BY <1>22, RowType DEF TypeOK, RecRead, Rows
<1>23. ASSUME NEW o \in Ops, RecDecide(o) PROVE TypeOK'
  BY <1>23 DEF TypeOK, RecDecide, Rows
<1>24. ASSUME NEW o \in Ops, ChildExits(o) PROVE TypeOK'
  BY <1>24 DEF TypeOK, ChildExits, Rows
<1>25. ASSUME NEW o \in Ops, StopRead(o) PROVE TypeOK'
  BY <1>25, RowType DEF TypeOK, StopRead, Rows
<1>26. ASSUME NEW o \in Ops, StopChild(o) PROVE TypeOK'
  <2>1. child' \in [Ops -> {"none", "running", "ok", "bad"}]
    BY <1>26 DEF StopChild, TypeOK
  <2>2. stopPc' \in [Ops -> {"idle", "read", "hit", "missed", "tree", "root", "killed"}]
    BY <1>26 DEF StopChild, TypeOK
  <2> QED
    BY <1>26, <2>1, <2>2 DEF TypeOK, StopChild
<1>27. ASSUME NEW o \in Ops, StopMatch(o) PROVE TypeOK'
  <2>1. status' \in [Ops -> Statuses]
    BY <1>27 DEF StopMatch, TypeOK
  <2>2. stopPc' \in [Ops -> {"idle", "read", "hit", "missed", "tree", "root", "killed"}]
    BY <1>27 DEF StopMatch, TypeOK
  <2>3. stopSeen' \in [Ops -> Rows]
    <3>1. stopSeen' = stopSeen \/ stopSeen' = [stopSeen EXCEPT ![o] = NoRow]
      BY <1>27 DEF StopMatch, StopReturns
    <3>2. NoRow \in Rows
      BY DEF NoRow, Rows, Statuses, Identities
    <3> HIDE DEF Rows, NoRow
    <3> QED
      BY <3>1, <3>2 DEF TypeOK
  <2> QED
    BY <1>27, <2>1, <2>2, <2>3 DEF TypeOK, StopMatch
<1>28. ASSUME NEW o \in Ops, StopKill(o) PROVE TypeOK'
  <2>1. child' \in [Ops -> {"none", "running", "ok", "bad"}] /\ worker' \in [Ops -> {"none", "dead"} \cup WorkerLive]
    BY <1>28 DEF StopKill, TypeOK
  <2>2. stopPc' \in [Ops -> {"idle", "read", "hit", "missed", "tree", "root", "killed"}]
    BY <1>28 DEF StopKill, TypeOK
  <2> QED
    BY <1>28, <2>1, <2>2 DEF TypeOK, StopKill
<1>29. ASSUME NEW o \in Ops, StopCancel(o) PROVE TypeOK'
  BY <1>29 DEF TypeOK, StopCancel, Rows
<1>30. ASSUME NEW o \in Ops, WorkerCrash(o) PROVE TypeOK'
  BY <1>30 DEF TypeOK, WorkerCrash, Rows
<1>31. ASSUME NEW o \in Ops, RequestTtl(o) PROVE TypeOK'
  BY <1>31 DEF TypeOK, RequestTtl, Rows
<1>32. ASSUME NEW o \in Ops, GrantTtl(o) PROVE TypeOK'
  BY <1>32 DEF TypeOK, GrantTtl, Rows
<1>33. ASSUME NEW a \in Approvers, NEW o \in Ops, Show(a, o) PROVE TypeOK'
  BY <1>33 DEF TypeOK, Show, Rows
<1>34. ASSUME NEW a \in Approvers, NEW o \in Ops, Skip(a, o) PROVE TypeOK'
  BY <1>34 DEF TypeOK, Skip, Rows
<1>35. ASSUME NEW a \in Approvers, NEW o \in Ops, Reject(a, o) PROVE TypeOK'
  <2>1. status' \in [Ops -> Statuses]
        /\ approval' \in [Ops -> {"none", "pending", "approved", "rejected", "expired"}]
    BY <1>35 DEF Reject, TypeOK
  <2>2. /\ owner' \in [Ops -> Approvers \cup {Server, Nobody}]
        /\ handler' \in [Ops -> {"idle", "admitted", "sync", "failing", "returned", "gone"} \cup Launching]
        /\ view' \in [Approvers -> Ops \cup {Nobody}]
    <3>1. CASE Claimable(o)
      BY <1>35, <3>1 DEF Reject, TypeOK
    <3>2. CASE ~Claimable(o)
      <4> HIDE DEF Exits
      <4>1. Exits(a)
        BY <1>35, <3>2 DEF Reject
      <4> QED
        BY <4>1, ExitsType
    <3> QED
      BY <3>1, <3>2
  <2> QED
    BY <1>35, <2>1, <2>2 DEF TypeOK, Reject
<1>36. ASSUME NEW a \in Approvers, NEW o \in Ops, ApproveAndClaim(a, o) PROVE TypeOK'
  BY <1>36 DEF TypeOK, ApproveAndClaim, Rows
<1>37. ASSUME NEW a \in Approvers, NEW o \in Ops, ApproveRefused(a, o) PROVE TypeOK'
  <2>1. status' \in [Ops -> Statuses]
        /\ approval' \in [Ops -> {"none", "pending", "approved", "rejected", "expired"}]
    <3> HIDE DEF FailApproval
    <3>1. CASE FailApproval(o)
      BY <3>1, FailApprovalType
    <3>2. CASE ~FailApproval(o)
      BY <1>37, <3>2 DEF ApproveRefused, TypeOK
    <3> QED
      BY <3>1, <3>2
  <2>2. faults' \in 0..MaxFaults /\ view' \in [Approvers -> Ops \cup {Nobody}]
    <3> HIDE DEF FailApproval
    <3> QED
      BY <1>37 DEF ApproveRefused, TypeOK
  <2> HIDE DEF FailApproval
  <2> QED
    BY <1>37, <2>1, <2>2 DEF TypeOK, ApproveRefused
<1>38. ASSUME NEW p \in Approvers \cup {Server}, Crash(p) PROVE TypeOK'
  BY <1>38 DEF TypeOK, Crash, Rows
<1>39. CASE Poll
  BY <1>39 DEF TypeOK, Poll, Rows
<1>40. CASE UNCHANGED vars
  BY <1>40 DEF TypeOK, vars, Rows
<1> HIDE DEF rowVars, clockVars, callVars, workerVars, stopVars, recVars, boundVars,
  Transition, ExpireRows, FailApproval, Exits, Returns, Worker, Outcome, Kill, WorkerDies, StopReturns
<1> QED
  BY <1>1, <1>2, <1>3, <1>4, <1>5, <1>6, <1>7, <1>8, <1>9, <1>10, <1>11, <1>12, <1>13, <1>14, <1>15, <1>16, <1>17, <1>18, <1>21, <1>22, <1>23, <1>24, <1>25, <1>26, <1>27, <1>28, <1>29, <1>30, <1>31, <1>32, <1>33, <1>34, <1>35, <1>36, <1>37, <1>38, <1>39, <1>40, <1>41, <1>42, <1>43, <1>44,
     <1>45, <1>46, <1>47, <1>48, <1>49,
     Zenon DEF Next, Handling, Working, Reconciling

\* Every reachable state has its type: the columns of an operation's row, the worker and the
\* calls in progress stay within the states audit.py, executor.py and worker.py name.
THEOREM TypeCorrect == Spec => []TypeOK
<1> QED
  BY InitTypeOK, StepTypeOK, PTL DEF Spec
-----------------------------------------------------------------------------
(* The order in which an operation comes to be.                            *)

\* A worker comes from the one launch of a row that was created once: before that launch there
\* is no worker, after it no request is pending, a worker that bound itself left "queued"
\* behind, and a child starts only from "checked".
Staged(o) ==
  /\ handler[o] \in {"idle", "admitted"} => status[o] = "none"
  /\ handler[o] \in {"idle", "admitted", "sync", "failing"} \cup Launching => approval[o] # "pending"
  /\ handler[o] \in {"sync", "failing"} \/ journal[o] => Tier[o] = "sync" /\ approval[o] # "pending"
  /\ handler[o] \in {"idle", "admitted"} => ~journal[o]
  /\ approval[o] = "pending" => status[o] = "pending_approval" /\ worker[o] = "none"
  /\ handler[o] \in {"idle", "admitted", "launching"} => worker[o] = "none"

BoundOnce(o) ==
  /\ worker[o] \in Bound => status[o] # "queued" /\ ident[o] = "stable"
  /\ worker[o] \in {"none", "boot", "bound", "checked"} => starts[o] = 0
  /\ starts[o] <= 1 /\ outcome[o] \notin Active

\* What stop_job and the reconciler learned from what they read.
ActiveRead(o) ==
  /\ recPc[o] = "read" => recSeen[o].status \in Active
  /\ stopPc[o] \in {"tree", "root"} => worker[o] # "none"

OrderInv == \A o \in Ops : Staged(o) /\ BoundOnce(o) /\ ActiveRead(o)

\* Every step keeps the order.
LEMMA StepOrder == TypeOK /\ OrderInv /\ [Next]_vars => OrderInv'
PROOF
<1> SUFFICES ASSUME TypeOK, OrderInv, [Next]_vars, NEW x \in Ops PROVE (Staged(x) /\ BoundOnce(x) /\ ActiveRead(x))'
  BY DEF OrderInv
<1> USE DEF rowVars, clockVars, callVars, workerVars, stopVars, recVars, boundVars, TypeOK,
            Transition, Worker, Outcome, Kill, WorkerDies, StopReturns, Row,
            Terminal, Active, Launching, WorkerLive, Bound, NoRow
<1> USE ProcessAssumption
<1>0. Staged(x) /\ BoundOnce(x) /\ ActiveRead(x)
  BY DEF OrderInv
<1> USE DEF Staged, BoundOnce, ActiveRead
<1>1. ASSUME NEW o \in Ops, Submit(o) PROVE (Staged(x) /\ BoundOnce(x) /\ ActiveRead(x))'
  BY <1>0, <1>1 DEF Submit
<1>2. ASSUME NEW o \in Ops, RunSync(o) PROVE (Staged(x) /\ BoundOnce(x) /\ ActiveRead(x))'
  BY <1>0, <1>2 DEF RunSync
<1>3. ASSUME NEW o \in Ops, Admit(o) PROVE (Staged(x) /\ BoundOnce(x) /\ ActiveRead(x))'
  BY <1>0, <1>3 DEF Admit, ExpireRows, Expired
<1>4. ASSUME NEW o \in Ops, SyncSucceeds(o) PROVE (Staged(x) /\ BoundOnce(x) /\ ActiveRead(x))'
  BY <1>0, <1>4 DEF SyncSucceeds
<1>45. ASSUME NEW o \in Ops, SyncOpensJournal(o) PROVE (Staged(x) /\ BoundOnce(x) /\ ActiveRead(x))'
  BY <1>0, <1>45 DEF SyncOpensJournal
<1>46. ASSUME NEW o \in Ops, SyncClosesJournal(o) PROVE (Staged(x) /\ BoundOnce(x) /\ ActiveRead(x))'
  BY <1>0, <1>46 DEF SyncClosesJournal
<1>47. ASSUME NEW o \in Ops, SyncRaises(o) PROVE (Staged(x) /\ BoundOnce(x) /\ ActiveRead(x))'
  BY <1>0, <1>47 DEF SyncRaises
<1>48. ASSUME NEW o \in Ops, SyncFails(o) PROVE (Staged(x) /\ BoundOnce(x) /\ ActiveRead(x))'
  BY <1>0, <1>48 DEF SyncFails
<1>49. ASSUME NEW o \in Ops, ReconcileJournal(o) PROVE (Staged(x) /\ BoundOnce(x) /\ ActiveRead(x))'
  BY <1>0, <1>49 DEF ReconcileJournal
<1>5. ASSUME NEW o \in Ops, Request(o) PROVE (Staged(x) /\ BoundOnce(x) /\ ActiveRead(x))'
  BY <1>0, <1>5 DEF Request
<1>6. ASSUME NEW o \in Ops, Spawn(o) PROVE (Staged(x) /\ BoundOnce(x) /\ ActiveRead(x))'
  BY <1>0, <1>6 DEF Spawn
<1>7. ASSUME NEW o \in Ops, RecordBootstrap(o) PROVE (Staged(x) /\ BoundOnce(x) /\ ActiveRead(x))'
  BY <1>0, <1>7 DEF RecordBootstrap
<1>8. ASSUME NEW o \in Ops, LaunchReturns(o) PROVE (Staged(x) /\ BoundOnce(x) /\ ActiveRead(x))'
  BY <1>0, <1>8 DEF LaunchReturns, Returns
<1>9. ASSUME NEW o \in Ops, LaunchFails(o) PROVE (Staged(x) /\ BoundOnce(x) /\ ActiveRead(x))'
  BY <1>0, <1>9 DEF LaunchFails, FailApproval, Returns
<1>10. ASSUME NEW o \in Ops, WorkerRefuses(o) PROVE (Staged(x) /\ BoundOnce(x) /\ ActiveRead(x))'
  BY <1>0, <1>10 DEF WorkerRefuses
<1>11. ASSUME NEW o \in Ops, Bind(o) PROVE (Staged(x) /\ BoundOnce(x) /\ ActiveRead(x))'
  BY <1>0, <1>11 DEF Bind
<1>12. ASSUME NEW o \in Ops, CheckpointFails(o) PROVE (Staged(x) /\ BoundOnce(x) /\ ActiveRead(x))'
  BY <1>0, <1>12 DEF CheckpointFails
<1>13. ASSUME NEW o \in Ops, CheckGrant(o) PROVE (Staged(x) /\ BoundOnce(x) /\ ActiveRead(x))'
  BY <1>0, <1>13 DEF CheckGrant
<1>14. ASSUME NEW o \in Ops, StartChild(o) PROVE (Staged(x) /\ BoundOnce(x) /\ ActiveRead(x))'
  BY <1>0, <1>14 DEF StartChild
<1>15. ASSUME NEW o \in Ops, StartFails(o) PROVE (Staged(x) /\ BoundOnce(x) /\ ActiveRead(x))'
  BY <1>0, <1>15 DEF StartFails
<1>16. ASSUME NEW o \in Ops, RecordChild(o) PROVE (Staged(x) /\ BoundOnce(x) /\ ActiveRead(x))'
  BY <1>0, <1>16 DEF RecordChild
<1>17. ASSUME NEW o \in Ops, RecordChildFails(o) PROVE (Staged(x) /\ BoundOnce(x) /\ ActiveRead(x))'
  BY <1>0, <1>17 DEF RecordChildFails
<1>18. ASSUME NEW o \in Ops, WaitEnds(o) PROVE (Staged(x) /\ BoundOnce(x) /\ ActiveRead(x))'
  BY <1>0, <1>18 DEF WaitEnds
<1>21. ASSUME NEW o \in Ops, Finish(o) PROVE (Staged(x) /\ BoundOnce(x) /\ ActiveRead(x))'
  BY <1>0, <1>21 DEF Finish
<1>41. ASSUME NEW o \in Ops, GitRefuses(o) PROVE (Staged(x) /\ BoundOnce(x) /\ ActiveRead(x))'
  BY <1>0, <1>41 DEF GitRefuses
<1>42. ASSUME NEW o \in Ops, GitRuns(o) PROVE (Staged(x) /\ BoundOnce(x) /\ ActiveRead(x))'
  BY <1>0, <1>42 DEF GitRuns
<1>43. ASSUME NEW o \in Ops, GitFails(o) PROVE (Staged(x) /\ BoundOnce(x) /\ ActiveRead(x))'
  BY <1>0, <1>43 DEF GitFails
<1>44. ASSUME NEW o \in Ops, GitFinish(o) PROVE (Staged(x) /\ BoundOnce(x) /\ ActiveRead(x))'
  BY <1>0, <1>44 DEF GitFinish
<1>22. ASSUME NEW o \in Ops, RecRead(o) PROVE (Staged(x) /\ BoundOnce(x) /\ ActiveRead(x))'
  BY <1>0, <1>22 DEF RecRead
<1>23. ASSUME NEW o \in Ops, RecDecide(o) PROVE (Staged(x) /\ BoundOnce(x) /\ ActiveRead(x))'
  BY <1>0, <1>23 DEF RecDecide
<1>24. ASSUME NEW o \in Ops, ChildExits(o) PROVE (Staged(x) /\ BoundOnce(x) /\ ActiveRead(x))'
  BY <1>0, <1>24 DEF ChildExits
<1>25. ASSUME NEW o \in Ops, StopRead(o) PROVE (Staged(x) /\ BoundOnce(x) /\ ActiveRead(x))'
  BY <1>0, <1>25 DEF StopRead
<1>26. ASSUME NEW o \in Ops, StopChild(o) PROVE (Staged(x) /\ BoundOnce(x) /\ ActiveRead(x))'
  BY <1>0, <1>26 DEF StopChild
<1>27. ASSUME NEW o \in Ops, StopMatch(o) PROVE (Staged(x) /\ BoundOnce(x) /\ ActiveRead(x))'
  BY <1>0, <1>27 DEF StopMatch, WorkerMatches
<1>28. ASSUME NEW o \in Ops, StopKill(o) PROVE (Staged(x) /\ BoundOnce(x) /\ ActiveRead(x))'
  <2>1. UNCHANGED <<status, approval, ident, handler, starts, recPc, recSeen>>
    BY <1>28 DEF StopKill
  <2>2. CASE stopPc[o] = "tree"
    BY <1>0, <1>28, <2>1, <2>2 DEF StopKill
  <2>3. CASE stopPc[o] = "root"
    BY <1>0, <1>28, <2>1, <2>3 DEF StopKill
  <2> QED
    BY <1>28, <2>2, <2>3 DEF StopKill
<1>29. ASSUME NEW o \in Ops, StopCancel(o) PROVE (Staged(x) /\ BoundOnce(x) /\ ActiveRead(x))'
  BY <1>0, <1>29 DEF StopCancel
<1>30. ASSUME NEW o \in Ops, WorkerCrash(o) PROVE (Staged(x) /\ BoundOnce(x) /\ ActiveRead(x))'
  BY <1>0, <1>30 DEF WorkerCrash
<1>31. ASSUME NEW o \in Ops, RequestTtl(o) PROVE (Staged(x) /\ BoundOnce(x) /\ ActiveRead(x))'
  BY <1>0, <1>31 DEF RequestTtl
<1>32. ASSUME NEW o \in Ops, GrantTtl(o) PROVE (Staged(x) /\ BoundOnce(x) /\ ActiveRead(x))'
  BY <1>0, <1>32 DEF GrantTtl
<1>33. ASSUME NEW a \in Approvers, NEW o \in Ops, Show(a, o) PROVE (Staged(x) /\ BoundOnce(x) /\ ActiveRead(x))'
  BY <1>0, <1>33 DEF Show, Deciding, Claimable, ExpireRows, Expired
<1>34. ASSUME NEW a \in Approvers, NEW o \in Ops, Skip(a, o) PROVE (Staged(x) /\ BoundOnce(x) /\ ActiveRead(x))'
  BY <1>0, <1>34 DEF Skip, Deciding, Claimable
<1>35. ASSUME NEW a \in Approvers, NEW o \in Ops, Reject(a, o) PROVE (Staged(x) /\ BoundOnce(x) /\ ActiveRead(x))'
  BY <1>0, <1>35 DEF Reject, Deciding, Claimable, Expired, Exits
<1>36. ASSUME NEW a \in Approvers, NEW o \in Ops, ApproveAndClaim(a, o) PROVE (Staged(x) /\ BoundOnce(x) /\ ActiveRead(x))'
  BY <1>0, <1>36 DEF ApproveAndClaim, Deciding, Claimable
<1>37. ASSUME NEW a \in Approvers, NEW o \in Ops, ApproveRefused(a, o) PROVE (Staged(x) /\ BoundOnce(x) /\ ActiveRead(x))'
  BY <1>0, <1>37 DEF ApproveRefused, Deciding, Claimable, Expired, FailApproval
<1>38. ASSUME NEW p \in Approvers \cup {Server}, Crash(p) PROVE (Staged(x) /\ BoundOnce(x) /\ ActiveRead(x))'
  BY <1>0, <1>38 DEF Crash, Exits
<1>39. ASSUME Poll PROVE (Staged(x) /\ BoundOnce(x) /\ ActiveRead(x))'
  BY <1>0, <1>39 DEF Poll, ExpireRows, Expired
<1>40. ASSUME UNCHANGED vars PROVE (Staged(x) /\ BoundOnce(x) /\ ActiveRead(x))'
  BY <1>0, <1>40 DEF vars
<1> QED
  BY <1>1, <1>2, <1>3, <1>4, <1>5, <1>6, <1>7, <1>8, <1>9, <1>10, <1>11, <1>12, <1>13, <1>14, <1>15, <1>16, <1>17, <1>18, <1>21, <1>22, <1>23, <1>24, <1>25, <1>26, <1>27, <1>28, <1>29, <1>30, <1>31, <1>32, <1>33, <1>34, <1>35, <1>36, <1>37, <1>38, <1>39, <1>40, <1>41, <1>42, <1>43, <1>44,
     <1>45, <1>46, <1>47, <1>48, <1>49,
     Zenon DEF Next, Handling, Working, Reconciling

\* The invariant that carries the ordering theorems, for every reachable state.
LEMMA OrderCorrect == Spec => [](TypeOK /\ OrderInv)
PROOF
<1>1. Init => OrderInv
  BY DEF Init, OrderInv, Staged, BoundOnce, ActiveRead, Bound, WorkerLive, Launching, Active
<1> QED
  BY <1>1, InitTypeOK, StepTypeOK, StepOrder, PTL DEF Spec

\* However approvals, launches and workers interleave, and whatever crashes, an operation's
\* child is started at most once.
THEOREM ChildStartedOnce == Spec => []StartedOnce
PROOF
<1>1. OrderInv => StartedOnce
  BY DEF OrderInv, BoundOnce, StartedOnce
<1> QED
  BY <1>1, OrderCorrect, PTL

\* The launcher never overwrites the identity a worker recorded for itself.
THEOREM WorkerIdentityKept == Spec => []StableIdentityKept
PROOF
<1>1. OrderInv => StableIdentityKept
  BY DEF OrderInv, BoundOnce, StableIdentityKept
<1> QED
  BY <1>1, OrderCorrect, PTL

\* A step that changes the status of a row that has ended.
LateChange(x) ==
  /\ Tier[x] = "sync"
  /\ \/ handler[x] = "failing" /\ status[x] = "succeeded" /\ status'[x] = "failed"
     \/ journal[x] /\ status'[x] \in {"succeeded", "interrupted"}

\* No step changes a terminal status, the statements without a condition on the status
\* included, but for the two of a plan that failed late or left its journal open.
LEMMA TerminalStep ==
  ASSUME TypeOK, OrderInv, [Next]_vars, NEW x \in Ops, status[x] \in Terminal
  PROVE  status'[x] = status[x] \/ LateChange(x)
PROOF
<1> USE DEF rowVars, clockVars, callVars, workerVars, stopVars, recVars, boundVars, TypeOK,
            Transition, StopReturns, Terminal, Active, Launching, WorkerLive, Bound
<1>0. Staged(x) /\ BoundOnce(x) /\ ActiveRead(x)
  BY DEF OrderInv
<1> USE DEF Staged, BoundOnce, ActiveRead
<1>1. ASSUME NEW o \in Ops, Submit(o) PROVE status'[x] = status[x] \/ LateChange(x) \/ LateChange(x)
  BY <1>0, <1>1 DEF Submit
<1>2. ASSUME NEW o \in Ops, RunSync(o) PROVE status'[x] = status[x] \/ LateChange(x) \/ LateChange(x)
  BY <1>0, <1>2 DEF RunSync
<1>3. ASSUME NEW o \in Ops, Admit(o) PROVE status'[x] = status[x] \/ LateChange(x) \/ LateChange(x)
  BY <1>0, <1>3 DEF Admit, ExpireRows, Expired
<1>4. ASSUME NEW o \in Ops, SyncSucceeds(o) PROVE status'[x] = status[x] \/ LateChange(x) \/ LateChange(x)
  BY <1>0, <1>4 DEF SyncSucceeds
<1>45. ASSUME NEW o \in Ops, SyncOpensJournal(o) PROVE status'[x] = status[x] \/ LateChange(x) \/ LateChange(x)
  BY <1>0, <1>45 DEF SyncOpensJournal
<1>46. ASSUME NEW o \in Ops, SyncClosesJournal(o) PROVE status'[x] = status[x] \/ LateChange(x) \/ LateChange(x)
  BY <1>0, <1>46 DEF SyncClosesJournal
<1>47. ASSUME NEW o \in Ops, SyncRaises(o) PROVE status'[x] = status[x] \/ LateChange(x) \/ LateChange(x)
  BY <1>0, <1>47 DEF SyncRaises
<1>48. ASSUME NEW o \in Ops, SyncFails(o) PROVE status'[x] = status[x] \/ LateChange(x) \/ LateChange(x)
  BY <1>0, <1>48 DEF SyncFails, LateChange
<1>49. ASSUME NEW o \in Ops, ReconcileJournal(o) PROVE status'[x] = status[x] \/ LateChange(x) \/ LateChange(x)
  BY <1>0, <1>49 DEF ReconcileJournal, LateChange
<1>5. ASSUME NEW o \in Ops, Request(o) PROVE status'[x] = status[x] \/ LateChange(x) \/ LateChange(x)
  BY <1>0, <1>5 DEF Request
<1>6. ASSUME NEW o \in Ops, Spawn(o) PROVE status'[x] = status[x] \/ LateChange(x) \/ LateChange(x)
  BY <1>0, <1>6 DEF Spawn
<1>7. ASSUME NEW o \in Ops, RecordBootstrap(o) PROVE status'[x] = status[x] \/ LateChange(x) \/ LateChange(x)
  BY <1>0, <1>7 DEF RecordBootstrap
<1>8. ASSUME NEW o \in Ops, LaunchReturns(o) PROVE status'[x] = status[x] \/ LateChange(x) \/ LateChange(x)
  BY <1>0, <1>8 DEF LaunchReturns
<1>9. ASSUME NEW o \in Ops, LaunchFails(o) PROVE status'[x] = status[x] \/ LateChange(x) \/ LateChange(x)
  BY <1>0, <1>9 DEF LaunchFails, FailApproval
<1>10. ASSUME NEW o \in Ops, WorkerRefuses(o) PROVE status'[x] = status[x] \/ LateChange(x) \/ LateChange(x)
  BY <1>0, <1>10 DEF WorkerRefuses
<1>11. ASSUME NEW o \in Ops, Bind(o) PROVE status'[x] = status[x] \/ LateChange(x) \/ LateChange(x)
  BY <1>0, <1>11 DEF Bind
<1>12. ASSUME NEW o \in Ops, CheckpointFails(o) PROVE status'[x] = status[x] \/ LateChange(x) \/ LateChange(x)
  BY <1>0, <1>12 DEF CheckpointFails
<1>13. ASSUME NEW o \in Ops, CheckGrant(o) PROVE status'[x] = status[x] \/ LateChange(x) \/ LateChange(x)
  BY <1>0, <1>13 DEF CheckGrant
<1>14. ASSUME NEW o \in Ops, StartChild(o) PROVE status'[x] = status[x] \/ LateChange(x) \/ LateChange(x)
  BY <1>0, <1>14 DEF StartChild
<1>15. ASSUME NEW o \in Ops, StartFails(o) PROVE status'[x] = status[x] \/ LateChange(x) \/ LateChange(x)
  BY <1>0, <1>15 DEF StartFails
<1>16. ASSUME NEW o \in Ops, RecordChild(o) PROVE status'[x] = status[x] \/ LateChange(x) \/ LateChange(x)
  BY <1>0, <1>16 DEF RecordChild
<1>17. ASSUME NEW o \in Ops, RecordChildFails(o) PROVE status'[x] = status[x] \/ LateChange(x) \/ LateChange(x)
  BY <1>0, <1>17 DEF RecordChildFails
<1>18. ASSUME NEW o \in Ops, WaitEnds(o) PROVE status'[x] = status[x] \/ LateChange(x) \/ LateChange(x)
  BY <1>0, <1>18 DEF WaitEnds
<1>21. ASSUME NEW o \in Ops, Finish(o) PROVE status'[x] = status[x] \/ LateChange(x) \/ LateChange(x)
  BY <1>0, <1>21 DEF Finish
<1>41. ASSUME NEW o \in Ops, GitRefuses(o) PROVE status'[x] = status[x] \/ LateChange(x) \/ LateChange(x)
  BY <1>0, <1>41 DEF GitRefuses
<1>42. ASSUME NEW o \in Ops, GitRuns(o) PROVE status'[x] = status[x] \/ LateChange(x) \/ LateChange(x)
  BY <1>0, <1>42 DEF GitRuns
<1>43. ASSUME NEW o \in Ops, GitFails(o) PROVE status'[x] = status[x] \/ LateChange(x) \/ LateChange(x)
  BY <1>0, <1>43 DEF GitFails
<1>44. ASSUME NEW o \in Ops, GitFinish(o) PROVE status'[x] = status[x] \/ LateChange(x) \/ LateChange(x)
  BY <1>0, <1>44 DEF GitFinish
<1>22. ASSUME NEW o \in Ops, RecRead(o) PROVE status'[x] = status[x] \/ LateChange(x) \/ LateChange(x)
  BY <1>0, <1>22 DEF RecRead
<1>23. ASSUME NEW o \in Ops, RecDecide(o) PROVE status'[x] = status[x] \/ LateChange(x) \/ LateChange(x)
  BY <1>0, <1>23 DEF RecDecide
<1>24. ASSUME NEW o \in Ops, ChildExits(o) PROVE status'[x] = status[x] \/ LateChange(x) \/ LateChange(x)
  BY <1>0, <1>24 DEF ChildExits
<1>25. ASSUME NEW o \in Ops, StopRead(o) PROVE status'[x] = status[x] \/ LateChange(x) \/ LateChange(x)
  BY <1>0, <1>25 DEF StopRead
<1>26. ASSUME NEW o \in Ops, StopChild(o) PROVE status'[x] = status[x] \/ LateChange(x) \/ LateChange(x)
  BY <1>0, <1>26 DEF StopChild
<1>27. ASSUME NEW o \in Ops, StopMatch(o) PROVE status'[x] = status[x] \/ LateChange(x) \/ LateChange(x)
  BY <1>0, <1>27 DEF StopMatch
<1>28. ASSUME NEW o \in Ops, StopKill(o) PROVE status'[x] = status[x] \/ LateChange(x) \/ LateChange(x)
  BY <1>0, <1>28 DEF StopKill
<1>29. ASSUME NEW o \in Ops, StopCancel(o) PROVE status'[x] = status[x] \/ LateChange(x) \/ LateChange(x)
  BY <1>0, <1>29 DEF StopCancel
<1>30. ASSUME NEW o \in Ops, WorkerCrash(o) PROVE status'[x] = status[x] \/ LateChange(x) \/ LateChange(x)
  BY <1>0, <1>30 DEF WorkerCrash
<1>31. ASSUME NEW o \in Ops, RequestTtl(o) PROVE status'[x] = status[x] \/ LateChange(x) \/ LateChange(x)
  BY <1>0, <1>31 DEF RequestTtl
<1>32. ASSUME NEW o \in Ops, GrantTtl(o) PROVE status'[x] = status[x] \/ LateChange(x) \/ LateChange(x)
  BY <1>0, <1>32 DEF GrantTtl
<1>33. ASSUME NEW a \in Approvers, NEW o \in Ops, Show(a, o) PROVE status'[x] = status[x] \/ LateChange(x) \/ LateChange(x)
  BY <1>0, <1>33 DEF Show, ExpireRows, Expired
<1>34. ASSUME NEW a \in Approvers, NEW o \in Ops, Skip(a, o) PROVE status'[x] = status[x] \/ LateChange(x) \/ LateChange(x)
  BY <1>0, <1>34 DEF Skip
<1>35. ASSUME NEW a \in Approvers, NEW o \in Ops, Reject(a, o) PROVE status'[x] = status[x] \/ LateChange(x) \/ LateChange(x)
  BY <1>0, <1>35 DEF Reject, Expired, Claimable
<1>36. ASSUME NEW a \in Approvers, NEW o \in Ops, ApproveAndClaim(a, o) PROVE status'[x] = status[x] \/ LateChange(x) \/ LateChange(x)
  BY <1>0, <1>36 DEF ApproveAndClaim, Claimable
<1>37. ASSUME NEW a \in Approvers, NEW o \in Ops, ApproveRefused(a, o) PROVE status'[x] = status[x] \/ LateChange(x) \/ LateChange(x)
  BY <1>0, <1>37 DEF ApproveRefused, Expired, FailApproval
<1>38. ASSUME NEW p \in Approvers \cup {Server}, Crash(p) PROVE status'[x] = status[x] \/ LateChange(x) \/ LateChange(x)
  BY <1>0, <1>38 DEF Crash
<1>39. CASE Poll
  BY <1>0, <1>39 DEF Poll, ExpireRows, Expired
<1>40. CASE UNCHANGED vars
  BY <1>0, <1>40 DEF vars
<1> QED
  BY <1>1, <1>2, <1>3, <1>4, <1>5, <1>6, <1>7, <1>8, <1>9, <1>10, <1>11, <1>12, <1>13, <1>14, <1>15, <1>16, <1>17, <1>18, <1>21, <1>22, <1>23, <1>24, <1>25, <1>26, <1>27, <1>28, <1>29, <1>30, <1>31, <1>32, <1>33, <1>34, <1>35, <1>36, <1>37, <1>38, <1>39, <1>40, <1>41, <1>42, <1>43, <1>44,
     <1>45, <1>46, <1>47, <1>48, <1>49,
     Zenon DEF Next, Handling, Working, Reconciling

\* Neither the compare and swap nor the statements without one, expire_pending, decide_approval
\* and the failure handlers, change the row of a command that has ended; the row of a plan
\* changes then only by its own late failure or while its journal is open.
THEOREM FinishedRowsStay == Spec => FinishedRowsKept
PROOF
<1>1. TypeOK /\ OrderInv /\ [Next]_vars
      => [\A o \in Ops : status[o] \in Terminal /\ status'[o] # status[o] =>
            /\ Tier[o] = "sync"
            /\ \/ handler[o] = "failing" /\ status[o] = "succeeded" /\ status'[o] = "failed"
               \/ journal[o] /\ status'[o] \in {"succeeded", "interrupted"}]_vars
  BY TerminalStep DEF LateChange
<1> QED
  BY <1>1, OrderCorrect, PTL DEF Spec, FinishedRowsKept

-----------------------------------------------------------------------------
(* Capacity                                                                *)

Jobs == {o \in ActiveOps : Tier[o] # "sync"}

\* A job that takes a slot is the only change of that step, and there was a free slot.
LEMMA SlotTaken ==
  ASSUME TypeOK, OrderInv, [Next]_vars, NEW x \in Ops, x \in Jobs', x \notin Jobs
  PROVE  Cardinality(ActiveOps) < MaxJobs /\ \A y \in Ops \ {x} : status'[y] = status[y]
PROOF
<1> USE DEF rowVars, clockVars, callVars, workerVars, stopVars, recVars, boundVars, TypeOK,
            Transition, StopReturns, Terminal, Active, Launching, WorkerLive, Bound
<1>0. Staged(x) /\ BoundOnce(x) /\ ActiveRead(x)
  BY DEF OrderInv
<1> USE DEF Staged, BoundOnce, ActiveRead, Jobs, ActiveOps
<1>1. ASSUME NEW o \in Ops, Submit(o) PROVE Cardinality(ActiveOps) < MaxJobs /\ \A y \in Ops \ {x} : status'[y] = status[y]
  BY <1>0, <1>1 DEF Submit, HasCapacity
<1>2. ASSUME NEW o \in Ops, RunSync(o) PROVE Cardinality(ActiveOps) < MaxJobs /\ \A y \in Ops \ {x} : status'[y] = status[y]
  BY <1>0, <1>2 DEF RunSync
<1>3. ASSUME NEW o \in Ops, Admit(o) PROVE Cardinality(ActiveOps) < MaxJobs /\ \A y \in Ops \ {x} : status'[y] = status[y]
  BY <1>0, <1>3 DEF Admit, ExpireRows, Expired
<1>4. ASSUME NEW o \in Ops, SyncSucceeds(o) PROVE Cardinality(ActiveOps) < MaxJobs /\ \A y \in Ops \ {x} : status'[y] = status[y]
  BY <1>0, <1>4 DEF SyncSucceeds
<1>45. ASSUME NEW o \in Ops, SyncOpensJournal(o) PROVE Cardinality(ActiveOps) < MaxJobs /\ \A y \in Ops \ {x} : status'[y] = status[y]
  BY <1>0, <1>45 DEF SyncOpensJournal
<1>46. ASSUME NEW o \in Ops, SyncClosesJournal(o) PROVE Cardinality(ActiveOps) < MaxJobs /\ \A y \in Ops \ {x} : status'[y] = status[y]
  BY <1>0, <1>46 DEF SyncClosesJournal
<1>47. ASSUME NEW o \in Ops, SyncRaises(o) PROVE Cardinality(ActiveOps) < MaxJobs /\ \A y \in Ops \ {x} : status'[y] = status[y]
  BY <1>0, <1>47 DEF SyncRaises
<1>48. ASSUME NEW o \in Ops, SyncFails(o) PROVE Cardinality(ActiveOps) < MaxJobs /\ \A y \in Ops \ {x} : status'[y] = status[y]
  BY <1>0, <1>48 DEF SyncFails
<1>49. ASSUME NEW o \in Ops, ReconcileJournal(o) PROVE Cardinality(ActiveOps) < MaxJobs /\ \A y \in Ops \ {x} : status'[y] = status[y]
  BY <1>0, <1>49 DEF ReconcileJournal
<1>5. ASSUME NEW o \in Ops, Request(o) PROVE Cardinality(ActiveOps) < MaxJobs /\ \A y \in Ops \ {x} : status'[y] = status[y]
  BY <1>0, <1>5 DEF Request
<1>6. ASSUME NEW o \in Ops, Spawn(o) PROVE Cardinality(ActiveOps) < MaxJobs /\ \A y \in Ops \ {x} : status'[y] = status[y]
  BY <1>0, <1>6 DEF Spawn
<1>7. ASSUME NEW o \in Ops, RecordBootstrap(o) PROVE Cardinality(ActiveOps) < MaxJobs /\ \A y \in Ops \ {x} : status'[y] = status[y]
  BY <1>0, <1>7 DEF RecordBootstrap
<1>8. ASSUME NEW o \in Ops, LaunchReturns(o) PROVE Cardinality(ActiveOps) < MaxJobs /\ \A y \in Ops \ {x} : status'[y] = status[y]
  BY <1>0, <1>8 DEF LaunchReturns
<1>9. ASSUME NEW o \in Ops, LaunchFails(o) PROVE Cardinality(ActiveOps) < MaxJobs /\ \A y \in Ops \ {x} : status'[y] = status[y]
  BY <1>0, <1>9 DEF LaunchFails, FailApproval
<1>10. ASSUME NEW o \in Ops, WorkerRefuses(o) PROVE Cardinality(ActiveOps) < MaxJobs /\ \A y \in Ops \ {x} : status'[y] = status[y]
  BY <1>0, <1>10 DEF WorkerRefuses
<1>11. ASSUME NEW o \in Ops, Bind(o) PROVE Cardinality(ActiveOps) < MaxJobs /\ \A y \in Ops \ {x} : status'[y] = status[y]
  BY <1>0, <1>11 DEF Bind
<1>12. ASSUME NEW o \in Ops, CheckpointFails(o) PROVE Cardinality(ActiveOps) < MaxJobs /\ \A y \in Ops \ {x} : status'[y] = status[y]
  BY <1>0, <1>12 DEF CheckpointFails
<1>13. ASSUME NEW o \in Ops, CheckGrant(o) PROVE Cardinality(ActiveOps) < MaxJobs /\ \A y \in Ops \ {x} : status'[y] = status[y]
  BY <1>0, <1>13 DEF CheckGrant
<1>14. ASSUME NEW o \in Ops, StartChild(o) PROVE Cardinality(ActiveOps) < MaxJobs /\ \A y \in Ops \ {x} : status'[y] = status[y]
  BY <1>0, <1>14 DEF StartChild
<1>15. ASSUME NEW o \in Ops, StartFails(o) PROVE Cardinality(ActiveOps) < MaxJobs /\ \A y \in Ops \ {x} : status'[y] = status[y]
  BY <1>0, <1>15 DEF StartFails
<1>16. ASSUME NEW o \in Ops, RecordChild(o) PROVE Cardinality(ActiveOps) < MaxJobs /\ \A y \in Ops \ {x} : status'[y] = status[y]
  BY <1>0, <1>16 DEF RecordChild
<1>17. ASSUME NEW o \in Ops, RecordChildFails(o) PROVE Cardinality(ActiveOps) < MaxJobs /\ \A y \in Ops \ {x} : status'[y] = status[y]
  BY <1>0, <1>17 DEF RecordChildFails
<1>18. ASSUME NEW o \in Ops, WaitEnds(o) PROVE Cardinality(ActiveOps) < MaxJobs /\ \A y \in Ops \ {x} : status'[y] = status[y]
  BY <1>0, <1>18 DEF WaitEnds
<1>21. ASSUME NEW o \in Ops, Finish(o) PROVE Cardinality(ActiveOps) < MaxJobs /\ \A y \in Ops \ {x} : status'[y] = status[y]
  BY <1>0, <1>21 DEF Finish
<1>41. ASSUME NEW o \in Ops, GitRefuses(o) PROVE Cardinality(ActiveOps) < MaxJobs /\ \A y \in Ops \ {x} : status'[y] = status[y]
  BY <1>0, <1>41 DEF GitRefuses
<1>42. ASSUME NEW o \in Ops, GitRuns(o) PROVE Cardinality(ActiveOps) < MaxJobs /\ \A y \in Ops \ {x} : status'[y] = status[y]
  BY <1>0, <1>42 DEF GitRuns
<1>43. ASSUME NEW o \in Ops, GitFails(o) PROVE Cardinality(ActiveOps) < MaxJobs /\ \A y \in Ops \ {x} : status'[y] = status[y]
  BY <1>0, <1>43 DEF GitFails
<1>44. ASSUME NEW o \in Ops, GitFinish(o) PROVE Cardinality(ActiveOps) < MaxJobs /\ \A y \in Ops \ {x} : status'[y] = status[y]
  BY <1>0, <1>44 DEF GitFinish
<1>22. ASSUME NEW o \in Ops, RecRead(o) PROVE Cardinality(ActiveOps) < MaxJobs /\ \A y \in Ops \ {x} : status'[y] = status[y]
  BY <1>0, <1>22 DEF RecRead
<1>23. ASSUME NEW o \in Ops, RecDecide(o) PROVE Cardinality(ActiveOps) < MaxJobs /\ \A y \in Ops \ {x} : status'[y] = status[y]
  BY <1>0, <1>23 DEF RecDecide
<1>24. ASSUME NEW o \in Ops, ChildExits(o) PROVE Cardinality(ActiveOps) < MaxJobs /\ \A y \in Ops \ {x} : status'[y] = status[y]
  BY <1>0, <1>24 DEF ChildExits
<1>25. ASSUME NEW o \in Ops, StopRead(o) PROVE Cardinality(ActiveOps) < MaxJobs /\ \A y \in Ops \ {x} : status'[y] = status[y]
  BY <1>0, <1>25 DEF StopRead
<1>26. ASSUME NEW o \in Ops, StopChild(o) PROVE Cardinality(ActiveOps) < MaxJobs /\ \A y \in Ops \ {x} : status'[y] = status[y]
  BY <1>0, <1>26 DEF StopChild
<1>27. ASSUME NEW o \in Ops, StopMatch(o) PROVE Cardinality(ActiveOps) < MaxJobs /\ \A y \in Ops \ {x} : status'[y] = status[y]
  BY <1>0, <1>27 DEF StopMatch
<1>28. ASSUME NEW o \in Ops, StopKill(o) PROVE Cardinality(ActiveOps) < MaxJobs /\ \A y \in Ops \ {x} : status'[y] = status[y]
  BY <1>0, <1>28 DEF StopKill
<1>29. ASSUME NEW o \in Ops, StopCancel(o) PROVE Cardinality(ActiveOps) < MaxJobs /\ \A y \in Ops \ {x} : status'[y] = status[y]
  BY <1>0, <1>29 DEF StopCancel
<1>30. ASSUME NEW o \in Ops, WorkerCrash(o) PROVE Cardinality(ActiveOps) < MaxJobs /\ \A y \in Ops \ {x} : status'[y] = status[y]
  BY <1>0, <1>30 DEF WorkerCrash
<1>31. ASSUME NEW o \in Ops, RequestTtl(o) PROVE Cardinality(ActiveOps) < MaxJobs /\ \A y \in Ops \ {x} : status'[y] = status[y]
  BY <1>0, <1>31 DEF RequestTtl
<1>32. ASSUME NEW o \in Ops, GrantTtl(o) PROVE Cardinality(ActiveOps) < MaxJobs /\ \A y \in Ops \ {x} : status'[y] = status[y]
  BY <1>0, <1>32 DEF GrantTtl
<1>33. ASSUME NEW a \in Approvers, NEW o \in Ops, Show(a, o) PROVE Cardinality(ActiveOps) < MaxJobs /\ \A y \in Ops \ {x} : status'[y] = status[y]
  BY <1>0, <1>33 DEF Show, ExpireRows, Expired
<1>34. ASSUME NEW a \in Approvers, NEW o \in Ops, Skip(a, o) PROVE Cardinality(ActiveOps) < MaxJobs /\ \A y \in Ops \ {x} : status'[y] = status[y]
  BY <1>0, <1>34 DEF Skip
<1>35. ASSUME NEW a \in Approvers, NEW o \in Ops, Reject(a, o) PROVE Cardinality(ActiveOps) < MaxJobs /\ \A y \in Ops \ {x} : status'[y] = status[y]
  BY <1>0, <1>35 DEF Reject, Expired, Claimable
<1>36. ASSUME NEW a \in Approvers, NEW o \in Ops, ApproveAndClaim(a, o) PROVE Cardinality(ActiveOps) < MaxJobs /\ \A y \in Ops \ {x} : status'[y] = status[y]
  BY <1>0, <1>36 DEF ApproveAndClaim, HasCapacity
<1>37. ASSUME NEW a \in Approvers, NEW o \in Ops, ApproveRefused(a, o) PROVE Cardinality(ActiveOps) < MaxJobs /\ \A y \in Ops \ {x} : status'[y] = status[y]
  BY <1>0, <1>37 DEF ApproveRefused, Expired, FailApproval
<1>38. ASSUME NEW p \in Approvers \cup {Server}, Crash(p) PROVE Cardinality(ActiveOps) < MaxJobs /\ \A y \in Ops \ {x} : status'[y] = status[y]
  BY <1>0, <1>38 DEF Crash
<1>39. CASE Poll
  BY <1>0, <1>39 DEF Poll, ExpireRows, Expired
<1>40. CASE UNCHANGED vars
  BY <1>0, <1>40 DEF vars
<1> QED
  BY <1>1, <1>2, <1>3, <1>4, <1>5, <1>6, <1>7, <1>8, <1>9, <1>10, <1>11, <1>12, <1>13, <1>14, <1>15, <1>16, <1>17, <1>18, <1>21, <1>22, <1>23, <1>24, <1>25, <1>26, <1>27, <1>28, <1>29, <1>30, <1>31, <1>32, <1>33, <1>34, <1>35, <1>36, <1>37, <1>38, <1>39, <1>40, <1>41, <1>42, <1>43, <1>44,
     <1>45, <1>46, <1>47, <1>48, <1>49,
     Zenon DEF Next, Handling, Working, Reconciling

\* The capacity check and the statement that takes the slot are one transaction, so the number of
\* jobs stays within the limit through every step.
LEMMA StepCapacity ==
  ASSUME TypeOK, OrderInv, [Next]_vars, JobsWithinCapacity
  PROVE  JobsWithinCapacity'
PROOF
<1> USE TierAssumption, LimitAssumption
<1>1. IsFiniteSet(ActiveOps) /\ IsFiniteSet(Jobs)
  BY FS_Subset DEF ActiveOps, Jobs
<1>2. Cardinality(Jobs) <= MaxJobs /\ Cardinality(Jobs) \in Nat /\ Cardinality(ActiveOps) \in Nat
  BY <1>1, FS_CardinalityType DEF JobsWithinCapacity, Jobs
<1>3. CASE Jobs' \subseteq Jobs
  <2>1. Cardinality(Jobs') <= Cardinality(Jobs) /\ Cardinality(Jobs') \in Nat
    BY <1>1, <1>3, FS_Subset, FS_CardinalityType
  <2> QED
    BY <1>2, <2>1 DEF JobsWithinCapacity, Jobs
<1>4. ASSUME NEW x \in Jobs', x \notin Jobs PROVE JobsWithinCapacity'
  <2>1. x \in Ops
    BY DEF Jobs, ActiveOps
  <2>2. Cardinality(ActiveOps) < MaxJobs /\ \A y \in Ops \ {x} : status'[y] = status[y]
    BY <1>4, <2>1, SlotTaken
  <2>3. Jobs' \subseteq ActiveOps \cup {x}
    BY <2>2 DEF Jobs, ActiveOps
  <2>4. IsFiniteSet(ActiveOps \cup {x})
        /\ Cardinality(ActiveOps \cup {x}) <= Cardinality(ActiveOps) + 1
    <3> DEFINE A == ActiveOps
    <3>1. IsFiniteSet(A) /\ Cardinality(A) \in Nat
      BY <1>1, <1>2
    <3> HIDE DEF A
    <3>2. IsFiniteSet(A \cup {x}) /\ Cardinality(A \cup {x}) <= Cardinality(A) + 1
      <4>1. CASE x \in A
        <5>1. A \cup {x} = A
          BY <4>1
        <5>2. IsFiniteSet(A \cup {x}) /\ Cardinality(A \cup {x}) = Cardinality(A)
          BY <3>1, <5>1, Zenon
        <5>3. Cardinality(A) <= Cardinality(A) + 1
          BY <3>1
        <5> QED
          BY <5>2, <5>3, Zenon
      <4>2. CASE x \notin A
        <5>1. IsFiniteSet(A \cup {x}) /\ Cardinality(A \cup {x}) = Cardinality(A) + 1
          BY <3>1, <4>2, FS_AddElement
        <5> QED
          BY <3>1, <5>1
      <4> QED
        BY <4>1, <4>2
    <3> QED
      BY <3>2 DEF A
  <2>5. Cardinality(Jobs') <= Cardinality(ActiveOps \cup {x})
    BY <2>3, <2>4, FS_Subset
  <2>6. Cardinality(Jobs') \in Nat /\ Cardinality(ActiveOps \cup {x}) \in Nat
    BY <2>3, <2>4, FS_Subset, FS_CardinalityType
  <2> QED
    BY <1>2, <2>2, <2>4, <2>5, <2>6 DEF JobsWithinCapacity, Jobs
<1> QED
  BY <1>3, <1>4

\* For every number of operations, approval UIs and slots, queued and running jobs never exceed
\* max_concurrent_jobs.
THEOREM CapacityKept == Spec => []JobsWithinCapacity
PROOF
<1>1. Init => JobsWithinCapacity
  <2> SUFFICES ASSUME Init PROVE JobsWithinCapacity
    OBVIOUS
  <2>1. {o \in ActiveOps : Tier[o] # "sync"} = {}
    BY DEF Init, ActiveOps, Active
  <2> QED
    BY <2>1, FS_EmptySet, LimitAssumption DEF JobsWithinCapacity
<1>2. TypeOK /\ OrderInv /\ [Next]_vars /\ JobsWithinCapacity => JobsWithinCapacity'
  BY StepCapacity
<1> QED
  BY <1>1, <1>2, OrderCorrect, PTL DEF Spec

-----------------------------------------------------------------------------
(* A job that is cancelled                                                 *)

\* When a child may run: it starts late, and a worker that goes on, or dies in a tier whose
\* children are bound to it, leaves none running.
ChildStage(o) ==
  /\ worker[o] \in {"none", "boot", "bound", "checked"} => child[o] = "none"
  /\ worker[o] = "post" => child[o] # "running"
  /\ worker[o] = "dead" /\ Tier[o] # "broker" => child[o] # "running"

\* What the row, and the copy stop_job read, say of a child is said of a bound worker; the row
\* is cancelled only behind a worker that is dead.
Stopping(o) ==
  /\ childId[o] => ident[o] = "stable" /\ worker[o] \notin {"none", "boot"}
  /\ stopSeen[o].child => stopSeen[o].ident = "stable" /\ worker[o] \notin {"none", "boot"}
  /\ stopPc[o] = "hit" => stopSeen[o].child
  /\ stopPc[o] = "killed" => worker[o] = "dead"
  /\ status[o] = "cancelled" => worker[o] = "dead"
  /\ outcome[o] # "cancelled"

JobInv == \A o \in Ops : ChildStage(o) /\ Stopping(o)

\* No step leaves a child where the worker's stage allows none.
LEMMA ChildStageKept ==
  ASSUME TypeOK, OrderInv, JobInv, [Next]_vars, NEW x \in Ops
  PROVE  ChildStage(x)'
PROOF
<1> USE DEF rowVars, clockVars, callVars, workerVars, stopVars, recVars, boundVars, TypeOK,
            Transition, Worker, Outcome, Kill, WorkerDies, StopReturns,
            Terminal, Active, Launching, WorkerLive, Bound, NoRow
<1>0. Staged(x) /\ BoundOnce(x) /\ ActiveRead(x) /\ ChildStage(x) /\ Stopping(x)
  BY DEF OrderInv, JobInv
<1> USE DEF Staged, BoundOnce, ActiveRead, ChildStage, Stopping
<1>1. ASSUME NEW o \in Ops, Submit(o) PROVE ChildStage(x)'
  BY <1>0, <1>1 DEF Submit
<1>2. ASSUME NEW o \in Ops, RunSync(o) PROVE ChildStage(x)'
  BY <1>0, <1>2 DEF RunSync
<1>3. ASSUME NEW o \in Ops, Admit(o) PROVE ChildStage(x)'
  BY <1>0, <1>3 DEF Admit, ExpireRows, Expired
<1>4. ASSUME NEW o \in Ops, SyncSucceeds(o) PROVE ChildStage(x)'
  BY <1>0, <1>4 DEF SyncSucceeds
<1>45. ASSUME NEW o \in Ops, SyncOpensJournal(o) PROVE ChildStage(x)'
  BY <1>0, <1>45 DEF SyncOpensJournal
<1>46. ASSUME NEW o \in Ops, SyncClosesJournal(o) PROVE ChildStage(x)'
  BY <1>0, <1>46 DEF SyncClosesJournal
<1>47. ASSUME NEW o \in Ops, SyncRaises(o) PROVE ChildStage(x)'
  BY <1>0, <1>47 DEF SyncRaises
<1>48. ASSUME NEW o \in Ops, SyncFails(o) PROVE ChildStage(x)'
  BY <1>0, <1>48 DEF SyncFails
<1>49. ASSUME NEW o \in Ops, ReconcileJournal(o) PROVE ChildStage(x)'
  BY <1>0, <1>49 DEF ReconcileJournal
<1>5. ASSUME NEW o \in Ops, Request(o) PROVE ChildStage(x)'
  BY <1>0, <1>5 DEF Request
<1>6. ASSUME NEW o \in Ops, Spawn(o) PROVE ChildStage(x)'
  BY <1>0, <1>6 DEF Spawn
<1>7. ASSUME NEW o \in Ops, RecordBootstrap(o) PROVE ChildStage(x)'
  BY <1>0, <1>7 DEF RecordBootstrap
<1>8. ASSUME NEW o \in Ops, LaunchReturns(o) PROVE ChildStage(x)'
  BY <1>0, <1>8 DEF LaunchReturns, Returns
<1>9. ASSUME NEW o \in Ops, LaunchFails(o) PROVE ChildStage(x)'
  BY <1>0, <1>9 DEF LaunchFails, FailApproval
<1>10. ASSUME NEW o \in Ops, WorkerRefuses(o) PROVE ChildStage(x)'
  BY <1>0, <1>10 DEF WorkerRefuses
<1>11. ASSUME NEW o \in Ops, Bind(o) PROVE ChildStage(x)'
  BY <1>0, <1>11 DEF Bind
<1>12. ASSUME NEW o \in Ops, CheckpointFails(o) PROVE ChildStage(x)'
  BY <1>0, <1>12 DEF CheckpointFails
<1>13. ASSUME NEW o \in Ops, CheckGrant(o) PROVE ChildStage(x)'
  BY <1>0, <1>13 DEF CheckGrant
<1>14. ASSUME NEW o \in Ops, StartChild(o) PROVE ChildStage(x)'
  BY <1>0, <1>14 DEF StartChild
<1>15. ASSUME NEW o \in Ops, StartFails(o) PROVE ChildStage(x)'
  BY <1>0, <1>15 DEF StartFails
<1>16. ASSUME NEW o \in Ops, RecordChild(o) PROVE ChildStage(x)'
  BY <1>0, <1>16 DEF RecordChild
<1>17. ASSUME NEW o \in Ops, RecordChildFails(o) PROVE ChildStage(x)'
  BY <1>0, <1>17 DEF RecordChildFails
<1>18. ASSUME NEW o \in Ops, WaitEnds(o) PROVE ChildStage(x)'
  BY <1>0, <1>18 DEF WaitEnds
<1>21. ASSUME NEW o \in Ops, Finish(o) PROVE ChildStage(x)'
  BY <1>0, <1>21 DEF Finish
<1>22. ASSUME NEW o \in Ops, GitRefuses(o) PROVE ChildStage(x)'
  BY <1>0, <1>22 DEF GitRefuses
<1>23. ASSUME NEW o \in Ops, GitRuns(o) PROVE ChildStage(x)'
  BY <1>0, <1>23 DEF GitRuns
<1>24. ASSUME NEW o \in Ops, GitFails(o) PROVE ChildStage(x)'
  BY <1>0, <1>24 DEF GitFails
<1>25. ASSUME NEW o \in Ops, GitFinish(o) PROVE ChildStage(x)'
  BY <1>0, <1>25 DEF GitFinish
<1>26. ASSUME NEW o \in Ops, RecRead(o) PROVE ChildStage(x)'
  BY <1>0, <1>26 DEF RecRead
<1>27. ASSUME NEW o \in Ops, RecDecide(o) PROVE ChildStage(x)'
  BY <1>0, <1>27 DEF RecDecide
<1>28. ASSUME NEW o \in Ops, ChildExits(o) PROVE ChildStage(x)'
  BY <1>0, <1>28 DEF ChildExits
<1>29. ASSUME NEW o \in Ops, StopRead(o) PROVE ChildStage(x)'
  BY <1>0, <1>29 DEF StopRead, Row
<1>30. ASSUME NEW o \in Ops, StopChild(o) PROVE ChildStage(x)'
  BY <1>0, <1>30 DEF StopChild, ChildMatches
<1>31. ASSUME NEW o \in Ops, StopMatch(o) PROVE ChildStage(x)'
  BY <1>0, <1>31 DEF StopMatch, WorkerMatches
<1>32. ASSUME NEW o \in Ops, StopKill(o) PROVE ChildStage(x)'
  BY <1>0, <1>32 DEF StopKill
<1>33. ASSUME NEW o \in Ops, StopCancel(o) PROVE ChildStage(x)'
  BY <1>0, <1>33 DEF StopCancel
<1>34. ASSUME NEW o \in Ops, WorkerCrash(o) PROVE ChildStage(x)'
  BY <1>0, <1>34 DEF WorkerCrash
<1>35. ASSUME NEW o \in Ops, RequestTtl(o) PROVE ChildStage(x)'
  BY <1>0, <1>35 DEF RequestTtl
<1>36. ASSUME NEW o \in Ops, GrantTtl(o) PROVE ChildStage(x)'
  BY <1>0, <1>36 DEF GrantTtl
<1>37. ASSUME NEW a \in Approvers, NEW o \in Ops, Show(a, o) PROVE ChildStage(x)'
  BY <1>0, <1>37 DEF Show, ExpireRows, Expired
<1>38. ASSUME NEW a \in Approvers, NEW o \in Ops, Skip(a, o) PROVE ChildStage(x)'
  BY <1>0, <1>38 DEF Skip
<1>39. ASSUME NEW a \in Approvers, NEW o \in Ops, Reject(a, o) PROVE ChildStage(x)'
  BY <1>0, <1>39 DEF Reject, Expired, Claimable
<1>40. ASSUME NEW a \in Approvers, NEW o \in Ops, ApproveAndClaim(a, o) PROVE ChildStage(x)'
  BY <1>0, <1>40 DEF ApproveAndClaim, Claimable
<1>41. ASSUME NEW a \in Approvers, NEW o \in Ops, ApproveRefused(a, o) PROVE ChildStage(x)'
  BY <1>0, <1>41 DEF ApproveRefused, Expired, FailApproval
<1>42. ASSUME NEW p \in Approvers \cup {Server}, Crash(p) PROVE ChildStage(x)'
  BY <1>0, <1>42 DEF Crash
<1>43. CASE Poll
  BY <1>0, <1>43 DEF Poll, ExpireRows, Expired
<1>44. CASE UNCHANGED vars
  BY <1>0, <1>44 DEF vars
<1> QED
  BY <1>1, <1>2, <1>3, <1>4, <1>5, <1>6, <1>7, <1>8, <1>9, <1>10, <1>11, <1>12, <1>13, <1>14,
     <1>15, <1>16, <1>17, <1>18, <1>21, <1>22, <1>23, <1>24, <1>25, <1>26,
     <1>27, <1>28, <1>29, <1>30, <1>31, <1>32, <1>33, <1>34, <1>35, <1>36, <1>37, <1>38,
     <1>39, <1>40, <1>41, <1>42, <1>43, <1>44,
     <1>45, <1>46, <1>47, <1>48, <1>49,
     Zenon DEF Next, Handling, Working, Reconciling

\* No step makes stop_job believe in the end of a worker that lives.
LEMMA StoppingKept ==
  ASSUME TypeOK, OrderInv, JobInv, [Next]_vars, NEW x \in Ops
  PROVE  Stopping(x)'
PROOF
<1> USE DEF rowVars, clockVars, callVars, workerVars, stopVars, recVars, boundVars, TypeOK,
            Transition, Worker, Outcome, Kill, WorkerDies, StopReturns,
            Terminal, Active, Launching, WorkerLive, Bound, NoRow
<1>0. Staged(x) /\ BoundOnce(x) /\ ActiveRead(x) /\ ChildStage(x) /\ Stopping(x)
  BY DEF OrderInv, JobInv
<1> USE DEF Staged, BoundOnce, ActiveRead, ChildStage, Stopping
<1>1. ASSUME NEW o \in Ops, Submit(o) PROVE Stopping(x)'
  BY <1>0, <1>1 DEF Submit
<1>2. ASSUME NEW o \in Ops, RunSync(o) PROVE Stopping(x)'
  BY <1>0, <1>2 DEF RunSync
<1>3. ASSUME NEW o \in Ops, Admit(o) PROVE Stopping(x)'
  BY <1>0, <1>3 DEF Admit, ExpireRows, Expired
<1>4. ASSUME NEW o \in Ops, SyncSucceeds(o) PROVE Stopping(x)'
  BY <1>0, <1>4 DEF SyncSucceeds
<1>45. ASSUME NEW o \in Ops, SyncOpensJournal(o) PROVE Stopping(x)'
  BY <1>0, <1>45 DEF SyncOpensJournal
<1>46. ASSUME NEW o \in Ops, SyncClosesJournal(o) PROVE Stopping(x)'
  BY <1>0, <1>46 DEF SyncClosesJournal
<1>47. ASSUME NEW o \in Ops, SyncRaises(o) PROVE Stopping(x)'
  BY <1>0, <1>47 DEF SyncRaises
<1>48. ASSUME NEW o \in Ops, SyncFails(o) PROVE Stopping(x)'
  BY <1>0, <1>48 DEF SyncFails
<1>49. ASSUME NEW o \in Ops, ReconcileJournal(o) PROVE Stopping(x)'
  BY <1>0, <1>49 DEF ReconcileJournal
<1>5. ASSUME NEW o \in Ops, Request(o) PROVE Stopping(x)'
  BY <1>0, <1>5 DEF Request
<1>6. ASSUME NEW o \in Ops, Spawn(o) PROVE Stopping(x)'
  BY <1>0, <1>6 DEF Spawn
<1>7. ASSUME NEW o \in Ops, RecordBootstrap(o) PROVE Stopping(x)'
  BY <1>0, <1>7 DEF RecordBootstrap
<1>8. ASSUME NEW o \in Ops, LaunchReturns(o) PROVE Stopping(x)'
  BY <1>0, <1>8 DEF LaunchReturns, Returns
<1>9. ASSUME NEW o \in Ops, LaunchFails(o) PROVE Stopping(x)'
  BY <1>0, <1>9 DEF LaunchFails, FailApproval
<1>10. ASSUME NEW o \in Ops, WorkerRefuses(o) PROVE Stopping(x)'
  BY <1>0, <1>10 DEF WorkerRefuses
<1>11. ASSUME NEW o \in Ops, Bind(o) PROVE Stopping(x)'
  BY <1>0, <1>11 DEF Bind
<1>12. ASSUME NEW o \in Ops, CheckpointFails(o) PROVE Stopping(x)'
  BY <1>0, <1>12 DEF CheckpointFails
<1>13. ASSUME NEW o \in Ops, CheckGrant(o) PROVE Stopping(x)'
  BY <1>0, <1>13 DEF CheckGrant
<1>14. ASSUME NEW o \in Ops, StartChild(o) PROVE Stopping(x)'
  BY <1>0, <1>14 DEF StartChild
<1>15. ASSUME NEW o \in Ops, StartFails(o) PROVE Stopping(x)'
  BY <1>0, <1>15 DEF StartFails
<1>16. ASSUME NEW o \in Ops, RecordChild(o) PROVE Stopping(x)'
  BY <1>0, <1>16 DEF RecordChild
<1>17. ASSUME NEW o \in Ops, RecordChildFails(o) PROVE Stopping(x)'
  BY <1>0, <1>17 DEF RecordChildFails
<1>18. ASSUME NEW o \in Ops, WaitEnds(o) PROVE Stopping(x)'
  BY <1>0, <1>18 DEF WaitEnds
<1>21. ASSUME NEW o \in Ops, Finish(o) PROVE Stopping(x)'
  BY <1>0, <1>21 DEF Finish
<1>22. ASSUME NEW o \in Ops, GitRefuses(o) PROVE Stopping(x)'
  BY <1>0, <1>22 DEF GitRefuses
<1>23. ASSUME NEW o \in Ops, GitRuns(o) PROVE Stopping(x)'
  BY <1>0, <1>23 DEF GitRuns
<1>24. ASSUME NEW o \in Ops, GitFails(o) PROVE Stopping(x)'
  BY <1>0, <1>24 DEF GitFails
<1>25. ASSUME NEW o \in Ops, GitFinish(o) PROVE Stopping(x)'
  BY <1>0, <1>25 DEF GitFinish
<1>26. ASSUME NEW o \in Ops, RecRead(o) PROVE Stopping(x)'
  BY <1>0, <1>26 DEF RecRead
<1>27. ASSUME NEW o \in Ops, RecDecide(o) PROVE Stopping(x)'
  BY <1>0, <1>27 DEF RecDecide
<1>28. ASSUME NEW o \in Ops, ChildExits(o) PROVE Stopping(x)'
  BY <1>0, <1>28 DEF ChildExits
<1>29. ASSUME NEW o \in Ops, StopRead(o) PROVE Stopping(x)'
  BY <1>0, <1>29 DEF StopRead, Row
<1>30. ASSUME NEW o \in Ops, StopChild(o) PROVE Stopping(x)'
  BY <1>0, <1>30 DEF StopChild, ChildMatches
<1>31. ASSUME NEW o \in Ops, StopMatch(o) PROVE Stopping(x)'
  BY <1>0, <1>31 DEF StopMatch, WorkerMatches
<1>32. ASSUME NEW o \in Ops, StopKill(o) PROVE Stopping(x)'
  BY <1>0, <1>32 DEF StopKill
<1>33. ASSUME NEW o \in Ops, StopCancel(o) PROVE Stopping(x)'
  BY <1>0, <1>33 DEF StopCancel
<1>34. ASSUME NEW o \in Ops, WorkerCrash(o) PROVE Stopping(x)'
  BY <1>0, <1>34 DEF WorkerCrash
<1>35. ASSUME NEW o \in Ops, RequestTtl(o) PROVE Stopping(x)'
  BY <1>0, <1>35 DEF RequestTtl
<1>36. ASSUME NEW o \in Ops, GrantTtl(o) PROVE Stopping(x)'
  BY <1>0, <1>36 DEF GrantTtl
<1>37. ASSUME NEW a \in Approvers, NEW o \in Ops, Show(a, o) PROVE Stopping(x)'
  BY <1>0, <1>37 DEF Show, ExpireRows, Expired
<1>38. ASSUME NEW a \in Approvers, NEW o \in Ops, Skip(a, o) PROVE Stopping(x)'
  BY <1>0, <1>38 DEF Skip
<1>39. ASSUME NEW a \in Approvers, NEW o \in Ops, Reject(a, o) PROVE Stopping(x)'
  BY <1>0, <1>39 DEF Reject, Expired, Claimable
<1>40. ASSUME NEW a \in Approvers, NEW o \in Ops, ApproveAndClaim(a, o) PROVE Stopping(x)'
  BY <1>0, <1>40 DEF ApproveAndClaim, Claimable
<1>41. ASSUME NEW a \in Approvers, NEW o \in Ops, ApproveRefused(a, o) PROVE Stopping(x)'
  BY <1>0, <1>41 DEF ApproveRefused, Expired, FailApproval
<1>42. ASSUME NEW p \in Approvers \cup {Server}, Crash(p) PROVE Stopping(x)'
  BY <1>0, <1>42 DEF Crash
<1>43. CASE Poll
  BY <1>0, <1>43 DEF Poll, ExpireRows, Expired
<1>44. CASE UNCHANGED vars
  BY <1>0, <1>44 DEF vars
<1> QED
  BY <1>1, <1>2, <1>3, <1>4, <1>5, <1>6, <1>7, <1>8, <1>9, <1>10, <1>11, <1>12, <1>13, <1>14,
     <1>15, <1>16, <1>17, <1>18, <1>21, <1>22, <1>23, <1>24, <1>25, <1>26,
     <1>27, <1>28, <1>29, <1>30, <1>31, <1>32, <1>33, <1>34, <1>35, <1>36, <1>37, <1>38,
     <1>39, <1>40, <1>41, <1>42, <1>43, <1>44,
     <1>45, <1>46, <1>47, <1>48, <1>49,
     Zenon DEF Next, Handling, Working, Reconciling

\* Every reachable state satisfies the invariant of jobs.
LEMMA JobCorrect == Spec => []JobInv
PROOF
<1>1. Init => JobInv
  BY DEF Init, JobInv, ChildStage, Stopping, NoRow
<1>2. TypeOK /\ OrderInv /\ JobInv /\ [Next]_vars => JobInv'
  BY ChildStageKept, StoppingKept DEF JobInv
<1> QED
  BY <1>1, <1>2, OrderCorrect, TypeCorrect, PTL DEF Spec

\* For every number of stop_job calls, crashes and faults: a row says "cancelled" only when its
\* worker is dead, and its child too where the child cannot outlive its worker.
THEOREM CancelledIsStopped == Spec => []CancelledMeansStopped
PROOF
<1>1. JobInv => CancelledMeansStopped
  BY DEF JobInv, ChildStage, Stopping, CancelledMeansStopped
<1> QED
  BY <1>1, JobCorrect, PTL

=============================================================================
