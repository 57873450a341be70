---------------------- MODULE WorkspaceTransactionProofs ----------------------
(***************************************************************************)
(* Proofs about WorkspaceTransaction: type correctness, that two           *)
(* transactions whose outcome is open never cover the same path, and, from *)
(* that, what recovery achieves after crashes.                             *)
(***************************************************************************)
EXTENDS WorkspaceTransaction, TLAPS

\* What the state functions of the model return.
LEMMA StateFunctions ==
  ASSUME TypeOK, NEW o \in Ops, NEW manifest \in States
  PROVE  /\ Changed(o) \in SUBSET Paths
         /\ ToCommit(o, manifest) \in SUBSET Paths
         /\ Release(o) \in [Paths -> Ops \cup {Free, Reconciler}]
         /\ Release(Reconciler) \in [Paths -> Ops \cup {Free, Reconciler}]
  BY DEF TypeOK, Changed, ToCommit, Release, States

\* The initial state is well typed.
LEMMA InitTypeOK == Init => TypeOK
  BY PathsAssumption, BoundsAssumption
  DEF Init, TypeOK, States, RowStates, JournalStates, ProcessStates

\* A step of the process that runs operation o keeps every variable in its type.
LEMMA ProceedTypeOK ==
  ASSUME TypeOK, NEW o \in Ops, Proceed(o)
  PROVE  TypeOK'
PROOF
<1> USE DEF TypeOK, wsVars, journalVars, checkpointVars, applyVars, recVars, boundVars,
            SetRow, SetJournal, Goto, States
<1>1. CASE Lock(o)
  <2>1. lock' \in [Paths -> Ops \cup {Free, Reconciler}]
    BY <1>1 DEF Lock, Acquire
  <2>2. row' \in [Ops -> RowStates] /\ pc' \in [Ops -> ProcessStates]
    BY <1>1 DEF Lock, RowStates, ProcessStates
  <2>3. ASSUME NEW s \in SUBSET Paths, NEW t \in States, Checkpoint(o, s, t)
        PROVE  scope' \in [Ops -> SUBSET Paths] /\ before' \in [Ops -> States]
               /\ target' \in [Ops -> States]
    BY <2>3 DEF Checkpoint
  <2>4. (\E s \in SUBSET Paths, t \in States : Checkpoint(o, s, t)) \/ UNCHANGED checkpointVars
    BY <1>1 DEF Lock, TargetsOf
  <2>5. scope' \in [Ops -> SUBSET Paths] /\ before' \in [Ops -> States]
        /\ target' \in [Ops -> States]
    BY <2>3, <2>4
  <2> QED
    BY <1>1, <2>1, <2>2, <2>5 DEF Lock
<1>2. CASE Refuse(o)
  BY <1>2 DEF Refuse, RowStates, RowTerminal, ProcessStates
<1>3. CASE ChildSucceeds(o)
  BY <1>3 DEF ChildSucceeds, RowStates, ProcessStates
<1>4. CASE ChildFails(o)
  BY <1>4 DEF ChildFails, ProcessStates
<1>5. CASE WriteJournal(o)
  BY <1>5 DEF WriteJournal, JournalStates, ProcessStates
<1>6. CASE Preflight(o)
  BY <1>6 DEF Preflight, JournalStates, JournalTerminal, ProcessStates
<1>7. CASE StartApply(o)
  BY <1>7 DEF StartApply, JournalStates, ProcessStates
<1>8. CASE ApplyScan(o)
  <2>1. ToCommit(o, target[o]) \in SUBSET Paths
    BY StateFunctions
  <2>2. seen' \in [Ops -> States]
    BY <1>8 DEF ApplyScan
  <2>3. todo' \in [Ops -> SUBSET Paths]
    BY <1>8, <2>1 DEF ApplyScan
  <2>4. pc' \in [Ops -> ProcessStates]
    BY <1>8 DEF ApplyScan, ProcessStates
  <2> QED
    BY <1>8, <2>2, <2>3, <2>4 DEF ApplyScan
<1>9. CASE \E p \in Paths : CommitPath(o, p)
  <2>1. PICK p \in Paths : CommitPath(o, p)
    BY <1>9
  <2>2. target[o][p] \in Contents /\ todo[o] \ {p} \in SUBSET Paths
    OBVIOUS
  <2>3. ws' \in States
    BY <2>1, <2>2 DEF CommitPath
  <2>4. todo' \in [Ops -> SUBSET Paths]
    BY <2>1, <2>2 DEF CommitPath
  <2>5. pc' \in [Ops -> ProcessStates]
    BY <2>1 DEF CommitPath, ProcessStates
  <2> QED
    BY <2>1, <2>3, <2>4, <2>5 DEF CommitPath
<1>10. CASE \E p \in Paths : RecoverPath(o, p)
  <2>1. PICK p \in Paths : RecoverPath(o, p)
    BY <1>10
  <2>2. before[o][p] \in Contents /\ todo[o] \ {p} \in SUBSET Paths
    OBVIOUS
  <2>3. ws' \in States /\ todo' \in [Ops -> SUBSET Paths]
    BY <2>1, <2>2 DEF RecoverPath
  <2>4. jstate' \in [Ops -> JournalStates] /\ pc' \in [Ops -> ProcessStates]
    BY <2>1 DEF RecoverPath, RecoveryFails, JournalStates, ProcessStates
  <2> QED
    BY <2>1, <2>3, <2>4 DEF RecoverPath
<1>11. CASE VerifyTarget(o)
  BY <1>11 DEF VerifyTarget, JournalStates, ProcessStates
<1>12. CASE MarkRecovering(o)
  BY <1>12 DEF MarkRecovering, JournalStates, ProcessStates
<1>13. CASE ConflictScan(o)
  BY <1>13 DEF ConflictScan, JournalStates, ProcessStates
<1>14. CASE RecoverScan(o)
  BY <1>14, StateFunctions DEF RecoverScan, ProcessStates
<1>15. CASE VerifyRecovered(o)
  BY <1>15 DEF VerifyRecovered, JournalStates, JournalTerminal, ProcessStates
<1>16. CASE PlanRecord(o)
  BY <1>16 DEF PlanRecord, RowStates, RowTerminal, ProcessStates
<1>17. CASE UnlockApplied(o)
  BY <1>17, StateFunctions DEF UnlockApplied, ProcessStates
<1>18. CASE RecordUnlocked(o)
  BY <1>18 DEF RecordUnlocked, RowStates, RowTerminal, ProcessStates
<1>19. CASE Finalize(o)
  BY <1>19, StateFunctions DEF Finalize, JournalStates, JournalTerminal, ProcessStates
<1>20. CASE FinalizeRaises(o)
  BY <1>20 DEF FinalizeRaises, RowStates, RowTerminal, ProcessStates
<1>21. CASE ControlSucceeds(o)
  BY <1>21 DEF ControlSucceeds, RowStates, RowTerminal, ProcessStates
<1>22. CASE UnlockAborted(o)
  BY <1>22, StateFunctions DEF UnlockAborted, ProcessStates
<1>23. CASE RecordFailure(o)
  BY <1>23 DEF RecordFailure, RowStates, RowTerminal, ProcessStates
<1>24. CASE MarkReconciled(o)
  BY <1>24 DEF MarkReconciled, ProcessStates
<1> QED
  BY <1>1, <1>2, <1>3, <1>4, <1>5, <1>6, <1>7, <1>8, <1>9, <1>10, <1>11, <1>12, <1>13,
     <1>14, <1>15, <1>16, <1>17, <1>18, <1>19, <1>20, <1>21, <1>22, <1>23, <1>24,
     Zenon DEF Proceed

\* Between two journals and when idle the reconciler has no operation in hand.
RecTarget == rpc \notin {"idle", "next"} => rop \in Ops

\* A step of a reconciling AuditStore keeps the types, and the operation it has in hand
\* is one of its list.
LEMMA ReconcileTypeOK ==
  ASSUME TypeOK, RecTarget, Reconcile
  PROVE  TypeOK' /\ RecTarget'
PROOF
<1> USE DEF TypeOK, RecTarget, wsVars, journalVars, checkpointVars, applyVars, recVars,
            boundVars, SetRow, SetJournal, Goto, States
<1>1. CASE RecStart
  BY <1>1 DEF RecStart, Incomplete
<1>2. CASE RecScan
  <2>1. rop \in Ops
    BY <1>2 DEF RecScan
  <2>2. ToCommit(rop, before[rop]) \in SUBSET Paths
    BY <2>1, StateFunctions
  <2>3. seen' \in [Ops -> States]
    BY <1>2, <2>1 DEF RecScan
  <2>4. todo' \in [Ops -> SUBSET Paths]
    BY <1>2, <2>2 DEF RecScan
  <2> QED
    BY <1>2, <2>1, <2>3, <2>4 DEF RecScan
<1>3. CASE RecVerify
  BY <1>3 DEF RecVerify, RecWrite, JournalStates, JournalTerminal
<1>4. CASE RecAudit
  BY <1>4 DEF RecAudit, RowStates, RowTerminal
<1>5. CASE RecMark
  <2>1. CASE rcopy[rop] = "applied_verified" /\ jstate[rop] # "applied_verified"
    <3>1. Release(Reconciler) \in [Paths -> Ops \cup {Free, Reconciler}]
      BY DEF Release
    <3> QED
      BY <1>5, <2>1, <3>1 DEF RecMark, RecIdle, JournalStates
  <2>2. CASE ~(rcopy[rop] = "applied_verified" /\ jstate[rop] # "applied_verified")
    BY <1>5, <2>2 DEF RecMark, JournalStates, JournalTerminal
  <2> QED
    BY <2>1, <2>2
<1>6. CASE RecEnd
  <2>1. Release(Reconciler) \in [Paths -> Ops \cup {Free, Reconciler}]
    BY DEF Release
  <2> QED
    BY <1>6, <2>1 DEF RecEnd, RecIdle, JournalStates
<1>7. CASE \E o \in Ops : RecJournal(o)
  <2>1. PICK o \in Ops : RecJournal(o)
    BY <1>7
  <2>2. jstate' \in [Ops -> JournalStates] /\ rcopy' \in [Ops -> JournalStates]
        /\ reconciled' \in [Ops -> BOOLEAN] /\ rpc' \in {"rscan", "db"}
    BY <2>1 DEF RecJournal, RecWrite, RecProceed, JournalStates, JournalTerminal
  <2> QED
    BY <2>1, <2>2 DEF RecJournal
<1>8. CASE \E p \in Paths : RecPath(p)
  <2>1. PICK p \in Paths : RecPath(p)
    BY <1>8
  <2>2. rop \in Ops
    BY <2>1 DEF RecPath
  <2>3. before[rop][p] \in Contents /\ todo[rop] \ {p} \in SUBSET Paths
    BY <2>2
  <2>4. ws' \in States
    BY <2>1, <2>3 DEF RecPath
  <2>5. todo' \in [Ops -> SUBSET Paths]
    BY <2>1, <2>3 DEF RecPath
  <2>6. jstate' \in [Ops -> JournalStates] /\ rcopy' \in [Ops -> JournalStates]
        /\ reconciled' \in [Ops -> BOOLEAN] /\ rpc' \in {"rapply", "db"}
    BY <2>1 DEF RecPath, RecWrite, JournalStates
  <2> QED
    BY <2>1, <2>2, <2>4, <2>5, <2>6 DEF RecPath
<1> QED
  BY <1>1, <1>2, <1>3, <1>4, <1>5, <1>6, <1>7, <1>8, Zenon DEF Reconcile

\* So does a step of the environment.
LEMMA EnvironmentTypeOK ==
  ASSUME TypeOK, RecTarget, Environment
  PROVE  TypeOK' /\ RecTarget'
PROOF
<1> USE DEF TypeOK, RecTarget, wsVars, journalVars, checkpointVars, applyVars, recVars,
            boundVars, SetRow, SetJournal, Goto, States
<1>1. CASE \E p \in Paths, c \in Contents : Edit(p, c)
  BY <1>1, BoundsAssumption DEF Edit
<1>2. CASE \E o \in Ops : Create(o)
  <2>1. PICK o \in Ops : Create(o)
    BY <1>2
  <2>2. row' \in [Ops -> RowStates] /\ pc' \in [Ops -> ProcessStates]
    BY <2>1 DEF Create, RowStates, ProcessStates
  <2>3. ASSUME NEW s \in SUBSET Paths, NEW t \in States, Checkpoint(o, s, t)
        PROVE  scope' \in [Ops -> SUBSET Paths] /\ before' \in [Ops -> States]
               /\ target' \in [Ops -> States]
    BY <2>3 DEF Checkpoint
  <2>4. (\E s \in SUBSET Paths, t \in States : Checkpoint(o, s, t)) \/ UNCHANGED checkpointVars
    BY <2>1 DEF Create, TargetsOf
  <2>5. scope' \in [Ops -> SUBSET Paths] /\ before' \in [Ops -> States]
        /\ target' \in [Ops -> States]
    BY <2>3, <2>4
  <2> QED
    BY <2>1, <2>2, <2>5 DEF Create
<1>3. CASE \E o \in Ops : Approve(o)
  BY <1>3 DEF Approve, ProcessStates
<1>4. CASE \E o \in Ops : LaunchFailed(o)
  BY <1>4 DEF LaunchFailed, RowStates, RowTerminal
<1>5. CASE \E o \in Ops : Crash(o)
  <2>1. PICK o \in Ops : Crash(o)
    BY <1>5
  <2>2. Release(o) \in [Paths -> Ops \cup {Free, Reconciler}]
    BY DEF Release
  <2> QED
    BY <2>1, <2>2, BoundsAssumption DEF Crash, ProcessStates
<1>6. CASE \E o \in Ops : StaleRow(o)
  BY <1>6 DEF StaleRow, RowStates, RowTerminal
<1>7. CASE \E o \in Ops : Fault(o)
  <2>1. PICK o \in Ops : Fault(o)
    BY <1>7
  <2>2. row' \in [Ops -> RowStates]
    BY <2>1 DEF Fault, RowStates, RowTerminal
  <2>3. jstate' \in [Ops -> JournalStates]
    <3>1. \/ SetJournal(o, "failed_preflight") \/ RecoveryFails(o) \/ UNCHANGED jstate
      BY <2>1, Zenon DEF Fault
    <3>2. CASE SetJournal(o, "failed_preflight")
      BY <3>2 DEF JournalStates, JournalTerminal
    <3>3. CASE RecoveryFails(o)
      BY <3>3 DEF RecoveryFails, JournalStates
    <3> QED
      BY <3>1, <3>2, <3>3
  <2>4. pc' \in [Ops -> ProcessStates]
    BY <2>1 DEF Fault, RecoveryFails, ProcessStates
  <2>5. faults' \in 0..MaxFaults
    BY <2>1, BoundsAssumption DEF Fault
  <2> QED
    BY <2>1, <2>2, <2>3, <2>4, <2>5 DEF Fault
<1>8. CASE RecCrash
  <2>1. Release(Reconciler) \in [Paths -> Ops \cup {Free, Reconciler}]
    BY DEF Release
  <2> QED
    BY <1>8, <2>1, BoundsAssumption DEF RecCrash, RecIdle, JournalStates
<1>9. CASE RecFault
  BY <1>9, BoundsAssumption DEF RecFault, RecWrite, JournalStates
<1> QED
  BY <1>1, <1>2, <1>3, <1>4, <1>5, <1>6, <1>7, <1>8, <1>9, Zenon DEF Environment

\* Types are preserved together with RecTarget, which says that the reconciler has an operation
\* in hand whenever it works on one.
LEMMA TypeStep == TypeOK /\ RecTarget /\ [Next]_vars => TypeOK' /\ RecTarget'
PROOF
<1> SUFFICES ASSUME TypeOK, RecTarget, [Next]_vars PROVE TypeOK' /\ RecTarget'
  OBVIOUS
<1>1. ASSUME NEW o \in Ops, Proceed(o) PROVE TypeOK' /\ RecTarget'
  <2>1. UNCHANGED recVars
    BY <1>1, Zenon DEF Proceed, Lock, Refuse, ChildSucceeds, ChildFails, WriteJournal, Preflight,
                StartApply, ApplyScan, CommitPath, RecoverPath, VerifyTarget, MarkRecovering,
                ConflictScan, RecoverScan, VerifyRecovered, PlanRecord, UnlockApplied,
                RecordUnlocked, Finalize, FinalizeRaises, ControlSucceeds, UnlockAborted,
                RecordFailure, MarkReconciled
  <2> QED
    BY <1>1, <2>1, ProceedTypeOK DEF RecTarget, recVars
<1>2. CASE Reconcile
  BY <1>2, ReconcileTypeOK
<1>3. CASE Environment
  BY <1>3, EnvironmentTypeOK
<1>4. CASE UNCHANGED vars
  BY <1>4 DEF vars, TypeOK, RecTarget
<1> QED
  BY <1>1, <1>2, <1>3, <1>4 DEF Next, Running

\* Every reachable state has its type: the journal, audit row and lock slots of every
\* operation stay within the states workspace_history.py and audit.py name.
THEOREM TypeCorrect == Spec => []TypeOK
PROOF
<1>1. Init => TypeOK /\ RecTarget
  BY InitTypeOK DEF Init, RecTarget
<1> QED
  BY <1>1, TypeStep, PTL DEF Spec

-------------------------------------------------------------------------------
(* The inductive invariant of NoOverlappingUnsettled: whoever may still write a    *)
(* path for a transaction has a claim to its scope, and claims are disjoint.       *)

\* The operation's process holds the locks of its scope and may still use them.
Locked(o) ==
  \/ pc[o] \in {"child", "journal", "preflight", "staged", "scan", "apply", "recover",
                "rconf", "rscan", "rapply", "applied"}
  \/ Kind[o] = "plan" /\ pc[o] = "recorded"

\* A reconciling AuditStore has the operation's journal on its list or in hand.
InHand(o) == o \in rqueue \/ (rpc \notin {"idle", "next"} /\ rop = o)

Claims(o) == Locked(o) \/ ~Settled(o) \/ InHand(o)

Unjournaled == {"idle", "locking", "child", "journal"}

LocksHeld ==
  /\ rpc # "idle" => \A p \in Paths : lock[p] = Reconciler
  /\ rpc = "idle" => rqueue = {}
  /\ \A o \in Ops : Locked(o) => \A p \in scope[o] : lock[p] = o

JournalsBegun ==
  \A o \in Ops : /\ pc[o] \in Unjournaled => jstate[o] = "none"
                 /\ InHand(o) => jstate[o] # "none"
                 /\ row[o] = "pending_approval" => Kind[o] = "control" /\ pc[o] \in {"idle", "locking"}

ClaimsDisjoint ==
  \A a, b \in Ops : a # b /\ Claims(a) /\ Claims(b) => scope[a] \cap scope[b] = {}

ClaimInv == LocksHeld /\ JournalsBegun /\ ClaimsDisjoint

\* Initially nobody has a claim.
LEMMA InitClaimInv == Init => ClaimInv
  BY DEF Init, ClaimInv, LocksHeld, JournalsBegun, ClaimsDisjoint, Locked, InHand, Claims,
         Settled, Unjournaled

\* A step by or for operation o that stakes no new claim.
OwnStep(o) ==
  /\ UNCHANGED <<scope, rpc, rop, rqueue>>
  /\ \A x \in Ops \ {o} : /\ pc'[x] = pc[x] /\ row'[x] = row[x]
                           /\ jstate'[x] = jstate[x] /\ reconciled'[x] = reconciled[x]
  /\ Locked(o)' => Locked(o)
  /\ ~Settled(o)' => Locked(o) \/ ~Settled(o)
  /\ lock' = lock \/ (lock' = Release(o) /\ ~Locked(o)')
  /\ pc'[o] \in Unjournaled => jstate'[o] = "none"
  /\ jstate[o] # "none" => jstate'[o] # "none"
  /\ row'[o] = "pending_approval" => Kind[o] = "control" /\ pc'[o] \in {"idle", "locking"}

\* A step of an operation on its own journal and locks keeps the claims apart.
LEMMA OwnStepKeepsClaims ==
  ASSUME TypeOK, ClaimInv, NEW o \in Ops, OwnStep(o)
  PROVE  ClaimInv'
PROOF
<1> USE DEF ClaimInv
<1>1. \A x \in Ops \ {o} : (Locked(x)' <=> Locked(x)) /\ (Settled(x)' <=> Settled(x))
  BY DEF OwnStep, Locked, Settled
<1>2. \A x \in Ops : InHand(x)' <=> InHand(x)
  BY DEF OwnStep, InHand
<1>3. \A x \in Ops : Claims(x)' => Claims(x)
  BY <1>1, <1>2 DEF OwnStep, Claims
<1>4. ClaimsDisjoint'
  BY <1>3 DEF OwnStep, ClaimsDisjoint
<1>5. JournalsBegun'
  BY <1>2 DEF OwnStep, JournalsBegun
<1>6. LocksHeld'
  <2>1. \A p \in Paths : lock[p] = Reconciler => lock'[p] = Reconciler
    BY HolderAssumption DEF OwnStep, Release, TypeOK
  <2>2. \A x \in Ops : Locked(x)' => \A p \in scope'[x] : lock'[p] = x
    BY <1>1 DEF OwnStep, Release, LocksHeld, TypeOK
  <2> QED
    BY <2>1, <2>2 DEF OwnStep, LocksHeld
<1> QED
  BY <1>4, <1>5, <1>6

\* Every step of a process but taking its locks is such a step.
LEMMA ProceedIsOwnStep ==
  ASSUME TypeOK, ClaimInv, NEW o \in Ops, Proceed(o), ~Lock(o)
  PROVE  OwnStep(o)
PROOF
<1> USE DEF TypeOK, ClaimInv, JournalsBegun, Unjournaled, OwnStep, Locked, Settled,
            journalVars, checkpointVars, recVars, SetRow, SetJournal, Goto
<1>1. CASE Refuse(o)
  BY <1>1 DEF Refuse
<1>2. CASE ChildSucceeds(o)
  BY <1>2 DEF ChildSucceeds
<1>3. CASE ChildFails(o)
  BY <1>3 DEF ChildFails
<1>4. CASE WriteJournal(o)
  BY <1>4 DEF WriteJournal
<1>5. CASE Preflight(o)
  BY <1>5 DEF Preflight
<1>6. CASE StartApply(o)
  BY <1>6 DEF StartApply
<1>7. CASE ApplyScan(o)
  BY <1>7 DEF ApplyScan
<1>8. CASE \E p \in Paths : CommitPath(o, p)
  BY <1>8 DEF CommitPath
<1>9. CASE \E p \in Paths : RecoverPath(o, p)
  BY <1>9 DEF RecoverPath, RecoveryFails
<1>10. CASE VerifyTarget(o)
  BY <1>10 DEF VerifyTarget
<1>11. CASE MarkRecovering(o)
  BY <1>11 DEF MarkRecovering
<1>12. CASE ConflictScan(o)
  BY <1>12 DEF ConflictScan
<1>13. CASE RecoverScan(o)
  BY <1>13 DEF RecoverScan
<1>14. CASE VerifyRecovered(o)
  BY <1>14 DEF VerifyRecovered
<1>15. CASE PlanRecord(o)
  BY <1>15 DEF PlanRecord
<1>16. CASE UnlockApplied(o)
  BY <1>16 DEF UnlockApplied
<1>17. CASE RecordUnlocked(o)
  BY <1>17 DEF RecordUnlocked
<1>18. CASE Finalize(o)
  BY <1>18 DEF Finalize, JournalTerminal
<1>19. CASE FinalizeRaises(o)
  BY <1>19 DEF FinalizeRaises
<1>20. CASE ControlSucceeds(o)
  BY <1>20 DEF ControlSucceeds
<1>21. CASE UnlockAborted(o)
  BY <1>21 DEF UnlockAborted
<1>22. CASE RecordFailure(o)
  BY <1>22 DEF RecordFailure
<1>23. CASE MarkReconciled(o)
  BY <1>23 DEF MarkReconciled
<1> QED
  BY <1>1, <1>2, <1>3, <1>4, <1>5, <1>6, <1>7, <1>8, <1>9, <1>10, <1>11, <1>12, <1>13, <1>14, <1>15, <1>16, <1>17, <1>18, <1>19, <1>20, <1>21, <1>22, <1>23,
     Zenon DEF Proceed

\* Taking the locks: every slot was free and no journal was open, so nobody had a claim.
LEMMA LockKeepsClaims ==
  ASSUME TypeOK, ClaimInv, NEW o \in Ops, Lock(o)
  PROVE  ClaimInv'
PROOF
<1> USE DEF ClaimInv, TypeOK
<1>1. PICK s \in SUBSET Paths : Acquire(o, s) /\ scope'[o] \subseteq s /\ pc[o] = "locking"
  BY DEF Lock, Checkpoint, checkpointVars
<1>2. /\ UNCHANGED <<jstate, reconciled, rpc, rop, rqueue>> /\ Ready
      /\ \A x \in Ops \ {o} : pc'[x] = pc[x] /\ scope'[x] = scope[x] /\ row'[x] = row[x]
      /\ pc'[o] \in {"child", "journal", "aborted"} /\ row'[o] # "pending_approval"
  BY DEF Lock, Goto, SetRow, JournalsBegun, Checkpoint, journalVars, checkpointVars, recVars
<1>3. \A x \in Ops \ {o} : (Claims(x)' <=> Claims(x)) /\ (Locked(x)' <=> Locked(x))
  BY <1>2 DEF Claims, Locked, Settled, InHand
<1>4. \A x \in Ops : Settled(x)
  BY <1>2 DEF Ready, Incomplete
<1>5. \A x \in Ops \ {o} : Claims(x) => scope[x] \cap s = {}
  <2> SUFFICES ASSUME NEW x \in Ops \ {o}, Claims(x), NEW p \in scope[x], p \in s PROVE FALSE
    OBVIOUS
  <2>1. lock[p] = Free
    BY <1>1 DEF Acquire
  <2>2. CASE Locked(x)
    BY <2>1, <2>2, HolderAssumption DEF LocksHeld
  <2>3. CASE InHand(x)
    BY <2>1, <2>3, HolderAssumption DEF LocksHeld, InHand
  <2> QED
    BY <1>4, <2>2, <2>3 DEF Claims
<1>6. ClaimsDisjoint'
  BY <1>1, <1>2, <1>3, <1>5 DEF ClaimsDisjoint
<1>7. JournalsBegun'
  BY <1>1, <1>2 DEF JournalsBegun, Unjournaled, InHand
<1>8. LocksHeld'
  <2>1. rpc' # "idle" => \A p \in Paths : lock'[p] = Reconciler
    BY <1>1, <1>2, HolderAssumption DEF LocksHeld, Acquire
  <2>2. \A p \in scope'[o] : lock'[p] = o
    BY <1>1 DEF Acquire
  <2>3. \A x \in Ops \ {o} : Locked(x)' => \A p \in scope'[x] : lock'[p] = x
    BY <1>1, <1>2, <1>3, HolderAssumption DEF LocksHeld, Acquire
  <2> QED
    BY <1>2, <2>1, <2>2, <2>3 DEF LocksHeld
<1> QED
  BY <1>6, <1>7, <1>8

\* A step of the environment stakes no claim; a rollback or an undo fixes its scope
\* before it has one.
LEMMA EnvironmentKeepsClaims ==
  ASSUME TypeOK, ClaimInv, RecTarget, Environment
  PROVE  ClaimInv'
PROOF
<1> USE DEF TypeOK, wsVars, journalVars, checkpointVars, recVars, SetRow, SetJournal, Goto
<1>1. ASSUME NEW p \in Paths, NEW c \in Contents, Edit(p, c) PROVE ClaimInv'
  BY <1>1 DEF Edit, ClaimInv, LocksHeld, JournalsBegun, ClaimsDisjoint, Claims, Locked, Settled,
              InHand
<1>2. ASSUME NEW o \in Ops, Create(o) PROVE ClaimInv'
  <2>1. /\ UNCHANGED <<lock, jstate, reconciled, rpc, rop, rqueue>>
        /\ pc[o] = "idle" /\ pc'[o] \in {"idle", "locking"}
        /\ \A x \in Ops \ {o} : pc'[x] = pc[x] /\ scope'[x] = scope[x] /\ row'[x] = row[x]
        /\ row'[o] = "pending_approval" => Kind[o] = "control"
    BY <1>2 DEF Create, Checkpoint
  <2>2. ~Claims(o) /\ ~Claims(o)' /\ ~Locked(o)'
    BY <2>1 DEF ClaimInv, JournalsBegun, Unjournaled, Claims, Locked, Settled, InHand
  <2>3. \A x \in Ops \ {o} : (Claims(x)' <=> Claims(x)) /\ (Locked(x)' <=> Locked(x))
    BY <2>1 DEF Claims, Locked, Settled, InHand
  <2>4. ClaimsDisjoint'
    BY <2>1, <2>2, <2>3 DEF ClaimInv, ClaimsDisjoint
  <2>5. LocksHeld' /\ JournalsBegun'
    BY <2>1, <2>2, <2>3 DEF ClaimInv, LocksHeld, JournalsBegun, Unjournaled, InHand
  <2> QED
    BY <2>4, <2>5 DEF ClaimInv
<1>3. ASSUME NEW o \in Ops, Approve(o) \/ LaunchFailed(o) \/ StaleRow(o) \/ Crash(o) PROVE ClaimInv'
  <2>1. OwnStep(o)
    BY <1>3 DEF Approve, LaunchFailed, StaleRow, Crash, RowTerminal, ClaimInv, JournalsBegun, Unjournaled,
                OwnStep, Locked, Settled
  <2> QED
    BY <2>1, OwnStepKeepsClaims
<1>4. ASSUME NEW o \in Ops, Fault(o) PROVE ClaimInv'
  <2>1. OwnStep(o)
    BY <1>4 DEF Fault, RecoveryFails, ClaimInv, JournalsBegun, Unjournaled, OwnStep, Locked, Settled
  <2> QED
    BY <2>1, OwnStepKeepsClaims
<1>5. CASE RecCrash
  BY <1>5, HolderAssumption DEF RecCrash, RecIdle, Release, ClaimInv, LocksHeld, JournalsBegun,
          ClaimsDisjoint, Claims, Locked, Settled, InHand
<1>6. CASE RecFault
  BY <1>6 DEF RecFault, RecWrite, RecTarget, ClaimInv, LocksHeld, JournalsBegun,
          ClaimsDisjoint, Claims, Locked, Settled, InHand, Unjournaled
<1> QED
  BY <1>1, <1>2, <1>3, <1>4, <1>5, <1>6, Zenon DEF Environment

\* A reconciling AuditStore takes every slot when all are free, and reopens only journals
\* it has had in hand since.
LEMMA ReconcileKeepsClaims ==
  ASSUME TypeOK, ClaimInv, RecTarget, Reconcile
  PROVE  ClaimInv'
PROOF
<1> USE DEF TypeOK, RecTarget, ClaimInv, wsVars, journalVars, checkpointVars, SetRow, SetJournal
<1>1. CASE RecStart
  <2>1. \A o \in Ops : Claims(o)' => Claims(o)
    BY <1>1 DEF RecStart, Incomplete, Claims, Locked, Settled, InHand
  <2>2. ClaimsDisjoint'
    BY <1>1, <2>1 DEF RecStart, ClaimsDisjoint
  <2>3. JournalsBegun'
    BY <1>1 DEF RecStart, Incomplete, Settled, JournalsBegun, InHand
  <2>4. LocksHeld'
    BY <1>1, HolderAssumption DEF RecStart, Unlocked, LocksHeld, Locked
  <2> QED
    BY <2>2, <2>3, <2>4
<1>2. CASE RecScan
  BY <1>2 DEF RecScan, LocksHeld, JournalsBegun, ClaimsDisjoint, Claims, Locked, Settled, InHand
<1>3. CASE RecVerify
  BY <1>3 DEF RecVerify, RecWrite, LocksHeld, JournalsBegun, ClaimsDisjoint, Claims, Locked,
              Settled, InHand, Unjournaled
<1>4. CASE RecAudit
  BY <1>4 DEF RecAudit, LocksHeld, JournalsBegun, ClaimsDisjoint, Claims, Locked, Settled, InHand
<1>5. CASE RecMark
  BY <1>5, HolderAssumption
     DEF RecMark, RecIdle, Release, LocksHeld, JournalsBegun, ClaimsDisjoint, Claims, Locked,
         Settled, InHand, JournalTerminal
<1>6. CASE RecEnd
  BY <1>6, HolderAssumption
     DEF RecEnd, RecIdle, Release, LocksHeld, JournalsBegun, ClaimsDisjoint, Claims, Locked,
         Settled, InHand
<1>7. ASSUME NEW o \in Ops, RecJournal(o) PROVE ClaimInv'
  BY <1>7 DEF RecJournal, RecWrite, RecProceed, LocksHeld, JournalsBegun, ClaimsDisjoint, Claims,
              Locked, Settled, InHand, Unjournaled
<1>8. ASSUME NEW p \in Paths, RecPath(p) PROVE ClaimInv'
  BY <1>8 DEF RecPath, RecWrite, LocksHeld, JournalsBegun, ClaimsDisjoint, Claims, Locked,
              Settled, InHand, Unjournaled
<1> QED
  BY <1>1, <1>2, <1>3, <1>4, <1>5, <1>6, <1>7, <1>8, Zenon DEF Reconcile

\* Every step preserves the claims.
LEMMA ClaimStep == TypeOK /\ RecTarget /\ ClaimInv /\ [Next]_vars => ClaimInv'
PROOF
<1> SUFFICES ASSUME TypeOK, RecTarget, ClaimInv, [Next]_vars PROVE ClaimInv'
  OBVIOUS
<1>1. ASSUME NEW o \in Ops, Proceed(o) PROVE ClaimInv'
  <2>1. CASE Lock(o)
    BY <2>1, LockKeepsClaims
  <2>2. CASE ~Lock(o)
    BY <1>1, <2>2, ProceedIsOwnStep, OwnStepKeepsClaims
  <2> QED
    BY <2>1, <2>2
<1>2. CASE Reconcile
  BY <1>2, ReconcileKeepsClaims
<1>3. CASE Environment
  BY <1>3, EnvironmentKeepsClaims
<1>4. CASE UNCHANGED vars
  BY <1>4 DEF vars, ClaimInv, LocksHeld, JournalsBegun, ClaimsDisjoint, Claims, Locked, Settled,
              InHand
<1> QED
  BY <1>1, <1>2, <1>3, <1>4 DEF Next, Running

\* For any number of paths, operations, edits, crashes and I/O errors: two transactions whose
\* outcome is open (restore_workspace_state's journal not settled by finalize or by
\* AuditStore's reconciliation) never cover the same path.
THEOREM OpenTransactionsDisjoint == Spec => []NoOverlappingUnsettled
PROOF
<1>1. Init => TypeOK /\ RecTarget /\ ClaimInv
  BY InitTypeOK, InitClaimInv DEF Init, RecTarget
<1>2. ClaimInv => NoOverlappingUnsettled
  BY DEF ClaimInv, ClaimsDisjoint, Claims, NoOverlappingUnsettled, Incomplete
<1> QED
  BY <1>1, <1>2, TypeStep, ClaimStep, PTL DEF Spec

-------------------------------------------------------------------------------
(* Recovery: every write is covered by a durable journal, crashes alone never      *)
(* defeat automatic recovery, and a settled journal and its audit row agree.  All  *)
(* three rest on the disjoint claims above.                                        *)

-------------------------------------------------------------------------------
(* What a journal, a scope and a commit list say while a process is at a place.    *)

\* The journal while its process is at a given place.
FollowsOp(o) ==
  /\ pc[o] = "preflight" => jstate[o] = "preflight"
  /\ pc[o] = "staged" => jstate[o] = "staged"
  /\ pc[o] \in {"scan", "apply"} => jstate[o] = "applying"
  /\ pc[o] = "recover" => jstate[o] \in {"staged", "applying"}
  /\ pc[o] \in {"rconf", "rscan", "rapply"} => jstate[o] \in {"recovering", "applied_verified"}
  /\ pc[o] = "applied" \/ (Kind[o] = "plan" /\ pc[o] = "recorded") =>
       jstate[o] = "applied_verified"
  /\ pc[o] \in {"unlocked", "recorded"} =>
       jstate[o] \in {"applied_verified", "complete", "recovery_required"}
  /\ pc[o] = "finalized" => jstate[o] \in {"complete", "recovery_required"}
  /\ pc[o] = "mark" => jstate[o] \in {"failed_recovered", "failed_preflight"}
  /\ Locked(o) => ~reconciled[o]
  /\ jstate[o] = "complete" => reconciled[o]
  /\ jstate[o] = "none" => ~reconciled[o]

\* The places a process passes until its transaction is applied.
Forward == {"locking", "child", "journal", "preflight", "staged", "scan", "apply", "applied"}

\* Whoever holds its locks or has asked for them by name has a scope, only a worker has a
\* child, and the row of a plan runs until it is recorded.
ScopesOp(o) ==
  /\ Locked(o) \/ row[o] = "pending_approval" => scope[o] # {}
  /\ Kind[o] = "control" /\ pc[o] = "locking" => scope[o] # {}
  /\ pc[o] = "child" => Kind[o] = "sandbox"
  /\ Kind[o] = "plan" /\ pc[o] \in Forward => row[o] = "running"

\* What is still to be written belongs to the change; going forward every file was read as
\* the checkpoint has it.
TodoOp(o) ==
  /\ todo[o] \subseteq Changed(o)
  /\ pc[o] \in Unjournaled => todo[o] = {}
  /\ pc[o] = "apply" => \A p \in scope[o] : seen[o][p] = before[o][p]

JournalOp(o) == FollowsOp(o) /\ ScopesOp(o) /\ TodoOp(o)

\* The copies in the reconciler's memory are behind the journals by a finalize at most.
CopyKept ==
  /\ rpc # "idle" =>
       \A o \in Ops : \/ rcopy[o] = jstate[o]
                      \/ rcopy[o] = "applied_verified" /\ jstate[o] = "complete"
  /\ rpc \in {"rscan", "rapply"} => rcopy[rop] \in {"applying", "recovering"}

JournalInv == (\A o \in Ops : JournalOp(o)) /\ CopyKept

\* Initially no journal exists.
LEMMA InitJournalInv == Init => JournalInv
  BY DEF Init, JournalInv, JournalOp, FollowsOp, ScopesOp, TodoOp, CopyKept, Locked, Unjournaled,
         Forward

\* While a process holds its locks no AuditStore reconciles.
LEMMA LockedExcludes ==
  ASSUME TypeOK, ClaimInv, JournalInv, NEW o \in Ops, Locked(o)
  PROVE  rpc = "idle"
  BY HolderAssumption DEF TypeOK, ClaimInv, LocksHeld, JournalInv, JournalOp, ScopesOp

\* A step a process takes, or the environment takes for it.
StepOf(o) ==
  Proceed(o) \/ Create(o) \/ Approve(o) \/ LaunchFailed(o) \/ Crash(o) \/ StaleRow(o) \/ Fault(o)

\* What belongs to another operation, and to the reconciler, is left alone.
OthersKept(o) ==
  /\ \A x \in Ops \ {o} :
       /\ pc'[x] = pc[x] /\ row'[x] = row[x] /\ jstate'[x] = jstate[x]
       /\ reconciled'[x] = reconciled[x] /\ scope'[x] = scope[x] /\ before'[x] = before[x]
       /\ target'[x] = target[x] /\ seen'[x] = seen[x] /\ todo'[x] = todo[x]
  /\ UNCHANGED <<rpc, rop, rcopy, rqueue, edits>>

LEMMA StepKeepsOthers ==
  ASSUME TypeOK, NEW o \in Ops, StepOf(o)
  PROVE  OthersKept(o)
PROOF
<1> USE DEF TypeOK, OthersKept, wsVars, journalVars, checkpointVars, applyVars, recVars, boundVars,
            SetRow, SetJournal, Goto
<1>1. CASE Lock(o)
  <2>1. UNCHANGED checkpointVars \/ \E s \in SUBSET Paths, t \in States : Checkpoint(o, s, t)
    BY <1>1 DEF Lock, TargetsOf
  <2>2. \A x \in Ops \ {o} : scope'[x] = scope[x] /\ before'[x] = before[x] /\ target'[x] = target[x]
    BY <2>1 DEF Checkpoint
  <2> QED
    BY <1>1, <2>2 DEF Lock
<1>2. CASE Create(o)
  <2>1. UNCHANGED checkpointVars \/ \E s \in SUBSET Paths, t \in States : Checkpoint(o, s, t)
    BY <1>2 DEF Create, TargetsOf
  <2>2. \A x \in Ops \ {o} : scope'[x] = scope[x] /\ before'[x] = before[x] /\ target'[x] = target[x]
    BY <2>1 DEF Checkpoint
  <2> QED
    BY <1>2, <2>2 DEF Create
<1>3. CASE Refuse(o) \/ ChildSucceeds(o) \/ ChildFails(o) \/ WriteJournal(o) \/ Preflight(o)
  BY <1>3 DEF Refuse, ChildSucceeds, ChildFails, WriteJournal, Preflight
<1>4. CASE StartApply(o) \/ ApplyScan(o) \/ VerifyTarget(o) \/ MarkRecovering(o) \/ ConflictScan(o)
           \/ RecoverScan(o) \/ VerifyRecovered(o)
  BY <1>4 DEF StartApply, ApplyScan, VerifyTarget, MarkRecovering, ConflictScan, RecoverScan,
              VerifyRecovered
<1>5. CASE \E p \in Paths : CommitPath(o, p) \/ RecoverPath(o, p)
  BY <1>5 DEF CommitPath, RecoverPath, RecoveryFails
<1>6. CASE PlanRecord(o) \/ UnlockApplied(o) \/ RecordUnlocked(o) \/ Finalize(o)
           \/ FinalizeRaises(o) \/ ControlSucceeds(o) \/ UnlockAborted(o) \/ RecordFailure(o)
           \/ MarkReconciled(o)
  BY <1>6 DEF PlanRecord, UnlockApplied, RecordUnlocked, Finalize, FinalizeRaises,
              ControlSucceeds, UnlockAborted, RecordFailure, MarkReconciled
<1>7. CASE Approve(o) \/ LaunchFailed(o) \/ Crash(o) \/ StaleRow(o)
  BY <1>7 DEF Approve, LaunchFailed, Crash, StaleRow
<1>8. CASE Fault(o)
  BY <1>8 DEF Fault, RecoveryFails
<1> QED
  BY <1>1, <1>2, <1>3, <1>4, <1>5, <1>6, <1>7, <1>8, Zenon DEF StepOf, Proceed

\* A step of a process leaves the journal, the scope and the commit list of its own
\* operation in order.
LEMMA StepKeepsJournal ==
  ASSUME TypeOK, ClaimInv, JournalInv, NEW o \in Ops, StepOf(o)
  PROVE  JournalOp(o)'
PROOF
<1>1. JournalOp(o) /\ (pc[o] \in Unjournaled => jstate[o] = "none")
      /\ (row[o] = "pending_approval" => pc[o] \in {"idle", "locking"} /\ Kind[o] = "control")
  BY DEF JournalInv, ClaimInv, JournalsBegun
<1> USE DEF TypeOK, JournalOp, FollowsOp, ScopesOp, TodoOp, Locked, Unjournaled, Forward, Changed,
            wsVars, journalVars, checkpointVars, applyVars, SetRow, SetJournal, Goto
<1>2. CASE Lock(o)
  <2>1. todo'[o] = {} /\ jstate'[o] = "none" /\ ~(jstate'[o] = "complete")
    BY <1>1, <1>2 DEF Lock
  <2>2. scope'[o] # {} \/ pc'[o] = "aborted"
    <3>1. CASE Kind[o] = "plan"
      <4>1. \E s \in (SUBSET Paths) \ {{}} : \E t \in TargetsOf(s) : Checkpoint(o, s, t)
        BY <1>2, <3>1 DEF Lock
      <4>2. PICK s \in (SUBSET Paths) \ {{}} : scope' = [scope EXCEPT ![o] = s]
        BY <4>1, Zenon DEF Checkpoint
      <4>3. scope'[o] = s
        BY <4>2
      <4> QED
        BY <4>3
    <3>2. CASE Kind[o] = "sandbox"
      BY <1>2, <3>2, PathsAssumption DEF Lock, Checkpoint
    <3>3. CASE Kind[o] = "control"
      BY <1>1, <1>2, <3>3 DEF Lock
    <3> QED
      BY <1>2, <3>1, <3>2, <3>3 DEF Lock
  <2>3. pc'[o] \in {"journal", "child", "aborted"} /\ (pc'[o] = "child" => Kind[o] = "sandbox")
        /\ row'[o] # "pending_approval" /\ (Kind[o] = "plan" => row'[o] = row[o])
    BY <1>1, <1>2, OpsAssumption DEF Lock, Kinds
  <2>4. ~reconciled'[o]
    BY <1>1, <1>2 DEF Lock
  <2> QED
    BY <1>1, <1>2, <2>1, <2>2, <2>3, <2>4 DEF Lock
<1>3. CASE Refuse(o) \/ ChildFails(o)
  BY <1>1, <1>3 DEF Refuse, ChildFails
<1>4. CASE ChildSucceeds(o)
  BY <1>1, <1>4 DEF ChildSucceeds
<1>5. CASE WriteJournal(o)
  BY <1>1, <1>5 DEF WriteJournal
<1>6. CASE Preflight(o)
  BY <1>1, <1>6 DEF Preflight
<1>7. CASE StartApply(o)
  BY <1>1, <1>7 DEF StartApply
<1>8. CASE ApplyScan(o)
  <2>1. todo'[o] \subseteq Changed(o)
    BY <1>1, <1>8 DEF ApplyScan, ToCommit
  <2>2. pc'[o] = "apply" => \A p \in scope[o] : seen'[o][p] = before[o][p]
    BY <1>8 DEF ApplyScan, Matches
  <2> QED
    BY <1>1, <1>8, <2>1, <2>2 DEF ApplyScan
<1>9. CASE \E p \in Paths : CommitPath(o, p)
  BY <1>1, <1>9 DEF CommitPath
<1>10. CASE \E p \in Paths : RecoverPath(o, p)
  BY <1>1, <1>10 DEF RecoverPath, RecoveryFails
<1>11. CASE VerifyTarget(o)
  BY <1>1, <1>11 DEF VerifyTarget
<1>12. CASE MarkRecovering(o) \/ ConflictScan(o)
  BY <1>1, <1>12 DEF MarkRecovering, ConflictScan
<1>13. CASE RecoverScan(o)
  <2>1. todo'[o] \subseteq Changed(o)
    BY <1>1, <1>13 DEF RecoverScan, ToCommit
  <2> QED
    BY <1>1, <1>13, <2>1 DEF RecoverScan
<1>14. CASE VerifyRecovered(o)
  BY <1>1, <1>14 DEF VerifyRecovered
<1>15. CASE PlanRecord(o) \/ UnlockApplied(o)
  BY <1>1, <1>15 DEF PlanRecord, UnlockApplied
<1>16. CASE RecordUnlocked(o)
  BY <1>1, <1>16 DEF RecordUnlocked
<1>17. CASE Finalize(o) \/ FinalizeRaises(o) \/ ControlSucceeds(o)
  BY <1>1, <1>17 DEF Finalize, FinalizeRaises, ControlSucceeds
<1>18. CASE UnlockAborted(o) \/ MarkReconciled(o)
  BY <1>1, <1>18 DEF UnlockAborted, MarkReconciled
<1>19. CASE RecordFailure(o)
  BY <1>1, <1>19 DEF RecordFailure
<1>20. CASE Create(o)
  <2>1. todo'[o] = {} /\ jstate'[o] = "none" /\ pc'[o] \in {"idle", "locking"}
    BY <1>1, <1>20 DEF Create
  <2>2. row'[o] = "pending_approval" => scope'[o] # {}
    <3>1. SUFFICES ASSUME row'[o] = "pending_approval" PROVE scope'[o] # {}
      OBVIOUS
    <3>2. \E s \in (SUBSET Paths) \ {{}} : \E t \in TargetsOf(s) : Checkpoint(o, s, t)
      BY <1>20, <3>1 DEF Create
    <3>3. PICK s \in (SUBSET Paths) \ {{}} : scope' = [scope EXCEPT ![o] = s]
      BY <3>2, Zenon DEF Checkpoint
    <3>4. scope'[o] = s
      BY <3>3
    <3> QED
      BY <3>4
  <2>3. Kind[o] = "plan" => row'[o] = "running"
    BY <1>20 DEF Create
  <2>4. Kind[o] = "control" => pc'[o] = "idle"
    BY <1>20 DEF Create
  <2>5. ~reconciled'[o]
    BY <1>1, <1>20 DEF Create
  <2> QED
    BY <1>1, <2>1, <2>2, <2>3, <2>4, <2>5
<1>21. CASE Approve(o) \/ LaunchFailed(o)
  BY <1>1, <1>21 DEF Approve, LaunchFailed
<1>22. CASE Crash(o) \/ StaleRow(o)
  BY <1>1, <1>22 DEF Crash, StaleRow
<1>23. CASE Fault(o)
  BY <1>1, <1>23 DEF Fault, RecoveryFails
<1> QED
  BY <1>2, <1>3, <1>4, <1>5, <1>6, <1>7, <1>8, <1>9, <1>10, <1>11, <1>12, <1>13, <1>14, <1>15,
     <1>16, <1>17, <1>18, <1>19, <1>20, <1>21, <1>22, <1>23, StepOf(o), Zenon DEF StepOf, Proceed

\* Nothing a process does while an AuditStore reconciles changes a journal, but for the
\* finalize of a result recorded before.
LEMMA StepKeepsCopy ==
  ASSUME TypeOK, ClaimInv, JournalInv, NEW o \in Ops, StepOf(o)
  PROVE  CopyKept'
PROOF
<1>1. OthersKept(o)
  BY StepKeepsOthers
<1>2. CASE rpc = "idle"
  BY <1>1, <1>2 DEF OthersKept, CopyKept
<1>3. CASE rpc # "idle"
  <2>1. ~Locked(o)
    BY <1>3, LockedExcludes
  <2>2. jstate'[o] = jstate[o] \/ (jstate[o] = "applied_verified" /\ jstate'[o] = "complete")
    <3>1. CASE Lock(o) \/ Create(o) \/ Refuse(o) \/ ChildSucceeds(o) \/ ChildFails(o)
               \/ StartApply(o) \/ Approve(o) \/ LaunchFailed(o) \/ Crash(o) \/ StaleRow(o)
      BY <2>1, <3>1 DEF Lock, Create, Refuse, ChildSucceeds, ChildFails, StartApply, Approve,
           LaunchFailed, Crash, StaleRow, Locked, journalVars
    <3>2. CASE PlanRecord(o) \/ UnlockApplied(o) \/ RecordUnlocked(o) \/ FinalizeRaises(o)
               \/ ControlSucceeds(o) \/ UnlockAborted(o) \/ RecordFailure(o) \/ MarkReconciled(o)
      BY <3>2 DEF PlanRecord, UnlockApplied, RecordUnlocked, FinalizeRaises, ControlSucceeds,
           UnlockAborted, RecordFailure, MarkReconciled, journalVars
    <3>3. CASE Finalize(o)
      BY <3>3 DEF Finalize, SetJournal, TypeOK
    <3>4. CASE Fault(o)
      BY <2>1, <3>4 DEF Fault, Locked
    <3>5. CASE WriteJournal(o) \/ Preflight(o) \/ ApplyScan(o) \/ VerifyTarget(o)
               \/ MarkRecovering(o) \/ ConflictScan(o) \/ RecoverScan(o) \/ VerifyRecovered(o)
               \/ \E p \in Paths : CommitPath(o, p) \/ RecoverPath(o, p)
      BY <2>1, <3>5 DEF WriteJournal, Preflight, ApplyScan, VerifyTarget, MarkRecovering,
           ConflictScan, RecoverScan, VerifyRecovered, CommitPath, RecoverPath, Locked
    <3> QED
      BY <3>1, <3>2, <3>3, <3>4, <3>5, Zenon DEF StepOf, Proceed
  <2> QED
    BY <1>1, <2>2 DEF OthersKept, CopyKept, JournalInv, TypeOK
<1> QED
  BY <1>2, <1>3

\* A reconciling AuditStore touches only the operation in hand, whose process, if it still
\* runs, has given its locks back.
ReconcilerStep == Reconcile \/ RecCrash \/ RecFault

LEMMA ReconcilerKeepsJournals ==
  ASSUME TypeOK, RecTarget, ClaimInv, JournalInv, ReconcilerStep
  PROVE  \A o \in Ops : JournalOp(o)'
PROOF
<1> USE DEF TypeOK, RecTarget, JournalOp, FollowsOp, ScopesOp, TodoOp, CopyKept, Locked,
            Unjournaled, Forward, Changed, wsVars, journalVars, checkpointVars, applyVars, recVars, SetRow,
            SetJournal
<1>1. \A o \in Ops : JournalOp(o) /\ (Locked(o) => rpc = "idle")
                     /\ (InHand(o) => jstate[o] # "none" /\ pc[o] \notin Unjournaled)
  BY LockedExcludes DEF JournalInv, ClaimInv, JournalsBegun
<1>2. CopyKept
  BY DEF JournalInv
<1>3. CASE RecStart \/ RecEnd \/ RecCrash
  BY <1>1, <1>3 DEF RecStart, RecEnd, RecCrash, RecIdle
<1>4. CASE RecScan
  <2>1. rop \in Ops /\ InHand(rop)
    BY <1>4 DEF RecScan, InHand
  <2>2. todo'[rop] \subseteq Changed(rop)
    BY <1>4, <2>1 DEF RecScan, ToCommit
  <2>3. \A o \in Ops \ {rop} : seen'[o] = seen[o] /\ todo'[o] = todo[o]
    BY <1>4 DEF RecScan
  <2>4. pc[rop] # "apply"
    BY <1>1, <1>4, <2>1 DEF RecScan
  <2> QED
    BY <1>1, <1>4, <2>1, <2>2, <2>3, <2>4 DEF RecScan
<1>5. ASSUME NEW o \in Ops, RecJournal(o) PROVE JournalOp(o)'
  <2>1. InHand(o) /\ rpc = "next"
    BY <1>5 DEF RecJournal, InHand
  <2> QED
    BY <1>1, <1>2, <1>5, <2>1 DEF RecJournal, RecWrite, RecProceed
<1>6. ASSUME NEW o \in Ops, RecJournal(o), NEW x \in Ops, x # o PROVE JournalOp(x)'
  BY <1>1, <1>6 DEF RecJournal, RecWrite, RecProceed
<1>7. ASSUME NEW p \in Paths, RecPath(p) PROVE \A o \in Ops : JournalOp(o)'
  <2>1. rop \in Ops /\ InHand(rop) /\ rcopy[rop] = jstate[rop] /\ jstate[rop] \in {"applying", "recovering"}
    BY <1>2, <1>7 DEF RecPath, InHand
  <2> QED
    BY <1>1, <1>7, <2>1 DEF RecPath, RecWrite
<1>8. CASE RecVerify
  <2>1. rop \in Ops /\ InHand(rop) /\ rcopy[rop] = jstate[rop] /\ jstate[rop] \in {"applying", "recovering"}
    BY <1>2, <1>8 DEF RecVerify, InHand
  <2> QED
    BY <1>1, <1>8, <2>1 DEF RecVerify, RecWrite
<1>9. CASE RecAudit
  BY <1>1, <1>9 DEF RecAudit, InHand
<1>10. CASE RecMark
  <2>1. rop \in Ops /\ InHand(rop)
    BY <1>10 DEF RecMark, InHand
  <2> QED
    BY <1>1, <1>2, <1>10, <2>1 DEF RecMark, RecIdle
<1>11. CASE RecFault
  <2>1. rop \in Ops /\ InHand(rop) /\ rpc \in {"rscan", "rapply", "db"}
    BY <1>11 DEF RecFault, InHand
  <2>2. jstate[rop] \in {"applying", "recovering", "applied_verified", "complete"}
    BY <1>2, <1>11, <2>1 DEF RecFault
  <2> QED
    BY <1>1, <1>11, <2>1, <2>2 DEF RecFault, RecWrite
<1> QED
  BY <1>3, <1>4, <1>5, <1>6, <1>7, <1>8, <1>9, <1>10, <1>11, ReconcilerStep, Zenon
  DEF ReconcilerStep, Reconcile

\* Its copies follow what it writes.
LEMMA ReconcilerKeepsCopy ==
  ASSUME TypeOK, RecTarget, JournalInv, ReconcilerStep
  PROVE  CopyKept'
PROOF
<1> USE DEF TypeOK, RecTarget, JournalInv, CopyKept, journalVars, SetJournal
<1>1. CASE RecStart \/ RecEnd \/ RecCrash \/ RecScan \/ RecAudit
  BY <1>1 DEF RecStart, RecEnd, RecCrash, RecIdle, RecScan, RecAudit
<1>2. ASSUME NEW o \in Ops, RecJournal(o) PROVE CopyKept'
  BY <1>2 DEF RecJournal, RecWrite, RecProceed
<1>3. ASSUME NEW p \in Paths, RecPath(p) PROVE CopyKept'
  BY <1>3 DEF RecPath, RecWrite
<1>4. CASE RecVerify
  BY <1>4 DEF RecVerify, RecWrite
<1>5. CASE RecMark
  BY <1>5 DEF RecMark, RecIdle
<1>6. CASE RecFault
  BY <1>6 DEF RecFault, RecWrite
<1> QED
  BY <1>1, <1>2, <1>3, <1>4, <1>5, <1>6, ReconcilerStep, Zenon DEF ReconcilerStep, Reconcile

\* The three kinds of step: of an operation's process or of the environment on its behalf,
\* of a reconciling AuditStore, of the user's editor.
LEMMA StepCases ==
  ASSUME Next
  PROVE  \/ \E o \in Ops : StepOf(o)
         \/ ReconcilerStep
         \/ \E p \in Paths, c \in Contents : Edit(p, c)
  BY Zenon DEF Next, Running, Environment, StepOf, ReconcilerStep

\* Journals, scopes and commit lists stay in order in every step.
LEMMA JournalStep == TypeOK /\ RecTarget /\ ClaimInv /\ JournalInv /\ [Next]_vars => JournalInv'
PROOF
<1> SUFFICES ASSUME TypeOK, RecTarget, ClaimInv, JournalInv, [Next]_vars PROVE JournalInv'
  OBVIOUS
<1> USE DEF JournalInv, JournalOp, FollowsOp, ScopesOp, TodoOp, CopyKept, Locked, Changed
<1>1. ASSUME NEW o \in Ops, StepOf(o) PROVE JournalInv'
  <2>1. OthersKept(o) /\ JournalOp(o)' /\ CopyKept'
    BY <1>1, StepKeepsOthers, StepKeepsJournal, StepKeepsCopy
  <2>2. \A x \in Ops \ {o} : JournalOp(x)'
    BY <2>1 DEF OthersKept
  <2> QED
    BY <2>1, <2>2
<1>2. CASE ReconcilerStep
  BY <1>2, ReconcilerKeepsJournals, ReconcilerKeepsCopy
<1>3. ASSUME NEW p \in Paths, NEW c \in Contents, Edit(p, c) PROVE JournalInv'
  BY <1>3 DEF Edit, journalVars, checkpointVars, applyVars, recVars
<1>4. CASE UNCHANGED vars
  BY <1>4 DEF vars
<1> QED
  BY <1>1, <1>2, <1>3, <1>4, StepCases

-------------------------------------------------------------------------------
(* Every write of the program.                                                     *)

\* A process writes a path only in the two commit loops.
LEMMA StepWrites ==
  ASSUME TypeOK, NEW o \in Ops, StepOf(o), NEW p \in Paths, ws'[p] # ws[p]
  PROVE  CommitPath(o, p) \/ RecoverPath(o, p)
PROOF
<1> USE DEF TypeOK, States, wsVars
<1>1. CASE \E q \in Paths : CommitPath(o, q) \/ RecoverPath(o, q)
  <2>1. PICK q \in Paths : CommitPath(o, q) \/ RecoverPath(o, q)
    BY <1>1
  <2>2. q = p
    BY <2>1 DEF CommitPath, RecoverPath
  <2> QED
    BY <2>1, <2>2
<1>2. CASE Lock(o) \/ Refuse(o) \/ ChildSucceeds(o) \/ ChildFails(o) \/ WriteJournal(o)
           \/ Preflight(o) \/ StartApply(o) \/ ApplyScan(o) \/ VerifyTarget(o)
           \/ MarkRecovering(o) \/ ConflictScan(o) \/ RecoverScan(o) \/ VerifyRecovered(o)
  BY <1>2 DEF Lock, Refuse, ChildSucceeds, ChildFails, WriteJournal, Preflight, StartApply,
       ApplyScan, VerifyTarget, MarkRecovering, ConflictScan, RecoverScan, VerifyRecovered
<1>3. CASE PlanRecord(o) \/ UnlockApplied(o) \/ RecordUnlocked(o) \/ Finalize(o)
           \/ FinalizeRaises(o) \/ ControlSucceeds(o) \/ UnlockAborted(o) \/ RecordFailure(o)
           \/ MarkReconciled(o) \/ Create(o) \/ Approve(o) \/ LaunchFailed(o) \/ Crash(o)
           \/ StaleRow(o) \/ Fault(o)
  BY <1>3 DEF PlanRecord, UnlockApplied, RecordUnlocked, Finalize, FinalizeRaises,
       ControlSucceeds, UnlockAborted, RecordFailure, MarkReconciled, Create, Approve,
       LaunchFailed, Crash, StaleRow, Fault
<1> QED
  BY <1>1, <1>2, <1>3, Zenon DEF StepOf, Proceed

\* A step of a process or of an AuditStore that changes a path writes it for a transaction
\* that claims it.
LEMMA Writers ==
  ASSUME TypeOK, Next, NEW p \in Paths, ws'[p] # ws[p], edits' = edits
  PROVE  (\E o \in Ops : CommitPath(o, p) \/ RecoverPath(o, p)) \/ RecPath(p)
PROOF
<1> USE DEF TypeOK, States, wsVars
<1>1. ASSUME NEW o \in Ops, StepOf(o) PROVE CommitPath(o, p) \/ RecoverPath(o, p)
  BY <1>1, StepWrites
<1>2. CASE ReconcilerStep
  <2>1. CASE \E q \in Paths : RecPath(q)
    <3>1. PICK q \in Paths : RecPath(q)
      BY <2>1
    <3>2. q = p
      BY <3>1 DEF RecPath
    <3> QED
      BY <3>1, <3>2
  <2>2. CASE ~\E q \in Paths : RecPath(q)
    BY <1>2, <2>2 DEF ReconcilerStep, Reconcile, RecStart, RecScan, RecVerify, RecAudit, RecMark,
         RecEnd, RecJournal, RecCrash, RecFault
  <2> QED
    BY <2>1, <2>2
<1>3. ASSUME NEW q \in Paths, NEW c \in Contents, Edit(q, c) PROVE FALSE
  BY <1>3 DEF Edit
<1> QED
  BY <1>1, <1>2, <1>3, StepCases

\* What a write meets and leaves: the journal, the lock and the content of the path.
JournaledWrite(p) ==
  \E o \in Incomplete :
    /\ p \in Changed(o) /\ lock[p] \in {o, Reconciler}
    /\ \/ jstate[o] = "applying" /\ ws[p] = before[o][p] /\ ws'[p] = target[o][p]
       \/ jstate[o] \in {"applying", "recovering", "applied_verified"} /\ ws'[p] = before[o][p]

LEMMA WritesAreJournaled ==
  ASSUME TypeOK, RecTarget, ClaimInv, JournalInv, Next,
         NEW p \in Paths, ws'[p] # ws[p], edits' = edits
  PROVE  JournaledWrite(p)
PROOF
<1> USE DEF TypeOK, States, JournalInv
<1>1. ASSUME NEW o \in Ops, CommitPath(o, p) PROVE JournaledWrite(p)
  <2>1. p \in todo[o] /\ pc[o] = "apply" /\ ws[p] = seen[o][p] /\ ws'[p] = target[o][p]
    BY <1>1 DEF CommitPath
  <2>2. p \in Changed(o) /\ jstate[o] = "applying" /\ seen[o][p] = before[o][p]
    BY <2>1 DEF JournalOp, FollowsOp, TodoOp, Changed
  <2>3. o \in Incomplete
    BY <2>2 DEF Incomplete, Settled, JournalTerminal
  <2>4. lock[p] = o
    BY <2>1, <2>2 DEF ClaimInv, LocksHeld, Locked, Changed
  <2> QED
    BY <2>1, <2>2, <2>3, <2>4 DEF JournaledWrite
<1>2. ASSUME NEW o \in Ops, RecoverPath(o, p) PROVE JournaledWrite(p)
  <2>1. p \in todo[o] /\ pc[o] = "rapply" /\ ws'[p] = before[o][p]
    BY <1>2 DEF RecoverPath
  <2>2. p \in Changed(o) /\ jstate[o] \in {"recovering", "applied_verified"}
    BY <2>1 DEF JournalOp, FollowsOp, TodoOp, Changed
  <2>3. o \in Incomplete
    BY <2>2 DEF Incomplete, Settled, JournalTerminal
  <2>4. lock[p] = o
    BY <2>1, <2>2 DEF ClaimInv, LocksHeld, Locked, Changed
  <2> QED
    BY <2>1, <2>2, <2>3, <2>4 DEF JournaledWrite
<1>3. CASE RecPath(p)
  <2>1. p \in todo[rop] /\ rpc = "rapply" /\ ws'[p] = before[rop][p]
    BY <1>3 DEF RecPath, RecTarget
  <2>2. rop \in Ops /\ jstate[rop] \in {"applying", "recovering"}
    BY <2>1 DEF RecTarget, CopyKept
  <2>3. p \in Changed(rop)
    BY <2>1, <2>2 DEF JournalOp, TodoOp
  <2>4. rop \in Incomplete
    BY <2>2 DEF Incomplete, Settled, JournalTerminal
  <2>5. lock[p] = Reconciler
    BY <2>1 DEF ClaimInv, LocksHeld
  <2> QED
    BY <2>1, <2>2, <2>3, <2>4, <2>5 DEF JournaledWrite
<1> QED
  BY <1>1, <1>2, <1>3, Writers

\* For any number of operations, edits, crashes and errors: _apply_manifest changes a path only
\* under its lock, for a durable journal that names it, and going forward it replaces only what
\* the preview checkpoint recorded.
THEOREM WritesJournaled == Spec => MutationsAreJournaled
PROOF
<1>1. Init => TypeOK /\ RecTarget /\ ClaimInv /\ JournalInv
  BY InitTypeOK, InitClaimInv, InitJournalInv DEF Init, RecTarget
<1>2. TypeOK /\ RecTarget /\ ClaimInv /\ JournalInv /\ [Next]_vars =>
        [\A p \in Paths : ws'[p] # ws[p] /\ edits' = edits => JournaledWrite(p)]_vars
  BY WritesAreJournaled
<1> QED
  BY <1>1, <1>2, TypeStep, ClaimStep, JournalStep, PTL DEF Spec, MutationsAreJournaled, JournaledWrite

-------------------------------------------------------------------------------
(* Crashes alone: what a transaction finds in the workspace.                       *)

Quiet == edits = 0 /\ faults = 0

Within(o) == \A p \in scope[o] : ws[p] \in {before[o][p], target[o][p]}

\* Where nothing but crashes happens, every transaction finds its files as it left them.
QuietOp(o) ==
  /\ jstate[o] \notin {"recovering", "recovery_required"}
  /\ pc[o] \notin {"recover", "rconf", "rscan", "rapply"}
  /\ pc[o] \in {"staged", "scan"} => Matches(o, before[o])
  /\ pc[o] = "apply" =>
       \A p \in scope[o] : ws[p] = IF p \in todo[o] THEN before[o][p] ELSE target[o][p]
  /\ jstate[o] = "applying" => Within(o)
  /\ jstate[o] \in {"applied_verified", "complete"} /\ Claims(o) => Matches(o, target[o])

\* So does an AuditStore that puts the checkpoint back.
QuietRecovery ==
  rpc = "rapply" => \A p \in scope[rop] :
    IF p \in todo[rop] THEN seen[rop][p] = ws[p] ELSE ws[p] = before[rop][p]

QuietInv == Quiet => (\A o \in Ops : QuietOp(o)) /\ QuietRecovery

\* Initially no process runs.
LEMMA InitQuietInv == Init => QuietInv
  BY DEF Init, QuietInv, QuietOp, QuietRecovery

\* What is left alone while an operation that claims it takes a step elsewhere.
SameFor(x) ==
  /\ pc'[x] = pc[x] /\ jstate'[x] = jstate[x] /\ scope'[x] = scope[x] /\ before'[x] = before[x]
  /\ target'[x] = target[x] /\ todo'[x] = todo[x]
  /\ Claims(x)' => Claims(x)
  /\ Claims(x) => \A p \in scope[x] : ws'[p] = ws[p]

LEMMA QuietFrame ==
  ASSUME TypeOK, JournalInv, NEW x \in Ops, QuietOp(x), SameFor(x)
  PROVE  QuietOp(x)'
PROOF
<1>1. pc[x] \in {"staged", "scan", "apply"} \/ jstate[x] = "applying" => Claims(x)
  BY DEF Claims, Locked, Settled, JournalTerminal
<1>2. Claims(x) => /\ \A s \in States : Matches(x, s)' <=> Matches(x, s)
                   /\ Within(x)' <=> Within(x)
  BY DEF SameFor, Matches, Within
<1>3. before[x] \in States /\ target[x] \in States
  BY DEF TypeOK
<1>4. pc[x] \in {"staged", "scan"} => Matches(x, before[x])'
  BY <1>1, <1>2, <1>3 DEF QuietOp, SameFor, Matches
<1>5. pc[x] = "apply" =>
        \A p \in scope'[x] : ws'[p] = IF p \in todo'[x] THEN before'[x][p] ELSE target'[x][p]
  BY <1>1 DEF QuietOp, SameFor
<1>6. jstate[x] \in {"applied_verified", "complete"} /\ Claims(x)' => Matches(x, target[x])'
  BY <1>2, <1>3 DEF QuietOp, SameFor, Matches
<1> QED
  BY <1>1, <1>2, <1>4, <1>5, <1>6 DEF QuietOp, SameFor

\* A step of an operation leaves what others claim.
LEMMA StepSameForOthers ==
  ASSUME TypeOK, ClaimInv, JournalInv, NEW o \in Ops, StepOf(o), NEW x \in Ops \ {o}
  PROVE  SameFor(x)
PROOF
<1>1. OthersKept(o)
  BY StepKeepsOthers
<1>2. Claims(x)' <=> Claims(x)
  BY <1>1 DEF OthersKept, Claims, Locked, Settled, InHand
<1>3. ASSUME Claims(x), NEW p \in scope[x], ws'[p] # ws[p] PROVE FALSE
  <2>1. CommitPath(o, p) \/ RecoverPath(o, p)
    BY <1>3, StepWrites DEF TypeOK
  <2>2. p \in scope[o] /\ Locked(o)
    BY <2>1 DEF CommitPath, RecoverPath, JournalInv, JournalOp, TodoOp, Changed, Locked
  <2> QED
    BY <1>3, <2>2 DEF ClaimInv, ClaimsDisjoint, Claims
<1> QED
  BY <1>1, <1>2, <1>3 DEF OthersKept, SameFor

\* In a quiet behaviour a process finds what it expects and goes forward.
LEMMA QuietStep ==
  ASSUME TypeOK, ClaimInv, JournalInv, NEW o \in Ops, StepOf(o), Quiet', QuietOp(o)
  PROVE  QuietOp(o)'
PROOF
<1>1. /\ FollowsOp(o) /\ ScopesOp(o) /\ TodoOp(o)
      /\ pc[o] \in Unjournaled => jstate[o] = "none"
      /\ row[o] = "pending_approval" => pc[o] \in {"idle", "locking"} /\ Kind[o] = "control"
  BY DEF JournalInv, JournalOp, ClaimInv, JournalsBegun
<1>2. InHand(o)' <=> InHand(o)
  BY StepKeepsOthers DEF OthersKept, InHand
<1>3. scope[o] \in SUBSET Paths /\ before[o] \in States /\ target[o] \in States /\ ws \in States
  BY DEF TypeOK
  \* Where only the process moves on, with the same journal.
<1>4. ASSUME UNCHANGED <<ws, jstate, checkpointVars, todo>>,
             pc'[o] \notin {"recover", "rconf", "rscan", "rapply", "staged", "scan", "apply"},
             jstate[o] \in {"applied_verified", "complete"} /\ Claims(o)' => Claims(o)
      PROVE  QuietOp(o)'
  BY <1>4, Zenon DEF QuietOp, checkpointVars, Matches, Within
<1> USE DEF TypeOK, FollowsOp, Unjournaled, wsVars, journalVars, checkpointVars, applyVars, SetRow,
            SetJournal, Goto
<1>5. CASE Lock(o) \/ Create(o) \/ ChildSucceeds(o)
  <2>1. jstate'[o] = "none" /\ pc'[o] \in {"idle", "locking", "child", "journal", "aborted"}
    BY <1>1, <1>5 DEF Lock, Create, ChildSucceeds
  <2> QED
    BY <2>1 DEF QuietOp
<1>6. CASE Refuse(o) \/ ChildFails(o) \/ Approve(o)
  <2>1. jstate'[o] = "none" /\ pc'[o] \in {"idle", "locking", "done", "aborted"}
    BY <1>1, <1>6 DEF Refuse, ChildFails, Approve
  <2> QED
    BY <2>1 DEF QuietOp
<1>7. CASE WriteJournal(o)
  BY <1>7 DEF WriteJournal, QuietOp
<1>8. CASE Preflight(o)
  <2>1. Matches(o, before[o]) => Matches(o, before[o])'
    BY <1>8 DEF Preflight, Matches
  <2> QED
    BY <1>8, <2>1 DEF Preflight, QuietOp
<1>9. CASE StartApply(o)
  <2>1. Matches(o, before[o])' /\ Within(o)'
    BY <1>9 DEF StartApply, Matches, Within, QuietOp
  <2> QED
    BY <1>9, <2>1 DEF StartApply, QuietOp
<1>10. CASE ApplyScan(o)
  <2>1. Matches(o, before[o]) /\ jstate[o] = "applying"
    BY <1>1, <1>10 DEF ApplyScan, QuietOp
  <2>2. todo'[o] = ToCommit(o, target[o]) /\ pc'[o] = "apply" /\ jstate'[o] = "applying"
        /\ UNCHANGED <<ws, scope, before, target>>
    BY <1>10, <2>1 DEF ApplyScan
  <2>3. \A p \in scope[o] : ws[p] = IF p \in ToCommit(o, target[o]) THEN before[o][p] ELSE target[o][p]
    BY <2>1 DEF Matches, ToCommit, Changed
  <2>4. Within(o)'
    BY <2>1, <2>2 DEF Within, Matches
  <2> QED
    BY <2>2, <2>3, <2>4 DEF QuietOp
<1>11. CASE \E p \in Paths : CommitPath(o, p)
  <2>1. PICK p \in Paths : CommitPath(o, p)
    BY <1>11
  <2>2. pc[o] = "apply" /\ p \in todo[o] /\ p \in scope[o] /\ jstate[o] = "applying"
    BY <1>1, <2>1 DEF CommitPath, TodoOp, Changed
  <2>3. ws[p] = seen[o][p]
    BY <1>1, <2>2 DEF QuietOp, TodoOp
  <2>4. ws' = [ws EXCEPT ![p] = target[o][p]] /\ todo'[o] = todo[o] \ {p} /\ pc'[o] = "apply"
        /\ UNCHANGED <<jstate, scope, before, target>>
    BY <2>1, <2>2, <2>3 DEF CommitPath
  <2>5. \A q \in scope[o] : ws'[q] = IF q \in todo'[o] THEN before[o][q] ELSE target[o][q]
    BY <1>3, <2>2, <2>4 DEF QuietOp, States
  <2>6. Within(o)'
    BY <2>4, <2>5 DEF Within
  <2> QED
    BY <2>2, <2>4, <2>5, <2>6 DEF QuietOp
<1>12. CASE VerifyTarget(o)
  <2>1. Matches(o, target[o]) /\ UNCHANGED <<ws, scope, before, target>>
    BY <1>12 DEF VerifyTarget, Matches, QuietOp
  <2>2. Matches(o, target[o])' /\ pc'[o] = "applied" /\ jstate'[o] = "applied_verified"
    BY <1>12, <2>1 DEF VerifyTarget, Matches
  <2> QED
    BY <2>1, <2>2 DEF QuietOp, Matches
<1>13. CASE MarkRecovering(o) \/ ConflictScan(o) \/ RecoverScan(o) \/ VerifyRecovered(o)
            \/ \E p \in Paths : RecoverPath(o, p)
  BY <1>13 DEF QuietOp, MarkRecovering, ConflictScan, RecoverScan, VerifyRecovered, RecoverPath
<1>14. CASE PlanRecord(o)
  <2>1. Matches(o, target[o])
    BY <1>1, <1>14 DEF PlanRecord, QuietOp, Claims, Locked
  <2>2. row[o] = "running"
    BY <1>1, <1>14 DEF PlanRecord, ScopesOp, Forward
  <2> QED
    BY <1>1, <1>4, <1>14, <2>1, <2>2 DEF PlanRecord, Claims, Locked
<1>15. CASE UnlockApplied(o) \/ RecordUnlocked(o) \/ FinalizeRaises(o) \/ ControlSucceeds(o)
            \/ UnlockAborted(o) \/ RecordFailure(o) \/ LaunchFailed(o) \/ StaleRow(o)
  <2>1. /\ UNCHANGED <<ws, jstate, reconciled, checkpointVars, todo>>
        /\ \/ pc'[o] = pc[o]
           \/ /\ pc'[o] \notin {"recover", "rconf", "rscan", "rapply", "staged", "scan", "apply"}
              /\ Locked(o)' => Locked(o)
    BY <1>15 DEF UnlockApplied, RecordUnlocked, FinalizeRaises, ControlSucceeds, UnlockAborted,
         RecordFailure, LaunchFailed, StaleRow, Locked
  <2>2. Claims(o)' => Claims(o)
    BY <1>2, <2>1 DEF Claims, Settled, Locked
  <2> QED
    BY <1>4, <2>1, <2>2 DEF QuietOp, Matches, Within
<1>16. CASE Finalize(o)
  <2>1. Claims(o) /\ jstate[o] = "applied_verified"
    BY <1>16 DEF Finalize, Claims, Settled, JournalTerminal
  <2>2. Matches(o, target[o])'
    BY <1>16, <2>1 DEF Finalize, Matches, QuietOp
  <2> QED
    BY <1>16, <2>2 DEF Finalize, QuietOp
<1>17. CASE MarkReconciled(o)
  BY <1>1, <1>17 DEF MarkReconciled, QuietOp
<1>18. CASE Crash(o)
  <2>1. UNCHANGED <<ws, jstate, reconciled, checkpointVars, todo>> /\ pc'[o] \in {"idle", "dead"}
    BY <1>18 DEF Crash
  <2>2. Claims(o)' => Claims(o)
    BY <1>2, <2>1 DEF Claims, Settled, Locked
  <2> QED
    BY <1>4, <2>1, <2>2
<1>19. CASE Fault(o)
  BY <1>19, BoundsAssumption DEF Fault, Quiet
<1> QED
  BY <1>5, <1>6, <1>7, <1>8, <1>9, <1>10, <1>11, <1>12, <1>13, <1>14, <1>15, <1>16, <1>17, <1>18,
     <1>19, StepOf(o), Zenon DEF StepOf, Proceed

\* The reconciler leaves every operation but the one in hand.
LEMMA ReconcilerSameForOthers ==
  ASSUME TypeOK, RecTarget, ClaimInv, JournalInv, ReconcilerStep, NEW x \in Ops,
         rop' # x \/ RecStart
  PROVE  SameFor(x)
PROOF
<1> USE DEF TypeOK, RecTarget, SameFor, Claims, Locked, Settled, InHand, wsVars, journalVars,
            checkpointVars, applyVars, SetRow, SetJournal
<1>1. CASE RecStart
  BY <1>1 DEF RecStart, Incomplete
<1>2. CASE RecEnd \/ RecCrash
  BY <1>2 DEF RecEnd, RecCrash, RecIdle
<1>3. ASSUME NEW o \in Ops, RecJournal(o), rop' # x PROVE SameFor(x)
  BY <1>3 DEF RecJournal, RecWrite, RecProceed
<1>4. CASE (RecScan \/ RecVerify \/ RecAudit \/ RecMark \/ RecFault) /\ rop' # x
  BY <1>4, HolderAssumption DEF RecScan, RecVerify, RecAudit, RecMark, RecFault, RecWrite, RecIdle
<1>5. ASSUME NEW p \in Paths, RecPath(p), rop' # x PROVE SameFor(x)
  <2>1. rop \in Ops /\ rop # x /\ InHand(rop) /\ p \in scope[rop]
    BY <1>5 DEF RecPath, JournalInv, JournalOp, TodoOp, Changed
  <2>2. Claims(x) => p \notin scope[x]
    BY <1>5, <2>1 DEF ClaimInv, ClaimsDisjoint
  <2>3. \A q \in Paths \ {p} : ws'[q] = ws[q]
    BY <1>5 DEF RecPath, States
  <2>4. Claims(x) => \A q \in scope[x] : ws'[q] = ws[q]
    BY <2>2, <2>3
  <2> QED
    BY <1>5, <2>4 DEF RecPath, RecWrite
<1> QED
  BY <1>1, <1>2, <1>3, <1>4, <1>5, ReconcilerStep, rop' # x \/ RecStart, Zenon
  DEF ReconcilerStep, Reconcile

\* Where only crashes happen, the copy in the reconciler's memory is handled without giving up.
LEMMA QuietReconciler ==
  ASSUME TypeOK, RecTarget, ClaimInv, JournalInv, ReconcilerStep, Quiet', QuietInv
  PROVE  (\A o \in Ops : QuietOp(o)') /\ QuietRecovery'
PROOF
<1>1. CopyKept /\ \A o \in Ops : FollowsOp(o) /\ TodoOp(o) /\ (Locked(o) => rpc = "idle")
  BY LockedExcludes DEF JournalInv, JournalOp
<1>2. Quiet /\ (\A o \in Ops : QuietOp(o)) /\ QuietRecovery
  <2>1. CASE RecFault
    BY <2>1, BoundsAssumption DEF RecFault, Quiet, TypeOK
  <2>2. CASE ~RecFault
    <3>1. UNCHANGED <<edits, faults>>
      BY <2>2, ReconcilerStep
      DEF ReconcilerStep, Reconcile, RecStart, RecScan, RecVerify, RecAudit, RecMark, RecEnd,
          RecJournal, RecPath, RecCrash, wsVars, boundVars
    <3> QED
      BY <3>1 DEF Quiet, QuietInv
  <2> QED
    BY <2>1, <2>2
<1>3. \A x \in Ops : (rop' # x \/ RecStart) => QuietOp(x)'
  BY <1>2, ReconcilerSameForOthers, QuietFrame
  \* The operation in hand keeps its journal or is settled as put back.
<1>4. ASSUME NEW o \in Ops, InHand(o), ~Locked(o), UNCHANGED <<pc, ws, checkpointVars>>,
             jstate'[o] = jstate[o] \/ jstate'[o] \in {"failed_preflight", "failed_recovered"}
      PROVE  QuietOp(o)'
  <2>1. pc[o] \notin {"recover", "rconf", "rscan", "rapply", "staged", "scan", "apply"}
    BY <1>4 DEF Locked
  <2>2. Matches(o, target[o])' <=> Matches(o, target[o])
    BY <1>4 DEF Matches, checkpointVars
  <2>3. Within(o)' <=> Within(o)
    BY <1>4 DEF Within, checkpointVars
  <2> QED
    BY <1>2, <1>4, <2>1, <2>2, <2>3, Zenon DEF QuietOp, Claims
<1> USE DEF TypeOK, RecTarget, CopyKept, wsVars, journalVars, checkpointVars, applyVars, SetRow,
            SetJournal
<1>5. CASE RecStart \/ RecEnd \/ RecCrash
  BY <1>3, <1>5, HolderAssumption DEF RecStart, RecEnd, RecCrash, RecIdle, QuietRecovery
<1>6. ASSUME NEW o \in Ops, RecJournal(o)
      PROVE  (\A x \in Ops : QuietOp(x)') /\ QuietRecovery'
  <2>1. InHand(o) /\ ~Locked(o) /\ rop' = o /\ UNCHANGED <<pc, ws, checkpointVars>>
    BY <1>1, <1>6 DEF RecJournal, InHand
  <2>2. jstate[o] \in {"applied_verified", "complete"} => Matches(o, target[o])
    BY <1>2, <2>1 DEF QuietOp, Claims
  <2>3. jstate[o] = "applying" =>
          Attributable(o) /\ \A p \in scope[o] \ Changed(o) : ws[p] = before[o][p]
    BY <1>2 DEF QuietOp, Within, Attributable, Changed
  <2>4. jstate[o] \notin {"recovering", "recovery_required"}
    BY <1>2 DEF QuietOp
  <2>5. jstate'[o] = jstate[o] \/ jstate'[o] = "failed_preflight"
    BY <1>1, <1>6, <2>2, <2>3, <2>4 DEF RecJournal, RecWrite, RecProceed
  <2>6. QuietOp(o)'
    BY <1>4, <2>1, <2>5
  <2>7. rpc' # "rapply"
    BY <1>6 DEF RecJournal, RecWrite, RecProceed
  <2> QED
    BY <1>3, <2>1, <2>6, <2>7 DEF QuietRecovery
<1>7. CASE RecScan
  <2>1. rop \in Ops /\ InHand(rop) /\ ~Locked(rop) /\ jstate[rop] = "applying"
    BY <1>1, <1>2, <1>7 DEF RecScan, InHand, QuietOp
  <2>2. QuietOp(rop)'
    BY <1>4, <1>7, <2>1 DEF RecScan
  <2>3. Within(rop)
    BY <1>2, <2>1 DEF QuietOp
  <2>4. \A p \in scope[rop] : p \notin ToCommit(rop, before[rop]) => ws[p] = before[rop][p]
    BY <2>1, <2>3 DEF Within, ToCommit, Changed
  <2>5. QuietRecovery'
    BY <1>7, <2>1, <2>4 DEF RecScan, QuietRecovery
  <2> QED
    BY <1>3, <1>7, <2>2, <2>5 DEF RecScan
<1>8. ASSUME NEW p \in Paths, RecPath(p)
      PROVE  (\A x \in Ops : QuietOp(x)') /\ QuietRecovery'
  <2>1. rop \in Ops /\ InHand(rop) /\ ~Locked(rop) /\ jstate[rop] = "applying"
    BY <1>1, <1>2, <1>8 DEF RecPath, InHand, QuietOp
  <2>2. p \in scope[rop] /\ ws[p] = seen[rop][p] /\ Within(rop)
    BY <1>1, <1>2, <1>8, <2>1 DEF RecPath, QuietRecovery, QuietOp, TodoOp, Changed
  <2>3. ws' = [ws EXCEPT ![p] = before[rop][p]] /\ todo'[rop] = todo[rop] \ {p} /\ rop' = rop
        /\ UNCHANGED <<rpc, jstate, reconciled, seen, scope, before, target, pc>>
    BY <1>8, <2>1, <2>2 DEF RecPath
  <2>4. Within(rop)'
    BY <2>2, <2>3 DEF Within, States
  <2>5. QuietRecovery'
    BY <1>2, <1>8, <2>2, <2>3 DEF RecPath, QuietRecovery, States
  <2>6. QuietOp(rop)'
    BY <2>1, <2>3, <2>4 DEF QuietOp, Locked
  <2> QED
    BY <1>3, <2>3, <2>5, <2>6
<1>9. CASE RecVerify
  <2>1. rop \in Ops /\ InHand(rop) /\ ~Locked(rop)
    BY <1>1, <1>9 DEF RecVerify, InHand
  <2>2. Matches(rop, before[rop])
    BY <1>2, <1>9 DEF RecVerify, QuietRecovery, Matches
  <2>3. jstate'[rop] = "failed_recovered" /\ rop' = rop /\ UNCHANGED <<pc, ws, checkpointVars>>
        /\ rpc' = "db"
    BY <1>9, <2>1, <2>2 DEF RecVerify, RecWrite
  <2>4. QuietOp(rop)'
    BY <1>4, <2>1, <2>3
  <2> QED
    BY <1>3, <2>3, <2>4 DEF QuietRecovery
<1>10. CASE RecAudit
  <2>1. rop \in Ops /\ InHand(rop) /\ ~Locked(rop)
    BY <1>1, <1>10 DEF RecAudit, InHand
  <2>2. QuietOp(rop)'
    BY <1>4, <1>10, <2>1 DEF RecAudit
  <2> QED
    BY <1>3, <1>10, <2>2 DEF RecAudit, QuietRecovery
<1>11. CASE RecMark
  <2>1. rop \in Ops /\ InHand(rop) /\ ~Locked(rop) /\ rpc' # "rapply"
    BY <1>1, <1>11 DEF RecMark, RecIdle, InHand
  <2>2. CASE jstate'[rop] = jstate[rop]
    <3>1. CASE rop' = Free
      BY <1>3, <2>1, <3>1, HolderAssumption DEF QuietRecovery
    <3>2. CASE rop' = rop
      <4>1. QuietOp(rop)'
        BY <1>4, <1>11, <2>1, <2>2, <3>2 DEF RecMark
      <4> QED
        BY <1>3, <2>1, <3>2, <4>1 DEF QuietRecovery
    <3> QED
      BY <1>11, <3>1, <3>2 DEF RecMark, RecIdle
  <2>3. CASE jstate'[rop] # jstate[rop]
    <3>1. jstate[rop] = "applied_verified" /\ jstate'[rop] = "complete" /\ rop' = rop
      BY <1>1, <1>11, <2>1, <2>3 DEF RecMark
    <3>2. Matches(rop, target[rop])
      BY <1>2, <2>1, <3>1 DEF QuietOp, Claims
    <3>3. Matches(rop, target[rop])'
      BY <1>11, <3>1, <3>2 DEF RecMark, Matches
    <3>4. QuietOp(rop)'
      BY <1>2, <1>11, <2>1, <3>1, <3>3 DEF RecMark, QuietOp, Locked
    <3> QED
      BY <1>3, <2>1, <3>1, <3>4 DEF QuietRecovery
  <2> QED
    BY <2>2, <2>3
<1>12. CASE RecFault
  BY <1>12, BoundsAssumption DEF RecFault, Quiet
<1> QED
  BY <1>5, <1>6, <1>7, <1>8, <1>9, <1>10, <1>11, <1>12, ReconcilerStep, Zenon
  DEF ReconcilerStep, Reconcile

\* A process that runs without its locks changes no path and no checkpoint.
LEMMA UnlockedSteps ==
  ASSUME NEW o \in Ops, StepOf(o), ~Locked(o), pc[o] \notin {"idle", "locking"}
  PROVE  UNCHANGED <<ws, seen, todo, scope, before>>
PROOF
<1> USE DEF Locked, wsVars, checkpointVars, applyVars
<1>1. CASE Lock(o) \/ Refuse(o) \/ ChildSucceeds(o) \/ ChildFails(o) \/ WriteJournal(o)
           \/ Preflight(o) \/ StartApply(o) \/ ApplyScan(o) \/ VerifyTarget(o)
           \/ MarkRecovering(o) \/ ConflictScan(o) \/ RecoverScan(o) \/ VerifyRecovered(o)
           \/ \E p \in Paths : CommitPath(o, p) \/ RecoverPath(o, p)
  BY <1>1 DEF Lock, Refuse, ChildSucceeds, ChildFails, WriteJournal, Preflight, StartApply,
       ApplyScan, VerifyTarget, MarkRecovering, ConflictScan, RecoverScan, VerifyRecovered,
       CommitPath, RecoverPath
<1>2. CASE PlanRecord(o) \/ UnlockApplied(o) \/ RecordUnlocked(o) \/ Finalize(o)
           \/ FinalizeRaises(o) \/ ControlSucceeds(o) \/ UnlockAborted(o) \/ RecordFailure(o)
           \/ MarkReconciled(o) \/ Create(o) \/ Approve(o) \/ LaunchFailed(o) \/ Crash(o)
           \/ StaleRow(o) \/ Fault(o)
  BY <1>2 DEF PlanRecord, UnlockApplied, RecordUnlocked, Finalize, FinalizeRaises,
       ControlSucceeds, UnlockAborted, RecordFailure, MarkReconciled, Create, Approve,
       LaunchFailed, Crash, StaleRow, Fault
<1> QED
  BY <1>1, <1>2, Zenon DEF StepOf, Proceed

\* A behaviour in which nothing but crashes happens stays one in which every file is accounted for.
LEMMA QuietAlways ==
  TypeOK /\ RecTarget /\ ClaimInv /\ JournalInv /\ QuietInv /\ [Next]_vars => QuietInv'
PROOF
<1> SUFFICES ASSUME TypeOK, RecTarget, ClaimInv, JournalInv, QuietInv, [Next]_vars, Quiet'
             PROVE  (\A o \in Ops : QuietOp(o)') /\ QuietRecovery'
  BY DEF QuietInv
<1>1. ASSUME NEW o \in Ops, StepOf(o) PROVE (\A x \in Ops : QuietOp(x)') /\ QuietRecovery'
  <2>1. OthersKept(o)
    BY <1>1, StepKeepsOthers
  <2>2. faults' = faults \/ faults' = faults + 1
    BY <1>1, Zenon
    DEF StepOf, Proceed, Fault, Lock, Refuse, ChildSucceeds, ChildFails, WriteJournal, Preflight,
        StartApply, ApplyScan, CommitPath, RecoverPath, VerifyTarget, MarkRecovering, ConflictScan,
        RecoverScan, VerifyRecovered, PlanRecord, UnlockApplied, RecordUnlocked, Finalize,
        FinalizeRaises, ControlSucceeds, UnlockAborted, RecordFailure, MarkReconciled, Create,
        Approve, LaunchFailed, Crash, StaleRow, boundVars
  <2>3. Quiet
    BY <2>1, <2>2 DEF Quiet, OthersKept, TypeOK
  <2>4. QuietOp(o)'
    BY <1>1, <2>3, QuietStep DEF QuietInv
  <2>5. \A x \in Ops \ {o} : QuietOp(x)'
    BY <1>1, <2>3, StepSameForOthers, QuietFrame DEF QuietInv
  <2>6. QuietRecovery'
    <3> SUFFICES ASSUME rpc = "rapply" PROVE QuietRecovery'
      BY <2>1 DEF OthersKept, QuietRecovery
    <3>1. rop \in Ops /\ InHand(rop) /\ jstate[rop] \in {"applying", "recovering"}
      BY DEF RecTarget, InHand, JournalInv, CopyKept
    <3>2. rop # o => SameFor(rop)
      BY <1>1, <3>1, StepSameForOthers
    <3>3. ASSUME rop = o PROVE UNCHANGED <<ws, seen, todo, scope, before>>
      <4>1. ~Locked(o) /\ pc[o] \notin {"idle", "locking"}
        BY <3>1, <3>3, LockedExcludes DEF ClaimInv, JournalsBegun, Unjournaled
      <4> QED
        BY <1>1, <4>1, UnlockedSteps
    <3> QED
      BY <2>1, <2>3, <3>1, <3>2, <3>3 DEF OthersKept, QuietInv, QuietRecovery, SameFor, Claims
  <2> QED
    BY <2>4, <2>5, <2>6
<1>2. CASE ReconcilerStep
  BY <1>2, QuietReconciler
<1>3. ASSUME NEW p \in Paths, NEW c \in Contents, Edit(p, c) PROVE FALSE
  BY <1>3 DEF Edit, Quiet, TypeOK
<1>4. CASE UNCHANGED vars
  BY <1>4 DEF vars, Quiet, QuietInv, QuietOp, QuietRecovery, Matches, Within, Claims, Locked,
              Settled, InHand
<1> QED
  BY <1>1, <1>2, <1>3, <1>4, StepCases

\* For any number of operations and crashes, the reconciler's included: without a concurrent edit
\* and without an I/O error no journal is ever left in recovery_required.
THEOREM CrashesRecover == Spec => []CrashesAloneRecover
PROOF
<1>1. Init => TypeOK /\ RecTarget /\ ClaimInv /\ JournalInv /\ QuietInv
  BY InitTypeOK, InitClaimInv, InitJournalInv, InitQuietInv DEF Init, RecTarget
<1>2. QuietInv => CrashesAloneRecover
  BY DEF QuietInv, Quiet, QuietOp, CrashesAloneRecover
<1> QED
  BY <1>1, <1>2, TypeStep, ClaimStep, JournalStep, QuietAlways, PTL DEF Spec

-------------------------------------------------------------------------------
(* The audit row of a transaction whose journal is settled.                        *)

Accidents == edits + faults

\* A plan rolls back an applied transaction after one accident, and fails to after two.
RollbackOp(o) ==
  Kind[o] = "plan" /\ jstate[o] \in {"applied_verified", "complete"} =>
    /\ pc[o] \in {"rconf", "rscan", "rapply"} => Accidents > 0
    /\ pc[o] = "rapply" => Accidents > 1 \/ \A p \in todo[o] : seen[o][p] = ws[p]
    /\ pc[o] \in {"aborted", "failing"} => Accidents > 1

\* A row says succeeded of no transaction put back, and one of CompletedRow's of a completed one.
RowOp(o) ==
  /\ jstate[o] \in {"failed_recovered", "failed_preflight"} /\ reconciled[o] =>
       row[o] # "succeeded"
  /\ jstate[o] = "complete" \/ (jstate[o] = "applied_verified" /\ pc[o] = "recorded") =>
       CompletedRow(o)
  /\ jstate[o] = "complete" /\ row[o] = "committing" => pc[o] \in {"finalized", "done", "dead"}
  /\ pc[o] = "mark" => row[o] # "succeeded"

\* Between the row and the mark, the row is the one the reconciler wrote, unless the plan it
\* belongs to has just recorded the failure of its own rollback.
RowMarked ==
  rpc = "mark" =>
    IF rcopy[rop] \in {"applied_verified", "complete"}
    THEN row[rop] = "succeeded" \/ (Kind[rop] = "plan" /\ row[rop] = "failed" /\ Accidents > 1)
    ELSE row[rop] = "interrupted"

RowInv == (\A o \in Ops : RollbackOp(o) /\ RowOp(o)) /\ RowMarked

\* Initially no journal exists.
LEMMA InitRowInv == Init => RowInv
  BY DEF Init, RowInv, RollbackOp, RowOp, RowMarked

\* Accidents are counted up.
LEMMA StepAccidents ==
  ASSUME TypeOK, NEW o \in Ops, StepOf(o)
  PROVE  /\ Accidents > 0 => Accidents' > 0
         /\ Accidents > 1 => Accidents' > 1
         /\ Fault(o) => Accidents' > 0 /\ (Accidents > 0 => Accidents' > 1) /\ faults' > 0
         /\ faults > 0 => faults' > 0
         /\ ~(Accidents > 0) => Quiet
PROOF
<1>1. edits' = edits
  BY StepKeepsOthers DEF OthersKept
<1>2. faults' = faults \/ faults' = faults + 1
  BY Zenon
  DEF StepOf, Proceed, Fault, Lock, Refuse, ChildSucceeds, ChildFails, WriteJournal, Preflight,
      StartApply, ApplyScan, CommitPath, RecoverPath, VerifyTarget, MarkRecovering, ConflictScan,
      RecoverScan, VerifyRecovered, PlanRecord, UnlockApplied, RecordUnlocked, Finalize,
      FinalizeRaises, ControlSucceeds, UnlockAborted, RecordFailure, MarkReconciled, Create,
      Approve, LaunchFailed, Crash, StaleRow, boundVars
<1>3. edits \in Nat /\ faults \in Nat
  BY BoundsAssumption DEF TypeOK
<1>4. Fault(o) => faults' = faults + 1
  BY DEF Fault
<1> QED
  BY <1>1, <1>2, <1>3, <1>4 DEF Accidents, Quiet

\* A plan leaves an applied transaction half rolled back only after two accidents.
LEMMA StepKeepsRollback ==
  ASSUME TypeOK, ClaimInv, JournalInv, QuietInv, RowInv, NEW o \in Ops, StepOf(o)
  PROVE  RollbackOp(o)'
PROOF
<1>1. FollowsOp(o) /\ ScopesOp(o) /\ TodoOp(o) /\ RollbackOp(o)
      /\ (pc[o] \in Unjournaled => jstate[o] = "none")
  BY DEF JournalInv, JournalOp, ClaimInv, JournalsBegun, RowInv
<1>2. /\ Accidents > 0 => Accidents' > 0
      /\ Accidents > 1 => Accidents' > 1
      /\ Fault(o) => Accidents' > 0 /\ (Accidents > 0 => Accidents' > 1)
      /\ ~(Accidents > 0) => Quiet
  BY StepAccidents
<1> USE DEF TypeOK, FollowsOp, Unjournaled, RollbackOp, wsVars, journalVars,
            checkpointVars, applyVars, SetRow, SetJournal, Goto
<1>3. CASE Lock(o) \/ Create(o) \/ Refuse(o) \/ ChildSucceeds(o) \/ ChildFails(o) \/ Approve(o)
  <2>1. pc[o] \in Unjournaled /\ UNCHANGED jstate
    BY <1>3 DEF Lock, Create, Refuse, ChildSucceeds, ChildFails, Approve
  <2> QED
    BY <1>1, <2>1
<1>4. CASE WriteJournal(o) \/ Preflight(o) \/ StartApply(o) \/ VerifyTarget(o)
           \/ MarkRecovering(o) \/ ConflictScan(o) \/ VerifyRecovered(o)
  BY <1>1, <1>2, <1>4 DEF WriteJournal, Preflight, StartApply, VerifyTarget, MarkRecovering,
                          ConflictScan, VerifyRecovered
<1>5. CASE ApplyScan(o) \/ \E p \in Paths : CommitPath(o, p)
  BY <1>1, <1>5 DEF ApplyScan, CommitPath
<1>6. CASE RecoverScan(o)
  <2>1. seen'[o] = ws' /\ UNCHANGED jstate /\ pc[o] = "rscan" /\ pc'[o] = "rapply"
    BY <1>6 DEF RecoverScan
  <2> QED
    BY <1>1, <1>2, <2>1
<1>7. CASE \E p \in Paths : RecoverPath(o, p)
  <2>1. PICK p \in Paths : RecoverPath(o, p)
    BY <1>7
  <2>2. pc[o] = "rapply" /\ p \in todo[o] /\ todo[o] \subseteq Paths
    BY <2>1 DEF RecoverPath
  <2>3. CASE ws[p] = seen[o][p]
    <3>1. /\ UNCHANGED <<pc, jstate, seen>> /\ todo'[o] = todo[o] \ {p}
          /\ \A q \in Paths \ {p} : ws'[q] = ws[q]
      BY <2>1, <2>3 DEF RecoverPath, States
    <3>2. (\A q \in todo[o] : seen[o][q] = ws[q]) => (\A q \in todo'[o] : seen'[o][q] = ws'[q])
      BY <2>2, <3>1
    <3> QED
      BY <1>1, <1>2, <2>2, <3>1, <3>2
  <2>4. CASE ws[p] # seen[o][p]
    BY <1>1, <1>2, <2>1, <2>2, <2>4 DEF RecoverPath, RecoveryFails
  <2> QED
    BY <2>3, <2>4
<1>8. CASE PlanRecord(o)
  <2>1. row[o] = "running" /\ jstate[o] = "applied_verified" /\ Locked(o)
    BY <1>1, <1>8 DEF PlanRecord, ScopesOp, Forward, Locked
  <2>2. Accidents > 0 \/ Matches(o, target[o])
    BY <1>2, <2>1 DEF QuietInv, QuietOp, Claims
  <2>3. pc'[o] = "recorded" \/ (pc'[o] = "rconf" /\ Accidents' > 0)
    BY <1>2, <1>8, <2>1, <2>2 DEF PlanRecord
  <2> QED
    BY <2>3
<1>9. CASE UnlockApplied(o) \/ RecordUnlocked(o) \/ FinalizeRaises(o) \/ ControlSucceeds(o)
           \/ UnlockAborted(o) \/ RecordFailure(o) \/ LaunchFailed(o) \/ StaleRow(o) \/ Crash(o)
           \/ MarkReconciled(o)
  <2>1. /\ UNCHANGED <<ws, jstate, seen, todo>>
        /\ \/ pc'[o] = pc[o]
           \/ pc'[o] \notin {"rconf", "rscan", "rapply", "aborted", "failing"}
           \/ pc[o] = "aborted" /\ pc'[o] = "failing"
    BY <1>9 DEF UnlockApplied, RecordUnlocked, FinalizeRaises, ControlSucceeds, UnlockAborted,
         RecordFailure, LaunchFailed, StaleRow, Crash, MarkReconciled
  <2> QED
    BY <1>1, <1>2, <2>1
<1>10. CASE Finalize(o)
  BY <1>10 DEF Finalize
<1>11. CASE Fault(o)
  <2>1. pc'[o] = "aborted" /\ Kind[o] = "plan" /\ jstate'[o] \in {"applied_verified", "complete"}
          => pc[o] \in {"rconf", "rscan", "rapply"} /\ jstate'[o] = jstate[o]
    BY <1>1, <1>11 DEF Fault, RecoveryFails
  <2>2. pc'[o] \notin {"rscan", "rapply", "failing"}
    BY <1>11 DEF Fault, RecoveryFails
  <2> QED
    BY <1>1, <1>2, <1>11, <2>1, <2>2
<1> QED
  BY <1>3, <1>4, <1>5, <1>6, <1>7, <1>8, <1>9, <1>10, <1>11, StepOf(o), Zenon DEF StepOf, Proceed

\* The exceptions of CompletedRow outlast further accidents.
LEMMA CompletedRowKept ==
  ASSUME TypeOK, NEW o \in Ops, StepOf(o), NEW x \in Ops, CompletedRow(x), row'[x] = row[x]
  PROVE  CompletedRow(x)'
PROOF
<1>1. (faults > 0 => faults' > 0) /\ (Accidents > 1 => Accidents' > 1)
  BY StepAccidents
<1> QED
  BY <1>1 DEF CompletedRow, Accidents

\* Each caller writes the row that fits its journal.
LEMMA StepKeepsRow ==
  ASSUME TypeOK, ClaimInv, JournalInv, RowInv, NEW o \in Ops, StepOf(o)
  PROVE  RowOp(o)'
PROOF
<1>1. FollowsOp(o) /\ RollbackOp(o) /\ RowOp(o) /\ (pc[o] \in Unjournaled => jstate[o] = "none")
  BY DEF JournalInv, JournalOp, ClaimInv, JournalsBegun, RowInv
<1>2. (Accidents > 1 => Accidents' > 1) /\ (Fault(o) => faults' > 0)
  BY StepAccidents
<1>3. CompletedRow(o) /\ row'[o] = row[o] => CompletedRow(o)'
  BY CompletedRowKept
<1> USE DEF TypeOK, FollowsOp, Unjournaled, RowOp, journalVars, SetRow, SetJournal, Goto
<1>4. CASE Lock(o) \/ Create(o) \/ Refuse(o) \/ ChildSucceeds(o) \/ ChildFails(o) \/ Approve(o)
  <2>1. jstate'[o] = "none" /\ pc'[o] # "mark"
    BY <1>1, <1>4 DEF Lock, Create, Refuse, ChildSucceeds, ChildFails, Approve
  <2> QED
    BY <2>1
<1>5. CASE WriteJournal(o) \/ Preflight(o) \/ StartApply(o) \/ VerifyTarget(o)
           \/ MarkRecovering(o) \/ ConflictScan(o) \/ VerifyRecovered(o)
  BY <1>1, <1>5 DEF WriteJournal, Preflight, StartApply, VerifyTarget, MarkRecovering,
                    ConflictScan, VerifyRecovered, Locked
<1>6. CASE ApplyScan(o) \/ RecoverScan(o) \/ \E p \in Paths : CommitPath(o, p) \/ RecoverPath(o, p)
  BY <1>1, <1>6 DEF ApplyScan, RecoverScan, CommitPath, RecoverPath, RecoveryFails
<1>7. CASE PlanRecord(o)
  BY <1>1, <1>7 DEF PlanRecord, CompletedRow
<1>8. CASE UnlockApplied(o) \/ UnlockAborted(o)
  BY <1>1, <1>3, <1>8 DEF UnlockApplied, UnlockAborted
<1>9. CASE RecordUnlocked(o)
  <2>1. CASE row'[o] = row[o] /\ pc'[o] = "done"
    BY <1>1, <1>3, <1>9, <2>1 DEF RecordUnlocked
  <2>2. CASE Kind[o] = "sandbox" /\ row'[o] \in {"succeeded", "timed_out"}
    BY <1>1, <1>9, <2>2 DEF RecordUnlocked, CompletedRow
  <2>3. CASE Kind[o] = "control" /\ row[o] = "running" /\ row'[o] = "committing"
    <3>1. jstate[o] # "complete"
      BY <1>1, <2>3 DEF CompletedRow
    <3> QED
      BY <1>1, <1>9, <2>3, <3>1 DEF RecordUnlocked, CompletedRow
  <2> QED
    BY <1>9, <2>1, <2>2, <2>3 DEF RecordUnlocked
<1>10. CASE Finalize(o)
  BY <1>1, <1>3, <1>10 DEF Finalize
<1>11. CASE FinalizeRaises(o)
  <2>1. jstate[o] = "complete" => row[o] # "committing"
    BY <1>1, <1>11 DEF FinalizeRaises
  <2>2. UNCHANGED jstate /\ pc'[o] = "done" /\ (row'[o] # "succeeded" \/ row'[o] = row[o])
    BY <1>11 DEF FinalizeRaises
  <2> QED
    BY <1>1, <1>3, <1>11, <2>1 DEF FinalizeRaises
<1>12. CASE ControlSucceeds(o)
  <2>1. CASE row[o] = "committing"
    BY <1>1, <1>12, <2>1 DEF ControlSucceeds, CompletedRow
  <2>2. CASE row[o] # "committing"
    BY <1>1, <1>3, <1>12, <2>2 DEF ControlSucceeds
  <2> QED
    BY <2>1, <2>2
<1>13. CASE RecordFailure(o)
  <2>1. CASE row'[o] = row[o]
    BY <1>1, <1>3, <1>13, <2>1 DEF RecordFailure
  <2>2. CASE row'[o] # row[o]
    <3>1. UNCHANGED journalVars /\ pc[o] = "failing" /\ pc'[o] \in {"mark", "done"}
      BY <1>13 DEF RecordFailure
    <3>2. row'[o] \in {"failed", "conflict", "timed_out"} /\ (Kind[o] = "plan" => row'[o] = "failed")
      BY <1>13, <2>2 DEF RecordFailure
    <3>3. Kind[o] # "plan" => row[o] \in {"queued", "running", "committing"}
      BY <1>13, <2>2 DEF RecordFailure
    <3>4. jstate[o] = "complete" => Kind[o] = "plan"
      BY <1>1, <3>1, <3>3 DEF CompletedRow
    <3>5. jstate[o] = "complete" => Accidents' > 1
      BY <1>1, <1>2, <3>1, <3>4 DEF RollbackOp
    <3> QED
      BY <3>1, <3>2, <3>4, <3>5 DEF CompletedRow, Accidents
  <2> QED
    BY <2>1, <2>2
<1>14. CASE MarkReconciled(o)
  BY <1>1, <1>3, <1>14 DEF MarkReconciled
<1>15. CASE LaunchFailed(o) \/ StaleRow(o)
  <2>1. row[o] \in {"queued", "running", "committing"} /\ (row[o] = "committing" => Kind[o] = "sandbox")
        /\ row'[o] \in {"failed", "interrupted", "cancelled"}
    BY <1>15 DEF LaunchFailed, StaleRow
  <2>2. ~CompletedRow(o)
    BY <2>1 DEF CompletedRow
  <2> QED
    BY <1>1, <1>15, <2>1, <2>2 DEF LaunchFailed, StaleRow
<1>16. CASE Crash(o)
  BY <1>1, <1>3, <1>16 DEF Crash
<1>17. CASE Fault(o)
  <2>1. CASE pc[o] \notin {"unlocked", "recorded"}
    <3>1. row'[o] = row[o] /\ pc'[o] \in {"aborted", "recover", "rconf"} /\ Locked(o)
      BY <1>17, <2>1 DEF Fault, RecoveryFails, Locked
    <3>2. jstate'[o] = jstate[o] \/ jstate'[o] \in {"failed_preflight", "recovery_required"}
      BY <1>17, <2>1 DEF Fault, RecoveryFails
    <3>3. ~reconciled'[o]
      BY <1>1, <1>17, <3>1 DEF Fault
    <3> QED
      BY <1>1, <1>3, <3>1, <3>2, <3>3
  <2>2. CASE Kind[o] = "plan" /\ pc[o] = "recorded"
    BY <1>1, <1>3, <1>17, <2>2 DEF Fault
  <2>3. CASE Kind[o] = "control" /\ pc[o] = "recorded"
    <3>1. jstate[o] = "complete" => row[o] # "committing"
      BY <1>1, <2>3
    <3>2. pc'[o] = "done" /\ UNCHANGED journalVars /\ (row'[o] = row[o] \/ (row[o] = "committing" /\ row'[o] = "interrupted"))
      BY <1>17, <2>3 DEF Fault
    <3> QED
      BY <1>1, <1>3, <3>1, <3>2
  <2>4. CASE Kind[o] = "sandbox" /\ pc[o] = "unlocked"
    BY <1>1, <1>2, <1>17, <2>4 DEF Fault, CompletedRow
  <2>5. CASE Kind[o] = "sandbox" /\ pc[o] = "recorded"
    BY <1>1, <1>3, <1>17, <2>5 DEF Fault
  <2> QED
    BY <1>17, <2>1, <2>2, <2>3, <2>4, <2>5, OpsAssumption DEF Fault, Kinds
<1> QED
  BY <1>4, <1>5, <1>6, <1>7, <1>8, <1>9, <1>10, <1>11, <1>12, <1>13, <1>14, <1>15, <1>16, <1>17,
     StepOf(o), Zenon DEF StepOf, Proceed

\* While an AuditStore is about to mark a journal, only a plan's own failure replaces the row.
LEMMA StepKeepsMark ==
  ASSUME TypeOK, ClaimInv, JournalInv, RowInv, NEW o \in Ops, StepOf(o), RecTarget
  PROVE  RowMarked'
PROOF
<1>1. OthersKept(o) /\ (Accidents > 1 => Accidents' > 1)
  BY StepKeepsOthers, StepAccidents
<1>2. CASE rpc # "mark" \/ rop # o
  BY <1>1, <1>2 DEF OthersKept, RowInv, RowMarked, RecTarget
<1>3. CASE rpc = "mark" /\ rop = o
  <2>1. /\ ~Locked(o) /\ pc[o] \notin {"idle", "locking"}
        /\ FollowsOp(o) /\ RollbackOp(o)
        /\ \/ rcopy[o] = jstate[o]
           \/ rcopy[o] = "applied_verified" /\ jstate[o] = "complete"
    BY <1>3, LockedExcludes
    DEF ClaimInv, JournalsBegun, InHand, Unjournaled, JournalInv, JournalOp, CopyKept, RowInv
  <2>2. row[o] \in {"succeeded", "failed", "interrupted"}
    BY <1>3 DEF RowInv, RowMarked
  <2>3. CASE row'[o] = row[o]
    BY <1>1, <1>3, <2>3 DEF OthersKept, RowInv, RowMarked
  <2>4. CASE row'[o] # row[o]
    <3>1. RecordFailure(o)
      <4>1. CASE Lock(o) \/ Refuse(o) \/ ChildSucceeds(o) \/ ChildFails(o) \/ WriteJournal(o)
                 \/ Preflight(o) \/ StartApply(o) \/ ApplyScan(o) \/ VerifyTarget(o)
                 \/ MarkRecovering(o) \/ ConflictScan(o) \/ RecoverScan(o) \/ VerifyRecovered(o)
                 \/ \E p \in Paths : CommitPath(o, p) \/ RecoverPath(o, p)
        BY <2>1, <2>4, <4>1 DEF Lock, Refuse, ChildSucceeds, ChildFails, WriteJournal, Preflight,
             StartApply, ApplyScan, VerifyTarget, MarkRecovering, ConflictScan, RecoverScan,
             VerifyRecovered, CommitPath, RecoverPath, Locked
      <4>2. CASE PlanRecord(o) \/ UnlockApplied(o) \/ RecordUnlocked(o) \/ Finalize(o)
                 \/ FinalizeRaises(o) \/ ControlSucceeds(o) \/ UnlockAborted(o)
                 \/ MarkReconciled(o) \/ Create(o) \/ Approve(o) \/ LaunchFailed(o) \/ Crash(o)
                 \/ StaleRow(o)
        BY <2>1, <2>2, <2>4, <4>2 DEF PlanRecord, UnlockApplied, RecordUnlocked, Finalize,
             FinalizeRaises, ControlSucceeds, UnlockAborted, MarkReconciled, Create, Approve,
             LaunchFailed, Crash, StaleRow, Locked, SetRow, TypeOK
      <4>3. CASE Fault(o)
        BY <2>1, <2>2, <2>4, <4>3 DEF Fault, Locked, SetRow, TypeOK
      <4> QED
        BY <4>1, <4>2, <4>3, StepOf(o), Zenon DEF StepOf, Proceed
    <3>2. pc[o] = "failing" /\ Kind[o] = "plan" /\ row[o] = "succeeded" /\ row'[o] = "failed"
      BY <2>2, <2>4, <3>1 DEF RecordFailure, SetRow, TypeOK
    <3>3. jstate[o] \in {"applied_verified", "complete"} /\ rcopy[o] \in {"applied_verified", "complete"}
      BY <1>3, <2>1, <3>2 DEF RowInv, RowMarked
    <3>4. Accidents > 1
      BY <2>1, <3>2, <3>3 DEF RollbackOp
    <3> QED
      BY <1>1, <1>3, <3>2, <3>3, <3>4 DEF OthersKept, RowMarked
  <2> QED
    BY <2>3, <2>4
<1> QED
  BY <1>2, <1>3

\* RollbackOp and RowOp of an operation whose own variables a step leaves alone.
LEMMA RowFrame ==
  ASSUME TypeOK, NEW x \in Ops, RollbackOp(x), RowOp(x), SameFor(x), seen'[x] = seen[x],
         row'[x] = row[x], reconciled'[x] = reconciled[x], TodoOp(x),
         Accidents > 0 => Accidents' > 0, Accidents > 1 => Accidents' > 1,
         CompletedRow(x) => CompletedRow(x)'
  PROVE  RollbackOp(x)' /\ RowOp(x)'
PROOF
<1>1. RowOp(x)'
  BY DEF RowOp, SameFor
<1>2. RollbackOp(x)'
  <2>1. pc[x] = "rapply" => \A p \in todo[x] : ws'[p] = ws[p]
    BY DEF SameFor, TodoOp, Changed, Claims, Locked
  <2> QED
    BY <2>1 DEF RollbackOp, SameFor
<1> QED
  BY <1>1, <1>2

\* The reconciler's row and its mark fit the journal it has in memory.
LEMMA ReconcilerKeepsRows ==
  ASSUME TypeOK, RecTarget, ClaimInv, JournalInv, RowInv, ReconcilerStep
  PROVE  RowInv'
PROOF
<1>1. /\ CopyKept /\ RowMarked
      /\ \A o \in Ops : FollowsOp(o) /\ TodoOp(o) /\ RollbackOp(o) /\ RowOp(o) /\ (Locked(o) => rpc = "idle")
  BY LockedExcludes DEF JournalInv, JournalOp, RowInv
<1>2. (Accidents > 0 => Accidents' > 0) /\ (Accidents > 1 => Accidents' > 1) /\ (faults > 0 => faults' > 0)
  <2>1. edits' = edits /\ (faults' = faults \/ faults' = faults + 1)
    BY Zenon
    DEF ReconcilerStep, Reconcile, RecStart, RecScan, RecVerify, RecAudit, RecMark, RecEnd,
        RecJournal, RecPath, RecCrash, RecFault, wsVars, boundVars
  <2>2. edits \in Nat /\ faults \in Nat
    BY BoundsAssumption DEF TypeOK
  <2> QED
    BY <2>1, <2>2 DEF Accidents
<1>3. \A x \in Ops : row'[x] = row[x] /\ CompletedRow(x) => CompletedRow(x)'
  BY <1>2 DEF CompletedRow, Accidents
  \* The operation in hand has no lock left: only its row and its journal matter.
<1>4. \A o \in Ops : rpc # "idle" /\ UNCHANGED pc /\ jstate'[o] = jstate[o] => RollbackOp(o)'
  BY <1>1, <1>2 DEF RollbackOp, Locked
<1> USE DEF TypeOK, RecTarget, CopyKept, wsVars, journalVars, checkpointVars, applyVars, SetRow,
            SetJournal
<1>5. \A x \in Ops : (rop' # x \/ RecStart) => RollbackOp(x)' /\ RowOp(x)'
  <2> SUFFICES ASSUME NEW x \in Ops, rop' # x \/ RecStart PROVE RollbackOp(x)' /\ RowOp(x)'
    OBVIOUS
  <2>1. SameFor(x)
    BY ReconcilerSameForOthers
  <2>2. seen'[x] = seen[x] /\ row'[x] = row[x] /\ reconciled'[x] = reconciled[x]
    BY ReconcilerStep, rop' # x \/ RecStart
    DEF ReconcilerStep, Reconcile, RecStart, RecScan, RecVerify, RecAudit, RecMark, RecEnd,
        RecJournal, RecPath, RecCrash, RecFault, RecWrite, RecProceed
  <2> QED
    BY <1>1, <1>2, <1>3, <2>1, <2>2, RowFrame
<1>6. CASE RecStart \/ RecEnd \/ RecCrash
  <2>1. RowMarked' /\ (RecStart \/ rop' = Free)
    BY <1>6 DEF RecStart, RecEnd, RecCrash, RecIdle, RowMarked
  <2> QED
    BY <1>5, <2>1, HolderAssumption DEF RowInv
  \* A journal given up or put back is no longer marked.
<1>7. ASSUME NEW o \in Ops, rop' = o, rpc # "idle", rpc' # "mark", UNCHANGED <<row, pc>>,
             \/ jstate'[o] = jstate[o] /\ reconciled'[o] = reconciled[o]
             \/ /\ ~reconciled'[o] /\ pc[o] # "mark"
                /\ jstate'[o] \in {"failed_preflight", "failed_recovered", "recovery_required"}
      PROVE  RowInv'
  <2>1. RollbackOp(o)'
    BY <1>4, <1>7 DEF RollbackOp
  <2>2. RowOp(o)'
    BY <1>1, <1>3, <1>7 DEF RowOp
  <2> QED
    BY <1>5, <1>7, <2>1, <2>2 DEF RowInv, RowMarked
<1>8. ASSUME NEW o \in Ops, RecJournal(o) PROVE RowInv'
  <2>1. rop' = o /\ rpc = "next" /\ rpc' # "mark" /\ UNCHANGED <<row, pc>>
    BY <1>8 DEF RecJournal, RecWrite, RecProceed
  <2>2. \/ jstate'[o] = jstate[o] /\ reconciled'[o] = reconciled[o]
        \/ /\ ~reconciled'[o] /\ jstate[o] \notin {"failed_preflight", "failed_recovered"}
           /\ jstate'[o] \in {"failed_preflight", "failed_recovered", "recovery_required"}
    BY <1>1, <1>8, <2>1 DEF RecJournal, RecWrite, RecProceed
  <2> QED
    BY <1>1, <1>7, <2>1, <2>2 DEF FollowsOp
<1>9. CASE RecScan \/ RecVerify \/ RecFault \/ \E p \in Paths : RecPath(p)
  <2>1. rop \in Ops /\ rop' = rop /\ rpc \in {"rscan", "rapply", "db"} /\ rpc' # "mark" /\ UNCHANGED <<row, pc>>
    BY <1>9 DEF RecScan, RecVerify, RecFault, RecPath, RecWrite
  <2>2. jstate[rop] \notin {"failed_preflight", "failed_recovered"}
    BY <1>1, <1>9, <2>1 DEF RecScan, RecVerify, RecFault, RecPath
  <2>3. \/ jstate'[rop] = jstate[rop] /\ reconciled'[rop] = reconciled[rop]
        \/ /\ ~reconciled'[rop]
           /\ jstate'[rop] \in {"failed_preflight", "failed_recovered", "recovery_required"}
    BY <1>9, <2>1 DEF RecScan, RecVerify, RecFault, RecPath, RecWrite
  <2> QED
    BY <1>1, <1>7, <2>1, <2>2, <2>3 DEF FollowsOp
<1>10. CASE RecAudit
  <2>1. rop \in Ops /\ rop' = rop /\ rpc' = "mark" /\ UNCHANGED <<jstate, reconciled, rcopy, pc>>
        /\ row'[rop] = (IF rcopy[rop] \in {"applied_verified", "complete"} THEN "succeeded" ELSE "interrupted")
    BY <1>10 DEF RecAudit
  <2>2. RowMarked'
    BY <2>1 DEF RowMarked
  <2>3. RollbackOp(rop)'
    BY <1>4, <1>10, <2>1 DEF RecAudit
  <2>4. rcopy[rop] = jstate[rop] \/ (rcopy[rop] = "applied_verified" /\ jstate[rop] = "complete")
    BY <1>1, <1>10, <2>1 DEF RecAudit
  <2>5. RowOp(rop)'
    BY <1>1, <2>1, <2>4 DEF RowOp, CompletedRow, FollowsOp
  <2> QED
    BY <1>5, <2>1, <2>2, <2>3, <2>5 DEF RowInv
<1>11. CASE RecMark
  <2>1. rop \in Ops /\ rpc = "mark" /\ rpc' # "mark" /\ UNCHANGED <<row, pc>>
    BY <1>11 DEF RecMark, RecIdle
  <2>2. CASE rop' = Free
    BY <1>5, <2>1, <2>2, HolderAssumption DEF RowInv, RowMarked
  <2>3. CASE rcopy[rop] = "applied_verified" /\ jstate[rop] = "applied_verified"
    <3>1. rop' = rop /\ jstate'[rop] = "complete" /\ CompletedRow(rop) /\ row[rop] # "committing"
      BY <1>1, <1>11, <2>1, <2>3 DEF RecMark, RowMarked, CompletedRow, Accidents
    <3>2. RollbackOp(rop)'
      BY <1>1, <1>2, <2>1, <2>3, <3>1 DEF RollbackOp, Locked
    <3>3. pc[rop] # "mark"
      BY <1>1, <2>1, <2>3 DEF FollowsOp
    <3>4. RowOp(rop)'
      BY <1>3, <2>1, <3>1, <3>3 DEF RowOp
    <3> QED
      BY <1>5, <2>1, <3>1, <3>2, <3>4 DEF RowInv, RowMarked
  <2>4. CASE rop' = rop /\ rcopy[rop] # "applied_verified"
    <3>1. rcopy[rop] = jstate[rop] /\ jstate'[rop] = jstate[rop]
      BY <1>1, <1>11, <2>1, <2>4 DEF RecMark
    <3>2. RollbackOp(rop)'
      BY <1>4, <2>1, <2>4, <3>1
    <3>3. jstate[rop] \in {"failed_recovered", "failed_preflight"} => row[rop] = "interrupted"
      BY <1>1, <2>1, <3>1 DEF RowMarked
    <3>4. RowOp(rop)'
      BY <1>1, <1>3, <1>11, <2>1, <2>4, <3>1, <3>3 DEF RowOp, RecMark
    <3> QED
      BY <1>5, <2>1, <2>4, <3>2, <3>4 DEF RowInv, RowMarked
  <2> QED
    BY <1>11, <2>2, <2>3, <2>4 DEF RecMark, RecIdle
<1> QED
  BY <1>6, <1>8, <1>9, <1>10, <1>11, ReconcilerStep, Zenon DEF ReconcilerStep, Reconcile

\* Journal and row stay in agreement in every step.
LEMMA RowStep ==
  TypeOK /\ RecTarget /\ ClaimInv /\ JournalInv /\ QuietInv /\ RowInv /\ [Next]_vars => RowInv'
PROOF
<1> SUFFICES ASSUME TypeOK, RecTarget, ClaimInv, JournalInv, QuietInv, RowInv, [Next]_vars
             PROVE  RowInv'
  OBVIOUS
<1>1. ASSUME NEW o \in Ops, StepOf(o) PROVE RowInv'
  <2>1. RollbackOp(o)' /\ RowOp(o)' /\ RowMarked'
    BY <1>1, StepKeepsRollback, StepKeepsRow, StepKeepsMark
  <2>2. ASSUME NEW x \in Ops \ {o} PROVE RollbackOp(x)' /\ RowOp(x)'
    <3>1. SameFor(x) /\ OthersKept(o)
      BY <1>1, StepSameForOthers, StepKeepsOthers
    <3>2. (Accidents > 0 => Accidents' > 0) /\ (Accidents > 1 => Accidents' > 1)
      BY <1>1, StepAccidents
    <3>3. CompletedRow(x) => CompletedRow(x)'
      BY <1>1, <3>1, CompletedRowKept DEF OthersKept
    <3> QED
      BY <3>1, <3>2, <3>3, RowFrame DEF OthersKept, RowInv, JournalInv, JournalOp
  <2> QED
    BY <2>1, <2>2 DEF RowInv
<1>2. CASE ReconcilerStep
  BY <1>2, ReconcilerKeepsRows
<1>3. ASSUME NEW p \in Paths, NEW c \in Contents, Edit(p, c) PROVE RowInv'
  <2>1. UNCHANGED <<row, jstate, reconciled, pc, seen, todo, rpc, rop, rcopy>>
        /\ faults' = faults /\ edits' = edits + 1 /\ edits \in Nat /\ faults \in Nat
    BY <1>3, BoundsAssumption DEF Edit, TypeOK, journalVars, applyVars, recVars, boundVars
  <2>2. (Accidents > 0 => Accidents' > 1) /\ (Accidents > 1 => Accidents' > 1) /\ Accidents' > 0
    BY <2>1 DEF Accidents
  <2>3. \A x \in Ops : RollbackOp(x)'
    BY <2>1, <2>2 DEF RowInv, RollbackOp
  <2>4. \A x \in Ops : CompletedRow(x) => CompletedRow(x)'
    BY <2>1, <2>2 DEF CompletedRow, Accidents
  <2>5. \A x \in Ops : RowOp(x)'
    BY <2>1, <2>4 DEF RowInv, RowOp
  <2>6. RowMarked'
    BY <2>1, <2>2 DEF RowInv, RowMarked
  <2> QED
    BY <2>3, <2>5, <2>6 DEF RowInv
<1>4. CASE UNCHANGED vars
  BY <1>4 DEF vars, RowInv, RollbackOp, RowOp, RowMarked, CompletedRow, Accidents
<1> QED
  BY <1>1, <1>2, <1>3, <1>4, StepCases

\* For any number of operations, edits, crashes and errors: once an operation has stopped and
\* its journal is settled, the audit row of AuditStore and journal.json tell the same story,
\* but for the exceptions CompletedRow lists.
THEOREM AuditAgrees == Spec => []SettledAuditAgrees
PROOF
<1>1. Init => TypeOK /\ RecTarget /\ ClaimInv /\ JournalInv /\ QuietInv /\ RowInv
  BY InitTypeOK, InitClaimInv, InitJournalInv, InitQuietInv, InitRowInv DEF Init, RecTarget
<1>2. RowInv => SettledAuditAgrees
  BY DEF RowInv, RowOp, SettledAuditAgrees, Settled, JournalTerminal
<1> QED
  BY <1>1, <1>2, TypeStep, ClaimStep, JournalStep, QuietAlways, RowStep, PTL DEF Spec

===============================================================================
