------------------------- MODULE FileMutationProofs -------------------------
(***************************************************************************)
(* Proofs about FileMutation, for any set of calls on any finite set of    *)
(* paths and any number of edits, crashes, failed steps and                *)
(* reconciliations: no circular wait for slots, what a returned and what a *)
(* failed call leaves, and the refinement of AtomicFiles.                  *)
(***************************************************************************)
EXTENDS FileMutation, FiniteSetTheorems, NaturalsInduction, WellFoundedInduction, TLAPS

-----------------------------------------------------------------------------
(* The inductive invariant                                                 *)

Actors == Ops \cup {Reconciler}

\* The labels at which a call has its slots, and those from which it only ends.
Locked ==
  {"check", "row", "base", "begin", "bind", "commit", "hold", "rebind", "after", "apply",
   "record", "finalize", "event", "undo", "undone", "rscan", "rpath", "rverify"}
Quitting == {"failing", "recovered", "mark", "raised", "dead"}
HoldsNone(a) == \A s \in Slots : slot[s] # a

\* What a call has of its slots, by where it is; what it holds comes before what it still wants.
CallSlots(o) ==
  /\ pc[o] # "lock" => queue[o] = {}
  /\ pc[o] \in {"idle", "fetch", "prepared"} => HoldsNone(o)
  /\ pc[o] = "lock" => \A s \in SlotsOf(o) : s \in queue[o] \/ slot[s] = o
  /\ pc[o] \in Locked => \A s \in SlotsOf(o) : slot[s] = o

ReconcilerSlots ==
  /\ rpc # "lock" => queue[Reconciler] = {}
  /\ rpc = "idle" => HoldsNone(Reconciler)
  /\ rpc = "lock" => \A s \in Slots : s \in queue[Reconciler] \/ slot[s] = Reconciler
  /\ rpc \notin {"idle", "lock"} => \A s \in Slots : slot[s] = Reconciler

Sorted(a) == \A s, t \in Slots : slot[s] = a /\ t \in queue[a] => s < t

SlotInv == ReconcilerSlots /\ (\A o \in Ops : CallSlots(o)) /\ \A a \in Actors : Sorted(a)

\* The row and the journal of a call, by where it is.
Recorded(o) ==
  /\ pc[o] \in {"idle", "fetch", "prepared", "lock", "check", "row", "base", "begin"}
       => jstate[o] = "none" /\ ~reconciled[o]
  /\ pc[o] \in {"base", "begin", "bind", "commit", "hold", "rebind", "after", "apply", "record"}
       => row[o] = "running"
  /\ pc[o] \in {"bind", "commit", "hold", "rebind", "after", "apply"} => jstate[o] = "applying"
  /\ pc[o] \in {"record", "finalize"} => jstate[o] = "applied_verified"
  /\ pc[o] \in {"finalize", "event", "returned"} => row[o] = "succeeded"
  /\ pc[o] \in {"event", "returned"} => jstate[o] = "complete"
  /\ pc[o] \in {"undo", "undone", "rscan", "rpath", "rverify"}
       => jstate[o] \in {"applying", "applied_verified", "complete"}
  /\ pc[o] \in {"recovered", "mark"} => jstate[o] = "failed_recovered"
  /\ jstate[o] # "none" => row[o] # "none"
  /\ jstate[o] = "complete" => row[o] = "succeeded" /\ reconciled[o]
  /\ reconciled[o] => jstate[o] \in {"complete", "failed_recovered", "recovery_required"}

\* The journal the reconciler works on, and those of its list, belong to calls that change
\* nothing any more.
Listed(o) == pc[o] \in Quitting /\ jstate[o] \notin {"none", "complete"}

Reconciling ==
  /\ \A o \in rqueue : Listed(o)
  /\ rop \notin rqueue
  /\ rpc \in {"idle", "lock"} => rqueue = {}
  /\ rpc \in {"idle", "lock", "next"} <=> rop = Nobody
  /\ rop # Nobody => Listed(rop)
  /\ rpc \in {"rscan", "rpath"} => jstate[rop] = "applying"
  /\ rpc \in {"row", "mark"} => jstate[rop] # "applying"
  /\ rpc = "mark" /\ jstate[rop] = "applied_verified" => row[rop] = "succeeded"

JournalInv == Reconciling /\ \A o \in Ops : Recorded(o)

\* What a call read is what the client named; it leaves its mark at its own paths only, not
\* before its commit, and a recovered journal leaves it only where it changed nothing.
Reading == {"row", "base", "begin", "bind", "commit", "hold", "rebind", "after", "apply", "record",
            "finalize", "event", "undo"}
Marked(o) ==
  /\ pc[o] \in Reading =>
       \A p \in DOMAIN Tool[o].start : got[o][p].data = StartData(o, p)
  /\ todo[o] \subseteq Touched(o)
  /\ \A p \in Paths :
       ws[p].by = o =>
         /\ p \in Touched(o)
         /\ jstate[o] # "none" /\ pc[o] \notin {"bind", "commit", "undone"}
         /\ jstate[o] = "failed_recovered" => ws[p].data = base[o][p]

MarkInv == \A o \in Ops : Marked(o)

FileInv == TypeOK /\ SlotInv /\ JournalInv /\ MarkInv

-----------------------------------------------------------------------------
(* Lemmas about the operators                                              *)

\* A non-empty set of slots has a least one.
LEMMA LeastSlot ==
  ASSUME NEW S \in SUBSET Slots, S # {}
  PROVE  Least(S) \in S /\ \A t \in S : Least(S) <= t
PROOF
<1>1. S \subseteq Nat
  BY SlotAssumption DEF Slots
<1>2. PICK s \in S : \A t \in S : <<t, s>> \notin OpToRel(<, Nat)
  BY <1>1, WFMin, NatLessThanWellFounded, Zenon
<1>3. \A t \in S : ~(t < s)
  BY <1>1, <1>2 DEF OpToRel
<1>4. \E x \in S : \A t \in S : x <= t
  BY <1>1, <1>3
<1> QED
  BY <1>4 DEF Least

\* What the requests of the tools look like: a call changes paths it has read and has opened.
LEMMA ToolFacts ==
  ASSUME NEW o \in Ops
  PROVE  /\ Touched(o) \subseteq DOMAIN Tool[o].start
         /\ DOMAIN Tool[o].start \subseteq Paths
         /\ Touched(o) \subseteq Opened(o)
         /\ \A p \in DOMAIN Tool[o].start : StartData(o, p) \in Contents
         /\ \A p \in Paths : TargetData(o, p) \in Contents
         /\ Kind[o] \in Single => Touched(o) = {Dst[o]}
PROOF
<1> USE RequestAssumption DEF StartData, Touched, Opened, Bound, Tool, WriteFile, DeleteFile,
        MoveFile, CopyFile, MakeDirectory, DerivedFile, Single, Derived, Primitives
<1>0. /\ Kind[o] \in Single \cup Primitives /\ Src[o] \in Paths /\ Dst[o] \in Paths
      /\ Expected[o] \in Contents /\ New[o] \in Contents
  OBVIOUS
<1>1. CASE Kind[o] = "write"
  BY <1>0, <1>1 DEF TargetData, WriteEffect
<1>2. CASE Kind[o] \in Derived
  <2>1. Tool[o] = DerivedFile(o)
    BY <1>2
  <2>2. \A p \in Paths : TargetData(o, p) = New[o]
    BY <1>2 DEF TargetData, WriteEffect
  <2> QED
    BY <1>0, <1>2, <2>1, <2>2
<1>3. CASE Kind[o] = "delete"
  BY <1>0, <1>3 DEF TargetData, DeleteEffect
<1>4. CASE Kind[o] = "move"
  BY <1>0, <1>4 DEF TargetData, MoveEffect
<1>5. CASE Kind[o] = "copy"
  BY <1>0, <1>5 DEF TargetData, CopyEffect
<1>6. CASE Kind[o] = "mkdir"
  BY <1>0, <1>6 DEF TargetData, MkdirEffect
<1> QED
  BY <1>0, <1>1, <1>2, <1>3, <1>4, <1>5, <1>6

\* The slots of a call are slots of the workspace.
LEMMA SlotsOfCall == \A o \in Ops : SlotsOf(o) \subseteq Slots /\ SlotsOf(o) # {}
PROOF
  BY RequestAssumption DEF SlotsOf, Slots

-----------------------------------------------------------------------------
(* Types                                                                   *)

\* The content an undo or a reconciliation writes back keeps the files well typed.
LEMMA ApplyTypes ==
  ASSUME FilesOK, NEW o \in Ops, NEW p \in Paths, ApplyPath(o, p)
  PROVE  ws' \in Files /\ nextId' \in Nat \ {0} /\ todo' \in [Ops -> SUBSET Paths]
PROOF
<1> DEFINE id == IF base[o][p] = Absent THEN 0 ELSE IF ws[p].id = 0 THEN nextId ELSE ws[p].id
<1>1. id \in Nat /\ base[o][p] \in Contents
  BY DEF FilesOK, Files, Data
<1>2. ws' = [ws EXCEPT ![p] = [id |-> id, data |-> base[o][p], by |-> Nobody]]
      /\ nextId' = IF id = nextId THEN nextId + 1 ELSE nextId
  BY DEF ApplyPath
<1>3. [id |-> id, data |-> base[o][p], by |-> Nobody]
        \in [id : Nat, data : Contents, by : Ops \cup {Nobody}]
  BY <1>1
<1>4. ws' \in Files
  BY <1>2, <1>3 DEF FilesOK, Files
<1>5. nextId' \in Nat \ {0}
  BY <1>1, <1>2 DEF FilesOK
<1>6. todo' \in [Ops -> SUBSET Paths]
  BY DEF FilesOK, ApplyPath
<1> QED
  BY <1>4, <1>5, <1>6

\* No step of a call before its commit leaves the types.
LEMMA StartTypes ==
  ASSUME TypeOK,
         NEW o \in Ops,
         \/ Prepare(o) \/ RejectPreparation(o) \/ Fetch(o) \/ FetchFails(o)
         \/ TransformFails(o) \/ Call(o) \/ AcquireSlot(o) \/ Acquired(o)
         \/ LockTimeout(o) \/ ReadTarget(o) \/ Reject(o) \/ CreateRow(o)
         \/ CheckpointBefore(o) \/ BeginJournal(o)
  PROVE  TypeOK'
PROOF
<1> USE LimitAssumption DEF TypeOK, FilesOK, LocksOK, ControlOK, BoundsOK, Labels, RowStates,
        JournalStates, Goto, SetRow, SetJournal, Release, Leave, GiveUp, ToFailing, Fault,
        lockVars, auditVars, fileVars, readVars, undoVars, recVars, boundVars
<1>1. ASSUME Prepare(o) PROVE TypeOK'
  BY <1>1 DEF Prepare
<1>2. ASSUME RejectPreparation(o) PROVE TypeOK'
  BY <1>2 DEF RejectPreparation
<1>3. ASSUME Fetch(o) PROVE TypeOK'
  BY <1>3 DEF Fetch
<1>4. ASSUME FetchFails(o) PROVE TypeOK'
  BY <1>4 DEF FetchFails
<1>5. ASSUME TransformFails(o) PROVE TypeOK'
  BY <1>5 DEF TransformFails
<1>6. ASSUME Call(o) PROVE TypeOK'
  BY <1>6, SlotsOfCall DEF Call
<1>7. ASSUME AcquireSlot(o) PROVE TypeOK'
  <2>1. queue[o] \in SUBSET Slots /\ queue[o] # {}
    BY <1>7 DEF AcquireSlot
  <2>2. NextSlot(o) \in Slots
    BY <2>1, LeastSlot DEF NextSlot
  <2> QED
    BY <1>7, <2>2 DEF AcquireSlot, TakeSlot
<1>8. ASSUME Acquired(o) PROVE TypeOK'
  BY <1>8 DEF Acquired
<1>9. ASSUME LockTimeout(o) PROVE TypeOK'
  BY <1>9 DEF LockTimeout
<1>10. ASSUME ReadTarget(o) PROVE TypeOK'
  BY <1>10 DEF ReadTarget
<1>11. ASSUME Reject(o) PROVE TypeOK'
  BY <1>11 DEF Reject
<1>12. ASSUME CreateRow(o) PROVE TypeOK'
  BY <1>12 DEF CreateRow
<1>13. ASSUME CheckpointBefore(o) PROVE TypeOK'
  <2>1. [p \in Paths |-> ws[p].data] \in Data
    BY DEF Files, Data
  <2> QED
    BY <1>13, <2>1 DEF CheckpointBefore
<1>14. ASSUME BeginJournal(o) PROVE TypeOK'
  BY <1>14 DEF BeginJournal
<1> QED
  BY <1>1, <1>2, <1>3, <1>4, <1>5, <1>6, <1>7, <1>8, <1>9, <1>10, <1>11, <1>12, <1>13, <1>14

\* Nor does one from its commit to its return.
LEMMA RunTypes ==
  ASSUME TypeOK,
         NEW o \in Ops,
         \/ BindSource(o) \/ Commit(o) \/ Hold(o) \/ CheckpointAfter(o)
         \/ MarkApplied(o) \/ RecordSuccess(o) \/ Finalize(o) \/ AddEvent(o)
  PROVE  TypeOK'
PROOF
<1> USE LimitAssumption DEF TypeOK, FilesOK, LocksOK, ControlOK, BoundsOK, Labels, RowStates,
        JournalStates, Goto, SetRow, SetJournal, Release, Leave, GiveUp, ToFailing, Fault,
        lockVars, auditVars, fileVars, readVars, undoVars, recVars, boundVars
<1>1. ASSUME BindSource(o) PROVE TypeOK'
  BY <1>1 DEF BindSource
<1>2. ASSUME Commit(o) PROVE TypeOK'
  <2>1. CommitId(o) \in Nat
    BY RequestAssumption DEF CommitId, Files
  <2>2. \A p \in Paths :
          File(o, p, CommitId(o)) \in [id : Nat, data : Contents, by : Ops \cup {Nobody}]
    BY <2>1, ToolFacts, RequestAssumption DEF File
  <2>3. ws' = [p \in Paths |-> IF p \in Touched(o) THEN File(o, p, CommitId(o)) ELSE ws[p]]
    BY <1>2 DEF Commit
  <2>4. ws' \in Files
    BY <2>2, <2>3 DEF Files
  <2>5. nextId' \in Nat \ {0} /\ cid' \in [Ops -> Nat] /\ pc' \in [Ops -> Labels]
    BY <1>2, <2>1 DEF Commit
  <2> QED
    BY <1>2, <2>4, <2>5 DEF Commit
<1>3. ASSUME Hold(o) PROVE TypeOK'
  BY <1>3 DEF Hold
<1>4. ASSUME CheckpointAfter(o) PROVE TypeOK'
  BY <1>4 DEF CheckpointAfter
<1>5. ASSUME MarkApplied(o) PROVE TypeOK'
  BY <1>5 DEF MarkApplied
<1>6. ASSUME RecordSuccess(o) PROVE TypeOK'
  BY <1>6 DEF RecordSuccess
<1>7. ASSUME Finalize(o) PROVE TypeOK'
  BY <1>7 DEF Finalize
<1>8. ASSUME AddEvent(o) PROVE TypeOK'
  BY <1>8 DEF AddEvent
<1> QED
  BY <1>1, <1>2, <1>3, <1>4, <1>5, <1>6, <1>7, <1>8

\* Nor does one of a call that fails, or dies.
LEMMA FailTypes ==
  ASSUME TypeOK,
         NEW o \in Ops,
         \/ CommitFails(o) \/ HoldFails(o) \/ StepFails(o) \/ UndoWrite(o)
         \/ UndoVerified(o) \/ UndoRefused(o) \/ RollbackScan(o) \/ RollbackApplyScan(o)
         \/ RollbackPath(o) \/ RollbackApplied(o) \/ RollbackVerified(o)
         \/ RollbackRefused(o) \/ RecordFailure(o) \/ MarkReconciled(o) \/ Crash(o)
  PROVE  TypeOK'
PROOF
<1> USE LimitAssumption DEF TypeOK, FilesOK, LocksOK, ControlOK, BoundsOK, Labels, RowStates,
        JournalStates, Goto, SetRow, SetJournal, Release, Leave, GiveUp, ToFailing, Fault,
        lockVars, auditVars, fileVars, readVars, undoVars, recVars, boundVars
<1>1. ASSUME CommitFails(o) PROVE TypeOK'
  BY <1>1 DEF CommitFails
<1>2. ASSUME HoldFails(o) PROVE TypeOK'
  BY <1>2 DEF HoldFails
<1>3. ASSUME StepFails(o) PROVE TypeOK'
  BY <1>3 DEF StepFails
<1>4. ASSUME UndoWrite(o) PROVE TypeOK'
  <2>1. cid[o] \in Nat /\ got[o][Dst[o]].data \in Contents /\ Dst[o] \in Paths
    BY RequestAssumption DEF Files
  <2>2. ws' \in Files
    BY <1>4, <2>1, RequestAssumption DEF UndoWrite, PutBack, Files
  <2> QED
    BY <1>4, <2>2 DEF UndoWrite
<1>5. ASSUME UndoVerified(o) PROVE TypeOK'
  BY <1>5 DEF UndoVerified
<1>6. ASSUME UndoRefused(o) PROVE TypeOK'
  BY <1>6 DEF UndoRefused
<1>7. ASSUME RollbackScan(o) PROVE TypeOK'
  BY <1>7 DEF RollbackScan
<1>8. ASSUME RollbackApplyScan(o) PROVE TypeOK'
  <2>1. /\ [p \in Paths |-> ws[p].data] \in Data
        /\ {p \in Touched(o) : ws[p].data # base[o][p]} \in SUBSET Paths
    BY ToolFacts DEF Files, Data
  <2> QED
    BY <1>8, <2>1 DEF RollbackApplyScan, ApplyScan
<1>9. ASSUME RollbackPath(o) PROVE TypeOK'
  BY <1>9, ApplyTypes DEF RollbackPath, Files, Data
<1>10. ASSUME RollbackApplied(o) PROVE TypeOK'
  BY <1>10 DEF RollbackApplied
<1>11. ASSUME RollbackVerified(o) PROVE TypeOK'
  BY <1>11 DEF RollbackVerified
<1>12. ASSUME RollbackRefused(o) PROVE TypeOK'
  BY <1>12 DEF RollbackRefused
<1>13. ASSUME RecordFailure(o) PROVE TypeOK'
  BY <1>13 DEF RecordFailure
<1>14. ASSUME MarkReconciled(o) PROVE TypeOK'
  BY <1>14 DEF MarkReconciled
<1>15. ASSUME Crash(o) PROVE TypeOK'
  BY <1>15 DEF Crash
<1> QED
  BY <1>1, <1>2, <1>3, <1>4, <1>5, <1>6, <1>7, <1>8, <1>9, <1>10, <1>11, <1>12, <1>13, <1>14, <1>15

\* Nor does a step of the reconciling store, which works on the journal of a call.
LEMMA ReconcilerTypes ==
  ASSUME TypeOK, Reconciling,
         \/ RecCall \/ RecAcquireSlot \/ RecGiveUp \/ RecList
         \/ (\E o \in Ops : RecJournal(o)) \/ RecScan \/ RecPath \/ RecVerify \/ RecRow
         \/ RecMark \/ RecEnd \/ RecCrash
  PROVE  TypeOK'
PROOF
<1> USE LimitAssumption DEF TypeOK, FilesOK, LocksOK, ControlOK, BoundsOK, Labels, RowStates,
        JournalStates, Goto, SetRow, SetJournal, Release, Leave, GiveUp, ToFailing, Fault,
        lockVars, auditVars, fileVars, readVars, undoVars, recVars, boundVars, RecUnchanged
<1>0. rpc \in {"rscan", "rpath"} => rop \in Ops
  BY DEF Reconciling
<1>1. ASSUME RecCall PROVE TypeOK'
  BY <1>1 DEF RecCall
<1>2. ASSUME RecAcquireSlot PROVE TypeOK'
  <2>1. queue[Reconciler] \in SUBSET Slots /\ queue[Reconciler] # {}
    BY <1>2 DEF RecAcquireSlot
  <2>2. NextSlot(Reconciler) \in Slots
    BY <2>1, LeastSlot DEF NextSlot
  <2> QED
    BY <1>2, <2>2 DEF RecAcquireSlot, TakeSlot
<1>3. ASSUME RecGiveUp PROVE TypeOK'
  BY <1>3 DEF RecGiveUp
<1>4. ASSUME RecList PROVE TypeOK'
  BY <1>4 DEF RecList, Incomplete
<1>5. ASSUME NEW o \in Ops, RecJournal(o) PROVE TypeOK'
  BY <1>5 DEF RecJournal
<1>6. ASSUME RecScan PROVE TypeOK'
  <2>1. /\ [p \in Paths |-> ws[p].data] \in Data
        /\ {p \in Touched(rop) : ws[p].data # base[rop][p]} \in SUBSET Paths
    BY <1>6, <1>0, ToolFacts DEF RecScan, Files, Data
  <2> QED
    BY <1>6, <2>1 DEF RecScan, ApplyScan
<1>7. ASSUME RecPath PROVE TypeOK'
  BY <1>7, <1>0, ApplyTypes DEF RecPath, Files, Data
<1>8. ASSUME RecVerify PROVE TypeOK'
  BY <1>8 DEF RecVerify
<1>9. ASSUME RecRow PROVE TypeOK'
  BY <1>9 DEF RecRow
<1>10. ASSUME RecMark PROVE TypeOK'
  BY <1>10 DEF RecMark
<1>11. ASSUME RecEnd PROVE TypeOK'
  BY <1>11 DEF RecEnd
<1>12. ASSUME RecCrash PROVE TypeOK'
  BY <1>12 DEF RecCrash
<1> QED
  BY <1>1, <1>2, <1>3, <1>4, <1>5, <1>6, <1>7, <1>8, <1>9, <1>10, <1>11, <1>12

\* Nor does the user's editor.
LEMMA EditTypes ==
  ASSUME TypeOK, NEW p \in Paths, Edit(p)
  PROVE  TypeOK'
PROOF
<1> USE LimitAssumption DEF lockVars, auditVars, readVars, undoVars, recVars
<1>1. PICK c \in Contents, fresh \in BOOLEAN :
        LET id == IF c = Absent THEN 0 ELSE IF fresh \/ ws[p].id = 0 THEN nextId ELSE ws[p].id
        IN  /\ ws' = [ws EXCEPT ![p] = [id |-> id, data |-> c, by |-> Nobody]]
            /\ nextId' = IF id = nextId THEN nextId + 1 ELSE nextId
  BY DEF Edit
<1> DEFINE id == IF c = Absent THEN 0 ELSE IF fresh \/ ws[p].id = 0 THEN nextId ELSE ws[p].id
<1>2. id \in Nat
  BY DEF TypeOK, FilesOK, Files
<1>3. ws' = [ws EXCEPT ![p] = [id |-> id, data |-> c, by |-> Nobody]]
      /\ nextId' = IF id = nextId THEN nextId + 1 ELSE nextId
  BY <1>1
<1> HIDE DEF id
<1>4. ws' \in Files /\ nextId' \in Nat \ {0}
  BY <1>2, <1>3 DEF TypeOK, FilesOK, Files
<1> QED
  BY <1>4 DEF Edit, TypeOK, FilesOK, LocksOK, ControlOK, BoundsOK

\* The initial state is well typed.
LEMMA InitTypes == Init => TypeOK
PROOF
<1> SUFFICES ASSUME Init PROVE TypeOK
  OBVIOUS
<1>1. Cardinality(Paths) \in Nat
  BY RequestAssumption, FS_CardinalityType
<1>2. PICK number \in [Paths -> 0..Cardinality(Paths)] :
        ws = [p \in Paths |-> [id |-> number[p], data |-> InitialData[p], by |-> Nobody]]
  BY DEF Init
<1>3. \A p \in Paths : number[p] \in Nat /\ InitialData[p] \in Contents
  BY <1>1, RequestAssumption
<1>4. ws \in Files /\ Blank \in Files
  BY <1>2, <1>3, RequestAssumption DEF Files, Blank
<1>5. [p \in Paths |-> Absent] \in Data
  BY RequestAssumption DEF Data
<1>6. FilesOK
  <2>1. base = [o \in Ops |-> [p \in Paths |-> Absent]] /\ seen = base
        /\ got = [o \in Ops |-> Blank] /\ cid = [o \in Ops |-> 0] /\ todo = [o \in Ops |-> {}]
        /\ nextId = Cardinality(Paths) + 1
    BY DEF Init
  <2>2. nextId \in Nat \ {0}
    BY <1>1, <2>1
  <2>3. base \in [Ops -> Data] /\ seen \in [Ops -> Data] /\ got \in [Ops -> Files]
    BY <1>4, <1>5, <2>1
  <2> QED
    BY <1>4, <2>1, <2>2, <2>3 DEF FilesOK
<1>7. LocksOK /\ ControlOK /\ BoundsOK
  BY LimitAssumption DEF Init, LocksOK, ControlOK, BoundsOK, Labels, RowStates, JournalStates
<1> QED
  BY <1>6, <1>7 DEF TypeOK

-----------------------------------------------------------------------------
(* Slots                                                                   *)

\* A call that moves on with the slots it has keeps the order of the slots.
LEMMA MoveKeepsSlots ==
  ASSUME TypeOK, SlotInv, NEW o \in Ops, NEW l \in Labels \ {"lock", "idle"},
         Goto(o, l), UNCHANGED <<slot, queue, rpc>>,
         pc[o] = "lock" => queue[o] = {},
         l \in {"fetch", "prepared"} => pc[o] \in {"idle", "fetch"},
         l \in Locked => pc[o] \in Locked \cup {"lock"}
  PROVE  SlotInv'
PROOF
<1>1. pc' = [pc EXCEPT ![o] = l] /\ pc \in [Ops -> Labels]
  BY DEF Goto, TypeOK, ControlOK
<1>2. ASSUME NEW x \in Ops PROVE CallSlots(x)'
  <2>1. CallSlots(x)
    BY DEF SlotInv
  <2>2. CASE x = o
    BY <1>1, <2>1, <2>2 DEF CallSlots, HoldsNone, Locked
  <2>3. CASE x # o
    BY <1>1, <2>1, <2>3 DEF CallSlots, HoldsNone
  <2> QED
    BY <2>2, <2>3
<1>3. ReconcilerSlots' /\ \A a \in Actors : Sorted(a)'
  BY DEF SlotInv, ReconcilerSlots, Sorted, HoldsNone
<1> QED
  BY <1>2, <1>3 DEF SlotInv

\* So does a call that gives its slots back.
LEMMA LeaveKeepsSlots ==
  ASSUME TypeOK, SlotInv, NEW o \in Ops, NEW l \in Quitting \cup Ended,
         Leave(o, l), UNCHANGED rpc
  PROVE  SlotInv'
PROOF
<1>1. /\ pc' = [pc EXCEPT ![o] = l] /\ pc \in [Ops -> Labels]
      /\ slot' = [s \in Slots |-> IF slot[s] = o THEN Free ELSE slot[s]]
      /\ queue' = [queue EXCEPT ![o] = {}] /\ queue \in [Actors -> SUBSET Slots]
  BY DEF Leave, Release, Goto, TypeOK, ControlOK, LocksOK, Actors
<1>2. o # Reconciler /\ o # Free /\ \A x \in Ops : x # Free /\ x # Reconciler
  BY ActorAssumption
<1>3. Reconciler # Free
  BY ActorAssumption
<1>4. ASSUME NEW x \in Ops PROVE CallSlots(x)'
  <2>1. CallSlots(x) /\ SlotsOf(x) \subseteq Slots
    BY SlotsOfCall DEF SlotInv
  <2>2. CASE x = o
    BY <1>1, <2>1, <2>2 DEF CallSlots, HoldsNone, Locked, Quitting, Ended, Actors
  <2>3. CASE x # o
    BY <1>1, <1>2, <2>1, <2>3 DEF CallSlots, HoldsNone, Actors
  <2> QED
    BY <2>2, <2>3
<1>5. ReconcilerSlots'
  BY <1>1, <1>2, <1>3 DEF SlotInv, ReconcilerSlots, HoldsNone, Actors
<1>6. ASSUME NEW a \in Actors PROVE Sorted(a)'
  BY <1>1, <1>2, <1>3 DEF SlotInv, Sorted, Actors
<1> QED
  BY <1>4, <1>5, <1>6 DEF SlotInv

\* So does the reconciler when it gives all slots back.
LEMMA EndKeepsSlots ==
  ASSUME TypeOK, SlotInv, UNCHANGED pc, rpc' = "idle",
         Release(Reconciler), queue' = [queue EXCEPT ![Reconciler] = {}]
  PROVE  SlotInv'
PROOF
<1>1. /\ slot' = [s \in Slots |-> IF slot[s] = Reconciler THEN Free ELSE slot[s]]
      /\ queue \in [Actors -> SUBSET Slots]
  BY DEF Release, TypeOK, LocksOK, Actors
<1>2. Reconciler # Free /\ \A x \in Ops : x # Free /\ x # Reconciler
  BY ActorAssumption
<1>3. ASSUME NEW x \in Ops PROVE CallSlots(x)'
  <2>1. CallSlots(x) /\ SlotsOf(x) \subseteq Slots
    BY SlotsOfCall DEF SlotInv
  <2> QED
    BY <1>1, <1>2, <2>1 DEF CallSlots, HoldsNone, Actors
<1>4. ReconcilerSlots'
  BY <1>1, <1>2 DEF ReconcilerSlots, HoldsNone, Actors
<1>5. ASSUME NEW a \in Actors PROVE Sorted(a)'
  BY <1>1, <1>2 DEF SlotInv, Sorted, Actors
<1> QED
  BY <1>3, <1>4, <1>5 DEF SlotInv

\* So does an actor that takes the next slot it wants.
LEMMA TakeKeepsSlots ==
  ASSUME TypeOK, SlotInv, UNCHANGED <<pc, rpc>>, NEW a \in Actors, queue[a] # {}, TakeSlot(a),
         a \in Ops => pc[a] = "lock", a = Reconciler => rpc = "lock"
  PROVE  SlotInv'
PROOF
<1> DEFINE s == NextSlot(a)
<1>1. queue[a] \in SUBSET Slots /\ queue \in [Actors -> SUBSET Slots]
      /\ slot \in [Slots -> Ops \cup {Free, Reconciler}]
  BY DEF TypeOK, LocksOK, Actors
<1>2. s \in queue[a] /\ \A t \in queue[a] : s <= t
  BY <1>1, LeastSlot DEF NextSlot
<1>3. slot[s] = Free /\ slot' = [slot EXCEPT ![s] = a]
      /\ queue' = [queue EXCEPT ![a] = queue[a] \ {s}]
  BY DEF TakeSlot
<1>4. a # Free /\ Reconciler # Free /\ \A x \in Ops : x # Free /\ x # Reconciler
  BY ActorAssumption DEF Actors
<1> HIDE DEF s
<1>5. s \in Slots /\ Slots \subseteq Nat
  BY <1>1, <1>2, SlotAssumption DEF Slots
<1>6. ASSUME NEW x \in Ops PROVE CallSlots(x)'
  <2>1. CallSlots(x) /\ SlotsOf(x) \subseteq Slots
    BY SlotsOfCall DEF SlotInv
  <2>2. CASE x = a
    BY <1>1, <1>2, <1>3, <1>4, <2>1, <2>2 DEF CallSlots, HoldsNone, Locked
  <2>3. CASE x # a
    BY <1>1, <1>2, <1>3, <1>4, <1>5, <2>1, <2>3 DEF CallSlots, HoldsNone, Actors
  <2> QED
    BY <2>2, <2>3
<1>7. ReconcilerSlots'
  <2>1. ReconcilerSlots
    BY DEF SlotInv
  <2>2. CASE a = Reconciler
    BY <1>1, <1>2, <1>3, <1>5, <2>1, <2>2 DEF ReconcilerSlots, HoldsNone
  <2>3. CASE a # Reconciler
    BY <1>1, <1>2, <1>3, <1>4, <1>5, <2>1, <2>3 DEF ReconcilerSlots, HoldsNone, Actors
  <2> QED
    BY <2>2, <2>3
<1>8. ASSUME NEW x \in Actors PROVE Sorted(x)'
  <2>1. Sorted(x)
    BY DEF SlotInv
  <2>2. CASE x = a
    BY <1>1, <1>2, <1>3, <1>5, <2>1, <2>2 DEF Sorted
  <2>3. CASE x # a
    BY <1>1, <1>2, <1>3, <1>5, <2>1, <2>3 DEF Sorted
  <2> QED
    BY <2>2, <2>3
<1> QED
  BY <1>6, <1>7, <1>8 DEF SlotInv

\* No step of a call before its commit breaks the order of the slots.
LEMMA StartKeepsSlots ==
  ASSUME TypeOK, SlotInv,
         NEW o \in Ops,
         \/ Prepare(o) \/ RejectPreparation(o) \/ Fetch(o) \/ FetchFails(o)
         \/ TransformFails(o) \/ Call(o) \/ AcquireSlot(o) \/ Acquired(o)
         \/ LockTimeout(o) \/ ReadTarget(o) \/ Reject(o) \/ CreateRow(o)
         \/ CheckpointBefore(o) \/ BeginJournal(o)
  PROVE  SlotInv'
PROOF
<1> USE DEF lockVars, recVars, Labels, Locked, Quitting, Ended
<1>1. ASSUME Prepare(o) PROVE SlotInv'
  BY <1>1, MoveKeepsSlots DEF Prepare
<1>2. ASSUME RejectPreparation(o) PROVE SlotInv'
  BY <1>2, LeaveKeepsSlots DEF RejectPreparation, GiveUp
<1>3. ASSUME Fetch(o) PROVE SlotInv'
  BY <1>3, MoveKeepsSlots DEF Fetch
<1>4. ASSUME FetchFails(o) PROVE SlotInv'
  BY <1>4, LeaveKeepsSlots DEF FetchFails, GiveUp
<1>5. ASSUME TransformFails(o) PROVE SlotInv'
  BY <1>5, LeaveKeepsSlots DEF TransformFails, GiveUp
<1>6. ASSUME Call(o) PROVE SlotInv'
  <2>1. CASE ~Ready
    BY <1>6, <2>1, LeaveKeepsSlots DEF Call, GiveUp
  <2>2. CASE Ready
    <3>1. /\ pc' = [pc EXCEPT ![o] = "lock"] /\ pc \in [Ops -> Labels]
          /\ pc[o] \in {"idle", "prepared"}
          /\ queue' = [queue EXCEPT ![o] = SlotsOf(o)] /\ queue \in [Actors -> SUBSET Slots]
      BY <1>6, <2>2 DEF Call, Goto, TypeOK, ControlOK, LocksOK, Actors
    <3>2. HoldsNone(o) /\ o # Reconciler /\ \A x \in Ops : CallSlots(x)
      BY <3>1, ActorAssumption DEF SlotInv, CallSlots
    <3>3. \A x \in Ops : CallSlots(x)'
      BY <1>6, <2>2, <3>1, <3>2 DEF Call, CallSlots, HoldsNone, Locked, Actors
    <3>4. ReconcilerSlots'
      BY <1>6, <2>2, <3>1, <3>2 DEF Call, SlotInv, ReconcilerSlots, HoldsNone, Actors
    <3>5. \A a \in Actors : Sorted(a)'
      BY <1>6, <2>2, <3>1, <3>2 DEF Call, SlotInv, Sorted, HoldsNone
    <3> QED
      BY <3>3, <3>4, <3>5 DEF SlotInv
  <2> QED
    BY <2>1, <2>2
<1>7. ASSUME AcquireSlot(o) PROVE SlotInv'
  BY <1>7, TakeKeepsSlots, ActorAssumption DEF AcquireSlot, Actors
<1>8. ASSUME Acquired(o) PROVE SlotInv'
  BY <1>8, MoveKeepsSlots DEF Acquired
<1>9. ASSUME LockTimeout(o) PROVE SlotInv'
  BY <1>9, LeaveKeepsSlots DEF LockTimeout, GiveUp
<1>10. ASSUME ReadTarget(o) PROVE SlotInv'
  BY <1>10, MoveKeepsSlots DEF ReadTarget
<1>11. ASSUME Reject(o) PROVE SlotInv'
  BY <1>11, LeaveKeepsSlots DEF Reject, GiveUp
<1>12. ASSUME CreateRow(o) PROVE SlotInv'
  BY <1>12, MoveKeepsSlots DEF CreateRow
<1>13. ASSUME CheckpointBefore(o) PROVE SlotInv'
  BY <1>13, MoveKeepsSlots DEF CheckpointBefore
<1>14. ASSUME BeginJournal(o) PROVE SlotInv'
  BY <1>14, MoveKeepsSlots DEF BeginJournal
<1> QED
  BY <1>1, <1>2, <1>3, <1>4, <1>5, <1>6, <1>7, <1>8, <1>9, <1>10, <1>11, <1>12, <1>13, <1>14

\* Nor does one from its commit to its return.
LEMMA RunKeepsSlots ==
  ASSUME TypeOK, SlotInv,
         NEW o \in Ops,
         \/ BindSource(o) \/ Commit(o) \/ Hold(o) \/ CheckpointAfter(o)
         \/ MarkApplied(o) \/ RecordSuccess(o) \/ Finalize(o) \/ AddEvent(o)
  PROVE  SlotInv'
PROOF
<1> USE DEF lockVars, recVars, Labels, Locked, Quitting, Ended
<1>1. ASSUME BindSource(o) PROVE SlotInv'
  BY <1>1, MoveKeepsSlots DEF BindSource
<1>2. ASSUME Commit(o) PROVE SlotInv'
  BY <1>2, MoveKeepsSlots DEF Commit
<1>3. ASSUME Hold(o) PROVE SlotInv'
  BY <1>3, MoveKeepsSlots DEF Hold
<1>4. ASSUME CheckpointAfter(o) PROVE SlotInv'
  BY <1>4, MoveKeepsSlots DEF CheckpointAfter
<1>5. ASSUME MarkApplied(o) PROVE SlotInv'
  BY <1>5, MoveKeepsSlots DEF MarkApplied
<1>6. ASSUME RecordSuccess(o) PROVE SlotInv'
  BY <1>6, MoveKeepsSlots DEF RecordSuccess
<1>7. ASSUME Finalize(o) PROVE SlotInv'
  BY <1>7, MoveKeepsSlots DEF Finalize
<1>8. ASSUME AddEvent(o) PROVE SlotInv'
  BY <1>8, LeaveKeepsSlots DEF AddEvent, GiveUp
<1> QED
  BY <1>1, <1>2, <1>3, <1>4, <1>5, <1>6, <1>7, <1>8

\* Nor does one of a call that fails, or dies.
LEMMA FailKeepsSlots ==
  ASSUME TypeOK, SlotInv,
         NEW o \in Ops,
         \/ CommitFails(o) \/ HoldFails(o) \/ StepFails(o) \/ UndoWrite(o)
         \/ UndoVerified(o) \/ UndoRefused(o) \/ RollbackScan(o) \/ RollbackApplyScan(o)
         \/ RollbackPath(o) \/ RollbackApplied(o) \/ RollbackVerified(o)
         \/ RollbackRefused(o) \/ RecordFailure(o) \/ MarkReconciled(o) \/ Crash(o)
  PROVE  SlotInv'
PROOF
<1> USE DEF lockVars, recVars, Labels, Locked, Quitting, Ended
<1>1. ASSUME CommitFails(o) PROVE SlotInv'
  BY <1>1, MoveKeepsSlots, LeaveKeepsSlots DEF CommitFails, ToFailing, Fault
<1>2. ASSUME HoldFails(o) PROVE SlotInv'
  BY <1>2, MoveKeepsSlots, LeaveKeepsSlots DEF HoldFails, ToFailing, Fault
<1>3. ASSUME StepFails(o) PROVE SlotInv'
  BY <1>3, MoveKeepsSlots, LeaveKeepsSlots DEF StepFails, ToFailing, Fault
<1>4. ASSUME UndoWrite(o) PROVE SlotInv'
  BY <1>4, MoveKeepsSlots DEF UndoWrite
<1>5. ASSUME UndoVerified(o) PROVE SlotInv'
  BY <1>5, MoveKeepsSlots, LeaveKeepsSlots DEF UndoVerified, ToFailing, Fault
<1>6. ASSUME UndoRefused(o) PROVE SlotInv'
  BY <1>6, MoveKeepsSlots, LeaveKeepsSlots DEF UndoRefused, ToFailing, Fault
<1>7. ASSUME RollbackScan(o) PROVE SlotInv'
  BY <1>7, MoveKeepsSlots DEF RollbackScan
<1>8. ASSUME RollbackApplyScan(o) PROVE SlotInv'
  BY <1>8, MoveKeepsSlots DEF RollbackApplyScan
<1>9. ASSUME RollbackPath(o) PROVE SlotInv'
  BY <1>9 DEF RollbackPath, SlotInv, CallSlots, ReconcilerSlots, Sorted, HoldsNone
<1>10. ASSUME RollbackApplied(o) PROVE SlotInv'
  BY <1>10, MoveKeepsSlots DEF RollbackApplied
<1>11. ASSUME RollbackVerified(o) PROVE SlotInv'
  BY <1>11, MoveKeepsSlots DEF RollbackVerified
<1>12. ASSUME RollbackRefused(o) PROVE SlotInv'
  BY <1>12, MoveKeepsSlots DEF RollbackRefused
<1>13. ASSUME RecordFailure(o) PROVE SlotInv'
  BY <1>13, MoveKeepsSlots, LeaveKeepsSlots DEF RecordFailure, ToFailing, Fault
<1>14. ASSUME MarkReconciled(o) PROVE SlotInv'
  BY <1>14, LeaveKeepsSlots DEF MarkReconciled, GiveUp
<1>15. ASSUME Crash(o) PROVE SlotInv'
  BY <1>15, LeaveKeepsSlots DEF Crash, GiveUp
<1> QED
  BY <1>1, <1>2, <1>3, <1>4, <1>5, <1>6, <1>7, <1>8, <1>9, <1>10, <1>11, <1>12, <1>13, <1>14, <1>15

\* Nor does the reconciler while it has all slots.
LEMMA HeldKeepsSlots ==
  ASSUME SlotInv, UNCHANGED <<slot, queue, pc>>,
         {rpc, rpc'} \subseteq {"next", "rscan", "rpath", "row", "mark"}
  PROVE  SlotInv'
PROOF
<1>1. ReconcilerSlots'
  BY DEF SlotInv, ReconcilerSlots
<1> QED
  BY <1>1 DEF SlotInv, CallSlots, Sorted, HoldsNone

\* Nor does any step of the reconciler.
LEMMA ReconcilerKeepsSlots ==
  ASSUME TypeOK, SlotInv,
         \/ RecCall \/ RecAcquireSlot \/ RecGiveUp \/ RecList
         \/ (\E o \in Ops : RecJournal(o)) \/ RecScan \/ RecPath \/ RecVerify \/ RecRow
         \/ RecMark \/ RecEnd \/ RecCrash
  PROVE  SlotInv'
PROOF
<1> USE DEF lockVars
<1>1. ASSUME RecCall PROVE SlotInv'
  <2>1. queue' = [queue EXCEPT ![Reconciler] = Slots] /\ queue \in [Actors -> SUBSET Slots]
    BY <1>1 DEF RecCall, TypeOK, LocksOK, Actors
  <2>2. HoldsNone(Reconciler) /\ rpc' = "lock" /\ UNCHANGED <<slot, pc>>
    BY <1>1 DEF RecCall, SlotInv, ReconcilerSlots
  <2>3. \A x \in Ops : CallSlots(x)'
    BY <2>1, <2>2, ActorAssumption DEF SlotInv, CallSlots, HoldsNone, Actors
  <2>4. ReconcilerSlots'
    BY <2>1, <2>2 DEF ReconcilerSlots, Actors
  <2>5. \A a \in Actors : Sorted(a)'
    BY <2>1, <2>2 DEF SlotInv, Sorted, HoldsNone
  <2> QED
    BY <2>3, <2>4, <2>5 DEF SlotInv
<1>2. ASSUME RecAcquireSlot PROVE SlotInv'
  BY <1>2, TakeKeepsSlots, ActorAssumption DEF RecAcquireSlot, Actors, recVars
<1>3. ASSUME RecGiveUp PROVE SlotInv'
  BY <1>3, EndKeepsSlots DEF RecGiveUp
<1>4. ASSUME RecList PROVE SlotInv'
  <2>1. UNCHANGED <<slot, queue, pc>> /\ rpc = "lock" /\ rpc' = "next" /\ queue[Reconciler] = {}
    BY <1>4 DEF RecList
  <2>2. ReconcilerSlots'
    BY <2>1 DEF SlotInv, ReconcilerSlots
  <2> QED
    BY <2>1, <2>2 DEF SlotInv, CallSlots, Sorted, HoldsNone
<1>5. ASSUME NEW o \in Ops, RecJournal(o) PROVE SlotInv'
  <2>1. /\ UNCHANGED <<slot, queue, pc>>
        /\ {rpc, rpc'} \subseteq {"next", "rscan", "rpath", "row", "mark"}
    BY <1>5 DEF RecJournal, RecUnchanged
  <2> QED
    BY <2>1, HeldKeepsSlots
<1>6. ASSUME RecScan PROVE SlotInv'
  <2>1. /\ UNCHANGED <<slot, queue, pc>>
        /\ {rpc, rpc'} \subseteq {"next", "rscan", "rpath", "row", "mark"}
    BY <1>6 DEF RecScan, RecUnchanged
  <2> QED
    BY <2>1, HeldKeepsSlots
<1>7. ASSUME RecPath PROVE SlotInv'
  <2>1. /\ UNCHANGED <<slot, queue, pc>>
        /\ {rpc, rpc'} \subseteq {"next", "rscan", "rpath", "row", "mark"}
    BY <1>7 DEF RecPath, RecUnchanged
  <2> QED
    BY <2>1, HeldKeepsSlots
<1>8. ASSUME RecVerify PROVE SlotInv'
  <2>1. /\ UNCHANGED <<slot, queue, pc>>
        /\ {rpc, rpc'} \subseteq {"next", "rscan", "rpath", "row", "mark"}
    BY <1>8 DEF RecVerify, RecUnchanged
  <2> QED
    BY <2>1, HeldKeepsSlots
<1>9. ASSUME RecRow PROVE SlotInv'
  <2>1. /\ UNCHANGED <<slot, queue, pc>>
        /\ {rpc, rpc'} \subseteq {"next", "rscan", "rpath", "row", "mark"}
    BY <1>9 DEF RecRow, RecUnchanged
  <2> QED
    BY <2>1, HeldKeepsSlots
<1>10. ASSUME RecMark PROVE SlotInv'
  <2>1. /\ UNCHANGED <<slot, queue, pc>>
        /\ {rpc, rpc'} \subseteq {"next", "rscan", "rpath", "row", "mark"}
    BY <1>10 DEF RecMark, RecUnchanged
  <2> QED
    BY <2>1, HeldKeepsSlots
<1>11. ASSUME RecEnd PROVE SlotInv'
  <2>1. queue[Reconciler] = {} /\ queue \in [Actors -> SUBSET Slots]
    BY <1>11 DEF RecEnd, SlotInv, ReconcilerSlots, TypeOK, LocksOK, Actors
  <2>2. queue' = [queue EXCEPT ![Reconciler] = {}]
    BY <1>11, <2>1 DEF RecEnd, Actors
  <2> QED
    BY <1>11, <2>2, EndKeepsSlots DEF RecEnd
<1>12. ASSUME RecCrash PROVE SlotInv'
  BY <1>12, EndKeepsSlots DEF RecCrash
<1> QED
  BY <1>1, <1>2, <1>3, <1>4, <1>5, <1>6, <1>7, <1>8, <1>9, <1>10, <1>11, <1>12

\* Two actors never wait for each other's slots.
LEMMA SlotsInOrder == TypeOK /\ SlotInv => NoCircularWait
PROOF
<1> SUFFICES ASSUME TypeOK, SlotInv, NEW a \in Actors, NEW c \in Actors, Waiting(a), Waiting(c),
                    slot[NextSlot(a)] = c, slot[NextSlot(c)] = a
             PROVE  FALSE
  BY DEF NoCircularWait, Actors
<1>1. \A x \in Actors : queue[x] \in SUBSET Slots
  BY DEF TypeOK, LocksOK, Actors
<1>2. \A x \in {a, c} : NextSlot(x) \in queue[x] /\ \A t \in queue[x] : NextSlot(x) <= t
  BY <1>1, LeastSlot DEF NextSlot, Waiting
<1>3. NextSlot(a) < NextSlot(c) /\ NextSlot(c) < NextSlot(a)
  BY <1>1, <1>2 DEF SlotInv, Sorted
<1>4. NextSlot(a) \in Nat /\ NextSlot(c) \in Nat
  BY <1>1, <1>2, SlotAssumption DEF Slots
<1> QED
  BY <1>3, <1>4

-----------------------------------------------------------------------------
(* Rows and journals                                                       *)

\* A step of one call keeps the records in order if its own stay in order and, once it quits, it
\* leaves its journal to the reconciler.
LEMMA CallKeepsJournal ==
  ASSUME TypeOK, JournalInv, NEW o \in Ops, UNCHANGED <<rpc, rop, rqueue>>,
         \A x \in Ops \ {o} : /\ pc'[x] = pc[x] /\ row'[x] = row[x]
                              /\ jstate'[x] = jstate[x] /\ reconciled'[x] = reconciled[x],
         Recorded(o)',
         pc[o] \in Quitting => /\ pc'[o] \in Quitting /\ jstate'[o] = jstate[o]
                               /\ row[o] = "succeeded" => row'[o] = "succeeded"
  PROVE  JournalInv'
PROOF
<1>1. ASSUME NEW x \in Ops PROVE Recorded(x)'
  BY <1>1 DEF JournalInv, Recorded
<1>2. Reconciling'
  <2>1. Reconciling /\ rqueue \subseteq Ops /\ rop \in Ops \cup {Nobody}
    BY DEF JournalInv, TypeOK, ControlOK
  <2>2. ASSUME NEW x \in Ops, Listed(x) PROVE Listed(x)' /\ jstate'[x] = jstate[x]
    BY <2>2 DEF Listed
  <2>3. ASSUME NEW x \in Ops, Listed(x), row[x] = "succeeded" PROVE row'[x] = "succeeded"
    BY <2>3 DEF Listed
  <2> QED
    BY <2>1, <2>2, <2>3 DEF Reconciling
<1> QED
  BY <1>1, <1>2 DEF JournalInv

\* No step of a call before its commit breaks the order of its records.
LEMMA StartKeepsJournal ==
  ASSUME TypeOK, JournalInv, NEW o \in Ops,
         \/ Prepare(o) \/ RejectPreparation(o) \/ Fetch(o) \/ FetchFails(o)
         \/ TransformFails(o) \/ Call(o) \/ AcquireSlot(o) \/ Acquired(o)
         \/ LockTimeout(o) \/ ReadTarget(o) \/ Reject(o) \/ CreateRow(o)
         \/ CheckpointBefore(o) \/ BeginJournal(o)
  PROVE  JournalInv'
PROOF
<1> USE DEF Recorded, Listed, Quitting, TypeOK, ControlOK, Labels, Goto, SetRow, SetJournal, Leave,
        GiveUp, ToFailing, Fault, auditVars, recVars, Ended
<1>0. Recorded(o)
  BY DEF JournalInv
<1>1. ASSUME Prepare(o) PROVE JournalInv'
  BY <1>1, <1>0, CallKeepsJournal DEF Prepare
<1>2. ASSUME RejectPreparation(o) PROVE JournalInv'
  BY <1>2, <1>0, CallKeepsJournal DEF RejectPreparation
<1>3. ASSUME Fetch(o) PROVE JournalInv'
  BY <1>3, <1>0, CallKeepsJournal DEF Fetch
<1>4. ASSUME FetchFails(o) PROVE JournalInv'
  BY <1>4, <1>0, CallKeepsJournal DEF FetchFails
<1>5. ASSUME TransformFails(o) PROVE JournalInv'
  BY <1>5, <1>0, CallKeepsJournal DEF TransformFails
<1>6. ASSUME Call(o) PROVE JournalInv'
  BY <1>6, <1>0, CallKeepsJournal DEF Call
<1>7. ASSUME AcquireSlot(o) PROVE JournalInv'
  BY <1>7, <1>0, CallKeepsJournal DEF AcquireSlot
<1>8. ASSUME Acquired(o) PROVE JournalInv'
  BY <1>8, <1>0, CallKeepsJournal DEF Acquired
<1>9. ASSUME LockTimeout(o) PROVE JournalInv'
  BY <1>9, <1>0, CallKeepsJournal DEF LockTimeout
<1>10. ASSUME ReadTarget(o) PROVE JournalInv'
  BY <1>10, <1>0, CallKeepsJournal DEF ReadTarget
<1>11. ASSUME Reject(o) PROVE JournalInv'
  BY <1>11, <1>0, CallKeepsJournal DEF Reject
<1>12. ASSUME CreateRow(o) PROVE JournalInv'
  BY <1>12, <1>0, CallKeepsJournal DEF CreateRow
<1>13. ASSUME CheckpointBefore(o) PROVE JournalInv'
  BY <1>13, <1>0, CallKeepsJournal DEF CheckpointBefore
<1>14. ASSUME BeginJournal(o) PROVE JournalInv'
  BY <1>14, <1>0, CallKeepsJournal DEF BeginJournal
<1> QED
  BY <1>1, <1>2, <1>3, <1>4, <1>5, <1>6, <1>7, <1>8, <1>9, <1>10, <1>11, <1>12, <1>13, <1>14

\* Nor does one from its commit to its return.
LEMMA RunKeepsJournal ==
  ASSUME TypeOK, JournalInv, NEW o \in Ops,
         \/ BindSource(o) \/ Commit(o) \/ Hold(o) \/ CheckpointAfter(o)
         \/ MarkApplied(o) \/ RecordSuccess(o) \/ Finalize(o) \/ AddEvent(o)
  PROVE  JournalInv'
PROOF
<1> USE DEF Recorded, Listed, Quitting, TypeOK, ControlOK, Labels, Goto, SetRow, SetJournal, Leave,
        GiveUp, ToFailing, Fault, auditVars, recVars, Ended
<1>0. Recorded(o)
  BY DEF JournalInv
<1>1. ASSUME BindSource(o) PROVE JournalInv'
  BY <1>1, <1>0, CallKeepsJournal DEF BindSource
<1>2. ASSUME Commit(o) PROVE JournalInv'
  BY <1>2, <1>0, CallKeepsJournal DEF Commit
<1>3. ASSUME Hold(o) PROVE JournalInv'
  BY <1>3, <1>0, CallKeepsJournal DEF Hold
<1>4. ASSUME CheckpointAfter(o) PROVE JournalInv'
  BY <1>4, <1>0, CallKeepsJournal DEF CheckpointAfter
<1>5. ASSUME MarkApplied(o) PROVE JournalInv'
  BY <1>5, <1>0, CallKeepsJournal DEF MarkApplied
<1>6. ASSUME RecordSuccess(o) PROVE JournalInv'
  BY <1>6, <1>0, CallKeepsJournal DEF RecordSuccess
<1>7. ASSUME Finalize(o) PROVE JournalInv'
  BY <1>7, <1>0, CallKeepsJournal DEF Finalize
<1>8. ASSUME AddEvent(o) PROVE JournalInv'
  BY <1>8, <1>0, CallKeepsJournal DEF AddEvent
<1> QED
  BY <1>1, <1>2, <1>3, <1>4, <1>5, <1>6, <1>7, <1>8

\* Nor does one of a call that fails, or dies.
LEMMA FailKeepsJournal ==
  ASSUME TypeOK, JournalInv, NEW o \in Ops,
         \/ CommitFails(o) \/ HoldFails(o) \/ StepFails(o) \/ UndoWrite(o)
         \/ UndoVerified(o) \/ UndoRefused(o) \/ RollbackScan(o) \/ RollbackApplyScan(o)
         \/ RollbackPath(o) \/ RollbackApplied(o) \/ RollbackVerified(o)
         \/ RollbackRefused(o) \/ RecordFailure(o) \/ MarkReconciled(o) \/ Crash(o)
  PROVE  JournalInv'
PROOF
<1> USE DEF Recorded, Listed, Quitting, TypeOK, ControlOK, Labels, Goto, SetRow, SetJournal, Leave,
        GiveUp, ToFailing, Fault, auditVars, recVars, Ended
<1>0. Recorded(o)
  BY DEF JournalInv
<1>1. ASSUME CommitFails(o) PROVE JournalInv'
  BY <1>1, <1>0, CallKeepsJournal DEF CommitFails
<1>2. ASSUME HoldFails(o) PROVE JournalInv'
  BY <1>2, <1>0, CallKeepsJournal DEF HoldFails
<1>3. ASSUME StepFails(o) PROVE JournalInv'
  BY <1>3, <1>0, CallKeepsJournal DEF StepFails
<1>4. ASSUME UndoWrite(o) PROVE JournalInv'
  BY <1>4, <1>0, CallKeepsJournal DEF UndoWrite
<1>5. ASSUME UndoVerified(o) PROVE JournalInv'
  BY <1>5, <1>0, CallKeepsJournal DEF UndoVerified
<1>6. ASSUME UndoRefused(o) PROVE JournalInv'
  BY <1>6, <1>0, CallKeepsJournal DEF UndoRefused
<1>7. ASSUME RollbackScan(o) PROVE JournalInv'
  BY <1>7, <1>0, CallKeepsJournal DEF RollbackScan
<1>8. ASSUME RollbackApplyScan(o) PROVE JournalInv'
  BY <1>8, <1>0, CallKeepsJournal DEF RollbackApplyScan
<1>9. ASSUME RollbackPath(o) PROVE JournalInv'
  BY <1>9, <1>0, CallKeepsJournal DEF RollbackPath
<1>10. ASSUME RollbackApplied(o) PROVE JournalInv'
  BY <1>10, <1>0, CallKeepsJournal DEF RollbackApplied
<1>11. ASSUME RollbackVerified(o) PROVE JournalInv'
  BY <1>11, <1>0, CallKeepsJournal DEF RollbackVerified
<1>12. ASSUME RollbackRefused(o) PROVE JournalInv'
  BY <1>12, <1>0, CallKeepsJournal DEF RollbackRefused
<1>13. ASSUME RecordFailure(o) PROVE JournalInv'
  BY <1>13, <1>0, CallKeepsJournal DEF RecordFailure, Quitting
<1>14. ASSUME MarkReconciled(o) PROVE JournalInv'
  BY <1>14, <1>0, CallKeepsJournal DEF MarkReconciled, Quitting
<1>15. ASSUME Crash(o) PROVE JournalInv'
  BY <1>15, <1>0, CallKeepsJournal DEF Crash, Quitting
<1> QED
  BY <1>1, <1>2, <1>3, <1>4, <1>5, <1>6, <1>7, <1>8, <1>9, <1>10, <1>11, <1>12, <1>13, <1>14, <1>15

\* Nor does a step of the reconciler, which lists only journals of calls that have no slot left.
LEMMA ReconcilerKeepsJournal ==
  ASSUME TypeOK, SlotInv, JournalInv, 
         \/ RecCall \/ RecAcquireSlot \/ RecGiveUp \/ RecList
         \/ (\E o \in Ops : RecJournal(o)) \/ RecScan \/ RecPath \/ RecVerify \/ RecRow
         \/ RecMark \/ RecEnd \/ RecCrash
  PROVE  JournalInv'
PROOF
<1> USE DEF TypeOK, ControlOK, auditVars, recVars, RecUnchanged, SetJournal
<1>0. /\ Reconciling /\ (\A x \in Ops : Recorded(x))
      /\ rqueue \subseteq Ops /\ rop \in Ops \cup {Nobody} /\ Nobody \notin Ops
  BY ActorAssumption DEF JournalInv
<1>1. ASSUME RecCall PROVE JournalInv'
  <2>1. UNCHANGED <<pc, row, jstate, reconciled>>
    BY <1>1 DEF RecCall
  <2>2. \A x \in Ops : Recorded(x)'
    BY <1>0, <2>1 DEF Recorded
  <2>3. Reconciling'
    BY <1>0, <1>1, <2>1 DEF RecCall, Reconciling, Listed
  <2> QED
    BY <2>2, <2>3 DEF JournalInv
<1>2. ASSUME RecAcquireSlot PROVE JournalInv'
  <2>1. UNCHANGED <<pc, row, jstate, reconciled>>
    BY <1>2 DEF RecAcquireSlot
  <2>2. \A x \in Ops : Recorded(x)'
    BY <1>0, <2>1 DEF Recorded
  <2>3. Reconciling'
    BY <1>0, <1>2, <2>1 DEF RecAcquireSlot, Reconciling, Listed
  <2> QED
    BY <2>2, <2>3 DEF JournalInv
<1>3. ASSUME RecGiveUp PROVE JournalInv'
  <2>1. UNCHANGED <<pc, row, jstate, reconciled>>
    BY <1>3 DEF RecGiveUp
  <2>2. \A x \in Ops : Recorded(x)'
    BY <1>0, <2>1 DEF Recorded
  <2>3. Reconciling'
    BY <1>0, <1>3, <2>1 DEF RecGiveUp, Reconciling, Listed
  <2> QED
    BY <2>2, <2>3 DEF JournalInv
<1>4. ASSUME RecList PROVE JournalInv'
  <2>1. UNCHANGED <<pc, row, jstate, reconciled, rop>> /\ rpc = "lock" /\ rpc' = "next"
        /\ queue[Reconciler] = {} /\ rqueue' = Incomplete
    BY <1>4 DEF RecList
  <2>2. \A x \in Ops : Recorded(x)'
    BY <1>0, <2>1 DEF Recorded
  <2>3. \A s \in Slots : slot[s] = Reconciler
    BY <2>1 DEF SlotInv, ReconcilerSlots
  <2>4. \A x \in Ops : pc[x] \notin Locked
    BY <2>3, SlotsOfCall, ActorAssumption DEF SlotInv, CallSlots
  <2>5. \A x \in Incomplete : Listed(x)
    BY <1>0, <2>4 DEF Incomplete, Settled, Recorded, Listed, Locked, Quitting, Labels
  <2>6. Reconciling'
    BY <1>0, <2>1, <2>5 DEF Reconciling, Listed, Incomplete
  <2> QED
    BY <2>2, <2>6 DEF JournalInv
<1>5. ASSUME NEW o \in Ops, RecJournal(o) PROVE JournalInv'
  <2>1. /\ UNCHANGED <<pc, row, reconciled>> /\ o \in rqueue /\ rqueue' = rqueue \ {o} /\ rop' = o
        /\ rpc = "next" /\ rpc' \in {"rscan", "row"}
        /\ \E s \in {"recovery_required", "failed_recovered", jstate[o]} :
              jstate' = [jstate EXCEPT ![o] = s]
        /\ jstate'[o] = jstate[o] \/ jstate[o] \in {"applying", "applied_verified"}
        /\ rpc' = "rscan" => jstate[o] = "applying" /\ jstate'[o] = "applying"
        /\ rpc' = "row" => jstate'[o] # "applying"
    BY <1>5 DEF RecJournal
  <2>2. Listed(o) /\ rop = Nobody
    BY <1>0, <2>1 DEF Reconciling
  <2>3. \A x \in Ops : Recorded(x)'
    BY <1>0, <2>1, <2>2 DEF Recorded, Listed, Quitting
  <2>4. Reconciling'
    BY <1>0, <2>1, <2>2 DEF Reconciling, Listed
  <2> QED
    BY <2>3, <2>4 DEF JournalInv
<1>6. ASSUME RecScan PROVE JournalInv'
  <2>1. UNCHANGED <<pc, row, jstate, reconciled>>
    BY <1>6 DEF RecScan
  <2>2. \A x \in Ops : Recorded(x)'
    BY <1>0, <2>1 DEF Recorded
  <2>3. Reconciling'
    BY <1>0, <1>6, <2>1 DEF RecScan, Reconciling, Listed
  <2> QED
    BY <2>2, <2>3 DEF JournalInv
<1>7. ASSUME RecPath PROVE JournalInv'
  <2>1. UNCHANGED <<pc, row, jstate, reconciled>>
    BY <1>7 DEF RecPath
  <2>2. \A x \in Ops : Recorded(x)'
    BY <1>0, <2>1 DEF Recorded
  <2>3. Reconciling'
    BY <1>0, <1>7, <2>1 DEF RecPath, Reconciling, Listed
  <2> QED
    BY <2>2, <2>3 DEF JournalInv
<1>8. ASSUME RecVerify PROVE JournalInv'
  <2>1. /\ UNCHANGED <<pc, row, reconciled, rqueue, rop>> /\ rpc = "rpath" /\ rpc' = "row"
        /\ \E s \in {"recovery_required", "failed_recovered"} : jstate' = [jstate EXCEPT ![rop] = s]
    BY <1>8 DEF RecVerify
  <2>2. rop \in Ops /\ jstate[rop] = "applying" /\ Listed(rop)
    BY <1>0, <2>1 DEF Reconciling
  <2>3. \A x \in Ops : Recorded(x)'
    BY <1>0, <2>1, <2>2 DEF Recorded, Listed, Quitting
  <2>4. Reconciling'
    BY <1>0, <2>1, <2>2 DEF Reconciling, Listed
  <2> QED
    BY <2>3, <2>4 DEF JournalInv
<1>9. ASSUME RecRow PROVE JournalInv'
  <2>1. /\ UNCHANGED <<pc, jstate, reconciled, rqueue, rop>> /\ rpc = "row" /\ rpc' = "mark"
        /\ row' = [row EXCEPT ![rop] =
             IF row[rop] = "none" THEN row[rop]
             ELSE IF jstate[rop] = "applied_verified" THEN "succeeded" ELSE "interrupted"]
    BY <1>9 DEF RecRow
  <2>2. rop \in Ops /\ Listed(rop)
    BY <1>0, <2>1 DEF Reconciling
  <2>3. \A x \in Ops : Recorded(x)'
    BY <1>0, <2>1, <2>2 DEF Recorded, Listed, Quitting
  <2>4. Reconciling'
    BY <1>0, <2>1, <2>2 DEF Reconciling, Listed, Recorded
  <2> QED
    BY <2>3, <2>4 DEF JournalInv
<1>10. ASSUME RecMark PROVE JournalInv'
  <2>1. /\ UNCHANGED <<pc, row, rqueue>> /\ rpc = "mark" /\ rpc' = "next" /\ rop' = Nobody
        /\ jstate' = [jstate EXCEPT ![rop] =
                        IF jstate[rop] = "applied_verified" THEN "complete" ELSE jstate[rop]]
        /\ reconciled' = [reconciled EXCEPT ![rop] = TRUE]
    BY <1>10 DEF RecMark
  <2>2. rop \in Ops /\ Listed(rop)
    BY <1>0, <2>1 DEF Reconciling
  <2>3. \A x \in Ops : Recorded(x)'
    BY <1>0, <2>1, <2>2 DEF Recorded, Listed, Quitting, Reconciling, JournalStates
  <2>4. Reconciling'
    BY <1>0, <2>1, <2>2 DEF Reconciling, Listed
  <2> QED
    BY <2>3, <2>4 DEF JournalInv
<1>11. ASSUME RecEnd PROVE JournalInv'
  <2>1. UNCHANGED <<pc, row, jstate, reconciled>>
    BY <1>11 DEF RecEnd
  <2>2. \A x \in Ops : Recorded(x)'
    BY <1>0, <2>1 DEF Recorded
  <2>3. Reconciling'
    BY <1>0, <1>11, <2>1 DEF RecEnd, Reconciling, Listed
  <2> QED
    BY <2>2, <2>3 DEF JournalInv
<1>12. ASSUME RecCrash PROVE JournalInv'
  <2>1. UNCHANGED <<pc, row, jstate, reconciled>>
    BY <1>12 DEF RecCrash
  <2>2. \A x \in Ops : Recorded(x)'
    BY <1>0, <2>1 DEF Recorded
  <2>3. Reconciling'
    BY <1>0, <1>12, <2>1 DEF RecCrash, Reconciling, Listed
  <2> QED
    BY <2>2, <2>3 DEF JournalInv
<1> QED
  BY <1>1, <1>2, <1>3, <1>4, <1>5, <1>6, <1>7, <1>8, <1>9, <1>10, <1>11, <1>12

-----------------------------------------------------------------------------
(* What a call read and what it left                                       *)

\* A step of one call keeps the marks of the others: it puts its own mark, or none, where it
\* changes a path.
LEMMA CallKeepsMarks ==
  ASSUME MarkInv, NEW o \in Ops,
         \A x \in Ops \ {o} : /\ pc'[x] = pc[x] /\ jstate'[x] = jstate[x] /\ got'[x] = got[x]
                              /\ base'[x] = base[x] /\ todo'[x] = todo[x],
         \A p \in Paths : ws'[p] = ws[p] \/ ws'[p].by = o \/ ws'[p].by \notin Ops,
         Marked(o)'
  PROVE  MarkInv'
PROOF
<1>1. ASSUME NEW x \in Ops \ {o} PROVE Marked(x)'
  BY <1>1 DEF MarkInv, Marked
<1> QED
  BY <1>1 DEF MarkInv

\* Putting a path back leaves no mark, and takes the path off the list.
LEMMA ApplyUnmarks ==
  ASSUME FilesOK, NEW o \in Ops, NEW p \in Paths, ApplyPath(o, p)
  PROVE  /\ \A q \in Paths : ws'[q] = ws[q] \/ ws'[q].by = Nobody
         /\ todo' = [todo EXCEPT ![o] = todo[o] \ {p}]
PROOF
  BY DEF ApplyPath, FilesOK, Files

\* No step of a call before its commit disturbs the marks.
LEMMA StartKeepsMarks ==
  ASSUME TypeOK, JournalInv, MarkInv, NEW o \in Ops,
         \/ Prepare(o) \/ RejectPreparation(o) \/ Fetch(o) \/ FetchFails(o)
         \/ TransformFails(o) \/ Call(o) \/ AcquireSlot(o) \/ Acquired(o)
         \/ LockTimeout(o) \/ ReadTarget(o) \/ Reject(o) \/ CreateRow(o)
         \/ CheckpointBefore(o) \/ BeginJournal(o)
  PROVE  MarkInv'
PROOF
<1> USE DEF Marked, Reading, Recorded, TypeOK, ControlOK, Labels, Goto, SetRow, SetJournal, Leave,
        GiveUp, ToFailing, Fault, auditVars, recVars, fileVars, readVars, undoVars, Ended
<1>0. /\ Recorded(o) /\ Marked(o)
      /\ Touched(o) \subseteq DOMAIN Tool[o].start /\ DOMAIN Tool[o].start \subseteq Paths
      /\ Kind[o] \in Single => Touched(o) = {Dst[o]}
  BY ToolFacts DEF JournalInv, MarkInv
<1>1. ASSUME Prepare(o) PROVE MarkInv'
  BY <1>1, <1>0, CallKeepsMarks DEF Prepare
<1>2. ASSUME RejectPreparation(o) PROVE MarkInv'
  BY <1>2, <1>0, CallKeepsMarks DEF RejectPreparation
<1>3. ASSUME Fetch(o) PROVE MarkInv'
  BY <1>3, <1>0, CallKeepsMarks DEF Fetch
<1>4. ASSUME FetchFails(o) PROVE MarkInv'
  BY <1>4, <1>0, CallKeepsMarks DEF FetchFails
<1>5. ASSUME TransformFails(o) PROVE MarkInv'
  BY <1>5, <1>0, CallKeepsMarks DEF TransformFails
<1>6. ASSUME Call(o) PROVE MarkInv'
  BY <1>6, <1>0, CallKeepsMarks DEF Call
<1>7. ASSUME AcquireSlot(o) PROVE MarkInv'
  BY <1>7, <1>0, CallKeepsMarks DEF AcquireSlot
<1>8. ASSUME Acquired(o) PROVE MarkInv'
  BY <1>8, <1>0, CallKeepsMarks DEF Acquired
<1>9. ASSUME LockTimeout(o) PROVE MarkInv'
  BY <1>9, <1>0, CallKeepsMarks DEF LockTimeout
<1>10. ASSUME ReadTarget(o) PROVE MarkInv'
  <2>1. /\ got' = [got EXCEPT ![o] = ws] /\ got \in [Ops -> Files]
        /\ \A p \in DOMAIN Tool[o].start : ws[p].data = StartData(o, p)
    BY <1>10 DEF ReadTarget, Start, FilesOK
  <2> QED
    BY <1>10, <1>0, <2>1, CallKeepsMarks DEF ReadTarget
<1>11. ASSUME Reject(o) PROVE MarkInv'
  BY <1>11, <1>0, CallKeepsMarks DEF Reject
<1>12. ASSUME CreateRow(o) PROVE MarkInv'
  BY <1>12, <1>0, CallKeepsMarks DEF CreateRow
<1>13. ASSUME CheckpointBefore(o) PROVE MarkInv'
  <2>1. base \in [Ops -> Data]
    BY DEF FilesOK
  <2> QED
    BY <1>13, <1>0, <2>1, CallKeepsMarks DEF CheckpointBefore
<1>14. ASSUME BeginJournal(o) PROVE MarkInv'
  BY <1>14, <1>0, CallKeepsMarks DEF BeginJournal
<1> QED
  BY <1>1, <1>2, <1>3, <1>4, <1>5, <1>6, <1>7, <1>8, <1>9, <1>10, <1>11, <1>12, <1>13, <1>14

\* Nor does one from its commit to its return.
LEMMA RunKeepsMarks ==
  ASSUME TypeOK, JournalInv, MarkInv, NEW o \in Ops,
         \/ BindSource(o) \/ Commit(o) \/ Hold(o) \/ CheckpointAfter(o)
         \/ MarkApplied(o) \/ RecordSuccess(o) \/ Finalize(o) \/ AddEvent(o)
  PROVE  MarkInv'
PROOF
<1> USE DEF Marked, Reading, Recorded, TypeOK, ControlOK, Labels, Goto, SetRow, SetJournal, Leave,
        GiveUp, ToFailing, Fault, auditVars, recVars, fileVars, readVars, undoVars, Ended
<1>0. /\ Recorded(o) /\ Marked(o)
      /\ Touched(o) \subseteq DOMAIN Tool[o].start /\ DOMAIN Tool[o].start \subseteq Paths
      /\ Kind[o] \in Single => Touched(o) = {Dst[o]}
  BY ToolFacts DEF JournalInv, MarkInv
<1>1. ASSUME BindSource(o) PROVE MarkInv'
  BY <1>1, <1>0, CallKeepsMarks DEF BindSource
<1>2. ASSUME Commit(o) PROVE MarkInv'
  <2>1. /\ ws' = [p \in Paths |-> IF p \in Touched(o) THEN File(o, p, CommitId(o)) ELSE ws[p]]
        /\ UNCHANGED <<jstate, got, base, todo>> /\ pc[o] = "commit"
        /\ \A x \in Ops \ {o} : pc'[x] = pc[x]
        /\ pc'[o] \in {"hold", "after"}
    BY <1>2 DEF Commit
  <2>2. \A p \in Paths : IF p \in Touched(o) THEN ws'[p].by = o ELSE ws'[p] = ws[p]
    <3>1. \A p \in Paths : File(o, p, CommitId(o)).by = o
      BY DEF File
    <3> QED
      BY <2>1, <3>1
  <2>3. Marked(o)'
    BY <1>0, <2>1, <2>2
  <2> QED
    BY <2>1, <2>2, <2>3, CallKeepsMarks
<1>3. ASSUME Hold(o) PROVE MarkInv'
  BY <1>3, <1>0, CallKeepsMarks DEF Hold
<1>4. ASSUME CheckpointAfter(o) PROVE MarkInv'
  BY <1>4, <1>0, CallKeepsMarks DEF CheckpointAfter
<1>5. ASSUME MarkApplied(o) PROVE MarkInv'
  BY <1>5, <1>0, CallKeepsMarks DEF MarkApplied
<1>6. ASSUME RecordSuccess(o) PROVE MarkInv'
  BY <1>6, <1>0, CallKeepsMarks DEF RecordSuccess
<1>7. ASSUME Finalize(o) PROVE MarkInv'
  BY <1>7, <1>0, CallKeepsMarks DEF Finalize
<1>8. ASSUME AddEvent(o) PROVE MarkInv'
  BY <1>8, <1>0, CallKeepsMarks DEF AddEvent
<1> QED
  BY <1>1, <1>2, <1>3, <1>4, <1>5, <1>6, <1>7, <1>8

\* Nor does one of a call that fails, or dies.
LEMMA FailKeepsMarks ==
  ASSUME TypeOK, JournalInv, MarkInv, NEW o \in Ops,
         \/ CommitFails(o) \/ HoldFails(o) \/ StepFails(o) \/ UndoWrite(o)
         \/ UndoVerified(o) \/ UndoRefused(o) \/ RollbackScan(o) \/ RollbackApplyScan(o)
         \/ RollbackPath(o) \/ RollbackApplied(o) \/ RollbackVerified(o)
         \/ RollbackRefused(o) \/ RecordFailure(o) \/ MarkReconciled(o) \/ Crash(o)
  PROVE  MarkInv'
PROOF
<1> USE DEF Marked, Reading, Recorded, TypeOK, ControlOK, Labels, Goto, SetRow, SetJournal, Leave,
        GiveUp, ToFailing, Fault, auditVars, recVars, fileVars, readVars, undoVars, Ended
<1>0. /\ Recorded(o) /\ Marked(o)
      /\ Touched(o) \subseteq DOMAIN Tool[o].start /\ DOMAIN Tool[o].start \subseteq Paths
      /\ Kind[o] \in Single => Touched(o) = {Dst[o]}
  BY ToolFacts DEF JournalInv, MarkInv
<1>1. ASSUME CommitFails(o) PROVE MarkInv'
  BY <1>1, <1>0, CallKeepsMarks DEF CommitFails
<1>2. ASSUME HoldFails(o) PROVE MarkInv'
  BY <1>2, <1>0, CallKeepsMarks DEF HoldFails
<1>3. ASSUME StepFails(o) PROVE MarkInv'
  BY <1>3, <1>0, CallKeepsMarks DEF StepFails
<1>4. ASSUME UndoWrite(o) PROVE MarkInv'
  <2>1. /\ UNCHANGED <<jstate, got, base, todo>> /\ Touched(o) = {Dst[o]}
        /\ \A x \in Ops \ {o} : pc'[x] = pc[x]
        /\ pc'[o] = "undone"
    BY <1>4, <1>0 DEF UndoWrite
  <2>2. /\ \A p \in Paths : ws'[p] = ws[p] \/ ws'[p].by = Nobody
        /\ ws'[Dst[o]].by = Nobody
    BY <1>4, RequestAssumption DEF UndoWrite, PutBack, FilesOK, Files
  <2>3. Marked(o)'
    BY <1>0, <2>1, <2>2, ActorAssumption
  <2> QED
    BY <2>1, <2>2, <2>3, CallKeepsMarks, ActorAssumption
<1>5. ASSUME UndoVerified(o) PROVE MarkInv'
  BY <1>5, <1>0, CallKeepsMarks DEF UndoVerified
<1>6. ASSUME UndoRefused(o) PROVE MarkInv'
  BY <1>6, <1>0, CallKeepsMarks DEF UndoRefused
<1>7. ASSUME RollbackScan(o) PROVE MarkInv'
  BY <1>7, <1>0, CallKeepsMarks DEF RollbackScan
<1>8. ASSUME RollbackApplyScan(o) PROVE MarkInv'
  <2>1. /\ todo' = [todo EXCEPT ![o] = {p \in Touched(o) : ws[p].data # base[o][p]}]
        /\ todo \in [Ops -> SUBSET Paths]
    BY <1>8 DEF RollbackApplyScan, ApplyScan, FilesOK
  <2> QED
    BY <1>8, <1>0, <2>1, CallKeepsMarks DEF RollbackApplyScan
<1>9. ASSUME RollbackPath(o) PROVE MarkInv'
  <2>1. PICK p \in Paths : ApplyPath(o, p)
    BY <1>9 DEF RollbackPath
  <2>2. /\ \A q \in Paths : ws'[q] = ws[q] \/ ws'[q].by = Nobody
        /\ todo' = [todo EXCEPT ![o] = todo[o] \ {p}] /\ todo \in [Ops -> SUBSET Paths]
    BY <2>1, ApplyUnmarks DEF FilesOK
  <2>3. UNCHANGED <<pc, jstate, got, base>>
    BY <1>9 DEF RollbackPath
  <2>4. Marked(o)'
    BY <1>0, <2>2, <2>3, ActorAssumption
  <2> QED
    BY <2>2, <2>3, <2>4, CallKeepsMarks, ActorAssumption
<1>10. ASSUME RollbackApplied(o) PROVE MarkInv'
  BY <1>10, <1>0, CallKeepsMarks DEF RollbackApplied
<1>11. ASSUME RollbackVerified(o) PROVE MarkInv'
  BY <1>11, <1>0, CallKeepsMarks DEF RollbackVerified, AtStart
<1>12. ASSUME RollbackRefused(o) PROVE MarkInv'
  BY <1>12, <1>0, CallKeepsMarks DEF RollbackRefused
<1>13. ASSUME RecordFailure(o) PROVE MarkInv'
  BY <1>13, <1>0, CallKeepsMarks DEF RecordFailure
<1>14. ASSUME MarkReconciled(o) PROVE MarkInv'
  BY <1>14, <1>0, CallKeepsMarks DEF MarkReconciled
<1>15. ASSUME Crash(o) PROVE MarkInv'
  BY <1>15, <1>0, CallKeepsMarks DEF Crash
<1> QED
  BY <1>1, <1>2, <1>3, <1>4, <1>5, <1>6, <1>7, <1>8, <1>9, <1>10, <1>11, <1>12, <1>13, <1>14, <1>15

\* Nor does a step of the reconciler.
LEMMA ReconcilerKeepsMarks ==
  ASSUME TypeOK, SlotInv, JournalInv, MarkInv,
         \/ RecCall \/ RecAcquireSlot \/ RecGiveUp \/ RecList
         \/ (\E o \in Ops : RecJournal(o)) \/ RecScan \/ RecPath \/ RecVerify \/ RecRow
         \/ RecMark \/ RecEnd \/ RecCrash
  PROVE  MarkInv'
PROOF
<1> USE DEF MarkInv, Marked, TypeOK, ControlOK, auditVars, recVars, fileVars, readVars, undoVars,
        RecUnchanged, SetJournal
<1>0. \A x \in Ops : Marked(x)
  BY DEF MarkInv
<1>1. ASSUME RecCall PROVE MarkInv'
  BY <1>1, <1>0 DEF RecCall
<1>2. ASSUME RecAcquireSlot PROVE MarkInv'
  BY <1>2, <1>0 DEF RecAcquireSlot
<1>3. ASSUME RecGiveUp PROVE MarkInv'
  BY <1>3, <1>0 DEF RecGiveUp
<1>4. ASSUME RecList PROVE MarkInv'
  BY <1>4, <1>0 DEF RecList
<1>5. ASSUME NEW o \in Ops, RecJournal(o) PROVE MarkInv'
  <2>1. /\ UNCHANGED <<ws, pc, got, base, todo>>
        /\ \A x \in Ops \ {o} : jstate'[x] = jstate[x]
        /\ jstate'[o] # jstate[o] => jstate[o] # "none" /\ jstate'[o] # "none"
        /\ jstate'[o] = "failed_recovered" => jstate[o] = "failed_recovered" \/ AtStart(o)
    BY <1>5 DEF RecJournal
  <2> QED
    BY <1>0, <2>1 DEF AtStart
<1>6. ASSUME RecScan PROVE MarkInv'
  <2>1. todo' = [todo EXCEPT ![rop] = {p \in Touched(rop) : ws[p].data # base[rop][p]}]
        /\ UNCHANGED <<ws, pc, jstate, got, base>> /\ todo \in [Ops -> SUBSET Paths]
    BY <1>6 DEF RecScan, ApplyScan, FilesOK
  <2> QED
    BY <1>0, <2>1
<1>7. ASSUME RecPath PROVE MarkInv'
  <2>1. rop \in Ops /\ UNCHANGED <<pc, jstate, got, base>> /\ todo \in [Ops -> SUBSET Paths]
    BY <1>7 DEF RecPath, JournalInv, Reconciling, FilesOK
  <2>2. PICK p \in Paths : ApplyPath(rop, p)
    BY <1>7 DEF RecPath
  <2>3. /\ \A q \in Paths : ws'[q] = ws[q] \/ ws'[q].by = Nobody
        /\ todo' = [todo EXCEPT ![rop] = todo[rop] \ {p}]
    BY <2>1, <2>2, ApplyUnmarks
  <2> QED
    BY <1>0, <2>1, <2>3, ActorAssumption
<1>8. ASSUME RecVerify PROVE MarkInv'
  <2>1. rop \in Ops /\ jstate[rop] = "applying"
    BY <1>8 DEF RecVerify, JournalInv, Reconciling
  <2>2. /\ UNCHANGED <<ws, pc, got, base, todo>>
        /\ \A x \in Ops \ {rop} : jstate'[x] = jstate[x]
        /\ jstate'[rop] # "none"
        /\ jstate'[rop] = "failed_recovered" => AtStart(rop)
    BY <1>8, <2>1 DEF RecVerify
  <2> QED
    BY <1>0, <2>1, <2>2 DEF AtStart
<1>9. ASSUME RecRow PROVE MarkInv'
  BY <1>9, <1>0 DEF RecRow
<1>10. ASSUME RecMark PROVE MarkInv'
  BY <1>10, <1>0 DEF RecMark
<1>11. ASSUME RecEnd PROVE MarkInv'
  BY <1>11, <1>0 DEF RecEnd
<1>12. ASSUME RecCrash PROVE MarkInv'
  BY <1>12, <1>0 DEF RecCrash
<1> QED
  BY <1>1, <1>2, <1>3, <1>4, <1>5, <1>6, <1>7, <1>8, <1>9, <1>10, <1>11, <1>12

\* Nor does the user's editor, which leaves no mark.
LEMMA EditKeepsMarks ==
  ASSUME TypeOK, MarkInv, NEW p \in Paths, Edit(p)
  PROVE  MarkInv'
PROOF
<1>1. UNCHANGED <<pc, jstate, got, base, todo>>
  BY DEF Edit, auditVars, readVars, undoVars
<1>2. \A q \in Paths : ws'[q] = ws[q] \/ ws'[q].by = Nobody
  BY DEF Edit, TypeOK, FilesOK, Files
<1> QED
  BY <1>1, <1>2, ActorAssumption DEF MarkInv, Marked

-----------------------------------------------------------------------------
(* The invariant and what follows from it                                  *)

\* The initial state satisfies the invariant.
LEMMA InitInv == Init => FileInv
PROOF
<1> SUFFICES ASSUME Init PROVE FileInv
  OBVIOUS
<1>1. SlotInv
  <2>1. \A s \in Slots : slot[s] = Free
    BY DEF Init
  <2>2. /\ \A a \in Actors : queue[a] = {}
        /\ \A x \in Ops : pc[x] = "idle"
        /\ rpc = "idle"
    BY DEF Init, Actors
  <2>3. Reconciler \in Actors /\ Ops \subseteq Actors /\ Free \notin Actors
    BY ActorAssumption DEF Actors
  <2> QED
    BY <2>1, <2>2, <2>3
    DEF SlotInv, CallSlots, ReconcilerSlots, Sorted, HoldsNone, Locked
<1>2. JournalInv
  BY ActorAssumption DEF Init, JournalInv, Recorded, Reconciling, Listed
<1>3. MarkInv
  <2>1. \A p \in Paths : ws[p].by = Nobody
    BY DEF Init
  <2>2. \A x \in Ops : pc[x] = "idle" /\ todo[x] = {}
    BY DEF Init
  <2> QED
    BY <2>1, <2>2, ActorAssumption DEF MarkInv, Marked, Reading
<1> QED
  BY <1>1, <1>2, <1>3, InitTypes DEF FileInv

\* So does the state after every step.
LEMMA StepInv == FileInv /\ [Next]_vars => FileInv'
PROOF
<1> SUFFICES ASSUME FileInv, [Next]_vars PROVE FileInv'
  OBVIOUS
<1> USE DEF FileInv
<1>0. Reconciling
  BY DEF JournalInv
<1>1. ASSUME NEW o \in Ops,
             \/ Prepare(o) \/ RejectPreparation(o) \/ Fetch(o) \/ FetchFails(o)
             \/ TransformFails(o) \/ Call(o) \/ AcquireSlot(o) \/ Acquired(o)
             \/ LockTimeout(o) \/ ReadTarget(o) \/ Reject(o) \/ CreateRow(o)
             \/ CheckpointBefore(o) \/ BeginJournal(o)
      PROVE  FileInv'
  BY <1>1, StartTypes, StartKeepsSlots, StartKeepsJournal, StartKeepsMarks
<1>2. ASSUME NEW o \in Ops,
             \/ BindSource(o) \/ Commit(o) \/ Hold(o) \/ CheckpointAfter(o)
             \/ MarkApplied(o) \/ RecordSuccess(o) \/ Finalize(o) \/ AddEvent(o)
      PROVE  FileInv'
  BY <1>2, RunTypes, RunKeepsSlots, RunKeepsJournal, RunKeepsMarks
<1>3. ASSUME NEW o \in Ops,
             \/ CommitFails(o) \/ HoldFails(o) \/ StepFails(o) \/ UndoWrite(o)
             \/ UndoVerified(o) \/ UndoRefused(o) \/ RollbackScan(o) \/ RollbackApplyScan(o)
             \/ RollbackPath(o) \/ RollbackApplied(o) \/ RollbackVerified(o)
             \/ RollbackRefused(o) \/ RecordFailure(o) \/ MarkReconciled(o) \/ Crash(o)
      PROVE  FileInv'
  BY <1>3, FailTypes, FailKeepsSlots, FailKeepsJournal, FailKeepsMarks
<1>4. ASSUME Reconcile \/ RecCrash
      PROVE  FileInv'
  BY <1>0, <1>4, ReconcilerTypes, ReconcilerKeepsSlots, ReconcilerKeepsJournal, ReconcilerKeepsMarks
  DEF Reconcile
<1>5. ASSUME NEW p \in Paths, Edit(p)
      PROVE  FileInv'
  <2>1. UNCHANGED <<slot, queue, pc, rpc>>
    BY <1>5 DEF Edit, lockVars, recVars
  <2>2. SlotInv'
    BY <2>1 DEF SlotInv, CallSlots, ReconcilerSlots, Sorted, HoldsNone
  <2>3. UNCHANGED <<pc, row, jstate, reconciled, rpc, rop, rqueue>>
    BY <1>5 DEF Edit, auditVars, recVars
  <2>4. JournalInv'
    BY <2>3 DEF JournalInv, Recorded, Reconciling, Listed
  <2> QED
    BY <1>5, <2>2, <2>4, EditTypes, EditKeepsMarks
<1>6. ASSUME UNCHANGED vars
      PROVE  FileInv'
  BY <1>6 DEF vars, TypeOK, FilesOK, LocksOK, ControlOK, BoundsOK, SlotInv, CallSlots,
     ReconcilerSlots, Sorted, HoldsNone, JournalInv, Recorded, Reconciling, Listed, MarkInv, Marked
<1> QED
  BY <1>1, <1>2, <1>3, <1>4, <1>5, <1>6 DEF Next, Proceed

\* Every state of every behaviour is well typed and satisfies the invariant.
THEOREM FileInvariant == Spec => []FileInv
PROOF
  BY InitInv, StepInv, PTL DEF Spec

\* Types: whatever the calls, the editor and the reconciler do.
THEOREM TypeCorrect == Spec => []TypeOK
PROOF
<1>1. FileInv => TypeOK
  BY DEF FileInv
<1> QED
  BY <1>1, FileInvariant, PTL

\* No two actors ever wait for each other's lock slots (WorkspaceExecutionLock._acquire_slot).
THEOREM NeverCircularWait == Spec => []NoCircularWait
PROOF
<1>1. FileInv => NoCircularWait
  BY SlotsInOrder DEF FileInv
<1> QED
  BY <1>1, FileInvariant, PTL

\* A failed or dead call that has settled left nothing at a path but the bytes of its own
\* checkpoint, whatever was edited, failed or died.
THEOREM FailedLeavesNothing == Spec => []FailureLeavesNothing
PROOF
<1>1. ASSUME FileInv PROVE FailureLeavesNothing
  <2> SUFFICES ASSUME NEW o \in Ops, pc[o] \in {"raised", "dead"}, Settled(o), row[o] # "succeeded",
                      NEW p \in Paths, ws[p].by = o
               PROVE  ws[p].data = base[o][p]
    BY DEF FailureLeavesNothing
  <2>1. Recorded(o) /\ Marked(o)
    BY <1>1 DEF FileInv, JournalInv, MarkInv
  <2> QED
    BY <2>1 DEF Recorded, Marked, Settled
<1> QED
  BY <1>1, FileInvariant, PTL

\* A returned call stays recorded as a success with a finalized journal.
THEOREM ReturnedStaysRecorded == Spec => []ReturnedIsRecorded
PROOF
<1>1. ASSUME FileInv PROVE ReturnedIsRecorded
  BY <1>1 DEF FileInv, JournalInv, Recorded, ReturnedIsRecorded, Settled
<1> QED
  BY <1>1, FileInvariant, PTL

-----------------------------------------------------------------------------
(* The refinement of AtomicFiles                                           *)

Promised == [Promise!AbstractNext]_Promise!abstractVars

\* The phase of a call at each label.
Opening == {"idle", "fetch", "prepared", "lock", "check", "row", "base", "begin", "bind", "commit"}
Applying == {"hold", "rebind", "after", "apply", "record", "finalize", "event"}
Failing == {"undo", "undone", "rscan", "rpath", "rverify", "failing", "recovered", "mark"}
PhaseTable(o) ==
  /\ pc[o] \in Opening => PhaseOf(o) = "open"
  /\ pc[o] \in Applying => PhaseOf(o) = "applied"
  /\ pc[o] \in Failing => PhaseOf(o) = "failing"
  /\ pc[o] = "returned" => PhaseOf(o) = "returned"
  /\ pc[o] \in {"raised", "dead"} /\ Settled(o) => PhaseOf(o) = "closed"
  /\ pc[o] \in {"raised", "dead"} /\ ~Settled(o) => PhaseOf(o) = "failing"

LEMMA PhaseValues == \A o \in Ops : PhaseTable(o) /\ PhaseTable(o)'
PROOF
  BY DEF PhaseTable, PhaseOf, Opening, Applying, Failing

\* The steps of the promise that change one phase and nothing else.
Moved(from, to) ==
  \/ from = to
  \/ from \in {"open", "applied"} /\ to = "failing"
  \/ from = "applied" /\ to = "returned"
  \/ from \in {"open", "failing", "applied"} /\ to = "closed"

LEMMA PhaseMoves ==
  ASSUME NEW o \in Ops, \A x \in Ops \ {o} : PhaseOf(x)' = PhaseOf(x),
         Moved(PhaseOf(o), PhaseOf(o)'),
         \A p \in Paths : ws'[p].data = ws[p].data, UNCHANGED <<base, edits>>
  PROVE  Promised
PROOF
<1> DEFINE phase == [x \in Ops |-> PhaseOf(x)]
<1>1. phase' = [phase EXCEPT ![o] = PhaseOf(o)'] /\ phase[o] = PhaseOf(o)
  OBVIOUS
<1>2. [p \in Paths |-> ws[p].data]' = [p \in Paths |-> ws[p].data]
  OBVIOUS
<1>3. CASE PhaseOf(o)' = PhaseOf(o)
  <2>1. phase' = phase
    BY <1>1, <1>3
  <2> QED
    BY <1>2, <2>1 DEF Promised, Promise!abstractVars
<1>4. CASE PhaseOf(o)' # PhaseOf(o)
  <2>1. Promise!Fail(o) \/ Promise!Return(o) \/ Promise!Close(o)
    BY <1>1, <1>2, <1>4
    DEF Moved, Promise!Fail, Promise!Return, Promise!Close, Promise!Become
  <2> QED
    BY <2>1 DEF Promised, Promise!AbstractNext
<1> QED
  BY <1>3, <1>4

\* A step of one call that leaves the files alone.
LEMMA CallMoves ==
  ASSUME NEW o \in Ops,
         \A x \in Ops \ {o} : /\ pc'[x] = pc[x] /\ jstate'[x] = jstate[x]
                              /\ reconciled'[x] = reconciled[x],
         UNCHANGED <<ws, base, edits>>,
         Moved(PhaseOf(o), PhaseOf(o)')
  PROVE  Promised
PROOF
<1>1. \A x \in Ops \ {o} : PhaseOf(x)' = PhaseOf(x)
  BY DEF PhaseOf, Settled
<1> QED
  BY <1>1, PhaseMoves

\* A step that puts back one path of a failing call.
LEMMA PathRestored ==
  ASSUME TypeOK, NEW o \in Ops, NEW p \in Touched(o), PhaseOf(o) = "failing",
         \A x \in Ops : PhaseOf(x)' = PhaseOf(x),
         \A q \in Paths \ {p} : ws'[q] = ws[q], ws'[p].data \in {base[o][p], StartData(o, p)},
         UNCHANGED <<base, edits>>
  PROVE  Promised
PROOF
<1> DEFINE phase == [x \in Ops |-> PhaseOf(x)]
           scope == [x \in Ops |-> Touched(x)]
           from == [x \in Ops |-> [r \in Paths |-> StartData(x, r)]]
           disk == [q \in Paths |-> ws[q].data]
<1>1. phase' = phase /\ phase[o] = "failing"
  OBVIOUS
<1>2. disk' = [disk EXCEPT ![p] = ws'[p].data]
  OBVIOUS
<1>3. p \in Paths
  BY ToolFacts
<1>4. from[o][p] = StartData(o, p) /\ scope[o] = Touched(o)
  BY <1>3
<1> HIDE DEF phase, scope, from, disk
<1>5. ws'[p].data \in {base[o][p], from[o][p]} /\ p \in scope[o]
  BY <1>4
<1>6. \E q \in scope[o] : \E c \in {base[o][q], from[o][q]} : disk' = [disk EXCEPT ![q] = c]
  BY <1>2, <1>5
<1>7. Promise!Restore(o)
  BY <1>1, <1>6 DEF Promise!Restore, phase, scope, from, disk
<1> QED
  BY <1>7 DEF Promised, Promise!AbstractNext

\* A step that keeps every phase keeps them for the abstract state too.
LEMMA PhasesKept ==
  ASSUME UNCHANGED <<pc, jstate, reconciled>>
  PROVE  \A x \in Ops : PhaseOf(x)' = PhaseOf(x)
PROOF
  BY DEF PhaseOf, Settled

\* Every step of a call before its commit is a step of the promise.
LEMMA StartIsPromised ==
  ASSUME FileInv, NEW o \in Ops,
         \/ Prepare(o) \/ RejectPreparation(o) \/ Fetch(o) \/ FetchFails(o)
         \/ TransformFails(o) \/ Call(o) \/ AcquireSlot(o) \/ Acquired(o)
         \/ LockTimeout(o) \/ ReadTarget(o) \/ Reject(o) \/ CreateRow(o)
         \/ CheckpointBefore(o) \/ BeginJournal(o)
  PROVE  Promised
PROOF
<1> USE DEF Moved, Settled, Recorded, PhaseTable, Opening, Applying, Failing, boundVars,
        Labels, Goto, SetRow, SetJournal, Leave, GiveUp, ToFailing, Fault,
        auditVars, fileVars, readVars, Ended
<1>0. /\ Recorded(o) /\ PhaseTable(o) /\ PhaseTable(o)'
      /\ pc \in [Ops -> Labels] /\ jstate \in [Ops -> JournalStates]
      /\ reconciled \in [Ops -> BOOLEAN]
  BY PhaseValues DEF FileInv, TypeOK, ControlOK, JournalInv
<1>1. ASSUME Prepare(o) PROVE Promised
  BY <1>1, <1>0, CallMoves DEF Prepare
<1>2. ASSUME RejectPreparation(o) PROVE Promised
  BY <1>2, <1>0, CallMoves DEF RejectPreparation
<1>3. ASSUME Fetch(o) PROVE Promised
  BY <1>3, <1>0, CallMoves DEF Fetch
<1>4. ASSUME FetchFails(o) PROVE Promised
  BY <1>4, <1>0, CallMoves DEF FetchFails
<1>5. ASSUME TransformFails(o) PROVE Promised
  BY <1>5, <1>0, CallMoves DEF TransformFails
<1>6. ASSUME Call(o) PROVE Promised
  BY <1>6, <1>0, CallMoves DEF Call
<1>7. ASSUME AcquireSlot(o) PROVE Promised
  BY <1>7, <1>0, CallMoves DEF AcquireSlot
<1>8. ASSUME Acquired(o) PROVE Promised
  BY <1>8, <1>0, CallMoves DEF Acquired
<1>9. ASSUME LockTimeout(o) PROVE Promised
  BY <1>9, <1>0, CallMoves DEF LockTimeout
<1>10. ASSUME ReadTarget(o) PROVE Promised
  BY <1>10, <1>0, CallMoves DEF ReadTarget
<1>11. ASSUME Reject(o) PROVE Promised
  BY <1>11, <1>0, CallMoves DEF Reject
<1>12. ASSUME CreateRow(o) PROVE Promised
  BY <1>12, <1>0, CallMoves DEF CreateRow
<1>13. ASSUME CheckpointBefore(o) PROVE Promised
  <2>1. PhaseOf(o) = "open"
    BY <1>13, <1>0 DEF CheckpointBefore, PhaseTable, Opening
  <2>2. \A x \in Ops : PhaseOf(x)' = PhaseOf(x)
    <3>1. \A x \in Ops \ {o} : PhaseOf(x)' = PhaseOf(x)
      BY <1>13 DEF CheckpointBefore, PhaseOf, Settled
    <3>2. PhaseOf(o)' = "open"
      BY <1>13, <1>0 DEF CheckpointBefore, PhaseTable, Opening
    <3> QED
      BY <2>1, <3>1, <3>2
  <2>3. base' = [base EXCEPT ![o] = [p \in Paths |-> ws[p].data]] /\ UNCHANGED <<ws, edits>>
    BY <1>13 DEF CheckpointBefore, boundVars
  <2>4. Promise!Look(o)
    BY <2>1, <2>2, <2>3 DEF Promise!Look
  <2> QED
    BY <2>4 DEF Promised, Promise!AbstractNext
<1>14. ASSUME BeginJournal(o) PROVE Promised
  BY <1>14, <1>0, CallMoves DEF BeginJournal
<1> QED
  BY <1>1, <1>2, <1>3, <1>4, <1>5, <1>6, <1>7, <1>8, <1>9, <1>10, <1>11, <1>12, <1>13, <1>14

\* So is every step from its commit to its return.
LEMMA RunIsPromised ==
  ASSUME FileInv, NEW o \in Ops,
         \/ BindSource(o) \/ Commit(o) \/ Hold(o) \/ CheckpointAfter(o)
         \/ MarkApplied(o) \/ RecordSuccess(o) \/ Finalize(o) \/ AddEvent(o)
  PROVE  Promised
PROOF
<1> USE DEF Moved, Settled, Recorded, PhaseTable, Opening, Applying, Failing, boundVars,
        Labels, Goto, SetRow, SetJournal, Leave, GiveUp, ToFailing, Fault,
        auditVars, fileVars, readVars, Ended
<1>0. /\ Recorded(o) /\ PhaseTable(o) /\ PhaseTable(o)'
      /\ pc \in [Ops -> Labels] /\ jstate \in [Ops -> JournalStates]
      /\ reconciled \in [Ops -> BOOLEAN]
  BY PhaseValues DEF FileInv, TypeOK, ControlOK, JournalInv
<1>1. ASSUME BindSource(o) PROVE Promised
  BY <1>1, <1>0, CallMoves DEF BindSource
<1>2. ASSUME Commit(o) PROVE Promised
  <2>1. /\ ws' = [p \in Paths |-> IF p \in Touched(o) THEN File(o, p, CommitId(o)) ELSE ws[p]]
        /\ pc[o] = "commit"
        /\ pc' = [pc EXCEPT ![o] = IF Kind[o] \in Single THEN "hold" ELSE "after"]
        /\ UNCHANGED <<jstate, reconciled, base, edits>> /\ Unchanged(o)
    BY <1>2 DEF Commit, boundVars
  <2>2. \A p \in Touched(o) : p \in Paths /\ ws[p].data = StartData(o, p)
    BY <2>1, ToolFacts DEF FileInv, MarkInv, Marked, Reading, Unchanged
  <2>3. /\ PhaseOf(o) = "open" /\ PhaseOf(o)' = "applied"
        /\ \A x \in Ops \ {o} : PhaseOf(x)' = PhaseOf(x)
    <3>1. PhaseOf(o) = "open" /\ PhaseOf(o)' = "applied"
      BY <1>0, <2>1 DEF PhaseTable, Opening, Applying
    <3>2. \A x \in Ops \ {o} : PhaseOf(x)' = PhaseOf(x)
      BY <2>1 DEF PhaseOf, Settled
    <3> QED
      BY <3>1, <3>2
  <2>4. \A p \in Paths : ws'[p].data = IF p \in Touched(o) THEN TargetData(o, p) ELSE ws[p].data
    <3>1. \A p \in Paths : File(o, p, CommitId(o)).data = TargetData(o, p)
      BY DEF File
    <3> QED
      BY <2>1, <3>1
  <2> DEFINE phase == [x \in Ops |-> PhaseOf(x)]
             disk == [p \in Paths |-> ws[p].data]
  <2>5. phase' = [phase EXCEPT ![o] = "applied"] /\ phase[o] = "open"
    BY <2>3
  <2>6. disk' = [p \in Paths |-> IF p \in Touched(o) THEN TargetData(o, p) ELSE disk[p]]
    BY <2>4
  <2>7. \A p \in Touched(o) : disk[p] = StartData(o, p)
    BY <2>2
  <2>8. /\ \A p \in Paths :
             [x \in Ops |-> [q \in Paths |-> StartData(x, q)]][o][p] = StartData(o, p)
        /\ \A p \in Paths :
             [x \in Ops |-> [q \in Paths |-> TargetData(x, q)]][o][p] = TargetData(o, p)
        /\ [x \in Ops |-> Touched(x)][o] = Touched(o)
    OBVIOUS
  <2> HIDE DEF phase, disk
  <2>9. Promise!Apply(o)
    <3>1. \A p \in [x \in Ops |-> Touched(x)][o] :
            disk[p] = [x \in Ops |-> [q \in Paths |-> StartData(x, q)]][o][p]
      BY <2>2, <2>7, <2>8
    <3>2. disk' = [p \in Paths |-> IF p \in [x \in Ops |-> Touched(x)][o]
                                  THEN [x \in Ops |-> [q \in Paths |-> TargetData(x, q)]][o][p]
                                  ELSE disk[p]]
      BY <2>6, <2>8
    <3> QED
      BY <2>1, <2>5, <3>1, <3>2 DEF Promise!Apply, Promise!Become, phase, disk
  <2> QED
    BY <2>9 DEF Promised, Promise!AbstractNext
<1>3. ASSUME Hold(o) PROVE Promised
  BY <1>3, <1>0, CallMoves DEF Hold
<1>4. ASSUME CheckpointAfter(o) PROVE Promised
  BY <1>4, <1>0, CallMoves DEF CheckpointAfter
<1>5. ASSUME MarkApplied(o) PROVE Promised
  BY <1>5, <1>0, CallMoves DEF MarkApplied
<1>6. ASSUME RecordSuccess(o) PROVE Promised
  BY <1>6, <1>0, CallMoves DEF RecordSuccess
<1>7. ASSUME Finalize(o) PROVE Promised
  BY <1>7, <1>0, CallMoves DEF Finalize
<1>8. ASSUME AddEvent(o) PROVE Promised
  BY <1>8, <1>0, CallMoves DEF AddEvent
<1> QED
  BY <1>1, <1>2, <1>3, <1>4, <1>5, <1>6, <1>7, <1>8

\* A path that a rollback or a reconciliation puts back is one of a failing call.
LEMMA PathPutBack ==
  ASSUME FileInv, NEW o \in Ops, NEW p \in Paths, ApplyPath(o, p), PhaseOf(o) = "failing",
         UNCHANGED <<base, edits, pc, reconciled, jstate>>
  PROVE  Promised
PROOF
<1>1. p \in Touched(o)
  BY DEF ApplyPath, FileInv, MarkInv, Marked
<1>2. ws'[p].data = base[o][p] /\ \A q \in Paths \ {p} : ws'[q] = ws[q]
  BY DEF ApplyPath, FileInv, TypeOK, FilesOK, Files
<1>3. \A x \in Ops : PhaseOf(x)' = PhaseOf(x)
  BY PhasesKept
<1> QED
  BY <1>1, <1>2, <1>3, PathRestored DEF FileInv

\* So is every step of a call that fails, or dies.
LEMMA FailIsPromised ==
  ASSUME FileInv, NEW o \in Ops,
         \/ CommitFails(o) \/ HoldFails(o) \/ StepFails(o) \/ UndoWrite(o)
         \/ UndoVerified(o) \/ UndoRefused(o) \/ RollbackScan(o) \/ RollbackApplyScan(o)
         \/ RollbackPath(o) \/ RollbackApplied(o) \/ RollbackVerified(o)
         \/ RollbackRefused(o) \/ RecordFailure(o) \/ MarkReconciled(o) \/ Crash(o)
  PROVE  Promised
PROOF
<1> USE DEF Moved, Settled, Recorded, PhaseTable, Opening, Applying, Failing, boundVars,
        Labels, Goto, SetRow, SetJournal, Leave, GiveUp, ToFailing, Fault,
        auditVars, fileVars, readVars, Ended
<1>0. /\ Recorded(o) /\ PhaseTable(o) /\ PhaseTable(o)'
      /\ pc \in [Ops -> Labels] /\ jstate \in [Ops -> JournalStates]
      /\ reconciled \in [Ops -> BOOLEAN]
  BY PhaseValues DEF FileInv, TypeOK, ControlOK, JournalInv
<1>1. ASSUME CommitFails(o) PROVE Promised
  BY <1>1, <1>0, CallMoves DEF CommitFails
<1>2. ASSUME HoldFails(o) PROVE Promised
  BY <1>2, <1>0, CallMoves DEF HoldFails
<1>3. ASSUME StepFails(o) PROVE Promised
  BY <1>3, <1>0, CallMoves DEF StepFails
<1>4. ASSUME UndoWrite(o) PROVE Promised
  <2>1. /\ UNCHANGED <<jstate, reconciled, base, edits>> /\ pc[o] = "undo"
        /\ pc' = [pc EXCEPT ![o] = "undone"] /\ Kind[o] \in Single
    BY <1>4 DEF UndoWrite
  <2>2. Dst[o] \in Touched(o) /\ Touched(o) \subseteq DOMAIN Tool[o].start /\ Dst[o] \in Paths
    BY <2>1, ToolFacts, RequestAssumption
  <2>3. got[o][Dst[o]].data = StartData(o, Dst[o])
    BY <2>1, <2>2 DEF FileInv, MarkInv, Marked, Reading
  <2>4. ws'[Dst[o]].data = StartData(o, Dst[o]) /\ \A q \in Paths \ {Dst[o]} : ws'[q] = ws[q]
    BY <1>4, <2>2, <2>3 DEF UndoWrite, PutBack, FileInv, TypeOK, FilesOK, Files
  <2>5. PhaseOf(o) = "failing" /\ PhaseOf(o)' = "failing"
    BY <1>0, <2>1
  <2>6. \A x \in Ops \ {o} : PhaseOf(x)' = PhaseOf(x)
    BY <2>1 DEF PhaseOf
  <2> QED
    BY <2>1, <2>2, <2>4, <2>5, <2>6, PathRestored DEF FileInv
<1>5. ASSUME UndoVerified(o) PROVE Promised
  BY <1>5, <1>0, CallMoves DEF UndoVerified
<1>6. ASSUME UndoRefused(o) PROVE Promised
  BY <1>6, <1>0, CallMoves DEF UndoRefused
<1>7. ASSUME RollbackScan(o) PROVE Promised
  BY <1>7, <1>0, CallMoves DEF RollbackScan
<1>8. ASSUME RollbackApplyScan(o) PROVE Promised
  BY <1>8, <1>0, CallMoves DEF RollbackApplyScan
<1>9. ASSUME RollbackPath(o) PROVE Promised
  <2>1. UNCHANGED <<pc, jstate, reconciled, base, edits>> /\ pc[o] = "rpath"
    BY <1>9 DEF RollbackPath
  <2>2. PICK p \in Paths : ApplyPath(o, p)
    BY <1>9 DEF RollbackPath
  <2>3. PhaseOf(o) = "failing"
    BY <1>0, <2>1
  <2> QED
    BY <2>1, <2>2, <2>3, PathPutBack
<1>10. ASSUME RollbackApplied(o) PROVE Promised
  BY <1>10, <1>0, CallMoves DEF RollbackApplied
<1>11. ASSUME RollbackVerified(o) PROVE Promised
  BY <1>11, <1>0, CallMoves DEF RollbackVerified
<1>12. ASSUME RollbackRefused(o) PROVE Promised
  BY <1>12, <1>0, CallMoves DEF RollbackRefused
<1>13. ASSUME RecordFailure(o) PROVE Promised
  BY <1>13, <1>0, CallMoves DEF RecordFailure
<1>14. ASSUME MarkReconciled(o) PROVE Promised
  BY <1>14, <1>0, CallMoves DEF MarkReconciled
<1>15. ASSUME Crash(o) PROVE Promised
  BY <1>15, <1>0, CallMoves DEF Crash
<1> QED
  BY <1>1, <1>2, <1>3, <1>4, <1>5, <1>6, <1>7, <1>8, <1>9, <1>10, <1>11, <1>12, <1>13, <1>14, <1>15

\* A step that changes neither files nor phases is a stutter of the promise.
LEMMA QuietIsPromised ==
  ASSUME UNCHANGED <<ws, base, edits, pc, jstate, reconciled>>
  PROVE  Promised
PROOF
<1>1. [x \in Ops |-> PhaseOf(x)]' = [x \in Ops |-> PhaseOf(x)]
  BY PhasesKept
<1> QED
  BY <1>1 DEF Promised, Promise!abstractVars

\* So is every step of the reconciler: it puts back paths of calls that failed, and closes them.
LEMMA ReconcilerIsPromised ==
  ASSUME FileInv,
         \/ RecCall \/ RecAcquireSlot \/ RecGiveUp \/ RecList
         \/ (\E o \in Ops : RecJournal(o)) \/ RecScan \/ RecPath \/ RecVerify \/ RecRow
         \/ RecMark \/ RecEnd \/ RecCrash
  PROVE  Promised
PROOF
<1> USE DEF auditVars, fileVars, readVars, boundVars, RecUnchanged, SetJournal
<1>0. /\ Reconciling /\ (\A x \in Ops : Recorded(x) /\ PhaseTable(x) /\ PhaseTable(x)')
      /\ rqueue \subseteq Ops /\ rop \in Ops \cup {Nobody} /\ Nobody \notin Ops
      /\ jstate \in [Ops -> JournalStates] /\ reconciled \in [Ops -> BOOLEAN]
  BY PhaseValues, ActorAssumption DEF FileInv, JournalInv, TypeOK, ControlOK
<1>1. ASSUME RecCall PROVE Promised
  <2>1. UNCHANGED <<ws, base, edits, pc, jstate, reconciled>>
    BY <1>1 DEF RecCall
  <2> QED
    BY <2>1, QuietIsPromised
<1>2. ASSUME RecAcquireSlot PROVE Promised
  <2>1. UNCHANGED <<ws, base, edits, pc, jstate, reconciled>>
    BY <1>2 DEF RecAcquireSlot
  <2> QED
    BY <2>1, QuietIsPromised
<1>3. ASSUME RecGiveUp PROVE Promised
  <2>1. UNCHANGED <<ws, base, edits, pc, jstate, reconciled>>
    BY <1>3 DEF RecGiveUp
  <2> QED
    BY <2>1, QuietIsPromised
<1>4. ASSUME RecList PROVE Promised
  <2>1. UNCHANGED <<ws, base, edits, pc, jstate, reconciled>>
    BY <1>4 DEF RecList
  <2> QED
    BY <2>1, QuietIsPromised
<1>5. ASSUME NEW o \in Ops, RecJournal(o) PROVE Promised
  <2>1. /\ UNCHANGED <<ws, base, edits, pc, reconciled>> /\ Listed(o)
        /\ \A x \in Ops \ {o} : jstate'[x] = jstate[x]
        /\ \/ jstate'[o] = jstate[o]
           \/ /\ jstate[o] \in {"applying", "applied_verified"}
              /\ jstate'[o] \in {"recovery_required", "failed_recovered"}
    BY <1>5, <1>0 DEF RecJournal, Reconciling
  <2>2. Settled(o)' = Settled(o)
    BY <1>0, <2>1 DEF Settled, Recorded
  <2>3. PhaseOf(o)' = PhaseOf(o)
    BY <1>0, <2>1, <2>2 DEF PhaseTable, Listed, Quitting, Failing
  <2> QED
    BY <2>1, <2>3, CallMoves DEF Moved
<1>6. ASSUME RecScan PROVE Promised
  <2>1. UNCHANGED <<ws, base, edits, pc, jstate, reconciled>>
    BY <1>6 DEF RecScan
  <2> QED
    BY <2>1, QuietIsPromised
<1>7. ASSUME RecPath PROVE Promised
  <2>1. /\ UNCHANGED <<base, edits, pc, reconciled, jstate>> /\ rop \in Ops /\ Listed(rop)
        /\ jstate[rop] = "applying"
    BY <1>7, <1>0 DEF RecPath, Reconciling
  <2>2. PICK p \in Paths : ApplyPath(rop, p)
    BY <1>7 DEF RecPath
  <2>3. PhaseOf(rop) = "failing"
    BY <1>0, <2>1 DEF PhaseTable, Listed, Quitting, Failing, Settled
  <2> QED
    BY <2>1, <2>2, <2>3, PathPutBack
<1>8. ASSUME RecVerify PROVE Promised
  <2>0. PICK o \in Ops : o = rop
    BY <1>8, <1>0 DEF RecVerify, Reconciling
  <2>1. /\ o = rop /\ UNCHANGED <<ws, base, edits, pc, reconciled>> /\ Listed(o)
        /\ \A x \in Ops \ {o} : jstate'[x] = jstate[x]
        /\ jstate[o] = "applying" /\ jstate'[o] \in {"recovery_required", "failed_recovered"}
    BY <1>8, <1>0, <2>0 DEF RecVerify, Reconciling
  <2>2. Settled(o)' = Settled(o)
    BY <1>0, <2>1 DEF Settled, Recorded
  <2>3. PhaseOf(o)' = PhaseOf(o)
    BY <1>0, <2>1, <2>2 DEF PhaseTable, Listed, Quitting, Failing
  <2> QED
    BY <2>1, <2>3, CallMoves DEF Moved
<1>9. ASSUME RecRow PROVE Promised
  <2>1. UNCHANGED <<ws, base, edits, pc, jstate, reconciled>>
    BY <1>9 DEF RecRow
  <2> QED
    BY <2>1, QuietIsPromised
<1>10. ASSUME RecMark PROVE Promised
  <2>0. PICK o \in Ops : o = rop
    BY <1>10, <1>0 DEF RecMark, Reconciling
  <2>1. /\ o = rop /\ UNCHANGED <<ws, base, edits, pc>> /\ Listed(o)
        /\ \A x \in Ops \ {o} : jstate'[x] = jstate[x] /\ reconciled'[x] = reconciled[x]
        /\ jstate'[o] = IF jstate[o] = "applied_verified" THEN "complete" ELSE jstate[o]
        /\ reconciled'[o] = TRUE
    BY <1>10, <1>0, <2>0 DEF RecMark, Reconciling
  <2>2. Settled(o) => Settled(o)'
    BY <2>1 DEF Settled
  <2>3. Moved(PhaseOf(o), PhaseOf(o)')
    BY <1>0, <2>1, <2>2 DEF PhaseTable, Listed, Quitting, Failing, Moved
  <2> QED
    BY <2>1, <2>3, CallMoves
<1>11. ASSUME RecEnd PROVE Promised
  <2>1. UNCHANGED <<ws, base, edits, pc, jstate, reconciled>>
    BY <1>11 DEF RecEnd
  <2> QED
    BY <2>1, QuietIsPromised
<1>12. ASSUME RecCrash PROVE Promised
  <2>1. UNCHANGED <<ws, base, edits, pc, jstate, reconciled>>
    BY <1>12 DEF RecCrash
  <2> QED
    BY <2>1, QuietIsPromised
<1> QED
  BY <1>1, <1>2, <1>3, <1>4, <1>5, <1>6, <1>7, <1>8, <1>9, <1>10, <1>11, <1>12

\* A change by the editor is a foreign change.
LEMMA EditIsPromised ==
  ASSUME FileInv, FileInv', NEW p \in Paths, Edit(p)
  PROVE  Promised
PROOF
<1> DEFINE phase == [x \in Ops |-> PhaseOf(x)]
           disk == [q \in Paths |-> ws[q].data]
<1>1. phase' = phase
  <2>1. UNCHANGED <<pc, jstate, reconciled>>
    BY DEF Edit, auditVars
  <2> QED
    BY <2>1, PhasesKept
<1>2. ws'[p].data \in Contents
  BY DEF FileInv, TypeOK, FilesOK, Files
<1>3. disk' = [disk EXCEPT ![p] = ws'[p].data]
  <2>1. \A q \in Paths \ {p} : ws'[q] = ws[q]
    BY DEF Edit, FileInv, TypeOK, FilesOK, Files
  <2> QED
    BY <2>1
<1>4. base' = base /\ edits' = edits + 1
  BY DEF Edit, readVars
<1>5. disk' # disk
  <2>1. ws'[p].data # ws[p].data
    BY DEF Edit, FileInv, TypeOK, FilesOK, Files
  <2> QED
    BY <2>1
<1> HIDE DEF phase, disk
<1>6. Promise!Foreign(p)
  BY <1>1, <1>2, <1>3, <1>4, <1>5 DEF Promise!Foreign, phase, disk
<1> QED
  BY <1>6 DEF Promised, Promise!AbstractNext

\* Every step is a step of the promise.
LEMMA StepIsPromised == FileInv /\ FileInv' /\ [Next]_vars => Promised
PROOF
<1> SUFFICES ASSUME FileInv, FileInv', [Next]_vars PROVE Promised
  OBVIOUS
<1>1. ASSUME NEW o \in Ops, Proceed(o) \/ Crash(o) PROVE Promised
  BY <1>1, StartIsPromised, RunIsPromised, FailIsPromised DEF Proceed
<1>2. ASSUME Reconcile \/ RecCrash PROVE Promised
  BY <1>2, ReconcilerIsPromised DEF Reconcile
<1>3. ASSUME NEW p \in Paths, Edit(p) PROVE Promised
  BY <1>3, EditIsPromised
<1>4. ASSUME UNCHANGED vars PROVE Promised
  BY <1>4, QuietIsPromised DEF vars
<1> QED
  BY <1>1, <1>2, <1>3, <1>4 DEF Next

\* The initial state is one of the promise.
LEMMA InitIsPromised == Init => Promise!AbstractInit
PROOF
<1> SUFFICES ASSUME Init PROVE Promise!AbstractInit
  OBVIOUS
<1>1. TypeOK
  BY InitTypes
<1>2. [p \in Paths |-> ws[p].data] \in [Paths -> Contents] /\ base \in [Ops -> [Paths -> Contents]]
  BY <1>1 DEF TypeOK, FilesOK, Files, Data
<1>3. \A o \in Ops : PhaseOf(o) = "open"
  BY PhaseValues DEF PhaseTable, Opening, Init
<1>4. edits = 0
  BY DEF Init
<1> QED
  BY <1>2, <1>3, <1>4 DEF Promise!AbstractInit

\* The calls, the reconciler and the editor together implement AtomicFiles: a call changes all
\* its paths in one step and only from what the client named, and what anybody but the editor
\* writes otherwise is a path of a failing call put back.
THEOREM ImplementsAtomicFiles == Spec => KeepsPromise
PROOF
<1>1. Promised <=> [Promise!AbstractNext]_Promise!abstractVars
  BY DEF Promised
<1>2. FileInv /\ FileInv' /\ [Next]_vars => [Promise!AbstractNext]_Promise!abstractVars
  BY <1>1, StepIsPromised
<1> QED
  BY <1>2, FileInvariant, InitIsPromised, PTL DEF Spec, KeepsPromise, Promise!AbstractSpec
=============================================================================
