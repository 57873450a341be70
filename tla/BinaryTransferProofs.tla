------------------------ MODULE BinaryTransferProofs ------------------------
(***************************************************************************)
(* Proofs about BinaryTransfer: the limit on active transfers, the         *)
(* finality of what ended, and that only a commit cut short separates the  *)
(* target file from the manifest.                                          *)
(***************************************************************************)
EXTENDS BinaryTransfer, FiniteSetTheorems, SequenceTheorems, TLAPS

-----------------------------------------------------------------------------
(* The inductive invariant                                                 *)

\* Where a transfer's begin call, its manifest and its calls stand to each other; what a
\* failure mark may replace; and that a scan misses no active manifest it looked at.
Staged(x) ==
  /\ begin[x] = "admit" <=> pool = x
  /\ begin[x] \in {"idle", "admit"} => state[x] = "none"
  /\ ~Free(x) => begin[x] = "done" /\ state[x] \in {"open", "gone"}
  /\ \A allowed \in marks[x] : allowed \subseteq Active \cup {"completed"}
  /\ (x \in looked /\ state[x] \in Active) => x \in counted \cup skipped

\* A call that writes a chunk has one, the confirmed receipts are there, and so is the one
\* the manifest is about to count.
Writing(x) ==
  /\ call[x].step \in {"payload", "receipt", "manifest"} => call[x].chunk \in Chunks
  /\ rcount[x] <= Len(receipts[x])
  /\ (call[x].step = "manifest" /\ state[x] # "gone") => rcount[x] < Len(receipts[x])

\* AppliedIsCommitted for one transfer, and what a commit in progress has done.
Written(x) ==
  x \notin torn =>
    /\ state[x] = "committed" => applied[x] > 0
    /\ applied[x] > 0 => state[x] \in {"committed", "gone"} \/ call[x].step = "commit"
    /\ call[x].step = "commit" => applied[x] > 0

TransferInv == \A x \in Transfers : Staged(x) /\ Writing(x) /\ Written(x)

-----------------------------------------------------------------------------
(* Types                                                                   *)

\* The initial state is well typed and satisfies the invariant.
LEMMA InitInv == Init => TypeOK /\ TransferInv /\ OpenWithinLimit
PROOF
<1> SUFFICES ASSUME Init PROVE TypeOK /\ TransferInv /\ OpenWithinLimit
  OBVIOUS
<1>1. TypeOK
  BY TransferAssumption, ContentAssumption, BoundAssumption
  DEF Init, TypeOK, PoolOK, CallOK, UploadOK, TargetOK, BoundsOK, BeginSteps, States, CallSteps,
      NoCall, Blank
<1>2. TransferInv
  BY TransferAssumption DEF Init, TransferInv, Staged, Writing, Written, Free, NoCall, Active
<1>3. {t \in Transfers \ skipped : state[t] \in Active} = {}
  BY DEF Init, Active
<1>4. OpenWithinLimit
  BY <1>3, FS_EmptySet, LimitAssumption DEF OpenWithinLimit
<1> QED
  BY <1>1, <1>2, <1>4

\* The bounds are kept.
LEMMA StepBoundsOK ==
  ASSUME BoundsOK, [Next]_vars
  PROVE  BoundsOK'
PROOF
<1> USE BoundAssumption DEF bounds, target, CrashNow, FaultNow, BoundsOK, Refuse
<1>1. ASSUME NEW t \in Transfers, BeginLock(t) PROVE BoundsOK'
  BY <1>1 DEF BeginLock
<1>2. ASSUME NEW t \in Transfers, Reserve(t) PROVE BoundsOK'
  BY <1>2 DEF Reserve
<1>3. ASSUME NEW t \in Transfers, AdmitRefuse(t) PROVE BoundsOK'
  BY <1>3 DEF AdmitRefuse
<1>4. ASSUME NEW t \in Transfers, ReserveFails(t) PROVE BoundsOK'
  BY <1>4 DEF ReserveFails
<1>5. ASSUME NEW t \in Transfers, NEW u \in Transfers \ {t}, AdmitLook(t, u) PROVE BoundsOK'
  BY <1>5 DEF AdmitLook
<1>6. ASSUME NEW t \in Transfers, NEW u \in Transfers \ {t}, AdmitSkip(t, u) PROVE BoundsOK'
  BY <1>6 DEF AdmitSkip
<1>7. ASSUME NEW t \in Transfers, NEW u \in Transfers \ {t}, AdmitTimeout(t, u) PROVE BoundsOK'
  BY <1>7 DEF AdmitTimeout
<1>8. ASSUME NEW t \in Transfers, Copy(t) PROVE BoundsOK'
  BY <1>8 DEF Copy
<1>9. ASSUME NEW t \in Transfers, CopyFails(t) PROVE BoundsOK'
  BY <1>9 DEF CopyFails
<1>10. ASSUME NEW t \in Transfers, Publish(t) PROVE BoundsOK'
  BY <1>10 DEF Publish
<1>11. ASSUME NEW t \in Transfers, BeginLogged(t) PROVE BoundsOK'
  BY <1>11 DEF BeginLogged
<1>12. ASSUME NEW t \in Transfers, BeginLogFails(t) PROVE BoundsOK'
  BY <1>12 DEF BeginLogFails
<1>13. ASSUME NEW t \in Transfers, WritePayload(t) PROVE BoundsOK'
  BY <1>13 DEF WritePayload
<1>14. ASSUME NEW t \in Transfers, WriteReceipt(t) PROVE BoundsOK'
  BY <1>14 DEF WriteReceipt
<1>15. ASSUME NEW t \in Transfers, PublishChunk(t) PROVE BoundsOK'
  BY <1>15 DEF PublishChunk
<1>16. ASSUME NEW t \in Transfers, Mutate(t) PROVE BoundsOK'
  BY <1>16 DEF Mutate
<1>17. ASSUME NEW t \in Transfers, MutateRefused(t) PROVE BoundsOK'
  BY <1>17 DEF MutateRefused
<1>18. ASSUME NEW t \in Transfers, CommitPublish(t) PROVE BoundsOK'
  BY <1>18 DEF CommitPublish
<1>19. ASSUME NEW t \in Transfers, CallLosesRoot(t) PROVE BoundsOK'
  BY <1>19 DEF CallLosesRoot
<1>20. ASSUME NEW t \in Transfers, BeginCrash(t) PROVE BoundsOK'
  BY <1>20 DEF BeginCrash
<1>21. ASSUME NEW t \in Transfers, Tick(t) PROVE BoundsOK'
  BY <1>21 DEF Tick
<1>22. ASSUME NEW t \in Transfers, Prune(t) PROVE BoundsOK'
  BY <1>22 DEF Prune
<1>23. ASSUME NEW t \in Transfers, NEW allowed \in marks[t], MarkFailed(t, allowed) PROVE BoundsOK'
  BY <1>23 DEF MarkFailed
<1>24. ASSUME NEW t \in Transfers, NEW allowed \in marks[t], MarkDropped(t, allowed) PROVE BoundsOK'
  BY <1>24 DEF MarkDropped
<1>25. ASSUME NEW t \in Transfers, RemoveRoot(t) PROVE BoundsOK'
  BY <1>25 DEF RemoveRoot
<1>26. ASSUME NEW t \in Transfers, ExpireOnLoad(t) PROVE BoundsOK'
  BY <1>26 DEF ExpireOnLoad
<1>27. ASSUME NEW t \in Transfers, Cancel(t) PROVE BoundsOK'
  BY <1>27 DEF Cancel
<1>28. ASSUME NEW t \in Transfers, Damage(t) PROVE BoundsOK'
  BY <1>28 DEF Damage
<1>29. ASSUME NEW t \in Transfers, NEW last \in BOOLEAN, DownloadChunk(t, last) PROVE BoundsOK'
  BY <1>29 DEF DownloadChunk
<1>30. ASSUME NEW t \in Transfers, NEW chunk \in Chunks, ChunkStart(t, chunk) PROVE BoundsOK'
  BY <1>30 DEF ChunkStart
<1>31. ASSUME NEW t \in Transfers, NEW chunk \in Chunks, NEW offset \in 0..Bytes[t], DuplicateMismatch(t, offset, chunk) PROVE BoundsOK'
  BY <1>31 DEF DuplicateMismatch
<1>32. ASSUME NEW t \in Transfers, CommitMismatch(t) PROVE BoundsOK'
  BY <1>32 DEF CommitMismatch
<1>33. ASSUME NEW t \in Transfers, CommitStart(t) PROVE BoundsOK'
  BY <1>33 DEF CommitStart
<1>34. ASSUME NEW t \in Transfers, MutateFails(t) PROVE BoundsOK'
  BY <1>34 DEF MutateFails
<1>35. ASSUME NEW t \in Transfers, CallDies(t) PROVE BoundsOK'
  BY <1>35 DEF CallDies
<1>36. ASSUME NEW t \in Transfers, MutateCrash(t) PROVE BoundsOK'
  BY <1>36 DEF MutateCrash
<1>37. ASSUME NEW c \in Contents, Edit(c) PROVE BoundsOK'
  BY <1>37 DEF Edit
<1>38. CASE UNCHANGED vars
  BY <1>38 DEF vars
<1> QED
  BY <1>1, <1>2, <1>3, <1>4, <1>5, <1>6, <1>7, <1>8, <1>9, <1>10, <1>11, <1>12, <1>13, <1>14,
     <1>15, <1>16, <1>17, <1>18, <1>19, <1>20, <1>21, <1>22, <1>23, <1>24, <1>25, <1>26,
     <1>27, <1>28, <1>29, <1>30, <1>31, <1>32, <1>33, <1>34, <1>35, <1>36, <1>37, <1>38,
     Zenon DEF Next, NextFor, BeginStep, CallStep

\* The manifests, the pool and the marks stay well typed.
LEMMA StepPoolOK ==
  ASSUME PoolOK, [Next]_vars
  PROVE  PoolOK'
PROOF
<1> USE TransferAssumption DEF admission, PoolOK, Active, Finished, States, BeginSteps, Exists, Refuse,
            ReleasePool, Abandon, Remove, Integrity, Unlogged, ServedState
<1>1. ASSUME NEW t \in Transfers, BeginLock(t) PROVE PoolOK'
  BY <1>1 DEF BeginLock
<1>2. ASSUME NEW t \in Transfers, Reserve(t) PROVE PoolOK'
  BY <1>2 DEF Reserve
<1>3. ASSUME NEW t \in Transfers, AdmitRefuse(t) PROVE PoolOK'
  BY <1>3 DEF AdmitRefuse
<1>4. ASSUME NEW t \in Transfers, ReserveFails(t) PROVE PoolOK'
  BY <1>4 DEF ReserveFails
<1>5. ASSUME NEW t \in Transfers, NEW u \in Transfers \ {t}, AdmitLook(t, u) PROVE PoolOK'
  BY <1>5 DEF AdmitLook
<1>6. ASSUME NEW t \in Transfers, NEW u \in Transfers \ {t}, AdmitSkip(t, u) PROVE PoolOK'
  BY <1>6 DEF AdmitSkip
<1>7. ASSUME NEW t \in Transfers, NEW u \in Transfers \ {t}, AdmitTimeout(t, u) PROVE PoolOK'
  BY <1>7 DEF AdmitTimeout
<1>8. ASSUME NEW t \in Transfers, Copy(t) PROVE PoolOK'
  BY <1>8 DEF Copy
<1>9. ASSUME NEW t \in Transfers, CopyFails(t) PROVE PoolOK'
  BY <1>9 DEF CopyFails
<1>10. ASSUME NEW t \in Transfers, Publish(t) PROVE PoolOK'
  BY <1>10 DEF Publish
<1>11. ASSUME NEW t \in Transfers, BeginLogged(t) PROVE PoolOK'
  BY <1>11 DEF BeginLogged
<1>12. ASSUME NEW t \in Transfers, BeginLogFails(t) PROVE PoolOK'
  BY <1>12 DEF BeginLogFails
<1>13. ASSUME NEW t \in Transfers, WritePayload(t) PROVE PoolOK'
  BY <1>13 DEF WritePayload
<1>14. ASSUME NEW t \in Transfers, WriteReceipt(t) PROVE PoolOK'
  BY <1>14 DEF WriteReceipt
<1>15. ASSUME NEW t \in Transfers, PublishChunk(t) PROVE PoolOK'
  BY <1>15 DEF PublishChunk
<1>16. ASSUME NEW t \in Transfers, Mutate(t) PROVE PoolOK'
  BY <1>16 DEF Mutate
<1>17. ASSUME NEW t \in Transfers, MutateRefused(t) PROVE PoolOK'
  BY <1>17 DEF MutateRefused
<1>18. ASSUME NEW t \in Transfers, CommitPublish(t) PROVE PoolOK'
  BY <1>18 DEF CommitPublish
<1>19. ASSUME NEW t \in Transfers, CallLosesRoot(t) PROVE PoolOK'
  BY <1>19 DEF CallLosesRoot
<1>20. ASSUME NEW t \in Transfers, BeginCrash(t) PROVE PoolOK'
  BY <1>20 DEF BeginCrash
<1>21. ASSUME NEW t \in Transfers, Tick(t) PROVE PoolOK'
  BY <1>21 DEF Tick
<1>22. ASSUME NEW t \in Transfers, Prune(t) PROVE PoolOK'
  BY <1>22 DEF Prune
<1>23. ASSUME NEW t \in Transfers, NEW allowed \in marks[t], MarkFailed(t, allowed) PROVE PoolOK'
  BY <1>23 DEF MarkFailed
<1>24. ASSUME NEW t \in Transfers, NEW allowed \in marks[t], MarkDropped(t, allowed) PROVE PoolOK'
  BY <1>24 DEF MarkDropped
<1>25. ASSUME NEW t \in Transfers, RemoveRoot(t) PROVE PoolOK'
  BY <1>25 DEF RemoveRoot
<1>26. ASSUME NEW t \in Transfers, ExpireOnLoad(t) PROVE PoolOK'
  BY <1>26 DEF ExpireOnLoad
<1>27. ASSUME NEW t \in Transfers, Cancel(t) PROVE PoolOK'
  BY <1>27 DEF Cancel
<1>28. ASSUME NEW t \in Transfers, Damage(t) PROVE PoolOK'
  BY <1>28 DEF Damage
<1>29. ASSUME NEW t \in Transfers, NEW last \in BOOLEAN, DownloadChunk(t, last) PROVE PoolOK'
  BY <1>29 DEF DownloadChunk
<1>30. ASSUME NEW t \in Transfers, NEW chunk \in Chunks, ChunkStart(t, chunk) PROVE PoolOK'
  BY <1>30 DEF ChunkStart
<1>31. ASSUME NEW t \in Transfers, NEW chunk \in Chunks, NEW offset \in 0..Bytes[t], DuplicateMismatch(t, offset, chunk) PROVE PoolOK'
  BY <1>31 DEF DuplicateMismatch
<1>32. ASSUME NEW t \in Transfers, CommitMismatch(t) PROVE PoolOK'
  BY <1>32 DEF CommitMismatch
<1>33. ASSUME NEW t \in Transfers, CommitStart(t) PROVE PoolOK'
  BY <1>33 DEF CommitStart
<1>34. ASSUME NEW t \in Transfers, MutateFails(t) PROVE PoolOK'
  BY <1>34 DEF MutateFails
<1>35. ASSUME NEW t \in Transfers, CallDies(t) PROVE PoolOK'
  BY <1>35 DEF CallDies
<1>36. ASSUME NEW t \in Transfers, MutateCrash(t) PROVE PoolOK'
  BY <1>36 DEF MutateCrash
<1>37. ASSUME NEW c \in Contents, Edit(c) PROVE PoolOK'
  BY <1>37 DEF Edit
<1>38. CASE UNCHANGED vars
  BY <1>38 DEF vars
<1> HIDE DEF PoolOK
<1> QED
  BY <1>1, <1>2, <1>3, <1>4, <1>5, <1>6, <1>7, <1>8, <1>9, <1>10, <1>11, <1>12, <1>13, <1>14,
     <1>15, <1>16, <1>17, <1>18, <1>19, <1>20, <1>21, <1>22, <1>23, <1>24, <1>25, <1>26,
     <1>27, <1>28, <1>29, <1>30, <1>31, <1>32, <1>33, <1>34, <1>35, <1>36, <1>37, <1>38,
     Zenon DEF Next, NextFor, BeginStep, CallStep

\* Calls stay well typed.
LEMMA StepCallOK ==
  ASSUME CallOK, UploadOK, [Next]_vars
  PROVE  CallOK'
PROOF
<1> USE DEF CallOK, UploadOK, Refuse, CallSteps, NoCall, Return, GoTo
<1>1. ASSUME NEW t \in Transfers, BeginLock(t) PROVE CallOK'
  BY <1>1 DEF BeginLock
<1>2. ASSUME NEW t \in Transfers, Reserve(t) PROVE CallOK'
  BY <1>2 DEF Reserve
<1>3. ASSUME NEW t \in Transfers, AdmitRefuse(t) PROVE CallOK'
  BY <1>3 DEF AdmitRefuse
<1>4. ASSUME NEW t \in Transfers, ReserveFails(t) PROVE CallOK'
  BY <1>4 DEF ReserveFails
<1>5. ASSUME NEW t \in Transfers, NEW u \in Transfers \ {t}, AdmitLook(t, u) PROVE CallOK'
  BY <1>5 DEF AdmitLook
<1>6. ASSUME NEW t \in Transfers, NEW u \in Transfers \ {t}, AdmitSkip(t, u) PROVE CallOK'
  BY <1>6 DEF AdmitSkip
<1>7. ASSUME NEW t \in Transfers, NEW u \in Transfers \ {t}, AdmitTimeout(t, u) PROVE CallOK'
  BY <1>7 DEF AdmitTimeout
<1>8. ASSUME NEW t \in Transfers, Copy(t) PROVE CallOK'
  BY <1>8 DEF Copy
<1>9. ASSUME NEW t \in Transfers, CopyFails(t) PROVE CallOK'
  BY <1>9 DEF CopyFails
<1>10. ASSUME NEW t \in Transfers, Publish(t) PROVE CallOK'
  BY <1>10 DEF Publish
<1>11. ASSUME NEW t \in Transfers, BeginLogged(t) PROVE CallOK'
  BY <1>11 DEF BeginLogged
<1>12. ASSUME NEW t \in Transfers, BeginLogFails(t) PROVE CallOK'
  BY <1>12 DEF BeginLogFails
<1>13. ASSUME NEW t \in Transfers, WritePayload(t) PROVE CallOK'
  BY <1>13 DEF WritePayload
<1>14. ASSUME NEW t \in Transfers, WriteReceipt(t) PROVE CallOK'
  BY <1>14 DEF WriteReceipt
<1>15. ASSUME NEW t \in Transfers, PublishChunk(t) PROVE CallOK'
  BY <1>15 DEF PublishChunk
<1>16. ASSUME NEW t \in Transfers, Mutate(t) PROVE CallOK'
  BY <1>16 DEF Mutate
<1>17. ASSUME NEW t \in Transfers, MutateRefused(t) PROVE CallOK'
  BY <1>17 DEF MutateRefused
<1>18. ASSUME NEW t \in Transfers, CommitPublish(t) PROVE CallOK'
  BY <1>18 DEF CommitPublish
<1>19. ASSUME NEW t \in Transfers, CallLosesRoot(t) PROVE CallOK'
  BY <1>19 DEF CallLosesRoot
<1>20. ASSUME NEW t \in Transfers, BeginCrash(t) PROVE CallOK'
  BY <1>20 DEF BeginCrash
<1>21. ASSUME NEW t \in Transfers, Tick(t) PROVE CallOK'
  BY <1>21 DEF Tick
<1>22. ASSUME NEW t \in Transfers, Prune(t) PROVE CallOK'
  BY <1>22 DEF Prune
<1>23. ASSUME NEW t \in Transfers, NEW allowed \in marks[t], MarkFailed(t, allowed) PROVE CallOK'
  BY <1>23 DEF MarkFailed
<1>24. ASSUME NEW t \in Transfers, NEW allowed \in marks[t], MarkDropped(t, allowed) PROVE CallOK'
  BY <1>24 DEF MarkDropped
<1>25. ASSUME NEW t \in Transfers, RemoveRoot(t) PROVE CallOK'
  BY <1>25 DEF RemoveRoot
<1>26. ASSUME NEW t \in Transfers, ExpireOnLoad(t) PROVE CallOK'
  BY <1>26 DEF ExpireOnLoad
<1>27. ASSUME NEW t \in Transfers, Cancel(t) PROVE CallOK'
  BY <1>27 DEF Cancel
<1>28. ASSUME NEW t \in Transfers, Damage(t) PROVE CallOK'
  BY <1>28 DEF Damage
<1>29. ASSUME NEW t \in Transfers, NEW last \in BOOLEAN, DownloadChunk(t, last) PROVE CallOK'
  BY <1>29 DEF DownloadChunk
<1>30. ASSUME NEW t \in Transfers, NEW chunk \in Chunks, ChunkStart(t, chunk) PROVE CallOK'
  BY <1>30 DEF ChunkStart
<1>31. ASSUME NEW t \in Transfers, NEW chunk \in Chunks, NEW offset \in 0..Bytes[t], DuplicateMismatch(t, offset, chunk) PROVE CallOK'
  BY <1>31 DEF DuplicateMismatch
<1>32. ASSUME NEW t \in Transfers, CommitMismatch(t) PROVE CallOK'
  BY <1>32 DEF CommitMismatch
<1>33. ASSUME NEW t \in Transfers, CommitStart(t) PROVE CallOK'
  BY <1>33 DEF CommitStart
<1>34. ASSUME NEW t \in Transfers, MutateFails(t) PROVE CallOK'
  BY <1>34 DEF MutateFails
<1>35. ASSUME NEW t \in Transfers, CallDies(t) PROVE CallOK'
  BY <1>35 DEF CallDies
<1>36. ASSUME NEW t \in Transfers, MutateCrash(t) PROVE CallOK'
  BY <1>36 DEF MutateCrash
<1>37. ASSUME NEW c \in Contents, Edit(c) PROVE CallOK'
  BY <1>37 DEF Edit
<1>38. CASE UNCHANGED vars
  BY <1>38 DEF vars
<1> QED
  BY <1>1, <1>2, <1>3, <1>4, <1>5, <1>6, <1>7, <1>8, <1>9, <1>10, <1>11, <1>12, <1>13, <1>14,
     <1>15, <1>16, <1>17, <1>18, <1>19, <1>20, <1>21, <1>22, <1>23, <1>24, <1>25, <1>26,
     <1>27, <1>28, <1>29, <1>30, <1>31, <1>32, <1>33, <1>34, <1>35, <1>36, <1>37, <1>38,
     Zenon DEF Next, NextFor, BeginStep, CallStep

\* The target stays well typed.
LEMMA StepTargetOK ==
  ASSUME TargetOK, CallOK, [Next]_vars
  PROVE  TargetOK'
PROOF
<1> USE ContentAssumption DEF target, TargetOK, Refuse, Apply
<1>1. ASSUME NEW t \in Transfers, BeginLock(t) PROVE TargetOK'
  BY <1>1 DEF BeginLock
<1>2. ASSUME NEW t \in Transfers, Reserve(t) PROVE TargetOK'
  BY <1>2 DEF Reserve
<1>3. ASSUME NEW t \in Transfers, AdmitRefuse(t) PROVE TargetOK'
  BY <1>3 DEF AdmitRefuse
<1>4. ASSUME NEW t \in Transfers, ReserveFails(t) PROVE TargetOK'
  BY <1>4 DEF ReserveFails
<1>5. ASSUME NEW t \in Transfers, NEW u \in Transfers \ {t}, AdmitLook(t, u) PROVE TargetOK'
  BY <1>5 DEF AdmitLook
<1>6. ASSUME NEW t \in Transfers, NEW u \in Transfers \ {t}, AdmitSkip(t, u) PROVE TargetOK'
  BY <1>6 DEF AdmitSkip
<1>7. ASSUME NEW t \in Transfers, NEW u \in Transfers \ {t}, AdmitTimeout(t, u) PROVE TargetOK'
  BY <1>7 DEF AdmitTimeout
<1>8. ASSUME NEW t \in Transfers, Copy(t) PROVE TargetOK'
  BY <1>8 DEF Copy
<1>9. ASSUME NEW t \in Transfers, CopyFails(t) PROVE TargetOK'
  BY <1>9 DEF CopyFails
<1>10. ASSUME NEW t \in Transfers, Publish(t) PROVE TargetOK'
  BY <1>10 DEF Publish
<1>11. ASSUME NEW t \in Transfers, BeginLogged(t) PROVE TargetOK'
  BY <1>11 DEF BeginLogged
<1>12. ASSUME NEW t \in Transfers, BeginLogFails(t) PROVE TargetOK'
  BY <1>12 DEF BeginLogFails
<1>13. ASSUME NEW t \in Transfers, WritePayload(t) PROVE TargetOK'
  BY <1>13 DEF WritePayload
<1>14. ASSUME NEW t \in Transfers, WriteReceipt(t) PROVE TargetOK'
  BY <1>14 DEF WriteReceipt
<1>15. ASSUME NEW t \in Transfers, PublishChunk(t) PROVE TargetOK'
  BY <1>15 DEF PublishChunk
<1>16. ASSUME NEW t \in Transfers, Mutate(t) PROVE TargetOK'
  BY <1>16 DEF Mutate
<1>17. ASSUME NEW t \in Transfers, MutateRefused(t) PROVE TargetOK'
  BY <1>17 DEF MutateRefused
<1>18. ASSUME NEW t \in Transfers, CommitPublish(t) PROVE TargetOK'
  BY <1>18 DEF CommitPublish
<1>19. ASSUME NEW t \in Transfers, CallLosesRoot(t) PROVE TargetOK'
  BY <1>19 DEF CallLosesRoot
<1>20. ASSUME NEW t \in Transfers, BeginCrash(t) PROVE TargetOK'
  BY <1>20 DEF BeginCrash
<1>21. ASSUME NEW t \in Transfers, Tick(t) PROVE TargetOK'
  BY <1>21 DEF Tick
<1>22. ASSUME NEW t \in Transfers, Prune(t) PROVE TargetOK'
  BY <1>22 DEF Prune
<1>23. ASSUME NEW t \in Transfers, NEW allowed \in marks[t], MarkFailed(t, allowed) PROVE TargetOK'
  BY <1>23 DEF MarkFailed
<1>24. ASSUME NEW t \in Transfers, NEW allowed \in marks[t], MarkDropped(t, allowed) PROVE TargetOK'
  BY <1>24 DEF MarkDropped
<1>25. ASSUME NEW t \in Transfers, RemoveRoot(t) PROVE TargetOK'
  BY <1>25 DEF RemoveRoot
<1>26. ASSUME NEW t \in Transfers, ExpireOnLoad(t) PROVE TargetOK'
  BY <1>26 DEF ExpireOnLoad
<1>27. ASSUME NEW t \in Transfers, Cancel(t) PROVE TargetOK'
  BY <1>27 DEF Cancel
<1>28. ASSUME NEW t \in Transfers, Damage(t) PROVE TargetOK'
  BY <1>28 DEF Damage
<1>29. ASSUME NEW t \in Transfers, NEW last \in BOOLEAN, DownloadChunk(t, last) PROVE TargetOK'
  BY <1>29 DEF DownloadChunk
<1>30. ASSUME NEW t \in Transfers, NEW chunk \in Chunks, ChunkStart(t, chunk) PROVE TargetOK'
  BY <1>30 DEF ChunkStart
<1>31. ASSUME NEW t \in Transfers, NEW chunk \in Chunks, NEW offset \in 0..Bytes[t], DuplicateMismatch(t, offset, chunk) PROVE TargetOK'
  BY <1>31 DEF DuplicateMismatch
<1>32. ASSUME NEW t \in Transfers, CommitMismatch(t) PROVE TargetOK'
  BY <1>32 DEF CommitMismatch
<1>33. ASSUME NEW t \in Transfers, CommitStart(t) PROVE TargetOK'
  BY <1>33 DEF CommitStart
<1>34. ASSUME NEW t \in Transfers, MutateFails(t) PROVE TargetOK'
  <2>1. CASE Apply(t) /\ torn' = torn \cup {t} /\ UNCHANGED expected /\ ready' \in BOOLEAN
    BY <2>1
  <2>2. CASE UNCHANGED <<file, applied, ready, torn, expected>>
    BY <2>2
  <2> QED
    BY <1>34, <2>1, <2>2 DEF MutateFails
<1>35. ASSUME NEW t \in Transfers, CallDies(t) PROVE TargetOK'
  BY <1>35 DEF CallDies
<1>36. ASSUME NEW t \in Transfers, MutateCrash(t) PROVE TargetOK'
  <2>1. CASE Apply(t) /\ torn' = torn \cup {t} /\ UNCHANGED expected /\ ready' \in BOOLEAN
    BY <2>1
  <2>2. CASE UNCHANGED <<file, applied, ready, torn, expected>>
    BY <2>2
  <2> QED
    BY <1>36, <2>1, <2>2 DEF MutateCrash
<1>37. ASSUME NEW c \in Contents, Edit(c) PROVE TargetOK'
  BY <1>37 DEF Edit
<1>38. CASE UNCHANGED vars
  BY <1>38 DEF vars
<1> QED
  BY <1>1, <1>2, <1>3, <1>4, <1>5, <1>6, <1>7, <1>8, <1>9, <1>10, <1>11, <1>12, <1>13, <1>14,
     <1>15, <1>16, <1>17, <1>18, <1>19, <1>20, <1>21, <1>22, <1>23, <1>24, <1>25, <1>26,
     <1>27, <1>28, <1>29, <1>30, <1>31, <1>32, <1>33, <1>34, <1>35, <1>36, <1>37, <1>38,
     Zenon DEF Next, NextFor, BeginStep, CallStep

\* What append_receipt leaves: the confirmed receipts and one more.
LEMMA ReceiptAppended ==
  ASSUME NEW s \in Seq(Receipts), NEW n \in Nat, n <= Len(s), NEW r \in Receipts
  PROVE  /\ Append(SubSeq(s, 1, n), r) \in Seq(Receipts)
         /\ Len(Append(SubSeq(s, 1, n), r)) = n + 1
PROOF
<1>1. \A i \in 1..n : s[i] \in Receipts
  OBVIOUS
<1>2. SubSeq(s, 1, n) \in Seq(Receipts) /\ Len(SubSeq(s, 1, n)) = n
  BY <1>1, SubSeqProperties
<1> QED
  BY <1>2, AppendProperties

\* A step that leaves the uploads alone leaves them well typed.
LEMMA UploadUnchanged ==
  ASSUME UploadOK, UNCHANGED upload
  PROVE  UploadOK'
  BY DEF UploadOK, upload

\* A directory that is removed leaves the initial values behind.
LEMMA RemoveKeepsUploadOK ==
  ASSUME UploadOK, NEW t \in Transfers, Remove(t)
  PROVE  UploadOK'
  BY TransferAssumption DEF UploadOK, Remove, Blank

\* Uploads stay well typed.
LEMMA StepUploadOK ==
  ASSUME UploadOK, CallOK, TransferInv, [Next]_vars
  PROVE  UploadOK'
PROOF
<1>1. ASSUME NEW t \in Transfers, BeginLock(t) PROVE UploadOK'
  BY <1>1, UploadUnchanged DEF BeginLock
<1>2. ASSUME NEW t \in Transfers, Reserve(t) PROVE UploadOK'
  <2>1. CASE Direction[t] = "download"
    BY <1>2, <2>1, UploadUnchanged DEF Reserve, upload
  <2>2. CASE Direction[t] # "download"
    <3>1. payload' = [payload EXCEPT ![t] = Blank(t)]
          /\ UNCHANGED <<received, rcount, receipts, acked>>
      BY <1>2, <2>2 DEF Reserve
    <3> QED
      BY <3>1 DEF UploadOK, Blank
  <2> QED
    BY <2>1, <2>2
<1>3. ASSUME NEW t \in Transfers, AdmitRefuse(t) PROVE UploadOK'
  BY <1>3, UploadUnchanged DEF AdmitRefuse, Refuse
<1>4. ASSUME NEW t \in Transfers, ReserveFails(t) PROVE UploadOK'
  BY <1>4, UploadUnchanged DEF ReserveFails, Refuse
<1>5. ASSUME NEW t \in Transfers, NEW u \in Transfers \ {t}, AdmitLook(t, u) PROVE UploadOK'
  BY <1>5, UploadUnchanged DEF AdmitLook
<1>6. ASSUME NEW t \in Transfers, NEW u \in Transfers \ {t}, AdmitSkip(t, u) PROVE UploadOK'
  BY <1>6, UploadUnchanged DEF AdmitSkip
<1>7. ASSUME NEW t \in Transfers, NEW u \in Transfers \ {t}, AdmitTimeout(t, u) PROVE UploadOK'
  BY <1>7, UploadUnchanged DEF AdmitTimeout, Refuse
<1>8. ASSUME NEW t \in Transfers, Copy(t) PROVE UploadOK'
  BY <1>8, UploadUnchanged DEF Copy
<1>9. ASSUME NEW t \in Transfers, CopyFails(t) PROVE UploadOK'
  BY <1>9, UploadUnchanged DEF CopyFails
<1>10. ASSUME NEW t \in Transfers, Publish(t) PROVE UploadOK'
  BY <1>10, UploadUnchanged DEF Publish
<1>11. ASSUME NEW t \in Transfers, BeginLogged(t) PROVE UploadOK'
  BY <1>11, UploadUnchanged DEF BeginLogged
<1>12. ASSUME NEW t \in Transfers, BeginLogFails(t) PROVE UploadOK'
  BY <1>12, UploadUnchanged DEF BeginLogFails
<1>13. ASSUME NEW t \in Transfers, WritePayload(t) PROVE UploadOK'
  <2>1. call[t].chunk \in Seq(Values)
    BY <1>13, ContentAssumption DEF WritePayload, TransferInv, Writing
  <2>2. \A j \in 1..Len(call[t].chunk) : call[t].chunk[j] \in Values
    BY <2>1
  <2>3. \A i \in 1..Bytes[t] : payload[t][i] \in Values \cup {Hole}
    BY DEF UploadOK
  <2>4. [i \in 1..Bytes[t] |-> IF i - call[t].offset \in 1..Len(call[t].chunk)
                                THEN call[t].chunk[i - call[t].offset] ELSE payload[t][i]]
        \in [1..Bytes[t] -> Values \cup {Hole}]
    BY <2>2, <2>3
  <2>5. payload' = [payload EXCEPT ![t] =
          [i \in 1..Bytes[t] |-> IF i - call[t].offset \in 1..Len(call[t].chunk)
                                  THEN call[t].chunk[i - call[t].offset] ELSE payload[t][i]]]
        /\ UNCHANGED <<received, rcount, receipts, acked>>
    BY <1>13 DEF WritePayload
  <2> QED
    BY <2>4, <2>5 DEF UploadOK
<1>14. ASSUME NEW t \in Transfers, WriteReceipt(t) PROVE UploadOK'
  <2> DEFINE r == [offset |-> call[t].offset, chunk |-> call[t].chunk]
  <2>1. r \in Receipts
    BY <1>14 DEF WriteReceipt, TransferInv, Writing, CallOK, Receipts
  <2>2. receipts[t] \in Seq(Receipts) /\ rcount[t] \in Nat /\ rcount[t] <= Len(receipts[t])
    BY DEF TransferInv, Writing, UploadOK
  <2>4. Append(SubSeq(receipts[t], 1, rcount[t]), r) \in Seq(Receipts)
    BY <2>1, <2>2, ReceiptAppended
  <2>5. receipts' = [receipts EXCEPT ![t] = Append(SubSeq(receipts[t], 1, rcount[t]), r)]
        /\ UNCHANGED <<received, rcount, payload, acked>>
    BY <1>14 DEF WriteReceipt, AppendReceipt
  <2> QED
    BY <2>4, <2>5 DEF UploadOK
<1>15. ASSUME NEW t \in Transfers, PublishChunk(t) PROVE UploadOK'
  <2>1. call[t].chunk \in Chunks /\ call[t].offset \in Nat
    BY <1>15 DEF PublishChunk, TransferInv, Writing, CallOK
  <2>2. call[t].offset + Len(call[t].chunk) \in Nat
    BY <2>1, ContentAssumption
  <2>3. [offset |-> call[t].offset, chunk |-> call[t].chunk] \in Receipts
    BY <2>1 DEF Receipts
  <2> QED
    BY <1>15, <2>2, <2>3 DEF PublishChunk, UploadOK
<1>16. ASSUME NEW t \in Transfers, Mutate(t) PROVE UploadOK'
  BY <1>16, UploadUnchanged DEF Mutate
<1>17. ASSUME NEW t \in Transfers, MutateRefused(t) PROVE UploadOK'
  BY <1>17, UploadUnchanged DEF MutateRefused
<1>18. ASSUME NEW t \in Transfers, CommitPublish(t) PROVE UploadOK'
  BY <1>18, UploadUnchanged DEF CommitPublish
<1>19. ASSUME NEW t \in Transfers, CallLosesRoot(t) PROVE UploadOK'
  BY <1>19, UploadUnchanged DEF CallLosesRoot
<1>20. ASSUME NEW t \in Transfers, BeginCrash(t) PROVE UploadOK'
  BY <1>20, UploadUnchanged DEF BeginCrash
<1>21. ASSUME NEW t \in Transfers, Tick(t) PROVE UploadOK'
  BY <1>21, UploadUnchanged DEF Tick
<1>22. ASSUME NEW t \in Transfers, Prune(t) PROVE UploadOK'
  BY <1>22, RemoveKeepsUploadOK DEF Prune
<1>23. ASSUME NEW t \in Transfers, NEW allowed \in marks[t], MarkFailed(t, allowed) PROVE UploadOK'
  BY <1>23, UploadUnchanged DEF MarkFailed
<1>24. ASSUME NEW t \in Transfers, NEW allowed \in marks[t], MarkDropped(t, allowed) PROVE UploadOK'
  BY <1>24, UploadUnchanged DEF MarkDropped
<1>25. ASSUME NEW t \in Transfers, RemoveRoot(t) PROVE UploadOK'
  BY <1>25, RemoveKeepsUploadOK DEF RemoveRoot
<1>26. ASSUME NEW t \in Transfers, ExpireOnLoad(t) PROVE UploadOK'
  BY <1>26, UploadUnchanged DEF ExpireOnLoad
<1>27. ASSUME NEW t \in Transfers, Cancel(t) PROVE UploadOK'
  BY <1>27, UploadUnchanged DEF Cancel
<1>28. ASSUME NEW t \in Transfers, Damage(t) PROVE UploadOK'
  BY <1>28, UploadUnchanged DEF Damage
<1>29. ASSUME NEW t \in Transfers, NEW last \in BOOLEAN, DownloadChunk(t, last) PROVE UploadOK'
  BY <1>29, UploadUnchanged DEF DownloadChunk
<1>30. ASSUME NEW t \in Transfers, NEW chunk \in Chunks, ChunkStart(t, chunk) PROVE UploadOK'
  BY <1>30, UploadUnchanged DEF ChunkStart
<1>31. ASSUME NEW t \in Transfers, NEW chunk \in Chunks, NEW offset \in 0..Bytes[t], DuplicateMismatch(t, offset, chunk) PROVE UploadOK'
  BY <1>31, UploadUnchanged DEF DuplicateMismatch
<1>32. ASSUME NEW t \in Transfers, CommitMismatch(t) PROVE UploadOK'
  BY <1>32, UploadUnchanged DEF CommitMismatch
<1>33. ASSUME NEW t \in Transfers, CommitStart(t) PROVE UploadOK'
  BY <1>33, UploadUnchanged DEF CommitStart
<1>34. ASSUME NEW t \in Transfers, MutateFails(t) PROVE UploadOK'
  BY <1>34, UploadUnchanged DEF MutateFails
<1>35. ASSUME NEW t \in Transfers, CallDies(t) PROVE UploadOK'
  BY <1>35, UploadUnchanged DEF CallDies
<1>36. ASSUME NEW t \in Transfers, MutateCrash(t) PROVE UploadOK'
  BY <1>36, UploadUnchanged DEF MutateCrash
<1>37. ASSUME NEW c \in Contents, Edit(c) PROVE UploadOK'
  BY <1>37, UploadUnchanged DEF Edit
<1>38. CASE UNCHANGED vars
  BY <1>38, UploadUnchanged DEF vars, upload
<1> QED
  BY <1>1, <1>2, <1>3, <1>4, <1>5, <1>6, <1>7, <1>8, <1>9, <1>10, <1>11, <1>12, <1>13, <1>14,
     <1>15, <1>16, <1>17, <1>18, <1>19, <1>20, <1>21, <1>22, <1>23, <1>24, <1>25, <1>26,
     <1>27, <1>28, <1>29, <1>30, <1>31, <1>32, <1>33, <1>34, <1>35, <1>36, <1>37, <1>38,
     Zenon DEF Next, NextFor, BeginStep, CallStep

-----------------------------------------------------------------------------
(* The invariant is kept                                                   *)

\* A mark that is added obeys the rule the others obey.
LEMMA MarkAdded ==
  ASSUME PoolOK, NEW t \in Transfers, NEW x \in Transfers, NEW S, NEW M,
         marks' = [marks EXCEPT ![t] = @ \cup {S}],
         \A allowed \in marks[x] : allowed \subseteq M, S \subseteq M
  PROVE  \A allowed \in marks'[x] : allowed \subseteq M
PROOF
<1>1. marks'[x] \subseteq marks[x] \cup {S}
  BY DEF PoolOK
<1> QED
  BY <1>1

\* No step separates a begin call from its manifest, or a call from an open transfer.
LEMMA StagedKept ==
  ASSUME TypeOK, NEW x \in Transfers, Staged(x), [Next]_vars
  PROVE  Staged(x)'
PROOF
<1> USE TransferAssumption DEF admission, upload, target, bounds, CrashNow, FaultNow, TypeOK, PoolOK, CallOK,
            Active, Exists, Free, Refuse, ReleasePool, Abandon, Remove, Return, NoCall, GoTo
<1> USE DEF Staged, Callable, Cancellable, Uploading, StillPreparing, MayFail, Scanned, Counts,
            Integrity, ServedState, Unlogged, Finished
<1>1. ASSUME NEW t \in Transfers, BeginLock(t) PROVE Staged(x)'
  BY <1>1 DEF BeginLock
<1>2. ASSUME NEW t \in Transfers, Reserve(t) PROVE Staged(x)'
  BY <1>2 DEF Reserve
<1>3. ASSUME NEW t \in Transfers, AdmitRefuse(t) PROVE Staged(x)'
  BY <1>3 DEF AdmitRefuse
<1>4. ASSUME NEW t \in Transfers, ReserveFails(t) PROVE Staged(x)'
  BY <1>4 DEF ReserveFails
<1>5. ASSUME NEW t \in Transfers, NEW u \in Transfers \ {t}, AdmitLook(t, u) PROVE Staged(x)'
  BY <1>5 DEF AdmitLook
<1>6. ASSUME NEW t \in Transfers, NEW u \in Transfers \ {t}, AdmitSkip(t, u) PROVE Staged(x)'
  BY <1>6 DEF AdmitSkip
<1>7. ASSUME NEW t \in Transfers, NEW u \in Transfers \ {t}, AdmitTimeout(t, u) PROVE Staged(x)'
  BY <1>7 DEF AdmitTimeout
<1>8. ASSUME NEW t \in Transfers, Copy(t) PROVE Staged(x)'
  BY <1>8 DEF Copy
<1>9. ASSUME NEW t \in Transfers, CopyFails(t) PROVE Staged(x)'
  BY <1>9 DEF CopyFails
<1>10. ASSUME NEW t \in Transfers, Publish(t) PROVE Staged(x)'
  <2>1. CASE Exists(t) /\ StillPreparing(t)
    BY <1>10, <2>1 DEF Publish
  <2>2. CASE ~(Exists(t) /\ StillPreparing(t))
    <3>1. marks' = [marks EXCEPT ![t] = @ \cup {Active}]
      BY <1>10, <2>2 DEF Publish
    <3>2. \A allowed \in marks'[x] : allowed \subseteq Active \cup {"completed"}
      BY <3>1, MarkAdded
    <3>3. UNCHANGED state /\ UNCHANGED call /\ UNCHANGED pool /\ begin' = [begin EXCEPT ![t] = "lost"]
          /\ looked' = looked /\ counted' = counted /\ skipped' = skipped
          /\ begin[t] = "publish" /\ call[t].step = "free"
      BY <1>10, <2>2 DEF Publish
    <3> QED
      BY <3>2, <3>3
  <2> QED
    BY <2>1, <2>2
<1>11. ASSUME NEW t \in Transfers, BeginLogged(t) PROVE Staged(x)'
  BY <1>11 DEF BeginLogged
<1>12. ASSUME NEW t \in Transfers, BeginLogFails(t) PROVE Staged(x)'
  BY <1>12 DEF BeginLogFails
<1>13. ASSUME NEW t \in Transfers, WritePayload(t) PROVE Staged(x)'
  BY <1>13 DEF WritePayload
<1>14. ASSUME NEW t \in Transfers, WriteReceipt(t) PROVE Staged(x)'
  BY <1>14 DEF WriteReceipt
<1>15. ASSUME NEW t \in Transfers, PublishChunk(t) PROVE Staged(x)'
  BY <1>15 DEF PublishChunk
<1>16. ASSUME NEW t \in Transfers, Mutate(t) PROVE Staged(x)'
  BY <1>16 DEF Mutate
<1>17. ASSUME NEW t \in Transfers, MutateRefused(t) PROVE Staged(x)'
  BY <1>17 DEF MutateRefused
<1>18. ASSUME NEW t \in Transfers, CommitPublish(t) PROVE Staged(x)'
  BY <1>18 DEF CommitPublish
<1>19. ASSUME NEW t \in Transfers, CallLosesRoot(t) PROVE Staged(x)'
  BY <1>19 DEF CallLosesRoot
<1>20. ASSUME NEW t \in Transfers, BeginCrash(t) PROVE Staged(x)'
  BY <1>20 DEF BeginCrash
<1>21. ASSUME NEW t \in Transfers, Tick(t) PROVE Staged(x)'
  BY <1>21 DEF Tick
<1>22. ASSUME NEW t \in Transfers, Prune(t) PROVE Staged(x)'
  BY <1>22 DEF Prune
<1>23. ASSUME NEW t \in Transfers, NEW allowed \in marks[t], MarkFailed(t, allowed) PROVE Staged(x)'
  BY <1>23 DEF MarkFailed
<1>24. ASSUME NEW t \in Transfers, NEW allowed \in marks[t], MarkDropped(t, allowed) PROVE Staged(x)'
  BY <1>24 DEF MarkDropped
<1>25. ASSUME NEW t \in Transfers, RemoveRoot(t) PROVE Staged(x)'
  BY <1>25 DEF RemoveRoot
<1>26. ASSUME NEW t \in Transfers, ExpireOnLoad(t) PROVE Staged(x)'
  BY <1>26 DEF ExpireOnLoad
<1>27. ASSUME NEW t \in Transfers, Cancel(t) PROVE Staged(x)'
  BY <1>27 DEF Cancel
<1>28. ASSUME NEW t \in Transfers, Damage(t) PROVE Staged(x)'
  BY <1>28 DEF Damage
<1>29. ASSUME NEW t \in Transfers, NEW last \in BOOLEAN, DownloadChunk(t, last) PROVE Staged(x)'
  <2>1. CASE intact[t]
    BY <1>29, <2>1 DEF DownloadChunk
  <2>2. CASE ~intact[t]
    <3>1. marks' = [marks EXCEPT ![t] = @ \cup {Active \cup {"completed"}}]
      BY <1>29, <2>2 DEF DownloadChunk
    <3>2. \A allowed \in marks'[x] : allowed \subseteq Active \cup {"completed"}
      BY <3>1, MarkAdded
    <3>3. UNCHANGED state /\ UNCHANGED call /\ UNCHANGED <<pool, begin, looked, counted, skipped>>
      BY <1>29, <2>2 DEF DownloadChunk
    <3> QED
      BY <3>2, <3>3
  <2> QED
    BY <2>1, <2>2
<1>30. ASSUME NEW t \in Transfers, NEW chunk \in Chunks, ChunkStart(t, chunk) PROVE Staged(x)'
  BY <1>30 DEF ChunkStart
<1>31. ASSUME NEW t \in Transfers, NEW chunk \in Chunks, NEW offset \in 0..Bytes[t], DuplicateMismatch(t, offset, chunk) PROVE Staged(x)'
  BY <1>31 DEF DuplicateMismatch
<1>32. ASSUME NEW t \in Transfers, CommitMismatch(t) PROVE Staged(x)'
  BY <1>32 DEF CommitMismatch
<1>33. ASSUME NEW t \in Transfers, CommitStart(t) PROVE Staged(x)'
  BY <1>33 DEF CommitStart
<1>34. ASSUME NEW t \in Transfers, MutateFails(t) PROVE Staged(x)'
  BY <1>34 DEF MutateFails
<1>35. ASSUME NEW t \in Transfers, CallDies(t) PROVE Staged(x)'
  <2>1. \/ marks' = marks
        \/ marks' = [marks EXCEPT ![t] = @ \cup {Active \cup {"completed"}}]
    BY <1>35 DEF CallDies
  <2>2. \A allowed \in marks'[x] : allowed \subseteq Active \cup {"completed"}
    <3>1. CASE marks' = marks
      BY <3>1
    <3>2. CASE marks' = [marks EXCEPT ![t] = @ \cup {Active \cup {"completed"}}]
      BY <3>2, MarkAdded
    <3> QED
      BY <2>1, <3>1, <3>2
  <2>3. /\ UNCHANGED state /\ UNCHANGED <<pool, begin, looked, counted, skipped>>
        /\ call' = [call EXCEPT ![t] = NoCall]
    BY <1>35 DEF CallDies
  <2> QED
    BY <2>2, <2>3
<1>36. ASSUME NEW t \in Transfers, MutateCrash(t) PROVE Staged(x)'
  BY <1>36 DEF MutateCrash
<1>37. ASSUME NEW c \in Contents, Edit(c) PROVE Staged(x)'
  BY <1>37 DEF Edit
<1>38. CASE UNCHANGED vars
  BY <1>38 DEF vars
<1> HIDE DEF TypeOK, PoolOK, CallOK, Active, Exists, Free, Refuse, ReleasePool, Abandon, Remove, Staged
<1> QED
  BY <1>1, <1>2, <1>3, <1>4, <1>5, <1>6, <1>7, <1>8, <1>9, <1>10, <1>11, <1>12, <1>13, <1>14,
     <1>15, <1>16, <1>17, <1>18, <1>19, <1>20, <1>21, <1>22, <1>23, <1>24, <1>25, <1>26,
     <1>27, <1>28, <1>29, <1>30, <1>31, <1>32, <1>33, <1>34, <1>35, <1>36, <1>37, <1>38,
     Zenon DEF Next, NextFor, BeginStep, CallStep

\* No step loses a receipt the manifest counts or is about to count.
LEMMA WritingKept ==
  ASSUME TypeOK, TypeOK', NEW x \in Transfers, Staged(x), Writing(x), [Next]_vars
  PROVE  Writing(x)'
PROOF
<1> USE TransferAssumption DEF admission, upload, target, bounds, CrashNow, FaultNow, TypeOK, PoolOK, CallOK,
            Active, Exists, Free, Refuse, ReleasePool, Abandon, Remove, Return, NoCall, GoTo
<1> USE DEF Staged, Writing, Callable, Cancellable, Uploading, UploadOK
<1>1. ASSUME NEW t \in Transfers, BeginLock(t) PROVE Writing(x)'
  BY <1>1 DEF BeginLock
<1>2. ASSUME NEW t \in Transfers, Reserve(t) PROVE Writing(x)'
  BY <1>2 DEF Reserve
<1>3. ASSUME NEW t \in Transfers, AdmitRefuse(t) PROVE Writing(x)'
  BY <1>3 DEF AdmitRefuse
<1>4. ASSUME NEW t \in Transfers, ReserveFails(t) PROVE Writing(x)'
  BY <1>4 DEF ReserveFails
<1>5. ASSUME NEW t \in Transfers, NEW u \in Transfers \ {t}, AdmitLook(t, u) PROVE Writing(x)'
  BY <1>5 DEF AdmitLook
<1>6. ASSUME NEW t \in Transfers, NEW u \in Transfers \ {t}, AdmitSkip(t, u) PROVE Writing(x)'
  BY <1>6 DEF AdmitSkip
<1>7. ASSUME NEW t \in Transfers, NEW u \in Transfers \ {t}, AdmitTimeout(t, u) PROVE Writing(x)'
  BY <1>7 DEF AdmitTimeout
<1>8. ASSUME NEW t \in Transfers, Copy(t) PROVE Writing(x)'
  BY <1>8 DEF Copy
<1>9. ASSUME NEW t \in Transfers, CopyFails(t) PROVE Writing(x)'
  BY <1>9 DEF CopyFails
<1>10. ASSUME NEW t \in Transfers, Publish(t) PROVE Writing(x)'
  BY <1>10 DEF Publish
<1>11. ASSUME NEW t \in Transfers, BeginLogged(t) PROVE Writing(x)'
  BY <1>11 DEF BeginLogged
<1>12. ASSUME NEW t \in Transfers, BeginLogFails(t) PROVE Writing(x)'
  BY <1>12 DEF BeginLogFails
<1>13. ASSUME NEW t \in Transfers, WritePayload(t) PROVE Writing(x)'
  BY <1>13 DEF WritePayload
<1>14. ASSUME NEW t \in Transfers, WriteReceipt(t) PROVE Writing(x)'
  <2> DEFINE r == [offset |-> call[t].offset, chunk |-> call[t].chunk]
  <2>1. CASE x = t
    <3>1. r \in Receipts
      BY <1>14, <2>1 DEF WriteReceipt, Receipts
    <3>2. receipts[t] \in Seq(Receipts) /\ rcount[t] \in Nat /\ rcount[t] <= Len(receipts[t])
      BY <2>1
    <3>3. Len(Append(SubSeq(receipts[t], 1, rcount[t]), r)) = rcount[t] + 1
      BY ONLY <3>1, <3>2, ReceiptAppended
    <3>4. receipts'[t] = Append(SubSeq(receipts[t], 1, rcount[t]), r) /\ rcount' = rcount
      BY <1>14 DEF WriteReceipt, AppendReceipt
    <3>5. call'[t].chunk \in Chunks
      BY <1>14, <2>1 DEF WriteReceipt
    <3>6. rcount'[t] < Len(receipts'[t])
      BY <3>2, <3>3, <3>4
    <3> QED
      BY <2>1, <3>5, <3>6
  <2>2. CASE x # t
    BY <1>14, <2>2 DEF WriteReceipt
  <2> QED
    BY <2>1, <2>2
<1>15. ASSUME NEW t \in Transfers, PublishChunk(t) PROVE Writing(x)'
  BY <1>15 DEF PublishChunk
<1>16. ASSUME NEW t \in Transfers, Mutate(t) PROVE Writing(x)'
  BY <1>16 DEF Mutate
<1>17. ASSUME NEW t \in Transfers, MutateRefused(t) PROVE Writing(x)'
  BY <1>17 DEF MutateRefused
<1>18. ASSUME NEW t \in Transfers, CommitPublish(t) PROVE Writing(x)'
  BY <1>18 DEF CommitPublish
<1>19. ASSUME NEW t \in Transfers, CallLosesRoot(t) PROVE Writing(x)'
  BY <1>19 DEF CallLosesRoot
<1>20. ASSUME NEW t \in Transfers, BeginCrash(t) PROVE Writing(x)'
  BY <1>20 DEF BeginCrash
<1>21. ASSUME NEW t \in Transfers, Tick(t) PROVE Writing(x)'
  BY <1>21 DEF Tick
<1>22. ASSUME NEW t \in Transfers, Prune(t) PROVE Writing(x)'
  BY <1>22 DEF Prune
<1>23. ASSUME NEW t \in Transfers, NEW allowed \in marks[t], MarkFailed(t, allowed) PROVE Writing(x)'
  BY <1>23 DEF MarkFailed
<1>24. ASSUME NEW t \in Transfers, NEW allowed \in marks[t], MarkDropped(t, allowed) PROVE Writing(x)'
  BY <1>24 DEF MarkDropped
<1>25. ASSUME NEW t \in Transfers, RemoveRoot(t) PROVE Writing(x)'
  BY <1>25 DEF RemoveRoot
<1>26. ASSUME NEW t \in Transfers, ExpireOnLoad(t) PROVE Writing(x)'
  BY <1>26 DEF ExpireOnLoad
<1>27. ASSUME NEW t \in Transfers, Cancel(t) PROVE Writing(x)'
  BY <1>27 DEF Cancel
<1>28. ASSUME NEW t \in Transfers, Damage(t) PROVE Writing(x)'
  BY <1>28 DEF Damage
<1>29. ASSUME NEW t \in Transfers, NEW last \in BOOLEAN, DownloadChunk(t, last) PROVE Writing(x)'
  BY <1>29 DEF DownloadChunk
<1>30. ASSUME NEW t \in Transfers, NEW chunk \in Chunks, ChunkStart(t, chunk) PROVE Writing(x)'
  BY <1>30 DEF ChunkStart
<1>31. ASSUME NEW t \in Transfers, NEW chunk \in Chunks, NEW offset \in 0..Bytes[t], DuplicateMismatch(t, offset, chunk) PROVE Writing(x)'
  BY <1>31 DEF DuplicateMismatch
<1>32. ASSUME NEW t \in Transfers, CommitMismatch(t) PROVE Writing(x)'
  BY <1>32 DEF CommitMismatch
<1>33. ASSUME NEW t \in Transfers, CommitStart(t) PROVE Writing(x)'
  BY <1>33 DEF CommitStart
<1>34. ASSUME NEW t \in Transfers, MutateFails(t) PROVE Writing(x)'
  BY <1>34 DEF MutateFails
<1>35. ASSUME NEW t \in Transfers, CallDies(t) PROVE Writing(x)'
  BY <1>35 DEF CallDies
<1>36. ASSUME NEW t \in Transfers, MutateCrash(t) PROVE Writing(x)'
  BY <1>36 DEF MutateCrash
<1>37. ASSUME NEW c \in Contents, Edit(c) PROVE Writing(x)'
  BY <1>37 DEF Edit
<1>38. CASE UNCHANGED vars
  BY <1>38 DEF vars
<1> HIDE DEF TypeOK, PoolOK, CallOK, Active, Exists, Free, Refuse, ReleasePool, Abandon, Remove, Staged, Writing, UploadOK
<1> QED
  BY <1>1, <1>2, <1>3, <1>4, <1>5, <1>6, <1>7, <1>8, <1>9, <1>10, <1>11, <1>12, <1>13, <1>14,
     <1>15, <1>16, <1>17, <1>18, <1>19, <1>20, <1>21, <1>22, <1>23, <1>24, <1>25, <1>26,
     <1>27, <1>28, <1>29, <1>30, <1>31, <1>32, <1>33, <1>34, <1>35, <1>36, <1>37, <1>38,
     Zenon DEF Next, NextFor, BeginStep, CallStep

\* Only a commit cut short separates the target from the manifest.
LEMMA WrittenKept ==
  ASSUME TypeOK, NEW x \in Transfers, Staged(x), Written(x), [Next]_vars
  PROVE  Written(x)'
PROOF
<1> USE TransferAssumption DEF admission, upload, target, bounds, CrashNow, FaultNow, TypeOK, PoolOK, CallOK,
            Active, Exists, Free, Refuse, ReleasePool, Abandon, Remove, Return, NoCall, GoTo
<1> USE DEF Staged, Written, TargetOK, Apply, Callable, Cancellable, Uploading, StillPreparing, MayFail,
            Scanned, Counts, Integrity, ServedState, Finished
<1>1. ASSUME NEW t \in Transfers, BeginLock(t) PROVE Written(x)'
  BY <1>1 DEF BeginLock
<1>2. ASSUME NEW t \in Transfers, Reserve(t) PROVE Written(x)'
  BY <1>2 DEF Reserve
<1>3. ASSUME NEW t \in Transfers, AdmitRefuse(t) PROVE Written(x)'
  BY <1>3 DEF AdmitRefuse
<1>4. ASSUME NEW t \in Transfers, ReserveFails(t) PROVE Written(x)'
  BY <1>4 DEF ReserveFails
<1>5. ASSUME NEW t \in Transfers, NEW u \in Transfers \ {t}, AdmitLook(t, u) PROVE Written(x)'
  BY <1>5 DEF AdmitLook
<1>6. ASSUME NEW t \in Transfers, NEW u \in Transfers \ {t}, AdmitSkip(t, u) PROVE Written(x)'
  BY <1>6 DEF AdmitSkip
<1>7. ASSUME NEW t \in Transfers, NEW u \in Transfers \ {t}, AdmitTimeout(t, u) PROVE Written(x)'
  BY <1>7 DEF AdmitTimeout
<1>8. ASSUME NEW t \in Transfers, Copy(t) PROVE Written(x)'
  BY <1>8 DEF Copy
<1>9. ASSUME NEW t \in Transfers, CopyFails(t) PROVE Written(x)'
  BY <1>9 DEF CopyFails
<1>10. ASSUME NEW t \in Transfers, Publish(t) PROVE Written(x)'
  BY <1>10 DEF Publish
<1>11. ASSUME NEW t \in Transfers, BeginLogged(t) PROVE Written(x)'
  BY <1>11 DEF BeginLogged
<1>12. ASSUME NEW t \in Transfers, BeginLogFails(t) PROVE Written(x)'
  BY <1>12 DEF BeginLogFails
<1>13. ASSUME NEW t \in Transfers, WritePayload(t) PROVE Written(x)'
  BY <1>13 DEF WritePayload
<1>14. ASSUME NEW t \in Transfers, WriteReceipt(t) PROVE Written(x)'
  BY <1>14 DEF WriteReceipt
<1>15. ASSUME NEW t \in Transfers, PublishChunk(t) PROVE Written(x)'
  BY <1>15 DEF PublishChunk
<1>16. ASSUME NEW t \in Transfers, Mutate(t) PROVE Written(x)'
  BY <1>16 DEF Mutate
<1>17. ASSUME NEW t \in Transfers, MutateRefused(t) PROVE Written(x)'
  BY <1>17 DEF MutateRefused
<1>18. ASSUME NEW t \in Transfers, CommitPublish(t) PROVE Written(x)'
  BY <1>18 DEF CommitPublish
<1>19. ASSUME NEW t \in Transfers, CallLosesRoot(t) PROVE Written(x)'
  BY <1>19 DEF CallLosesRoot
<1>20. ASSUME NEW t \in Transfers, BeginCrash(t) PROVE Written(x)'
  BY <1>20 DEF BeginCrash
<1>21. ASSUME NEW t \in Transfers, Tick(t) PROVE Written(x)'
  BY <1>21 DEF Tick
<1>22. ASSUME NEW t \in Transfers, Prune(t) PROVE Written(x)'
  BY <1>22 DEF Prune
<1>23. ASSUME NEW t \in Transfers, NEW allowed \in marks[t], MarkFailed(t, allowed) PROVE Written(x)'
  BY <1>23 DEF MarkFailed
<1>24. ASSUME NEW t \in Transfers, NEW allowed \in marks[t], MarkDropped(t, allowed) PROVE Written(x)'
  BY <1>24 DEF MarkDropped
<1>25. ASSUME NEW t \in Transfers, RemoveRoot(t) PROVE Written(x)'
  BY <1>25 DEF RemoveRoot
<1>26. ASSUME NEW t \in Transfers, ExpireOnLoad(t) PROVE Written(x)'
  BY <1>26 DEF ExpireOnLoad
<1>27. ASSUME NEW t \in Transfers, Cancel(t) PROVE Written(x)'
  BY <1>27 DEF Cancel
<1>28. ASSUME NEW t \in Transfers, Damage(t) PROVE Written(x)'
  BY <1>28 DEF Damage
<1>29. ASSUME NEW t \in Transfers, NEW last \in BOOLEAN, DownloadChunk(t, last) PROVE Written(x)'
  BY <1>29 DEF DownloadChunk
<1>30. ASSUME NEW t \in Transfers, NEW chunk \in Chunks, ChunkStart(t, chunk) PROVE Written(x)'
  BY <1>30 DEF ChunkStart
<1>31. ASSUME NEW t \in Transfers, NEW chunk \in Chunks, NEW offset \in 0..Bytes[t], DuplicateMismatch(t, offset, chunk) PROVE Written(x)'
  BY <1>31 DEF DuplicateMismatch
<1>32. ASSUME NEW t \in Transfers, CommitMismatch(t) PROVE Written(x)'
  BY <1>32 DEF CommitMismatch
<1>33. ASSUME NEW t \in Transfers, CommitStart(t) PROVE Written(x)'
  BY <1>33 DEF CommitStart
<1>34. ASSUME NEW t \in Transfers, MutateFails(t) PROVE Written(x)'
  <2>1. CASE UNCHANGED <<file, applied, ready, torn>>
    BY <1>34, <2>1 DEF MutateFails
  <2>2. CASE Apply(t) /\ torn' = torn \cup {t}
    BY <1>34, <2>2 DEF MutateFails
  <2> QED
    BY <1>34, <2>1, <2>2 DEF MutateFails
<1>35. ASSUME NEW t \in Transfers, CallDies(t) PROVE Written(x)'
  BY <1>35 DEF CallDies
<1>36. ASSUME NEW t \in Transfers, MutateCrash(t) PROVE Written(x)'
  BY <1>36 DEF MutateCrash
<1>37. ASSUME NEW c \in Contents, Edit(c) PROVE Written(x)'
  BY <1>37 DEF Edit
<1>38. CASE UNCHANGED vars
  BY <1>38 DEF vars
<1> HIDE DEF TypeOK, PoolOK, CallOK, Active, Exists, Free, Refuse, ReleasePool, Abandon, Remove, Staged, Written, TargetOK
<1> QED
  BY <1>1, <1>2, <1>3, <1>4, <1>5, <1>6, <1>7, <1>8, <1>9, <1>10, <1>11, <1>12, <1>13, <1>14,
     <1>15, <1>16, <1>17, <1>18, <1>19, <1>20, <1>21, <1>22, <1>23, <1>24, <1>25, <1>26,
     <1>27, <1>28, <1>29, <1>30, <1>31, <1>32, <1>33, <1>34, <1>35, <1>36, <1>37, <1>38,
     Zenon DEF Next, NextFor, BeginStep, CallStep

-----------------------------------------------------------------------------
(* The limit on active transfers                                           *)

Occupied == {t \in Transfers \ skipped : state[t] \in Active}

\* Only the reservation itself takes a place in the pool.
LEMMA OnlyReserveAdmits ==
  ASSUME TypeOK, NEW x \in Transfers, Staged(x), [Next]_vars
  PROVE  x \in Occupied' => x \in Occupied \/ Reserve(x)
PROOF
<1> USE DEF admission, upload, target, bounds, TypeOK, PoolOK, CallOK, Active, Occupied, Exists,
            Refuse, Remove, Staged, Counts, StillPreparing, ServedState
<1>1. ASSUME NEW t \in Transfers, BeginLock(t) PROVE x \in Occupied' => x \in Occupied \/ Reserve(x)
  BY <1>1 DEF BeginLock
<1>2. ASSUME NEW t \in Transfers, Reserve(t) PROVE x \in Occupied' => x \in Occupied \/ Reserve(x)
  BY <1>2 DEF Reserve
<1>3. ASSUME NEW t \in Transfers, AdmitRefuse(t) PROVE x \in Occupied' => x \in Occupied \/ Reserve(x)
  BY <1>3 DEF AdmitRefuse
<1>4. ASSUME NEW t \in Transfers, ReserveFails(t) PROVE x \in Occupied' => x \in Occupied \/ Reserve(x)
  BY <1>4 DEF ReserveFails
<1>5. ASSUME NEW t \in Transfers, NEW u \in Transfers \ {t}, AdmitLook(t, u) PROVE x \in Occupied' => x \in Occupied \/ Reserve(x)
  BY <1>5 DEF AdmitLook
<1>6. ASSUME NEW t \in Transfers, NEW u \in Transfers \ {t}, AdmitSkip(t, u) PROVE x \in Occupied' => x \in Occupied \/ Reserve(x)
  BY <1>6 DEF AdmitSkip
<1>7. ASSUME NEW t \in Transfers, NEW u \in Transfers \ {t}, AdmitTimeout(t, u) PROVE x \in Occupied' => x \in Occupied \/ Reserve(x)
  BY <1>7 DEF AdmitTimeout
<1>8. ASSUME NEW t \in Transfers, Copy(t) PROVE x \in Occupied' => x \in Occupied \/ Reserve(x)
  BY <1>8 DEF Copy
<1>9. ASSUME NEW t \in Transfers, CopyFails(t) PROVE x \in Occupied' => x \in Occupied \/ Reserve(x)
  BY <1>9 DEF CopyFails
<1>10. ASSUME NEW t \in Transfers, Publish(t) PROVE x \in Occupied' => x \in Occupied \/ Reserve(x)
  BY <1>10 DEF Publish
<1>11. ASSUME NEW t \in Transfers, BeginLogged(t) PROVE x \in Occupied' => x \in Occupied \/ Reserve(x)
  BY <1>11 DEF BeginLogged
<1>12. ASSUME NEW t \in Transfers, BeginLogFails(t) PROVE x \in Occupied' => x \in Occupied \/ Reserve(x)
  BY <1>12 DEF BeginLogFails
<1>13. ASSUME NEW t \in Transfers, WritePayload(t) PROVE x \in Occupied' => x \in Occupied \/ Reserve(x)
  BY <1>13 DEF WritePayload
<1>14. ASSUME NEW t \in Transfers, WriteReceipt(t) PROVE x \in Occupied' => x \in Occupied \/ Reserve(x)
  BY <1>14 DEF WriteReceipt
<1>15. ASSUME NEW t \in Transfers, PublishChunk(t) PROVE x \in Occupied' => x \in Occupied \/ Reserve(x)
  BY <1>15 DEF PublishChunk
<1>16. ASSUME NEW t \in Transfers, Mutate(t) PROVE x \in Occupied' => x \in Occupied \/ Reserve(x)
  BY <1>16 DEF Mutate
<1>17. ASSUME NEW t \in Transfers, MutateRefused(t) PROVE x \in Occupied' => x \in Occupied \/ Reserve(x)
  BY <1>17 DEF MutateRefused
<1>18. ASSUME NEW t \in Transfers, CommitPublish(t) PROVE x \in Occupied' => x \in Occupied \/ Reserve(x)
  BY <1>18 DEF CommitPublish
<1>19. ASSUME NEW t \in Transfers, CallLosesRoot(t) PROVE x \in Occupied' => x \in Occupied \/ Reserve(x)
  BY <1>19 DEF CallLosesRoot
<1>20. ASSUME NEW t \in Transfers, BeginCrash(t) PROVE x \in Occupied' => x \in Occupied \/ Reserve(x)
  BY <1>20 DEF BeginCrash
<1>21. ASSUME NEW t \in Transfers, Tick(t) PROVE x \in Occupied' => x \in Occupied \/ Reserve(x)
  BY <1>21 DEF Tick
<1>22. ASSUME NEW t \in Transfers, Prune(t) PROVE x \in Occupied' => x \in Occupied \/ Reserve(x)
  BY <1>22 DEF Prune
<1>23. ASSUME NEW t \in Transfers, NEW allowed \in marks[t], MarkFailed(t, allowed) PROVE x \in Occupied' => x \in Occupied \/ Reserve(x)
  BY <1>23 DEF MarkFailed
<1>24. ASSUME NEW t \in Transfers, NEW allowed \in marks[t], MarkDropped(t, allowed) PROVE x \in Occupied' => x \in Occupied \/ Reserve(x)
  BY <1>24 DEF MarkDropped
<1>25. ASSUME NEW t \in Transfers, RemoveRoot(t) PROVE x \in Occupied' => x \in Occupied \/ Reserve(x)
  BY <1>25 DEF RemoveRoot
<1>26. ASSUME NEW t \in Transfers, ExpireOnLoad(t) PROVE x \in Occupied' => x \in Occupied \/ Reserve(x)
  BY <1>26 DEF ExpireOnLoad
<1>27. ASSUME NEW t \in Transfers, Cancel(t) PROVE x \in Occupied' => x \in Occupied \/ Reserve(x)
  BY <1>27 DEF Cancel
<1>28. ASSUME NEW t \in Transfers, Damage(t) PROVE x \in Occupied' => x \in Occupied \/ Reserve(x)
  BY <1>28 DEF Damage
<1>29. ASSUME NEW t \in Transfers, NEW last \in BOOLEAN, DownloadChunk(t, last) PROVE x \in Occupied' => x \in Occupied \/ Reserve(x)
  BY <1>29 DEF DownloadChunk
<1>30. ASSUME NEW t \in Transfers, NEW chunk \in Chunks, ChunkStart(t, chunk) PROVE x \in Occupied' => x \in Occupied \/ Reserve(x)
  BY <1>30 DEF ChunkStart
<1>31. ASSUME NEW t \in Transfers, NEW chunk \in Chunks, NEW offset \in 0..Bytes[t], DuplicateMismatch(t, offset, chunk) PROVE x \in Occupied' => x \in Occupied \/ Reserve(x)
  BY <1>31 DEF DuplicateMismatch
<1>32. ASSUME NEW t \in Transfers, CommitMismatch(t) PROVE x \in Occupied' => x \in Occupied \/ Reserve(x)
  BY <1>32 DEF CommitMismatch
<1>33. ASSUME NEW t \in Transfers, CommitStart(t) PROVE x \in Occupied' => x \in Occupied \/ Reserve(x)
  BY <1>33 DEF CommitStart
<1>34. ASSUME NEW t \in Transfers, MutateFails(t) PROVE x \in Occupied' => x \in Occupied \/ Reserve(x)
  BY <1>34 DEF MutateFails
<1>35. ASSUME NEW t \in Transfers, CallDies(t) PROVE x \in Occupied' => x \in Occupied \/ Reserve(x)
  BY <1>35 DEF CallDies
<1>36. ASSUME NEW t \in Transfers, MutateCrash(t) PROVE x \in Occupied' => x \in Occupied \/ Reserve(x)
  BY <1>36 DEF MutateCrash
<1>37. ASSUME NEW c \in Contents, Edit(c) PROVE x \in Occupied' => x \in Occupied \/ Reserve(x)
  BY <1>37 DEF Edit
<1>38. CASE UNCHANGED vars
  BY <1>38 DEF vars
<1> HIDE DEF admission, upload, target, bounds, TypeOK, PoolOK, CallOK, Active, Occupied, Exists,
            Refuse, Remove, Staged, Counts, StillPreparing, ServedState
<1> QED
  BY <1>1, <1>2, <1>3, <1>4, <1>5, <1>6, <1>7, <1>8, <1>9, <1>10, <1>11, <1>12, <1>13, <1>14,
     <1>15, <1>16, <1>17, <1>18, <1>19, <1>20, <1>21, <1>22, <1>23, <1>24, <1>25, <1>26,
     <1>27, <1>28, <1>29, <1>30, <1>31, <1>32, <1>33, <1>34, <1>35, <1>36, <1>37, <1>38,
     Zenon DEF Next, NextFor, BeginStep, CallStep

\* A reservation is made with every active transfer counted.
LEMMA ReserveAdmits ==
  ASSUME TypeOK, \A x \in Transfers : Staged(x), NEW t \in Transfers, Reserve(t)
  PROVE  OpenWithinLimit'
PROOF
<1>1. Cardinality(counted) < MaxOpen /\ counted \subseteq Transfers
  BY DEF Reserve, TypeOK, PoolOK
<1>2. IsFiniteSet(counted) /\ Cardinality(counted) \in Nat
  BY <1>1, TransferAssumption, FS_Subset, FS_CardinalityType
<1>3. IsFiniteSet(counted \cup {t}) /\ Cardinality(counted \cup {t}) <= MaxOpen
  BY <1>1, <1>2, FS_AddElement, LimitAssumption
<1>4. ASSUME NEW u \in Transfers, u \in Occupied', u # t PROVE u \in counted
  <2>1. state[u] \in Active /\ u \notin skipped
    BY <1>4 DEF Reserve, Occupied, TypeOK, PoolOK
  <2>2. u \in looked
    BY <1>4, <2>1 DEF Reserve, Scanned, Exists, Active
  <2> QED
    BY <2>1, <2>2 DEF Staged
<1>5. Occupied' \subseteq counted \cup {t}
  BY <1>4 DEF Occupied
<1>6. Cardinality(Occupied') <= Cardinality(counted \cup {t})
  BY <1>3, <1>5, FS_Subset
<1>7. Cardinality(Occupied') \in Nat /\ Cardinality(counted \cup {t}) \in Nat
  BY <1>3, <1>5, FS_Subset, FS_CardinalityType
<1>8. Cardinality(Occupied') <= MaxOpen
  BY <1>3, <1>6, <1>7, LimitAssumption
<1> QED
  BY <1>8 DEF OpenWithinLimit, Occupied

\* Every other step leaves the pool as full as it was, or less.
LEMMA LimitKept ==
  ASSUME TypeOK, \A x \in Transfers : Staged(x), OpenWithinLimit, [Next]_vars
  PROVE  OpenWithinLimit'
PROOF
<1>1. CASE \E t \in Transfers : Reserve(t)
  BY <1>1, ReserveAdmits
<1>2. CASE ~ \E t \in Transfers : Reserve(t)
  <2>1. Occupied' \subseteq Occupied
    BY <1>2, OnlyReserveAdmits DEF Occupied
  <2>2. IsFiniteSet(Occupied)
    BY TransferAssumption, FS_Subset DEF Occupied
  <2>3. Cardinality(Occupied') <= Cardinality(Occupied)
    BY <2>1, <2>2, FS_Subset
  <2>4. Cardinality(Occupied') \in Nat /\ Cardinality(Occupied) \in Nat
    BY <2>1, <2>2, FS_Subset, FS_CardinalityType
  <2>5. Cardinality(Occupied) <= MaxOpen
    BY DEF OpenWithinLimit, Occupied
  <2>6. Cardinality(Occupied') <= MaxOpen
    BY <2>3, <2>4, <2>5, LimitAssumption
  <2> QED
    BY <2>6 DEF OpenWithinLimit, Occupied
<1> QED
  BY <1>1, <1>2

-----------------------------------------------------------------------------
(* Finality                                                                *)

\* No step leaves a terminal state but retention and a mark on a completed download.
LEMMA EndedKept ==
  ASSUME TypeOK, NEW x \in Transfers, Staged(x), state[x] \in Finished, [Next]_vars
  PROVE  state'[x] \in {state[x], "gone"} \cup (IF state[x] = "completed" THEN {"failed"} ELSE {})
PROOF
<1> USE DEF admission, upload, target, bounds, TypeOK, PoolOK, CallOK, Active, Finished, Exists, Free,
            Refuse, Remove, Staged, Callable, Cancellable, Uploading, Counts, MayFail, StillPreparing,
            ServedState
<1>1. ASSUME NEW t \in Transfers, BeginLock(t) PROVE state'[x] \in {state[x], "gone"} \cup (IF state[x] = "completed" THEN {"failed"} ELSE {})
  BY <1>1 DEF BeginLock
<1>2. ASSUME NEW t \in Transfers, Reserve(t) PROVE state'[x] \in {state[x], "gone"} \cup (IF state[x] = "completed" THEN {"failed"} ELSE {})
  BY <1>2 DEF Reserve
<1>3. ASSUME NEW t \in Transfers, AdmitRefuse(t) PROVE state'[x] \in {state[x], "gone"} \cup (IF state[x] = "completed" THEN {"failed"} ELSE {})
  BY <1>3 DEF AdmitRefuse
<1>4. ASSUME NEW t \in Transfers, ReserveFails(t) PROVE state'[x] \in {state[x], "gone"} \cup (IF state[x] = "completed" THEN {"failed"} ELSE {})
  BY <1>4 DEF ReserveFails
<1>5. ASSUME NEW t \in Transfers, NEW u \in Transfers \ {t}, AdmitLook(t, u) PROVE state'[x] \in {state[x], "gone"} \cup (IF state[x] = "completed" THEN {"failed"} ELSE {})
  BY <1>5 DEF AdmitLook
<1>6. ASSUME NEW t \in Transfers, NEW u \in Transfers \ {t}, AdmitSkip(t, u) PROVE state'[x] \in {state[x], "gone"} \cup (IF state[x] = "completed" THEN {"failed"} ELSE {})
  BY <1>6 DEF AdmitSkip
<1>7. ASSUME NEW t \in Transfers, NEW u \in Transfers \ {t}, AdmitTimeout(t, u) PROVE state'[x] \in {state[x], "gone"} \cup (IF state[x] = "completed" THEN {"failed"} ELSE {})
  BY <1>7 DEF AdmitTimeout
<1>8. ASSUME NEW t \in Transfers, Copy(t) PROVE state'[x] \in {state[x], "gone"} \cup (IF state[x] = "completed" THEN {"failed"} ELSE {})
  BY <1>8 DEF Copy
<1>9. ASSUME NEW t \in Transfers, CopyFails(t) PROVE state'[x] \in {state[x], "gone"} \cup (IF state[x] = "completed" THEN {"failed"} ELSE {})
  BY <1>9 DEF CopyFails
<1>10. ASSUME NEW t \in Transfers, Publish(t) PROVE state'[x] \in {state[x], "gone"} \cup (IF state[x] = "completed" THEN {"failed"} ELSE {})
  BY <1>10 DEF Publish
<1>11. ASSUME NEW t \in Transfers, BeginLogged(t) PROVE state'[x] \in {state[x], "gone"} \cup (IF state[x] = "completed" THEN {"failed"} ELSE {})
  BY <1>11 DEF BeginLogged
<1>12. ASSUME NEW t \in Transfers, BeginLogFails(t) PROVE state'[x] \in {state[x], "gone"} \cup (IF state[x] = "completed" THEN {"failed"} ELSE {})
  BY <1>12 DEF BeginLogFails
<1>13. ASSUME NEW t \in Transfers, WritePayload(t) PROVE state'[x] \in {state[x], "gone"} \cup (IF state[x] = "completed" THEN {"failed"} ELSE {})
  BY <1>13 DEF WritePayload
<1>14. ASSUME NEW t \in Transfers, WriteReceipt(t) PROVE state'[x] \in {state[x], "gone"} \cup (IF state[x] = "completed" THEN {"failed"} ELSE {})
  BY <1>14 DEF WriteReceipt
<1>15. ASSUME NEW t \in Transfers, PublishChunk(t) PROVE state'[x] \in {state[x], "gone"} \cup (IF state[x] = "completed" THEN {"failed"} ELSE {})
  BY <1>15 DEF PublishChunk
<1>16. ASSUME NEW t \in Transfers, Mutate(t) PROVE state'[x] \in {state[x], "gone"} \cup (IF state[x] = "completed" THEN {"failed"} ELSE {})
  BY <1>16 DEF Mutate
<1>17. ASSUME NEW t \in Transfers, MutateRefused(t) PROVE state'[x] \in {state[x], "gone"} \cup (IF state[x] = "completed" THEN {"failed"} ELSE {})
  BY <1>17 DEF MutateRefused
<1>18. ASSUME NEW t \in Transfers, CommitPublish(t) PROVE state'[x] \in {state[x], "gone"} \cup (IF state[x] = "completed" THEN {"failed"} ELSE {})
  BY <1>18 DEF CommitPublish
<1>19. ASSUME NEW t \in Transfers, CallLosesRoot(t) PROVE state'[x] \in {state[x], "gone"} \cup (IF state[x] = "completed" THEN {"failed"} ELSE {})
  BY <1>19 DEF CallLosesRoot
<1>20. ASSUME NEW t \in Transfers, BeginCrash(t) PROVE state'[x] \in {state[x], "gone"} \cup (IF state[x] = "completed" THEN {"failed"} ELSE {})
  BY <1>20 DEF BeginCrash
<1>21. ASSUME NEW t \in Transfers, Tick(t) PROVE state'[x] \in {state[x], "gone"} \cup (IF state[x] = "completed" THEN {"failed"} ELSE {})
  BY <1>21 DEF Tick
<1>22. ASSUME NEW t \in Transfers, Prune(t) PROVE state'[x] \in {state[x], "gone"} \cup (IF state[x] = "completed" THEN {"failed"} ELSE {})
  BY <1>22 DEF Prune
<1>23. ASSUME NEW t \in Transfers, NEW allowed \in marks[t], MarkFailed(t, allowed) PROVE state'[x] \in {state[x], "gone"} \cup (IF state[x] = "completed" THEN {"failed"} ELSE {})
  BY <1>23 DEF MarkFailed
<1>24. ASSUME NEW t \in Transfers, NEW allowed \in marks[t], MarkDropped(t, allowed) PROVE state'[x] \in {state[x], "gone"} \cup (IF state[x] = "completed" THEN {"failed"} ELSE {})
  BY <1>24 DEF MarkDropped
<1>25. ASSUME NEW t \in Transfers, RemoveRoot(t) PROVE state'[x] \in {state[x], "gone"} \cup (IF state[x] = "completed" THEN {"failed"} ELSE {})
  BY <1>25 DEF RemoveRoot
<1>26. ASSUME NEW t \in Transfers, ExpireOnLoad(t) PROVE state'[x] \in {state[x], "gone"} \cup (IF state[x] = "completed" THEN {"failed"} ELSE {})
  BY <1>26 DEF ExpireOnLoad
<1>27. ASSUME NEW t \in Transfers, Cancel(t) PROVE state'[x] \in {state[x], "gone"} \cup (IF state[x] = "completed" THEN {"failed"} ELSE {})
  BY <1>27 DEF Cancel
<1>28. ASSUME NEW t \in Transfers, Damage(t) PROVE state'[x] \in {state[x], "gone"} \cup (IF state[x] = "completed" THEN {"failed"} ELSE {})
  BY <1>28 DEF Damage
<1>29. ASSUME NEW t \in Transfers, NEW last \in BOOLEAN, DownloadChunk(t, last) PROVE state'[x] \in {state[x], "gone"} \cup (IF state[x] = "completed" THEN {"failed"} ELSE {})
  BY <1>29 DEF DownloadChunk
<1>30. ASSUME NEW t \in Transfers, NEW chunk \in Chunks, ChunkStart(t, chunk) PROVE state'[x] \in {state[x], "gone"} \cup (IF state[x] = "completed" THEN {"failed"} ELSE {})
  BY <1>30 DEF ChunkStart
<1>31. ASSUME NEW t \in Transfers, NEW chunk \in Chunks, NEW offset \in 0..Bytes[t], DuplicateMismatch(t, offset, chunk) PROVE state'[x] \in {state[x], "gone"} \cup (IF state[x] = "completed" THEN {"failed"} ELSE {})
  BY <1>31 DEF DuplicateMismatch
<1>32. ASSUME NEW t \in Transfers, CommitMismatch(t) PROVE state'[x] \in {state[x], "gone"} \cup (IF state[x] = "completed" THEN {"failed"} ELSE {})
  BY <1>32 DEF CommitMismatch
<1>33. ASSUME NEW t \in Transfers, CommitStart(t) PROVE state'[x] \in {state[x], "gone"} \cup (IF state[x] = "completed" THEN {"failed"} ELSE {})
  BY <1>33 DEF CommitStart
<1>34. ASSUME NEW t \in Transfers, MutateFails(t) PROVE state'[x] \in {state[x], "gone"} \cup (IF state[x] = "completed" THEN {"failed"} ELSE {})
  BY <1>34 DEF MutateFails
<1>35. ASSUME NEW t \in Transfers, CallDies(t) PROVE state'[x] \in {state[x], "gone"} \cup (IF state[x] = "completed" THEN {"failed"} ELSE {})
  BY <1>35 DEF CallDies
<1>36. ASSUME NEW t \in Transfers, MutateCrash(t) PROVE state'[x] \in {state[x], "gone"} \cup (IF state[x] = "completed" THEN {"failed"} ELSE {})
  BY <1>36 DEF MutateCrash
<1>37. ASSUME NEW c \in Contents, Edit(c) PROVE state'[x] \in {state[x], "gone"} \cup (IF state[x] = "completed" THEN {"failed"} ELSE {})
  BY <1>37 DEF Edit
<1>38. CASE UNCHANGED vars
  BY <1>38 DEF vars
<1> HIDE DEF admission, upload, target, bounds, TypeOK, PoolOK, CallOK, Active, Finished, Exists, Free,
            Refuse, Remove, Staged, Callable, Cancellable, Uploading, Counts, MayFail, StillPreparing,
            ServedState
<1> QED
  BY <1>1, <1>2, <1>3, <1>4, <1>5, <1>6, <1>7, <1>8, <1>9, <1>10, <1>11, <1>12, <1>13, <1>14,
     <1>15, <1>16, <1>17, <1>18, <1>19, <1>20, <1>21, <1>22, <1>23, <1>24, <1>25, <1>26,
     <1>27, <1>28, <1>29, <1>30, <1>31, <1>32, <1>33, <1>34, <1>35, <1>36, <1>37, <1>38,
     Zenon DEF Next, NextFor, BeginStep, CallStep

-----------------------------------------------------------------------------
(* Theorems                                                                *)

\* The invariant holds in every reachable state.
LEMMA InvCorrect == Spec => [](TypeOK /\ TransferInv /\ OpenWithinLimit)
PROOF
<1>1. (TypeOK /\ TransferInv /\ OpenWithinLimit) /\ [Next]_vars
      => (TypeOK /\ TransferInv /\ OpenWithinLimit)'
  <2> SUFFICES ASSUME TypeOK, TransferInv, OpenWithinLimit, [Next]_vars
               PROVE  (TypeOK /\ TransferInv /\ OpenWithinLimit)'
    OBVIOUS
  <2>1. TypeOK'
    BY StepBoundsOK, StepPoolOK, StepCallOK, StepTargetOK, StepUploadOK DEF TypeOK
  <2>2. \A x \in Transfers : Staged(x) /\ Writing(x) /\ Written(x)
    BY DEF TransferInv
  <2>3. ASSUME NEW x \in Transfers PROVE Staged(x)' /\ Writing(x)' /\ Written(x)'
    BY <2>1, <2>2, StagedKept, WritingKept, WrittenKept
  <2>4. TransferInv'
    BY <2>3 DEF TransferInv
  <2>5. OpenWithinLimit'
    BY <2>2, LimitKept
  <2> QED
    BY <2>1, <2>4, <2>5
<1> QED
  BY InitInv, <1>1, PTL DEF Spec

\* Every reachable state of the transfers is well typed.
THEOREM TypeCorrect == Spec => []TypeOK
  BY InvCorrect, PTL

\* _admit_transfer: the pool is never overfull, whatever the begin calls, the clock, retention
\* and crashes do.
THEOREM PoolLimitKept == Spec => []OpenWithinLimit
  BY InvCorrect, PTL

\* artifact_upload_commit: the target and the manifest agree unless a commit was cut short.
THEOREM CommitsAgree == Spec => []AppliedIsCommitted
PROOF
<1>1. TransferInv => AppliedIsCommitted
  BY DEF TransferInv, Written, AppliedIsCommitted
<1> QED
  BY InvCorrect, <1>1, PTL

\* _load_transfer, _mark_transfer_failed and the other writers of a manifest: what ended
\* stays ended.
THEOREM EndedTransfersStay == Spec => EndedStaysEnded
PROOF
<1>1. TypeOK /\ TransferInv /\ OpenWithinLimit /\ [Next]_vars
      => [\A t \in Transfers : state[t] \in Finished =>
            state'[t] \in {state[t], "gone"} \cup
                          (IF state[t] = "completed" THEN {"failed"} ELSE {})]_vars
  <2> SUFFICES ASSUME TypeOK, TransferInv, [Next]_vars,
                      NEW t \in Transfers, state[t] \in Finished
               PROVE  state'[t] \in {state[t], "gone"} \cup
                                    (IF state[t] = "completed" THEN {"failed"} ELSE {})
    OBVIOUS
  <2>1. Staged(t)
    BY DEF TransferInv
  <2> QED
    BY <2>1, EndedKept
<1> QED
  BY InvCorrect, <1>1, PTL DEF Spec, EndedStaysEnded

-----------------------------------------------------------------------------
(* A begin call whose client never got the id                              *)

\* Until its failure mark is through, a begin call that lost its client has one that covers the
\* state its manifest is in.
Covered(x) ==
  /\ begin[x] \in {"idle", "admit"} => state[x] = "none"
  /\ begin[x] = "log" => state[x] # "preparing"
  /\ begin[x] = "lost" /\ x \notin orphans /\ state[x] \in Active =>
       \E allowed \in marks[x] : state[x] \in allowed

\* A begin call that gives up leaves a mark that covers what it may have left.
LEMMA AbandonCovers ==
  ASSUME PoolOK, NEW t \in Transfers, NEW x \in Transfers, NEW S,
         marks' = [marks EXCEPT ![t] = @ \cup {S}]
  PROVE  marks[x] \subseteq marks'[x] /\ (x = t => S \in marks'[x])
  BY DEF PoolOK

\* No step takes the last mark of a lost begin call and leaves its manifest active.
LEMMA CoveredKept ==
  ASSUME TypeOK, [Next]_vars, NEW x \in Transfers, Staged(x), Covered(x)
  PROVE  Covered(x)'
PROOF
<1> USE TransferAssumption DEF admission, upload, target, bounds, CrashNow, FaultNow, TypeOK, PoolOK, CallOK,
            Active, Exists, Free, Refuse, ReleasePool, Abandon, Remove, Return, NoCall, GoTo
<1> USE DEF Staged, Covered, Callable, Cancellable, Uploading, StillPreparing, MayFail, Scanned, Counts,
            Integrity, ServedState, Unlogged, Finished
<1>1. ASSUME NEW t \in Transfers, BeginLock(t) PROVE Covered(x)'
  BY <1>1 DEF BeginLock
<1>2. ASSUME NEW t \in Transfers, Reserve(t) PROVE Covered(x)'
  BY <1>2 DEF Reserve
<1>3. ASSUME NEW t \in Transfers, AdmitRefuse(t) PROVE Covered(x)'
  BY <1>3 DEF AdmitRefuse
<1>4. ASSUME NEW t \in Transfers, ReserveFails(t) PROVE Covered(x)'
  BY <1>4 DEF ReserveFails
<1>5. ASSUME NEW t \in Transfers, NEW u \in Transfers \ {t}, AdmitLook(t, u) PROVE Covered(x)'
  BY <1>5 DEF AdmitLook
<1>6. ASSUME NEW t \in Transfers, NEW u \in Transfers \ {t}, AdmitSkip(t, u) PROVE Covered(x)'
  BY <1>6 DEF AdmitSkip
<1>7. ASSUME NEW t \in Transfers, NEW u \in Transfers \ {t}, AdmitTimeout(t, u) PROVE Covered(x)'
  BY <1>7 DEF AdmitTimeout
<1>8. ASSUME NEW t \in Transfers, Copy(t) PROVE Covered(x)'
  BY <1>8 DEF Copy
<1>9. ASSUME NEW t \in Transfers, CopyFails(t) PROVE Covered(x)'
  <2>1. marks[x] \subseteq marks'[x] /\ (x = t => Active \in marks'[x])
    BY <1>9, AbandonCovers DEF CopyFails
  <2>2. state' = state /\ orphans' = orphans /\ begin' = [begin EXCEPT ![t] = "lost"]
    BY <1>9 DEF CopyFails
  <2> QED
    BY <2>1, <2>2
<1>10. ASSUME NEW t \in Transfers, Publish(t) PROVE Covered(x)'
  <2>1. CASE Exists(t) /\ StillPreparing(t)
    BY <1>10, <2>1 DEF Publish
  <2>2. CASE ~(Exists(t) /\ StillPreparing(t))
    <3>1. marks[x] \subseteq marks'[x] /\ (x = t => Active \in marks'[x])
      BY <1>10, <2>2, AbandonCovers DEF Publish
    <3>2. state' = state /\ orphans' = orphans /\ begin' = [begin EXCEPT ![t] = "lost"]
      BY <1>10, <2>2 DEF Publish
    <3> QED
      BY <3>1, <3>2
  <2> QED
    BY <2>1, <2>2
<1>11. ASSUME NEW t \in Transfers, BeginLogged(t) PROVE Covered(x)'
  BY <1>11 DEF BeginLogged
<1>12. ASSUME NEW t \in Transfers, BeginLogFails(t) PROVE Covered(x)'
  <2>1. marks[x] \subseteq marks'[x] /\ (x = t => Unlogged(t) \in marks'[x])
    <3>1. marks' = [marks EXCEPT ![t] = @ \cup {Unlogged(t)}]
      BY <1>12 DEF BeginLogFails
    <3> QED
      BY <3>1, AbandonCovers
  <2>2. state' = state /\ orphans' = orphans /\ begin' = [begin EXCEPT ![t] = "lost"] /\ begin[t] = "log"
    BY <1>12 DEF BeginLogFails
  <2>3. "open" \in Unlogged(t)
    OBVIOUS
  <2> QED
    BY <2>1, <2>2, <2>3
<1>13. ASSUME NEW t \in Transfers, WritePayload(t) PROVE Covered(x)'
  BY <1>13 DEF WritePayload
<1>14. ASSUME NEW t \in Transfers, WriteReceipt(t) PROVE Covered(x)'
  BY <1>14 DEF WriteReceipt
<1>15. ASSUME NEW t \in Transfers, PublishChunk(t) PROVE Covered(x)'
  BY <1>15 DEF PublishChunk
<1>16. ASSUME NEW t \in Transfers, Mutate(t) PROVE Covered(x)'
  BY <1>16 DEF Mutate
<1>17. ASSUME NEW t \in Transfers, MutateRefused(t) PROVE Covered(x)'
  BY <1>17 DEF MutateRefused
<1>18. ASSUME NEW t \in Transfers, CommitPublish(t) PROVE Covered(x)'
  BY <1>18 DEF CommitPublish
<1>19. ASSUME NEW t \in Transfers, CallLosesRoot(t) PROVE Covered(x)'
  BY <1>19 DEF CallLosesRoot
<1>20. ASSUME NEW t \in Transfers, BeginCrash(t) PROVE Covered(x)'
  BY <1>20 DEF BeginCrash
<1>21. ASSUME NEW t \in Transfers, Tick(t) PROVE Covered(x)'
  BY <1>21 DEF Tick
<1>22. ASSUME NEW t \in Transfers, Prune(t) PROVE Covered(x)'
  BY <1>22 DEF Prune
<1>23. ASSUME NEW t \in Transfers, NEW allowed \in marks[t], MarkFailed(t, allowed) PROVE Covered(x)'
  BY <1>23 DEF MarkFailed
<1>24. ASSUME NEW t \in Transfers, NEW allowed \in marks[t], MarkDropped(t, allowed) PROVE Covered(x)'
  BY <1>24 DEF MarkDropped
<1>25. ASSUME NEW t \in Transfers, RemoveRoot(t) PROVE Covered(x)'
  BY <1>25 DEF RemoveRoot
<1>26. ASSUME NEW t \in Transfers, ExpireOnLoad(t) PROVE Covered(x)'
  BY <1>26 DEF ExpireOnLoad
<1>27. ASSUME NEW t \in Transfers, Cancel(t) PROVE Covered(x)'
  BY <1>27 DEF Cancel
<1>28. ASSUME NEW t \in Transfers, Damage(t) PROVE Covered(x)'
  BY <1>28 DEF Damage
<1>29. ASSUME NEW t \in Transfers, NEW last \in BOOLEAN, DownloadChunk(t, last) PROVE Covered(x)'
  BY <1>29 DEF DownloadChunk
<1>30. ASSUME NEW t \in Transfers, NEW chunk \in Chunks, ChunkStart(t, chunk) PROVE Covered(x)'
  BY <1>30 DEF ChunkStart
<1>31. ASSUME NEW t \in Transfers, NEW chunk \in Chunks, NEW offset \in 0..Bytes[t], DuplicateMismatch(t, offset, chunk) PROVE Covered(x)'
  BY <1>31 DEF DuplicateMismatch
<1>32. ASSUME NEW t \in Transfers, CommitMismatch(t) PROVE Covered(x)'
  BY <1>32 DEF CommitMismatch
<1>33. ASSUME NEW t \in Transfers, CommitStart(t) PROVE Covered(x)'
  BY <1>33 DEF CommitStart
<1>34. ASSUME NEW t \in Transfers, MutateFails(t) PROVE Covered(x)'
  BY <1>34 DEF MutateFails
<1>35. ASSUME NEW t \in Transfers, CallDies(t) PROVE Covered(x)'
  <2>1. marks[x] \subseteq marks'[x]
    <3>1. CASE UNCHANGED marks
      BY <3>1
    <3>2. CASE marks' = [marks EXCEPT ![t] = @ \cup {Active \cup {"completed"}}]
      BY <3>2, AbandonCovers
    <3> QED
      BY <1>35, <3>1, <3>2 DEF CallDies
  <2>2. UNCHANGED <<state, orphans, begin>>
    BY <1>35 DEF CallDies
  <2> QED
    BY <2>1, <2>2
<1>36. ASSUME NEW t \in Transfers, MutateCrash(t) PROVE Covered(x)'
  BY <1>36 DEF MutateCrash
<1>37. ASSUME NEW c \in Contents, Edit(c) PROVE Covered(x)'
  BY <1>37 DEF Edit
<1>38. CASE UNCHANGED vars
  BY <1>38 DEF vars
<1> HIDE DEF TypeOK, PoolOK, CallOK, Active, Exists, Free, Refuse, ReleasePool, Abandon, Remove, Staged, Covered
<1> QED
  BY <1>1, <1>2, <1>3, <1>4, <1>5, <1>6, <1>7, <1>8, <1>9, <1>10, <1>11, <1>12, <1>13, <1>14,
     <1>15, <1>16, <1>17, <1>18, <1>19, <1>20, <1>21, <1>22, <1>23, <1>24, <1>25, <1>26,
     <1>27, <1>28, <1>29, <1>30, <1>31, <1>32, <1>33, <1>34, <1>35, <1>36, <1>37, <1>38,
     Zenon DEF Next, NextFor, BeginStep, CallStep

\* For every limit and every number of begin calls, crashes and faults: a begin call that lost its
\* client holds no place in the pool once its failure mark is through.
THEOREM LostBeginFreesSlot == Spec => []LostBeginHoldsNoSlot
PROOF
<1> DEFINE Inv == \A x \in Transfers : Covered(x)
<1>1. Init => Inv
  BY DEF Init, Covered
<1>2. TypeOK /\ TransferInv /\ Inv /\ [Next]_vars => Inv'
  BY CoveredKept DEF TransferInv
<1>3. Inv => LostBeginHoldsNoSlot
  BY DEF Covered, LostBeginHoldsNoSlot
<1> HIDE DEF Inv
<1> QED
  BY <1>1, <1>2, <1>3, InvCorrect, PTL DEF Spec

=============================================================================
