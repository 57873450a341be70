--------------------------- MODULE BinaryTransfer ---------------------------
(***************************************************************************)
(* Chunked downloads and uploads (server.py, transfer_receipts.py).        *)
(*                                                                         *)
(* A transfer is a directory: manifest.json, replaced atomically;          *)
(* payload.bin; chunks.bin, the receipts of an upload.  Every call on a    *)
(* transfer holds its control-plane lock "transfer-<id>"; begin holds the  *)
(* pool lock "binary-transfer" while it counts the active transfers and    *)
(* reserves its own.  A call whose critical section makes several durable  *)
(* writes is one step per write, since the process can die between them;   *)
(* every other critical section is one step.  Three things work without    *)
(* the lock: the snapshot copy of a download, retention, and the clock.    *)
(***************************************************************************)
EXTENDS Naturals, Sequences, FiniteSets

CONSTANTS
  Transfers,  \* transfer ids, each used by one begin call
  Direction,  \* "download" or "upload", for each
  Bytes,      \* the size of the snapshot, or the declared size of the upload
  Declared,   \* the content whose SHA-256 an upload declares
  Values,     \* the bytes
  Hole,       \* a byte never written
  Chunks,     \* the chunks clients send
  Contents,   \* what other programs write to the target file
  Nobody,     \* no holder of the pool lock
  MaxOpen,    \* max_open_transfers
  Mixes,      \* bound: the sets of transfers begun in one behaviour
  Edited,     \* bound: the transfers whose target other programs write to
  MaxEdits, MaxCrashes, MaxFaults

ASSUME TransferAssumption ==
  /\ IsFiniteSet(Transfers) /\ Nobody \notin Transfers
  /\ Direction \in [Transfers -> {"download", "upload"}]
  /\ Bytes \in [Transfers -> Nat]
ASSUME ContentAssumption ==
  /\ Hole \notin Values
  /\ Chunks \subseteq Seq(Values) \ {<<>>} /\ Contents \subseteq Seq(Values)
  /\ Declared \in [Transfers -> Seq(Values)]
  /\ \A t \in Transfers : Len(Declared[t]) = Bytes[t]
ASSUME LimitAssumption == MaxOpen \in Nat \ {0}
ASSUME MixesAssumption == Mixes \subseteq SUBSET Transfers /\ Edited \subseteq Transfers
ASSUME BoundAssumption == MaxEdits \in Nat /\ MaxCrashes \in Nat /\ MaxFaults \in Nat

VARIABLES
  pool,     \* the begin call that holds the "binary-transfer" lock
  begin,    \* where the begin call of each transfer is
  looked,   \* the manifests its admission scan has read
  counted,  \* those it counted as active
  skipped,  \* history: active manifests some scan could not read
  state,    \* manifest state, "none" before and "gone" after the directory
  live,     \* expires_at is in the future
  intact,   \* the payload has the identity the manifest binds
  received, rcount, \* the same fields of an upload's manifest
  payload,  \* payload.bin of an upload
  receipts, \* chunks.bin: the records written so far
  acked,    \* history: the chunks that were acknowledged
  call,     \* the call that holds the transfer's lock
  marks,    \* calls of _mark_transfer_failed under way: the states each may replace
  orphans,  \* history: begin calls whose process or whose mark was lost
  expected, \* the target content the upload client named
  file,     \* the target file
  ready,    \* no workspace transaction requires recovery
  applied,  \* history: how often the upload was written to the target
  torn,     \* history: commits that stopped between that write and the manifest
  edits, crashes, faults

admission == <<pool, begin, looked, counted, skipped>>
upload == <<received, rcount, payload, receipts, acked>>
target == <<expected, file, ready, applied, torn>>
bounds == <<edits, crashes, faults>>
vars == <<pool, begin, looked, counted, skipped, state, live, intact, received, rcount,
          payload, receipts, acked, call, marks, orphans, expected, file, ready, applied,
          torn, edits, crashes, faults>>

Active == {"preparing", "open"}
Finished == {"completed", "committed", "cancelled", "expired", "failed"}
States == {"none", "gone"} \cup Active \cup Finished
BeginSteps == {"idle", "admit", "copy", "publish", "log", "done", "lost"}
CallSteps == {"free", "payload", "receipt", "manifest", "mutate", "commit"}
NoCall == [step |-> "free", offset |-> 0, chunk |-> <<>>]
Receipts == [offset : Nat, chunk : Chunks]
Blank(t) == [i \in 1..Bytes[t] |-> Hole]
Exists(t) == state[t] \notin {"none", "gone"}
Free(t) == call[t].step = "free"

PoolOK ==
  /\ pool \in Transfers \cup {Nobody}
  /\ begin \in [Transfers -> BeginSteps]
  /\ looked \subseteq Transfers /\ counted \subseteq looked
  /\ skipped \subseteq Transfers /\ orphans \subseteq Transfers
  /\ state \in [Transfers -> States]
  /\ live \in [Transfers -> BOOLEAN] /\ intact \in [Transfers -> BOOLEAN]
  /\ marks \in [Transfers -> SUBSET SUBSET States]

CallOK ==
  call \in [Transfers -> [step : CallSteps, offset : Nat, chunk : Chunks \cup {<<>>}]]

UploadOK ==
  /\ received \in [Transfers -> Nat] /\ rcount \in [Transfers -> Nat]
  /\ DOMAIN payload = Transfers
  /\ \A t \in Transfers : payload[t] \in [1..Bytes[t] -> Values \cup {Hole}]
  /\ receipts \in [Transfers -> Seq(Receipts)]
  /\ acked \in [Transfers -> SUBSET Receipts]

TargetOK ==
  /\ expected \in [Transfers -> Seq(Values)] /\ file \in Seq(Values)
  /\ ready \in BOOLEAN
  /\ applied \in [Transfers -> Nat] /\ torn \subseteq Transfers

BoundsOK ==
  edits \in 0..MaxEdits /\ crashes \in 0..MaxCrashes /\ faults \in 0..MaxFaults

TypeOK == PoolOK /\ CallOK /\ UploadOK /\ TargetOK /\ BoundsOK

Init ==
  /\ pool = Nobody /\ begin = [t \in Transfers |-> "idle"]
  /\ looked = {} /\ counted = {} /\ skipped = {}
  /\ state = [t \in Transfers |-> "none"]
  /\ live = [t \in Transfers |-> TRUE] /\ intact = [t \in Transfers |-> TRUE]
  /\ received = [t \in Transfers |-> 0] /\ rcount = [t \in Transfers |-> 0]
  /\ payload = [t \in Transfers |-> Blank(t)]
  /\ receipts = [t \in Transfers |-> <<>>] /\ acked = [t \in Transfers |-> {}]
  /\ call = [t \in Transfers |-> NoCall]
  /\ marks = [t \in Transfers |-> {}] /\ orphans = {}
  /\ expected = [t \in Transfers |-> <<>>] /\ file = <<>> /\ ready = TRUE
  /\ applied = [t \in Transfers |-> 0] /\ torn = {}
  /\ edits = 0 /\ crashes = 0 /\ faults = 0

CrashNow == crashes < MaxCrashes /\ crashes' = crashes + 1 /\ UNCHANGED <<edits, faults>>
FaultNow == faults < MaxFaults /\ faults' = faults + 1 /\ UNCHANGED <<edits, crashes>>

-----------------------------------------------------------------------------
(* Admission: the begin calls and the pool they share                      *)

\* begin takes the pool lock; an upload client has named the content it replaces.
BeginLock(t) ==
  /\ begin[t] = "idle" /\ pool = Nobody
  /\ \E mix \in Mixes : {t} \cup {u \in Transfers : begin[u] # "idle"} \subseteq mix
  /\ pool' = t /\ begin' = [begin EXCEPT ![t] = "admit"]
  /\ expected' = [expected EXCEPT ![t] = file]
  /\ UNCHANGED <<looked, counted, skipped, state, live, intact, upload, call, marks, orphans, file, ready,
                 applied, torn, bounds>>

\* Mutant: the scan counts the uploads only.
CountsUploads(u) == state[u] = "open" /\ Direction[u] = "upload"

\* _TRANSFER_ADMISSION_STATES: what takes a place in the pool.
Counts(u) == state[u] \in Active

\* The scan reads u's manifest under u's lock; a transfer past its time is expired.
AdmitLook(t, u) ==
  /\ pool = t /\ begin[t] = "admit"
  /\ Exists(u) /\ u \notin looked /\ Free(u)
  /\ looked' = looked \cup {u}
  /\ counted' = IF Counts(u) /\ live[u] THEN counted \cup {u} ELSE counted
  /\ state' = IF Counts(u) /\ ~live[u] THEN [state EXCEPT ![u] = "expired"] ELSE state
  /\ UNCHANGED <<pool, begin, skipped, live, intact, upload, call, marks, orphans, target,
                 bounds>>

\* A manifest that cannot be read counts for nothing.
AdmitSkip(t, u) ==
  /\ pool = t /\ begin[t] = "admit"
  /\ Exists(u) /\ u \notin looked /\ Free(u)
  /\ looked' = looked \cup {u} /\ skipped' = skipped \cup {u}
  /\ FaultNow
  /\ UNCHANGED <<pool, begin, counted, state, live, intact, upload, call, marks, orphans,
                 target>>

\* NamedControlPlaneLock.__exit__; the scan's findings end with it.
ReleasePool(t) == pool' = Nobody /\ looked' = {} /\ counted' = {}

\* begin raises inside the pool lock: u's lock times out, or the limit is reached.
Scanned(t) == \A u \in Transfers \ {t} : Exists(u) => u \in looked

Refuse(t) ==
  /\ ReleasePool(t) /\ begin' = [begin EXCEPT ![t] = "lost"]
  /\ UNCHANGED <<skipped, state, live, intact, upload, call, marks, orphans, target>>

AdmitTimeout(t, u) ==
  /\ pool = t /\ begin[t] = "admit" /\ Exists(u) /\ u \notin looked /\ ~Free(u)
  /\ Refuse(t) /\ UNCHANGED bounds

AdmitRefuse(t) ==
  /\ pool = t /\ begin[t] = "admit" /\ Scanned(t) /\ Cardinality(counted) >= MaxOpen
  /\ Refuse(t) /\ UNCHANGED bounds

\* The quota or a write fails; the new directory is removed before the lock is released.
ReserveFails(t) ==
  /\ pool = t /\ begin[t] = "admit" /\ Scanned(t) /\ Cardinality(counted) < MaxOpen
  /\ Refuse(t) /\ FaultNow

\* The directory, its sized payload and its first manifest.
Reserve(t) ==
  /\ pool = t /\ begin[t] = "admit" /\ Scanned(t) /\ Cardinality(counted) < MaxOpen
  /\ ReleasePool(t)
  /\ IF Direction[t] = "download"
     THEN /\ state' = [state EXCEPT ![t] = "preparing"]
          /\ begin' = [begin EXCEPT ![t] = "copy"] /\ UNCHANGED payload
     ELSE /\ state' = [state EXCEPT ![t] = "open"]
          /\ begin' = [begin EXCEPT ![t] = "log"]
          /\ payload' = [payload EXCEPT ![t] = Blank(t)]
  /\ UNCHANGED <<skipped, live, intact, received, rcount, receipts, acked, call, marks,
                 orphans, target, bounds>>

\* begin raises after the directory exists: _mark_transfer_failed follows.
Abandon(t, allowed) ==
  /\ begin' = [begin EXCEPT ![t] = "lost"]
  /\ marks' = [marks EXCEPT ![t] = @ \cup {allowed}]

\* The state the manifest must still have for the snapshot to be published.
StillPreparing(t) == state[t] = "preparing"

\* The snapshot is copied and checked, without a lock, against the unchanged source.
Copy(t) ==
  /\ begin[t] = "copy" /\ Exists(t) /\ begin' = [begin EXCEPT ![t] = "publish"]
  /\ UNCHANGED <<pool, looked, counted, skipped, state, live, intact, upload, call, marks,
                 orphans, target, bounds>>

\* The source changed, or the directory is gone.
CopyFails(t) ==
  /\ begin[t] = "copy" /\ Abandon(t, Active)
  /\ UNCHANGED <<pool, looked, counted, skipped, state, live, intact, upload, call, orphans,
                 target, bounds>>

Publish(t) ==
  /\ begin[t] = "publish" /\ Free(t)
  /\ IF Exists(t) /\ StillPreparing(t)
     THEN /\ state' = [state EXCEPT ![t] = IF Bytes[t] = 0 THEN "completed" ELSE "open"]
          /\ begin' = [begin EXCEPT ![t] = "log"] /\ UNCHANGED marks
     ELSE Abandon(t, Active) /\ UNCHANGED state
  /\ UNCHANGED <<pool, looked, counted, skipped, live, intact, upload, call, orphans, target,
                 bounds>>

\* The audit row of begin; the client has the transfer id.
BeginLogged(t) ==
  /\ begin[t] = "log" /\ begin' = [begin EXCEPT ![t] = "done"]
  /\ UNCHANGED <<pool, looked, counted, skipped, state, live, intact, upload, call, marks,
                 orphans, target, bounds>>

\* Mutant: the mark of an unlogged begin is that of an unfinished one.
UnloggedWrong(t) == {"preparing"}

\* The states an unlogged begin may still turn into "failed".
Unlogged(t) == IF Direction[t] = "download" THEN {"open", "completed"} ELSE {"open"}

\* The audit row could not be written: the client will never learn the id.
BeginLogFails(t) ==
  /\ begin[t] = "log" /\ Abandon(t, Unlogged(t)) /\ FaultNow
  /\ UNCHANGED <<pool, looked, counted, skipped, state, live, intact, upload, call, orphans,
                 target>>

BeginCrash(t) ==
  /\ begin[t] \in {"admit", "copy", "publish", "log"}
  /\ begin' = [begin EXCEPT ![t] = "lost"] /\ orphans' = orphans \cup {t}
  /\ IF pool = t THEN ReleasePool(t) ELSE UNCHANGED <<pool, looked, counted>>
  /\ CrashNow
  /\ UNCHANGED <<skipped, state, live, intact, upload, call, marks, target>>

-----------------------------------------------------------------------------
(* The clock, retention and the marks that follow a failed call            *)

Tick(t) ==
  /\ state[t] \in Active /\ live[t] /\ live' = [live EXCEPT ![t] = FALSE]
  /\ UNCHANGED <<admission, state, intact, upload, call, marks, orphans, target, bounds>>

\* The directory is removed, with everything in it.
Remove(t) ==
  /\ state' = [state EXCEPT ![t] = "gone"] /\ live' = [live EXCEPT ![t] = TRUE]
  /\ intact' = [intact EXCEPT ![t] = TRUE]
  /\ received' = [received EXCEPT ![t] = 0] /\ rcount' = [rcount EXCEPT ![t] = 0]
  /\ payload' = [payload EXCEPT ![t] = Blank(t)] /\ receipts' = [receipts EXCEPT ![t] = <<>>]
  /\ acked' = [acked EXCEPT ![t] = {}]

\* Retention, by age or size, whatever the state and without the transfer's lock.
Prune(t) ==
  /\ Exists(t) /\ Remove(t)
  /\ UNCHANGED <<admission, call, marks, orphans, target, bounds>>

\* Mutant: the mark does not look at the state it replaces.
MarkAnything(t, allowed) == Exists(t)

\* The guard of _mark_transfer_failed: a decision taken meanwhile is kept.
MayFail(t, allowed) == state[t] \in allowed

MarkFailed(t, allowed) ==
  /\ allowed \in marks[t] /\ Free(t)
  /\ state' = IF MayFail(t, allowed) THEN [state EXCEPT ![t] = "failed"] ELSE state
  /\ marks' = [marks EXCEPT ![t] = @ \ {allowed}]
  /\ UNCHANGED <<admission, live, intact, upload, call, orphans, target, bounds>>

\* The lock times out or the write fails, and the error is swallowed.
MarkDropped(t, allowed) ==
  /\ allowed \in marks[t]
  /\ marks' = [marks EXCEPT ![t] = @ \ {allowed}] /\ orphans' = orphans \cup {t}
  /\ FaultNow
  /\ UNCHANGED <<admission, state, live, intact, upload, call, target>>

\* No mark was recorded for an unfinished download: its directory is removed, under the
\* pool lock only.
RemoveRoot(t) ==
  /\ Active \in marks[t] /\ begin[t] = "lost" /\ Direction[t] = "download" /\ pool = Nobody
  /\ Remove(t) /\ marks' = [marks EXCEPT ![t] = @ \ {Active}]
  /\ FaultNow
  /\ UNCHANGED <<admission, call, orphans, target>>

-----------------------------------------------------------------------------
(* Calls on a transfer the client knows                                    *)

Callable(t) == begin[t] = "done" /\ Exists(t) /\ Free(t)

\* Mutant: a cancel that does not wait for the transfer's lock.
CallableUnlocked(t) == begin[t] = "done" /\ Exists(t)

\* The guard of cancel: the lock, and a state it may end.
Cancellable(t) == Callable(t)

\* Any call but status first ends a transfer that is past its time.
ExpireOnLoad(t) ==
  /\ Callable(t) /\ state[t] \in Active /\ ~live[t]
  /\ state' = [state EXCEPT ![t] = "expired"]
  /\ UNCHANGED <<admission, live, intact, upload, call, marks, orphans, target, bounds>>

Cancel(t) ==
  /\ Cancellable(t) /\ state[t] \in Active /\ live[t]
  /\ state' = [state EXCEPT ![t] = "cancelled"]
  /\ UNCHANGED <<admission, live, intact, upload, call, marks, orphans, target, bounds>>

\* _complete_download_locked
ServedState(t, last) == IF last /\ state[t] = "open" THEN "completed" ELSE state[t]

\* A TransferIntegrityError: the lock is released, then the transfer is marked.
Integrity(t) == marks' = [marks EXCEPT ![t] = @ \cup {Active \cup {"completed"}}]

DownloadChunk(t, last) ==
  /\ Callable(t) /\ Direction[t] = "download" /\ Bytes[t] > 0
  /\ state[t] = "completed" \/ (state[t] = "open" /\ live[t])
  /\ IF intact[t]
     THEN state' = [state EXCEPT ![t] = ServedState(t, last)] /\ UNCHANGED marks
     ELSE Integrity(t) /\ UNCHANGED state
  /\ UNCHANGED <<admission, live, intact, upload, call, orphans, target, bounds>>

\* Something outside the program rewrites the snapshot.
Damage(t) ==
  /\ Direction[t] = "download" /\ Exists(t) /\ intact[t]
  /\ intact' = [intact EXCEPT ![t] = FALSE] /\ FaultNow
  /\ UNCHANGED <<admission, state, live, upload, call, marks, orphans, target>>

Uploading(t) == Callable(t) /\ Direction[t] = "upload"

\* find_receipt: the position of the receipt for an offset, 0 when there is none, by binary
\* search of the confirmed prefix.
FindReceipt(t, offset) ==
  LET search[low \in 0..rcount[t], high \in 0..rcount[t]] ==
        LET middle == (low + high) \div 2
            found == receipts[t][middle + 1].offset
        IN  IF low >= high THEN 0
            ELSE IF found = offset THEN middle + 1
            ELSE IF found < offset THEN search[middle + 1, high]
            ELSE search[low, middle]
  IN  search[0, rcount[t]]

Stored(t, offset, chunk) ==
  /\ offset + Len(chunk) <= Bytes[t]
  /\ \A i \in 1..Len(chunk) : payload[t][offset + i] = chunk[i]

\* A chunk below the received position is answered, without a write, when its receipt and
\* the payload agree with it.
Acknowledged(t, offset, chunk) ==
  LET i == FindReceipt(t, offset)
  IN  i > 0 /\ receipts[t][i].chunk = chunk /\ Stored(t, offset, chunk)

\* A receipt that disagrees is an integrity error; an offset without one is only refused.
DuplicateMismatch(t, offset, chunk) ==
  /\ Uploading(t) /\ (state[t] = "committed" \/ (state[t] = "open" /\ live[t]))
  /\ offset < received[t] /\ FindReceipt(t, offset) > 0 /\ ~Acknowledged(t, offset, chunk)
  /\ Integrity(t)
  /\ UNCHANGED <<admission, state, live, intact, upload, call, orphans, target, bounds>>

ChunkStart(t, chunk) ==
  /\ Uploading(t) /\ state[t] = "open" /\ live[t]
  /\ received[t] + Len(chunk) <= Bytes[t]
  /\ call' = [call EXCEPT ![t] = [step |-> "payload", offset |-> received[t], chunk |-> chunk]]
  /\ UNCHANGED <<admission, state, live, intact, upload, marks, orphans, target, bounds>>

GoTo(t, step) == call' = [call EXCEPT ![t].step = step]
Return(t) == call' = [call EXCEPT ![t] = NoCall]

WritePayload(t) ==
  /\ call[t].step = "payload" /\ Exists(t) /\ GoTo(t, "receipt")
  /\ payload' = [payload EXCEPT ![t] =
       [i \in 1..Bytes[t] |-> IF i - call[t].offset \in 1..Len(call[t].chunk)
                              THEN call[t].chunk[i - call[t].offset] ELSE @[i]]]
  /\ UNCHANGED <<admission, state, live, intact, received, rcount, receipts, acked, marks,
                 orphans, target, bounds>>

\* Mutant: the receipt goes to the end of the index, after what a crash left there.
AppendAtEnd(t, r) == Append(receipts[t], r)

\* append_receipt writes at the position the manifest counts to.
AppendReceipt(t, r) == Append(SubSeq(receipts[t], 1, rcount[t]), r)

WriteReceipt(t) ==
  /\ call[t].step = "receipt" /\ Exists(t) /\ GoTo(t, "manifest")
  /\ receipts' = [receipts EXCEPT ![t] =
       AppendReceipt(t, [offset |-> call[t].offset, chunk |-> call[t].chunk])]
  /\ UNCHANGED <<admission, state, live, intact, received, rcount, payload, acked, marks,
                 orphans, target, bounds>>

PublishChunk(t) ==
  /\ call[t].step = "manifest" /\ Exists(t) /\ Return(t)
  /\ received' = [received EXCEPT ![t] = call[t].offset + Len(call[t].chunk)]
  /\ rcount' = [rcount EXCEPT ![t] = @ + 1]
  /\ acked' = [acked EXCEPT ![t] =
       @ \cup {[offset |-> call[t].offset, chunk |-> call[t].chunk]}]
  /\ UNCHANGED <<admission, state, live, intact, payload, receipts, marks, orphans, target,
                 bounds>>

\* The declared hash is checked before anything is written.
CommitMismatch(t) ==
  /\ Uploading(t) /\ state[t] = "open" /\ live[t] /\ received[t] = Bytes[t]
  /\ payload[t] # Declared[t]
  /\ Integrity(t)
  /\ UNCHANGED <<admission, state, live, intact, upload, call, orphans, target, bounds>>

CommitStart(t) ==
  /\ Uploading(t) /\ state[t] = "open" /\ live[t] /\ received[t] = Bytes[t]
  /\ payload[t] = Declared[t]
  /\ GoTo(t, "mutate")
  /\ UNCHANGED <<admission, state, live, intact, upload, marks, orphans, target, bounds>>

Apply(t) == file' = Declared[t] /\ applied' = [applied EXCEPT ![t] = @ + 1]

\* _atomic_binary_mutation: compare and swap under the workspace locks.
Mutate(t) ==
  /\ call[t].step = "mutate" /\ ready /\ file = expected[t]
  /\ Apply(t) /\ GoTo(t, "commit")
  /\ UNCHANGED <<admission, state, live, intact, upload, marks, orphans, expected, ready, torn,
                 bounds>>

\* A stale target, or a workspace that requires recovery: the upload stays open.
MutateRefused(t) ==
  /\ call[t].step = "mutate" /\ (~ready \/ file # expected[t]) /\ Return(t)
  /\ UNCHANGED <<admission, state, live, intact, upload, marks, orphans, target, bounds>>

\* The mutation fails and is undone, or its recovery is refused.
MutateFails(t) ==
  /\ call[t].step = "mutate" /\ ready /\ file = expected[t] /\ Return(t) /\ FaultNow
  /\ \/ UNCHANGED <<file, applied, ready, torn>>
     \/ Apply(t) /\ ready' = FALSE /\ torn' = torn \cup {t}
  /\ UNCHANGED <<admission, state, live, intact, upload, marks, orphans, expected>>

CommitPublish(t) ==
  /\ call[t].step = "commit" /\ Exists(t) /\ Return(t)
  /\ state' = [state EXCEPT ![t] = "committed"]
  /\ UNCHANGED <<admission, live, intact, upload, marks, orphans, target, bounds>>

\* Retention took the directory from under a call.
CallLosesRoot(t) ==
  /\ call[t].step \in {"payload", "receipt", "manifest", "commit"} /\ ~Exists(t) /\ Return(t)
  /\ torn' = IF call[t].step = "commit" THEN torn \cup {t} ELSE torn
  /\ UNCHANGED <<admission, state, live, intact, upload, marks, orphans, expected, file, ready,
                 applied, bounds>>

\* A write inside the critical section fails, or the process dies; either way the lock is
\* released and nothing written so far is undone.  A receipt that cannot be written is an
\* integrity error.
CallDies(t) ==
  /\ ~Free(t) /\ call[t].step # "mutate" /\ Return(t)
  /\ \/ CrashNow /\ UNCHANGED marks
     \/ FaultNow /\ IF call[t].step = "receipt" THEN Integrity(t) ELSE UNCHANGED marks
  /\ torn' = IF call[t].step = "commit" THEN torn \cup {t} ELSE torn
  /\ UNCHANGED <<admission, state, live, intact, upload, orphans, expected, file, ready,
                 applied>>

\* The process dies inside the mutation: the next start recovers the target or keeps it.
MutateCrash(t) ==
  /\ call[t].step = "mutate" /\ ready /\ file = expected[t] /\ Return(t) /\ CrashNow
  /\ \/ UNCHANGED <<file, applied, torn>>
     \/ Apply(t) /\ torn' = torn \cup {t}
  /\ UNCHANGED <<admission, state, live, intact, upload, marks, orphans, expected, ready>>

\* Another program writes the target.
Edit(content) ==
  /\ \E t \in Edited : begin[t] # "idle"
  /\ edits < MaxEdits /\ edits' = edits + 1 /\ file' = content /\ content # file
  /\ UNCHANGED <<admission, state, live, intact, upload, call, marks, orphans, expected, ready,
                 applied, torn, crashes, faults>>

-----------------------------------------------------------------------------
BeginStep(t) ==
  \/ BeginLock(t) \/ Reserve(t) \/ AdmitRefuse(t) \/ ReserveFails(t)
  \/ \E u \in Transfers \ {t} : AdmitLook(t, u) \/ AdmitSkip(t, u) \/ AdmitTimeout(t, u)
  \/ Copy(t) \/ CopyFails(t) \/ Publish(t) \/ BeginLogged(t) \/ BeginLogFails(t)

CallStep(t) ==
  \/ WritePayload(t) \/ WriteReceipt(t) \/ PublishChunk(t) \/ Mutate(t) \/ MutateRefused(t)
  \/ CommitPublish(t) \/ CallLosesRoot(t)

NextFor(t) ==
  \/ BeginStep(t) \/ CallStep(t) \/ BeginCrash(t) \/ Tick(t) \/ Prune(t)
  \/ \E allowed \in marks[t] : MarkFailed(t, allowed) \/ MarkDropped(t, allowed)
  \/ RemoveRoot(t) \/ ExpireOnLoad(t) \/ Cancel(t) \/ Damage(t)
  \/ \E last \in BOOLEAN : DownloadChunk(t, last)
  \/ \E chunk \in Chunks : ChunkStart(t, chunk)
  \/ \E chunk \in Chunks, offset \in 0..Bytes[t] : DuplicateMismatch(t, offset, chunk)
  \/ CommitMismatch(t) \/ CommitStart(t) \/ MutateFails(t) \/ CallDies(t) \/ MutateCrash(t)

Next == (\E t \in Transfers : NextFor(t)) \/ (\E c \in Contents : Edit(c))

Spec == Init /\ [][Next]_vars

-----------------------------------------------------------------------------
(* Properties                                                              *)

\* Uploads and downloads together never hold more active transfers than max_open_transfers,
\* but for those whose manifest a scan could not read: begin calls, expiry, retention,
\* crashes and publication interleave.  (SECURITY_CONTRACT.md:335, _admit_transfer)
OpenWithinLimit ==
  Cardinality({t \in Transfers \ skipped : state[t] \in Active}) <= MaxOpen

\* A chunk that was acknowledged is acknowledged again for as long as the upload can be
\* sent to: no crash between payload, receipt and manifest, no retry with other bytes and no
\* later chunk changes its bytes or hides its receipt.  (SECURITY_CONTRACT.md:336)
AckedStays ==
  \A t \in Transfers : state[t] \in {"open", "committed"} =>
    \A r \in acked[t] : Acknowledged(t, r.offset, r.chunk)

\* An upload is committed exactly when its bytes reached the target, unless the commit was
\* cut short between the two writes: no cancel, expiry or failure mark overtakes it.
\* (artifact_upload_commit, artifact_transfer_cancel)
AppliedIsCommitted ==
  \A t \in Transfers \ torn :
    /\ state[t] = "committed" => applied[t] > 0
    /\ applied[t] > 0 => state[t] \in {"committed", "gone"} \/ call[t].step = "commit"

\* A begin call whose client never got the id holds no place in the pool once its failure
\* mark is through: the slot would be unreachable until it expires.  (server.py:2393)
LostBeginHoldsNoSlot ==
  \A t \in Transfers \ orphans :
    (begin[t] = "lost" /\ marks[t] = {}) => state[t] \notin Active

\* What ended stays ended: a download that completed may only be found damaged, every other
\* terminal state is final until retention.  (SPEC.md:91)
EndedStaysEnded ==
  [][\A t \in Transfers : state[t] \in Finished =>
       state'[t] \in {state[t], "gone"} \cup
                     (IF state[t] = "completed" THEN {"failed"} ELSE {})]_vars

=============================================================================
