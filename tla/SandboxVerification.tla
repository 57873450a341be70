---- MODULE SandboxVerification ----
(***************************************************************************)
(* What stands between an approved command and its sandbox: the marker of  *)
(* the last live verification and the network Guard.                       *)
(*                                                                         *)
(* A starter verifies the installed sandbox, in the background of a server *)
(* start or because the operator asks: it holds the process-shared lock,   *)
(* replaces the marker by "verifying", rebuilds missing Guard objects with *)
(* an elevated helper, runs the probes and publishes what they showed.  A  *)
(* launch is a worker that creates a sandbox child and relies on marker    *)
(* and Guard.  The Guard is three objects in the Windows filtering         *)
(* platform, read and written one call at a time; they vanish with a       *)
(* restart of that platform and an administrator may remove them.          *)
(*                                                                         *)
(* What a marker is bound to (launcher, helpers, Guard modules, Windows    *)
(* build, account, configuration) is one value, the backend.               *)
(***************************************************************************)
EXTENDS Naturals, Sequences, FiniteSets

CONSTANTS
    Starters,   \* processes that run the verification lifecycle, each once
    Forced,     \* the starters the operator runs: verify-codex-sandbox
    Launches,   \* sandbox children to be created
    Casts,      \* who takes part in one behaviour
    Backends,   \* installed backends, with everything a marker is bound to
    Installed,  \* the one installed at the beginning
    None,       \* nobody
    Ttl, Cooldown,  \* of a marker, and between automatic attempts
    MaxClock, MaxFaults

ASSUME SandboxAssumption ==
    /\ Forced \subseteq Starters /\ Starters \cap Launches = {}
    /\ Casts \subseteq SUBSET (Starters \cup Launches)
    /\ None \notin Starters \cup Launches /\ Installed \in Backends
    /\ Ttl \in Nat /\ Cooldown \in Nat /\ MaxClock \in Nat /\ MaxFaults \in Nat

VARIABLES
    lock,       \* the named lock sandbox-verification
    marker,     \* sandbox-live-verification.json: [status, by, backend, at]
    attempt,    \* sandbox-live-verification-attempt.json: [digest, status, at]
    probed,     \* history: the last attempt that began, and how it ended
    backing,    \* history: <<backend, all objects stood>> of each battery the marker rests on
    guard,      \* the Guard's objects: none | closed (unreadable without elevation) | open
    backend,    \* the backend that is installed, None while an update replaces it
    clock,
    starter,    \* [pc, look, whole, digest, found, at, result, under]
    launch,     \* [pc, look, whole, bound, evidence, looked]
    helper,     \* the elevated process of each starter: [pc, look, want]
    cleanup,    \* the administrator's maintenance cleanup: [pc, look]
    faults

vars == <<lock, marker, attempt, probed, backing, guard, backend, clock, starter, launch, helper,
          cleanup, faults>>

files == <<marker, attempt, probed, backing>>
world == <<guard, backend, clock>>
tasks == <<starter, launch, helper, cleanup>>

Objects == {"sub", "v4", "v6"}    \* sublayer and filters
NoMarker == [status |-> "missing", by |-> None, backend |-> None, at |-> 0]
NoDigest == [backend |-> None, view |-> "none"]
NoAttempt == [digest |-> NoDigest, status |-> "none", at |-> 0]

NewStarter ==
    [pc |-> "idle", look |-> <<>>, whole |-> FALSE, digest |-> NoDigest, found |-> None, at |-> 0,
     result |-> "none", under |-> {}]
NewLaunch ==
    [pc |-> "idle", look |-> <<>>, whole |-> FALSE, bound |-> None, evidence |-> NoMarker,
     looked |-> 0]
NewHelper == [pc |-> "off", look |-> <<>>, want |-> {}]

\* Nothing has been verified yet, or the installed backend has been.
Init ==
    /\ lock = None
    /\ \/ marker = NoMarker /\ attempt = NoAttempt /\ backing = {}
       \/ /\ marker = [status |-> "verified", by |-> None, backend |-> Installed, at |-> 0]
          /\ attempt = [digest |-> [backend |-> Installed, view |-> "exact"],
                        status |-> "verified", at |-> 0]
          /\ backing = {<<Installed, TRUE>>}
    /\ probed = attempt
    /\ guard \in {[x \in Objects |-> s] : s \in {"none", "open"}}
    /\ backend = Installed
    /\ clock = 0
    /\ starter = [s \in Starters |-> NewStarter]
    /\ launch = [l \in Launches |-> NewLaunch]
    /\ helper = [s \in Starters |-> NewHelper]
    /\ cleanup = [pc |-> "off", look |-> <<>>]
    /\ faults = 0

\* Bounds.
Enters(x) ==
    \E c \in Casts : {s \in Starters : starter[s].pc # "idle"} \cup
                     {l \in Launches : launch[l].pc # "idle"} \cup {x} \subseteq c
Fault == faults < MaxFaults /\ faults' = faults + 1

----
\* The Guard.

Order == <<"sub", "v4", "v6">>

Complete(g) == \A x \in Objects : g[x] # "none"
Seen(look) == {look[i] : i \in 1..Len(look)}

Now == [i \in 1..3 |-> guard[Order[i]]]

\* An access that is denied ends a reading at once.
Reads(look) == Len(look) < 3 /\ "closed" \notin Seen(look)

\* One more object of a read-back is read by the process described by r.
Further(r) ==
    [r EXCEPT !.look = Append(@, guard[Order[Len(@) + 1]]), !.whole = @ \/ Complete(guard)]
Afresh(r) == [r EXCEPT !.look = <<>>, !.whole = FALSE]

\* History: the Guard is completed while r is between the first object and the last.
Amid(r) == IF Len(r.look) \in 1..2 THEN [r EXCEPT !.whole = @ \/ Complete(guard')] ELSE r

\* Mutant: the sublayer is taken for the whole Guard.
VerdictOfSublayer(look) ==
    IF "closed" \in Seen(look) THEN "unreadable"
    ELSE IF look[1] = "none" THEN "missing" ELSE "exact"

\* verify_codex_loopback_block: all three are read, then each is judged.
Verdict(look) ==
    IF "closed" \in Seen(look) THEN "unreadable"
    ELSE IF "none" \in Seen(look) THEN "missing" ELSE "exact"

----
\* The marker and the attempt.

\* isolation_context_digest: the marker is of this backend, with every input that it depends on.
BoundTo(b) == marker.backend = b

\* codex_sandbox_live_verification_status, for the backend the caller has resolved.
Status(b) ==
    IF marker.status # "verified" THEN marker.status
    ELSE IF ~BoundTo(b) \/ clock - marker.at > Ttl THEN "stale"
    ELSE "verified"

\* _cooldown_remaining_seconds: an attempt that began and never ended counts as well.
Cooling(d) ==
    /\ attempt.digest = d /\ attempt.status \in {"verifying", "failed", "unverified"}
    /\ clock - attempt.at < Cooldown

\* resolve_codex_sandbox_backend: one of its candidates can be bound, with its signature, its
\* helpers and its version.
Resolvable == backend # None

Held == \* hold_codex_sandbox_backend: nobody replaces a file that is held
    \/ \E s \in Starters : starter[s].pc \in {"guard", "elevating", "probing", "brokered"}
    \/ \E l \in Launches : launch[l].pc \in {"waiting", "guard", "preflight", "last", "create"}

----
\* ensure_codex_sandbox_live_verification.

Go(s, step) == starter' = [starter EXCEPT ![s].pc = step]
Finish(s, step) == starter' = [starter EXCEPT ![s] = [NewStarter EXCEPT !.pc = step]]

\* Every read-back on which a probe relies.
StarterReads(s) ==
    /\ starter[s].pc \in {"probing", "brokered"}
    /\ Reads(starter[s].look)
    /\ starter' = [starter EXCEPT ![s] = Further(@)]
    /\ UNCHANGED <<lock, files, world, launch, helper, cleanup, faults>>

HasRead(s, step) == starter[s].pc = step /\ ~Reads(starter[s].look)

\* The backend is resolved, and with the Guard read for the identity, before the lock is asked for.
Begin(s) ==
    /\ starter[s].pc = "idle" /\ Enters(s)
    /\ IF Resolvable
       THEN starter' = [starter EXCEPT
               ![s].pc = "waiting", ![s].digest = [backend |-> backend, view |-> Verdict(Now)]]
       ELSE Finish(s, "done")
    /\ UNCHANGED <<lock, files, world, launch, helper, cleanup, faults>>

\* The lock is not had within fifteen minutes: the start goes on without a verification.
NoLock(s) ==
    /\ starter[s].pc = "waiting" /\ lock # None
    /\ Finish(s, "done")
    /\ UNCHANGED <<lock, files, world, launch, helper, cleanup, faults>>

\* Mutant: the attempt is recorded when it ends, not when it begins.
DecideUnrecorded(s) ==
    /\ starter[s].pc = "waiting" /\ lock = None
    /\ IF s \notin Forced /\ (Status(starter[s].digest.backend) = "verified" \/ Cooling(starter[s].digest))
       THEN Finish(s, "done") /\ UNCHANGED <<lock, attempt, probed>>
       ELSE /\ lock' = s
            /\ probed' = [digest |-> starter[s].digest, status |-> "verifying", at |-> clock]
            /\ Go(s, "announce")
            /\ UNCHANGED attempt
    /\ UNCHANGED <<marker, backing, world, launch, helper, cleanup, faults>>

\* With the lock, marker and attempt are read again; a valid marker is reused and a recent
\* attempt is not repeated, unless the operator insists.
Decide(s) ==
    /\ starter[s].pc = "waiting" /\ lock = None
    /\ IF s \notin Forced
          /\ (Status(starter[s].digest.backend) = "verified" \/ Cooling(starter[s].digest))
       THEN Finish(s, "done") /\ UNCHANGED <<lock, attempt, probed>>
       ELSE /\ lock' = s
            /\ attempt' = [digest |-> starter[s].digest, status |-> "verifying",
                           at |-> clock]
            /\ probed' = attempt'
            /\ Go(s, "announce")
    /\ UNCHANGED <<marker, backing, world, launch, helper, cleanup, faults>>

\* verify_codex_sandbox_live: a marker that still allows launches is replaced first.
Announce(s) ==
    /\ starter[s].pc = "announce"
    /\ marker' = [NoMarker EXCEPT !.status = "verifying", !.by = s]
    /\ Go(s, "hold")
    /\ UNCHANGED <<lock, attempt, probed, backing, world, launch, helper, cleanup, faults>>

\* The base verifier resolves the backend again and holds its files.
Hold(s) ==
    /\ starter[s].pc = "hold" /\ Resolvable
    /\ starter' = [starter EXCEPT ![s].pc = "guard", ![s].found = backend]
    /\ UNCHANGED <<lock, files, world, launch, helper, cleanup, faults>>

\* The base verifier ends: its result is stamped with the backend that was held, and the files are
\* let go.  Whatever was not measured may have been the setup probe, which spares the second phase.
Concludes(s, r) ==
    \E next \in {"second"} \cup (IF r.result = "unmeasured" THEN {"publish"} ELSE {}) :
       starter' = [starter EXCEPT ![s] = [Afresh(r) EXCEPT !.pc = next, !.at = clock]]

Unmeasured(s) == Concludes(s, [starter[s] EXCEPT !.result = "unmeasured"])

\* ensure_runtime_codex_loopback_guard: only exact absence may be repaired.  (Read in one step: every
\* probe reads again, object by object.)
EnsureGuard(s) ==
    /\ starter[s].pc = "guard"
    /\ LET v == Verdict(Now)
       IN \/ v = "exact" /\ Go(s, "probing") /\ UNCHANGED helper
          \/ v = "missing" /\ Go(s, "elevating")
                /\ helper' = [helper EXCEPT ![s].pc = "connecting"]
          \/ v = "unreadable" /\ Unmeasured(s) /\ UNCHANGED helper
    /\ UNCHANGED <<lock, files, world, launch, cleanup, faults>>

\* The helper's report arrives, or the pipe tells that it is gone.
Elevated(s) ==
    /\ starter[s].pc = "elevating"
    /\ \/ helper[s].pc = "reported" /\ Go(s, "probing")
       \/ helper[s].pc = "failed" /\ Unmeasured(s)
    /\ helper' = [helper EXCEPT ![s] = NewHelper]
    /\ UNCHANGED <<lock, files, world, launch, cleanup, faults>>

\* Consent is refused, or nothing arrives within a minute; the helper may still be at work.
ElevationTimeout(s) ==
    /\ starter[s].pc = "elevating"
    /\ Unmeasured(s)
    /\ UNCHANGED <<lock, files, world, launch, helper, cleanup, faults>>

\* The battery of probes, each behind a read-back of its own: a probe that could not be started
\* or measured is not a failed boundary.
Probe(s) ==
    /\ HasRead(s, "probing")
    /\ \E r \in IF Verdict(starter[s].look) = "exact"
                THEN {"pass", "fail", "unmeasured"} ELSE {"unmeasured"} :
          Concludes(s, [starter[s] EXCEPT
             !.result = r, !.under = @ \cup {<<backend, starter[s].whole>>}])
    /\ UNCHANGED <<lock, files, world, launch, helper, cleanup, faults>>

\* Mutant: the second phase takes whatever backend it finds.
SecondUnbound(s) ==
    /\ starter[s].pc = "second" /\ Resolvable
    /\ Go(s, "brokered")
    /\ UNCHANGED <<lock, files, world, launch, helper, cleanup, faults>>

\* The brokered-process probe resolves and holds anew: another backend is not probed.
Second(s) ==
    /\ starter[s].pc = "second" /\ Resolvable
    /\ starter' = [starter EXCEPT
          ![s].pc = IF backend = starter[s].found THEN "brokered" ELSE "publish",
          ![s].result = IF backend = starter[s].found \/ @ = "fail" THEN @ ELSE "unmeasured"]
    /\ UNCHANGED <<lock, files, world, launch, helper, cleanup, faults>>

Brokered(s) ==
    /\ HasRead(s, "brokered")
    /\ LET me == starter[s]
       IN \E r \in IF Verdict(me.look) = "exact"
                   THEN {"pass", "fail", "unmeasured"} ELSE {"unmeasured"} :
             starter' = [starter EXCEPT
                ![s] = [Afresh(me) EXCEPT
                           !.pc = "publish",
                           !.result = IF r = "pass" \/ me.result = "fail" THEN me.result
                                      ELSE IF r = "fail" THEN r
                                      ELSE "unmeasured",
                           !.under = me.under \cup {<<backend, me.whole>>}]]
    /\ UNCHANGED <<lock, files, world, launch, helper, cleanup, faults>>

\* _finalize_verification_status.
Publish(s) ==
    /\ starter[s].pc = "publish"
    /\ marker' = [by |-> s, backend |-> starter[s].found, at |-> starter[s].at,
                  status |-> CASE starter[s].result = "pass" -> "verified"
                               [] starter[s].result = "fail" -> "failed"
                               [] OTHER -> "unverified"]
    /\ backing' = starter[s].under
    /\ Go(s, "record")
    /\ UNCHANGED <<lock, attempt, probed, world, launch, helper, cleanup, faults>>

\* An error outside the probes, of an access list or because no backend can be resolved: the
\* marker stays at "verifying".
Raise(s) ==
    /\ \/ starter[s].pc \in {"hold", "publish"} /\ Fault
       \/ starter[s].pc \in {"hold", "second"} /\ ~Resolvable /\ UNCHANGED faults
    /\ Go(s, "raised")
    /\ UNCHANGED <<lock, files, world, launch, helper, cleanup>>

\* The attempt ends with what the marker says to the backend resolved at the beginning.
Record(s) ==
    /\ starter[s].pc \in {"record", "raised"}
    /\ attempt' = [attempt EXCEPT
          !.status = IF starter[s].pc = "raised" THEN "unverified"
                     ELSE Status(starter[s].digest.backend),
          !.digest = starter[s].digest]
    /\ probed' = attempt'
    /\ Finish(s, "done") /\ lock' = None
    /\ UNCHANGED <<marker, backing, world, launch, helper, cleanup, faults>>

\* The process dies; the system gives its lock and its handles back.
StarterDies(s) ==
    /\ starter[s].pc \notin {"idle", "done", "dead"} /\ Fault
    /\ Finish(s, "dead")
    /\ lock' = IF lock = s THEN None ELSE lock
    /\ UNCHANGED <<files, world, launch, helper, cleanup>>

----
\* guard_and_launch_codex_sandbox, as a worker calls it.

LaunchTo(l, step) == launch' = [launch EXCEPT ![l].pc = step]
EndLaunch(l, end) == launch' = [launch EXCEPT ![l] = [NewLaunch EXCEPT !.pc = end]]

\* The approved backend is still the installed one, its files are held, and the marker verifies it.
Bind(l) ==
    /\ launch[l].pc = "idle" /\ Enters(l)
    /\ IF Resolvable /\ Status(backend) = "verified"
       THEN launch' = [launch EXCEPT
               ![l].pc = "waiting", ![l].bound = backend, ![l].evidence = marker]
       ELSE EndLaunch(l, "refused")
    /\ UNCHANGED <<lock, files, world, starter, helper, cleanup, faults>>

LaunchNoLock(l) ==
    /\ launch[l].pc = "waiting" /\ lock # None
    /\ EndLaunch(l, "refused")
    /\ UNCHANGED <<lock, files, world, starter, helper, cleanup, faults>>

\* Mutant: the launch looks at the marker without taking the lock.
CheckUnlocked(l) ==
    /\ launch[l].pc = "waiting"
    /\ IF Status(launch[l].bound) = "verified" /\ marker = launch[l].evidence
       THEN LaunchTo(l, "guard")
       ELSE EndLaunch(l, "refused")
    /\ UNCHANGED <<lock, files, world, starter, helper, cleanup, faults>>

\* Under the lock the marker must be the one the worker has bound itself to.
Check(l) ==
    /\ launch[l].pc = "waiting" /\ lock = None
    /\ IF Status(launch[l].bound) = "verified" /\ marker = launch[l].evidence
       THEN lock' = l /\ LaunchTo(l, "guard")
       ELSE UNCHANGED lock /\ EndLaunch(l, "refused")
    /\ UNCHANGED <<files, world, starter, helper, cleanup, faults>>

LaunchReads(l) ==
    /\ launch[l].pc = "guard" /\ Reads(launch[l].look)
    /\ launch' = [launch EXCEPT ![l] = Further(@)]
    /\ UNCHANGED <<lock, files, world, starter, helper, cleanup, faults>>

\* A launch never asks for elevation: whatever is not exact refuses it.
VerifyGuard(l) ==
    /\ launch[l].pc = "guard" /\ ~Reads(launch[l].look)
    /\ IF Verdict(launch[l].look) = "exact"
       THEN LaunchTo(l, "preflight") /\ UNCHANGED lock
       ELSE EndLaunch(l, "refused") /\ lock' = None
    /\ UNCHANGED <<files, world, starter, helper, cleanup, faults>>

\* The brokered-process probe runs for up to half a minute, and may show an open boundary.
Preflight(l) ==
    /\ launch[l].pc = "preflight"
    /\ \/ LaunchTo(l, "last") /\ UNCHANGED lock
       \/ EndLaunch(l, "refused") /\ lock' = None
    /\ UNCHANGED <<files, world, starter, helper, cleanup, faults>>

\* The marker is read once more, its age included.
LastLook(l) ==
    /\ launch[l].pc = "last"
    /\ IF Status(launch[l].bound) = "verified" /\ marker = launch[l].evidence
       THEN /\ launch' = [launch EXCEPT ![l].pc = "create", ![l].looked = clock]
            /\ UNCHANGED lock
       ELSE EndLaunch(l, "refused") /\ lock' = None
    /\ UNCHANGED <<files, world, starter, helper, cleanup, faults>>

\* launch_codex_sandbox creates the child or fails; the lock is given back either way.
Create(l) ==
    /\ launch[l].pc = "create"
    /\ \E end \in {"created", "refused"} : EndLaunch(l, end)
    /\ lock' = IF lock = l THEN None ELSE lock
    /\ UNCHANGED <<files, world, starter, helper, cleanup, faults>>

WorkerDies(l) ==
    /\ launch[l].pc \notin {"idle", "created", "refused"} /\ Fault
    /\ EndLaunch(l, "refused")
    /\ lock' = IF lock = l THEN None ELSE lock
    /\ UNCHANGED <<files, world, starter, helper, cleanup>>

----
\* _elevated_main: the helper of a starter, which may outlive the minute it is waited for.

HelperTo(s, step, want) ==
    helper' = [helper EXCEPT ![s] = [NewHelper EXCEPT !.pc = step, !.want = want]]

\* Its end is heard of only by a starter that still waits.
HelperEnds(s, end) ==
    helper' = [helper EXCEPT
       ![s] = [NewHelper EXCEPT !.pc = IF starter[s].pc = "elevating" THEN end ELSE "off"]]

\* The pipe connects, the helper is told to proceed, and ensure_codex_loopback_block reads: no
\* helper relies on its own readings for long, so that one step is enough for them.  Nobody listens
\* after the wait.
Proceed(s) ==
    /\ helper[s].pc = "connecting"
    /\ IF starter[s].pc = "elevating"
       THEN helper' = [helper EXCEPT
               ![s] = [pc |-> "ensuring", look |-> Now,
                       want |-> {x \in {"v4", "v6"} : guard[x] = "none"}]]
       ELSE HelperEnds(s, "off")
    /\ UNCHANGED <<lock, files, world, starter, launch, cleanup, faults>>

\* Filters without their sublayer are not repaired.
EnsureSublayer(s) ==
    /\ helper[s].pc = "ensuring"
    /\ LET found == helper[s].look[1] # "none"
           want == helper[s].want
       IN \/ /\ found
             /\ UNCHANGED guard
             /\ IF want = {} THEN HelperTo(s, "opening", Objects) ELSE HelperTo(s, "adding", want)
          \/ /\ ~found /\ want # {"v4", "v6"}
             /\ HelperEnds(s, "failed") /\ UNCHANGED guard
          \/ /\ ~found /\ want = {"v4", "v6"}
             /\ IF guard["sub"] # "none"     \* FwpmSubLayerAdd0: it exists by now
                THEN HelperEnds(s, "failed") /\ UNCHANGED guard
                ELSE HelperTo(s, "adding", want) /\ guard' = [guard EXCEPT !["sub"] = "closed"]
    /\ UNCHANGED <<lock, files, backend, clock, starter, launch, cleanup, faults>>

\* add_filters, after the sublayer was read back: both in one transaction, which fails when one
\* exists or the sublayer does not.
AddFilters(s) ==
    /\ helper[s].pc = "adding"
    /\ IF guard["sub"] # "none" /\ \A x \in helper[s].want : guard[x] = "none"
       THEN /\ guard' = [x \in Objects |-> IF x \in helper[s].want THEN "closed" ELSE guard[x]]
            /\ starter' = [t \in Starters |-> Amid(starter[t])]
            /\ launch' = [l \in Launches |-> Amid(launch[l])]
            /\ HelperTo(s, "opening", Objects)
       ELSE UNCHANGED <<guard, starter, launch>> /\ HelperEnds(s, "failed")
    /\ UNCHANGED <<lock, files, backend, clock, cleanup, faults>>

\* prepare_current_operator_read_access: after a complete read-back each object is opened in turn.
Open(s) ==
    /\ helper[s].pc = "opening"
    /\ LET want == helper[s].want
           x == Order[4 - Cardinality(want)]
       IN IF guard[x] # "none" /\ (want = Objects => Complete(guard))
          THEN /\ guard' = [guard EXCEPT ![x] = "open"]
               /\ HelperTo(s, IF want = {x} THEN "granted" ELSE "opening", want \ {x})
          ELSE HelperEnds(s, "failed") /\ UNCHANGED guard
    /\ UNCHANGED <<lock, files, backend, clock, starter, launch, cleanup, faults>>

Report(s) ==
    /\ helper[s].pc = "granted"
    /\ HelperEnds(s, IF Complete(guard) THEN "reported" ELSE "failed")
    /\ UNCHANGED <<lock, files, world, starter, launch, cleanup, faults>>

HelperDies(s) ==
    /\ helper[s].pc \notin {"off", "reported", "failed"} /\ Fault
    /\ HelperEnds(s, IF helper[s].pc = "connecting" THEN "off" ELSE "failed")
    /\ UNCHANGED <<lock, files, world, starter, launch, cleanup>>

----
\* maintenance_remove_codex_loopback_block, run by an administrator.

CleanupBegins ==
    /\ cleanup.pc = "off" /\ Fault
    /\ cleanup' = [pc |-> "v4", look |-> Now]
    /\ UNCHANGED <<lock, files, world, starter, launch, helper>>

\* What was found is deleted by key, filters before their sublayer; the first refusal ends it.
\* A sublayer in use cannot be deleted.
Delete(x, then) ==
    /\ cleanup.pc = x
    /\ IF cleanup.look[IF x = "sub" THEN 1 ELSE IF x = "v4" THEN 2 ELSE 3] = "none"
       THEN cleanup' = [cleanup EXCEPT !.pc = then] /\ UNCHANGED guard
       ELSE IF guard[x] = "none" \/ (x = "sub" /\ (guard["v4"] # "none" \/ guard["v6"] # "none"))
       THEN cleanup' = [pc |-> "over", look |-> <<>>] /\ UNCHANGED guard
       ELSE cleanup' = [cleanup EXCEPT !.pc = then] /\ guard' = [guard EXCEPT ![x] = "none"]
    /\ UNCHANGED <<lock, files, backend, clock, starter, launch, helper, faults>>

Clean == Delete("v4", "v6") \/ Delete("v6", "sub") \/ Delete("sub", "over")

----
\* The world.

Tick ==
    /\ clock < MaxClock /\ clock' = clock + 1
    /\ UNCHANGED <<lock, files, guard, backend, tasks, faults>>

\* The filtering platform restarts: static, non-persistent objects are gone.
PlatformRestarts ==
    /\ Complete(guard) /\ Fault
    /\ guard' = [x \in Objects |-> "none"]
    /\ UNCHANGED <<lock, files, backend, clock, tasks>>

\* An update replaces the installed files, unless they are held, and ends with another backend
\* or with the one it began with.
UpdateBegins ==
    /\ ~Held /\ Resolvable /\ Fault
    /\ backend' = None
    /\ UNCHANGED <<lock, files, guard, clock, tasks>>

UpdateEnds ==
    /\ ~Resolvable
    /\ \E b \in Backends : backend' = b
    /\ UNCHANGED <<lock, files, guard, clock, tasks, faults>>

Verify(s) ==
    \/ Begin(s) \/ StarterReads(s) \/ NoLock(s) \/ Decide(s) \/ Announce(s)
    \/ Hold(s) \/ EnsureGuard(s) \/ Elevated(s) \/ ElevationTimeout(s) \/ Probe(s)
    \/ Second(s) \/ Brokered(s) \/ Publish(s) \/ Record(s)

Work(l) ==
    \/ LaunchNoLock(l) \/ Check(l) \/ LaunchReads(l) \/ VerifyGuard(l) \/ Preflight(l)
    \/ LastLook(l) \/ Create(l)

Assist(s) ==
    \/ Proceed(s) \/ EnsureSublayer(s) \/ AddFilters(s) \/ Open(s) \/ Report(s)

Next ==
    \/ \E s \in Starters :
          Verify(s) \/ Raise(s) \/ StarterDies(s) \/ Assist(s) \/ HelperDies(s)
    \/ \E l \in Launches : Bind(l) \/ Work(l) \/ WorkerDies(l)
    \/ CleanupBegins \/ Clean
    \/ Tick \/ PlatformRestarts \/ UpdateBegins \/ UpdateEnds

Spec == Init /\ [][Next]_vars

----
\* Properties.

Views == {"none", "missing", "unreadable", "exact"}
MarkerStatus == {"missing", "verifying", "verified", "failed", "unverified"}
ObjectStates == {"none", "closed", "open"}
LookOK(look) == Len(look) <= 3 /\ Seen(look) \subseteq ObjectStates
Digests == [backend : Backends \cup {None}, view : Views]
Attempts == [digest : Digests, at : Nat,
             status : {"none", "stale"} \cup MarkerStatus]

TypeOK ==
    /\ lock \in Starters \cup Launches \cup {None}
    /\ marker \in [status : MarkerStatus, by : Starters \cup {None},
                   backend : Backends \cup {None}, at : Nat]
    /\ attempt \in Attempts /\ probed \in Attempts
    /\ guard \in [Objects -> ObjectStates]
    /\ backend \in Backends \cup {None} /\ clock \in 0..MaxClock
    /\ \A s \in Starters :
          /\ LookOK(starter[s].look) /\ LookOK(helper[s].look)
          /\ starter[s].digest \in Digests
          /\ helper[s].want \subseteq Objects
    /\ \A l \in Launches : LookOK(launch[l].look) /\ launch[l].looked \in Nat
    /\ faults \in 0..MaxFaults

\* verify_codex_loopback_block reads three objects in three calls, while a late helper, a cleanup
\* and a restart of the platform change them: when it finds all of them, all of them stood at one
\* moment of that reading.
ReadBackSound ==
    /\ \A s \in Starters :
          Len(starter[s].look) = 3 /\ Verdict(starter[s].look) = "exact" => starter[s].whole
    /\ \A l \in Launches :
          Len(launch[l].look) = 3 /\ Verdict(launch[l].look) = "exact" => launch[l].whole

\* guard_and_launch_codex_sandbox: a child is created only on the marker its worker bound itself
\* to, for the backend that is installed, with no verification under way; the marker has not
\* expired, unless it did so after it was last read.
ChildOnStandingMarker ==
    [][\A l \in Launches : launch[l].pc = "create" /\ launch'[l].pc = "created" =>
          /\ marker.status = "verified" /\ marker = launch[l].evidence
          /\ marker.backend = backend
          /\ launch[l].whole
          /\ \A s \in Starters : lock # s
          /\ clock - marker.at > Ttl => clock > launch[l].looked]_vars

\* verify_codex_sandbox_live: a marker that allows launches comes from a verification whose every
\* probe ran against the backend it names, behind a complete Guard.
VerifiedMeansProbed ==
    marker.status = "verified" => backing = {<<marker.backend, TRUE>>}

\* The cooldown: servers do not repeat an attempt for the same identity before its time is over,
\* whether the last one failed, raised or died.
AttemptsApart ==
    [][\A s \in Starters \ Forced :
          starter[s].pc = "waiting" /\ starter'[s].pc = "announce" =>
             ~ /\ probed.digest = starter[s].digest
               /\ probed.status \in {"verifying", "failed", "unverified"}
               /\ clock - probed.at < Cooldown]_vars
====
