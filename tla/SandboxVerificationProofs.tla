------------------------ MODULE SandboxVerificationProofs ------------------------
(***************************************************************************)
(* Proofs about SandboxVerification, for any number of starters, launches  *)
(* and backends, any time limits and any number of faults: what a reading  *)
(* of the Guard shows, what a verified marker rests on, on what a sandbox  *)
(* child is created, and how often servers try.                            *)
(***************************************************************************)
EXTENDS SandboxVerification, SequenceTheorems, TLAPS

-----------------------------------------------------------------------------
(* The inductive invariant                                                 *)

Owners == Backends \cup {None}
Looks == {look \in Seq(ObjectStates) : Len(look) \in {0, 1, 2, 3}}
Markers == [status : MarkerStatus, by : Starters \cup {None}, backend : Owners, at : Nat]

StarterStates ==
  [pc : {"idle", "waiting", "announce", "hold", "guard", "elevating", "probing", "second", "brokered",
         "publish", "record", "raised", "done", "dead"},
   look : Looks, whole : BOOLEAN, digest : Digests, found : Owners, at : Nat,
   result : {"none", "pass", "fail", "unmeasured"}, under : SUBSET (Owners \X BOOLEAN)]
LaunchStates ==
  [pc : {"idle", "waiting", "guard", "preflight", "last", "create", "created", "refused"},
   look : Looks, whole : BOOLEAN, bound : Owners, evidence : Markers, looked : Nat]
HelperStates ==
  [pc : {"off", "connecting", "ensuring", "adding", "opening", "granted", "reported", "failed"},
   look : Looks, want : SUBSET Objects]

StoreOK ==
  /\ lock \in Starters \cup Launches \cup {None}
  /\ marker \in Markers /\ attempt \in Attempts /\ probed \in Attempts
  /\ backing \in SUBSET (Owners \X BOOLEAN)
WorldOK ==
  /\ guard \in [Objects -> ObjectStates] /\ backend \in Owners
  /\ clock \in 0..MaxClock /\ faults \in 0..MaxFaults
TasksOK ==
  /\ starter \in [Starters -> StarterStates] /\ launch \in [Launches -> LaunchStates]
  /\ helper \in [Starters -> HelperStates]
  /\ cleanup \in [pc : {"off", "v4", "v6", "sub", "over"}, look : Looks]

\* The objects of the Guard: filters stand on their sublayer, and one without the other only
\* after the administrator's cleanup has deleted one.
Stands(x) == guard[x] # "none"
CutInto == cleanup.pc \in {"v6", "sub", "over"}

GuardInv ==
  /\ Stands("v4") \/ Stands("v6") => Stands("sub")
  /\ (Stands("v4") /\ ~Stands("v6")) \/ (Stands("v6") /\ ~Stands("v4")) => CutInto

\* A helper that adds one filter alone has seen the other.
HelperInv ==
  \A s \in Starters : helper[s].pc \in {"ensuring", "adding"} =>
    /\ helper[s].want \subseteq {"v4", "v6"}
    /\ helper[s].pc = "adding" => helper[s].want # {}
    /\ helper[s].want \in {{"v4"}, {"v6"}} => CutInto

\* A reading that found the first filter, and never the whole Guard, goes on before the second
\* is added.
ReadSound(look, whole) ==
  /\ Len(look) = 2 /\ look[2] # "none" /\ ~whole => Stands("v4") /\ ~Stands("v6")
  /\ Len(look) = 3 /\ look[2] # "none" /\ look[3] # "none" => whole

ReadInv ==
  /\ \A s \in Starters : ReadSound(starter[s].look, starter[s].whole)
  /\ \A l \in Launches : ReadSound(launch[l].look, launch[l].whole)

\* A starter works with the lock and a backend that is held; what passed was probed behind a
\* complete Guard, on the backend that will be named.
UnderLock == {"announce", "hold", "guard", "elevating", "probing", "second", "brokered", "publish",
              "record", "raised"}

StarterSound(s) ==
  LET me == starter[s] IN
  /\ me.pc \in UnderLock => lock = s
  /\ me.pc \in {"guard", "elevating", "probing", "brokered"} => me.found = backend /\ backend # None
  /\ me.pc \notin {"probing", "brokered"} => me.look = <<>> /\ ~me.whole
  /\ me.pc \in {"idle", "waiting", "announce", "hold", "guard", "elevating", "probing"} => me.under = {}
  /\ me.pc \in {"second", "brokered", "publish"} /\ me.result = "pass" => me.under = {<<me.found, TRUE>>}

StarterInv == \A s \in Starters : StarterSound(s)

\* A launch is bound to the installed backend; with the lock the marker stays the one it is
\* bound to.
LaunchSound(l) ==
  LET me == launch[l] IN
  /\ me.pc \in {"guard", "preflight", "last", "create"} => lock = l
  /\ me.pc \in {"waiting", "guard", "preflight", "last", "create"} => me.bound = backend /\ backend # None
  /\ me.pc \notin {"guard", "preflight", "last", "create"} => me.look = <<>> /\ ~me.whole
  /\ me.pc \in {"preflight", "last", "create"} => me.whole
  /\ me.pc = "create" =>
       /\ marker = me.evidence /\ marker.status = "verified" /\ marker.backend = backend
       /\ me.looked - marker.at <= Ttl /\ me.looked <= clock

LaunchInv == \A l \in Launches : LaunchSound(l)

SandboxInv ==
  /\ StoreOK /\ WorldOK /\ TasksOK
  /\ GuardInv /\ HelperInv /\ ReadInv /\ StarterInv /\ LaunchInv
  /\ VerifiedMeansProbed /\ attempt = probed

-----------------------------------------------------------------------------
(* Readings of the Guard                                                   *)

LEMMA OrderFacts ==
  /\ Order[1] = "sub" /\ Order[2] = "v4" /\ Order[3] = "v6"
  /\ \A i \in 1..3 : Order[i] \in Objects
PROOF
BY DEF Order, Objects

LEMMA NowLooks ==
  ASSUME WorldOK
  PROVE  Now \in Looks
PROOF
<1>1. \A i \in 1..3 : guard[Order[i]] \in ObjectStates
  BY OrderFacts DEF WorldOK
<1>2. Now \in [1..3 -> ObjectStates]
  BY <1>1 DEF Now
<1>3. Now \in Seq(ObjectStates) /\ Len(Now) = 3
  BY <1>2
<1> QED
  BY <1>3, Zenon DEF Looks

\* What is read of a reading by its length.
LEMMA LooksFacts ==
  ASSUME NEW look \in Looks
  PROVE  /\ look \in Seq(ObjectStates) /\ Len(look) \in {0, 1, 2, 3}
         /\ Len(look) < 3 <=> Len(look) \in {0, 1, 2}
         /\ Len(look) <= 3
         /\ Len(look) \in 1..2 <=> Len(look) \in {1, 2}
         /\ Len(look) = 3 => look[2] \in Seen(look) /\ look[3] \in Seen(look)
PROOF
<1>1. look \in Seq(ObjectStates) /\ Len(look) \in {0, 1, 2, 3}
  BY Zenon DEF Looks
<1>2. ASSUME NEW n \in {0, 1, 2, 3}
      PROVE  /\ n < 3 <=> n \in {0, 1, 2}
             /\ n <= 3
             /\ n \in 1..2 <=> n \in {1, 2}
  OBVIOUS
<1>3. ASSUME Len(look) = 3
      PROVE  look[2] \in Seen(look) /\ look[3] \in Seen(look)
  <2>1. 2 \in 1..Len(look) /\ 3 \in 1..Len(look)
    BY <1>3
  <2> QED
    BY <2>1, Zenon DEF Seen
<1> QED
  BY <1>1, <1>2, <1>3, Zenon

\* One more object is read.
LEMMA ReadsFurther ==
  ASSUME WorldOK, GuardInv, NEW look \in Looks, NEW whole \in BOOLEAN,
         Reads(look), ReadSound(look, whole)
  PROVE  /\ Append(look, guard[Order[Len(look) + 1]]) \in Looks
         /\ ReadSound(Append(look, guard[Order[Len(look) + 1]]), whole \/ Complete(guard))
PROOF
<1>1. look \in Seq(ObjectStates) /\ Len(look) \in {0, 1, 2}
  BY LooksFacts, Zenon DEF Reads
<1> DEFINE seen == guard[Order[Len(look) + 1]]
           longer == Append(look, seen)
<1>2. Len(look) + 1 \in 1..3
  <2>1. \A n \in {0, 1, 2} : n + 1 \in 1..3
    OBVIOUS
  <2> QED
    BY <1>1, <2>1, Zenon
<1>3. seen \in ObjectStates
  BY <1>2, OrderFacts DEF WorldOK
<1>4. /\ longer \in Seq(ObjectStates) /\ Len(longer) = Len(look) + 1 /\ longer[Len(look) + 1] = seen
      /\ \A i \in 1..Len(look) : longer[i] = look[i]
  BY <1>1, <1>3, AppendProperties
<1> HIDE DEF longer
<1>5. CASE Len(look) = 0
  <2>1. Len(longer) = 1
    BY <1>4, <1>5
  <2>2. ReadSound(longer, whole \/ Complete(guard))
    BY <2>1 DEF ReadSound
  <2> QED
    BY <1>4, <2>1, <2>2, Zenon DEF Looks, longer
<1>6. CASE Len(look) = 1
  <2>1. Len(longer) = 2 /\ longer[2] = guard["v4"]
    BY <1>4, <1>6, OrderFacts
  <2>2. longer[2] # "none" /\ ~(whole \/ Complete(guard)) => Stands("v4") /\ ~Stands("v6")
    BY <2>1 DEF Complete, Stands, GuardInv, Objects
  <2>3. ReadSound(longer, whole \/ Complete(guard))
    BY <2>1, <2>2 DEF ReadSound
  <2> QED
    BY <1>4, <2>1, <2>3, Zenon DEF Looks, longer
<1>7. CASE Len(look) = 2
  <2>1. Len(longer) = 3 /\ longer[3] = guard["v6"] /\ longer[2] = look[2]
    BY <1>4, <1>7, OrderFacts
  <2>2. longer[2] # "none" /\ longer[3] # "none" => whole
    BY <1>7, <2>1 DEF ReadSound, Stands
  <2>3. ReadSound(longer, whole \/ Complete(guard))
    BY <2>1, <2>2 DEF ReadSound
  <2> QED
    BY <1>4, <2>1, <2>3, Zenon DEF Looks, longer
<1> QED
  BY <1>1, <1>5, <1>6, <1>7, Zenon DEF longer

\* A reading that found every object found them at one moment.
LEMMA ExactIsWhole ==
  ASSUME NEW look \in Looks, NEW whole \in BOOLEAN, ReadSound(look, whole), Verdict(look) = "exact"
  PROVE  /\ Len(look) = 3 => whole
         /\ ~Reads(look) => Len(look) = 3
PROOF
<1>1. "closed" \notin Seen(look) /\ "none" \notin Seen(look)
  BY DEF Verdict
<1> QED
  BY <1>1, LooksFacts, Zenon DEF ReadSound, Reads

\* A step that leaves alone what stands keeps a reading as it is.
LEMMA ReadingStays ==
  ASSUME NEW look, NEW whole, ReadSound(look, whole),
         \A x \in Objects : (guard'[x] # "none") <=> (guard[x] # "none")
  PROVE  ReadSound(look, whole)'
PROOF
BY DEF ReadSound, Stands, Objects

LEMMA NothingRead ==
  /\ <<>> \in Looks /\ Len(<<>>) = 0
  /\ \A whole : ReadSound(<<>>, whole)
PROOF
<1>1. <<>> \in Seq(ObjectStates) /\ Len(<<>>) = 0
  OBVIOUS
<1>2. Len(<<>>) \in {0, 1, 2, 3}
  BY <1>1
<1> QED
  BY <1>1, <1>2 DEF Looks, ReadSound

\* What starters, launches and helpers are before and after.
LEMMA NewTasks ==
  /\ NewStarter \in StarterStates /\ NewHelper \in HelperStates
  /\ NewStarter.look = <<>> /\ ~NewStarter.whole /\ NewStarter.under = {}
  /\ NoMarker \in Markers /\ NoDigest \in Digests /\ NoAttempt \in Attempts
PROOF
<1>1. NoDigest \in Digests /\ NoMarker \in Markers
  BY DEF NoDigest, Digests, Views, NoMarker, Markers, MarkerStatus, Owners
<1> QED
  BY <1>1, NothingRead DEF NewStarter, StarterStates, NewHelper, HelperStates, NoAttempt, Attempts, Owners

LEMMA NewLaunches ==
  /\ NewLaunch \in LaunchStates
  /\ NewLaunch.look = <<>> /\ ~NewLaunch.whole
PROOF
BY NewTasks, NothingRead DEF NewLaunch, LaunchStates, Owners

\* What the code reports of marker and Guard is one of the words it knows.
LEMMA Reported ==
  /\ \A look : Verdict(look) \in Views
  /\ StoreOK => \A b : Status(b) \in {"none", "stale"} \cup MarkerStatus
PROOF
<1>1. \A look : Verdict(look) \in Views
  BY DEF Verdict, Views
<1>2. StoreOK => \A b : Status(b) \in {"none", "stale"} \cup MarkerStatus
  BY DEF StoreOK, Markers, Status, MarkerStatus
<1> QED
  BY <1>1, <1>2

-----------------------------------------------------------------------------
(* Steps of one task, with the others as they were                         *)

LEMMA StarterStep ==
  ASSUME SandboxInv, NEW s \in Starters,
         starter' \in [Starters -> StarterStates],
         \A t \in Starters \ {s} : starter'[t] = starter[t],
         helper' \in [Starters -> HelperStates],
         \A t \in Starters : helper'[t] = helper[t] \/ helper'[t].pc \notin {"ensuring", "adding"},
         StoreOK', faults' \in 0..MaxFaults, UNCHANGED <<guard, backend, clock, launch, cleanup>>,
         lock' = lock \/ (lock = None /\ lock' = s) \/ (lock = s /\ lock' = None),
         UNCHANGED <<marker, backing>> \/ (lock = s /\ VerifiedMeansProbed'),
         attempt' = probed',
         StarterSound(s)', ReadSound(starter[s].look, starter[s].whole)'
  PROVE  SandboxInv'
PROOF
<1>1. WorldOK' /\ TasksOK' /\ GuardInv'
  BY DEF SandboxInv, WorldOK, TasksOK, GuardInv, Stands, CutInto
<1>2. HelperInv'
  BY DEF SandboxInv, HelperInv, CutInto
<1>3. ReadInv'
  BY DEF SandboxInv, ReadInv, ReadSound, Stands
<1>4. StarterInv'
  <2> SUFFICES ASSUME NEW t \in Starters, t # s PROVE StarterSound(t)'
    BY DEF StarterInv
  <2>1. lock = t => lock' = t
    BY SandboxAssumption
  <2>2. StarterSound(t) /\ starter'[t] = starter[t]
    BY DEF SandboxInv, StarterInv
  <2> QED
    BY <2>1, <2>2 DEF StarterSound
<1>5. LaunchInv'
  <2> SUFFICES ASSUME NEW l \in Launches PROVE LaunchSound(l)'
    BY DEF LaunchInv
  <2>1. lock = l => lock' = l /\ marker' = marker
    BY SandboxAssumption
  <2>2. LaunchSound(l)
    BY DEF SandboxInv, LaunchInv
  <2> QED
    BY <2>1, <2>2 DEF LaunchSound
<1>6. VerifiedMeansProbed'
  BY DEF SandboxInv, VerifiedMeansProbed
<1> QED
  BY <1>1, <1>2, <1>3, <1>4, <1>5, <1>6 DEF SandboxInv

LEMMA LaunchStep ==
  ASSUME SandboxInv, NEW l \in Launches,
         launch' \in [Launches -> LaunchStates],
         \A m \in Launches \ {l} : launch'[m] = launch[m],
         faults' \in 0..MaxFaults, UNCHANGED <<files, world, starter, helper, cleanup>>,
         lock' = lock \/ (lock = None /\ lock' = l) \/ (lock = l /\ lock' = None),
         LaunchSound(l)', ReadSound(launch[l].look, launch[l].whole)'
  PROVE  SandboxInv'
PROOF
<1> USE DEF files, world
<1>1. StoreOK' /\ WorldOK' /\ TasksOK' /\ GuardInv'
  BY SandboxAssumption DEF SandboxInv, StoreOK, WorldOK, TasksOK, GuardInv, Stands, CutInto
<1>2. HelperInv' /\ VerifiedMeansProbed' /\ attempt' = probed'
  BY DEF SandboxInv, HelperInv, CutInto, VerifiedMeansProbed
<1>3. ReadInv'
  BY DEF SandboxInv, ReadInv, ReadSound, Stands
<1>4. StarterInv'
  <2> SUFFICES ASSUME NEW t \in Starters PROVE StarterSound(t)'
    BY DEF StarterInv
  <2>1. lock = t => lock' = t
    BY SandboxAssumption
  <2>2. StarterSound(t)
    BY DEF SandboxInv, StarterInv
  <2> QED
    BY <2>1, <2>2 DEF StarterSound
<1>5. LaunchInv'
  <2> SUFFICES ASSUME NEW m \in Launches, m # l PROVE LaunchSound(m)'
    BY DEF LaunchInv
  <2>1. lock = m => lock' = m
    BY SandboxAssumption
  <2>2. LaunchSound(m) /\ launch'[m] = launch[m]
    BY DEF SandboxInv, LaunchInv
  <2> QED
    BY <2>1, <2>2 DEF LaunchSound
<1> QED
  BY <1>1, <1>2, <1>3, <1>4, <1>5 DEF SandboxInv

\* Helpers, the cleanup and the platform: of readings only what stands of the filters matters.
LEMMA GuardStep ==
  ASSUME SandboxInv,
         helper' \in [Starters -> HelperStates], HelperInv',
         cleanup' \in [pc : {"off", "v4", "v6", "sub", "over"}, look : Looks],
         guard' \in [Objects -> ObjectStates], GuardInv',
         Stands("v4") /\ ~Stands("v6") => (Stands("v4") /\ ~Stands("v6"))',
         faults' \in 0..MaxFaults, UNCHANGED <<lock, files, backend, clock, starter, launch>>
  PROVE  SandboxInv'
PROOF
<1> USE DEF files
<1>1. StoreOK' /\ WorldOK' /\ TasksOK'
  BY DEF SandboxInv, StoreOK, WorldOK, TasksOK
<1>2. VerifiedMeansProbed' /\ attempt' = probed'
  BY DEF SandboxInv, VerifiedMeansProbed
<1>3. ReadInv'
  BY DEF SandboxInv, ReadInv, ReadSound
<1>4. StarterInv' /\ LaunchInv'
  BY DEF SandboxInv, StarterInv, LaunchInv, StarterSound, LaunchSound
<1> QED
  BY <1>1, <1>2, <1>3, <1>4 DEF SandboxInv

-----------------------------------------------------------------------------
(* The steps of a starter                                                  *)

\* The facts every such step begins with.
LEMMA StarterNow ==
  ASSUME SandboxInv, NEW s \in Starters
  PROVE  /\ starter \in [Starters -> StarterStates] /\ starter[s] \in StarterStates
         /\ helper \in [Starters -> HelperStates]
         /\ lock \in Starters \cup Launches \cup {None} /\ marker \in Markers
         /\ attempt \in Attempts /\ attempt = probed /\ backing \in SUBSET (Owners \X BOOLEAN)
         /\ backend \in Owners /\ clock \in Nat /\ faults \in 0..MaxFaults /\ StoreOK
         /\ StarterSound(s) /\ ReadSound(starter[s].look, starter[s].whole)
PROOF
BY SandboxAssumption DEF SandboxInv, StoreOK, WorldOK, TasksOK, StarterInv, ReadInv

\* A starter's record is replaced.
LEMMA StarterSet ==
  ASSUME SandboxInv, NEW s \in Starters, NEW me \in StarterStates,
         starter' = [starter EXCEPT ![s] = me]
  PROVE  /\ starter' \in [Starters -> StarterStates] /\ starter'[s] = me
         /\ \A t \in Starters \ {s} : starter'[t] = starter[t]
PROOF
<1>1. starter \in [Starters -> StarterStates]
  BY StarterNow
<1> QED
  BY <1>1

\* Between its readings a starter has nothing in hand.
LEMMA StarterRests ==
  ASSUME NEW s \in Starters, starter'[s].look = <<>>
  PROVE  ReadSound(starter[s].look, starter[s].whole)'
PROOF
<1>1. \A whole : ReadSound(<<>>, whole)'
  BY NothingRead DEF ReadSound
<1> QED
  BY <1>1, Zenon

\* A starter that is through gives up its lock.
LEMMA Finishes ==
  ASSUME SandboxInv, NEW s \in Starters, NEW end \in {"done", "dead"}, Finish(s, end),
         StoreOK', faults' \in 0..MaxFaults, UNCHANGED <<marker, backing, world, launch, helper, cleanup>>,
         lock' = lock \/ (lock = s /\ lock' = None), attempt' = probed'
  PROVE  SandboxInv'
PROOF
<1>1. [NewStarter EXCEPT !.pc = end] \in StarterStates
  BY NewTasks DEF StarterStates
<1>2. starter' \in [Starters -> StarterStates] /\ \A t \in Starters \ {s} : starter'[t] = starter[t]
  BY StarterNow, <1>1 DEF Finish
<1>3. starter'[s] = [NewStarter EXCEPT !.pc = end]
  BY StarterNow DEF Finish
<1>4. starter'[s].pc = end /\ starter'[s].look = <<>> /\ ~starter'[s].whole
  BY <1>3, NewTasks DEF StarterStates, NewStarter
<1>5. StarterSound(s)'
  BY <1>3, <1>4, NewTasks DEF StarterSound, UnderLock, NewStarter
<1> QED
  BY <1>2, <1>4, <1>5, StarterRests, StarterNow, StarterStep DEF world

LEMMA BeginKeeps ==
  ASSUME SandboxInv, NEW s \in Starters, Begin(s)
  PROVE  SandboxInv'
PROOF
<1>1. CASE Resolvable
  <2>1. [backend |-> backend, view |-> Verdict(Now)] \in Digests
    BY StarterNow, Reported DEF Digests, Owners
  <2> DEFINE me == [starter[s] EXCEPT !.pc = "waiting",
                                      !.digest = [backend |-> backend, view |-> Verdict(Now)]]
  <2>2. starter[s] \in StarterStates /\ starter[s].look = <<>> /\ ~starter[s].whole
        /\ starter[s].under = {}
    BY StarterNow DEF Begin, StarterSound
  <2>3. me \in StarterStates /\ me.pc = "waiting" /\ me.look = <<>> /\ ~me.whole /\ me.under = {}
    BY <2>1, <2>2 DEF StarterStates
  <2>4. starter' = [starter EXCEPT ![s] = me]
    BY <1>1 DEF Begin
  <2> HIDE DEF me
  <2>5. /\ starter' \in [Starters -> StarterStates] /\ starter'[s] = me
        /\ \A t \in Starters \ {s} : starter'[t] = starter[t]
    BY <2>3, <2>4, StarterSet
  <2>6. StarterSound(s)'
    BY <2>3, <2>5 DEF StarterSound, UnderLock
  <2>7. StoreOK' /\ faults' \in 0..MaxFaults /\ attempt' = probed'
    BY StarterNow DEF Begin, StoreOK, files
  <2> QED
    BY <2>3, <2>5, <2>6, <2>7, StarterNow, StarterRests, StarterStep DEF Begin, files, world
<1>2. CASE ~Resolvable
  BY <1>2, StarterNow, Finishes DEF Begin, StoreOK, files
<1> QED
  BY <1>1, <1>2

LEMMA StarterReadsKeeps ==
  ASSUME SandboxInv, NEW s \in Starters, StarterReads(s)
  PROVE  SandboxInv'
PROOF
<1>1. /\ Append(starter[s].look, guard[Order[Len(starter[s].look) + 1]]) \in Looks
      /\ ReadSound(Append(starter[s].look, guard[Order[Len(starter[s].look) + 1]]),
                   starter[s].whole \/ Complete(guard))
  <2>1. starter[s].look \in Looks /\ starter[s].whole \in BOOLEAN
    BY StarterNow DEF StarterStates
  <2>2. WorldOK /\ GuardInv /\ ReadSound(starter[s].look, starter[s].whole) /\ Reads(starter[s].look)
    BY StarterNow DEF SandboxInv, StarterReads
  <2> QED
    BY <2>1, <2>2, ReadsFurther
<1> DEFINE me == Further(starter[s])
<1>2. me \in StarterStates
  BY <1>1, StarterNow DEF Further, StarterStates
<1>3. /\ me.look = Append(starter[s].look, guard[Order[Len(starter[s].look) + 1]])
      /\ me.whole = (starter[s].whole \/ Complete(guard))
      /\ me.pc = starter[s].pc /\ me.found = starter[s].found /\ me.under = starter[s].under
      /\ me.result = starter[s].result
  <2>1. starter[s] \in StarterStates
    BY StarterNow
  <2> QED
    BY <2>1 DEF Further, StarterStates
<1>4. starter' = [starter EXCEPT ![s] = me]
  BY DEF StarterReads
<1> HIDE DEF me
<1>5. /\ starter' \in [Starters -> StarterStates] /\ starter'[s] = me
      /\ \A t \in Starters \ {s} : starter'[t] = starter[t]
  BY <1>2, <1>4, StarterSet
<1>6. StarterSound(s)'
  BY <1>3, <1>5, StarterNow DEF StarterReads, StarterSound, UnderLock, world
<1>7. ReadSound(starter[s].look, starter[s].whole)'
  <2>1. starter'[s].look = Append(starter[s].look, guard[Order[Len(starter[s].look) + 1]])
        /\ starter'[s].whole = (starter[s].whole \/ Complete(guard)) /\ guard' = guard
    BY <1>3, <1>5 DEF StarterReads, world
  <2>2. ReadSound(starter'[s].look, starter'[s].whole)
    BY <2>1, <1>1, Zenon
  <2> QED
    BY <2>1, <2>2 DEF ReadSound, Stands
<1>8. StoreOK' /\ faults' \in 0..MaxFaults /\ attempt' = probed'
  BY StarterNow DEF StarterReads, StoreOK, files
<1> QED
  BY <1>5, <1>6, <1>7, <1>8, StarterNow, StarterStep DEF StarterReads, files, world

LEMMA NoLockKeeps ==
  ASSUME SandboxInv, NEW s \in Starters, NoLock(s)
  PROVE  SandboxInv'
PROOF
BY StarterNow, Finishes DEF NoLock, StoreOK, files

\* The step of a starter that goes on with what it has.
LEMMA GoesOn ==
  ASSUME SandboxInv, NEW s \in Starters,
         NEW step \in {"announce", "hold", "probing", "record", "raised", "elevating"}, Go(s, step),
         helper' \in [Starters -> HelperStates],
         \A t \in Starters : helper'[t] = helper[t] \/ helper'[t].pc \notin {"ensuring", "adding"},
         StoreOK', faults' \in 0..MaxFaults, UNCHANGED <<world, launch, cleanup>>,
         UNCHANGED <<marker, backing>> \/ (lock = s /\ VerifiedMeansProbed'), attempt' = probed',
         lock' = s /\ (lock = None \/ lock = s),
         starter[s].pc \notin {"probing", "brokered"},
         step \in {"announce", "hold", "elevating", "probing"} => starter[s].under = {},
         step \in {"elevating", "probing"} => starter[s].found = backend /\ backend # None
  PROVE  SandboxInv'
PROOF
<1>1. starter[s] \in StarterStates /\ starter[s].look = <<>> /\ ~starter[s].whole
  BY StarterNow DEF StarterSound
<1> DEFINE me == [starter[s] EXCEPT !.pc = step]
<1>2. /\ me \in StarterStates /\ me.pc = step /\ me.look = <<>> /\ ~me.whole
      /\ me.under = starter[s].under /\ me.found = starter[s].found
  BY <1>1 DEF StarterStates
<1>3. starter' = [starter EXCEPT ![s] = me]
  BY DEF Go
<1> HIDE DEF me
<1>4. /\ starter' \in [Starters -> StarterStates] /\ starter'[s] = me
      /\ \A t \in Starters \ {s} : starter'[t] = starter[t]
  BY <1>2, <1>3, StarterSet
<1>5. StarterSound(s)'
  BY <1>2, <1>4 DEF StarterSound, UnderLock, world
<1> QED
  BY <1>2, <1>4, StarterRests, <1>5, StarterStep DEF world

LEMMA DecideKeeps ==
  ASSUME SandboxInv, NEW s \in Starters, Decide(s)
  PROVE  SandboxInv'
PROOF
<1> DEFINE reused == s \notin Forced
                     /\ (Status(starter[s].digest.backend) = "verified" \/ Cooling(starter[s].digest))
<1>1. CASE reused
  BY <1>1, StarterNow, Finishes DEF Decide, StoreOK, world
<1>2. CASE ~reused
  <2>1. attempt' \in Attempts /\ probed' = attempt'
    BY <1>2, StarterNow DEF Decide, Attempts, StarterStates, MarkerStatus
  <2>2. lock' = s /\ lock = None /\ Go(s, "announce") /\ starter[s].under = {}
    BY <1>2, StarterNow DEF Decide, StarterSound
  <2>3. StoreOK'
    BY <2>1, <2>2, StarterNow DEF Decide, StoreOK
  <2> QED
    BY <2>1, <2>2, <2>3, StarterNow, GoesOn DEF Decide
<1> QED
  BY <1>1, <1>2

LEMMA AnnounceKeeps ==
  ASSUME SandboxInv, NEW s \in Starters, Announce(s)
  PROVE  SandboxInv'
PROOF
<1>1. marker' \in Markers /\ marker'.status = "verifying"
  BY DEF Announce, NoMarker, Markers, MarkerStatus, Owners
<1>2. lock = s /\ lock' = s /\ Go(s, "hold") /\ starter[s].under = {}
  BY StarterNow DEF Announce, StarterSound, UnderLock
<1>3. StoreOK' /\ VerifiedMeansProbed' /\ attempt' = probed'
  BY <1>1, StarterNow DEF Announce, StoreOK, VerifiedMeansProbed
<1> QED
  BY <1>2, <1>3, StarterNow, GoesOn DEF Announce

LEMMA HoldKeeps ==
  ASSUME SandboxInv, NEW s \in Starters, Hold(s)
  PROVE  SandboxInv'
PROOF
<1>1. /\ starter[s] \in StarterStates /\ starter[s].look = <<>> /\ ~starter[s].whole
      /\ starter[s].under = {} /\ lock = s /\ backend \in Owners /\ backend # None
  BY StarterNow DEF Hold, StarterSound, UnderLock, Resolvable
<1> DEFINE me == [starter[s] EXCEPT !.pc = "guard", !.found = backend]
<1>2. /\ me \in StarterStates /\ me.pc = "guard" /\ me.look = <<>> /\ ~me.whole
      /\ me.under = {} /\ me.found = backend
  BY <1>1 DEF StarterStates
<1>3. starter' = [starter EXCEPT ![s] = me] /\ lock' = lock /\ backend' = backend
  BY DEF Hold, world
<1> HIDE DEF me
<1>4. /\ starter' \in [Starters -> StarterStates] /\ starter'[s] = me
      /\ \A t \in Starters \ {s} : starter'[t] = starter[t]
  BY <1>2, <1>3, StarterSet
<1>5. StarterSound(s)'
  BY <1>1, <1>2, <1>3, <1>4 DEF StarterSound, UnderLock
<1>6. StoreOK' /\ faults' \in 0..MaxFaults /\ attempt' = probed'
  BY StarterNow DEF Hold, StoreOK, files
<1> QED
  BY <1>2, <1>4, <1>5, <1>6, StarterNow, StarterRests, StarterStep DEF Hold, files, world

LEMMA AfreshFields ==
  ASSUME NEW r \in StarterStates
  PROVE  /\ Afresh(r) \in StarterStates /\ Afresh(r).look = <<>> /\ ~Afresh(r).whole
         /\ Afresh(r).pc = r.pc /\ Afresh(r).found = r.found /\ Afresh(r).result = r.result
         /\ Afresh(r).under = r.under
PROOF
BY NothingRead DEF Afresh, StarterStates

\* The base verifier ends with a result it may name.
LEMMA ConcludesKeeps ==
  ASSUME SandboxInv, NEW s \in Starters, NEW r \in StarterStates, Concludes(s, r),
         lock = s, r.result = "pass" => r.under = {<<r.found, TRUE>>},
         helper' \in [Starters -> HelperStates],
         \A t \in Starters : helper'[t] = helper[t] \/ helper'[t].pc \notin {"ensuring", "adding"},
         UNCHANGED <<lock, files, world, launch, cleanup, faults>>
  PROVE  SandboxInv'
PROOF
<1>1. PICK next \in {"second", "publish"} :
           starter' = [starter EXCEPT ![s] = [Afresh(r) EXCEPT !.pc = next, !.at = clock]]
  BY DEF Concludes
<1> DEFINE me == [Afresh(r) EXCEPT !.pc = next, !.at = clock]
<1>2. /\ me \in StarterStates /\ me.pc = next /\ me.look = <<>> /\ ~me.whole
      /\ me.under = r.under /\ me.found = r.found /\ me.result = r.result
  <2>1. clock \in Nat /\ Afresh(r) \in StarterStates
    BY StarterNow, AfreshFields
  <2>2. /\ me \in StarterStates /\ me.pc = next /\ me.look = Afresh(r).look /\ me.whole = Afresh(r).whole
        /\ me.under = Afresh(r).under /\ me.found = Afresh(r).found /\ me.result = Afresh(r).result
    BY <2>1 DEF StarterStates
  <2> QED
    BY <2>2, AfreshFields
<1>3. starter' = [starter EXCEPT ![s] = me]
  BY <1>1
<1> HIDE DEF me
<1>4. /\ starter' \in [Starters -> StarterStates] /\ starter'[s] = me
      /\ \A t \in Starters \ {s} : starter'[t] = starter[t]
  BY <1>2, <1>3, StarterSet
<1>5. StarterSound(s)'
  BY <1>2, <1>4 DEF StarterSound, UnderLock
<1>6. StoreOK' /\ attempt' = probed'
  BY StarterNow DEF StoreOK, files
<1> QED
  BY <1>2, <1>4, <1>5, <1>6, StarterRests, StarterNow, StarterStep DEF files, world

LEMMA UnmeasuredKeeps ==
  ASSUME SandboxInv, NEW s \in Starters, Unmeasured(s), lock = s,
         helper' \in [Starters -> HelperStates],
         \A t \in Starters : helper'[t] = helper[t] \/ helper'[t].pc \notin {"ensuring", "adding"},
         UNCHANGED <<lock, files, world, launch, cleanup, faults>>
  PROVE  SandboxInv'
PROOF
<1> DEFINE r == [starter[s] EXCEPT !.result = "unmeasured"]
<1>1. starter[s] \in StarterStates
  BY StarterNow
<1>2. r \in StarterStates /\ r.result = "unmeasured"
  BY <1>1 DEF StarterStates
<1>3. Concludes(s, r)
  BY DEF Unmeasured
<1> HIDE DEF r
<1> QED
  BY <1>2, <1>3, ConcludesKeeps

LEMMA EnsureGuardKeeps ==
  ASSUME SandboxInv, NEW s \in Starters, EnsureGuard(s)
  PROVE  SandboxInv'
PROOF
<1>1. /\ lock = s /\ starter[s].under = {} /\ starter[s].found = backend /\ backend # None
      /\ starter[s].pc = "guard"
  BY StarterNow DEF EnsureGuard, StarterSound, UnderLock
<1>2. StoreOK' /\ faults' \in 0..MaxFaults /\ attempt' = probed'
  BY StarterNow DEF EnsureGuard, StoreOK, files
<1>3. CASE Go(s, "probing") /\ UNCHANGED helper
  BY <1>1, <1>2, <1>3, StarterNow, GoesOn DEF EnsureGuard, files
<1>4. CASE Go(s, "elevating") /\ helper' = [helper EXCEPT ![s].pc = "connecting"]
  <2>1. helper[s] \in HelperStates
    BY StarterNow
  <2>2. [helper[s] EXCEPT !.pc = "connecting"] \in HelperStates
        /\ [helper[s] EXCEPT !.pc = "connecting"].pc = "connecting"
    BY <2>1 DEF HelperStates
  <2>3. helper' = [helper EXCEPT ![s] = [helper[s] EXCEPT !.pc = "connecting"]]
    BY <1>4
  <2>4. /\ helper' \in [Starters -> HelperStates]
        /\ \A t \in Starters : helper'[t] = helper[t] \/ helper'[t].pc \notin {"ensuring", "adding"}
    BY <2>2, <2>3, StarterNow
  <2> QED
    BY <1>1, <1>2, <1>4, <2>4, GoesOn DEF EnsureGuard, files
<1>5. CASE Unmeasured(s) /\ UNCHANGED helper
  BY <1>1, <1>5, StarterNow, UnmeasuredKeeps DEF EnsureGuard
<1> QED
  BY <1>3, <1>4, <1>5 DEF EnsureGuard

LEMMA ElevatedKeeps ==
  ASSUME SandboxInv, NEW s \in Starters, Elevated(s)
  PROVE  SandboxInv'
PROOF
<1>1. /\ lock = s /\ starter[s].under = {} /\ starter[s].found = backend /\ backend # None
      /\ starter[s].pc = "elevating"
  BY StarterNow DEF Elevated, StarterSound, UnderLock
<1>2. StoreOK' /\ faults' \in 0..MaxFaults /\ attempt' = probed'
  BY StarterNow DEF Elevated, StoreOK, files
<1>3. /\ helper' \in [Starters -> HelperStates]
      /\ \A t \in Starters : helper'[t] = helper[t] \/ helper'[t].pc \notin {"ensuring", "adding"}
  <2>1. NewHelper.pc \notin {"ensuring", "adding"}
    BY DEF NewHelper
  <2> QED
    BY <2>1, NewTasks, StarterNow DEF Elevated
<1>4. CASE Go(s, "probing")
  BY <1>1, <1>2, <1>3, <1>4, GoesOn DEF Elevated, files
<1>5. CASE Unmeasured(s)
  BY <1>1, <1>3, <1>5, UnmeasuredKeeps DEF Elevated
<1> QED
  BY <1>4, <1>5 DEF Elevated

LEMMA ElevationTimeoutKeeps ==
  ASSUME SandboxInv, NEW s \in Starters, ElevationTimeout(s)
  PROVE  SandboxInv'
PROOF
<1>1. lock = s
  BY StarterNow DEF ElevationTimeout, StarterSound, UnderLock
<1> QED
  BY <1>1, StarterNow, UnmeasuredKeeps DEF ElevationTimeout

LEMMA ProbeKeeps ==
  ASSUME SandboxInv, NEW s \in Starters, Probe(s)
  PROVE  SandboxInv'
PROOF
<1>1. /\ lock = s /\ starter[s].under = {} /\ starter[s].found = backend /\ starter[s].pc = "probing"
      /\ ~Reads(starter[s].look) /\ starter[s] \in StarterStates
  BY StarterNow DEF Probe, HasRead, StarterSound, UnderLock
<1>2. PICK x \in {"pass", "fail", "unmeasured"} :
        /\ x = "pass" => Verdict(starter[s].look) = "exact"
        /\ Concludes(s, [starter[s] EXCEPT !.result = x,
                                           !.under = @ \cup {<<backend, starter[s].whole>>}])
  BY DEF Probe
<1> DEFINE r == [starter[s] EXCEPT !.result = x, !.under = @ \cup {<<backend, starter[s].whole>>}]
<1>3. /\ r \in StarterStates /\ r.result = x /\ r.found = starter[s].found
      /\ r.under = starter[s].under \cup {<<backend, starter[s].whole>>}
  <2>1. starter[s].under \cup {<<backend, starter[s].whole>>} \in SUBSET (Owners \X BOOLEAN)
    BY <1>1, StarterNow DEF StarterStates
  <2> QED
    BY <1>1, <2>1 DEF StarterStates
<1>4. Concludes(s, r)
  BY <1>2
<1>5. x = "pass" => starter[s].whole = TRUE
  BY <1>1, <1>2, StarterNow, ExactIsWhole DEF StarterStates
<1> HIDE DEF r
<1>6. r.result = "pass" => r.under = {<<r.found, TRUE>>}
  BY <1>1, <1>3, <1>5
<1> QED
  BY <1>1, <1>3, <1>4, <1>6, StarterNow, ConcludesKeeps DEF Probe

LEMMA SecondKeeps ==
  ASSUME SandboxInv, NEW s \in Starters, Second(s)
  PROVE  SandboxInv'
PROOF
<1> DEFINE same == backend = starter[s].found
           step == IF same THEN "brokered" ELSE "publish"
           result == IF same \/ starter[s].result = "fail" THEN starter[s].result ELSE "unmeasured"
           me == [starter[s] EXCEPT !.pc = step, !.result = result]
<1>1. /\ starter[s] \in StarterStates /\ starter[s].look = <<>> /\ ~starter[s].whole /\ lock = s
      /\ starter[s].pc = "second" /\ backend # None
      /\ starter[s].result = "pass" => starter[s].under = {<<starter[s].found, TRUE>>}
  BY StarterNow DEF Second, StarterSound, UnderLock, Resolvable
<1>2. step \in {"brokered", "publish"} /\ result \in {"none", "pass", "fail", "unmeasured"}
  BY <1>1 DEF StarterStates
<1> HIDE DEF step, result
<1>3. /\ me \in StarterStates /\ me.pc = step /\ me.look = <<>> /\ ~me.whole /\ me.result = result
      /\ me.under = starter[s].under /\ me.found = starter[s].found
  BY <1>1, <1>2 DEF StarterStates
<1>4. starter' = [starter EXCEPT ![s] = me]
  BY DEF Second, step, result
<1>5. (step = "brokered" => same) /\ (result = "pass" => starter[s].result = "pass")
  BY DEF step, result
<1> HIDE DEF me, same
<1>6. /\ starter' \in [Starters -> StarterStates] /\ starter'[s] = me
      /\ \A t \in Starters \ {s} : starter'[t] = starter[t]
  BY <1>3, <1>4, StarterSet
<1>7. StarterSound(s)'
  <2>1. lock' = s /\ backend' = backend
    BY <1>1 DEF Second, world
  <2>2. me.result = "pass" => me.under = {<<me.found, TRUE>>}
    BY <1>1, <1>3, <1>5
  <2> QED
    BY <1>1, <1>2, <1>3, <1>5, <1>6, <2>1, <2>2 DEF StarterSound, UnderLock, same
<1>8. StoreOK' /\ attempt' = probed'
  BY StarterNow DEF Second, StoreOK, files
<1> QED
  BY <1>3, <1>6, <1>7, <1>8, StarterRests, StarterNow, StarterStep DEF Second, files, world

LEMMA BrokeredKeeps ==
  ASSUME SandboxInv, NEW s \in Starters, Brokered(s)
  PROVE  SandboxInv'
PROOF
<1>1. /\ lock = s /\ starter[s].found = backend /\ starter[s].pc = "brokered"
      /\ starter[s].result = "pass" => starter[s].under = {<<starter[s].found, TRUE>>}
      /\ ~Reads(starter[s].look) /\ starter[s] \in StarterStates
  BY StarterNow DEF Brokered, HasRead, StarterSound, UnderLock
<1> DEFINE ends(x) == IF x = "pass" \/ starter[s].result = "fail" THEN starter[s].result
                      ELSE IF x = "fail" THEN x ELSE "unmeasured"
           under == starter[s].under \cup {<<backend, starter[s].whole>>}
<1>2. PICK x \in {"pass", "fail", "unmeasured"} :
        /\ x = "pass" => Verdict(starter[s].look) = "exact"
        /\ starter' = [starter EXCEPT ![s] = [Afresh(starter[s]) EXCEPT
                         !.pc = "publish", !.result = ends(x), !.under = under]]
  BY DEF Brokered
<1> DEFINE me == [Afresh(starter[s]) EXCEPT !.pc = "publish", !.result = ends(x), !.under = under]
<1>3. Afresh(starter[s]) \in StarterStates /\ Afresh(starter[s]).look = <<>> /\ ~Afresh(starter[s]).whole
      /\ Afresh(starter[s]).found = starter[s].found /\ Afresh(starter[s]).result = starter[s].result
      /\ Afresh(starter[s]).under = starter[s].under
  BY <1>1, AfreshFields
<1>4. ends(x) \in {"none", "pass", "fail", "unmeasured"} /\ under \in SUBSET (Owners \X BOOLEAN)
  BY <1>1, StarterNow DEF StarterStates
<1>5. ends(x) = "pass" => x = "pass" /\ starter[s].result = "pass"
  BY <1>2
<1>6. x = "pass" => starter[s].whole = TRUE
  BY <1>1, <1>2, StarterNow, ExactIsWhole DEF StarterStates
<1>7. starter' = [starter EXCEPT ![s] = me]
  BY <1>2
<1> HIDE DEF ends, under
<1>8. /\ me \in StarterStates /\ me.pc = "publish" /\ me.look = <<>> /\ ~me.whole
      /\ me.result = ends(x) /\ me.under = under /\ me.found = starter[s].found
  BY <1>3, <1>4 DEF StarterStates
<1>9. me.result = "pass" => me.under = {<<me.found, TRUE>>}
  BY <1>1, <1>5, <1>6, <1>8 DEF under
<1> HIDE DEF me
<1>10. /\ starter' \in [Starters -> StarterStates] /\ starter'[s] = me
       /\ \A t \in Starters \ {s} : starter'[t] = starter[t]
  BY <1>7, <1>8, StarterSet
<1>11. StarterSound(s)'
  <2>1. lock' = s
    BY <1>1 DEF Brokered
  <2> QED
    BY <1>8, <1>9, <1>10, <2>1 DEF StarterSound, UnderLock
<1>12. StoreOK' /\ attempt' = probed'
  BY StarterNow DEF Brokered, StoreOK, files
<1> QED
  BY <1>8, <1>10, <1>11, <1>12, StarterRests, StarterNow, StarterStep DEF Brokered, files, world

LEMMA PublishKeeps ==
  ASSUME SandboxInv, NEW s \in Starters, Publish(s)
  PROVE  SandboxInv'
PROOF
<1>1. /\ lock = s /\ starter[s].pc = "publish" /\ starter[s] \in StarterStates
      /\ starter[s].result = "pass" => starter[s].under = {<<starter[s].found, TRUE>>}
  BY StarterNow DEF Publish, StarterSound, UnderLock
<1>2. /\ marker' \in Markers /\ marker'.backend = starter[s].found
      /\ marker'.status = "verified" => starter[s].result = "pass"
  BY <1>1 DEF Publish, Markers, MarkerStatus, StarterStates
<1>3. backing' = starter[s].under /\ backing' \in SUBSET (Owners \X BOOLEAN)
  BY <1>1 DEF Publish, StarterStates
<1>4. VerifiedMeansProbed'
  BY <1>1, <1>2, <1>3 DEF VerifiedMeansProbed
<1>5. StoreOK' /\ attempt' = probed' /\ lock' = s /\ Go(s, "record")
  BY <1>1, <1>2, <1>3, StarterNow DEF Publish, StoreOK
<1> QED
  BY <1>1, <1>4, <1>5, StarterNow, GoesOn DEF Publish

LEMMA RaiseKeeps ==
  ASSUME SandboxInv, NEW s \in Starters, Raise(s)
  PROVE  SandboxInv'
PROOF
<1>1. lock = s /\ starter[s].pc \in {"hold", "publish", "second"} /\ Go(s, "raised")
  BY StarterNow DEF Raise, StarterSound, UnderLock
<1>2. faults' \in 0..MaxFaults
  BY StarterNow, SandboxAssumption DEF Raise, Fault
<1>3. StoreOK' /\ attempt' = probed'
  BY StarterNow DEF Raise, StoreOK, files
<1> QED
  BY <1>1, <1>2, <1>3, StarterNow, GoesOn DEF Raise, files

LEMMA RecordKeeps ==
  ASSUME SandboxInv, NEW s \in Starters, Record(s)
  PROVE  SandboxInv'
PROOF
<1>1. lock = s
  BY StarterNow DEF Record, StarterSound, UnderLock
<1> DEFINE ended == IF starter[s].pc = "raised" THEN "unverified" ELSE Status(starter[s].digest.backend)
<1>2. ended \in {"none", "stale"} \cup MarkerStatus
  BY StarterNow, Reported DEF MarkerStatus
<1>3. starter[s].digest \in Digests /\ attempt \in Attempts
  BY StarterNow DEF StarterStates
<1>4. attempt' = [attempt EXCEPT !.status = ended, !.digest = starter[s].digest] /\ probed' = attempt'
  BY DEF Record
<1> HIDE DEF ended
<1>5. attempt' \in Attempts
  BY <1>2, <1>3, <1>4 DEF Attempts
<1>6. StoreOK'
  BY <1>4, <1>5, StarterNow DEF Record, StoreOK
<1> QED
  BY <1>1, <1>4, <1>6, StarterNow, Finishes DEF Record

LEMMA StarterDiesKeeps ==
  ASSUME SandboxInv, NEW s \in Starters, StarterDies(s)
  PROVE  SandboxInv'
PROOF
<1>1. faults' \in 0..MaxFaults
  BY StarterNow, SandboxAssumption DEF StarterDies, Fault
<1>2. StoreOK' /\ attempt' = probed' /\ (lock' = lock \/ (lock = s /\ lock' = None))
  BY StarterNow DEF StarterDies, StoreOK, files
<1> QED
  BY <1>1, <1>2, Finishes DEF StarterDies, files

-----------------------------------------------------------------------------
(* The steps of a launch                                                   *)

LEMMA LaunchNow ==
  ASSUME SandboxInv, NEW l \in Launches
  PROVE  /\ launch \in [Launches -> LaunchStates] /\ launch[l] \in LaunchStates
         /\ marker \in Markers /\ backend \in Owners /\ clock \in Nat /\ faults \in 0..MaxFaults
         /\ l # None
         /\ LaunchSound(l) /\ ReadSound(launch[l].look, launch[l].whole)
PROOF
BY SandboxAssumption DEF SandboxInv, StoreOK, WorldOK, TasksOK, LaunchInv, ReadInv

LEMMA LaunchSet ==
  ASSUME SandboxInv, NEW l \in Launches, NEW me \in LaunchStates,
         launch' = [launch EXCEPT ![l] = me]
  PROVE  /\ launch' \in [Launches -> LaunchStates] /\ launch'[l] = me
         /\ \A m \in Launches \ {l} : launch'[m] = launch[m]
PROOF
<1>1. launch \in [Launches -> LaunchStates]
  BY LaunchNow
<1> QED
  BY <1>1

LEMMA LaunchRests ==
  ASSUME NEW l \in Launches, launch'[l].look = <<>>
  PROVE  ReadSound(launch[l].look, launch[l].whole)'
PROOF
<1>1. \A whole : ReadSound(<<>>, whole)'
  BY NothingRead DEF ReadSound
<1> QED
  BY <1>1, Zenon

LEMMA LaunchEnds ==
  ASSUME SandboxInv, NEW l \in Launches, NEW end \in {"created", "refused"}, EndLaunch(l, end),
         faults' \in 0..MaxFaults, UNCHANGED <<files, world, starter, helper, cleanup>>,
         lock' = lock \/ (lock = l /\ lock' = None)
  PROVE  SandboxInv'
PROOF
<1> DEFINE me == [NewLaunch EXCEPT !.pc = end]
<1>1. me \in LaunchStates /\ me.pc = end /\ me.look = <<>> /\ ~me.whole
  BY NewLaunches DEF LaunchStates
<1>2. launch' = [launch EXCEPT ![l] = me]
  BY DEF EndLaunch
<1> HIDE DEF me
<1>3. /\ launch' \in [Launches -> LaunchStates] /\ launch'[l] = me
      /\ \A m \in Launches \ {l} : launch'[m] = launch[m]
  BY <1>1, <1>2, LaunchSet
<1>4. LaunchSound(l)'
  BY <1>1, <1>3 DEF LaunchSound
<1> QED
  BY <1>1, <1>3, <1>4, LaunchRests, LaunchStep

LEMMA BindKeeps ==
  ASSUME SandboxInv, NEW l \in Launches, Bind(l)
  PROVE  SandboxInv'
PROOF
<1> DEFINE me == [launch[l] EXCEPT !.pc = "waiting", !.bound = backend, !.evidence = marker]
<1>1. CASE Resolvable /\ Status(backend) = "verified"
  <2>1. launch[l] \in LaunchStates /\ launch[l].look = <<>> /\ ~launch[l].whole
    BY LaunchNow DEF Bind, LaunchSound
  <2>2. backend \in Owners /\ marker \in Markers
    BY LaunchNow
  <2>3. me \in LaunchStates /\ me.pc = "waiting" /\ me.look = <<>> /\ ~me.whole /\ me.bound = backend
    BY <2>1, <2>2 DEF LaunchStates
  <2>4. launch' = [launch EXCEPT ![l] = me]
    BY <1>1 DEF Bind
  <2> HIDE DEF me
  <2>5. /\ launch' \in [Launches -> LaunchStates] /\ launch'[l] = me
        /\ \A m \in Launches \ {l} : launch'[m] = launch[m]
    BY <2>3, <2>4, LaunchSet
  <2>6. LaunchSound(l)'
    BY <1>1, <2>3, <2>5 DEF LaunchSound, Bind, world, Resolvable
  <2> QED
    BY <2>3, <2>5, <2>6, LaunchNow, LaunchRests, LaunchStep DEF Bind
<1>2. CASE ~(Resolvable /\ Status(backend) = "verified")
  BY <1>2, LaunchNow, LaunchEnds DEF Bind
<1> QED
  BY <1>1, <1>2

LEMMA LaunchNoLockKeeps ==
  ASSUME SandboxInv, NEW l \in Launches, LaunchNoLock(l)
  PROVE  SandboxInv'
PROOF
BY LaunchNow, LaunchEnds DEF LaunchNoLock

\* A launch goes on, with the reading and the lock that it has.
LEMMA LaunchGoesOn ==
  ASSUME SandboxInv, NEW l \in Launches,
         NEW step \in {"guard", "preflight", "last"}, LaunchTo(l, step),
         UNCHANGED <<files, world, starter, helper, cleanup, faults>>,
         lock' = l /\ (lock = None \/ lock = l),
         launch[l].pc \in {"waiting", "guard", "preflight"},
         step \in {"preflight", "last"} => launch[l].whole
  PROVE  SandboxInv'
PROOF
<1> DEFINE me == [launch[l] EXCEPT !.pc = step]
<1>1. launch[l] \in LaunchStates
  BY LaunchNow
<1>2. /\ me \in LaunchStates /\ me.pc = step /\ me.look = launch[l].look /\ me.whole = launch[l].whole
      /\ me.bound = launch[l].bound
  BY <1>1 DEF LaunchStates
<1>3. launch' = [launch EXCEPT ![l] = me]
  BY DEF LaunchTo
<1> HIDE DEF me
<1>4. /\ launch' \in [Launches -> LaunchStates] /\ launch'[l] = me
      /\ \A m \in Launches \ {l} : launch'[m] = launch[m]
  BY <1>2, <1>3, LaunchSet
<1>5. LaunchSound(l)'
  BY <1>2, <1>4, LaunchNow DEF LaunchSound, world
<1>6. ReadSound(launch[l].look, launch[l].whole)'
  <2>1. ReadSound(launch[l].look, launch[l].whole) /\ guard' = guard
    BY LaunchNow DEF world
  <2> QED
    BY <1>2, <1>4, <2>1 DEF ReadSound, Stands
<1> QED
  BY <1>4, <1>5, <1>6, LaunchNow, LaunchStep

LEMMA CheckKeeps ==
  ASSUME SandboxInv, NEW l \in Launches, Check(l)
  PROVE  SandboxInv'
PROOF
<1>1. CASE lock' = l /\ LaunchTo(l, "guard")
  BY <1>1, LaunchGoesOn DEF Check
<1>2. CASE UNCHANGED lock /\ EndLaunch(l, "refused")
  BY <1>2, LaunchNow, LaunchEnds DEF Check
<1> QED
  BY <1>1, <1>2 DEF Check

LEMMA LaunchReadsKeeps ==
  ASSUME SandboxInv, NEW l \in Launches, LaunchReads(l)
  PROVE  SandboxInv'
PROOF
<1> DEFINE me == Further(launch[l])
<1>1. /\ Append(launch[l].look, guard[Order[Len(launch[l].look) + 1]]) \in Looks
      /\ ReadSound(Append(launch[l].look, guard[Order[Len(launch[l].look) + 1]]),
                   launch[l].whole \/ Complete(guard))
  <2>1. launch[l].look \in Looks /\ launch[l].whole \in BOOLEAN
    BY LaunchNow DEF LaunchStates
  <2>2. WorldOK /\ GuardInv /\ ReadSound(launch[l].look, launch[l].whole) /\ Reads(launch[l].look)
    BY LaunchNow DEF SandboxInv, LaunchReads
  <2> QED
    BY <2>1, <2>2, ReadsFurther
<1>2. launch[l] \in LaunchStates
  BY LaunchNow
<1>3. /\ me \in LaunchStates
      /\ me.look = Append(launch[l].look, guard[Order[Len(launch[l].look) + 1]])
      /\ me.whole = (launch[l].whole \/ Complete(guard))
      /\ me.pc = launch[l].pc /\ me.bound = launch[l].bound
  BY <1>1, <1>2 DEF Further, LaunchStates
<1>4. launch' = [launch EXCEPT ![l] = me]
  BY DEF LaunchReads
<1> HIDE DEF me
<1>5. /\ launch' \in [Launches -> LaunchStates] /\ launch'[l] = me
      /\ \A m \in Launches \ {l} : launch'[m] = launch[m]
  BY <1>3, <1>4, LaunchSet
<1>6. LaunchSound(l)'
  BY <1>3, <1>5, LaunchNow DEF LaunchReads, LaunchSound, world
<1>7. ReadSound(launch[l].look, launch[l].whole)'
  <2>1. launch'[l].look = Append(launch[l].look, guard[Order[Len(launch[l].look) + 1]])
        /\ launch'[l].whole = (launch[l].whole \/ Complete(guard)) /\ guard' = guard
    BY <1>3, <1>5 DEF LaunchReads, world
  <2>2. ReadSound(launch'[l].look, launch'[l].whole)
    BY <2>1, <1>1, Zenon
  <2> QED
    BY <2>1, <2>2 DEF ReadSound, Stands
<1> QED
  BY <1>5, <1>6, <1>7, LaunchNow, LaunchStep DEF LaunchReads

LEMMA VerifyGuardKeeps ==
  ASSUME SandboxInv, NEW l \in Launches, VerifyGuard(l)
  PROVE  SandboxInv'
PROOF
<1>1. lock = l
  BY LaunchNow DEF VerifyGuard, LaunchSound
<1>2. CASE Verdict(launch[l].look) = "exact"
  <2>1. launch[l].whole
    BY <1>2, LaunchNow, ExactIsWhole DEF VerifyGuard, LaunchStates
  <2> QED
    BY <1>1, <1>2, <2>1, LaunchGoesOn DEF VerifyGuard
<1>3. CASE Verdict(launch[l].look) # "exact"
  BY <1>1, <1>3, LaunchNow, LaunchEnds DEF VerifyGuard
<1> QED
  BY <1>2, <1>3

LEMMA PreflightKeeps ==
  ASSUME SandboxInv, NEW l \in Launches, Preflight(l)
  PROVE  SandboxInv'
PROOF
<1>1. lock = l /\ launch[l].whole
  BY LaunchNow DEF Preflight, LaunchSound
<1>2. CASE LaunchTo(l, "last") /\ UNCHANGED lock
  BY <1>1, <1>2, LaunchGoesOn DEF Preflight
<1>3. CASE EndLaunch(l, "refused") /\ lock' = None
  BY <1>1, <1>3, LaunchNow, LaunchEnds DEF Preflight
<1> QED
  BY <1>2, <1>3 DEF Preflight

LEMMA LastLookKeeps ==
  ASSUME SandboxInv, NEW l \in Launches, LastLook(l)
  PROVE  SandboxInv'
PROOF
<1>1. /\ lock = l /\ launch[l].whole /\ launch[l] \in LaunchStates /\ launch[l].bound = backend
      /\ backend # None
  BY LaunchNow DEF LastLook, LaunchSound
<1> DEFINE me == [launch[l] EXCEPT !.pc = "create", !.looked = clock]
<1>2. CASE Status(launch[l].bound) = "verified" /\ marker = launch[l].evidence
  <2>1. marker.status = "verified" /\ marker.backend = backend /\ clock - marker.at <= Ttl
    <3>1. marker.status = "verified" /\ BoundTo(launch[l].bound) /\ ~(clock - marker.at > Ttl)
      BY <1>2 DEF Status
    <3>2. marker.at \in Nat /\ clock \in Nat
      BY LaunchNow DEF Markers
    <3> QED
      BY <1>1, <3>1, <3>2, SandboxAssumption DEF BoundTo
  <2>2. clock \in Nat
    BY LaunchNow
  <2>3. /\ me \in LaunchStates /\ me.pc = "create" /\ me.look = launch[l].look /\ me.whole = launch[l].whole
        /\ me.bound = launch[l].bound /\ me.evidence = launch[l].evidence /\ me.looked = clock
    BY <1>1, <2>2 DEF LaunchStates
  <2>4. launch' = [launch EXCEPT ![l] = me]
    BY <1>2 DEF LastLook
  <2> HIDE DEF me
  <2>5. /\ launch' \in [Launches -> LaunchStates] /\ launch'[l] = me
        /\ \A m \in Launches \ {l} : launch'[m] = launch[m]
    BY <2>3, <2>4, LaunchSet
  <2>6. LaunchSound(l)'
    <3>1. lock' = lock /\ marker' = marker /\ backend' = backend /\ clock' = clock /\ clock <= clock
      BY <1>2, <2>2 DEF LastLook, files, world
    <3> QED
      BY <1>1, <1>2, <2>1, <2>3, <2>5, <3>1 DEF LaunchSound
  <2>7. ReadSound(launch[l].look, launch[l].whole)'
    <3>1. ReadSound(launch[l].look, launch[l].whole) /\ guard' = guard
      BY LaunchNow DEF LastLook, world
    <3> QED
      BY <2>3, <2>5, <3>1 DEF ReadSound, Stands
  <2> QED
    BY <1>2, <2>5, <2>6, <2>7, LaunchNow, LaunchStep DEF LastLook
<1>3. CASE ~(Status(launch[l].bound) = "verified" /\ marker = launch[l].evidence)
  BY <1>1, <1>3, LaunchNow, LaunchEnds DEF LastLook
<1> QED
  BY <1>2, <1>3

LEMMA CreateKeeps ==
  ASSUME SandboxInv, NEW l \in Launches, Create(l)
  PROVE  SandboxInv'
PROOF
BY LaunchNow, LaunchEnds DEF Create

LEMMA WorkerDiesKeeps ==
  ASSUME SandboxInv, NEW l \in Launches, WorkerDies(l)
  PROVE  SandboxInv'
PROOF
<1>1. faults' \in 0..MaxFaults
  BY LaunchNow, SandboxAssumption DEF WorkerDies, Fault
<1> QED
  BY <1>1, LaunchEnds DEF WorkerDies

-----------------------------------------------------------------------------
(* The steps of an elevated helper                                         *)

LEMMA HelperNow ==
  ASSUME SandboxInv, NEW s \in Starters
  PROVE  /\ helper \in [Starters -> HelperStates] /\ helper[s] \in HelperStates
         /\ guard \in [Objects -> ObjectStates] /\ faults \in 0..MaxFaults
         /\ cleanup \in [pc : {"off", "v4", "v6", "sub", "over"}, look : Looks]
         /\ GuardInv /\ WorldOK
         /\ helper[s].pc \in {"ensuring", "adding"} =>
              /\ helper[s].want \subseteq {"v4", "v6"}
              /\ helper[s].pc = "adding" => helper[s].want # {}
              /\ helper[s].want \in {{"v4"}, {"v6"}} => CutInto
PROOF
BY DEF SandboxInv, WorldOK, TasksOK, HelperInv

\* A helper moves, and of the Guard at most its sublayer comes to stand.
LEMMA HelperStep ==
  ASSUME SandboxInv, NEW s \in Starters, NEW me \in HelperStates,
         helper' = [helper EXCEPT ![s] = me],
         me.pc \in {"ensuring", "adding"} =>
           /\ me.want \subseteq {"v4", "v6"}
           /\ me.pc = "adding" => me.want # {}
           /\ me.want \in {{"v4"}, {"v6"}} => CutInto,
         guard' \in [Objects -> ObjectStates],
         \A x \in {"v4", "v6"} : (guard'[x] # "none") <=> (guard[x] # "none"),
         guard["sub"] # "none" => guard'["sub"] # "none",
         faults' \in 0..MaxFaults, UNCHANGED <<lock, files, backend, clock, starter, launch, cleanup>>
  PROVE  SandboxInv'
PROOF
<1>1. helper' \in [Starters -> HelperStates] /\ helper'[s] = me
      /\ \A t \in Starters \ {s} : helper'[t] = helper[t]
  BY HelperNow
<1>2. HelperInv'
  <2> SUFFICES ASSUME NEW t \in Starters, helper'[t].pc \in {"ensuring", "adding"}
               PROVE  /\ helper'[t].want \subseteq {"v4", "v6"}
                      /\ helper'[t].pc = "adding" => helper'[t].want # {}
                      /\ helper'[t].want \in {{"v4"}, {"v6"}} => CutInto'
    BY DEF HelperInv
  <2>1. CutInto' <=> CutInto
    BY DEF CutInto
  <2>2. CASE t = s
    BY <1>1, <2>1, <2>2
  <2>3. CASE t # s
    BY <1>1, <2>1, <2>3 DEF SandboxInv, HelperInv
  <2> QED
    BY <2>2, <2>3
<1>3. GuardInv'
  BY HelperNow DEF GuardInv, Stands, CutInto
<1>4. Stands("v4") /\ ~Stands("v6") => (Stands("v4") /\ ~Stands("v6"))'
  BY DEF Stands
<1> QED
  BY <1>1, <1>2, <1>3, <1>4, HelperNow, GuardStep

LEMMA HelperComesTo ==
  ASSUME NEW step \in {"failed", "reported", "off"}, NEW me, me = [NewHelper EXCEPT !.pc = step]
  PROVE  me \in HelperStates /\ me.pc = step
PROOF
BY NewTasks DEF HelperStates

LEMMA HelperEndsKeeps ==
  ASSUME SandboxInv, NEW s \in Starters, NEW end \in {"off", "failed", "reported"}, HelperEnds(s, end),
         faults' \in 0..MaxFaults, UNCHANGED <<lock, files, world, starter, launch, cleanup>>
  PROVE  SandboxInv'
PROOF
<1> DEFINE pc == IF starter[s].pc = "elevating" THEN end ELSE "off"
           me == [NewHelper EXCEPT !.pc = pc]
<1>1. pc \in {"off", "failed", "reported"}
  OBVIOUS
<1>2. helper' = [helper EXCEPT ![s] = me]
  BY DEF HelperEnds
<1> HIDE DEF pc
<1>3. me = [NewHelper EXCEPT !.pc = pc]
  OBVIOUS
<1> HIDE DEF me
<1>4. me \in HelperStates /\ me.pc = pc
  BY <1>1, <1>3, HelperComesTo
<1> QED
  BY <1>1, <1>2, <1>4, HelperNow, HelperStep DEF world

LEMMA ProceedKeeps ==
  ASSUME SandboxInv, NEW s \in Starters, Proceed(s)
  PROVE  SandboxInv'
PROOF
<1> DEFINE want == {x \in {"v4", "v6"} : guard[x] = "none"}
           me == [pc |-> "ensuring", look |-> Now, want |-> want]
<1>1. CASE starter[s].pc = "elevating"
  <2>1. want \subseteq {"v4", "v6"}
    OBVIOUS
  <2>2. want \in {{"v4"}, {"v6"}} => CutInto
    <3>1. want = {"v4"} => guard["v4"] = "none" /\ guard["v6"] # "none"
      OBVIOUS
    <3>2. want = {"v6"} => guard["v6"] = "none" /\ guard["v4"] # "none"
      OBVIOUS
    <3> QED
      BY <3>1, <3>2, HelperNow DEF GuardInv, Stands
  <2>3. helper' = [helper EXCEPT ![s] = me]
    BY <1>1 DEF Proceed
  <2> HIDE DEF want
  <2>4. me \in HelperStates /\ me.pc = "ensuring" /\ me.want = want
    BY <2>1, HelperNow, NowLooks DEF HelperStates, Objects
  <2> HIDE DEF me
  <2> QED
    BY <2>1, <2>2, <2>3, <2>4, HelperNow, HelperStep DEF Proceed, world
<1>2. CASE starter[s].pc # "elevating"
  BY <1>2, HelperNow, HelperEndsKeeps DEF Proceed
<1> QED
  BY <1>1, <1>2

\* A helper takes a step that leaves every object standing or not, as it was.
LEMMA HelperToKeeps ==
  ASSUME SandboxInv, NEW s \in Starters, NEW step \in {"adding", "opening", "granted"},
         NEW want \in SUBSET Objects, HelperTo(s, step, want),
         step = "adding" => /\ want \subseteq {"v4", "v6"} /\ want # {}
                            /\ want \in {{"v4"}, {"v6"}} => CutInto,
         guard' \in [Objects -> ObjectStates],
         \A x \in {"v4", "v6"} : (guard'[x] # "none") <=> (guard[x] # "none"),
         guard["sub"] # "none" => guard'["sub"] # "none",
         UNCHANGED <<lock, files, backend, clock, starter, launch, cleanup, faults>>
  PROVE  SandboxInv'
PROOF
<1> DEFINE me == [NewHelper EXCEPT !.pc = step, !.want = want]
<1>2. helper' = [helper EXCEPT ![s] = me]
  BY DEF HelperTo
<1>3. me \in HelperStates /\ me.pc = step /\ me.want = want
  BY NewTasks DEF HelperStates
<1> HIDE DEF me
<1> QED
  BY <1>2, <1>3, HelperNow, HelperStep

LEMMA EnsureSublayerKeeps ==
  ASSUME SandboxInv, NEW s \in Starters, EnsureSublayer(s)
  PROVE  SandboxInv'
PROOF
<1> DEFINE want == helper[s].want
<1>1. /\ want \subseteq {"v4", "v6"} /\ (want \in {{"v4"}, {"v6"}} => CutInto)
  BY HelperNow DEF EnsureSublayer
<1>2. guard \in [Objects -> ObjectStates] /\ faults \in 0..MaxFaults /\ want \in SUBSET Objects
      /\ Objects \in SUBSET Objects
  BY <1>1, HelperNow DEF Objects
<1>3. UNCHANGED <<lock, files, backend, clock, starter, launch, cleanup, faults>>
  BY DEF EnsureSublayer
<1>4. CASE HelperEnds(s, "failed") /\ UNCHANGED guard
  BY <1>2, <1>3, <1>4, HelperEndsKeeps DEF world
<1>5. CASE UNCHANGED guard /\ HelperTo(s, "opening", Objects)
  BY <1>2, <1>3, <1>5, HelperToKeeps
<1>6. CASE UNCHANGED guard /\ want # {} /\ HelperTo(s, "adding", want)
  BY <1>1, <1>2, <1>3, <1>6, HelperToKeeps
<1>7. CASE want = {"v4", "v6"} /\ HelperTo(s, "adding", want) /\ guard' = [guard EXCEPT !["sub"] = "closed"]
  <2>1. guard' \in [Objects -> ObjectStates] /\ guard'["sub"] = "closed"
        /\ guard'["v4"] = guard["v4"] /\ guard'["v6"] = guard["v6"]
    BY <1>2, <1>7 DEF Objects, ObjectStates
  <2>2. \A x \in {"v4", "v6"} : (guard'[x] # "none") <=> (guard[x] # "none")
    BY <2>1
  <2> QED
    BY <1>1, <1>2, <1>3, <1>7, <2>1, <2>2, HelperToKeeps
<1> QED
  BY <1>4, <1>5, <1>6, <1>7 DEF EnsureSublayer

LEMMA OpenKeeps ==
  ASSUME SandboxInv, NEW s \in Starters, Open(s)
  PROVE  SandboxInv'
PROOF
<1> DEFINE want == helper[s].want
           x == Order[4 - Cardinality(want)]
<1>1. guard \in [Objects -> ObjectStates] /\ faults \in 0..MaxFaults /\ want \in SUBSET Objects
  BY HelperNow DEF HelperStates
<1>2. UNCHANGED <<lock, files, backend, clock, starter, launch, cleanup, faults>>
  BY DEF Open
<1>3. \/ /\ guard[x] # "none" /\ guard' = [guard EXCEPT ![x] = "open"]
         /\ HelperTo(s, IF want = {x} THEN "granted" ELSE "opening", want \ {x})
      \/ HelperEnds(s, "failed") /\ UNCHANGED guard
  BY DEF Open
<1> HIDE DEF x, want
<1>4. CASE HelperEnds(s, "failed") /\ UNCHANGED guard
  BY <1>1, <1>2, <1>4, HelperEndsKeeps DEF world
<1>5. CASE /\ guard[x] # "none" /\ guard' = [guard EXCEPT ![x] = "open"]
           /\ HelperTo(s, IF want = {x} THEN "granted" ELSE "opening", want \ {x})
  <2>1. guard' \in [Objects -> ObjectStates]
    BY <1>1, <1>5 DEF ObjectStates
  <2>2. \A y \in Objects : (guard'[y] # "none") <=> (guard[y] # "none")
    BY <1>1, <1>5
  <2>3. want \ {x} \in SUBSET Objects
    BY <1>1
  <2>4. PICK step \in {"granted", "opening"} : HelperTo(s, step, want \ {x})
    BY <1>5
  <2> QED
    BY <1>2, <2>1, <2>2, <2>3, <2>4, HelperToKeeps DEF Objects
<1> QED
  BY <1>3, <1>4, <1>5

LEMMA ReportKeeps ==
  ASSUME SandboxInv, NEW s \in Starters, Report(s)
  PROVE  SandboxInv'
PROOF
<1>1. PICK end \in {"failed", "reported"} : HelperEnds(s, end)
  BY DEF Report
<1> QED
  BY <1>1, HelperNow, HelperEndsKeeps DEF Report

LEMMA HelperDiesKeeps ==
  ASSUME SandboxInv, NEW s \in Starters, HelperDies(s)
  PROVE  SandboxInv'
PROOF
<1>1. PICK end \in {"failed", "off"} : HelperEnds(s, end)
  BY DEF HelperDies
<1>2. faults' \in 0..MaxFaults
  BY HelperNow, SandboxAssumption DEF HelperDies, Fault
<1> QED
  BY <1>1, <1>2, HelperEndsKeeps DEF HelperDies

\* Amid a reading it is noted that the Guard was completed.
LEMMA AmidStarter ==
  ASSUME NEW r \in StarterStates
  PROVE  /\ Amid(r) \in StarterStates
         /\ Amid(r).pc = r.pc /\ Amid(r).look = r.look /\ Amid(r).found = r.found
         /\ Amid(r).result = r.result /\ Amid(r).under = r.under
         /\ Amid(r).whole = (r.whole \/ (Len(r.look) \in 1..2 /\ Complete(guard')))
PROOF
<1>1. r.whole \in BOOLEAN /\ Complete(guard') \in BOOLEAN
  BY DEF StarterStates, Complete
<1>2. CASE Len(r.look) \in 1..2
  <2> DEFINE w == r.whole \/ Complete(guard')
             me == [r EXCEPT !.whole = w]
  <2>1. w \in BOOLEAN
    BY <1>1
  <2>2. Amid(r) = me
    BY <1>2 DEF Amid
  <2> HIDE DEF w
  <2>3. /\ me \in StarterStates /\ me.whole = w
        /\ me.pc = r.pc /\ me.look = r.look /\ me.found = r.found
        /\ me.result = r.result /\ me.under = r.under
    BY <2>1 DEF StarterStates
  <2> QED
    BY <1>2, <2>2, <2>3, Zenon DEF w
<1>3. CASE Len(r.look) \notin 1..2
  <2>1. Amid(r) = r
    BY <1>3 DEF Amid
  <2> QED
    BY <1>1, <1>3, <2>1
<1> QED
  BY <1>2, <1>3

LEMMA AmidLaunch ==
  ASSUME NEW r \in LaunchStates
  PROVE  /\ Amid(r) \in LaunchStates
         /\ Amid(r).pc = r.pc /\ Amid(r).look = r.look /\ Amid(r).bound = r.bound
         /\ Amid(r).evidence = r.evidence /\ Amid(r).looked = r.looked
         /\ Amid(r).whole = (r.whole \/ (Len(r.look) \in 1..2 /\ Complete(guard')))
PROOF
<1>1. r.whole \in BOOLEAN /\ Complete(guard') \in BOOLEAN
  BY DEF LaunchStates, Complete
<1>2. CASE Len(r.look) \in 1..2
  <2> DEFINE w == r.whole \/ Complete(guard')
             me == [r EXCEPT !.whole = w]
  <2>1. w \in BOOLEAN
    BY <1>1
  <2>2. Amid(r) = me
    BY <1>2 DEF Amid
  <2> HIDE DEF w
  <2>3. /\ me \in LaunchStates /\ me.whole = w
        /\ me.pc = r.pc /\ me.look = r.look /\ me.bound = r.bound
        /\ me.evidence = r.evidence /\ me.looked = r.looked
    BY <2>1 DEF LaunchStates
  <2> QED
    BY <1>2, <2>2, <2>3, Zenon DEF w
<1>3. CASE Len(r.look) \notin 1..2
  <2>1. Amid(r) = r
    BY <1>3 DEF Amid
  <2> QED
    BY <1>1, <1>3, <2>1
<1> QED
  BY <1>2, <1>3

\* A reading that found the first filter stays sound when the Guard is completed: whoever is
\* amid it notes the moment.
LEMMA CompletedAmid ==
  ASSUME NEW look \in Looks, NEW whole \in BOOLEAN, ReadSound(look, whole), Complete(guard'),
         NEW now, now = (whole \/ (Len(look) \in 1..2 /\ Complete(guard')))
  PROVE  ReadSound(look, now)'
PROOF
<1>1. Len(look) = 2 => Len(look) \in 1..2
  OBVIOUS
<1>2. Len(look) = 2 => now
  BY <1>1
<1>3. whole => now
  OBVIOUS
<1> QED
  BY <1>2, <1>3 DEF ReadSound

LEMMA NothingAmid == Len(<<>>) \notin 1..2
PROOF
BY NothingRead

LEMMA AddFiltersKeeps ==
  ASSUME SandboxInv, NEW s \in Starters, AddFilters(s)
  PROVE  SandboxInv'
PROOF
<1> DEFINE want == helper[s].want
           added == guard["sub"] # "none" /\ \A x \in want : guard[x] = "none"
<1>1. /\ want \subseteq {"v4", "v6"} /\ want # {} /\ (want \in {{"v4"}, {"v6"}} => CutInto)
      /\ guard \in [Objects -> ObjectStates] /\ GuardInv
  BY HelperNow DEF AddFilters
<1>2. CASE ~added
  BY <1>2, HelperNow, HelperEndsKeeps DEF AddFilters, world
<1>3. CASE added
  <2>1. /\ guard' = [x \in Objects |-> IF x \in want THEN "closed" ELSE guard[x]]
        /\ starter' = [t \in Starters |-> Amid(starter[t])]
        /\ launch' = [l \in Launches |-> Amid(launch[l])]
        /\ HelperTo(s, "opening", Objects)
        /\ UNCHANGED <<lock, files, backend, clock, cleanup, faults>>
    BY <1>3 DEF AddFilters
  <2>2. /\ guard' \in [Objects -> ObjectStates]
        /\ \A x \in want : guard[x] = "none" /\ guard'[x] = "closed"
        /\ \A x \in Objects \ want : guard'[x] = guard[x]
    BY <1>1, <1>3, <2>1 DEF ObjectStates, Objects
  <2>3. want = {"v4"} \/ want = {"v6"} \/ want = {"v4", "v6"}
    BY <1>1
  <2>4. guard["sub"] # "none" /\ guard'["sub"] # "none"
    BY <1>1, <1>3, <2>2 DEF Objects
  <2>5. GuardInv' /\ (Stands("v4") /\ ~Stands("v6") => Complete(guard'))
    <3>1. CutInto' <=> CutInto
      BY <2>1 DEF CutInto
    <3>2. CASE want = {"v4"}
      <4>1. CutInto /\ guard["v4"] = "none" /\ guard'["v6"] = guard["v6"]
        BY <1>1, <2>2, <3>2 DEF Objects
      <4> QED
        BY <2>4, <3>1, <4>1 DEF GuardInv, Stands
    <3>3. CASE want = {"v6"}
      <4>1. CutInto /\ guard'["v6"] = "closed" /\ guard'["v4"] = guard["v4"]
        BY <1>1, <2>2, <3>3 DEF Objects
      <4> QED
        BY <2>4, <3>1, <4>1 DEF GuardInv, Stands, Complete, Objects
    <3>4. CASE want = {"v4", "v6"}
      <4>1. guard'["v6"] = "closed" /\ guard'["v4"] = "closed" /\ guard["v4"] = "none"
        BY <2>2, <3>4
      <4> QED
        BY <2>4, <3>1, <4>1 DEF GuardInv, Stands
    <3> QED
      BY <2>3, <3>2, <3>3, <3>4
  <2>6. StoreOK' /\ WorldOK' /\ VerifiedMeansProbed' /\ attempt' = probed'
    BY <2>1, <2>2 DEF SandboxInv, StoreOK, WorldOK, VerifiedMeansProbed, files
  <2>7. TasksOK' /\ HelperInv'
    <3> DEFINE me == [NewHelper EXCEPT !.pc = "opening", !.want = Objects]
    <3>1. me \in HelperStates /\ me.pc = "opening"
      BY NewTasks DEF HelperStates
    <3>2. helper' = [helper EXCEPT ![s] = me]
      BY <2>1 DEF HelperTo
    <3> HIDE DEF me
    <3>3. helper' \in [Starters -> HelperStates] /\ helper'[s] = me
          /\ \A t \in Starters \ {s} : helper'[t] = helper[t]
      BY <3>1, <3>2, HelperNow
    <3>4. starter' \in [Starters -> StarterStates]
      BY <2>1, AmidStarter DEF SandboxInv, TasksOK
    <3>5. launch' \in [Launches -> LaunchStates]
      BY <2>1, AmidLaunch DEF SandboxInv, TasksOK
    <3>6. HelperInv'
      <4>1. CutInto' <=> CutInto
        BY <2>1 DEF CutInto
      <4> QED
        BY <3>1, <3>3, <4>1 DEF SandboxInv, HelperInv
    <3> QED
      BY <2>1, <3>3, <3>4, <3>5, <3>6 DEF SandboxInv, TasksOK
  <2>8. ASSUME NEW look \in Looks, NEW whole \in BOOLEAN, ReadSound(look, whole),
               NEW now, now = (whole \/ (Len(look) \in 1..2 /\ Complete(guard')))
        PROVE  ReadSound(look, now)'
    <3>1. CASE Complete(guard')
      BY <2>8, <3>1, CompletedAmid
    <3>2. CASE ~Complete(guard')
      <4>1. Len(look) = 2 /\ look[2] # "none" => whole
        BY <2>5, <2>8, <3>2 DEF ReadSound
      <4> QED
        BY <2>8, <3>2, <4>1 DEF ReadSound
    <3> QED
      BY <3>1, <3>2
  <2>9. ReadInv'
    <3>1. ASSUME NEW t \in Starters PROVE ReadSound(starter[t].look, starter[t].whole)'
      <4>1. starter[t] \in StarterStates /\ ReadSound(starter[t].look, starter[t].whole)
            /\ starter'[t] = Amid(starter[t])
        BY <2>1, StarterNow
      <4>2. starter[t].look \in Looks /\ starter[t].whole \in BOOLEAN
        BY <4>1 DEF StarterStates
      <4>3. /\ starter'[t].look = starter[t].look
            /\ starter'[t].whole = (starter[t].whole \/ (Len(starter[t].look) \in 1..2 /\ Complete(guard')))
        BY <4>1, AmidStarter, Zenon
      <4> QED
        BY <2>8, <4>1, <4>2, <4>3
    <3>2. ASSUME NEW l \in Launches PROVE ReadSound(launch[l].look, launch[l].whole)'
      <4>1. launch[l] \in LaunchStates /\ ReadSound(launch[l].look, launch[l].whole)
            /\ launch'[l] = Amid(launch[l])
        BY <2>1, LaunchNow
      <4>2. launch[l].look \in Looks /\ launch[l].whole \in BOOLEAN
        BY <4>1 DEF LaunchStates
      <4>3. /\ launch'[l].look = launch[l].look
            /\ launch'[l].whole = (launch[l].whole \/ (Len(launch[l].look) \in 1..2 /\ Complete(guard')))
        BY <4>1, AmidLaunch, Zenon
      <4> QED
        BY <2>8, <4>1, <4>2, <4>3
    <3> QED
      BY <3>1, <3>2 DEF ReadInv
  <2>10. StarterInv'
    <3> SUFFICES ASSUME NEW t \in Starters PROVE StarterSound(t)'
      BY DEF StarterInv
    <3>1. starter[t] \in StarterStates /\ starter'[t] = Amid(starter[t]) /\ StarterSound(t)
      BY <2>1, StarterNow
    <3>2. starter[t].look = <<>> /\ ~starter[t].whole => ~starter'[t].whole
      BY <3>1, AmidStarter, NothingAmid
    <3>3. /\ starter'[t].pc = starter[t].pc /\ starter'[t].look = starter[t].look
          /\ starter'[t].found = starter[t].found /\ starter'[t].result = starter[t].result
          /\ starter'[t].under = starter[t].under
      BY <3>1, AmidStarter
    <3> QED
      BY <2>1, <3>1, <3>2, <3>3 DEF StarterSound
  <2>11. LaunchInv'
    <3> SUFFICES ASSUME NEW l \in Launches PROVE LaunchSound(l)'
      BY DEF LaunchInv
    <3>1. launch[l] \in LaunchStates /\ launch'[l] = Amid(launch[l]) /\ LaunchSound(l)
      BY <2>1, LaunchNow
    <3>2. /\ launch[l].look = <<>> /\ ~launch[l].whole => ~launch'[l].whole
          /\ launch[l].whole => launch'[l].whole
      BY <3>1, AmidLaunch, NothingAmid
    <3>3. /\ launch'[l].pc = launch[l].pc /\ launch'[l].look = launch[l].look
          /\ launch'[l].bound = launch[l].bound /\ launch'[l].evidence = launch[l].evidence
          /\ launch'[l].looked = launch[l].looked
      BY <3>1, AmidLaunch
    <3> QED
      BY <2>1, <3>1, <3>2, <3>3 DEF LaunchSound, files
  <2> QED
    BY <2>5, <2>6, <2>7, <2>9, <2>10, <2>11 DEF SandboxInv
<1> QED
  BY <1>2, <1>3

-----------------------------------------------------------------------------
(* The cleanup, the platform and the update                                *)

LEMMA CleanupBeginsKeeps ==
  ASSUME SandboxInv, CleanupBegins
  PROVE  SandboxInv'
PROOF
<1>1. cleanup' \in [pc : {"off", "v4", "v6", "sub", "over"}, look : Looks]
  BY NowLooks DEF SandboxInv, CleanupBegins
<1>2. faults' \in 0..MaxFaults
  BY SandboxAssumption DEF SandboxInv, WorldOK, CleanupBegins, Fault
<1>3. ~CutInto /\ ~CutInto'
  BY DEF CleanupBegins, CutInto
<1>4. HelperInv' /\ GuardInv'
  BY <1>3 DEF SandboxInv, CleanupBegins, HelperInv, GuardInv, Stands, world
<1>5. Stands("v4") /\ ~Stands("v6") => (Stands("v4") /\ ~Stands("v6"))'
  BY DEF CleanupBegins, Stands, world
<1> QED
  BY <1>1, <1>2, <1>4, <1>5, GuardStep DEF CleanupBegins, SandboxInv, WorldOK, TasksOK, world

\* An object is deleted, or what was found of it is not there to be deleted.
LEMMA DeleteKeeps ==
  ASSUME SandboxInv, NEW x \in Objects, NEW then \in {"v6", "sub", "over"}, Delete(x, then),
         x \in {"v4", "v6", "sub"}, x # "v4" => then \in {"sub", "over"}
  PROVE  SandboxInv'
PROOF
<1>1. /\ cleanup \in [pc : {"off", "v4", "v6", "sub", "over"}, look : Looks]
      /\ guard \in [Objects -> ObjectStates] /\ GuardInv /\ cleanup.pc = x
  BY DEF SandboxInv, WorldOK, TasksOK, Delete
<1>2. cleanup' \in [pc : {"off", "v4", "v6", "sub", "over"}, look : Looks] /\ CutInto'
  <2>1. [cleanup EXCEPT !.pc = then] \in [pc : {"off", "v4", "v6", "sub", "over"}, look : Looks]
        /\ [cleanup EXCEPT !.pc = then].pc = then
    BY <1>1
  <2>2. [pc |-> "over", look |-> <<>>] \in [pc : {"off", "v4", "v6", "sub", "over"}, look : Looks]
    BY NothingRead
  <2>3. cleanup' = [cleanup EXCEPT !.pc = then] \/ cleanup' = [pc |-> "over", look |-> <<>>]
    BY DEF Delete
  <2> QED
    BY <2>1, <2>2, <2>3 DEF CutInto
<1>3. \/ guard' = guard
      \/ /\ guard[x] # "none" /\ guard' = [guard EXCEPT ![x] = "none"]
         /\ x = "sub" => guard["v4"] = "none" /\ guard["v6"] = "none"
  BY DEF Delete
<1>4. guard' \in [Objects -> ObjectStates]
  BY <1>1, <1>3 DEF ObjectStates
<1>5. GuardInv'
  BY <1>1, <1>2, <1>3 DEF GuardInv, Stands, Objects
<1>6. Stands("v4") /\ ~Stands("v6") => (Stands("v4") /\ ~Stands("v6"))'
  BY <1>1, <1>3 DEF GuardInv, Stands, Objects, CutInto
<1>7. HelperInv'
  BY <1>2 DEF SandboxInv, HelperInv, Delete
<1> QED
  BY <1>2, <1>4, <1>5, <1>6, <1>7, GuardStep DEF Delete, SandboxInv, WorldOK, TasksOK

LEMMA CleanKeeps ==
  ASSUME SandboxInv, Clean
  PROVE  SandboxInv'
PROOF
BY DeleteKeeps DEF Clean, Objects

LEMMA PlatformRestartsKeeps ==
  ASSUME SandboxInv, PlatformRestarts
  PROVE  SandboxInv'
PROOF
<1>1. guard' \in [Objects -> ObjectStates] /\ \A x \in Objects : guard'[x] = "none"
  BY DEF PlatformRestarts, ObjectStates
<1>2. GuardInv'
  BY <1>1 DEF GuardInv, Stands, Objects
<1>3. Stands("v4") /\ ~Stands("v6") => (Stands("v4") /\ ~Stands("v6"))'
  BY DEF PlatformRestarts, Complete, Stands, Objects
<1>4. faults' \in 0..MaxFaults
  BY SandboxAssumption DEF SandboxInv, WorldOK, PlatformRestarts, Fault
<1>5. HelperInv'
  BY DEF PlatformRestarts, tasks, SandboxInv, HelperInv, CutInto
<1> QED
  BY <1>1, <1>2, <1>3, <1>4, <1>5, GuardStep DEF PlatformRestarts, tasks, SandboxInv, TasksOK

LEMMA TickKeeps ==
  ASSUME SandboxInv, Tick
  PROVE  SandboxInv'
PROOF
<1> USE DEF Tick, tasks, files
<1>1. StoreOK' /\ WorldOK' /\ TasksOK'
  BY SandboxAssumption DEF SandboxInv, StoreOK, WorldOK, TasksOK
<1>2. GuardInv' /\ HelperInv' /\ ReadInv' /\ VerifiedMeansProbed' /\ attempt' = probed'
  BY DEF SandboxInv, GuardInv, HelperInv, ReadInv, ReadSound, Stands, CutInto, VerifiedMeansProbed
<1>3. StarterInv'
  BY DEF SandboxInv, StarterInv, StarterSound
<1>4. LaunchInv'
  <2> SUFFICES ASSUME NEW l \in Launches PROVE LaunchSound(l)'
    BY DEF LaunchInv
  <2>1. LaunchSound(l) /\ launch[l].looked \in Nat /\ clock \in Nat
    BY LaunchNow DEF LaunchStates
  <2>2. launch[l].looked <= clock => launch[l].looked <= clock'
    BY <2>1
  <2> QED
    BY <2>1, <2>2 DEF LaunchSound
<1> QED
  BY <1>1, <1>2, <1>3, <1>4 DEF SandboxInv

\* Another backend comes only while nobody holds the files of this one.
LEMMA BackendStep ==
  ASSUME SandboxInv, ~Held, backend' \in Owners, faults' \in 0..MaxFaults,
         UNCHANGED <<lock, files, guard, clock, tasks>>
  PROVE  SandboxInv'
PROOF
<1> USE DEF tasks, files
<1>1. StoreOK' /\ WorldOK' /\ TasksOK'
  BY DEF SandboxInv, StoreOK, WorldOK, TasksOK
<1>2. GuardInv' /\ HelperInv' /\ ReadInv' /\ VerifiedMeansProbed' /\ attempt' = probed'
  BY DEF SandboxInv, GuardInv, HelperInv, ReadInv, ReadSound, Stands, CutInto, VerifiedMeansProbed
<1>3. StarterInv'
  BY DEF SandboxInv, StarterInv, StarterSound, Held
<1>4. LaunchInv'
  BY DEF SandboxInv, LaunchInv, LaunchSound, Held
<1> QED
  BY <1>1, <1>2, <1>3, <1>4 DEF SandboxInv

LEMMA UpdateBeginsKeeps ==
  ASSUME SandboxInv, UpdateBegins
  PROVE  SandboxInv'
PROOF
<1>1. backend' \in Owners /\ faults' \in 0..MaxFaults
  BY SandboxAssumption DEF SandboxInv, WorldOK, UpdateBegins, Owners, Fault
<1> QED
  BY <1>1, BackendStep DEF UpdateBegins

LEMMA UpdateEndsKeeps ==
  ASSUME SandboxInv, UpdateEnds
  PROVE  SandboxInv'
PROOF
<1>1. backend' \in Owners /\ faults' \in 0..MaxFaults /\ backend = None
  BY DEF SandboxInv, WorldOK, UpdateEnds, Owners, Resolvable
<1>2. ~Held
  BY <1>1, StarterNow, LaunchNow DEF Held, StarterSound, LaunchSound
<1> QED
  BY <1>1, <1>2, BackendStep DEF UpdateEnds

-----------------------------------------------------------------------------
(* The theorems                                                            *)

LEMMA InitHolds ==
  ASSUME Init
  PROVE  SandboxInv
PROOF
<1>1. StoreOK
  <2>1. NoMarker \in Markers /\ NoAttempt \in Attempts
    BY NewTasks
  <2>2. [status |-> "verified", by |-> None, backend |-> Installed, at |-> 0] \in Markers
    BY SandboxAssumption DEF Markers, MarkerStatus, Owners
  <2>3. [digest |-> [backend |-> Installed, view |-> "exact"], status |-> "verified", at |-> 0] \in Attempts
    BY SandboxAssumption DEF Attempts, Digests, Views, MarkerStatus
  <2>4. {<<Installed, TRUE>>} \in SUBSET (Owners \X BOOLEAN)
    <3>1. Installed \in Owners /\ TRUE \in BOOLEAN
      BY SandboxAssumption DEF Owners
    <3>2. <<Installed, TRUE>> \in Owners \X BOOLEAN
      BY <3>1
    <3> QED
      BY <3>2, Zenon
  <2> QED
    BY <2>1, <2>2, <2>3, <2>4 DEF Init, StoreOK
<1>2. WorldOK
  BY SandboxAssumption DEF Init, WorldOK, ObjectStates, Owners
<1>3. TasksOK
  BY NewTasks, NewLaunches, NothingRead DEF Init, TasksOK
<1>4. GuardInv
  BY DEF Init, GuardInv, Stands, Objects
<1>5. HelperInv
  BY DEF Init, HelperInv, NewHelper
<1>6. ReadInv
  BY NewTasks, NewLaunches, NothingRead DEF Init, ReadInv
<1>7. StarterInv
  BY NewTasks DEF Init, StarterInv, StarterSound, UnderLock, NewStarter
<1>8. LaunchInv
  BY NewLaunches DEF Init, LaunchInv, LaunchSound, NewLaunch
<1>9. VerifiedMeansProbed /\ attempt = probed
  <2>1. marker.status = "verified" => marker.backend = Installed /\ backing = {<<Installed, TRUE>>}
    <3>1. CASE marker = NoMarker
      BY <3>1 DEF NoMarker
    <3>2. CASE /\ marker = [status |-> "verified", by |-> None, backend |-> Installed, at |-> 0]
               /\ backing = {<<Installed, TRUE>>}
      BY <3>2
    <3> QED
      BY <3>1, <3>2, Zenon DEF Init
  <2> QED
    BY <2>1 DEF VerifiedMeansProbed, Init
<1> QED
  BY <1>1, <1>2, <1>3, <1>4, <1>5, <1>6, <1>7, <1>8, <1>9 DEF SandboxInv

LEMMA NextHolds ==
  ASSUME SandboxInv, [Next]_vars
  PROVE  SandboxInv'
PROOF
<1>1. ASSUME NEW s \in Starters, Verify(s) PROVE SandboxInv'
  BY <1>1, BeginKeeps, StarterReadsKeeps, NoLockKeeps, DecideKeeps, AnnounceKeeps, HoldKeeps,
     EnsureGuardKeeps, ElevatedKeeps, ElevationTimeoutKeeps, ProbeKeeps, SecondKeeps, BrokeredKeeps,
     PublishKeeps, RecordKeeps DEF Verify
<1>2. ASSUME NEW s \in Starters, Assist(s) PROVE SandboxInv'
  BY <1>2, ProceedKeeps, EnsureSublayerKeeps, AddFiltersKeeps, OpenKeeps, ReportKeeps DEF Assist
<1>3. ASSUME NEW l \in Launches, Work(l) PROVE SandboxInv'
  BY <1>3, LaunchNoLockKeeps, CheckKeeps, LaunchReadsKeeps, VerifyGuardKeeps, PreflightKeeps,
     LastLookKeeps, CreateKeeps DEF Work
<1>4. CASE UNCHANGED vars
  <2>1. StoreOK' /\ WorldOK' /\ TasksOK'
    BY <1>4 DEF SandboxInv, StoreOK, WorldOK, TasksOK, vars
  <2>2. GuardInv' /\ HelperInv' /\ ReadInv' /\ VerifiedMeansProbed' /\ attempt' = probed'
    BY <1>4 DEF SandboxInv, GuardInv, HelperInv, ReadInv, ReadSound, Stands, CutInto,
                VerifiedMeansProbed, vars
  <2>3. StarterInv' /\ LaunchInv'
    BY <1>4 DEF SandboxInv, StarterInv, StarterSound, LaunchInv, LaunchSound, vars
  <2> QED
    BY <2>1, <2>2, <2>3 DEF SandboxInv
<1> QED
  BY <1>1, <1>2, <1>3, <1>4, RaiseKeeps, StarterDiesKeeps, HelperDiesKeeps, BindKeeps, WorkerDiesKeeps,
     CleanupBeginsKeeps, CleanKeeps, TickKeeps, PlatformRestartsKeeps, UpdateBeginsKeeps,
     UpdateEndsKeeps DEF Next

\* Every task has the state its place in the code gives it, in every behaviour of the protocol: the
\* inductive invariant on which the theorems below rest.
THEOREM SandboxInvariant == Spec => []SandboxInv
PROOF
BY InitHolds, NextHolds, PTL DEF Spec

\* Marker, attempt, Guard and tasks hold what the code writes into them.
THEOREM TypeCorrect == Spec => []TypeOK
PROOF
<1>1. SandboxInv => TypeOK
  <2> SUFFICES ASSUME SandboxInv PROVE TypeOK
    OBVIOUS
  <2>1. ASSUME NEW look \in Looks PROVE LookOK(look)
    <3>1. \A i \in 1..Len(look) : look[i] \in ObjectStates
      BY LooksFacts
    <3> QED
      BY <3>1, LooksFacts DEF LookOK, Seen
  <2>2. \A s \in Starters : starter[s] \in StarterStates /\ helper[s] \in HelperStates
    BY DEF SandboxInv, TasksOK
  <2>3. \A l \in Launches : launch[l] \in LaunchStates
    BY DEF SandboxInv, TasksOK
  <2>4. \A s \in Starters : /\ LookOK(starter[s].look) /\ LookOK(helper[s].look)
                            /\ starter[s].digest \in Digests /\ helper[s].want \subseteq Objects
    BY <2>1, <2>2 DEF StarterStates, HelperStates
  <2>5. \A l \in Launches : LookOK(launch[l].look) /\ launch[l].looked \in Nat
    BY <2>1, <2>3 DEF LaunchStates
  <2> QED
    BY <2>4, <2>5 DEF TypeOK, SandboxInv, StoreOK, WorldOK, Markers, Owners
<1> QED
  BY <1>1, SandboxInvariant, PTL

\* verify_codex_loopback_block: three objects are read in three calls, while helpers that outlived
\* their starter, a cleanup and a restart of the platform change them.  When all three are found,
\* all three stood at one moment of the reading.
THEOREM ReadBackIsSound == Spec => []ReadBackSound
PROOF
<1>1. SandboxInv => ReadBackSound
  <2> SUFFICES ASSUME SandboxInv PROVE ReadBackSound
    OBVIOUS
  <2>1. ASSUME NEW s \in Starters, Len(starter[s].look) = 3, Verdict(starter[s].look) = "exact"
        PROVE  starter[s].whole
    BY <2>1, StarterNow, ExactIsWhole DEF StarterStates
  <2>2. ASSUME NEW l \in Launches, Len(launch[l].look) = 3, Verdict(launch[l].look) = "exact"
        PROVE  launch[l].whole
    BY <2>2, LaunchNow, ExactIsWhole DEF LaunchStates
  <2> QED
    BY <2>1, <2>2 DEF ReadBackSound
<1> QED
  BY <1>1, SandboxInvariant, PTL

\* verify_codex_sandbox_live: a marker that allows launches comes from a verification whose every
\* probe ran against the backend it names, behind a complete Guard; updates between the two phases,
\* late helpers and the death of a starter do not change that.
THEOREM VerifiedIsProbed == Spec => []VerifiedMeansProbed
PROOF
<1>1. SandboxInv => VerifiedMeansProbed
  BY DEF SandboxInv
<1> QED
  BY <1>1, SandboxInvariant, PTL

\* guard_and_launch_codex_sandbox: a child is created on the marker its worker bound itself to, for
\* the installed backend, behind a Guard that was seen whole, and never during a verification.
THEOREM ChildrenOnMarker == Spec => ChildOnStandingMarker
PROOF
<1>1. ASSUME SandboxInv
      PROVE  \A l \in Launches : launch[l].pc = "create" =>
               /\ marker.status = "verified" /\ marker = launch[l].evidence
               /\ marker.backend = backend
               /\ launch[l].whole
               /\ \A s \in Starters : lock # s
               /\ clock - marker.at > Ttl => clock > launch[l].looked
  <2> SUFFICES ASSUME NEW l \in Launches, launch[l].pc = "create"
               PROVE  /\ marker.status = "verified" /\ marker = launch[l].evidence
                      /\ marker.backend = backend
                      /\ launch[l].whole
                      /\ \A s \in Starters : lock # s
                      /\ clock - marker.at > Ttl => clock > launch[l].looked
    OBVIOUS
  <2>1. LaunchSound(l) /\ launch[l].looked \in Nat /\ marker.at \in Nat /\ clock \in Nat
    BY <1>1, LaunchNow DEF LaunchStates, Markers
  <2>2. /\ lock = l /\ launch[l].whole /\ marker = launch[l].evidence /\ marker.status = "verified"
        /\ marker.backend = backend
        /\ launch[l].looked - marker.at <= Ttl /\ launch[l].looked <= clock
    BY <2>1 DEF LaunchSound
  <2>3. \A s \in Starters : lock # s
    BY <2>2, SandboxAssumption
  <2>4. clock - marker.at > Ttl => clock > launch[l].looked
    BY <2>1, <2>2, SandboxAssumption
  <2> QED
    BY <2>2, <2>3, <2>4
<1>2. SandboxInv /\ [Next]_vars =>
        [\A l \in Launches : launch[l].pc = "create" /\ launch'[l].pc = "created" =>
            /\ marker.status = "verified" /\ marker = launch[l].evidence
            /\ marker.backend = backend
            /\ launch[l].whole
            /\ \A s \in Starters : lock # s
            /\ clock - marker.at > Ttl => clock > launch[l].looked]_vars
  BY <1>1
<1> QED
  BY <1>2, SandboxInvariant, PTL DEF Spec, ChildOnStandingMarker

\* No step but Decide brings a starter from waiting for the lock to its announcement.
LEMMA OnlyDecideAnnounces ==
  ASSUME SandboxInv, [Next]_vars, NEW s \in Starters,
         starter[s].pc = "waiting", starter'[s].pc = "announce"
  PROVE  Decide(s)
PROOF
<1>1. starter \in [Starters -> StarterStates]
  BY StarterNow
<1>2. ASSUME NEW t \in Starters, t # s, Verify(t) \/ Raise(t) \/ StarterDies(t) PROVE FALSE
  <2>1. starter'[s] = starter[s]
    BY <1>1, <1>2 DEF Verify, Begin, StarterReads, NoLock, Decide, Announce, Hold, EnsureGuard, Elevated,
       ElevationTimeout, Probe, Second, Brokered, Publish, Record, Raise, StarterDies, Go, Finish,
       Unmeasured, Concludes
  <2> QED
    BY <2>1
<1>3. ASSUME NEW t \in Starters, Assist(t) \/ HelperDies(t) PROVE FALSE
  <2>1. CASE UNCHANGED starter
    BY <2>1
  <2>2. CASE starter' = [r \in Starters |-> Amid(starter[r])]
    BY <1>1, <2>2, AmidStarter
  <2> QED
    BY <1>3, <2>1, <2>2 DEF Assist, Proceed, EnsureSublayer, AddFilters, Open, Report, HelperDies, world
<1>4. ASSUME Verify(s) \/ Raise(s) \/ StarterDies(s) PROVE Decide(s)
  <2>1. CASE NoLock(s) \/ StarterDies(s)
    <3>1. \E end \in {"done", "dead"} : Finish(s, end)
      BY <2>1 DEF NoLock, StarterDies
    <3>2. PICK end \in {"done", "dead"} : starter'[s] = [NewStarter EXCEPT !.pc = end]
      BY <1>1, <3>1 DEF Finish
    <3>3. [NewStarter EXCEPT !.pc = end].pc = end
      BY NewTasks DEF StarterStates
    <3> QED
      BY <3>2, <3>3
  <2> QED
    BY <1>4, <2>1 DEF Verify, Begin, StarterReads, Announce, Hold, EnsureGuard, Elevated,
       ElevationTimeout, Probe, HasRead, Second, Brokered, Publish, Record, Raise
<1>5. ASSUME UNCHANGED starter PROVE FALSE
  BY <1>5
<1>6. ASSUME NEW l \in Launches, Bind(l) \/ Work(l) \/ WorkerDies(l) PROVE UNCHANGED starter
  BY <1>6 DEF Bind, Work, WorkerDies, LaunchNoLock, Check, LaunchReads, VerifyGuard, Preflight,
     LastLook, Create
<1>7. CleanupBegins \/ Clean \/ Tick \/ PlatformRestarts \/ UpdateBegins \/ UpdateEnds
        => UNCHANGED starter
  BY DEF CleanupBegins, Clean, Delete, Tick, PlatformRestarts, UpdateBegins, UpdateEnds, tasks
<1> QED
  BY <1>2, <1>3, <1>4, <1>5, <1>6, <1>7 DEF Next, vars

\* The cooldown: servers do not repeat an attempt for the same identity before its time is over,
\* whether the last one failed, raised or died without a word.
THEOREM AttemptsKeptApart == Spec => AttemptsApart
PROOF
<1>1. ASSUME SandboxInv, [Next]_vars, NEW s \in Starters \ Forced,
             starter[s].pc = "waiting", starter'[s].pc = "announce"
      PROVE  ~ /\ probed.digest = starter[s].digest
               /\ probed.status \in {"verifying", "failed", "unverified"}
               /\ clock - probed.at < Cooldown
  <2>1. Decide(s) /\ attempt = probed
    BY <1>1, OnlyDecideAnnounces DEF SandboxInv
  <2>2. ~Cooling(starter[s].digest)
    <3>1. CASE Finish(s, "done")
      <4>1. starter'[s] = [NewStarter EXCEPT !.pc = "done"]
        BY <1>1, <3>1, StarterNow DEF Finish
      <4>2. [NewStarter EXCEPT !.pc = "done"].pc = "done"
        BY NewTasks DEF StarterStates
      <4> QED
        BY <1>1, <4>1, <4>2
    <3> QED
      BY <2>1, <3>1 DEF Decide
  <2> QED
    BY <2>1, <2>2 DEF Cooling
<1>2. SandboxInv /\ [Next]_vars =>
        [\A s \in Starters \ Forced :
            starter[s].pc = "waiting" /\ starter'[s].pc = "announce" =>
               ~ /\ probed.digest = starter[s].digest
                 /\ probed.status \in {"verifying", "failed", "unverified"}
                 /\ clock - probed.at < Cooldown]_vars
  BY <1>1
<1> QED
  BY <1>2, SandboxInvariant, PTL DEF Spec, AttemptsApart
=============================================================================
