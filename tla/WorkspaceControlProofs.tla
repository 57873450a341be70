------------------------ MODULE WorkspaceControlProofs ------------------------
(***************************************************************************)
(* Proofs about WorkspaceControl and the commands of ApprovedRequest in    *)
(* it, for any requests, calls and files and any number of edits and       *)
(* accidents: what a child of an approved command runs on and beside, and  *)
(* what an undo changes.                                                   *)
(***************************************************************************)
EXTENDS WorkspaceControl, FiniteSetTheorems, NaturalsInduction, WellFoundedInduction, TLAPS

-----------------------------------------------------------------------------
(* The inductive invariant                                                 *)

Contents == Seq(Lines) \cup {Absent}
Files == [Paths -> [text : Contents, id : Nat]]
Copies == [Paths -> Contents]
Confs == [settings : Nat, environment : Nat, build : Nat]
Holders == Rows \cup Calls \cup {Nobody}

Bundles == [sealed : BOOLEAN, conf : Confs, exe : Nat, copy : Copies, bound : Files \cup {Nobody}]
Children ==
  [conf : Confs, exe : Nat, inputs : Copies, beside : Copies, untouched : BOOLEAN,
   wrote : Paths \cup {Nobody}]
Plans ==
  [of : Writes \cup {Nobody}, path : Paths \cup {Nobody}, seen : Contents,
   want : Contents \cup {Nobody}, asked : Confs,
   step : {"none", "claimed", "restored", "released", "committing", "finalized", "over"}]

WorldOK ==
  /\ live \in Files /\ stamp \in Nat /\ edits \in Nat /\ faults \in Nat
  /\ config \in Confs /\ server \in Confs /\ exe \in Nat

RowsOK ==
  /\ lock \in [Locks -> Holders]
  /\ row \in [Rows -> {"none", "pending", "queued", "running", "committing", "succeeded", "failed",
                       "expired", "rejected", "interrupted", "refused", "conflict", "gone"}]
  /\ grant \in [Requests -> {"none", "live", "over"}]

BundlesOK ==
  /\ bundle \in [Requests -> Bundles \cup {Nobody}]
  /\ approved \in [Requests -> Bundles \cup {Nobody}]
  /\ tree \in [Requests -> Copies \cup {Nobody}]

AskOK ==
  ask \in [Requests -> [pc : {"idle", "admitted", "copying", "bundled", "refused", "asked"},
                        exe : Nat, asked : Confs, left : SUBSET Paths]]

UiOK ==
  ui \in [pc : {"idle", "verified", "claimed", "failing", "undo"}, on : Rows \cup {Nobody},
          conf : Confs]

WorkerOK ==
  worker \in [Requests -> [pc : {"none", "started", "waiting", "locked", "over", "dead"}
                                  \cup Verified,
                           conf : Confs, next : Nat \ {0}, touched : BOOLEAN]]

ChildOK ==
  /\ child \in [Requests -> Children \cup {Nobody}]
  /\ \A r \in Requests : worker[r].pc = "running" => child[r] \in Children

CallOK ==
  /\ call \in [Calls -> [pc : {"idle", "ready", "holding", "done", "gone"}, path : Paths \cup {Nobody},
                         pre : Contents, post : Contents]]
  /\ sweep \in [pc : {"idle", "opened", "pruned", "read", "done"}, kept : SUBSET Requests]

ControlOK ==
  /\ plan \in [Undos -> Plans]
  /\ journal \in [Undos -> {"none", "applied", "complete", "failed"}]

TypeOK ==
  /\ WorldOK /\ RowsOK /\ BundlesOK /\ AskOK /\ UiOK /\ WorkerOK /\ ChildOK /\ CallOK /\ ControlOK

\* Who holds what.
Guarded == {"guarded", "fresh", "running", "ended"}
HoldsGuards(r) == \A i \in 1..Len(Guards) : lock[Guards[i]] = r

HoldsOwn(r) ==
  /\ ask[r].pc = "copying" => lock["workspace"] = r /\ lock["approval-staging"] = r
  /\ worker[r].pc \in {"locked"} \cup Verified => lock["workspace"] = r
  /\ worker[r].pc \in {"started", "waiting", "locked", "verified", "copied", "claimed"} =>
       worker[r].next = 1
  /\ Kind[r] = "host" /\ worker[r].pc = "guarding" =>
       \A i \in 1..Len(Guards) : i < worker[r].next => lock[Guards[i]] = r
  /\ Kind[r] = "host" /\ worker[r].pc \in Guarded => HoldsGuards(r)

LockInv ==
  /\ \A r \in Requests : HoldsOwn(r)
  /\ \A u \in Undos :
       AtStep(u, "claimed") \/ AtStep(u, "restored") => lock["workspace"] = u

\* A request is with one process after the other: the server, the UI, the worker.
StageInv ==
  /\ \A r \in Requests :
       /\ row[r] # "none" => ask[r].pc = "asked"
       /\ worker[r].pc # "none" => row[r] \notin {"none", "pending"} /\ ui.on # r
  /\ ui.pc = "idle" => ui.on = Nobody
  /\ ui.pc = "undo" => ui.on \in Undos
  /\ ui.pc \in {"verified", "claimed", "failing"} => ui.on \in Requests /\ row[ui.on] # "none"
  /\ ui.pc = "claimed" => row[ui.on] # "pending"

\* A bundle that was asked for is only ever swept away; its executable is not older than that
\* of the request.
Claimed(r) == worker[r].pc # "none" \/ (ui.pc = "claimed" /\ ui.on = r)

BundleInv ==
  \A r \in Requests :
    /\ ask[r].exe <= exe
    /\ ask[r].pc \in {"idle", "admitted"} => bundle[r] = Nobody
    /\ bundle[r] # Nobody => ask[r].exe <= bundle[r].exe /\ bundle[r].exe <= exe
    /\ approved[r] # Nobody =>
         /\ row[r] \notin {"none", "pending"}
         /\ ask[r].exe <= approved[r].exe /\ approved[r].exe <= exe
    /\ Claimed(r) => bundle[r] \in {Nobody, approved[r]}

\* What a worker has verified holds until its child starts.
Copied == {"copied", "claimed", "guarding", "guarded", "fresh"}
SameConf(one, other) == [one EXCEPT !.build = 0] = [other EXCEPT !.build = 0]
FilesAsApproved(r) ==
  \A p \in Paths :
    approved[r].copy[p] # Absent \/ Kind[r] = "host" => live[p].text = approved[r].copy[p]

VerifiedKept(r) ==
  /\ worker[r].pc \in {"waiting", "locked"} \cup Verified =>
       worker[r].conf.build = ask[r].asked.build
  /\ worker[r].pc \in Verified => approved[r] # Nobody /\ SameConf(worker[r].conf, approved[r].conf)
  /\ worker[r].pc = "fresh" => ask[r].exe = exe
  /\ worker[r].pc \in Copied /\ Sandboxed(r) => tree[r] \in {Nobody, approved[r].copy}
  /\ worker[r].pc \in {"verified"} \cup Copied /\ ~worker[r].touched /\ Kind[r] # "reader" =>
       FilesAsApproved(r)

WorkerInv == \A r \in Requests : VerifiedKept(r)

\* A child was started as it was approved.
StartedAsApproved(r) ==
  /\ approved[r] # Nobody
  /\ child[r].exe = approved[r].exe /\ child[r].conf.build = ask[r].asked.build
  /\ SameConf(child[r].conf, approved[r].conf)
  /\ Sandboxed(r) \/ child[r].untouched => child[r].inputs = approved[r].copy
  /\ Kind[r] = "writer" /\ child[r].untouched =>
       \A p \in Paths : approved[r].copy[p] # Absent => child[r].inputs[p] = child[r].beside[p]

ChildInv ==
  \A r \in Requests :
    /\ child[r] # Nobody => worker[r].pc \in {"running", "ended", "closed", "over", "dead"}
    /\ child[r] # Nobody \/ worker[r].pc = "running" => StartedAsApproved(r)

\* What an undo will put where.
PlanInv ==
  \A u \in Undos :
    /\ row[u] # "none" =>
         LET c == plan[u].of IN
         /\ c \in Writes /\ call[c].pc \in {"done", "gone"} /\ plan[u].path \in Paths
         /\ call[c].path = plan[u].path
         /\ Aim[u] = "undo" => plan[u].want = Reverse(call[c].pre, call[c].post, plan[u].seen)
    /\ row[u] \notin {"none", "refused", "conflict", "gone"} => plan[u].want # Nobody
    /\ ui.pc = "undo" /\ ui.on = u => row[u] \in {"running", "committing"}

ControlInv ==
  /\ TypeOK /\ LockInv /\ StageInv /\ BundleInv /\ WorkerInv /\ ChildInv
  /\ HostRunsAlone /\ PlanInv

-----------------------------------------------------------------------------
(* Lemmas about the operators and about steps of one process               *)

\* What a step leaves alone keeps its part of the invariant.
LEMMA Frames ==
  /\ WorldOK /\ UNCHANGED <<live, stamp, edits, faults, config, server, exe>> => WorldOK'
  /\ RowsOK /\ UNCHANGED <<lock, row, grant>> => RowsOK'
  /\ BundlesOK /\ UNCHANGED <<bundle, approved, tree>> => BundlesOK'
  /\ AskOK /\ UNCHANGED ask => AskOK'
  /\ UiOK /\ UNCHANGED ui => UiOK'
  /\ WorkerOK /\ UNCHANGED worker => WorkerOK'
  /\ ChildOK /\ UNCHANGED <<child, worker>> => ChildOK'
  /\ CallOK /\ UNCHANGED <<call, sweep>> => CallOK'
  /\ ControlOK /\ UNCHANGED <<plan, journal>> => ControlOK'
  /\ LockInv /\ UNCHANGED <<lock, ask, worker, ui, plan>> => LockInv'
  /\ StageInv /\ UNCHANGED <<row, ask, worker, ui>> => StageInv'
  /\ BundleInv /\ UNCHANGED <<ask, exe, bundle, approved, row, worker, ui>> => BundleInv'
  /\ WorkerInv /\ UNCHANGED <<worker, ask, approved, exe, tree, live>> => WorkerInv'
  /\ ChildInv /\ UNCHANGED <<child, worker, approved, ask>> => ChildInv'
  /\ HostRunsAlone /\ UNCHANGED <<worker, row, call>> => HostRunsAlone'
  /\ PlanInv /\ UNCHANGED <<row, plan, call, ui>> => PlanInv'
PROOF
<1>1. WorldOK /\ UNCHANGED <<live, stamp, edits, faults, config, server, exe>> => WorldOK'
  BY DEF WorldOK
<1>2. RowsOK /\ UNCHANGED <<lock, row, grant>> => RowsOK'
  BY DEF RowsOK
<1>3. BundlesOK /\ UNCHANGED <<bundle, approved, tree>> => BundlesOK'
  BY DEF BundlesOK
<1>4. (AskOK /\ UNCHANGED ask => AskOK') /\ (UiOK /\ UNCHANGED ui => UiOK')
  BY DEF AskOK, UiOK
<1>5. /\ WorkerOK /\ UNCHANGED worker => WorkerOK'
      /\ ChildOK /\ UNCHANGED <<child, worker>> => ChildOK'
  BY DEF WorkerOK, ChildOK
<1>6. /\ CallOK /\ UNCHANGED <<call, sweep>> => CallOK'
      /\ ControlOK /\ UNCHANGED <<plan, journal>> => ControlOK'
  BY DEF CallOK, ControlOK
<1>7. LockInv /\ UNCHANGED <<lock, ask, worker, ui, plan>> => LockInv'
  BY DEF LockInv, HoldsOwn, HoldsGuards, AtStep
<1>8. StageInv /\ UNCHANGED <<row, ask, worker, ui>> => StageInv'
  BY DEF StageInv
<1>9. BundleInv /\ UNCHANGED <<ask, exe, bundle, approved, row, worker, ui>> => BundleInv'
  BY DEF BundleInv, Claimed
<1>10. WorkerInv /\ UNCHANGED <<worker, ask, approved, exe, tree, live>> => WorkerInv'
  BY DEF WorkerInv, VerifiedKept, FilesAsApproved
<1>11. ChildInv /\ UNCHANGED <<child, worker, approved, ask>> => ChildInv'
  BY DEF ChildInv, StartedAsApproved, SameConf
<1>12. HostRunsAlone /\ UNCHANGED <<worker, row, call>> => HostRunsAlone'
  BY DEF HostRunsAlone, Active
<1>13. PlanInv /\ UNCHANGED <<row, plan, call, ui>> => PlanInv'
  BY DEF PlanInv
<1> QED
  BY <1>1, <1>2, <1>3, <1>4, <1>5, <1>6, <1>7, <1>8, <1>9, <1>10, <1>11, <1>12, <1>13

\* The named locks: four of them, none of them that of the workspace.
LEMMA GuardFacts ==
  /\ Len(Guards) = 4
  /\ \A i \in 1..4 : Guards[i] \in Locks \ {"workspace"}
  /\ Guards[1] = "approval-staging" /\ Guards[2] = "audit-state" /\ Guards[3] = "worker-context"
  /\ Guards[4] = "workspace-cas"
PROOF
BY DEF Guards, Locks

LEMMA PartiesDistinct ==
  /\ \A r \in Requests : r \in Rows /\ r # Nobody /\ r # Sweeper /\ r \notin Calls /\ r \notin Undos
  /\ \A u \in Undos : u \in Rows /\ u # Nobody /\ u \notin Calls
PROOF
BY RequestAssumption, ControlAssumption

\* Nobody else writes to the audit store while the guards of a host run are held.
LEMMA GuardsKeepOut ==
  ASSUME LockInv, NEW r \in Requests, Kind[r] = "host", worker[r].pc \in Guarded
  PROVE  /\ \A x : Audits(x) => x = r
         /\ \A x : Free("approval-staging", x) => x = r
         /\ \A x : Free("workspace-cas", x) => x = r
         /\ lock["approval-staging"] = r
PROOF
<1>1. HoldsGuards(r)
  BY DEF LockInv, HoldsOwn
<1>2. /\ lock["audit-state"] = r /\ lock["approval-staging"] = r /\ lock["workspace-cas"] = r
  BY <1>1, GuardFacts DEF HoldsGuards
<1> QED
  BY <1>2, PartiesDistinct DEF Audits, Free

\* A worker that goes on is as it was but for its place; the others stay.
Stages == {"waiting", "locked", "over", "dead"} \cup Verified

LEMMA WorkerGoes ==
  ASSUME WorkerOK, NEW r \in Requests, NEW S \in SUBSET Stages, \E step \in S : Go(r, step)
  PROVE  /\ worker'[r].pc \in S /\ worker'[r].pc \notin {"none", "started"} /\ worker'[r].conf = worker[r].conf
         /\ worker'[r].next = worker[r].next /\ worker'[r].touched = worker[r].touched
         /\ \A q \in Requests \ {r} : worker'[q] = worker[q]
         /\ WorkerOK'
PROOF
<1>1. PICK step \in S : Go(r, step)
  OBVIOUS
<1>2. step \in Stages
  OBVIOUS
<1> QED
  BY <1>1, <1>2 DEF Go, WorkerOK, Verified, Stages

\* The configuration of two processes differs by the build at most.
LEMMA SameConfFields ==
  ASSUME NEW c \in Confs, NEW d \in Confs, c.settings = d.settings, c.environment = d.environment
  PROVE  SameConf(c, d)
PROOF
BY DEF SameConf, Confs

\* A step that takes no lock from a request or an undo still at work keeps who holds what.
LEMMA LocksStay ==
  ASSUME LockInv, UNCHANGED worker,
         \A r \in Requests :
           ask'[r].pc = "copying" =>
             \/ ask[r].pc = "copying"
             \/ lock'["workspace"] = r /\ lock'["approval-staging"] = r,
         \A r \in Requests, n \in Locks :
           lock[n] = r /\ (ask'[r].pc = "copying" \/ worker[r].pc # "none") => lock'[n] = r,
         \A u \in Undos :
           AtStep(u, "claimed")' \/ AtStep(u, "restored")' =>
             \/ lock'["workspace"] = u
             \/ /\ AtStep(u, "claimed") \/ AtStep(u, "restored")
                /\ lock["workspace"] = u => lock'["workspace"] = u
  PROVE  LockInv'
PROOF
<1>1. "workspace" \in Locks /\ "approval-staging" \in Locks
  BY DEF Locks
<1>2. \A r \in Requests : worker[r].pc # "none" /\ HoldsGuards(r) => HoldsGuards(r)'
  BY GuardFacts DEF HoldsGuards
<1>3. "none" \notin {"locked"} \cup Verified /\ "none" \notin Guarded
  BY DEF Verified, Guarded
<1>4. \A r \in Requests :
        (worker[r].pc \in {"locked"} \cup Verified => lock["workspace"] = r)'
  BY <1>1, <1>3 DEF LockInv, HoldsOwn
<1>5. \A r \in Requests :
        (ask[r].pc = "copying" => lock["workspace"] = r /\ lock["approval-staging"] = r)'
  BY <1>1 DEF LockInv, HoldsOwn
<1>6. \A r \in Requests :
        (/\ worker[r].pc \in {"started", "waiting", "locked", "verified", "copied", "claimed"} =>
              worker[r].next = 1
         /\ Kind[r] = "host" /\ worker[r].pc = "guarding" =>
              \A i \in 1..Len(Guards) : i < worker[r].next => lock[Guards[i]] = r
         /\ Kind[r] = "host" /\ worker[r].pc \in Guarded => HoldsGuards(r))'
  BY <1>2, <1>3, GuardFacts DEF LockInv, HoldsOwn
<1>7. \A u \in Undos : (AtStep(u, "claimed") \/ AtStep(u, "restored") => lock["workspace"] = u)'
  BY DEF LockInv, HoldsOwn
<1> QED
  BY <1>4, <1>5, <1>6, <1>7 DEF LockInv, HoldsOwn

\* Before it is asked for, a request is with the server alone.
LEMMA EarlyRequest ==
  ASSUME UiOK, StageInv, BundleInv, ChildInv, NEW r \in Requests, ask[r].pc # "asked"
  PROVE  /\ row[r] = "none" /\ worker[r].pc = "none" /\ child[r] = Nobody
         /\ approved[r] = Nobody /\ ui.on # r /\ ~Claimed(r)
PROOF
BY PartiesDistinct DEF UiOK, StageInv, BundleInv, ChildInv, Claimed

LEMMA ServerWorks ==
  ASSUME ControlInv, NEW r \in Requests, ask[r].pc # "asked",
         \A q \in Requests \ {r} : ask'[q] = ask[q] /\ bundle'[q] = bundle[q],
         \A x \in Rows \ {r} : row'[x] = row[x],
         row'[r] = "none" \/ (row'[r] = "pending" /\ ask'[r].pc = "asked"),
         ask'[r].exe <= exe,
         ask'[r].pc \in {"idle", "admitted"} => bundle'[r] = Nobody,
         bundle'[r] # Nobody => ask'[r].exe <= bundle'[r].exe /\ bundle'[r].exe <= exe,
         UNCHANGED <<worker, ui, child, approved, exe, live, tree>>
  PROVE  StageInv' /\ BundleInv' /\ WorkerInv' /\ ChildInv'
PROOF
<1>0. UiOK /\ StageInv /\ BundleInv /\ WorkerInv /\ ChildInv
  BY DEF ControlInv, TypeOK
<1>1. /\ row[r] = "none" /\ worker[r].pc = "none" /\ child[r] = Nobody
      /\ approved[r] = Nobody /\ ui.on # r /\ ~Claimed(r)
  BY <1>0, EarlyRequest
<1>2. StageInv'
  <2>1. \A q \in Requests : row'[q] # "none" => ask'[q].pc = "asked"
    BY <1>0, PartiesDistinct DEF StageInv
  <2>2. \A q \in Requests : worker[q].pc # "none" => row'[q] \notin {"none", "pending"} /\ ui.on # q
    BY <1>0, <1>1, PartiesDistinct DEF StageInv
  <2>3. ui.on \in Requests => row'[ui.on] = row[ui.on]
    BY <1>1, PartiesDistinct
  <2> QED
    BY <1>0, <2>1, <2>2, <2>3 DEF StageInv, UiOK
<1>3. BundleInv'
  <2>1. \A q \in Requests \ {r} : row'[q] = row[q]
    BY PartiesDistinct
  <2> QED
    BY <1>0, <1>1, <2>1 DEF BundleInv, Claimed
<1>4. WorkerInv'
  <2>1. VerifiedKept(r)'
    BY <1>1 DEF VerifiedKept, Verified, Copied
  <2>2. \A q \in Requests \ {r} : VerifiedKept(q)'
    BY <1>0 DEF WorkerInv, VerifiedKept, FilesAsApproved
  <2> QED
    BY <2>1, <2>2 DEF WorkerInv
<1>5. ChildInv'
  BY <1>0, <1>1 DEF ChildInv, StartedAsApproved, SameConf
<1> QED
  BY <1>2, <1>3, <1>4, <1>5

\* A step of a worker that takes and gives back for itself alone, and the invariant of the others.
LEMMA WorkerMoves ==
  ASSUME ControlInv, NEW r \in Requests, worker[r].pc # "none", worker'[r].pc \notin {"none", "started"},
         \A q \in Requests \ {r} : worker'[q] = worker[q] /\ tree'[q] = tree[q],
         UNCHANGED <<ask, ui, plan, call, bundle, approved, exe, live, config>>,
         \A x \in Rows \ {r} : row'[x] = row[x],
         row'[r] \notin {"none", "pending"},
         row'[r] \in {"queued", "running"} => row[r] \in {"queued", "running"},
         \A n \in Locks : lock'[n] = lock[n] \/ lock[n] \in {r, Nobody},
         HoldsOwn(r)', VerifiedKept(r)',
         Kind[r] = "host" /\ worker'[r].pc \in {"guarded", "fresh", "running"} => Active \subseteq {r}
  PROVE  LockInv' /\ StageInv' /\ BundleInv' /\ WorkerInv' /\ HostRunsAlone' /\ PlanInv'
PROOF
<1>0. UiOK /\ LockInv /\ StageInv /\ BundleInv /\ WorkerInv /\ HostRunsAlone /\ PlanInv
  BY DEF ControlInv, TypeOK
<1>1. LockInv'
  <2>1. \A n \in Locks : \A x : x # Nobody /\ x # r /\ lock[n] = x => lock'[n] = x
    OBVIOUS
  <2>2. ASSUME NEW q \in Requests \ {r}
        PROVE  HoldsOwn(q)'
    <3>1. HoldsOwn(q) /\ q # Nobody /\ worker'[q] = worker[q] /\ ask' = ask
      BY <1>0, PartiesDistinct DEF LockInv
    <3>2. "workspace" \in Locks /\ "approval-staging" \in Locks
      BY DEF Locks
    <3> QED
      BY <2>1, <3>1, <3>2, GuardFacts DEF HoldsOwn, HoldsGuards
  <2>3. ASSUME NEW u \in Undos
        PROVE  (AtStep(u, "claimed") \/ AtStep(u, "restored") => lock["workspace"] = u)'
    BY <1>0, <2>1, PartiesDistinct DEF LockInv, AtStep, Locks
  <2> QED
    BY <2>2, <2>3 DEF LockInv
<1>2. StageInv'
  BY <1>0, PartiesDistinct DEF StageInv, UiOK
<1>3. BundleInv'
  BY <1>0, PartiesDistinct DEF BundleInv, Claimed
<1>4. WorkerInv'
  <2>1. ASSUME NEW q \in Requests \ {r}
        PROVE  VerifiedKept(q)'
    BY <1>0 DEF WorkerInv, VerifiedKept, FilesAsApproved
  <2> QED
    BY <2>1 DEF WorkerInv
<1>5. Active' \subseteq Active
  BY DEF Active
<1>6. HostRunsAlone'
  BY <1>0, <1>5 DEF HostRunsAlone
<1>7. PlanInv'
  BY <1>0, PartiesDistinct DEF PlanInv
<1> QED
  BY <1>1, <1>2, <1>3, <1>4, <1>6, <1>7

\* A worker that goes on without touching its child.
LEMMA ChildStays ==
  ASSUME ControlInv, NEW r \in Requests, UNCHANGED <<child, approved, ask>>,
         \A q \in Requests \ {r} : worker'[q] = worker[q],
         worker'[r].pc # "running",
         worker[r].pc \in {"running", "ended", "closed", "over", "dead"} =>
           worker'[r].pc \in {"running", "ended", "closed", "over", "dead"}
  PROVE  ChildOK' /\ ChildInv'
PROOF
<1>0. ChildOK /\ ChildInv
  BY DEF ControlInv, TypeOK
<1>1. ChildOK'
  BY <1>0 DEF ChildOK
<1>2. ChildInv'
  BY <1>0 DEF ChildInv, StartedAsApproved, SameConf
<1> QED
  BY <1>1, <1>2

\* What a program writes is made of lines, and so is what lines are taken out of and put into.
LEMMA TextsTyped == Texts \cup {Absent} \subseteq Contents
PROOF
BY ControlAssumption DEF Contents

HunkSet == [old : Seq(Lines), new : Seq(Lines)]

LEMMA SidesTyped ==
  ASSUME NEW text \in Seq(Lines), Seams(text) # {}
  PROVE  Sides(text)[1] \in Seq(Lines) /\ Sides(text)[2] \in Seq(Lines)
PROOF
<1> DEFINE seam == CHOOSE k \in Seams(text) : \A m \in Seams(text) : k <= m
<1>1. \E k \in Seams(text) : \A m \in Seams(text) : k <= m
  <2>1. Seams(text) \subseteq Nat
    BY DEF Seams
  <2>2. PICK k \in Seams(text) : \A m \in Seams(text) : <<m, k>> \notin OpToRel(<, Nat)
    BY <2>1, WFMin, NatLessThanWellFounded, Zenon
  <2>3. \A m \in Seams(text) : ~(m < k)
    BY <2>1, <2>2 DEF OpToRel
  <2> QED
    BY <2>1, <2>3
<1>2. seam \in Seams(text)
  BY <1>1
<1>3. seam \in 1 .. Len(text)
  BY <1>2 DEF Seams
<1> HIDE DEF seam
<1>4. SubSeq(text, 1, seam - 1) \in Seq(Lines) /\ SubSeq(text, seam + 1, Len(text)) \in Seq(Lines)
  BY <1>3
<1> QED
  BY <1>4 DEF Sides, seam

LEMMA HunksTyped ==
  ASSUME NEW before \in Seq(Lines), NEW after \in Seq(Lines)
  PROVE  \/ \E one \in HunkSet : Hunks(before, after) = <<one>>
         \/ \E one \in HunkSet, other \in HunkSet : Hunks(before, after) = <<one, other>>
PROOF
<1> DEFINE hunk(old, new) == [old |-> old, new |-> new]
           was == Sides(before)
           is == Sides(after)
<1>1. CASE Seams(before) = {} \/ Seams(after) = {}
  <2>1. hunk(before, after) \in HunkSet
    BY DEF HunkSet
  <2> QED
    BY <1>1, <2>1 DEF Hunks
<1>2. CASE Seams(before) # {} /\ Seams(after) # {}
  <2>1. was[1] \in Seq(Lines) /\ was[2] \in Seq(Lines) /\ is[1] \in Seq(Lines) /\ is[2] \in Seq(Lines)
    BY <1>2, SidesTyped
  <2>2. hunk(was[1], is[1]) \in HunkSet /\ hunk(was[2], is[2]) \in HunkSet
    BY <2>1 DEF HunkSet
  <2>3. Hunks(before, after) \in {<<hunk(was[2], is[2])>>, <<hunk(was[1], is[1])>>,
                                   <<hunk(was[1], is[1]), hunk(was[2], is[2])>>}
    BY <1>2 DEF Hunks
  <2> QED
    BY <2>2, <2>3
<1> QED
  BY <1>1, <1>2

LEMMA SpliceTyped ==
  ASSUME NEW text \in Seq(Lines), NEW hunk \in HunkSet, NEW start \in 1 .. Len(text) + 1
  PROVE  Splice(text, start, hunk) \in Seq(Lines) /\ Len(Splice(text, start, hunk)) >= start - 1
PROOF
<1>1. SubSeq(text, 1, start - 1) \in Seq(Lines) /\ Len(SubSeq(text, 1, start - 1)) = start - 1
  OBVIOUS
<1>2. hunk.old \in Seq(Lines) /\ Len(hunk.new) \in Nat
  BY DEF HunkSet
<1>3. SubSeq(text, start + Len(hunk.new), Len(text)) \in Seq(Lines)
  BY <1>2
<1> DEFINE head == SubSeq(text, 1, start - 1)
           tail == SubSeq(text, start + Len(hunk.new), Len(text))
<1> HIDE DEF head, tail
<1>4. ASSUME head \in Seq(Lines), tail \in Seq(Lines), hunk.old \in Seq(Lines)
      PROVE  (head \o hunk.old) \o tail \in Seq(Lines) /\ Len((head \o hunk.old) \o tail) >= Len(head)
  <2>1. head \o hunk.old \in Seq(Lines) /\ Len(head \o hunk.old) >= Len(head)
    BY <1>4
  <2> QED
    BY <1>4, <2>1
<1> QED
  BY <1>1, <1>2, <1>3, <1>4 DEF Splice, head, tail

\* What sorts last does not begin before the other.
LEMMA PrecedesStarts ==
  ASSUME NEW s \in Seq(Nat), NEW t \in Seq(Nat), Len(s) >= 1, Len(t) >= 1
  PROVE  /\ Precedes(s, t) => s[1] <= t[1]
         /\ ~Precedes(s, t) => t[1] <= s[1]
PROOF
<1>1. ASSUME Precedes(s, t)
      PROVE  s[1] <= t[1]
  <2>1. PICK n \in 0 .. Len(s) :
          /\ n <= Len(t) /\ \A k \in 1 .. n : s[k] = t[k]
          /\ n < Len(t) /\ (n < Len(s) => s[n + 1] < t[n + 1])
    BY <1>1 DEF Precedes
  <2>2. CASE n = 0
    BY <2>1, <2>2
  <2>3. CASE n # 0
    BY <2>1, <2>3
  <2> QED
    BY <2>2, <2>3
<1>2. ASSUME s[1] < t[1]
      PROVE  Precedes(s, t)
  <2>1. 0 \in 0 .. Len(s) /\ \A k \in 1 .. 0 : s[k] = t[k]
    OBVIOUS
  <2> QED
    BY <1>2, <2>1 DEF Precedes
<1>3. s[1] \in Nat /\ t[1] \in Nat
  OBVIOUS
<1> QED
  BY <1>1, <1>2, <1>3

\* What is replaced last begins no later than what was replaced before it, so that its beginning is
\* still in the text.
LEMMA SpliceBothTyped ==
  ASSUME NEW one \in HunkSet, NEW other \in HunkSet, NEW current \in Seq(Lines),
         Places(one, current) # {}, Places(other, current) # {}
  PROVE  SpliceBoth(one, other, current) \in Seq(Lines)
PROOF
<1> DEFINE at(hunk) == CHOOSE k \in Places(hunk, current) : TRUE
           key(hunk) == <<at(hunk), at(hunk) + Len(hunk.new)>> \o hunk.old
           last == IF Precedes(key(one), key(other)) THEN other ELSE one
           first == IF last = one THEN other ELSE one
<1>1. /\ at(one) \in Places(one, current) /\ at(other) \in Places(other, current)
  OBVIOUS
<1>2. at(one) \in 1 .. Len(current) + 1 /\ at(other) \in 1 .. Len(current) + 1
  BY <1>1 DEF Places
<1> HIDE DEF at
<1>3. ASSUME NEW hunk \in HunkSet, at(hunk) \in 1 .. Len(current) + 1
      PROVE  key(hunk) \in Seq(Nat) /\ Len(key(hunk)) >= 1 /\ key(hunk)[1] = at(hunk)
  <2>1. hunk.old \in Seq(Nat) /\ Len(hunk.new) \in Nat
    <3>1. hunk.old \in Seq(Lines) /\ hunk.new \in Seq(Lines)
      BY DEF HunkSet
    <3>2. Lines \subseteq Nat
      BY ControlAssumption
    <3>3. /\ Len(hunk.old) \in Nat /\ Len(hunk.new) \in Nat
          /\ hunk.old \in [1 .. Len(hunk.old) -> Lines]
      BY <3>1
    <3>4. hunk.old \in [1 .. Len(hunk.old) -> Nat]
      BY <3>2, <3>3
    <3> QED
      BY <3>3, <3>4
  <2>2. <<at(hunk), at(hunk) + Len(hunk.new)>> \in Seq(Nat)
    BY <1>3, <2>1
  <2> QED
    BY <2>1, <2>2
<1>4. /\ key(one) \in Seq(Nat) /\ Len(key(one)) >= 1 /\ key(one)[1] = at(one)
      /\ key(other) \in Seq(Nat) /\ Len(key(other)) >= 1 /\ key(other)[1] = at(other)
  BY <1>2, <1>3
<1> HIDE DEF key
<1>5. /\ Precedes(key(one), key(other)) => at(one) <= at(other)
      /\ ~Precedes(key(one), key(other)) => at(other) <= at(one)
  BY <1>4, PrecedesStarts
<1>6. /\ first \in HunkSet /\ last \in HunkSet /\ at(first) \in 1 .. Len(current) + 1
      /\ at(last) \in 1 .. Len(current) + 1 /\ at(first) <= at(last)
  BY <1>2, <1>5
<1> HIDE DEF first, last
<1> DEFINE text == Splice(current, at(last), last)
<1>7. text \in Seq(Lines) /\ Len(text) >= at(last) - 1
  BY <1>6, SpliceTyped
<1> HIDE DEF text
<1>8. at(first) \in 1 .. Len(text) + 1
  BY <1>6, <1>7
<1>9. Splice(text, at(first), first) \in Seq(Lines)
  BY <1>6, <1>7, <1>8, SpliceTyped
<1> QED
  BY <1>9 DEF SpliceBoth, text, first, last, key, at

LEMMA FoundOnce ==
  ASSUME NEW hunk, NEW current, Cardinality(Places(hunk, current)) = 1
  PROVE  Places(hunk, current) # {}
PROOF
BY FS_EmptySet

LEMMA ReverseTextTyped ==
  ASSUME NEW before \in Seq(Lines), NEW after \in Seq(Lines), NEW current \in Seq(Lines)
  PROVE  ReverseTextChange(before, after, current) \in Seq(Lines) \cup {Nobody}
PROOF
<1> DEFINE hunks == Hunks(before, after)
<1>1. CASE \E i \in DOMAIN hunks : Cardinality(Places(hunks[i], current)) # 1
  BY <1>1 DEF ReverseTextChange
<1>2. CASE \A i \in DOMAIN hunks : Cardinality(Places(hunks[i], current)) = 1
  <2>1. ASSUME NEW one \in HunkSet, hunks = <<one>>
        PROVE  ReverseTextChange(before, after, current) \in Seq(Lines)
    <3>1. Places(one, current) # {}
      <4>1. Cardinality(Places(one, current)) = 1
        BY <1>2, <2>1
      <4> QED
        BY <4>1, FoundOnce
    <3> DEFINE start == CHOOSE k \in Places(one, current) : TRUE
    <3>2. start \in 1 .. Len(current) + 1
      <4>1. start \in Places(one, current)
        BY <3>1
      <4> QED
        BY <4>1 DEF Places
    <3>3. ReverseTextChange(before, after, current) = Splice(current, start, one)
      BY <1>2, <2>1 DEF ReverseTextChange
    <3> HIDE DEF start
    <3> QED
      BY <3>2, <3>3, SpliceTyped
  <2>2. ASSUME NEW one \in HunkSet, NEW other \in HunkSet, hunks = <<one, other>>
        PROVE  ReverseTextChange(before, after, current) \in Seq(Lines)
    <3>1. Places(one, current) # {} /\ Places(other, current) # {}
      <4>1. Cardinality(Places(one, current)) = 1 /\ Cardinality(Places(other, current)) = 1
        <5>1. 1 \in DOMAIN hunks /\ 2 \in DOMAIN hunks /\ hunks[1] = one /\ hunks[2] = other
          BY <2>2
        <5> HIDE DEF hunks
        <5> QED
          BY <1>2, <5>1
      <4> QED
        BY <4>1, FoundOnce
    <3>2. ReverseTextChange(before, after, current) = SpliceBoth(one, other, current)
      <4>1. Len(hunks) = 2 /\ hunks[1] = one /\ hunks[2] = other
        BY <2>2
      <4> QED
        BY <1>2, <4>1 DEF ReverseTextChange
    <3> QED
      BY <3>1, <3>2, SpliceBothTyped
  <2> QED
    BY <2>1, <2>2, HunksTyped
<1> QED
  BY <1>1, <1>2

LEMMA ReverseTyped ==
  ASSUME NEW before \in Contents, NEW after \in Contents, NEW current \in Contents
  PROVE  Reverse(before, after, current) \in Contents \cup {Nobody}
PROOF
<1>1. CASE Absent \in {before, after, current}
  BY <1>1 DEF Reverse
<1>2. CASE Absent \notin {before, after, current}
  <2>1. ReverseTextChange(before, after, current) \in Seq(Lines) \cup {Nobody}
    BY <1>2, ReverseTextTyped DEF Contents
  <2> QED
    BY <2>1 DEF Reverse, Contents
<1> QED
  BY <1>1, <1>2

\* A step of an undo leaves what it was made of as it was.
LEMMA UndoSteps ==
  ASSUME ControlOK, NEW u \in Undos, NEW step, Step(u, step)
  PROVE  /\ plan'[u].of = plan[u].of /\ plan'[u].path = plan[u].path /\ plan'[u].seen = plan[u].seen
         /\ plan'[u].want = plan[u].want /\ plan'[u].step = step
         /\ \A v \in Undos \ {u} : plan'[v] = plan[v]
PROOF
BY DEF ControlOK, Plans, Step

\* What happens beside the requests.
LEMMA BesideSteps ==
  ASSUME ControlInv, Beside, UNCHANGED <<plan, journal>>
  PROVE  ControlInv'
PROOF
<1>0. /\ WorldOK /\ RowsOK /\ BundlesOK /\ AskOK /\ UiOK /\ WorkerOK /\ ChildOK /\ CallOK
      /\ ControlOK /\ LockInv /\ StageInv /\ BundleInv /\ WorkerInv /\ ChildInv
      /\ HostRunsAlone /\ PlanInv
  BY DEF ControlInv, TypeOK
<1>1. ASSUME NEW p \in Paths, NEW t \in Texts \cup {Absent}, Edit(p, t)
      PROVE  ControlInv'
  <2>1. \A r \in Requests : /\ worker'[r].pc = worker[r].pc /\ worker'[r].conf = worker[r].conf
                            /\ worker'[r].next = worker[r].next
                            /\ worker'[r].touched = (worker[r].touched \/ worker[r].pc \in Verified)
    BY <1>0, <1>1 DEF Edit, WorkerOK
  <2>2. UNCHANGED <<lock, row, ask, ui, plan, call, approved, bundle, tree, exe, child, config>>
    BY <1>1 DEF Edit, stores
  <2>3. RowsOK' /\ BundlesOK' /\ AskOK' /\ UiOK' /\ CallOK' /\ ControlOK' /\ PlanInv'
    BY <1>0, <1>1, Frames DEF Edit, Put, stores
  <2>4. WorldOK'
    <3>1. t \in Contents
      BY TextsTyped
    <3> QED
      BY <1>0, <1>1, <3>1 DEF WorldOK, Files, Edit, Put
  <2>5. WorkerOK'
    BY <1>0, <1>1 DEF WorkerOK, Verified, Edit, Put, stores
  <2>6. ChildOK'
    BY <1>0, <2>1, <2>2 DEF ChildOK
  <2>7. LockInv'
    BY <1>0, <2>1, <2>2 DEF LockInv, HoldsOwn, HoldsGuards, AtStep
  <2>8. StageInv'
    BY <1>0, <2>1, <2>2 DEF StageInv
  <2>9. BundleInv'
    BY <1>0, <2>1, <2>2 DEF BundleInv, Claimed
  <2>10. WorkerInv'
    <3> SUFFICES ASSUME NEW r \in Requests PROVE VerifiedKept(r)'
      BY DEF WorkerInv
    <3>1. CASE worker[r].pc \in Verified
      BY <1>0, <2>1, <2>2, <3>1 DEF WorkerInv, VerifiedKept, Copied, Verified, SameConf, Sandboxed
    <3>2. CASE worker[r].pc \notin Verified
      BY <1>0, <2>1, <2>2, <3>2 DEF WorkerInv, VerifiedKept, Copied, Verified
    <3> QED
      BY <3>1, <3>2
  <2>11. ChildInv'
    BY <1>0, <2>1, <2>2 DEF ChildInv, StartedAsApproved, SameConf
  <2>12. HostRunsAlone'
    BY <1>0, <2>1, <2>2 DEF HostRunsAlone, Active
  <2> QED
    BY <2>3, <2>4, <2>5, <2>6, <2>7, <2>8, <2>9, <2>10, <2>11, <2>12 DEF ControlInv, TypeOK
<1>2. ASSUME Reconfigure
      PROVE  ControlInv'
  <2>1. RowsOK' /\ BundlesOK' /\ AskOK' /\ UiOK' /\ WorkerOK' /\ ChildOK' /\ CallOK' /\ ControlOK'
        /\ LockInv' /\ StageInv' /\ BundleInv' /\ WorkerInv' /\ ChildInv' /\ HostRunsAlone'
        /\ PlanInv'
    BY <1>0, <1>2, Frames DEF Reconfigure, Fault, tasks, stores
  <2>2. WorldOK'
    BY <1>0, <1>2 DEF WorldOK, Confs, Reconfigure, Fault, tasks
  <2> QED
    BY <2>1, <2>2 DEF ControlInv, TypeOK
<1>3. ASSUME Upgrade
      PROVE  ControlInv'
  <2>1. RowsOK' /\ BundlesOK' /\ AskOK' /\ UiOK' /\ WorkerOK' /\ ChildOK' /\ CallOK' /\ ControlOK'
        /\ LockInv' /\ StageInv' /\ ChildInv' /\ HostRunsAlone' /\ PlanInv'
    BY <1>0, <1>3, Frames DEF Upgrade, Fault, tasks, stores
  <2>2. WorldOK'
    BY <1>0, <1>3 DEF WorldOK, Upgrade, Fault, tasks
  <2>3. BundleInv'
    BY <1>0, <1>3 DEF BundleInv, Claimed, Upgrade, tasks, stores, WorldOK, AskOK, BundlesOK, Bundles
  <2>4. WorkerInv'
    BY <1>0, <1>3 DEF WorkerInv, VerifiedKept, FilesAsApproved, Upgrade, tasks, stores
  <2> QED
    BY <2>1, <2>2, <2>3, <2>4 DEF ControlInv, TypeOK
<1>4. ASSUME ServerRestarts
      PROVE  ControlInv'
  <2>1. \A c \in Calls : call[c].pc = "done" => call'[c] = call[c]
    BY <1>0, <1>4 DEF CallOK, ServerRestarts
  <2>2. BundlesOK' /\ UiOK' /\ WorkerOK' /\ ChildOK' /\ ControlOK'
    BY <1>0, <1>4, Frames DEF ServerRestarts, world, stores, Fault
  <2>3. WorldOK'
    BY <1>0, <1>4 DEF WorldOK, ServerRestarts, world, Fault
  <2>4. RowsOK'
    BY <1>0, <1>4 DEF RowsOK, Holders, ServerRestarts
  <2>5. AskOK'
    BY <1>0, <1>4 DEF AskOK, ServerRestarts, Fault
  <2>6. CallOK'
    BY <1>0, <1>4 DEF CallOK, ServerRestarts
  <2>7. LockInv'
    <3>1. \A r \in Requests, n \in Locks :
            lock[n] = r /\ (ask'[r].pc = "copying" \/ worker[r].pc # "none") => lock'[n] = r
      BY <1>0, <1>4, PartiesDistinct DEF StageInv, Calls, ServerRestarts
    <3>2. \A u \in Undos :
            AtStep(u, "claimed")' \/ AtStep(u, "restored")' =>
              /\ AtStep(u, "claimed") \/ AtStep(u, "restored")
              /\ lock["workspace"] = u => lock'["workspace"] = u
      BY <1>0, <1>4, PartiesDistinct DEF Locks, AtStep, Calls, ServerRestarts
    <3>3. UNCHANGED worker /\ \A r \in Requests : ask'[r].pc = "copying" => ask[r].pc = "copying"
      BY <1>0, <1>4 DEF ServerRestarts
    <3> QED
      BY <1>0, <3>1, <3>2, <3>3, LocksStay
  <2>8. StageInv'
    BY <1>0, <1>4 DEF StageInv, ServerRestarts
  <2>9. BundleInv'
    BY <1>0, <1>4 DEF BundleInv, Claimed, ServerRestarts, world, stores
  <2>10. WorkerInv'
    BY <1>0, <1>4 DEF WorkerInv, VerifiedKept, FilesAsApproved, ServerRestarts, world, stores
  <2>11. ChildInv'
    BY <1>0, <1>4 DEF ChildInv, StartedAsApproved, ServerRestarts
  <2>12. HostRunsAlone'
    BY <1>0, <1>4 DEF HostRunsAlone, Active, ServerRestarts
  <2>13. PlanInv'
    BY <1>0, <1>4, <2>1 DEF ServerRestarts, PlanInv, Calls
  <2> QED
    BY <2>2, <2>3, <2>4, <2>5, <2>6, <2>7, <2>8, <2>9, <2>10, <2>11, <2>12, <2>13 DEF ControlInv,
       TypeOK
<1>5. ASSUME UiRestarts
      PROVE  ControlInv'
  <2>1. BundlesOK' /\ AskOK' /\ WorkerOK' /\ ChildOK' /\ CallOK' /\ ControlOK' /\ WorkerInv'
        /\ ChildInv' /\ HostRunsAlone'
    BY <1>0, <1>5, Frames DEF UiRestarts, world, stores
  <2>2. WorldOK'
    BY <1>0, <1>5 DEF WorldOK, UiRestarts, world, Fault
  <2>3. RowsOK'
    BY <1>0, <1>5 DEF RowsOK, Holders, UiRestarts, Released
  <2>4. UiOK'
    BY <1>0, <1>5 DEF UiOK, WorldOK, UiRestarts
  <2>5. LockInv'
    <3>1. \A r \in Requests, n \in Locks :
            lock[n] = r /\ (ask'[r].pc = "copying" \/ worker[r].pc # "none") => lock'[n] = r
      BY <1>0, <1>5, PartiesDistinct DEF StageInv, UiOK, UiRestarts, Released
    <3>2. \A u \in Undos :
            AtStep(u, "claimed")' \/ AtStep(u, "restored")' =>
              /\ AtStep(u, "claimed") \/ AtStep(u, "restored")
              /\ lock["workspace"] = u => lock'["workspace"] = u
      BY <1>0, <1>5, PartiesDistinct DEF AtStep, UiRestarts
    <3>3. UNCHANGED worker /\ \A r \in Requests : ask'[r].pc = "copying" => ask[r].pc = "copying"
      BY <1>0, <1>5 DEF UiRestarts
    <3> QED
      BY <1>0, <3>1, <3>2, <3>3, LocksStay
  <2>6. StageInv'
    BY <1>0, <1>5, PartiesDistinct DEF StageInv, UiRestarts
  <2>7. BundleInv'
    BY <1>0, <1>5 DEF BundleInv, Claimed, UiRestarts, world, stores
  <2>8. PlanInv'
    BY <1>0, <1>5 DEF PlanInv, UiRestarts
  <2> QED
    BY <2>1, <2>2, <2>3, <2>4, <2>5, <2>6, <2>7, <2>8 DEF ControlInv, TypeOK
<1>6. ASSUME UiFails
      PROVE  ControlInv'
  <2>1. WorldOK' /\ BundlesOK' /\ AskOK' /\ WorkerOK' /\ ChildOK' /\ CallOK' /\ ControlOK'
        /\ WorkerInv' /\ ChildInv'
    BY <1>0, <1>6, Frames DEF UiFails, world, stores, Moved
  <2>2. RowsOK'
    BY <1>0, <1>6 DEF RowsOK, Locks, Holders, UiFails, world, stores, Moved
  <2>3. UiOK'
    BY <1>0, <1>6 DEF UiOK, UiFails, world, stores, Moved
  <2>4. LockInv'
    BY <1>0, <1>6 DEF LockInv, HoldsOwn, HoldsGuards, AtStep, UiFails
  <2>5. StageInv'
    BY <1>0, <1>6, PartiesDistinct DEF StageInv, UiFails, Moved
  <2>6. BundleInv'
    BY <1>0, <1>6 DEF BundleInv, Claimed, UiFails, world, stores, Moved
  <2>7. HostRunsAlone'
    BY <1>0, <1>6 DEF HostRunsAlone, Active, UiFails, Moved
  <2>8. PlanInv'
    BY <1>0, <1>6 DEF PlanInv, UiFails, Moved
  <2> QED
    BY <2>1, <2>2, <2>3, <2>4, <2>5, <2>6, <2>7, <2>8 DEF ControlInv, TypeOK
<1>7. ASSUME UiTimesOut
      PROVE  ControlInv'
  <2>1. WorldOK' /\ RowsOK' /\ BundlesOK' /\ AskOK' /\ WorkerOK' /\ ChildOK' /\ CallOK'
        /\ ControlOK' /\ WorkerInv' /\ ChildInv' /\ HostRunsAlone'
    BY <1>0, <1>7, Frames DEF UiTimesOut, world, stores
  <2>2. UiOK'
    BY <1>0, <1>7 DEF UiOK, UiTimesOut, world, stores
  <2>3. LockInv'
    BY <1>0, <1>7 DEF LockInv, HoldsOwn, HoldsGuards, AtStep, UiTimesOut
  <2>4. StageInv'
    BY <1>0, <1>7 DEF StageInv, UiTimesOut
  <2>5. BundleInv'
    BY <1>0, <1>7 DEF BundleInv, Claimed, UiTimesOut, world, stores
  <2>6. PlanInv'
    BY <1>0, <1>7 DEF PlanInv, UiTimesOut
  <2> QED
    BY <2>1, <2>2, <2>3, <2>4, <2>5, <2>6 DEF ControlInv, TypeOK
<1>8. ASSUME NEW c \in Calls, BeginCall(c)
      PROVE  ControlInv'
  <2>1. WorldOK' /\ RowsOK' /\ BundlesOK' /\ AskOK' /\ UiOK' /\ WorkerOK' /\ ChildOK'
        /\ ControlOK' /\ LockInv' /\ StageInv' /\ BundleInv' /\ WorkerInv' /\ ChildInv'
    BY <1>0, <1>8, Frames DEF BeginCall, world, stores
  <2>2. CallOK'
    BY <1>0, <1>8 DEF CallOK, BeginCall, world, stores
  <2>3. HostRunsAlone'
    BY <1>0, <1>8, GuardsKeepOut, PartiesDistinct DEF HostRunsAlone, BeginCall, Guarded
  <2>4. PlanInv'
    BY <1>0, <1>8 DEF PlanInv, BeginCall
  <2> QED
    BY <2>1, <2>2, <2>3, <2>4 DEF ControlInv, TypeOK
<1>9. ASSUME NEW c \in Calls, EndCall(c)
      PROVE  ControlInv'
  <2>1. WorldOK' /\ BundlesOK' /\ AskOK' /\ UiOK' /\ WorkerOK' /\ ChildOK' /\ ControlOK'
        /\ StageInv' /\ BundleInv' /\ WorkerInv' /\ ChildInv'
    BY <1>0, <1>9, Frames DEF EndCall, world, stores, Released
  <2>2. RowsOK'
    BY <1>0, <1>9 DEF RowsOK, Holders, EndCall, Released
  <2>3. CallOK'
    BY <1>0, <1>9 DEF CallOK, EndCall
  <2>4. LockInv'
    <3>1. \A r \in Requests, n \in Locks :
            lock[n] = r /\ (ask'[r].pc = "copying" \/ worker[r].pc # "none") => lock'[n] = r
      BY <1>0, <1>9, PartiesDistinct DEF EndCall, Released
    <3>2. \A u \in Undos :
            AtStep(u, "claimed")' \/ AtStep(u, "restored")' =>
              /\ AtStep(u, "claimed") \/ AtStep(u, "restored")
              /\ lock["workspace"] = u => lock'["workspace"] = u
      BY <1>0, <1>9, PartiesDistinct DEF Locks, AtStep, EndCall, Released
    <3>3. UNCHANGED worker /\ \A r \in Requests : ask'[r].pc = "copying" => ask[r].pc = "copying"
      BY <1>0, <1>9 DEF EndCall
    <3> QED
      BY <1>0, <3>1, <3>2, <3>3, LocksStay
  <2>5. HostRunsAlone'
    BY <1>0, <1>9 DEF HostRunsAlone, Active, EndCall
  <2>6. PlanInv'
    BY <1>0, <1>9 DEF PlanInv, EndCall
  <2> QED
    BY <2>1, <2>2, <2>3, <2>4, <2>5, <2>6 DEF ControlInv, TypeOK
<1>10. ASSUME NEW c \in Calls, NEW p \in Paths, NEW t \in Texts \cup {Absent}, Write(c, p, t)
      PROVE  ControlInv'
  <2>1. BundlesOK' /\ AskOK' /\ UiOK' /\ WorkerOK' /\ ChildOK' /\ ControlOK' /\ StageInv'
        /\ BundleInv' /\ ChildInv'
    BY <1>0, <1>10, Frames DEF Write, Put, Take, stores
  <2>0. t \in Contents
    BY TextsTyped
  <2>2. WorldOK'
    BY <1>0, <1>10, <2>0 DEF WorldOK, Files, Write, Put
  <2>3. RowsOK'
    BY <1>0, <1>10 DEF RowsOK, Locks, Holders, Write, Take
  <2>4. CallOK'
    BY <1>0, <1>10, <2>0 DEF CallOK, Write, WorldOK, Files
  <2>5. LockInv'
    <3>1. \A r \in Requests, n \in Locks :
            lock[n] = r /\ (ask'[r].pc = "copying" \/ worker[r].pc # "none") => lock'[n] = r
      BY <1>0, <1>10, PartiesDistinct DEF Write, Take
    <3>2. \A u \in Undos :
            AtStep(u, "claimed")' \/ AtStep(u, "restored")' =>
              /\ AtStep(u, "claimed") \/ AtStep(u, "restored")
              /\ lock["workspace"] = u => lock'["workspace"] = u
      BY <1>0, <1>10, PartiesDistinct DEF AtStep, Write, Take
    <3>3. UNCHANGED worker /\ \A r \in Requests : ask'[r].pc = "copying" => ask[r].pc = "copying"
      BY <1>0, <1>10 DEF Write
    <3> QED
      BY <1>0, <3>1, <3>2, <3>3, LocksStay
  <2>6. WorkerInv'
    BY <1>0, <1>10, PartiesDistinct DEF WorkerInv, VerifiedKept, FilesAsApproved, Write, Take,
       LockInv, HoldsOwn, Copied, Verified
  <2>7. HostRunsAlone'
    BY <1>0, <1>10 DEF HostRunsAlone, Active, Write
  <2>8. PlanInv'
    BY <1>0, <1>10 DEF PlanInv, Write
  <2> QED
    BY <2>1, <2>2, <2>3, <2>4, <2>5, <2>6, <2>7, <2>8 DEF ControlInv, TypeOK
<1>13. ASSUME SweepOpens
      PROVE  ControlInv'
  <2>1. WorldOK' /\ RowsOK' /\ BundlesOK' /\ AskOK' /\ UiOK' /\ WorkerOK' /\ ChildOK'
        /\ ControlOK' /\ LockInv' /\ StageInv' /\ BundleInv' /\ WorkerInv' /\ ChildInv'
        /\ HostRunsAlone' /\ PlanInv'
    BY <1>0, <1>13, Frames DEF SweepOpens, world, stores
  <2>2. CallOK'
    BY <1>0, <1>13 DEF CallOK, SweepOpens, world, stores
  <2> QED
    BY <2>1, <2>2 DEF ControlInv, TypeOK
<1>14. ASSUME NEW S \in SUBSET (Rows \cup Calls), SweepPrunes(S)
      PROVE  ControlInv'
  <2>1. /\ \A x \in Rows : row'[x] = row[x] \/ (row[x] \in Ended /\ row'[x] = "gone")
        /\ \A c \in Calls : call'[c] = call[c] \/
              (call[c].pc = "done" /\ call'[c] = [call[c] EXCEPT !.pc = "gone"])
    BY <1>14, PartiesDistinct, RequestAssumption DEF SweepPrunes
  <2>2. WorldOK' /\ BundlesOK' /\ AskOK' /\ UiOK' /\ WorkerOK' /\ ChildOK' /\ ControlOK' /\ LockInv'
        /\ WorkerInv' /\ ChildInv'
    BY <1>0, <1>14, Frames DEF SweepPrunes, world, stores
  <2>3. RowsOK'
    BY <1>0, <1>14 DEF RowsOK, SweepPrunes
  <2>4. CallOK'
    BY <1>0, <1>14 DEF CallOK, SweepPrunes
  <2>5. StageInv'
    BY <1>0, <1>14, <2>1, PartiesDistinct DEF StageInv, SweepPrunes, UiOK, Ended
  <2>6. BundleInv'
    BY <1>0, <1>14, <2>1, PartiesDistinct DEF BundleInv, Claimed, SweepPrunes, world, stores, Ended
  <2>7. HostRunsAlone'
    <3>1. \A c \in Calls : call'[c].pc \in {"ready", "holding"} => call'[c].pc = call[c].pc
      BY <1>0, <2>1 DEF CallOK
    <3>2. \A x \in Rows : row'[x] \in {"queued", "running"} => row'[x] = row[x]
      BY <2>1
    <3>3. Active' \subseteq Active
      BY <3>1, <3>2 DEF Active
    <3> QED
      BY <1>0, <1>14, <3>3 DEF HostRunsAlone, SweepPrunes
  <2>8. PlanInv'
    <3>1. \A c \in Calls :
            /\ call'[c].path = call[c].path /\ call'[c].pre = call[c].pre
            /\ call'[c].post = call[c].post
            /\ call[c].pc \in {"done", "gone"} => call'[c].pc \in {"done", "gone"}
      <4>1. ASSUME NEW c \in Calls, NEW k, k = [call[c] EXCEPT !.pc = "gone"]
            PROVE  /\ k.path = call[c].path /\ k.pre = call[c].pre /\ k.post = call[c].post
                   /\ k.pc = "gone"
        BY <1>0, <4>1 DEF CallOK
      <4> QED
        BY <2>1, <4>1
    <3>2. ui' = ui /\ plan' = plan
      BY <1>14 DEF SweepPrunes
    <3>3. \A u \in Undos :
            /\ row'[u] # "none" => row[u] # "none"
            /\ row'[u] \notin {"none", "refused", "conflict", "gone"} => row'[u] = row[u]
            /\ row[u] \in {"running", "committing"} => row'[u] = row[u]
      BY <2>1, PartiesDistinct DEF Ended
    <3>4. ASSUME NEW u \in Undos, row'[u] # "none"
          PROVE  LET c == plan[u].of IN
                 /\ c \in Writes /\ call'[c].pc \in {"done", "gone"} /\ plan[u].path \in Paths
                 /\ call'[c].path = plan[u].path
                 /\ Aim[u] = "undo" => plan[u].want = Reverse(call'[c].pre, call'[c].post, plan[u].seen)
      <4> DEFINE c == plan[u].of
      <4>1. /\ c \in Writes /\ call[c].pc \in {"done", "gone"} /\ plan[u].path \in Paths
            /\ call[c].path = plan[u].path
            /\ Aim[u] = "undo" => plan[u].want = Reverse(call[c].pre, call[c].post, plan[u].seen)
        BY <1>0, <3>3, <3>4 DEF PlanInv
      <4>2. c \in Calls
        BY <4>1 DEF Calls
      <4> HIDE DEF c
      <4>3. /\ call'[c].path = call[c].path /\ call'[c].pre = call[c].pre /\ call'[c].post = call[c].post
            /\ call'[c].pc \in {"done", "gone"}
        BY <3>1, <4>1, <4>2
      <4>4. Aim[u] = "undo" => plan[u].want = Reverse(call'[c].pre, call'[c].post, plan[u].seen)
        BY <4>1, <4>3
      <4> QED
        BY <4>1, <4>3, <4>4 DEF c
    <3>5. ASSUME NEW u \in Undos
          PROVE  /\ row'[u] \notin {"none", "refused", "conflict", "gone"} => plan[u].want # Nobody
                 /\ ui.pc = "undo" /\ ui.on = u => row'[u] \in {"running", "committing"}
      BY <1>0, <3>3 DEF PlanInv
    <3> QED
      BY <3>2, <3>4, <3>5 DEF PlanInv
  <2> QED
    BY <2>2, <2>3, <2>4, <2>5, <2>6, <2>7, <2>8 DEF ControlInv, TypeOK
<1>11. ASSUME SweepReads
      PROVE  ControlInv'
  <2>1. WorldOK' /\ RowsOK' /\ BundlesOK' /\ AskOK' /\ UiOK' /\ WorkerOK' /\ ChildOK'
        /\ ControlOK' /\ LockInv' /\ StageInv' /\ BundleInv' /\ WorkerInv' /\ ChildInv'
        /\ HostRunsAlone' /\ PlanInv'
    BY <1>0, <1>11, Frames DEF SweepReads, world, stores
  <2>2. CallOK'
    BY <1>0, <1>11 DEF CallOK, SweepReads, world, stores
  <2> QED
    BY <2>1, <2>2 DEF ControlInv, TypeOK
<1>12. ASSUME NEW S \in SUBSET Requests, SweepRemoves(S)
      PROVE  ControlInv'
  <2>1. WorldOK' /\ RowsOK' /\ AskOK' /\ UiOK' /\ WorkerOK' /\ ChildOK' /\ ControlOK' /\ LockInv'
        /\ StageInv' /\ ChildInv' /\ HostRunsAlone' /\ PlanInv'
    BY <1>0, <1>12, Frames DEF SweepRemoves, world
  <2>2. BundlesOK'
    BY <1>0, <1>12 DEF BundlesOK, SweepRemoves
  <2>3. CallOK'
    BY <1>0, <1>12 DEF CallOK, SweepRemoves, world
  <2>4. BundleInv'
    BY <1>0, <1>12 DEF BundleInv, Claimed, SweepRemoves, world
  <2>5. WorkerInv'
    BY <1>0, <1>12 DEF WorkerInv, VerifiedKept, FilesAsApproved, SweepRemoves, world
  <2> QED
    BY <2>1, <2>2, <2>3, <2>4, <2>5 DEF ControlInv, TypeOK
<1> QED
  BY <1>1, <1>2, <1>3, <1>4, <1>5, <1>6, <1>7, <1>8, <1>9, <1>10, <1>11, <1>12, <1>13, <1>14 DEF Beside

\* The server, the approval UI and the store, on behalf of one request.
LEMMA RequestSteps ==
  ASSUME ControlInv, NEW r \in Requests, RequestStep(r),
         UNCHANGED <<plan, journal>>
  PROVE  ControlInv'
PROOF
<1>0. /\ WorldOK /\ RowsOK /\ BundlesOK /\ AskOK /\ UiOK /\ WorkerOK /\ ChildOK /\ CallOK
      /\ ControlOK /\ LockInv /\ StageInv /\ BundleInv /\ WorkerInv /\ ChildInv
      /\ HostRunsAlone /\ PlanInv
  BY DEF ControlInv, TypeOK
<1>1. ASSUME Admit(r)
      PROVE  ControlInv'
  <2>1. WorldOK' /\ RowsOK' /\ BundlesOK' /\ UiOK' /\ WorkerOK' /\ ChildOK' /\ CallOK'
        /\ ControlOK' /\ HostRunsAlone' /\ PlanInv'
    BY <1>0, <1>1, Frames DEF Admit, world, stores
  <2>2. StageInv' /\ BundleInv' /\ WorkerInv' /\ ChildInv'
    <3>1. ask[r].pc # "asked" /\ UNCHANGED <<worker, ui, child, approved, exe, live, tree>>
      BY <1>1 DEF Admit, world, stores
    <3>2. \A q \in Requests \ {r} : ask'[q] = ask[q] /\ bundle'[q] = bundle[q]
      BY <1>0, <1>1 DEF Admit, stores
    <3>3. \A x \in Rows \ {r} : row'[x] = row[x]
      BY <1>0, <1>1 DEF RowsOK, Admit, world, stores
    <3>4. row'[r] = "none" \/ (row'[r] = "pending" /\ ask'[r].pc = "asked")
      BY <1>0, <3>1, <1>1, EarlyRequest, PartiesDistinct DEF Admit
    <3>5. ask'[r].exe <= exe /\ (ask'[r].pc \in {"idle", "admitted"} => bundle'[r] = Nobody)
      BY <1>0, <1>1 DEF WorldOK, BundleInv, Admit, stores
    <3>6. bundle'[r] # Nobody => ask'[r].exe <= bundle'[r].exe /\ bundle'[r].exe <= exe
      BY <1>0, <1>1 DEF BundleInv, Admit, stores
    <3> QED
      BY <3>1, <3>2, <3>3, <3>4, <3>5, <3>6, ServerWorks
  <2>3. AskOK'
    BY <1>0, <1>1 DEF AskOK, WorldOK, Admit
  <2>4. LockInv'
    BY <1>0, <1>1 DEF LockInv, HoldsOwn, HoldsGuards, AtStep, Admit
  <2> QED
    BY <2>1, <2>2, <2>3, <2>4 DEF ControlInv, TypeOK
<1>2. ASSUME OpenBundle(r)
      PROVE  ControlInv'
  <2>1. WorldOK' /\ UiOK' /\ WorkerOK' /\ ChildOK' /\ CallOK' /\ ControlOK' /\ HostRunsAlone'
        /\ PlanInv'
    BY <1>0, <1>2, Frames DEF OpenBundle, world, AskGo
  <2>2. StageInv' /\ BundleInv' /\ WorkerInv' /\ ChildInv'
    <3>1. ask[r].pc # "asked" /\ UNCHANGED <<worker, ui, child, approved, exe, live, tree>>
      BY <1>2 DEF OpenBundle, world, AskGo
    <3>2. \A q \in Requests \ {r} : ask'[q] = ask[q] /\ bundle'[q] = bundle[q]
      BY <1>0, <1>2 DEF OpenBundle, AskGo
    <3>3. \A x \in Rows \ {r} : row'[x] = row[x]
      BY <1>0, <1>2 DEF RowsOK, OpenBundle, world, AskGo
    <3>4. row'[r] = "none" \/ (row'[r] = "pending" /\ ask'[r].pc = "asked")
      BY <1>0, <3>1, <1>2, EarlyRequest, PartiesDistinct DEF OpenBundle
    <3>5. ask'[r].exe <= exe /\ (ask'[r].pc \in {"idle", "admitted"} => bundle'[r] = Nobody)
      BY <1>0, <1>2 DEF AskOK, BundleInv, OpenBundle, AskGo
    <3>6. bundle'[r] # Nobody => ask'[r].exe <= bundle'[r].exe /\ bundle'[r].exe <= exe
      BY <1>0, <1>2 DEF WorldOK, BundleInv, OpenBundle, AskGo
    <3> QED
      BY <3>1, <3>2, <3>3, <3>4, <3>5, <3>6, ServerWorks
  <2>3. RowsOK'
    BY <1>0, <1>2, PartiesDistinct DEF RowsOK, Holders, OpenBundle, world, AskGo
  <2>4. BundlesOK'
    BY <1>0, <1>2 DEF BundlesOK, Bundles, Copies, Contents, WorldOK, OpenBundle
  <2>5. AskOK'
    BY <1>0, <1>2 DEF AskOK, OpenBundle, world, AskGo
  <2>6. LockInv'
    <3>1. \A q \in Requests, n \in Locks :
            lock[n] = q /\ (ask'[q].pc = "copying" \/ worker[q].pc # "none") => lock'[n] = q
      BY <1>0, <1>2, PartiesDistinct, EarlyRequest DEF RowsOK, OpenBundle
    <3>2. \A u \in Undos :
            AtStep(u, "claimed")' \/ AtStep(u, "restored")' =>
              /\ AtStep(u, "claimed") \/ AtStep(u, "restored")
              /\ lock["workspace"] = u => lock'["workspace"] = u
      BY <1>0, <1>2, PartiesDistinct DEF AtStep, OpenBundle
    <3>3. /\ UNCHANGED worker
          /\ \A q \in Requests :
               ask'[q].pc = "copying" =>
                 \/ ask[q].pc = "copying"
                 \/ lock'["workspace"] = q /\ lock'["approval-staging"] = q
      BY <1>0, <1>2 DEF RowsOK, Locks, OpenBundle, AskGo
    <3> QED
      BY <1>0, <3>1, <3>2, <3>3, LocksStay
  <2> QED
    BY <2>1, <2>2, <2>3, <2>4, <2>5, <2>6 DEF ControlInv, TypeOK
<1>3. ASSUME NEW p \in Paths, CopyFile(r, p)
      PROVE  ControlInv'
  <2>1. WorldOK' /\ RowsOK' /\ UiOK' /\ WorkerOK' /\ ChildOK' /\ CallOK' /\ ControlOK'
        /\ HostRunsAlone' /\ PlanInv'
    BY <1>0, <1>3, Frames DEF CopyFile, world
  <2>2. StageInv' /\ BundleInv' /\ WorkerInv' /\ ChildInv'
    <3>1. ask[r].pc # "asked" /\ UNCHANGED <<worker, ui, child, approved, exe, live, tree>>
      BY <1>3 DEF CopyFile, world
    <3>2. \A q \in Requests \ {r} : ask'[q] = ask[q] /\ bundle'[q] = bundle[q]
      BY <1>0, <1>3 DEF CopyFile
    <3>3. \A x \in Rows \ {r} : row'[x] = row[x]
      BY <1>0, <1>3 DEF RowsOK, CopyFile, world
    <3>4. row'[r] = "none" \/ (row'[r] = "pending" /\ ask'[r].pc = "asked")
      BY <1>0, <3>1, <1>3, EarlyRequest, PartiesDistinct DEF AskOK, RowsOK, CopyFile, world
    <3>5. ask'[r].exe <= exe /\ (ask'[r].pc \in {"idle", "admitted"} => bundle'[r] = Nobody)
      BY <1>0, <1>3 DEF BundleInv, CopyFile
    <3>6. bundle'[r] # Nobody => ask'[r].exe <= bundle'[r].exe /\ bundle'[r].exe <= exe
      BY <1>0, <1>3 DEF BundleInv, CopyFile
    <3> QED
      BY <3>1, <3>2, <3>3, <3>4, <3>5, <3>6, ServerWorks
  <2>3. BundlesOK'
    <3>1. bundle[r] \in Bundles
      BY <1>0, <1>3 DEF BundlesOK, CopyFile, world
    <3>2. live[p].text \in Contents
      BY <1>0, <1>3 DEF WorldOK, Files
    <3>3. [bundle[r] EXCEPT !.copy[p] = live[p].text] \in Bundles
      BY <3>1, <3>2, <1>3 DEF Bundles, Copies
    <3> QED
      BY <1>0, <1>3, <3>3 DEF BundlesOK, CopyFile, world
  <2>4. AskOK'
    BY <1>0, <1>3 DEF AskOK, CopyFile, world
  <2>5. LockInv'
    BY <1>0, <1>3 DEF LockInv, HoldsOwn, HoldsGuards, AtStep, CopyFile
  <2> QED
    BY <2>1, <2>2, <2>3, <2>4, <2>5 DEF ControlInv, TypeOK
<1>4. ASSUME SealBundle(r)
      PROVE  ControlInv'
  <2>1. WorldOK' /\ UiOK' /\ WorkerOK' /\ ChildOK' /\ CallOK' /\ ControlOK' /\ HostRunsAlone'
        /\ PlanInv'
    BY <1>0, <1>4, Frames DEF SealBundle, world, AskGo, Released
  <2>2. StageInv' /\ BundleInv' /\ WorkerInv' /\ ChildInv'
    <3>1. ask[r].pc # "asked" /\ UNCHANGED <<worker, ui, child, approved, exe, live, tree>>
      BY <1>4 DEF SealBundle, world, AskGo, Released
    <3>2. \A q \in Requests \ {r} : ask'[q] = ask[q] /\ bundle'[q] = bundle[q]
      BY <1>0, <1>4 DEF BundlesOK, SealBundle, AskGo
    <3>3. \A x \in Rows \ {r} : row'[x] = row[x]
      BY <1>0, <1>4 DEF SealBundle
    <3>4. row'[r] = "none" \/ (row'[r] = "pending" /\ ask'[r].pc = "asked")
      BY <1>0, <3>1, <1>4, EarlyRequest, PartiesDistinct DEF SealBundle
    <3>5. ask'[r].exe <= exe /\ (ask'[r].pc \in {"idle", "admitted"} => bundle'[r] = Nobody)
      BY <1>0, <1>4 DEF BundleInv, SealBundle, AskGo
    <3>6. bundle'[r] # Nobody => ask'[r].exe <= bundle'[r].exe /\ bundle'[r].exe <= exe
      BY <1>0, <1>4 DEF BundlesOK, BundleInv, SealBundle, AskGo
    <3> QED
      BY <3>1, <3>2, <3>3, <3>4, <3>5, <3>6, ServerWorks
  <2>3. RowsOK'
    BY <1>0, <1>4 DEF RowsOK, Holders, SealBundle, Released
  <2>4. BundlesOK'
    <3>1. bundle[r] \in Bundles
      BY <1>0, <1>4 DEF BundlesOK, SealBundle
    <3>2. [bundle[r] EXCEPT !.sealed = TRUE, !.bound = IF Kind[r] = "host" THEN Nobody ELSE live]
            \in Bundles
      BY <1>0, <3>1 DEF Bundles, WorldOK
    <3> QED
      BY <1>0, <1>4, <3>2 DEF BundlesOK, SealBundle
  <2>5. AskOK'
    BY <1>0, <1>4 DEF AskOK, SealBundle, AskGo
  <2>6. LockInv'
    <3>1. \A q \in Requests, n \in Locks :
            lock[n] = q /\ (ask'[q].pc = "copying" \/ worker[q].pc # "none") => lock'[n] = q
      BY <1>0, <1>4, PartiesDistinct, EarlyRequest DEF AskOK, SealBundle, AskGo, Released
    <3>2. \A u \in Undos :
            AtStep(u, "claimed")' \/ AtStep(u, "restored")' =>
              /\ AtStep(u, "claimed") \/ AtStep(u, "restored")
              /\ lock["workspace"] = u => lock'["workspace"] = u
      BY <1>0, <1>4, PartiesDistinct DEF Locks, AtStep, SealBundle, Released
    <3>3. /\ UNCHANGED worker
          /\ \A q \in Requests :
               ask'[q].pc = "copying" =>
                 \/ ask[q].pc = "copying"
                 \/ lock'["workspace"] = q /\ lock'["approval-staging"] = q
      BY <1>0, <1>4 DEF SealBundle, AskGo
    <3> QED
      BY <1>0, <3>1, <3>2, <3>3, LocksStay
  <2> QED
    BY <2>1, <2>2, <2>3, <2>4, <2>5, <2>6 DEF ControlInv, TypeOK
<1>5. ASSUME BundleFails(r)
      PROVE  ControlInv'
  <2>1. UiOK' /\ WorkerOK' /\ ChildOK' /\ CallOK' /\ ControlOK' /\ HostRunsAlone' /\ PlanInv'
    BY <1>0, <1>5, Frames DEF BundleFails
  <2>2. StageInv' /\ BundleInv' /\ WorkerInv' /\ ChildInv'
    <3>1. ask[r].pc # "asked" /\ UNCHANGED <<worker, ui, child, approved, exe, live, tree>>
      BY <1>5 DEF BundleFails, world
    <3>2. \A q \in Requests \ {r} : ask'[q] = ask[q] /\ bundle'[q] = bundle[q]
      BY <1>0, <1>5 DEF BundleFails, AskGo
    <3>3. \A x \in Rows \ {r} : row'[x] = row[x]
      BY <1>0, <1>5 DEF BundleFails
    <3>4. row'[r] = "none" \/ (row'[r] = "pending" /\ ask'[r].pc = "asked")
      BY <1>0, <3>1, <1>5, EarlyRequest, PartiesDistinct DEF BundleFails
    <3>5. ask'[r].exe <= exe /\ (ask'[r].pc \in {"idle", "admitted"} => bundle'[r] = Nobody)
      BY <1>0, <1>5 DEF BundleInv, BundleFails, AskGo
    <3>6. bundle'[r] # Nobody => ask'[r].exe <= bundle'[r].exe /\ bundle'[r].exe <= exe
      BY <1>0, <1>5 DEF BundleInv, BundleFails, AskGo
    <3> QED
      BY <3>1, <3>2, <3>3, <3>4, <3>5, <3>6, ServerWorks
  <2>3. WorldOK'
    BY <1>0, <1>5 DEF WorldOK, BundleFails, world, Fault
  <2>4. RowsOK'
    BY <1>0, <1>5 DEF RowsOK, Holders, BundleFails, Released
  <2>5. BundlesOK'
    BY <1>0, <1>5 DEF BundlesOK, BundleFails
  <2>6. AskOK'
    BY <1>0, <1>5 DEF AskOK, BundleFails, AskGo
  <2>7. LockInv'
    <3>1. \A q \in Requests, n \in Locks :
            lock[n] = q /\ (ask'[q].pc = "copying" \/ worker[q].pc # "none") => lock'[n] = q
      BY <1>0, <1>5, PartiesDistinct, EarlyRequest DEF AskOK, BundleFails, AskGo, Released
    <3>2. \A u \in Undos :
            AtStep(u, "claimed")' \/ AtStep(u, "restored")' =>
              /\ AtStep(u, "claimed") \/ AtStep(u, "restored")
              /\ lock["workspace"] = u => lock'["workspace"] = u
      BY <1>0, <1>5, PartiesDistinct DEF Locks, AtStep, BundleFails, Released
    <3>3. /\ UNCHANGED worker
          /\ \A q \in Requests :
               ask'[q].pc = "copying" =>
                 \/ ask[q].pc = "copying"
                 \/ lock'["workspace"] = q /\ lock'["approval-staging"] = q
      BY <1>0, <1>5 DEF BundleFails, AskGo
    <3> QED
      BY <1>0, <3>1, <3>2, <3>3, LocksStay
  <2> QED
    BY <2>1, <2>2, <2>3, <2>4, <2>5, <2>6, <2>7 DEF ControlInv, TypeOK
<1>6. ASSUME AskForApproval(r)
      PROVE  ControlInv'
  <2>1. WorldOK' /\ BundlesOK' /\ UiOK' /\ WorkerOK' /\ ChildOK' /\ CallOK' /\ ControlOK'
    BY <1>0, <1>6, Frames DEF AskForApproval, world, stores
  <2>2. StageInv' /\ BundleInv' /\ WorkerInv' /\ ChildInv'
    <3>1. ask[r].pc # "asked" /\ UNCHANGED <<worker, ui, child, approved, exe, live, tree>>
      BY <1>6 DEF AskForApproval, world, stores
    <3>2. \A q \in Requests \ {r} : ask'[q] = ask[q] /\ bundle'[q] = bundle[q]
      BY <1>0, <1>6 DEF AskOK, AskForApproval, stores, AskGo
    <3>3. \A x \in Rows \ {r} : row'[x] = row[x]
      BY <1>0, <1>6 DEF RowsOK, AskForApproval
    <3>4. row'[r] = "none" \/ (row'[r] = "pending" /\ ask'[r].pc = "asked")
      BY <1>0, <3>1, <1>6, EarlyRequest, PartiesDistinct DEF AskOK, RowsOK, AskForApproval
    <3>5. ask'[r].exe <= exe /\ (ask'[r].pc \in {"idle", "admitted"} => bundle'[r] = Nobody)
      BY <1>0, <1>6 DEF AskOK, BundleInv, AskForApproval, AskGo
    <3>6. bundle'[r] # Nobody => ask'[r].exe <= bundle'[r].exe /\ bundle'[r].exe <= exe
      BY <1>0, <1>6 DEF AskOK, BundleInv, AskForApproval, stores, AskGo
    <3> QED
      BY <3>1, <3>2, <3>3, <3>4, <3>5, <3>6, ServerWorks
  <2>3. RowsOK'
    BY <1>0, <1>6 DEF RowsOK, AskForApproval
  <2>4. AskOK'
    BY <1>0, <1>6 DEF AskOK, AskForApproval, AskGo
  <2>5. LockInv'
    BY <1>0, <1>6 DEF LockInv, HoldsOwn, HoldsGuards, AtStep, AskOK, AskForApproval, AskGo,
       Generation
  <2>6. HostRunsAlone'
    BY <1>0, <1>6 DEF HostRunsAlone, Active, RowsOK, AskForApproval
  <2>7. PlanInv'
    BY <1>0, <1>6, PartiesDistinct DEF PlanInv, RowsOK, AskForApproval
  <2> QED
    BY <2>1, <2>2, <2>3, <2>4, <2>5, <2>6, <2>7 DEF ControlInv, TypeOK
<1>7. ASSUME AskTimesOut(r)
      PROVE  ControlInv'
  <2>1. WorldOK' /\ RowsOK' /\ BundlesOK' /\ UiOK' /\ WorkerOK' /\ ChildOK' /\ CallOK'
        /\ ControlOK' /\ HostRunsAlone' /\ PlanInv'
    BY <1>0, <1>7, Frames DEF AskTimesOut, world, stores, AskGo
  <2>2. StageInv' /\ BundleInv' /\ WorkerInv' /\ ChildInv'
    <3>1. ask[r].pc # "asked" /\ UNCHANGED <<worker, ui, child, approved, exe, live, tree>>
      BY <1>7 DEF AskTimesOut, world, stores, AskGo
    <3>2. \A q \in Requests \ {r} : ask'[q] = ask[q] /\ bundle'[q] = bundle[q]
      BY <1>0, <1>7 DEF AskTimesOut, stores, AskGo
    <3>3. \A x \in Rows \ {r} : row'[x] = row[x]
      BY <1>0, <1>7 DEF AskTimesOut
    <3>4. row'[r] = "none" \/ (row'[r] = "pending" /\ ask'[r].pc = "asked")
      BY <1>0, <3>1, <1>7, EarlyRequest, PartiesDistinct DEF AskTimesOut
    <3>5. ask'[r].exe <= exe /\ (ask'[r].pc \in {"idle", "admitted"} => bundle'[r] = Nobody)
      BY <1>0, <1>7 DEF BundleInv, AskTimesOut, stores, AskGo
    <3>6. bundle'[r] # Nobody => ask'[r].exe <= bundle'[r].exe /\ bundle'[r].exe <= exe
      BY <1>0, <1>7 DEF BundleInv, AskTimesOut, AskGo, stores
    <3> QED
      BY <3>1, <3>2, <3>3, <3>4, <3>5, <3>6, ServerWorks
  <2>3. AskOK'
    BY <1>0, <1>7 DEF AskOK, AskTimesOut, AskGo
  <2>4. LockInv'
    BY <1>0, <1>7 DEF LockInv, HoldsOwn, HoldsGuards, AtStep, AskTimesOut, AskGo
  <2> QED
    BY <2>1, <2>2, <2>3, <2>4 DEF ControlInv, TypeOK
<1>8. ASSUME Expires(r)
      PROVE  ControlInv'
  <2>1. WorldOK' /\ BundlesOK' /\ AskOK' /\ UiOK' /\ WorkerOK' /\ ChildOK' /\ CallOK'
        /\ ControlOK' /\ LockInv' /\ WorkerInv' /\ ChildInv'
    BY <1>0, <1>8, Frames DEF Expires, world, stores, tasks
  <2>2. RowsOK'
    BY <1>0, <1>8 DEF RowsOK, Locks, Holders, Expires, world, stores, tasks
  <2>3. StageInv'
    BY <1>0, <1>8 DEF StageInv, Expires, tasks
  <2>4. BundleInv'
    BY <1>0, <1>8 DEF BundleInv, Claimed, Expires, world, stores, tasks
  <2>5. HostRunsAlone'
    BY <1>0, <1>8 DEF HostRunsAlone, Active, Expires, tasks
  <2>6. PlanInv'
    BY <1>0, <1>8 DEF PlanInv, Expires, tasks
  <2> QED
    BY <2>1, <2>2, <2>3, <2>4, <2>5, <2>6 DEF ControlInv, TypeOK
<1>9. ASSUME UiVerifies(r)
      PROVE  ControlInv'
  <2>1. /\ ui'.pc \in {"verified", "failing"} /\ ui'.on = r /\ ui'.conf = ui.conf
        /\ row[r] = "pending" /\ ui.pc = "idle" /\ UNCHANGED <<lock, ask, worker, row, plan, call>>
    BY <1>0, <1>9 DEF UiOK, UiVerifies
  <2>2. WorldOK' /\ RowsOK' /\ BundlesOK' /\ AskOK' /\ WorkerOK' /\ ChildOK' /\ CallOK'
        /\ ControlOK' /\ WorkerInv' /\ ChildInv' /\ HostRunsAlone'
    BY <1>0, <1>9, Frames DEF UiVerifies, world, stores
  <2>3. UiOK'
    BY <1>0, <1>9, PartiesDistinct DEF UiOK, UiVerifies, world, stores
  <2>4. LockInv'
    BY <1>0, <2>1, LocksStay DEF AtStep
  <2>5. StageInv'
    BY <1>0, <2>1, PartiesDistinct DEF StageInv
  <2>6. BundleInv'
    BY <1>0, <1>9, <2>1 DEF BundleInv, Claimed, UiVerifies, world, stores
  <2>7. PlanInv'
    BY <1>0, <2>1 DEF PlanInv
  <2> QED
    BY <2>2, <2>3, <2>4, <2>5, <2>6, <2>7 DEF ControlInv, TypeOK
<1>10. ASSUME UiRejects(r)
      PROVE  ControlInv'
  <2>1. WorldOK' /\ BundlesOK' /\ AskOK' /\ UiOK' /\ WorkerOK' /\ ChildOK' /\ CallOK'
        /\ ControlOK' /\ LockInv' /\ WorkerInv' /\ ChildInv'
    BY <1>0, <1>10, Frames DEF UiRejects, world, stores, tasks
  <2>2. RowsOK'
    BY <1>0, <1>10 DEF RowsOK, Locks, Holders, UiRejects, world, stores, tasks
  <2>3. StageInv'
    BY <1>0, <1>10 DEF StageInv, UiRejects, tasks
  <2>4. BundleInv'
    BY <1>0, <1>10 DEF BundleInv, Claimed, UiRejects, world, stores, tasks
  <2>5. HostRunsAlone'
    BY <1>0, <1>10 DEF HostRunsAlone, Active, UiRejects, tasks
  <2>6. PlanInv'
    BY <1>0, <1>10 DEF PlanInv, UiRejects, tasks
  <2> QED
    BY <2>1, <2>2, <2>3, <2>4, <2>5, <2>6 DEF ControlInv, TypeOK
<1>11. ASSUME UiClaims(r)
      PROVE  ControlInv'
  <2>1. /\ row[r] = "pending" => worker[r].pc = "none"
        /\ ui.pc = "verified" /\ ui.on = r /\ ui'.on = r /\ UNCHANGED <<lock, ask, worker, plan, call, exe, bundle, tree, live, child>>
        /\ \A x \in Rows \ {r} : row'[x] = row[x]
        /\ \A q \in Requests \ {r} : approved'[q] = approved[q]
    BY <1>0, <1>11 DEF UiOK, RowsOK, BundlesOK, StageInv, UiClaims, world, stores
  <2>2. \/ row[r] = "pending" /\ row'[r] = "queued" /\ ui'.pc = "claimed" /\ approved'[r] = bundle[r]
        \/ row[r] # "pending" /\ row' = row /\ ui'.pc = "failing" /\ approved' = approved
    BY <1>0, <1>11, PartiesDistinct DEF UiOK, RowsOK, BundlesOK, UiClaims
  <2>3. WorldOK' /\ AskOK' /\ WorkerOK' /\ ChildOK' /\ CallOK' /\ ControlOK'
    BY <1>0, <1>11, Frames DEF UiClaims, world, stores
  <2>4. RowsOK'
    BY <1>0, <1>11 DEF RowsOK, UiClaims
  <2>5. BundlesOK'
    BY <1>0, <1>11 DEF BundlesOK, UiClaims, stores
  <2>6. UiOK'
    BY <1>0, <1>11 DEF UiOK, UiClaims, world, stores
  <2>7. LockInv'
    BY <1>0, <2>1, <2>2, LocksStay DEF AtStep
  <2>8. StageInv'
    BY <1>0, <2>1, <2>2, PartiesDistinct DEF StageInv, UiOK
  <2>9. BundleInv'
    BY <1>0, <2>1, <2>2, PartiesDistinct DEF BundleInv, Claimed, StageInv
  <2>10. WorkerInv'
    <3>1. VerifiedKept(r)'
      BY <1>0, <2>1, <2>2 DEF WorkerInv, VerifiedKept, FilesAsApproved, Verified, Copied
    <3>2. ASSUME NEW q \in Requests \ {r}
          PROVE  VerifiedKept(q)'
      <4>1. VerifiedKept(q) /\ approved'[q] = approved[q]
        BY <1>0, <2>1 DEF WorkerInv
      <4>2. UNCHANGED <<worker, ask, exe, tree, live>>
        BY <2>1, <1>11 DEF UiClaims, world, stores
      <4> QED
        BY <4>1, <4>2 DEF VerifiedKept, FilesAsApproved, SameConf, Sandboxed
    <3> QED
      BY <3>1, <3>2 DEF WorkerInv
  <2>11. ChildInv'
    <3>1. row[r] = "pending" => child[r] = Nobody
      BY <1>0, <2>1 DEF ChildInv
    <3> QED
      BY <1>0, <2>1, <2>2, <3>1, <1>11 DEF UiClaims, ChildInv, StartedAsApproved, SameConf
  <2>12. HostRunsAlone'
    <3> SUFFICES ASSUME NEW q \in Requests, Kind[q] = "host", worker[q].pc \in {"guarded", "fresh", "running"}
                 PROVE  FALSE
      BY <2>1 DEF HostRunsAlone
    <3> QED
      BY <1>0, <1>11, GuardsKeepOut, PartiesDistinct DEF UiClaims, Guarded
  <2>13. PlanInv'
    BY <1>0, <2>1, <2>2, PartiesDistinct DEF PlanInv
  <2> QED
    BY <2>3, <2>4, <2>5, <2>6, <2>7, <2>8, <2>9, <2>10, <2>11, <2>12, <2>13 DEF ControlInv, TypeOK
<1>12. ASSUME UiLaunches(r)
      PROVE  ControlInv'
  <2>1. /\ ui.pc = "claimed" /\ ui.on = r /\ worker[r].pc = "none" /\ ui'.pc \in {"idle", "failing"}
        /\ UNCHANGED <<lock, ask, plan, call, exe, bundle, tree, live, child, approved, row>>
        /\ \A q \in Requests \ {r} : worker'[q] = worker[q]
    BY <1>0, <1>12 DEF UiOK, WorkerOK, StageInv, UiLaunches, world, stores
  <2>2. NewWorker \in [pc : {"none"}, conf : Confs, next : {1}, touched : BOOLEAN]
    BY DEF NewWorker, AsInstalled, Confs
  <2>3. \/ worker'[r].pc = "started" /\ worker'[r].next = 1 /\ ui'.on = Nobody /\ ui'.pc = "idle"
        \/ worker' = worker /\ ui'.on = r /\ ui'.pc = "failing"
    <3>1. CASE BindsConfig(ui.conf)
      <4>1. worker'[r] = [NewWorker EXCEPT !.pc = "started", !.conf = Generation(ui.conf)]
        BY <1>0, <1>12, <3>1 DEF WorkerOK, UiLaunches
      <4>2. worker'[r].pc = "started" /\ worker'[r].next = 1
        BY <2>2, <4>1
      <4> QED
        BY <1>0, <1>12, <3>1, <4>2 DEF UiOK, UiLaunches
    <3>2. CASE ~BindsConfig(ui.conf)
      BY <1>0, <1>12, <3>2 DEF UiOK, UiLaunches
    <3> QED
      BY <3>1, <3>2
  <2>4. WorldOK' /\ RowsOK' /\ BundlesOK' /\ AskOK' /\ CallOK' /\ ControlOK'
    BY <1>0, <1>12, Frames DEF UiLaunches, world, stores
  <2>5. UiOK'
    BY <1>0, <1>12 DEF UiOK, UiLaunches, world, stores, NewWorker, Generation
  <2>6. WorkerOK'
    <3>0. Generation(ui.conf) \in Confs
      BY <1>0 DEF Generation, UiOK, WorldOK, Confs
    <3>1. [NewWorker EXCEPT !.pc = "started", !.conf = Generation(ui.conf)] \in
            [pc : {"started"}, conf : Confs, next : {1}, touched : BOOLEAN]
      BY <3>0, <2>2
    <3>2. [NewWorker EXCEPT !.pc = "started", !.conf = Generation(ui.conf)] \in
            [pc : {"started"}, conf : Confs, next : Nat \ {0}, touched : BOOLEAN]
      BY <3>1
    <3> QED
      BY <1>0, <1>12, <3>2 DEF WorkerOK, UiLaunches
  <2>7. ChildOK'
    BY <1>0, <2>1, <2>3 DEF ChildOK
  <2>8. LockInv'
    <3>1. \A q \in Requests : worker'[q] = worker[q] \/ (q = r /\ worker'[q].pc = "started" /\ worker'[q].next = 1)
      BY <2>1, <2>3
    <3>2. \A u \in Undos : AtStep(u, "claimed")' \/ AtStep(u, "restored")' => FALSE
      BY <2>1 DEF AtStep
    <3> QED
      BY <1>0, <2>1, <2>3, <3>1, <3>2 DEF LockInv, HoldsOwn, HoldsGuards, Verified, Guarded
  <2>9. StageInv'
    BY <1>0, <2>1, <2>3, PartiesDistinct DEF StageInv
  <2>10. BundleInv'
    BY <1>0, <2>1, <2>3, PartiesDistinct DEF BundleInv, Claimed
  <2>11. WorkerInv'
    <3>1. VerifiedKept(r)'
      BY <1>0, <2>1, <2>3 DEF VerifiedKept, Verified, Copied
    <3>2. \A q \in Requests \ {r} : VerifiedKept(q)'
      BY <1>0, <2>1 DEF WorkerInv, VerifiedKept, FilesAsApproved
    <3> QED
      BY <3>1, <3>2 DEF WorkerInv
  <2>12. ChildInv'
    BY <1>0, <2>1, <2>3 DEF ChildInv, StartedAsApproved, SameConf
  <2>13. HostRunsAlone'
    BY <1>0, <2>1, <2>3 DEF HostRunsAlone, Active
  <2>14. PlanInv'
    BY <1>0, <2>1, <2>3, PartiesDistinct DEF PlanInv
  <2> QED
    BY <2>4, <2>5, <2>6, <2>7, <2>8, <2>9, <2>10, <2>11, <2>12, <2>13, <2>14 DEF ControlInv, TypeOK
<1>13. ASSUME GrantExpires(r)
      PROVE  ControlInv'
  <2>1. WorldOK' /\ BundlesOK' /\ AskOK' /\ UiOK' /\ WorkerOK' /\ ChildOK' /\ CallOK'
        /\ ControlOK' /\ LockInv' /\ StageInv' /\ BundleInv' /\ WorkerInv' /\ ChildInv'
        /\ HostRunsAlone' /\ PlanInv'
    BY <1>0, <1>13, Frames DEF GrantExpires, world, stores, tasks
  <2>2. RowsOK'
    BY <1>0, <1>13 DEF RowsOK, GrantExpires
  <2> QED
    BY <2>1, <2>2 DEF ControlInv, TypeOK
<1>14. ASSUME Reap(r)
      PROVE  ControlInv'
  <2>1. WorldOK' /\ BundlesOK' /\ AskOK' /\ UiOK' /\ WorkerOK' /\ ChildOK' /\ CallOK'
        /\ ControlOK' /\ LockInv' /\ WorkerInv' /\ ChildInv'
    BY <1>0, <1>14, Frames DEF Reap, world, stores, tasks
  <2>2. RowsOK'
    BY <1>0, <1>14 DEF RowsOK, Locks, Holders, Reap, world, stores, tasks
  <2>3. StageInv'
    BY <1>0, <1>14 DEF StageInv, Reap, tasks
  <2>4. BundleInv'
    BY <1>0, <1>14 DEF BundleInv, Claimed, Reap, world, stores, tasks
  <2>5. HostRunsAlone'
    BY <1>0, <1>14 DEF HostRunsAlone, Active, Reap, tasks
  <2>6. PlanInv'
    BY <1>0, <1>14 DEF PlanInv, Reap, tasks
  <2> QED
    BY <2>1, <2>2, <2>3, <2>4, <2>5, <2>6 DEF ControlInv, TypeOK
<1> QED
  BY <1>1, <1>2, <1>3, <1>4, <1>5, <1>6, <1>7, <1>8, <1>9, <1>10, <1>11, <1>12, <1>13, <1>14 DEF
     RequestStep

\* The worker of a request and its child.
LEMMA WorkerSteps ==
  ASSUME ControlInv, NEW r \in Requests,
         \/ WorkerStep(r) \/ WorkerDies(r)
         \/ \E p \in Paths, t \in Texts \cup {Absent} : ChildWrites(r, p, t),
         UNCHANGED <<plan, journal>>
  PROVE  ControlInv'
PROOF
<1>0. /\ WorldOK /\ RowsOK /\ BundlesOK /\ AskOK /\ UiOK /\ WorkerOK /\ ChildOK /\ CallOK
      /\ ControlOK /\ LockInv /\ StageInv /\ BundleInv /\ WorkerInv /\ ChildInv
      /\ HostRunsAlone /\ PlanInv
  BY DEF ControlInv, TypeOK
<1>1. ASSUME WorkerLoads(r)
      PROVE  ControlInv'
  <2>1. /\ worker[r].pc = "started"
        /\ worker'[r].pc \in {"waiting", "dead"}
        /\ worker[r].pc # "none" /\ worker'[r].pc \notin {"none", "started"}
        /\ worker'[r].conf = worker[r].conf
        /\ worker'[r].next = worker[r].next /\ worker'[r].touched = worker[r].touched
        /\ \A q \in Requests \ {r} : worker'[q] = worker[q]
        /\ WorkerOK'
    <3>1. worker[r].pc = "started" /\ \E step \in {"waiting", "dead"} : Go(r, step)
      BY <1>1 DEF WorkerLoads
    <3>2. {"waiting", "dead"} \in SUBSET Stages
      BY DEF Stages, Verified
    <3> QED
      BY <1>0, <3>1, <3>2, WorkerGoes
  <2>2. worker'[r].pc = "waiting" =>
         SameGeneration(worker[r].conf, worker[r].conf) /\ SameGeneration(ask[r].asked, worker[r].conf)
    BY <1>0, <1>1 DEF WorkerLoads, Go, WorkerOK
  <2>3. WorldOK' /\ RowsOK' /\ BundlesOK' /\ AskOK' /\ UiOK' /\ CallOK' /\ ControlOK' /\ PlanInv'
    BY <1>0, <1>1, Frames DEF WorkerLoads, Mine, world, stores
  <2>4. WorkerOK'
    BY <2>1
  <2>5. ChildOK' /\ ChildInv'
    BY <1>0, <1>1, <2>1, ChildStays DEF WorkerLoads, Mine, world, stores
  <2>6. LockInv' /\ StageInv' /\ BundleInv' /\ WorkerInv' /\ HostRunsAlone' /\ PlanInv'
    <3>1. /\ UNCHANGED <<ask, ui, plan, call, bundle, approved, exe, live, config>>
          /\ \A q \in Requests \ {r} : tree'[q] = tree[q]
      BY <1>0, <1>1 DEF WorkerLoads, Mine, world, stores
    <3>2. \A x \in Rows \ {r} : row'[x] = row[x]
      BY <1>0, <1>1 DEF WorkerLoads
    <3>3. row[r] \notin {"none", "pending"}
      BY <1>0, <2>1 DEF StageInv
    <3>4. /\ row'[r] \notin {"none", "pending"}
          /\ row'[r] \in {"queued", "running"} => row[r] \in {"queued", "running"}
      BY <1>0, <1>1, <3>3, PartiesDistinct DEF WorkerLoads
    <3>5. \A n \in Locks : lock'[n] = lock[n] \/ lock[n] \in {r, Nobody}
      BY <1>0, <1>1 DEF WorkerLoads
    <3>6. HoldsOwn(r)'
      BY <1>0, <1>1, <2>1, <3>3, GuardFacts DEF LockInv, HoldsOwn, Verified, Guarded, WorkerLoads,
         Mine
    <3>7. VerifiedKept(r)'
      <4>1. worker'[r].pc = "waiting" => worker'[r].conf.build = ask'[r].asked.build
        BY <1>1, <2>1, <2>2 DEF SameGeneration, WorkerLoads, Mine
      <4> QED
        BY <2>1, <4>1 DEF VerifiedKept, Verified, Copied
    <3>8. Kind[r] = "host" /\ worker'[r].pc \in {"guarded", "fresh", "running"} => Active \subseteq {r}
      BY <1>0, <1>1, <2>1
    <3> QED
      BY <2>1, <3>1, <3>2, <3>3, <3>4, <3>5, <3>6, <3>7, <3>8, WorkerMoves
  <2> QED
    BY <2>3, <2>4, <2>5, <2>6 DEF ControlInv, TypeOK
<1>2. ASSUME WorkerLocks(r)
      PROVE  ControlInv'
  <2>1. /\ worker[r].pc = "waiting"
        /\ worker'[r].pc = "locked"
        /\ worker[r].pc # "none" /\ worker'[r].pc \notin {"none", "started"}
        /\ worker'[r].conf = worker[r].conf
        /\ worker'[r].next = worker[r].next /\ worker'[r].touched = worker[r].touched
        /\ \A q \in Requests \ {r} : worker'[q] = worker[q]
        /\ WorkerOK'
    <3>1. worker[r].pc = "waiting" /\ \E step \in {"locked"} : Go(r, step)
      BY <1>2 DEF WorkerLocks
    <3>2. {"locked"} \in SUBSET Stages
      BY DEF Stages, Verified
    <3> QED
      BY <1>0, <3>1, <3>2, WorkerGoes
  <2>2. WorldOK' /\ BundlesOK' /\ AskOK' /\ UiOK' /\ CallOK' /\ ControlOK' /\ PlanInv'
    BY <1>0, <1>2, Frames DEF WorkerLocks, Mine, world, stores
  <2>3. WorkerOK'
    BY <2>1
  <2>4. ChildOK' /\ ChildInv'
    BY <1>0, <1>2, <2>1, ChildStays DEF WorkerLocks, Mine
  <2>5. LockInv' /\ StageInv' /\ BundleInv' /\ WorkerInv' /\ HostRunsAlone' /\ PlanInv'
    <3>1. /\ UNCHANGED <<ask, ui, plan, call, bundle, approved, exe, live, config>>
          /\ \A q \in Requests \ {r} : tree'[q] = tree[q]
      BY <1>0, <1>2 DEF WorkerLocks, Mine, world, stores
    <3>2. \A x \in Rows \ {r} : row'[x] = row[x]
      BY <1>0, <1>2 DEF WorkerLocks
    <3>3. row[r] \notin {"none", "pending"}
      BY <1>0, <2>1 DEF StageInv
    <3>4. /\ row'[r] \notin {"none", "pending"}
          /\ row'[r] \in {"queued", "running"} => row[r] \in {"queued", "running"}
      BY <1>0, <1>2, <3>3, PartiesDistinct DEF WorkerLocks
    <3>5. \A n \in Locks : lock'[n] = lock[n] \/ lock[n] \in {r, Nobody}
      BY <1>0, <1>2 DEF RowsOK, WorkerLocks, Take
    <3>6. HoldsOwn(r)'
      BY <1>0, <1>2, <2>1, <3>3, RequestAssumption DEF LockInv, HoldsOwn, Guarded, RowsOK, Locks,
         WorkerLocks, Mine, LocksWorkspace, Take
    <3>7. VerifiedKept(r)'
      BY <1>0, <1>2, <2>1 DEF WorkerInv, VerifiedKept, FilesAsApproved, Verified, Copied,
         WorkerLocks, Mine
    <3>8. Kind[r] = "host" /\ worker'[r].pc \in {"guarded", "fresh", "running"} => Active \subseteq {r}
      BY <1>0, <1>2, <2>1
    <3> QED
      BY <2>1, <3>1, <3>2, <3>3, <3>4, <3>5, <3>6, <3>7, <3>8, WorkerMoves
  <2>6. RowsOK'
    BY <1>0, <1>2, PartiesDistinct DEF RowsOK, Holders, WorkerLocks, Take
  <2> QED
    BY <2>2, <2>3, <2>4, <2>5, <2>6 DEF ControlInv, TypeOK
<1>3. ASSUME WorkerVerifies(r)
      PROVE  ControlInv'
  <2>1. /\ worker[r].pc = "locked"
        /\ worker'[r].pc = "verified"
        /\ worker[r].pc # "none" /\ worker'[r].pc \notin {"none", "started"}
        /\ worker'[r].conf = worker[r].conf
        /\ \A q \in Requests \ {r} : worker'[q] = worker[q]
        /\ WorkerOK'
    BY <1>0, <1>3 DEF WorkerVerifies, WorkerOK, Verified
  <2>2. WorldOK' /\ RowsOK' /\ BundlesOK' /\ AskOK' /\ UiOK' /\ CallOK' /\ ControlOK' /\ PlanInv'
    BY <1>0, <1>3, Frames DEF WorkerVerifies, Mine, world, stores
  <2>3. WorkerOK'
    BY <2>1
  <2>4. ChildOK' /\ ChildInv'
    BY <1>0, <1>3, <2>1, ChildStays DEF WorkerVerifies, Mine, world, stores
  <2>5. LockInv' /\ StageInv' /\ BundleInv' /\ WorkerInv' /\ HostRunsAlone' /\ PlanInv'
    <3>1. /\ UNCHANGED <<ask, ui, plan, call, bundle, approved, exe, live, config>>
          /\ \A q \in Requests \ {r} : tree'[q] = tree[q]
      BY <1>0, <1>3 DEF WorkerVerifies, Mine, world, stores
    <3>2. \A x \in Rows \ {r} : row'[x] = row[x]
      BY <1>0, <1>3 DEF WorkerVerifies
    <3>3. row[r] \notin {"none", "pending"}
      BY <1>0, <2>1 DEF StageInv
    <3>4. /\ row'[r] \notin {"none", "pending"}
          /\ row'[r] \in {"queued", "running"} => row[r] \in {"queued", "running"}
      BY <1>0, <1>3, <3>3, PartiesDistinct DEF WorkerVerifies
    <3>5. \A n \in Locks : lock'[n] = lock[n] \/ lock[n] \in {r, Nobody}
      BY <1>0, <1>3 DEF WorkerVerifies
    <3>6. HoldsOwn(r)'
      <4>1. HoldsOwn(r) /\ ask[r].pc = "asked" /\ ask' = ask /\ lock' = lock
        BY <1>0, <1>3, <2>1 DEF LockInv, StageInv, WorkerVerifies, Mine
      <4>2. worker'[r].next = worker[r].next
        BY <1>0, <1>3 DEF WorkerOK, WorkerVerifies
      <4> QED
        BY <2>1, <4>1, <4>2 DEF HoldsOwn, Verified, Guarded
    <3>7. VerifiedKept(r)'
      <4>1. bundle[r] = approved[r] /\ bundle[r] \in Bundles /\ approved[r] # Nobody
        BY <1>0, <1>3 DEF BundleInv, BundlesOK, Claimed, BundleHolds, WorkerVerifies
      <4>2. SameConf(worker[r].conf, approved[r].conf)
        BY <1>0, <1>3, <4>1, SameConfFields DEF BundleHolds, SameDigests, WorkerOK, Bundles,
           WorkerVerifies
      <4>3. Kind[r] # "reader" => FilesAsApproved(r)
        BY <1>3, <4>1 DEF BundleHolds, SameFiles, FilesAsApproved, WorkerVerifies
      <4>4. worker'[r].conf = worker[r].conf /\ worker[r].conf.build = ask[r].asked.build
        BY <1>0, <1>3, <2>1 DEF WorkerInv, VerifiedKept
      <4> QED
        BY <1>3, <2>1, <4>1, <4>2, <4>3, <4>4 DEF VerifiedKept, FilesAsApproved, Copied,
           Sandboxed, WorkerVerifies, Mine, world
    <3>8. Kind[r] = "host" /\ worker'[r].pc \in {"guarded", "fresh", "running"} => Active \subseteq {r}
      BY <1>0, <1>3, <2>1
    <3> QED
      BY <2>1, <3>1, <3>2, <3>3, <3>4, <3>5, <3>6, <3>7, <3>8, WorkerMoves
  <2> QED
    BY <2>2, <2>3, <2>4, <2>5 DEF ControlInv, TypeOK
<1>4. ASSUME Materializes(r)
      PROVE  ControlInv'
  <2>1. /\ worker[r].pc = "verified"
        /\ worker'[r].pc = "copied"
        /\ worker[r].pc # "none" /\ worker'[r].pc \notin {"none", "started"}
        /\ worker'[r].conf = worker[r].conf
        /\ worker'[r].next = worker[r].next /\ worker'[r].touched = worker[r].touched
        /\ \A q \in Requests \ {r} : worker'[q] = worker[q]
        /\ WorkerOK'
    <3>1. worker[r].pc = "verified" /\ \E step \in {"copied"} : Go(r, step)
      BY <1>4 DEF Materializes
    <3>2. {"copied"} \in SUBSET Stages
      BY DEF Stages, Verified
    <3> QED
      BY <1>0, <3>1, <3>2, WorkerGoes
  <2>2. WorldOK' /\ RowsOK' /\ AskOK' /\ UiOK' /\ CallOK' /\ ControlOK' /\ PlanInv'
    BY <1>0, <1>4, Frames DEF Materializes, Mine, world
  <2>3. WorkerOK'
    BY <2>1
  <2>4. ChildOK' /\ ChildInv'
    BY <1>0, <1>4, <2>1, ChildStays DEF Materializes, Mine, world
  <2>5. LockInv' /\ StageInv' /\ BundleInv' /\ WorkerInv' /\ HostRunsAlone' /\ PlanInv'
    <3>1. /\ UNCHANGED <<ask, ui, plan, call, bundle, approved, exe, live, config>>
          /\ \A q \in Requests \ {r} : tree'[q] = tree[q]
      BY <1>0, <1>4 DEF BundlesOK, Materializes, Mine, world
    <3>2. \A x \in Rows \ {r} : row'[x] = row[x]
      BY <1>0, <1>4 DEF RowsOK, Materializes, Mine, world
    <3>3. row[r] \notin {"none", "pending"}
      BY <1>0, <2>1 DEF StageInv
    <3>4. /\ row'[r] \notin {"none", "pending"}
          /\ row'[r] \in {"queued", "running"} => row[r] \in {"queued", "running"}
      BY <1>0, <1>4, <3>3, PartiesDistinct DEF RowsOK, Materializes, Mine, world
    <3>5. \A n \in Locks : lock'[n] = lock[n] \/ lock[n] \in {r, Nobody}
      BY <1>0, <1>4 DEF RowsOK, Materializes, Mine, world
    <3>6. HoldsOwn(r)'
      BY <1>0, <1>4, <2>1, <3>3, GuardFacts DEF LockInv, HoldsOwn, Verified, Guarded,
         Materializes, Mine
    <3>7. VerifiedKept(r)'
      <4>1. VerifiedKept(r)
        BY <1>0 DEF WorkerInv
      <4>2. Sandboxed(r) => tree'[r] = approved[r].copy
        BY <1>0, <1>4 DEF BundlesOK, BundleInv, Claimed, Materializes
      <4> QED
        BY <1>4, <2>1, <4>1, <4>2 DEF VerifiedKept, FilesAsApproved, Verified, Materializes, Mine,
           world
    <3>8. Kind[r] = "host" /\ worker'[r].pc \in {"guarded", "fresh", "running"} => Active \subseteq {r}
      BY <1>0, <1>4, <2>1
    <3> QED
      BY <2>1, <3>1, <3>2, <3>3, <3>4, <3>5, <3>6, <3>7, <3>8, WorkerMoves
  <2>6. BundlesOK'
    BY <1>0, <1>4 DEF BundlesOK, Bundles, Materializes, Mine
  <2> QED
    BY <2>2, <2>3, <2>4, <2>5, <2>6 DEF ControlInv, TypeOK
<1>5. ASSUME WorkerClaims(r)
      PROVE  ControlInv'
  <2>1. /\ worker[r].pc = "copied"
        /\ worker'[r].pc \in {"claimed", "over"}
        /\ worker[r].pc # "none" /\ worker'[r].pc \notin {"none", "started"}
        /\ worker'[r].conf = worker[r].conf
        /\ worker'[r].next = worker[r].next /\ worker'[r].touched = worker[r].touched
        /\ \A q \in Requests \ {r} : worker'[q] = worker[q]
        /\ WorkerOK'
    <3>1. worker[r].pc = "copied" /\ \E step \in {"claimed", "over"} : Go(r, step)
      BY <1>5 DEF WorkerClaims
    <3>2. {"claimed", "over"} \in SUBSET Stages
      BY DEF Stages, Verified
    <3> QED
      BY <1>0, <3>1, <3>2, WorkerGoes
  <2>2. worker'[r].pc = "claimed" => lock' = lock
    BY <1>0, <1>5 DEF WorkerClaims, Go, WorkerOK
  <2>3. WorldOK' /\ BundlesOK' /\ AskOK' /\ UiOK' /\ CallOK' /\ ControlOK'
    BY <1>0, <1>5, Frames DEF WorkerClaims, Mine, world, stores
  <2>4. WorkerOK'
    BY <2>1
  <2>5. ChildOK' /\ ChildInv'
    BY <1>0, <1>5, <2>1, ChildStays DEF WorkerClaims, Mine
  <2>6. LockInv' /\ StageInv' /\ BundleInv' /\ WorkerInv' /\ HostRunsAlone' /\ PlanInv'
    <3>1. /\ UNCHANGED <<ask, ui, plan, call, bundle, approved, exe, live, config>>
          /\ \A q \in Requests \ {r} : tree'[q] = tree[q]
      BY <1>0, <1>5 DEF WorkerClaims, Mine, world, stores
    <3>2. \A x \in Rows \ {r} : row'[x] = row[x]
      BY <1>0, <1>5 DEF RowsOK, WorkerClaims
    <3>3. row[r] \notin {"none", "pending"}
      BY <1>0, <2>1 DEF StageInv
    <3>4. /\ row'[r] \notin {"none", "pending"}
          /\ row'[r] \in {"queued", "running"} => row[r] \in {"queued", "running"}
      BY <1>0, <1>5, <3>3, PartiesDistinct DEF RowsOK, WorkerClaims
    <3>5. \A n \in Locks : lock'[n] = lock[n] \/ lock[n] \in {r, Nobody}
      BY <1>0, <1>5 DEF WorkerClaims, Released
    <3>6. HoldsOwn(r)'
      <4>1. HoldsOwn(r) /\ ask[r].pc = "asked" /\ ask' = ask
        BY <1>0, <1>5, <2>1 DEF LockInv, StageInv, WorkerClaims, Mine
      <4> QED
        BY <2>1, <2>2, <4>1 DEF HoldsOwn, Verified, Guarded
    <3>7. VerifiedKept(r)'
      BY <1>0, <1>5, <2>1 DEF WorkerInv, VerifiedKept, FilesAsApproved, Verified, Copied,
         WorkerClaims, Mine, world, stores
    <3>8. Kind[r] = "host" /\ worker'[r].pc \in {"guarded", "fresh", "running"} => Active \subseteq {r}
      BY <1>0, <1>5, <2>1
    <3> QED
      BY <2>1, <3>1, <3>2, <3>3, <3>4, <3>5, <3>6, <3>7, <3>8, WorkerMoves
  <2>7. RowsOK'
    BY <1>0, <1>5 DEF RowsOK, Holders, WorkerClaims, Released
  <2> QED
    BY <2>3, <2>4, <2>5, <2>6, <2>7 DEF ControlInv, TypeOK
<1>6. ASSUME Checkpoints(r)
      PROVE  ControlInv'
  <2>1. /\ worker[r].pc = "claimed"
        /\ worker'[r].pc \in {"guarded", "guarding"}
        /\ worker[r].pc # "none" /\ worker'[r].pc \notin {"none", "started"}
        /\ worker'[r].conf = worker[r].conf
        /\ worker'[r].next = worker[r].next /\ worker'[r].touched = worker[r].touched
        /\ \A q \in Requests \ {r} : worker'[q] = worker[q]
        /\ WorkerOK'
    <3>1. worker[r].pc = "claimed" /\ \E step \in {"guarded", "guarding"} : Go(r, step)
      BY <1>6 DEF Checkpoints
    <3>2. {"guarded", "guarding"} \in SUBSET Stages
      BY DEF Stages, Verified
    <3> QED
      BY <1>0, <3>1, <3>2, WorkerGoes
  <2>2. worker'[r].pc = IF Sandboxed(r) THEN "guarded" ELSE "guarding"
    BY <1>0, <1>6 DEF Checkpoints, Go, WorkerOK
  <2>3. WorldOK' /\ RowsOK' /\ BundlesOK' /\ AskOK' /\ UiOK' /\ CallOK' /\ ControlOK' /\ PlanInv'
    BY <1>0, <1>6, Frames DEF Checkpoints, Mine, world, stores
  <2>4. WorkerOK'
    BY <2>1
  <2>5. ChildOK' /\ ChildInv'
    BY <1>0, <1>6, <2>1, ChildStays DEF Checkpoints, Mine, world, stores
  <2>6. LockInv' /\ StageInv' /\ BundleInv' /\ WorkerInv' /\ HostRunsAlone' /\ PlanInv'
    <3>1. /\ UNCHANGED <<ask, ui, plan, call, bundle, approved, exe, live, config>>
          /\ \A q \in Requests \ {r} : tree'[q] = tree[q]
      BY <1>0, <1>6 DEF Checkpoints, Mine, world, stores
    <3>2. \A x \in Rows \ {r} : row'[x] = row[x]
      BY <1>0, <1>6 DEF Checkpoints
    <3>3. row[r] \notin {"none", "pending"}
      BY <1>0, <2>1 DEF StageInv
    <3>4. /\ row'[r] \notin {"none", "pending"}
          /\ row'[r] \in {"queued", "running"} => row[r] \in {"queued", "running"}
      BY <1>0, <1>6, <3>3, PartiesDistinct DEF Checkpoints
    <3>5. \A n \in Locks : lock'[n] = lock[n] \/ lock[n] \in {r, Nobody}
      BY <1>0, <1>6 DEF Checkpoints
    <3>6. HoldsOwn(r)'
      <4>1. HoldsOwn(r) /\ ask[r].pc = "asked" /\ ask' = ask /\ lock' = lock
        BY <1>0, <1>6, <2>1 DEF LockInv, StageInv, Checkpoints, Mine
      <4> QED
        BY <1>6, <2>1, <2>2, <4>1, GuardFacts DEF HoldsOwn, Verified, Guarded, Sandboxed
    <3>7. VerifiedKept(r)'
      BY <1>0, <1>6, <2>1 DEF WorkerInv, VerifiedKept, FilesAsApproved, Verified, Copied,
         Checkpoints, Mine, world, stores
    <3>8. Kind[r] = "host" /\ worker'[r].pc \in {"guarded", "fresh", "running"} => Active \subseteq {r}
      BY <2>2 DEF Sandboxed
    <3> QED
      BY <2>1, <3>1, <3>2, <3>3, <3>4, <3>5, <3>6, <3>7, <3>8, WorkerMoves
  <2> QED
    BY <2>3, <2>4, <2>5, <2>6 DEF ControlInv, TypeOK
<1>7. ASSUME TakesGuard(r)
      PROVE  ControlInv'
  <2>1. /\ worker[r].pc = "guarding"
        /\ worker'[r].pc = "guarding"
        /\ worker[r].pc # "none" /\ worker'[r].pc \notin {"none", "started"}
        /\ worker'[r].conf = worker[r].conf
        /\ \A q \in Requests \ {r} : worker'[q] = worker[q]
        /\ WorkerOK'
    BY <1>0, <1>7 DEF TakesGuard, WorkerOK, Verified
  <2>2. WorldOK' /\ BundlesOK' /\ AskOK' /\ UiOK' /\ CallOK' /\ ControlOK' /\ PlanInv'
    BY <1>0, <1>7, Frames DEF TakesGuard, Mine, world, stores
  <2>3. WorkerOK'
    BY <2>1
  <2>4. ChildOK' /\ ChildInv'
    BY <1>0, <1>7, <2>1, ChildStays DEF TakesGuard, Mine
  <2>5. LockInv' /\ StageInv' /\ BundleInv' /\ WorkerInv' /\ HostRunsAlone' /\ PlanInv'
    <3>1. /\ UNCHANGED <<ask, ui, plan, call, bundle, approved, exe, live, config>>
          /\ \A q \in Requests \ {r} : tree'[q] = tree[q]
      BY <1>0, <1>7 DEF TakesGuard, Mine, world, stores
    <3>2. \A x \in Rows \ {r} : row'[x] = row[x]
      BY <1>0, <1>7 DEF TakesGuard
    <3>3. row[r] \notin {"none", "pending"}
      BY <1>0, <2>1 DEF StageInv
    <3>4. /\ row'[r] \notin {"none", "pending"}
          /\ row'[r] \in {"queued", "running"} => row[r] \in {"queued", "running"}
      BY <1>0, <1>7, <3>3, PartiesDistinct DEF TakesGuard
    <3>5. \A n \in Locks : lock'[n] = lock[n] \/ lock[n] \in {r, Nobody}
      BY <1>0, <1>7 DEF TakesGuard, Take
    <3>6. HoldsOwn(r)'
      <4>1. HoldsOwn(r) /\ ask[r].pc = "asked" /\ ask' = ask
        BY <1>0, <1>7, <2>1 DEF LockInv, StageInv, TakesGuard, Mine
      <4>6. worker[r].next \in Nat \ {0} /\ worker'[r].next = worker[r].next + 1
        BY <1>0, <1>7 DEF WorkerOK, TakesGuard
      <4>2. worker[r].next \in 1..4
        BY <1>7, <4>6, GuardFacts DEF TakesGuard
      <4>5. lock'[Guards[worker[r].next]] = r
        BY <1>0, <1>7, <4>2, GuardFacts DEF RowsOK, TakesGuard, Take
      <4>3. \A n \in Locks : lock[n] = r => lock'[n] = r
        BY <1>0, <1>7 DEF TakesGuard, Take
      <4>4. "workspace" \in Locks
        BY DEF Locks
      <4> QED
        BY <2>1, <4>1, <4>2, <4>3, <4>4, <4>5, <4>6, GuardFacts DEF HoldsOwn, HoldsGuards,
           Verified, Guarded
    <3>7. VerifiedKept(r)'
      BY <1>0, <1>7, <2>1 DEF WorkerInv, VerifiedKept, FilesAsApproved, TakesGuard, Mine, world,
         stores
    <3>8. Kind[r] = "host" /\ worker'[r].pc \in {"guarded", "fresh", "running"} => Active \subseteq {r}
      BY <1>0, <1>7, <2>1
    <3> QED
      BY <2>1, <3>1, <3>2, <3>3, <3>4, <3>5, <3>6, <3>7, <3>8, WorkerMoves
  <2>6. RowsOK'
    BY <1>0, <1>7, PartiesDistinct DEF RowsOK, Locks, Holders, TakesGuard, Mine, world, stores, Take
  <2> QED
    BY <2>2, <2>3, <2>4, <2>5, <2>6 DEF ControlInv, TypeOK
<1>8. ASSUME Counts(r)
      PROVE  ControlInv'
  <2>1. /\ worker[r].pc = "guarding"
        /\ worker'[r].pc = "guarded"
        /\ worker[r].pc # "none" /\ worker'[r].pc \notin {"none", "started"}
        /\ worker'[r].conf = worker[r].conf
        /\ worker'[r].next = worker[r].next /\ worker'[r].touched = worker[r].touched
        /\ \A q \in Requests \ {r} : worker'[q] = worker[q]
        /\ WorkerOK'
    <3>1. worker[r].pc = "guarding" /\ \E step \in {"guarded"} : Go(r, step)
      BY <1>8 DEF Counts
    <3>2. {"guarded"} \in SUBSET Stages
      BY DEF Stages, Verified
    <3> QED
      BY <1>0, <3>1, <3>2, WorkerGoes
  <2>2. WorldOK' /\ RowsOK' /\ BundlesOK' /\ AskOK' /\ UiOK' /\ CallOK' /\ ControlOK' /\ PlanInv'
    BY <1>0, <1>8, Frames DEF Counts, Mine, world, stores
  <2>3. WorkerOK'
    BY <2>1
  <2>4. ChildOK' /\ ChildInv'
    BY <1>0, <1>8, <2>1, ChildStays DEF Counts, Mine, world, stores
  <2>5. LockInv' /\ StageInv' /\ BundleInv' /\ WorkerInv' /\ HostRunsAlone' /\ PlanInv'
    <3>1. /\ UNCHANGED <<ask, ui, plan, call, bundle, approved, exe, live, config>>
          /\ \A q \in Requests \ {r} : tree'[q] = tree[q]
      BY <1>0, <1>8 DEF Counts, Mine, world, stores
    <3>2. \A x \in Rows \ {r} : row'[x] = row[x]
      BY <1>0, <1>8 DEF Counts
    <3>3. row[r] \notin {"none", "pending"}
      BY <1>0, <2>1 DEF StageInv
    <3>4. /\ row'[r] \notin {"none", "pending"}
          /\ row'[r] \in {"queued", "running"} => row[r] \in {"queued", "running"}
      BY <1>0, <1>8, <3>3, PartiesDistinct DEF Counts
    <3>5. \A n \in Locks : lock'[n] = lock[n] \/ lock[n] \in {r, Nobody}
      BY <1>0, <1>8 DEF Counts
    <3>6. HoldsOwn(r)'
      <4>1. HoldsOwn(r) /\ ask[r].pc = "asked" /\ ask' = ask /\ lock' = lock
        BY <1>0, <1>8, <2>1 DEF LockInv, StageInv, Counts, Mine
      <4>2. Kind[r] = "host" => HoldsGuards(r)
        BY <1>0, <1>8, <4>1, GuardFacts DEF HoldsOwn, HoldsGuards, WorkerOK, Counts
      <4> QED
        BY <2>1, <4>1, <4>2 DEF HoldsOwn, HoldsGuards, Verified, Guarded
    <3>7. VerifiedKept(r)'
      BY <1>0, <1>8, <2>1 DEF WorkerInv, VerifiedKept, FilesAsApproved, Verified, Copied, Counts,
         Mine, world, stores
    <3>8. Kind[r] = "host" /\ worker'[r].pc \in {"guarded", "fresh", "running"} => Active \subseteq {r}
      BY <1>0, <1>8, <2>1 DEF Counts
    <3> QED
      BY <2>1, <3>1, <3>2, <3>3, <3>4, <3>5, <3>6, <3>7, <3>8, WorkerMoves
  <2> QED
    BY <2>2, <2>3, <2>4, <2>5 DEF ControlInv, TypeOK
<1>9. ASSUME HoldsTools(r)
      PROVE  ControlInv'
  <2>1. /\ worker[r].pc = "guarded"
        /\ worker'[r].pc = "fresh"
        /\ worker[r].pc # "none" /\ worker'[r].pc \notin {"none", "started"}
        /\ worker'[r].conf = worker[r].conf
        /\ worker'[r].next = worker[r].next /\ worker'[r].touched = worker[r].touched
        /\ \A q \in Requests \ {r} : worker'[q] = worker[q]
        /\ WorkerOK'
    <3>1. worker[r].pc = "guarded" /\ \E step \in {"fresh"} : Go(r, step)
      BY <1>9 DEF HoldsTools, Holds
    <3>2. {"fresh"} \in SUBSET Stages
      BY DEF Stages, Verified
    <3> QED
      BY <1>0, <3>1, <3>2, WorkerGoes
  <2>2. WorldOK' /\ RowsOK' /\ BundlesOK' /\ AskOK' /\ UiOK' /\ CallOK' /\ ControlOK' /\ PlanInv'
    BY <1>0, <1>9, Frames DEF HoldsTools, Mine, world, stores
  <2>3. WorkerOK'
    BY <2>1
  <2>4. ChildOK' /\ ChildInv'
    BY <1>0, <1>9, <2>1, ChildStays DEF HoldsTools, Mine
  <2>5. LockInv' /\ StageInv' /\ BundleInv' /\ WorkerInv' /\ HostRunsAlone' /\ PlanInv'
    <3>1. /\ UNCHANGED <<ask, ui, plan, call, bundle, approved, exe, live, config>>
          /\ \A q \in Requests \ {r} : tree'[q] = tree[q]
      BY <1>0, <1>9 DEF HoldsTools, Mine, world, stores
    <3>2. \A x \in Rows \ {r} : row'[x] = row[x]
      BY <1>0, <1>9 DEF HoldsTools
    <3>3. row[r] \notin {"none", "pending"}
      BY <1>0, <2>1 DEF StageInv
    <3>4. /\ row'[r] \notin {"none", "pending"}
          /\ row'[r] \in {"queued", "running"} => row[r] \in {"queued", "running"}
      BY <1>0, <1>9, <3>3, PartiesDistinct DEF HoldsTools
    <3>5. \A n \in Locks : lock'[n] = lock[n] \/ lock[n] \in {r, Nobody}
      BY <1>0, <1>9 DEF HoldsTools
    <3>6. HoldsOwn(r)'
      BY <1>0, <1>9, <2>1, <3>3, GuardFacts DEF LockInv, HoldsOwn, HoldsGuards, Verified, Guarded,
         HoldsTools, Mine
    <3>7. VerifiedKept(r)'
      BY <1>0, <1>9, <2>1 DEF WorkerInv, VerifiedKept, FilesAsApproved, Verified, Copied,
         HoldsTools, Mine, world, stores, Holds
    <3>8. Kind[r] = "host" /\ worker'[r].pc \in {"guarded", "fresh", "running"} => Active \subseteq {r}
      BY <1>0, <1>9, <2>1 DEF HostRunsAlone
    <3> QED
      BY <2>1, <3>1, <3>2, <3>3, <3>4, <3>5, <3>6, <3>7, <3>8, WorkerMoves
  <2> QED
    BY <2>2, <2>3, <2>4, <2>5 DEF ControlInv, TypeOK
<1>10. ASSUME StartsChild(r)
      PROVE  ControlInv'
  <2>1. /\ worker[r].pc = "fresh"
        /\ worker'[r].pc = "running"
        /\ worker[r].pc # "none" /\ worker'[r].pc \notin {"none", "started"}
        /\ worker'[r].conf = worker[r].conf
        /\ worker'[r].next = worker[r].next /\ worker'[r].touched = worker[r].touched
        /\ \A q \in Requests \ {r} : worker'[q] = worker[q]
        /\ WorkerOK'
    <3>1. worker[r].pc = "fresh" /\ \E step \in {"running"} : Go(r, step)
      BY <1>10 DEF StartsChild
    <3>2. {"running"} \in SUBSET Stages
      BY DEF Stages, Verified
    <3> QED
      BY <1>0, <3>1, <3>2, WorkerGoes
  <2>2. WorldOK' /\ RowsOK' /\ BundlesOK' /\ AskOK' /\ UiOK' /\ CallOK' /\ ControlOK' /\ PlanInv'
    BY <1>0, <1>10, Frames DEF StartsChild, Mine, world, stores
  <2>3. WorkerOK'
    BY <2>1
  <2>4. LockInv' /\ StageInv' /\ BundleInv' /\ WorkerInv' /\ HostRunsAlone' /\ PlanInv'
    <3>1. /\ UNCHANGED <<ask, ui, plan, call, bundle, approved, exe, live, config>>
          /\ \A q \in Requests \ {r} : tree'[q] = tree[q]
      BY <1>0, <1>10 DEF StartsChild, Mine, world, stores
    <3>2. \A x \in Rows \ {r} : row'[x] = row[x]
      BY <1>0, <1>10 DEF StartsChild
    <3>3. row[r] \notin {"none", "pending"}
      BY <1>0, <2>1 DEF StageInv
    <3>4. /\ row'[r] \notin {"none", "pending"}
          /\ row'[r] \in {"queued", "running"} => row[r] \in {"queued", "running"}
      BY <1>0, <1>10, <3>3, PartiesDistinct DEF StartsChild
    <3>5. \A n \in Locks : lock'[n] = lock[n] \/ lock[n] \in {r, Nobody}
      BY <1>0, <1>10 DEF StartsChild
    <3>6. HoldsOwn(r)'
      BY <1>0, <1>10, <2>1, <3>3, GuardFacts DEF LockInv, HoldsOwn, HoldsGuards, Verified,
         Guarded, StartsChild, Mine
    <3>7. VerifiedKept(r)'
      BY <1>0, <1>10, <2>1 DEF WorkerInv, VerifiedKept, Verified, Copied, StartsChild, Mine
    <3>8. Kind[r] = "host" /\ worker'[r].pc \in {"guarded", "fresh", "running"} => Active \subseteq {r}
      BY <1>0, <1>10, <2>1 DEF HostRunsAlone
    <3> QED
      BY <2>1, <3>1, <3>2, <3>3, <3>4, <3>5, <3>6, <3>7, <3>8, WorkerMoves
  <2>5. ChildOK'
    <3>1. child'[r] \in Children
      <4>1. worker[r].conf \in Confs /\ worker[r].touched \in BOOLEAN /\ exe \in Nat
        BY <1>0 DEF WorldOK, WorkerOK
      <4>2. [p \in Paths |-> live[p].text] \in Copies
        BY <1>0 DEF WorldOK, Files, Copies
      <4>3. Finds(r) \in Copies
        BY <1>0, <1>10, <4>2 DEF Finds, BundlesOK, StartsChild
      <4>4. child'[r] = [conf |-> worker[r].conf, exe |-> exe, inputs |-> Finds(r),
                         beside |-> [p \in Paths |-> live[p].text],
                         untouched |-> ~worker[r].touched, wrote |-> Nobody]
        BY <1>0, <1>10 DEF ChildOK, StartsChild
      <4> QED
        BY <4>1, <4>2, <4>3, <4>4 DEF Children
    <3> QED
      BY <1>0, <1>10, <2>1, <3>1 DEF ChildOK, StartsChild
  <2>6. ChildInv'
    <3>1. /\ child'[r].conf = worker[r].conf /\ child'[r].exe = exe /\ child'[r].inputs = Finds(r)
          /\ child'[r].beside = [p \in Paths |-> live[p].text]
          /\ child'[r].untouched = ~worker[r].touched
      BY <1>0, <1>10 DEF ChildOK, StartsChild
    <3>2. VerifiedKept(r) /\ worker[r].pc = "fresh" /\ UNCHANGED <<approved, ask>>
      BY <1>0, <1>10 DEF WorkerInv, StartsChild, Mine
    <3>3. approved[r] # Nobody /\ approved[r] \in Bundles /\ exe = approved[r].exe
      <4>1. approved[r] # Nobody /\ ask[r].exe = exe
        BY <3>2 DEF VerifiedKept, Verified
      <4>2. approved[r] \in Bundles /\ ask[r].exe <= approved[r].exe /\ approved[r].exe <= exe
        BY <1>0, <4>1 DEF BundlesOK, BundleInv
      <4> QED
        BY <1>0, <4>1, <4>2 DEF WorldOK, Bundles
    <3>4. Sandboxed(r) => Finds(r) = approved[r].copy
      BY <1>10, <3>2 DEF VerifiedKept, Copied, Finds, StartsChild
    <3>5. ~worker[r].touched /\ Kind[r] # "reader" => FilesAsApproved(r)
      BY <3>2 DEF VerifiedKept, Copied
    <3>6. ~Sandboxed(r) /\ ~worker[r].touched => Finds(r) = approved[r].copy
      BY <3>3, <3>5 DEF Sandboxed, Finds, FilesAsApproved, Bundles, Copies
    <3>7. /\ child'[r].exe = approved[r].exe /\ child'[r].conf.build = ask[r].asked.build
          /\ SameConf(child'[r].conf, approved[r].conf)
          /\ Sandboxed(r) \/ child'[r].untouched => child'[r].inputs = approved[r].copy
      BY <3>1, <3>2, <3>3, <3>4, <3>6 DEF VerifiedKept, Verified
    <3>8. Kind[r] = "writer" /\ child'[r].untouched =>
            \A p \in Paths :
              approved[r].copy[p] # Absent => child'[r].inputs[p] = child'[r].beside[p]
      <4> SUFFICES ASSUME Kind[r] = "writer", child'[r].untouched, NEW p \in Paths,
                          approved[r].copy[p] # Absent
                   PROVE  child'[r].inputs[p] = child'[r].beside[p]
        OBVIOUS
      <4>1. ~worker[r].touched
        BY <3>1
      <4>2. live[p].text = approved[r].copy[p]
        BY <3>5, <4>1 DEF FilesAsApproved
      <4>3. child'[r].inputs = approved[r].copy
        BY <3>1, <3>4 DEF Sandboxed
      <4> QED
        BY <3>1, <4>2, <4>3
    <3>9. \A q \in Requests \ {r} : child'[q] = child[q] /\ worker'[q] = worker[q]
      BY <1>0, <1>10, <2>1 DEF ChildOK, StartsChild
    <3>10. StartedAsApproved(r)'
      BY <3>2, <3>3, <3>7, <3>8 DEF StartedAsApproved, SameConf, Sandboxed
    <3>11. \A q \in Requests \ {r} : StartedAsApproved(q)' <=> StartedAsApproved(q)
      BY <3>2, <3>9 DEF StartedAsApproved, SameConf, Sandboxed
    <3> QED
      BY <1>0, <2>1, <3>9, <3>10, <3>11 DEF ChildInv
  <2> QED
    BY <2>2, <2>3, <2>4, <2>5, <2>6 DEF ControlInv, TypeOK
<1>11. ASSUME ChildEnds(r)
      PROVE  ControlInv'
  <2>1. /\ worker[r].pc = "running"
        /\ worker'[r].pc = "ended"
        /\ worker[r].pc # "none" /\ worker'[r].pc \notin {"none", "started"}
        /\ worker'[r].conf = worker[r].conf
        /\ worker'[r].next = worker[r].next /\ worker'[r].touched = worker[r].touched
        /\ \A q \in Requests \ {r} : worker'[q] = worker[q]
        /\ WorkerOK'
    <3>1. worker[r].pc = "running" /\ \E step \in {"ended"} : Go(r, step)
      BY <1>11 DEF ChildEnds
    <3>2. {"ended"} \in SUBSET Stages
      BY DEF Stages, Verified
    <3> QED
      BY <1>0, <3>1, <3>2, WorkerGoes
  <2>2. WorldOK' /\ RowsOK' /\ BundlesOK' /\ AskOK' /\ UiOK' /\ CallOK' /\ ControlOK' /\ PlanInv'
    BY <1>0, <1>11, Frames DEF ChildEnds, Mine, world, stores
  <2>3. WorkerOK'
    BY <2>1
  <2>4. ChildOK' /\ ChildInv'
    BY <1>0, <1>11, <2>1, ChildStays DEF ChildEnds, Mine, world, stores
  <2>5. LockInv' /\ StageInv' /\ BundleInv' /\ WorkerInv' /\ HostRunsAlone' /\ PlanInv'
    <3>1. /\ UNCHANGED <<ask, ui, plan, call, bundle, approved, exe, live, config>>
          /\ \A q \in Requests \ {r} : tree'[q] = tree[q]
      BY <1>0, <1>11 DEF ChildEnds, Mine, world, stores
    <3>2. \A x \in Rows \ {r} : row'[x] = row[x]
      BY <1>0, <1>11 DEF ChildEnds
    <3>3. row[r] \notin {"none", "pending"}
      BY <1>0, <2>1 DEF StageInv
    <3>4. /\ row'[r] \notin {"none", "pending"}
          /\ row'[r] \in {"queued", "running"} => row[r] \in {"queued", "running"}
      BY <1>0, <1>11, <3>3, PartiesDistinct DEF ChildEnds
    <3>5. \A n \in Locks : lock'[n] = lock[n] \/ lock[n] \in {r, Nobody}
      BY <1>0, <1>11 DEF ChildEnds
    <3>6. HoldsOwn(r)'
      BY <1>0, <1>11, <2>1, <3>3, GuardFacts DEF LockInv, HoldsOwn, HoldsGuards, Verified,
         Guarded, ChildEnds, Mine
    <3>7. VerifiedKept(r)'
      BY <1>0, <1>11, <2>1 DEF WorkerInv, VerifiedKept, Verified, Copied, ChildEnds, Mine
    <3>8. Kind[r] = "host" /\ worker'[r].pc \in {"guarded", "fresh", "running"} => Active \subseteq {r}
      BY <1>0, <1>11, <2>1
    <3> QED
      BY <2>1, <3>1, <3>2, <3>3, <3>4, <3>5, <3>6, <3>7, <3>8, WorkerMoves
  <2> QED
    BY <2>2, <2>3, <2>4, <2>5 DEF ControlInv, TypeOK
<1>12. ASSUME GivesGuardsBack(r)
      PROVE  ControlInv'
  <2>1. /\ worker[r].pc = "ended"
        /\ worker'[r].pc = "closed"
        /\ worker[r].pc # "none" /\ worker'[r].pc \notin {"none", "started"}
        /\ worker'[r].conf = worker[r].conf
        /\ worker'[r].next = worker[r].next /\ worker'[r].touched = worker[r].touched
        /\ \A q \in Requests \ {r} : worker'[q] = worker[q]
        /\ WorkerOK'
    <3>1. worker[r].pc = "ended" /\ \E step \in {"closed"} : Go(r, step)
      BY <1>12 DEF GivesGuardsBack
    <3>2. {"closed"} \in SUBSET Stages
      BY DEF Stages, Verified
    <3> QED
      BY <1>0, <3>1, <3>2, WorkerGoes
  <2>2. WorldOK' /\ BundlesOK' /\ AskOK' /\ UiOK' /\ CallOK' /\ ControlOK' /\ PlanInv'
    BY <1>0, <1>12, Frames DEF GivesGuardsBack, Mine, world, stores
  <2>3. WorkerOK'
    BY <2>1
  <2>4. ChildOK' /\ ChildInv'
    BY <1>0, <1>12, <2>1, ChildStays DEF GivesGuardsBack, Mine, world, stores
  <2>5. LockInv' /\ StageInv' /\ BundleInv' /\ WorkerInv' /\ HostRunsAlone' /\ PlanInv'
    <3>1. /\ UNCHANGED <<ask, ui, plan, call, bundle, approved, exe, live, config>>
          /\ \A q \in Requests \ {r} : tree'[q] = tree[q]
      BY <1>0, <1>12 DEF GivesGuardsBack, Mine, world, stores
    <3>2. \A x \in Rows \ {r} : row'[x] = row[x]
      BY <1>0, <1>12 DEF GivesGuardsBack
    <3>3. row[r] \notin {"none", "pending"}
      BY <1>0, <2>1 DEF StageInv
    <3>4. /\ row'[r] \notin {"none", "pending"}
          /\ row'[r] \in {"queued", "running"} => row[r] \in {"queued", "running"}
      BY <1>0, <1>12, <3>3, PartiesDistinct DEF GivesGuardsBack
    <3>5. \A n \in Locks : lock'[n] = lock[n] \/ lock[n] \in {r, Nobody}
      BY <1>0, <1>12 DEF GivesGuardsBack
    <3>6. HoldsOwn(r)'
      BY <1>0, <1>12, <2>1, <3>3, GuardFacts DEF LockInv, HoldsOwn, StageInv, Verified, Guarded,
         Locks, GivesGuardsBack, Mine
    <3>7. VerifiedKept(r)'
      BY <1>0, <1>12, <2>1 DEF WorkerInv, VerifiedKept, Verified, Copied, GivesGuardsBack, Mine
    <3>8. Kind[r] = "host" /\ worker'[r].pc \in {"guarded", "fresh", "running"} => Active \subseteq {r}
      BY <1>0, <1>12, <2>1
    <3> QED
      BY <2>1, <3>1, <3>2, <3>3, <3>4, <3>5, <3>6, <3>7, <3>8, WorkerMoves
  <2>6. RowsOK'
    BY <1>0, <1>12 DEF RowsOK, Holders, GivesGuardsBack
  <2> QED
    BY <2>2, <2>3, <2>4, <2>5, <2>6 DEF ControlInv, TypeOK
<1>13. ASSUME WorkerEnds(r)
      PROVE  ControlInv'
  <2>1. /\ worker[r].pc = "closed"
        /\ worker'[r].pc = "over"
        /\ worker[r].pc # "none" /\ worker'[r].pc \notin {"none", "started"}
        /\ worker'[r].conf = worker[r].conf
        /\ worker'[r].next = worker[r].next /\ worker'[r].touched = worker[r].touched
        /\ \A q \in Requests \ {r} : worker'[q] = worker[q]
        /\ WorkerOK'
    <3>1. worker[r].pc = "closed" /\ \E step \in {"over"} : Go(r, step)
      BY <1>13 DEF WorkerEnds
    <3>2. {"over"} \in SUBSET Stages
      BY DEF Stages, Verified
    <3> QED
      BY <1>0, <3>1, <3>2, WorkerGoes
  <2>2. UNCHANGED <<live, stamp, bundle, tree>>
    <3>1. ~StagedCommit(r)
      BY DEF StagedCommit, Mode
    <3> QED
      BY <1>13, <3>1 DEF WorkerEnds, stores
  <2>3. WorldOK' /\ BundlesOK' /\ AskOK' /\ UiOK' /\ CallOK' /\ ControlOK'
    BY <1>0, <1>13, <2>2, Frames DEF WorkerEnds, stores, Released, Moved
  <2>4. WorkerOK'
    BY <2>1
  <2>5. ChildOK' /\ ChildInv'
    BY <1>0, <1>13, <2>1, ChildStays DEF WorkerEnds, stores, Released, Moved
  <2>6. LockInv' /\ StageInv' /\ BundleInv' /\ WorkerInv' /\ HostRunsAlone' /\ PlanInv'
    <3>1. /\ UNCHANGED <<ask, ui, plan, call, bundle, approved, exe, live, config>>
          /\ \A q \in Requests \ {r} : tree'[q] = tree[q]
      BY <1>13, <2>2 DEF WorkerEnds, stores, Released, Moved
    <3>2. \A x \in Rows \ {r} : row'[x] = row[x]
      BY <1>0, <1>13 DEF WorkerEnds, Moved
    <3>3. row[r] \notin {"none", "pending"}
      BY <1>0, <2>1 DEF StageInv
    <3>4. /\ row'[r] \notin {"none", "pending"}
          /\ row'[r] \in {"queued", "running"} => row[r] \in {"queued", "running"}
      BY <1>0, <1>13, <3>3, PartiesDistinct DEF WorkerEnds, Moved
    <3>5. \A n \in Locks : lock'[n] = lock[n] \/ lock[n] \in {r, Nobody}
      BY <1>0, <1>13 DEF WorkerEnds, Released
    <3>6. HoldsOwn(r)'
      BY <1>0, <1>13, <2>1, <3>3, GuardFacts DEF HoldsOwn, StageInv, Verified, Guarded, WorkerEnds
    <3>7. VerifiedKept(r)'
      BY <1>0, <1>13, <2>1 DEF VerifiedKept, Verified, Copied
    <3>8. Kind[r] = "host" /\ worker'[r].pc \in {"guarded", "fresh", "running"} => Active \subseteq {r}
      BY <1>0, <1>13, <2>1
    <3> QED
      BY <2>1, <3>1, <3>2, <3>3, <3>4, <3>5, <3>6, <3>7, <3>8, WorkerMoves
  <2>7. RowsOK'
    BY <1>0, <1>13 DEF RowsOK, Locks, Holders, WorkerEnds, stores, Released, Moved
  <2> QED
    BY <2>3, <2>4, <2>5, <2>6, <2>7 DEF ControlInv, TypeOK
<1>14. ASSUME WorkerFails(r)
      PROVE  ControlInv'
  <2>1. /\ worker[r].pc \in {"waiting", "locked", "verified", "guarding", "guarded", "fresh"}
        /\ worker'[r].pc = "over"
        /\ worker[r].pc # "none" /\ worker'[r].pc \notin {"none", "started"}
        /\ worker'[r].conf = worker[r].conf
        /\ worker'[r].next = worker[r].next /\ worker'[r].touched = worker[r].touched
        /\ \A q \in Requests \ {r} : worker'[q] = worker[q]
        /\ WorkerOK'
    <3>1. worker[r].pc \in {"waiting", "locked", "verified", "guarding", "guarded", "fresh"} /\ \E step \in {"over"} : Go(r, step)
      BY <1>14 DEF WorkerFails, Fail
    <3>2. {"over"} \in SUBSET Stages
      BY DEF Stages, Verified
    <3> QED
      BY <1>0, <3>1, <3>2, WorkerGoes
  <2>2. WorldOK' /\ BundlesOK' /\ AskOK' /\ UiOK' /\ CallOK' /\ ControlOK'
    BY <1>0, <1>14, Frames DEF WorkerFails, world, stores, Fail
  <2>3. WorkerOK'
    BY <2>1
  <2>4. ChildOK' /\ ChildInv'
    BY <1>0, <1>14, <2>1, ChildStays DEF WorkerFails, Fail
  <2>5. LockInv' /\ StageInv' /\ BundleInv' /\ WorkerInv' /\ HostRunsAlone' /\ PlanInv'
    <3>1. /\ UNCHANGED <<ask, ui, plan, call, bundle, approved, exe, live, config>>
          /\ \A q \in Requests \ {r} : tree'[q] = tree[q]
      BY <1>0, <1>14 DEF WorkerFails, world, stores, Fail
    <3>2. \A x \in Rows \ {r} : row'[x] = row[x]
      BY <1>0, <1>14 DEF RowsOK, WorkerFails, Fail, Moved
    <3>3. row[r] \notin {"none", "pending"}
      BY <1>0, <2>1 DEF StageInv
    <3>4. /\ row'[r] \notin {"none", "pending"}
          /\ row'[r] \in {"queued", "running"} => row[r] \in {"queued", "running"}
      BY <1>0, <1>14, <3>3, PartiesDistinct DEF RowsOK, WorkerFails, Fail, Moved
    <3>5. \A n \in Locks : lock'[n] = lock[n] \/ lock[n] \in {r, Nobody}
      BY <1>0, <1>14 DEF WorkerFails, Fail, Released
    <3>6. HoldsOwn(r)'
      BY <1>0, <1>14, <2>1, <3>3, GuardFacts DEF HoldsOwn, StageInv, Verified, Guarded,
         WorkerFails, Fail
    <3>7. VerifiedKept(r)'
      BY <1>0, <1>14, <2>1 DEF VerifiedKept, Verified, Copied
    <3>8. Kind[r] = "host" /\ worker'[r].pc \in {"guarded", "fresh", "running"} => Active \subseteq {r}
      BY <1>0, <1>14, <2>1
    <3> QED
      BY <2>1, <3>1, <3>2, <3>3, <3>4, <3>5, <3>6, <3>7, <3>8, WorkerMoves
  <2>6. RowsOK'
    BY <1>0, <1>14 DEF RowsOK, Holders, WorkerFails, Fail, Released, Moved
  <2> QED
    BY <2>2, <2>3, <2>4, <2>5, <2>6 DEF ControlInv, TypeOK
<1>15. ASSUME WorkerDies(r)
      PROVE  ControlInv'
  <2>1. /\ worker[r].pc \notin {"none", "over"}
        /\ worker'[r].pc = "dead"
        /\ worker[r].pc # "none" /\ worker'[r].pc \notin {"none", "started"}
        /\ worker'[r].conf = worker[r].conf
        /\ worker'[r].next = worker[r].next /\ worker'[r].touched = worker[r].touched
        /\ \A q \in Requests \ {r} : worker'[q] = worker[q]
        /\ WorkerOK'
    <3>1. worker[r].pc \notin {"none", "over"} /\ \E step \in {"dead"} : Go(r, step)
      BY <1>15 DEF WorkerDies
    <3>2. {"dead"} \in SUBSET Stages
      BY DEF Stages, Verified
    <3> QED
      BY <1>0, <3>1, <3>2, WorkerGoes
  <2>2. BundlesOK' /\ AskOK' /\ UiOK' /\ CallOK' /\ ControlOK' /\ PlanInv'
    BY <1>0, <1>15, Frames DEF WorkerDies, Mine, stores
  <2>3. WorkerOK'
    BY <2>1
  <2>4. ChildOK' /\ ChildInv'
    BY <1>0, <1>15, <2>1, ChildStays DEF WorkerDies, Mine
  <2>5. LockInv' /\ StageInv' /\ BundleInv' /\ WorkerInv' /\ HostRunsAlone' /\ PlanInv'
    <3>1. /\ UNCHANGED <<ask, ui, plan, call, bundle, approved, exe, live, config>>
          /\ \A q \in Requests \ {r} : tree'[q] = tree[q]
      BY <1>0, <1>15 DEF WorkerDies, Mine, world, stores
    <3>2. \A x \in Rows \ {r} : row'[x] = row[x]
      BY <1>0, <1>15 DEF WorkerDies
    <3>3. row[r] \notin {"none", "pending"}
      BY <1>0, <2>1 DEF StageInv
    <3>4. /\ row'[r] \notin {"none", "pending"}
          /\ row'[r] \in {"queued", "running"} => row[r] \in {"queued", "running"}
      BY <1>0, <1>15, <3>3, PartiesDistinct DEF WorkerDies
    <3>5. \A n \in Locks : lock'[n] = lock[n] \/ lock[n] \in {r, Nobody}
      BY <1>0, <1>15 DEF WorkerDies, Released
    <3>6. HoldsOwn(r)'
      BY <1>0, <1>15, <2>1, <3>3, GuardFacts DEF HoldsOwn, StageInv, Verified, Guarded,
         WorkerDies, Mine
    <3>7. VerifiedKept(r)'
      BY <1>0, <1>15, <2>1 DEF VerifiedKept, Verified, Copied
    <3>8. Kind[r] = "host" /\ worker'[r].pc \in {"guarded", "fresh", "running"} => Active \subseteq {r}
      BY <1>0, <1>15, <2>1
    <3> QED
      BY <2>1, <3>1, <3>2, <3>3, <3>4, <3>5, <3>6, <3>7, <3>8, WorkerMoves
  <2>6. WorldOK'
    BY <1>0, <1>15 DEF WorldOK, WorkerDies, Mine, world, Fault
  <2>7. RowsOK'
    BY <1>0, <1>15 DEF RowsOK, Holders, WorkerDies, Released
  <2> QED
    BY <2>2, <2>3, <2>4, <2>5, <2>6, <2>7 DEF ControlInv, TypeOK
<1>16. ASSUME NEW p \in Paths, NEW t \in Texts \cup {Absent}, ChildWrites(r, p, t)
      PROVE  ControlInv'
  <2>0. t \in Contents
    BY TextsTyped
  <2>1. /\ worker[r].pc = "running" /\ lock["workspace"] = r /\ child[r] \in Children
        /\ UNCHANGED <<worker, approved, ask, exe>>
        /\ child'[r] = [child[r] EXCEPT !.wrote = p]
        /\ \A q \in Requests \ {r} : child'[q] = child[q] /\ tree'[q] = tree[q]
    BY <1>0, <1>16 DEF ChildOK, LockInv, HoldsOwn, Verified, BundlesOK, ChildWrites
  <2>2. RowsOK' /\ AskOK' /\ UiOK' /\ WorkerOK' /\ CallOK' /\ ControlOK' /\ LockInv' /\ StageInv'
        /\ BundleInv' /\ HostRunsAlone' /\ PlanInv'
    BY <1>0, <1>16, Frames DEF ChildWrites, Put
  <2>3. WorldOK'
    BY <1>0, <1>16, <2>0 DEF WorldOK, Files, ChildWrites, Put
  <2>4. BundlesOK'
    BY <1>0, <1>16, <2>0 DEF BundlesOK, Copies, ChildWrites
  <2>5. ChildOK'
    BY <1>0, <1>16 DEF ChildOK, Children, ChildWrites, Put
  <2>6. WorkerInv'
    <3>1. VerifiedKept(r)'
      BY <1>0, <2>1 DEF WorkerInv, VerifiedKept, Copied
    <3>2. ASSUME NEW q \in Requests \ {r}
          PROVE  VerifiedKept(q)'
      <4>1. VerifiedKept(q) /\ HoldsOwn(q)
        BY <1>0 DEF WorkerInv, LockInv
      <4>2. worker[q].pc \notin Verified
        BY <2>1, <4>1 DEF HoldsOwn
      <4> QED
        BY <2>1, <4>1, <4>2 DEF VerifiedKept, Verified, Copied
    <3> QED
      BY <3>1, <3>2 DEF WorkerInv
  <2>7. ChildInv'
    <3>1. /\ child'[r].conf = child[r].conf /\ child'[r].exe = child[r].exe
          /\ child'[r].inputs = child[r].inputs /\ child'[r].beside = child[r].beside
          /\ child'[r].untouched = child[r].untouched
      BY <2>1 DEF Children
    <3>2. StartedAsApproved(r)'
      BY <1>0, <2>1, <3>1 DEF ChildInv, StartedAsApproved, SameConf, Sandboxed
    <3>3. \A q \in Requests \ {r} : StartedAsApproved(q)' <=> StartedAsApproved(q)
      BY <2>1 DEF StartedAsApproved, SameConf, Sandboxed
    <3> QED
      BY <1>0, <2>1, <3>2, <3>3 DEF ChildInv
  <2> QED
    BY <2>2, <2>3, <2>4, <2>5, <2>6, <2>7 DEF ControlInv, TypeOK
<1> QED
  BY <1>1, <1>2, <1>3, <1>4, <1>5, <1>6, <1>7, <1>8, <1>9, <1>10, <1>11, <1>12, <1>13, <1>14,
     <1>15, <1>16 DEF WorkerStep

\* An undo or a rollback.
LEMMA ControlSteps ==
  ASSUME ControlInv, NEW u \in Undos, ControlStep(u)
  PROVE  ControlInv'
PROOF
<1>0. /\ WorldOK /\ RowsOK /\ BundlesOK /\ AskOK /\ UiOK /\ WorkerOK /\ ChildOK /\ CallOK
      /\ ControlOK /\ LockInv /\ StageInv /\ BundleInv /\ WorkerInv /\ ChildInv
      /\ HostRunsAlone /\ PlanInv
  BY DEF ControlInv, TypeOK
<1>1. ASSUME NEW c \in Writes, AsksUndo(u, c)
      PROVE  ControlInv'
  <2>1. WorldOK' /\ BundlesOK' /\ AskOK' /\ UiOK' /\ WorkerOK' /\ ChildOK' /\ CallOK'
        /\ WorkerInv' /\ ChildInv'
    BY <1>0, <1>1, Frames DEF AsksUndo, world, stores, tasks
  <2>2. RowsOK'
    BY <1>0, <1>1, PartiesDistinct DEF RowsOK, AsksUndo
  <2>3. ControlOK'
    <3>1. /\ call[c] \in [pc : {"idle", "ready", "holding", "done", "gone"}, path : Paths \cup {Nobody},
                          pre : Contents, post : Contents]
          /\ c \in Calls /\ call[c].path \in Paths
      BY <1>0, <1>1 DEF CallOK, Calls, AsksUndo
    <3>2. live[call[c].path].text \in Contents
      BY <1>0, <3>1 DEF WorldOK, Files
    <3>3. Wanted(u, c) \in Contents \cup {Nobody}
      BY <3>1, <3>2, ReverseTyped DEF Wanted
    <3>4. Generation(server) \in Confs
      BY <1>0 DEF Generation, WorldOK, Confs
    <3>5. [of |-> c, path |-> call[c].path, seen |-> live[call[c].path].text, want |-> Wanted(u, c),
           asked |-> Generation(server), step |-> "none"] \in Plans
      BY <3>1, <3>2, <3>3, <3>4 DEF Plans
    <3> QED
      BY <1>0, <1>1, <3>5 DEF ControlOK, AsksUndo
  <2>4. LockInv'
    BY <1>0, <1>1, PartiesDistinct DEF LockInv, HoldsOwn, HoldsGuards, AtStep, AsksUndo, tasks
  <2>5. StageInv'
    BY <1>0, <1>1, PartiesDistinct DEF StageInv, AsksUndo, tasks
  <2>6. BundleInv'
    BY <1>0, <1>1, PartiesDistinct DEF BundleInv, Claimed, AsksUndo, world, stores, tasks
  <2>7. HostRunsAlone'
    BY <1>0, <1>1, PartiesDistinct DEF HostRunsAlone, Active, AsksUndo, tasks
  <2>8. PlanInv'
    <3>1. /\ plan'[u].of = c /\ plan'[u].path = call[c].path /\ plan'[u].want = Wanted(u, c)
          /\ plan'[u].seen = live[call[c].path].text
          /\ \A v \in Undos \ {u} : plan'[v] = plan[v]
      BY <1>0, <1>1 DEF ControlOK, AsksUndo
    <3>2. /\ row[u] = "none" /\ UNCHANGED <<call, ui>> /\ \A v \in Undos \ {u} : row'[v] = row[v]
          /\ row'[u] \notin {"none", "refused", "conflict"} => Wanted(u, c) # Nobody
      BY <1>0, <1>1, PartiesDistinct DEF AsksUndo, tasks
    <3>3. call[c].pc = "done" /\ call[c].path \in Paths
      BY <1>0, <1>1 DEF CallOK, Calls, AsksUndo
    <3> QED
      BY <1>0, <3>1, <3>2, <3>3 DEF PlanInv, Wanted
  <2> QED
    BY <2>1, <2>2, <2>3, <2>4, <2>5, <2>6, <2>7, <2>8 DEF ControlInv, TypeOK
<1>2. ASSUME ClaimsUndo(u)
      PROVE  ControlInv'
  <2>1. /\ row[u] = "pending" /\ ui.pc = "idle" /\ Audits(u)
        /\ UNCHANGED <<ask, worker, call>> /\ \A x \in Rows \ {u} : row'[x] = row[x]
    BY <1>0, <1>2 DEF RowsOK, ClaimsUndo, Aside
  <2>2. \/ /\ row'[u] = "running" /\ ui'.pc = "undo" /\ ui'.on = u
           /\ lock["workspace"] = Nobody /\ lock'["workspace"] = u
           /\ \A n \in Locks \ {"workspace"} : lock'[n] = lock[n]
           /\ Step(u, "claimed")
        \/ row'[u] = "failed" /\ UNCHANGED <<lock, ui, plan>>
    BY <1>0, <1>2, PartiesDistinct DEF RowsOK, UiOK, Locks, ClaimsUndo, Take
  <2>3. WorldOK' /\ BundlesOK' /\ AskOK' /\ WorkerOK' /\ ChildOK' /\ CallOK' /\ WorkerInv'
        /\ ChildInv'
    BY <1>0, <1>2, Frames DEF ClaimsUndo, Aside, stores
  <2>4. RowsOK'
    BY <1>0, <1>2, PartiesDistinct DEF RowsOK, Holders, ClaimsUndo, Aside, Take
  <2>5. UiOK'
    BY <1>0, <1>2, PartiesDistinct DEF UiOK, ClaimsUndo, Aside, Step, Take, stores
  <2>6. ControlOK'
    BY <1>0, <1>2, PartiesDistinct DEF ControlOK, Plans, ClaimsUndo, Step
  <2>7. LockInv'
    <3>1. \A q \in Requests, n \in Locks : lock[n] = q => lock'[n] = q
      BY <2>2, PartiesDistinct
    <3>2. \A v \in Undos : ~AtStep(v, "claimed") /\ ~AtStep(v, "restored")
      BY <2>1 DEF AtStep
    <3>3. \A v \in Undos :
            AtStep(v, "claimed")' \/ AtStep(v, "restored")' => lock'["workspace"] = v
      BY <2>1, <2>2 DEF AtStep
    <3> QED
      BY <1>0, <2>1, <3>1, <3>2, <3>3, LocksStay
  <2>8. StageInv'
    BY <1>0, <2>1, <2>2, PartiesDistinct DEF StageInv, UiOK
  <2>9. BundleInv'
    BY <1>0, <1>2, PartiesDistinct DEF BundleInv, Claimed, RowsOK, Locks, Holders, UiOK,
       ClaimsUndo, Aside, Step, Take, stores
  <2>10. HostRunsAlone'
    <3>1. \A q \in Requests : Kind[q] = "host" => worker[q].pc \notin {"guarded", "fresh", "running"}
      BY <1>0, <2>1, GuardsKeepOut, PartiesDistinct DEF Guarded
    <3> QED
      BY <2>1, <3>1 DEF HostRunsAlone
  <2>11. PlanInv'
    BY <1>0, <2>1, <2>2, UndoSteps, PartiesDistinct DEF PlanInv
  <2> QED
    BY <2>3, <2>4, <2>5, <2>6, <2>7, <2>8, <2>9, <2>10, <2>11 DEF ControlInv, TypeOK
<1>3. ASSUME RestoresUndo(u)
      PROVE  ControlInv'
  <2>1. /\ ui.pc = "undo" /\ ui.on = u /\ plan[u].step = "claimed" /\ lock["workspace"] = u
        /\ UNCHANGED <<ask, worker, call, approved, exe, tree, edits, faults, config, server>>
        /\ row[u] \notin {"none", "refused", "conflict"} /\ plan[u].want \in Contents /\ plan[u].path \in Paths
    BY <1>0, <1>3 DEF LockInv, AtStep, PlanInv, ControlOK, Plans, RestoresUndo, Aside, stores
  <2>2. \/ Step(u, "restored") /\ Put(plan[u].path, plan[u].want) /\ UNCHANGED <<lock, row, ui>>
        \/ /\ lock' = Released(u) /\ ui'.pc = "idle" /\ ui'.on = Nobody /\ UNCHANGED <<live, stamp, plan>>
           /\ row'[u] \in {row[u], "failed"} /\ \A x \in Rows \ {u} : row'[x] = row[x]
    BY <1>0, <1>3, PartiesDistinct DEF RestoresUndo, UiOK, RowsOK, Moved
  <2>3. BundlesOK' /\ AskOK' /\ WorkerOK' /\ ChildOK' /\ CallOK' /\ ChildInv'
    BY <1>0, <1>3, Frames DEF RestoresUndo, Aside, stores
  <2>4. WorldOK'
    BY <1>0, <2>1, <2>2 DEF WorldOK, Files, Put
  <2>5. RowsOK'
    BY <1>0, <1>3, PartiesDistinct DEF RowsOK, Holders, RestoresUndo, Aside, Moved, Released
  <2>6. UiOK'
    BY <1>0, <1>3, PartiesDistinct DEF UiOK, RestoresUndo, Aside, Step, AtStep, Put, Moved,
       Released, stores
  <2>7. ControlOK'
    BY <1>0, <1>3, PartiesDistinct DEF ControlOK, Plans, RestoresUndo, Step
  <2>8. LockInv'
    <3>1. \A q \in Requests, n \in Locks : lock[n] = q => lock'[n] = q
      BY <2>2, PartiesDistinct DEF Released
    <3>2. \A v \in Undos :
            AtStep(v, "claimed")' \/ AtStep(v, "restored")' => lock'["workspace"] = v
      BY <2>1, <2>2 DEF AtStep
    <3> QED
      BY <1>0, <2>1, <3>1, <3>2, LocksStay
  <2>9. StageInv'
    BY <1>0, <2>1, <2>2, PartiesDistinct DEF StageInv
  <2>10. BundleInv'
    BY <1>0, <1>3, PartiesDistinct DEF BundleInv, Claimed, RowsOK, Locks, Holders, UiOK,
       RestoresUndo, Aside, Step, AtStep, Put, Moved, Released, stores
  <2>11. WorkerInv'
    <3> SUFFICES ASSUME NEW q \in Requests PROVE VerifiedKept(q)'
      BY DEF WorkerInv
    <3>1. worker[q].pc \notin Verified
      BY <1>0, <2>1, PartiesDistinct DEF LockInv, HoldsOwn
    <3> QED
      BY <1>0, <2>1, <3>1 DEF WorkerInv, VerifiedKept, Verified, Copied
  <2>12. HostRunsAlone'
    BY <1>0, <1>3, PartiesDistinct DEF HostRunsAlone, Active, RowsOK, RestoresUndo, Aside, Moved
  <2>13. PlanInv'
    <3>1. /\ \A v \in Undos : /\ plan'[v].of = plan[v].of /\ plan'[v].path = plan[v].path
                             /\ plan'[v].seen = plan[v].seen /\ plan'[v].want = plan[v].want
          /\ \A v \in Undos : row'[v] = row[v] \/ v = u
      BY <1>0, <2>2, UndoSteps, PartiesDistinct
    <3> QED
      BY <1>0, <2>1, <2>2, <3>1, PartiesDistinct DEF PlanInv
  <2> QED
    BY <2>3, <2>4, <2>5, <2>6, <2>7, <2>8, <2>9, <2>10, <2>11, <2>12, <2>13 DEF ControlInv, TypeOK
<1>4. ASSUME ReleasesUndo(u)
      PROVE  ControlInv'
  <2>1. WorldOK' /\ BundlesOK' /\ AskOK' /\ UiOK' /\ WorkerOK' /\ ChildOK' /\ CallOK' /\ StageInv'
        /\ BundleInv' /\ WorkerInv' /\ ChildInv' /\ HostRunsAlone'
    BY <1>0, <1>4, Frames DEF ReleasesUndo, Aside, stores
  <2>2. RowsOK'
    BY <1>0, <1>4, PartiesDistinct DEF RowsOK, Holders, ReleasesUndo, Aside, Released
  <2>3. ControlOK'
    BY <1>0, <1>4, PartiesDistinct DEF ControlOK, Plans, ReleasesUndo, Step
  <2>4. LockInv'
    <3>1. \A q \in Requests, n \in Locks : lock[n] = q => lock'[n] = q
      BY <1>0, <1>4, PartiesDistinct DEF ReleasesUndo, Released
    <3>2. \A v \in Undos : ~AtStep(v, "claimed")' /\ ~AtStep(v, "restored")'
      BY <1>0, <1>4, UndoSteps DEF ReleasesUndo, AtStep, Aside
    <3>3. UNCHANGED <<ask, worker>>
      BY <1>4 DEF ReleasesUndo, Aside
    <3> QED
      BY <1>0, <3>1, <3>2, <3>3, LocksStay
  <2>5. PlanInv'
    BY <1>0, <1>4, PartiesDistinct DEF PlanInv, ReleasesUndo, Aside, Step
  <2> QED
    BY <2>1, <2>2, <2>3, <2>4, <2>5 DEF ControlInv, TypeOK
<1>5. ASSUME CommitsUndo(u)
      PROVE  ControlInv'
  <2>1. WorldOK' /\ BundlesOK' /\ AskOK' /\ UiOK' /\ WorkerOK' /\ ChildOK' /\ CallOK'
        /\ WorkerInv' /\ ChildInv'
    BY <1>0, <1>5, Frames DEF CommitsUndo, Aside, stores
  <2>2. RowsOK'
    BY <1>0, <1>5, PartiesDistinct DEF RowsOK, CommitsUndo, Aside, Moved
  <2>3. ControlOK'
    BY <1>0, <1>5, PartiesDistinct DEF ControlOK, Plans, CommitsUndo, Step
  <2>4. LockInv'
    BY <1>0, <1>5, PartiesDistinct DEF LockInv, HoldsOwn, HoldsGuards, AtStep, CommitsUndo, Aside,
       Step
  <2>5. StageInv'
    BY <1>0, <1>5, PartiesDistinct DEF StageInv, CommitsUndo, Aside, Moved
  <2>6. BundleInv'
    BY <1>0, <1>5, PartiesDistinct DEF BundleInv, Claimed, CommitsUndo, Aside, Moved, stores
  <2>7. HostRunsAlone'
    BY <1>0, <1>5, PartiesDistinct DEF HostRunsAlone, Active, CommitsUndo, Aside, Moved
  <2>8. PlanInv'
    BY <1>0, <1>5, PartiesDistinct DEF PlanInv, CommitsUndo, Aside, Step, Moved
  <2> QED
    BY <2>1, <2>2, <2>3, <2>4, <2>5, <2>6, <2>7, <2>8 DEF ControlInv, TypeOK
<1>6. ASSUME FinalizesUndo(u)
      PROVE  ControlInv'
  <2>1. WorldOK' /\ RowsOK' /\ BundlesOK' /\ AskOK' /\ UiOK' /\ WorkerOK' /\ ChildOK' /\ CallOK'
        /\ StageInv' /\ BundleInv' /\ WorkerInv' /\ ChildInv' /\ HostRunsAlone'
    BY <1>0, <1>6, Frames DEF FinalizesUndo, Aside, stores
  <2>2. ControlOK'
    BY <1>0, <1>6, PartiesDistinct DEF ControlOK, Plans, FinalizesUndo, Step
  <2>3. LockInv'
    BY <1>0, <1>6, PartiesDistinct DEF LockInv, HoldsOwn, HoldsGuards, AtStep, FinalizesUndo,
       Aside, Step
  <2>4. PlanInv'
    BY <1>0, <1>6, PartiesDistinct DEF PlanInv, FinalizesUndo, Aside, Step
  <2> QED
    BY <2>1, <2>2, <2>3, <2>4 DEF ControlInv, TypeOK
<1>7. ASSUME EndsUndo(u)
      PROVE  ControlInv'
  <2>1. WorldOK' /\ BundlesOK' /\ AskOK' /\ WorkerOK' /\ ChildOK' /\ CallOK' /\ WorkerInv'
        /\ ChildInv'
    BY <1>0, <1>7, Frames DEF EndsUndo, Aside, stores
  <2>2. RowsOK'
    BY <1>0, <1>7, PartiesDistinct DEF RowsOK, EndsUndo, Aside, Moved
  <2>3. UiOK'
    BY <1>0, <1>7, PartiesDistinct DEF UiOK, EndsUndo, Aside, Step, AtStep, Moved, stores
  <2>4. ControlOK'
    BY <1>0, <1>7, PartiesDistinct DEF ControlOK, Plans, EndsUndo, Step
  <2>5. LockInv'
    BY <1>0, <1>7, PartiesDistinct DEF LockInv, HoldsOwn, HoldsGuards, AtStep, EndsUndo, Aside
  <2>6. StageInv'
    BY <1>0, <1>7, PartiesDistinct DEF StageInv, EndsUndo, Aside, Moved
  <2>7. BundleInv'
    BY <1>0, <1>7, PartiesDistinct DEF BundleInv, Claimed, EndsUndo, Aside, Moved, stores
  <2>8. HostRunsAlone'
    BY <1>0, <1>7, PartiesDistinct DEF HostRunsAlone, Active, EndsUndo, Aside, Moved
  <2>9. PlanInv'
    BY <1>0, <1>7, PartiesDistinct DEF PlanInv, EndsUndo, Aside, Step, Moved
  <2> QED
    BY <2>1, <2>2, <2>3, <2>4, <2>5, <2>6, <2>7, <2>8, <2>9 DEF ControlInv, TypeOK
<1>8. ASSUME DropsUndo(u)
      PROVE  ControlInv'
  <2>1. WorldOK' /\ BundlesOK' /\ AskOK' /\ UiOK' /\ WorkerOK' /\ ChildOK' /\ CallOK'
        /\ ControlOK' /\ LockInv' /\ WorkerInv' /\ ChildInv'
    BY <1>0, <1>8, Frames DEF DropsUndo, world, stores, tasks
  <2>2. RowsOK'
    BY <1>0, <1>8, PartiesDistinct DEF RowsOK, DropsUndo
  <2>3. StageInv'
    BY <1>0, <1>8, PartiesDistinct DEF StageInv, DropsUndo, tasks
  <2>4. BundleInv'
    BY <1>0, <1>8, PartiesDistinct DEF BundleInv, Claimed, DropsUndo, world, stores, tasks
  <2>5. HostRunsAlone'
    BY <1>0, <1>8, PartiesDistinct DEF HostRunsAlone, Active, DropsUndo, tasks
  <2>6. PlanInv'
    BY <1>0, <1>8, PartiesDistinct DEF PlanInv, DropsUndo, tasks
  <2> QED
    BY <2>1, <2>2, <2>3, <2>4, <2>5, <2>6 DEF ControlInv, TypeOK
<1> QED
  BY <1>1, <1>2, <1>3, <1>4, <1>5, <1>6, <1>7, <1>8 DEF ControlStep

-----------------------------------------------------------------------------
(* The invariant                                                           *)

\* What the processes start from.
LEMMA InitHolds == ControlInit => ControlInv
PROOF
<1> SUFFICES ASSUME ControlInit PROVE ControlInv
  OBVIOUS
<1> USE RequestAssumption, ControlAssumption DEF ControlInit, Init
<1>1. AsInstalled \in Confs /\ NewWorker.pc = "none" /\ NewWorker.conf = AsInstalled
  BY DEF AsInstalled, Confs, NewWorker
<1>2. NewWorker \in [pc : {"none"}, conf : Confs, next : Nat \ {0}, touched : BOOLEAN]
  BY <1>1 DEF NewWorker
<1>3. WorldOK
  BY <1>1 DEF WorldOK, Files, Contents
<1>4. RowsOK /\ BundlesOK
  BY DEF RowsOK, BundlesOK, Holders
<1>5. AskOK /\ UiOK /\ WorkerOK
  BY <1>1, <1>2 DEF AskOK, UiOK, WorkerOK
<1>6. \A r \in Requests : worker[r].pc = "none"
  BY <1>1
<1>7. ChildOK
  BY <1>6 DEF ChildOK
<1>8. CallOK
  <2>1. NewCall \in [pc : {"idle"}, path : {Nobody}, pre : Contents, post : Contents]
    BY DEF NewCall, Contents
  <2> QED
    BY <2>1 DEF CallOK
<1>9. ControlOK
  <2>1. NewPlan \in Plans
    BY <1>1 DEF NewPlan, Plans, Contents
  <2> QED
    BY <2>1 DEF ControlOK
<1>10. LockInv
  BY <1>6 DEF LockInv, HoldsOwn, AtStep, Verified, Guarded
<1>11. StageInv /\ BundleInv
  BY <1>3, <1>6 DEF StageInv, BundleInv, Claimed, WorldOK
<1>12. WorkerInv /\ ChildInv /\ HostRunsAlone
  BY <1>6 DEF WorkerInv, VerifiedKept, ChildInv, HostRunsAlone, Verified, Copied
<1>13. PlanInv
  BY DEF PlanInv
<1> QED
  BY <1>3, <1>4, <1>5, <1>7, <1>8, <1>9, <1>10, <1>11, <1>12, <1>13 DEF ControlInv, TypeOK

\* Every step keeps it.
LEMMA NextHolds == ControlInv /\ [ControlNext]_controlVars => ControlInv'
PROOF
<1> SUFFICES ASSUME ControlInv, [ControlNext]_controlVars PROVE ControlInv'
  OBVIOUS
<1>1. ASSUME NEW r \in Requests, RequestStep(r), UNCHANGED <<plan, journal>> PROVE ControlInv'
  BY <1>1, RequestSteps
<1>2. ASSUME NEW r \in Requests, UNCHANGED <<plan, journal>>,
             \/ WorkerStep(r) \/ WorkerDies(r)
             \/ \E p \in Paths, t \in Texts \cup {Absent} : ChildWrites(r, p, t)
      PROVE  ControlInv'
  BY <1>2, WorkerSteps
<1>3. CASE Beside /\ UNCHANGED <<plan, journal>>
  BY <1>3, BesideSteps
<1>4. ASSUME NEW u \in Undos, ControlStep(u) PROVE ControlInv'
  BY <1>4, ControlSteps
<1>5. CASE UNCHANGED controlVars
  <2>1. WorldOK /\ RowsOK /\ BundlesOK /\ AskOK /\ UiOK /\ WorkerOK /\ ChildOK /\ CallOK /\ ControlOK
        /\ LockInv /\ StageInv /\ BundleInv /\ WorkerInv /\ ChildInv /\ HostRunsAlone
        /\ PlanInv
    BY DEF ControlInv, TypeOK
  <2> QED
    BY <1>5, <2>1, Frames DEF controlVars, vars, ControlInv, TypeOK
<1> QED
  BY <1>1, <1>2, <1>3, <1>4, <1>5 DEF ControlNext, Next

\* The invariant holds for any requests, calls and files.
THEOREM ControlInvariant == ControlSpec => []ControlInv
PROOF
<1> QED
  BY InitHolds, NextHolds, PTL DEF ControlSpec

\* Rows, locks, bundles, processes and files are of their types.
THEOREM TypeCorrect == ControlSpec => []TypeOK
PROOF
<1>1. ControlInv => TypeOK
  BY DEF ControlInv
<1> QED
  BY <1>1, ControlInvariant, PTL

-----------------------------------------------------------------------------
(* What a child runs on                                                    *)

\* A child runs what was approved: the executable, the settings, the environment and the build, on
\* the approved copy or on the approved files (RunsWhatWasApproved).
THEOREM ApprovedIsRun == ControlSpec => []RunsWhatWasApproved
PROOF
<1>1. ControlInv => RunsWhatWasApproved
  BY DEF ControlInv, ChildInv, StartedAsApproved, RunsWhatWasApproved, SameConf
<1> QED
  BY <1>1, ControlInvariant, PTL

\* A writing sandbox starts from the workspace's files (WriterStartsFresh).
THEOREM WritersStartFresh == ControlSpec => []WriterStartsFresh
PROOF
<1>1. ControlInv => WriterStartsFresh
  BY DEF ControlInv, ChildInv, StartedAsApproved, WriterStartsFresh
<1> QED
  BY <1>1, ControlInvariant, PTL

\* No operation is active beside a guarded host child (HostRunsAlone).
THEOREM HostsRunAlone == ControlSpec => []HostRunsAlone
PROOF
<1>1. ControlInv => HostRunsAlone
  BY DEF ControlInv
<1> QED
  BY <1>1, ControlInvariant, PTL

-----------------------------------------------------------------------------
(* Who writes beside a child                                               *)

\* Four actions change a file of the workspace.
LEMMA LiveChanges ==
  ASSUME ControlNext, live' # live
  PROVE  \/ \E p \in Paths, t \in Texts \cup {Absent} : Edit(p, t)
         \/ \E c \in Calls, p \in Paths, t \in Texts \cup {Absent} : Write(c, p, t)
         \/ \E r \in Requests, p \in Paths, t \in Texts \cup {Absent} : ChildWrites(r, p, t)
         \/ \E u \in Undos : RestoresUndo(u)
PROOF
<1>1. ASSUME NEW r \in Requests, RequestStep(r) PROVE live' = live
  BY <1>1 DEF RequestStep, Admit, OpenBundle, CopyFile, SealBundle, BundleFails, AskForApproval,
     AskTimesOut, Expires, UiVerifies, UiRejects, UiClaims, UiLaunches, GrantExpires, Reap, world
<1>2. ASSUME NEW r \in Requests, WorkerStep(r) \/ WorkerDies(r) PROVE live' = live
  <2>1. CASE WorkerEnds(r)
    <3>1. ~StagedCommit(r)
      BY DEF StagedCommit, Mode
    <3> QED
      BY <2>1, <3>1 DEF WorkerEnds
  <2> QED
    BY <1>2, <2>1 DEF WorkerStep, WorkerLoads, WorkerLocks, WorkerVerifies, Materializes,
       WorkerClaims, Checkpoints, TakesGuard, Counts, HoldsTools, StartsChild, ChildEnds,
       GivesGuardsBack, WorkerFails, WorkerDies, Fail, Mine, world
<1>3. ASSUME Beside
      PROVE  \/ live' = live \/ \E p \in Paths, t \in Texts \cup {Absent} : Edit(p, t)
             \/ \E c \in Calls, p \in Paths, t \in Texts \cup {Absent} : Write(c, p, t)
  BY <1>3 DEF Beside, Reconfigure, Upgrade, ServerRestarts, UiRestarts, UiFails, UiTimesOut,
     BeginCall, EndCall, SweepOpens, SweepPrunes, SweepReads, SweepRemoves, world
<1>4. ASSUME NEW u \in Undos, ControlStep(u), ~RestoresUndo(u) PROVE live' = live
  BY <1>4 DEF ControlStep, AsksUndo, ClaimsUndo, ReleasesUndo, CommitsUndo, FinalizesUndo,
     EndsUndo, DropsUndo, world
<1> QED
  BY <1>1, <1>2, <1>3, <1>4 DEF ControlNext, Next

\* The step form of BrokerKeepsOut.
LEMMA BrokerStep ==
  ASSUME ControlInv, ControlNext, NEW r \in Requests, worker[r].pc \in Verified, live' # live
  PROVE  edits' # edits \/ (Kind[r] = "host" /\ worker[r].pc = "running")
PROOF
<1>1. lock["workspace"] = r /\ ControlOK /\ WorldOK
  BY DEF ControlInv, TypeOK, LockInv, HoldsOwn
<1>2. ASSUME NEW p \in Paths, NEW t \in Texts \cup {Absent}, Edit(p, t) PROVE edits' # edits
  BY <1>1, <1>2 DEF Edit, WorldOK
<1>3. ASSUME NEW c \in Calls, NEW p \in Paths, NEW t \in Texts \cup {Absent}, Write(c, p, t) PROVE FALSE
  BY <1>1, <1>3, PartiesDistinct DEF Write, Take
<1>4. ASSUME NEW q \in Requests, NEW p \in Paths, NEW t \in Texts \cup {Absent}, ChildWrites(q, p, t)
      PROVE  Kind[r] = "host" /\ worker[r].pc = "running"
  <2>1. worker[q].pc = "running" /\ Kind[q] = "host"
    BY <1>4 DEF ChildWrites, Sandboxed
  <2>2. lock["workspace"] = q
    BY <2>1 DEF ControlInv, LockInv, HoldsOwn, Verified
  <2> QED
    BY <1>1, <2>1, <2>2
<1>5. ASSUME NEW u \in Undos, RestoresUndo(u) PROVE FALSE
  <2>1. lock["workspace"] = u
    BY <1>5 DEF RestoresUndo, ControlInv, LockInv
  <2> QED
    BY <1>1, <2>1, PartiesDistinct
<1> QED
  BY <1>2, <1>3, <1>4, <1>5, LiveChanges

\* From its verification to the end of its child an approved command shares the workspace with no
\* writer of the broker (BrokerKeepsOut).
THEOREM BrokerStaysOut == ControlSpec => BrokerKeepsOut
PROOF
<1>1. ControlInv /\ [ControlNext]_controlVars =>
        [\A r \in Requests : worker[r].pc \in Verified /\ worker'[r].pc \in Verified /\ live' # live =>
            edits' # edits \/ (Kind[r] = "host" /\ worker[r].pc = "running")]_vars
  BY BrokerStep DEF controlVars, vars
<1> QED
  BY <1>1, ControlInvariant, PTL DEF ControlSpec, BrokerKeepsOut


-----------------------------------------------------------------------------
(* What a host run is compared with                                        *)

\* While a host run holds the named locks nobody else reaches the bundles, the copies or a row,
\* but for the process that deletes rows without a lock.
LEMMA GuardedStep ==
  ASSUME ControlInv, ControlNext, NEW r \in Requests, Kind[r] = "host",
         worker[r].pc \in {"guarded", "fresh", "running"},
         worker'[r].pc \in {"fresh", "running", "ended"}
  PROVE  /\ stores' = stores
         /\ \A q \in Rows \ {r} :
              row'[q] = row[q] \/ (sweep.pc = "opened" /\ row[q] \in Ended /\ row'[q] = "gone")
PROOF
<1> DEFINE Kept ==
             /\ stores' = stores
             /\ \A q \in Rows \ {r} :
                  row'[q] = row[q] \/ (sweep.pc = "opened" /\ row[q] \in Ended /\ row'[q] = "gone")
<1>1. LockInv /\ StageInv /\ RowsOK /\ WorkerOK
  BY DEF ControlInv, TypeOK
<1>2. worker[r].pc \in Guarded /\ worker[r].pc \in Verified
  BY DEF Guarded, Verified
<1>3. /\ \A x : Audits(x) => x = r
      /\ \A x : Free("approval-staging", x) => x = r
      /\ \A x : Free("workspace-cas", x) => x = r
      /\ lock["approval-staging"] = r
  BY <1>1, <1>2, GuardsKeepOut
<1>4. lock["workspace"] = r /\ ask[r].pc = "asked"
  BY <1>1, <1>2 DEF LockInv, HoldsOwn, StageInv
<1>5. ~Audits(Nobody) /\ ~Free("workspace-cas", Sweeper)
      /\ \A u \in Undos : ~Audits(u)
  BY <1>3, PartiesDistinct
<1>6. \A q \in Requests : ask[q].pc # "copying"
  BY <1>1, <1>3, <1>4 DEF LockInv, HoldsOwn
<1>7. ASSUME NEW q \in Requests, RequestStep(q) PROVE Kept
  <2>1. ~OpenBundle(q)
    BY <1>3, PartiesDistinct DEF OpenBundle
  <2>2. ~SealBundle(q) /\ ~BundleFails(q) /\ \A p \in Paths : ~CopyFile(q, p)
    BY <1>6 DEF SealBundle, BundleFails, CopyFile
  <2>3. ~Expires(q) /\ ~UiRejects(q) /\ ~UiClaims(q) /\ ~Reap(q)
    BY <1>5 DEF Expires, UiRejects, UiClaims, Reap
  <2>4. CASE AskForApproval(q)
    <3>1. ~Audits(q)
      BY <1>3, <1>4, <2>4 DEF AskForApproval
    <3> QED
      BY <2>4, <3>1 DEF AskForApproval
  <2> QED
    BY <1>7, <2>1, <2>2, <2>3, <2>4 DEF RequestStep, Admit, AskTimesOut, UiVerifies, UiLaunches,
       GrantExpires
<1>8. ASSUME NEW q \in Requests, WorkerStep(q) \/ WorkerDies(q) PROVE Kept
  <2>1. CASE q = r
    <3>1. ~WorkerFails(r)
      BY <1>1 DEF WorkerFails, Fail, Go, WorkerOK
    <3>2. /\ ~WorkerClaims(r) /\ ~Materializes(r) /\ ~WorkerEnds(r)
      BY DEF WorkerClaims, Materializes, WorkerEnds
    <3> QED
      BY <1>8, <2>1, <3>1, <3>2 DEF WorkerStep, WorkerLoads, WorkerLocks, WorkerVerifies,
         Checkpoints, TakesGuard, Counts, HoldsTools, StartsChild, ChildEnds, GivesGuardsBack,
         WorkerDies
  <2>2. CASE q # r
    <3>1. ~WorkerFails(q) /\ ~WorkerClaims(q) /\ ~Materializes(q) /\ ~WorkerEnds(q)
      BY <1>3, <2>2 DEF WorkerFails, Fail, WorkerClaims, Materializes, WorkerEnds
    <3> QED
      BY <1>8, <3>1 DEF WorkerStep, WorkerLoads, WorkerLocks, WorkerVerifies, Checkpoints,
         TakesGuard, Counts, HoldsTools, StartsChild, ChildEnds, GivesGuardsBack, WorkerDies
  <2> QED
    BY <2>1, <2>2
<1>9. ASSUME NEW q \in Requests, NEW p \in Paths, NEW t \in Texts \cup {Absent}, ChildWrites(q, p, t)
      PROVE  Kept
  <2>1. lock["workspace"] = q
    BY <1>1, <1>9 DEF ChildWrites, LockInv, HoldsOwn, Verified
  <2> QED
    BY <1>4, <1>9, <2>1 DEF ChildWrites, Sandboxed, stores
<1>10. ASSUME Beside PROVE Kept
  <2>1. ~UiFails /\ \A S \in SUBSET Requests : ~SweepRemoves(S)
    BY <1>5 DEF UiFails, SweepRemoves
  <2>2. ASSUME NEW S \in SUBSET (Rows \cup Calls), SweepPrunes(S)
        PROVE  Kept
    <3>1. \A q \in Rows : row'[q] = row[q] \/ (row[q] \in Ended /\ row'[q] = "gone")
      BY <2>2, PartiesDistinct, RequestAssumption DEF SweepPrunes
    <3> QED
      BY <2>2, <3>1 DEF SweepPrunes, stores
  <2> QED
    BY <1>10, <2>1, <2>2 DEF Beside, Edit, Reconfigure, Upgrade, ServerRestarts, UiRestarts, UiTimesOut,
       BeginCall, EndCall, Write, SweepOpens, SweepReads
<1>11. ASSUME NEW u \in Undos, ControlStep(u) PROVE Kept
  <2>1. /\ \A c \in Writes : ~AsksUndo(u, c)
        /\ ~ClaimsUndo(u) /\ ~RestoresUndo(u) /\ ~CommitsUndo(u) /\ ~EndsUndo(u) /\ ~DropsUndo(u)
    BY <1>5 DEF AsksUndo, ClaimsUndo, RestoresUndo, CommitsUndo, EndsUndo, DropsUndo
  <2> QED
    BY <1>11, <2>1 DEF ControlStep, ReleasesUndo, FinalizesUndo, Aside
<1> QED
  BY <1>7, <1>8, <1>9, <1>10, <1>11 DEF ControlNext, Next

\* While a host child is guarded no process of the broker changes what the guard compares
\* afterwards, but that a process which opened the audit store before deletes rows that had ended
\* (GuardedStateKept).
THEOREM GuardsKeep == ControlSpec => GuardedStateKept
PROOF
<1>1. ControlInv /\ [ControlNext]_controlVars =>
        [\A r \in Requests : Kind[r] = "host" /\ worker[r].pc \in {"guarded", "fresh", "running"}
                             /\ worker'[r].pc \in {"fresh", "running", "ended"} =>
            /\ stores' = stores
            /\ \A q \in Rows \ {r} :
                 row'[q] = row[q] \/ (sweep.pc = "opened" /\ row[q] \in Ended /\ row'[q] = "gone")]_vars
  BY GuardedStep DEF controlVars, vars
<1> QED
  BY <1>1, ControlInvariant, PTL DEF ControlSpec, GuardedStateKept

-----------------------------------------------------------------------------
(* What an undo changes                                                    *)

\* One action applies an undo, and only to what was shown.
LEMMA AppliedByRestore ==
  ASSUME ControlInv, [ControlNext]_controlVars, NEW u \in Undos, Applies(u)
  PROVE  RestoresUndo(u) /\ AsSeen(u) /\ Put(plan[u].path, plan[u].want)
PROOF
<1>1. ControlOK
  BY DEF ControlInv, TypeOK
<1>2. journal' # journal
  BY DEF Applies
<1>3. PICK v \in Undos : ControlStep(v)
  BY <1>2 DEF ControlNext, controlVars
<1>4. RestoresUndo(v) \/ FinalizesUndo(v)
  BY <1>2, <1>3 DEF ControlStep, AsksUndo, ClaimsUndo, ReleasesUndo, CommitsUndo, EndsUndo,
     DropsUndo
<1>5. ~FinalizesUndo(v)
  BY <1>1 DEF Applies, FinalizesUndo, ControlOK
<1>6. v = u
  BY <1>1, <1>4, <1>5 DEF Applies, RestoresUndo, ControlOK
<1>7. AsSeen(u)
  BY <1>1, <1>4, <1>5, <1>6 DEF Applies, RestoresUndo, ControlOK
<1> QED
  BY <1>4, <1>5, <1>6, <1>7 DEF RestoresUndo

\* What was planned for an undo that is applied, and what it makes of the file.
LEMMA AppliedAsPlanned ==
  ASSUME ControlInv, [ControlNext]_controlVars, NEW u \in Undos, Applies(u)
  PROVE  LET c == call[plan[u].of] p == plan[u].path IN
         /\ p \in Paths /\ plan[u].of \in Writes /\ plan[u].want # Nobody
         /\ Aim[u] = "undo" => plan[u].want = Reverse(c.pre, c.post, plan[u].seen)
         /\ live[p].text = plan[u].seen /\ live'[p].text = plan[u].want
         /\ \A q \in Paths \ {p} : live'[q] = live[q]
PROOF
<1>1. RestoresUndo(u) /\ AsSeen(u) /\ Put(plan[u].path, plan[u].want)
  BY AppliedByRestore
<1>2. WorldOK /\ PlanInv
  BY DEF ControlInv, TypeOK
<1>3. row[u] \notin {"none", "refused", "conflict", "gone"}
  BY <1>1, <1>2 DEF RestoresUndo, AtStep, PlanInv
<1>4. /\ plan[u].of \in Writes /\ plan[u].path \in Paths /\ plan[u].want # Nobody
      /\ Aim[u] = "undo" =>
           plan[u].want = Reverse(call[plan[u].of].pre, call[plan[u].of].post, plan[u].seen)
  BY <1>2, <1>3 DEF PlanInv
<1>5. /\ live'[plan[u].path].text = plan[u].want
      /\ \A q \in Paths \ {plan[u].path} : live'[q] = live[q]
  BY <1>1, <1>2, <1>4 DEF Put, WorldOK, Files
<1> QED
  BY <1>1, <1>4, <1>5 DEF AsSeen

\* An undo or a rollback turns exactly what its approver was shown into what they were shown
\* (UndoAsShown).
THEOREM UndoesAsShown == ControlSpec => UndoAsShown
PROOF
<1>1. ControlInv /\ [ControlNext]_controlVars =>
        [\A u \in Undos : Applies(u) =>
          /\ live[plan[u].path].text = plan[u].seen /\ live'[plan[u].path].text = plan[u].want
          /\ \A p \in Paths \ {plan[u].path} : live'[p] = live[p]]_controlVars
  BY AppliedAsPlanned
<1> QED
  BY <1>1, ControlInvariant, PTL DEF ControlSpec, UndoAsShown

\* What an undo makes of a file is computed when it is asked for, from the two texts that the call's
\* own checkpoints hold, and written later by another process: it is what _selective_target would
\* make of the file as it is in that moment, in which every hunk of the call is found exactly once.
UndoIsReversal ==
  [][\A u \in Undos : Undone(u) =>
       LET c == call[plan[u].of]
           now == live[plan[u].path].text
           hunks == Hunks(c.pre, c.post)
       IN /\ live'[plan[u].path].text = Reverse(c.pre, c.post, now)
          /\ now \notin {c.pre, c.post} =>
               \A i \in DOMAIN hunks : Cardinality(Places(hunks[i], now)) = 1]_controlVars

\* An undo takes out the call's change where that is found, and only then (prepare_selective_undo,
\* restore_workspace_state).
THEOREM UndoesWhatIsThere == ControlSpec => UndoIsReversal
PROOF
<1>1. ASSUME ControlInv, [ControlNext]_controlVars, NEW u \in Undos, Undone(u)
      PROVE  LET c == call[plan[u].of]
                 now == live[plan[u].path].text
                 hunks == Hunks(c.pre, c.post)
             IN /\ live'[plan[u].path].text = Reverse(c.pre, c.post, now)
                /\ now \notin {c.pre, c.post} =>
                     \A i \in DOMAIN hunks : Cardinality(Places(hunks[i], now)) = 1
  <2> DEFINE c == call[plan[u].of]
             now == live[plan[u].path].text
             hunks == Hunks(c.pre, c.post)
  <2>1. /\ plan[u].want # Nobody /\ plan[u].want = Reverse(c.pre, c.post, plan[u].seen)
        /\ now = plan[u].seen /\ live'[plan[u].path].text = plan[u].want
    BY <1>1, AppliedAsPlanned DEF Undone
  <2>2. Absent \notin {c.pre, c.post, now}
    BY <1>1 DEF Undone
  <2>3. now \notin {c.pre, c.post} => ReverseTextChange(c.pre, c.post, now) # Nobody
    BY <2>1, <2>2 DEF Reverse
  <2>4. now \notin {c.pre, c.post} =>
          \A i \in DOMAIN hunks : Cardinality(Places(hunks[i], now)) = 1
    BY <2>3 DEF ReverseTextChange
  <2> QED
    BY <2>1, <2>4
<1>2. ControlInv /\ [ControlNext]_controlVars =>
        [\A u \in Undos : Undone(u) =>
          LET c == call[plan[u].of]
              now == live[plan[u].path].text
              hunks == Hunks(c.pre, c.post)
          IN /\ live'[plan[u].path].text = Reverse(c.pre, c.post, now)
             /\ now \notin {c.pre, c.post} =>
                  \A i \in DOMAIN hunks : Cardinality(Places(hunks[i], now)) = 1]_controlVars
  BY <1>1
<1> QED
  BY <1>2, ControlInvariant, PTL DEF ControlSpec, UndoIsReversal
===============================================================================
