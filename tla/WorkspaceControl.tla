---- MODULE WorkspaceControl ----
(***************************************************************************)
(* The requests that change the workspace itself, beside the commands of   *)
(* ApprovedRequest: selective undo takes back what one operation changed,  *)
(* rollback restores what one operation left behind.  The server computes  *)
(* the result when it is asked, a person sees it, and the approval UI      *)
(* applies it later, in its own process.                                   *)
(*                                                                         *)
(* A file is a sequence of lines.  An operation changes it in one place or  *)
(* in two, on both sides of a seam it leaves alone; the three-state merge   *)
(* looks for what it put there.  The restore itself, its crashes and its reconciliation are    *)
(* the subject of WorkspaceTransaction: here it is one step.               *)
(***************************************************************************)
EXTENDS ApprovedRequest

Sets == INSTANCE FiniteSetsExt

CONSTANTS
    Undos,
    Aim,    \* of each: "undo" or "rollback"
    Lines,  \* what a file is made of
    Seam    \* the line between the two places

ASSUME ControlAssumption ==
    /\ Undos = Rows \ Requests
    /\ Aim \in [Undos -> {"undo", "rollback"}]
    /\ Lines \subseteq Nat /\ Seam \in Lines
    /\ \A t \in Texts : t \in Seq(Lines)

VARIABLES
    plan,       \* what the request is bound to: [of, path, seen, want, asked, step]
    journal     \* of the restore: none | applied | complete | failed

controlVars == <<vars, plan, journal>>

NewPlan ==
    [of |-> Nobody, path |-> Nobody, seen |-> Absent, want |-> Absent,
     asked |-> AsInstalled, step |-> "none"]

ControlInit ==
    /\ Init
    /\ plan = [u \in Undos |-> NewPlan]
    /\ journal = [u \in Undos |-> "none"]

----
\* What is to be restored; Nobody stands for a conflict.

Seams(text) == {k \in 1 .. Len(text) : text[k] = Seam}

\* The two sides of the first seam.
Sides(text) ==
    LET seam == CHOOSE k \in Seams(text) : \A m \in Seams(text) : k <= m
    IN <<SubSeq(text, 1, seam - 1), SubSeq(text, seam + 1, Len(text))>>

\* get_grouped_opcodes: what was there and what is there now, place by place.
Hunks(before, after) ==
    LET hunk(old, new) == [old |-> old, new |-> new]
        was == Sides(before)
        is == Sides(after)
    IN IF Seams(before) = {} \/ Seams(after) = {} THEN <<hunk(before, after)>>
       ELSE IF was[1] = is[1] THEN <<hunk(was[2], is[2])>>
       ELSE IF was[2] = is[2] THEN <<hunk(was[1], is[1])>>
       ELSE <<hunk(was[1], is[1]), hunk(was[2], is[2])>>

\* Where the new lines of a hunk are found in a text.
Places(hunk, text) ==
    {k \in 1 .. Len(text) + 1 : /\ k + Len(hunk.new) <= Len(text) + 1
                                /\ SubSeq(text, k, k + Len(hunk.new) - 1) = hunk.new}

\* The order of tuples and lists.
Precedes(s, t) ==
    \E n \in 0 .. Len(s) :
        /\ n <= Len(t) /\ \A k \in 1 .. n : s[k] = t[k]
        /\ n < Len(t) /\ (n < Len(s) => s[n + 1] < t[n + 1])

\* current_lines[start:end] = replacement, which may have another length.
Splice(text, start, hunk) ==
    SubSeq(text, 1, start - 1) \o hunk.old \o SubSeq(text, start + Len(hunk.new), Len(text))

\* Mutant: the hunk that comes first in the file is replaced first.
SpliceFromTheFront(one, other, current) ==
    LET at(hunk) == CHOOSE k \in Places(hunk, current) : TRUE
        key(hunk) == <<at(hunk), at(hunk) + Len(hunk.new)>> \o hunk.old
        first == IF Precedes(key(one), key(other)) THEN one ELSE other
        second == IF first = one THEN other ELSE one
    IN Splice(Splice(current, at(first), first), at(second), second)

\* Both hunks are replaced, the one that sorts last first.  Where each is was found before:
\* nothing asks whether it is the same place, or whether one reaches into the other.
SpliceBoth(one, other, current) ==
    LET at(hunk) == CHOOSE k \in Places(hunk, current) : TRUE
        key(hunk) == <<at(hunk), at(hunk) + Len(hunk.new)>> \o hunk.old
        last == IF Precedes(key(one), key(other)) THEN other ELSE one
        first == IF last = one THEN other ELSE one
    IN Splice(Splice(current, at(last), last), at(first), first)

\* _reverse_text_change: each hunk is looked for by its lines, wherever they are now, and must be
\* there exactly once.
ReverseTextChange(before, after, current) ==
    LET hunks == Hunks(before, after)
    IN IF \E i \in DOMAIN hunks : Cardinality(Places(hunks[i], current)) # 1 THEN Nobody
       ELSE IF Len(hunks) = 1
            THEN Splice(current, CHOOSE k \in Places(hunks[1], current) : TRUE, hunks[1])
       ELSE SpliceBoth(hunks[1], hunks[2], current)

\* _selective_target: the operation's own change is taken out of the file as it is now.
Reverse(before, after, current) ==
    IF current = before THEN current
    ELSE IF current = after THEN before
    ELSE IF Absent \in {before, after, current} THEN Nobody
    ELSE ReverseTextChange(before, after, current)

\* prepare_selective_undo, request_workspace_rollback.
Wanted(u, c) ==
    IF Aim[u] = "rollback" THEN call[c].post
    ELSE Reverse(call[c].pre, call[c].post, live[call[c].path].text)

----
\* The server: request_selective_undo, request_workspace_rollback.

AsksUndo(u, c) ==
    /\ row[u] = "none" /\ Enters(u)
    /\ call[c].pc = "done" /\ call[c].path # Nobody
    /\ lock["workspace"] = Nobody /\ Free("workspace-cas", u) /\ Audits(u)
    /\ row' = [row EXCEPT ![u] = IF ~BindsConfig(server) THEN "refused"
                                 ELSE IF Wanted(u, c) = Nobody THEN "conflict" ELSE "pending"]
    /\ plan' = [plan EXCEPT ![u] =
                  [of |-> c, path |-> call[c].path, seen |-> live[call[c].path].text,
                   want |-> Wanted(u, c), asked |-> Generation(server), step |-> "none"]]
    /\ UNCHANGED <<world, lock, stores, grant, approved, tasks, faults, journal>>

----
\* The approval UI: run_approval_ui.

AtStep(u, step) == ui.pc = "undo" /\ ui.on = u /\ plan[u].step = step
Step(u, step) == plan' = [plan EXCEPT ![u].step = step]
Aside == <<config, exe, edits, stores, grant, approved, server, ask, worker, child, call, sweep, faults>>

\* The person says yes: the workspace is locked, the checkpoints are still those of the request,
\* the row is claimed and runs.  A request of another configuration fails; one that cannot have
\* the workspace in time stays pending, because the handler only fails rows that were claimed.
ClaimsUndo(u) ==
    /\ ui.pc = "idle" /\ row[u] = "pending" /\ Audits(u)
    /\ IF SameGeneration(plan[u].asked, ui.conf)
       THEN /\ Take("workspace", u)
            /\ row' = [row EXCEPT ![u] = "running"]
            /\ ui' = [ui EXCEPT !.pc = "undo", !.on = u]
            /\ Step(u, "claimed")
       ELSE row' = [row EXCEPT ![u] = "failed"] /\ UNCHANGED <<lock, ui, plan>>
    /\ UNCHANGED <<Aside, live, stamp, journal>>

\* Mutant: what was shown is applied to whatever is there.
Stands(u) == TRUE

\* restore_workspace_state: the workspace is still what the preview was made of.
AsSeen(u) == live[plan[u].path].text = plan[u].seen

RestoresUndo(u) ==
    /\ AtStep(u, "claimed") /\ Free("workspace-cas", u) /\ Audits(u)
    /\ IF AsSeen(u)
       THEN /\ Put(plan[u].path, plan[u].want)
            /\ journal' = [journal EXCEPT ![u] = "applied"]
            /\ Step(u, "restored")
            /\ UNCHANGED <<lock, row, ui>>
       ELSE /\ journal' = [journal EXCEPT ![u] = "failed"]
            /\ row' = Moved(u, {"running"}, "failed")
            /\ lock' = Released(u)
            /\ ui' = [ui EXCEPT !.pc = "idle", !.on = Nobody]
            /\ UNCHANGED <<live, stamp, plan>>
    /\ UNCHANGED Aside

\* The checkpoint after is taken, the workspace is given back.
ReleasesUndo(u) ==
    /\ AtStep(u, "restored") /\ Free("workspace-cas", u)
    /\ lock' = Released(u)
    /\ Step(u, "released")
    /\ UNCHANGED <<Aside, live, stamp, row, ui, journal>>

CommitsUndo(u) ==
    /\ AtStep(u, "released") /\ Audits(u)
    /\ row' = Moved(u, {"running"}, "committing")
    /\ Step(u, "committing")
    /\ UNCHANGED <<Aside, live, stamp, lock, ui, journal>>

\* finalize_workspace_transaction: no lock is held.
FinalizesUndo(u) ==
    /\ AtStep(u, "committing")
    /\ journal' = [journal EXCEPT ![u] = "complete"]
    /\ Step(u, "finalized")
    /\ UNCHANGED <<Aside, live, stamp, lock, row, ui>>

EndsUndo(u) ==
    /\ AtStep(u, "finalized") /\ Audits(u)
    /\ row' = Moved(u, {"committing"}, "succeeded")
    /\ ui' = [ui EXCEPT !.pc = "idle", !.on = Nobody]
    /\ Step(u, "over")
    /\ UNCHANGED <<Aside, live, stamp, lock, journal>>

\* A request that is not answered in time, or with no.
DropsUndo(u) ==
    /\ row[u] = "pending" /\ Audits(u)
    /\ \E status \in {"expired", "rejected"} :
          (status = "rejected" => ui.pc = "idle") /\ row' = [row EXCEPT ![u] = status]
    /\ UNCHANGED <<world, lock, stores, grant, approved, tasks, faults, plan, journal>>

ControlStep(u) ==
    \/ \E c \in Writes : AsksUndo(u, c)
    \/ ClaimsUndo(u) \/ RestoresUndo(u) \/ ReleasesUndo(u) \/ CommitsUndo(u) \/ FinalizesUndo(u)
    \/ EndsUndo(u) \/ DropsUndo(u)

ControlNext ==
    \/ Next /\ UNCHANGED <<plan, journal>>
    \/ \E u \in Undos : ControlStep(u)

ControlSpec == ControlInit /\ [][ControlNext]_controlVars

----
\* Properties.

Applies(u) == journal[u] # "applied" /\ journal'[u] = "applied"

\* An undo or a rollback that is applied turns exactly what its approver was shown into what they
\* were shown, and nothing else: a change made after the request, by anyone, stops it
\* (restore_workspace_state against the approved preview).
UndoAsShown ==
    [][\A u \in Undos : Applies(u) =>
          /\ live[plan[u].path].text = plan[u].seen /\ live'[plan[u].path].text = plan[u].want
          /\ \A p \in Paths \ {plan[u].path} : live'[p] = live[p]]_controlVars

Undone(u) ==
    LET c == call[plan[u].of] IN
    /\ Applies(u) /\ Aim[u] = "undo"
    /\ Absent \notin {c.pre, c.post, live[plan[u].path].text}

\* The hunks of an operation are all found in a file, each in one place, and none reaches into
\* the other.
FoundApart(hunks, text) ==
    /\ \A i \in DOMAIN hunks : Cardinality(Places(hunks[i], text)) = 1
    /\ \A i, k \in DOMAIN hunks : i # k =>
          \A m \in Places(hunks[i], text), n \in Places(hunks[k], text) :
              m + Len(hunks[i].new) <= n \/ n + Len(hunks[k].new) <= m

\* Where what is at a place of the text comes to be when the hunks before it are replaced.
Resettled(hunks, text, place) ==
    LET before == {i \in DOMAIN hunks : \E n \in Places(hunks[i], text) : n < place}
        came(i) == Len(hunks[i].old)
        went(i) == Len(hunks[i].new)
    IN place + Sets!MapThenSumSet(came, before) - Sets!MapThenSumSet(went, before)

\* Whatever was written since, an undo puts back what the operation had replaced where the
\* operation's own lines now are, and every other line of the file stays, in its order, unless the
\* two places it has to replace reach into each other (_selective_target, _reverse_text_change).
UndoTakesOwnText ==
    [][\A u \in Undos : Undone(u) =>
          LET c == call[plan[u].of]
              now == live[plan[u].path].text
              then == live'[plan[u].path].text
              hunks == Hunks(c.pre, c.post)
              moved(k) == Resettled(hunks, now, k)
              own == UNION {UNION {n .. n + Len(hunks[i].new) - 1 : n \in Places(hunks[i], now)} :
                                i \in DOMAIN hunks}
          IN /\ now = c.post => then = c.pre
             /\ FoundApart(hunks, now) /\ now # c.pre =>
                   /\ Len(then) = moved(Len(now) + 1) - 1
                   /\ \A i \in DOMAIN hunks : \A n \in Places(hunks[i], now) :
                         SubSeq(then, moved(n), moved(n) + Len(hunks[i].old) - 1) = hunks[i].old
                   /\ \A k \in DOMAIN now \ own : then[moved(k)] = now[k]]_controlVars

\* SPEC.md:310 says that an undo removes only one operation's delta: in a file that keeps its
\* length, a line that the operation did not change stays as it is now.
UndoKeepsOtherWork ==
    [][\A u \in Undos : Undone(u) =>
          LET c == call[plan[u].of]
              now == live[plan[u].path].text
              then == live'[plan[u].path].text
          IN Len(c.pre) = Len(c.post) /\ Len(now) = Len(c.post) =>
                \A k \in DOMAIN now : c.pre[k] = c.post[k] => then[k] = now[k]]_controlVars
====
