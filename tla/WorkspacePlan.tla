---------------------------- MODULE WorkspacePlan ----------------------------
(***************************************************************************)
(* How the high-level workspace tools build a change, show it and apply    *)
(* it: workspace_batch and workspace_replace plan from verified reads      *)
(* without a lock (workspace_batch.py, workspace_replace.py), a preview    *)
(* waits in the WorkspacePlanStore for workspace_plan_apply, and           *)
(* run_workspace_plan (workspace_operations.py) locks, holds, checks and   *)
(* commits.  workspace_apply and text_file_apply (server.py) lock first    *)
(* and read afterwards.  The user's programs change, remove, make and      *)
(* replace files and directories at any time: no lock stops them, only a   *)
(* verified handle does.                                                   *)
(*                                                                         *)
(* The journal of the commit and its recovery are WorkspaceTransaction's   *)
(* subject: here a commit writes everything or nothing.                    *)
(***************************************************************************)
EXTENDS Naturals, Sequences, FiniteSets

CONSTANTS
  Path,       \* workspace-relative paths
  Root,       \* the workspace root
  Parent,     \* the directory of each path
  Initial,    \* the workspace before the first call
  Call,       \* tool calls
  Request,    \* what each call asks for
  Mixes,      \* the sets of calls that may be made in one behaviour
  EditTexts,  \* what other programs write
  NoText,     \* the text of a directory and of a path that does not exist
  Illegal,    \* the outcome of operations that cannot be done one after the other
  Nobody,     \* holder of a free slot
  MaxFiles,   \* max_high_level_files
  MaxPlans,   \* WorkspacePlanStore.max_plans
  MaxBytes,   \* max_high_level_total_bytes, in texts
  MaxEdits, MaxRestarts

Seqs == INSTANCE SequencesExt
Sets == INSTANCE FiniteSetsExt

\* The directories are a tree, and what is in them is one as well.
ASSUME PathAssumption ==
  /\ IsFiniteSet(Path) /\ Root \notin Path /\ Parent \in [Path -> Path \cup {Root}]
  /\ \A set \in SUBSET Path : set # {} => \E p \in set : Parent[p] \notin set
ASSUME InitialAssumption ==
  /\ DOMAIN Initial = Path
  /\ \A p \in Path :
       /\ Initial[p].kind \in {"absent", "file", "dir"} /\ Initial[p].id \in 0..Cardinality(Path)
       /\ Initial[p].kind # "absent" /\ Parent[p] # Root => Initial[Parent[p]].kind = "dir"
ASSUME CallAssumption ==
  /\ Mixes \subseteq SUBSET Call /\ Nobody \notin Call
  /\ \A c \in Call : Request[c].tool \in {"batch", "replace", "apply", "edits"}
  /\ \A c \in Call : Request[c].tool # "apply" =>
       LET asked == {Request[c].ops[i] : i \in DOMAIN Request[c].ops} IN
       /\ Request[c].ops \in Seq(asked)
       /\ \A op \in asked :
            CASE Request[c].tool = "batch" ->
                   /\ op.op \in {"mkdir", "create", "replace", "copy", "move", "delete"}
                   /\ op.path \in Path /\ (op.op \in {"copy", "move"} => op.source \in Path)
              [] Request[c].tool = "replace" -> op.op = "scan" /\ op.path \in Path \cup {Root}
              [] Request[c].tool = "edits" -> op.op = "replace" /\ op.path \in Path
ASSUME PlanBoundsAssumption ==
  {MaxFiles, MaxPlans, MaxBytes, MaxEdits, MaxRestarts} \subseteq Nat

VARIABLES
  disk,     \* the workspace: what stands at each path, and which file or directory it is
  stamp,    \* the next file identity
  plan,     \* the plan each call builds or took
  queue,    \* the operations it has still to plan
  pc,       \* where the call is
  lock,     \* who holds each path's slot
  held,     \* the paths whose verified handles the call keeps
  before,   \* its checkpoint
  store,    \* the previews whose plan_id can still be applied
  edits, restarts

planVars == <<plan, queue, before>>
holdVars == <<lock, held>>
diskVars == <<disk, stamp, edits>>
vars == <<disk, stamp, plan, queue, pc, lock, held, before, store, edits, restarts>>

-----------------------------------------------------------------------------
(* Files, directories and plans                                            *)

\* PathIdentity: the file or directory itself and its stamps, not only its name.
Entry(kind, id, text) == [kind |-> kind, id |-> id, text |-> text]
Missing == Entry("absent", 0, NoText)

IsFile(p) == disk[p].kind = "file"
IsDir(p) == disk[p].kind = "dir"
IsAbsent(p) == disk[p].kind = "absent"

\* The directories above a path: the smallest set that has its parent and the parents of its
\* own members.
Ancestors ==
  [p \in Path |->
     {q \in Path : \A up \in SUBSET Path :
        (\A r \in up \cup {p} : Parent[r] \in up \cup {Root}) => q \in up}]
Below(q) == {p \in Path : q \in Ancestors[p]}

\* A text is who wrote it and how often old_text occurs in it.
Replaced(text) == [text EXCEPT !.olds = 0]

EmptyPlan ==
  [snaps |-> <<>>, absent |-> {}, changes |-> <<>>, dels |-> {}, dirs |-> {},
   parents |-> <<>>, files |-> <<>>, removed |-> {}, copied |-> {}, matches |-> 0,
   ops |-> <<>>]

Scope(pl) == DOMAIN pl.snaps \cup pl.absent \cup DOMAIN pl.changes \cup pl.dels \cup pl.dirs

Retained(pl) == Cardinality(DOMAIN pl.snaps) + Cardinality(DOMAIN pl.changes)

With(f, p, value) == [q \in DOMAIN f \cup {p} |-> IF q = p THEN value ELSE f[q]]
Without(f, p) == [q \in DOMAIN f \ {p} |-> f[q]]

-----------------------------------------------------------------------------
(* Planning: each operation sees what the earlier ones would leave.  An     *)
(* operator gives the plan that results, or nothing where it is refused.    *)

\* _FileState.
State(text, existing, modified, replaced, moved) ==
  [text |-> text, existing |-> existing, modified |-> modified, replaced |-> replaced,
   moved |-> moved]

\* _load_file, with _verify_expected.
Load(pl, p, expected) ==
  LET loaded ==
        IF p \in pl.removed THEN {}
        ELSE IF p \in DOMAIN pl.files THEN {pl}
        ELSE IF ~IsFile(p) THEN {}
        ELSE {[pl EXCEPT !.snaps = With(@, p, disk[p]),
                         !.files = With(@, p, State(disk[p].text, TRUE, FALSE, FALSE, FALSE))]}
  IN {l \in loaded : expected \in {NoText, l.files[p].text}}

\* _require_parent.
ParentPlanned(pl, p) ==
  Parent[p] = Root \/ Parent[p] \in pl.dirs
  \/ (Parent[p] \notin DOMAIN pl.files \cup pl.removed /\ IsDir(Parent[p]))

\* _new_file_target, and what _mkdir checks.
FreePath(pl, p) ==
  /\ IsAbsent(p) /\ p \notin DOMAIN pl.files \cup pl.dirs \cup pl.removed
  /\ ParentPlanned(pl, p)

Mkdir(pl, op) ==
  IF FreePath(pl, op.path)
  THEN {[pl EXCEPT !.dirs = @ \cup {op.path}, !.absent = @ \cup {op.path}]} ELSE {}

Put(pl, p, file) ==
  [pl EXCEPT !.absent = @ \cup {p}, !.files = With(@, p, file),
             !.changes = With(@, p, file.text)]

CreateFile(pl, op) ==
  IF FreePath(pl, op.path)
  THEN {Put(pl, op.path, State(op.text, FALSE, TRUE, FALSE, FALSE))} ELSE {}

Replace(pl, op) ==
  {[l EXCEPT !.files[op.path].text = Replaced(@), !.files[op.path].modified = TRUE,
             !.files[op.path].replaced = TRUE,
             !.changes = With(@, op.path, Replaced(l.files[op.path].text))] :
     l \in {m \in Load(pl, op.path, op.expected) :
              LET f == m.files[op.path] IN
              /\ ~f.moved /\ ~f.replaced /\ ~(f.existing /\ f.modified)
              /\ ~(f.existing /\ op.path \in m.copied)
              /\ f.text.olds = 1}}

\* _copy_or_move: what both do to the destination.
Arrives(l, op) ==
  LET f == l.files[op.source] IN
  Put(l, op.path, State(f.text, FALSE, TRUE, f.replaced, TRUE))

Unmodified(f) == ~f.moved /\ ~(f.existing /\ f.modified)

Copy(pl, op) ==
  {[Arrives(l, op) EXCEPT !.copied = @ \cup {op.source}] :
     l \in {m \in Load(pl, op.source, op.expected) :
              /\ Unmodified(m.files[op.source]) /\ m.files[op.source].existing
              /\ FreePath(m, op.path)}}

Move(pl, op) ==
  {LET f == l.files[op.source]
       to == Arrives(l, op)
   IN [to EXCEPT !.files = Without(@, op.source), !.removed = @ \cup {op.source},
                 !.dels = IF f.existing THEN @ \cup {op.source} ELSE @,
                 !.changes = IF f.existing THEN @ ELSE Without(@, op.source)] :
     l \in {m \in Load(pl, op.source, op.expected) :
              /\ Unmodified(m.files[op.source])
              /\ ~(m.files[op.source].existing /\ op.source \in m.copied)
              /\ FreePath(m, op.path)}}

Delete(pl, op) ==
  {[l EXCEPT !.files = Without(@, op.path), !.removed = @ \cup {op.path},
             !.dels = @ \cup {op.path}] :
     l \in {m \in Load(pl, op.path, op.expected) :
              LET f == m.files[op.path] IN
              f.existing /\ ~f.modified /\ ~f.moved /\ op.path \notin m.copied}}

\* plan_workspace_replace: consider_file, for a file the scan selected.
ReplaceAll(pl, op) ==
  {LET text == l.files[op.path].text IN
   [l EXCEPT !.matches = @ + text.olds,
             !.changes = IF text.olds = 0 THEN @ ELSE With(@, op.path, Replaced(text))] :
     l \in Load(pl, op.path, NoText)}

Planned(pl, op) ==
  CASE op.op = "mkdir"   -> Mkdir(pl, op)
    [] op.op = "create"  -> CreateFile(pl, op)
    [] op.op = "replace" -> Replace(pl, op)
    [] op.op = "copy"    -> Copy(pl, op)
    [] op.op = "move"    -> Move(pl, op)
    [] op.op = "delete"  -> Delete(pl, op)
    [] op.op = "all"     -> ReplaceAll(pl, op)

-----------------------------------------------------------------------------
(* A call, before it takes locks                                           *)

Tool(c) == Request[c].tool

Targets(c) ==
  IF Tool(c) = "edits" THEN {Request[c].ops[i].path : i \in DOMAIN Request[c].ops}
  ELSE Scope(plan[c])

Goes(c, to) == pc' = [pc EXCEPT ![c] = to]

\* The exception leaves the lock and the ExitStack of handles.
Release(c) ==
  /\ lock' = [p \in Path |-> IF lock[p] = c THEN Nobody ELSE lock[p]]
  /\ held' = [held EXCEPT ![c] = {}]

Fail(c) ==
  /\ Goes(c, "failed") /\ Release(c)
  /\ UNCHANGED <<diskVars, planVars, store, restarts>>

\* A step that only checks: the call goes on or fails.
Check(c, ok, to) ==
  IF ok THEN Goes(c, to) /\ UNCHANGED <<diskVars, planVars, holdVars, store, restarts>>
  ELSE Fail(c)

Start(c) ==
  /\ pc[c] = "idle" /\ Tool(c) \in {"batch", "replace"}
  /\ queue' = [queue EXCEPT ![c] = Request[c].ops]
  /\ Goes(c, "planning")
  /\ UNCHANGED <<diskVars, holdVars, plan, before, store, restarts>>

\* The paths of the edits are resolved only to choose the slots.
StartEdits(c) ==
  /\ pc[c] = "idle" /\ Tool(c) = "edits"
  /\ Check(c, \A p \in Targets(c) : IsFile(p), "locking")

\* The files a scan selects below its root; the scan looks again for every new call.
Selected(p) ==
  LET files == IF p \in Path /\ ~IsDir(p) THEN {p}
               ELSE {q \in IF p = Root THEN Path ELSE Below(p) : IsFile(q)}
  IN [i \in 1..Cardinality(files) |-> [op |-> "all", path |-> Seqs!SetToSeq(files)[i]]]

\* plan_workspace_replace: the directories are listed, then each file is read in turn.
Scan(c) ==
  /\ pc[c] = "planning" /\ queue[c] # <<>> /\ Head(queue[c]).op = "scan"
  /\ queue' = [queue EXCEPT ![c] = Selected(Head(@).path) \o Tail(@)]
  /\ UNCHANGED <<diskVars, holdVars, plan, pc, before, store, restarts>>

\* One operation of the request: build, or one file of the scan, or one text edit.
PlanOp(c) ==
  /\ pc[c] \in {"planning", "reading"}
  /\ queue[c] # <<>> /\ Head(queue[c]).op # "scan"
  /\ LET op == Head(queue[c]) IN
     \/ \E pl \in Planned(plan[c], op) :
          /\ plan' = [plan EXCEPT ![c] = [pl EXCEPT !.ops = Append(@, op)]]
          /\ queue' = [queue EXCEPT ![c] = Tail(@)]
          /\ UNCHANGED <<diskVars, holdVars, pc, before, store, restarts>>
     \/ Planned(plan[c], op) = {} /\ Fail(c)

\* expected_total_matches.
Counted(c) ==
  Tool(c) = "replace" => Request[c].expected \in {NoText, plan[c].matches}

\* bind_plan_parents: every ancestor that exists.
ParentsBound(pl) == {q \in UNION {Ancestors[p] : p \in Scope(pl)} : ~IsAbsent(q)}

Bind(c) ==
  /\ pc[c] = "planning" /\ queue[c] = <<>>
  /\ LET parents == ParentsBound(plan[c]) IN
     IF /\ Counted(c) /\ \A q \in parents : IsDir(q)
        /\ Cardinality(Scope(plan[c])) <= MaxFiles /\ Retained(plan[c]) <= MaxBytes
     THEN /\ plan' = [plan EXCEPT ![c].parents = [q \in parents |-> disk[q].id]]
          /\ Goes(c, IF Request[c].preview THEN "preview" ELSE "locking")
          /\ UNCHANGED <<diskVars, holdVars, queue, before, store, restarts>>
     ELSE Fail(c)

\* Mutant: a directory that has the name is good enough.
ValidNames(pl) ==
  /\ \A p \in DOMAIN pl.snaps : disk[p] = pl.snaps[p]
  /\ \A p \in pl.absent : IsAbsent(p)
  /\ \A q \in DOMAIN pl.parents : IsDir(q)

\* validate_plan.
Valid(pl) ==
  /\ \A p \in DOMAIN pl.snaps : disk[p] = pl.snaps[p]
  /\ \A p \in pl.absent : IsAbsent(p)
  /\ \A q \in DOMAIN pl.parents : IsDir(q) /\ disk[q].id = pl.parents[q]

\* A preview: validate_plan, WorkspacePlanStore.put.
StorePlan(c) ==
  /\ pc[c] = "preview"
  /\ IF /\ Valid(plan[c]) /\ Cardinality(store) < MaxPlans
        /\ Sets!MapThenSumSet(LAMBDA d : Retained(plan[d]), store) + Retained(plan[c]) <= MaxBytes
     THEN store' = store \cup {c} /\ Goes(c, "shown")
          /\ UNCHANGED <<diskVars, planVars, holdVars, restarts>>
     ELSE Fail(c)

\* 300 seconds pass: _prune drops the plan when the store is next used.
Expire(c) ==
  /\ c \in store /\ store' = store \ {c}
  /\ UNCHANGED <<diskVars, planVars, holdVars, pc, restarts>>

\* workspace_plan_apply: the plan is taken whatever becomes of the call.
Take(c) ==
  /\ pc[c] = "idle" /\ Tool(c) = "apply" /\ pc[Request[c].from] \in {"shown", "dead"}
  /\ IF Request[c].from \in store
     THEN /\ store' = store \ {Request[c].from}
          /\ plan' = [plan EXCEPT ![c] = plan[Request[c].from]]
          /\ Goes(c, "locking")
          /\ UNCHANGED <<diskVars, queue, before, holdVars, restarts>>
     ELSE Fail(c)

-----------------------------------------------------------------------------
(* A call that holds its slots                                             *)

\* WorkspaceExecutionLock and lock_target, or their timeout.
Lock(c) ==
  /\ pc[c] = "locking"
  /\ IF \A p \in Targets(c) : lock[p] = Nobody
     THEN /\ lock' = [p \in Path |-> IF p \in Targets(c) THEN c ELSE lock[p]]
          /\ queue' = [queue EXCEPT ![c] = IF Tool(c) = "edits" THEN Request[c].ops ELSE <<>>]
          /\ Goes(c, IF Tool(c) = "edits" THEN "reading" ELSE "holding")
          /\ UNCHANGED <<diskVars, plan, before, held, store, restarts>>
     ELSE Fail(c)

Written(pl) == DOMAIN pl.changes \cup pl.dels

\* Mutant: what the plan only read is not held.
KeptParents(pl) == DOMAIN pl.parents

\* The ancestors, and the files the plan read and does not write.
Kept(pl) == DOMAIN pl.parents \cup (DOMAIN pl.snaps \ Written(pl))

\* hold_verified_path opens every component of the path.
Hold(c) ==
  /\ pc[c] = "holding"
  /\ LET kept == Kept(plan[c]) IN
     IF \A p \in kept : IF p \in DOMAIN plan[c].parents THEN IsDir(p) ELSE IsFile(p)
     THEN /\ held' = [held EXCEPT ![c] = kept \cup UNION {Ancestors[p] : p \in kept}]
          /\ Goes(c, "validate")
          /\ UNCHANGED <<diskVars, planVars, lock, store, restarts>>
     ELSE Fail(c)

Done(c) ==
  /\ Goes(c, "done") /\ Release(c)
  /\ UNCHANGED <<planVars, store, restarts>>

ChangesNothing(pl) == Written(pl) \cup pl.dirs = {}

\* The plan is still true; one that changes nothing ends here.
Validate(c) ==
  /\ pc[c] = "validate"
  /\ IF Valid(plan[c]) /\ ChangesNothing(plan[c]) THEN Done(c) /\ UNCHANGED diskVars
     ELSE Check(c, Valid(plan[c]), "checkpoint")

Texts(scope) == [p \in scope |-> [kind |-> disk[p].kind, text |-> disk[p].text]]

\* checkpoint_state, and what the plan saw: files it read, and nothing elsewhere.
AsPlanned(pl) ==
  \A p \in Scope(pl) :
    IF p \in DOMAIN pl.snaps THEN IsFile(p) /\ disk[p].text = pl.snaps[p].text
    ELSE IsAbsent(p)

\* capture_workspace_state; only run_workspace_plan compares it with what the plan read.
Checkpoint(c) ==
  /\ pc[c] = "checkpoint" \/ (pc[c] = "reading" /\ queue[c] = <<>>)
  /\ IF Tool(c) = "edits" \/ AsPlanned(plan[c])
     THEN /\ before' = [before EXCEPT ![c] = Texts(Scope(plan[c]))]
          /\ Goes(c, IF Tool(c) = "edits" THEN "staged" ELSE "recheck")
          /\ UNCHANGED <<diskVars, plan, queue, holdVars, store, restarts>>
     ELSE Fail(c)

\* validate_plan again, once the checkpoint is known to be what it describes.
Recheck(c) == pc[c] = "recheck" /\ Check(c, Valid(plan[c]), "staged")

\* expected_identities: only run_workspace_plan has them.
SameIdentities(c, paths) ==
  Tool(c) = "edits" \/
  \A p \in paths \cap (DOMAIN plan[c].snaps \cup plan[c].absent) :
    IF p \in DOMAIN plan[c].snaps THEN disk[p].id = plan[c].snaps[p].id ELSE IsAbsent(p)

\* restore_workspace_state: the whole scope is scanned before the first write ...
Preflight(c) ==
  /\ pc[c] = "staged"
  /\ Check(c, Texts(Scope(plan[c])) = before[c] /\ SameIdentities(c, Scope(plan[c])), "commit")

\* What the plan's own commit writes.
Outcome(pl) ==
  [p \in Path |->
     IF p \in DOMAIN pl.changes THEN Entry("file", stamp, pl.changes[p])
     ELSE IF p \in pl.dirs THEN Entry("dir", stamp, NoText)
     ELSE IF p \in pl.dels THEN Missing
     ELSE disk[p]]

\* ... and every path it writes is looked at again as it is written.
Commit(c) ==
  /\ pc[c] = "commit"
  /\ LET writes == Written(plan[c]) \cup plan[c].dirs IN
     IF /\ \A p \in writes : Texts(writes)[p] = before[c][p]
        /\ SameIdentities(c, writes)
        /\ \A p \in writes : Parent[p] = Root \/ Parent[p] \in plan[c].dirs \/ IsDir(Parent[p])
     THEN /\ disk' = Outcome(plan[c]) /\ stamp' = stamp + 1 /\ UNCHANGED edits
          /\ Done(c)
     ELSE Fail(c)

\* A path cannot be written: what was written is undone before the slots are given back.
CommitFails(c) == pc[c] = "commit" /\ Fail(c)

-----------------------------------------------------------------------------
(* The user's programs and restarts of the server                          *)

Held == UNION {held[c] : c \in Call}

Edit(p, entry) ==
  /\ edits < MaxEdits /\ edits' = edits + 1
  /\ p \notin Held
  /\ disk' = [disk EXCEPT ![p] = entry] /\ stamp' = stamp + 1
  /\ UNCHANGED <<planVars, holdVars, pc, store, restarts>>

EditFile(p, text) == IsFile(p) /\ Edit(p, Entry("file", stamp, text))

RemoveFile(p) == IsFile(p) /\ Edit(p, Missing)

MakeFile(p, text) ==
  /\ IsAbsent(p) /\ (Parent[p] # Root => IsDir(Parent[p]))
  /\ Edit(p, Entry("file", stamp, text))

\* A directory is moved aside and another takes its name, with or without the same files.
SwapDirectory(q, keeps) ==
  /\ IsDir(q) /\ q \notin Held /\ Below(q) \cap Held = {}
  /\ edits < MaxEdits /\ edits' = edits + 1
  /\ disk' = [p \in Path |-> IF p = q THEN Entry("dir", stamp, NoText)
                             ELSE IF p \in Below(q) /\ ~keeps THEN Missing
                             ELSE disk[p]]
  /\ stamp' = stamp + 1
  /\ UNCHANGED <<planVars, holdVars, pc, store, restarts>>

Stopped == {"idle", "shown", "done", "failed", "dead"}

\* The plans and locks of a server die with it; a commit that began is undone.
Restart ==
  /\ restarts < MaxRestarts /\ restarts' = restarts + 1
  /\ store' = {}
  /\ pc' = [c \in Call |-> IF pc[c] \in Stopped THEN pc[c] ELSE "dead"]
  /\ lock' = [p \in Path |-> Nobody] /\ held' = [c \in Call |-> {}]
  /\ UNCHANGED <<diskVars, planVars>>

-----------------------------------------------------------------------------
Init ==
  /\ disk = Initial /\ stamp = 1 + Cardinality(Path)
  /\ plan = [c \in Call |-> EmptyPlan] /\ queue = [c \in Call |-> <<>>]
  /\ \E mix \in Mixes : pc = [c \in Call |-> IF c \in mix THEN "idle" ELSE "dead"]
  /\ lock = [p \in Path |-> Nobody] /\ held = [c \in Call |-> {}]
  /\ before = [c \in Call |-> <<>>] /\ store = {}
  /\ edits = 0 /\ restarts = 0

Calls(c) ==
  \/ Start(c) \/ StartEdits(c) \/ Scan(c) \/ PlanOp(c) \/ Bind(c) \/ StorePlan(c)
  \/ Expire(c) \/ Take(c) \/ Lock(c) \/ Hold(c) \/ Validate(c) \/ Checkpoint(c)
  \/ Recheck(c) \/ Preflight(c) \/ Commit(c) \/ CommitFails(c)

Others ==
  \/ \E p \in Path, text \in EditTexts : EditFile(p, text) \/ MakeFile(p, text)
  \/ \E p \in Path : RemoveFile(p)
  \/ \E q \in Path, keeps \in BOOLEAN : SwapDirectory(q, keeps)
  \/ Restart

Next == (\E c \in Call : Calls(c)) \/ Others

Spec == Init /\ [][Next]_vars

-----------------------------------------------------------------------------
(* Properties                                                              *)

\* The workspace as a client thinks of it.
Tree == Texts(Path)

HasDirectory(tree, p) == Parent[p] = Root \/ tree[Parent[p]].kind = "dir"
HasFile(tree, p) == tree[p].kind = "file"
Becomes(tree, p, kind, text) == [tree EXCEPT ![p] = [kind |-> kind, text |-> text]]
Creates(tree, p, kind, text) ==
  IF tree[p].kind = "absent" /\ HasDirectory(tree, p)
  THEN Becomes(tree, p, kind, text) ELSE Illegal
Rewrites(tree, p, matches) ==
  IF HasFile(tree, p) /\ tree[p].text.olds \in matches
  THEN Becomes(tree, p, "file", Replaced(tree[p].text)) ELSE Illegal
Removes(tree, p) ==
  IF HasFile(tree, p) THEN Becomes(tree, p, "absent", NoText) ELSE Illegal

\* One operation done by itself on a workspace that has only that one caller.
AfterOp(tree, op) ==
  CASE op.op = "mkdir"   -> Creates(tree, op.path, "dir", NoText)
    [] op.op = "create"  -> Creates(tree, op.path, "file", op.text)
    [] op.op = "replace" -> Rewrites(tree, op.path, {1})
    [] op.op = "all"     -> Rewrites(tree, op.path, Nat)
    [] op.op = "delete"  -> Removes(tree, op.path)
    [] OTHER ->
         IF ~HasFile(tree, op.source) THEN Illegal
         ELSE Creates(IF op.op = "move" THEN Removes(tree, op.source) ELSE tree,
                      op.path, "file", tree[op.source].text)

AfterOps(tree, ops) ==
  LET result[n \in 0..Len(ops)] ==
        IF n = 0 THEN tree
        ELSE IF result[n - 1] = Illegal THEN Illegal
        ELSE AfterOp(result[n - 1], ops[n])
  IN result[Len(ops)]

Succeeds(c) == pc[c] # "done" /\ pc'[c] = "done"

\* However long ago and in however many reads it was planned, a call that succeeds does to
\* the workspace what its operations would do one after the other at that moment, to the
\* files they name and to no other.  (workspace_batch.py, run_workspace_plan)
CommitsInSequence ==
  [][\A c \in Call : (Succeeds(c) /\ Tool(c) # "edits") =>
       Tree' = AfterOps(Tree, plan[c].ops)]_vars

\* A plan is applied inside the directories it was made for, never inside others that took
\* their names.  (bind_plan_parents, validate_plan)
StaysInDirectories ==
  [][\A c \in Call : Succeeds(c) =>
       \A q \in DOMAIN plan[c].parents : IsDir(q) /\ disk[q].id = plan[c].parents[q]]_vars

\* A text edit only ever replaces the content whose SHA-256 its client gave.
EditsExpected ==
  [][\A c \in Call : (Succeeds(c) /\ Tool(c) = "edits") =>
       \A i \in DOMAIN plan[c].ops :
         disk[plan[c].ops[i].path].text = plan[c].ops[i].expected]_vars
=============================================================================
