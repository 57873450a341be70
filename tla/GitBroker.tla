------------------------------ MODULE GitBroker ------------------------------
(***************************************************************************)
(* The repository that git_info and execute_readonly show to Git: a copy   *)
(* of the workspace and of its .git directory that git_broker_sandbox.py   *)
(* makes file by file, without the workspace lock, while the calls of      *)
(* WorkspacePlan commit and the user's editor and Git go on writing.  What *)
(* holds it together are the handles kept on the files the plan of the     *)
(* copy was made from.                                                     *)
(*                                                                         *)
(* A command of the user's Git is the files it renames into place, one     *)
(* step for each: a step cannot replace a file whose handle is held.       *)
(***************************************************************************)
EXTENDS WorkspacePlan

CONSTANTS
  Branch,       \* refs/heads
  NoCommit,     \* a ref that has no file, or no line in packed-refs
  Repositories, \* how .git may be when the staging begins
  Stagings      \* what Git is asked for beside each mix of calls

\* .git/index is not there: git clone --no-checkout, or git init, and nothing added since.
NoIndex == <<>>

\* Commits are numbered; a ref file has none of the names that .git itself uses.
ASSUME GitAssumption ==
  /\ IsFiniteSet(Branch) /\ NoCommit \notin Nat
  /\ {"HEAD", "packed-refs", "index"} \cap Branch = {}
  /\ Repositories # {}
  /\ \A r \in Repositories :
       LET commits == r.unpacked \cup r.pack IN
       /\ r = [head |-> r.head, loose |-> r.loose, packed |-> r.packed, index |-> r.index,
               unpacked |-> r.unpacked, pack |-> r.pack, repacked |-> FALSE]
       /\ r.head \in Branch /\ (r.index = NoIndex \/ DOMAIN r.index = Path)
       /\ commits = 1..Cardinality(commits) /\ IsFiniteSet(commits)
       /\ {r.loose, r.packed} \subseteq [Branch -> commits \cup {NoCommit}]

VARIABLES
  repo,     \* the user's .git: head, loose and packed refs, index, objects
  request,  \* the commands, each with what it may look at beyond HEAD, and the repository's rules
  stage,    \* where the staging is
  todo,     \* the entries still to be listed or copied, then the commands still to run
  pins,     \* the files of .git whose handles are kept
  absent,   \* expected_absent
  copy,     \* the projection
  began,    \* the workspace when the staging began
  seen      \* HEAD's commit and the index, at every moment since

gitVars == <<repo, request, stage, todo, pins, absent, copy, began, seen>>
allVars == <<vars, gitVars>>

-----------------------------------------------------------------------------
Resolved(r) == IF r.loose[r.head] # NoCommit THEN r.loose[r.head] ELSE r.packed[r.head]

Pair(r) == <<Resolved(r), r.index>>

HasPackedRefs(r) == \E b \in Branch : r.packed[b] # NoCommit

Nothing ==
  [head |-> CHOOSE b \in Branch : TRUE, loose |-> [b \in Branch |-> NoCommit],
   packed |-> [b \in Branch |-> NoCommit], index |-> NoIndex,
   objects |-> {}, files |-> <<>>, pruned |-> {}]

Item(kind, of) == [kind |-> kind, of |-> of]
Items(kind, set) ==
  LET order == Seqs!SetToSeq(set) IN [i \in DOMAIN order |-> Item(kind, order[i])]

Moves(to) == stage' = to /\ UNCHANGED <<vars, repo, request, began, seen>>

\* stage_git_repository: the copy is removed and every handle released.
GitFails == Moves("failed") /\ pins' = {} /\ todo' = <<>> /\ UNCHANGED <<absent, copy>>

\* Mutant: the handle of a ref file is released once it has been read.
KeptIndex(file) == IF file = "index" THEN pins \cup {file} ELSE pins

\* _hold_projection_file: read through a handle that stays open until the copy is complete.
Keep(file) == pins \cup {file}

-----------------------------------------------------------------------------
(* Planning the copy                                                       *)

\* require_git_broker_containment and the checks of the source: no route or no marker.
ContainmentFails == stage = "idle" /\ GitFails

StageBegins ==
  /\ stage = "idle"
  /\ stage' = "prune" /\ began' = disk /\ seen' = {Pair(repo)}
  /\ UNCHANGED <<vars, repo, request, todo, pins, absent, copy>>

Tracked(index) == {p \in Path : index # NoIndex /\ index[p].kind = "file"}

\* Mutant: an ignored directory is left out whatever the index tracks.
Ignored(dirs, index) == dirs

\* _can_prune_root_directory: an ignored directory without a tracked path below it.
CanPrune(dirs, index) == {q \in dirs : Tracked(index) \cap (Below(q) \cup {q}) = {}}

Asks(what) ==
  request.commands = <<>> \/ \E i \in DOMAIN request.commands : what \in request.commands[i].of

\* _commands_require_full_refs: some command names a revision that is not derived from HEAD.
FullRefs == Asks("refs")

\* _commands_observe_ignored_untracked: some command lists the files that are ignored.
ListsIgnored == Asks("ignored")

\* _safe_root_ignore_globs: the directories that the simple patterns of .gitignore match.
IgnoreRules == request.ignored

\* Without patterns, or when ignored files are asked for, the index is read later.  An index
\* that is missing tracks nothing, and nothing is held that would keep it from appearing.
PlanPruning ==
  /\ stage = "prune" /\ Moves("head")
  /\ IF ListsIgnored \/ IgnoreRules = {}
     THEN UNCHANGED <<pins, copy>>
     ELSE /\ pins' = IF repo.index = NoIndex THEN pins ELSE Keep("index")
          /\ copy' = [copy EXCEPT !.index = repo.index,
                                  !.pruned = CanPrune(IgnoreRules, repo.index)]
  /\ UNCHANGED <<todo, absent>>

CopyBegins == todo' = <<Item("dir", Root)>>

\* _commands_require_full_refs: then no ref file is kept.
PinHead ==
  /\ stage = "head"
  /\ IF FullRefs
     THEN CopyBegins /\ Moves("copy") /\ UNCHANGED <<pins, copy>>
     ELSE /\ pins' = Keep("HEAD") /\ copy' = [copy EXCEPT !.head = repo.head]
          /\ Moves("packed") /\ UNCHANGED todo
  /\ UNCHANGED absent

PinPacked ==
  /\ stage = "packed" /\ Moves("ref")
  /\ IF HasPackedRefs(repo)
     THEN /\ pins' = Keep("packed-refs")
          /\ copy' = [copy EXCEPT !.packed = repo.packed] /\ UNCHANGED absent
     ELSE absent' = absent \cup {"packed-refs"} /\ UNCHANGED <<pins, copy>>
  /\ UNCHANGED todo

\* The ref that HEAD names, as it was read.
PinRef ==
  /\ stage = "ref" /\ Moves("copy") /\ CopyBegins
  /\ LET b == copy.head IN
     IF repo.loose[b] # NoCommit
     THEN /\ pins' = Keep(b)
          /\ copy' = [copy EXCEPT !.loose[b] = repo.loose[b]] /\ UNCHANGED absent
     ELSE absent' = absent \cup {b} /\ UNCHANGED <<pins, copy>>

-----------------------------------------------------------------------------
(* Copying: files as they come, directories from a stack; .git is first in  *)
(* the order of names and therefore the last to be taken.                   *)

Turn(kind) == stage = "copy" /\ todo # <<>> /\ Head(todo).kind = kind

Then(more) == todo' = more \o Tail(todo) /\ Moves("copy") /\ UNCHANGED absent

Inside(q) == {p \in Path : Parent[p] = q}

\* _protected_worktree_path: what a directory holds that no tool may read is passed over, but
\* a .gitattributes among it is refused.  The order of names among the files, and among the
\* directories, is any order here.
ListDirectory ==
  /\ Turn("dir")
  /\ LET q == Head(todo).of
         within == Inside(q) \ request.protected
         dirs == {p \in within : IsDir(p)} \ copy.pruned
         refused == \E p \in Inside(q) \cap request.protected \cap request.attributes : ~IsAbsent(p)
     IN IF (q = Root \/ IsDir(q)) /\ ~refused
        THEN /\ Then(Items("file", {p \in within : IsFile(p)}) \o Items("dir", dirs)
                      \o IF q = Root THEN <<Item("git", Root)>> ELSE <<>>)
             /\ UNCHANGED <<pins, copy>>
        ELSE GitFails

\* _inert_attribute_placeholder: a .gitattributes keeps its length and the ends of its lines.
Inert(text) == [inert |-> text]

Projected(p) == IF p \in request.attributes THEN Inert(disk[p].text) ELSE disk[p].text

\* _copy_verified_file.
CopyFile ==
  /\ Turn("file")
  /\ LET p == Head(todo).of IN
     IF IsFile(p)
     THEN /\ copy' = [copy EXCEPT !.files = With(@, p, Projected(p))]
          /\ Then(<<>>) /\ UNCHANGED pins
     ELSE GitFails

\* The files of .git in the order of their names; then refs, then objects.
ListGit ==
  /\ Turn("git")
  /\ IF HasPackedRefs(repo) /\ "packed-refs" \in absent THEN GitFails
     ELSE /\ Then(<<Item("HEAD", Root), Item("config", Root)>>
                   \o (IF repo.index # NoIndex THEN <<Item("index", Root)>> ELSE <<>>)
                   \o (IF HasPackedRefs(repo) THEN <<Item("packed-refs", Root)>> ELSE <<>>)
                   \o <<Item("refs", Root), Item("pack", Root), Item("loose", Root)>>)
          /\ UNCHANGED <<pins, copy>>

\* A file that is pinned was read already.
CopyHead ==
  /\ Turn("HEAD") /\ Then(<<>>) /\ UNCHANGED pins
  /\ copy' = IF FullRefs THEN [copy EXCEPT !.head = repo.head] ELSE copy

\* _safe_repository_config: a repository whose settings cannot be reduced is refused.
CopyConfig ==
  /\ Turn("config")
  /\ IF request.plainConfig THEN Then(<<>>) /\ UNCHANGED <<pins, copy>> ELSE GitFails

CopyIndex ==
  /\ Turn("index") /\ Then(<<>>)
  /\ copy' = IF "index" \in pins THEN copy ELSE [copy EXCEPT !.index = repo.index]
  /\ pins' = Keep("index")

CopyPacked ==
  /\ Turn("packed-refs") /\ Then(<<>>) /\ UNCHANGED pins
  /\ copy' = IF FullRefs THEN [copy EXCEPT !.packed = repo.packed] ELSE copy

\* _metadata_entry_is_unobserved: other branches are left out when no command names them.
ListRefs ==
  /\ Turn("refs")
  /\ LET refs == {b \in Branch : repo.loose[b] # NoCommit /\ (FullRefs \/ b = copy.head)}
     IN IF refs \cap absent # {} THEN GitFails
        ELSE Then(Items("branch", refs)) /\ UNCHANGED <<pins, copy>>

CopyRef ==
  /\ Turn("branch")
  /\ LET b == Head(todo).of IN
     IF ~FullRefs THEN Then(<<>>) /\ UNCHANGED <<pins, copy>>
     ELSE IF repo.loose[b] = NoCommit THEN GitFails
     ELSE /\ copy' = [copy EXCEPT !.loose[b] = repo.loose[b]]
          /\ Then(<<>>) /\ UNCHANGED pins

\* objects/pack, and then the directories of loose objects.
CopyPack ==
  /\ Turn("pack") /\ Then(<<>>) /\ UNCHANGED pins
  /\ copy' = [copy EXCEPT !.objects = @ \cup repo.pack]

CopyLoose ==
  /\ Turn("loose") /\ Then(<<>>) /\ UNCHANGED pins
  /\ copy' = [copy EXCEPT !.objects = @ \cup repo.unpacked]

\* _rebase_index_stat_cache_for_projection: a tracked file must be the one the index describes.
Rebased ==
  \A p \in Tracked(copy.index) :
    IsAbsent(p) \/ (disk[p] = copy.index[p] /\ p \in DOMAIN copy.files)

\* sanitized_attributes_present: .git/info/attributes, or a .gitattributes among the files.
Sanitized == request.info \/ request.attributes \cap DOMAIN copy.files # {}

\* The copy is complete and the handles are released.
Complete ==
  /\ stage = "copy" /\ todo = <<>>
  /\ IF Sanitized => Rebased
     THEN /\ Moves("run") /\ pins' = {} /\ todo' = request.commands
          /\ UNCHANGED <<absent, copy>>
     ELSE GitFails

\* run_git_broker_batch: the commands run one after the other over the same copy, whatever
\* each returns; the copy is removed at the end.
RunCommand ==
  /\ stage = "run" /\ todo # <<>>
  /\ Moves("run") /\ todo' = Tail(todo) /\ UNCHANGED <<pins, absent, copy>>

EndGit == Moves("ended") /\ copy' = Nothing /\ todo' = <<>> /\ UNCHANGED <<pins, absent>>

BatchEnds == stage = "run" /\ todo = <<>> /\ EndGit

\* The directory is not in the copy, the live marker is gone, the deadline passed, or a limit
\* of the sandbox was exceeded: nothing more is run.
CommandFails == stage = "run" /\ todo # <<>> /\ EndGit

-----------------------------------------------------------------------------
(* The user's Git                                                          *)

UserGit(r) ==
  /\ edits < MaxEdits /\ edits' = edits + 1
  /\ repo' = r /\ seen' = seen \cup {Pair(r)}
  /\ UNCHANGED <<disk, stamp, planVars, pc, holdVars, store, restarts>>
  /\ UNCHANGED <<request, stage, todo, pins, absent, copy, began>>

\* git add, git rm --cached; the first of them makes the index.
OrEmpty(index) == IF index = NoIndex THEN [p \in Path |-> Missing] ELSE index

UserIndexes(p) ==
  /\ "index" \notin pins /\ OrEmpty(repo.index)[p] # disk[p] /\ ~IsDir(p)
  /\ UserGit([repo EXCEPT !.index = [OrEmpty(@) EXCEPT ![p] = disk[p]]])

UserCommits ==
  /\ repo.head \notin pins
  /\ LET commit == 1 + Cardinality(repo.unpacked \cup repo.pack) IN
     UserGit([repo EXCEPT !.loose[repo.head] = commit, !.unpacked = @ \cup {commit}])

UserSwitches(b) == b # repo.head /\ "HEAD" \notin pins /\ UserGit([repo EXCEPT !.head = b])

\* git pack-refs: the file is written, then refs it holds are removed.
UserPacksRefs ==
  /\ "packed-refs" \notin pins
  /\ UserGit([repo EXCEPT !.packed =
                [b \in Branch |-> IF repo.loose[b] # NoCommit THEN repo.loose[b] ELSE @[b]]])

UserPrunesRef(b) ==
  /\ repo.loose[b] # NoCommit /\ repo.packed[b] = repo.loose[b] /\ b \notin pins
  /\ UserGit([repo EXCEPT !.loose[b] = NoCommit])

\* git repack -d.
UserRepacks ==
  /\ repo.unpacked # {}
  /\ UserGit([repo EXCEPT !.pack = @ \cup repo.unpacked, !.unpacked = {}, !.repacked = TRUE])

-----------------------------------------------------------------------------
GitInit ==
  /\ Init
  /\ request \in Stagings[{c \in Call : pc[c] = "idle"}]
  /\ repo \in IF request.staged THEN Repositories ELSE {CHOOSE r \in Repositories : TRUE}
  /\ stage = IF request.staged THEN "idle" ELSE "ended"
  /\ todo = <<>> /\ pins = {} /\ absent = {} /\ copy = Nothing
  /\ began = Initial /\ seen = {}

Staging ==
  \/ ContainmentFails \/ StageBegins \/ PlanPruning \/ PinHead \/ PinPacked \/ PinRef
  \/ ListDirectory \/ CopyFile \/ ListGit \/ CopyHead \/ CopyConfig \/ CopyIndex \/ CopyPacked
  \/ ListRefs \/ CopyRef \/ CopyPack \/ CopyLoose \/ Complete
  \/ RunCommand \/ CommandFails \/ BatchEnds

UserOfGit ==
  /\ stage \notin {"idle", "ended", "failed"}
  /\ \/ \E p \in Path : UserIndexes(p)
     \/ \E b \in Branch : UserSwitches(b) \/ UserPrunesRef(b)
     \/ UserCommits \/ UserPacksRefs \/ UserRepacks

\* The server's calls and the user's editor; a restart ends the staging with them.
Elsewhere ==
  /\ Next
  /\ IF restarts' = restarts THEN UNCHANGED gitVars
     ELSE /\ stage' = IF stage = "ended" THEN stage ELSE "failed"
          /\ pins' = {} /\ todo' = <<>>
          /\ UNCHANGED <<repo, request, absent, copy, began, seen>>

GitNext == Staging \/ UserOfGit \/ Elsewhere

GitSpec == GitInit /\ [][GitNext]_allVars

-----------------------------------------------------------------------------
(* Properties                                                              *)

\* HEAD names a branch without a commit and there is no packed-refs: no handle can be kept on
\* a file that does not exist, and .git and refs are listed one after the other.
Unborn(r) == Resolved(r) = NoCommit /\ ~HasPackedRefs(r)

\* The commit that HEAD names and the index that Git is shown stood side by side at one
\* moment of the staging, and the commit's objects are there unless the user repacked them
\* meanwhile: status and diff never describe a state that did not exist.  (The commands
\* that may name any ref are not promised this: _commands_require_full_refs.)
HeadAndIndexOfOneMoment ==
  (stage = "run" /\ ~FullRefs) =>
    /\ Pair(copy) \in seen \/ Unborn(copy)
    /\ Resolved(copy) \in copy.objects \cup {NoCommit} \/ repo.repacked

\* p, or a directory above it, is one of these.
Under(p, set) == (Ancestors[p] \cup {p}) \cap set # {}

\* There was no index at a moment of the staging.
IndexAppeared == \E moment \in seen : moment[2] = NoIndex

\* A tracked file that nobody touched during the staging is in the copy as it is on the disk
\* (a .gitattributes without its content): leaving out ignored directories never shows it as
\* deleted.  Two kinds are: what no tool may read, and what lies in an ignored directory that
\* was left out before there was an index (_build_projection_prune_policy holds no handle on
\* an index that is missing).
TrackedIsCopied ==
  stage = "run" =>
    \A p \in Tracked(copy.index) :
      (began[p].kind = "file" /\ disk[p] = began[p]) =>
        \/ p \in DOMAIN copy.files /\ copy.files[p] = Projected(p)
        \/ Under(p, request.protected)
        \/ IndexAppeared /\ Under(p, copy.pruned)
=============================================================================
