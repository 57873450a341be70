----------------------------- MODULE MCGitBroker -----------------------------
(***************************************************************************)
(* Small instances of WorkspacePlan and GitBroker.                         *)
(***************************************************************************)
EXTENDS GitBroker, TLC

CONSTANTS a, n, d, db, dn, e, en,
          c1, c2, c3, c4, c5, c6, c7, c8, c9,
          main, side

\* A file and a free name at the root, a directory with a file and a free name, and a
\* directory that does not exist yet.
MCParent ==
  a :> Root @@ n :> Root @@ d :> Root @@ e :> Root @@ db :> d @@ dn :> d @@ en :> e

Text(by, olds) == [by |-> by, olds |-> olds]
TextA == Text("a", 1)
TextB == Text("b", 1)
Made == Text("made", 1)
MCEditTexts == {Text("user", 1)}

MCInitial ==
  a :> Entry("file", 1, TextA) @@ db :> Entry("file", 2, TextB) @@ d :> Entry("dir", 3, NoText)
  @@ [p \in {n, dn, e, en} |-> Missing]

Op(op, path) == [op |-> op, path |-> path, expected |-> NoText]
To(op, source, path) == [op |-> op, source |-> source, path |-> path, expected |-> NoText]
Batch(ops, preview) == [tool |-> "batch", ops |-> ops, preview |-> preview]
Apply(call) == [tool |-> "apply", from |-> call]

MCRequest ==
  \* a copy whose source is only read, and a change below the same directory
  c1 :> Batch(<<To("copy", a, dn), Op("replace", db)>>, FALSE)
  @@ c2 :> Batch(<<Op("delete", a)>>, FALSE)
  \* a directory, a file made in it, changed and moved; a file moved away
  @@ c3 :> Batch(<<Op("mkdir", e), [op |-> "create", path |-> en, text |-> Made],
                   Op("replace", en), To("move", en, n), To("move", a, dn)>>, FALSE)
  \* a replacement over the workspace, shown and then applied twice
  @@ c4 :> [tool |-> "replace", ops |-> <<Op("scan", Root)>>, preview |-> TRUE, expected |-> NoText]
  @@ c5 :> Apply(c4) @@ c6 :> Apply(c4)
  @@ c7 :> Batch(<<To("move", a, dn)>>, TRUE)
  \* a text edit
  @@ c8 :> [tool |-> "edits",
            ops |-> <<[Op("replace", a) EXCEPT !.expected = TextA]>>, preview |-> FALSE]
  \* a change beside a staging
  @@ c9 :> [tool |-> "edits",
            ops |-> <<[Op("replace", db) EXCEPT !.expected = TextB]>>, preview |-> FALSE]

\* A command and what it looks at: refs other than HEAD's, files that are ignored.
Command(asks) == Item("command", asks)
Git(commands, ignored) ==
  [staged |-> TRUE, commands |-> commands, ignored |-> ignored, attributes |-> {}, info |-> FALSE,
   protected |-> {}, plainConfig |-> TRUE]
Status == <<Command({})>>
Unusual(r) == [r EXCEPT !.plainConfig = FALSE]
NoGit == [Git(<<>>, {}) EXCEPT !.staged = FALSE]
\* A file at the root that holds attributes, a file below a directory that no tool may read.
Attributed(r) == [r EXCEPT !.info = TRUE, !.attributes = {a}]
Guarded(r) == [r EXCEPT !.protected = {db}]

MCMixes == {{c1, c2}, {c3}, {c4, c5, c6, c7}, {c8, c2}, {c9}, {}}

\* Git status beside a batch; alone, log --all after the ignored files are listed, two
\* commands where a directory is not to be read, and status with ignored directories and
\* attributes, with attributes that are not to be read, and in a repository whose settings are
\* refused.
MCStagings ==
  {c9} :> {Git(Status, {d, e})}
  @@ {} :> {Git(<<Command({"ignored"}), Command({"refs"})>>, {e}),
            Guarded(Git(Status \o Status, {})),
            Attributed(Git(Status, {d, e})),
            [Attributed(Git(Status, {})) EXCEPT !.protected = {a}],
            Unusual(Git(Status, {}))}
  @@ [mix \in SUBSET Call |-> {NoGit}]

Repo(loose, packed) ==
  [head |-> main, loose |-> loose, packed |-> packed,
   index |-> [p \in Path |-> IF p = db THEN MCInitial[db] ELSE Missing],
   unpacked |-> {1}, pack |-> {}, repacked |-> FALSE]
NotCheckedOut(r) == [r EXCEPT !.index = NoIndex]

None == [b \in Branch |-> NoCommit]
MCRepositories ==
  {Repo(main :> 1 @@ None, None), Repo(side :> 1 @@ None, main :> 1 @@ None),
   NotCheckedOut(Repo(main :> 1 @@ None, None))}

\* At most two accidents in one behaviour: changes by others, a restart.
TwoAccidents == edits + restarts <= 2
=============================================================================
