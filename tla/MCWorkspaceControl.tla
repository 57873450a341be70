---- MODULE MCWorkspaceControl ----
(***************************************************************************)
(* Small instances of WorkspaceControl, with the commands beside it.       *)
(***************************************************************************)
EXTENDS WorkspaceControl, TLC

CONSTANTS r1, r2, h, u, v, w1, w2, j, p1, p2

MCKind == r1 :> "reader" @@ r2 :> "writer" @@ h :> "host"
MCAim == u :> "undo" @@ v :> "rollback"

\* Both files exist at first.  From them two places can grow, alike or not; the second text keeps one
\* of the two alike, the last has a line of its own between the places.
MCTexts == {<<1, 0, 1>>, <<1, 2, 0, 3>>, <<1, 2, 0, 1, 2>>, <<1, 2, 0, 0, 3>>}
MCInitial == p1 :> <<1, 0, 1>> @@ p2 :> <<1, 0, 1>>

\* One place of two is changed, and then the other in the same way.
MCMovedTexts == {<<1, 0, 1>>, <<2, 0, 1>>, <<1, 0, 2>>}

\* Commands beside a writer, an editor, accidents and a sweep; control beside two writers.
MCMixes ==
    {{r1, w1, Editor}, {r1, w1, Accident}, {r1, Editor, Accident}, {r1, Accident, Sweeper},
     {r2, Editor, Sweeper}, {h, j, Accident, Editor}, {h, r1, Sweeper}, {h, w1},
     {u, w1, w2}, {u, w1, Editor, Accident}, {v, w1, w2}, {u, w1, h}}

\* An undo beside two writers.
MCUndoAlone == {{u, w1, w2}}

SamePaths == Permutations({p1, p2})
====
