----------------------- MODULE MCWorkspaceTransaction -----------------------
(***************************************************************************)
(* Small instances of WorkspaceTransaction.                                *)
(***************************************************************************)
EXTENDS WorkspaceTransaction, TLC

CONSTANTS p1, p2, o1, o2, o3, o4, a, b

MCPaths == {p1, p2}
MCContents == {Absent, a, b}
MCContentsTwo == {Absent, a}

\* One file exists, the other path is free.
MCInitialWs == p1 :> a @@ p2 :> Absent

\* Two plans, or the commit of a staged result and an approved rollback or undo.
MCKind == o1 :> "plan" @@ o2 :> "plan" @@ o3 :> "sandbox" @@ o4 :> "control"
MCMixes == {{o1, o2}, {o3, o4}}

\* The two plans are interchangeable.
SamePlans == Permutations({o1, o2})

\* At most two accidents in one behaviour: an edit, a crash, a failed step.
TwoAccidents == edits + crashes + faults <= 2

PlanAndSandbox == o1 :> "plan" @@ o2 :> "sandbox"
Sandbox == o1 :> "sandbox"
=============================================================================
