--------------------------- MODULE MCFileMutation ---------------------------
(***************************************************************************)
(* Small instances of FileMutation.                                        *)
(***************************************************************************)
EXTENDS FileMutation, TLC

CONSTANTS p1, p2, a, b, move, write, copy, delete, mkdir, structured, extract, import

MCPaths == {p1, p2}
MCContents == {Absent, Dir, a, b}
MCOps == {move, write, copy, delete, mkdir, structured, extract, import}

\* p1 is an existing file and the source of the calls that have two paths; its slot comes last.
MCSlot == p1 :> 2 @@ p2 :> 1
MCInitialData == p1 :> a @@ p2 :> Absent

MCKind ==
  move :> "move" @@ write :> "write" @@ copy :> "copy" @@ delete :> "delete" @@ mkdir :> "mkdir"
    @@ structured :> "structured" @@ extract :> "extract"
    @@ import :> "import"
NewFile == {mkdir, import}
MCSrc == [o \in MCOps |-> IF o \in NewFile THEN p2 ELSE p1]
MCDst == [o \in MCOps |-> IF o \in {write, delete, structured} THEN p1 ELSE p2]
MCExpected == [o \in MCOps |-> IF o \in NewFile THEN Absent ELSE a]
MCNew == [o \in MCOps |-> b]

MCMixes ==
  {{move, write}, {copy, delete}, {mkdir, import}, {structured, extract}}

\* At most two accidents in one behaviour: an edit, a crash, a failed step.
TwoAccidents == edits + crashes + faults <= 2
=============================================================================
