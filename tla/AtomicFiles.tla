---------------------------- MODULE AtomicFiles ----------------------------
(***************************************************************************)
(* What a client of the single-file tools (write_file, the structured-file *)
(* writers, move_file, copy_file, delete_file, make_directory) may rely on:*)
(* a call changes all its paths in one step, and only from the state the   *)
(* client named; a call that returned keeps its effect; a call that fails  *)
(* may put back, path by path, what was there when it started, and once it *)
(* is settled it touches nothing any more.  Everybody else may change any  *)
(* path at any time, and only what they change is counted as foreign.      *)
(***************************************************************************)
EXTENDS Naturals

CONSTANTS
  Paths, Contents,
  Ops,
  Scope,    \* the paths each call changes
  From, To  \* their contents before (as the client states them) and after

VARIABLES
  disk,       \* the contents of the workspace
  phase,      \* how far each call is
  kept,       \* what each call's checkpoint holds
  foreign     \* how many changes were made from outside

abstractVars == <<disk, phase, kept, foreign>>

Phases == {"open", "applied", "returned", "failing", "closed"}

AbstractInit ==
  /\ disk \in [Paths -> Contents]
  /\ phase = [o \in Ops |-> "open"]
  /\ kept \in [Ops -> [Paths -> Contents]]
  /\ foreign = 0

Become(o, from, to) == phase[o] \in from /\ phase' = [phase EXCEPT ![o] = to]

\* A program that takes no lock changes one path; saving what is there is no change.
Foreign(p) ==
  /\ \E c \in Contents : disk' = [disk EXCEPT ![p] = c]
  /\ foreign' = IF disk' = disk THEN foreign ELSE foreign + 1
  /\ UNCHANGED <<phase, kept>>

\* The call records what it would have to put back.
Look(o) ==
  /\ phase[o] = "open"
  /\ kept' = [kept EXCEPT ![o] = disk]
  /\ UNCHANGED <<disk, phase, foreign>>

\* Every path of the call changes at once, and only from the expected contents.
Apply(o) ==
  /\ \A p \in Scope[o] : disk[p] = From[o][p]
  /\ disk' = [p \in Paths |-> IF p \in Scope[o] THEN To[o][p] ELSE disk[p]]
  /\ Become(o, {"open"}, "applied")
  /\ UNCHANGED <<kept, foreign>>

Return(o) == UNCHANGED <<disk, kept, foreign>> /\ Become(o, {"applied"}, "returned")

Fail(o) == UNCHANGED <<disk, kept, foreign>> /\ Become(o, {"open", "applied"}, "failing")

\* A failing call puts one of its own paths back.
Restore(o) ==
  /\ phase[o] = "failing"
  /\ \E p \in Scope[o] : \E c \in {kept[o][p], From[o][p]} :
       disk' = [disk EXCEPT ![p] = c]
  /\ UNCHANGED <<phase, kept, foreign>>

Close(o) ==
  UNCHANGED <<disk, kept, foreign>> /\ Become(o, {"open", "failing", "applied"}, "closed")

AbstractNext ==
  \/ \E p \in Paths : Foreign(p)
  \/ \E o \in Ops :
       Look(o) \/ Apply(o) \/ Return(o) \/ Fail(o) \/ Restore(o) \/ Close(o)

AbstractSpec == AbstractInit /\ [][AbstractNext]_abstractVars
=============================================================================
