------------------------ MODULE MCOperationLifecycle ------------------------
(***************************************************************************)
(* Small instances of OperationLifecycle.                                  *)
(***************************************************************************)
EXTENDS OperationLifecycle, TLC

CONSTANTS o1, o2, o3, o4, u1, u2

AllTiers == o1 :> "sandbox" @@ o2 :> "broker" @@ o3 :> "sync" @@ o4 :> "git"

\* Each kind of operation on its own.
MCMixes == {{o1}, {o2}, {o3}, {o4}}

MCApprovers == {u1, u2}
=============================================================================
