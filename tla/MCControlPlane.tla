--------------------------- MODULE MCControlPlane ---------------------------
(***************************************************************************)
(* Small instances of ControlPlane for TLC.                                *)
(***************************************************************************)
EXTENDS ControlPlane, TLC

Calls(create, stop, resume, delete) ==
  [op \in Operations |-> CASE op = "create" -> create [] op = "stop" -> stop
                          [] op = "resume" -> resume [] op = "delete" -> delete]

OnceEach == Calls(1, 1, 1, 1)
NoDelete == Calls(1, 1, 1, 0)
CreateStop == Calls(1, 1, 0, 0)
CreateResume == Calls(1, 0, 1, 0)
TwoJobs == Calls(2, 1, 0, 0)

Symmetry == Permutations(Workers) \cup Permutations(Handlers)
WorkerSymmetry == Permutations(Workers)
=============================================================================
