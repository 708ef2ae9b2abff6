---------------------------- MODULE MCAsyncRuntime ----------------------------
(* AsyncRuntime for TLC: the workers are interchangeable.                  *)
EXTENDS AsyncRuntime, TLC

WorkerSymmetry == Permutations(Workers)
=============================================================================
