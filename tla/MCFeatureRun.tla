---------------------------- MODULE MCFeatureRun -----------------------------
(***************************************************************************)
(* Small instances of FeatureRun for TLC.                                  *)
(***************************************************************************)
EXTENDS FeatureRun, TLC

(* Worker slots are interchangeable, and so are calls.                     *)
Interchangeable == Permutations(Workers) \cup Permutations(Callers)

(* And so are tests, when none of them is named: no order is left on them. *)
AllInterchangeable == Interchangeable \cup Permutations(TestRuns)
==============================================================================
