----------------------------- MODULE MCTransfers -----------------------------
(* An instance of Transfers: three organisations; the founder works for   *)
(* the first, another user for the second, both for the third.             *)
EXTENDS Transfers, TLC

CONSTANTS oA, oB, oC, ann, cy

Staff == (oA :> {ann}) @@ (oB :> {cy}) @@ (oC :> {ann, cy})

Interchangeable == Permutations(Calls) \cup Permutations(Requests)
=============================================================================
