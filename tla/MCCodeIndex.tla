---------------------------- MODULE MCCodeIndex ------------------------------
(***************************************************************************)
(* Small instances of CodeIndex for TLC.                                   *)
(***************************************************************************)
EXTENDS CodeIndex, TLC

\* Requests are interchangeable, and so are the indexer's slots.
Interchangeable == Permutations(Requests) \cup Permutations(Indexers)
=============================================================================
