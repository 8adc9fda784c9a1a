--------------------------- MODULE MCManualSession ---------------------------
(***************************************************************************)
(* Small instances of ManualSession for TLC.                               *)
(***************************************************************************)
EXTENDS ManualSession, TLC

CONSTANTS s1, s2, s3, s4   \* starts, in the order of their FeatureRuns' ids

RankOf == (s1 :> 1) @@ (s2 :> 2) @@ (s3 :> 3) @@ (s4 :> 4)
MCIdRank == [s \in Starts |-> RankOf[s]]
==============================================================================
