----------------------------- MODULE MCPipeline ------------------------------
(***************************************************************************)
(* Small instances of Pipeline for TLC.                                    *)
(***************************************************************************)
EXTENDS Pipeline, TLC

(* The policy of the last stage decides nothing but whether skipRemaining  *)
(* is called with nothing left to skip.                                    *)
Uniform == {[o \in Orders |-> p] : p \in {"HALT", "CONTINUE"}}
=============================================================================
