------------------------------ MODULE RunStatus ------------------------------
(***************************************************************************)
(* The status vocabulary of the platform: the RunStatus enum of a TestRun, *)
(* the statuses a FeatureRun is given, and the sub-lists of them that the  *)
(* services and the worker test membership in.                             *)
(***************************************************************************)

RunStatuses == {"PENDING", "QUEUED", "RUNNING", "PASSED", "FAILED", "CANCELLED",
                "TIMED_OUT", "ERROR", "NOT_TESTED", "SKIPPED"}

(* The enum's default IDLE is never seen: every create sets a status.      *)
FeatureRunStatuses == {"RUNNING", "PAUSED", "COMPLETE", "CANCELLED"}

(* NOT_TESTED and SKIPPED are deliberately not in the list.                *)
TERMINAL_RUN_STATUSES == {"PASSED", "FAILED", "CANCELLED", "TIMED_OUT", "ERROR"}

IsTerminal(s) == s \in TERMINAL_RUN_STATUSES

(* A run that occupies a place in its FeatureRun's concurrency window.     *)
IN_FLIGHT_STATUSES == {"QUEUED", "RUNNING"}

(* The outcomes that the retry ladder attempts again.                      *)
FAILED_STATUSES == {"FAILED", "ERROR", "TIMED_OUT"}

(* Everything stop, abandon and the sweeps consider unfinished.            *)
UNFINISHED_STATUSES == {"PENDING", "QUEUED", "RUNNING"}

(* A FeatureRun the services still act on.                                 *)
ACTIVE_FEATURE_RUN == {"RUNNING", "PAUSED"}
==============================================================================
