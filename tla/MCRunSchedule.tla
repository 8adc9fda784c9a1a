--------------------------- MODULE MCRunSchedule ----------------------------
(***************************************************************************)
(* Small instances of RunSchedule for TLC.                                 *)
(***************************************************************************)
EXTENDS RunSchedule, TLC

CONSTANTS each, second   \* expressions that match every time, and the even times
CONSTANTS f1, f2         \* targets

MCNextFire == [c \in {each, second} |->
                 [t \in Times |-> IF c = each THEN t + 1 ELSE 2 * (t \div 2) + 2]]

MCCreates == {[cron |-> each, enabled |-> "on", target |-> f1]}

Patch(c, b, t) == [cron |-> c, enabled |-> b, target |-> t]
\* One edit that moves the schedule, one that only switches it off.
MCPatches == {Patch(second, "keep", f2), Patch("keep", "off", "keep")}
=============================================================================
