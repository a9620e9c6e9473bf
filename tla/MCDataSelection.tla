---------------------------- MODULE MCDataSelection ----------------------------
(***************************************************************************)
(* Instances of DataSelection for TLC: ten milliseconds make a second, the *)
(* commands run at second 6 or 8, the default range is the last three      *)
(* seconds, so that the bundle that leads in it changes.                   *)
(***************************************************************************)
EXTENDS DataSelection

B(start, end, log, slow) == [start |-> start, end |-> end, log |-> log, slow |-> slow]

\* Bundles before, across and after the ranges, one without a start, one
\* without an end; with no log, a log and a slow log.
MCBundles ==
  {B(1, 3, TRUE, TRUE), B(2, 5, TRUE, FALSE), B(2, 5, FALSE, FALSE),
   B(5, 6, TRUE, FALSE), B(0, 6, TRUE, TRUE), B(4, 0, TRUE, FALSE)}

\* Unset, seconds, and the same in milliseconds.
MCTimes == {0, 2, 4, 40}
===============================================================================
