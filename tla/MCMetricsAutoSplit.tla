-------------------------- MODULE MCMetricsAutoSplit --------------------------
(***************************************************************************)
(* Values for model checking MetricsAutoSplit: durations in half seconds,  *)
(* steps from half a second to the whole range, zero, negative and         *)
(* unparseable ones, and ranges of a single second and of none.            *)
(***************************************************************************)
EXTENDS MetricsAutoSplit

MCRequests ==
  [start : {1}, end : {1, 2, 4, 6, 8, 9, 12}, step : {2, 3, 4, 5, 10}, parsed : {TRUE}] \cup
  [start : {1}, end : {1, 2, 4, 5}, step : {1}, parsed : {TRUE}] \cup
  [start : {0, 3}, end : {2, 6}, step : {-2, 0, 4}, parsed : BOOLEAN]
===============================================================================
