---------------------------- MODULE MCKernelEvents ----------------------------
(***************************************************************************)
(* Instances of KernelEvents for TLC: series of twelve samples with up to  *)
(* four findings, so that one is cut off, some of them with equal scores,  *)
(* so that ties come up, and one with a tail that is too short.            *)
(***************************************************************************)
EXTENDS KernelEvents

D(kind, score, at, dwell, peaks) ==
  [kind |-> kind, score |-> score, at |-> at, dwell |-> dwell, peaks |-> peaks]
F(found, cuts) == [found |-> found, cuts |-> cuts]

High(s, at) == D("sustained_high", s, at, 1, {})
Low(s) == D("sustained_low", s, 8, 1, {})
Trend(s) == D("increasing_trend", s, 0, 1, {})
Shift(s) == D("regime_shift", s, 0, 1, {})
Spike(s, at, dwell) == D("spike", s, at, dwell, {2})
Drop(s, dwell) == D("drop", s, 1, dwell, {})
Waves(s) == D("oscillation", s, 0, 1, {})

MCFindings ==
  {F({}, {}),
   F({High(8, 4)}, {4}),
   F({High(7, 4), Shift(7), Spike(7, 10, 6), Trend(7)}, {4}),
   F({Low(8), Spike(9, 10, 1), Waves(9)}, {}),
   F({Trend(7), Drop(7, 5)}, {}),
   F({Drop(6, 1), High(7, 10)}, {}),
   F({Shift(20), Trend(4), Waves(20)}, {4, 8}),
   F({High(7, 8), Drop(10, 1), Shift(10), Waves(10)}, {8})}
===============================================================================
