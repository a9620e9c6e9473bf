------------------------------ MODULE KernelEvents ------------------------------
(***************************************************************************)
(* How the compiler kernel makes an analysis of what it finds in a series  *)
(* or a group (analyze_line_working, analyze_group_working in              *)
(* src/compiler-rs/crates/compiler-core/src/analyze.rs), and what the      *)
(* payload and the digest say of its time (payload.rs,                     *)
(* src/internal/compiler/compiler.go).                                     *)
(*                                                                         *)
(* The statistics are left out: a finding is what they may find in a       *)
(* series, with any score.  From there on everything is modelled: where an *)
(* event lies, the three that are kept, the merging of the members' events *)
(* by kind in the order of a hash map, the events of the average, the      *)
(* state and the period.  Times are the places of the samples, from 0.     *)
(***************************************************************************)
EXTENDS Integers, Sequences, FiniteSets, FiniteSetsExt

CONSTANTS
  Points,       \* samples of each series
  Spacing,      \* seconds from one sample to the next
  Findings,     \* what may be found in a series: [found, cuts]
  PeerScores,   \* scores of an imbalance
  MaxMembers    \* bound: members of a group

Sustained == {"sustained_high", "sustained_low"}
Trends == {"increasing_trend", "decreasing_trend"}
LineKinds == Sustained \cup Trends \cup {"spike", "drop", "regime_shift", "oscillation"}
Kinds == LineKinds \cup {"peer_imbalance"}

\* A raw detection: where a tail begins or a peak is, how long the peak lasts,
\* and the peaks besides it.
Place == 0 .. Points - 1
Inner == 1 .. Points - 2
Raw == [kind : LineKinds, score : Nat, at : Place, dwell : 1 .. Points, peaks : SUBSET Inner]

\* The least a score of each kind can be, in whole points.
Floor ==
  [sustained_high |-> 7, sustained_low |-> 7, spike |-> 6, drop |-> 6,
   regime_shift |-> 7, oscillation |-> 5, increasing_trend |-> 3,
   decreasing_trend |-> 3, peer_imbalance |-> 8]

ASSUME PointsAssumption == Points \in Nat /\ Points >= 3 /\ Spacing \in Nat \ {0}
ASSUME MaxMembersAssumption == MaxMembers \in Nat
ASSUME PeerScoresAssumption ==
  PeerScores \subseteq Nat /\ \A s \in PeerScores : s >= Floor["peer_imbalance"]
\* detect_line_events looks for each kind once, and a series ends high or low.
ASSUME FindingsAssumption ==
  /\ Findings \subseteq [found : SUBSET Raw, cuts : SUBSET (1 .. Points - 1)]
  /\ \A f \in Findings : /\ IsFiniteSet(f.found)
                         /\ \A d \in f.found : d.score >= Floor[d.kind]
                         /\ \A d, e \in f.found : d.kind = e.kind => d = e
                         /\ Cardinality({d \in f.found : d.kind \in Sustained}) <= 1
                         /\ Cardinality({d \in f.found : d.kind \in Trends}) <= 1

Event == [kind : Kinds, score : Nat, start : Int, end : Int, points : SUBSET Int]

States == {"stable", "elevated", "depressed", "volatile"}

VARIABLES
  lines,      \* what is found in the series, one (a line) or several (a group)
  whole,      \* what is found in the average of a group
  pc,         \* the step under way
  tops,       \* the top events of the lines analysed so far
  events,     \* the events of the group so far
  seen,       \* the kinds of the average's events merged so far
  analysis,   \* [state, top]
  period,     \* the problem period of the payload
  range       \* the problem range of the digest, {} for none

vars == <<lines, whole, pc, tops, events, seen, analysis, period, range>>

Group == Len(lines) > 1
Interval == [start : Int, end : Int]

TypeOK ==
  /\ lines \in Seq(Findings) /\ Len(lines) \in 1 .. MaxMembers
  /\ whole \in Findings
  /\ pc \in {"lines", "by_kind", "average", "peer", "cut", "project", "done"}
  /\ tops \in Seq(Seq(Event)) /\ Len(tops) <= Len(lines)
  /\ events \subseteq Event
  /\ seen \subseteq LineKinds
  /\ analysis.state \in States /\ analysis.top \in Seq(Event)
  /\ period \in Interval
  /\ range \subseteq Interval

Init ==
  /\ lines \in UNION {[1 .. n -> Findings] : n \in 1 .. MaxMembers}
  /\ whole \in Findings
  /\ pc = "lines"
  /\ tops = <<>>
  /\ events = {}
  /\ seen = {}
  /\ analysis = [state |-> "stable", top |-> <<>>]
  /\ period = [start |-> 0, end |-> 0]
  /\ range = {}

-------------------------------------------------------------------------------
(***************************************************************************)
(* The events of a series.                                                 *)
(***************************************************************************)

\* derive_minimum_segment_length: a quarter of the time in seconds, in samples
\* rounded up, four at least.
MinSegment ==
  LET target == Max({((Points - 1) * Spacing) \div 4, 4 * Spacing})
  IN Min({(target + Spacing - 1) \div Spacing, Max({Points \div 2, 3})})

\* segment_series, build_regimes: the first place of each regime.  A short series
\* is not segmented.
RegimeStarts(cuts) == {0} \cup IF Points < 5 \/ Points < 2 * MinSegment THEN {} ELSE cuts

\* detect_line_events: what must hold besides the statistics.
Pushed(d, cuts) ==
  /\ d.kind \in Sustained =>
       Points - d.at >= (IF Points > 4 THEN Points ELSE 4) \div 4
  /\ d.kind \in {"spike", "drop"} => d.at \in Inner
  /\ d.kind = "regime_shift" => Cardinality(RegimeStarts(cuts)) >= 2
  /\ d.kind = "oscillation" => Points >= 5

\* Mutant: the window of a peak is not cut at the end of the series.
WindowUncut(d, cuts) ==
  IF d.kind \in {"spike", "drop"}
  THEN [start |-> IF d.at > d.dwell \div 2 THEN d.at - d.dwell \div 2 ELSE 0,
        end |-> d.at + d.dwell \div 2]
  ELSE [start |-> IF d.kind \in Sustained THEN d.at
                  ELSE IF d.kind = "regime_shift" THEN Min(RegimeStarts(cuts) \ {0})
                  ELSE 0,
        end |-> Points - 1]

\* From where to where an event lasts: a peak half its length to both sides, all
\* others to the end.
Window(d, cuts) ==
  IF d.kind \in {"spike", "drop"}
  THEN [start |-> IF d.at > d.dwell \div 2 THEN d.at - d.dwell \div 2 ELSE 0,
        end |-> IF d.at + d.dwell \div 2 < Points THEN d.at + d.dwell \div 2
                ELSE Points - 1]
  ELSE [start |-> IF d.kind \in Sustained THEN d.at
                  ELSE IF d.kind = "regime_shift" THEN Min(RegimeStarts(cuts) \ {0})
                  ELSE 0,
        end |-> Points - 1]

EventOf(d, cuts) ==
  [kind |-> d.kind, score |-> d.score,
   start |-> Window(d, cuts).start, end |-> Window(d, cuts).end,
   points |-> IF d.kind = "spike" THEN d.peaks \cup {d.at} ELSE {}]

Detected(f) == {EventOf(d, f.cuts) : d \in {e \in f.found : Pushed(e, f.cuts)}}

\* EventKind::priority.
Priority ==
  [sustained_high |-> 0, sustained_low |-> 1, spike |-> 2, drop |-> 3,
   regime_shift |-> 4, oscillation |-> 5, increasing_trend |-> 6,
   decreasing_trend |-> 7, peer_imbalance |-> 8]

\* Mutant: events of equal score are left as they come.
BeforeByScore(e, f) == e.score > f.score

\* sort_events; its third key, the start, is not reached as kinds differ.
Before(e, f) ==
  \/ e.score > f.score
  \/ e.score = f.score /\ Priority[e.kind] < Priority[f.kind]

\* The first three after a stable sort of a hash map's values: events that sort
\* alike come in any order.
Tops(S) ==
  LET n == IF Cardinality(S) < 3 THEN Cardinality(S) ELSE 3
  IN {q \in [1 .. n -> S] :
        /\ \A i, j \in 1 .. n : i < j => q[i] # q[j] /\ ~Before(q[j], q[i])
        /\ \A e \in S : \A i \in 1 .. n :
             (\A j \in 1 .. n : q[j] # e) => ~Before(e, q[i])}

KindsOf(S) == {e.kind : e \in S}

\* derive_state.
StateOf(S) ==
  IF "sustained_high" \in KindsOf(S) THEN "elevated"
  ELSE IF "sustained_low" \in KindsOf(S) THEN "depressed"
  ELSE IF "oscillation" \in KindsOf(S) THEN "volatile"
  ELSE "stable"

\* analyze_line_working, of the next series.  The state of a line comes from all
\* its events, shown or not.
AnalyzeLine ==
  /\ pc = "lines"
  /\ LET found == Detected(lines[Len(tops) + 1])
     IN \E top \in Tops(found) :
          /\ tops' = Append(tops, top)
          /\ analysis' = IF Group THEN analysis
                         ELSE [state |-> StateOf(found), top |-> top]
  /\ pc' = IF Len(tops') < Len(lines) THEN "lines"
           ELSE IF Group THEN "by_kind" ELSE "project"
  /\ UNCHANGED <<lines, whole, events, seen, period, range>>

-------------------------------------------------------------------------------
(***************************************************************************)
(* The events of a group.                                                  *)
(***************************************************************************)

RangeOf(q) == {q[i] : i \in 1 .. Len(q)}

\* The members' events of a kind, one of a member at most.
Own(k) == {i \in 1 .. Len(tops) : k \in KindsOf(RangeOf(tops[i]))}
OwnEvent(i, k) == CHOOSE e \in RangeOf(tops[i]) : e.kind = k

\* Scores of a group in parts of 1/(20 n), which keeps them whole: 2.5 times the
\* share of members, and 0.35 of the average's score, are added.
Unit == 20 * Len(lines)

\* Mutant: the last member's score is taken for the highest.
MergedScoreOfLast(k) ==
  Unit * OwnEvent(Max(Own(k)), k).score + 50 * Cardinality(Own(k))

MergedScore(k) ==
  Unit * Max({OwnEvent(i, k).score : i \in Own(k)}) + 50 * Cardinality(Own(k))

\* A single moment counts as a time point.
Moments(e) == IF e.points = {} /\ e.start = e.end THEN {e.start} ELSE e.points

Merged(k) ==
  LET own == {OwnEvent(i, k) : i \in Own(k)}
  IN [kind |-> k, score |-> MergedScore(k),
      start |-> Min({e.start : e \in own}), end |-> Max({e.end : e \in own}),
      points |-> UNION {Moments(e) : e \in own}]

\* One turn of the loop over by_kind, in the order of the map.
MergeKind(k) ==
  /\ pc = "by_kind"
  /\ Own(k) # {}
  /\ k \notin KindsOf(events)
  /\ events' = events \cup {Merged(k)}
  /\ UNCHANGED <<lines, whole, pc, tops, seen, analysis, period, range>>

KindsMerged ==
  /\ pc = "by_kind"
  /\ \A k \in LineKinds : Own(k) # {} => k \in KindsOf(events)
  /\ pc' = "average"
  /\ UNCHANGED <<lines, whole, tops, events, seen, analysis, period, range>>

\* An event of the average supports the members' event f of its kind, or is one
\* of its own.
Supported(f, e) ==
  [f EXCEPT !.score = @ + 7 * Len(lines) * e.score, !.points = @ \cup e.points]
Alone(e) == [e EXCEPT !.score = Unit * @]

MergeAverage(e) ==
  /\ pc = "average"
  /\ e.kind \notin seen
  /\ seen' = seen \cup {e.kind}
  /\ events' =
       IF e.kind \in KindsOf(events)
       THEN {IF f.kind = e.kind THEN Supported(f, e) ELSE f : f \in events}
       ELSE events \cup {Alone(e)}
  /\ UNCHANGED <<lines, whole, pc, tops, analysis, period, range>>

AverageMerged ==
  /\ pc = "average"
  /\ KindsOf(Detected(whole)) \subseteq seen
  /\ pc' = "peer"
  /\ UNCHANGED <<lines, whole, tops, events, seen, analysis, period, range>>

\* is_stable_member, by the events that are shown.
Stable(top) == KindsOf(RangeOf(top)) \subseteq Sustained

\* detect_group_peer_imbalance: two thirds of the members are stable, and their
\* levels differ.
Imbalance ==
  /\ pc = "peer"
  /\ Cardinality({i \in 1 .. Len(tops) : Stable(tops[i])}) * 3 >= Len(tops) * 2
  /\ \E s \in PeerScores :
       events' = events \cup {[kind |-> "peer_imbalance", score |-> Unit * s,
                               start |-> 0, end |-> Points - 1, points |-> {}]}
  /\ pc' = "cut"
  /\ UNCHANGED <<lines, whole, tops, seen, analysis, period, range>>

Balance ==
  /\ pc = "peer"
  /\ pc' = "cut"
  /\ UNCHANGED <<lines, whole, tops, events, seen, analysis, period, range>>

\* The state of a group comes from the events that are shown.
Cut ==
  /\ pc = "cut"
  /\ \E top \in Tops(events) :
       analysis' = [state |-> StateOf(RangeOf(top)), top |-> top]
  /\ pc' = "project"
  /\ UNCHANGED <<lines, whole, tops, events, seen, period, range>>

-------------------------------------------------------------------------------
(***************************************************************************)
(* The times that are told.                                                *)
(***************************************************************************)

Hull(S) == [start |-> Min({e.start : e \in S}), end |-> Max({e.end : e \in S})]

\* infer_problem_range_bounds, for the text of the payload.
Period(top) ==
  LET focused == {e \in RangeOf(top) : e.start < e.end /\ e.kind \notin Trends}
  IN IF focused # {} THEN Hull(focused)
     ELSE IF top # <<>> THEN Hull({top[1]})
     ELSE [start |-> 0, end |-> Points - 1]

\* Mutant: the end is that of the last event.
ProblemRangeOfLast(top) ==
  IF top = <<>> THEN {}
  ELSE {[start |-> Hull(RangeOf(top)).start, end |-> top[Len(top)].end]}

\* inferProblemRange, for the digest.
ProblemRange(top) == IF top = <<>> THEN {} ELSE {Hull(RangeOf(top))}

Project ==
  /\ pc = "project"
  /\ period' = Period(analysis.top)
  /\ range' = ProblemRange(analysis.top)
  /\ pc' = "done"
  /\ UNCHANGED <<lines, whole, tops, events, seen, analysis>>

Done ==
  /\ pc = "done"
  /\ UNCHANGED vars

Next ==
  \/ AnalyzeLine
  \/ \E k \in LineKinds : MergeKind(k)
  \/ KindsMerged
  \/ \E e \in Detected(whole) : MergeAverage(e)
  \/ AverageMerged
  \/ Imbalance
  \/ Balance
  \/ Cut
  \/ Project
  \/ Done

Spec == Init /\ [][Next]_vars

-------------------------------------------------------------------------------
(***************************************************************************)
(* Properties.                                                             *)
(***************************************************************************)

\* The three first of a set of events of different kinds, whatever map they were
\* kept in.
Key(e) == 10 * e.score - Priority[e.kind]
Ranked(S) ==
  [n \in 1 .. (IF Cardinality(S) < 3 THEN Cardinality(S) ELSE 3) |->
     CHOOSE e \in S : Cardinality({f \in S : Key(f) > Key(e)}) = n - 1]

\* The events of a group by their definition: of each kind that a member shows or
\* the average has, in no order.
Total(k) ==
  LET average == {e \in Detected(whole) : e.kind = k}
  IN IF Own(k) = {} THEN {Alone(e) : e \in average}
     ELSE IF average = {} THEN {Merged(k)}
     ELSE {Supported(Merged(k), e) : e \in average}

\* The analysis is a function of what was found: the order of the kernel's hash
\* maps, which differs from call to call, shows nowhere.
HashOrderIsInvisible ==
  pc = "project" =>
    /\ \A i \in 1 .. Len(lines) : tops[i] = Ranked(Detected(lines[i]))
    /\ Group =>
         /\ {e \in events : e.kind # "peer_imbalance"} = UNION {Total(k) : k \in LineKinds}
         /\ analysis.top = Ranked(events)

\* What comes first in every member and in their average comes first in the
\* group too, except for what no member shows: an imbalance, or a kind of the
\* average alone (the group keeps the ranking of its members, which the test
\* group_analysis_aggregates_member_events of analyze.rs expects).
Leads(k, top) == top # <<>> /\ top[1].kind = k
UnanimityIsKept ==
  pc = "project" /\ Group =>
    \A k \in LineKinds :
      /\ \A i \in 1 .. Len(tops) : Leads(k, tops[i])
      /\ Detected(whole) = {} \/ Leads(k, Ranked(Detected(whole)))
      => Leads(k, analysis.top) \/ Own(analysis.top[1].kind) = {}

\* No event, of a line or merged, lies or lasts beyond the samples: an index
\* beyond them stops the kernel with a panic.
InSamples(e) ==
  /\ 0 <= e.start /\ e.start <= e.end /\ e.end < Points
  /\ e.points \subseteq Place
EventsInWindow ==
  /\ \A e \in events : InSamples(e)
  /\ \A i \in 1 .. Len(tops) : \A e \in RangeOf(tops[i]) : InSamples(e)

\* The period that the text of a digest names lies in the digest's range, which
\* two programs infer from the same events by different rules.
PeriodsAgree ==
  pc = "done" =>
    /\ period.start <= period.end
    /\ \A r \in range : r.start <= period.start /\ period.end <= r.end
===============================================================================
