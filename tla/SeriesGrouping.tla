----------------------------- MODULE SeriesGrouping -----------------------------
(***************************************************************************)
(* What "metrics compile" hands to the compiler kernel                     *)
(* (BuildAnalyzeRequest in src/internal/compiler/compiler.go) and how the  *)
(* kernel reads it (normalize_series and aggregate_group_series in         *)
(* src/compiler-rs/crates/compiler-core): series that can be compared are  *)
(* sent as groups, cut down to the times they share; otherwise each is     *)
(* sent as a line of its own.                                              *)
(*                                                                         *)
(* An answer is a sequence of series                                       *)
(*   [name, labels, points]                                                *)
(* where points is a sequence of samples [ts, value, kind]; the kind tells *)
(* how the text of the sample reads: "number", "nan" (NaN and the          *)
(* infinities, which ParseFloat takes) or "text".  Metric names and label  *)
(* values are numbers, 0 for blank.  A query is                            *)
(*   [metric, expr, filtered, interest]                                    *)
(* with the caller's MetricID, the name found in the expression, and       *)
(* LabelsOfInterest, if there are any.                                     *)
(***************************************************************************)
EXTENDS Integers, Sequences, FiniteSets, SequencesExt

CONSTANT Keys   \* the label keys, __name__ excepted

\* The identity of a series made of labels alone; see Rendered.
NoLabels == [k \in Keys |-> 0]

-------------------------------------------------------------------------------
(***************************************************************************)
(* The adapter: compiler.go.                                               *)
(***************************************************************************)

\* convertSeries: samples that do not parse are left out.  What is kept of a
\* series, here and below, is the set of the places of its samples.
Parses(p) == p.kind # "text"
Converted(s) == {n \in DOMAIN s.points : Parses(s.points[n])}

\* The series that have samples left, by their places in the answer.
Drafts(a) == {i \in DOMAIN a : Converted(a[i]) # {}}

\* The metric of a draft; series_%d is written as a negative number.
MetricID(q, a, i) ==
  IF q.metric # 0 THEN q.metric
  ELSE IF a[i].name # 0 THEN a[i].name
  ELSE IF q.expr # 0 THEN q.expr
  ELSE -i

\* filterLabels.
Labels(q, s) ==
  [k \in Keys |-> IF q.filtered /\ k \notin q.interest THEN 0 ELSE s.labels[k]]

\* The drafts of one metric.  They share the group id, so that the buckets of
\* finalizeSeries and of autoGroupSeries are the same.
Bucket(q, a, i) == {j \in Drafts(a) : MetricID(q, a, j) = MetricID(q, a, i)}
Buckets(q, a) == {Bucket(q, a, i) : i \in Drafts(a)}

\* commonLabels; a single series has none in common with others.
CommonLabels(q, a, B) ==
  [k \in Keys |->
     LET values == {Labels(q, a[i])[k] : i \in B}
     IN IF Cardinality(B) > 1 /\ Cardinality(values) = 1
        THEN CHOOSE v \in values : TRUE ELSE 0]

\* renderIdentity, as a set of pairs: the key of a single label is not written.
Rendered(labels) ==
  LET present == {k \in Keys : labels[k] # 0}
  IN IF Cardinality(present) = 1 THEN {<<"", labels[k]>> : k \in present}
     ELSE {<<k, labels[k]>> : k \in present}

\* The entity id of draft i: what tells it from the others of its bucket, else
\* all its labels, else its number within the bucket.
EntityID(q, a, i) ==
  LET B == Bucket(q, a, i)
      common == CommonLabels(q, a, B)
      own == Labels(q, a[i])
      rest == [k \in Keys |-> IF common[k] = own[k] THEN 0 ELSE own[k]]
  IN IF rest # NoLabels THEN Rendered(rest)
     ELSE IF own # NoLabels THEN Rendered(own)
     ELSE {<<"#", Cardinality({j \in B : j < i})>>}

\* The times of the samples kept, and them in order.
Timestamps(s, kept) == {s.points[n].ts : n \in kept}
LessThan(s, t) == s < t
Ordered(times) == SetToSortSeq(times, LessThan)

\* intersectTimestamps: how many members in a row, from the first on, have a time.
\* They are counted in their order, and a time that one of them lacks falls behind
\* for good.
TimesOf(a, i) == Timestamps(a[i], Converted(a[i]))
Counts(a, B) ==
  LET times == UNION {TimesOf(a, i) : i \in B}
      idx(n) == Cardinality({j \in B : j < n})
      counts[n \in 0 .. Len(a)] ==
        IF n = 0 THEN [t \in times |-> 0]
        ELSE IF n \notin B THEN counts[n - 1]
        ELSE [t \in times |-> IF t \in TimesOf(a, n) /\ counts[n - 1][t] = idx(n)
                               THEN counts[n - 1][t] + 1 ELSE counts[n - 1][t]]
  IN counts[Len(a)]
CommonTimestamps(a, B) ==
  {t \in UNION {TimesOf(a, i) : i \in B} : Counts(a, B)[t] = Cardinality(B)}

\* Two thirds of the shortest member, at least.
Length(s) == Cardinality(Converted(s))
Enough(s, common) == Cardinality(common) * 3 >= Length(s) * 2

\* Mutant: the first member is taken for the shortest.
EnoughInCommonOfFirst(a, B, common) ==
  \A i \in B : (\A j \in B : i <= j) => Enough(a[i], common)

EnoughInCommon(a, B, common) ==
  \E i \in B : Enough(a[i], common) /\ \A j \in B : Length(a[i]) <= Length(a[j])

\* buildComparableGroup.
Comparable(q, a, B) ==
  LET common == CommonTimestamps(a, B)
  IN /\ Cardinality(B) >= 2
     /\ \A i, j \in B : i # j => EntityID(q, a, i) # EntityID(q, a, j)
     /\ \A i \in B : Length(a[i]) >= 3
     /\ Cardinality(common) >= 3
     /\ EnoughInCommon(a, B, common)
     /\ \A i \in B : common \subseteq TimesOf(a, i)

\* The last sample of a time.
LastAt(s, kept, t) ==
  CHOOSE n \in kept : /\ s.points[n].ts = t
                      /\ \A m \in kept : s.points[m].ts = t => m <= n

\* Mutants: a member keeps what it has from the first common time on; of
\* several samples of a time the first is kept.
TrimmedToStart(s, common) ==
  {n \in Converted(s) : \E t \in common : t <= s.points[n].ts}
TrimmedToFirst(s, common) ==
  {n \in Converted(s) :
     /\ s.points[n].ts \in common
     /\ \A m \in Converted(s) : s.points[m].ts = s.points[n].ts => n <= m}

\* trimMembersToTimestamps.
Trimmed(s, common) == {LastAt(s, Converted(s), t) : t \in common}

\* Mutant: what is not comparable is left out of the groups.
GroupsOfSome(q, a) ==
  LET comparable == {B \in Buckets(q, a) : Comparable(q, a, B)}
  IN IF Cardinality(Drafts(a)) < 2 THEN {} ELSE comparable

\* autoGroupSeries: all of the drafts are grouped, or none.
Groups(q, a) ==
  IF Cardinality(Drafts(a)) < 2 \/ \E B \in Buckets(q, a) : ~Comparable(q, a, B)
  THEN {} ELSE Buckets(q, a)

\* BuildAnalyzeRequest, of an answer with drafts: the scope, the subjects to be
\* analysed and the samples that are sent of each series.
LineRequest(a) ==
  [scope |-> "line", subjects |-> {{i} : i \in Drafts(a)},
   sent |-> [i \in Drafts(a) |-> Converted(a[i])]]
GroupRequest(q, a) ==
  [scope |-> "group", subjects |-> Groups(q, a),
   sent |-> [i \in Drafts(a) |-> Trimmed(a[i], CommonTimestamps(a, Bucket(q, a, i)))]]
Request(q, a) == IF Groups(q, a) = {} THEN LineRequest(a) ELSE GroupRequest(q, a)

-------------------------------------------------------------------------------
(***************************************************************************)
(* The kernel: normalize.rs and the skeleton of analyze.rs, for the series *)
(* a[i] of which sent[i] was sent.  All of these samples are numbers, as   *)
(* JSON has no others.                                                     *)
(***************************************************************************)

\* normalize_series before its last check: sorted by time, the last of several
\* samples of a time; a function of the time.
Normalized(s, sent) ==
  [t \in Timestamps(s, sent) |-> s.points[LastAt(s, sent, t)].value]

\* A series with fewer than three times is not analysed.
Analysed(s, sent) == Cardinality(Timestamps(s, sent)) >= 3
Members(a, sent, B) == {i \in B : Analysed(a[i], sent[i])}

\* aggregate_group_series: the n-th samples of all members are averaged, and the
\* time is the first member's.
NthTime(s, sent, n) == Ordered(Timestamps(s, sent))[n]
Indices(a, sent, B) ==
  {n \in UNION {1 .. Cardinality(sent[i]) : i \in B} :
     \A i \in Members(a, sent, B) : n <= Cardinality(Timestamps(a[i], sent[i]))}
FirstMember(a, sent, B) ==
  {i \in Members(a, sent, B) : \A j \in Members(a, sent, B) : i <= j}
Averaged(a, sent, B, n) ==
  {[ts |-> NthTime(a[i], sent[i], n),
    value |-> Normalized(a[i], sent[i])[NthTime(a[i], sent[i], n)]] :
     i \in Members(a, sent, B)}

\* analyze_lines, analyze_groups: the subjects that have an output.
Outputs(req, a) == {B \in req.subjects : Members(a, req.sent, B) # {}}
===============================================================================
