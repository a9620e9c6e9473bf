-------------------------- MODULE MetricsCompileProofs --------------------------
(***************************************************************************)
(* Theorems about MetricsCompile, for every set of series and queries and  *)
(* every length of an answer.                                              *)
(***************************************************************************)
EXTENDS MetricsCompile, TLAPS, FiniteSetTheorems, WellFoundedInduction

-------------------------------------------------------------------------------
(***************************************************************************)
(* The samples of a series.                                                *)
(***************************************************************************)

\* A set of places that is not empty has a last one.
LEMMA LastPlace ==
  ASSUME NEW len \in Nat, NEW P \in SUBSET (1 .. len), P # {}
  PROVE  \E n \in P : \A m \in P : m <= n
<1> DEFINE R == OpToRel(<, Nat)
           T == {len - n : n \in P}
<1>1. IsWellFoundedOn(R, Nat)
  BY NatLessThanWellFounded
<1>2. T \subseteq Nat /\ T # {}
  <2>1. \A n \in P : len - n \in Nat
    OBVIOUS
  <2> QED BY <2>1
<1>3. PICK x \in T : \A y \in T : ~(<<y, x>> \in R)
  <2> HIDE DEF R, T
  <2> QED BY <1>1, <1>2, WFMin
<1>4. PICK n \in P : x = len - n
  OBVIOUS
<1>5. ASSUME NEW m \in P PROVE m <= n
  <2>1. ~(len - m < len - n)
    BY <1>2, <1>3, <1>4 DEF OpToRel
  <2> QED BY <2>1
<1> QED BY <1>5

\* The last sample of a time, if there is any.
LEMMA LastAtExists ==
  ASSUME NEW s \in Series, NEW kept \in SUBSET DOMAIN s.points,
         NEW t \in Timestamps(s, kept)
  PROVE  /\ LastAt(s, kept, t) \in kept
         /\ s.points[LastAt(s, kept, t)].ts = t
         /\ \A m \in kept : s.points[m].ts = t => m <= LastAt(s, kept, t)
<1> DEFINE P == {n \in kept : s.points[n].ts = t}
<1>1. s.points \in Seq(Sample)
  BY SeriesAssumption
<1>2. Len(s.points) \in Nat /\ P \in SUBSET (1 .. Len(s.points)) /\ P # {}
  BY <1>1 DEF Timestamps
<1>3. PICK n \in P : \A m \in P : m <= n
  <2> HIDE DEF P
  <2> QED BY <1>2, LastPlace
<1>4. \E k \in kept : /\ s.points[k].ts = t
                      /\ \A m \in kept : s.points[m].ts = t => m <= k
  BY <1>3
<1> QED BY <1>4 DEF LastAt

\* A member cut down to common times has these times and no others, and the
\* sample it keeps of a time is its last one.
LEMMA TrimmedTimes ==
  ASSUME NEW s \in Series, NEW common \in SUBSET Timestamps(s, Converted(s))
  PROVE  /\ Trimmed(s, common) \subseteq Converted(s)
         /\ Timestamps(s, Trimmed(s, common)) = common
         /\ \A t \in common :
              LastAt(s, Trimmed(s, common), t) = LastAt(s, Converted(s), t)
<1> DEFINE kept == Converted(s)
           last(t) == LastAt(s, kept, t)
           trimmed == {last(t) : t \in common}
<1>1. kept \in SUBSET DOMAIN s.points
  BY DEF Converted
<1>2. \A t \in common : last(t) \in kept /\ s.points[last(t)].ts = t
  <2> SUFFICES ASSUME NEW t \in common
               PROVE  last(t) \in kept /\ s.points[last(t)].ts = t
    OBVIOUS
  <2>1. t \in Timestamps(s, kept)
    OBVIOUS
  <2> HIDE DEF kept
  <2> QED BY <1>1, <2>1, LastAtExists
<1> HIDE DEF kept, last
<1>3. trimmed \subseteq kept /\ Timestamps(s, trimmed) = common
  BY <1>2 DEF Timestamps
<1>4. ASSUME NEW t \in common PROVE LastAt(s, trimmed, t) = last(t)
  <2> HIDE DEF trimmed
  <2>1. trimmed \in SUBSET DOMAIN s.points /\ t \in Timestamps(s, trimmed)
    BY <1>1, <1>3
  <2>2. LastAt(s, trimmed, t) \in trimmed /\ s.points[LastAt(s, trimmed, t)].ts = t
    BY <2>1, LastAtExists
  <2> QED BY <1>2, <2>2 DEF trimmed
<1>5. trimmed = Trimmed(s, common)
  BY DEF Trimmed, trimmed, last, kept
<1> HIDE DEF trimmed
<1> QED BY <1>3, <1>4, <1>5 DEF last, kept

-------------------------------------------------------------------------------
(***************************************************************************)
(* The request.                                                            *)
(***************************************************************************)

\* Either every draft is a line of its own or all of them are in groups.
LEMMA RequestCases ==
  ASSUME NEW q, NEW a
  PROVE  \/ Groups(q, a) = {} /\ Request(q, a) = LineRequest(a)
         \/ /\ Groups(q, a) = Buckets(q, a)
            /\ \A B \in Buckets(q, a) : Comparable(q, a, B)
            /\ Request(q, a) = GroupRequest(q, a)
  BY DEF Request, Groups

\* The buckets divide the drafts.
LEMMA BucketsPartition ==
  ASSUME NEW q, NEW a
  PROVE  /\ \A i \in Drafts(a) : i \in Bucket(q, a, i)
         /\ \A B \in Buckets(q, a) : \A i \in B : i \in Drafts(a) /\ B = Bucket(q, a, i)
  BY DEF Buckets, Bucket

\* What is sent of the members of a group: samples of the times they share,
\* three at least.
LEMMA SentOfMember ==
  ASSUME NEW q, NEW a \in Seq(Series), NEW B \in Buckets(q, a), Comparable(q, a, B),
         NEW i \in B
  PROVE  LET sent == GroupRequest(q, a).sent
             common == CommonTimestamps(a, B)
         IN /\ sent[i] = Trimmed(a[i], common)
            /\ common \in SUBSET Timestamps(a[i], Converted(a[i]))
            /\ Timestamps(a[i], sent[i]) = common
            /\ Cardinality(common) >= 3
<1>1. i \in Drafts(a) /\ B = Bucket(q, a, i)
  BY BucketsPartition
<1>2. a[i] \in Series
  BY <1>1 DEF Drafts
<1>3. GroupRequest(q, a).sent[i] = Trimmed(a[i], CommonTimestamps(a, B))
  BY <1>1 DEF GroupRequest
<1>4. /\ CommonTimestamps(a, B) \in SUBSET Timestamps(a[i], Converted(a[i]))
      /\ Cardinality(CommonTimestamps(a, B)) >= 3
  BY DEF Comparable, TimesOf
<1>5. Timestamps(a[i], Trimmed(a[i], CommonTimestamps(a, B))) = CommonTimestamps(a, B)
  BY <1>2, <1>4, TrimmedTimes
<1> QED BY <1>3, <1>4, <1>5

\* Places of samples and their times are finitely many.
LEMMA TimesAreFinite ==
  ASSUME NEW s \in Series, NEW kept \in SUBSET DOMAIN s.points
  PROVE  IsFiniteSet(kept) /\ IsFiniteSet(Timestamps(s, kept))
<1>1. s.points \in Seq(Sample)
  BY SeriesAssumption
<1>2. Len(s.points) \in Nat /\ DOMAIN s.points = 1 .. Len(s.points)
  BY <1>1
<1>3. IsFiniteSet(kept)
  <2>1. IsFiniteSet(1 .. Len(s.points))
    BY <1>2, FS_Interval
  <2> QED BY <1>2, <2>1, FS_Subset
<1>4. IsFiniteSet({s.points[n].ts : n \in kept})
  <2> DEFINE times == {s.points[n].ts : n \in kept}
             f == [n \in kept |-> s.points[n].ts]
  <2>1. f \in Surjection(kept, times)
    BY DEF Surjection
  <2> QED BY <1>3, <2>1, FS_Surjection
<1> QED BY <1>3, <1>4 DEF Timestamps

\* What a request asks to analyse are sets of places of the answer, and so is
\* what is analysed of it.
LEMMA RequestType ==
  ASSUME NEW q, NEW a \in Seq(Series), Len(a) <= MaxSeries
  PROVE  /\ Request(q, a).scope \in {"line", "group"}
         /\ Request(q, a).subjects \subseteq SUBSET (1 .. MaxSeries)
         /\ DOMAIN Request(q, a).sent = Drafts(a)
<1>1. Drafts(a) \subseteq 1 .. MaxSeries
  BY MaxSeriesAssumption DEF Drafts
<1>2. \A i \in Drafts(a) : {i} \subseteq 1 .. MaxSeries
  BY <1>1
<1>3. \A B \in Buckets(q, a) : B \subseteq 1 .. MaxSeries
  BY <1>1, BucketsPartition
<1>4. CASE Request(q, a) = LineRequest(a)
  BY <1>2, <1>4 DEF LineRequest
<1>5. CASE Groups(q, a) = Buckets(q, a) /\ Request(q, a) = GroupRequest(q, a)
  BY <1>3, <1>5 DEF GroupRequest
<1> QED BY <1>4, <1>5, RequestCases

-------------------------------------------------------------------------------
(***************************************************************************)
(* The inductive invariant.                                                *)
(***************************************************************************)

Open == {"alloc", "write", "call", "read_result", "read_error", "free", "close"}
Sending == {"instantiate"} \cup Open \cup {"decode"}
Answered == {"free", "close", "decode", "returned"}

RequestIsBuilt == pc = "marshal" \/ pc \in Sending => request = Request(query, answer)
SentIsEncodable == pc \in Sending => Encodable
OpenWhileUsed == runtime = "open" <=> pc \in Open
GuestHoldsAnalysis == pc = "read_result" => guest.result = AnalysisOf(request)
TextIsAnalysis ==
  /\ text \in {Nothing, AnalysisOf(request)}
  /\ pc \notin Answered => text = Nothing
  /\ pc \in {"free", "close", "decode"} /\ result # "error" => text = AnalysisOf(request)
  /\ result = "ok" => pc = "returned" /\ text = AnalysisOf(request)

IInv ==
  /\ TypeOK
  /\ RequestIsBuilt
  /\ SentIsEncodable
  /\ OpenWhileUsed
  /\ GuestHoldsAnalysis
  /\ TextIsAnalysis

LEMMA TextTypes ==
  /\ IsText(Nothing)
  /\ IsText(Message)
  /\ request.subjects \subseteq SUBSET (1 .. MaxSeries) => IsText(AnalysisOf(request))
  BY DEF IsText, Nothing, Message, AnalysisOf, Outputs

THEOREM InitEstablishes == Init => IInv
<1> SUFFICES ASSUME Init PROVE IInv
  OBVIOUS
<1>1. answer \in Seq(Series) /\ Len(answer) <= MaxSeries
  <2>1. PICK n \in 0 .. MaxSeries : answer \in [1 .. n -> Series]
    BY DEF Init
  <2>2. n \in Nat /\ n <= MaxSeries
    BY MaxSeriesAssumption
  <2>3. answer \in Seq(Series) /\ Len(answer) = n
    BY <2>1, <2>2
  <2> QED BY <2>2, <2>3
<1>2. TypeOK
  BY <1>1, TextTypes DEF Init, TypeOK, PCs, NoRequest
<1>3. RequestIsBuilt /\ SentIsEncodable /\ OpenWhileUsed /\ GuestHoldsAnalysis
  BY DEF Init, RequestIsBuilt, SentIsEncodable, OpenWhileUsed, GuestHoldsAnalysis, Sending, Open
<1>4. TextIsAnalysis
  BY DEF Init, TextIsAnalysis, Answered
<1> QED BY <1>2, <1>3, <1>4 DEF IInv

THEOREM StepPreserves == IInv /\ [Next]_vars => IInv'
<1> SUFFICES ASSUME IInv, [Next]_vars PROVE IInv'
  OBVIOUS
<1> USE DEF IInv
<1> DEFINE Facts == /\ RequestIsBuilt
                    /\ SentIsEncodable
                    /\ OpenWhileUsed
                    /\ GuestHoldsAnalysis
                    /\ TextIsAnalysis
<1>1. \* the texts a step may handle
      IsText(Nothing) /\ IsText(Message) /\ IsText(AnalysisOf(request))
  BY TextTypes DEF TypeOK
<1>2. CASE BuildFails
  <2>3. TypeOK'
    BY <1>2, <1>1 DEF BuildFails, arguments, TypeOK, PCs, GoTo, FailTo
  <2>4. Facts'
    BY <1>2 DEF BuildFails, arguments, GoTo, FailTo, AnalysisOf, Encodable, RequestIsBuilt,
       SentIsEncodable, OpenWhileUsed, GuestHoldsAnalysis, TextIsAnalysis, Sending,
       Open, Answered, Nothing
  <2> QED BY <2>3, <2>4
<1>3. CASE Build
  <2>1. request' = Request(query, answer) /\ UNCHANGED <<query, answer>>
    BY <1>3 DEF Build, arguments
  <2>2. /\ Request(query, answer).scope \in {"none", "line", "group"}
        /\ Request(query, answer).subjects \subseteq SUBSET (1 .. MaxSeries)
    BY RequestType DEF TypeOK
  <2>3. TypeOK'
    BY <1>3, <2>1, <2>2 DEF Build, arguments, TypeOK, PCs, GoTo
  <2>4. Facts'
    BY <1>3 DEF Build, arguments, GoTo, FailTo, AnalysisOf, Encodable, RequestIsBuilt,
       SentIsEncodable, OpenWhileUsed, GuestHoldsAnalysis, TextIsAnalysis, Sending,
       Open, Answered, Nothing
  <2> QED BY <2>3, <2>4
<1>4. CASE Marshal
  <2>3. TypeOK'
    BY <1>4, <1>1 DEF Marshal, arguments, TypeOK, PCs, GoTo, FailTo
  <2>4. Facts'
    BY <1>4 DEF Marshal, arguments, GoTo, FailTo, AnalysisOf, Encodable, RequestIsBuilt,
       SentIsEncodable, OpenWhileUsed, GuestHoldsAnalysis, TextIsAnalysis, Sending,
       Open, Answered, Nothing
  <2> QED BY <2>3, <2>4
<1>5. CASE Instantiate
  <2>3. TypeOK'
    BY <1>5, <1>1 DEF Instantiate, arguments, TypeOK, PCs, GoTo, FailTo
  <2>4. Facts'
    BY <1>5 DEF Instantiate, arguments, GoTo, FailTo, AnalysisOf, Encodable, RequestIsBuilt,
       SentIsEncodable, OpenWhileUsed, GuestHoldsAnalysis, TextIsAnalysis, Sending,
       Open, Answered, Nothing
  <2> QED BY <2>3, <2>4
<1>6. CASE Alloc
  <2>3. TypeOK'
    BY <1>6, <1>1 DEF Alloc, arguments, TypeOK, PCs, GoTo, FailTo
  <2>4. Facts'
    BY <1>6 DEF Alloc, arguments, GoTo, FailTo, AnalysisOf, Encodable, RequestIsBuilt,
       SentIsEncodable, OpenWhileUsed, GuestHoldsAnalysis, TextIsAnalysis, Sending,
       Open, Answered, Nothing
  <2> QED BY <2>3, <2>4
<1>7. CASE Write
  <2>3. TypeOK'
    BY <1>7, <1>1 DEF Write, arguments, TypeOK, PCs, GoTo, FailTo
  <2>4. Facts'
    BY <1>7 DEF Write, arguments, GoTo, FailTo, AnalysisOf, Encodable, RequestIsBuilt,
       SentIsEncodable, OpenWhileUsed, GuestHoldsAnalysis, TextIsAnalysis, Sending,
       Open, Answered, Nothing
  <2> QED BY <2>3, <2>4
<1>8. CASE Call
  <2>3. TypeOK'
    BY <1>8, <1>1 DEF Call, arguments, TypeOK, PCs, GoTo, FailTo
  <2>4. Facts'
    BY <1>8 DEF Call, arguments, GoTo, FailTo, AnalysisOf, Encodable, RequestIsBuilt,
       SentIsEncodable, OpenWhileUsed, GuestHoldsAnalysis, TextIsAnalysis, Sending,
       Open, Answered, Nothing
  <2> QED BY <2>3, <2>4
<1>9. CASE ReadResult
  <2>3. TypeOK'
    BY <1>9, <1>1 DEF ReadResult, arguments, TypeOK, PCs, GoTo, FailTo
  <2>4. Facts'
    BY <1>9 DEF ReadResult, arguments, GoTo, FailTo, AnalysisOf, Encodable, RequestIsBuilt,
       SentIsEncodable, OpenWhileUsed, GuestHoldsAnalysis, TextIsAnalysis, Sending,
       Open, Answered, Nothing
  <2> QED BY <2>3, <2>4
<1>10. CASE ReadError
  <2>3. TypeOK'
    BY <1>10, <1>1 DEF ReadError, arguments, TypeOK, PCs, GoTo, FailTo
  <2>4. Facts'
    BY <1>10 DEF ReadError, arguments, GoTo, FailTo, AnalysisOf, Encodable, RequestIsBuilt,
       SentIsEncodable, OpenWhileUsed, GuestHoldsAnalysis, TextIsAnalysis, Sending,
       Open, Answered, Nothing
  <2> QED BY <2>3, <2>4
<1>11. CASE Free
  <2>3. TypeOK'
    BY <1>11, <1>1 DEF Free, arguments, TypeOK, PCs, GoTo, FailTo
  <2>4. Facts'
    BY <1>11 DEF Free, arguments, GoTo, FailTo, AnalysisOf, Encodable, RequestIsBuilt,
       SentIsEncodable, OpenWhileUsed, GuestHoldsAnalysis, TextIsAnalysis, Sending,
       Open, Answered, Nothing
  <2> QED BY <2>3, <2>4
<1>12. CASE Close
  <2>3. TypeOK'
    BY <1>12, <1>1 DEF Close, arguments, TypeOK, PCs, GoTo, FailTo
  <2>4. Facts'
    BY <1>12 DEF Close, arguments, GoTo, FailTo, AnalysisOf, Encodable, RequestIsBuilt,
       SentIsEncodable, OpenWhileUsed, GuestHoldsAnalysis, TextIsAnalysis, Sending,
       Open, Answered, Nothing
  <2> QED BY <2>3, <2>4
<1>13. CASE Decode
  <2>3. TypeOK'
    BY <1>13, <1>1 DEF Decode, arguments, TypeOK, PCs, GoTo, FailTo
  <2>4. Facts'
    BY <1>13 DEF Decode, arguments, GoTo, FailTo, AnalysisOf, Encodable, RequestIsBuilt,
       SentIsEncodable, OpenWhileUsed, GuestHoldsAnalysis, TextIsAnalysis, Sending,
       Open, Answered, Nothing
  <2> QED BY <2>3, <2>4
<1>14. CASE Returned \/ UNCHANGED vars
  BY <1>14 DEF Returned, vars, arguments, TypeOK, RequestIsBuilt, SentIsEncodable, Encodable,
     OpenWhileUsed, GuestHoldsAnalysis, TextIsAnalysis, AnalysisOf
<1> QED BY <1>2, <1>3, <1>4, <1>5, <1>6, <1>7, <1>8, <1>9, <1>10, <1>11, <1>12, <1>13, <1>14 DEF Next

THEOREM InvariantHolds == Spec => []IInv
  BY InitEstablishes, StepPreserves, PTL DEF Spec

\* The state keeps its type.
THEOREM TypeCorrect == Spec => []TypeOK
  BY InvariantHolds, PTL DEF IInv

\* No runtime outlives its call, on no path.
THEOREM NoRuntimeLeaks == Spec => []RuntimeIsClosed
<1>1. IInv => RuntimeIsClosed
  BY DEF IInv, OpenWhileUsed, Open, RuntimeIsClosed
<1> QED BY <1>1, InvariantHolds, PTL

\* A nil error carries the kernel's analysis of this request.
THEOREM SuccessIsTheAnalysis == Spec => []OkIsTheAnalysis
<1>1. IInv => OkIsTheAnalysis
  BY DEF IInv, TextIsAnalysis, OkIsTheAnalysis
<1> QED BY <1>1, InvariantHolds, PTL

-------------------------------------------------------------------------------
(***************************************************************************)
(* The counting of common times.                                           *)
(***************************************************************************)

\* The members up to place n that have a time, from the first on without a gap.
InARow(a, B, n, t) ==
  {j \in B : j <= n /\ \A i \in B : i <= j => t \in TimesOf(a, i)}

\* The number of the member at place n.
Idx(B, n) == Cardinality({j \in B : j < n})

\* The recursion of Counts, as an equation.
IsCounts(a, B, counts) ==
  LET times == UNION {TimesOf(a, i) : i \in B}
      idx(n) == Cardinality({j \in B : j < n})
  IN counts = [n \in 0 .. Len(a) |->
                 IF n = 0 THEN [t \in times |-> 0]
                 ELSE IF n \notin B THEN counts[n - 1]
                 ELSE [t \in times |-> IF t \in TimesOf(a, n) /\ counts[n - 1][t] = idx(n)
                                        THEN counts[n - 1][t] + 1 ELSE counts[n - 1][t]]]

\* A member lengthens the row of a time that all before it have.
LEMMA RowGrows ==
  ASSUME NEW a, NEW B, IsFiniteSet(B), B \subseteq Int, NEW n \in Int, NEW t
  PROVE  /\ n \in B /\ t \in TimesOf(a, n)
            /\ Cardinality(InARow(a, B, n - 1, t)) = Idx(B, n)
            => Cardinality(InARow(a, B, n, t)) = Cardinality(InARow(a, B, n - 1, t)) + 1
         /\ ~(/\ n \in B /\ t \in TimesOf(a, n)
              /\ Cardinality(InARow(a, B, n - 1, t)) = Idx(B, n))
            => Cardinality(InARow(a, B, n, t)) = Cardinality(InARow(a, B, n - 1, t))
<1> DEFINE old == InARow(a, B, n - 1, t)
           new == InARow(a, B, n, t)
           first == {j \in B : j < n}
<1> DEFINE gapless(j) == \A i \in B : i <= j => t \in TimesOf(a, i)
<1>0. /\ n \in Int /\ \A j \in B : j \in Int
      /\ \A j : j \in old <=> j \in B /\ j <= n - 1 /\ gapless(j)
      /\ \A j : j \in new <=> j \in B /\ j <= n /\ gapless(j)
  <2>1. n \in Int /\ \A j \in B : j \in Int
    OBVIOUS
  <2>2. /\ \A j : j \in old <=> j \in B /\ j <= n - 1 /\ gapless(j)
        /\ \A j : j \in new <=> j \in B /\ j <= n /\ gapless(j)
    BY Zenon DEF InARow
  <2> QED BY <2>1, <2>2
<1>1. IsFiniteSet(B)
  OBVIOUS
<1>2. old \in SUBSET first /\ first \in SUBSET B /\ new \in SUBSET B
  <2> HIDE DEF old, new, gapless
  <2>1. ASSUME NEW j \in old PROVE j \in first
    <3>1. j \in B /\ j <= n - 1 /\ j \in Int /\ n \in Int
      BY <1>0
    <3>2. j < n
      BY <3>1
    <3> QED BY <3>1, <3>2
  <2> QED BY <1>0, <2>1
<1>3. IsFiniteSet(first) /\ IsFiniteSet(old)
  <2> HIDE DEF first, old
  <2> QED BY <1>1, <1>2, FS_Subset
<1>4. Cardinality(old) \in Nat /\ Cardinality(first) \in Nat
  <2> HIDE DEF first, old
  <2> QED BY <1>3, FS_CardinalityType
<1>5. Cardinality(old) = Cardinality(first) <=> old = first
  <2> HIDE DEF first, old
  <2> QED BY <1>2, <1>3, FS_Subset
<1>6. old = first <=> \A i \in B : i < n => t \in TimesOf(a, i)
  <2> HIDE DEF old, new
  <2>1. ASSUME old = first, NEW i \in B, i < n PROVE t \in TimesOf(a, i)
    <3>1. i \in old /\ i <= i
      BY <1>0, <2>1
    <3> QED BY <1>0, <3>1
  <2>2. ASSUME \A i \in B : i < n => t \in TimesOf(a, i) PROVE old = first
    <3>1. \A j \in first : gapless(j) /\ j <= n - 1
      BY <1>0, <2>2
    <3> QED BY <1>0, <1>2, <3>1
  <2> QED BY <2>1, <2>2
<1>7. CASE n \in B /\ t \in TimesOf(a, n) /\ old = first
  <2>1. n \notin old
    BY <1>0
  <2>2. new = old \cup {n}
    <3>1. gapless(n)
      BY <1>0, <1>6, <1>7
    <3> HIDE DEF old, new, gapless
    <3>2. \A j \in B : j <= n <=> j <= n - 1 \/ j = n
      BY <1>0
    <3> QED BY <1>0, <1>7, <3>1, <3>2
  <2>3. Cardinality(new) = Cardinality(old) + 1
    <3> HIDE DEF new, old
    <3> QED BY <1>3, <2>1, <2>2, FS_AddElement
  <2>4. Idx(B, n) = Cardinality(first)
    BY DEF Idx
  <2> HIDE DEF new, old, first
  <2> QED BY <1>4, <1>5, <1>7, <2>3, <2>4 DEF new, old, first
<1>8. CASE ~(n \in B /\ t \in TimesOf(a, n) /\ old = first)
  <2>1. n \notin new
    BY <1>0, <1>6, <1>8
  <2>2. new = old
    <3> HIDE DEF old, new, gapless
    <3>1. \A j \in B : j <= n <=> j <= n - 1 \/ j = n
      BY <1>0
    <3> QED BY <1>0, <2>1, <3>1
  <2>3. Idx(B, n) = Cardinality(first)
    BY DEF Idx
  <2> HIDE DEF new, old, first
  <2> QED BY <1>4, <1>5, <1>8, <2>2, <2>3 DEF new, old, first
<1> QED BY <1>7, <1>8

LEMMA RowLengthens ==
  ASSUME NEW a, NEW B, IsFiniteSet(B), B \subseteq Int, NEW n \in Int, NEW t,
         n \in B, t \in TimesOf(a, n), Cardinality(InARow(a, B, n - 1, t)) = Idx(B, n)
  PROVE  Cardinality(InARow(a, B, n, t)) = Cardinality(InARow(a, B, n - 1, t)) + 1
  BY RowGrows

LEMMA RowStays ==
  ASSUME NEW a, NEW B, IsFiniteSet(B), B \subseteq Int, NEW n \in Int, NEW t,
         ~(/\ n \in B /\ t \in TimesOf(a, n)
           /\ Cardinality(InARow(a, B, n - 1, t)) = Idx(B, n))
  PROVE  Cardinality(InARow(a, B, n, t)) = Cardinality(InARow(a, B, n - 1, t))
  BY RowGrows

\* The rows of all times up to place n, and a turn of the loop over the members.
Rows(a, B, times, n) == [u \in times |-> Cardinality(InARow(a, B, n, u))]
Turn(a, B, times, n, last) ==
  IF n = 0 THEN [u \in times |-> 0]
  ELSE IF n \notin B THEN last
  ELSE [u \in times |-> IF u \in TimesOf(a, n) /\ last[u] = Idx(B, n)
                         THEN last[u] + 1 ELSE last[u]]

\* The loop, as a function of the place reached.
IsLoop(a, B, times, len, counts) ==
  counts = [n \in 0 .. len |-> Turn(a, B, times, n, counts[n - 1])]

\* A turn lengthens the rows.
LEMMA TurnsLengthenRows ==
  ASSUME NEW a, NEW B, IsFiniteSet(B), B \subseteq Nat \ {0}, NEW n \in Nat, NEW times,
         NEW last, n > 0 => last = Rows(a, B, times, n - 1)
  PROVE  Turn(a, B, times, n, last) = Rows(a, B, times, n)
<1> DEFINE old(u) == Cardinality(InARow(a, B, n - 1, u))
           new(u) == Cardinality(InARow(a, B, n, u))
<1>1. CASE n = 0
  <2>1. \A u : InARow(a, B, 0, u) = {}
    <3>1. \A j \in B : ~(j <= 0)
      OBVIOUS
    <3> QED BY <3>1 DEF InARow
  <2>2. \A u : new(u) = 0
    BY <1>1, <2>1, FS_EmptySet
  <2> HIDE DEF new
  <2>3. Rows(a, B, times, n) = [u \in times |-> new(u)]
    BY DEF Rows, new
  <2> QED BY <1>1, <2>2, <2>3 DEF Turn
<1>2. CASE n > 0 /\ n \notin B
  <2>1. ASSUME NEW u PROVE new(u) = old(u)
    <3>1. B \subseteq Int /\ n \in Int
      OBVIOUS
    <3>2. ~(/\ n \in B /\ u \in TimesOf(a, n)
            /\ Cardinality(InARow(a, B, n - 1, u)) = Idx(B, n))
      BY <1>2
    <3>3. Cardinality(InARow(a, B, n, u)) = Cardinality(InARow(a, B, n - 1, u))
      <4> HIDE DEF new, old
      <4> QED BY <3>1, <3>2, RowStays
    <3> QED BY <3>3
  <2> HIDE DEF new, old
  <2>2. /\ Rows(a, B, times, n) = [u \in times |-> new(u)]
        /\ Rows(a, B, times, n - 1) = [u \in times |-> old(u)]
    BY DEF Rows, new, old
  <2>3. Turn(a, B, times, n, last) = Rows(a, B, times, n - 1)
    BY <1>2 DEF Turn
  <2> QED BY <2>1, <2>2, <2>3
<1>3. CASE n > 0 /\ n \in B
  <2>1. ASSUME NEW u
        PROVE  new(u) = IF u \in TimesOf(a, n) /\ old(u) = Idx(B, n) THEN old(u) + 1
                        ELSE old(u)
    <3>1. B \subseteq Int /\ n \in Int
      OBVIOUS
    <3>2. CASE u \in TimesOf(a, n) /\ old(u) = Idx(B, n)
      <4>1. new(u) = old(u) + 1
        <5>1. Cardinality(InARow(a, B, n, u)) = Cardinality(InARow(a, B, n - 1, u)) + 1
          <6>1. Cardinality(InARow(a, B, n - 1, u)) = Idx(B, n)
            BY <3>2
          <6> HIDE DEF new, old
          <6> QED BY <1>3, <3>1, <3>2, <6>1, RowLengthens
        <5> QED BY <5>1
      <4> HIDE DEF new, old
      <4> QED BY <3>2, <4>1
    <3>3. CASE ~(u \in TimesOf(a, n) /\ old(u) = Idx(B, n))
      <4>1. ~(/\ n \in B /\ u \in TimesOf(a, n)
              /\ Cardinality(InARow(a, B, n - 1, u)) = Idx(B, n))
        BY <3>3 DEF old
      <4>2. Cardinality(InARow(a, B, n, u)) = Cardinality(InARow(a, B, n - 1, u))
        <5> HIDE DEF new, old
        <5> QED BY <3>1, <4>1, RowStays
      <4>3. new(u) = old(u)
        BY <4>2 DEF new, old
      <4> HIDE DEF new, old
      <4> QED BY <3>3, <4>3
    <3> QED BY <3>2, <3>3
  <2> HIDE DEF new, old
  <2>2. /\ Rows(a, B, times, n) = [u \in times |-> new(u)]
        /\ last = [u \in times |-> old(u)]
    BY <1>3 DEF Rows, new, old
  <2>3. Turn(a, B, times, n, last) =
          [u \in times |-> IF u \in TimesOf(a, n) /\ last[u] = Idx(B, n)
                            THEN last[u] + 1 ELSE last[u]]
    BY <1>3 DEF Turn
  <2>4. \A u \in times : last[u] = old(u)
    BY <2>2
  <2> QED BY <2>1, <2>2, <2>3, <2>4
<1> QED BY <1>1, <1>2, <1>3

\* Members lie at places from 1 on.
LEMMA PlacesOfMembers ==
  ASSUME NEW a \in Seq(Series), NEW B \in SUBSET (1 .. Len(a))
  PROVE  Len(a) \in Nat /\ IsFiniteSet(B) /\ B \subseteq Nat \ {0}
<1>1. Len(a) \in Nat
  OBVIOUS
<1>2. IsFiniteSet(1 .. Len(a))
  BY <1>1, FS_Interval
<1>3. IsFiniteSet(B)
  BY <1>2, FS_Subset
<1> QED BY <1>1, <1>3

\* What the recursion yields, on its way and in the end.
LEMMA RecursionYieldsRows ==
  ASSUME NEW a, NEW B, NEW times, NEW len \in Nat, IsFiniteSet(B), B \subseteq Nat \ {0},
         NEW counts, IsLoop(a, B, times, len, counts)
  PROVE  counts[len] = Rows(a, B, times, len)
<1> DEFINE wrong == {n \in 0 .. len : counts[n] # Rows(a, B, times, n)}
           R == OpToRel(<, Nat)
<1>1. \A n \in 0 .. len : counts[n] = Turn(a, B, times, n, counts[n - 1])
  BY DEF IsLoop
<1> SUFFICES ASSUME wrong # {} PROVE FALSE
  OBVIOUS
<1>2. IsWellFoundedOn(R, Nat)
  BY NatLessThanWellFounded
<1>3. wrong \subseteq Nat
  OBVIOUS
<1>4. PICK n \in wrong : \A m \in wrong : ~(<<m, n>> \in R)
  <2> HIDE DEF R, wrong
  <2> QED BY <1>2, <1>3, WFMin
<1>5. n > 0 => counts[n - 1] = Rows(a, B, times, n - 1)
  <2> SUFFICES ASSUME n > 0, counts[n - 1] # Rows(a, B, times, n - 1) PROVE FALSE
    OBVIOUS
  <2>1. n - 1 \in wrong /\ n - 1 \in Nat /\ n \in Nat /\ n - 1 < n
    OBVIOUS
  <2> HIDE DEF wrong
  <2> QED BY <1>4, <2>1 DEF OpToRel
<1>6. n \in Nat /\ counts[n] = Turn(a, B, times, n, counts[n - 1])
  BY <1>1
<1>7. counts[n] # Rows(a, B, times, n)
  OBVIOUS
<1> HIDE DEF wrong, R
<1>8. Turn(a, B, times, n, counts[n - 1]) = Rows(a, B, times, n)
  BY <1>5, <1>6, TurnsLengthenRows
<1> QED BY <1>6, <1>7, <1>8

\* The count of a time is the length of its row.
LEMMA CountsAreRows ==
  ASSUME NEW a \in Seq(Series), NEW B \in SUBSET (1 .. Len(a)),
         NEW t \in UNION {TimesOf(a, i) : i \in B}
  PROVE  Counts(a, B)[t] = Cardinality(InARow(a, B, Len(a), t))
<1> DEFINE times == UNION {TimesOf(a, i) : i \in B}
           rows == [n \in 0 .. Len(a) |-> Rows(a, B, times, n)]
<1>1. Len(a) \in Nat /\ IsFiniteSet(B) /\ B \subseteq Nat \ {0}
  BY PlacesOfMembers
<1>2. \A counts : IsCounts(a, B, counts) <=> IsLoop(a, B, times, Len(a), counts)
  BY DEF IsCounts, Idx, Turn, IsLoop
<1> HIDE DEF times
<1>3. IsCounts(a, B, rows)
  <2>1. ASSUME NEW n \in 0 .. Len(a)
        PROVE  Turn(a, B, times, n, rows[n - 1]) = Rows(a, B, times, n)
    <3>1. n \in Nat /\ (n > 0 => rows[n - 1] = Rows(a, B, times, n - 1))
      BY <1>1
    <3> HIDE DEF rows
    <3> QED BY <1>1, <3>1, TurnsLengthenRows
  <2>2. rows = [n \in 0 .. Len(a) |-> Turn(a, B, times, n, rows[n - 1])]
    BY <2>1
  <2> HIDE DEF rows
  <2> QED BY <1>2, <2>2 DEF IsLoop
<1>4. PICK counts : IsCounts(a, B, counts) /\ Counts(a, B) = counts[Len(a)]
  BY <1>3 DEF IsCounts, Counts
<1>5. counts[Len(a)] = Rows(a, B, times, Len(a))
  <2> DEFINE len == Len(a)
  <2>1. IsLoop(a, B, times, len, counts) /\ len \in Nat
    BY <1>1, <1>2, <1>4
  <2> HIDE DEF len
  <2>2. counts[len] = Rows(a, B, times, len)
    BY <1>1, <2>1, RecursionYieldsRows
  <2> QED BY <2>2 DEF len
<1> QED BY <1>4, <1>5 DEF Rows, times

\* intersectTimestamps: the times it keeps, those counted once for each member in
\* turn, are the times that all members have.
THEOREM CommonIsShared ==
  ASSUME NEW a \in Seq(Series), NEW B \in SUBSET (1 .. Len(a))
  PROVE  CommonTimestamps(a, B) =
           {t \in UNION {TimesOf(a, i) : i \in B} : \A i \in B : t \in TimesOf(a, i)}
<1> SUFFICES ASSUME NEW t \in UNION {TimesOf(a, i) : i \in B}
             PROVE  Counts(a, B)[t] = Cardinality(B) <=> \A i \in B : t \in TimesOf(a, i)
  BY DEF CommonTimestamps
<1> DEFINE row == InARow(a, B, Len(a), t)
<1>1. Counts(a, B)[t] = Cardinality(row)
  BY CountsAreRows
<1>2. IsFiniteSet(B) /\ row \in SUBSET B
  <2>1. Len(a) \in Nat
    OBVIOUS
  <2>2. IsFiniteSet(1 .. Len(a))
    BY <2>1, FS_Interval
  <2> QED BY <2>2, FS_Subset DEF InARow
<1>3. row = B <=> \A i \in B : t \in TimesOf(a, i)
  BY DEF InARow
<1> HIDE DEF row
<1> QED BY <1>1, <1>2, <1>3, FS_Subset

-------------------------------------------------------------------------------
(***************************************************************************)
(* The answer in another order.                                            *)
(***************************************************************************)

\* Answer b lists the series of a in another order: its i-th is the p[i]-th of a.
Reordered(a, b, p) ==
  /\ a \in Seq(Series) /\ b \in Seq(Series) /\ DOMAIN b = DOMAIN a /\ Len(b) = Len(a)
  /\ p \in [DOMAIN a -> DOMAIN a]
  /\ \A i, j \in DOMAIN a : p[i] = p[j] => i = j
  /\ \A j \in DOMAIN a : \E i \in DOMAIN a : p[i] = j
  /\ \A i \in DOMAIN a : b[i] = a[p[i]]

Image(p, B) == {p[i] : i \in B}

\* An order of the places reorders the answer.
LEMMA OrderReorders ==
  ASSUME NEW a \in Seq(Series), NEW p \in Orders(a)
  PROVE  Reordered(a, [i \in DOMAIN a |-> a[p[i]]], p)
<1> DEFINE D == DOMAIN a
           b == [i \in D |-> a[p[i]]]
<1>1. D = 1 .. Len(a) /\ Len(a) \in Nat
  OBVIOUS
<1>2. p \in [D -> D] /\ \A j \in D : \E i \in D : p[i] = j
  BY DEF Orders
<1>3. IsFiniteSet(D)
  BY <1>1, FS_Interval
<1>4. p \in Injection(D, D)
  <2>1. p \in Surjection(D, D)
    BY <1>2 DEF Surjection
  <2> HIDE DEF D
  <2> QED BY <1>3, <2>1, FS_SurjSameCardinalityImpliesInj
<1>5. \A i, j \in D : p[i] = p[j] => i = j
  BY <1>4 DEF Injection, IsInjective
<1>6. b \in Seq(Series) /\ DOMAIN b = D /\ Len(b) = Len(a)
  BY <1>1, <1>2
<1> QED BY <1>2, <1>5, <1>6 DEF Reordered

\* An image has as many elements.
LEMMA ImageCounts ==
  ASSUME NEW a, NEW b, NEW p, Reordered(a, b, p), NEW B \in SUBSET DOMAIN a
  PROVE  /\ Image(p, B) \in SUBSET DOMAIN a
         /\ IsFiniteSet(B) /\ Cardinality(B) \in Nat
         /\ Cardinality(Image(p, B)) = Cardinality(B)
         /\ \A i \in DOMAIN a : p[i] \in Image(p, B) <=> i \in B
<1> DEFINE m == [i \in B |-> p[i]]
<1>1. DOMAIN a = 1 .. Len(a) /\ Len(a) \in Nat
  BY DEF Reordered
<1>2. IsFiniteSet(DOMAIN a)
  BY <1>1, FS_Interval
<1>3. IsFiniteSet(B) /\ Cardinality(B) \in Nat
  BY <1>2, FS_Subset, FS_CardinalityType
<1>4. /\ \A i \in B : p[i] \in DOMAIN a
      /\ \A i, j \in DOMAIN a : p[i] = p[j] => i = j
  BY DEF Reordered
<1>5. m \in Surjection(B, Image(p, B))
  BY DEF Surjection, Image
<1>6. m \in Injection(B, Image(p, B))
  <2>1. m \in [B -> Image(p, B)]
    BY DEF Image
  <2>2. \A i, j \in B : m[i] = m[j] => i = j
    BY <1>4
  <2> QED BY <2>1, <2>2 DEF Injection, IsInjective
<1>7. Cardinality(Image(p, B)) = Cardinality(B)
  <2> HIDE DEF m
  <2> QED BY <1>3, <1>5, <1>6, FS_Surjection
<1>8. Image(p, B) \in SUBSET DOMAIN a /\ \A i \in DOMAIN a : p[i] \in Image(p, B) <=> i \in B
  BY <1>4 DEF Image
<1> QED BY <1>3, <1>7, <1>8

\* What a series and a query are made of.
LEMMA Parts ==
  ASSUME NEW s \in Series, NEW q \in Queries
  PROVE  /\ s.name \in Nat /\ s.labels \in [Keys -> Nat] /\ s.points \in Seq(Sample)
         /\ q.metric \in Nat /\ q.expr \in Nat
  BY SeriesAssumption, QueriesAssumption

\* The drafts, and which of them are of one metric.
LEMMA BucketsMove ==
  ASSUME NEW a, NEW b, NEW p, Reordered(a, b, p), NEW q \in Queries
  PROVE  /\ Image(p, Drafts(b)) = Drafts(a)
         /\ \A i \in Drafts(b) : Image(p, Bucket(q, b, i)) = Bucket(q, a, p[i])
         /\ {Image(p, B) : B \in Buckets(q, b)} = Buckets(q, a)
<1> DEFINE D == DOMAIN a
<1>1. /\ D = 1 .. Len(a) /\ Len(a) \in Nat /\ p \in [D -> D] /\ DOMAIN b = D
      /\ \A i, j \in D : p[i] = p[j] => i = j
      /\ \A j \in D : \E i \in D : p[i] = j
      /\ \A i \in D : b[i] = a[p[i]] /\ a[p[i]] \in Series
  BY DEF Reordered
<1>2. \A i \in D : i \in Drafts(b) <=> p[i] \in Drafts(a)
  BY <1>1 DEF Drafts
<1>3. Drafts(a) \subseteq D /\ Drafts(b) \subseteq D
  BY <1>1 DEF Drafts
<1>4. ASSUME NEW i \in D, NEW j \in D
      PROVE  MetricID(q, b, i) = MetricID(q, b, j)
               <=> MetricID(q, a, p[i]) = MetricID(q, a, p[j])
  <2>1. b[i] = a[p[i]] /\ b[j] = a[p[j]] /\ a[p[i]] \in Series /\ a[p[j]] \in Series
    BY <1>1
  <2>2. a[p[i]].name \in Nat /\ a[p[j]].name \in Nat /\ q.metric \in Nat /\ q.expr \in Nat
    BY <2>1, Parts
  <2>3. p[i] \in D /\ p[j] \in D /\ (p[i] = p[j] => i = j)
    BY <1>1
  <2>4. /\ i \in Nat /\ i > 0 /\ j \in Nat /\ j > 0
        /\ p[i] \in Nat /\ p[i] > 0 /\ p[j] \in Nat /\ p[j] > 0
    <3>1. D = 1 .. Len(a) /\ Len(a) \in Nat
      BY <1>1
    <3> HIDE DEF D
    <3> QED BY <2>3, <3>1
  <2> QED BY <2>1, <2>2, <2>3, <2>4 DEF MetricID
<1>5. Image(p, Drafts(b)) = Drafts(a)
  BY <1>1, <1>2, <1>3 DEF Image
<1>6. ASSUME NEW i \in Drafts(b)
      PROVE  Image(p, Bucket(q, b, i)) = Bucket(q, a, p[i]) /\ p[i] \in Drafts(a)
  <2>1. \A j \in D : j \in Bucket(q, b, i) <=> p[j] \in Bucket(q, a, p[i])
    BY <1>2, <1>3, <1>4 DEF Bucket
  <2>2. Bucket(q, b, i) \subseteq D /\ Bucket(q, a, p[i]) \subseteq D
    BY <1>3 DEF Bucket
  <2> QED BY <1>1, <1>2, <1>3, <2>1, <2>2 DEF Image
<1>7. {Image(p, B) : B \in Buckets(q, b)} = Buckets(q, a)
  <2>1. ASSUME NEW B \in Buckets(q, b) PROVE Image(p, B) \in Buckets(q, a)
    BY <1>6 DEF Buckets
  <2>2. ASSUME NEW C \in Buckets(q, a) PROVE \E B \in Buckets(q, b) : C = Image(p, B)
    <3>1. PICK j \in Drafts(a) : C = Bucket(q, a, j)
      BY DEF Buckets
    <3>2. PICK i \in Drafts(b) : j = p[i]
      BY <1>5 DEF Image
    <3> QED BY <1>6, <3>1, <3>2 DEF Buckets
  <2> QED BY <2>1, <2>2
<1> QED BY <1>5, <1>6, <1>7

\* What the members of a bucket have for a label, and what they have in common.
Values(q, a, B, k) == {Labels(q, a[i])[k] : i \in B}
Shared(values, size) ==
  IF size > 1 /\ Cardinality(values) = 1 THEN CHOOSE v \in values : TRUE ELSE 0

LEMMA CommonLabelsAre ==
  ASSUME NEW q, NEW a, NEW B
  PROVE  CommonLabels(q, a, B) = [k \in Keys |-> Shared(Values(q, a, B, k), Cardinality(B))]
  BY DEF CommonLabels, Values, Shared

\* The labels that the members of a bucket share are the same in any order.
LEMMA CommonLabelsMove ==
  ASSUME NEW a, NEW b, NEW p, Reordered(a, b, p), NEW q, NEW B \in SUBSET DOMAIN a
  PROVE  CommonLabels(q, b, B) = CommonLabels(q, a, Image(p, B))
<1>1. Cardinality(Image(p, B)) = Cardinality(B)
  BY ImageCounts
<1>2. \A i \in B : b[i] = a[p[i]]
  BY DEF Reordered
<1>3. \A k \in Keys : {Labels(q, b[i])[k] : i \in B} = {Labels(q, a[j])[k] : j \in Image(p, B)}
  BY <1>2 DEF Image
<1>4. \A k \in Keys : Values(q, b, B, k) = Values(q, a, Image(p, B), k)
  BY <1>3 DEF Values
<1> QED BY <1>1, <1>4, CommonLabelsAre

\* No label set that tells anything reads like a number within a bucket.
LEMMA RenderedIsNoNumber ==
  ASSUME NEW labels \in [Keys -> Nat], labels # NoLabels, NEW n
  PROVE  Rendered(labels) # {<<"#", n>>}
<1> DEFINE present == {k \in Keys : labels[k] # 0}
<1>1. PICK k \in present : TRUE
  BY DEF NoLabels
<1>2. CASE Cardinality(present) = 1
  <2>1. <<"", labels[k]>> \in Rendered(labels)
    BY <1>2 DEF Rendered
  <2>2. <<"", labels[k]>> # <<"#", n>>
    <3>1. "" # "#"
      OBVIOUS
    <3> QED BY <3>1
  <2> QED BY <2>1, <2>2
<1>3. CASE Cardinality(present) # 1
  <2>1. Rendered(labels) = {<<l, labels[l]>> : l \in present}
    BY <1>3 DEF Rendered
  <2> HIDE DEF present
  <2>2. SUFFICES ASSUME {<<l, labels[l]>> : l \in present} = {<<"#", n>>}
                 PROVE  FALSE
    BY <2>1
  <2>3. \A l \in present : l = "#"
    <3> SUFFICES ASSUME NEW l \in present PROVE l = "#"
      OBVIOUS
    <3>1. <<l, labels[l]>> = <<"#", n>>
      BY <2>2
    <3> QED BY <3>1
  <2>4. present = {"#"}
    BY <1>1, <2>3
  <2> QED BY <1>3, <2>4, FS_Singleton
<1> QED BY <1>2, <1>3

\* The members of a bucket have different numbers.
LEMMA NumbersDiffer ==
  ASSUME NEW B, IsFiniteSet(B), B \subseteq Int, NEW i \in B, NEW j \in B, i < j
  PROVE  Cardinality({k \in B : k < i}) # Cardinality({k \in B : k < j})
<1> DEFINE below(n) == {k \in B : k < n}
<1>1. IsFiniteSet(below(j))
  BY FS_Subset
<1>2. below(i) \subseteq below(j) /\ i \in below(j) /\ i \notin below(i)
  <2>1. i \in Int /\ j \in Int /\ \A k \in B : k \in Int
    OBVIOUS
  <2>2. \A k \in B : k < i => k < j
    BY <2>1
  <2>3. ~(i < i)
    BY <2>1
  <2> QED BY <2>2, <2>3
<1> HIDE DEF below
<1>3. Cardinality(below(i)) < Cardinality(below(j))
  BY <1>1, <1>2, FS_Subset, FS_CardinalityType
<1> QED BY <1>1, <1>2, <1>3, FS_Subset, FS_CardinalityType DEF below

\* What names a draft: labels, which say something, or its number.
Own(q, a, i) == Labels(q, a[i])
Rest(q, a, i) ==
  [k \in Keys |-> IF CommonLabels(q, a, Bucket(q, a, i))[k] = Own(q, a, i)[k]
                  THEN 0 ELSE Own(q, a, i)[k]]
Numbered(q, a, i) == Rest(q, a, i) = NoLabels /\ Own(q, a, i) = NoLabels
Number(q, a, i) == Cardinality({j \in Bucket(q, a, i) : j < i})

LEMMA EntityCases ==
  ASSUME NEW a, NEW q \in Queries, NEW i, a[i] \in Series
  PROVE  /\ Numbered(q, a, i) => EntityID(q, a, i) = {<<"#", Number(q, a, i)>>}
         /\ ~Numbered(q, a, i) =>
              /\ \A n : EntityID(q, a, i) # {<<"#", n>>}
              /\ EntityID(q, a, i) =
                   IF Rest(q, a, i) # NoLabels THEN Rendered(Rest(q, a, i))
                   ELSE Rendered(Own(q, a, i))
<1> DEFINE own == Own(q, a, i)
           rest == Rest(q, a, i)
<1>1. EntityID(q, a, i) =
        IF rest # NoLabels THEN Rendered(rest)
        ELSE IF own # NoLabels THEN Rendered(own)
        ELSE {<<"#", Number(q, a, i)>>}
  BY DEF EntityID, Own, Rest, Number
<1>2. own \in [Keys -> Nat]
  <2>1. a[i].labels \in [Keys -> Nat]
    BY Parts
  <2> QED BY <2>1 DEF Own, Labels
<1>3. rest \in [Keys -> Nat]
  BY <1>2 DEF Rest
<1> HIDE DEF own, rest
<1>4. /\ rest # NoLabels => \A n : Rendered(rest) # {<<"#", n>>}
      /\ own # NoLabels => \A n : Rendered(own) # {<<"#", n>>}
  BY <1>2, <1>3, RenderedIsNoNumber
<1> QED BY <1>1, <1>4 DEF own, rest, Numbered

\* A draft keeps what names it in another order, except for its number.
LEMMA EntityMoves ==
  ASSUME NEW a, NEW b, NEW p, Reordered(a, b, p), NEW q \in Queries, NEW i \in Drafts(b)
  PROVE  /\ Numbered(q, b, i) <=> Numbered(q, a, p[i])
         /\ ~Numbered(q, b, i) => EntityID(q, b, i) = EntityID(q, a, p[i])
<1>1. i \in DOMAIN a /\ b[i] = a[p[i]] /\ b[i] \in Series
  BY DEF Drafts, Reordered
<1>2. Bucket(q, b, i) \in SUBSET DOMAIN a
  BY DEF Bucket, Drafts, Reordered
<1>3. CommonLabels(q, b, Bucket(q, b, i)) = CommonLabels(q, a, Bucket(q, a, p[i]))
  BY <1>2, CommonLabelsMove, BucketsMove
<1>4. Own(q, b, i) = Own(q, a, p[i])
  BY <1>1 DEF Own
<1>5. Rest(q, b, i) = Rest(q, a, p[i])
  BY <1>3, <1>4 DEF Rest
<1>6. Numbered(q, b, i) <=> Numbered(q, a, p[i])
  BY <1>4, <1>5 DEF Numbered
<1>7. ASSUME ~Numbered(q, b, i) PROVE EntityID(q, b, i) = EntityID(q, a, p[i])
  <2>1. EntityID(q, b, i) = IF Rest(q, b, i) # NoLabels THEN Rendered(Rest(q, b, i))
                            ELSE Rendered(Own(q, b, i))
    BY <1>1, <1>7, EntityCases
  <2>2. EntityID(q, a, p[i]) =
          IF Rest(q, a, p[i]) # NoLabels THEN Rendered(Rest(q, a, p[i]))
          ELSE Rendered(Own(q, a, p[i]))
    BY <1>1, <1>6, <1>7, EntityCases
  <2> QED BY <1>4, <1>5, <2>1, <2>2
<1> QED BY <1>6, <1>7

LEMMA NumbersTell ==
  ASSUME NEW x, NEW y, x # y
  PROVE  {<<"#", x>>} # {<<"#", y>>}
<1>1. <<"#", x>> # <<"#", y>>
  OBVIOUS
<1> QED BY <1>1

\* A draft that has a number differs from one that has labels.
LEMMA NumberedAndNot ==
  ASSUME NEW a, NEW q \in Queries, NEW i, NEW j, a[i] \in Series, a[j] \in Series,
         Numbered(q, a, i), ~Numbered(q, a, j)
  PROVE  EntityID(q, a, i) # EntityID(q, a, j)
<1>1. EntityID(q, a, i) = {<<"#", Number(q, a, i)>>}
  BY EntityCases
<1>2. \A n : EntityID(q, a, j) # {<<"#", n>>}
  BY EntityCases
<1> QED BY <1>1, <1>2

\* Two drafts of a bucket that have numbers have different ones.
LEMMA NumberedDiffer ==
  ASSUME NEW a \in Seq(Series), NEW q \in Queries, NEW i \in Drafts(a),
         NEW j \in Bucket(q, a, i), i # j, Numbered(q, a, i), Numbered(q, a, j)
  PROVE  EntityID(q, a, i) # EntityID(q, a, j)
<1> DEFINE B == Bucket(q, a, i)
<1>1. B \subseteq 1 .. Len(a) /\ i \in B /\ Bucket(q, a, j) = B /\ Len(a) \in Nat
  BY DEF Bucket, Drafts
<1>2. IsFiniteSet(B) /\ B \subseteq Int
  <2>1. IsFiniteSet(1 .. Len(a))
    BY <1>1, FS_Interval
  <2>2. 1 .. Len(a) \subseteq Int
    BY <1>1
  <2> HIDE DEF B
  <2> QED BY <1>1, <2>1, <2>2, FS_Subset
<1>3. i \in Int /\ j \in Int
  BY <1>1, <1>2
<1>4. /\ EntityID(q, a, i) = {<<"#", Number(q, a, i)>>}
      /\ EntityID(q, a, j) = {<<"#", Number(q, a, j)>>}
  <2>1. a[i] \in Series /\ a[j] \in Series
    BY DEF Bucket, Drafts
  <2> QED BY <2>1, EntityCases
<1>5. Number(q, a, i) # Number(q, a, j)
  <2>1. j \in B
    OBVIOUS
  <2>2. /\ Number(q, a, i) = Cardinality({k \in B : k < i})
        /\ Number(q, a, j) = Cardinality({k \in B : k < j})
    BY <1>1 DEF Number
  <2> HIDE DEF B
  <2>3. CASE i < j
    BY <1>1, <1>2, <2>1, <2>2, <2>3, NumbersDiffer
  <2>4. CASE j < i
    BY <1>1, <1>2, <2>1, <2>2, <2>4, NumbersDiffer
  <2> QED BY <1>3, <2>3, <2>4
<1> QED BY <1>4, <1>5, NumbersTell

\* The members of a bucket differ in one order as they do in the other.
LEMMA DifferencesMove ==
  ASSUME NEW a, NEW b, NEW p, Reordered(a, b, p), NEW q \in Queries,
         NEW B \in Buckets(q, b), NEW i \in B, NEW j \in B, i # j
  PROVE  EntityID(q, b, i) = EntityID(q, b, j)
           <=> EntityID(q, a, p[i]) = EntityID(q, a, p[j])
<1>1. i \in Drafts(b) /\ j \in Drafts(b) /\ j \in Bucket(q, b, i)
  BY BucketsPartition
<1>2. /\ p[i] \in Drafts(a) /\ p[j] \in Drafts(a) /\ p[j] \in Bucket(q, a, p[i])
      /\ p[i] # p[j]
  <2>1. p[i] \in Image(p, Drafts(b)) /\ p[j] \in Image(p, Drafts(b))
    BY <1>1 DEF Image
  <2>2. p[j] \in Image(p, Bucket(q, b, i))
    BY <1>1 DEF Image
  <2>3. p[i] # p[j]
    BY <1>1 DEF Reordered, Drafts
  <2> QED BY <1>1, <2>1, <2>2, <2>3, BucketsMove
<1>3. a \in Seq(Series) /\ b \in Seq(Series)
  BY DEF Reordered
<1>4. a[p[i]] \in Series /\ a[p[j]] \in Series /\ b[i] \in Series /\ b[j] \in Series
  BY <1>1, <1>2, <1>3 DEF Drafts
<1>5. CASE Numbered(q, b, i) /\ Numbered(q, b, j)
  BY <1>1, <1>2, <1>3, <1>5, EntityMoves, NumberedDiffer
<1>6. CASE Numbered(q, b, i) /\ ~Numbered(q, b, j)
  <2>1. Numbered(q, a, p[i]) /\ ~Numbered(q, a, p[j])
    BY <1>1, <1>6, EntityMoves
  <2>2. EntityID(q, b, i) # EntityID(q, b, j)
    BY <1>4, <1>6, NumberedAndNot
  <2>3. EntityID(q, a, p[i]) # EntityID(q, a, p[j])
    BY <1>4, <2>1, NumberedAndNot
  <2> QED BY <2>2, <2>3
<1>7. CASE ~Numbered(q, b, i) /\ Numbered(q, b, j)
  <2>1. ~Numbered(q, a, p[i]) /\ Numbered(q, a, p[j])
    BY <1>1, <1>7, EntityMoves
  <2>2. EntityID(q, b, i) # EntityID(q, b, j)
    BY <1>4, <1>7, NumberedAndNot
  <2>3. EntityID(q, a, p[i]) # EntityID(q, a, p[j])
    BY <1>4, <2>1, NumberedAndNot
  <2> QED BY <2>2, <2>3
<1>8. CASE ~Numbered(q, b, i) /\ ~Numbered(q, b, j)
  BY <1>1, <1>8, EntityMoves
<1> QED BY <1>5, <1>6, <1>7, <1>8

\* The times that the members of a bucket share are the same in any order.
LEMMA CommonMoves ==
  ASSUME NEW a, NEW b, NEW p, Reordered(a, b, p), NEW B \in SUBSET DOMAIN a
  PROVE  CommonTimestamps(b, B) = CommonTimestamps(a, Image(p, B))
<1> DEFINE A == Image(p, B)
<1>1. a \in Seq(Series) /\ b \in Seq(Series) /\ A \in SUBSET (1 .. Len(a))
      /\ B \in SUBSET (1 .. Len(b))
  <2>1. a \in Seq(Series) /\ b \in Seq(Series) /\ DOMAIN b = DOMAIN a
    BY DEF Reordered
  <2>2. DOMAIN a = 1 .. Len(a) /\ DOMAIN b = 1 .. Len(b)
    BY <2>1
  <2>3. A \in SUBSET DOMAIN a
    BY ImageCounts
  <2> QED BY <2>1, <2>2, <2>3
<1>2. \A i \in B : TimesOf(b, i) = TimesOf(a, p[i])
  BY DEF Reordered, TimesOf
<1>3. \A t : (\E i \in B : t \in TimesOf(b, i)) <=> (\E j \in A : t \in TimesOf(a, j))
  BY <1>2 DEF Image
<1>4. \A t : (\A i \in B : t \in TimesOf(b, i)) <=> (\A j \in A : t \in TimesOf(a, j))
  BY <1>2 DEF Image
<1>5. UNION {TimesOf(b, i) : i \in B} = UNION {TimesOf(a, j) : j \in A}
  BY <1>3
<1> HIDE DEF A
<1>6. /\ CommonTimestamps(b, B) =
            {t \in UNION {TimesOf(b, i) : i \in B} : \A i \in B : t \in TimesOf(b, i)}
      /\ CommonTimestamps(a, A) =
            {t \in UNION {TimesOf(a, i) : i \in A} : \A i \in A : t \in TimesOf(a, i)}
  BY <1>1, CommonIsShared
<1>7. CommonTimestamps(b, B) = CommonTimestamps(a, A)
  BY <1>4, <1>5, <1>6
<1> QED BY <1>7 DEF A

\* Whether the members of a bucket can be compared does not depend on the order.
LEMMA ComparableMoves ==
  ASSUME NEW a, NEW b, NEW p, Reordered(a, b, p), NEW q \in Queries,
         NEW B \in Buckets(q, b)
  PROVE  Comparable(q, b, B) <=> Comparable(q, a, Image(p, B))
<1> DEFINE A == Image(p, B)
           common == CommonTimestamps(b, B)
<1>1. B \in SUBSET DOMAIN a
  BY DEF Buckets, Bucket, Drafts, Reordered
<1>2. Cardinality(A) = Cardinality(B) /\ common = CommonTimestamps(a, A)
  BY <1>1, ImageCounts, CommonMoves
<1>3. \A i \in B : b[i] = a[p[i]] /\ TimesOf(b, i) = TimesOf(a, p[i])
  BY <1>1 DEF Reordered, TimesOf
<1>4. \A i, j \in B : i # j => p[i] # p[j]
  BY <1>1 DEF Reordered
<1>5. /\ \A i \in B : p[i] \in A
      /\ \A x \in A : \E i \in B : x = p[i]
  BY DEF Image
<1> HIDE DEF A, common
<1>6. (\A i, j \in B : i # j => EntityID(q, b, i) # EntityID(q, b, j))
        <=> (\A x, y \in A : x # y => EntityID(q, a, x) # EntityID(q, a, y))
  <2>1. \A i, j \in B : i # j =>
          (EntityID(q, b, i) = EntityID(q, b, j)
             <=> EntityID(q, a, p[i]) = EntityID(q, a, p[j]))
    BY DifferencesMove
  <2> QED BY <1>4, <1>5, <2>1
<1>7. (\A i \in B : Length(b[i]) >= 3) <=> (\A x \in A : Length(a[x]) >= 3)
  BY <1>3, <1>5
<1>8. EnoughInCommon(b, B, common) <=> EnoughInCommon(a, A, common)
  BY <1>3, <1>5 DEF EnoughInCommon
<1>9. (\A i \in B : common \subseteq TimesOf(b, i)) <=> (\A x \in A : common \subseteq TimesOf(a, x))
  BY <1>3, <1>5
<1>10. Comparable(q, b, B) <=>
         /\ Cardinality(B) >= 2
         /\ \A i, j \in B : i # j => EntityID(q, b, i) # EntityID(q, b, j)
         /\ \A i \in B : Length(b[i]) >= 3
         /\ Cardinality(common) >= 3
         /\ EnoughInCommon(b, B, common)
         /\ \A i \in B : common \subseteq TimesOf(b, i)
  BY DEF Comparable, common
<1>11. Comparable(q, a, A) <=>
         /\ Cardinality(A) >= 2
         /\ \A x, y \in A : x # y => EntityID(q, a, x) # EntityID(q, a, y)
         /\ \A x \in A : Length(a[x]) >= 3
         /\ Cardinality(common) >= 3
         /\ EnoughInCommon(a, A, common)
         /\ \A x \in A : common \subseteq TimesOf(a, x)
  BY <1>2 DEF Comparable
<1>12. Comparable(q, b, B) <=> Comparable(q, a, A)
  BY <1>2, <1>6, <1>7, <1>8, <1>9, <1>10, <1>11
<1> QED BY <1>12 DEF A

\* The groups are the same in any order.
LEMMA GroupsMove ==
  ASSUME NEW a, NEW b, NEW p, Reordered(a, b, p), NEW q \in Queries
  PROVE  /\ {Image(p, B) : B \in Groups(q, b)} = Groups(q, a)
         /\ Groups(q, b) = {} <=> Groups(q, a) = {}
<1>1. {Image(p, B) : B \in Buckets(q, b)} = Buckets(q, a)
  BY BucketsMove
<1>2. Cardinality(Drafts(a)) = Cardinality(Drafts(b))
  <2>1. Drafts(b) \in SUBSET DOMAIN a
    BY DEF Drafts, Reordered
  <2> QED BY <2>1, BucketsMove, ImageCounts
<1>3. (\E B \in Buckets(q, b) : ~Comparable(q, b, B))
        <=> (\E A \in Buckets(q, a) : ~Comparable(q, a, A))
  <2>1. \A B \in Buckets(q, b) : Comparable(q, b, B) <=> Comparable(q, a, Image(p, B))
    BY ComparableMoves
  <2> QED BY <1>1, <2>1
<1>4. {Image(p, B) : B \in Groups(q, b)} = Groups(q, a)
  <2>1. CASE Groups(q, b) = {} /\ Groups(q, a) = {}
    BY <2>1
  <2>2. CASE Groups(q, b) = Buckets(q, b) /\ Groups(q, a) = Buckets(q, a)
    BY <1>1, <2>2
  <2> QED BY <1>2, <1>3, <2>1, <2>2 DEF Groups
<1> QED BY <1>4

\* What is sent of an answer in another order.
LEMMA RequestMoves ==
  ASSUME NEW a, NEW b, NEW p, Reordered(a, b, p), NEW q \in Queries
  PROVE  /\ Request(q, b).scope = Request(q, a).scope
         /\ {Image(p, B) : B \in Request(q, b).subjects} = Request(q, a).subjects
         /\ DOMAIN Request(q, b).sent = Drafts(b)
         /\ \A i \in Drafts(b) : Request(q, b).sent[i] = Request(q, a).sent[p[i]]
<1>1. \A i \in Drafts(b) : p[i] \in Drafts(a) /\ b[i] = a[p[i]]
  <2>1. Image(p, Drafts(b)) = Drafts(a)
    BY BucketsMove
  <2> QED BY <2>1 DEF Image, Drafts, Reordered
<1>2. CASE Groups(q, b) = {} /\ Groups(q, a) = {}
  <2>1. Request(q, b) = LineRequest(b) /\ Request(q, a) = LineRequest(a)
    BY <1>2 DEF Request
  <2> DEFINE lines == {{i} : i \in Drafts(b)}
             moved == {{j} : j \in Drafts(a)}
  <2>2. {Image(p, B) : B \in lines} = moved
    <3>1. \A i : Image(p, {i}) = {p[i]}
      BY DEF Image
    <3>2. Image(p, Drafts(b)) = Drafts(a)
      BY BucketsMove
    <3>3. \A j \in Drafts(a) : \E i \in Drafts(b) : j = p[i]
      BY <3>2 DEF Image
    <3>4. ASSUME NEW B \in lines PROVE Image(p, B) \in moved
      <4>1. PICK i \in Drafts(b) : B = {i}
        OBVIOUS
      <4>2. Image(p, B) = {p[i]} /\ p[i] \in Drafts(a)
        BY <1>1, <3>1, <4>1
      <4> QED BY <4>2
    <3>5. ASSUME NEW C \in moved PROVE \E B \in lines : C = Image(p, B)
      <4>1. PICK j \in Drafts(a) : C = {j}
        OBVIOUS
      <4>2. PICK i \in Drafts(b) : j = p[i]
        BY <3>3
      <4>3. {i} \in lines /\ C = Image(p, {i})
        BY <3>1, <4>1, <4>2
      <4> QED BY <4>3
    <3> HIDE DEF lines, moved
    <3> QED BY <3>4, <3>5
  <2>3. \A i \in Drafts(b) : Request(q, b).sent[i] = Request(q, a).sent[p[i]]
    BY <1>1, <2>1 DEF LineRequest
  <2>4. /\ Request(q, b).scope = "line" /\ Request(q, a).scope = "line"
        /\ Request(q, b).subjects = lines /\ Request(q, a).subjects = moved
        /\ DOMAIN Request(q, b).sent = Drafts(b)
    BY <2>1 DEF LineRequest
  <2> HIDE DEF lines, moved
  <2> QED BY <2>2, <2>3, <2>4
<1>3. CASE Groups(q, b) # {} /\ Groups(q, a) # {}
  <2>1. Request(q, b) = GroupRequest(q, b) /\ Request(q, a) = GroupRequest(q, a)
    BY <1>3 DEF Request
  <2>2. ASSUME NEW i \in Drafts(b)
        PROVE  Request(q, b).sent[i] = Request(q, a).sent[p[i]]
    <3>1. Bucket(q, b, i) \in SUBSET DOMAIN a
      BY DEF Bucket, Drafts, Reordered
    <3>2. CommonTimestamps(b, Bucket(q, b, i)) = CommonTimestamps(a, Bucket(q, a, p[i]))
      BY <3>1, CommonMoves, BucketsMove
    <3>3. /\ Request(q, b).sent[i] = Trimmed(b[i], CommonTimestamps(b, Bucket(q, b, i)))
          /\ Request(q, a).sent[p[i]] =
               Trimmed(a[p[i]], CommonTimestamps(a, Bucket(q, a, p[i])))
      BY <1>1, <2>1 DEF GroupRequest
    <3> QED BY <1>1, <3>2, <3>3
  <2>3. {Image(p, B) : B \in Groups(q, b)} = Groups(q, a)
    BY GroupsMove
  <2> QED BY <2>1, <2>2, <2>3 DEF GroupRequest
<1> QED BY <1>2, <1>3, GroupsMove

\* What is sent, and whether series are compared, does not depend on the order in
\* which the backend lists the series: counting the times in a row, numbering the
\* drafts of a bucket and choosing the shortest member come out the same.
THEOREM OrderNeverMatters == Spec => []ScopeIgnoresOrder
<1>1. ASSUME IInv PROVE ScopeIgnoresOrder
  <2> SUFFICES ASSUME pc = "marshal", NEW p \in Orders(answer)
               PROVE  LET other == Request(query, [i \in DOMAIN answer |-> answer[p[i]]])
                      IN /\ other.scope = request.scope
                         /\ {{p[i] : i \in B} : B \in other.subjects} = request.subjects
                         /\ \A i \in DOMAIN other.sent : other.sent[i] = request.sent[p[i]]
    BY DEF ScopeIgnoresOrder
  <2> DEFINE b == [i \in DOMAIN answer |-> answer[p[i]]]
  <2>1. request = Request(query, answer) /\ answer \in Seq(Series) /\ query \in Queries
    BY <1>1 DEF IInv, RequestIsBuilt, TypeOK
  <2>2. Reordered(answer, b, p)
    BY <2>1, OrderReorders
  <2> HIDE DEF b
  <2>3. /\ Request(query, b).scope = request.scope
        /\ {Image(p, B) : B \in Request(query, b).subjects} = request.subjects
        /\ DOMAIN Request(query, b).sent = Drafts(b)
        /\ \A i \in Drafts(b) : Request(query, b).sent[i] = request.sent[p[i]]
    BY <2>1, <2>2, RequestMoves
  <2> QED BY <2>3 DEF Image, b
<1> QED BY <1>1, InvariantHolds, PTL

-------------------------------------------------------------------------------
(***************************************************************************)
(* What is analysed.                                                       *)
(***************************************************************************)

\* The samples of a group that the kernel averages are of one time.
THEOREM AveragesAreAligned == Spec => []GroupsAligned
<1>1. ASSUME IInv PROVE GroupsAligned
  <2> SUFFICES ASSUME pc = "call", request.scope = "group",
                      NEW B \in request.subjects,
                      NEW n \in Indices(answer, request.sent, B),
                      NEW first \in FirstMember(answer, request.sent, B),
                      NEW p \in Averaged(answer, request.sent, B, n)
               PROVE  p.ts = NthTime(answer[first], request.sent[first], n)
    BY DEF GroupsAligned
  <2>1. request = Request(query, answer) /\ answer \in Seq(Series)
    BY <1>1 DEF IInv, RequestIsBuilt, Sending, Open, TypeOK
  <2>2. /\ request = GroupRequest(query, answer)
        /\ B \in Buckets(query, answer)
        /\ Comparable(query, answer, B)
    BY <2>1, RequestCases DEF LineRequest, GroupRequest
  <2>3. PICK i \in Members(answer, request.sent, B) :
          p.ts = NthTime(answer[i], request.sent[i], n)
    BY DEF Averaged
  <2>4. i \in B /\ first \in B
    BY DEF FirstMember, Members
  <2>5. /\ Timestamps(answer[i], request.sent[i]) = CommonTimestamps(answer, B)
        /\ Timestamps(answer[first], request.sent[first]) = CommonTimestamps(answer, B)
    BY <2>1, <2>2, <2>4, SentOfMember
  <2> QED BY <2>3, <2>5 DEF NthTime
<1> QED BY <1>1, InvariantHolds, PTL

\* What is sent of a series once the request is encoded: numbers, which are all
\* of its samples (a line) or the last ones of some times (a member).
LEMMA SentSamples ==
  ASSUME IInv, pc \in Sending, NEW i \in Drafts(answer)
  PROVE  LET s == answer[i]
             sent == request.sent[i]
             kept == Converted(s)
         IN /\ s \in Series /\ kept \in SUBSET DOMAIN s.points
            /\ sent \in SUBSET Numeric(s) /\ Numeric(s) \in SUBSET kept
            /\ \A t \in Timestamps(s, sent) : LastAt(s, sent, t) = LastAt(s, kept, t)
<1>1. request = Request(query, answer) /\ answer \in Seq(Series) /\ Encodable
  BY DEF IInv, RequestIsBuilt, SentIsEncodable, TypeOK
<1>2. DOMAIN request.sent = Drafts(answer)
  BY <1>1, RequestType DEF IInv, TypeOK
<1>3. answer[i] \in Series
  BY <1>1 DEF Drafts
<1>4. \A n \in request.sent[i] : answer[i].points[n].kind = "number"
  BY <1>1, <1>2 DEF Encodable
<1>5. /\ request.sent[i] \in SUBSET Converted(answer[i])
      /\ \A t \in Timestamps(answer[i], request.sent[i]) :
           LastAt(answer[i], request.sent[i], t) = LastAt(answer[i], Converted(answer[i]), t)
  <2>1. CASE request = LineRequest(answer)
    BY <2>1 DEF LineRequest
  <2>2. CASE /\ request = GroupRequest(query, answer)
             /\ \A B \in Buckets(query, answer) : Comparable(query, answer, B)
    <3> DEFINE B == Bucket(query, answer, i)
               common == CommonTimestamps(answer, B)
    <3>1. B \in Buckets(query, answer) /\ i \in B
      BY BucketsPartition DEF Buckets
    <3>2. /\ request.sent[i] = Trimmed(answer[i], common)
          /\ common \in SUBSET Timestamps(answer[i], Converted(answer[i]))
          /\ Timestamps(answer[i], request.sent[i]) = common
      BY <1>1, <2>2, <3>1, SentOfMember
    <3> HIDE DEF common
    <3> QED BY <1>3, <3>2, TrimmedTimes
  <2> QED BY <1>1, <2>1, <2>2, RequestCases
<1>6. Converted(answer[i]) \in SUBSET DOMAIN answer[i].points
  BY DEF Converted
<1>7. /\ request.sent[i] \in SUBSET Numeric(answer[i])
      /\ Numeric(answer[i]) \in SUBSET Converted(answer[i])
  BY <1>4, <1>5, <1>6 DEF Numeric, Converted, Parses
<1> QED BY <1>3, <1>5, <1>6, <1>7

\* The value analysed for a time is the one that came last in the answer.
THEOREM LastSampleIsAnalysed == Spec => []LastSampleWins
<1>1. ASSUME IInv PROVE LastSampleWins
  <2> SUFFICES ASSUME pc = "call",
                      NEW i \in DOMAIN request.sent, NEW n \in Numeric(answer[i]),
                      answer[i].points[n].ts \in Timestamps(answer[i], request.sent[i]),
                      \A m \in Numeric(answer[i]) :
                        answer[i].points[m].ts = answer[i].points[n].ts => m <= n
               PROVE  Normalized(answer[i], request.sent[i])[answer[i].points[n].ts]
                        = answer[i].points[n].value
    BY DEF LastSampleWins
  <2> DEFINE s == answer[i]
             sent == request.sent[i]
             kept == Converted(s)
             t == s.points[n].ts
             last == LastAt(s, sent, t)
  <2>1. i \in Drafts(answer) /\ pc \in Sending
    BY <1>1, RequestType DEF IInv, RequestIsBuilt, Sending, Open, TypeOK
  <2>2. /\ s \in Series /\ kept \in SUBSET DOMAIN s.points
        /\ sent \in SUBSET Numeric(s) /\ Numeric(s) \in SUBSET kept
        /\ t \in Timestamps(s, sent) /\ t \in Timestamps(s, kept)
        /\ last = LastAt(s, kept, t)
    BY <1>1, <2>1, SentSamples DEF Timestamps
  <2>3. last \in Numeric(s) /\ s.points[last].ts = t
    <3> HIDE DEF t
    <3> QED BY <2>2, LastAtExists DEF last
  <2>4. last <= n
    BY <2>3
  <2>5. n <= last
    <3>1. n \in kept /\ s.points[n].ts = t
      BY <2>2
    <3> HIDE DEF t, kept
    <3> QED BY <2>2, <3>1, LastAtExists
  <2>6. n \in Int /\ last \in Int
    <3>1. DOMAIN s.points \subseteq Int
      <4>1. s.points \in Seq(Sample)
        BY <2>2, SeriesAssumption
      <4> QED BY <4>1
    <3> QED BY <2>2, <2>3, <3>1
  <2>7. last = n
    <3> HIDE DEF last
    <3> QED BY <2>4, <2>5, <2>6
  <2> QED BY <2>2, <2>7 DEF Normalized
<1> QED BY <1>1, InvariantHolds, PTL

\* A series long enough to be analysed is analysed once, another one is not.
THEOREM AllAreAnalysed == Spec => []NothingLeftOut
<1>1. ASSUME IInv, pc = "free", text.about = "analysis", NEW i \in DOMAIN answer
      PROVE  /\ Cardinality(Times(answer[i])) >= 3 <=> \E B \in text.subjects : i \in B
             /\ \A B, C \in text.subjects : i \in B \cap C => B = C
  <2> DEFINE s == answer[i]
  <2>1. /\ pc \in Sending
        /\ request = Request(query, answer) /\ answer \in Seq(Series)
        /\ s \in Series
    BY <1>1 DEF IInv, RequestIsBuilt, Sending, Open, TypeOK
  <2>2. text.subjects = Outputs(request, answer)
    BY <1>1 DEF IInv, TextIsAnalysis, Nothing, AnalysisOf
  <2>3. Times(s) = Timestamps(s, Numeric(s)) /\ IsFiniteSet(Times(s))
    BY <2>1, TimesAreFinite DEF Times, Timestamps, Numeric
  <2>4. CASE i \notin Drafts(answer)
    <3>1. Times(s) = {}
      BY <1>1, <2>4 DEF Drafts, Converted, Numeric, Parses, Times
    <3>2. \A B \in request.subjects : i \notin B
      BY <2>1, <2>4, RequestCases, BucketsPartition DEF LineRequest, GroupRequest
    <3> QED BY <2>2, <3>1, <3>2, FS_EmptySet DEF Outputs
  <2>5. CASE i \in Drafts(answer) /\ request = LineRequest(answer)
    <3>1. request.subjects = {{j} : j \in Drafts(answer)}
      BY <2>5 DEF LineRequest
    <3>2. request.sent[i] = Converted(s)
      BY <2>5 DEF LineRequest
    <3>3. Timestamps(s, request.sent[i]) = Times(s)
      <4>1. request.sent[i] = Numeric(s)
        BY <1>1, <2>1, <2>5, <3>2, SentSamples
      <4> QED BY <2>3, <4>1
    <3>4. Members(answer, request.sent, {i}) # {} <=> Cardinality(Times(s)) >= 3
      BY <3>3 DEF Members, Analysed
    <3>5. \A B \in text.subjects : i \in B => B = {i}
      BY <2>2, <3>1 DEF Outputs
    <3>6. {i} \in text.subjects <=> Cardinality(Times(s)) >= 3
      BY <2>2, <2>5, <3>1, <3>4 DEF Outputs
    <3> QED BY <3>5, <3>6
  <2>6. CASE /\ i \in Drafts(answer)
             /\ request = GroupRequest(query, answer)
             /\ Groups(query, answer) = Buckets(query, answer)
             /\ \A B \in Buckets(query, answer) : Comparable(query, answer, B)
    <3> DEFINE B == Bucket(query, answer, i)
               common == CommonTimestamps(answer, B)
    <3>1. B \in Buckets(query, answer) /\ i \in B
      BY <2>6, BucketsPartition DEF Buckets
    <3>2. request.subjects = Buckets(query, answer)
      BY <2>6 DEF GroupRequest
    <3>3. Timestamps(s, request.sent[i]) = common /\ Cardinality(common) >= 3
      BY <2>1, <2>6, <3>1, SentOfMember
    <3>4. common \in SUBSET Times(s)
      <4>1. request.sent[i] \in SUBSET Numeric(s)
        BY <1>1, <2>1, <2>6, SentSamples
      <4> QED BY <2>3, <3>3, <4>1 DEF Timestamps
    <3>5. Cardinality(Times(s)) >= 3
      <4> HIDE DEF common
      <4> QED BY <2>3, <3>3, <3>4, FS_Subset, FS_CardinalityType
    <3>6. B \in Outputs(request, answer)
      BY <3>1, <3>2, <3>3 DEF Outputs, Members, Analysed
    <3>7. \A C \in request.subjects : i \in C => C = B
      BY <3>2, BucketsPartition
    <3>8. \A C \in text.subjects : i \in C => C = B
      BY <2>2, <3>7 DEF Outputs
    <3>9. B \in text.subjects
      BY <2>2, <3>6
    <3> HIDE DEF B
    <3> QED BY <3>1, <3>5, <3>8, <3>9
  <2> QED BY <2>1, <2>4, <2>5, <2>6, RequestCases
<1>2. IInv => NothingLeftOut
  BY <1>1 DEF NothingLeftOut
<1> QED BY <1>2, InvariantHolds, PTL
===============================================================================
