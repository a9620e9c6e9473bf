--------------------------- MODULE KernelEventsProofs ---------------------------
(***************************************************************************)
(* Theorems about KernelEvents, for every length of the series, every set  *)
(* of findings and every number of members.                                *)
(***************************************************************************)
EXTENDS KernelEvents, TLAPS, FiniteSetTheorems, WellFoundedInduction

-------------------------------------------------------------------------------
(***************************************************************************)
(* Least and greatest elements, products and images.                       *)
(***************************************************************************)

\* A set of numbers that is not empty has a least one.
LEMMA LeastExists ==
  ASSUME NEW S \in SUBSET Nat, S # {}
  PROVE  Min(S) \in S /\ \A y \in S : Min(S) <= y
<1> DEFINE R == OpToRel(<, Nat)
<1>1. IsWellFoundedOn(R, Nat)
  BY NatLessThanWellFounded
<1>2. PICK x \in S : \A y \in S : ~(<<y, x>> \in R)
  <2> HIDE DEF R
  <2> QED BY <1>1, WFMin
<1>3. \A y \in S : x <= y
  <2>1. \A y \in S : ~(y < x)
    BY <1>2 DEF OpToRel
  <2> QED BY <2>1
<1>4. \E z \in S : \A y \in S : z <= y
  BY <1>3
<1> QED BY <1>4 DEF Min

\* A finite one has a greatest: the one that has the fewest above it.
LEMMA GreatestExists ==
  ASSUME NEW S \in SUBSET Nat, S # {}, IsFiniteSet(S)
  PROVE  Max(S) \in S /\ \A y \in S : Max(S) >= y
<1> DEFINE R == OpToRel(<, Nat)
           above(x) == {y \in S : y > x}
           T == {Cardinality(above(x)) : x \in S}
<1>1. \A x \in S : IsFiniteSet(above(x)) /\ Cardinality(above(x)) \in Nat
  BY FS_Subset, FS_CardinalityType
<1>2. T \subseteq Nat /\ T # {}
  BY <1>1
<1>3. IsWellFoundedOn(R, Nat)
  BY NatLessThanWellFounded
<1>4. PICK n \in T : \A m \in T : ~(<<m, n>> \in R)
  <2> HIDE DEF R, T
  <2> QED BY <1>2, <1>3, WFMin
<1>5. PICK x \in S : n = Cardinality(above(x))
  OBVIOUS
<1>6. ASSUME NEW y \in S PROVE x >= y
  <2> SUFFICES ASSUME y > x PROVE FALSE
    OBVIOUS
  <2>1. above(y) \in SUBSET above(x) /\ above(y) # above(x)
    <3>1. y \in above(x) /\ y \notin above(y)
      OBVIOUS
    <3>2. \A z \in above(y) : z \in above(x)
      OBVIOUS
    <3> HIDE DEF above
    <3> QED BY <3>1, <3>2
  <2>2. Cardinality(above(y)) <= Cardinality(above(x)) /\ Cardinality(above(y)) # Cardinality(above(x))
    <3> HIDE DEF above
    <3> QED BY <1>1, <2>1, FS_Subset
  <2>3. Cardinality(above(y)) \in T
    OBVIOUS
  <2>4. ~(Cardinality(above(y)) < Cardinality(above(x)))
    <3> HIDE DEF above, T
    <3> QED BY <1>1, <1>2, <1>4, <1>5, <2>3 DEF OpToRel
  <2> HIDE DEF above
  <2> QED BY <1>1, <2>2, <2>4
<1>7. \E z \in S : \A y \in S : z >= y
  BY <1>6
<1> QED BY <1>7 DEF Max

\* A product of numbers is one.
LEMMA Product ==
  ASSUME NEW a \in Nat, NEW b \in Nat
  PROVE  a * b \in Nat
  BY SMTT(20)

-------------------------------------------------------------------------------
(***************************************************************************)
(* The events of a series.                                                 *)
(***************************************************************************)

GoodEvent == {e \in Event : InSamples(e)}
LineEvent == {e \in GoodEvent : e.kind \in LineKinds}

\* What makes an event.
LEMMA MakesGoodEvent ==
  ASSUME NEW k \in Kinds, NEW s \in Nat, NEW a \in Place, NEW b \in Place, a <= b,
         NEW P \in SUBSET Place
  PROVE  [kind |-> k, score |-> s, start |-> a, end |-> b, points |-> P] \in GoodEvent
<1> DEFINE r == [kind |-> k, score |-> s, start |-> a, end |-> b, points |-> P]
<1>1. Place \subseteq Int
  BY PointsAssumption DEF Place
<1>2. P \in SUBSET Int /\ a \in Int /\ b \in Int
  BY <1>1
<1>3. r \in Event
  BY <1>2 DEF Event
<1>4. r.start = a /\ r.end = b /\ r.points = P
  OBVIOUS
<1> HIDE DEF r
<1>5. InSamples(r)
  BY <1>4, PointsAssumption DEF InSamples, Place
<1>6. r \in GoodEvent
  BY <1>3, <1>5 DEF GoodEvent
<1> QED BY <1>6 DEF r

\* And what is known of one.
LEMMA GoodEventParts ==
  ASSUME NEW e \in GoodEvent
  PROVE  /\ e.kind \in Kinds /\ e.score \in Nat
         /\ e.start \in Place /\ e.end \in Place /\ e.start <= e.end
         /\ e.points \in SUBSET Place
  BY PointsAssumption DEF GoodEvent, InSamples, Place, Event

\* A regime that is not the first starts after the first sample.
LEMMA ShiftStarts ==
  ASSUME NEW cuts \in SUBSET (1 .. Points - 1), Cardinality(RegimeStarts(cuts)) >= 2
  PROVE  Min(RegimeStarts(cuts) \ {0}) \in Place
<1> DEFINE S == RegimeStarts(cuts) \ {0}
<1>1. S \subseteq 1 .. Points - 1
  BY DEF RegimeStarts
<1>2. S # {}
  <2> SUFFICES ASSUME S = {} PROVE FALSE
    OBVIOUS
  <2>1. 0 \in RegimeStarts(cuts)
    BY DEF RegimeStarts
  <2>2. RegimeStarts(cuts) = {0}
    BY <2>1
  <2>3. Cardinality(RegimeStarts(cuts)) = 1
    BY <2>2, FS_Singleton
  <2> QED BY <2>3
<1>3. S \in SUBSET Nat
  BY <1>1
<1> HIDE DEF S
<1>4. Min(S) \in S
  BY <1>2, <1>3, LeastExists
<1>5. Min(S) \in Place
  <2>1. Min(S) \in 1 .. Points - 1
    BY <1>1, <1>4
  <2> QED BY <2>1, PointsAssumption DEF Place
<1> QED BY <1>5 DEF S

\* An event lies in the samples, whatever is found.
LEMMA EventOfIsGood ==
  ASSUME NEW f \in Findings, NEW d \in f.found, Pushed(d, f.cuts)
  PROVE  EventOf(d, f.cuts) \in LineEvent
<1> DEFINE w == Window(d, f.cuts)
           P == IF d.kind = "spike" THEN d.peaks \cup {d.at} ELSE {}
<1>1. f.cuts \in SUBSET (1 .. Points - 1) /\ d \in Raw
  BY FindingsAssumption
<1>2. /\ d.kind \in LineKinds /\ d.score \in Nat /\ d.at \in Place
      /\ d.dwell \in 1 .. Points /\ d.peaks \in SUBSET Inner
  BY <1>1 DEF Raw
<1>3. w.start \in Place /\ w.end \in Place /\ w.start <= w.end
  <2>1. CASE d.kind \in {"spike", "drop"}
    <3>1. d.dwell \div 2 \in Nat
      BY <1>2, PointsAssumption
    <3> DEFINE h == d.dwell \div 2
    <3>2. w = [start |-> IF d.at > h THEN d.at - h ELSE 0,
               end |-> IF d.at + h < Points THEN d.at + h ELSE Points - 1]
      BY <2>1 DEF Window
    <3> HIDE DEF h, w
    <3>3. h \in Nat
      BY <3>1 DEF h
    <3> QED BY <1>2, <3>2, <3>3, PointsAssumption DEF Place
  <2>2. CASE d.kind = "regime_shift"
    <3>1. Min(RegimeStarts(f.cuts) \ {0}) \in Place
      BY <1>1, <2>2, ShiftStarts DEF Pushed
    <3>2. w = [start |-> Min(RegimeStarts(f.cuts) \ {0}), end |-> Points - 1]
      BY <2>2 DEF Window, Sustained
    <3> HIDE DEF w
    <3> QED BY <3>1, <3>2, PointsAssumption DEF Place
  <2>3. CASE d.kind \notin {"spike", "drop", "regime_shift"}
    <3>1. w = [start |-> IF d.kind \in Sustained THEN d.at ELSE 0, end |-> Points - 1]
      BY <2>3 DEF Window
    <3> HIDE DEF w
    <3> QED BY <1>2, <3>1, PointsAssumption DEF Place
  <2> QED BY <2>1, <2>2, <2>3
<1>4. P \in SUBSET Place
  BY <1>2, PointsAssumption DEF Inner, Place
<1>5. d.kind \in Kinds
  BY <1>2 DEF Kinds
<1>6. EventOf(d, f.cuts) = [kind |-> d.kind, score |-> d.score, start |-> w.start,
                            end |-> w.end, points |-> P]
  BY DEF EventOf
<1> HIDE DEF w, P
<1>7. EventOf(d, f.cuts) \in GoodEvent
  BY <1>2, <1>3, <1>4, <1>5, <1>6, MakesGoodEvent
<1> QED BY <1>2, <1>6, <1>7 DEF LineEvent

\* The events of a series are finitely many.
LEMMA DetectedIsGood ==
  ASSUME NEW f \in Findings
  PROVE  IsFiniteSet(Detected(f)) /\ Detected(f) \in SUBSET LineEvent
<1> DEFINE D == {e \in f.found : Pushed(e, f.cuts)}
           m == [d \in D |-> EventOf(d, f.cuts)]
<1>1. IsFiniteSet(D)
  BY FindingsAssumption, FS_Subset
<1>2. m \in Surjection(D, Detected(f))
  BY DEF Surjection, Detected
<1>3. IsFiniteSet(Detected(f))
  <2> HIDE DEF D, m
  <2> QED BY <1>1, <1>2, FS_Surjection
<1> QED BY <1>3, EventOfIsGood DEF Detected

\* The three first of a finite set of events are some of them.
LEMMA TopsAreOfTheSet ==
  ASSUME NEW S, IsFiniteSet(S), NEW q \in Tops(S)
  PROVE  q \in Seq(S) /\ RangeOf(q) \subseteq S /\ (S # {} => q # <<>>)
<1> DEFINE n == IF Cardinality(S) < 3 THEN Cardinality(S) ELSE 3
<1>1. n \in Nat /\ (S # {} => n > 0)
  BY FS_CardinalityType, FS_EmptySet
<1>2. q \in [1 .. n -> S]
  BY DEF Tops
<1> HIDE DEF n
<1>3. q \in Seq(S) /\ Len(q) = n
  BY <1>1, <1>2
<1> QED BY <1>1, <1>2, <1>3 DEF RangeOf

-------------------------------------------------------------------------------
(***************************************************************************)
(* The events of a group, and the times that are told.                     *)
(***************************************************************************)

\* A member has an event of each kind that it owns.
LEMMA OwnEventIsGood ==
  ASSUME tops \in Seq(Seq(LineEvent)), NEW k, NEW i \in Own(k)
  PROVE  OwnEvent(i, k) \in LineEvent
<1>1. i \in 1 .. Len(tops) /\ k \in KindsOf(RangeOf(tops[i]))
  BY DEF Own
<1>2. \E e \in RangeOf(tops[i]) : e.kind = k
  BY <1>1 DEF KindsOf
<1>3. OwnEvent(i, k) \in RangeOf(tops[i])
  BY <1>2 DEF OwnEvent
<1>4. tops[i] \in Seq(LineEvent)
  BY <1>1
<1>5. RangeOf(tops[i]) \subseteq LineEvent
  BY <1>4 DEF RangeOf
<1> QED BY <1>3, <1>5

\* The samples are finitely many numbers.
LEMMA PlaceType ==
  /\ Place \in SUBSET Nat
  /\ \A S \in SUBSET Place : S \in SUBSET Nat /\ IsFiniteSet(S)
<1>1. Place \in SUBSET Nat
  BY PointsAssumption DEF Place
<1>2. IsFiniteSet(Place)
  BY PointsAssumption, FS_Interval DEF Place
<1>3. \A S \in SUBSET Place : IsFiniteSet(S)
  BY <1>2, FS_Subset
<1> QED BY <1>1, <1>3

\* From the first start to the last end of events.
LEMMA HullCovers ==
  ASSUME NEW S \in SUBSET GoodEvent, S # {}
  PROVE  /\ Hull(S).start \in Place /\ Hull(S).end \in Place
         /\ Hull(S).start <= Hull(S).end
         /\ \A e \in S : Hull(S).start <= e.start /\ e.end <= Hull(S).end
         /\ \E e \in S : Hull(S).start = e.start
         /\ \E e \in S : Hull(S).end = e.end
<1> DEFINE A == {e.start : e \in S}
           B == {e.end : e \in S}
<1>1. A \in SUBSET Place /\ B \in SUBSET Place /\ A # {} /\ B # {}
  BY GoodEventParts
<1>2. \A e \in S : e.start \in A /\ e.end \in B /\ e.start <= e.end
  BY GoodEventParts
<1>3. Hull(S).start = Min(A) /\ Hull(S).end = Max(B)
  BY DEF Hull
<1>4. (\A a \in A : \E e \in S : a = e.start) /\ (\A b \in B : \E e \in S : b = e.end)
  OBVIOUS
<1> HIDE DEF A, B
<1>5. Min(A) \in A /\ \A a \in A : Min(A) <= a
  BY <1>1, PlaceType, LeastExists
<1>6. Max(B) \in B /\ \A b \in B : Max(B) >= b
  BY <1>1, PlaceType, GreatestExists
<1>7. PICK e \in S : e.start = Min(A)
  BY <1>4, <1>5
<1>8. Min(A) \in Nat /\ Max(B) \in Nat /\ e.end \in Nat /\ \A b \in B : b \in Nat
  BY <1>1, <1>2, <1>5, <1>6, PlaceType
<1>9. Min(A) <= e.end /\ e.end <= Max(B)
  BY <1>2, <1>6, <1>7, <1>8
<1>10. Min(A) <= Max(B)
  BY <1>8, <1>9
<1>11. \A d \in S : Min(A) <= d.start /\ d.end <= Max(B)
  BY <1>2, <1>5, <1>6, <1>8
<1> QED BY <1>1, <1>3, <1>4, <1>5, <1>6, <1>10, <1>11

\* The members that own a kind are finitely many.
LEMMA OwnIsFinite ==
  ASSUME tops \in Seq(Seq(LineEvent)), NEW k
  PROVE  /\ Own(k) \in SUBSET (1 .. Len(tops))
         /\ IsFiniteSet(Own(k)) /\ Cardinality(Own(k)) \in Nat
<1>1. Len(tops) \in Nat
  OBVIOUS
<1>2. IsFiniteSet(1 .. Len(tops))
  BY <1>1, FS_Interval
<1>3. Own(k) \in SUBSET (1 .. Len(tops))
  BY DEF Own
<1> QED BY <1>2, <1>3, FS_Subset, FS_CardinalityType

\* The merged score starts from the member whose event of the kind scores highest.
LEMMA MergedScoreIs ==
  ASSUME tops \in Seq(Seq(LineEvent)), NEW k, Own(k) # {}
  PROVE  \E j \in Own(k) :
           /\ MergedScore(k) = Unit * OwnEvent(j, k).score + 50 * Cardinality(Own(k))
           /\ \A i \in Own(k) : OwnEvent(i, k).score <= OwnEvent(j, k).score
<1> DEFINE scores == {OwnEvent(i, k).score : i \in Own(k)}
           m == [i \in Own(k) |-> OwnEvent(i, k).score]
<1>1. \A i \in Own(k) : OwnEvent(i, k).score \in Nat
  BY OwnEventIsGood, GoodEventParts DEF LineEvent
<1>2. scores \in SUBSET Nat /\ scores # {}
  BY <1>1
<1>3. m \in Surjection(Own(k), scores)
  BY DEF Surjection
<1>4. IsFiniteSet(scores)
  <2> HIDE DEF scores, m
  <2> QED BY <1>3, OwnIsFinite, FS_Surjection
<1>5. Max(scores) \in scores /\ \A y \in scores : Max(scores) >= y
  <2> HIDE DEF scores
  <2> QED BY <1>2, <1>4, GreatestExists
<1>6. PICK j \in Own(k) : Max(scores) = OwnEvent(j, k).score
  BY <1>5
<1>7. MergedScore(k) = Unit * Max(scores) + 50 * Cardinality(Own(k))
  BY DEF MergedScore
<1>8. \A i \in Own(k) : OwnEvent(i, k).score <= OwnEvent(j, k).score
  BY <1>1, <1>5, <1>6
<1> QED BY <1>6, <1>7, <1>8

\* What the members' events of a kind are merged into.
LEMMA MergedIsGood ==
  ASSUME tops \in Seq(Seq(LineEvent)), Len(lines) \in Nat,
         NEW k \in LineKinds, Own(k) # {}
  PROVE  Merged(k) \in GoodEvent
<1> DEFINE own == {OwnEvent(i, k) : i \in Own(k)}
           P == UNION {Moments(e) : e \in own}
<1>1. \A i \in Own(k) : OwnEvent(i, k) \in GoodEvent
  BY OwnEventIsGood DEF LineEvent
<1>2. own \in SUBSET GoodEvent /\ own # {}
  BY <1>1
<1>3. MergedScore(k) \in Nat
  <2>1. PICK j \in Own(k) :
          MergedScore(k) = Unit * OwnEvent(j, k).score + 50 * Cardinality(Own(k))
    BY MergedScoreIs
  <2>2. OwnEvent(j, k).score \in Nat /\ Unit \in Nat /\ Cardinality(Own(k)) \in Nat
    BY <1>1, OwnIsFinite, GoodEventParts DEF Unit
  <2>3. Unit * OwnEvent(j, k).score \in Nat
    BY <2>2, Product
  <2> QED BY <2>1, <2>2, <2>3
<1>4. \A e \in GoodEvent : Moments(e) \in SUBSET Place
  BY GoodEventParts DEF Moments
<1>5. P \in SUBSET Place
  BY <1>2, <1>4
<1>6. Merged(k) = [kind |-> k, score |-> MergedScore(k), start |-> Hull(own).start,
                    end |-> Hull(own).end, points |-> P]
  BY DEF Merged, Hull
<1>7. k \in Kinds
  BY DEF Kinds
<1> HIDE DEF own, P
<1>8. /\ Hull(own).start \in Place /\ Hull(own).end \in Place
       /\ Hull(own).start <= Hull(own).end
  BY <1>2, HullCovers
<1> QED BY <1>3, <1>5, <1>6, <1>7, <1>8, MakesGoodEvent

\* The period of an analysis is one, and lies in its problem range.
LEMMA PeriodIsInRange ==
  ASSUME NEW top \in Seq(GoodEvent)
  PROVE  /\ Period(top).start \in Place /\ Period(top).end \in Place
         /\ Period(top).start <= Period(top).end
         /\ \A r \in ProblemRange(top) :
              /\ r.start \in Place /\ r.end \in Place
              /\ r.start <= Period(top).start /\ Period(top).end <= r.end
<1> DEFINE S == RangeOf(top)
           F == {e \in S : e.start < e.end /\ e.kind \notin Trends}
<1>1. S \in SUBSET GoodEvent
  BY DEF RangeOf
<1>2. top # <<>> => top[1] \in S
  BY DEF RangeOf
<1>3. ProblemRange(top) = IF top = <<>> THEN {} ELSE {Hull(S)}
  BY DEF ProblemRange
<1>4. Period(top) = IF F # {} THEN Hull(F)
                    ELSE IF top # <<>> THEN Hull({top[1]})
                    ELSE [start |-> 0, end |-> Points - 1]
  BY DEF Period
<1>5. F \in SUBSET S /\ (F # {} => top # <<>>)
  BY DEF RangeOf
<1> HIDE DEF S, F
<1>6. ASSUME NEW T \in SUBSET S, T # {}
      PROVE  /\ Hull(T).start \in Place /\ Hull(T).end \in Place
             /\ Hull(T).start <= Hull(T).end
             /\ Hull(S).start \in Place /\ Hull(S).end \in Place
             /\ Hull(S).start <= Hull(T).start /\ Hull(T).end <= Hull(S).end
  <2>1. S # {} /\ T \in SUBSET GoodEvent
    BY <1>1, <1>6
  <2>2. PICK a \in T : Hull(T).start = a.start
    BY <1>6, <2>1, HullCovers
  <2>3. PICK b \in T : Hull(T).end = b.end
    BY <1>6, <2>1, HullCovers
  <2>4. Hull(S).start <= a.start /\ b.end <= Hull(S).end
    BY <1>1, <2>1, HullCovers
  <2> QED BY <1>1, <1>6, <2>1, <2>2, <2>3, <2>4, HullCovers
<1>7. CASE F # {}
  <2>1. Period(top) = Hull(F) /\ ProblemRange(top) = {Hull(S)}
    BY <1>3, <1>4, <1>5, <1>7
  <2> QED BY <1>5, <1>6, <1>7, <2>1
<1>8. CASE F = {} /\ top # <<>>
  <2>1. Period(top) = Hull({top[1]}) /\ ProblemRange(top) = {Hull(S)}
    BY <1>3, <1>4, <1>8
  <2> QED BY <1>2, <1>6, <1>8, <2>1
<1>9. CASE F = {} /\ top = <<>>
  <2>1. Period(top) = [start |-> 0, end |-> Points - 1] /\ ProblemRange(top) = {}
    BY <1>3, <1>4, <1>9
  <2> QED BY <2>1, PointsAssumption DEF Place
<1> QED BY <1>7, <1>8, <1>9

-------------------------------------------------------------------------------
(***************************************************************************)
(* The invariant.                                                          *)
(***************************************************************************)

Inputs ==
  /\ lines \in Seq(Findings) /\ Len(lines) \in 1 .. MaxMembers
  /\ whole \in Findings

Lines ==
  /\ tops \in Seq(Seq(LineEvent)) /\ Len(tops) <= Len(lines)
  /\ pc = "lines" => Len(tops) < Len(lines)

Merging ==
  /\ events \in SUBSET GoodEvent /\ IsFiniteSet(events)
  /\ seen \subseteq LineKinds

Results ==
  /\ analysis.state \in States /\ analysis.top \in Seq(GoodEvent)
  /\ period \in Interval /\ range \subseteq Interval
  /\ pc = "done" => period = Period(analysis.top) /\ range = ProblemRange(analysis.top)

IInv ==
  /\ Inputs
  /\ pc \in {"lines", "by_kind", "average", "peer", "cut", "project", "done"}
  /\ Lines
  /\ Merging
  /\ Results

LEMMA IntervalMember ==
  ASSUME NEW a \in Int, NEW b \in Int
  PROVE  [start |-> a, end |-> b] \in Interval
  BY DEF Interval

LEMMA InitInvariant == Init => IInv
<1> SUFFICES ASSUME Init PROVE IInv
  OBVIOUS
<1>1. PICK n \in 1 .. MaxMembers : lines \in [1 .. n -> Findings]
  BY DEF Init
<1>2. n \in Nat
  BY <1>1, MaxMembersAssumption
<1>3. lines \in Seq(Findings) /\ Len(lines) = n
  BY <1>1, <1>2
<1>4. Inputs
  BY <1>1, <1>3 DEF Inputs, Init
<1>5. Lines
  BY <1>2, <1>3, <1>1, MaxMembersAssumption DEF Lines, Init
<1>6. Merging
  BY FS_EmptySet DEF Merging, Init
<1>7. Results
  <2>1. period \in Interval
    BY IntervalMember DEF Init
  <2>2. analysis.state \in States /\ analysis.top \in Seq(GoodEvent)
    BY DEF Init, States
  <2> QED BY <2>1, <2>2 DEF Results, Init
<1> QED BY <1>4, <1>5, <1>6, <1>7 DEF IInv, Init

LEMMA StatesOf == \A S : StateOf(S) \in States
  BY DEF StateOf, States

\* An analysed line.
LEMMA AnalyzeLineKeepsIInv == IInv /\ AnalyzeLine => IInv'
<1> SUFFICES ASSUME IInv, AnalyzeLine PROVE IInv'
  OBVIOUS
<1> DEFINE f == lines[Len(tops) + 1]
<1>1. f \in Findings
  BY DEF IInv, Inputs, Lines, AnalyzeLine
<1>2. PICK top \in Tops(Detected(f)) :
        /\ tops' = Append(tops, top)
        /\ analysis' = IF Group THEN analysis
                       ELSE [state |-> StateOf(Detected(f)), top |-> top]
  BY DEF AnalyzeLine
<1>3. top \in Seq(LineEvent)
  <2>1. top \in Seq(Detected(f))
    BY <1>1, DetectedIsGood, TopsAreOfTheSet
  <2> QED BY <1>1, <2>1, DetectedIsGood
<1>4. top \in Seq(GoodEvent)
  BY <1>3 DEF LineEvent
<1>5. /\ Len(lines) \in Nat /\ Len(tops) \in Nat /\ Len(tops) < Len(lines)
      /\ tops' \in Seq(Seq(LineEvent)) /\ Len(tops') = Len(tops) + 1
  BY <1>2, <1>3 DEF IInv, Inputs, Lines, AnalyzeLine
<1>6. Inputs'
  BY DEF IInv, Inputs, AnalyzeLine
<1>7. Lines'
  BY <1>5 DEF Lines, AnalyzeLine
<1>8. Merging'
  BY DEF IInv, Merging, AnalyzeLine
<1>9. Results'
  <2>1. analysis'.state \in States /\ analysis'.top \in Seq(GoodEvent)
    <3>1. CASE Group
      BY <1>2, <3>1 DEF IInv, Results
    <3>2. CASE ~Group
      BY <1>2, <1>4, <3>2, StatesOf
    <3> QED BY <3>1, <3>2
  <2>2. pc' # "done"
    BY DEF AnalyzeLine
  <2> QED BY <2>1, <2>2 DEF IInv, Results, AnalyzeLine, Interval
<1>10. pc' \in {"lines", "by_kind", "project"}
  BY DEF AnalyzeLine
<1> QED BY <1>6, <1>7, <1>8, <1>9, <1>10 DEF IInv

\* An event with another score and other time points.
LEMMA ChangedEvent ==
  ASSUME NEW f \in Event, NEW s, NEW P
  PROVE  [f EXCEPT !.score = s, !.points = P] =
           [kind |-> f.kind, score |-> s, start |-> f.start, end |-> f.end, points |-> P]
<1> DEFINE g == [f EXCEPT !.score = s]
           r == [kind |-> f.kind, score |-> s, start |-> f.start, end |-> f.end,
                 points |-> f.points]
<1>1. g = r
  BY DEF Event
<1>2. [f EXCEPT !.score = s, !.points = P] = [g EXCEPT !.points = P]
  BY Zenon DEF Event
<1>3. [r EXCEPT !.points = P] =
        [kind |-> f.kind, score |-> s, start |-> f.start, end |-> f.end, points |-> P]
  OBVIOUS
<1> QED BY <1>1, <1>2, <1>3

\* What supports an event raises its score and adds its own moments; an event of
\* the average alone keeps all but its score.
LEMMA SupportedParts ==
  ASSUME NEW f \in Event, NEW e
  PROVE  Supported(f, e) = [kind |-> f.kind, score |-> f.score + 7 * Len(lines) * e.score,
                            start |-> f.start, end |-> f.end, points |-> f.points \cup e.points]
<1> DEFINE s == f.score + 7 * Len(lines) * e.score
           P == f.points \cup e.points
<1>1. Supported(f, e) = [f EXCEPT !.score = s, !.points = P]
  BY DEF Supported, Event
<1> HIDE DEF s, P
<1>2. Supported(f, e) = [kind |-> f.kind, score |-> s, start |-> f.start, end |-> f.end,
                         points |-> P]
  BY <1>1, ChangedEvent
<1> QED BY <1>2 DEF s, P

LEMMA AloneParts ==
  ASSUME NEW e \in Event
  PROVE  Alone(e) = [kind |-> e.kind, score |-> Unit * e.score, start |-> e.start,
                     end |-> e.end, points |-> e.points]
  BY DEF Alone, Event

\* A merged event of the average.
LEMMA MergeAverageKeepsIInv ==
  ASSUME IInv, NEW e \in Detected(whole), MergeAverage(e)
  PROVE  IInv'
<1> DEFINE g(f) == Supported(f, e)
           h(f) == IF f.kind = e.kind THEN g(f) ELSE f
           m == [f \in events |-> h(f)]
<1>1. Len(lines) \in Nat /\ e \in LineEvent /\ e \in GoodEvent
  BY DetectedIsGood DEF IInv, Inputs, LineEvent
<1>2. e.kind \in LineKinds /\ e.score \in Nat
  BY <1>1, GoodEventParts DEF LineEvent
<1>3. \A f \in events : g(f) \in GoodEvent
  <2> SUFFICES ASSUME NEW f \in events PROVE g(f) \in GoodEvent
    OBVIOUS
  <2>1. f \in GoodEvent /\ f \in Event
    BY DEF IInv, Merging, GoodEvent
  <2>2. 7 * Len(lines) * e.score \in Nat
    <3>1. 7 * Len(lines) \in Nat
      BY <1>1
    <3> QED BY <1>2, <3>1, Product
  <2>3. f.score + 7 * Len(lines) * e.score \in Nat
    BY <2>1, <2>2, GoodEventParts
  <2>4. g(f) = [kind |-> f.kind, score |-> f.score + 7 * Len(lines) * e.score,
                start |-> f.start, end |-> f.end, points |-> f.points \cup e.points]
    BY <2>1, SupportedParts
  <2>5. f.points \cup e.points \in SUBSET Place
    BY <1>1, <2>1, GoodEventParts
  <2> HIDE DEF g
  <2> QED BY <2>1, <2>3, <2>4, <2>5, GoodEventParts, MakesGoodEvent
<1>4. ASSUME e.kind \in KindsOf(events)
      PROVE  IsFiniteSet(events') /\ events' \in SUBSET GoodEvent
  <2>1. events' = {h(f) : f \in events}
    BY <1>4 DEF MergeAverage
  <2>2. m \in Surjection(events, events')
    BY <2>1 DEF Surjection
  <2>3. IsFiniteSet(events')
    <3> HIDE DEF m
    <3> QED BY <2>2, FS_Surjection DEF IInv, Merging
  <2>4. \A f \in events : h(f) \in GoodEvent
    <3> HIDE DEF g
    <3> QED BY <1>3 DEF IInv, Merging
  <2> HIDE DEF h
  <2>5. events' \in SUBSET GoodEvent
    BY <2>1, <2>4
  <2> QED BY <2>3, <2>5
<1>5. ASSUME e.kind \notin KindsOf(events)
      PROVE  IsFiniteSet(events') /\ events' \in SUBSET GoodEvent
  <2> DEFINE n == Alone(e)
  <2>1. events' = events \cup {n}
    BY <1>5 DEF MergeAverage
  <2>2. Unit * e.score \in Nat
    BY <1>1, <1>2, Product DEF Unit
  <2>3. e \in Event
    BY <1>1 DEF GoodEvent
  <2>4. n = [kind |-> e.kind, score |-> Unit * e.score, start |-> e.start, end |-> e.end,
             points |-> e.points]
    BY <2>3, AloneParts
  <2> HIDE DEF n
  <2>5. n \in GoodEvent
    BY <1>1, <2>2, <2>4, GoodEventParts, MakesGoodEvent
  <2>6. IsFiniteSet(events') /\ events' \in SUBSET GoodEvent
    BY <2>1, <2>5, FS_AddElement DEF IInv, Merging
  <2> QED BY <2>6
<1>6. IsFiniteSet(events') /\ events' \in SUBSET GoodEvent
  BY <1>4, <1>5
<1>7. Merging'
  BY <1>2, <1>6 DEF IInv, Merging, MergeAverage
<1>8. Inputs' /\ Lines' /\ Results'
  BY DEF IInv, Inputs, Lines, Results, MergeAverage, Interval
<1>9. pc' = pc
  BY DEF MergeAverage
<1> QED BY <1>7, <1>8, <1>9 DEF IInv

\* The invariant is inductive.
LEMMA NextInvariant == IInv /\ [Next]_vars => IInv'
<1> SUFFICES ASSUME IInv, [Next]_vars PROVE IInv'
  OBVIOUS
<1>1. CASE AnalyzeLine
  BY <1>1, AnalyzeLineKeepsIInv
<1>2. ASSUME NEW k \in LineKinds, MergeKind(k) PROVE IInv'
  <2>1. Merged(k) \in GoodEvent
    BY <1>2, MergedIsGood DEF IInv, Inputs, Lines, MergeKind
  <2>2. Merging'
    BY <1>2, <2>1, FS_AddElement DEF IInv, Merging, MergeKind
  <2>3. Inputs' /\ Lines' /\ Results'
    BY <1>2 DEF IInv, Inputs, Lines, Results, MergeKind, Interval
  <2> QED BY <1>2, <2>2, <2>3 DEF IInv, MergeKind
<1>3. CASE KindsMerged
  BY <1>3 DEF IInv, Inputs, Lines, Merging, Results, KindsMerged, Interval
<1>4. ASSUME NEW e \in Detected(whole), MergeAverage(e) PROVE IInv'
  BY <1>4, MergeAverageKeepsIInv
<1>5. CASE AverageMerged
  BY <1>5 DEF IInv, Inputs, Lines, Merging, Results, AverageMerged, Interval
<1>6. CASE Imbalance
  <2>1. PICK s \in PeerScores :
          events' = events \cup {[kind |-> "peer_imbalance", score |-> Unit * s,
                                  start |-> 0, end |-> Points - 1, points |-> {}]}
    BY <1>6 DEF Imbalance
  <2>2. Unit * s \in Nat
    BY PeerScoresAssumption, Product DEF IInv, Inputs, Unit
  <2>3. /\ "peer_imbalance" \in Kinds /\ 0 \in Place /\ Points - 1 \in Place
        /\ 0 <= Points - 1
    BY PointsAssumption DEF Kinds, Place
  <2>4. [kind |-> "peer_imbalance", score |-> Unit * s,
         start |-> 0, end |-> Points - 1, points |-> {}] \in GoodEvent
    BY <2>2, <2>3, MakesGoodEvent
  <2>5. Merging'
    BY <1>6, <2>1, <2>4, FS_AddElement DEF IInv, Merging, Imbalance
  <2>6. Inputs' /\ Lines' /\ Results'
    BY <1>6 DEF IInv, Inputs, Lines, Results, Imbalance, Interval
  <2> QED BY <1>6, <2>5, <2>6 DEF IInv, Imbalance
<1>7. CASE Balance
  BY <1>7 DEF IInv, Inputs, Lines, Merging, Results, Balance, Interval
<1>8. CASE Cut
  <2>1. PICK top \in Tops(events) :
          analysis' = [state |-> StateOf(RangeOf(top)), top |-> top]
    BY <1>8 DEF Cut
  <2>2. top \in Seq(GoodEvent)
    <3>1. top \in Seq(events)
      BY TopsAreOfTheSet DEF IInv, Merging
    <3> QED BY <3>1 DEF IInv, Merging
  <2>3. analysis'.state \in States /\ analysis'.top \in Seq(GoodEvent)
    BY <2>1, <2>2, StatesOf
  <2>4. Results'
    BY <1>8, <2>3 DEF IInv, Results, Cut, Interval
  <2>5. Inputs' /\ Lines' /\ Merging'
    BY <1>8 DEF IInv, Inputs, Lines, Merging, Cut
  <2> QED BY <1>8, <2>4, <2>5 DEF IInv, Cut
<1>9. CASE Project
  <2> DEFINE top == analysis.top
  <2>1. top \in Seq(GoodEvent)
    BY DEF IInv, Results
  <2>2. Period(top) \in Interval /\ ProblemRange(top) \subseteq Interval
    <3>1. \A S \in SUBSET GoodEvent : S # {} => Hull(S) \in Interval
      <4> SUFFICES ASSUME NEW S \in SUBSET GoodEvent, S # {}
                   PROVE  Hull(S) \in Interval
        OBVIOUS
      <4>1. Hull(S) = [start |-> Hull(S).start, end |-> Hull(S).end]
        BY DEF Hull
      <4>2. Hull(S).start \in Int /\ Hull(S).end \in Int
        <5>1. Hull(S).start \in Place /\ Hull(S).end \in Place
          BY HullCovers
        <5>2. Place \subseteq Int
          BY PlaceType
        <5> QED BY <5>1, <5>2
      <4> QED BY <4>1, <4>2, IntervalMember
    <3>2. [start |-> 0, end |-> Points - 1] \in Interval
      BY PointsAssumption, IntervalMember
    <3> HIDE DEF top
    <3>3. RangeOf(top) \in SUBSET GoodEvent
      BY <2>1 DEF RangeOf
    <3>4. top # <<>> => RangeOf(top) # {} /\ top[1] \in GoodEvent
      BY <2>1 DEF RangeOf
    <3> QED BY <3>1, <3>2, <3>3, <3>4 DEF Period, ProblemRange
  <2>3. Results'
    BY <1>9, <2>2 DEF IInv, Results, Project, Interval
  <2>4. Inputs' /\ Lines' /\ Merging'
    BY <1>9 DEF IInv, Inputs, Lines, Merging, Project
  <2> QED BY <1>9, <2>3, <2>4 DEF IInv, Project
<1>10. CASE Done \/ UNCHANGED vars
  BY <1>10 DEF IInv, Inputs, Lines, Merging, Results, Done, vars, Interval
<1> QED BY <1>1, <1>2, <1>3, <1>4, <1>5, <1>6, <1>7, <1>8, <1>9, <1>10 DEF Next

LEMMA Invariance == Spec => []IInv
  BY InitInvariant, NextInvariant, PTL DEF Spec

-------------------------------------------------------------------------------
(***************************************************************************)
(* The ranking.                                                            *)
(***************************************************************************)

DistinctKinds(S) == \A e, f \in S : e.kind = f.kind => e = f

LEMMA PriorityType ==
  /\ \A k \in Kinds : Priority[k] \in 0 .. 8
  /\ \A k, l \in Kinds : Priority[k] = Priority[l] => k = l
  BY DEF Priority, Kinds, LineKinds, Sustained, Trends

\* The order of the events is that of their keys, which are the kinds' own.
LEMMA KeysRank ==
  ASSUME NEW e \in GoodEvent, NEW f \in GoodEvent
  PROVE  /\ Key(e) \in Int /\ Key(e) + 8 \in Nat
         /\ Key(f) > Key(e) <=> Before(f, e)
         /\ Key(e) = Key(f) => e.kind = f.kind
<1>1. /\ e.score \in Nat /\ f.score \in Nat /\ e.kind \in Kinds /\ f.kind \in Kinds
  BY GoodEventParts
<1>2. Priority[e.kind] \in 0 .. 8 /\ Priority[f.kind] \in 0 .. 8
  BY <1>1, PriorityType
<1>3. Key(e) = 10 * e.score - Priority[e.kind] /\ Key(f) = 10 * f.score - Priority[f.kind]
  BY DEF Key
<1>4. Key(e) = Key(f) => Priority[e.kind] = Priority[f.kind]
  BY <1>1, <1>2, <1>3
<1>5. Key(f) > Key(e) <=> Before(f, e)
  BY <1>1, <1>2, <1>3 DEF Before
<1> QED BY <1>1, <1>2, <1>3, <1>4, <1>5, PriorityType

\* The events that rank above one.
Above(S, e) == {f \in S : Key(f) > Key(e)}

\* Of events of distinct kinds no two have equally many above them.
LEMMA RanksDiffer ==
  ASSUME NEW S \in SUBSET GoodEvent, IsFiniteSet(S), DistinctKinds(S),
         NEW e \in S, NEW f \in S, Cardinality(Above(S, e)) = Cardinality(Above(S, f))
  PROVE  e = f
<1>1. \A d \in S : IsFiniteSet(Above(S, d)) /\ Cardinality(Above(S, d)) \in Nat
  BY FS_Subset, FS_CardinalityType DEF Above
<1>2. ASSUME NEW c \in S, NEW d \in S, Key(c) > Key(d)
      PROVE  Cardinality(Above(S, c)) < Cardinality(Above(S, d))
  <2>1. \A x \in S : Key(x) \in Int
    BY KeysRank
  <2>2. Above(S, c) \in SUBSET Above(S, d) /\ c \in Above(S, d) /\ c \notin Above(S, c)
    BY <1>2, <2>1 DEF Above
  <2>3. /\ Cardinality(Above(S, c)) <= Cardinality(Above(S, d))
        /\ Cardinality(Above(S, c)) # Cardinality(Above(S, d))
    BY <1>1, <2>2, FS_Subset
  <2> QED BY <1>1, <2>3
<1>3. Key(e) \in Int /\ Key(f) \in Int /\ (Key(e) = Key(f) => e.kind = f.kind)
  BY KeysRank
<1>4. ~(Key(e) > Key(f)) /\ ~(Key(f) > Key(e))
  BY <1>1, <1>2
<1> QED BY <1>3, <1>4 DEF DistinctKinds

\* Counting one and two.
LEMMA OneAndTwo ==
  ASSUME NEW a, NEW b, a # b
  PROVE  Cardinality({a}) = 1 /\ Cardinality({a, b}) = 2
<1>1. IsFiniteSet({a}) /\ Cardinality({a}) = 1
  BY FS_Singleton
<1>2. b \notin {a} /\ {a} \cup {b} = {a, b}
  OBVIOUS
<1>3. Cardinality({a} \cup {b}) = Cardinality({a}) + 1
  BY <1>1, <1>2, FS_AddElement
<1> QED BY <1>1, <1>2, <1>3

\* The three first are ranked, whatever order the map gave the events in.
LEMMA TopsAreRanked ==
  ASSUME NEW S \in SUBSET GoodEvent, IsFiniteSet(S), DistinctKinds(S), NEW q \in Tops(S)
  PROVE  q = Ranked(S)
<1> DEFINE n == IF Cardinality(S) < 3 THEN Cardinality(S) ELSE 3
<1>1. n \in 0 .. 3
  BY FS_CardinalityType
<1>2. /\ q \in [1 .. n -> S]
      /\ \A i, j \in 1 .. n : i < j => q[i] # q[j] /\ ~Before(q[j], q[i])
      /\ \A e \in S : \A i \in 1 .. n :
           (\A j \in 1 .. n : q[j] # e) => ~Before(e, q[i])
  BY DEF Tops
<1>3. Ranked(S) = [m \in 1 .. n |-> CHOOSE e \in S : Cardinality(Above(S, e)) = m - 1]
  BY DEF Ranked, Above
<1> HIDE DEF n
<1>4. ASSUME NEW i \in 1 .. n PROVE Above(S, q[i]) = {q[j] : j \in 1 .. (i - 1)}
  <2>1. i \in Int /\ q[i] \in S /\ q[i] \in GoodEvent
    BY <1>1, <1>2
  <2>2. ASSUME NEW j \in 1 .. (i - 1) PROVE q[j] \in Above(S, q[i])
    <3>1. j \in 1 .. n /\ j < i
      BY <1>1
    <3>2. q[j] \in S /\ q[j] # q[i] /\ ~Before(q[i], q[j])
      BY <1>2, <3>1
    <3>3. /\ Key(q[i]) \in Int /\ Key(q[j]) \in Int
          /\ ~(Key(q[i]) > Key(q[j])) /\ Key(q[i]) # Key(q[j])
      BY <2>1, <3>2, KeysRank DEF DistinctKinds
    <3> QED BY <3>2, <3>3 DEF Above
  <2>3. ASSUME NEW f \in Above(S, q[i]) PROVE \E j \in 1 .. (i - 1) : f = q[j]
    <3>1. f \in S /\ Before(f, q[i]) /\ Key(f) > Key(q[i])
      BY <2>1, <2>3, KeysRank DEF Above
    <3>2. PICK j \in 1 .. n : q[j] = f
      BY <1>2, <3>1
    <3>3. ~(i < j)
      BY <1>2, <3>1, <3>2
    <3>4. i # j
      BY <2>1, <3>1, <3>2, KeysRank
    <3> QED BY <1>1, <3>2, <3>3, <3>4
  <2> QED BY <2>2, <2>3
<1>5. ASSUME NEW i \in 1 .. n PROVE Cardinality(Above(S, q[i])) = i - 1
  <2>1. CASE i = 1
    <3>1. Above(S, q[i]) = {}
      BY <1>4, <2>1
    <3> QED BY <2>1, <3>1, FS_EmptySet
  <2>2. CASE i = 2
    <3>1. Above(S, q[i]) = {q[1]}
      BY <1>4, <2>2
    <3>2. Cardinality({q[1]}) = 1
      BY FS_Singleton
    <3> QED BY <2>2, <3>1, <3>2
  <2>3. CASE i = 3
    <3>1. Above(S, q[i]) = {q[1], q[2]}
      BY <1>4, <2>3
    <3>2. q[1] # q[2]
      BY <1>1, <1>2, <2>3
    <3>3. Cardinality({q[1], q[2]}) = 2
      BY <3>2, OneAndTwo
    <3> QED BY <2>3, <3>1, <3>3
  <2> QED BY <1>1, <2>1, <2>2, <2>3
<1>6. ASSUME NEW i \in 1 .. n
      PROVE  q[i] = CHOOSE e \in S : Cardinality(Above(S, e)) = i - 1
  <2>1. q[i] \in S /\ Cardinality(Above(S, q[i])) = i - 1
    BY <1>2, <1>5
  <2>2. \A e \in S : Cardinality(Above(S, e)) = i - 1 => e = q[i]
    BY <2>1, RanksDiffer
  <2> QED BY <2>1, <2>2
<1> QED BY <1>2, <1>3, <1>6

\* The first of the ranking is before all others.
LEMMA FirstIsBeforeOthers ==
  ASSUME NEW S \in SUBSET GoodEvent, IsFiniteSet(S), DistinctKinds(S), S # {}
  PROVE  /\ Ranked(S)[1] \in S
         /\ \A f \in S : f # Ranked(S)[1] => Before(Ranked(S)[1], f)
<1> DEFINE first == Ranked(S)[1]
           K == {Key(e) + 8 : e \in S}
           m == [e \in S |-> Key(e) + 8]
<1>1. Cardinality(S) \in Nat \ {0}
  BY FS_CardinalityType, FS_EmptySet
<1>2. first = CHOOSE e \in S : Cardinality(Above(S, e)) = 0
  <2> DEFINE n == IF Cardinality(S) < 3 THEN Cardinality(S) ELSE 3
             choice(r) == CHOOSE e \in S : Cardinality(Above(S, e)) = r - 1
  <2>1. Ranked(S) = [r \in 1 .. n |-> choice(r)]
    BY DEF Ranked, Above
  <2>2. 1 \in 1 .. n
    BY <1>1
  <2> HIDE DEF n, choice
  <2>3. first = choice(1)
    BY <2>1, <2>2
  <2>4. choice(1) = CHOOSE e \in S : Cardinality(Above(S, e)) = 1 - 1
    BY DEF choice
  <2> QED BY <2>3, <2>4
<1>3. \E e \in S : \A f \in S : Key(f) <= Key(e)
  <2>1. K \in SUBSET Nat /\ K # {}
    BY KeysRank
  <2>2. m \in Surjection(S, K)
    BY DEF Surjection
  <2> HIDE DEF m
  <2>3. IsFiniteSet(K)
    <3> HIDE DEF K
    <3> QED BY <2>2, FS_Surjection
  <2>4. PICK e \in S : Max(K) = Key(e) + 8 /\ \A y \in K : Max(K) >= y
    <3>1. Max(K) \in K /\ \A y \in K : Max(K) >= y
      <4> HIDE DEF K
      <4> QED BY <2>1, <2>3, GreatestExists
    <3> QED BY <3>1
  <2>5. \A f \in S : Key(e) + 8 >= Key(f) + 8 /\ Key(f) \in Int /\ Key(e) \in Int
    BY <2>4, KeysRank
  <2> QED BY <2>5
<1>4. first \in S /\ Cardinality(Above(S, first)) = 0
  <2>1. PICK e \in S : \A f \in S : Key(f) <= Key(e)
    BY <1>3
  <2>2. Above(S, e) = {}
    BY <2>1, KeysRank DEF Above
  <2>3. Cardinality(Above(S, e)) = 0
    BY <2>2, FS_EmptySet
  <2> QED BY <1>2, <2>3
<1>5. Above(S, first) = {}
  BY <1>4, FS_Subset, FS_EmptySet DEF Above
<1>6. ASSUME NEW f \in S, f # first PROVE Before(first, f)
  <2>1. /\ Key(f) \in Int /\ Key(first) \in Int /\ Key(f) # Key(first)
    BY <1>4, <1>6, KeysRank DEF DistinctKinds
  <2>2. ~(Key(f) > Key(first))
    BY <1>5 DEF Above
  <2>3. Key(first) > Key(f)
    BY <2>1, <2>2
  <2> QED BY <1>4, <2>3, KeysRank
<1> QED BY <1>4, <1>6

-------------------------------------------------------------------------------
(***************************************************************************)
(* The merging of a group, kind by kind.                                   *)
(***************************************************************************)

\* The lines' top events are their three first, and all lines have theirs before
\* anything is merged.
Shown ==
  /\ \A i \in 1 .. Len(tops) : tops[i] \in Tops(Detected(lines[i]))
  /\ pc # "lines" => Len(tops) = Len(lines)
  /\ pc \in {"by_kind", "average", "peer", "cut"} => Group

\* The events of a group are first the members', then supported or joined by the
\* average's, then complete.
OfKind(k) == {e \in events : e.kind = k}
MembersOnly(k) == IF Own(k) = {} THEN {} ELSE {Merged(k)}
Complete == \A k \in LineKinds : OfKind(k) = Total(k)

Grouping ==
  /\ DistinctKinds(events)
  /\ pc \in {"lines", "by_kind"} => seen = {}
  /\ pc = "lines" => events = {}
  /\ pc = "by_kind" =>
       \A e \in events : e.kind \in LineKinds /\ Own(e.kind) # {} /\ e = Merged(e.kind)
  /\ pc \in {"average", "peer"} => KindsOf(events) \subseteq LineKinds
  /\ pc = "average" =>
       \A k \in LineKinds : OfKind(k) = IF k \in seen THEN Total(k) ELSE MembersOnly(k)
  /\ pc \in {"peer", "cut", "project", "done"} /\ Group => Complete
  /\ pc \in {"project", "done"} /\ Group => analysis.top \in Tops(events)

GInv == IInv /\ Shown /\ Grouping

\* A series has an event of a kind at most.
LEMMA DetectedKinds ==
  ASSUME NEW f \in Findings
  PROVE  DistinctKinds(Detected(f))
<1> SUFFICES ASSUME NEW a \in Detected(f), NEW b \in Detected(f), a.kind = b.kind
             PROVE  a = b
  BY DEF DistinctKinds
<1>1. PICK c \in f.found : a = EventOf(c, f.cuts)
  BY DEF Detected
<1>2. PICK d \in f.found : b = EventOf(d, f.cuts)
  BY DEF Detected
<1>3. c.kind = d.kind
  BY <1>1, <1>2 DEF EventOf
<1>4. c = d
  BY <1>3, FindingsAssumption
<1> QED BY <1>1, <1>2, <1>4

\* What the members and the average make of a kind changes with them only.
LEMMA SameInputs ==
  ASSUME UNCHANGED <<lines, whole, tops>>, NEW k
  PROVE  /\ Own(k)' = Own(k) /\ Merged(k)' = Merged(k) /\ Total(k)' = Total(k)
         /\ MembersOnly(k)' = MembersOnly(k) /\ Group' = Group
<1>1. Own(k)' = Own(k)
  BY DEF Own
<1>2. Merged(k)' = Merged(k)
  BY <1>1 DEF Merged, MergedScore, OwnEvent, Unit
<1>3. Total(k)' = Total(k)
  BY <1>1, <1>2 DEF Total, Supported, Alone, Unit
<1> QED BY <1>1, <1>2, <1>3 DEF MembersOnly, Group

\* The lines are not analysed again.
LEMMA ShownStays ==
  ASSUME Shown, pc # "lines", UNCHANGED <<lines, tops>>,
         pc' \in {"by_kind", "average", "peer", "cut"} =>
           pc \in {"by_kind", "average", "peer", "cut"}
  PROVE  Shown'
<1>1. \A i \in 1 .. Len(tops') : tops'[i] \in Tops(Detected(lines'[i]))
  BY DEF Shown
<1>2. Len(tops') = Len(lines') /\ (Group' <=> Group)
  BY DEF Shown, Group
<1> QED BY <1>1, <1>2 DEF Shown

LEMMA MergedKind == \A k : Merged(k).kind = k
  BY DEF Merged

\* A merged event of a member's kind.
LEMMA MergeKindGroups ==
  ASSUME GInv, NEW k \in LineKinds, MergeKind(k)
  PROVE  Shown' /\ Grouping'
<1>1. UNCHANGED <<lines, whole, tops, pc, seen, analysis>> /\ pc = "by_kind"
  BY DEF MergeKind
<1>2. /\ \A l : Own(l)' = Own(l) /\ Merged(l)' = Merged(l)
      /\ Group' = Group
  BY <1>1, SameInputs
<1>3. Shown'
  BY <1>1, ShownStays DEF GInv
<1>4. events' = events \cup {Merged(k)} /\ \A e \in events : e.kind # k
  BY DEF MergeKind, KindsOf
<1>5. DistinctKinds(events')
  BY <1>4, MergedKind DEF GInv, Grouping, DistinctKinds
<1>6. \A e \in events' : e.kind \in LineKinds /\ Own(e.kind) # {} /\ e = Merged(e.kind)
  BY <1>1, <1>4, MergedKind DEF GInv, Grouping, MergeKind
<1> QED BY <1>1, <1>2, <1>3, <1>5, <1>6 DEF GInv, Grouping, DistinctKinds

\* All members' events are merged.
LEMMA KindsMergedGroups ==
  ASSUME GInv, KindsMerged
  PROVE  Shown' /\ Grouping'
<1>1. /\ UNCHANGED <<lines, whole, tops, seen, events, analysis>>
      /\ pc = "by_kind" /\ pc' = "average"
  BY DEF KindsMerged
<1>2. /\ \A l : MembersOnly(l)' = MembersOnly(l) /\ Total(l)' = Total(l)
      /\ Group' = Group
  BY <1>1, SameInputs
<1>3. Shown'
  BY <1>1, ShownStays DEF GInv
<1>4. ASSUME NEW k \in LineKinds PROVE OfKind(k) = MembersOnly(k)
  <2>1. \A e \in events : Own(e.kind) # {} /\ e = Merged(e.kind)
    BY <1>1 DEF GInv, Grouping
  <2>2. CASE Own(k) = {}
    BY <2>1, <2>2 DEF OfKind, MembersOnly
  <2>3. CASE Own(k) # {}
    <3>1. PICK e \in events : e.kind = k
      BY <2>3 DEF KindsMerged, KindsOf
    <3> QED BY <2>1, <2>3, <3>1 DEF OfKind, MembersOnly
  <2> QED BY <2>2, <2>3
<1>5. \A k \in LineKinds : OfKind(k)' = MembersOnly(k)'
  BY <1>1, <1>2, <1>4 DEF OfKind
<1>6. KindsOf(events) \subseteq LineKinds /\ seen = {} /\ DistinctKinds(events)
  BY <1>1 DEF GInv, Grouping, KindsOf
<1> QED BY <1>1, <1>3, <1>5, <1>6 DEF Grouping, DistinctKinds, KindsOf

\* The average has one event of a kind that it has.
LEMMA AverageKind ==
  ASSUME GInv, NEW e \in Detected(whole)
  PROVE  {d \in Detected(whole) : d.kind = e.kind} = {e} /\ e.kind \in LineKinds /\ e \in Event
<1>1. whole \in Findings
  BY DEF GInv, IInv, Inputs
<1>2. Detected(whole) \in SUBSET LineEvent /\ DistinctKinds(Detected(whole))
  BY <1>1, DetectedIsGood, DetectedKinds
<1> QED BY <1>2 DEF DistinctKinds, LineEvent, GoodEvent

\* An event of the average.
LEMMA MergeAverageGroups ==
  ASSUME GInv, NEW e \in Detected(whole), MergeAverage(e)
  PROVE  Shown' /\ Grouping'
<1> DEFINE h(f) == IF f.kind = e.kind THEN Supported(f, e) ELSE f
<1>1. /\ UNCHANGED <<lines, whole, tops, pc, analysis>>
      /\ pc = "average" /\ e.kind \notin seen /\ seen' = seen \cup {e.kind}
  BY DEF MergeAverage
<1>2. /\ \A l : MembersOnly(l)' = MembersOnly(l) /\ Total(l)' = Total(l)
      /\ Group' = Group
  BY <1>1, SameInputs
<1>3. Shown'
  BY <1>1, ShownStays DEF GInv
<1>4. /\ {d \in Detected(whole) : d.kind = e.kind} = {e}
      /\ e.kind \in LineKinds /\ e \in Event
  BY AverageKind
<1>5. /\ DistinctKinds(events) /\ KindsOf(events) \subseteq LineKinds
      /\ events \subseteq Event
      /\ \A k \in LineKinds : OfKind(k) = IF k \in seen THEN Total(k) ELSE MembersOnly(k)
  BY <1>1 DEF GInv, Grouping, IInv, Merging, GoodEvent
<1>6. OfKind(e.kind) = MembersOnly(e.kind)
  BY <1>1, <1>4, <1>5
<1>7. Alone(e).kind = e.kind /\ \A f \in events : h(f).kind = f.kind
  <2>1. \A f \in events : Supported(f, e).kind = f.kind
    BY <1>5, SupportedParts
  <2> QED BY <1>4, <2>1, AloneParts
<1>8. CASE e.kind \in KindsOf(events)
  <2>1. events' = {h(f) : f \in events}
    BY <1>8 DEF MergeAverage
  <2>2. PICK f \in events : f.kind = e.kind
    BY <1>8 DEF KindsOf
  <2>3. Own(e.kind) # {} /\ OfKind(e.kind) = {Merged(e.kind)}
    BY <1>6, <2>2 DEF OfKind, MembersOnly
  <2>4. Total(e.kind) = {Supported(Merged(e.kind), e)}
    BY <1>4, <2>3 DEF Total
  <2>5. f = Merged(e.kind) /\ h(f) = Supported(Merged(e.kind), e)
    BY <2>2, <2>3 DEF OfKind
  <2>6. \A d \in events : d.kind = e.kind => d = f
    BY <1>5, <2>2 DEF DistinctKinds
  <2>7. \A d \in events : d.kind # e.kind => h(d) = d
    OBVIOUS
  <2> HIDE DEF h
  <2>8. DistinctKinds(events')
    BY <1>5, <1>7, <2>1 DEF DistinctKinds
  <2>9. KindsOf(events') \subseteq LineKinds
    BY <1>5, <1>7, <2>1 DEF KindsOf
  <2>10. {d \in events' : d.kind = e.kind} = Total(e.kind)
    BY <1>7, <2>1, <2>2, <2>4, <2>5, <2>6
  <2>11. \A k : k # e.kind => {d \in events' : d.kind = k} = OfKind(k)
    BY <1>7, <2>1, <2>7 DEF OfKind
  <2>12. \A k \in LineKinds : OfKind(k)' = IF k \in seen' THEN Total(k)' ELSE MembersOnly(k)'
    BY <1>1, <1>2, <1>5, <2>10, <2>11 DEF OfKind
  <2> QED BY <1>1, <1>3, <2>8, <2>9, <2>12 DEF Grouping, DistinctKinds, KindsOf
<1>9. CASE e.kind \notin KindsOf(events)
  <2>1. events' = events \cup {Alone(e)}
    BY <1>9 DEF MergeAverage
  <2>2. \A f \in events : f.kind # e.kind
    BY <1>9 DEF KindsOf
  <2>3. Own(e.kind) = {}
    BY <1>6, <2>2 DEF OfKind, MembersOnly
  <2>4. Total(e.kind) = {Alone(e)}
    BY <1>4, <2>3 DEF Total
  <2>5. DistinctKinds(events')
    BY <1>5, <1>7, <2>1, <2>2 DEF DistinctKinds
  <2>6. KindsOf(events') \subseteq LineKinds
    BY <1>4, <1>5, <1>7, <2>1 DEF KindsOf
  <2>7. {d \in events' : d.kind = e.kind} = Total(e.kind)
    BY <1>7, <2>1, <2>2, <2>4
  <2>8. \A k : k # e.kind => {d \in events' : d.kind = k} = OfKind(k)
    BY <1>7, <2>1 DEF OfKind
  <2>9. \A k \in LineKinds : OfKind(k)' = IF k \in seen' THEN Total(k)' ELSE MembersOnly(k)'
    BY <1>1, <1>2, <1>5, <2>7, <2>8 DEF OfKind
  <2> QED BY <1>1, <1>3, <2>5, <2>6, <2>9 DEF Grouping, DistinctKinds, KindsOf
<1> QED BY <1>8, <1>9

\* The average has no more events.
LEMMA AverageMergedGroups ==
  ASSUME GInv, AverageMerged
  PROVE  Shown' /\ Grouping'
<1>1. /\ UNCHANGED <<lines, whole, tops, seen, events, analysis>>
      /\ pc = "average" /\ pc' = "peer"
  BY DEF AverageMerged
<1>2. /\ \A l : Total(l)' = Total(l)
      /\ Group' = Group
  BY <1>1, SameInputs
<1>3. Shown'
  BY <1>1, ShownStays DEF GInv
<1>4. ASSUME NEW k \in LineKinds PROVE OfKind(k) = Total(k)
  <2>1. OfKind(k) = IF k \in seen THEN Total(k) ELSE MembersOnly(k)
    BY <1>1 DEF GInv, Grouping
  <2>2. CASE k \notin seen
    <3>1. {e \in Detected(whole) : e.kind = k} = {}
      BY <2>2 DEF AverageMerged, KindsOf
    <3>2. Total(k) = MembersOnly(k)
      BY <3>1 DEF Total, MembersOnly
    <3> QED BY <2>1, <2>2, <3>2
  <2> QED BY <2>1, <2>2
<1>5. Complete'
  BY <1>1, <1>2, <1>4 DEF Complete, OfKind
<1>6. KindsOf(events) \subseteq LineKinds /\ DistinctKinds(events)
  BY <1>1 DEF GInv, Grouping
<1> QED BY <1>1, <1>3, <1>5, <1>6 DEF Grouping, DistinctKinds, KindsOf

\* An imbalance is of a kind of its own.
LEMMA ImbalanceGroups ==
  ASSUME GInv, Imbalance
  PROVE  Shown' /\ Grouping'
<1>1. /\ UNCHANGED <<lines, whole, tops, seen, analysis>>
      /\ pc = "peer" /\ pc' = "cut"
  BY DEF Imbalance
<1>2. /\ \A l : Total(l)' = Total(l)
      /\ Group' = Group
  BY <1>1, SameInputs
<1>3. Shown'
  BY <1>1, ShownStays DEF GInv
<1>4. PICK p : events' = events \cup {p} /\ p.kind = "peer_imbalance"
  <2>1. PICK s \in PeerScores :
          events' = events \cup {[kind |-> "peer_imbalance", score |-> Unit * s,
                                  start |-> 0, end |-> Points - 1, points |-> {}]}
    BY DEF Imbalance
  <2> DEFINE p == [kind |-> "peer_imbalance", score |-> Unit * s,
                   start |-> 0, end |-> Points - 1, points |-> {}]
  <2>2. p.kind = "peer_imbalance"
    OBVIOUS
  <2>3. events' = events \cup {p}
    BY <2>1
  <2> HIDE DEF p
  <2> QED BY <2>2, <2>3
<1>5. "peer_imbalance" \notin LineKinds
  BY DEF LineKinds, Sustained, Trends
<1>6. KindsOf(events) \subseteq LineKinds /\ DistinctKinds(events) /\ (Group => Complete)
  BY <1>1 DEF GInv, Grouping
<1>7. DistinctKinds(events')
  BY <1>4, <1>5, <1>6 DEF DistinctKinds, KindsOf
<1>8. \A k \in LineKinds : {e \in events' : e.kind = k} = OfKind(k)
  BY <1>4, <1>5 DEF OfKind
<1>9. Group => Complete'
  BY <1>2, <1>6, <1>8 DEF Complete, OfKind
<1> QED BY <1>1, <1>2, <1>3, <1>7, <1>9 DEF Grouping, DistinctKinds

\* The steps that leave the events alone.
LEMMA OthersGroup ==
  ASSUME GInv, Balance \/ Cut \/ Project \/ Done \/ UNCHANGED vars
  PROVE  Shown' /\ Grouping'
<1>1. UNCHANGED <<lines, whole, tops, seen, events>>
  BY DEF Balance, Cut, Project, Done, vars
<1>2. /\ \A l : Total(l)' = Total(l) /\ Own(l)' = Own(l)
      /\ \A l : Merged(l)' = Merged(l) /\ MembersOnly(l)' = MembersOnly(l)
      /\ Group' = Group
  BY <1>1, SameInputs
<1>3. Complete' = Complete
  BY <1>1, <1>2 DEF Complete, OfKind
<1>4. CASE Balance
  <2>1. Shown'
    BY <1>1, <1>4, ShownStays DEF GInv, Balance
  <2> QED BY <1>1, <1>2, <1>3, <1>4, <2>1 DEF GInv, Grouping, DistinctKinds, Balance
<1>5. CASE Cut
  <2>1. Shown'
    BY <1>1, <1>5, ShownStays DEF GInv, Cut
  <2>2. analysis'.top \in Tops(events)
    BY <1>5 DEF Cut
  <2> QED BY <1>1, <1>2, <1>3, <1>5, <2>1, <2>2 DEF GInv, Grouping, DistinctKinds, Cut
<1>6. CASE Project
  <2>1. Shown'
    BY <1>1, <1>6, ShownStays DEF GInv, Project
  <2> QED BY <1>1, <1>2, <1>3, <1>6, <2>1 DEF GInv, Grouping, DistinctKinds, Project
<1>7. CASE Done \/ UNCHANGED vars
  <2>1. UNCHANGED vars
    BY <1>7 DEF Done
  <2>2. UNCHANGED <<pc, analysis>>
    BY <2>1 DEF vars
  <2>3. Shown'
    BY <1>1, <1>2, <2>2 DEF GInv, Shown
  <2>4. \A k : OfKind(k)' = OfKind(k)
    BY <1>1 DEF OfKind
  <2> QED BY <1>1, <1>2, <1>3, <2>2, <2>3, <2>4 DEF GInv, Grouping, DistinctKinds, KindsOf
<1> QED BY <1>4, <1>5, <1>6, <1>7

\* A line is analysed.
LEMMA AnalyzeLineGroups ==
  ASSUME GInv, AnalyzeLine
  PROVE  Shown' /\ Grouping'
<1> DEFINE f == lines[Len(tops) + 1]
<1>1. /\ UNCHANGED <<lines, whole, events, seen>> /\ pc = "lines"
      /\ pc' = IF Len(tops') < Len(lines) THEN "lines"
               ELSE IF Group THEN "by_kind" ELSE "project"
      /\ Group' = Group
  BY DEF AnalyzeLine, Group
<1>2. PICK top \in Tops(Detected(f)) : tops' = Append(tops, top)
  BY DEF AnalyzeLine
<1>3. /\ tops \in Seq(Seq(LineEvent)) /\ Len(lines) \in Nat /\ Len(tops) < Len(lines)
      /\ events = {} /\ seen = {}
      /\ \A i \in 1 .. Len(tops) : tops[i] \in Tops(Detected(lines[i]))
  BY <1>1 DEF GInv, IInv, Inputs, Lines, Shown, Grouping
<1>4. /\ Len(tops) \in Nat /\ Len(tops') = Len(tops) + 1 /\ tops'[Len(tops) + 1] = top
      /\ \A i \in 1 .. Len(tops) : tops'[i] = tops[i]
  BY <1>2, <1>3
<1>5. \A i \in 1 .. Len(tops') : tops'[i] \in Tops(Detected(lines[i]))
  BY <1>2, <1>3, <1>4
<1>6. pc' # "lines" => Len(tops') = Len(lines)
  BY <1>1, <1>3, <1>4
<1>7. Shown'
  BY <1>1, <1>5, <1>6 DEF Shown
<1>8. Grouping'
  BY <1>1, <1>3 DEF Grouping, DistinctKinds
<1> QED BY <1>7, <1>8

LEMMA GroupingInvariance == Spec => []GInv
<1>1. Init => GInv
  <2> SUFFICES ASSUME Init PROVE GInv
    OBVIOUS
  <2>1. Shown /\ Grouping
    BY DEF Init, Shown, Grouping, DistinctKinds
  <2> QED BY <2>1, InitInvariant DEF GInv
<1>2. GInv /\ [Next]_vars => GInv'
  <2> SUFFICES ASSUME GInv, [Next]_vars PROVE GInv'
    OBVIOUS
  <2>1. IInv'
    BY NextInvariant DEF GInv
  <2>2. Shown' /\ Grouping'
    BY AnalyzeLineGroups, MergeKindGroups, KindsMergedGroups, MergeAverageGroups,
       AverageMergedGroups, ImbalanceGroups, OthersGroup DEF Next
  <2> QED BY <2>1, <2>2 DEF GInv
<1> QED BY <1>1, <1>2, PTL DEF Spec

-------------------------------------------------------------------------------
(***************************************************************************)
(* A lead that all members and their average agree on.                     *)
(***************************************************************************)

\* A product grows with its factors.
LEMMA ProductGrows ==
  ASSUME NEW a \in Nat, NEW b \in Nat, NEW c \in Nat, b <= c
  PROVE  /\ a * b \in Nat /\ a * c \in Nat /\ a * b <= a * c
         /\ a > 0 /\ b < c => a * b < a * c
<1>1. PICK d \in Nat : c = b + d
  <2>1. c - b \in Nat /\ c = b + (c - b)
    OBVIOUS
  <2> QED BY <2>1
<1>2. a * c = a * b + a * d
  BY <1>1, SMTT(20)
<1>3. a * b \in Nat /\ a * d \in Nat
  BY <1>1, Product
<1>4. a > 0 /\ d > 0 => a * d > 0
  BY <1>1, SMTT(20)
<1> DEFINE x == a * b
           y == a * d
           z == a * c
<1> HIDE DEF x, y, z
<1>5. x \in Nat /\ y \in Nat /\ z = x + y /\ (a > 0 /\ d > 0 => y > 0)
  BY <1>2, <1>3, <1>4 DEF x, y, z
<1>6. z \in Nat /\ x <= z /\ (a > 0 /\ b < c => x < z)
  BY <1>1, <1>5
<1> QED BY <1>5, <1>6 DEF x, z

\* Scores that are sums of parts, each at least as high as the other's.
LEMMA SumsOfParts ==
  ASSUME NEW u \in Nat, u > 0, NEW a \in Nat, NEW b \in Nat, b <= a,
         NEW m \in Nat, NEW n \in Nat, n <= m
  PROVE  /\ u * a + 50 * m >= u * b + 50 * n
         /\ u * a + 50 * m = u * b + 50 * n => a = b
<1> DEFINE x == u * a
           y == u * b
<1>1. x \in Nat /\ y \in Nat /\ y <= x /\ (b < a => y < x)
  BY ProductGrows
<1> HIDE DEF x, y
<1>2. /\ x + 50 * m >= y + 50 * n
      /\ x + 50 * m = y + 50 * n => a = b
  BY <1>1
<1> QED BY <1>2 DEF x, y

\* The event that a member shows first is before its others.
LEMMA LeadOfMember ==
  ASSUME GInv, NEW k \in LineKinds, NEW l \in LineKinds, k # l,
         NEW i \in Own(l), Leads(k, tops[i])
  PROVE  i \in Own(k) /\ Before(OwnEvent(i, k), OwnEvent(i, l))
<1> DEFINE S == Detected(lines[i])
<1>1. i \in 1 .. Len(tops) /\ lines[i] \in Findings /\ tops[i] \in Tops(S)
  BY DEF Own, GInv, Shown, IInv, Inputs, Lines
<1>2. IsFiniteSet(S) /\ S \in SUBSET GoodEvent /\ DistinctKinds(S)
  BY <1>1, DetectedIsGood, DetectedKinds DEF LineEvent
<1> HIDE DEF S
<1>3. tops[i] = Ranked(S) /\ tops[i] \in Seq(S) /\ RangeOf(tops[i]) \subseteq S
  BY <1>1, <1>2, TopsAreRanked, TopsAreOfTheSet
<1>4. tops[i] # <<>> /\ tops[i][1].kind = k
  BY DEF Leads
<1>5. tops[i][1] \in RangeOf(tops[i])
  BY <1>3, <1>4 DEF RangeOf
<1>6. i \in Own(k)
  BY <1>1, <1>4, <1>5 DEF Own, KindsOf
<1>7. /\ OwnEvent(i, k) \in RangeOf(tops[i]) /\ OwnEvent(i, k).kind = k
      /\ OwnEvent(i, l) \in RangeOf(tops[i]) /\ OwnEvent(i, l).kind = l
  BY <1>6 DEF Own, KindsOf, OwnEvent
<1>8. OwnEvent(i, k) = tops[i][1]
  BY <1>2, <1>3, <1>4, <1>5, <1>7 DEF DistinctKinds
<1>9. OwnEvent(i, l) \in S /\ OwnEvent(i, l) # Ranked(S)[1]
  BY <1>3, <1>4, <1>7
<1>10. Before(Ranked(S)[1], OwnEvent(i, l))
  BY <1>2, <1>9, FirstIsBeforeOthers
<1> QED BY <1>3, <1>6, <1>8, <1>10

\* A kind that leads in all members scores at least as high as all others.
LEMMA LeadOfMembers ==
  ASSUME GInv, Group, Len(tops) = Len(lines), NEW k \in LineKinds, NEW l \in LineKinds, k # l,
         Own(l) # {}, \A i \in 1 .. Len(tops) : Leads(k, tops[i])
  PROVE  /\ Own(k) # {} /\ MergedScore(k) \in Nat /\ MergedScore(l) \in Nat
         /\ MergedScore(k) >= MergedScore(l)
         /\ MergedScore(k) = MergedScore(l) => Priority[k] < Priority[l]
<1>1. tops \in Seq(Seq(LineEvent)) /\ Len(lines) \in Nat /\ Len(lines) > 1
  BY DEF GInv, IInv, Inputs, Lines, Group
<1>2. Own(l) \in SUBSET (1 .. Len(tops)) /\ Own(k) \in SUBSET (1 .. Len(tops))
  BY <1>1, OwnIsFinite
<1>3. \A i \in Own(l) : i \in Own(k) /\ Before(OwnEvent(i, k), OwnEvent(i, l))
  BY <1>2, LeadOfMember
<1>4. Own(l) \in SUBSET Own(k) /\ Own(k) # {}
  BY <1>3
<1>5. /\ Cardinality(Own(k)) \in Nat /\ Cardinality(Own(l)) \in Nat
      /\ Cardinality(Own(l)) <= Cardinality(Own(k))
  BY <1>1, <1>4, OwnIsFinite, FS_Subset
<1>6. PICK a \in Own(k) :
        /\ MergedScore(k) = Unit * OwnEvent(a, k).score + 50 * Cardinality(Own(k))
        /\ \A i \in Own(k) : OwnEvent(i, k).score <= OwnEvent(a, k).score
  BY <1>1, <1>4, MergedScoreIs
<1>7. PICK b \in Own(l) :
        MergedScore(l) = Unit * OwnEvent(b, l).score + 50 * Cardinality(Own(l))
  BY <1>1, MergedScoreIs
<1>8. b \in Own(k) /\ Before(OwnEvent(b, k), OwnEvent(b, l))
  BY <1>3
<1>9. /\ OwnEvent(a, k) \in LineEvent /\ OwnEvent(b, k) \in LineEvent
      /\ OwnEvent(b, l) \in LineEvent
      /\ OwnEvent(b, k).kind = k /\ OwnEvent(b, l).kind = l
  <2>1. OwnEvent(b, k).kind = k /\ OwnEvent(b, l).kind = l
    BY <1>8 DEF Own, KindsOf, OwnEvent
  <2> QED BY <1>1, <1>8, <2>1, OwnEventIsGood
<1>10. /\ OwnEvent(a, k).score \in Nat /\ OwnEvent(b, k).score \in Nat
       /\ OwnEvent(b, l).score \in Nat
  BY <1>9, GoodEventParts DEF LineEvent
<1>11. /\ OwnEvent(b, l).score <= OwnEvent(a, k).score
       /\ OwnEvent(b, l).score = OwnEvent(a, k).score => Priority[k] < Priority[l]
  <2>1. OwnEvent(b, k).score <= OwnEvent(a, k).score
    BY <1>6, <1>8
  <2>2. \/ OwnEvent(b, k).score > OwnEvent(b, l).score
        \/ OwnEvent(b, k).score = OwnEvent(b, l).score /\ Priority[k] < Priority[l]
    BY <1>8, <1>9 DEF Before
  <2> QED BY <1>10, <2>1, <2>2
<1>12. Unit \in Nat /\ Unit > 0
  BY <1>1 DEF Unit
<1>13. MergedScore(k) \in Nat /\ MergedScore(l) \in Nat
  <2>1. Unit * OwnEvent(a, k).score \in Nat /\ Unit * OwnEvent(b, l).score \in Nat
    BY <1>10, <1>12, Product
  <2> QED BY <1>5, <1>6, <1>7, <2>1
<1>14. /\ MergedScore(k) >= MergedScore(l)
       /\ MergedScore(k) = MergedScore(l) => OwnEvent(a, k).score = OwnEvent(b, l).score
  <2> DEFINE u == Unit
             x == OwnEvent(a, k).score
             y == OwnEvent(b, l).score
             m == Cardinality(Own(k))
             n == Cardinality(Own(l))
  <2>1. /\ u \in Nat /\ u > 0 /\ x \in Nat /\ y \in Nat /\ y <= x
        /\ m \in Nat /\ n \in Nat /\ n <= m
    BY <1>5, <1>10, <1>11, <1>12
  <2>2. MergedScore(k) = u * x + 50 * m /\ MergedScore(l) = u * y + 50 * n
    BY <1>6, <1>7
  <2> HIDE DEF u, x, y, m, n
  <2>3. /\ u * x + 50 * m >= u * y + 50 * n
        /\ u * x + 50 * m = u * y + 50 * n => x = y
    BY <2>1, SumsOfParts
  <2>4. /\ MergedScore(k) >= MergedScore(l)
        /\ MergedScore(k) = MergedScore(l) => x = y
    BY <2>2, <2>3
  <2> QED BY <2>4 DEF x, y
<1> QED BY <1>4, <1>11, <1>13, <1>14

\* What the average adds to a kind's score.
Support(k) ==
  IF {e \in Detected(whole) : e.kind = k} = {} THEN 0
  ELSE 7 * Len(lines) * (CHOOSE e \in Detected(whole) : e.kind = k).score

\* The event of a kind that members have: its score is theirs and the average's.
LEMMA TotalOfMembers ==
  ASSUME GInv, NEW k \in LineKinds, Own(k) # {}
  PROVE  \E t : Total(k) = {t} /\ t.kind = k /\ t.score = MergedScore(k) + Support(k)
<1> DEFINE A == {e \in Detected(whole) : e.kind = k}
<1>1. CASE A = {}
  <2>1. Total(k) = {Merged(k)} /\ Support(k) = 0
    BY <1>1 DEF Total, Support
  <2>2. Merged(k).kind = k /\ Merged(k).score = MergedScore(k)
    BY DEF Merged
  <2>3. MergedScore(k) \in Nat
    <3>1. Merged(k) \in GoodEvent
      BY MergedIsGood DEF GInv, IInv, Inputs, Lines
    <3> QED BY <2>2, <3>1, GoodEventParts
  <2>4. MergedScore(k) = MergedScore(k) + Support(k)
    BY <2>1, <2>3
  <2> QED BY <2>1, <2>2, <2>4
<1>2. CASE A # {}
  <2>1. PICK e \in Detected(whole) : e.kind = k
    BY <1>2
  <2>2. A = {e}
    BY <2>1, AverageKind
  <2>3. (CHOOSE d \in Detected(whole) : d.kind = k) = e
    BY <2>2
  <2>4. Support(k) = 7 * Len(lines) * e.score
    BY <2>1, <2>3 DEF Support
  <2>5. Total(k) = {Supported(Merged(k), e)}
    BY <2>2 DEF Total
  <2>6. Merged(k) \in Event
    BY MergedIsGood DEF GInv, IInv, Inputs, Lines, GoodEvent
  <2>7. /\ Supported(Merged(k), e).kind = k
        /\ Supported(Merged(k), e).score = MergedScore(k) + 7 * Len(lines) * e.score
    BY <2>6, SupportedParts DEF Merged
  <2> QED BY <2>4, <2>5, <2>7
<1> QED BY <1>1, <1>2

\* A kind that leads in the average is supported most.
LEMMA LeadOfAverage ==
  ASSUME GInv, NEW k \in LineKinds, NEW l \in LineKinds,
         Detected(whole) = {} \/ Leads(k, Ranked(Detected(whole)))
  PROVE  Support(k) \in Nat /\ Support(l) \in Nat /\ Support(l) <= Support(k)
<1> DEFINE S == Detected(whole)
           ev(m) == CHOOSE e \in Detected(whole) : e.kind = m
<1>1. whole \in Findings /\ Len(lines) \in Nat
  BY DEF GInv, IInv, Inputs
<1>2. IsFiniteSet(S) /\ S \in SUBSET GoodEvent /\ DistinctKinds(S)
  BY <1>1, DetectedIsGood, DetectedKinds DEF LineEvent
<1>3. \A m : Support(m) = IF {e \in S : e.kind = m} = {} THEN 0
                          ELSE 7 * Len(lines) * ev(m).score
  BY DEF Support
<1>4. \A m : {e \in S : e.kind = m} # {} => ev(m) \in S /\ ev(m).kind = m
  OBVIOUS
<1> HIDE DEF ev
<1>5. \A m : {e \in S : e.kind = m} # {} => ev(m).score \in Nat
  BY <1>2, <1>4, GoodEventParts
<1>6. 7 * Len(lines) \in Nat
  BY <1>1
<1>7. Support(k) \in Nat /\ Support(l) \in Nat
  BY <1>3, <1>5, <1>6, Product
<1>8. CASE {e \in S : e.kind = l} = {}
  BY <1>3, <1>7, <1>8
<1>9. CASE {e \in S : e.kind = l} # {}
  <2>1. S # {} /\ Leads(k, Ranked(S))
    BY <1>9
  <2>2. /\ Ranked(S)[1] \in S /\ Ranked(S)[1].kind = k
        /\ \A f \in S : f # Ranked(S)[1] => Before(Ranked(S)[1], f)
    <3> HIDE DEF S
    <3> QED BY <1>2, <2>1, FirstIsBeforeOthers DEF Leads
  <2>3. {e \in S : e.kind = k} # {} /\ ev(k) = Ranked(S)[1]
    BY <1>2, <1>4, <2>2 DEF DistinctKinds
  <2>4. ev(l).score <= ev(k).score
    BY <1>4, <1>5, <1>9, <2>2, <2>3 DEF Before
  <2>5. 7 * Len(lines) * ev(l).score <= 7 * Len(lines) * ev(k).score
    BY <1>5, <1>6, <1>9, <2>3, <2>4, ProductGrows
  <2> QED BY <1>3, <1>7, <1>9, <2>3, <2>5
<1> QED BY <1>8, <1>9

-------------------------------------------------------------------------------
(***************************************************************************)
(* The theorems.                                                           *)
(***************************************************************************)

\* The state keeps its type, for every length of the series, every set of
\* findings and every number of members.
THEOREM TypeCorrect == Spec => []TypeOK
<1>1. IInv => TypeOK
  <2> SUFFICES ASSUME IInv PROVE TypeOK
    OBVIOUS
  <2>1. LineEvent \subseteq Event /\ GoodEvent \subseteq Event
    BY DEF LineEvent, GoodEvent
  <2>2. Seq(LineEvent) \subseteq Seq(Event) /\ Seq(GoodEvent) \subseteq Seq(Event)
    BY <2>1
  <2>3. Seq(Seq(LineEvent)) \subseteq Seq(Seq(Event))
    BY <2>2
  <2> QED BY <2>1, <2>2, <2>3 DEF IInv, Inputs, Lines, Merging, Results, TypeOK
<1> QED BY <1>1, Invariance, PTL

\* Every event lies in the samples: no index of analyze.rs is beyond them.
THEOREM EventsStayInWindow == Spec => []EventsInWindow
<1>1. IInv => EventsInWindow
  <2> SUFFICES ASSUME IInv PROVE EventsInWindow
    OBVIOUS
  <2>1. \A e \in events : InSamples(e)
    BY DEF IInv, Merging, GoodEvent
  <2>2. ASSUME NEW i \in 1 .. Len(tops), NEW e \in RangeOf(tops[i])
        PROVE  InSamples(e)
    <3>1. tops[i] \in Seq(LineEvent)
      BY DEF IInv, Lines
    <3> QED BY <3>1 DEF RangeOf, LineEvent, GoodEvent
  <2> QED BY <2>1, <2>2 DEF EventsInWindow
<1> QED BY <1>1, Invariance, PTL

\* The payload's period lies in the digest's range, whatever the events are.
THEOREM PeriodsAlwaysAgree == Spec => []PeriodsAgree
<1>1. IInv => PeriodsAgree
  BY PeriodIsInRange DEF IInv, Results, PeriodsAgree
<1> QED BY <1>1, Invariance, PTL

\* The analysis is a function of what was found, whatever the order in which the
\* kernel's hash maps give the kinds.
THEOREM HashOrderIsAlwaysInvisible == Spec => []HashOrderIsInvisible
<1>1. GInv => HashOrderIsInvisible
  <2> SUFFICES ASSUME GInv, pc = "project"
               PROVE  /\ \A i \in 1 .. Len(lines) : tops[i] = Ranked(Detected(lines[i]))
                      /\ Group =>
                           /\ {e \in events : e.kind # "peer_imbalance"}
                                = UNION {Total(k) : k \in LineKinds}
                           /\ analysis.top = Ranked(events)
    BY DEF HashOrderIsInvisible
  <2>1. ASSUME NEW i \in 1 .. Len(lines) PROVE tops[i] = Ranked(Detected(lines[i]))
    <3>1. lines[i] \in Findings /\ tops[i] \in Tops(Detected(lines[i]))
      BY DEF GInv, IInv, Inputs, Shown
    <3>2. /\ IsFiniteSet(Detected(lines[i])) /\ DistinctKinds(Detected(lines[i]))
          /\ Detected(lines[i]) \in SUBSET GoodEvent
      BY <3>1, DetectedIsGood, DetectedKinds DEF LineEvent
    <3> QED BY <3>1, <3>2, TopsAreRanked
  <2>2. ASSUME Group
        PROVE  {e \in events : e.kind # "peer_imbalance"} = UNION {Total(k) : k \in LineKinds}
    <3>1. \A k \in LineKinds : OfKind(k) = Total(k)
      BY <2>2 DEF GInv, Grouping, Complete
    <3>2. \A e \in events : e.kind # "peer_imbalance" <=> e.kind \in LineKinds
      BY DEF GInv, IInv, Merging, GoodEvent, Event, Kinds, LineKinds, Sustained, Trends
    <3> QED BY <3>1, <3>2 DEF OfKind
  <2>3. ASSUME Group PROVE analysis.top = Ranked(events)
    BY <2>3, TopsAreRanked DEF GInv, IInv, Merging, Grouping
  <2> QED BY <2>1, <2>2, <2>3
<1> QED BY <1>1, GroupingInvariance, PTL

\* What leads in every member and in their average leads in the group, but for
\* what no member shows.
THEOREM UnanimityIsAlwaysKept == Spec => []UnanimityIsKept
<1>1. GInv => UnanimityIsKept
  <2> SUFFICES ASSUME GInv, pc = "project", Group, NEW k \in LineKinds,
                      \A i \in 1 .. Len(tops) : Leads(k, tops[i]),
                      Detected(whole) = {} \/ Leads(k, Ranked(Detected(whole))),
                      Own(analysis.top[1].kind) # {}
               PROVE  Leads(k, analysis.top)
    BY DEF UnanimityIsKept
  <2> DEFINE first == analysis.top[1]
  <2>1. /\ tops \in Seq(Seq(LineEvent)) /\ Len(tops) = Len(lines) /\ Len(tops) > 1
        /\ events \in SUBSET GoodEvent /\ IsFiniteSet(events) /\ DistinctKinds(events)
        /\ analysis.top \in Tops(events) /\ Complete
    BY DEF GInv, IInv, Inputs, Lines, Merging, Shown, Grouping, Group
  <2>2. 1 \in Own(k)
    <3>1. tops[1] \in Seq(LineEvent) /\ tops[1] # <<>> /\ tops[1][1].kind = k
      BY <2>1 DEF Leads
    <3>2. tops[1][1] \in RangeOf(tops[1])
      BY <3>1 DEF RangeOf
    <3> QED BY <2>1, <3>1, <3>2 DEF Own, KindsOf
  <2>3. PICK t : Total(k) = {t} /\ t.kind = k /\ t.score = MergedScore(k) + Support(k)
    BY <2>2, TotalOfMembers
  <2>4. t \in events
    BY <2>1, <2>3 DEF Complete, OfKind
  <2>5. /\ analysis.top = Ranked(events) /\ analysis.top # <<>> /\ first \in events
        /\ \A f \in events : f # first => Before(first, f)
    BY <2>1, <2>4, TopsAreRanked, TopsAreOfTheSet, FirstIsBeforeOthers
  <2> SUFFICES ASSUME first.kind # k PROVE FALSE
    BY <2>5 DEF Leads
  <2>6. first.kind \in LineKinds
    <3>1. PICK i \in 1 .. Len(tops) : \E e \in RangeOf(tops[i]) : e.kind = first.kind
      BY DEF Own, KindsOf
    <3>2. tops[i] \in Seq(LineEvent)
      BY <2>1
    <3> QED BY <3>1, <3>2 DEF RangeOf, LineEvent
  <2> DEFINE l == first.kind
  <2>7. PICK u : Total(l) = {u} /\ u.kind = l /\ u.score = MergedScore(l) + Support(l)
    BY <2>6, TotalOfMembers
  <2>8. u = first
    BY <2>1, <2>5, <2>6, <2>7 DEF Complete, OfKind
  <2>9. Before(first, t)
    BY <2>3, <2>4, <2>5
  <2> HIDE DEF l
  <2>10. l \in LineKinds /\ l # k /\ Own(l) # {}
    BY <2>6 DEF l
  <2>11. /\ MergedScore(k) \in Nat /\ MergedScore(l) \in Nat
         /\ MergedScore(k) >= MergedScore(l)
         /\ MergedScore(k) = MergedScore(l) => Priority[k] < Priority[l]
    BY <2>1, <2>10, LeadOfMembers
  <2>12. Support(k) \in Nat /\ Support(l) \in Nat /\ Support(l) <= Support(k)
    BY <2>10, LeadOfAverage
  <2>13. \/ u.score > t.score
         \/ u.score = t.score /\ Priority[l] < Priority[k]
    BY <2>3, <2>7, <2>8, <2>9 DEF Before
  <2>14. Priority[k] \in Int /\ Priority[l] \in Int
    BY <2>10, PriorityType DEF Kinds
  <2> QED BY <2>3, <2>7, <2>11, <2>12, <2>13, <2>14
<1> QED BY <1>1, GroupingInvariance, PTL
===============================================================================
