------------------------- MODULE DataSelectionProofs -------------------------
(***************************************************************************)
(* Theorems about DataSelection, for every catalog, range and clock.       *)
(***************************************************************************)
EXTENDS DataSelection, TLAPS

-------------------------------------------------------------------------------
(***************************************************************************)
(* The ranking is a strict total order of the bundles: what sort.SliceStable *)
(* needs, and why the order of the listing does not matter.                *)
(***************************************************************************)

LEMMA OverlapIsNat ==
  ASSUME NEW r \in Range, NEW b \in Bundle
  PROVE  Overlap(r, b) \in Nat
  BY DEF Range, Bundle, Overlap, Later, Earlier

LEMMA OverlapMeansWithin ==
  ASSUME NEW r \in Range, NEW b \in Bundle, r.end > 0
  PROVE  Overlap(r, b) > 0 <=> Within(r, b)
  BY DEF Range, Bundle, Overlap, Later, Earlier, Within

\* Of two bundles one and only one comes before the other.
LEMMA OutranksIsTotal ==
  ASSUME NEW cmd, NEW r \in Range, NEW f \in [Ids -> Bundles],
         NEW i \in Ids, NEW j \in Ids
  PROVE  /\ Outranks(cmd, r, f, i, j) => ~Outranks(cmd, r, f, j, i)
         /\ i # j => Outranks(cmd, r, f, i, j) \/ Outranks(cmd, r, f, j, i)
<1> DEFINE a == f[i]
           b == f[j]
           p == Overlap(r, a)
           q == Overlap(r, b)
<1>1. a \in Bundle /\ b \in Bundle /\ i \in Int /\ j \in Int
  BY BundlesAssumption, IdsAssumption
<1>2. p \in Nat /\ q \in Nat
  BY <1>1, OverlapIsNat
<1>3. /\ a.start \in Int /\ a.end \in Int /\ a.slow \in BOOLEAN
      /\ b.start \in Int /\ b.end \in Int /\ b.slow \in BOOLEAN
  BY <1>1 DEF Bundle
<1> HIDE DEF p, q
<1>4. QED
  BY <1>1, <1>2, <1>3 DEF Outranks, p, q

\* Coming before is transitive.
LEMMA OutranksIsTransitive ==
  ASSUME NEW cmd, NEW r \in Range, NEW f \in [Ids -> Bundles],
         NEW i \in Ids, NEW j \in Ids, NEW k \in Ids,
         Outranks(cmd, r, f, i, j), Outranks(cmd, r, f, j, k)
  PROVE  Outranks(cmd, r, f, i, k)
<1> DEFINE a == f[i]
           b == f[j]
           c == f[k]
           p == Overlap(r, a)
           q == Overlap(r, b)
           o == Overlap(r, c)
<1>1. a \in Bundle /\ b \in Bundle /\ c \in Bundle /\ i \in Int /\ j \in Int /\ k \in Int
  BY BundlesAssumption, IdsAssumption
<1>2. p \in Nat /\ q \in Nat /\ o \in Nat
  BY <1>1, OverlapIsNat
<1>3. /\ a.start \in Int /\ a.end \in Int /\ a.slow \in BOOLEAN
      /\ b.start \in Int /\ b.end \in Int /\ b.slow \in BOOLEAN
      /\ c.start \in Int /\ c.end \in Int /\ c.slow \in BOOLEAN
  BY <1>1 DEF Bundle
<1> HIDE DEF p, q, o
<1>4. QED
  BY <1>1, <1>2, <1>3 DEF Outranks, p, q, o

-------------------------------------------------------------------------------
(***************************************************************************)
(* The invariant: the bundle that was picked is the first of its listing.  *)
(***************************************************************************)

PickIsFirst ==
  picked # {} =>
    /\ command \in Commands
    /\ \E now \in Clock : range = RangeOf(command, now)
    /\ picked \subseteq Firsts(command, range, catalog, listed)

IInv == TypeOK /\ PickIsFirst

LEMMA RangesAreRanges ==
  ASSUME TypeOK
  PROVE  \A now \in Clock : \A cmd : RangeOf(cmd, now) \in Range
<1>1. \A t \in Int : \A cmd : Parsed(cmd, t) \in Int
  BY MilliAssumption DEF Parsed, Seconds
<1>2. \A now \in Clock : Start(now) \in Int /\ End(now) \in Int
  BY TimesAssumption, ClockAssumption DEF TypeOK, Start, End
<1>3. QED
  BY <1>1, <1>2 DEF RangeOf, Range

LEMMA InitIsGood ==
  ASSUME Init
  PROVE  IInv
  BY ClockAssumption DEF Init, IInv, TypeOK, PickIsFirst, Range

LEMMA NextKeepsIInv ==
  ASSUME IInv, [Next]_vars
  PROVE  IInv'
<1> USE DEF IInv
<1>r. \A now \in Clock : \A cmd : RangeOf(cmd, now) \in Range
  BY RangesAreRanges
<1>z. [start |-> 0, end |-> 0] \in Range
  BY DEF Range
<1>n. MaxRuns \in Nat
  BY ClockAssumption
<1>1. CASE RefuseRange
  BY <1>1, <1>n, <1>z DEF RefuseRange, Run, TypeOK, PickIsFirst
<1>2. CASE FindNothing
  BY <1>2, <1>n, <1>r DEF FindNothing, Run, TypeOK, PickIsFirst
<1>3. CASE Select
  <2>1. PICK cmd \in Commands, now \in Clock, S \in SUBSET Ids, first \in Ids :
          /\ first \in Firsts(cmd, range', catalog, S)
          /\ Run(cmd, S)
          /\ picked' = {first}
          /\ range' = RangeOf(cmd, now)
          /\ outcome' \in {"selected", "refused"}
    BY <1>3 DEF Select, Firsts, Candidates
  <2>2. first \in S
    BY <2>1 DEF Firsts, Candidates
  <2>3. TypeOK'
    BY <2>1, <2>2, <1>r, <1>n DEF TypeOK, Run
  <2>4. RangeOf(cmd, now)' = RangeOf(cmd, now)
    BY <2>1 DEF Run, RangeOf, Start, End
  <2>5. PickIsFirst'
    BY <2>1, <2>4 DEF PickIsFirst, Run
  <2>6. QED
    BY <2>3, <2>5
<1>4. CASE Finished \/ UNCHANGED vars
  <2>1. UNCHANGED <<catalog, from, to, runs, command, listed, range, picked, outcome>>
    BY <1>4 DEF Finished, vars
  <2>2. \A now \in Clock : RangeOf(command, now)' = RangeOf(command, now)
    BY <2>1 DEF RangeOf, Start, End
  <2>3. QED
    BY <2>1, <2>2 DEF TypeOK, PickIsFirst
<1>5. QED
  BY <1>1, <1>2, <1>3, <1>4 DEF Next

\* The state of every command has its type, and the bundle it picked is the
\* first of its listing in the order of selectCatalogItem.
THEOREM PicksTheFirst == Spec => []IInv
<1>1. Init => IInv
  BY InitIsGood
<1>2. IInv /\ [Next]_vars => IInv'
  BY NextKeepsIInv
<1>3. QED
  BY <1>1, <1>2, PTL DEF Spec

\* What the first of a listing is compared with.
LEMMA NothingOutranks ==
  ASSUME IInv, NEW i \in picked, NEW j \in listed, Eligible(command, catalog[j])
  PROVE  /\ i \in listed /\ i \in Ids /\ j \in Ids
         /\ catalog[i] \in Bundle /\ catalog[j] \in Bundle
         /\ range \in Range
         /\ ~Outranks(command, range, catalog, j, i)
         /\ Eligible(command, catalog[i])
<1>1. i \in Firsts(command, range, catalog, listed)
  BY DEF IInv, PickIsFirst
<1>2. j \in Candidates(command, catalog, listed)
  BY DEF Candidates
<1>3. i \in Candidates(command, catalog, listed) /\ ~Outranks(command, range, catalog, j, i)
  BY <1>1, <1>2 DEF Firsts
<1>4. QED
  BY <1>3, BundlesAssumption DEF IInv, TypeOK, Candidates

-------------------------------------------------------------------------------
\* No command passes over the bundles in its range for one outside of it, the
\* slow log apart (selectCatalogItem), whatever the catalog.
THEOREM PickReachesRangeHolds == Spec => []PickReachesRange
<1>1. IInv => PickReachesRange
  <2> SUFFICES ASSUME IInv,
                      NEW i \in picked, NEW j \in listed,
                      Eligible(command, catalog[j]),
                      command = "download" \/ catalog[i].slow => catalog[j].slow,
                      range.end > 0, Within(range, catalog[j])
               PROVE  Within(range, catalog[i])
    BY DEF PickReachesRange
  <2> DEFINE a == catalog[i]
             b == catalog[j]
             p == Overlap(range, a)
             q == Overlap(range, b)
  <2>1. a \in Bundle /\ b \in Bundle /\ range \in Range
        /\ ~Outranks(command, range, catalog, j, i)
    BY NothingOutranks
  <2>2. p \in Nat /\ q \in Nat
    BY <2>1, OverlapIsNat
  <2>3. q > 0
    BY <2>1, OverlapMeansWithin
  <2>4. a.slow \in BOOLEAN /\ b.slow \in BOOLEAN
    BY <2>1 DEF Bundle
  <2>5. ~(q > p)
    <3>1. CASE command # "download" /\ a.slow # b.slow
      BY <3>1, <2>1, <2>4 DEF Outranks
    <3>2. CASE ~(command # "download" /\ a.slow # b.slow)
      <4>1. q > p => q # p
        BY <2>2
      <4>2. QED
        BY <3>2, <4>1, <2>1 DEF Outranks
    <3>3. QED
      BY <3>1, <3>2
  <2> HIDE DEF p, q
  <2>6. p > 0
    BY <2>2, <2>3, <2>5
  <2>7. QED
    BY <2>1, <2>6, OverlapMeansWithin DEF p
<1>2. QED
  BY <1>1, PicksTheFirst, PTL

\* The slow log is found whatever the ranges (selectCatalogItem).
THEOREM SlowLogIsFoundHolds == Spec => []SlowLogIsFound
<1>1. IInv => SlowLogIsFound
  <2> SUFFICES ASSUME IInv, command \in {"query", "samples"},
                      NEW i \in picked, NEW j \in listed,
                      catalog[j].log, catalog[j].slow
               PROVE  catalog[i].slow
    BY DEF SlowLogIsFound
  <2>1. Eligible(command, catalog[j])
    BY DEF Eligible
  <2>2. catalog[i] \in Bundle /\ ~Outranks(command, range, catalog, j, i)
    BY <2>1, NothingOutranks
  <2>3. catalog[i].slow \in BOOLEAN
    BY <2>2 DEF Bundle
  <2>4. QED
    BY <2>2, <2>3 DEF Outranks
<1>2. QED
  BY <1>1, PicksTheFirst, PTL

\* A download of nothing in particular takes the latest bundle
\* (selectCatalogItem).
THEOREM LatestIfNoneOverlapsHolds == Spec => []LatestIfNoneOverlaps
<1>1. IInv => LatestIfNoneOverlaps
  <2> SUFFICES ASSUME IInv, command = "download",
                      NEW i \in picked,
                      \A j \in listed : ~Within(range, catalog[j]),
                      NEW j \in listed
               PROVE  catalog[j].end <= catalog[i].end
    BY DEF LatestIfNoneOverlaps
  <2> DEFINE a == catalog[i]
             b == catalog[j]
  <2>1. /\ i \in listed /\ a \in Bundle /\ b \in Bundle /\ range \in Range
        /\ ~Outranks(command, range, catalog, j, i)
    BY NothingOutranks DEF Eligible
  <2>2. a.end \in Int /\ b.end \in Int
    BY <2>1 DEF Bundle
  <2>3. Overlap(range, a) = 0 /\ Overlap(range, b) = 0
    <3>1. CASE range.end > 0
      BY <3>1, <2>1, OverlapMeansWithin, OverlapIsNat
    <3>2. CASE ~(range.end > 0)
      BY <3>2, <2>1 DEF Overlap, Range
    <3>3. QED
      BY <3>1, <3>2
  <2>4. ~(b.end > a.end)
    BY <2>1, <2>3 DEF Outranks
  <2>5. QED
    BY <2>2, <2>4
<1>2. QED
  BY <1>1, PicksTheFirst, PTL

-------------------------------------------------------------------------------
\* Commands of one family see one ranking.
LEMMA FamiliesAgree ==
  ASSUME NEW c \in Commands, NEW d \in Commands, Family(c) = Family(d)
  PROVE  /\ \A b : Eligible(c, b) <=> Eligible(d, b)
         /\ \A r, f, i, j : Outranks(c, r, f, i, j) <=> Outranks(d, r, f, i, j)
<1>1. c = "download" <=> d = "download"
  BY DEF Commands, Family
<1>2. QED
  BY <1>1 DEF Eligible, Outranks

\* With an end in the portal URL one command selects with one range whenever it
\* runs, and in seconds so do all commands.
LEMMA RangeStays ==
  ASSUME TypeOK, to > 0, NEW c, NEW d, InSeconds \/ c = d, NEW s, NEW t
  PROVE  RangeOf(c, s) = RangeOf(d, t)
<1>1. End(s) = End(t) /\ Start(s) = Start(t)
  BY DEF End, Start
<1>2. CASE c = d
  BY <1>1, <1>2 DEF RangeOf
<1>3. CASE InSeconds
  <2>1. Start(t) \in Int /\ End(t) \in Int /\ Start(t) < MilliFrom /\ End(t) < MilliFrom
    BY <1>3, TimesAssumption, ClockAssumption, MilliAssumption
    DEF TypeOK, InSeconds, Start, End
  <2>2. \A e : Parsed(e, Start(t)) = Start(t) /\ Parsed(e, End(t)) = End(t)
    BY <2>1, MilliAssumption DEF Parsed, Seconds
  <2>3. QED
    BY <1>1, <2>2 DEF RangeOf
<1>4. QED
  BY <1>2, <1>3

\* On a portal URL with an end, a second slow-query command keeps the bundle of
\* the first, or takes one that was not listed then (selectCatalogItem); so does a
\* second download, whatever the clock says at each.
THEOREM PickIsKeptHolds == Spec => PickIsKept
<1>1. IInv /\ [Next]_vars
        => [/\ to > 0
            /\ command # "none" /\ picked # {} /\ Family(command') = Family(command)
            /\ InSeconds \/ command' = command
            => picked' \subseteq picked \cup (listed' \ listed)]_vars
  <2> SUFFICES ASSUME IInv, Next, to > 0, picked # {},
                      InSeconds \/ command' = command,
                      Family(command') = Family(command),
                      NEW k \in picked', k \in listed, k \notin picked
               PROVE  FALSE
    <3>1. IInv /\ [Next]_vars => (picked' \subseteq listed')
      BY NextKeepsIInv DEF IInv, TypeOK
    <3>2. QED
      BY <3>1 DEF vars
  <2>1. IInv'
    BY NextKeepsIInv
  <2>2. PICK i \in picked : i # k
    OBVIOUS
  <2>3. catalog' = catalog /\ from' = from /\ to' = to /\ listed \subseteq listed'
    BY DEF Next, RefuseRange, FindNothing, Select, Finished, Run, vars
  <2>4. /\ command \in Commands /\ command' \in Commands
        /\ \E s : range = RangeOf(command, s)
        /\ \E t : range' = RangeOf(command', t)
    <3>1. \A t : RangeOf(command, t)' = RangeOf(command', t)
      BY <2>3 DEF RangeOf, Start, End
    <3>2. QED
      BY <2>1, <2>2, <3>1 DEF IInv, PickIsFirst
  <2>5. range' = range
    BY <2>4, RangeStays DEF IInv
  <2>6. i \in Firsts(command, range, catalog, listed)
        /\ k \in Firsts(command', range, catalog, listed')
    BY <2>1, <2>3, <2>5 DEF IInv, PickIsFirst
  <2>7. /\ i \in Candidates(command, catalog, listed)
        /\ k \in Candidates(command, catalog, listed)
        /\ i \in Candidates(command', catalog, listed')
    BY <2>3, <2>4, <2>6, FamiliesAgree DEF Firsts, Candidates
  <2>8. ~Outranks(command, range, catalog, k, i) /\ ~Outranks(command, range, catalog, i, k)
    <3>1. ~Outranks(command, range, catalog, k, i)
      BY <2>6, <2>7 DEF Firsts
    <3>2. ~Outranks(command', range, catalog, i, k)
      BY <2>6, <2>7 DEF Firsts
    <3>3. QED
      BY <3>1, <3>2, <2>4, FamiliesAgree
  <2>9. i \in Ids /\ k \in Ids /\ range \in Range /\ catalog \in [Ids -> Bundles]
    BY DEF IInv, TypeOK
  <2>10. QED
    BY <2>2, <2>8, <2>9, OutranksIsTotal
<1>2. QED
  BY <1>1, PicksTheFirst, PTL DEF Spec, PickIsKept
===============================================================================
