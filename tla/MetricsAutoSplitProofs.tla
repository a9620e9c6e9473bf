------------------------ MODULE MetricsAutoSplitProofs ------------------------
(***************************************************************************)
(* Theorems about MetricsAutoSplit, for every request and every pattern of *)
(* answers, refusals and failures.                                         *)
(***************************************************************************)
EXTENDS MetricsAutoSplit, SequenceTheorems, TLAPS

\* The answered queries form a chain from the start of the range to pos.
Chain ==
  /\ \A i \in 1 .. Len(leaves) - 1 : leaves[i].end = leaves[i + 1].start
  /\ leaves = <<>> => pos = req.start
  /\ leaves # <<>> => leaves[1].start = req.start /\ leaves[Len(leaves)].end = pos

\* What is still to be queried ends where the range ends.
Ahead ==
  /\ pc = "returned" <=> result # "none"
  /\ pc = "query" => pending # <<>> /\ pending[Len(pending)] = req.end
  /\ pc = "merged" \/ result = "ok" => leaves # <<>> /\ pos = req.end

IInv == TypeOK /\ Chain /\ Ahead

-------------------------------------------------------------------------------
\* A step that leaves the ranges alone, and returns no result, keeps IInv.
LEMMA RangesKept ==
  ASSUME IInv,
         UNCHANGED <<req, fallback, cluster, pos, pending, leaves, merged, found>>,
         requests' \in Nat,
         pc' = "returned",
         result' \in Results \ {"none"},
         pc = "merged" \/ result' # "ok"
  PROVE  IInv'
  BY DEF IInv, TypeOK, Chain, Ahead

\* Popping a stack of at least two leaves its bottom.
LEMMA TailEnds ==
  ASSUME NEW s \in Seq(Int), s # <<>>, Len(s) # 1
  PROVE  Tail(s) # <<>> /\ Tail(s)[Len(Tail(s))] = s[Len(s)]
<1> DEFINE n == Len(s)
<1>1. \A p \in Seq(Int) : p # <<>> => Len(p) \in Nat \ {0}
  BY EmptySeq, Zenon
<1>2. n \in Nat \ {0} /\ n # 1
  BY <1>1, Zenon
<1>3. Len(Tail(s)) = n - 1
  OBVIOUS
<1>4. \A i \in 1 .. n - 1 : Tail(s)[i] = s[i + 1]
  OBVIOUS
<1> HIDE DEF n
<1>5. n - 1 \in 1 .. n - 1 /\ (n - 1) + 1 = n /\ n - 1 # 0
  BY <1>2
<1>6. Tail(s)[n - 1] = s[n]
  BY <1>4, <1>5
<1>7. Tail(s) # <<>>
  BY <1>3, <1>5, EmptySeq, Zenon
<1>8. QED
  BY <1>3, <1>6, <1>7 DEF n

\* The answer extends the chain by the query under way.
LEMMA AnswerKeepsIInv ==
  ASSUME IInv, Answer
  PROVE  IInv'
<1> DEFINE top == Head(pending)
<1>1. PICK S \in SUBSET Series :
        /\ leaves' = Append(leaves, [start |-> pos, end |-> End, series |-> S])
        /\ merged' = [s \in Series |->
                        IF s \in S THEN MergeSamples(merged[s], Samples(pos, End))
                        ELSE merged[s]]
        /\ found' = found \cup S
  BY DEF Answer
<1> DEFINE leaf == [start |-> pos, end |-> End, series |-> S]
<1>2. pending \in Seq(Int) /\ pending # <<>> /\ pending[Len(pending)] = req.end
  BY DEF IInv, TypeOK, Ahead, Answer
<1>3. top \in Int /\ Tail(pending) \in Seq(Int) /\ End = top
  BY <1>2 DEF End
<1>4. leaf \in Leaf
  <2>1. pos \in Int /\ End \in Int /\ S \in SUBSET Series
    BY <1>3 DEF IInv, TypeOK
  <2>2. QED
    BY <2>1 DEF Leaf
<1>5. pos' = End /\ pending' = Tail(pending) /\ req' = req
  BY DEF Answer, RightStart
<1>6. leaves \in Seq(Leaf) /\ leaves' = Append(leaves, leaf)
  BY <1>1 DEF IInv, TypeOK
<1>7. TypeOK'
  <2>1. leaves' \in Seq(Leaf)
    BY <1>4, <1>6
  <2>2. merged' \in [Series -> SUBSET Int]
    <3>1. Samples(pos, End) \in SUBSET Int
      <4>1. pos \in Int /\ End \in Int /\ req.step \in Int
        BY <1>3, RequestsAssumption DEF IInv, TypeOK
      <4>2. CASE req.parsed /\ req.step > 0
        BY <4>1, <4>2, SecondAssumption DEF Samples, Evaluated
      <4>3. CASE ~(req.parsed /\ req.step > 0)
        BY <4>1, <4>3 DEF Samples
      <4>4. QED
        BY <4>2, <4>3
    <3>2. \A s \in Series : MergeSamples(merged[s], Samples(pos, End)) \in SUBSET Int
      BY <3>1 DEF MergeSamples, IInv, TypeOK
    <3>3. QED
      BY <1>1, <3>2 DEF IInv, TypeOK
  <2>3. pos' \in Int /\ pending' \in Seq(Int)
    BY <1>3, <1>5
  <2>4. found' \in SUBSET Series /\ requests' \in Nat /\ pc' \in {"query", "merged"}
    BY <1>1 DEF Answer, IInv, TypeOK
  <2>5. QED
    BY <2>1, <2>2, <2>3, <2>4 DEF Answer, IInv, TypeOK
<1>8. Len(leaves') = Len(leaves) + 1 /\ leaves'[Len(leaves) + 1] = leaf
      /\ \A i \in 1 .. Len(leaves) : leaves'[i] = leaves[i]
  BY <1>4, <1>6
<1>9. leaf.start = pos /\ leaf.end = End
  OBVIOUS
<1>10. Chain'
  <2>1. \A i \in 1 .. Len(leaves') - 1 : leaves'[i].end = leaves'[i + 1].start
    <3>1. SUFFICES ASSUME NEW i \in 1 .. Len(leaves)
                   PROVE  leaves'[i].end = leaves'[i + 1].start
      BY <1>6, <1>8
    <3>2. CASE i = Len(leaves)
      <4>1. leaves[i].end = pos
        BY <1>6, <3>2 DEF IInv, Chain
      <4>2. QED
        BY <1>8, <1>9, <3>2, <4>1
    <3>3. CASE i # Len(leaves)
      <4>1. i \in 1 .. Len(leaves) - 1 /\ i + 1 \in 1 .. Len(leaves)
        BY <1>6, <3>3
      <4>2. leaves[i].end = leaves[i + 1].start
        BY <4>1 DEF IInv, Chain
      <4>3. QED
        BY <1>8, <4>1, <4>2
    <3>4. QED
      BY <3>2, <3>3
  <2>2. leaves'[1].start = req.start
    <3>1. CASE leaves = <<>>
      BY <1>8, <1>9, <3>1 DEF IInv, Chain
    <3>2. CASE leaves # <<>>
      <4>1. 1 \in 1 .. Len(leaves)
        BY <1>6, <3>2
      <4>2. QED
        BY <1>8, <3>2, <4>1 DEF IInv, Chain
    <3>3. QED
      BY <3>1, <3>2
  <2>3. leaves'[Len(leaves')].end = pos'
    BY <1>5, <1>8, <1>9
  <2>4. leaves' # <<>>
    BY <1>6, <1>8
  <2>5. QED
    BY <1>5, <2>1, <2>2, <2>3, <2>4 DEF Chain
<1>11. Ahead'
  <2>1. result' = "none"
    BY DEF Answer, IInv, Ahead
  <2>2. CASE Len(pending) = 1
    <3>1. End = req.end
      BY <1>2, <2>2 DEF End
    <3>2. QED
      BY <1>5, <1>6, <1>8, <2>1, <2>2, <3>1 DEF Answer, Ahead
  <2>3. CASE Len(pending) # 1
    <3>1. Tail(pending) # <<>> /\ Tail(pending)[Len(Tail(pending))] = req.end
      BY <1>2, <2>3, TailEnds, Zenon
    <3>2. QED
      BY <1>5, <2>1, <2>3, <3>1 DEF Answer, Ahead
  <2>4. QED
    BY <2>2, <2>3
<1>12. QED
  BY <1>7, <1>10, <1>11 DEF IInv

\* Halving puts the midpoint on top of the stack.
LEMMA SplitKeepsIInv ==
  ASSUME IInv, Split
  PROVE  IInv'
<1>1. pending \in Seq(Int) /\ pending # <<>> /\ pending[Len(pending)] = req.end
  BY DEF IInv, TypeOK, Ahead, Split
<1>2. Mid \in Int
  BY <1>1 DEF Mid, End, IInv, TypeOK
<1>3. pending' = <<Mid>> \o pending
  BY DEF Split
<1>4. pending' \in Seq(Int) /\ Len(pending') = Len(pending) + 1
  BY <1>1, <1>2, <1>3
<1>5. pending' # <<>> /\ pending'[Len(pending')] = req.end
  BY <1>1, <1>2, <1>3, <1>4
<1>6. QED
  BY <1>4, <1>5 DEF Split, IInv, TypeOK, Chain, Ahead

\* The invariant holds in every state.
THEOREM InvariantHolds == Spec => []IInv
<1>1. Init => IInv
  <2> SUFFICES ASSUME Init PROVE IInv
    OBVIOUS
  <2>1. req.start \in Int /\ req.end \in Int
    BY RequestsAssumption DEF Init
  <2>2. leaves \in Seq(Leaf) /\ pending \in Seq(Int)
    BY <2>1 DEF Init
  <2>3. TypeOK
    BY <2>1, <2>2 DEF Init, TypeOK, Results
  <2>4. Chain /\ Ahead
    BY DEF Init, Chain, Ahead
  <2>5. QED
    BY <2>3, <2>4 DEF IInv
<1>2. IInv /\ [Next]_vars => IInv'
  <2> SUFFICES ASSUME IInv, [Next]_vars PROVE IInv'
    OBVIOUS
  <2>1. CASE Reject
    BY <2>1, RangesKept DEF Reject, Return, Results, IInv, TypeOK
  <2>2. CASE Answer
    BY <2>2, AnswerKeepsIInv
  <2>3. CASE Split
    BY <2>3, SplitKeepsIInv
  <2>4. CASE GiveUp
    <3>1. requests' \in Nat
      BY <2>4 DEF GiveUp, IInv, TypeOK
    <3>2. pc' = "returned" /\ result' \in {"invalid_request", "max_samples"}
      BY <2>4 DEF GiveUp, Return
    <3>3. QED
      BY <2>4, <3>1, <3>2, RangesKept DEF GiveUp, Results
  <2>5. CASE QueryFails
    <3>1. requests' \in Nat
      BY <2>5 DEF QueryFails, IInv, TypeOK
    <3>2. QED
      BY <2>5, <3>1, RangesKept DEF QueryFails, Return, Results
  <2>6. CASE TryParent
    <3>1. req.start \in Int /\ req.end \in Int
      BY RequestsAssumption DEF IInv, TypeOK
    <3>2. leaves' \in Seq(Leaf) /\ pending' \in Seq(Int)
      BY <2>6, <3>1 DEF TryParent
    <3>3. TypeOK'
      BY <2>6, <3>1, <3>2 DEF TryParent, IInv, TypeOK
    <3>4. Chain'
      BY <2>6 DEF TryParent, Chain
    <3>5. Ahead'
      BY <2>6 DEF TryParent, IInv, Ahead
    <3>6. QED
      BY <3>3, <3>4, <3>5 DEF IInv
  <2>7. CASE ReturnResult
    BY <2>7, RangesKept DEF ReturnResult, Return, Results, IInv, TypeOK
  <2>8. CASE Returned \/ UNCHANGED vars
    BY <2>8 DEF Returned, vars, IInv, TypeOK, Chain, Ahead
  <2>9. QED
    BY <2>1, <2>2, <2>3, <2>4, <2>5, <2>6, <2>7, <2>8 DEF Next
<1>3. QED
  BY <1>1, <1>2, PTL DEF Spec

\* The state variables keep their types.
THEOREM TypeCorrect == Spec => []TypeOK
  BY InvariantHolds, PTL DEF IInv

\* A result covers the requested range without a gap, for every request and
\* every pattern of refusals.
THEOREM ResultCoversRange == Spec => []OkCoversRange
<1>1. IInv => OkCoversRange
  BY DEF IInv, Chain, Ahead, OkCoversRange
<1>2. QED
  BY <1>1, InvariantHolds, PTL

-------------------------------------------------------------------------------
\* Products and quotients of variables, which the solver does not decide: a sum
\* of n parts of at least s each that does not exceed a has n <= a \div s.
LEMMA ProductGrows ==
  ASSUME NEW s \in Nat, NEW m \in Int, NEW n \in Int, m <= n
  PROVE  s * m <= s * n
<1>1. n - m \in Nat
  OBVIOUS
<1>2. s * (n - m) \in Nat
  BY <1>1
<1>3. s * n = s * m + s * (n - m)
  OBVIOUS
<1>4. QED
  BY <1>2, <1>3

LEMMA ProductOfNext ==
  ASSUME NEW s \in Int, NEW n \in Int
  PROVE  s * (n + 1) = s * n + s
  OBVIOUS

LEMMA Quotient ==
  ASSUME NEW a \in Int, NEW b \in Nat \ {0}
  PROVE  /\ a \div b \in Int /\ a % b \in 0 .. b - 1
         /\ a = b * (a \div b) + (a % b)
  OBVIOUS

LEMMA PartsFit ==
  ASSUME NEW s \in Nat \ {0}, NEW n \in Int, NEW a \in Int, s * n <= a
  PROVE  n <= a \div s
<1> DEFINE q == a \div s
<1>1. q \in Int /\ a % s \in 0 .. s - 1 /\ a = s * q + (a % s)
  BY Quotient
<1> HIDE DEF q
<1>2. a < s * (q + 1)
  BY <1>1, ProductOfNext
<1>3. CASE q + 1 <= n
  <2>1. s * (q + 1) <= s * n
    BY <1>1, <1>3, ProductGrows
  <2>2. s * (q + 1) \in Int /\ s * n \in Int
    BY <1>1
  <2>3. QED
    BY <1>2, <2>1, <2>2
<1>4. QED
  BY <1>1, <1>3 DEF q

\* From a over n parts to b, over one more to c, over m to e.
LEMMA PartsAddUp ==
  ASSUME NEW s \in Nat, NEW n \in Nat, NEW a \in Int, NEW b \in Int, NEW c \in Int,
         b - a >= s * n, c - b >= s
  PROVE  /\ c - a >= s * (n + 1)
         /\ \A m \in Nat, e \in Int : e - c >= s * m => e - a >= s * (n + (m + 1))
<1> DEFINE p == s * n
<1>1. p \in Int /\ s * (n + 1) = p + s
  BY ProductOfNext
<1>2. ASSUME NEW m \in Nat, NEW e \in Int, e - c >= s * m
      PROVE  e - a >= s * (n + (m + 1))
  <2> DEFINE q == s * m
  <2>1. q \in Int /\ s * (n + (m + 1)) = p + s + q
    OBVIOUS
  <2>2. b - a >= p /\ e - c >= q
    BY <1>2
  <2> HIDE DEF p, q
  <2>3. e - a >= p + s + q
    BY <1>1, <2>1, <2>2
  <2>4. QED
    BY <2>1, <2>3
<1>3. b - a >= p
  OBVIOUS
<1> HIDE DEF p
<1>4. c - a >= p + s
  BY <1>1, <1>3
<1>5. QED
  BY <1>1, <1>2, <1>4

\* Both halves of a range that is halved are as long as the shortest part.
LEMMA HalvesAreLong ==
  ASSUME TypeOK, End \in Int, Splittable
  PROVE  /\ ShortestPart \in Nat \ {0} /\ Mid \in Int
         /\ Mid - pos >= ShortestPart /\ End - Mid >= ShortestPart
<1> DEFINE q == req.step \div Second
<1>1. pos \in Int /\ q \in Int
  BY RequestsAssumption, SecondAssumption DEF TypeOK
<1>2. Mid = pos + (End - pos) \div 2 /\ End - pos > q /\ pos < Mid /\ Mid < End
  BY DEF Mid, Splittable
<1> HIDE DEF q
<1>3. ShortestPart = IF (q + 1) \div 2 > 1 THEN (q + 1) \div 2 ELSE 1
  BY DEF ShortestPart, q
<1>4. QED
  BY <1>1, <1>2, <1>3

LEMMA ShortestPartIsPositive ==
  ASSUME TypeOK
  PROVE  ShortestPart \in Nat \ {0}
<1> DEFINE q == req.step \div Second
<1>1. q \in Int
  BY RequestsAssumption, SecondAssumption DEF TypeOK
<1> HIDE DEF q
<1>2. ShortestPart = IF (q + 1) \div 2 > 1 THEN (q + 1) \div 2 ELSE 1
  BY DEF ShortestPart, q
<1>3. QED
  BY <1>1, <1>2

\* The range before any halving, and in parts none of which is too short: those
\* that were answered, the one under way and those that wait.
Whole == leaves = <<>> /\ pending = <<req.end>> /\ pos = req.start

Parted ==
  /\ pos - req.start >= ShortestPart * Len(leaves)
  /\ End - pos >= ShortestPart
  /\ \A i \in 1 .. Len(pending) - 1 : pending[i + 1] - pending[i] >= ShortestPart
  /\ \A i \in 1 .. Len(pending) :
       req.end - pending[i] >= ShortestPart * (Len(pending) - i)

\* The most requests that one pass over the range takes.
Pass ==
  LET parts == (req.end - req.start) \div ShortestPart
  IN  IF parts > 1 THEN 2 * parts - 1 ELSE 1

\* The requests of the pass so far: a part that waits was split off by one, a
\* part that was answered also by the one that answered it.
Sent == 2 * Len(leaves) + Len(pending) - 1
Before == IF cluster = "parent" THEN Pass ELSE 0

Counted ==
  ValidRange /\ req.step >= 0 =>
    /\ pc = "query" => (Whole \/ Parted) /\ requests <= Before + Sent
    /\ pc = "merged" =>
         /\ pending = <<>> /\ requests <= Before + Sent
         /\ Len(leaves) = 1 \/ pos - req.start >= ShortestPart * Len(leaves)
    /\ pc = "returned" => requests <= Before + Pass

\* A query is sent: the bound on the pass leaves room for it, and the bound of
\* the whole call holds when it ends the call.
LEMMA RoomInPass ==
  ASSUME IInv, Counted, ValidRange, req.step >= 0, pc = "query" \/ pc = "merged"
  PROVE  /\ ShortestPart \in Nat \ {0} /\ Pass \in Nat /\ Sent \in Int /\ Before \in Nat
         /\ pc = "query" => Sent + 1 <= Pass
         /\ pc = "merged" => Sent <= Pass
<1> DEFINE s == ShortestPart
           n == Len(leaves)
           m == Len(pending)
           length == req.end - req.start
           parts == length \div s
<1>1. s \in Nat \ {0}
  BY ShortestPartIsPositive DEF IInv
<1>2. n \in Nat /\ m \in Nat /\ length \in Int /\ pos \in Int /\ req.start \in Int
      /\ req.end \in Int
  BY RequestsAssumption DEF IInv, TypeOK
<1>3. parts \in Int
  BY <1>1, <1>2
<1>4. Pass = IF parts > 1 THEN 2 * parts - 1 ELSE 1
  BY DEF Pass
<1>5. Sent = 2 * n + m - 1
  BY DEF Sent
<1> HIDE DEF parts
<1>6. Pass \in Nat /\ Sent \in Int /\ Before \in Nat
  BY <1>2, <1>3, <1>4, <1>5 DEF Before
<1>7. ASSUME NEW k \in Nat, s * k <= length PROVE k <= parts
  BY <1>1, <1>2, <1>7, PartsFit DEF parts
<1>8. CASE pc = "query"
  <2>1. m \in Nat \ {0} /\ pending # <<>>
    <3>1. pending \in Seq(Int) /\ pending # <<>>
      BY <1>8 DEF IInv, TypeOK, Ahead
    <3>2. QED
      BY <3>1
  <2>2. CASE Whole
    <3>1. n = 0 /\ m = 1
      BY <2>2 DEF Whole
    <3>2. QED
      BY <1>1, <1>3, <1>4, <1>5, <1>6, <1>8, <3>1
  <2>3. CASE Parted
    <3>1. End \in Int /\ End = pending[1]
      BY <1>2, <2>1 DEF End, IInv, TypeOK
    <3>2. /\ pos - req.start >= s * n /\ End - pos >= s /\ req.end - End >= s * (m - 1)
      BY <2>1, <2>3, <3>1 DEF Parted
    <3>3. m - 1 \in Nat /\ (m - 1) + 1 = m
      BY <2>1
    <3>4. length >= s * (n + ((m - 1) + 1))
      BY <1>1, <1>2, <3>1, <3>2, <3>3, PartsAddUp
    <3>5. n + m \in Nat /\ s * (n + m) <= length
      BY <1>1, <1>2, <3>3, <3>4
    <3>6. n + m <= parts
      BY <1>7, <3>5
    <3>7. QED
      BY <1>1, <1>2, <1>3, <1>4, <1>5, <1>6, <1>8, <2>1, <3>6
  <2>4. QED
    BY <1>8, <2>2, <2>3 DEF Counted
<1>9. CASE pc = "merged"
  <2>1. m = 0 /\ (n = 1 \/ pos - req.start >= s * n) /\ pos = req.end
    BY <1>9 DEF Counted, IInv, Ahead
  <2>2. n = 1 \/ n <= parts
    BY <1>2, <1>7, <2>1
  <2>3. n # 0
    <3>1. leaves \in Seq(Leaf) /\ leaves # <<>>
      BY <1>9 DEF IInv, TypeOK, Ahead
    <3>2. QED
      BY <3>1
  <2>4. m = 0
    BY <2>1
  <2>5. Sent <= Pass
    <3>1. n \in Nat /\ n # 0 /\ m = 0 /\ (n = 1 \/ n <= parts)
      BY <1>2, <2>2, <2>3, <2>4
    <3> HIDE DEF n, m
    <3>2. QED
      BY <1>3, <1>4, <1>5, <3>1
  <2>6. QED
    BY <1>1, <1>6, <1>9, <2>5
<1>10. QED
  BY <1>1, <1>6, <1>8, <1>9

\* An answer moves the part under way from the stack to the answered ones.
LEMMA AnswerKeepsCounted ==
  ASSUME IInv, Counted, Answer
  PROVE  Counted'
<1> SUFFICES ASSUME ValidRange, req.step >= 0
             PROVE  Counted'
  BY DEF Answer, ValidRange, Counted
<1> DEFINE s == ShortestPart
           n == Len(leaves)
           m == Len(pending)
<1>1. /\ s \in Nat \ {0} /\ Before \in Nat /\ pc = "query"
      /\ (Whole \/ Parted) /\ requests <= Before + Sent
  BY RoomInPass DEF Answer, Counted
<1>2. /\ pending \in Seq(Int) /\ pending # <<>> /\ leaves \in Seq(Leaf)
      /\ pos \in Int /\ requests \in Nat /\ req.start \in Int /\ req.end \in Int
  BY <1>1, RequestsAssumption DEF IInv, TypeOK, Ahead
<1>3. /\ n \in Nat /\ m \in Nat \ {0} /\ End \in Int /\ End = pending[1]
      /\ Len(Tail(pending)) = m - 1
  BY <1>2 DEF End
<1>4. \A i \in 1 .. m - 1 : Tail(pending)[i] = pending[i + 1]
  BY <1>2
<1>5. Len(leaves') = n + 1
  <2>1. PICK S \in SUBSET Series :
          leaves' = Append(leaves, [start |-> pos, end |-> End, series |-> S])
    BY DEF Answer
  <2>2. QED
    BY <1>2, <2>1
<1>6. /\ pending' = Tail(pending) /\ requests' = requests + 1 /\ req' = req
      /\ cluster' = cluster /\ pos' = End
      /\ pc' = IF m = 1 THEN "merged" ELSE "query"
  BY DEF Answer, RightStart
<1>7. ShortestPart' = s /\ Before' = Before
  BY <1>6 DEF ShortestPart, Before, Pass
<1>8. requests' <= Before' + Sent'
  <2>1. Sent = 2 * n + m - 1 /\ Sent' = 2 * (n + 1) + (m - 1) - 1
    BY <1>3, <1>5, <1>6 DEF Sent
  <2>2. QED
    BY <1>1, <1>2, <1>3, <1>6, <1>7, <2>1
<1>10. CASE Whole
  <2>1. n = 0 /\ m = 1
    BY <1>10 DEF Whole
  <2>2. pending' = <<>> /\ pc' = "merged" /\ Len(leaves') = 1
    BY <1>2, <1>5, <1>6, <2>1
  <2>3. QED
    BY <1>8, <2>2 DEF Counted
<1>11. CASE Parted
  <2>1. /\ pos - req.start >= s * n /\ End - pos >= s
        /\ \A i \in 1 .. m - 1 : pending[i + 1] - pending[i] >= s
        /\ \A i \in 1 .. m : req.end - pending[i] >= s * (m - i)
    BY <1>11 DEF Parted
  <2>2. pos' - req.start >= s * (n + 1)
    BY <1>1, <1>2, <1>3, <1>6, <2>1, PartsAddUp
  <2>3. CASE m = 1
    <3>1. pending' = <<>> /\ pc' = "merged"
      BY <1>2, <1>3, <1>6, <2>3, EmptySeq
    <3>2. QED
      BY <1>5, <1>6, <1>7, <1>8, <2>2, <3>1 DEF Counted
  <2>4. CASE m # 1
    <3>1. pc' = "query" /\ Len(pending') = m - 1 /\ m - 1 \in Nat \ {0}
      BY <1>3, <1>6, <2>4
    <3>2. End' = pending'[1] /\ pending'[1] = pending[2]
      BY <1>2, <1>4, <1>6, <3>1 DEF End
    <3>3. End' - pos' >= s
      BY <1>3, <1>6, <2>1, <3>1, <3>2
    <3>4. \A i \in 1 .. Len(pending') - 1 : pending'[i + 1] - pending'[i] >= s
      <4>1. SUFFICES ASSUME NEW i \in 1 .. m - 2
                     PROVE  pending'[i + 1] - pending'[i] >= s
        BY <3>1
      <4>2. i \in 1 .. m - 1 /\ i + 1 \in 1 .. m - 1
        BY <1>3
      <4>3. pending'[i] = pending[i + 1] /\ pending'[i + 1] = pending[(i + 1) + 1]
        BY <1>4, <1>6, <4>2
      <4>4. QED
        BY <2>1, <4>2, <4>3
    <3>5. \A i \in 1 .. Len(pending') : req.end - pending'[i] >= s * (Len(pending') - i)
      <4>1. SUFFICES ASSUME NEW i \in 1 .. m - 1
                     PROVE  req.end - pending'[i] >= s * ((m - 1) - i)
        BY <3>1
      <4>2. i + 1 \in 1 .. m /\ m - (i + 1) = (m - 1) - i
        BY <1>3
      <4>3. pending'[i] = pending[i + 1]
        BY <1>4, <1>6
      <4>4. req.end - pending[i + 1] >= s * (m - (i + 1))
        BY <2>1, <4>2
      <4>5. QED
        BY <4>2, <4>3, <4>4
    <3>6. Parted'
      BY <1>5, <1>6, <1>7, <2>2, <3>3, <3>4, <3>5 DEF Parted
    <3>7. QED
      BY <1>8, <3>1, <3>6 DEF Counted
  <2>5. QED
    BY <2>3, <2>4
<1>12. QED
  BY <1>1, <1>10, <1>11

\* Halving puts one more part on the stack.
LEMMA SplitKeepsCounted ==
  ASSUME IInv, Counted, Split
  PROVE  Counted'
<1> SUFFICES ASSUME ValidRange, req.step >= 0
             PROVE  Counted'
  BY DEF Split, ValidRange, Counted
<1> DEFINE s == ShortestPart
           n == Len(leaves)
           m == Len(pending)
<1>1. /\ s \in Nat \ {0} /\ Before \in Nat /\ pc = "query"
      /\ (Whole \/ Parted) /\ requests <= Before + Sent
  BY RoomInPass DEF Split, Counted
<1>2. /\ pending \in Seq(Int) /\ pending # <<>> /\ leaves \in Seq(Leaf)
      /\ pos \in Int /\ requests \in Nat /\ req.start \in Int /\ req.end \in Int
  BY <1>1, RequestsAssumption DEF IInv, TypeOK, Ahead
<1>3. n \in Nat /\ m \in Nat \ {0} /\ End \in Int /\ End = pending[1]
  BY <1>2 DEF End
<1>4. Mid \in Int /\ Mid - pos >= s /\ End - Mid >= s
  BY <1>3, HalvesAreLong DEF Split, IInv
<1>5. /\ pending' = <<Mid>> \o pending /\ requests' = requests + 1 /\ pc' = "query"
      /\ UNCHANGED <<req, cluster, pos, leaves>>
  BY <1>1 DEF Split
<1>6. /\ Len(pending') = m + 1 /\ pending'[1] = Mid /\ End' = Mid
      /\ \A i \in 2 .. m + 1 : pending'[i] = pending[i - 1]
  BY <1>2, <1>4, <1>5 DEF End
<1>7. ShortestPart' = s /\ Before' = Before
  BY <1>5 DEF ShortestPart, Before, Pass
<1>8. requests' <= Before' + Sent'
  <2>1. Sent = 2 * n + m - 1 /\ Sent' = 2 * n + (m + 1) - 1
    BY <1>3, <1>5, <1>6 DEF Sent
  <2>2. QED
    BY <1>1, <1>2, <1>3, <1>5, <1>7, <2>1
<1>9. /\ pos - req.start >= s * n
      /\ \A i \in 1 .. m - 1 : pending[i + 1] - pending[i] >= s
      /\ \A i \in 1 .. m : req.end - pending[i] >= s * (m - i)
  <2>1. CASE Whole
    <3>1. n = 0 /\ m = 1 /\ pending[1] = req.end /\ pos = req.start
      BY <2>1 DEF Whole
    <3>2. s * n = 0 /\ s * (m - 1) = 0
      BY <1>1, <3>1
    <3>3. QED
      BY <1>2, <3>1, <3>2
  <2>2. CASE Parted
    BY <2>2 DEF Parted
  <2>3. QED
    BY <1>1, <2>1, <2>2
<1>10. \A i \in 1 .. Len(pending') - 1 : pending'[i + 1] - pending'[i] >= s
  <2>1. SUFFICES ASSUME NEW i \in 1 .. m
                 PROVE  pending'[i + 1] - pending'[i] >= s
    BY <1>6
  <2>2. i + 1 \in 2 .. m + 1 /\ pending'[i + 1] = pending[i]
    BY <1>3, <1>6
  <2>3. CASE i = 1
    BY <1>3, <1>4, <1>6, <2>2, <2>3
  <2>4. CASE i # 1
    <3>1. i \in 2 .. m + 1 /\ i - 1 \in 1 .. m - 1 /\ (i - 1) + 1 = i
      BY <1>3, <2>4
    <3>2. pending'[i] = pending[i - 1]
      BY <1>6, <3>1
    <3>3. pending[(i - 1) + 1] - pending[i - 1] >= s
      BY <1>9, <3>1
    <3>4. QED
      BY <2>2, <3>1, <3>2, <3>3
  <2>5. QED
    BY <2>3, <2>4
<1>11. \A i \in 1 .. Len(pending') : req.end - pending'[i] >= s * (Len(pending') - i)
  <2>1. SUFFICES ASSUME NEW i \in 1 .. m + 1
                 PROVE  req.end - pending'[i] >= s * ((m + 1) - i)
    BY <1>6
  <2>2. CASE i = 1
    <3>1. req.end - End >= s * (m - 1)
      BY <1>3, <1>9
    <3>2. s * m = s * (m - 1) + s /\ s * (m - 1) \in Int
      BY <1>1, <1>3
    <3>3. (m + 1) - i = m /\ pending'[i] = Mid
      BY <1>3, <1>6, <2>2
    <3>4. req.end - Mid >= s * m
      BY <1>1, <1>2, <1>3, <1>4, <3>1, <3>2
    <3>5. QED
      BY <3>3, <3>4
  <2>3. CASE i # 1
    <3>1. i \in 2 .. m + 1 /\ i - 1 \in 1 .. m /\ m - (i - 1) = (m + 1) - i
      BY <1>3, <2>3
    <3>2. pending'[i] = pending[i - 1]
      BY <1>6, <3>1
    <3>3. req.end - pending[i - 1] >= s * (m - (i - 1))
      BY <1>9, <3>1
    <3>4. QED
      BY <3>1, <3>2, <3>3
  <2>4. QED
    BY <2>2, <2>3
<1>12. Parted'
  BY <1>4, <1>5, <1>6, <1>7, <1>9, <1>10, <1>11 DEF Parted
<1>13. QED
  BY <1>5, <1>8, <1>12 DEF Counted

\* The pass is over, or the call.
LEMMA OthersKeepCounted ==
  ASSUME IInv, Counted,
         Reject \/ GiveUp \/ QueryFails \/ TryParent \/ ReturnResult
  PROVE  Counted'
<1> SUFFICES ASSUME ValidRange, req.step >= 0
             PROVE  Counted'
  BY DEF Reject, GiveUp, QueryFails, TryParent, ReturnResult, ValidRange, Counted
<1>1. ~Reject /\ pc \in {"query", "merged"} /\ requests \in Nat
  BY DEF Reject, GiveUp, QueryFails, TryParent, ReturnResult, IInv, TypeOK
<1>2. /\ Pass \in Nat /\ Sent \in Int /\ Before \in Nat /\ requests <= Before + Sent
      /\ pc = "query" => Sent + 1 <= Pass
      /\ pc = "merged" => Sent <= Pass
  BY <1>1, RoomInPass DEF Counted
<1>3. CASE GiveUp \/ QueryFails \/ ReturnResult
  <2>1. /\ pc' = "returned" /\ UNCHANGED <<req, cluster>>
        /\ pc = "query" => requests' = requests + 1
        /\ pc = "merged" => requests' = requests
    BY <1>3 DEF GiveUp, QueryFails, ReturnResult, Return
  <2>2. Before' = Before /\ Pass' = Pass
    BY <2>1 DEF Before, Pass, ShortestPart
  <2>3. requests' <= Before' + Pass'
    BY <1>1, <1>2, <2>1, <2>2
  <2>4. QED
    BY <2>1, <2>3 DEF Counted
<1>4. CASE TryParent
  <2>1. /\ pc = "merged" /\ cluster = "child" /\ cluster' = "parent" /\ pc' = "query"
        /\ UNCHANGED <<req, requests>>
        /\ pos' = req.start /\ pending' = <<req.end>> /\ leaves' = <<>>
    BY <1>4 DEF TryParent
  <2>2. Before' = Pass /\ Before = 0 /\ Sent' = 0
    BY <2>1 DEF Before, Pass, ShortestPart, Sent
  <2>3. Whole'
    BY <2>1 DEF Whole
  <2>4. requests' <= Before' + Sent'
    BY <1>1, <1>2, <2>1, <2>2
  <2>5. QED
    BY <2>1, <2>3, <2>4 DEF Counted
<1>5. QED
  BY <1>1, <1>3, <1>4

\* The count holds in every state.
THEOREM CountHolds == Spec => []Counted
<1>1. Init => Counted
  <2> SUFFICES ASSUME Init PROVE Counted
    OBVIOUS
  <2>1. Whole /\ Sent = 0 /\ Before = 0 /\ requests = 0 /\ pc = "query"
    BY DEF Init, Whole, Sent, Before
  <2>2. QED
    BY <2>1 DEF Counted
<1>2. IInv /\ Counted /\ [Next]_vars => Counted'
  <2> SUFFICES ASSUME IInv, Counted, [Next]_vars PROVE Counted'
    OBVIOUS
  <2>1. CASE Answer
    BY <2>1, AnswerKeepsCounted
  <2>2. CASE Split
    BY <2>2, SplitKeepsCounted
  <2>3. CASE Reject \/ GiveUp \/ QueryFails \/ TryParent \/ ReturnResult
    BY <2>3, OthersKeepCounted
  <2>4. CASE Returned \/ UNCHANGED vars
    BY <2>4 DEF Returned, vars, Counted, ValidRange, Whole, Parted, Before, Pass, Sent,
                ShortestPart, End
  <2>5. QED
    BY <2>1, <2>2, <2>3, <2>4 DEF Next
<1>3. QED
  BY <1>1, <1>2, InvariantHolds, PTL DEF Spec

\* However the backend refuses, the halving sends no more queries than the range
\* has shortest parts, twice at most.
THEOREM RequestsAreBounded == Spec => []RequestsBounded
<1>1. IInv /\ Counted => RequestsBounded
  <2> SUFFICES ASSUME IInv, Counted, ValidRange, req.step >= 0
               PROVE  requests <= IF cluster = "parent" THEN 2 * Pass ELSE Pass
    BY DEF RequestsBounded, Pass
  <2>1. requests \in Nat /\ pc \in {"query", "merged", "returned"}
    BY DEF IInv, TypeOK
  <2>2. Pass \in Nat
    <3>1. ShortestPart \in Nat \ {0} /\ req.end - req.start \in Int
      BY ShortestPartIsPositive, RequestsAssumption DEF IInv, TypeOK
    <3>2. (req.end - req.start) \div ShortestPart \in Int
      BY <3>1, Quotient
    <3>3. QED
      BY <3>2 DEF Pass
  <2>3. requests <= Before + Pass
    <3>1. CASE pc = "returned"
      BY <3>1 DEF Counted
    <3>2. CASE pc \in {"query", "merged"}
      <4>1. Sent \in Int /\ Before \in Nat /\ Sent <= Pass /\ requests <= Before + Sent
        BY <2>2, <3>2, RoomInPass DEF Counted
      <4>2. QED
        BY <2>1, <2>2, <4>1
    <3>3. QED
      BY <2>1, <3>1, <3>2
  <2>4. QED
    BY <2>2, <2>3 DEF Before
<1>2. QED
  BY <1>1, CountHolds, InvariantHolds, PTL

-------------------------------------------------------------------------------
\* Every second of a range has an evaluated timestamp, cut down to seconds,
\* within a step before it.
LEMMA GridIsDense ==
  ASSUME NEW d \in Nat \ {0}, NEW step \in Nat \ {0}, NEW start \in Int, NEW end \in Int,
         NEW t \in start .. end
  PROVE  \E k \in 0 .. (((end - start) * d) \div step) :
           /\ (start * d + k * step) \div d <= t
           /\ (t - ((start * d + k * step) \div d)) * d < step + d
<1> DEFINE a == (t - start) * d
           b == (end - start) * d
           k == a \div step
           x == start * d + k * step
           u == x \div d
<1>1. a \in Nat /\ b \in Nat /\ a <= b
  <2>1. t - start \in Nat /\ end - start \in Nat /\ t - start <= end - start
    OBVIOUS
  <2>2. d * (t - start) <= d * (end - start)
    BY <2>1, ProductGrows
  <2>3. QED
    BY <2>1, <2>2
<1>2. k \in Int /\ a % step \in 0 .. step - 1 /\ a = step * k + (a % step)
  <2>1. a \in Int
    BY <1>1
  <2> HIDE DEF a
  <2>2. QED
    BY <2>1, Quotient
<1>3. k \in 0 .. (b \div step)
  <2>1. step * 0 <= a /\ step * k <= b
    BY <1>1, <1>2
  <2>2. 0 <= a \div step /\ k <= b \div step
    BY <1>1, <1>2, <2>1, PartsFit
  <2>3. b \div step \in Int
    BY <1>1, Quotient
  <2>4. QED
    BY <1>2, <2>2, <2>3
<1>4. x \in Int /\ x <= t * d /\ t * d < x + step
  <2>1. t * d = start * d + a /\ start * d \in Int /\ t * d \in Int
    OBVIOUS
  <2>2. k * step = step * k /\ k * step \in Int
    BY <1>2
  <2> HIDE DEF a, k
  <2>3. QED
    BY <1>1, <1>2, <2>1, <2>2
<1>5. u \in Int /\ x % d \in 0 .. d - 1 /\ x = d * u + (x % d)
  BY <1>4, Quotient
<1> HIDE DEF a, b, k, x, u
<1>6. u <= t
  <2>1. CASE t + 1 <= u
    <3>1. d * (t + 1) <= d * u
      BY <1>5, <2>1, ProductGrows
    <3>2. d * (t + 1) = t * d + d /\ t * d \in Int /\ d * u \in Int
      BY <1>5
    <3>3. QED
      BY <1>4, <1>5, <3>1, <3>2
  <2>2. QED
    BY <1>5, <2>1
<1>7. (t - u) * d < step + d
  <2>1. (t - u) * d = t * d - d * u /\ t * d \in Int /\ d * u \in Int
    BY <1>5
  <2>2. QED
    BY <1>4, <1>5, <2>1
<1>8. QED
  BY <1>3, <1>6, <1>7 DEF a, b, k, x, u

\* A sample of series s lies within a step before the second t.
Near(s, t) == \E u \in merged[s] : u <= t /\ (t - u) * Second < req.step + Second

\* The series of all answers have no hole up to the point reached.
Dense ==
  req.parsed /\ req.step > 0 =>
    \A s \in Series :
      leaves # <<>> /\ (\A i \in 1 .. Len(leaves) : s \in leaves[i].series) =>
        \A t \in req.start .. pos : Near(s, t)

LEMMA AnswerKeepsDense ==
  ASSUME IInv, Dense, Answer
  PROVE  Dense'
<1>1. PICK S \in SUBSET Series :
        /\ leaves' = Append(leaves, [start |-> pos, end |-> End, series |-> S])
        /\ merged' = [s \in Series |->
                        IF s \in S THEN MergeSamples(merged[s], Samples(pos, End))
                        ELSE merged[s]]
  BY DEF Answer
<1>2. pos' = End /\ req' = req
  BY DEF Answer, RightStart
<1>3. /\ leaves \in Seq(Leaf) /\ pos \in Int /\ End \in Int
      /\ req.start \in Int /\ req.step \in Int
  <2>1. pending \in Seq(Int) /\ pending # <<>>
    BY DEF IInv, TypeOK, Ahead, Answer
  <2>2. QED
    BY <2>1, RequestsAssumption DEF IInv, TypeOK, End
<1>4. /\ Len(leaves') = Len(leaves) + 1
      /\ leaves'[Len(leaves) + 1].series = S
      /\ \A i \in 1 .. Len(leaves) : leaves'[i] = leaves[i]
  BY <1>1, <1>3
<1> SUFFICES ASSUME req.parsed, req.step > 0, NEW s \in Series,
                    \A i \in 1 .. Len(leaves') : s \in leaves'[i].series,
                    NEW t \in req.start .. End
             PROVE  Near(s, t)'
  BY <1>2 DEF Dense
<1>5. s \in S /\ \A i \in 1 .. Len(leaves) : s \in leaves[i].series
  BY <1>3, <1>4
<1>6. merged'[s] = merged[s] \cup Evaluated(pos, End)
  BY <1>1, <1>5 DEF MergeSamples, Samples
<1>7. CASE leaves # <<>> /\ t <= pos
  <2>1. t \in req.start .. pos
    BY <1>3, <1>7
  <2>2. Near(s, t)
    BY <1>5, <1>7, <2>1 DEF Dense
  <2>3. QED
    BY <1>2, <1>6, <2>2 DEF Near
<1>8. CASE leaves = <<>> \/ t > pos
  <2>1. t \in pos .. End
    BY <1>3, <1>8 DEF IInv, Chain
  <2>5. req.step \in Nat \ {0}
    BY <1>3
  <2>2. PICK k \in 0 .. (((End - pos) * Second) \div req.step) :
          /\ (pos * Second + k * req.step) \div Second <= t
          /\ (t - ((pos * Second + k * req.step) \div Second)) * Second < req.step + Second
    BY <1>3, <2>5, <2>1, GridIsDense, SecondAssumption, Zenon
  <2>3. (pos * Second + k * req.step) \div Second \in merged'[s]
    BY <1>6 DEF Evaluated
  <2>4. QED
    BY <1>2, <2>2, <2>3 DEF Near
<1>9. QED
  BY <1>3, <1>7, <1>8

\* No pattern of refusals leaves a hole in a series that every answer contains.
THEOREM SplittingLeavesNoHoles == Spec => []NoHoles
<1>1. Init => Dense
  BY DEF Init, Dense
<1>2. IInv /\ Dense /\ [Next]_vars => Dense'
  <2> SUFFICES ASSUME IInv, Dense, [Next]_vars PROVE Dense'
    OBVIOUS
  <2>1. CASE Answer
    BY <2>1, AnswerKeepsDense
  <2>2. CASE TryParent
    BY <2>2 DEF TryParent, Dense
  <2>3. CASE UNCHANGED <<req, pos, leaves, merged>>
    BY <2>3 DEF Dense, Near
  <2>4. QED
    BY <2>1, <2>2, <2>3
    DEF Next, Reject, Split, GiveUp, QueryFails, ReturnResult, Returned, vars
<1>3. IInv /\ Dense => NoHoles
  BY DEF IInv, Ahead, Dense, Near, NoHoles
<1>4. QED
  BY <1>1, <1>2, <1>3, InvariantHolds, PTL DEF Spec
===============================================================================
