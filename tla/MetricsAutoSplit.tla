---------------------------- MODULE MetricsAutoSplit ----------------------------
(***************************************************************************)
(* One metrics range query: clinicServiceClient.QueryRange                 *)
(* (src/internal/clinic/metrics.go) over QueryRangeWithAutoSplit           *)
(* (src/internal/clinicapi/metrics.go).  A query the backend refuses for   *)
(* its number of samples is halved, left half first, until the halves are  *)
(* answered or no longer than a step; the answers are merged.  A range     *)
(* without any series is asked for again under the parent cluster's id.    *)
(*                                                                         *)
(* The recursion is kept as the point reached and the stack of the ends of *)
(* the ranges still to be queried: each of them starts where the one above *)
(* it ends.                                                                *)
(***************************************************************************)
EXTENDS Integers, Sequences

CONSTANTS
  Requests,   \* the requests a caller may make: [start, end, step, parsed]
  Series,     \* the label sets the backend knows
  Second      \* time.Second in the unit of durations (step)

ASSUME SecondAssumption == Second \in Nat \ {0}
ASSUME RequestsAssumption ==
  Requests \subseteq [start : Int, end : Int, step : Int, parsed : BOOLEAN]

VARIABLES
  pc,         \* where the caller's goroutine is
  req,        \* the request; parsed tells whether its step is a Go duration
  fallback,   \* a parent label is known and the query names the child cluster
  cluster,    \* whose id the query names: "child" or "parent"
  pos,        \* start of the query under way
  pending,    \* ends of the query under way and of those still to come
  leaves,     \* history: the queries answered, in order
  merged,     \* per series: the timestamps collected
  found,      \* the series collected
  requests,   \* history: number of queries sent
  result      \* what the call returned

vars == <<pc, req, fallback, cluster, pos, pending, leaves, merged, found, requests,
          result>>

Results == {"none", "ok", "invalid_request", "max_samples", "failed"}

Leaf == [start : Int, end : Int, series : SUBSET Series]

TypeOK ==
  /\ pc \in {"query", "merged", "returned"}
  /\ req \in Requests
  /\ fallback \in BOOLEAN
  /\ cluster \in {"child", "parent"}
  /\ pos \in Int
  /\ pending \in Seq(Int)
  /\ leaves \in Seq(Leaf)
  /\ merged \in [Series -> SUBSET Int]
  /\ found \in SUBSET Series
  /\ requests \in Nat
  /\ result \in Results

Init ==
  /\ pc = "query"
  /\ req \in Requests
  /\ fallback \in BOOLEAN
  /\ cluster = "child"
  /\ pos = req.start
  /\ pending = <<req.end>>
  /\ leaves = <<>>
  /\ merged = [s \in Series |-> {}]
  /\ found = {}
  /\ requests = 0
  /\ result = "none"

-------------------------------------------------------------------------------
\* QueryRange's check of the range.
ValidRange == req.start > 0 /\ req.end > 0 /\ req.end >= req.start

\* The query under way.
End == Head(pending)

\* Mutant: the right half starts after the midpoint.
RightStartAfter(mid) == mid + 1

Mid == pos + (End - pos) \div 2
RightStart(mid) == mid

\* Mutant: ranges are halved down to single seconds.
SplittableBelowStep == req.step > 0 /\ pos < Mid /\ Mid < End

\* The range may be halved: it is longer than a step, in whole seconds.
Splittable ==
  /\ req.step > 0
  /\ End - pos > req.step \div Second
  /\ pos < Mid /\ Mid < End

\* The timestamps the backend evaluates a range at, cut down to seconds as the
\* decoding of the response does (asInt64).
Evaluated(start, end) ==
  {(start * Second + k * req.step) \div Second :
     k \in 0 .. (((end - start) * Second) \div req.step)}

\* Mutant: of a series in both results the right one is kept.
MergeSamplesRight(left, right) == IF right = {} THEN left ELSE right

\* mergeMetricSamples: one sample per timestamp of either side.
MergeSamples(left, right) == left \cup right

\* A query on a step that is no positive duration is answered or not by the
\* backend's own reading of the step; its samples are of no interest here.
Samples(start, end) ==
  IF req.parsed /\ req.step > 0 THEN Evaluated(start, end) ELSE {start}

Return(class) ==
  /\ pc' = "returned"
  /\ result' = class

-------------------------------------------------------------------------------
\* QueryRange refuses the request.
Reject ==
  /\ pc = "query"
  /\ ~ValidRange
  /\ Return("invalid_request")
  /\ UNCHANGED <<req, fallback, cluster, pos, pending, leaves, merged, found, requests>>

\* The backend answers the query under way with the series S.
Answer ==
  /\ pc = "query"
  /\ ValidRange
  /\ requests' = requests + 1
  /\ \E S \in SUBSET Series :
       /\ leaves' = Append(leaves, [start |-> pos, end |-> End, series |-> S])
       /\ merged' = [s \in Series |->
                       IF s \in S THEN MergeSamples(merged[s], Samples(pos, End))
                       ELSE merged[s]]
       /\ found' = found \cup S
  /\ pos' = IF Len(pending) = 1 THEN End ELSE RightStart(End)
  /\ pending' = Tail(pending)
  /\ pc' = IF Len(pending) = 1 THEN "merged" ELSE "query"
  /\ UNCHANGED <<req, fallback, cluster, result>>

\* The backend refuses the query for its number of samples, and it is halved.
Split ==
  /\ pc = "query"
  /\ ValidRange
  /\ requests' = requests + 1
  /\ req.parsed
  /\ Splittable
  /\ pending' = <<Mid>> \o pending
  /\ UNCHANGED <<pc, req, fallback, cluster, pos, leaves, merged, found, result>>

\* It refuses a query that cannot be halved: the refusal is returned.
GiveUp ==
  /\ pc = "query"
  /\ ValidRange
  /\ requests' = requests + 1
  /\ \/ ~req.parsed /\ Return("invalid_request")
     \/ req.parsed /\ ~Splittable /\ Return("max_samples")
  /\ UNCHANGED <<req, fallback, cluster, pos, pending, leaves, merged, found>>

\* The query fails otherwise: what was collected so far is dropped.
QueryFails ==
  /\ pc = "query"
  /\ ValidRange
  /\ requests' = requests + 1
  /\ Return("failed")
  /\ UNCHANGED <<req, fallback, cluster, pos, pending, leaves, merged, found>>

\* There is no series for the child cluster: the parent's is tried, once.
TryParent ==
  /\ pc = "merged"
  /\ found = {} /\ fallback /\ cluster = "child"
  /\ cluster' = "parent"
  /\ pos' = req.start
  /\ pending' = <<req.end>>
  /\ leaves' = <<>>
  /\ pc' = "query"
  /\ UNCHANGED <<req, fallback, merged, found, requests, result>>

ReturnResult ==
  /\ pc = "merged"
  /\ found # {} \/ ~fallback \/ cluster = "parent"
  /\ Return("ok")
  /\ UNCHANGED <<req, fallback, cluster, pos, pending, leaves, merged, found, requests>>

Returned ==
  /\ pc = "returned"
  /\ UNCHANGED vars

Next ==
  \/ Reject
  \/ Answer
  \/ Split
  \/ GiveUp
  \/ QueryFails
  \/ TryParent
  \/ ReturnResult
  \/ Returned

Spec == Init /\ [][Next]_vars

-------------------------------------------------------------------------------
\* A result covers the requested range: the answered queries follow each other
\* without a gap from its start to its end, whatever was refused on the way.
OkCoversRange ==
  result = "ok" =>
    /\ leaves # <<>>
    /\ leaves[1].start = req.start
    /\ leaves[Len(leaves)].end = req.end
    /\ \A i \in 1 .. Len(leaves) - 1 : leaves[i].end = leaves[i + 1].start

\* Splitting makes no hole in a series: one that every answer contains has, in
\* the result, a sample within a step before each second of the range.  The
\* halves have grids of their own, and sub-second timestamps are cut down.
NoHoles ==
  result = "ok" /\ req.parsed /\ req.step > 0 =>
    \A s \in Series :
      (\A i \in 1 .. Len(leaves) : s \in leaves[i].series) =>
        \A t \in req.start .. req.end :
          \E u \in merged[s] : u <= t /\ (t - u) * Second < req.step + Second

\* The recursion is bounded, for every pattern of refusals: a halved range is
\* longer than a step, hence no part is shorter than half of it, and the range
\* is gone through once for the cluster and once for its parent at most.
ShortestPart ==
  LET half == (req.step \div Second + 1) \div 2 IN IF half > 1 THEN half ELSE 1
RequestsBounded ==
  ValidRange /\ req.step >= 0 =>
    LET parts == (req.end - req.start) \div ShortestPart
        pass == IF parts > 1 THEN 2 * parts - 1 ELSE 1
    IN  requests <= IF cluster = "parent" THEN 2 * pass ELSE pass
===============================================================================
