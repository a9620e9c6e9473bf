----------------------------- MODULE DataSelection -----------------------------
(***************************************************************************)
(* Which collected bundle a command works on: from the range in the portal *)
(* URL (loadConfigFromEnv in src/internal/cli/config_base.go) over the     *)
(* units of the sample query (src/internal/clinic/slowqueries.go) to the   *)
(* ranking of the catalog (selectCatalogItem in                            *)
(* src/internal/clinic/retained.go) and the checks of the requests that    *)
(* follow.                                                                 *)
(*                                                                         *)
(* A user runs one command after another on the same portal URL, each of   *)
(* which reads the clock, lists the catalog and selects anew; bundles      *)
(* appear and time passes between them.                                    *)
(* The commands are "download" (runCollectedDataDownload), "query" and     *)
(* "samples" (runSlowQuery without and with a digest), all on an OP        *)
(* cluster.  A bundle is [start, end, log (HaveLog), slow (collector       *)
(* log.slow)]; its id is a number, ids being compared as strings are.      *)
(***************************************************************************)
EXTENDS Integers

CONSTANTS
  Ids,       \* the ids of bundles
  Bundles,   \* what a bundle may be
  Times,     \* the values of from and to in the portal URL, 0 for unset
  Clock,     \* what a command may read from the clock
  Window,    \* defaultRangeWindow
  MilliFrom, \* a sample query takes times from here on for milliseconds (10^12)
  Milli,     \* milliseconds per second
  MaxRuns    \* bound: the commands run one after another

Bundle == [start : Int, end : Int, log : BOOLEAN, slow : BOOLEAN]

ASSUME IdsAssumption == Ids \subseteq Int
ASSUME BundlesAssumption == Bundles \subseteq Bundle
ASSUME TimesAssumption == Times \subseteq Int
ASSUME ClockAssumption == Clock \subseteq Nat \ {0} /\ Window \in Nat /\ MaxRuns \in Nat
ASSUME MilliAssumption == MilliFrom \in Nat \ {0} /\ Milli \in Nat \ {0}

VARIABLES
  catalog,   \* the bundles, listed or not: a function of the id
  from, to,  \* the query parameters of the portal URL
  runs,      \* how many commands were run
  command,   \* the last command, "none" before the first
  listed,    \* the ids it listed
  range,     \* the range it selected with
  picked,    \* the set of the bundle it selected: one id, or none
  outcome    \* what became of it

vars == <<catalog, from, to, runs, command, listed, range, picked, outcome>>

Commands == {"download", "query", "samples"}
Range == [start : Int, end : Int]

TypeOK ==
  /\ catalog \in [Ids -> Bundles]
  /\ from \in Times /\ to \in Times
  /\ runs \in 0 .. MaxRuns
  /\ command \in Commands \cup {"none"}
  /\ listed \subseteq Ids
  /\ range \in Range
  /\ picked \subseteq listed
  /\ outcome \in {"none", "config", "no_item", "refused", "selected"}

-------------------------------------------------------------------------------
(***************************************************************************)
(* The range of a command that runs at the time now.                       *)
(***************************************************************************)

\* loadConfigFromEnv: each side that is not positive takes its default.
End(now) == IF to > 0 THEN to ELSE now

Start(now) == IF from > 0 THEN from ELSE End(now) - Window

\* parseSlowQueryTimestamp: seconds, or milliseconds when the number is that
\* large.  A sample query alone parses its times.
Seconds(t) == IF t >= MilliFrom THEN t \div Milli ELSE t

Parsed(cmd, t) == IF cmd = "samples" THEN Seconds(t) ELSE t

RangeOf(cmd, now) == [start |-> Parsed(cmd, Start(now)), end |-> Parsed(cmd, End(now))]

\* Neither side comes after the other, before the conversion and after it.
Ordered(cmd, now) ==
  Start(now) <= End(now) /\ RangeOf(cmd, now).start <= RangeOf(cmd, now).end

-------------------------------------------------------------------------------
(***************************************************************************)
(* The ranking.                                                            *)
(***************************************************************************)

\* eligibleCatalogItem.
Eligible(cmd, b) == cmd = "download" \/ b.log

Later(s, t) == IF s > t THEN s ELSE t
Earlier(s, t) == IF s < t THEN s ELSE t

\* rangeOverlapSeconds.
Overlap(r, b) ==
  LET seconds == Earlier(r.end, b.end) - Later(r.start, b.start)
  IN IF r.end <= 0 \/ b.end <= 0 \/ seconds <= 0 THEN 0 ELSE seconds

\* Mutants: the slow log does not count and equal bundles stay in the order of
\* the listing; the age comes before the overlap.
OverlapFirst(cmd, r, f, i, j) ==
  LET a == f[i]
      b == f[j]
  IN \/ Overlap(r, a) > Overlap(r, b)
     \/ /\ Overlap(r, a) = Overlap(r, b)
        /\ a.end > b.end

EndFirst(cmd, r, f, i, j) ==
  LET a == f[i]
      b == f[j]
  IN \/ a.end > b.end
     \/ a.end = b.end /\ a.start > b.start
     \/ a.end = b.end /\ a.start = b.start /\ i < j

\* The comparison of selectCatalogItem: bundle i of catalog f before bundle j.
Outranks(cmd, r, f, i, j) ==
  LET a == f[i]
      b == f[j]
      slows == cmd # "download" /\ a.slow # b.slow
      overlaps == Overlap(r, a) # Overlap(r, b)
  IN \/ slows /\ a.slow
     \/ ~slows /\ overlaps /\ Overlap(r, a) > Overlap(r, b)
     \/ /\ ~slows /\ ~overlaps
        /\ \/ a.end > b.end
           \/ a.end = b.end /\ a.start > b.start
           \/ a.end = b.end /\ a.start = b.start /\ i < j

Candidates(cmd, f, S) == {i \in S : Eligible(cmd, f[i])}

\* What may come first when the candidates of a listing are sorted.  That it
\* is one bundle at most, whatever the order of the listing, is the lemma
\* OutranksIsTotal of DataSelectionProofs.
Firsts(cmd, r, f, S) ==
  {i \in Candidates(cmd, f, S) : \A j \in Candidates(cmd, f, S) : ~Outranks(cmd, r, f, j, i)}

-------------------------------------------------------------------------------
Init ==
  /\ catalog \in [Ids -> Bundles]
  /\ from \in Times
  /\ to \in Times
  /\ runs = 0
  /\ command = "none"
  /\ listed = {}
  /\ range = [start |-> 0, end |-> 0]
  /\ picked = {}
  /\ outcome = "none"

\* The command starts: a listing never loses a bundle.
Run(cmd, S) ==
  /\ runs < MaxRuns
  /\ runs' = runs + 1
  /\ command' = cmd
  /\ listed \subseteq S
  /\ listed' = S
  /\ UNCHANGED <<catalog, from, to>>

\* The range is refused: by resolvePortalURLInput, loadConfigFromEnv or, for
\* want of order after the conversion, parseSlowQuerySampleRange.
RefuseRange ==
  \E cmd \in Commands, now \in Clock :
    /\ Run(cmd, listed)
    /\ ~Ordered(cmd, now)
    /\ range' = [start |-> 0, end |-> 0]
    /\ picked' = {}
    /\ outcome' = "config"

\* No bundle of the listing is eligible.
FindNothing ==
  \E cmd \in Commands, now \in Clock, S \in SUBSET Ids :
    /\ Run(cmd, S)
    /\ Ordered(cmd, now)
    /\ Candidates(cmd, catalog, S) = {}
    /\ range' = RangeOf(cmd, now)
    /\ picked' = {}
    /\ outcome' = "no_item"

\* What the requests that follow refuse: EnsureCatalogDataReadable a bundle
\* without a proper range, the two queries a range that does not start after 0.
Usable(cmd, r, b) ==
  /\ b.start > 0 /\ b.end >= b.start
  /\ cmd # "download" => r.start > 0

\* A bundle is selected.
Select ==
  \E cmd \in Commands, now \in Clock, S \in SUBSET Ids :
    /\ Run(cmd, S)
    /\ Ordered(cmd, now)
    /\ range' = RangeOf(cmd, now)
    /\ \E first \in Firsts(cmd, range', catalog, S) :
         /\ picked' = {first}
         /\ outcome' = IF Usable(cmd, range', catalog[first])
                         THEN "selected" ELSE "refused"

\* The bound on the commands is reached.
Finished == runs = MaxRuns /\ UNCHANGED vars

Next == RefuseRange \/ FindNothing \/ Select \/ Finished

Spec == Init /\ [][Next]_vars

-------------------------------------------------------------------------------
(***************************************************************************)
(* Properties.                                                             *)
(***************************************************************************)

\* The times of the portal URL are seconds.
InSeconds == from < MilliFrom /\ to < MilliFrom

\* The bundle has a part in the range: the reference for Overlap.
Within(r, b) == b.end > 0 /\ r.start < b.end /\ b.start < r.end /\ b.start < b.end /\ r.start < r.end

\* A command that selects a bundle outside its range had none inside it to
\* choose: none that is as good a source, which for slow queries a bundle
\* without a slow log is not if the one selected has it
\* (selectCatalogItem ranks the overlap before the age, the slow log before both).
PickReachesRange ==
  \A i \in picked, j \in listed :
    /\ Eligible(command, catalog[j])
    /\ command = "download" \/ catalog[i].slow => catalog[j].slow
    /\ range.end > 0
    /\ Within(range, catalog[j])
    => Within(range, catalog[i])

\* A slow-query command prefers a bundle with the slow log, whatever the ranges.
SlowLogIsFound ==
  command \in {"query", "samples"} =>
    \A i \in picked, j \in listed :
      catalog[j].log /\ catalog[j].slow => catalog[i].slow

\* Without a bundle in the range a download takes the latest.
LatestIfNoneOverlaps ==
  command = "download" =>
    \A i \in picked :
      (\A j \in listed : ~Within(range, catalog[j]))
        => \A j \in listed : catalog[j].end <= catalog[i].end

\* On a portal URL with an end the samples come from the bundle the records
\* came from, or from one that has appeared since, whenever the two slow-query
\* commands run: the selection depends neither on the order of the listing nor
\* on bundles that do not win (selectCatalogItem).  Two cases are left out, in
\* which the range itself moves.  Without an end, it ends when the command runs
\* (loadConfigFromEnv), and another bundle that was listed all along may have
\* the longer part in it.  In milliseconds only the sample query converts it.
Family(cmd) == IF cmd = "download" THEN "download" ELSE "slow"

PickIsKept ==
  [][/\ to > 0
     /\ command # "none" /\ picked # {} /\ Family(command') = Family(command)
     /\ InSeconds \/ command' = command
     => picked' \subseteq picked \cup (listed' \ listed)]_vars

\* What the help of op-pkgs download says: "when no range is provided, download
\* chooses the latest collected bundle" (src/internal/cli/root.go).
LatestByDefault ==
  from <= 0 /\ to <= 0 /\ command = "download" =>
    \A i \in picked, j \in listed : catalog[j].end <= catalog[i].end
===============================================================================
