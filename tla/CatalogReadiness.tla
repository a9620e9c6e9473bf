--------------------------- MODULE CatalogReadiness ---------------------------
(***************************************************************************)
(* One call of catalogClient.EnsureCatalogDataReadable                     *)
(* (src/internal/clinicapi/retained.go) against a backend whose data_status*)
(* records change under it: probe the status of the selected item, ask for *)
(* a rebuild when it needs one, and wait until a probe finds it readable.  *)
(*                                                                         *)
(* The rebuild request is a RemoteCall: the transport may send it          *)
(* MaxCopies times and a copy may arrive after a later one, or after the   *)
(* call has returned.  A status probe changes nothing in the backend, so   *)
(* that only the answer it ends with matters.                              *)
(***************************************************************************)
EXTENDS Integers

CONSTANTS
  Records,     \* the data_status records the backend may report: [id, start, end]
  Items,       \* the catalog items a caller may pass: [id, start, end]
  Statuses,    \* the record statuses the backend uses
  MaxCopies    \* RetryMax + 1 of the transport

ASSUME RecordsAssumption ==
  /\ Records \subseteq [id : STRING, start : Int, end : Int]
  /\ \A r, s \in Records : r.id # "" /\ r.id = s.id => r = s

ASSUME ItemsAssumption == Items \subseteq [id : STRING, start : Int, end : Int]

ASSUME StatusesAssumption == Statuses \subseteq Int \ {-9}

ASSUME MaxCopiesAssumption == MaxCopies \in Nat \ {0}

NeedsRebuild == -1     \* catalogDataStatusNeedsRebuild
Readable == 100        \* catalogDataStatusReadable
Rebuilding == 50       \* a status that is neither (retained_test.go)
Absent == -9           \* the record is not in the response

\* catalogStatusSpec: the same set for every supported data type.
RebuildStatuses == {0, NeedsRebuild}

VARIABLES
  pc,          \* where the caller's goroutine is
  expires,     \* the backend withdraws readable data of its own accord
  argsOK,      \* org id, cluster id and data type pass validation
  item,        \* req.Item
  ctx,         \* the caller's context
  status,      \* the backend's records
  answered,    \* the probe under way has been answered
  snapshot,    \* the records in its answer
  triggered,   \* triggeredRebuild
  triggers,    \* history: number of rebuilds asked for
  target,      \* the body of the rebuild request
  putIssued, putServed, putOutcome,   \* the rebuild request as a RemoteCall
  everReadable,   \* history: the item was readable at some time of the call
  result       \* what the call returned

putVars == <<putIssued, putServed, putOutcome>>
callVars == <<expires, argsOK, item>>
vars == <<pc, expires, argsOK, item, ctx, status, answered, snapshot, triggered, triggers,
          target, putIssued, putServed, putOutcome, everReadable, result>>

Put == INSTANCE RemoteCall WITH
         MaxAttempts <- MaxCopies,
         issued <- putIssued, served <- putServed, outcome <- putOutcome

-------------------------------------------------------------------------------
ValidItem(i) == i.start > 0 /\ i.end > 0 /\ i.end >= i.start

\* matchesCatalogDataStatus.
Matches(i, r) ==
  \/ i.id # "" /\ r.id # "" /\ i.id = r.id
  \/ (i.id = "" \/ r.id = "") /\ i.start = r.start /\ i.end = r.end

\* assessCatalogReadiness, of the records s: the scan stops at the first
\* readable match, so that the order of the records decides only which one of
\* several rebuildable matches is rebuilt.
Matching(i, s) == {r \in Records : s[r] # Absent /\ Matches(i, r)}
IsReadable(i, s) == \E r \in Matching(i, s) : s[r] = Readable
Rebuildable(i, s) == {r \in Matching(i, s) : s[r] \in RebuildStatuses}

\* Mutant: the request names the time range only.
RebuildRequestByRange(i, r) == [id |-> "", start |-> r.start, end |-> r.end]

\* catalogStatusPoller.rebuildRequest.  Both ranges are positive here: the
\* item's was validated, and a record without an id matched by that range.
RebuildRequest(i, r) ==
  LET id == IF r.id # "" THEN r.id ELSE i.id
  IN  IF id # "" THEN [id |-> id, start |-> 0, end |-> 0]
      ELSE [id |-> "", start |-> IF r.start > 0 THEN r.start ELSE i.start,
                       end |-> IF r.end > 0 THEN r.end ELSE i.end]

\* The requests that can be built, and none.
Ids == {i.id : i \in Items} \cup {r.id : r \in Records} \cup {""}
Requests == [id : Ids, start : Int, end : Int]
NoTarget == [id |-> "", start |-> 0, end |-> 0]

\* The records a rebuild request is about, as the backend reads it.
Designated(req) ==
  IF req.id # "" THEN {r \in Records : r.id = req.id}
  ELSE {r \in Records : r.start = req.start /\ r.end = req.end}

\* contextError.
ContextClass == IF ctx = "deadline" THEN "timeout" ELSE "backend"

TransportClasses == {"auth", "not_found", "rate_limit", "timeout", "invalid_request",
                     "transient", "backend"}

Results == TransportClasses \cup {"none", "ok", "no_data", "decode", "raw_context_error"}

TypeOK ==
  /\ pc \in {"validate", "check", "probing", "triggering", "waiting", "returned"}
  /\ expires \in BOOLEAN
  /\ argsOK \in BOOLEAN
  /\ item \in Items
  /\ ctx \in {"live", "deadline", "cancelled"}
  /\ status \in [Records -> Statuses \cup {Absent, Rebuilding}]
  /\ answered \in BOOLEAN
  /\ snapshot \in [Records -> Statuses \cup {Absent, Rebuilding}]
  /\ triggered \in BOOLEAN
  /\ triggers \in Nat
  /\ target \in Requests
  /\ Put!TypeOK
  /\ everReadable \in BOOLEAN
  /\ result \in Results

Init ==
  /\ pc = "validate"
  /\ expires \in BOOLEAN
  /\ argsOK \in BOOLEAN
  /\ item \in Items
  /\ ctx = "live"
  /\ status \in [Records -> Statuses \cup {Absent}]
  /\ answered = FALSE
  /\ snapshot = [r \in Records |-> Absent]
  /\ triggered = FALSE
  /\ triggers = 0
  /\ target = NoTarget
  /\ Put!Init
  /\ everReadable = IsReadable(item, status)
  /\ result = "none"

Return(class) ==
  /\ pc' = "returned"
  /\ result' = class

-------------------------------------------------------------------------------
\* The early returns before the loop.
Validate ==
  /\ pc = "validate"
  /\ \/ argsOK /\ ValidItem(item) /\ pc' = "check" /\ UNCHANGED result
     \/ ~(argsOK /\ ValidItem(item)) /\ Return("invalid_request")
  /\ UNCHANGED <<callVars, ctx, status, answered, snapshot, triggered, triggers,
                 target, putVars, everReadable>>

\* The loop head finds the context done.
HeadStops ==
  /\ pc = "check"
  /\ ctx # "live"
  /\ Return(ContextClass)
  /\ UNCHANGED <<callVars, ctx, status, answered, snapshot, triggered, triggers,
                 target, putVars, everReadable>>

\* Mutant: a later probe is answered with the response of the first one.
BeginProbeCached ==
  /\ pc = "check"
  /\ ctx = "live"
  /\ pc' = "probing"
  /\ UNCHANGED <<callVars, ctx, status, answered, snapshot, triggered, triggers,
                 target, putVars, everReadable, result>>

\* fetchStatus starts.
BeginProbe ==
  /\ pc = "check"
  /\ ctx = "live"
  /\ pc' = "probing"
  /\ answered' = FALSE
  /\ UNCHANGED <<callVars, ctx, status, snapshot, triggered, triggers,
                 target, putVars, everReadable, result>>

\* Mutant: the probe runs on a context of its own.
ProbeFailsDetached ==
  /\ pc = "probing"
  /\ \E c \in TransportClasses \cup {"decode"} : ctx = "live" /\ Return(c)
  /\ UNCHANGED <<callVars, ctx, status, answered, snapshot, triggered, triggers,
                 target, putVars, everReadable>>

\* fetchStatus fails: a done context outranks the transport's error.
ProbeFails ==
  /\ pc = "probing"
  /\ \/ ctx # "live" /\ Return(ContextClass)
     \/ ctx = "live" /\ \E c \in TransportClasses \cup {"decode"} : Return(c)
  /\ UNCHANGED <<callVars, ctx, status, answered, snapshot, triggered, triggers,
                 target, putVars, everReadable>>

\* Mutant: a readable record of any item ends the wait.
ReadableFoundAnywhere ==
  /\ pc = "probing" /\ answered
  /\ \E r \in Records : snapshot[r] = Readable
  /\ Return("ok")
  /\ UNCHANGED <<callVars, ctx, status, answered, snapshot, triggered, triggers,
                 target, putVars, everReadable>>

\* fetchStatus succeeded and the response was assessed: four ways on.
ReadableFound ==
  /\ pc = "probing" /\ answered
  /\ IsReadable(item, snapshot)
  /\ Return("ok")
  /\ UNCHANGED <<callVars, ctx, status, answered, snapshot, triggered, triggers,
                 target, putVars, everReadable>>

\* Mutant: triggeredRebuild is not consulted.
RebuildNeededAgain ==
  /\ pc = "probing" /\ answered
  /\ ~IsReadable(item, snapshot)
  /\ \E r \in Rebuildable(item, snapshot) : target' = RebuildRequest(item, r)
  /\ triggers' = triggers + 1
  /\ putIssued' = 0 /\ putServed' = {} /\ putOutcome' = "pending"
  /\ pc' = "triggering"
  /\ UNCHANGED <<callVars, ctx, status, answered, snapshot, triggered, everReadable,
                 result>>

RebuildNeeded ==
  /\ pc = "probing" /\ answered
  /\ ~IsReadable(item, snapshot)
  /\ ~triggered
  /\ \E r \in Rebuildable(item, snapshot) : target' = RebuildRequest(item, r)
  /\ triggers' = triggers + 1
  /\ putIssued' = 0 /\ putServed' = {} /\ putOutcome' = "pending"
  /\ pc' = "triggering"
  /\ UNCHANGED <<callVars, ctx, status, answered, snapshot, triggered, everReadable,
                 result>>

NothingMatches ==
  /\ pc = "probing" /\ answered
  /\ Matching(item, snapshot) = {}
  /\ Return("no_data")
  /\ UNCHANGED <<callVars, ctx, status, answered, snapshot, triggered, triggers,
                 target, putVars, everReadable>>

NotReadyYet ==
  /\ pc = "probing" /\ answered
  /\ ~IsReadable(item, snapshot)
  /\ triggered \/ Rebuildable(item, snapshot) = {}
  /\ Matching(item, snapshot) # {}
  /\ pc' = "waiting"
  /\ UNCHANGED <<callVars, ctx, status, answered, snapshot, triggered, triggers,
                 target, putVars, everReadable, result>>

\* triggerRebuild: the transport sends a (further) copy of the request.
IssuePut ==
  /\ pc = "triggering"
  /\ Put!Issue
  /\ UNCHANGED <<pc, callVars, ctx, status, answered, snapshot, triggered, triggers,
                 target, everReadable, result>>

\* Mutant: the loop goes on before the backend has acknowledged the request.
TriggerSucceedsUnacknowledged ==
  /\ pc = "triggering"
  /\ putIssued > 0
  /\ putOutcome' = "ok"
  /\ triggered' = TRUE
  /\ pc' = "waiting"
  /\ UNCHANGED <<callVars, ctx, status, answered, snapshot, triggers, target,
                 putIssued, putServed, everReadable, result>>

\* triggerRebuild succeeds.  The rebuilt record matched, so that the loop does
\* not end in ErrNoData but waits.
TriggerSucceeds ==
  /\ pc = "triggering"
  /\ Put!Succeed
  /\ triggered' = TRUE
  /\ pc' = "waiting"
  /\ UNCHANGED <<callVars, ctx, status, answered, snapshot, triggers, target,
                 everReadable, result>>

\* triggerRebuild fails: its error is returned as it is, an aborted backoff as
\* the bare context error.
TriggerFails ==
  /\ pc = "triggering"
  /\ Put!Fail
  /\ \/ \E c \in TransportClasses : Return(c)
     \/ ctx # "live" /\ Return("raw_context_error")
  /\ UNCHANGED <<callVars, ctx, status, answered, snapshot, triggered, triggers,
                 target, everReadable>>

\* wait: the probe interval is over.
TimerFires ==
  /\ pc = "waiting"
  /\ pc' = "check"
  /\ UNCHANGED <<callVars, ctx, status, answered, snapshot, triggered, triggers,
                 target, putVars, everReadable, result>>

\* wait: the context is done.
WaitStops ==
  /\ pc = "waiting"
  /\ ctx # "live"
  /\ Return(ContextClass)
  /\ UNCHANGED <<callVars, ctx, status, answered, snapshot, triggered, triggers,
                 target, putVars, everReadable>>

-------------------------------------------------------------------------------
\* The environment: the caller's context and the backend.
ContextEnds ==
  /\ ctx = "live"
  /\ ctx' \in {"deadline", "cancelled"}
  /\ UNCHANGED <<pc, callVars, status, answered, snapshot, triggered, triggers,
                 target, putVars, everReadable, result>>

\* The backend answers the probe, or answers the retry of a probe again.
AnswerProbe ==
  /\ pc = "probing"
  /\ answered' = TRUE
  /\ snapshot' = status
  /\ UNCHANGED <<pc, callVars, ctx, status, triggered, triggers, target, putVars,
                 everReadable, result>>

\* The backend's records change to newStatus.
SetStatus(newStatus) ==
  /\ status' = newStatus
  /\ everReadable' = (everReadable \/ IsReadable(item, newStatus))

\* A copy of the rebuild request arrives.  The backend starts to rebuild any of
\* the records it is about, readable ones included, or none.
ServePut(n) ==
  /\ Put!Serve(n)
  /\ \E S \in SUBSET Designated(target) :
       SetStatus([r \in Records |-> IF r \in S THEN Rebuilding ELSE status[r]])
  /\ UNCHANGED <<pc, callVars, ctx, answered, snapshot, triggered, triggers, target,
                 result>>

\* Rebuilds end or fail, collections finish, retention removes records.
BackendChanges ==
  /\ \E r \in Records, s \in Statuses \cup {Absent} :
       /\ expires \/ status[r] # Readable
       /\ SetStatus([status EXCEPT ![r] = s])
  /\ UNCHANGED <<pc, callVars, ctx, answered, snapshot, triggered, triggers, target,
                 putVars, result>>

\* The call has returned.
Returned ==
  /\ pc = "returned"
  /\ UNCHANGED vars

-------------------------------------------------------------------------------
\* What the caller's goroutine does by itself: the transport ends a call whose
\* context is done (Transport's ContextBoundsCall) and returns what arrived.
Caller ==
  \/ Validate
  \/ HeadStops
  \/ BeginProbe
  \/ ctx # "live" /\ ProbeFails
  \/ ReadableFound
  \/ RebuildNeeded
  \/ NothingMatches
  \/ NotReadyYet
  \/ IssuePut
  \/ ctx # "live" /\ TriggerFails
  \/ TriggerSucceeds
  \/ TimerFires
  \/ WaitStops

Arrivals ==
  \/ AnswerProbe
  \/ \E n \in 1 .. MaxCopies : ServePut(n)

Next ==
  \/ Caller
  \/ Arrivals
  \/ ProbeFails
  \/ TriggerFails
  \/ ContextEnds
  \/ BackendChanges
  \/ Returned

Spec == Init /\ [][Next]_vars

\* The goroutine is scheduled and timers fire.
FairSpec == Spec /\ WF_vars(Caller)

\* What a responsive backend does: it answers every probe and serves every
\* rebuild request.
BackendAnswers ==
  /\ WF_vars(AnswerProbe)
  /\ \A n \in 1 .. MaxCopies : WF_vars(ServePut(n))

-------------------------------------------------------------------------------
ReadableNow == IsReadable(item, status)

\* A nil error is never about another item or about data that was not there:
\* the selected item was readable at some time between call and return.
OkMeansReadable == result = "ok" => everReadable

\* retained_test.go expects one rebuild call: however long the wait and whatever
\* the probes say meanwhile, a call asks for a rebuild once at most.
AtMostOneTrigger == triggers <= 1

\* The rebuild that is asked for is one of the selected item and touches no
\* record of another item, for every mix of records with and without an id.
RebuildsTheItem ==
  triggers > 0 => \A r \in Designated(target) : Matches(item, r)

\* What a caller does next with the item (download it, query it) finds it still
\* readable, as long as the backend does not withdraw data of its own accord.
\* Only a retried rebuild request, of which a copy is late, can spoil it.
OkIsUsable == result = "ok" /\ ~expires => ReadableNow \/ putIssued > 1

\* retained_test.go expects a *Error of class timeout when the deadline passes
\* while the call waits for a rebuild.
ErrorsAreClassified == result # "raw_context_error"

\* Once its context is done the call returns, whatever the backend does.
ContextBoundsWait == ctx # "live" ~> pc = "returned"

\* If the item becomes readable for good, a backend that answers lets the call
\* return, whatever the answers were before and whichever requests failed.
ReadableIsNoticed ==
  BackendAnswers /\ <>[]ReadableNow => <>(pc = "returned")
===============================================================================
