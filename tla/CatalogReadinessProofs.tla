------------------------ MODULE CatalogReadinessProofs ------------------------
(***************************************************************************)
(* Theorems about CatalogReadiness, for every set of records and items,    *)
(* every status the backend may use and every retry budget.                *)
(***************************************************************************)
EXTENDS CatalogReadiness, TLAPS

\* Whatever is readable now, or was in the last answer, has been readable.
Seen ==
  /\ IsReadable(item, status) => everReadable
  /\ IsReadable(item, snapshot) => everReadable

\* triggeredRebuild counts the rebuilds asked for.
Counted ==
  /\ triggers \in {0, 1}
  /\ triggered => triggers = 1
  /\ pc = "triggering" => triggers = 1 /\ ~triggered
  /\ pc \in {"validate", "check", "probing", "waiting"} /\ ~triggered => triggers = 0

\* The loop runs for valid items only.
Validated == pc \notin {"validate", "returned"} => ValidItem(item)

IInv ==
  /\ TypeOK
  /\ Seen
  /\ Counted
  /\ Validated
  /\ OkMeansReadable
  /\ RebuildsTheItem

\* Outside the trigger, the copy issued last has been served, so that only a
\* copy before it can still be on its way.
Settled ==
  pc \in {"validate", "check", "probing", "waiting"} \/ result = "ok" =>
    putIssued = 0 \/ putIssued \in putServed

\* What the last answer showed readable is readable still, or a retry spoiled it.
Fresh ==
  pc = "probing" /\ answered /\ IsReadable(item, snapshot) =>
    ReadableNow \/ putIssued > 1

\* The strengthening of OkIsUsable for a backend that withdraws nothing.
UInv ==
  /\ IInv
  /\ Settled
  /\ (pc = "returned" <=> result # "none")
  /\ ~expires => Fresh /\ (result = "ok" => ReadableNow \/ putIssued > 1)

-------------------------------------------------------------------------------
\* A rebuild request built for a matching record is about matching records only.
LEMMA RequestStaysOnItem ==
  ASSUME NEW i \in Items, ValidItem(i), NEW r \in Records, Matches(i, r)
  PROVE  \A q \in Designated(RebuildRequest(i, r)) : Matches(i, q)
<1> SUFFICES ASSUME NEW q \in Designated(RebuildRequest(i, r)) PROVE Matches(i, q)
  OBVIOUS
<1>1. q \in Records
  BY DEF Designated
<1>2. CASE r.id # ""
  <2>1. q.id = r.id
    BY <1>2 DEF Designated, RebuildRequest
  <2>2. q = r
    BY <1>1, <1>2, <2>1, RecordsAssumption
  <2>3. QED
    BY <2>2
<1>3. CASE r.id = "" /\ i.id # ""
  <2>1. q.id = i.id
    BY <1>3 DEF Designated, RebuildRequest
  <2>2. QED
    BY <1>3, <2>1 DEF Matches
<1>4. CASE r.id = "" /\ i.id = ""
  <2>1. r.start = i.start /\ r.end = i.end /\ r.start > 0 /\ r.end > 0
    BY <1>4 DEF Matches, ValidItem
  <2>2. q.start = r.start /\ q.end = r.end
    BY <1>4, <2>1 DEF Designated, RebuildRequest
  <2>3. QED
    BY <1>4, <2>1, <2>2 DEF Matches
<1>5. QED
  BY <1>2, <1>3, <1>4

\* The request has the type of a request, and so has one for a bare id.
LEMMA RequestRecord ==
  ASSUME NEW id \in Ids
  PROVE  [id |-> id, start |-> 0, end |-> 0] \in Requests
<1>1. \A from, to \in Int : [id |-> id, start |-> from, end |-> to] \in Requests
  BY DEF Requests
<1>2. 0 \in Int
  OBVIOUS
<1>3. QED
  BY <1>1, <1>2, Zenon

LEMMA RequestType ==
  ASSUME NEW i \in Items, NEW r \in Records
  PROVE  RebuildRequest(i, r) \in Requests
<1> DEFINE id == IF r.id # "" THEN r.id ELSE i.id
           from == IF r.start > 0 THEN r.start ELSE i.start
           to == IF r.end > 0 THEN r.end ELSE i.end
<1>1. i.start \in Int /\ i.end \in Int /\ r.start \in Int /\ r.end \in Int
  BY RecordsAssumption, ItemsAssumption
<1>2. id \in Ids /\ "" \in Ids /\ from \in Int /\ to \in Int
  BY <1>1 DEF Ids
<1> HIDE DEF id, from, to
<1>3. [id |-> id, start |-> 0, end |-> 0] \in Requests
  BY <1>2, RequestRecord, Zenon
<1>4. [id |-> "", start |-> from, end |-> to] \in Requests
  BY <1>2 DEF Requests
<1> USE DEF id, from, to
<1>5. QED
  BY <1>3, <1>4 DEF RebuildRequest

\* A step that leaves the backend, the last answer and the rebuild request as
\* they are, and returns no nil error, only moves the caller.
LEMMA CallerMoves ==
  ASSUME IInv,
         UNCHANGED <<callVars, ctx, status, snapshot, triggered, triggers, target,
                     putVars, everReadable>>,
         answered' \in BOOLEAN,
         \/ pc' \in {"check", "probing", "waiting"} /\ UNCHANGED result
         \/ pc' = "returned" /\ result' \in Results \ {"ok"},
         pc # "triggering",
         pc # "returned",
         pc' = "returned" \/ ValidItem(item)
  PROVE  IInv'
<1> USE DEF callVars, putVars
<1>1. TypeOK'
  BY DEF IInv, TypeOK, Put!TypeOK, Put!Attempt
<1>2. Seen' /\ RebuildsTheItem'
  BY DEF IInv, Seen, RebuildsTheItem, IsReadable, Matching, Matches, Designated
<1>3. Counted'
  BY DEF IInv, TypeOK, Counted
<1>4. Validated' /\ OkMeansReadable'
  BY DEF IInv, Validated, OkMeansReadable, ValidItem
<1>5. QED
  BY <1>1, <1>2, <1>3, <1>4 DEF IInv

\* A step of the environment touches the caller only through the answer to its
\* probe and the context it looks at.
LEMMA EnvironmentMoves ==
  ASSUME IInv,
         UNCHANGED <<pc, callVars, triggered, triggers, target, putIssued, putOutcome,
                     result>>,
         Put!TypeOK',
         ctx' \in {"live", "deadline", "cancelled"},
         answered' \in BOOLEAN,
         status' \in [Records -> Statuses \cup {Absent, Rebuilding}],
         everReadable' = (everReadable \/ IsReadable(item, status')),
         snapshot' \in {snapshot, status}
  PROVE  IInv'
<1> USE DEF callVars
<1>1. TypeOK'
  <2>1. everReadable' \in BOOLEAN
    BY DEF IInv, TypeOK
  <2>2. snapshot' \in [Records -> Statuses \cup {Absent, Rebuilding}]
    BY DEF IInv, TypeOK
  <2>3. QED
    BY <2>1, <2>2 DEF IInv, TypeOK
<1>2. Seen'
  <2>1. IsReadable(item, status) => everReadable
    BY DEF IInv, Seen
  <2>2. IsReadable(item, snapshot) => everReadable
    BY DEF IInv, Seen
  <2>3. IsReadable(item, status') => everReadable'
    OBVIOUS
  <2>4. IsReadable(item, snapshot') => everReadable'
    BY <2>1, <2>2
  <2>5. QED
    BY <2>3, <2>4 DEF Seen, IsReadable, Matching, Matches
<1>3. Counted'
  BY DEF IInv, Counted
<1>4. Validated' /\ RebuildsTheItem'
  BY DEF IInv, Validated, RebuildsTheItem, ValidItem, Matches, Designated
<1>5. OkMeansReadable'
  BY DEF IInv, OkMeansReadable
<1>6. QED
  BY <1>1, <1>2, <1>3, <1>4, <1>5 DEF IInv

\* The inductive invariant holds initially.
LEMMA InitInvariant == Init => IInv
<1> SUFFICES ASSUME Init PROVE IInv
  OBVIOUS
<1>1. TypeOK
  <2>1. NoTarget \in Requests
    <3>1. "" \in Ids
      BY DEF Ids
    <3>2. QED
      BY <3>1, RequestRecord, Zenon DEF NoTarget
  <2>2. everReadable \in BOOLEAN
    BY DEF Init, IsReadable
  <2>3. Put!TypeOK
    BY MaxCopiesAssumption DEF Init, Put!Init, Put!TypeOK, Put!Attempt
  <2>4. target \in Requests /\ triggers \in Nat /\ result \in Results
    BY <2>1 DEF Init, Results
  <2>5. QED
    BY <2>2, <2>3, <2>4 DEF Init, TypeOK
<1>2. Seen
  BY StatusesAssumption DEF Init, Seen, IsReadable, Matching
<1>3. QED
  BY <1>1, <1>2 DEF Init, IInv, Counted, Validated, OkMeansReadable, RebuildsTheItem

\* Every action keeps the inductive invariant.
LEMMA NextInvariant == IInv /\ [Next]_vars => IInv'
<1> SUFFICES ASSUME IInv, [Next]_vars PROVE IInv'
  OBVIOUS
<1> USE DEF callVars, putVars, Return
<1>1. CASE Validate
  <2>1. CASE ValidItem(item) /\ pc' = "check" /\ UNCHANGED result
    BY <1>1, <2>1, CallerMoves DEF Validate, IInv, TypeOK
  <2>2. CASE pc' = "returned" /\ result' = "invalid_request"
    BY <1>1, <2>2, CallerMoves DEF Validate, Results, TransportClasses, IInv, TypeOK
  <2>3. QED
    BY <1>1, <2>1, <2>2 DEF Validate
<1>2. CASE HeadStops
  BY <1>2, CallerMoves DEF HeadStops, ContextClass, Results, TransportClasses, IInv, TypeOK
<1>3. CASE BeginProbe
  BY <1>3, CallerMoves DEF BeginProbe, IInv, Validated
<1>4. CASE ProbeFails
  BY <1>4, CallerMoves DEF ProbeFails, ContextClass, Results, TransportClasses, IInv, TypeOK
<1>5. CASE ReadableFound
  <2>1. everReadable
    BY <1>5 DEF ReadableFound, IInv, Seen
  <2>2. TypeOK'
    BY <1>5 DEF ReadableFound, IInv, TypeOK, Results, Put!TypeOK, Put!Attempt
  <2>3. Seen' /\ RebuildsTheItem'
    BY <1>5 DEF ReadableFound, IInv, Seen, RebuildsTheItem, IsReadable, Matching,
                Matches, Designated
  <2>4. Counted' /\ Validated' /\ OkMeansReadable'
    BY <1>5, <2>1 DEF ReadableFound, IInv, Counted, Validated, OkMeansReadable
  <2>5. QED
    BY <2>2, <2>3, <2>4 DEF IInv
<1>6. CASE RebuildNeeded
  <2>1. PICK r \in Rebuildable(item, snapshot) : target' = RebuildRequest(item, r)
    BY <1>6 DEF RebuildNeeded
  <2>2. r \in Records /\ Matches(item, r)
    BY DEF Rebuildable, Matching
  <2>3. ValidItem(item) /\ item \in Items
    BY <1>6 DEF RebuildNeeded, IInv, Validated, TypeOK
  <2>4. triggers' = 1
    BY <1>6 DEF RebuildNeeded, IInv, Counted
  <2>5. TypeOK'
    <3>1. target' \in Requests
      BY <2>1, <2>2, <2>3, RequestType
    <3>2. Put!TypeOK'
      BY <1>6, MaxCopiesAssumption DEF RebuildNeeded, Put!TypeOK, Put!Attempt
    <3>3. QED
      BY <1>6, <2>4, <3>1, <3>2 DEF RebuildNeeded, IInv, TypeOK
  <2>6. Seen'
    BY <1>6 DEF RebuildNeeded, IInv, Seen, IsReadable, Matching, Matches
  <2>7. RebuildsTheItem'
    <3>1. \A q \in Designated(RebuildRequest(item, r)) : Matches(item, q)
      BY <2>2, <2>3, RequestStaysOnItem
    <3>2. \A q \in Designated(target)' : Matches(item, q)'
      BY <1>6, <2>1, <3>1 DEF RebuildNeeded, Designated, Matches
    <3>3. QED
      BY <3>2 DEF RebuildsTheItem
  <2>8. Counted'
    BY <1>6, <2>4 DEF RebuildNeeded, IInv, Counted
  <2>9. Validated' /\ OkMeansReadable'
    BY <1>6, <2>3 DEF RebuildNeeded, IInv, Validated, OkMeansReadable, ValidItem
  <2>10. QED
    BY <2>5, <2>6, <2>7, <2>8, <2>9 DEF IInv
<1>7. CASE NothingMatches
  BY <1>7, CallerMoves DEF NothingMatches, Results, IInv, TypeOK
<1>8. CASE NotReadyYet
  BY <1>8, CallerMoves DEF NotReadyYet, IInv, Validated, TypeOK
<1>9. CASE IssuePut
  <2>1. TypeOK'
    BY <1>9, MaxCopiesAssumption DEF IssuePut, Put!Issue, IInv, TypeOK, Put!TypeOK, Put!Attempt
  <2>2. Seen' /\ RebuildsTheItem'
    BY <1>9 DEF IssuePut, IInv, Seen, RebuildsTheItem, IsReadable, Matching, Matches,
                Designated
  <2>3. Counted' /\ Validated' /\ OkMeansReadable'
    BY <1>9 DEF IssuePut, IInv, Counted, Validated, OkMeansReadable, ValidItem
  <2>4. QED
    BY <2>1, <2>2, <2>3 DEF IInv
<1>10. CASE TriggerSucceeds
  <2>1. TypeOK'
    BY <1>10 DEF TriggerSucceeds, Put!Succeed, IInv, TypeOK, Put!TypeOK, Put!Attempt
  <2>2. Seen' /\ RebuildsTheItem'
    BY <1>10 DEF TriggerSucceeds, IInv, Seen, RebuildsTheItem, IsReadable, Matching,
                 Matches, Designated
  <2>3. Counted' /\ Validated' /\ OkMeansReadable'
    BY <1>10 DEF TriggerSucceeds, IInv, Counted, Validated, OkMeansReadable, ValidItem
  <2>4. QED
    BY <2>1, <2>2, <2>3 DEF IInv
<1>11. CASE TriggerFails
  <2>1. TypeOK'
    BY <1>11 DEF TriggerFails, Put!Fail, IInv, TypeOK, Put!TypeOK, Put!Attempt, Results
  <2>2. Seen' /\ RebuildsTheItem'
    BY <1>11 DEF TriggerFails, IInv, Seen, RebuildsTheItem, IsReadable, Matching,
                 Matches, Designated
  <2>3. Counted' /\ Validated' /\ OkMeansReadable'
    BY <1>11 DEF TriggerFails, TransportClasses, IInv, Counted, Validated, OkMeansReadable
  <2>4. QED
    BY <2>1, <2>2, <2>3 DEF IInv
<1>12. CASE TimerFires
  BY <1>12, CallerMoves DEF TimerFires, IInv, Validated, TypeOK
<1>13. CASE WaitStops
  BY <1>13, CallerMoves DEF WaitStops, ContextClass, Results, TransportClasses, IInv, TypeOK
<1>14. CASE ContextEnds
  BY <1>14, EnvironmentMoves DEF ContextEnds, IInv, TypeOK, Seen, Put!TypeOK, Put!Attempt
<1>15. CASE AnswerProbe
  BY <1>15, EnvironmentMoves DEF AnswerProbe, IInv, TypeOK, Seen, Put!TypeOK, Put!Attempt
<1>16. ASSUME NEW n \in 1 .. MaxCopies, ServePut(n) PROVE IInv'
  BY <1>16, EnvironmentMoves
     DEF ServePut, Put!Serve, SetStatus, IInv, TypeOK, Put!TypeOK, Put!Attempt
<1>17. CASE BackendChanges
  BY <1>17, EnvironmentMoves
     DEF BackendChanges, SetStatus, IInv, TypeOK, Put!TypeOK, Put!Attempt
<1>18. CASE Returned \/ UNCHANGED vars
  <2>1. UNCHANGED vars
    BY <1>18 DEF Returned
  <2>2. TypeOK'
    BY <2>1 DEF vars, IInv, TypeOK, Put!TypeOK, Put!Attempt
  <2>3. Seen' /\ RebuildsTheItem'
    BY <2>1 DEF vars, IInv, Seen, RebuildsTheItem, IsReadable, Matching, Matches,
                Designated
  <2>4. Counted' /\ Validated' /\ OkMeansReadable'
    BY <2>1 DEF vars, IInv, Counted, Validated, OkMeansReadable, ValidItem
  <2>5. QED
    BY <2>2, <2>3, <2>4 DEF IInv
<1>19. QED
  BY <1>1, <1>2, <1>3, <1>4, <1>5, <1>6, <1>7, <1>8, <1>9, <1>10, <1>11, <1>12, <1>13,
     <1>14, <1>15, <1>16, <1>17, <1>18 DEF Next, Caller, Arrivals

\* The inductive invariant holds in every state of every behaviour of the poller.
THEOREM InvariantHolds == Spec => []IInv
  BY InitInvariant, NextInvariant, PTL DEF Spec

\* The state variables keep their types.
THEOREM TypeCorrect == Spec => []TypeOK
  BY InvariantHolds, PTL DEF IInv

\* A nil error means that the selected item was readable during the call.
THEOREM SuccessWasReadable == Spec => []OkMeansReadable
  BY InvariantHolds, PTL DEF IInv

\* One call asks for one rebuild at most, however long it polls.
THEOREM RebuildIsAskedOnce == Spec => []AtMostOneTrigger
<1>1. IInv => AtMostOneTrigger
  BY DEF IInv, Counted, AtMostOneTrigger
<1>2. QED
  BY <1>1, InvariantHolds, PTL

\* The rebuild asked for touches no record of another item.
THEOREM RebuildIsOfTheItem == Spec => []RebuildsTheItem
  BY InvariantHolds, PTL DEF IInv

-------------------------------------------------------------------------------
\* Without a second copy, nothing of the rebuild is under way outside the trigger.
LEMMA NoCopyLeft ==
  ASSUME IInv, Settled, NEW n \in 1 .. MaxCopies, ServePut(n),
         pc \in {"validate", "check", "probing", "waiting"} \/ result = "ok"
  PROVE  putIssued > 1
  BY MaxCopiesAssumption DEF IInv, TypeOK, Put!TypeOK, Put!Attempt, Settled, ServePut, Put!Serve

\* A backend that withdraws nothing leaves what is readable readable.
LEMMA ReadableStays ==
  ASSUME BackendChanges, ~expires, ReadableNow
  PROVE  ReadableNow'
<1>1. PICK q \in Matching(item, status) : status[q] = Readable
  BY DEF ReadableNow, IsReadable
<1>2. PICK r \in Records, s \in Statuses \cup {Absent} :
        status[r] # Readable /\ status' = [status EXCEPT ![r] = s]
  BY DEF BackendChanges, SetStatus
<1>3. q # r
  BY <1>1, <1>2
<1>4. status'[q] = status[q]
  BY <1>2, <1>3
<1>5. item' = item
  BY DEF BackendChanges, callVars
<1>6. q \in Matching(item', status') /\ status'[q] = Readable
  BY <1>1, <1>4, <1>5 DEF Matching, Matches
<1>7. QED
  BY <1>6 DEF ReadableNow, IsReadable

\* With a backend that withdraws nothing, a nil error means that the item is
\* readable from then on, unless the rebuild request had to be retried.
THEOREM SuccessIsUsable == Spec => []OkIsUsable
<1>1. Init => UInv
  <2> SUFFICES ASSUME Init PROVE UInv
    OBVIOUS
  <2>1. IInv
    BY InitInvariant
  <2>2. QED
    BY <2>1 DEF Init, UInv, Settled, Fresh, Put!Init
<1>2. UInv /\ [Next]_vars => UInv'
  <2> SUFFICES ASSUME UInv, [Next]_vars PROVE UInv'
    OBVIOUS
  <2> USE DEF callVars, putVars, Return, ReadableNow, Fresh
  <2>0. IInv' /\ IInv
    BY NextInvariant DEF UInv
  <2>1. CASE Validate \/ HeadStops \/ BeginProbe \/ ProbeFails \/ NothingMatches
             \/ NotReadyYet \/ TimerFires \/ WaitStops
    <3>1. UNCHANGED <<expires, item, status, snapshot, putVars>>
      BY <2>1 DEF Validate, HeadStops, BeginProbe, ProbeFails, NothingMatches,
                  NotReadyYet, TimerFires, WaitStops
    <3>2. /\ pc \in {"validate", "check", "probing", "waiting"}
          /\ pc' = "probing" => answered' = FALSE
          /\ \/ pc' \in {"check", "probing", "waiting"} /\ UNCHANGED result
             \/ pc' = "returned" /\ result' \in Results \ {"none", "ok"}
      BY <2>1 DEF Validate, HeadStops, BeginProbe, ProbeFails, NothingMatches,
                  NotReadyYet, TimerFires, WaitStops, ContextClass, Results,
                  TransportClasses
    <3>3. Settled' /\ (pc' = "returned" <=> result' # "none")
      BY <3>1, <3>2 DEF UInv, Settled
    <3>4. result' # "ok"
      BY <3>2 DEF UInv
    <3>5. QED
      BY <2>0, <3>2, <3>3, <3>4 DEF UInv
  <2>2. CASE ReadableFound
    <3>1. Settled' /\ (pc' = "returned" <=> result' # "none")
      BY <2>2 DEF ReadableFound, UInv, Settled
    <3>2. ~expires => ReadableNow' \/ putIssued' > 1
      BY <2>2 DEF ReadableFound, UInv, IsReadable, Matching, Matches
    <3>3. QED
      BY <2>0, <2>2, <3>1, <3>2 DEF ReadableFound, UInv
  <2>3. CASE RebuildNeeded \/ IssuePut \/ TriggerFails
    <3>1. pc' # "probing" /\ result' # "ok" /\ (pc' = "returned" <=> result' # "none")
      BY <2>3 DEF RebuildNeeded, IssuePut, TriggerFails, TransportClasses, UInv
    <3>2. pc' \in {"triggering", "returned"}
      BY <2>3 DEF RebuildNeeded, IssuePut, TriggerFails
    <3>3. QED
      BY <2>0, <3>1, <3>2 DEF UInv, Settled
  <2>4. CASE TriggerSucceeds
    BY <2>0, <2>4 DEF TriggerSucceeds, Put!Succeed, UInv, Settled
  <2>5. CASE ContextEnds
    <3>1. UNCHANGED <<pc, expires, item, status, answered, snapshot, putVars, result>>
      BY <2>5 DEF ContextEnds
    <3>2. QED
      BY <2>0, <3>1 DEF UInv, Settled, IsReadable, Matching, Matches
  <2>6. CASE AnswerProbe
    <3>1. Settled' /\ (pc' = "returned" <=> result' # "none") /\ result' # "ok"
      BY <2>6 DEF AnswerProbe, UInv, Settled
    <3>2. IsReadable(item', snapshot') => ReadableNow'
      BY <2>6 DEF AnswerProbe, IsReadable, Matching, Matches
    <3>3. Fresh'
      BY <3>2
    <3>4. QED
      BY <2>0, <3>1, <3>3 DEF UInv
  <2>7. ASSUME NEW n \in 1 .. MaxCopies, ServePut(n) PROVE UInv'
    <3>1. UNCHANGED <<pc, expires, item, answered, snapshot, putIssued, result>>
      BY <2>7 DEF ServePut, Put!Serve
    <3>2. Settled' /\ (pc' = "returned" <=> result' # "none")
      BY <2>7, <3>1 DEF ServePut, Put!Serve, UInv, Settled
    <3>3. pc = "probing" \/ result = "ok" => putIssued' > 1
      BY <2>0, <2>7, <3>1, NoCopyLeft DEF UInv
    <3>4. QED
      BY <2>0, <3>1, <3>2, <3>3 DEF UInv
  <2>8. CASE BackendChanges
    <3>1. UNCHANGED <<pc, expires, item, answered, snapshot, putIssued, putServed, result>>
      BY <2>8 DEF BackendChanges
    <3>2. Settled' /\ (pc' = "returned" <=> result' # "none")
      BY <3>1 DEF UInv, Settled
    <3>3. ~expires /\ ReadableNow => ReadableNow'
      BY <2>8, ReadableStays
    <3>4. IsReadable(item', snapshot') <=> IsReadable(item, snapshot)
      BY <3>1 DEF IsReadable, Matching, Matches
    <3>5. QED
      BY <2>0, <3>1, <3>2, <3>3, <3>4 DEF UInv
  <2>9. CASE Returned \/ UNCHANGED vars
    <3>1. UNCHANGED vars
      BY <2>9 DEF Returned
    <3>2. QED
      BY <2>0, <3>1 DEF vars, UInv, Settled, IsReadable, Matching, Matches
  <2>10. QED
    BY <2>1, <2>2, <2>3, <2>4, <2>5, <2>6, <2>7, <2>8, <2>9 DEF Next, Caller, Arrivals
<1>3. UInv => OkIsUsable
  BY DEF UInv, OkIsUsable
<1>4. QED
  BY <1>1, <1>2, <1>3, PTL DEF Spec

-------------------------------------------------------------------------------
\* Nothing is sent before a rebuild is asked for.
Unsent == triggers = 0 => Put!Init

LEMMA UnsentHolds == IInv /\ Unsent /\ [Next]_vars => Unsent'
<1> SUFFICES ASSUME IInv, Unsent, [Next]_vars, triggers' = 0 PROVE Put!Init'
  BY DEF Unsent
<1> USE DEF putVars
<1>1. CASE \/ Validate \/ HeadStops \/ BeginProbe \/ ProbeFails \/ ReadableFound
           \/ NothingMatches \/ NotReadyYet \/ TimerFires \/ WaitStops
           \/ ContextEnds \/ AnswerProbe \/ BackendChanges
  <2>1. UNCHANGED <<triggers, putVars>>
    BY <1>1 DEF Validate, HeadStops, BeginProbe, ProbeFails, ReadableFound, NothingMatches,
                NotReadyYet, TimerFires, WaitStops, ContextEnds, AnswerProbe, BackendChanges
  <2>2. QED
    BY <2>1 DEF Unsent, Put!Init
<1>2. CASE RebuildNeeded
  BY <1>2 DEF RebuildNeeded, Put!Init
<1>3. CASE IssuePut \/ TriggerSucceeds \/ TriggerFails
  <2>1. pc = "triggering" /\ UNCHANGED triggers
    BY <1>3 DEF IssuePut, TriggerSucceeds, TriggerFails
  <2>2. QED
    BY <2>1 DEF IInv, Counted
<1>4. ASSUME NEW n \in 1 .. MaxCopies, ServePut(n) PROVE Put!Init'
  <2>1. n <= putIssued /\ UNCHANGED triggers
    BY <1>4 DEF ServePut, Put!Serve
  <2>2. putIssued = 0
    BY <2>1 DEF Unsent, Put!Init
  <2>3. QED
    BY <2>1, <2>2, MaxCopiesAssumption
<1>5. CASE Returned \/ UNCHANGED vars
  BY <1>5 DEF Returned, vars, Unsent, Put!Init
<1>6. QED
  BY <1>1, <1>2, <1>3, <1>4, <1>5 DEF Next, Caller, Arrivals

\* However long the wait and whatever the probes say meanwhile, the backend sees
\* one call of the rebuild endpoint, which keeps the promises of RemoteCall: the
\* loop never starts it anew, nor goes on with it after its outcome.
THEOREM RebuildIsOneCall == Spec => Put!Spec
<1>1. Init => Put!Init /\ Unsent
  BY DEF Init, Unsent
<1>2. IInv /\ Unsent /\ [Next]_vars => [Put!Next]_(Put!vars)
  <2> SUFFICES ASSUME IInv, Unsent, [Next]_vars PROVE [Put!Next]_(Put!vars)
    OBVIOUS
  <2> USE DEF putVars, Put!vars
  <2>1. CASE \/ Validate \/ HeadStops \/ BeginProbe \/ ProbeFails \/ ReadableFound
             \/ NothingMatches \/ NotReadyYet \/ TimerFires \/ WaitStops
             \/ ContextEnds \/ AnswerProbe \/ BackendChanges
    BY <2>1 DEF Validate, HeadStops, BeginProbe, ProbeFails, ReadableFound, NothingMatches,
                NotReadyYet, TimerFires, WaitStops, ContextEnds, AnswerProbe, BackendChanges
  <2>2. CASE RebuildNeeded
    <3>1. triggers = 0
      BY <2>2 DEF RebuildNeeded, IInv, Counted
    <3>2. QED
      BY <2>2, <3>1 DEF RebuildNeeded, Unsent, Put!Init
  <2>3. CASE IssuePut
    BY <2>3 DEF IssuePut, Put!Next
  <2>4. CASE TriggerSucceeds
    BY <2>4 DEF TriggerSucceeds, Put!Next
  <2>5. CASE TriggerFails
    BY <2>5 DEF TriggerFails, Put!Next
  <2>6. ASSUME NEW n \in 1 .. MaxCopies, ServePut(n) PROVE Put!Next
    BY <2>6 DEF ServePut, Put!Next, Put!Attempt
  <2>7. CASE Returned \/ UNCHANGED vars
    BY <2>7 DEF Returned, vars
  <2>8. QED
    BY <2>1, <2>2, <2>3, <2>4, <2>5, <2>6, <2>7 DEF Next, Caller, Arrivals
<1>3. QED
  BY <1>1, <1>2, UnsentHolds, InvariantHolds, PTL DEF Spec, Put!Spec
===============================================================================
