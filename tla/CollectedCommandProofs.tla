------------------------- MODULE CollectedCommandProofs -------------------------
(***************************************************************************)
(* Theorems about Progress, for every sequence of hook calls and every     *)
(* number of reminders, and about the commands of CollectedCommand, which  *)
(* implement Progress and so keep its invariants.                          *)
(***************************************************************************)
EXTENDS CollectedCommand, TLAPS

\* The two tickers never share a channel.
Distinct == rebuildTicker # 0 => rebuildTicker # operationTicker

\* A stage's line was printed exactly when its flag is set.
FlagsKept == \A l \in OnceLines : said[l] = IF l \in printed THEN 1 ELSE 0

TInv ==
  /\ rebuildTicker \in Ticker
  /\ operationTicker \in Ticker
  /\ spawned \in Ticker
  /\ stopped \in SUBSET (1 .. spawned)
  /\ running \in SUBSET (1 .. spawned)
  /\ TickersMatchGoroutines
  /\ Distinct

LInv ==
  /\ printed \in SUBSET OnceLines
  /\ said \in [Lines -> 0 .. 2]
  /\ FlagsKept

IInv == TInv /\ LInv /\ closed \in BOOLEAN

-------------------------------------------------------------------------------
\* Stopping the tickers in T: their channels are closed, they are nil.
LEMMA StopKeepsTInv ==
  ASSUME TInv,
         NEW T \in SUBSET {rebuildTicker, operationTicker},
         Closing(T),
         rebuildTicker' = IF rebuildTicker \in T THEN 0 ELSE rebuildTicker,
         operationTicker' = IF operationTicker \in T THEN 0 ELSE operationTicker,
         UNCHANGED <<spawned, running>>
  PROVE  TInv'
<1>1. stopped' = stopped \cup (T \ {0})
  BY DEF Closing
<1>2. {rebuildTicker, operationTicker} \ {0} \subseteq running
  BY DEF TInv, TickersMatchGoroutines
<1>3. stopped' \in SUBSET (1 .. spawned')
  BY <1>1, <1>2 DEF TInv
<1>4. rebuildTicker' \in Ticker /\ operationTicker' \in Ticker
  BY MaxTickersAssumption DEF TInv, Ticker
<1>5. TickersMatchGoroutines'
  <2>1. running' \ stopped' = (({rebuildTicker, operationTicker} \ {0}) \ (T \ {0}))
    BY <1>1 DEF TInv, TickersMatchGoroutines
  <2>2. ({rebuildTicker, operationTicker} \ {0}) \ (T \ {0})
          = {rebuildTicker', operationTicker'} \ {0}
    OBVIOUS
  <2>3. QED
    BY <2>1, <2>2 DEF TickersMatchGoroutines
<1>6. Distinct'
  BY DEF TInv, Distinct
<1>7. QED
  BY <1>3, <1>4, <1>5, <1>6 DEF TInv

\* A new reminder gets a channel that nobody has seen.
LEMMA NewChannel ==
  ASSUME TInv, Spawn
  PROVE  /\ spawned + 1 \in Ticker
         /\ spawned + 1 \notin running \cup stopped \cup {rebuildTicker, operationTicker, 0}
         /\ 1 .. (spawned + 1) = (1 .. spawned) \cup {spawned + 1}
<1>1. spawned \in Nat /\ spawned < MaxTickers
  BY MaxTickersAssumption DEF TInv, Ticker, Spawn
<1>2. spawned + 1 \in Ticker /\ spawned + 1 # 0 /\ spawned + 1 \notin 1 .. spawned
  BY <1>1, MaxTickersAssumption DEF Ticker
<1>3. {rebuildTicker, operationTicker} \ {0} \subseteq 1 .. spawned
  BY DEF TInv, TickersMatchGoroutines
<1>4. 1 .. (spawned + 1) = (1 .. spawned) \cup {spawned + 1}
  BY <1>1
<1>5. QED
  BY <1>2, <1>3, <1>4 DEF TInv

\* Starting one for a ticker that is nil, whether or not the other was stopped.
LEMMA SpawnKeepsTInv ==
  ASSUME TInv, Spawn, UNCHANGED stopped,
         \/ /\ rebuildTicker = 0 /\ rebuildTicker' = spawned + 1
            /\ UNCHANGED operationTicker
         \/ /\ operationTicker = 0 /\ operationTicker' = spawned + 1
            /\ UNCHANGED rebuildTicker
  PROVE  TInv'
<1>1. /\ spawned + 1 \in Ticker
      /\ spawned + 1 \notin running \cup stopped \cup {rebuildTicker, operationTicker, 0}
      /\ 1 .. (spawned + 1) = (1 .. spawned) \cup {spawned + 1}
  BY NewChannel
<1>2. spawned' = spawned + 1 /\ running' = running \cup {spawned + 1}
  BY DEF Spawn
<1> DEFINE new == spawned + 1
<1> HIDE DEF new
<1>3. spawned' = new /\ running' = running \cup {new} /\ new \in Ticker
      /\ new \notin running \cup stopped \cup {rebuildTicker, operationTicker, 0}
      /\ 1 .. new = (1 .. spawned) \cup {new}
  BY <1>1, <1>2 DEF new
<1>4. \/ rebuildTicker = 0 /\ rebuildTicker' = new /\ UNCHANGED operationTicker
      \/ operationTicker = 0 /\ operationTicker' = new /\ UNCHANGED rebuildTicker
  BY DEF new
<1>5. /\ stopped' \in SUBSET (1 .. spawned') /\ running' \in SUBSET (1 .. spawned')
      /\ rebuildTicker' \in Ticker /\ operationTicker' \in Ticker /\ spawned' \in Ticker
  BY <1>3, <1>4 DEF TInv
<1>6. running' \ stopped' = ({rebuildTicker, operationTicker} \ {0}) \cup {new}
  BY <1>3 DEF TInv, TickersMatchGoroutines
<1>7. TickersMatchGoroutines'
  BY <1>3, <1>4, <1>6 DEF TickersMatchGoroutines
<1>8. Distinct'
  BY <1>3, <1>4 DEF TInv, Distinct
<1>9. QED
  BY <1>5, <1>7, <1>8 DEF TInv

\* The operation's start stops one reminder and starts the other.
LEMMA SwitchKeepsTInv ==
  ASSUME TInv, SwitchTickers
  PROVE  TInv'
<1>1. CASE operationTicker # 0 /\ UNCHANGED <<operationTicker, spawned, running>>
  <2>1. {rebuildTicker} \in SUBSET {rebuildTicker, operationTicker}
    OBVIOUS
  <2>2. operationTicker' = IF operationTicker \in {rebuildTicker} THEN 0 ELSE operationTicker
    BY <1>1 DEF TInv, Distinct
  <2>3. QED
    BY <1>1, <2>1, <2>2, StopKeepsTInv DEF SwitchTickers
<1>2. CASE operationTicker = 0 /\ Spawn /\ operationTicker' = spawned + 1
  <2>1. /\ spawned + 1 \in Ticker
        /\ spawned + 1 \notin running \cup stopped \cup {rebuildTicker, operationTicker, 0}
        /\ 1 .. (spawned + 1) = (1 .. spawned) \cup {spawned + 1}
    BY <1>2, NewChannel
  <2> DEFINE new == spawned + 1
  <2>2. spawned' = new /\ running' = running \cup {new} /\ operationTicker' = new
    BY <1>2 DEF Spawn
  <2>3. stopped' = stopped \cup ({rebuildTicker} \ {0}) /\ rebuildTicker' = 0
    BY DEF SwitchTickers, Closing
  <2> HIDE DEF new
  <2>4. new \in Ticker /\ 1 .. new = (1 .. spawned) \cup {new}
        /\ new \notin running \cup stopped \cup {rebuildTicker, operationTicker, 0}
    BY <2>1 DEF new
  <2>5. running \ stopped = {rebuildTicker} \ {0} /\ rebuildTicker \in running \cup {0}
    BY <1>2 DEF TInv, TickersMatchGoroutines
  <2>6. running' \ stopped' = {new}
    BY <2>2, <2>3, <2>4, <2>5
  <2>7. TickersMatchGoroutines' /\ Distinct'
    BY <2>2, <2>3, <2>4, <2>6 DEF TickersMatchGoroutines, Distinct
  <2>8. 0 \in Ticker
    BY MaxTickersAssumption DEF Ticker
  <2>9. stopped' \in SUBSET (1 .. spawned') /\ running' \in SUBSET (1 .. spawned')
    BY <2>2, <2>3, <2>4, <2>5 DEF TInv
  <2>10. QED
    BY <2>2, <2>3, <2>4, <2>7, <2>8, <2>9 DEF TInv
<1>3. QED
  BY <1>1, <1>2 DEF SwitchTickers

\* A goroutine returns only after its channel was closed.
LEMMA SeeStopKeepsTInv ==
  ASSUME TInv, NEW g \in 1 .. MaxTickers, SeeStop(g)
  PROVE  TInv'
<1>1. running' = running \ {g} /\ g \in stopped
      /\ UNCHANGED <<rebuildTicker, operationTicker, spawned, stopped>>
  BY DEF SeeStop
<1>2. running' \ stopped' = running \ stopped
  BY <1>1
<1>3. QED
  BY <1>1, <1>2 DEF TInv, TickersMatchGoroutines, Distinct

\* A stage's line is printed together with setting its flag, and the lines
\* printed otherwise are no stage's.
LEMMA SayKeepsLInv ==
  ASSUME LInv, NEW line \in OnceLines, NEW others \in SUBSET (Lines \ OnceLines),
         SayOnce(line, others)
  PROVE  LInv'
<1>1. said' = [l \in Lines |-> IF l \in Fresh(line) \cup others /\ said[l] < 2
                               THEN said[l] + 1 ELSE said[l]]
  BY DEF SayOnce, Say
<1>2. printed' = printed \cup {line}
  BY DEF SayOnce
<1>3. said' \in [Lines -> 0 .. 2]
  BY <1>1 DEF LInv
<1>4. ASSUME NEW l \in OnceLines
      PROVE  said'[l] = IF l \in printed' THEN 1 ELSE 0
  <2>1. l \in Lines /\ l \notin others /\ said[l] = IF l \in printed THEN 1 ELSE 0
    BY DEF LInv, FlagsKept, Lines
  <2>2. CASE l = line /\ line \notin printed
    BY <1>1, <1>2, <2>1, <2>2 DEF Fresh
  <2>3. CASE l # line \/ line \in printed
    BY <1>1, <1>2, <2>1, <2>3 DEF Fresh
  <2>4. QED
    BY <2>2, <2>3
<1>5. QED
  BY <1>2, <1>3, <1>4 DEF LInv, FlagsKept

LEMMA SayOthersKeepsLInv ==
  ASSUME LInv, NEW others \in SUBSET (Lines \ OnceLines), Say(others), UNCHANGED printed
  PROVE  LInv'
<1>1. said' \in [Lines -> 0 .. 2]
  BY DEF LInv, Say
<1>2. \A l \in OnceLines : said'[l] = said[l]
  BY DEF Say, Lines
<1>3. QED
  BY <1>1, <1>2 DEF LInv, FlagsKept

-------------------------------------------------------------------------------
\* The inductive invariant holds in every state.
THEOREM InvariantHolds == Spec => []IInv
<1>1. Init => IInv
  <2> SUFFICES ASSUME Init PROVE IInv
    OBVIOUS
  <2>1. 0 \in Ticker
    BY MaxTickersAssumption DEF Ticker
  <2>2. TInv
    BY <2>1 DEF Init, TInv, TickersMatchGoroutines, Distinct
  <2>3. LInv
    BY DEF Init, LInv, FlagsKept, Lines
  <2>4. QED
    BY <2>2, <2>3 DEF Init, IInv
<1>2. IInv /\ [Next]_vars => IInv'
  <2> SUFFICES ASSUME IInv, [Next]_vars PROVE IInv'
    OBVIOUS
  <2> USE DEF IInv
  <2>0. TInv /\ LInv
    OBVIOUS
  <2>1. ASSUME UNCHANGED tickers PROVE TInv'
    BY <2>0, <2>1 DEF tickers, TInv, TickersMatchGoroutines, Distinct
  <2>2. ASSUME UNCHANGED <<printed, said>> PROVE LInv'
    BY <2>0, <2>2 DEF LInv, FlagsKept
  <2>3. ASSUME StopRebuildTicker PROVE TInv'
    <3>1. operationTicker' = IF operationTicker \in {rebuildTicker} THEN 0 ELSE operationTicker
      BY <2>0, <2>3 DEF StopRebuildTicker, TInv, Distinct
    <3>2. QED
      BY <2>0, <2>3, <3>1, StopKeepsTInv DEF StopRebuildTicker
  <2>4. ASSUME StopOperationTicker PROVE TInv'
    <3>1. rebuildTicker' = IF rebuildTicker \in {operationTicker} THEN 0 ELSE rebuildTicker
      BY <2>0, <2>4 DEF StopOperationTicker, TInv, Distinct
    <3>2. QED
      BY <2>0, <2>4, <3>1, StopKeepsTInv DEF StopOperationTicker
  <2>5. ASSUME NEW endpoint \in Endpoints, OnRequestStart(endpoint) PROVE IInv'
    <3>1. closed' \in BOOLEAN
      BY <2>5 DEF OnRequestStart
    <3>2. TInv'
      BY <2>0, <2>1, <2>5, SwitchKeepsTInv DEF OnRequestStart
    <3>3. LInv'
      <4>1. CASE endpoint = "data"
        BY <2>0, <2>5, <4>1, SayKeepsLInv DEF OnRequestStart, OnceLines
      <4>2. CASE endpoint = "data_status"
        BY <2>0, <2>5, <4>2, SayKeepsLInv DEF OnRequestStart, OnceLines
      <4>3. CASE endpoint = "rebuild"
        BY <2>0, <2>5, <4>3, SayKeepsLInv DEF OnRequestStart, OnceLines
      <4>4. CASE endpoint = "operation"
        <5> DEFINE others == IF rebuildTicker # 0 THEN {"ready"} ELSE {}
        <5>1. SayOnce("operation_start", others)
          BY <2>5, <4>4 DEF OnRequestStart
        <5>2. others \in SUBSET (Lines \ OnceLines) /\ "operation_start" \in OnceLines
          BY DEF Lines, OnceLines
        <5> HIDE DEF others
        <5>3. QED
          BY <2>0, <5>1, <5>2, SayKeepsLInv
      <4>5. CASE endpoint = "other"
        BY <2>2, <2>5, <4>5 DEF OnRequestStart
      <4>6. QED
        BY <4>1, <4>2, <4>3, <4>4, <4>5 DEF Endpoints
    <3>4. QED
      BY <3>1, <3>2, <3>3
  <2>6. ASSUME NEW endpoint \in Endpoints, OnRequestDone(endpoint) PROVE IInv'
    <3>1. closed' \in BOOLEAN /\ UNCHANGED printed
      BY <2>6 DEF OnRequestDone
    <3>2. CASE endpoint = "rebuild"
      <4>1. TInv'
        BY <2>0, <2>1, <2>6, <3>2, SpawnKeepsTInv DEF OnRequestDone, StartRebuildTicker
      <4>2. LInv'
        BY <2>2, <2>6, <3>2 DEF OnRequestDone
      <4>3. QED
        BY <3>1, <4>1, <4>2
    <3>3. CASE endpoint = "operation"
      <4>1. TInv' /\ Say({"operation_ok"})
        BY <2>4, <2>6, <3>3 DEF OnRequestDone
      <4>2. {"operation_ok"} \in SUBSET (Lines \ OnceLines)
        BY DEF Lines, OnceLines
      <4>3. QED
        BY <2>0, <3>1, <4>1, <4>2, SayOthersKeepsLInv
    <3>4. CASE endpoint \notin {"rebuild", "operation"}
      BY <2>1, <2>2, <2>6, <3>1, <3>4 DEF OnRequestDone
    <3>5. QED
      BY <3>2, <3>3, <3>4
  <2>7. ASSUME NEW endpoint \in Endpoints, NEW processing \in BOOLEAN,
               OnRequestError(endpoint, processing)
        PROVE  IInv'
    <3>1. closed' \in BOOLEAN
      BY <2>7 DEF OnRequestError
    <3>2. CASE endpoint = "operation" /\ processing
      <4>1. TInv' /\ SayOnce("rebuilding", {})
        BY <2>1, <2>7, <3>2 DEF OnRequestError
      <4>2. QED
        BY <2>0, <3>1, <4>1, SayKeepsLInv DEF OnceLines
    <3>3. CASE endpoint = "operation" /\ ~processing
      <4>1. TInv' /\ Say({"operation_failed"}) /\ UNCHANGED printed
        BY <2>4, <2>7, <3>3 DEF OnRequestError
      <4>2. {"operation_failed"} \in SUBSET (Lines \ OnceLines)
        BY DEF Lines, OnceLines
      <4>3. QED
        BY <2>0, <3>1, <4>1, <4>2, SayOthersKeepsLInv
    <3>4. CASE endpoint \in {"rebuild", "data_status"}
      BY <2>2, <2>3, <2>7, <3>1, <3>4 DEF OnRequestError
    <3>5. CASE endpoint \in {"data", "other"}
      BY <2>1, <2>2, <2>7, <3>1, <3>5 DEF OnRequestError
    <3>6. QED
      BY <3>2, <3>3, <3>4, <3>5 DEF Endpoints
  <2>8. CASE Close
    <3>1. TInv'
      BY <2>0, <2>8, StopKeepsTInv DEF Close
    <3>2. QED
      BY <2>2, <2>8, <3>1 DEF Close
  <2>9. ASSUME NEW g \in 1 .. MaxTickers, SeeStop(g) PROVE IInv'
    <3>1. TInv'
      BY <2>0, <2>9, SeeStopKeepsTInv
    <3>2. QED
      BY <2>2, <2>9, <3>1 DEF SeeStop
  <2>10. ASSUME UNCHANGED vars PROVE IInv'
    BY <2>1, <2>2, <2>10 DEF vars, tickers
  <2>11. QED
    BY <2>5, <2>6, <2>7, <2>8, <2>9, <2>10 DEF Next, Hooks, Reminders, Remind, Finished
<1>3. QED
  BY <1>1, <1>2, PTL DEF Spec

\* The state variables keep their types.
THEOREM TypeCorrect == Spec => []TypeOK
<1>1. IInv => TypeOK
  BY DEF IInv, TInv, LInv, TypeOK
<1>2. QED
  BY <1>1, InvariantHolds, PTL

\* No reminder goroutine is leaked and no channel is closed twice.
THEOREM NoReminderLeaks == Spec => []TickersMatchGoroutines
<1>1. IInv => TickersMatchGoroutines
  BY DEF IInv, TInv
<1>2. QED
  BY <1>1, InvariantHolds, PTL

\* However often a hook is called, a stage's line is printed once.
THEOREM StagesToldOnce == Spec => []StageLinesOnce
<1>1. IInv => StageLinesOnce
  BY DEF IInv, LInv, FlagsKept, StageLinesOnce
<1>2. QED
  BY <1>1, InvariantHolds, PTL

-------------------------------------------------------------------------------
\* The hook called is one that the display knows.
LEMMA EndpointKnown ==
  ASSUME pc \in Requests
  PROVE  Endpoint \in Endpoints
  BY DEF Requests, Endpoint, Endpoints

\* A step of a command is one of the display or leaves it alone.
LEMMA StepDrivesProgress ==
  ASSUME [CommandNext]_commandVars
  PROVE  [Next]_vars
<1>1. CASE StartAttempt
  BY <1>1, EndpointKnown DEF StartAttempt, Next, Hooks
<1>2. ASSUME pc \in Requests, Done PROVE Next
  BY <1>2, EndpointKnown DEF Done, Next, Hooks
<1>3. CASE Resolved \/ Selected \/ ProbedReadable \/ ProbedOtherwise
  BY <1>2, <1>3 DEF Resolved, Selected, ProbedReadable, ProbedOtherwise, Requests
<1>4. CASE Rebuilding \/ Delivered
  BY <1>2, <1>4 DEF Rebuilding, Delivered, Requests
<1>5. CASE Failed
  <2>1. PICK processing \in BOOLEAN : OnRequestError(Endpoint, processing)
    BY <1>5 DEF Failed
  <2>2. QED
    BY <1>5, <2>1, EndpointKnown DEF Failed, Next, Hooks
<1>6. CASE Exit
  BY <1>6 DEF Exit, Next
<1>7. ASSUME NEW g \in 1 .. MaxTickers, CommandReminds(g) \/ ReminderEnds(g) PROVE Next
  BY <1>7 DEF CommandReminds, ReminderEnds, Next, Reminders
<1>8. CASE Retry \/ RefusedByClient \/ WaitEnds
  BY <1>8 DEF Retry, RefusedByClient, WaitEnds, display
<1>9. CASE CommandFinished \/ UNCHANGED commandVars
  BY <1>9 DEF CommandFinished, commandVars, display
<1>10. QED
  BY <1>1, <1>3, <1>4, <1>5, <1>6, <1>7, <1>8, <1>9 DEF CommandNext

\* For the display a command is a behaviour of Progress, as the steps of
\* CollectedCommand are put together from Progress's: its theorems apply.
LEMMA CommandsRunProgress == CommandSpec => Spec
<1>1. CommandInit => Init
  BY DEF CommandInit
<1>2. [CommandNext]_commandVars => [Next]_vars
  BY StepDrivesProgress
<1>3. QED
  BY <1>1, <1>2, PTL DEF CommandSpec, Spec

\* Hence every command keeps the display's invariant.
THEOREM CommandsKeepProgress == CommandSpec => []IInv
  BY CommandsRunProgress, InvariantHolds, PTL

-------------------------------------------------------------------------------
\* The commands' own state keeps its types; the display is closed by the exit.
CommandTypes ==
  /\ command \in {"download", "slowquery"}
  /\ platform \in {"op", "cloud"}
  /\ skipEnsure \in BOOLEAN
  /\ pc \in Requests \cup Waits \cup {"returned", "exited"}
  /\ call \in {"idle", "open", "again"}
  /\ triggered \in BOOLEAN
  /\ ensured \in BOOLEAN
  /\ misread \in {"no", "undecodable", "processing"}
  /\ outcome \in {"none", "ok", "failed"}
  /\ pc \in Waits \cup {"returned", "exited"} => call = "idle"

\* The rebuild's reminder runs from the rebuild to the operation.
RebuildReminded ==
  /\ rebuildTicker # 0 => triggered
  /\ pc \in {"resolve", "list", "trigger"} => ~triggered
  /\ pc \in {"probe", "probe_wait"} /\ triggered => rebuildTicker # 0
  /\ pc \in {"operation", "processing_wait"} /\ triggered => ensured

\* The operation's reminder takes its place, and runs until the operation ends.
OperationReminded ==
  /\ operationTicker # 0 =>
       rebuildTicker = 0 /\ pc \in {"operation", "processing_wait", "returned"}
  /\ platform = "op" /\ pc = "operation" /\ call # "idle" => operationTicker # 0
  /\ platform = "op" /\ pc = "processing_wait" => operationTicker # 0

\* What was printed of the operation, before and after it returned.
Told ==
  /\ ReadyIsTrue
  /\ said["operation_start"] > 0 =>
       \/ pc \in {"processing_wait", "returned", "exited"}
       \/ pc = "operation" /\ call # "idle"
  /\ pc \notin {"returned", "exited"} =>
       said["operation_ok"] = 0 /\ said["operation_failed"] = 0 /\ misread = "no"
  /\ OutcomeIsTold

CInv == CommandTypes /\ RebuildReminded /\ OperationReminded /\ Told

\* The counts that the command's properties are about.
counts == <<said["ready"], said["operation_start"], said["operation_ok"],
            said["operation_failed"]>>

\* What a hook prints of these lines.
LEMMA SayCounts ==
  ASSUME IInv, NEW lines \in SUBSET Lines, Say(lines)
  PROVE  \A l \in Lines :
           said'[l] = IF l \in lines /\ said[l] < 2 THEN said[l] + 1 ELSE said[l]
  BY DEF Say

LEMMA CountedLines ==
  /\ {"ready", "operation_start", "operation_ok", "operation_failed"} \subseteq Lines
  /\ OnceLines \subseteq Lines
  BY DEF Lines, OnceLines

\* An attempt that starts changes the tickers and the counted lines only for
\* the operation: its reminder replaces the rebuild's.
LEMMA StartEffects ==
  ASSUME IInv, NEW endpoint \in Endpoints, OnRequestStart(endpoint)
  PROVE  /\ endpoint # "operation" => UNCHANGED <<rebuildTicker, operationTicker, counts>>
         /\ endpoint = "operation" =>
              /\ rebuildTicker' = 0 /\ operationTicker' # 0
              /\ rebuildTicker = 0 => said'["ready"] = said["ready"]
              /\ UNCHANGED <<said["operation_ok"], said["operation_failed"]>>
<1>1. ASSUME NEW line \in OnceLines \ {"operation_start"}, SayOnce(line, {})
      PROVE  UNCHANGED counts
  <2>1. Say(Fresh(line)) /\ Fresh(line) \in SUBSET Lines
    BY <1>1, CountedLines DEF SayOnce, Fresh
  <2>2. \A l \in Lines : l \notin Fresh(line) => said'[l] = said[l]
    BY <2>1, SayCounts
  <2>3. /\ "ready" \notin Fresh(line) /\ "operation_start" \notin Fresh(line)
        /\ "operation_ok" \notin Fresh(line) /\ "operation_failed" \notin Fresh(line)
    BY <1>1 DEF Fresh, OnceLines
  <2>4. QED
    BY <2>2, <2>3, CountedLines DEF counts
<1>2. CASE endpoint \in {"data", "data_status", "rebuild"}
  BY <1>1, <1>2 DEF OnRequestStart, OnceLines, tickers
<1>3. CASE endpoint = "other"
  BY <1>3 DEF OnRequestStart, tickers, counts
<1>4. CASE endpoint = "operation"
  <2> DEFINE lines == Fresh("operation_start") \cup (IF rebuildTicker # 0 THEN {"ready"} ELSE {})
  <2>1. Say(lines) /\ SwitchTickers
    BY <1>4 DEF OnRequestStart, SayOnce
  <2>2. lines \in SUBSET Lines
    BY CountedLines DEF Fresh
  <2>3. \A l \in Lines : l \notin lines => said'[l] = said[l]
    BY <2>1, <2>2, SayCounts
  <2>4. /\ "operation_ok" \notin lines /\ "operation_failed" \notin lines
        /\ rebuildTicker = 0 => "ready" \notin lines
    BY DEF Fresh
  <2>5. rebuildTicker' = 0 /\ operationTicker' # 0
    BY <2>1 DEF SwitchTickers, Spawn, IInv, TInv, Ticker
  <2>6. QED
    BY <1>4, <2>3, <2>4, <2>5, CountedLines
<1>5. QED
  BY <1>2, <1>3, <1>4 DEF Endpoints

\* A reply ends the operation's reminder; the rebuild's starts with the reply to
\* the rebuild request.
LEMMA DoneEffects ==
  ASSUME IInv, NEW endpoint \in Endpoints, OnRequestDone(endpoint)
  PROVE  /\ endpoint = "rebuild" =>
              rebuildTicker' # 0 /\ UNCHANGED <<operationTicker, said>>
         /\ endpoint = "operation" =>
              /\ operationTicker' = 0 /\ UNCHANGED rebuildTicker
              /\ UNCHANGED <<said["ready"], said["operation_start"],
                            said["operation_failed"]>>
              /\ said["operation_ok"] = 0 => said'["operation_ok"] = 1
         /\ endpoint \notin {"rebuild", "operation"} =>
              UNCHANGED <<rebuildTicker, operationTicker, said>>
<1>1. CASE endpoint = "rebuild"
  BY <1>1 DEF OnRequestDone, StartRebuildTicker, Spawn, tickers, IInv, TInv, Ticker
<1>2. CASE endpoint = "operation"
  <2>1. Say({"operation_ok"}) /\ StopOperationTicker
    BY <1>2 DEF OnRequestDone
  <2>2. \A l \in Lines : said'[l] = IF l \in {"operation_ok"} /\ said[l] < 2
                                   THEN said[l] + 1 ELSE said[l]
    BY <2>1, SayCounts, CountedLines
  <2>3. QED
    BY <1>2, <2>1, <2>2, CountedLines DEF StopOperationTicker
<1>3. CASE endpoint \notin {"rebuild", "operation"}
  BY <1>3 DEF OnRequestDone, tickers
<1>4. QED
  BY <1>1, <1>2, <1>3

\* An error ends the reminder of the request that failed, but for an operation
\* that the log's processing delays.
LEMMA ErrorEffects ==
  ASSUME IInv, NEW endpoint \in Endpoints, NEW processing \in BOOLEAN,
         OnRequestError(endpoint, processing)
  PROVE  /\ endpoint # "operation" \/ processing => UNCHANGED <<operationTicker, counts>>
         /\ endpoint = "operation" => UNCHANGED rebuildTicker
         /\ rebuildTicker' \in {0, rebuildTicker}
         /\ endpoint = "operation" /\ ~processing =>
              /\ operationTicker' = 0
              /\ UNCHANGED <<said["ready"], said["operation_start"], said["operation_ok"]>>
              /\ said["operation_failed"] = 0 => said'["operation_failed"] = 1
<1>1. CASE endpoint = "operation" /\ processing
  <2>1. SayOnce("rebuilding", {}) /\ UNCHANGED tickers
    BY <1>1 DEF OnRequestError
  <2>2. Say(Fresh("rebuilding")) /\ Fresh("rebuilding") \in SUBSET Lines
    BY <2>1, CountedLines DEF SayOnce, Fresh, OnceLines
  <2>3. \A l \in Lines : l \notin Fresh("rebuilding") => said'[l] = said[l]
    BY <2>2, SayCounts
  <2>4. /\ "ready" \notin Fresh("rebuilding") /\ "operation_start" \notin Fresh("rebuilding")
        /\ "operation_ok" \notin Fresh("rebuilding")
        /\ "operation_failed" \notin Fresh("rebuilding")
    BY DEF Fresh
  <2>5. QED
    BY <1>1, <2>1, <2>3, <2>4, CountedLines DEF tickers, counts
<1>2. CASE endpoint = "operation" /\ ~processing
  <2>1. Say({"operation_failed"}) /\ StopOperationTicker
    BY <1>2 DEF OnRequestError
  <2>2. \A l \in Lines : said'[l] = IF l \in {"operation_failed"} /\ said[l] < 2
                                   THEN said[l] + 1 ELSE said[l]
    BY <2>1, SayCounts, CountedLines
  <2>3. QED
    BY <1>2, <2>1, <2>2, CountedLines DEF StopOperationTicker
<1>3. CASE endpoint \in {"rebuild", "data_status"}
  BY <1>3 DEF OnRequestError, StopRebuildTicker, counts
<1>4. CASE endpoint \in {"data", "other"}
  BY <1>4 DEF OnRequestError, tickers, counts
<1>5. QED
  BY <1>1, <1>2, <1>3, <1>4 DEF Endpoints

\* An attempt starts: the reminder of the operation replaces the rebuild's.
LEMMA StartKeepsCInv ==
  ASSUME IInv, CInv, StartAttempt
  PROVE  CInv'
<1>1. /\ pc \in Requests /\ call' = "open" /\ Endpoint \in Endpoints
      /\ OnRequestStart(Endpoint)
      /\ UNCHANGED <<command, platform, skipEnsure, pc, triggered, ensured, misread,
                     outcome>>
  BY EndpointKnown DEF StartAttempt, flags
<1>2. Endpoint = "operation" <=> pc = "operation" /\ platform = "op"
  BY <1>1 DEF Endpoint, Requests
<1>3. CASE Endpoint # "operation"
  <2>1. UNCHANGED <<rebuildTicker, operationTicker, counts>>
    BY <1>1, <1>3, StartEffects
  <2>2. RebuildReminded' /\ OperationReminded'
    BY <1>1, <1>2, <1>3, <2>1 DEF CInv, RebuildReminded, OperationReminded
  <2>3. Told'
    BY <1>1, <1>2, <1>3, <2>1 DEF CInv, Told, ReadyIsTrue, OutcomeIsTold, counts, Requests
  <2>4. QED
    BY <1>1, <2>2, <2>3 DEF CInv, CommandTypes, Requests, Waits
<1>4. CASE Endpoint = "operation"
  <2>1. /\ rebuildTicker' = 0 /\ operationTicker' # 0
        /\ rebuildTicker = 0 => said'["ready"] = said["ready"]
        /\ UNCHANGED <<said["operation_ok"], said["operation_failed"]>>
    BY <1>1, <1>4, StartEffects
  <2>2. RebuildReminded' /\ OperationReminded'
    BY <1>1, <1>2, <1>4, <2>1 DEF CInv, RebuildReminded, OperationReminded
  <2>3. ReadyIsTrue'
    BY <1>1, <1>2, <1>4, <2>1 DEF CInv, Told, RebuildReminded, ReadyIsTrue
  <2>4. Told'
    BY <1>1, <1>2, <1>4, <2>1, <2>3 DEF CInv, Told, OutcomeIsTold
  <2>5. QED
    BY <1>1, <2>2, <2>4 DEF CInv, CommandTypes, Requests, Waits
<1>5. QED
  BY <1>3, <1>4

\* A reply to a request that is not the operation leaves the counted lines and
\* the operation's reminder alone; what was found out stays known.
LEMMA ReplyKeepsCInv ==
  ASSUME IInv, CInv,
         Resolved \/ Selected \/ ProbedReadable \/ ProbedOtherwise \/ Rebuilding
  PROVE  CInv'
<1>1. /\ call = "open" /\ call' = "idle" /\ pc \in Requests \ {"operation"}
      /\ OnRequestDone(Endpoint) /\ Endpoint \in Endpoints
      /\ UNCHANGED <<command, platform, skipEnsure, misread>>
  BY EndpointKnown
  DEF Resolved, Selected, ProbedReadable, ProbedOtherwise, Rebuilding, Done, GoTo, Return,
      flags, Requests
<1>2. Endpoint # "operation" /\ (Endpoint = "rebuild" <=> pc = "trigger")
  BY <1>1 DEF Endpoint, Requests
<1>3. /\ UNCHANGED <<operationTicker, said>>
      /\ pc = "trigger" => rebuildTicker' # 0
      /\ pc # "trigger" => UNCHANGED rebuildTicker
  BY <1>1, <1>2, DoneEffects
<1>4. operationTicker' = 0 /\ ~(said'["operation_start"] > 0)
  BY <1>1, <1>3 DEF CInv, OperationReminded, Told, Requests
<1>5. /\ triggered => triggered'
      /\ ensured => ensured'
  BY DEF Resolved, Selected, ProbedReadable, ProbedOtherwise, Rebuilding
<1>6. Told'
  BY <1>1, <1>3, <1>4, <1>5 DEF CInv, Told, ReadyIsTrue, OutcomeIsTold, Requests
<1>7. OperationReminded'
  <2>1. pc' # "processing_wait"
    BY DEF Resolved, Selected, ProbedReadable, ProbedOtherwise, Rebuilding, GoTo, Return
  <2>2. QED
    BY <1>1, <1>4, <2>1 DEF OperationReminded
<1>8. RebuildReminded'
  <2>1. CASE Resolved \/ Selected
    <3>1. pc \in {"resolve", "list"} /\ UNCHANGED triggered
      BY <2>1 DEF Resolved, Selected
    <3>2. QED
      BY <1>3, <3>1 DEF CInv, RebuildReminded
  <2>2. CASE ProbedReadable
    BY <1>3, <2>2 DEF ProbedReadable, GoTo, CInv, RebuildReminded
  <2>3. CASE ProbedOtherwise
    BY <1>3, <2>3 DEF ProbedOtherwise, GoTo, Return, CInv, RebuildReminded
  <2>4. CASE Rebuilding
    BY <1>3, <2>4 DEF Rebuilding, GoTo, CInv, RebuildReminded
  <2>5. QED
    BY <2>1, <2>2, <2>3, <2>4
<1>9. CommandTypes'
  <2>1. CASE Resolved
    BY <2>1 DEF Resolved, GoTo, Return, flags, CInv, CommandTypes, Requests, Waits
  <2>2. CASE Selected
    BY <2>2 DEF Selected, GoTo, Return, flags, CInv, CommandTypes, Requests, Waits
  <2>3. CASE ProbedReadable
    BY <2>3 DEF ProbedReadable, GoTo, flags, CInv, CommandTypes, Requests, Waits
  <2>4. CASE ProbedOtherwise
    BY <2>4 DEF ProbedOtherwise, GoTo, Return, flags, CInv, CommandTypes, Requests, Waits
  <2>5. CASE Rebuilding
    BY <2>5 DEF Rebuilding, GoTo, flags, CInv, CommandTypes, Requests, Waits
  <2>6. QED
    BY <2>1, <2>2, <2>3, <2>4, <2>5
<1>10. QED
  BY <1>6, <1>7, <1>8, <1>9 DEF CInv

\* The operation's reply ends its reminder and is announced, decodable or not.
LEMMA DeliveredKeepsCInv ==
  ASSUME IInv, CInv, Delivered
  PROVE  CInv'
<1>1. /\ pc = "operation" /\ pc' = "returned" /\ call' = "idle"
      /\ OnRequestDone(Endpoint) /\ Endpoint \in Endpoints
      /\ \/ outcome' = "ok" /\ UNCHANGED misread
         \/ outcome' = "failed" /\ misread' = "undecodable"
      /\ UNCHANGED <<command, platform, skipEnsure, triggered, ensured>>
  BY EndpointKnown DEF Delivered, Done, Return, flags, Requests
<1>2. Endpoint = IF platform = "op" THEN "operation" ELSE "other"
  BY <1>1 DEF Endpoint
<1>3. UNCHANGED <<rebuildTicker, said["ready"], said["operation_start"],
                  said["operation_failed"]>>
  BY <1>1, <1>2, DoneEffects
<1>4. /\ platform = "op" => operationTicker' = 0 /\ said'["operation_ok"] = 1
      /\ platform # "op" => operationTicker' = operationTicker
  <2>1. said["operation_ok"] = 0
    BY <1>1 DEF CInv, Told
  <2>2. QED
    BY <1>1, <1>2, <2>1, DoneEffects
<1>5. CommandTypes' /\ RebuildReminded'
  BY <1>1, <1>3 DEF CInv, CommandTypes, RebuildReminded, Requests, Waits
<1>6. OperationReminded'
  BY <1>1, <1>3, <1>4 DEF CInv, OperationReminded
<1>7. Told'
  BY <1>1, <1>3, <1>4 DEF CInv, Told, ReadyIsTrue, OutcomeIsTold
<1>8. QED
  BY <1>5, <1>6, <1>7 DEF CInv

\* A request that fails: only of the operation is the failure announced, and not
\* when its error speaks of the log's processing.
LEMMA FailedKeepsCInv ==
  ASSUME IInv, CInv, Failed
  PROVE  CInv'
<1>1. PICK processing \in BOOLEAN, invalid \in BOOLEAN :
        /\ OnRequestError(Endpoint, processing)
        /\ IF pc = "operation" /\ RetriesProcessing(processing, invalid)
           THEN GoTo("processing_wait") /\ UNCHANGED misread
           ELSE /\ Return("failed")
                /\ misread' = IF pc = "operation" /\ processing THEN "processing"
                              ELSE misread
  BY DEF Failed
<1>2. /\ pc \in Requests /\ call = "open" /\ call' = "idle"
      /\ UNCHANGED <<command, platform, skipEnsure, triggered, ensured>>
  BY <1>1 DEF Failed, GoTo, Return, flags
<1>3. /\ Endpoint \in Endpoints
      /\ Endpoint = "operation" <=> pc = "operation" /\ platform = "op"
  BY <1>2, EndpointKnown DEF Endpoint, Requests
<1>4. /\ Endpoint # "operation" \/ processing => UNCHANGED <<operationTicker, counts>>
      /\ Endpoint = "operation" => UNCHANGED rebuildTicker
      /\ rebuildTicker' \in {0, rebuildTicker}
      /\ Endpoint = "operation" /\ ~processing =>
           /\ operationTicker' = 0
           /\ UNCHANGED <<said["ready"], said["operation_start"], said["operation_ok"]>>
           /\ said["operation_failed"] = 0 => said'["operation_failed"] = 1
  BY <1>1, <1>3, ErrorEffects
<1>5. CASE pc = "operation" /\ RetriesProcessing(processing, invalid)
  <2>1. /\ pc' = "processing_wait" /\ UNCHANGED <<outcome, misread>> /\ processing
        /\ UNCHANGED <<operationTicker, counts>>
    BY <1>1, <1>4, <1>5 DEF GoTo, RetriesProcessing
  <2>2. CommandTypes' /\ RebuildReminded'
    BY <1>2, <1>4, <1>5, <2>1 DEF CInv, CommandTypes, RebuildReminded, Requests, Waits
  <2>3. OperationReminded'
    BY <1>2, <1>4, <1>5, <2>1 DEF CInv, OperationReminded
  <2>4. Told'
    BY <1>2, <1>5, <2>1 DEF CInv, Told, ReadyIsTrue, OutcomeIsTold, counts
  <2>5. QED
    BY <2>2, <2>3, <2>4 DEF CInv
<1>6. CASE ~(pc = "operation" /\ RetriesProcessing(processing, invalid))
  <2>1. /\ pc' = "returned" /\ outcome' = "failed"
        /\ misread' = IF pc = "operation" /\ processing THEN "processing" ELSE misread
    BY <1>1, <1>6 DEF Return
  <2>2. CommandTypes' /\ RebuildReminded'
    BY <1>2, <1>4, <2>1 DEF CInv, CommandTypes, RebuildReminded, Requests, Waits
  <2>3. OperationReminded'
    BY <1>2, <1>3, <1>4, <2>1 DEF CInv, OperationReminded
  <2>4. said'["ready"] = said["ready"] /\ said'["operation_start"] = said["operation_start"]
        /\ said'["operation_ok"] = said["operation_ok"]
    BY <1>4 DEF counts
  <2>5. /\ said["operation_ok"] = 0 /\ said["operation_failed"] = 0 /\ misread = "no"
        /\ pc # "operation" => ~(said["operation_start"] > 0)
    BY <1>2 DEF CInv, Told, Requests
  <2>6. ReadyIsTrue'
    BY <1>2, <2>4 DEF CInv, Told, ReadyIsTrue
  <2>7. OutcomeIsTold'
    BY <1>2, <1>3, <1>4, <2>1, <2>4, <2>5 DEF OutcomeIsTold
  <2>8. QED
    BY <2>1, <2>2, <2>3, <2>6, <2>7 DEF CInv, Told
<1>7. QED
  BY <1>5, <1>6

\* The client alone moves: it repeats a request, refuses it or ends a wait.
LEMMA ClientKeepsCInv ==
  ASSUME IInv, CInv, Retry \/ RefusedByClient \/ WaitEnds
  PROVE  CInv'
<1>1. UNCHANGED <<rebuildTicker, operationTicker, said, command, platform, skipEnsure,
                  triggered, ensured, misread>>
  BY DEF Retry, RefusedByClient, WaitEnds, display, vars, flags
<1>2. CASE Retry
  <2>1. pc \in Requests /\ call = "open" /\ call' = "again" /\ UNCHANGED <<pc, outcome>>
    BY <1>2 DEF Retry
  <2>2. CommandTypes' /\ RebuildReminded' /\ OperationReminded'
    BY <1>1, <2>1
    DEF CInv, CommandTypes, RebuildReminded, OperationReminded, Requests, Waits
  <2>3. Told'
    BY <1>1, <2>1 DEF CInv, Told, ReadyIsTrue, OutcomeIsTold
  <2>4. QED
    BY <2>2, <2>3 DEF CInv
<1>3. CASE RefusedByClient
  <2>1. /\ pc \in Requests \ {"trigger"} /\ call = "idle" /\ call' = "idle"
        /\ pc' = "returned" /\ outcome' = "failed"
    BY <1>3 DEF RefusedByClient, Return
  <2>2. CommandTypes' /\ RebuildReminded' /\ OperationReminded'
    BY <1>1, <2>1
    DEF CInv, CommandTypes, RebuildReminded, OperationReminded, Requests, Waits
  <2>3. ~(said["operation_start"] > 0)
    BY <2>1 DEF CInv, Told, Requests
  <2>4. Told'
    BY <1>1, <2>1, <2>3 DEF CInv, Told, ReadyIsTrue, OutcomeIsTold
  <2>5. QED
    BY <2>2, <2>4 DEF CInv
<1>4. CASE WaitEnds
  <2>1. /\ \/ pc = "probe_wait" /\ pc' = "probe"
           \/ pc = "processing_wait" /\ pc' = "operation"
        /\ call' = "again" /\ UNCHANGED outcome
    BY <1>4 DEF WaitEnds
  <2>2. CommandTypes' /\ RebuildReminded' /\ OperationReminded'
    BY <1>1, <2>1
    DEF CInv, CommandTypes, RebuildReminded, OperationReminded, Requests, Waits
  <2>3. Told'
    BY <1>1, <2>1 DEF CInv, Told, ReadyIsTrue, OutcomeIsTold
  <2>4. QED
    BY <2>2, <2>3 DEF CInv
<1>5. QED
  BY <1>2, <1>3, <1>4

\* The invariant of the commands holds in every state.
THEOREM CommandInvariantHolds == CommandSpec => []CInv
<1>1. CommandInit => CInv
  <2> SUFFICES ASSUME CommandInit PROVE CInv
    OBVIOUS
  <2>1. said["ready"] = 0 /\ said["operation_start"] = 0
        /\ said["operation_ok"] = 0 /\ said["operation_failed"] = 0
    BY CountedLines DEF CommandInit, Init
  <2>2. Told
    BY <2>1 DEF CommandInit, Told, ReadyIsTrue, OutcomeIsTold
  <2>3. CommandTypes /\ RebuildReminded /\ OperationReminded
    BY DEF CommandInit, Init, CommandTypes, RebuildReminded, OperationReminded, Requests,
           Waits
  <2>4. QED
    BY <2>2, <2>3 DEF CInv
<1>2. IInv /\ CInv /\ [CommandNext]_commandVars => CInv'
  <2> SUFFICES ASSUME IInv, CInv, [CommandNext]_commandVars PROVE CInv'
    OBVIOUS
  <2>1. CASE StartAttempt
    BY <2>1, StartKeepsCInv
  <2>2. CASE Resolved \/ Selected \/ ProbedReadable \/ ProbedOtherwise \/ Rebuilding
    BY <2>2, ReplyKeepsCInv
  <2>3. CASE Delivered
    BY <2>3, DeliveredKeepsCInv
  <2>4. CASE Failed
    BY <2>4, FailedKeepsCInv
  <2>5. CASE Retry \/ RefusedByClient \/ WaitEnds
    BY <2>5, ClientKeepsCInv
  <2>6. CASE Exit
    <3>1. /\ pc = "returned" /\ pc' = "exited" /\ rebuildTicker' = 0 /\ operationTicker' = 0
          /\ UNCHANGED <<said, command, platform, skipEnsure, call, triggered, ensured,
                         misread, outcome>>
      BY <2>6 DEF Exit, Close, flags
    <3>2. CommandTypes' /\ RebuildReminded' /\ OperationReminded'
      BY <3>1
      DEF CInv, CommandTypes, RebuildReminded, OperationReminded, Requests, Waits
    <3>3. Told'
      BY <3>1 DEF CInv, Told, ReadyIsTrue, OutcomeIsTold
    <3>4. QED
      BY <3>2, <3>3 DEF CInv
  <2>7. ASSUME UNCHANGED <<rebuildTicker, operationTicker, said, flags, pc, call, triggered,
                           ensured, misread, outcome>>
        PROVE  CInv'
    BY <2>7 DEF flags, CInv, CommandTypes, RebuildReminded, OperationReminded, Told,
                ReadyIsTrue, OutcomeIsTold
  <2>8. ASSUME NEW g \in 1 .. MaxTickers, CommandReminds(g) \/ ReminderEnds(g) PROVE CInv'
    BY <2>7, <2>8 DEF CommandReminds, ReminderEnds, Remind, SeeStop, vars
  <2>9. CASE CommandFinished \/ UNCHANGED commandVars
    BY <2>7, <2>9 DEF CommandFinished, commandVars, display, vars
  <2>10. QED
    BY <2>1, <2>2, <2>3, <2>4, <2>5, <2>6, <2>8, <2>9 DEF CommandNext
<1>3. QED
  BY <1>1, <1>2, CommandsKeepProgress, PTL DEF CommandSpec

\* "bundle ready" is printed only after a rebuild was acknowledged and the bundle
\* found readable.
THEOREM ReadyIsAlwaysTrue == CommandSpec => []ReadyIsTrue
  BY CommandInvariantHolds, PTL DEF CInv, Told

\* Whoever waits for a rebuild or for the log's processing is reminded of it, and
\* never of both.
THEOREM WaitsAreAlwaysReminded == CommandSpec => []WaitsAreReminded
<1>1. CInv => WaitsAreReminded
  BY DEF CInv, RebuildReminded, OperationReminded, WaitsAreReminded
<1>2. QED
  BY <1>1, CommandInvariantHolds, PTL

\* What is printed of the operation agrees with what the call returns, whatever
\* was retried and waited for on the way.
THEOREM OutcomeIsAlwaysTold == CommandSpec => []OutcomeIsTold
  BY CommandInvariantHolds, PTL DEF CInv, Told

\* No command leaks a reminder or closes its channel twice.
THEOREM CommandsLeakNoReminder == CommandSpec => []TickersMatchGoroutines
  BY CommandsKeepProgress, PTL DEF IInv, TInv
===============================================================================
