-------------------------------- MODULE Progress --------------------------------
(***************************************************************************)
(* collectedDataProgress (src/internal/cli/progress.go): the request hooks *)
(* that tell a terminal user what a long command is waiting for, and the   *)
(* reminder goroutines they start and stop.                                *)
(*                                                                         *)
(* The hooks and Close are called by one goroutine, the command's; each is *)
(* one action.  The reminders run concurrently with it.  A channel and the *)
(* goroutine that listens to it share a number, given out in order.        *)
(***************************************************************************)
EXTENDS Integers

CONSTANT MaxTickers   \* bound: how many reminder goroutines may be started

ASSUME MaxTickersAssumption == MaxTickers \in Nat

VARIABLES
  printed,          \* the printed... flags that are set
  rebuildTicker,    \* channel of the rebuild reminder, 0 for nil
  operationTicker,  \* channel of the operation reminder, 0 for nil
  spawned,          \* number of reminder goroutines started so far
  stopped,          \* the channels that were closed
  running,          \* the reminder goroutines that have not returned
  said,             \* history: how often each line was printed, up to 2
  closed            \* Close has run

tickers == <<rebuildTicker, operationTicker, spawned, stopped, running>>
vars == <<printed, rebuildTicker, operationTicker, spawned, stopped, running, said,
          closed>>

\* The hook matches an endpoint's end; "operation" is the one of the command.
Endpoints == {"data", "data_status", "rebuild", "operation", "other"}

\* The lines a flag keeps from being printed again, and those about the
\* operation.  The reminders and the other lines are not recorded.
OnceLines == {"select", "status", "rebuild_trigger", "rebuilding", "operation_start"}
Lines == OnceLines \cup
  {"ready", "operation_ok", "operation_failed"}

Ticker == 0 .. MaxTickers

TypeOK ==
  /\ printed \in SUBSET OnceLines
  /\ rebuildTicker \in Ticker
  /\ operationTicker \in Ticker
  /\ spawned \in Ticker
  /\ stopped \in SUBSET (1 .. spawned)
  /\ running \in SUBSET (1 .. spawned)
  /\ said \in [Lines -> 0 .. 2]
  /\ closed \in BOOLEAN

Init ==
  /\ printed = {}
  /\ rebuildTicker = 0
  /\ operationTicker = 0
  /\ spawned = 0
  /\ stopped = {}
  /\ running = {}
  /\ said = [l \in Lines |-> 0]
  /\ closed = FALSE

-------------------------------------------------------------------------------
Say(lines) ==
  said' = [l \in Lines |-> IF l \in lines /\ said[l] < 2 THEN said[l] + 1 ELSE said[l]]

\* The lines that are not kept back by their flag.
Fresh(line) == IF line \in printed THEN {} ELSE {line}

SayOnce(line, others) ==
  /\ printed' = printed \cup {line}
  /\ Say(Fresh(line) \cup others)

\* Closing a channel, nil excepted: the goroutine will see it and return.
Closing(channels) == stopped' = stopped \cup (channels \ {0})

\* A goroutine is started on a new channel.
Spawn ==
  /\ spawned < MaxTickers
  /\ spawned' = spawned + 1
  /\ running' = running \cup {spawned + 1}

\* startRebuildTicker: nothing to do while one is active.
StartRebuildTicker ==
  \/ rebuildTicker # 0 /\ UNCHANGED tickers
  \/ /\ rebuildTicker = 0
     /\ Spawn
     /\ rebuildTicker' = spawned + 1
     /\ UNCHANGED <<operationTicker, stopped>>

\* Mutant: the channel is closed and the ticker kept.
StopRebuildTickerKept ==
  /\ Closing({rebuildTicker})
  /\ UNCHANGED <<rebuildTicker, operationTicker, spawned, running>>

StopRebuildTicker ==
  /\ Closing({rebuildTicker})
  /\ rebuildTicker' = 0
  /\ UNCHANGED <<operationTicker, spawned, running>>

StopOperationTicker ==
  /\ Closing({operationTicker})
  /\ operationTicker' = 0
  /\ UNCHANGED <<rebuildTicker, spawned, running>>

\* The operation starts: stopRebuildTicker, then startOperationTicker.
SwitchTickers ==
  /\ Closing({rebuildTicker})
  /\ rebuildTicker' = 0
  /\ \/ operationTicker # 0 /\ UNCHANGED <<operationTicker, spawned, running>>
     \/ operationTicker = 0 /\ Spawn /\ operationTicker' = spawned + 1

-------------------------------------------------------------------------------
\* onRequestStart.
OnRequestStart(endpoint) ==
  /\ ~closed
  /\ \/ endpoint = "data" /\ SayOnce("select", {}) /\ UNCHANGED tickers
     \/ endpoint = "data_status" /\ SayOnce("status", {}) /\ UNCHANGED tickers
     \/ endpoint = "rebuild" /\ SayOnce("rebuild_trigger", {}) /\ UNCHANGED tickers
     \/ /\ endpoint = "operation"
        /\ SayOnce("operation_start", IF rebuildTicker # 0 THEN {"ready"} ELSE {})
        /\ SwitchTickers
     \/ endpoint = "other" /\ UNCHANGED <<printed, tickers, said>>
  /\ UNCHANGED closed

\* onRequestDone.
OnRequestDone(endpoint) ==
  /\ ~closed
  /\ \/ endpoint = "rebuild" /\ StartRebuildTicker /\ UNCHANGED said
     \/ endpoint = "operation" /\ Say({"operation_ok"}) /\ StopOperationTicker
     \/ endpoint \notin {"rebuild", "operation"} /\ UNCHANGED <<tickers, said>>
  /\ UNCHANGED <<printed, closed>>

\* Mutant: every failure of the operation ends its reminder.
OnRequestErrorStops(endpoint, processing) ==
  /\ ~closed
  /\ \/ endpoint = "operation" /\ Say({"operation_failed"}) /\ StopOperationTicker
     \/ endpoint \in {"rebuild", "data_status"} /\ UNCHANGED said /\ StopRebuildTicker
     \/ endpoint \in {"data", "other"} /\ UNCHANGED <<tickers, said>>
  /\ UNCHANGED <<printed, closed>>

\* onRequestError; processing is isSlowQueryProcessingFailure of the error.
OnRequestError(endpoint, processing) ==
  /\ ~closed
  /\ \/ /\ endpoint = "operation" /\ processing
        /\ SayOnce("rebuilding", {})
        /\ UNCHANGED tickers
     \/ /\ endpoint = "operation" /\ ~processing
        /\ Say({"operation_failed"})
        /\ StopOperationTicker
        /\ UNCHANGED printed
     \/ /\ endpoint \in {"rebuild", "data_status"}
        /\ StopRebuildTicker
        /\ UNCHANGED <<printed, said>>
     \/ endpoint \in {"data", "other"} /\ UNCHANGED <<tickers, printed, said>>
  /\ UNCHANGED closed

\* Mutant: only the reminder of the rebuild is stopped.
CloseRebuildOnly ==
  /\ ~closed
  /\ StopRebuildTicker
  /\ closed' = TRUE
  /\ UNCHANGED <<printed, said>>

\* Close, deferred by the command.
Close ==
  /\ ~closed
  /\ Closing({rebuildTicker, operationTicker})
  /\ rebuildTicker' = 0
  /\ operationTicker' = 0
  /\ closed' = TRUE
  /\ UNCHANGED <<printed, spawned, running, said>>

\* runTicker: the interval is over and a reminder is printed, which changes
\* nothing.  The select may choose this branch although the channel is closed.
Remind(g) ==
  /\ g \in running
  /\ UNCHANGED vars

\* runTicker: the channel is closed, the goroutine returns.
SeeStop(g) ==
  /\ g \in running
  /\ g \in stopped
  /\ running' = running \ {g}
  /\ UNCHANGED <<printed, rebuildTicker, operationTicker, spawned, stopped, said, closed>>

\* The command is over and every reminder has ended.
Finished ==
  /\ closed /\ running = {}
  /\ UNCHANGED vars

Hooks ==
  \E endpoint \in Endpoints :
    \/ OnRequestStart(endpoint)
    \/ OnRequestDone(endpoint)
    \/ \E processing \in BOOLEAN : OnRequestError(endpoint, processing)

Reminders == \E g \in 1 .. MaxTickers : Remind(g) \/ SeeStop(g)

Next == Hooks \/ Close \/ Reminders \/ Finished

Spec == Init /\ [][Next]_vars

-------------------------------------------------------------------------------
\* Whatever hooks are called in whatever order, the reminders that were not
\* told to stop are exactly those the tickers can still stop: none is leaked by
\* a second start, and no channel is closed twice, which would panic.
TickersMatchGoroutines == running \ stopped = {rebuildTicker, operationTicker} \ {0}

\* progress_test.go expects the trigger line once: a retried request, which
\* calls its hook again, repeats none of the lines that mark a stage.
StageLinesOnce == \A l \in OnceLines : said[l] <= 1
===============================================================================
