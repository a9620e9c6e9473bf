---------------------------- MODULE CollectedCommand ----------------------------
(***************************************************************************)
(* The commands that work on a collected bundle, "op-pkgs download" and    *)
(* "slowquery" (runSlowQuery and runCollectedDataDownload in               *)
(* src/internal/cli/runner.go), with the client calls they make            *)
(* (src/internal/clinic) and the progress display on their request hooks:  *)
(* resolve the cluster, list and select the bundle, wait until it is       *)
(* readable, download or query it, and query again while the backend says  *)
(* that "the log is processing".                                           *)
(*                                                                         *)
(* The module extends Progress: an action here is one of the client, with  *)
(* the hook it calls, if any, as a conjunct.                               *)
(*                                                                         *)
(* Each request is a call of the transport, seen through its hooks: started*)
(* once per attempt, then retried, done or failed (Transport's             *)
(* HookLifecycle).  The commands run on context.Background(), so that no   *)
(* backoff is aborted and no wait is cut short.                            *)
(***************************************************************************)
EXTENDS Progress

VARIABLES
  command,      \* "download" or "slowquery"
  platform,     \* target.Platform: "op" or "cloud"
  skipEnsure,   \* isCloudSlowQueryContext: the routing org type says cloud
  pc,           \* the request or the wait under way
  call,         \* the request: "idle", "open" (under way) or "again" (to be repeated)
  triggered,    \* triggeredRebuild
  ensured,      \* history: EnsureCatalogDataReadable returned nil
  misread,      \* history: why a failure of the operation was not printed
  outcome       \* what the client call returned

display == vars   \* those of Progress
flags == <<command, platform, skipEnsure>>
commandVars == <<display, flags, pc, call, triggered, ensured, misread, outcome>>

Requests == {"resolve", "list", "probe", "trigger", "operation"}
Waits == {"probe_wait", "processing_wait"}

CommandInit ==
  /\ Init
  /\ command \in {"download", "slowquery"}
  /\ platform \in {"op", "cloud"}
  /\ skipEnsure \in BOOLEAN
  /\ skipEnsure => command = "slowquery"
  /\ pc = "resolve"
  /\ call = "idle"
  /\ triggered = FALSE
  /\ ensured = FALSE
  /\ misread = "no"
  /\ outcome = "none"

-------------------------------------------------------------------------------
\* The endpoint of the request under way, as the hooks tell endpoints apart.
\* The slow queries of a cloud cluster have one that no hook matches.
Endpoint ==
  CASE pc = "resolve" -> "other"
    [] pc = "list" -> "data"
    [] pc = "probe" -> "data_status"
    [] pc = "trigger" -> "rebuild"
    [] pc = "operation" -> IF platform = "op" THEN "operation" ELSE "other"

\* The client goes on with the request or the wait named next.
GoTo(next) ==
  /\ pc' = next
  /\ call' = "idle"
  /\ UNCHANGED outcome

\* The client call returns.
Return(how) ==
  /\ pc' = "returned"
  /\ call' = "idle"
  /\ outcome' = how

\* An attempt of a request starts.
StartAttempt ==
  /\ pc \in Requests
  /\ call \in {"idle", "again"}
  /\ OnRequestStart(Endpoint)
  /\ call' = "open"
  /\ UNCHANGED <<flags, pc, triggered, ensured, misread, outcome>>

\* It fails in a way that is retried: OnRetry is not hooked.
Retry ==
  /\ pc \in Requests
  /\ call = "open"
  /\ call' = "again"
  /\ UNCHANGED <<display, flags, pc, triggered, ensured, misread, outcome>>

\* A 2xx reply: the hook first, then what the client makes of the body.
Done ==
  /\ call = "open"
  /\ OnRequestDone(Endpoint)

\* ResolveCluster, then the command's way on.  Collected data needs an OP
\* cluster; a cloud cluster's slow queries go to its own endpoint.
Resolved ==
  /\ pc = "resolve"
  /\ Done
  /\ \/ platform = "op" /\ GoTo("list")
     \/ platform = "cloud" /\ command = "slowquery" /\ GoTo("operation")
     \/ platform = "cloud" /\ command = "download" /\ Return("failed")
     \/ Return("failed")
  /\ UNCHANGED <<flags, triggered, ensured, misread>>

\* ListCatalogData and selectCatalogItem: no item suits, or one does.
Selected ==
  /\ pc = "list"
  /\ Done
  /\ \/ skipEnsure /\ GoTo("operation")
     \/ ~skipEnsure /\ GoTo("probe")
     \/ Return("failed")
  /\ UNCHANGED <<flags, triggered, ensured, misread>>

\* A probe of EnsureCatalogDataReadable (see CatalogReadiness).
ProbedReadable ==
  /\ pc = "probe"
  /\ Done
  /\ GoTo("operation")
  /\ ensured' = TRUE
  /\ UNCHANGED <<flags, triggered, misread>>

\* Mutant: a bundle without a status record is taken for readable.
ProbedOtherwiseProceeds ==
  /\ pc = "probe"
  /\ Done
  /\ \/ ~triggered /\ GoTo("trigger")
     \/ GoTo("probe_wait")
     \/ GoTo("operation")
  /\ UNCHANGED <<flags, triggered, ensured, misread>>

ProbedOtherwise ==
  /\ pc = "probe"
  /\ Done
  /\ \/ ~triggered /\ GoTo("trigger")
     \/ GoTo("probe_wait")
     \/ Return("failed")
  /\ UNCHANGED <<flags, triggered, ensured, misread>>

Rebuilding ==
  /\ pc = "trigger"
  /\ Done
  /\ GoTo("probe_wait")
  /\ triggered' = TRUE
  /\ UNCHANGED <<flags, ensured, misread>>

\* The bundle or the slow queries arrive.  A download is not decoded.
Delivered ==
  /\ pc = "operation"
  /\ Done
  /\ \/ Return("ok") /\ UNCHANGED misread
     \/ command = "slowquery" /\ Return("failed") /\ misread' = "undecodable"
  /\ UNCHANGED <<flags, triggered, ensured>>

\* The loop of QuerySlowQueries and its siblings (isSlowQueryProcessingError):
\* the text and the class must fit.
RetriesProcessing(processing, invalid) ==
  command = "slowquery" /\ processing /\ invalid

\* The request fails for good.  processing: its error has the text "the log is
\* processing"; invalid: its class is ErrInvalidRequest.
Failed ==
  /\ pc \in Requests
  /\ call = "open"
  /\ \E processing, invalid \in BOOLEAN :
       /\ OnRequestError(Endpoint, processing)
       /\ IF pc = "operation" /\ RetriesProcessing(processing, invalid)
          THEN GoTo("processing_wait") /\ UNCHANGED misread
          ELSE /\ Return("failed")
               /\ misread' = IF pc = "operation" /\ processing THEN "processing"
                             ELSE misread
  /\ UNCHANGED <<flags, triggered, ensured>>

\* A client-side check fails and no request is made: the request context, the
\* item's time range or its id is unusable.  A rebuild request is not refused,
\* nor is one that is repeated.
RefusedByClient ==
  /\ pc \in Requests \ {"trigger"}
  /\ call = "idle"
  /\ Return("failed")
  /\ UNCHANGED <<display, flags, triggered, ensured, misread>>

\* The probe interval is over: the request is repeated.
WaitEnds ==
  /\ \/ pc = "probe_wait" /\ pc' = "probe"
     \/ pc = "processing_wait" /\ pc' = "operation"
  /\ call' = "again"
  /\ UNCHANGED <<display, flags, triggered, ensured, misread, outcome>>

\* The command returns and its deferred Close runs.
Exit ==
  /\ pc = "returned"
  /\ Close
  /\ pc' = "exited"
  /\ UNCHANGED <<flags, call, triggered, ensured, misread, outcome>>

\* The reminder goroutines.
CommandReminds(g) ==
  /\ Remind(g)
  /\ UNCHANGED <<flags, pc, call, triggered, ensured, misread, outcome>>

ReminderEnds(g) ==
  /\ SeeStop(g)
  /\ UNCHANGED <<flags, pc, call, triggered, ensured, misread, outcome>>

CommandFinished ==
  /\ pc = "exited" /\ running = {}
  /\ UNCHANGED commandVars

CommandNext ==
  \/ StartAttempt
  \/ Retry
  \/ Resolved
  \/ Selected
  \/ ProbedReadable
  \/ ProbedOtherwise
  \/ Rebuilding
  \/ Delivered
  \/ Failed
  \/ RefusedByClient
  \/ WaitEnds
  \/ Exit
  \/ \E g \in 1 .. MaxTickers : CommandReminds(g) \/ ReminderEnds(g)
  \/ CommandFinished

CommandSpec == CommandInit /\ [][CommandNext]_commandVars

\* A command that returned goes on to exit; a closed channel stays ready, and
\* select chooses fairly among the cases that are ready.
FairSpec ==
  /\ CommandSpec
  /\ WF_commandVars(Exit)
  /\ \A g \in 1 .. MaxTickers : WF_commandVars(ReminderEnds(g))

-------------------------------------------------------------------------------
\* "bundle ready" is printed only after a rebuild was acknowledged and the
\* bundle found readable, never because an error ended the wait.
ReadyIsTrue == said["ready"] > 0 => triggered /\ ensured

\* A user is reminded of what is being waited for: of the rebuild from the
\* moment it was asked for, of the query while the log is processed (tested by
\* progress_test.go), and never of both.
WaitsAreReminded ==
  /\ pc = "probe_wait" /\ triggered => rebuildTicker # 0
  /\ pc = "processing_wait" /\ platform = "op" => operationTicker # 0
  /\ rebuildTicker = 0 \/ operationTicker = 0

\* What is printed last of the operation agrees with what the call returns,
\* with two exceptions: a reply that cannot be decoded is announced as a
\* success, and an error with the text "the log is processing" that the client
\* does not wait for is not announced at all.
OutcomeIsTold ==
  platform = "op" /\ pc = "returned" /\ said["operation_start"] > 0 =>
    /\ outcome = "ok" => said["operation_ok"] = 1 /\ said["operation_failed"] = 0
    /\ outcome = "failed" /\ misread = "no" =>
         said["operation_ok"] = 0 /\ said["operation_failed"] = 1

\* No reminder outlives the command.
CommandGoesQuiet == pc = "returned" ~> running = {}
===============================================================================
