------------------------------- MODULE Transport -------------------------------
(***************************************************************************)
(* One logical call of the Clinic API: transport.doBytes and doJSON in     *)
(* src/internal/clinicapi/transport.go.  The caller's goroutine runs the   *)
(* retry loop; the network and the backend may delay, lose or serve every  *)
(* copy of the request, also after the caller has given up on it; the      *)
(* caller's context may be cancelled or expire at any moment.              *)
(*                                                                         *)
(* There is no client-side timeout: NewClientWithConfig never hands        *)
(* Config.Timeout to the http.Client, so that a sent request ends only by  *)
(* a reply, a network error or the context.                                *)
(***************************************************************************)
EXTENDS Integers

CONSTANTS
  RetryMax,    \* Config.RetryMax after MergeConfig and Valid
  Statuses     \* the HTTP statuses the backend may answer with

ASSUME RetryMaxAssumption == RetryMax \in Nat
ASSUME StatusesAssumption == Statuses \subseteq 100 .. 599

\* attempts := t.retryMax + 1 (Valid refuses a negative retryMax).
Attempts == RetryMax + 1
Attempt == 1 .. Attempts

Success(s) == s \in 200 .. 299

\* The bodies doJSON tells apart, and what decoding each one returns.
Bodies == {"json", "empty", "html", "login", "garbage"}

\* Mutant: HTML and undecodable bodies are taken for a result.
DecodeOutcomeUnchecked(body) == "ok"

DecodeOutcome(body) ==
  CASE body \in {"json", "empty"} -> "ok"
    [] body = "login"             -> "auth"
    [] body = "html"              -> "backend"
    [] body = "garbage"           -> "decode"

\* The body matters only with a 2xx status: the text of an error is wording.
Replies ==
  [status : {s \in Statuses : Success(s)}, body : Bodies] \cup
  [status : {s \in Statuses : ~Success(s)}, body : {"empty"}]
NoReply == [status |-> 0, body |-> "empty"]

-------------------------------------------------------------------------------
\* The errors of one attempt: class, whether a retry may help, HTTP status.
Classes == {"auth", "not_found", "rate_limit", "timeout", "invalid_request",
            "transient", "backend"}
Errors == [class : Classes, retryable : BOOLEAN, status : 0 .. 599]
NoError == [class |-> "none", retryable |-> FALSE, status |-> 0]

\* classifyHTTPError.
HTTPClass(s) ==
  CASE s \in {401, 403} -> "auth"
    [] s = 404          -> "not_found"
    [] s = 429          -> "rate_limit"
    [] s = 408          -> "timeout"
    [] s >= 500         -> "transient"
    [] s \in 400 .. 499 \ {401, 403, 404, 408, 429} -> "invalid_request"
    [] s < 400          -> "backend"

HTTPRetryable(s) == s \in {408, 429} \/ s >= 500

HTTPError(s) == [class |-> HTTPClass(s), retryable |-> HTTPRetryable(s), status |-> s]

\* buildRequest: the AuthProvider fails, or the URL or method is unusable.
BuildError(c) == [class |-> c, retryable |-> FALSE, status |-> 0]

\* classifyTransportError: the context, a network timeout, any other failure.
ContextError == [class |-> "timeout", retryable |-> TRUE, status |-> 0]
NetworkError(c) == [class |-> c, retryable |-> TRUE, status |-> 0]

\* io.ReadAll fails after the headers arrived.
ReadError(s) == [class |-> "transient", retryable |-> TRUE, status |-> s]

-------------------------------------------------------------------------------
VARIABLES
  pc,        \* where the caller's goroutine is
  attempt,   \* number of attempts started
  ctx,       \* the caller's context
  decodes,   \* TRUE iff the call decodes its body: doJSON with a non-nil out
  wire,      \* per attempt: where its copy of the request is
  reply,     \* per attempt: what the backend answered
  err,       \* per attempt: how it failed
  hook,      \* per attempt: the last lifecycle hook called for it
  result     \* what the call returned

vars == <<pc, attempt, ctx, decodes, wire, reply, err, hook, result>>

PCs == {"head", "build", "sent", "backoff", "returned"}
WireStates == {"unsent", "transit", "lost", "served"}
HookStates == {"none", "start", "retry", "done", "error"}
Results == {"none", "ok", "raw_context_error", "decode"} \cup Classes

TypeOK ==
  /\ pc \in PCs
  /\ attempt \in 0 .. Attempts
  /\ ctx \in {"live", "deadline", "cancelled"}
  /\ decodes \in BOOLEAN
  /\ wire \in [Attempt -> WireStates]
  /\ reply \in [Attempt -> Replies \cup {NoReply}]
  /\ err \in [Attempt -> Errors \cup {NoError}]
  /\ hook \in [Attempt -> HookStates]
  /\ result \in Results

Init ==
  /\ pc = "head"
  /\ attempt = 0
  /\ ctx = "live"
  /\ decodes \in BOOLEAN
  /\ wire = [a \in Attempt |-> "unsent"]
  /\ reply = [a \in Attempt |-> NoReply]
  /\ err = [a \in Attempt |-> NoError]
  /\ hook = [a \in Attempt |-> "none"]
  /\ result = "none"

-------------------------------------------------------------------------------
\* The loop head: logStart, and doOnce begins.
StartAttempt ==
  /\ pc = "head"
  /\ attempt < Attempts
  /\ attempt' = attempt + 1
  /\ hook' = [hook EXCEPT ![attempt + 1] = "start"]
  /\ pc' = "build"
  /\ UNCHANGED <<ctx, decodes, wire, reply, err, result>>

\* Mutant: giving up calls no hook.
FailSilently(e) ==
  /\ err' = [err EXCEPT ![attempt] = e]
  /\ \/ /\ e.retryable /\ attempt < Attempts
        /\ hook' = [hook EXCEPT ![attempt] = "retry"]
        /\ pc' = "backoff"
        /\ UNCHANGED result
     \/ /\ ~e.retryable \/ attempt = Attempts
        /\ pc' = "returned"
        /\ result' = e.class
        /\ UNCHANGED hook

\* doOnce returned the error e: retry after a backoff, or give up.
Fail(e) ==
  /\ err' = [err EXCEPT ![attempt] = e]
  /\ \/ /\ e.retryable /\ attempt < Attempts
        /\ hook' = [hook EXCEPT ![attempt] = "retry"]
        /\ pc' = "backoff"
        /\ UNCHANGED result
     \/ /\ ~e.retryable \/ attempt = Attempts
        /\ hook' = [hook EXCEPT ![attempt] = "error"]
        /\ pc' = "returned"
        /\ result' = e.class

\* buildRequest fails; nothing was sent.
BuildFails ==
  /\ pc = "build"
  /\ \E c \in {"auth", "invalid_request"} : Fail(BuildError(c))
  /\ UNCHANGED <<attempt, ctx, decodes, wire, reply>>

\* httpClient.Do: net/http writes nothing once the context is done.
Send ==
  /\ pc = "build"
  /\ wire' = [wire EXCEPT ![attempt] = IF ctx = "live" THEN "transit" ELSE "unsent"]
  /\ pc' = "sent"
  /\ UNCHANGED <<attempt, ctx, decodes, reply, err, hook, result>>

\* The reply of the current attempt arrives while its caller waits for it.
Receive ==
  /\ pc = "sent"
  /\ wire[attempt] = "served"
  /\ LET r == reply[attempt] IN
       \/ /\ Success(r.status)
          /\ hook' = [hook EXCEPT ![attempt] = "done"]
          /\ result' = IF decodes THEN DecodeOutcome(r.body) ELSE "ok"
          /\ pc' = "returned"
          /\ UNCHANGED err
       \/ /\ ~Success(r.status)
          /\ Fail(HTTPError(r.status))
  /\ UNCHANGED <<attempt, ctx, decodes, wire, reply>>

\* The headers arrive but the body breaks off.
ReadFails ==
  /\ pc = "sent"
  /\ wire[attempt] = "served"
  /\ Fail(ReadError(reply[attempt].status))
  /\ UNCHANGED <<attempt, ctx, decodes, wire, reply>>

\* The connection fails; the copy may be lost, under way or served.
NetworkFails ==
  /\ pc = "sent"
  /\ \E c \in {"timeout", "transient"} : Fail(NetworkError(c))
  /\ UNCHANGED <<attempt, ctx, decodes, wire, reply>>

\* Mutant: the http client does not watch the context.
ContextFailsNever ==
  /\ FALSE
  /\ UNCHANGED vars

\* Do returns because the context is done; classified as retryable.
ContextFails ==
  /\ pc = "sent"
  /\ ctx # "live"
  /\ Fail(ContextError)
  /\ UNCHANGED <<attempt, ctx, decodes, wire, reply>>

\* sleepWithJitter: the timer fires.  MergeConfig replaces a zero backoff, so
\* that there is a wait; with the context done as well either branch may win.
Resume ==
  /\ pc = "backoff"
  /\ pc' = "head"
  /\ UNCHANGED <<attempt, ctx, decodes, wire, reply, err, hook, result>>

\* Mutant: an aborted backoff is reported as success.
AbortBackoffOk ==
  /\ pc = "backoff"
  /\ ctx # "live"
  /\ pc' = "returned"
  /\ result' = "ok"
  /\ UNCHANGED <<attempt, ctx, decodes, wire, reply, err, hook>>

\* sleepWithJitter: the context wins.  doBytes returns ctx.Err() as it is and
\* calls no further hook.
AbortBackoff ==
  /\ pc = "backoff"
  /\ ctx # "live"
  /\ pc' = "returned"
  /\ result' = "raw_context_error"
  /\ UNCHANGED <<attempt, ctx, decodes, wire, reply, err, hook>>

-------------------------------------------------------------------------------
\* The environment: the caller's context, the network and the backend.
ContextEnds ==
  /\ ctx = "live"
  /\ ctx' \in {"deadline", "cancelled"}
  /\ UNCHANGED <<pc, attempt, decodes, wire, reply, err, hook, result>>

Lose(a) ==
  /\ wire[a] = "transit"
  /\ wire' = [wire EXCEPT ![a] = "lost"]
  /\ UNCHANGED <<pc, attempt, ctx, decodes, reply, err, hook, result>>

Serve(a) ==
  /\ wire[a] = "transit"
  /\ wire' = [wire EXCEPT ![a] = "served"]
  /\ \E r \in Replies : reply' = [reply EXCEPT ![a] = r]
  /\ UNCHANGED <<pc, attempt, ctx, decodes, err, hook, result>>

\* The call is over and every copy of the request has met its fate.
Terminated ==
  /\ pc = "returned"
  /\ \A a \in Attempt : wire[a] # "transit"
  /\ UNCHANGED vars

-------------------------------------------------------------------------------
\* What the caller's goroutine does without waiting for the backend.
Caller ==
  \/ StartAttempt
  \/ BuildFails
  \/ Send
  \/ ContextFails
  \/ Resume
  \/ AbortBackoff

Network ==
  \/ Receive
  \/ ReadFails
  \/ NetworkFails
  \/ \E a \in Attempt : Lose(a) \/ Serve(a)

Next ==
  \/ Caller
  \/ Network
  \/ ContextEnds
  \/ Terminated

Spec == Init /\ [][Next]_vars

\* The Go scheduler runs the goroutine and timers fire; nothing is assumed of
\* the network, because no timeout of the client's own bounds a request.
FairSpec == Spec /\ WF_vars(Caller)

-------------------------------------------------------------------------------
\* The lifecycle a Hooks observer can rely on (OnRequestStart, then exactly
\* one of OnRequestDone, OnRetry, OnError, per attempt): all attempts before
\* the current one ended in a retry, none is open once the call returned, and
\* OnRetry closes the last one only if the backoff was aborted.
HookLifecycle ==
  \A a \in Attempt :
    /\ a < attempt => hook[a] = "retry"
    /\ a > attempt => hook[a] = "none"
    /\ a = attempt =>
         /\ pc \in {"build", "sent"} <=> hook[a] = "start"
         /\ pc \in {"head", "backoff"} => hook[a] = "retry"
         /\ pc = "returned" /\ hook[a] = "retry" <=> result = "raw_context_error"

\* A nil error means that the attempt made last was served, with a 2xx status
\* and, when the caller wants a value, a body that decodes.
OkMeansServed ==
  result = "ok" =>
    /\ attempt > 0
    /\ wire[attempt] = "served"
    /\ Success(reply[attempt].status)
    /\ decodes => reply[attempt].body \in {"json", "empty"}

\* The failures after which nothing definite is known of the request.
PassingTrouble(e) ==
  \/ e.class = "transient"
  \/ e.class \in {"timeout", "rate_limit"} /\ e.status \in {0, 408, 429}

\* A further copy of the request is sent only when nothing definite is known of
\* the copies before it: no verdict of the backend (a status other than 408,
\* 429 and 5xx) and no failure to build the request is ever followed by one.
RetriesOnlyPassingTrouble ==
  \A a \in Attempt : a < attempt => PassingTrouble(err[a])

\* A done context ends the call, whatever the backend and the network do.
ContextBoundsCall == ctx # "live" ~> pc = "returned"

\* The call is what RemoteCall promises.
RC == INSTANCE RemoteCall WITH
        MaxAttempts <- Attempts,
        issued <- attempt,
        served <- {a \in Attempt : wire[a] = "served"},
        outcome <- IF pc # "returned" THEN "pending"
                   ELSE IF result = "ok" THEN "ok" ELSE "failed"

RefinesRemoteCall == RC!Spec
===============================================================================
