---------------------------- MODULE TransportProofs ----------------------------
(***************************************************************************)
(* Theorems about Transport, for every retry budget and every set of HTTP  *)
(* statuses.                                                               *)
(***************************************************************************)
EXTENDS Transport, TLAPS

\* What the retry loop knows at each of its program points.
Control ==
  /\ pc # "head" => attempt > 0
  /\ pc = "head" => attempt < Attempts
  /\ pc = "backoff" => attempt < Attempts
  /\ pc # "returned" <=> result = "none"

\* Failures the loop retries, and those it has retried.
Retried ==
  /\ \A a \in Attempt : err[a].retryable => PassingTrouble(err[a])
  /\ \A a \in Attempt : a < attempt => err[a].retryable
  /\ \A a \in Attempt : a = attempt /\ pc \in {"head", "backoff"} => err[a].retryable

\* Only started attempts have put anything on the wire, and only served ones
\* have a reply.
Wire ==
  /\ \A a \in Attempt : a > attempt => wire[a] = "unsent"
  /\ \A a \in Attempt : a = attempt /\ pc = "build" => wire[a] = "unsent"
  /\ \A a \in Attempt : wire[a] = "served" => reply[a] \in Replies

IInv ==
  /\ TypeOK
  /\ Control
  /\ Retried
  /\ Wire
  /\ HookLifecycle
  /\ OkMeansServed

-------------------------------------------------------------------------------
LEMMA AttemptsType == Attempts \in Nat \ {0} /\ Attempt \subseteq Nat
  BY RetryMaxAssumption DEF Attempts, Attempt

LEMMA RepliesType ==
  ASSUME NEW r \in Replies
  PROVE  r.status \in 100 .. 599
  BY StatusesAssumption DEF Replies

\* classifyHTTPError names a class for every status of a refused request, and
\* marks as retryable only what says nothing definite.
LEMMA HTTPErrorType ==
  ASSUME NEW s \in 100 .. 599
  PROVE  /\ HTTPError(s) \in Errors
         /\ HTTPError(s).class \in Classes
         /\ HTTPError(s).retryable => PassingTrouble(HTTPError(s))
<1>1. HTTPClass(s) \in Classes
  BY DEF HTTPClass, Classes
<1>2. HTTPRetryable(s) \in BOOLEAN
  BY DEF HTTPRetryable
<1>3. HTTPError(s) \in Errors
  BY <1>1, <1>2 DEF HTTPError, Errors
<1>4. HTTPRetryable(s) =>
        \/ HTTPClass(s) = "transient"
        \/ HTTPClass(s) \in {"timeout", "rate_limit"} /\ s \in {408, 429}
  BY DEF HTTPRetryable, HTTPClass
<1>5. HTTPError(s).retryable => PassingTrouble(HTTPError(s))
  BY <1>4 DEF HTTPError, PassingTrouble
<1>6. HTTPError(s).class \in Classes
  BY <1>1 DEF HTTPError
<1>7. QED
  BY <1>3, <1>5, <1>6

\* The other failures of an attempt.
LEMMA OtherErrorsType ==
  /\ \A c \in {"auth", "invalid_request"} :
       BuildError(c) \in Errors /\ ~BuildError(c).retryable
  /\ \A c \in {"timeout", "transient"} :
       NetworkError(c) \in Errors /\ PassingTrouble(NetworkError(c))
  /\ ContextError \in Errors /\ PassingTrouble(ContextError)
  /\ \A s \in 100 .. 599 : ReadError(s) \in Errors /\ PassingTrouble(ReadError(s))
<1>1. \A c \in {"auth", "invalid_request"} :
        BuildError(c) \in Errors /\ ~BuildError(c).retryable
  BY DEF BuildError, Errors, Classes
<1>2. \A c \in {"timeout", "transient"} :
        NetworkError(c) \in Errors /\ PassingTrouble(NetworkError(c))
  BY DEF NetworkError, Errors, Classes, PassingTrouble
<1>3. ContextError \in Errors /\ PassingTrouble(ContextError)
  BY DEF ContextError, Errors, Classes, PassingTrouble
<1>4. \A s \in 100 .. 599 : ReadError(s) \in Errors /\ PassingTrouble(ReadError(s))
  BY DEF ReadError, Errors, Classes, PassingTrouble
<1>5. QED
  BY <1>1, <1>2, <1>3, <1>4

-------------------------------------------------------------------------------
\* However an attempt fails, retrying it or giving up keeps the invariant.
LEMMA FailKeepsIInv ==
  ASSUME IInv, pc \in {"build", "sent"},
         NEW e \in Errors, e.retryable => PassingTrouble(e),
         Fail(e), UNCHANGED <<attempt, ctx, decodes, wire, reply>>
  PROVE  IInv'
<1> USE AttemptsType DEF IInv
<1>a. attempt \in Attempt /\ attempt > 0
  BY DEF TypeOK, Control, Attempt
<1>1. e.class \in Classes /\ e.class \notin {"none", "ok", "raw_context_error", "decode"}
  BY DEF Errors, Classes
<1>b. /\ err' = [err EXCEPT ![attempt] = e]
      /\ \/ /\ e.retryable /\ attempt < Attempts
            /\ hook' = [hook EXCEPT ![attempt] = "retry"]
            /\ pc' = "backoff"
            /\ result' = result
         \/ /\ ~e.retryable \/ attempt = Attempts
            /\ hook' = [hook EXCEPT ![attempt] = "error"]
            /\ pc' = "returned"
            /\ result' = e.class
  BY DEF Fail
<1>2. TypeOK'
  BY <1>a, <1>1, <1>b DEF TypeOK, PCs, HookStates, Results
<1>3. Control'
  BY <1>a, <1>1, <1>b DEF TypeOK, Control
<1>4. Retried'
  BY <1>a, <1>b DEF TypeOK, Retried
<1>5. Wire'
  BY <1>a, <1>b DEF TypeOK, Wire
<1>6. HookLifecycle'
  BY <1>a, <1>1, <1>b DEF TypeOK, HookLifecycle, Control
<1>7. OkMeansServed'
  BY <1>1, <1>b DEF OkMeansServed, Control
<1>8. QED
  BY <1>2, <1>3, <1>4, <1>5, <1>6, <1>7

THEOREM InvariantHolds == Spec => []IInv
<1> USE AttemptsType DEF IInv
<1>1. Init => IInv
  <2> SUFFICES ASSUME Init PROVE IInv
    OBVIOUS
  <2>1. TypeOK
    BY DEF Init, TypeOK, PCs, WireStates, HookStates, Results
  <2>2. Control
    BY DEF Init, Control
  <2>3. Retried /\ Wire
    BY DEF Init, Retried, Wire, NoError, Attempt
  <2>4. HookLifecycle /\ OkMeansServed
    BY DEF Init, HookLifecycle, OkMeansServed, Attempt
  <2>5. QED
    BY <2>1, <2>2, <2>3, <2>4
<1>2. IInv /\ [Next]_vars => IInv'
  <2> SUFFICES ASSUME IInv, [Next]_vars PROVE IInv'
    OBVIOUS
  <2>1. CASE StartAttempt
    <3>1. TypeOK'
      BY <2>1 DEF StartAttempt, TypeOK, PCs, HookStates, Attempt
    <3>2. Control'
      BY <2>1 DEF StartAttempt, TypeOK, Control
    <3>3. Retried'
      BY <2>1 DEF StartAttempt, TypeOK, Retried, Attempt
    <3>4. Wire'
      BY <2>1 DEF StartAttempt, TypeOK, Wire, Attempt
    <3>5. HookLifecycle'
      BY <2>1 DEF StartAttempt, TypeOK, HookLifecycle, Control, Attempt
    <3>6. OkMeansServed'
      BY <2>1 DEF StartAttempt, OkMeansServed, Control
    <3>7. QED
      BY <3>1, <3>2, <3>3, <3>4, <3>5, <3>6
  <2>2. CASE BuildFails
    BY <2>2, OtherErrorsType, FailKeepsIInv DEF BuildFails
  <2>3. CASE Send
    <3>1. TypeOK'
      BY <2>3 DEF Send, TypeOK, PCs, WireStates
    <3>2. Control' /\ Retried'
      BY <2>3 DEF Send, TypeOK, Control, Retried
    <3>3. Wire'
      BY <2>3 DEF Send, TypeOK, Wire
    <3>4. HookLifecycle' /\ OkMeansServed'
      BY <2>3 DEF Send, TypeOK, HookLifecycle, OkMeansServed, Control
    <3>5. QED
      BY <3>1, <3>2, <3>3, <3>4
  <2>4. CASE Receive
    <3> DEFINE r == reply[attempt]
    <3>1. attempt \in Attempt /\ r \in Replies /\ r.status \in 100 .. 599 /\ pc = "sent"
      BY <2>4, RepliesType DEF Receive, TypeOK, Control, Wire, Attempt
    <3>2. CASE ~Success(r.status)
      BY <2>4, <3>1, <3>2, HTTPErrorType, FailKeepsIInv DEF Receive
    <3>3. CASE Success(r.status)
      <4> DEFINE res == IF decodes THEN DecodeOutcome(r.body) ELSE "ok"
      <4>1. /\ hook' = [hook EXCEPT ![attempt] = "done"]
            /\ result' = res
            /\ pc' = "returned"
            /\ UNCHANGED <<attempt, ctx, decodes, wire, reply, err>>
            /\ wire[attempt] = "served"
        BY <2>4, <3>3 DEF Receive
      <4>2. r.body \in Bodies
        BY <3>1 DEF Replies, Bodies
      <4>3. /\ res \in {"ok", "auth", "backend", "decode"}
            /\ res = "ok" /\ decodes => r.body \in {"json", "empty"}
        BY <4>2 DEF DecodeOutcome, Bodies
      <4>4. TypeOK'
        BY <4>1, <4>3 DEF TypeOK, PCs, HookStates, Results, Classes
      <4>5. Control' /\ Retried' /\ Wire'
        BY <3>1, <4>1, <4>3 DEF TypeOK, Control, Retried, Wire
      <4>6. HookLifecycle'
        BY <3>1, <4>1, <4>3 DEF TypeOK, HookLifecycle
      <4>7. OkMeansServed'
        BY <3>1, <3>3, <4>1, <4>3 DEF OkMeansServed, Attempt
      <4>8. QED
        BY <4>4, <4>5, <4>6, <4>7
    <3>4. QED
      BY <3>2, <3>3
  <2>5. CASE ReadFails
    <3>1. reply[attempt].status \in 100 .. 599 /\ pc = "sent"
      BY <2>5, RepliesType DEF ReadFails, TypeOK, Control, Wire, Attempt
    <3>2. QED
      BY <2>5, <3>1, OtherErrorsType, FailKeepsIInv DEF ReadFails
  <2>6. CASE NetworkFails
    BY <2>6, OtherErrorsType, FailKeepsIInv DEF NetworkFails
  <2>7. CASE ContextFails
    BY <2>7, OtherErrorsType, FailKeepsIInv DEF ContextFails
  <2>8. CASE Resume
    <3>1. TypeOK' /\ Control'
      BY <2>8 DEF Resume, TypeOK, Control, PCs
    <3>2. Retried' /\ Wire'
      BY <2>8 DEF Resume, TypeOK, Retried, Wire
    <3>3. HookLifecycle' /\ OkMeansServed'
      BY <2>8 DEF Resume, TypeOK, HookLifecycle, OkMeansServed, Control
    <3>4. QED
      BY <3>1, <3>2, <3>3
  <2>9. CASE AbortBackoff
    <3>1. TypeOK' /\ Control'
      BY <2>9 DEF AbortBackoff, TypeOK, Control, PCs, Results
    <3>2. Retried' /\ Wire'
      BY <2>9 DEF AbortBackoff, TypeOK, Retried, Wire
    <3>3. HookLifecycle' /\ OkMeansServed'
      BY <2>9 DEF AbortBackoff, TypeOK, HookLifecycle, OkMeansServed, Control
    <3>4. QED
      BY <3>1, <3>2, <3>3
  <2>10. CASE ContextEnds
    BY <2>10 DEF ContextEnds, TypeOK, Control, Retried, Wire, HookLifecycle, OkMeansServed
  <2>11. ASSUME NEW a \in Attempt, Lose(a) PROVE IInv'
    <3>1. TypeOK' /\ Control' /\ Retried' /\ HookLifecycle'
      BY <2>11 DEF Lose, TypeOK, Control, Retried, HookLifecycle, WireStates
    <3>2. Wire' /\ OkMeansServed'
      BY <2>11 DEF Lose, TypeOK, Wire, OkMeansServed
    <3>3. QED
      BY <3>1, <3>2
  <2>12. ASSUME NEW a \in Attempt, Serve(a) PROVE IInv'
    <3>1. TypeOK'
      BY <2>12 DEF Serve, TypeOK, WireStates
    <3>2. Control' /\ Retried' /\ HookLifecycle'
      BY <2>12 DEF Serve, TypeOK, Control, Retried, HookLifecycle
    <3>3. Wire' /\ OkMeansServed'
      BY <2>12 DEF Serve, TypeOK, Wire, OkMeansServed
    <3>4. QED
      BY <3>1, <3>2, <3>3
  <2>13. CASE UNCHANGED vars
    BY <2>13 DEF vars, TypeOK, Control, Retried, Wire, HookLifecycle, OkMeansServed
  <2>14. QED
    BY <2>1, <2>2, <2>3, <2>4, <2>5, <2>6, <2>7, <2>8, <2>9, <2>10, <2>11, <2>12, <2>13
       DEF Next, Caller, Network, Terminated
<1>3. QED
  BY <1>1, <1>2, PTL DEF Spec

-------------------------------------------------------------------------------
\* Every variable keeps its type.
THEOREM TypeCorrect == Spec => []TypeOK
<1>1. IInv => TypeOK
  BY DEF IInv
<1>2. QED
  BY <1>1, InvariantHolds, PTL

\* A Hooks observer sees OnRequestStart and then one closing hook per attempt.
THEOREM HooksAreOrderly == Spec => []HookLifecycle
<1>1. IInv => HookLifecycle
  BY DEF IInv
<1>2. QED
  BY <1>1, InvariantHolds, PTL

\* A nil error means that the last attempt was served and its body decoded.
THEOREM SuccessIsServed == Spec => []OkMeansServed
<1>1. IInv => OkMeansServed
  BY DEF IInv
<1>2. QED
  BY <1>1, InvariantHolds, PTL

\* No verdict of the backend is ever followed by another attempt.
THEOREM RetriesAreSafe == Spec => []RetriesOnlyPassingTrouble
<1>1. IInv => RetriesOnlyPassingTrouble
  BY DEF IInv, Retried, RetriesOnlyPassingTrouble
<1>2. QED
  BY <1>1, InvariantHolds, PTL

-------------------------------------------------------------------------------
\* doJSON keeps the promises of RemoteCall: at most RetryMax + 1 copies, none
\* issued after the outcome, success only if the last copy was served.
THEOREM ImplementsRemoteCall == Spec => RefinesRemoteCall
<1> USE AttemptsType DEF RC!Attempt
<1>1. Init => RC!Init
  BY DEF Init, RC!Init, Attempt
<1>2. IInv /\ [Next]_vars => [RC!Next]_(RC!vars)
  <2> SUFFICES ASSUME IInv, [Next]_vars PROVE [RC!Next]_(RC!vars)
    OBVIOUS
  <2> USE DEF RC!vars
  <2>a. /\ wire \in [Attempt -> WireStates]
        /\ attempt \in 0 .. Attempts
        /\ pc # "returned" <=> result = "none"
        /\ pc # "head" => attempt > 0
    BY DEF IInv, TypeOK, Control
  <2>1. CASE StartAttempt
    <3>1. RC!Issue
      BY <2>1, <2>a DEF StartAttempt, RC!Issue
    <3>2. QED
      BY <3>1 DEF RC!Next
  <2>2. ASSUME NEW e, e.class # "ok", Fail(e), pc \in {"build", "sent"},
               UNCHANGED <<attempt, ctx, decodes, wire, reply>>
        PROVE  [RC!Next]_(RC!vars)
    <3>1. CASE pc' = "backoff"
      BY <2>2, <3>1 DEF Fail
    <3>2. CASE pc' = "returned" /\ result' = e.class
      <4>1. RC!Fail
        BY <2>2, <2>a, <3>2 DEF RC!Fail
      <4>2. QED
        BY <4>1 DEF RC!Next
    <3>3. QED
      BY <2>2, <3>1, <3>2 DEF Fail
  <2>3. CASE BuildFails
    BY <2>2, <2>3 DEF BuildFails, BuildError
  <2>4. CASE Send
    <3>1. wire[attempt] = "unsent" /\ attempt \in Attempt
      BY <2>4, <2>a DEF Send, IInv, Wire, Attempt
    <3>2. {b \in Attempt : wire'[b] = "served"} = {b \in Attempt : wire[b] = "served"}
      BY <2>4, <2>a, <3>1 DEF Send
    <3>3. QED
      BY <2>4, <3>2 DEF Send
  <2>5. CASE Receive
    <3> DEFINE r == reply[attempt]
    <3>1. CASE ~Success(r.status)
      <4>1. r.status \in 100 .. 599 /\ pc = "sent"
        BY <2>5, <2>a, RepliesType DEF Receive, IInv, Wire, Attempt
      <4>2. HTTPError(r.status).class # "ok"
        BY <4>1, HTTPErrorType DEF Classes
      <4>3. QED
        BY <2>2, <2>5, <3>1, <4>1, <4>2 DEF Receive
    <3>2. CASE Success(r.status)
      <4>1. /\ pc' = "returned" /\ pc = "sent" /\ UNCHANGED <<attempt, wire>>
            /\ wire[attempt] = "served" /\ attempt \in Attempt
        BY <2>5, <2>a, <3>2 DEF Receive, Attempt
      <4>2. RC!Succeed \/ RC!Fail
        BY <2>a, <4>1 DEF RC!Succeed, RC!Fail
      <4>3. QED
        BY <4>2 DEF RC!Next
    <3>3. QED
      BY <3>1, <3>2
  <2>6. CASE ReadFails
    BY <2>2, <2>6 DEF ReadFails, ReadError
  <2>7. CASE NetworkFails
    BY <2>2, <2>7 DEF NetworkFails, NetworkError
  <2>8. CASE ContextFails
    BY <2>2, <2>8 DEF ContextFails, ContextError
  <2>9. CASE Resume
    BY <2>9, <2>a DEF Resume
  <2>10. CASE AbortBackoff
    <3>1. RC!Fail
      BY <2>10, <2>a DEF AbortBackoff, RC!Fail
    <3>2. QED
      BY <3>1 DEF RC!Next
  <2>11. CASE ContextEnds
    BY <2>11 DEF ContextEnds
  <2>12. ASSUME NEW a \in Attempt, Lose(a) PROVE [RC!Next]_(RC!vars)
    <3>1. {b \in Attempt : wire'[b] = "served"} = {b \in Attempt : wire[b] = "served"}
      BY <2>12, <2>a DEF Lose
    <3>2. QED
      BY <2>12, <3>1 DEF Lose
  <2>13. ASSUME NEW a \in Attempt, Serve(a) PROVE [RC!Next]_(RC!vars)
    <3>1. a <= attempt
      BY <2>13, <2>a DEF Serve, IInv, Wire, Attempt
    <3>2. /\ a \notin {b \in Attempt : wire[b] = "served"}
          /\ {b \in Attempt : wire'[b] = "served"} = {b \in Attempt : wire[b] = "served"} \cup {a}
      BY <2>13, <2>a DEF Serve
    <3>3. RC!Serve(a)
      BY <2>13, <3>1, <3>2 DEF Serve, RC!Serve
    <3>4. QED
      BY <3>3 DEF RC!Next, Attempt
  <2>14. CASE UNCHANGED vars
    BY <2>14 DEF vars
  <2>15. QED
    BY <2>1, <2>3, <2>4, <2>5, <2>6, <2>7, <2>8, <2>9, <2>10, <2>11, <2>12, <2>13, <2>14
       DEF Next, Caller, Network, Terminated
<1>3. QED
  BY <1>1, <1>2, InvariantHolds, PTL DEF Spec, RefinesRemoteCall, RC!Spec
===============================================================================
