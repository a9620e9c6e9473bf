----------------------------- MODULE MetricsCompile -----------------------------
(***************************************************************************)
(* "metrics compile" after its range query: compileMetricQueryRangePayload *)
(* and CompileMetricQueryRangeDigests (src/internal/compiler/compiler.go)  *)
(* build a request (SeriesGrouping), start a WebAssembly runtime with the  *)
(* kernel, hand the request over in the kernel's memory and copy its       *)
(* answer out (compilerwasm/client.go; the kernel's exports are in         *)
(* src/compiler-rs/src/lib.rs).  Each call has a runtime of its own.       *)
(***************************************************************************)
EXTENDS SeriesGrouping

CONSTANTS
  Series,      \* what a series of an answer may be
  Queries,     \* what a query may be
  MaxSeries    \* bound: series of an answer

Kinds == {"number", "nan", "text"}
Sample == [ts : Int, value : Int, kind : Kinds]
ASSUME SeriesAssumption ==
  Series \subseteq [name : Nat, labels : [Keys -> Nat], points : Seq(Sample)]
ASSUME QueriesAssumption ==
  Queries \subseteq [metric : Nat, expr : Nat, filtered : BOOLEAN, interest : SUBSET Keys]
ASSUME MaxSeriesAssumption == MaxSeries \in Nat

VARIABLES
  query, answer, \* the arguments of the call
  pc,            \* where the call is
  request,       \* what BuildAnalyzeRequest built
  runtime,       \* "none", "open" or "closed"
  buffer,        \* the payload in the kernel's memory: "none", "held", "freed"
  guest,         \* the kernel's buffers: what result and error hold
  text,          \* what the client read
  result         \* what the call returned: "none", "ok" or "error"

arguments == <<query, answer>>
vars == <<arguments, pc, request, runtime, buffer, guest, text, result>>

NoRequest == [scope |-> "none", subjects |-> {}, sent |-> <<>>]

\* A text is nothing, an error message or the analysis of some subjects.
Nothing == [about |-> "nothing", subjects |-> {}]
Message == [about |-> "error", subjects |-> {}]
AnalysisOf(req) == [about |-> "analysis", subjects |-> Outputs(req, answer)]

IsText(x) ==
  /\ x.about \in {"nothing", "error", "analysis"}
  /\ x.subjects \subseteq SUBSET (1 .. MaxSeries)

PCs == {"build", "marshal", "instantiate", "alloc", "write", "call", "read_result",
        "read_error", "free", "close", "decode", "returned"}

TypeOK ==
  /\ query \in Queries
  /\ answer \in Seq(Series) /\ Len(answer) <= MaxSeries
  /\ pc \in PCs
  /\ request.scope \in {"none", "line", "group"}
  /\ request.subjects \subseteq SUBSET (1 .. MaxSeries)
  /\ runtime \in {"none", "open", "closed"}
  /\ buffer \in {"none", "held", "freed"}
  /\ IsText(guest.result) /\ IsText(guest.error) /\ IsText(text)
  /\ result \in {"none", "ok", "error"}

Init ==
  /\ query \in Queries
  /\ answer \in UNION {[1 .. n -> Series] : n \in 0 .. MaxSeries}
  /\ pc = "build"
  /\ request = NoRequest
  /\ runtime = "none"
  /\ buffer = "none"
  /\ guest = [result |-> Nothing, error |-> Nothing]
  /\ text = Nothing
  /\ result = "none"

\* The call fails and goes on with the deferred calls from next on.
FailTo(next) ==
  /\ result' = "error"
  /\ pc' = next
  /\ UNCHANGED text

GoTo(next) ==
  /\ pc' = next
  /\ UNCHANGED <<text, result>>

-------------------------------------------------------------------------------
\* BuildAnalyzeRequest: no series with numeric samples, or a request.
BuildFails ==
  /\ pc = "build"
  /\ Drafts(answer) = {}
  /\ FailTo("returned")
  /\ UNCHANGED <<arguments, request, runtime, buffer, guest>>

Build ==
  /\ pc = "build"
  /\ Drafts(answer) # {}
  /\ request' = Request(query, answer)
  /\ GoTo("marshal")
  /\ UNCHANGED <<arguments, runtime, buffer, guest>>

\* json.Marshal refuses a value that is no number.
Encodable ==
  \A i \in DOMAIN request.sent :
    \A n \in request.sent[i] : answer[i].points[n].kind = "number"

Marshal ==
  /\ pc = "marshal"
  /\ \/ Encodable /\ GoTo("instantiate")
     \/ ~Encodable /\ FailTo("returned")
  /\ UNCHANGED <<arguments, request, runtime, buffer, guest>>

\* Mutant: a runtime whose module cannot be instantiated is left open.
InstantiateLeaks ==
  /\ pc = "instantiate"
  /\ runtime' = "open"
  /\ \/ GoTo("alloc")
     \/ FailTo("returned")
  /\ UNCHANGED <<arguments, request, buffer, guest>>

\* New.
Instantiate ==
  /\ pc = "instantiate"
  /\ \/ runtime' = "open" /\ GoTo("alloc")
     \/ runtime' = "closed" /\ FailTo("returned")
  /\ UNCHANGED <<arguments, request, buffer, guest>>

\* callWithBytes: an export is missing or compiler_alloc fails, or the buffer
\* is there and its release is deferred.
Alloc ==
  /\ pc = "alloc"
  /\ \/ buffer' = "held" /\ GoTo("write")
     \/ FailTo("close") /\ UNCHANGED buffer
  /\ UNCHANGED <<arguments, request, runtime, guest>>

Write ==
  /\ pc = "write"
  /\ \/ GoTo("call")
     \/ FailTo("free")
  /\ UNCHANGED <<arguments, request, runtime, buffer, guest>>

\* Mutant: the status is not looked at.
CallUnchecked ==
  /\ pc = "call"
  /\ \/ guest' = [result |-> AnalysisOf(request), error |-> Nothing] /\ GoTo("read_result")
     \/ guest' = [result |-> Nothing, error |-> Message] /\ GoTo("read_result")
     \/ FailTo("free") /\ UNCHANGED guest
  /\ UNCHANGED <<arguments, request, runtime, buffer>>

\* compiler_analyze_json: set_wasm_success, set_wasm_error or a trap.
Call ==
  /\ pc = "call"
  /\ \/ guest' = [result |-> AnalysisOf(request), error |-> Nothing] /\ GoTo("read_result")
     \/ guest' = [result |-> Nothing, error |-> Message] /\ GoTo("read_error")
     \/ FailTo("free") /\ UNCHANGED guest
  /\ UNCHANGED <<arguments, request, runtime, buffer>>

\* readBuffer copies the text out, or fails.
ReadResult ==
  /\ pc = "read_result"
  /\ \/ text' = guest.result /\ pc' = "free" /\ UNCHANGED result
     \/ FailTo("free")
  /\ UNCHANGED <<arguments, request, runtime, buffer, guest>>

\* readHostError: the message becomes the error, or the failure to read it.
ReadError ==
  /\ pc = "read_error"
  /\ FailTo("free")
  /\ UNCHANGED <<arguments, request, runtime, buffer, guest>>

\* The deferred compiler_free; its failure is ignored.
Free ==
  /\ pc = "free"
  /\ buffer' \in {"freed", "held"}
  /\ GoTo("close")
  /\ UNCHANGED <<arguments, request, runtime, guest>>

\* The deferred Close; its error is ignored, the memory goes with the runtime.
\* CompileMetricQueryRange returns the text, CompileMetricQueryRangeDigests
\* decodes it.
Close ==
  /\ pc = "close"
  /\ runtime' = "closed"
  /\ \/ result = "error" /\ GoTo("returned")
     \/ result # "error" /\ GoTo("decode")
     \/ result # "error" /\ pc' = "returned" /\ result' = "ok" /\ UNCHANGED text
  /\ UNCHANGED <<arguments, request, buffer, guest>>

\* CompileMetricQueryRangeDigests: an answer without outputs is an error.
Decode ==
  /\ pc = "decode"
  /\ \/ text.subjects = {} /\ FailTo("returned")
     \/ text.subjects # {} /\ pc' = "returned" /\ result' = "ok" /\ UNCHANGED text
  /\ UNCHANGED <<arguments, request, runtime, buffer, guest>>

Returned ==
  /\ pc = "returned"
  /\ UNCHANGED vars

Next ==
  \/ BuildFails
  \/ Build
  \/ Marshal
  \/ Instantiate
  \/ Alloc
  \/ Write
  \/ Call
  \/ ReadResult
  \/ ReadError
  \/ Free
  \/ Close
  \/ Decode
  \/ Returned

Spec == Init /\ [][Next]_vars

-------------------------------------------------------------------------------
(***************************************************************************)
(* Properties.                                                             *)
(***************************************************************************)

\* The kernel pairs the members of a group by position, without a look at the
\* times; the adapter has cut the members so that this is right: the samples it
\* averages are of one time, the aggregate's, whatever gaps, repetitions and
\* order the series came with.
GroupsAligned ==
  pc = "call" /\ request.scope = "group" =>
    \A B \in request.subjects :
      \A n \in Indices(answer, request.sent, B) :
        \A first \in FirstMember(answer, request.sent, B) :
          \A p \in Averaged(answer, request.sent, B, n) :
            p.ts = NthTime(answer[first], request.sent[first], n)

\* The numeric samples of a series, and their times.
Numeric(s) == {n \in DOMAIN s.points : s.points[n].kind = "number"}
Times(s) == {s.points[n].ts : n \in Numeric(s)}

\* The value analysed for a time is the one that came last in the answer,
\* whether the adapter drops the others (groups) or the kernel (lines).
LastSampleWins ==
  pc = "call" =>
    \A i \in DOMAIN request.sent : \A n \in Numeric(answer[i]) :
      /\ answer[i].points[n].ts \in Timestamps(answer[i], request.sent[i])
      /\ \A m \in Numeric(answer[i]) :
           answer[i].points[m].ts = answer[i].points[n].ts => m <= n
      => Normalized(answer[i], request.sent[i])[answer[i].points[n].ts]
           = answer[i].points[n].value

\* A series long enough to be analysed is analysed, once: as a line or as a
\* member of one group, and a series too short is in no group.
NothingLeftOut ==
  pc = "free" /\ text.about = "analysis" =>
    \A i \in DOMAIN answer :
      /\ Cardinality(Times(answer[i])) >= 3 <=> \E B \in text.subjects : i \in B
      /\ \A B, C \in text.subjects : i \in B \cap C => B = C

\* The orders in which the backend may list the series of an answer.
Orders(a) == {p \in [DOMAIN a -> DOMAIN a] : \A j \in DOMAIN a : \E i \in DOMAIN a : p[i] = j}

\* Whether series are compared does not depend on the order in which the
\* backend lists them, nor does what is sent of them.
ScopeIgnoresOrder ==
  pc = "marshal" =>
    \A p \in Orders(answer) :
      LET other == Request(query, [i \in DOMAIN answer |-> answer[p[i]]])
      IN /\ other.scope = request.scope
         /\ {{p[i] : i \in B} : B \in other.subjects} = request.subjects
         /\ \A i \in DOMAIN other.sent : other.sent[i] = request.sent[p[i]]

\* No runtime outlives its call, on no path, and with it no buffer.
RuntimeIsClosed == pc = "returned" => runtime # "open"

\* A nil error carries the kernel's analysis of this request.
OkIsTheAnalysis == result = "ok" => text = AnalysisOf(request)
===============================================================================
