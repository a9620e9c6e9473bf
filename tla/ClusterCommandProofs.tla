-------------------------- MODULE ClusterCommandProofs --------------------------
(***************************************************************************)
(* Proofs about ClusterCommand, for all jobs, records, listings and page   *)
(* sizes.  The order of the phases is what they rest on: a record is taken *)
(* before anything but the lookup is sent, the platform is known before    *)
(* anything but the organization is asked for, and neither changes then.   *)
(***************************************************************************)
EXTENDS ClusterCommand, TLAPS

\* The requests a command may begin with.
FirstRequests ==
  {"metrics", "catalog", "ngm_samples", "ngm_slow_query", "events", "loki", "gates",
   "plan_list", "oom_list", "diagnostic_file"}

\* The commands for cloud clusters only.
CloudCommands == {"cloud-events.search", "cloud-logs.search"} \union DedicatedCommands

\* A platform is one of two, whatever the record.
LEMMA PlatformIsKnown ==
  ASSUME NEW c, NEW orgType
  PROVE Platform(c, orgType) \in {"cloud", "tiup-cluster"}
  BY DEF Platform, CloudTiers

\* Which request comes first, command by command.
LEMMA FirstRequestIs ==
  ASSUME NEW where
  PROVE /\ job.command \in MetricsCommands => FirstRequest(where) = "metrics"
        /\ job.command \in BundleCommands => FirstRequest(where) = "catalog"
        /\ job.command = "slowquery" =>
             FirstRequest(where) =
               IF where # "cloud" THEN "catalog"
               ELSE IF WantsSamples THEN "ngm_samples" ELSE "ngm_slow_query"
        /\ job.command \in CloudCommands =>
             FirstRequest(where) \in {"events", "loki", "gates", "plan_list", "oom_list",
                                     "diagnostic_file"}
<1> DEFINE r == FirstRequest(where)
<1> USE DEF FirstRequest, MetricsCommands, BundleCommands, ProfilingCommands, FileDownloads
<1>1. ASSUME job.command \in MetricsCommands PROVE r = "metrics"
  BY <1>1
<1>2. ASSUME job.command \in BundleCommands PROVE r = "catalog"
  BY <1>2
<1>3. ASSUME job.command = "slowquery"
      PROVE r = IF where # "cloud" THEN "catalog"
                ELSE IF WantsSamples THEN "ngm_samples" ELSE "ngm_slow_query"
  BY <1>3
<1>4. ASSUME job.command \in CloudCommands
      PROVE r \in {"events", "loki", "gates", "plan_list", "oom_list", "diagnostic_file"}
  <2>1. CASE job.command = "cloud-events.search"
    BY <2>1
  <2>2. CASE job.command = "cloud-logs.search"
    BY <2>2
  <2>3. CASE job.command \in ProfilingCommands
    BY <2>3
  <2>4. CASE job.command = "cloud-plan-replayers.list"
    BY <2>4
  <2>5. CASE job.command = "cloud-oom-records.list"
    BY <2>5
  <2>6. CASE job.command \in FileDownloads
    BY <2>6
  <2> QED
    BY <1>4, <2>1, <2>2, <2>3, <2>4, <2>5, <2>6
       DEF CloudCommands, DedicatedCommands, DiagnosticsCommands
<1> QED
  BY <1>1, <1>2, <1>3, <1>4

\* The commands are of four kinds.
LEMMA CommandKinds ==
  ASSUME job.command \in Commands, job.command # "cluster"
  PROVE job.command \in MetricsCommands \union BundleCommands \union CloudCommands
                           \union {"slowquery"}
  BY DEF Commands, MetricsCommands, BundleCommands, CloudCommands, DedicatedCommands,
         ProfilingCommands, DiagnosticsCommands

\* The first request suits the platform.
LEMMA FirstRequestSuits ==
  ASSUME NEW c, NEW where \in {"cloud", "tiup-cluster"},
         job.command \in Commands, job.command # "cluster", ~Unsupported(c, where)
  PROVE /\ FirstRequest(where) \in FirstRequests
        /\ FirstRequest(where) \in CloudRequests => where = "cloud"
        /\ FirstRequest(where) \in BundleRequests => where = "tiup-cluster"
        /\ FirstRequest(where) \in {"ngm_samples", "ngm_slow_query"} =>
             job.command = "slowquery"
        /\ FirstRequest(where) = "ngm_samples" => WantsSamples
<1>1. job.command \in MetricsCommands \union BundleCommands \union CloudCommands
                         \union {"slowquery"}
  BY CommandKinds
<1>2. /\ job.command \in CloudCommands => where = "cloud"
      /\ job.command \in BundleCommands => where = "tiup-cluster"
  BY DEF Unsupported, NoLogs, NoFiles, NoEvents, NoBundles, CloudCommands
<1> QED
  BY <1>1, <1>2, FirstRequestIs
     DEF FirstRequests, CloudRequests, NGMRequests, BundleRequests

-------------------------------------------------------------------------------
\* What a job is, and when a wait is possible.
Phase ==
  /\ job.command \in Commands
  /\ Len(backend.hits) \in Nat
  /\ pc \in {"slow_query", "ngm_slow_query", "ngm_samples", "ngm_detail", "wait"} =>
       job.command = "slowquery"
  /\ pc \in {"lookup", "org"} => job.command # "cluster"

TypeInv == TypeOK /\ Phase

LEMMA EmptyLists == <<>> \in Seq(Samples) /\ <<>> \in Seq(STRING)
  OBVIOUS

\* The next sample of a listing has a name.
LEMMA NextSample ==
  ASSUME NEW list \in Seq(Samples), NEW names \in Seq(STRING), Len(names) < Len(list)
  PROVE Append(names, list[Len(names) + 1].name) \in Seq(STRING)
<1>1. Len(names) + 1 \in 1 .. Len(list)
  OBVIOUS
<1>2. list[Len(names) + 1] \in Samples
  BY <1>1
<1>3. list[Len(names) + 1].name \in STRING
  BY <1>2 DEF Samples
<1> QED
  BY <1>3

LEMMA TypeInvInit == Init => TypeInv
<1> SUFFICES ASSUME Init PROVE TypeInv
  OBVIOUS
<1>1. job.command \in Commands /\ Len(backend.hits) \in Nat
  BY CasesAssumption DEF Init
<1> QED
  BY <1>1, EmptyLists DEF Init, TypeInv, TypeOK, Phase, Phases, Outcomes

\* The type invariant: one step per action that sets what it speaks of.
LEMMA TypeInvNext == TypeInv /\ [Next]_vars => TypeInv'
<1> SUFFICES ASSUME TypeInv, [Next]_vars PROVE TypeInv'
  OBVIOUS
<1> USE DEF TypeInv, TypeOK, Phase, Phases, Outcomes, GoTo, Return, vars, found, samples,
            given
<1>1. CASE UNCHANGED vars \/ Finished
  BY <1>1 DEF Finished
<1>2. CASE Load
  BY <1>2 DEF Load
<1>3. CASE Connect
  BY <1>3 DEF Connect, Requests
<1>4. CASE Refuse
  BY <1>4 DEF Refuse
<1>5. CASE RequestFails
  BY <1>5 DEF RequestFails, Send
<1>6. CASE LookUp
  BY <1>6 DEF LookUp, Send, Requests
<1>7. CASE OrgKnown
  <2>1. platform' \in {"cloud", "tiup-cluster"}
    BY <1>7, PlatformIsKnown DEF OrgKnown
  <2>2. \/ Unsupported(cluster, platform') /\ pc' = "done" /\ outcome' = "unsupported"
        \/ /\ ~Unsupported(cluster, platform')
           /\ pc' = FirstRequest(platform')
           /\ outcome' = outcome
    BY <1>7 DEF OrgKnown
  <2>3. CASE ~Unsupported(cluster, platform') /\ pc' = FirstRequest(platform')
               /\ outcome' = outcome
    <3>1. /\ pc' \in FirstRequests
          /\ pc' \in {"ngm_samples", "ngm_slow_query"} => job.command = "slowquery"
      BY <1>7, <2>1, <2>3, FirstRequestSuits DEF OrgKnown
    <3> QED
      BY <1>7, <2>1, <2>3, <3>1
         DEF OrgKnown, Send, FirstRequests, Requests, CloudRequests, NGMRequests,
             BundleRequests
  <2> QED
    BY <1>7, <2>1, <2>2, <2>3 DEF OrgKnown, Send
<1>8. CASE Gated
  BY <1>8 DEF Gated, Send, Requests, CloudRequests, NGMRequests
<1>9. CASE Tokened
  BY <1>9 DEF Tokened, Send, Requests, CloudRequests, NGMRequests
<1>10. CASE Catalogued
  BY <1>10 DEF Catalogued, Send, Requests, BundleRequests
<1>11. CASE Ensured
  BY <1>11 DEF Ensured, Send, Requests, BundleRequests
<1>12. CASE SamplesListed
  <2>1. listed' \in Seq(Samples)
    BY <1>12, ListingsAssumption DEF SamplesListed
  <2>2. details' \in Seq(STRING)
    BY <1>12, EmptyLists DEF SamplesListed
  <2> QED
    BY <1>12, <2>1, <2>2 DEF SamplesListed, Send, Requests, CloudRequests, NGMRequests
<1>13. CASE Detailed
  <2>1. listed \in Seq(Samples) /\ details \in Seq(STRING) /\ Len(details) < Len(listed)
    BY <1>13 DEF Detailed, NextIsLocated
  <2>2. details' \in Seq(STRING)
    BY <1>13, <2>1, NextSample DEF Detailed
  <2> QED
    BY <1>13, <2>2 DEF Detailed, Send
<1>14. CASE Unlocated \/ AllDetailed
  BY <1>14 DEF Unlocated, AllDetailed
<1>15. CASE Processing
  BY <1>15 DEF Processing, Send
<1>16. CASE WaitEnds
  <2>1. platform = "cloud" => pc' \in {"ngm_samples", "ngm_slow_query"}
    BY <1>16, FirstRequestIs DEF WaitEnds
  <2>2. pc' \in {"ngm_samples", "ngm_slow_query", "slow_query"}
    BY <1>16, <2>1 DEF WaitEnds
  <2> QED
    BY <1>16, <2>2
       DEF WaitEnds, Requests, CloudRequests, NGMRequests, BundleRequests
<1>17. CASE Answered
  BY <1>17 DEF Answered, Send
<1>18. CASE Deliver
  BY <1>18 DEF Deliver
<1> QED
  BY <1>1, <1>2, <1>3, <1>4, <1>5, <1>6, <1>7, <1>8, <1>9, <1>10, <1>11, <1>12, <1>13,
     <1>14, <1>15, <1>16, <1>17, <1>18 DEF Next
\* A command is in one of its phases, is done when its outcome is told, and
\* waits for slow queries only.
THEOREM TypeCorrect == Spec => []TypeOK
<1>1. TypeInv => TypeOK
  BY DEF TypeInv
<1> QED
  BY TypeInvInit, TypeInvNext, <1>1, PTL DEF Spec

-------------------------------------------------------------------------------
(* What a command was told, and the cluster that was found.                 *)

\* The configuration is the job's, once it is loaded, and everything after
\* that depends on it.
Configured ==
  /\ config = NoConfig \/ (config = Config(job) /\ ~LoadRefused(job))
  /\ pc \notin {"load", "done"} => config = Config(job)

LEMMA ConfiguredInit == Init => Configured
  BY DEF Init, Configured

LEMMA ConfiguredNext == TypeInv /\ Configured /\ [Next]_vars => Configured'
<1> SUFFICES ASSUME TypeInv, Configured, [Next]_vars PROVE Configured'
  OBVIOUS
<1> USE DEF Configured, GoTo, Return, vars, given
<1>1. CASE Load
  BY <1>1 DEF Load
<1>2. CASE ~Load
  <2>1. config' = config /\ job' = job
    BY <1>2 DEF Next, Connect, Refuse, RequestFails, LookUp, OrgKnown, Gated, Tokened,
         Catalogued, Ensured, SamplesListed, Detailed, Unlocated, AllDetailed, Processing,
         WaitEnds, Answered, Deliver, Finished, Send
  <2>2. pc = "load" => pc' = pc
    BY <1>2 DEF Next, Connect, Refuse, RequestFails, LookUp, OrgKnown, Gated, Tokened,
         Catalogued, Ensured, SamplesListed, Detailed, Unlocated, AllDetailed, Processing,
         WaitEnds, Answered, Deliver, Finished, Send, Requests, CloudRequests, NGMRequests,
         BundleRequests
  <2>3. pc = "done" => pc' = pc
    BY <1>2 DEF Next, Connect, Refuse, RequestFails, LookUp, OrgKnown, Gated, Tokened,
         Catalogued, Ensured, SamplesListed, Detailed, Unlocated, AllDetailed, Processing,
         WaitEnds, Answered, Deliver, Finished, Send, Requests, CloudRequests, NGMRequests,
         BundleRequests
  <2> QED
    BY <2>1, <2>2, <2>3
<1> QED
  BY <1>1, <1>2

\* The two parsers of the portal URL take the same route, unless its fragment
\* leads elsewhere.
LEMMA SameRoute ==
  ASSUME NEW url, ~LeadsElsewhere(url)
  PROVE CLIRoute(url) = PortalRoute(url)
<1>1. url.fragment.segs = <<>> => ~IsClusterRoute(url.fragment)
  BY DEF IsClusterRoute, SegmentAfter
<1> QED
  BY <1>1 DEF LeadsElsewhere, CLIRoute, PortalRoute

\* Cluster, organization and range of a configuration that was loaded are of
\* one route of the portal URL, unless its fragment leads to another page.
THEOREM OneRouteHolds == Spec => []OneRoute
<1>1. Configured => OneRoute
  <2> SUFFICES ASSUME Configured, config.loaded, ~LeadsElsewhere(job.url)
               PROVE \E route \in {job.url.path, job.url.fragment} :
                       /\ config.cluster = SegmentAfter(route.segs, "clusters")
                       /\ config.org = SegmentAfter(route.segs, "orgs")
                       /\ route.from > 0 => config.start = route.from
                       /\ route.to > 0 => config.end = route.to
    BY DEF OneRoute
  <2>1. config = Config(job)
    BY DEF Configured, NoConfig
  <2>2. CLIRoute(job.url) \in {job.url.path, job.url.fragment}
    BY DEF CLIRoute
  <2>3. CLIRoute(job.url) = PortalRoute(job.url)
    BY SameRoute
  <2> QED
    BY <2>1, <2>2, <2>3 DEF Config, RangeStart, RangeEnd
<1> QED
  BY <1>1, TypeInvInit, TypeInvNext, ConfiguredInit, ConfiguredNext, PTL DEF Spec
-------------------------------------------------------------------------------
(* The options of a command.                                                *)

Flag(flags, o) == [by |-> "flag", value |-> flags[o]]

LEMMA FlagFirst ==
  ASSUME NEW flags, NEW o \in DOMAIN flags, NEW rest
  PROVE FromFlag(flags, o) = Flag(flags, o) /\ OrElse(FromFlag(flags, o), rest) = Flag(flags, o)
  BY DEF FromFlag, OrElse, Flag

\* A group is read from the flags or from the environment.
LEMMA GroupIsOne ==
  ASSUME NEW names, NEW env, NEW flags
  PROVE /\ DOMAIN Group(names, env, flags) = names
        /\ \A o \in names \intersect DOMAIN flags :
             Group(names, env, flags)[o] = Flag(flags, o)
        /\ ~ /\ \E o \in names : Group(names, env, flags)[o].by = "flag"
             /\ \E o \in names : Group(names, env, flags)[o].by = "env"
<1>1. \A o : FromFlag(flags, o).by \in {"flag", "none"}
  BY DEF FromFlag, NotGiven
<1>2. \A o : FromEnv(env, o).by \in {"env", "none"}
  BY DEF FromEnv, NotGiven
<1>3. CASE names \intersect DOMAIN flags # {}
  BY <1>1, <1>3, FlagFirst DEF Group
<1>4. CASE names \intersect DOMAIN flags = {}
  BY <1>2, <1>4 DEF Group
<1> QED
  BY <1>3, <1>4

\* The options of a search of logs: the label and the group.
LEMMA LogOptionsAre ==
  ASSUME NEW env, NEW flags
  PROVE /\ DOMAIN LogOptions(env, flags) = {"label"} \union LogQueryGroup
        /\ LogOptions(env, flags)["label"] = LabelOption(env, flags)
        /\ \A o \in LogQueryGroup :
             LogOptions(env, flags)[o] = Group(LogQueryGroup, env, flags)[o]
<1>1. "label" \notin LogQueryGroup
  BY DEF LogQueryGroup
<1> QED
  BY <1>1 DEF LogOptions

\* FlagsDecide, for one set of options.
Decided(options, flags) ==
  /\ \A o \in DOMAIN options \intersect DOMAIN flags : options[o] = Flag(flags, o)
  /\ \A group \in {{"name", "severity"}, LogQueryGroup} :
       ~ /\ \E o \in group \intersect DOMAIN options : options[o].by = "flag"
         /\ \E o \in group \intersect DOMAIN options : options[o].by = "env"
  /\ ~ /\ "label" \in DOMAIN options /\ options["label"].by \in {"flag", "env"}
       /\ \E o \in LogQueryGroup \intersect DOMAIN options :
            options[o].by \in {"flag", "env"}

\* Options that are in no group are decided when each flag is used.
LEMMA LooseOptions ==
  ASSUME NEW options, NEW flags,
         DOMAIN options \intersect ({"name", "severity"} \union LogQueryGroup) = {},
         \A o \in DOMAIN options \intersect DOMAIN flags : options[o] = Flag(flags, o)
  PROVE Decided(options, flags)
  BY DEF Decided

LEMMA SlowQueryDecided ==
  ASSUME NEW env, NEW flags
  PROVE Decided(SlowQueryOptions(env, flags), flags)
<1> DEFINE options == SlowQueryOptions(env, flags)
<1>1. DOMAIN options = {"digest", "order_by", "limit", "desc", "fields"}
  BY DEF SlowQueryOptions
<1>2. \A o \in DOMAIN options \intersect DOMAIN flags : options[o] = Flag(flags, o)
  BY <1>1, FlagFirst DEF SlowQueryOptions
<1> QED
  BY <1>1, <1>2, LooseOptions DEF LogQueryGroup

LEMMA EventsDecided ==
  ASSUME NEW env, NEW flags
  PROVE Decided(EventOptions(env, flags), flags)
<1> DEFINE names == {"name", "severity"}
           options == EventOptions(env, flags)
<1>1. /\ DOMAIN options = names
      /\ \A o \in names \intersect DOMAIN flags : options[o] = Flag(flags, o)
      /\ ~ /\ \E o \in names : options[o].by = "flag"
           /\ \E o \in names : options[o].by = "env"
  BY GroupIsOne DEF EventOptions
<1>2. names \intersect LogQueryGroup = {} /\ "label" \notin names
  BY DEF LogQueryGroup
<1> QED
  BY <1>1, <1>2 DEF Decided

LEMMA LogsDecided ==
  ASSUME NEW env, NEW flags, ~LogsRefused(env, flags)
  PROVE Decided(LogOptions(env, flags), flags)
<1> DEFINE options == LogOptions(env, flags)
           group == Group(LogQueryGroup, env, flags)
<1>1. /\ DOMAIN options = {"label"} \union LogQueryGroup
      /\ options["label"] = LabelOption(env, flags)
      /\ \A o \in LogQueryGroup : options[o] = group[o]
  BY LogOptionsAre
<1>2. /\ DOMAIN group = LogQueryGroup
      /\ \A o \in LogQueryGroup \intersect DOMAIN flags : group[o] = Flag(flags, o)
      /\ ~ /\ \E o \in LogQueryGroup : group[o].by = "flag"
           /\ \E o \in LogQueryGroup : group[o].by = "env"
  BY GroupIsOne
<1>3. "label" \in DOMAIN flags => LabelOption(env, flags) = Flag(flags, "label")
  BY FlagFirst DEF LabelOption
<1>4. ~(LabelOption(env, flags).by # "none" /\ Given(group))
  BY DEF LogsRefused
<1>5. \A o \in DOMAIN options \intersect DOMAIN flags : options[o] = Flag(flags, o)
  BY <1>1, <1>2, <1>3
<1>6. ~ /\ options["label"].by \in {"flag", "env"}
        /\ \E o \in LogQueryGroup : options[o].by \in {"flag", "env"}
  BY <1>1, <1>2, <1>4 DEF Given
<1>7. {"name", "severity"} \intersect DOMAIN options = {}
  BY <1>1 DEF LogQueryGroup
<1> QED
  BY <1>1, <1>2, <1>5, <1>6, <1>7 DEF Decided

LEMMA OptionsDecided ==
  ASSUME NEW command, NEW env, NEW flags, ~OptionsRefused(command, env, flags),
         DOMAIN flags \intersect (ProfileVariables \union {"key"}) = {}
  PROVE Decided(Options(command, env, flags), flags)
<1>1. CASE command = "slowquery"
  BY <1>1, SlowQueryDecided DEF Options, FileDownloads
<1>2. CASE command = "cloud-events.search"
  BY <1>2, EventsDecided DEF Options, FileDownloads
<1>3. CASE command = "cloud-logs.search"
  BY <1>3, LogsDecided DEF Options, OptionsRefused, FileDownloads
<1>4. CASE command = "metrics.compile"
  <2>1. Options(command, env, flags) = CompileOptions(env, flags)
    BY <1>4 DEF Options, FileDownloads
  <2>2. DOMAIN CompileOptions(env, flags) = {"description"}
    BY DEF CompileOptions
  <2>3. \A o \in {"description"} \intersect DOMAIN flags :
          CompileOptions(env, flags)[o] = Flag(flags, o)
    BY FlagFirst DEF CompileOptions
  <2> QED
    BY <2>1, <2>2, <2>3, LooseOptions DEF LogQueryGroup
<1>5. CASE command = "cloud-profilings.download"
  <2>1. Options(command, env, flags) = ProfileOptions(env)
    BY <1>5 DEF Options, FileDownloads
  <2>2. DOMAIN ProfileOptions(env) = ProfileVariables
    BY DEF ProfileOptions
  <2> QED
    BY <2>1, <2>2, LooseOptions DEF LogQueryGroup, ProfileVariables
<1>6. CASE command \in FileDownloads
  <2>1. Options(command, env, flags) = KeyOptions(env)
    BY <1>6 DEF Options, FileDownloads
  <2>2. DOMAIN KeyOptions(env) = {"key"}
    BY DEF KeyOptions
  <2> QED
    BY <2>1, <2>2, LooseOptions DEF LogQueryGroup
<1>7. CASE command \notin {"slowquery", "cloud-events.search", "cloud-logs.search",
                          "metrics.compile", "cloud-profilings.download"}
             /\ command \notin FileDownloads
  <2>1. Options(command, env, flags) = [o \in {} |-> NotGiven]
    BY <1>7 DEF Options
  <2>2. DOMAIN [o \in {} |-> NotGiven] = {}
    OBVIOUS
  <2> QED
    BY <2>1, <2>2, LooseOptions
<1> QED
  BY <1>1, <1>2, <1>3, <1>4, <1>5, <1>6, <1>7

\* What a flag says is what is used, a group given by flags takes nothing from
\* the environment, and the two modes of a search of logs are never mixed.
THEOREM FlagsDecideHolds == Spec => []FlagsDecide
<1> DEFINE NoFlags == DOMAIN job.flags \intersect (ProfileVariables \union {"key"}) = {}
<1>1. Init => NoFlags
  BY CasesAssumption DEF Init
<1>2. NoFlags /\ [Next]_vars => NoFlags'
  <2>1. [Next]_vars => job' = job
    BY DEF Next, Load, Connect, Refuse, RequestFails, LookUp, OrgKnown, Gated, Tokened,
       Catalogued, Ensured, SamplesListed, Detailed, Unlocated, AllDetailed, Processing,
       WaitEnds, Answered, Deliver, Finished, Send, vars, given
  <2> QED
    BY <2>1
<1>3. Configured /\ NoFlags => FlagsDecide
  <2> SUFFICES ASSUME Configured, NoFlags, config.loaded PROVE FlagsDecide
    BY DEF FlagsDecide
  <2>1. config = Config(job) /\ ~LoadRefused(job)
    BY DEF Configured, NoConfig
  <2> DEFINE env == Environment(job.env, job.dotenv)
  <2>2. /\ config.options = Options(job.command, env, job.flags)
        /\ ~OptionsRefused(job.command, env, job.flags)
    BY <2>1 DEF Config, LoadRefused
  <2>3. Decided(config.options, job.flags)
    BY <2>2, OptionsDecided
  <2> QED
    BY <2>3 DEF Decided, Flag, FlagsDecide
<1> QED
  BY <1>1, <1>2, <1>3, TypeInvInit, TypeInvNext, ConfiguredInit, ConfiguredNext,
     PTL DEF Spec

-------------------------------------------------------------------------------
(* What a step does to the history and to what it is about.                 *)

\* Apart from three actions, a step leaves all of it alone or sends one more
\* request.
LEMMA Steps ==
  ASSUME [Next]_vars
  PROVE \/ Load
        \/ LookUp
        \/ OrgKnown
        \/ UNCHANGED <<sent, config, cluster, platform, job, backend>>
        \/ Send /\ UNCHANGED <<cluster, platform>>
<1> USE DEF vars, given, found, samples
<1>1. CASE UNCHANGED vars \/ Finished
  BY <1>1 DEF Finished
<1>2. CASE Connect \/ Refuse \/ Unlocated \/ AllDetailed \/ WaitEnds \/ Deliver
  BY <1>2 DEF Connect, Refuse, Unlocated, AllDetailed, WaitEnds, Deliver
<1>3. CASE RequestFails \/ Gated \/ Tokened \/ Catalogued \/ Ensured \/ SamplesListed
             \/ Detailed \/ Processing \/ Answered
  BY <1>3 DEF RequestFails, Gated, Tokened, Catalogued, Ensured, SamplesListed, Detailed,
              Processing, Answered
<1> QED
  BY <1>1, <1>2, <1>3 DEF Next

\* The phases in which the cluster has been found, and is still to be used.
Resolved == (Requests \ {"lookup", "cluster_detail"}) \union {"wait"}

\* Where a step leads: the lookup follows the connection only, the request for
\* the organization the lookup only, and what is refused later than that was
\* found.
LEMMA Ways ==
  ASSUME TypeInv, [Next]_vars
  PROVE /\ pc' = "load" => pc = "load" /\ UNCHANGED vars
        /\ pc' = "connect" => (pc = "load" /\ Load) \/ UNCHANGED vars
        /\ pc' = "lookup" => (pc = "connect" /\ Connect) \/ UNCHANGED vars
        /\ pc' = "org" => (pc = "lookup" /\ LookUp) \/ UNCHANGED vars
        /\ outcome' = "not_found" => (pc = "lookup" /\ LookUp) \/ UNCHANGED vars
        /\ pc' \in Resolved => pc \in Resolved \/ (pc = "lookup" /\ LookUp)
<1> USE DEF GoTo, Return, Resolved
<1>1. CASE UNCHANGED vars \/ Finished
  BY <1>1 DEF Finished, vars, TypeInv, TypeOK
<1>2. CASE Load
  BY <1>2 DEF Load, TypeInv, TypeOK, Requests, CloudRequests, NGMRequests,
              BundleRequests
<1>3. CASE Connect
  BY <1>3 DEF Connect, TypeInv, TypeOK, Requests, CloudRequests, NGMRequests,
              BundleRequests
<1>4. CASE LookUp
  BY <1>4 DEF LookUp, TypeInv, TypeOK
<1>5. CASE OrgKnown
  <2>1. pc' = "done" \/ pc' \in FirstRequests
    BY <1>5, PlatformIsKnown, FirstRequestSuits DEF OrgKnown, TypeInv, Phase
  <2> QED
    BY <1>5, <2>1 DEF OrgKnown, FirstRequests, TypeInv, TypeOK, Requests, CloudRequests, NGMRequests,
                BundleRequests
<1>6. CASE WaitEnds
  <2>1. pc' \in {"ngm_samples", "ngm_slow_query", "slow_query"}
    BY <1>6, FirstRequestIs DEF WaitEnds, TypeInv, Phase
  <2> QED
    BY <1>6, <2>1 DEF WaitEnds, TypeInv, TypeOK
<1>7. CASE Refuse \/ RequestFails \/ Gated \/ Tokened \/ Catalogued \/ Ensured
             \/ SamplesListed
  BY <1>7 DEF Refuse, RequestFails, Gated, Tokened, Catalogued, Ensured, SamplesListed,
              TypeInv, TypeOK, Requests, CloudRequests, NGMRequests, BundleRequests
<1>8. CASE Detailed \/ Unlocated \/ AllDetailed \/ Processing \/ Answered \/ Deliver
  BY <1>8 DEF Detailed, Unlocated, AllDetailed, Processing, Answered, Deliver, TypeInv,
              TypeOK, Requests, CloudRequests, NGMRequests, BundleRequests
<1> QED
  BY <1>1, <1>2, <1>3, <1>4, <1>5, <1>6, <1>7, <1>8 DEF Next
-------------------------------------------------------------------------------
(* The lookup: nothing but it is sent before the cluster is found.          *)

Exact == ExactMatches(backend.hits, config.cluster, PageLimit)

Located ==
  /\ pc \in {"load", "connect", "lookup"} => cluster = NoCluster /\ sent = {}
  /\ pc = "org" => \A r \in sent : r.endpoint = "lookup"
  /\ cluster # NoCluster => \E i \in Exact : Exact = {i} /\ cluster = backend.hits[i]
  /\ outcome = "not_found" => Exact = {}
  /\ pc \in Resolved => cluster.id = config.cluster

LEMMA LocatedInit == Init => Located
  BY DEF Init, Located, Resolved, Requests, CloudRequests, NGMRequests, BundleRequests

LEMMA LocatedNext == TypeInv /\ Located /\ [Next]_vars => Located'
<1> SUFFICES ASSUME TypeInv, Located, [Next]_vars PROVE Located'
  OBVIOUS
<1>1. CASE Load
  <2>1. /\ pc' \in {"connect", "done"} /\ outcome' # "not_found"
        /\ cluster' = NoCluster /\ sent' = {}
    BY <1>1 DEF Load, Located, found, GoTo, Return, TypeInv, TypeOK
  <2> QED
    BY <2>1 DEF Located, Resolved, Requests, CloudRequests, NGMRequests, BundleRequests
<1>2. CASE LookUp
  <2>1. /\ pc = "lookup" /\ cluster = NoCluster /\ sent = {}
        /\ config' = config /\ backend' = backend
        /\ \A r \in sent' : r.endpoint = "lookup"
    BY <1>2 DEF LookUp, Send, Request, Located, given
  <2>2. CASE Exact = {} /\ pc' = "done" /\ cluster' = cluster
    BY <2>1, <2>2 DEF Located, Exact, Resolved, Requests, CloudRequests, NGMRequests,
                      BundleRequests
  <2>3. ASSUME NEW i \in Exact, Exact = {i}, pc' = "org", outcome' = outcome,
               cluster' = backend.hits[i]
        PROVE Located'
    <3>1. cluster'.id = config'.cluster
      BY <2>1, <2>3 DEF Exact, ExactMatches
    <3>2. outcome' = "running"
      BY <2>1, <2>3 DEF TypeInv, TypeOK
    <3> QED
      BY <2>1, <2>3, <3>1, <3>2 DEF Located, Exact
  <2>4. CASE pc' = "done" /\ outcome' = "invalid_request" /\ cluster' = cluster
    BY <2>1, <2>4 DEF Located, Exact, Resolved, Requests, CloudRequests, NGMRequests,
                      BundleRequests
  <2> QED
    BY <1>2, <2>2, <2>3, <2>4 DEF LookUp, Exact, GoTo, Return
<1>3. CASE ~Load /\ ~LookUp
  <2>1. UNCHANGED <<config, cluster, backend>>
    BY <1>3, Steps DEF Send, OrgKnown, given
  <2>2. pc' \in {"connect", "org"} => UNCHANGED vars
    BY <1>3, Ways
  <2>3. pc' = "lookup" => UNCHANGED vars \/ (pc = "connect" /\ UNCHANGED <<sent, cluster>>)
    BY <1>3, Ways DEF Connect, found
  <2>4. pc' = "load" => UNCHANGED vars
    BY Ways
  <2>5. outcome' = "not_found" => UNCHANGED vars
    BY <1>3, Ways
  <2>6. pc' \in Resolved => pc \in Resolved
    BY <1>3, Ways
  <2> QED
    BY <2>1, <2>2, <2>3, <2>4, <2>5, <2>6 DEF Located, Exact, vars, found, given
<1> QED
  BY <1>1, <1>2, <1>3

\* The cluster that a command works on is the only record of the page that has
\* its id, and that there is none is told only if no record of the page has.
THEOREM OneMatchHolds == Spec => []OneMatchOnly
<1>1. TypeInv /\ Located => OneMatchOnly
  <2> SUFFICES ASSUME TypeInv, Located PROVE OneMatchOnly
    OBVIOUS
  <2> DEFINE same == {i \in 1 .. Len(backend.hits) : backend.hits[i].id = config.cluster}
             page == {i \in same : i <= PageLimit}
  <2>1. page = Exact
    BY DEF Exact, ExactMatches
  <2>2. cluster # NoCluster => \E i \in page : page = {i} /\ cluster = backend.hits[i]
    BY <2>1 DEF Located
  <2>3. outcome = "not_found" => same = {} \/ Len(backend.hits) > PageLimit
    <3>1. SUFFICES ASSUME outcome = "not_found", Len(backend.hits) <= PageLimit,
                          NEW i \in same
                   PROVE FALSE
      BY PageAssumption DEF TypeInv, Phase
    <3>2. i \in page
      BY <3>1, PageAssumption DEF TypeInv, Phase
    <3> QED
      BY <2>1, <3>1, <3>2 DEF Located
  <2> QED
    BY <2>2, <2>3 DEF OneMatchOnly
<1> QED
  BY <1>1, TypeInvInit, TypeInvNext, LocatedInit, LocatedNext, PTL DEF Spec
-------------------------------------------------------------------------------
(* What requests name.                                                      *)

ParentRequests == NGMRequests \ {"ngm_slow_query", "ngm_samples", "ngm_detail"}

\* RequestsReachTheCluster, for one request.
Reaches(r, c, cfg) ==
  /\ r.target.cluster =
       IF r.endpoint = "org" THEN ""
       ELSE IF r.endpoint \in ParentRequests /\ ParentKeepsFiles(c)
         THEN c.parent ELSE cfg.cluster
  /\ r.target.org =
       IF r.endpoint \in {"lookup", "loki"} THEN ""
       ELSE IF r.endpoint = "cluster_detail" THEN cfg.org
       ELSE IF r.endpoint \in NGMRequests THEN c.tenant
       ELSE c.org
  /\ r.key = IF r.host_cn THEN "cn_api_key" ELSE "api_key"

\* A request that names the cluster found, and its parent where that keeps the
\* files, is on target.
LEMMA RequestReaches ==
  ASSUME TypeInv, Configured, Located, pc \in Requests
  PROVE Reaches(Request(pc), cluster, config)
<1>1. config = Config(job)
  BY DEF Configured, Requests, CloudRequests, NGMRequests, BundleRequests
<1>2. pc \in Resolved => cluster.id = config.cluster
  BY DEF Located
<1>3. Request(pc).key = IF Request(pc).host_cn THEN "cn_api_key" ELSE "api_key"
  BY <1>1 DEF Request, Config, KeyName
<1>4. Request(pc).endpoint = pc /\ Request(pc).target = TargetOf(pc)
  BY DEF Request
<1>5. CASE pc \in {"lookup", "org", "cluster_detail"}
  <2>1. /\ TargetOf(pc).cluster = IF pc = "org" THEN "" ELSE config.cluster
        /\ TargetOf(pc).org =
             IF pc = "lookup" THEN "" ELSE IF pc = "org" THEN cluster.org ELSE config.org
    BY <1>5 DEF TargetOf, NGMRequests
  <2> QED
    BY <1>3, <1>4, <1>5, <2>1 DEF Reaches, NGMRequests, ParentRequests
<1>6. CASE pc = "loki"
  <2>1. TargetOf(pc).cluster = cluster.id /\ TargetOf(pc).org = ""
    BY <1>6 DEF TargetOf, NGMRequests, LogsTarget
  <2> QED
    BY <1>2, <1>3, <1>4, <1>6, <2>1 DEF Reaches, NGMRequests, ParentRequests, Resolved
<1>7. CASE pc \in NGMRequests
  <2>1. TargetOf(pc) = NGMTargetOf(pc)
    BY <1>7 DEF TargetOf, NGMRequests
  <2>2. AtParent(cluster) <=> ParentKeepsFiles(cluster)
    BY DEF AtParent, ParentKeepsFiles, NormalizedDeployType
  <2>3. /\ NGMTarget(cluster).cluster = cluster.id
        /\ NGMTarget(cluster).org = cluster.tenant
        /\ [NGMTarget(cluster) EXCEPT !.cluster = cluster.parent].cluster = cluster.parent
        /\ [NGMTarget(cluster) EXCEPT !.cluster = cluster.parent].org = cluster.tenant
    BY DEF NGMTarget
  <2>4. /\ NGMTargetOf(pc).org = cluster.tenant
        /\ NGMTargetOf(pc).cluster =
             IF pc \in ParentRequests /\ ParentKeepsFiles(cluster)
               THEN cluster.parent ELSE cluster.id
    BY <1>7, <2>2, <2>3 DEF NGMTargetOf, ProfilingTarget, ParentRequests
  <2> QED
    BY <1>2, <1>3, <1>4, <1>7, <2>1, <2>4 DEF Reaches, NGMRequests, Resolved
<1>8. CASE pc \notin NGMRequests \union {"lookup", "org", "cluster_detail", "loki"}
  <2>1. TargetOf(pc).cluster = cluster.id /\ TargetOf(pc).org = cluster.org
    BY <1>8 DEF TargetOf, ContextTarget
  <2> QED
    BY <1>2, <1>3, <1>4, <1>8, <2>1 DEF Reaches, ParentRequests, Resolved
<1> QED
  BY <1>5, <1>6, <1>7, <1>8

OnTarget == \A r \in sent : Reaches(r, cluster, config)

LEMMA OnTargetInit == Init => OnTarget
  BY DEF Init, OnTarget

LEMMA OnTargetNext ==
  TypeInv /\ Configured /\ Located /\ OnTarget /\ [Next]_vars => OnTarget'
<1> SUFFICES ASSUME TypeInv, Configured, Located, OnTarget, [Next]_vars
             PROVE OnTarget'
  OBVIOUS
<1>1. CASE Load
  BY <1>1 DEF Load, Located, OnTarget
<1>2. CASE LookUp
  <2>1. sent' = {Request(pc)} /\ pc = "lookup" /\ config' = config
    BY <1>2 DEF LookUp, Send, Located
  <2>2. Reaches(Request(pc), cluster, config)
    BY <2>1, RequestReaches DEF Requests
  <2>3. Request(pc).endpoint = "lookup"
    BY <2>1 DEF Request
  <2>4. Reaches(Request(pc), cluster', config)
    BY <2>2, <2>3 DEF Reaches, NGMRequests, ParentRequests
  <2> QED
    BY <2>1, <2>4 DEF OnTarget
<1>3. CASE UNCHANGED <<sent, config, cluster, platform, job, backend>>
  BY <1>3 DEF OnTarget
<1>4. CASE Send /\ UNCHANGED cluster
  BY <1>4, RequestReaches DEF OnTarget, Send
<1> QED
  BY <1>1, <1>2, <1>3, <1>4, Steps DEF OrgKnown

\* Every request names the cluster of the portal URL or the parent that keeps
\* its files, and the organization of the record that was found.
THEOREM RequestsReach == Spec => []RequestsReachTheCluster
<1>1. OnTarget => RequestsReachTheCluster
  BY DEF OnTarget, Reaches, ParentRequests, RequestsReachTheCluster
<1> QED
  BY <1>1, TypeInvInit, TypeInvNext, ConfiguredInit, ConfiguredNext, LocatedInit,
     LocatedNext, OnTargetInit, OnTargetNext, PTL DEF Spec
-------------------------------------------------------------------------------
(* Which services are asked.                                                *)

\* The phases of each platform, and the wait for the bundle of an OP cluster.
Apart ==
  /\ pc \in CloudRequests => platform = "cloud"
  /\ pc \in BundleRequests => platform = "tiup-cluster"
  /\ pc = "wait" => platform \in {"cloud", "tiup-cluster"}
  /\ (pc = "slow_query" \/ (pc = "wait" /\ platform # "cloud")) /\ SaysOP(cluster) =>
       \E s \in sent : s.endpoint = "ensure"
  /\ PlatformsStayApart

LEMMA ApartInit == Init => Apart
  BY DEF Init, Apart, PlatformsStayApart, CloudRequests, NGMRequests, BundleRequests

\* A record that says that the cluster is an OP one does not make a cloud context.
LEMMA SaysOPWaits == ASSUME SaysOP(cluster) PROVE ~IsCloudContext(cluster)
  BY DEF SaysOP, IsCloudContext, RoutingOrgType, NormalizedDeployType

\* The history under a step that keeps the cluster and the platform.
LEMMA HistoryStaysApart ==
  ASSUME Apart, Send, UNCHANGED <<cluster, platform>>
  PROVE PlatformsStayApart'
<1>1. sent' = sent \union {Request(pc)} /\ Request(pc).endpoint = pc
  BY DEF Send, Request
<1>2. ASSUME NEW r \in sent'
      PROVE /\ r.endpoint \in CloudRequests => platform = "cloud"
            /\ r.endpoint \in BundleRequests => platform = "tiup-cluster"
            /\ r.endpoint = "slow_query" /\ SaysOP(cluster) =>
                 \E s \in sent : s.endpoint = "ensure"
  BY <1>1, <1>2 DEF Apart, PlatformsStayApart
<1> QED
  BY <1>1, <1>2 DEF PlatformsStayApart

LEMMA ApartNext == TypeInv /\ Located /\ Apart /\ [Next]_vars => Apart'
<1> SUFFICES ASSUME TypeInv, Located, Apart, [Next]_vars PROVE Apart'
  OBVIOUS
<1> USE DEF CloudRequests, NGMRequests, BundleRequests, GoTo, Return
<1>1. CASE UNCHANGED vars \/ Finished
  BY <1>1 DEF Finished, vars, found, Apart, PlatformsStayApart
<1>2. CASE Load
  BY <1>2 DEF Load, Located, found, Apart, PlatformsStayApart
<1>3. CASE Connect
  BY <1>3 DEF Connect, found, Apart, PlatformsStayApart
<1>4. CASE LookUp
  <2>1. /\ \A r \in sent' : r.endpoint = "lookup"
        /\ pc' \in {"org", "done"}
    BY <1>4 DEF LookUp, Send, Request, Located
  <2> QED
    BY <2>1 DEF Apart, PlatformsStayApart
<1>5. CASE OrgKnown
  <2>1. \A r \in sent' : r.endpoint \in {"lookup", "org"}
    BY <1>5 DEF OrgKnown, Send, Request, Located
  <2>2. PlatformsStayApart'
    BY <2>1 DEF PlatformsStayApart
  <2>3. platform' \in {"cloud", "tiup-cluster"}
    BY <1>5, PlatformIsKnown DEF OrgKnown
  <2>4. \/ pc' = "done"
        \/ /\ pc' \in FirstRequests
           /\ pc' \in CloudRequests => platform' = "cloud"
           /\ pc' \in BundleRequests => platform' = "tiup-cluster"
    <3> HIDE DEF CloudRequests, NGMRequests, BundleRequests
    <3> QED
      BY <1>5, <2>3, FirstRequestSuits DEF OrgKnown, TypeInv, Phase
  <2> QED
    BY <2>2, <2>3, <2>4 DEF Apart, FirstRequests
<1>6. CASE Refuse \/ Unlocated \/ AllDetailed \/ Deliver
  BY <1>6 DEF Refuse, Unlocated, AllDetailed, Deliver, found, Apart, PlatformsStayApart
<1>7. CASE WaitEnds
  <2>1. platform = "cloud" => pc' \in {"ngm_samples", "ngm_slow_query"}
    BY <1>7, FirstRequestIs DEF WaitEnds, TypeInv, Phase
  <2>2. platform # "cloud" => pc' = "slow_query"
    BY <1>7 DEF WaitEnds
  <2> QED
    BY <1>7, <2>1, <2>2 DEF WaitEnds, found, Apart, PlatformsStayApart
<1>8. CASE RequestFails \/ Gated \/ Tokened \/ Catalogued \/ Ensured \/ SamplesListed
             \/ Detailed \/ Processing \/ Answered
  <2>1. Send /\ cluster' = cluster /\ platform' = platform
    BY <1>8 DEF RequestFails, Gated, Tokened, Catalogued, Ensured, SamplesListed, Detailed,
                Processing, Answered, found
  <2>2. PlatformsStayApart'
    BY <2>1, HistoryStaysApart
  <2>3. sent' = sent \union {Request(pc)} /\ Request(pc).endpoint = pc
    BY <2>1 DEF Send, Request
  <2>4. CASE RequestFails \/ Gated \/ Tokened \/ SamplesListed \/ Detailed \/ Answered
    BY <2>1, <2>2, <2>4
       DEF RequestFails, Gated, Tokened, SamplesListed, Detailed, Answered, Apart
  <2>5. CASE Catalogued
    BY <2>1, <2>2, <2>5, SaysOPWaits DEF Catalogued, Apart, SaysOP
  <2>6. CASE Ensured
    BY <2>1, <2>2, <2>3, <2>6 DEF Ensured, Apart
  <2>7. CASE Processing
    BY <2>1, <2>2, <2>3, <2>7 DEF Processing, Apart, SaysOP
  <2> QED
    BY <1>8, <2>4, <2>5, <2>6, <2>7
<1> QED
  BY <1>1, <1>2, <1>3, <1>4, <1>5, <1>6, <1>7, <1>8 DEF Next

\* Cloud services are asked about cloud clusters only, collected data about OP
\* clusters only, and slow queries of an OP cluster after the wait only.
THEOREM PlatformsApart == Spec => []PlatformsStayApart
<1>1. Apart => PlatformsStayApart
  BY DEF Apart
<1> QED
  BY <1>1, TypeInvInit, TypeInvNext, LocatedInit, LocatedNext, ApartInit, ApartNext,
     PTL DEF Spec
-------------------------------------------------------------------------------
(* The samples of a cloud cluster.                                          *)

Sampled == \E r \in sent : r.endpoint = "ngm_samples"

\* The command is after samples of a cloud cluster.
AfterSamples ==
  job.command = "slowquery" /\ platform = "cloud" /\ WantsSamples

\* The details are those of the first samples, in order.
Fetched ==
  /\ Len(details) <= Len(listed)
  /\ \A i \in 1 .. Len(details) : listed[i].located /\ details[i] = listed[i].name

\* Once samples have been listed nothing but their details, and the listing again,
\* is asked for.
Complete ==
  /\ Fetched
  /\ pc \in {"ngm_samples", "ngm_detail"} => AfterSamples
  /\ Sampled => AfterSamples
               /\ pc \in {"ngm_samples", "ngm_detail", "wait", "deliver", "done"}
  /\ Sampled /\ (pc = "deliver" \/ outcome = "ok") => Len(details) = Len(listed)

LEMMA CompleteInit == Init => Complete
<1> SUFFICES ASSUME Init PROVE Complete
  OBVIOUS
<1>1. Fetched
  <2>1. Len(<<>>) = 0
    OBVIOUS
  <2>2. Len(details) = 0 /\ Len(listed) = 0
    BY <2>1 DEF Init
  <2> QED
    BY <2>2 DEF Fetched
<1>2. ~Sampled
  BY DEF Init, Sampled
<1> QED
  BY <1>1, <1>2 DEF Init, Complete

LEMMA SampledNext ==
  ASSUME Send
  PROVE Sampled' <=> Sampled \/ pc = "ngm_samples"
<1>1. sent' = sent \union {Request(pc)} /\ Request(pc).endpoint = pc
  BY DEF Send, Request
<1> QED
  BY <1>1 DEF Sampled

\* One more sample's details.
LEMMA OneMore ==
  ASSUME NEW list \in Seq(Samples), NEW names \in Seq(STRING), Len(names) < Len(list),
         NEW name, name = list[Len(names) + 1].name, list[Len(names) + 1].located,
         \A i \in 1 .. Len(names) : list[i].located /\ names[i] = list[i].name
  PROVE /\ Len(Append(names, name)) <= Len(list)
        /\ \A i \in 1 .. Len(Append(names, name)) :
             list[i].located /\ Append(names, name)[i] = list[i].name
<1>1. Append(names, name) \in Seq(STRING)
  BY NextSample
<1>2. Len(Append(names, name)) = Len(names) + 1
  BY <1>1
<1>3. ASSUME NEW i \in 1 .. Len(names) + 1
      PROVE list[i].located /\ Append(names, name)[i] = list[i].name
  <2>1. CASE i \in 1 .. Len(names)
    BY <2>1
  <2>2. CASE i = Len(names) + 1
    BY <2>2
  <2> QED
    BY <2>1, <2>2
<1> QED
  BY <1>2, <1>3

LEMMA CompleteNext ==
  TypeInv /\ Configured /\ Located /\ Complete /\ [Next]_vars => Complete'
<1> SUFFICES ASSUME TypeInv, Configured, Located, Complete, [Next]_vars
             PROVE Complete'
  OBVIOUS
<1> USE DEF GoTo, Return, AfterSamples, WantsSamples, given, found
<1>1. UNCHANGED samples => Fetched'
  BY DEF Complete, Fetched, samples
<1>2. UNCHANGED sent => (Sampled' <=> Sampled)
  BY DEF Sampled
<1>3. CASE UNCHANGED vars \/ Finished
  BY <1>1, <1>2, <1>3 DEF Finished, vars, samples, Complete
<1>4. CASE Load
  <2>1. ~Sampled'
    BY <1>4 DEF Load, Located, Sampled
  <2> QED
    BY <1>1, <1>4, <2>1 DEF Load, Complete
<1>5. CASE Connect
  <2>1. ~Sampled'
    BY <1>5 DEF Connect, Located, Sampled
  <2> QED
    BY <1>1, <1>5, <2>1 DEF Connect, Complete
<1>6. CASE LookUp
  <2>1. ~Sampled'
    BY <1>6 DEF LookUp, Send, Request, Located, Sampled
  <2> QED
    BY <1>1, <1>6, <2>1 DEF LookUp, Complete
<1>7. CASE OrgKnown
  <2>1. ~Sampled'
    BY <1>7 DEF OrgKnown, Send, Request, Located, Sampled
  <2>2. platform' \in {"cloud", "tiup-cluster"}
    BY <1>7, PlatformIsKnown DEF OrgKnown
  <2>3. \/ pc' = "done"
        \/ /\ pc' \in FirstRequests
           /\ pc' = "ngm_samples" =>
                platform' = "cloud" /\ job.command = "slowquery" /\ WantsSamples
    <3>1. "ngm_samples" \in CloudRequests
      BY DEF CloudRequests, NGMRequests
    <3> QED
      BY <1>7, <2>2, <3>1, FirstRequestSuits DEF OrgKnown, TypeInv, Phase
  <2>4. UNCHANGED <<job, config, samples>>
    BY <1>7 DEF OrgKnown, Send, samples
  <2> QED
    BY <1>1, <2>1, <2>3, <2>4 DEF Complete, FirstRequests
<1>8. CASE Refuse
  BY <1>1, <1>2, <1>8 DEF Refuse, Complete
<1>9. CASE RequestFails \/ Gated \/ Tokened \/ Catalogued \/ Ensured \/ Answered
             \/ Processing
  <2>1. Send /\ UNCHANGED <<job, config, found, samples>>
    BY <1>9 DEF RequestFails, Gated, Tokened, Catalogued, Ensured, Answered, Processing,
                Send
  <2>2. Fetched' /\ (Sampled' <=> Sampled \/ pc = "ngm_samples")
    BY <1>1, <2>1, SampledNext
  <2>3. CASE RequestFails
    BY <2>1, <2>2, <2>3 DEF RequestFails, Complete
  <2>4. CASE Processing
    BY <2>1, <2>2, <2>4 DEF Processing, Complete, TypeInv, TypeOK
  <2>5. CASE Gated \/ Tokened \/ Catalogued \/ Ensured \/ Answered
    <3>1. pc \notin {"ngm_samples", "ngm_detail", "wait", "deliver", "done"}
      BY <2>5 DEF Gated, Tokened, Catalogued, Ensured, Answered
    <3>2. ~Sampled'
      BY <2>2, <3>1 DEF Complete
    <3>3. pc' \notin {"ngm_samples", "ngm_detail"}
      BY <2>5 DEF Gated, Tokened, Catalogued, Ensured, Answered
    <3> QED
      BY <2>2, <3>2, <3>3 DEF Complete
  <2> QED
    BY <1>9, <2>3, <2>4, <2>5
<1>10. CASE SamplesListed
  <2>1. Fetched'
    <3>1. Len(<<>>) = 0 /\ listed' \in Seq(Samples) /\ details' = <<>>
      BY <1>10, ListingsAssumption DEF SamplesListed
    <3> QED
      BY <3>1 DEF Fetched
  <2>2. /\ Send /\ UNCHANGED <<job, config, platform, outcome>>
        /\ pc = "ngm_samples" /\ pc' = "ngm_detail"
    BY <1>10 DEF SamplesListed, Send
  <2> QED
    BY <2>1, <2>2 DEF Complete, TypeInv, TypeOK
<1>11. CASE Detailed
  <2>1. Fetched'
    <3>1. /\ Len(details) < Len(listed) /\ listed[Len(details) + 1].located
          /\ details' = Append(details, listed[Len(details) + 1].name)
          /\ listed' = listed
      BY <1>11 DEF Detailed, NextIsLocated
    <3>2. listed \in Seq(Samples) /\ details \in Seq(STRING)
      BY DEF TypeInv, TypeOK
    <3>3. \A i \in 1 .. Len(details) : listed[i].located /\ details[i] = listed[i].name
      BY DEF Complete, Fetched
    <3>4. /\ Len(details') <= Len(listed)
          /\ \A i \in 1 .. Len(details') :
               listed[i].located /\ details'[i] = listed[i].name
      BY <3>1, <3>2, <3>3, OneMore
    <3> QED
      BY <3>1, <3>4 DEF Fetched
  <2>2. /\ Send /\ UNCHANGED <<job, config, platform, outcome>>
        /\ pc = "ngm_detail" /\ pc' = "ngm_detail"
    BY <1>11 DEF Detailed, Send
  <2> QED
    BY <2>1, <2>2, SampledNext DEF Complete, TypeInv, TypeOK
<1>12. CASE Unlocated
  BY <1>1, <1>2, <1>12 DEF Unlocated, Complete, samples
<1>13. CASE AllDetailed
  BY <1>1, <1>2, <1>13 DEF AllDetailed, Complete, samples, TypeInv, TypeOK
<1>14. CASE WaitEnds
  BY <1>1, <1>2, <1>14, FirstRequestIs DEF WaitEnds, Complete, TypeInv, TypeOK, Phase
<1>15. CASE Deliver
  BY <1>1, <1>2, <1>15 DEF Deliver, Complete, samples
<1> QED
  BY <1>3, <1>4, <1>5, <1>6, <1>7, <1>8, <1>9, <1>10, <1>11, <1>12, <1>13, <1>14, <1>15
     DEF Next

\* Samples are returned all or not at all, whatever had been fetched before a
\* repetition.
THEOREM SamplesComplete == Spec => []SamplesAreComplete
<1>1. Complete => SamplesAreComplete
  BY DEF Complete, Fetched, Sampled, SamplesAreComplete
<1> QED
  BY <1>1, TypeInvInit, TypeInvNext, ConfiguredInit, ConfiguredNext, LocatedInit,
     LocatedNext, CompleteInit, CompleteNext, PTL DEF Spec
===============================================================================
