----------------------------- MODULE ClusterCommand -----------------------------
(***************************************************************************)
(* One command of the command line, from what it is told to what it leaves *)
(* behind: load the configuration, build the client, resolve the cluster   *)
(* the portal URL names, check that the command is for such a cluster, send*)
(* the command's requests, print the answer or write the file              *)
(* (src/internal/cli/runner.go and output.go, src/internal/clinic, and the *)
(* requests of src/internal/clinicapi).                                    *)
(*                                                                         *)
(* A request and its reply are one step: what the transport does for it is *)
(* in Transport, the wait until a bundle is readable in CatalogReadiness,  *)
(* the choice of the bundle in DataSelection, the parts of a metrics query *)
(* in MetricsAutoSplit, the display in CollectedCommand.  Here it is the   *)
(* order of the requests that counts, what each one names, and what is made*)
(* of the replies.                                                         *)
(***************************************************************************)
EXTENDS ClusterTargets, CommandLine

CONSTANTS
  Cases,      \* the jobs given, each with the records the backend holds
  Listings,   \* the replies to a listing of samples: sequences of Samples
  PageLimit   \* how many hits of a lookup are on the page that is read

\* A sample of a listing: with a connection id and a timestamp, or without.
Samples == [name : STRING, located : BOOLEAN]

ASSUME PageAssumption == PageLimit \in Nat
\* The variables of a profile or a file have no flags.
ASSUME CasesAssumption ==
  \A case \in Cases :
    /\ case.job.command \in Commands
    /\ DOMAIN case.job.flags \intersect (ProfileVariables \union {"key"}) = {}
    /\ Len(case.backend.hits) \in Nat
ASSUME ListingsAssumption == \A listing \in Listings : listing \in Seq(Samples)

VARIABLES
  job,        \* [command, url, env, dotenv, flags]
  backend,    \* [hits, orgType]: what a lookup finds, the organization's type
  pc,         \* the request to send next, or the phase of the command
  config,     \* the configuration, once it is loaded
  cluster,    \* the record that was found
  platform,   \* "cloud" or "tiup-cluster", once the cluster is resolved
  sent,       \* history: the requests sent
  listed,     \* the samples of the last listing
  details,    \* the names of the samples whose details have come, in order
  written,    \* the file: "no", "partly" or "yes"
  outcome     \* "running", "ok", or how the command failed

given == <<job, backend>>
found == <<cluster, platform>>
samples == <<listed, details>>
vars == <<given, pc, config, found, sent, samples, written, outcome>>

Init ==
  /\ \E case \in Cases : job = case.job /\ backend = case.backend
  /\ pc = "load"
  /\ config = NoConfig
  /\ cluster = NoCluster
  /\ platform = ""
  /\ sent = {}
  /\ listed = <<>>
  /\ details = <<>>
  /\ written = "no"
  /\ outcome = "running"

-------------------------------------------------------------------------------
MetricsCommands == {"metrics.query", "metrics.compile"}
BundleCommands == {"op-pkgs.list", "op-pkgs.download"}
ProfilingCommands == {"cloud-profilings.list", "cloud-profilings.download"}
DiagnosticsCommands ==
  {"cloud-plan-replayers.list", "cloud-oom-records.list"} \union FileDownloads
DedicatedCommands == ProfilingCommands \union DiagnosticsCommands
Downloads == {"op-pkgs.download", "cloud-profilings.download"} \union FileDownloads

\* With a digest, slowquery fetches samples instead of records.
WantsSamples == config.options["digest"].value # ""

\* Where the requests go.
NGMRequests ==
  {"ngm_slow_query", "ngm_samples", "ngm_detail", "profile_list", "token",
   "profile_file", "plan_list", "oom_list", "diagnostic_file"}
CloudRequests == NGMRequests \union {"gates", "loki", "events"}
BundleRequests == {"catalog", "ensure", "slow_query", "download"}
Requests ==
  {"lookup", "org", "cluster_detail", "metrics"} \union CloudRequests
    \union BundleRequests

\* The first request of a command, once its cluster is resolved.  Both kinds of
\* files are downloaded from the service of the OOM records.
FirstRequest(where) ==
  CASE job.command \in MetricsCommands -> "metrics"
    [] job.command \in BundleCommands -> "catalog"
    [] job.command = "slowquery" ->
         IF where # "cloud" THEN "catalog"
         ELSE IF WantsSamples THEN "ngm_samples" ELSE "ngm_slow_query"
    [] job.command = "cloud-events.search" -> "events"
    [] job.command = "cloud-logs.search" -> "loki"
    [] job.command \in ProfilingCommands -> "gates"
    [] job.command = "cloud-plan-replayers.list" -> "plan_list"
    [] job.command = "cloud-oom-records.list" -> "oom_list"
    [] job.command \in FileDownloads -> "diagnostic_file"

\* What is refused for the cluster found: metrics and logs of a deleted one, logs,
\* files and events of an OP one, files of a shared tier, bundles of a cloud one.
\* Events, slow queries and bundles are to be had of deleted clusters too.
NoMetrics(c) == Deleted(c)
NoLogs(c, where) == Deleted(c) \/ where # "cloud"
NoFiles(c, where) == Deleted(c) \/ where # "cloud" \/ IsSharedTier(c)
NoEvents(where) == where # "cloud"
NoBundles(where) == where # "tiup-cluster"

Unsupported(c, where) ==
  \/ job.command \in MetricsCommands /\ NoMetrics(c)
  \/ job.command = "cloud-logs.search" /\ NoLogs(c, where)
  \/ job.command \in DedicatedCommands /\ NoFiles(c, where)
  \/ job.command = "cloud-events.search" /\ NoEvents(where)
  \/ job.command \in BundleCommands /\ NoBundles(where)

\* Profiles and diagnostics may be with the parent; slow queries are not.
NGMTargetOf(request) ==
  IF request \in {"ngm_slow_query", "ngm_samples", "ngm_detail"}
    THEN NGMTarget(cluster) ELSE ProfilingTarget(cluster)

\* The lookup names the cluster only, the request for its organization the
\* organization only; "cluster" is answered without resolving anything.
TargetOf(request) ==
  CASE request = "lookup" ->
         [org |-> "", cluster |-> config.cluster, place |-> "", deploy |-> ""]
    [] request = "org" ->
         [org |-> cluster.org, cluster |-> "", place |-> "", deploy |-> ""]
    [] request = "cluster_detail" ->
         [org |-> config.org, cluster |-> config.cluster, place |-> "", deploy |-> ""]
    [] request = "loki" -> LogsTarget(cluster)
    [] request \in NGMRequests -> NGMTargetOf(request)
    [] OTHER -> ContextTarget(cluster)

\* Requests that the client refuses unless the range starts after 1970.
Ranged ==
  {"metrics", "slow_query", "ngm_slow_query", "ngm_samples", "profile_list",
   "plan_list", "oom_list", "events", "loki"}

ValidRequest(request) ==
  /\ request \in Ranged => config.start > 0
  /\ request = "token" => config.options["ts"].value = "good"
  /\ CASE request = "lookup" -> TargetOf(request).cluster # ""
       [] request = "org" -> TargetOf(request).org # ""
       [] request = "loki" -> ValidLogsTarget(TargetOf(request))
       [] request \in NGMRequests -> ValidNGMTarget(TargetOf(request))
       [] OTHER -> ValidContext(TargetOf(request))

\* A request as the backend sees it.
Request(request) ==
  [endpoint |-> request, target |-> TargetOf(request), key |-> config.key,
   host_cn |-> config.host_cn]

-------------------------------------------------------------------------------
\* The client goes on with the request named next; the command returns.
GoTo(next) == pc' = next /\ UNCHANGED outcome
Return(how) == pc' = "done" /\ outcome' = how

Load ==
  /\ pc = "load"
  /\ IF LoadRefused(job)
       THEN Return("not_configured") /\ UNCHANGED config
       ELSE GoTo("connect") /\ config' = Config(job)
  /\ UNCHANGED <<given, found, sent, samples, written>>

\* Of what MergeConfig yields here, Valid can only object to the scheme.
InvalidConfig == config.scheme \notin {"http", "https"}

\* NewClientWithConfig.
Connect ==
  /\ pc = "connect"
  /\ IF InvalidConfig THEN Return("not_configured")
     ELSE GoTo(IF job.command = "cluster" THEN "cluster_detail" ELSE "lookup")
  /\ UNCHANGED <<given, config, found, sent, samples, written>>

\* The bundle that was selected may lack the id or the range these requests
\* need; DataSelection says when.
NeedsBundle ==
  \/ pc \in {"ensure", "download"}
  \/ pc = "slow_query" /\ ~IsCloudContext(cluster)

\* The client refuses to send the next request.
Refuse ==
  /\ pc \in Requests \ {"ngm_detail"}
  /\ ~ValidRequest(pc) \/ NeedsBundle
  /\ Return("invalid_request")
  /\ UNCHANGED <<given, config, found, sent, samples, written>>

\* The details of the next sample can be asked for.
NextIsLocated == Len(details) < Len(listed) /\ listed[Len(details) + 1].located

\* The next request is sent and answered.
Send ==
  /\ pc \in Requests
  /\ ValidRequest(pc)
  /\ sent' = sent \union {Request(pc)}
  /\ UNCHANGED <<given, config, written>>

\* It fails, or its reply cannot be used: metrics and Loki may also answer with
\* a status other than success.
RequestFails ==
  /\ Send
  /\ pc = "ngm_detail" => NextIsLocated
  /\ Return("failed")
  /\ UNCHANGED <<found, samples>>

\* Mutant: the first exact match is as good as any.
LookUpFirst ==
  /\ pc = "lookup"
  /\ Send
  /\ LET exact == ExactMatches(backend.hits, config.cluster, PageLimit)
     IN IF exact = {} THEN Return("not_found") /\ UNCHANGED cluster
        ELSE GoTo("org")
             /\ cluster' = backend.hits[CHOOSE i \in exact : \A j \in exact : i <= j]
  /\ UNCHANGED <<platform, samples>>

\* GetCluster: the one record of the page that has the id.
LookUp ==
  /\ pc = "lookup"
  /\ Send
  /\ LET exact == ExactMatches(backend.hits, config.cluster, PageLimit)
     IN \/ exact = {} /\ Return("not_found") /\ UNCHANGED cluster
        \/ \E i \in exact : exact = {i} /\ GoTo("org") /\ cluster' = backend.hits[i]
        \/ exact # {} /\ (\A i \in exact : exact # {i})
             /\ Return("invalid_request") /\ UNCHANGED cluster
  /\ UNCHANGED <<platform, samples>>

\* GetOrg: the cluster is resolved, and the command's capability checked.
OrgKnown ==
  /\ pc = "org"
  /\ Send
  /\ platform' = Platform(cluster, backend.orgType)
  /\ IF Unsupported(cluster, platform') THEN Return("unsupported")
     ELSE GoTo(FirstRequest(platform'))
  /\ UNCHANGED <<cluster, samples>>

\* GetClusterDetail: only a gate that is known and off keeps the profiles back.
Gated ==
  /\ pc = "gates"
  /\ Send
  /\ \/ Return("unsupported")
     \/ GoTo(IF job.command = "cloud-profilings.list" THEN "profile_list" ELSE "token")
  /\ UNCHANGED <<found, samples>>

\* profileToken: a reply without a token ends in a refusal of the download.
Tokened ==
  /\ pc = "token"
  /\ Send
  /\ GoTo("profile_file") \/ Return("invalid_request")
  /\ UNCHANGED <<found, samples>>

\* ListCatalogData and selectCatalogItem, which may find nothing that suits.
Catalogued ==
  /\ pc = "catalog"
  /\ Send
  /\ IF job.command = "op-pkgs.list" THEN GoTo("deliver")
     ELSE \/ GoTo(IF job.command = "slowquery" /\ IsCloudContext(cluster)
                    THEN "slow_query" ELSE "ensure")
          \/ Return("failed")
  /\ UNCHANGED <<found, samples>>

\* EnsureCatalogDataReadable returns nil.
Ensured ==
  /\ pc = "ensure"
  /\ Send
  /\ GoTo(IF job.command = "slowquery" THEN "slow_query" ELSE "download")
  /\ UNCHANGED <<found, samples>>

\* The samples of a cloud cluster are listed: a reply in a shape that is not
\* known counts as one sample without a locator.
SamplesListed ==
  /\ pc = "ngm_samples"
  /\ Send
  /\ listed' \in Listings
  /\ details' = <<>>
  /\ GoTo("ngm_detail")
  /\ UNCHANGED found

\* The details are fetched sample by sample; the first that lacks its locator
\* makes the command fail.
Detailed ==
  /\ pc = "ngm_detail"
  /\ NextIsLocated
  /\ Send
  /\ details' = Append(details, listed[Len(details) + 1].name)
  /\ UNCHANGED <<found, listed, pc, outcome>>

\* Mutant: what has come by then is returned.
UnlocatedEndsTheList ==
  /\ pc = "ngm_detail"
  /\ Len(details) < Len(listed)
  /\ ~listed[Len(details) + 1].located
  /\ GoTo("deliver")
  /\ UNCHANGED <<given, config, found, sent, samples, written>>

Unlocated ==
  /\ pc = "ngm_detail"
  /\ Len(details) < Len(listed)
  /\ ~listed[Len(details) + 1].located
  /\ Return("invalid_request")
  /\ UNCHANGED <<given, config, found, sent, samples, written>>

AllDetailed ==
  /\ pc = "ngm_detail"
  /\ Len(details) = Len(listed)
  /\ GoTo("deliver")
  /\ UNCHANGED <<given, config, found, sent, samples, written>>

\* Mutant: the query is repeated at once.
ProcessingWithoutWait ==
  /\ pc \in {"slow_query", "ngm_slow_query", "ngm_samples", "ngm_detail"}
  /\ pc = "ngm_detail" => NextIsLocated
  /\ Send
  /\ GoTo(IF platform = "cloud" THEN FirstRequest(platform) ELSE "slow_query")
  /\ UNCHANGED <<found, samples>>

\* "The log is processing": the query, with all its details, is to be repeated.
Processing ==
  /\ pc \in {"slow_query", "ngm_slow_query", "ngm_samples", "ngm_detail"}
  /\ pc = "ngm_detail" => NextIsLocated
  /\ Send
  /\ GoTo("wait")
  /\ UNCHANGED <<found, samples>>

\* The query starts anew.
WaitEnds ==
  /\ pc = "wait"
  /\ GoTo(IF platform = "cloud" THEN FirstRequest(platform) ELSE "slow_query")
  /\ UNCHANGED <<given, config, found, sent, samples, written>>

\* The last request of the command is answered.
Answered ==
  /\ pc \in {"cluster_detail", "metrics", "slow_query", "ngm_slow_query", "download",
             "events", "loki", "profile_list", "profile_file", "plan_list",
             "oom_list", "diagnostic_file"}
  /\ Send
  /\ GoTo("deliver")
  /\ UNCHANGED <<found, samples>>

\* The kernel's analysis may fail, and so may printing.  A file is written
\* first; what is left of it when that fails is not taken back.
Deliver ==
  /\ pc = "deliver"
  /\ \/ /\ job.command \in Downloads
        /\ written' \in {"no", "partly"}
        /\ Return("failed")
     \/ /\ written' = IF job.command \in Downloads THEN "yes" ELSE "no"
        /\ Return("ok") \/ Return("failed")
  /\ UNCHANGED <<given, config, found, sent, samples>>

Finished == pc = "done" /\ UNCHANGED vars

Next ==
  \/ Load \/ Connect \/ Refuse \/ RequestFails \/ LookUp \/ OrgKnown \/ Gated
  \/ Tokened \/ Catalogued \/ Ensured \/ SamplesListed \/ Detailed \/ Unlocated
  \/ AllDetailed \/ Processing \/ WaitEnds \/ Answered \/ Deliver \/ Finished

Spec == Init /\ [][Next]_vars

\* The program takes the steps that are its own.  A request that was sent may
\* stay without an answer for ever: the commands run on context.Background(), and
\* the http.Client has no timeout.
Program ==
  \/ Load \/ Connect \/ Unlocated \/ AllDetailed \/ WaitEnds \/ Deliver
  \/ Refuse /\ ~ValidRequest(pc)

FairSpec == Spec /\ WF_vars(Program)

-------------------------------------------------------------------------------
Phases == Requests \union {"load", "connect", "wait", "deliver", "done"}
Outcomes ==
  {"running", "ok", "not_configured", "invalid_request", "not_found", "unsupported",
   "failed"}

\* The types of the variables.  A command is done when its outcome is told.
TypeOK ==
  /\ pc \in Phases
  /\ platform \in {"", "cloud", "tiup-cluster"}
  /\ listed \in Seq(Samples)
  /\ details \in Seq(STRING)
  /\ written \in {"no", "partly", "yes"}
  /\ outcome \in Outcomes
  /\ pc = "done" <=> outcome # "running"

\* Every request is about the cluster the portal URL names: by its own id, or
\* by its parent's where profiles and diagnostics of a premium or byoc cluster
\* are with the parent.  Once it is resolved, the organization is the record's
\* (to the NGM services, its tenant), and not the URL's.  (That metrics are asked
\* for a second time under the parent's label is in MetricsAutoSplit: TryParent.)
ParentKeepsFiles(c) ==
  /\ \/ c.deployV2 \in {"premium", "byoc"}
     \/ c.deployV2 = "" /\ c.deploy \in {"premium", "byoc"}
  /\ c.parent # ""
RequestsReachTheCluster ==
  \A r \in sent :
    /\ r.target.cluster =
         IF r.endpoint = "org" THEN ""
         ELSE IF r.endpoint \in NGMRequests \ {"ngm_slow_query", "ngm_samples", "ngm_detail"}
                 /\ ParentKeepsFiles(cluster)
           THEN cluster.parent ELSE config.cluster
    /\ r.target.org =
         IF r.endpoint \in {"lookup", "loki"} THEN ""
         ELSE IF r.endpoint = "cluster_detail" THEN config.org
         ELSE IF r.endpoint \in NGMRequests THEN cluster.tenant
         ELSE cluster.org
    /\ r.key = IF r.host_cn THEN "cn_api_key" ELSE "api_key"

\* A cluster that a command works on is the only record of the page with its
\* id; that there is none is told only if no hit has the id, unless the search
\* had more hits than the page that is read.
OneMatchOnly ==
  LET same == {i \in 1 .. Len(backend.hits) : backend.hits[i].id = config.cluster}
      page == {i \in same : i <= PageLimit}
  IN /\ cluster # NoCluster => \E i \in page : page = {i} /\ cluster = backend.hits[i]
     /\ outcome = "not_found" => same = {} \/ Len(backend.hits) > PageLimit

\* Cloud services are asked about cloud clusters only, and collected data about
\* OP clusters only.  The slow queries of a cluster whose record says that it is
\* an OP one are asked for after the wait for the bundle; the wait goes by other
\* fields than the platform, and only contradictory records skip it.
SaysOP(c) ==
  \/ c.type = "tidb-cluster"
  \/ c.type # "cloud" /\ c.deployV2 = "tiup-cluster"
  \/ c.type # "cloud" /\ c.deployV2 = "" /\ c.deploy = "tiup-cluster"
PlatformsStayApart ==
  \A r \in sent :
    /\ r.endpoint \in CloudRequests => platform = "cloud"
    /\ r.endpoint \in BundleRequests => platform = "tiup-cluster"
    /\ r.endpoint = "slow_query" /\ SaysOP(cluster) =>
         \E s \in sent : s.endpoint = "ensure"

\* Samples are returned all or not at all: the details of every sample of the
\* last listing, in its order, whatever had been fetched before a repetition.
SamplesAreComplete ==
  outcome = "ok" /\ (\E r \in sent : r.endpoint = "ngm_samples") =>
    /\ Len(details) = Len(listed)
    /\ \A i \in 1 .. Len(listed) : listed[i].located /\ details[i] = listed[i].name

\* The two parsers of the portal URL agree: cluster, organization and range are
\* of one route of it, unless its fragment leads to another page than a
\* cluster's while its path is a cluster's.
LeadsElsewhere(url) ==
  url.hasFragment /\ url.fragment.segs # <<>> /\ ~IsClusterRoute(url.fragment)
OneRoute ==
  config.loaded /\ ~LeadsElsewhere(job.url) =>
    \E route \in {job.url.path, job.url.fragment} :
      /\ config.cluster = SegmentAfter(route.segs, "clusters")
      /\ config.org = SegmentAfter(route.segs, "orgs")
      /\ route.from > 0 => config.start = route.from
      /\ route.to > 0 => config.end = route.to

\* What a flag says is what is used, and a group of options that is given by
\* flags takes nothing from the environment; the lines of a query and the values
\* of a label are never asked for at once.
FlagsDecide ==
  config.loaded =>
    LET options == config.options
        From(group, by) == \E o \in group \intersect DOMAIN options : options[o].by \in by
    IN /\ \A o \in DOMAIN options \intersect DOMAIN job.flags :
            options[o] = [by |-> "flag", value |-> job.flags[o]]
       /\ \A group \in {{"name", "severity"}, LogQueryGroup} :
            ~(From(group, {"flag"}) /\ From(group, {"env"}))
       /\ ~(From({"label"}, {"flag", "env"}) /\ From(LogQueryGroup, {"flag", "env"}))

\* There are two ways for a command not to end: one request that was sent never
\* comes to an end, or the backend says again and again that the log is
\* processing, and then it waits again and again
\* (waitForSlowQueryProcessing and the loops around it).
Unanswered(request) ==
  pc = request /\ ValidRequest(request) /\ (request = "ngm_detail" => NextIsLocated)
CommandEnds ==
  \/ <>(pc = "done")
  \/ []<>(pc = "wait")
  \/ \E request \in Requests : <>[]Unanswered(request)
===============================================================================
