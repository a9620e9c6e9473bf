------------------------------ MODULE CommandLine -------------------------------
(***************************************************************************)
(* What a command is told: the portal URL, the environment with the .env   *)
(* file below it, and the command's flags (src/internal/cli/config_*.go,   *)
(* the flag bindings of root.go, and src/portal_url.go).                   *)
(*                                                                         *)
(* The environment, the .env file and the flags are partial functions from *)
(* the names of the options to values, which are "good", "zero" (not       *)
(* positive, where a positive number is asked for), "bad" (does not parse) *)
(* or, for a flag, "" (blank).  A blank variable counts as absent          *)
(* everywhere, so that there is none.  What pflag refuses itself never gets*)
(* here: a flag is not "bad" unless it is a text that is checked later.    *)
(***************************************************************************)
EXTENDS Integers, Sequences, TLC

CONSTANTS
  Now,      \* the clock
  Window    \* defaultRangeWindow, ten minutes

ASSUME RangeAssumption == Now \in Nat /\ Window \in Nat /\ Window < Now

-------------------------------------------------------------------------------
(* The portal URL: [given, scheme, cn, path, hasFragment, fragment].  Its    *)
(* path, with the query, and its fragment are routes: [segs, from, to,       *)
(* legible], the segments of the path, 0 for a time that is not given, and   *)
(* whether the times given are numbers.  No segment is blank, but that a     *)
(* fragment whose path is "/" has the segments <<"">>, and one without a     *)
(* path has none: the two parsers tell them apart.                           *)

\* The segment that follows the first one that reads key, "" if there is none.
SegmentAfter(segs, key) ==
  LET at == {i \in 1 .. Len(segs) - 1 : segs[i] = key}
  IN IF at = {} THEN "" ELSE segs[1 + CHOOSE i \in at : \A j \in at : i <= j]

IsClusterRoute(route) == SegmentAfter(route.segs, "clusters") # ""

\* Mutant: the path is tried before the fragment.
PortalRoutePathFirst(url) ==
  IF IsClusterRoute(url.path) THEN url.path ELSE url.fragment

\* ParsePortalURL takes the cluster from the fragment, else from the path.
PortalRoute(url) ==
  IF url.hasFragment /\ IsClusterRoute(url.fragment) THEN url.fragment ELSE url.path

\* The command line takes the organization and the range from the fragment if
\* that has a path, be it "/", else from the URL.
CLIRoute(url) ==
  IF url.hasFragment /\ url.fragment.segs # <<>> THEN url.fragment ELSE url.path

\* The path of the API: what stands before "portal", or all of the path.
BasePath(segs) ==
  LET at == {i \in 1 .. Len(segs) : segs[i] = "portal"}
  IN IF segs # <<>> /\ segs[Len(segs)] = "portal"
       THEN SubSeq(segs, 1, Len(segs) - 1)
       ELSE IF at = {} THEN segs
       ELSE SubSeq(segs, 1, (CHOOSE i \in at : \A j \in at : i <= j) - 1)

RangeEnd(route) == IF route.to > 0 THEN route.to ELSE Now
RangeStart(route) == IF route.from > 0 THEN route.from ELSE RangeEnd(route) - Window

URLIsRefused(url) ==
  \/ ~url.given
  \/ url.scheme = ""
  \/ ~IsClusterRoute(PortalRoute(url))
  \/ ~CLIRoute(url).legible
  \/ SegmentAfter(CLIRoute(url).segs, "orgs") = ""
  \/ RangeEnd(CLIRoute(url)) < RangeStart(CLIRoute(url))

-------------------------------------------------------------------------------
\* A variable of the environment hides one of the .env file.
Environment(env, dotenv) == env @@ dotenv

\* The value of an option, and where it is from.
NotGiven == [by |-> "none", value |-> ""]
Default == [by |-> "default", value |-> "good"]
FromEnv(env, o) ==
  IF o \in DOMAIN env THEN [by |-> "env", value |-> env[o]] ELSE NotGiven
FromFlag(flags, o) ==
  IF o \in DOMAIN flags THEN [by |-> "flag", value |-> flags[o]] ELSE NotGiven
OrElse(first, second) == IF first.by = "none" THEN second ELSE first

NotPositive == {"zero", "bad"}

\* slowquery: each flag hides its variable, which must be well-formed even so.
\* Two variables have older names, and some options a default; an empty flag
\* takes the place of the default.
LimitVariable(env) == OrElse(FromEnv(env, "limit"), FromEnv(env, "legacy_limit"))
DescVariable(env) == OrElse(FromEnv(env, "desc"), FromEnv(env, "legacy_desc"))

\* Mutant: a variable hides the flag.
SlowQueryVariablesFirst(env, flags) ==
  [digest |-> OrElse(FromEnv(env, "digest"), FromFlag(flags, "digest")),
   order_by |-> OrElse(FromFlag(flags, "order_by"),
                       OrElse(FromEnv(env, "order_by"), Default)),
   limit |-> OrElse(FromFlag(flags, "limit"), OrElse(LimitVariable(env), Default)),
   desc |-> OrElse(FromFlag(flags, "desc"), DescVariable(env)),
   fields |-> OrElse(FromFlag(flags, "fields"), FromEnv(env, "fields"))]

SlowQueryOptions(env, flags) ==
  [digest |-> OrElse(FromFlag(flags, "digest"), FromEnv(env, "digest")),
   order_by |-> OrElse(FromFlag(flags, "order_by"),
                       OrElse(FromEnv(env, "order_by"), Default)),
   limit |-> OrElse(FromFlag(flags, "limit"), OrElse(LimitVariable(env), Default)),
   desc |-> OrElse(FromFlag(flags, "desc"), DescVariable(env)),
   fields |-> OrElse(FromFlag(flags, "fields"), FromEnv(env, "fields"))]

SlowQueryRefused(env, flags) ==
  \/ LimitVariable(env).value \in NotPositive
  \/ DescVariable(env).value = "bad"
  \/ FromFlag(flags, "limit").value = "zero"

\* A group of options is read from the flags as soon as one of them is given,
\* and then from nowhere else.
Group(names, env, flags) ==
  IF names \intersect DOMAIN flags # {}
    THEN [o \in names |-> FromFlag(flags, o)]
    ELSE [o \in names |-> FromEnv(env, o)]
Given(options) == \E o \in DOMAIN options : options[o].by # "none"

\* cloud-events search.
EventOptions(env, flags) == Group({"name", "severity"}, env, flags)
EventsRefused(env, flags) == EventOptions(env, flags)["severity"].value = "bad"

\* cloud-logs search: the values of a label, the lines of a query, or the
\* labels.  The limit is checked in a variable, not in a flag.
LogQueryGroup == {"query", "log_limit", "direction"}
LabelOption(env, flags) == OrElse(FromFlag(flags, "label"), FromEnv(env, "label"))
LogOptions(env, flags) ==
  [o \in {"label"} \union LogQueryGroup |->
     IF o = "label" THEN LabelOption(env, flags) ELSE Group(LogQueryGroup, env, flags)[o]]
LogsRefused(env, flags) ==
  LET label == LabelOption(env, flags)
      group == Group(LogQueryGroup, env, flags)
  IN \/ label.by = "flag" /\ label.value = ""
     \/ Given(group) /\ group["query"].value = ""
     \/ group["log_limit"].by = "env" /\ group["log_limit"].value \in NotPositive
     \/ label.by # "none" /\ Given(group)

\* metrics compile, cloud-profilings download, and the download of a plan
\* replayer's or an OOM record's file.
CompileOptions(env, flags) ==
  [description |-> OrElse(FromFlag(flags, "description"), FromEnv(env, "description"))]
ProfileVariables == {"ts", "profile_type", "component", "address"}
ProfileOptions(env) == [o \in ProfileVariables |-> FromEnv(env, o)]
ProfileRefused(env) == ~(ProfileVariables \subseteq DOMAIN env) \/ env["ts"] = "bad"
KeyOptions(env) == [key |-> FromEnv(env, "key")]
KeyRefused(env) == "key" \notin DOMAIN env

-------------------------------------------------------------------------------
FileDownloads == {"cloud-plan-replayers.download", "cloud-oom-records.download"}
Commands ==
  {"cluster", "metrics.query", "metrics.compile", "slowquery", "op-pkgs.list",
   "op-pkgs.download", "cloud-events.search", "cloud-logs.search",
   "cloud-profilings.list", "cloud-profilings.download",
   "cloud-plan-replayers.list", "cloud-oom-records.list"} \union FileDownloads

Options(command, env, flags) ==
  CASE command = "slowquery" -> SlowQueryOptions(env, flags)
    [] command = "cloud-events.search" -> EventOptions(env, flags)
    [] command = "cloud-logs.search" -> LogOptions(env, flags)
    [] command = "metrics.compile" -> CompileOptions(env, flags)
    [] command = "cloud-profilings.download" -> ProfileOptions(env)
    [] command \in FileDownloads -> KeyOptions(env)
    [] OTHER -> [o \in {} |-> NotGiven]

OptionsRefused(command, env, flags) ==
  \/ command = "slowquery" /\ SlowQueryRefused(env, flags)
  \/ command = "cloud-events.search" /\ EventsRefused(env, flags)
  \/ command = "cloud-logs.search" /\ LogsRefused(env, flags)
  \/ command = "cloud-profilings.download" /\ ProfileRefused(env)
  \/ command \in FileDownloads /\ KeyRefused(env)

\* The key goes by the host: one for hosts in .cn, one for the others.
KeyName(url) == IF url.cn THEN "cn_api_key" ELSE "api_key"

\* Loading fails before anything is sent.
LoadRefused(job) ==
  LET env == Environment(job.env, job.dotenv)
  IN \/ URLIsRefused(job.url)
     \/ KeyName(job.url) \notin DOMAIN env
     \/ FromEnv(env, "probe_interval").value \in NotPositive
     \/ OptionsRefused(job.command, env, job.flags)

NoConfig == [loaded |-> FALSE]

\* The configuration that is loaded otherwise.
Config(job) ==
  LET route == CLIRoute(job.url)
  IN [loaded |-> TRUE,
      scheme |-> job.url.scheme,
      host_cn |-> job.url.cn,
      base |-> BasePath(job.url.path.segs),
      key |-> KeyName(job.url),
      org |-> SegmentAfter(route.segs, "orgs"),
      cluster |-> SegmentAfter(PortalRoute(job.url).segs, "clusters"),
      start |-> RangeStart(route),
      end |-> RangeEnd(route),
      options |-> Options(job.command, Environment(job.env, job.dotenv), job.flags)]
===============================================================================
