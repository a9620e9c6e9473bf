---------------------------- MODULE MCClusterCommand ----------------------------
(***************************************************************************)
(* Instance of ClusterCommand for TLC.  The jobs vary one thing at a time: *)
(* the portal URL, the options, the record that is found, its gaps, and    *)
(* what else the lookup finds.                                             *)
(***************************************************************************)
EXTENDS ClusterCommand

Partial(names, values) == UNION {[given_names -> values] : given_names \in SUBSET names}
Nothing == [o \in {} |-> ""]

\* Portal URLs.
Route(segs, from, to) == [segs |-> segs, from |-> from, to |-> to, legible |-> TRUE]
Slash == Route(<<"">>, 0, 0)
ClusterRoute(o, c, from, to) == Route(<<"orgs", o, "clusters", c>>, from, to)
Portal == Route(<<"portal">>, 0, 0)
URL(scheme, cn, path, fragment) ==
  [given |-> TRUE, scheme |-> scheme, cn |-> cn, path |-> path,
   hasFragment |-> fragment # Route(<<>>, 0, 0), fragment |-> fragment]
PlainURL == URL("https", FALSE, Portal, ClusterRoute("o1", "c1", 95, 98))

Ranges == {<<0, 0>>, <<95, 0>>, <<0, 98>>, <<0, 5>>, <<97, 93>>}
Paths ==
  {Portal, Route(<<>>, 0, 0), Route(<<"a", "portal", "x">>, 90, 0),
   ClusterRoute("o2", "c2", 91, 92)}
Fragments ==
  {ClusterRoute("o1", "c1", r[1], r[2]) : r \in Ranges}
    \union {Route(<<>>, 0, 0), Slash, Route(<<>>, 94, 0), Route(<<"orgs", "o1", "overview">>, 0, 96),
            Route(<<"clusters", "c1">>, 0, 0),
            [ClusterRoute("o1", "c1", 0, 0) EXCEPT !.legible = FALSE]}
URLs ==
  {URL("https", cn, path, fragment) : cn \in BOOLEAN, path \in Paths, fragment \in Fragments}
    \union {[PlainURL EXCEPT !.scheme = s] : s \in {"", "ftp"}}
    \union {[PlainURL EXCEPT !.given = FALSE]}

\* Records.
Cloud(id) == Record(id, "cloud", "dedicated", "", "", "r1", "t1", "here", FALSE, "active")
OP(id) == Record(id, "tidb-cluster", "", "", "", "r1", "", "", FALSE, "")
Hits(c) == [hits |-> <<c>>, orgType |-> ""]
Records ==
  {Record("c1", type, deploy, deployV2, parent, "r1", "t1", "here", FALSE, "active") :
     type \in {"", "cloud", "tidb-cluster"},
     deploy \in {"", "dedicated", "shared", "premium", "tiup-cluster", "k8s"},
     deployV2 \in {"", "premium", "tiup-cluster"},
     parent \in {"", "p1"}}
Flawed ==
  LET Flaws(c) ==
        {[c EXCEPT !.org = ""], [c EXCEPT !.tenant = ""], [c EXCEPT !.place = ""],
         [c EXCEPT !.deploy = "", !.deployV2 = "dedicated"],
         [c EXCEPT !.deletedAt = TRUE], [c EXCEPT !.status = "deleted"], c}
  IN Flaws(Cloud("c1")) \union Flaws(OP("c1"))
HitLists ==
  LET c == Cloud("c1")  x == Cloud("c11")  again == OP("c1")
  IN {<<>>, <<x, c>>, <<x, x, c>>, <<c, again>>, <<x>>, <<c, x, again>>}

\* Jobs.
Env == [o \in {"api_key", "cn_api_key"} |-> "good"]
ProfileEnv == [o \in ProfileVariables |-> "good"] @@ Env
KeyEnv == [o \in {"key"} |-> "good"] @@ Env
EnvOf(command) ==
  IF command = "cloud-profilings.download" THEN ProfileEnv
  ELSE IF command \in FileDownloads THEN KeyEnv ELSE Env
Job(command, url, env, dotenv, flags) ==
  [command |-> command, url |-> url, env |-> env, dotenv |-> dotenv, flags |-> flags]
Plain(command) == Job(command, PlainURL, EnvOf(command), Nothing, Nothing)
Samples1 == [Plain("slowquery") EXCEPT !.flags = [o \in {"digest"} |-> "good"]]
Case(j, b) == [job |-> j, backend |-> b]

URLCases ==
  {Case([Plain(command) EXCEPT !.url = url],
        [hits |-> <<Cloud(c)>>, orgType |-> ""]) :
     command \in {"cluster", "cloud-oom-records.list"}, url \in URLs, c \in {"c1", "c2"}}
KeyCases ==
  {Case([Plain("cluster") EXCEPT !.url.cn = cn, !.env = env, !.dotenv = dotenv],
        Hits(Cloud("c1"))) :
     cn \in BOOLEAN,
     env \in Partial({"api_key", "cn_api_key"}, {"good"}),
     dotenv \in Partial({"cn_api_key", "probe_interval"}, {"good", "zero"})}
OptionCases ==
  LET Jobs(command, env, dotenv, flags) ==
        {Job(command, PlainURL, e @@ EnvOf(command), d, f) :
           e \in env, d \in dotenv, f \in flags}
  IN {Case(j, Hits(Cloud("c1"))) : j \in
        Jobs("slowquery", Partial({"digest", "limit"}, {"good", "bad"}),
             Partial({"legacy_limit", "limit", "desc"}, {"good", "bad"}),
             Partial({"digest", "order_by"}, {"", "good"}))
        \union Jobs("slowquery", {Nothing}, {Nothing},
                    Partial({"limit", "desc", "fields"}, {"zero", "good"}))
        \union Jobs("cloud-events.search", Partial({"name", "severity"}, {"good", "bad"}),
                    {Nothing}, Partial({"name", "severity"}, {"", "good", "bad"}))
        \union Jobs("cloud-logs.search",
                    Partial({"label", "query", "log_limit"}, {"good", "bad"}), {Nothing},
                    Partial({"label", "query", "direction"}, {"", "good"}))
        \union Jobs("metrics.compile", Partial({"description"}, {"good"}), {Nothing},
                    Partial({"description"}, {"", "good"}))}
ProfileCases ==
  {Case([Plain("cloud-profilings.download") EXCEPT !.env = e @@ Env], Hits(Cloud("c1"))) :
     e \in Partial(ProfileVariables, {"good"})
             \union {[o \in {"ts"} |-> v] @@ ProfileEnv : v \in {"bad", "zero"}}}
    \union {Case([Plain(command) EXCEPT !.env = Env], Hits(Cloud("c1"))) :
              command \in FileDownloads}
RecordCases ==
  {Case(j, [hits |-> <<c>>, orgType |-> orgType]) :
     j \in {Plain("metrics.query"), Plain("slowquery"), Samples1,
            Plain("op-pkgs.download"), Plain("cloud-events.search"),
            Plain("cloud-profilings.download"), Plain("cloud-plan-replayers.list")},
     c \in Records, orgType \in {"", "cloud", "op"}}
FlawCases ==
  {Case(Plain(command), Hits(c)) : command \in Commands, c \in Flawed}
HitCases ==
  {Case(Plain("slowquery"), [hits |-> hits, orgType |-> ""]) : hits \in HitLists}

MCCases ==
  URLCases \union KeyCases \union OptionCases \union ProfileCases \union RecordCases
    \union FlawCases \union HitCases

\* Listings of up to two samples, with and without their locators.
A == [name |-> "a", located |-> TRUE]
B == [name |-> "b", located |-> TRUE]
Bare == [name |-> "bare", located |-> FALSE]
MCListings == {<<>>, <<A>>, <<A, B>>, <<B, A>>, <<Bare>>, <<A, Bare>>}
===============================================================================
