----------------------------- MODULE ClusterTargets -----------------------------
(***************************************************************************)
(* What the client makes of a cluster record: which record a lookup means, *)
(* whether the cluster is a cloud or an OP one, how requests about it are  *)
(* routed and what they name, and which capabilities it has                *)
(* (src/internal/clinicapi/types.go, clusters.go and routing.go,           *)
(* src/internal/clinic/resolve.go, availability.go and target.go).         *)
(*                                                                         *)
(* Several fields of a record speak of the same thing: clusterType,        *)
(* clusterDeployType, clusterDeployTypeV2 and the type of the organization.*)
(* Each decision below reads some of them, in an order of its own.         *)
(*                                                                         *)
(* A field is "" when it is absent or blank: every use trims it, and the   *)
(* case of types is ignored.  place stands for the provider, the region and*)
(* the project id, which are only ever used together.                      *)
(***************************************************************************)
EXTENDS Naturals, Sequences

\* A record of the lookup (CloudCluster).
Record(id, type, deploy, deployV2, parent, org, tenant, place, deletedAt, status) ==
  [id |-> id, type |-> type, deploy |-> deploy, deployV2 |-> deployV2,
   parent |-> parent, org |-> org, tenant |-> tenant, place |-> place,
   deletedAt |-> deletedAt, status |-> status]

NoCluster == Record("", "", "", "", "", "", "", "", FALSE, "")

CloudTiers ==
  {"dedicated", "shared", "starter", "essential", "premium", "byoc",
   "resource_pool", "premium_resource_pool", "byoc_resource_pool"}

-------------------------------------------------------------------------------
\* The records of the first page that are exactly the cluster looked for.
\* The backend searches the text; the client compares the ids.
ExactMatches(hits, id, limit) ==
  {i \in 1 .. Len(hits) : i <= limit /\ hits[i].id = id}

-------------------------------------------------------------------------------
\* The newer deploy type, or else the older one.
NormalizedDeployType(c) == IF c.deployV2 # "" THEN c.deployV2 ELSE c.deploy

\* Mutant: the deploy type of an OP cluster is forgotten.
RoutingTypeOfCloudOnly(c) == IF c.type = "tidb-cluster" THEN "op" ELSE "cloud"

\* The organization type that the requests carry: "cloud" unless the record
\* says that the cluster is an OP one.
RoutingOrgType(c) ==
  CASE c.type = "cloud" -> "cloud"
    [] c.type = "tidb-cluster" -> "op"
    [] OTHER -> IF NormalizedDeployType(c) = "tiup-cluster" THEN "op" ELSE "cloud"

\* The platform, which decides what a command does: by the cluster's type,
\* the organization's, the deploy type.  A deploy type that is unknown makes
\* an OP cluster, none at all a cloud one.
Platform(c, orgType) ==
  CASE c.type = "cloud" -> "cloud"
    [] c.type = "tidb-cluster" -> "tiup-cluster"
    [] c.type \notin {"cloud", "tidb-cluster"} /\ orgType = "cloud" -> "cloud"
    [] c.type \notin {"cloud", "tidb-cluster"} /\ orgType = "op" -> "tiup-cluster"
    [] OTHER -> IF NormalizedDeployType(c) \in CloudTiers \union {""}
                  THEN "cloud" ELSE "tiup-cluster"

\* Whether a slow query may skip the wait for the bundle.
IsCloudContext(c) == RoutingOrgType(c) = "cloud" \/ c.type = "cloud"

Deleted(c) == c.deletedAt \/ c.status = "deleted"

IsSharedTier(c) == NormalizedDeployType(c) \in {"shared", "starter", "essential"}

-------------------------------------------------------------------------------
\* What a request names.  Requests of the data plane and of the control plane
\* carry the ids of the record, those to the NGM services the tenant's
\* (routingHeaders, clusterDetailEndpoint, ngmHeaders).
ContextTarget(c) == [org |-> c.org, cluster |-> c.id, place |-> "", deploy |-> ""]
NGMTarget(c) == [org |-> c.tenant, cluster |-> c.id, place |-> c.place,
                 deploy |-> c.deploy]

\* Profiles and diagnostics of premium and byoc clusters are with the parent.
\* Without a parent the error is dropped, and the cluster itself is asked.
AtParent(c) == NormalizedDeployType(c) \in {"premium", "byoc"} /\ c.parent # ""

\* Mutant: only the older deploy type is looked at.
ParentOfOldType(c) ==
  IF c.deploy \in {"premium", "byoc"} /\ c.parent # ""
    THEN [NGMTarget(c) EXCEPT !.cluster = c.parent]
    ELSE NGMTarget(c)

ProfilingTarget(c) ==
  IF AtParent(c) THEN [NGMTarget(c) EXCEPT !.cluster = c.parent] ELSE NGMTarget(c)

\* Logs are found by the cluster's id alone.
LogsTarget(c) == [org |-> "", cluster |-> c.id, place |-> "", deploy |-> ""]

\* What the client insists on before it sends a request.
ValidContext(t) == t.org # "" /\ t.cluster # ""
ValidNGMTarget(t) ==
  t.org # "" /\ t.cluster # "" /\ t.place # "" /\ t.deploy # ""
ValidLogsTarget(t) == t.cluster # ""
===============================================================================
