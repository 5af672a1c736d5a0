--------------------------- MODULE ResourceAnalyzers ---------------------------
(***************************************************************************)
(* The analyzers of src/analyzers besides PodAnalyzer: what each of them   *)
(* makes of one object it lists and of what it reads about it, as a set    *)
(* of finding categories (of a category there is one finding per object    *)
(* after run_safe).                                                        *)
(*                                                                         *)
(* down is the set of API calls that raise while the object is looked at.  *)
(* Some analyzers take an answer that did not come for an empty one, some  *)
(* skip the check, and some raise, which makes run_safe return nothing.    *)
(***************************************************************************)
EXTENDS Integers, FiniteSets

CONSTANTS
    Objects,    \* the objects, with what the cluster holds about them
    NoSubject,
    Never       \* a time stamp or a measurement that is absent

Kinds == {"Node", "Deployment", "StatefulSet", "ReplicaSets", "Service", "Ingress", "PVC",
          "CronJob", "HPA", "PDB", "Namespace"}

\* Quantities are numbers, and the name of a StatefulSet's pod is made of the
\* set and the ordinal.
ASSUME ObjectsAssumption ==
    /\ NoSubject \notin Objects
    /\ \A x \in Objects :
          /\ x.kind \in Kinds
          /\ x.kind = "Deployment" =>
                /\ \A c \in x.containers \cup x.nodes : c.cpu \in Nat /\ c.memory \in Nat
                /\ IsFiniteSet(x.nodes)
          /\ x.kind = "StatefulSet" =>
                /\ IsFiniteSet(x.pods) /\ \A p \in x.pods : p.ordinal \in Nat
                /\ \A p, q \in x.pods : p.set = q.set /\ p.ordinal = q.ordinal => p = q

VARIABLES
    subject,  \* the object that was analyzed last
    down,
    findings

scanVars == <<subject, down, findings>>

\* The finding category c when condition p holds.
When(p, c) == IF p THEN {c} ELSE {}

Largest(S) == CHOOSE x \in S : \A y \in S : y <= x

-----------------------------------------------------------------------------
(* node_analyzer.py: a Node by conditions [type, status, age], the number  *)
(* of taints and the minor versions behind the control plane (Never when   *)
(* one is unknown)                                                         *)

Pressure ==
    [MemoryPressure |-> "node-memorypressure", DiskPressure |-> "node-diskpressure",
     PIDPressure |-> "node-pidpressure"]

NodeFindings(n) ==
    When(\E c \in n.conditions : c.type = "Ready" /\ c.status # "True", "node-not-ready")
    \cup {Pressure[c.type] :
             c \in {c \in n.conditions : c.type \in DOMAIN Pressure /\ c.status = "True"}}
    \cup When(\E c \in n.conditions : c.age # Never /\ c.age > 120, "node-kubelet-stale")
    \cup When(n.taints > 5, "node-high-taint-count")
    \cup When(n.skew # Never /\ n.skew > 1, "node-version-skew")

-----------------------------------------------------------------------------
(* deployment_analyzer.py: containers [image, cpu, memory] (the image is   *)
(* found or not), conditions [type, bad, age], nodes [cpu, memory]         *)

Fits(c, node) == c.cpu <= node.cpu /\ c.memory <= node.memory

\* Mutant: a node list that fails counts as no capacity.
TooLargeFailClosed(c, nodes, downNow) ==
    \/ "nodes" \in downNow
    \/ c.cpu > Largest({0} \cup {n.cpu : n \in nodes})
    \/ c.memory > Largest({0} \cup {n.memory : n \in nodes})

\* _largest_node_capacity: the largest CPU and the largest memory, each of any
\* node, and no limit when the nodes cannot be listed.
TooLarge(c, nodes, downNow) ==
    /\ "nodes" \notin downNow
    /\ \/ c.cpu > Largest({0} \cup {n.cpu : n \in nodes})
       \/ c.memory > Largest({0} \cup {n.memory : n \in nodes})

DeploymentFindings(d, downNow) ==
    When(/\ d.available < d.desired
         /\ \E c \in d.conditions : c.type = "available" /\ c.bad /\ c.age >= 300,
         "replica-mismatch")
    \cup When(\E c \in d.conditions : c.type = "progressing" /\ c.bad, "rollout-stuck")
    \cup When(d.probed /\ \E c \in d.containers : ~c.image, "image-not-found")
    \cup When(\E c \in d.containers : TooLarge(c, d.nodes, downNow),
              "impossible-resource-request")

-----------------------------------------------------------------------------
(* statefulset_analyzer.py: pods [set, ordinal, pending, unbound], where   *)
(* set is the StatefulSet a pod belongs to, and the phases of the PVCs     *)

\* _list_pods selects by the presence of a label that the pods of every
\* StatefulSet have.
PodsSeen(s, downNow) == IF "pods" \in downNow THEN {} ELSE s.pods

\* ordinals differs from range(ordinals[-1] + 1).
OrdinalsOff(pods) ==
    /\ pods # {}
    /\ LET ordinals == {p.ordinal : p \in pods}
       IN  \/ ordinals # 0 .. Largest(ordinals)
           \/ Cardinality(pods) # Cardinality(ordinals)

StatefulSetFindings(s, downNow) ==
    LET pods == PodsSeen(s, downNow)
    IN  When("events" \notin downNow /\ \E p \in pods : p.pending /\ p.unbound,
             "pvc-binding-pending")
        \cup When(OrdinalsOff(pods), "ordinal-gap")
        \cup When("pvcs" \notin downNow /\ s.pvcs \cap {"Lost", "Pending"} # {},
                  "pvc-template-failure")

-----------------------------------------------------------------------------
(* replicaset_analyzer.py: the ReplicaSets [wanted, running, id] of a      *)
(* Deployment                                                              *)

ReplicaSetFindings(d) ==
    When(\E r \in d.sets : r.wanted = 0 /\ r.running = 0, "dangling-replicaset")
    \cup When(Cardinality({r \in d.sets : r.running > 0}) > 1, "rollout-in-progress")

-----------------------------------------------------------------------------
(* service_analyzer.py: whether there is a selector, the matched pods      *)
(* [ports, ready], the endpoints' counts, the target ports                 *)

ServiceFindings(v, downNow) ==
    LET pods == IF "pods" \in downNow THEN {} ELSE v.pods
    IN  IF ~v.selector THEN {}
        ELSE IF pods = {} THEN {"selector-no-pods"}
        ELSE When("endpoints" \notin downNow /\ v.ready = 0 /\ v.notReady > 0,
                  "endpoints-not-ready")
             \cup When(\E t \in v.targets : \A p \in pods : t \notin p.ports, "port-mismatch")
             \cup When(v.headless /\ \E p \in pods : ~p.ready, "headless-misuse")

-----------------------------------------------------------------------------
(* ingress_analyzer.py: backends ("none", "absent" or "found"), TLS        *)
(* secrets [there, days], annotations, the hosts it claims and the hosts   *)
(* that an Ingress listed before it claims in the same class               *)

IngressFindings(g, downNow) ==
    When(\/ "none" \in g.backends
         \/ "services" \notin downNow /\ "absent" \in g.backends, "missing-backend")
    \cup When("secrets" \notin downNow /\ \E t \in g.tls : ~t.there, "tls-secret-missing")
    \cup When(/\ "secrets" \notin downNow
              /\ \E t \in g.tls : t.there /\ t.days # Never /\ t.days < 30, "tls-expiry")
    \cup When(g.hosts \cap g.claimed # {}, "host-conflict")
    \cup When(g.controller # "nginx" /\ g.annotated, "unsupported-annotation")

-----------------------------------------------------------------------------
(* pvc_analyzer.py: a claim by phase, its storage class (named, known,     *)
(* nfs), whether events say that provisioning failed, its used percentage  *)
(* (Never: _fetch_volume_used_bytes is not implemented in the base class), *)
(* and the pods [node, mounts, failed] of its namespace                    *)

PVCFindings(v, downNow) ==
    LET known  == v.known /\ "classes" \notin downNow
        failed == v.failed /\ "events" \notin downNow
        users  == {p \in v.pods : p.mounts}
    IN  IF "pods" \in downNow THEN {}
        ELSE IF v.phase = "Pending"
        THEN {IF v.named /\ ~known THEN "pvc-pending-no-sc"
              ELSE IF failed THEN "pvc-pending-no-pv"
              ELSE "pvc-pending-unknown"}
             \cup When(known /\ v.nfs, "pvc-nfs-common-advisory")
        ELSE When(/\ v.phase = "Bound" /\ "events" \notin downNow
                  /\ \E p \in users : p.failed, "pvc-mount-failed")
             \cup When(v.phase = "Bound" /\ v.used # Never /\ v.used > 85, "pvc-capacity-high")
             \cup When(/\ v.phase = "Bound" /\ v.once
                       /\ Cardinality({p.node : p \in users} \ {Never}) > 1,
                       "pvc-rwo-multi-node")
             \cup When(known /\ v.nfs, "pvc-nfs-common-advisory")

-----------------------------------------------------------------------------
(* cronjob_analyzer.py: intervals since the last schedule (Never before    *)
(* the first), and the Jobs [id, over, active, outcome] it owns            *)

\* A limit of 0 is read as absent.
Limit(n, default) == IF n = 0 THEN default ELSE n

\* _check_history_limit_orphans.
HistoryLimitOrphans(c) ==
    LET ended(outcome) == {j \in c.jobs : ~j.active /\ j.outcome = outcome}
    IN  \/ Cardinality(ended("succeeded")) > Limit(c.successLimit, 3)
        \/ Cardinality(ended("failed")) > Limit(c.failedLimit, 1)

CronJobFindings(c) ==
    When(c.suspended, "accidental_suspend")
    \cup When(~c.suspended /\ c.overdue # Never /\ c.overdue > 2, "missed_schedule")
    \cup When(Cardinality({j \in c.jobs : j.over}) >= 3, "repeated_backoff")
    \cup When(HistoryLimitOrphans(c), "history_limit_orphan")

-----------------------------------------------------------------------------
(* hpa_analyzer.py: whether its Deployment is there, replica counts,       *)
(* minutes since it scaled (Never before it did)                           *)

HPAFindings(h, downNow) ==
    IF ~h.target /\ "target" \notin downNow THEN {"target_missing"}
    ELSE When(h.unmeasured, "no_metrics")
         \cup When(h.current = h.max /\ h.max > 0 /\ (h.since = Never \/ h.since >= 30),
                   "capped_at_max")
         \cup When(/\ h.min # h.max /\ h.current = h.min /\ ~h.unmeasured
                   /\ (h.since = Never \/ h.since >= 24 * 60), "never_scaling")

-----------------------------------------------------------------------------
(* pdb_analyzer.py: its selector ("none", "labels" or "expressions"), the  *)
(* owners of the matched pods ("other" ones are not looked up, and "gone"  *)
(* ones not found), disruptions allowed                                    *)

\* Owners by which a workload is found.
Workloads == {"Deployment", "ReplicaSet of a Deployment", "StatefulSet"}

PDBFindings(b, downNow) ==
    IF b.selector = "expressions" THEN {}
    ELSE IF b.selector = "labels" /\ "pods" \in downNow THEN {}
    ELSE IF b.selector = "none" \/ b.pods = {} THEN {"selector_mismatch"}
    ELSE IF "owners" \in downNow /\ b.pods # {"other"} THEN {}
    ELSE When(b.allowed = 0, "eviction_blocked")
         \cup When(b.pods \cap Workloads = {}, "no_owner_workload")

-----------------------------------------------------------------------------
(* network_policy_analyzer.py: a namespace (the one called "default" or    *)
(* not) by its policies [labels, matched, ingress, egress], whether a      *)
(* Service has pods behind it                                              *)

\* egress: "absent", "empty", with a rule for port "53" or without one.
DeniesAll(p) == ~p.labels /\ ~p.ingress /\ p.egress \in {"absent", "empty"}

NetworkPolicyFindings(n, downNow) ==
    IF {"policies", "pods", "services", "namespace"} \cap downNow # {} THEN {}
    ELSE When(\E p \in n.policies : p.labels /\ ~p.matched, "orphan_policy")
         \cup When(n.service /\ n.policies # {} /\ \A p \in n.policies : ~p.ingress,
                   "service_ingress_denied")
         \cup When(\E p \in n.policies : p.egress \in {"empty", "other"}, "egress_dns_blocked")
         \cup When(n.production /\ \A p \in n.policies : ~DeniesAll(p), "no_default_deny")

-----------------------------------------------------------------------------
(* Analysis *)

\* When the listing itself raises, run_safe returns nothing (CronJobAnalyzer,
\* which has no run_safe, raises), but NetworkPolicyAnalyzer goes on with the
\* namespace "default".
Unlisted(x, downNow) ==
    "list" \in downNow /\ ~(x.kind = "Namespace" /\ x.default)

\* analyze and run_safe.
Analyze(x, downNow) ==
    IF Unlisted(x, downNow) THEN {}
    ELSE CASE x.kind = "Node"         -> NodeFindings(x)
      [] x.kind = "Deployment"        -> DeploymentFindings(x, downNow)
      [] x.kind = "StatefulSet"       -> StatefulSetFindings(x, downNow)
      [] x.kind = "ReplicaSets"       -> ReplicaSetFindings(x)
      [] x.kind = "Service"           -> ServiceFindings(x, downNow)
      [] x.kind = "Ingress"           -> IngressFindings(x, downNow)
      [] x.kind = "PVC"               -> PVCFindings(x, downNow)
      [] x.kind = "CronJob"           -> CronJobFindings(x)
      [] x.kind = "HPA"               -> HPAFindings(x, downNow)
      [] x.kind = "PDB"               -> PDBFindings(x, downNow)
      [] x.kind = "Namespace"         -> NetworkPolicyFindings(x, downNow)

\* The API calls after the listing.
Calls == {"events", "pods", "endpoints", "nodes", "pvcs", "services", "secrets",
          "classes", "target", "owners", "policies", "namespace"}

ScanInit == subject = NoSubject /\ down = {} /\ findings = {}

Scan(x, downNow) ==
    /\ subject' = x /\ down' = downNow
    /\ findings' = Analyze(x, downNow)

ScanNext == \E x \in Objects, D \in SUBSET (Calls \cup {"list"}) : Scan(x, D)

ScanSpec == ScanInit /\ [][ScanNext]_scanVars

-----------------------------------------------------------------------------
ScanTypeOK ==
    /\ subject \in Objects \cup {NoSubject}
    /\ down \subseteq Calls \cup {"list"}
    /\ findings \subseteq STRING

\* What an analyzer reports only because a call failed.
FalseAlarms(x, downNow) ==
    CASE x.kind = "Service" -> When("pods" \in downNow, "selector-no-pods")
      [] x.kind = "PVC"     -> When("classes" \in downNow, "pvc-pending-no-sc")
                               \cup When("events" \in downNow, "pvc-pending-unknown")
      [] x.kind = "HPA"     -> IF "target" \in downNow /\ ~x.target
                               THEN {"no_metrics", "capped_at_max", "never_scaling"}
                               ELSE {}
      [] OTHER              -> {}

\* Failing API calls hide findings but invent none, other than the ones named
\* above; a request called impossible fits on no node, although CPU and memory
\* are compared with different nodes; and a gap in the ordinals of a namespace
\* with one StatefulSet is a pod that is missing.
FindingsGrounded ==
    subject # NoSubject =>
        /\ findings \subseteq Analyze(subject, {}) \cup FalseAlarms(subject, down)
        /\ "impossible-resource-request" \in findings =>
              \E c \in subject.containers : \A n \in subject.nodes : ~Fits(c, n)
        /\ "ordinal-gap" \in findings /\ Cardinality({p.set : p \in subject.pods}) = 1 =>
              \E p \in subject.pods : \E o \in 0 .. p.ordinal :
                  \A q \in subject.pods : q.ordinal # o
=============================================================================
