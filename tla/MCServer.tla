-------------------------------- MODULE MCServer --------------------------------
(***************************************************************************)
(* Small instances of what the server computes and keeps for itself: the   *)
(* cache of GitHub issues ("issues"), the resource analyzers ("scan"), the *)
(* deterministic fixes ("fix") and the order of the worklist's seed        *)
(* ("sort").                                                               *)
(*                                                                         *)
(* They share no state.  The initial state picks the one a behaviour is    *)
(* about, and the variables of the others keep their initial values.       *)
(***************************************************************************)
EXTENDS IssuesCache, ResourceAnalyzers, FixTable, TopologicalSort, TLC

VARIABLE part \* the one this behaviour is about

-----------------------------------------------------------------------------
(* Objects with what the cluster holds about them *)

MCNodes ==
    [kind : {"Node"}, taints : {5, 6}, skew : {Never, 1, 2},
     conditions : SUBSET {[type |-> "Ready", status |-> "True", age |-> 120],
                          [type |-> "Ready", status |-> "Unknown", age |-> 121],
                          [type |-> "DiskPressure", status |-> "True", age |-> Never]}]

Capacity(cpu, memory) == [cpu |-> cpu, memory |-> memory]

\* Two nodes of different shape, and requests that fit one, none, or either's
\* larger side.
MCDeployments ==
    [kind : {"Deployment"}, desired : {2}, available : {1, 2}, probed : BOOLEAN,
     conditions : SUBSET {[type |-> "available", bad |-> TRUE, age |-> 300],
                          [type |-> "progressing", bad |-> TRUE, age |-> 0]},
     containers : {{[image |-> i, cpu |-> c, memory |-> m]} :
                      i \in BOOLEAN, c \in {1, 4, 5}, m \in {1, 8}},
     nodes : SUBSET {Capacity(4, 2), Capacity(1, 8)}]

MCStatefulSets ==
    [kind : {"StatefulSet"}, pvcs : SUBSET {"Bound", "Lost"},
     pods : SUBSET {[set |-> s, ordinal |-> o, pending |-> o = 1, unbound |-> TRUE] :
                       s \in {"db", "queue"}, o \in 0 .. 2}]

MCReplicaSets ==
    [kind : {"ReplicaSets"},
     sets : SUBSET [id : {1, 2}, wanted : {0, 1}, running : {0, 1}]]

MCServices ==
    [kind : {"Service"}, selector : BOOLEAN, headless : BOOLEAN, targets : {{80}},
     pods : SUBSET [ports : {{80}, {81}}, ready : BOOLEAN],
     ready : {0, 1}, notReady : {0, 1}]

MCIngresses ==
    [kind : {"Ingress"}, backends : SUBSET {"none", "absent", "found"},
     tls : SUBSET {[there |-> FALSE, days |-> Never], [there |-> TRUE, days |-> 29],
                   [there |-> TRUE, days |-> 30]},
     hosts : {{"shop"}}, claimed : {{}, {"shop"}}, controller : {"nginx", "traefik"},
     annotated : BOOLEAN]

MCClaims ==
    [kind : {"PVC"}, phase : {"Pending", "Bound", "Lost"}, named : {TRUE}, known : BOOLEAN,
     nfs : BOOLEAN, failed : BOOLEAN, used : {Never, 86}, once : BOOLEAN,
     pods : SUBSET {[node |-> 1, mounts |-> TRUE, failed |-> FALSE],
                    [node |-> 2, mounts |-> TRUE, failed |-> TRUE]}]

MCCronJobs ==
    [kind : {"CronJob"}, suspended : BOOLEAN, overdue : {Never, 2, 3},
     successLimit : {0, 1}, failedLimit : {0, 2},
     jobs : {{[id |-> i, over |-> o = "failed", active |-> FALSE, outcome |-> o] : i \in 1 .. n} :
                n \in 0 .. 4, o \in {"succeeded", "failed"}}]

MCHPAs ==
    [kind : {"HPA"}, target : BOOLEAN, unmeasured : BOOLEAN, current : 0 .. 2, min : {1, 2},
     max : {2}, since : {Never, 29, 30, 1440}]

MCBudgets ==
    [kind : {"PDB"}, selector : {"none", "labels", "expressions"}, allowed : {0, 1},
     pods : SUBSET {"Deployment", "gone", "other"}]

MCNamespaces ==
    [kind : {"Namespace"}, default : BOOLEAN, production : BOOLEAN, service : BOOLEAN,
     policies : {Q \in SUBSET [labels : BOOLEAN, matched : {FALSE}, ingress : BOOLEAN,
                               egress : {"absent", "empty", "53", "other"}] :
                    Cardinality(Q) <= 2}]

MCObjects ==
    MCNodes \cup MCDeployments \cup MCStatefulSets \cup MCReplicaSets \cup MCServices
    \cup MCIngresses \cup MCClaims \cup MCCronJobs \cup MCHPAs \cup MCBudgets \cup MCNamespaces

\* The calls that may fail while an object of a kind is looked at.
CallsOf(kind) ==
    CASE kind = "Deployment" -> {"nodes"}
      [] kind = "StatefulSet" -> {"pods", "events", "pvcs"}
      [] kind = "Service" -> {"pods", "endpoints"}
      [] kind = "Ingress" -> {"services", "secrets"}
      [] kind = "PVC" -> {"classes", "events", "pods"}
      [] kind = "HPA" -> {"target"}
      [] kind = "PDB" -> {"pods", "owners"}
      [] kind = "Namespace" -> {"policies"}
      [] OTHER -> {}

-----------------------------------------------------------------------------
(* Findings for the deterministic fixes *)

Report(kind) ==
    [kind |-> kind, behavior |-> "other", reason |-> "none", message |-> {}, mapped |-> FALSE,
     memory |-> Absent, bump |-> Absent, capacity |-> Absent, growth |-> Absent,
     expandable |-> FALSE, usage |-> 0,
     labelled |-> FALSE, tainted |-> FALSE, allowed |-> 0, matched |-> Absent]

MCReports ==
    {[Report("Pod") EXCEPT !.behavior = b, !.reason = r, !.message = m, !.mapped = x,
                           !.memory = y, !.labelled = x, !.tainted = x] :
        b \in {"image_tag_migration_remediation", "probe_tuning_remediation",
               "dns_resolution_failure", "other"},
        r \in {"ImagePullBackOff", "OOMKilled", "Unschedulable", "none"},
        m \in SUBSET {"selector", "taint"}, x \in BOOLEAN, y \in {Absent, 4096, 4100, 262144}}
    \cup {[Report("Pod") EXCEPT !.reason = "OOMKilled", !.memory = y, !.bump = n] :
            y \in {Absent, 0, 1023, 4096, 4100, 10240, 102400, 262144},
            n \in {Absent, 0, 10, 13, 50, 100}}
    \cup {[Report("Pod") EXCEPT !.reason = "Unschedulable", !.message = {"selector", "taint"},
                                !.tainted = TRUE]}
    \cup {[Report("Job") EXCEPT !.behavior = "orphan_job_remediation"]}
    \cup {[Report("PersistentVolumeClaim") EXCEPT !.capacity = c, !.growth = n,
                                                  !.expandable = e, !.usage = u] :
            c \in {Absent, 0, 1, 2, 3, 10, 100}, n \in {Absent, 0, 10, 13, 100},
            e \in BOOLEAN, u \in {85, 86}}
    \cup {[Report("HorizontalPodAutoscaler") EXCEPT !.message = {"metrics"}]}
    \cup {[Report("PodDisruptionBudget") EXCEPT !.allowed = a, !.matched = n] :
            a \in {0, 1}, n \in {Absent, 0, 1, 2, 3}}

-----------------------------------------------------------------------------
MCInit ==
    /\ part \in {"issues", "scan", "fix", "sort"}
    /\ IssuesInit /\ (part # "issues" => \A i \in Issues : issue[i].open /\ ~issue[i].bodyless)
    /\ ScanInit
    /\ FixInit /\ report = Report("Pod")
    /\ Init /\ (part # "sort" => blockers = [t \in TaskIds |-> {}])

MCScan == \E x \in Objects : \E D \in SUBSET CallsOf(x.kind) \cup {{"list"}} : Scan(x, D)

MCNext ==
    /\ UNCHANGED part
    /\ \/ part = "issues" /\ IssuesNext /\ UNCHANGED <<scanVars, fixVars, vars>>
       \/ part = "scan" /\ subject = NoSubject /\ MCScan /\ UNCHANGED <<issuesVars, fixVars, vars>>
       \/ part = "fix" /\ fix = Fix(NoHandler, 0) /\ FixNext /\ UNCHANGED <<issuesVars, scanVars, vars>>
       \/ part = "sort" /\ Next /\ UNCHANGED <<issuesVars, scanVars, fixVars>>

\* The fairness that FairIssuesSpec states.
MCSpec ==
    /\ MCInit /\ [][MCNext]_<<part, issuesVars, scanVars, fixVars, vars>>
    /\ \A s \in Servers : WF_issuesVars(part = "issues" /\ UpdateStep(s))

=============================================================================
