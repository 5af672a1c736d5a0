-------------------------------- MODULE FixTable --------------------------------
(***************************************************************************)
(* dispatch of src/auto_remediate/deterministic_remediation.py: the first  *)
(* handler of REGISTRY that applies to a finding makes the fix, or raises. *)
(*                                                                         *)
(* A finding is a record of the fields the handlers look at.  The payload  *)
(* of a fix is what its number or its choice comes from; names, paths and  *)
(* texts are left out.                                                     *)
(***************************************************************************)
EXTENDS Integers, Sequences

CONSTANTS
    Reports,   \* the findings
    Absent     \* a field that is not in raw

ASSUME ReportsAssumption ==
    /\ Absent \notin Nat
    /\ Reports \subseteq
          [kind : STRING, behavior : STRING, reason : STRING, message : SUBSET STRING,
           mapped : BOOLEAN, memory : Nat \cup {Absent}, bump : Nat \cup {Absent},
           capacity : Nat \cup {Absent}, growth : Nat \cup {Absent},
           expandable : BOOLEAN, usage : Nat, labelled : BOOLEAN, tainted : BOOLEAN,
           allowed : Nat, matched : Nat \cup {Absent}]

VARIABLES
    report,  \* the finding that was dispatched last
    fix      \* what dispatch returned

fixVars == <<report, fix>>

-----------------------------------------------------------------------------
(* The handlers: applies_to, whether generate_fix raises, requires_review  *)
(* and the values that the number in the patch may have.                   *)

\* A handler whose fix has no number that is computed.
Handler(name, applies, raises, review) ==
    [handler |-> name, applies |-> applies, raises |-> raises, review |-> review, values |-> {0}]

\* raw.get(field, default).
Percent(field, default) == IF field = Absent THEN default ELSE field

\* int(n * (1 + percent / 100) / unit), where n is in parts of which unit make
\* one: the product is a binary float, and one that should be whole may come out
\* just below (int(100 * 1.13) is 112), though not for halves and quarters.
RaisedBy(n, percent, unit) ==
    LET exact == n * (100 + percent)
        floor == exact \div (100 * unit)
    IN  {floor} \cup {v \in {floor - 1} :
                         n > 0 /\ exact % (100 * unit) = 0 /\ percent % 25 # 0}

ImageTagMigration(f) ==
    Handler("ImageTagMigration",
            f.behavior = "image_tag_migration_remediation" /\ f.reason = "ImagePullBackOff",
            ~f.mapped, FALSE)

ProbeTuning(f) ==
    Handler("ProbeTuning", f.behavior = "probe_tuning_remediation", FALSE, FALSE)

OrphanJobCleanup(f) ==
    Handler("OrphanJobCleanup", f.behavior = "orphan_job_remediation" /\ f.kind = "Job",
            FALSE, TRUE)

\* The limit in Mi (the finding has it in bytes, here in Ki), up 30 % unless
\* the finding says how much.
OOMKilled(f) ==
    [Handler("OOMKilled", f.reason = "OOMKilled", f.memory = Absent, TRUE)
        EXCEPT !.values = IF f.memory = Absent THEN {0}
                          ELSE RaisedBy(f.memory, Percent(f.bump, 30), 1024)]

\* The storage in Gi, up 50 % unless the finding says how much.
PVCResize(f) ==
    [Handler("PVCResize",
             f.kind = "PersistentVolumeClaim" /\ f.expandable /\ f.usage > 85,
             f.capacity = Absent, FALSE)
        EXCEPT !.values = IF f.capacity = Absent THEN {0}
                          ELSE RaisedBy(f.capacity, Percent(f.growth, 50), 1)]

DNSConfigFix(f) ==
    Handler("DNSConfigFix", f.behavior = "dns_resolution_failure", FALSE, FALSE)

\* It raises when no node has the label.
NodeSelectorMismatch(f) ==
    Handler("NodeSelectorMismatch", f.reason = "Unschedulable" /\ "selector" \in f.message,
            ~f.labelled, TRUE)

TolerationMissing(f) ==
    Handler("TolerationMissing", f.reason = "Unschedulable" /\ "taint" \in f.message,
            ~f.tainted, TRUE)

HPAEnableMetricsServer(f) ==
    Handler("HPAEnableMetricsServer",
            f.kind = "HorizontalPodAutoscaler" /\ "metrics" \in f.message, FALSE, FALSE)

\* minAvailable one below the matched pods; it raises for one pod at most.
PDBTooStrict(f) ==
    LET raises == f.matched = Absent \/ f.matched <= 1
    IN  [Handler("PDBTooStrict", f.kind = "PodDisruptionBudget" /\ f.allowed = 0, raises, TRUE)
            EXCEPT !.values = {IF raises THEN 0 ELSE f.matched - 1}]

\* Mutant: the handler of restarts comes first.
RegistryReordered(f) ==
    <<OOMKilled(f), ImageTagMigration(f), ProbeTuning(f), OrphanJobCleanup(f), PVCResize(f),
      DNSConfigFix(f), NodeSelectorMismatch(f), TolerationMissing(f),
      HPAEnableMetricsServer(f), PDBTooStrict(f)>>

Registry(f) ==
    <<ImageTagMigration(f), ProbeTuning(f), OrphanJobCleanup(f), OOMKilled(f), PVCResize(f),
      DNSConfigFix(f), NodeSelectorMismatch(f), TolerationMissing(f),
      HPAEnableMetricsServer(f), PDBTooStrict(f)>>

Matching(f) == {i \in DOMAIN Registry(f) : Registry(f)[i].applies}

NoHandler == Handler("none", FALSE, FALSE, FALSE)

\* The first handler that applies.
Dispatch(f) ==
    IF Matching(f) = {} THEN NoHandler
    ELSE Registry(f)[CHOOSE i \in Matching(f) : \A j \in Matching(f) : i <= j]

\* What a handler makes of the finding: it raises, or returns a fix.
Fix(h, v) == [handler |-> h.handler, raises |-> h.raises, review |-> h.review, value |-> v]

FixInit == report \in Reports /\ fix = Fix(NoHandler, 0)

DispatchReport(f) ==
    /\ report' = f
    /\ \E v \in Dispatch(f).values : fix' = Fix(Dispatch(f), v)

FixNext == \E f \in Reports : DispatchReport(f)

FixSpec == FixInit /\ [][FixNext]_fixVars

-----------------------------------------------------------------------------
FixTypeOK ==
    /\ report \in Reports
    /\ fix \in [handler : STRING, raises : BOOLEAN, review : BOOLEAN, value : Nat]

\* Handlers whose exception keeps a later one from being tried.
Hides == {<<"OOMKilled", "DNSConfigFix">>, <<"NodeSelectorMismatch", "TolerationMissing">>}

\* A finding that gives an object of another kind what is said of Pods.
Misfiled(f) ==
    /\ f.kind # "Pod"
    /\ f.reason # "none" \/ f.behavior \notin {"orphan_job_remediation", "other"}

\* First match wins, so a handler that raises hides the fix of a later one, but
\* only in these two orders, unless a finding is misfiled.  And rounding down
\* takes nothing away: whatever the percentage, a limit or a claim grows as soon
\* as the raise asked for is more than one unit of the patch (1 Mi, 1 Gi), a
\* claim never shrinks, a limit loses less than 1 Mi (the part above a whole Mi),
\* and a budget is relaxed without reaching 0.
FixesSound ==
    /\ fix.raises /\ ~Misfiled(report) =>
          \A i \in Matching(report) :
              \/ Registry(report)[i].raises
              \/ <<fix.handler, Registry(report)[i].handler>> \in Hides
    /\ ~fix.raises =>
          /\ fix.handler = "OOMKilled" =>
                /\ 1024 * fix.value > report.memory - 1024
                /\ report.memory * Percent(report.bump, 30) > 100 * 1024 =>
                      1024 * fix.value > report.memory
          /\ fix.handler = "PVCResize" =>
                /\ fix.value >= report.capacity
                /\ report.capacity * Percent(report.growth, 50) > 100 =>
                      fix.value > report.capacity
          /\ fix.handler = "PDBTooStrict" => fix.value \in 1 .. report.matched - 1
=============================================================================
