----------------------------- MODULE MCWorkQueues -----------------------------
(***************************************************************************)
(* Small instances of the three work queues of the repository for TLC: the *)
(* worklist, under calls in any order ("calls") and under disciplined      *)
(* agents ("team"), the audit-run row, and the Redis queue of the runner   *)
(* scripts.                                                                *)
(*                                                                         *)
(* The queues share nothing.  The initial state picks the one a behaviour  *)
(* is about, and the variables of the others keep their initial values.    *)
(***************************************************************************)
EXTENDS Worklist, AuditRun, RunnerQueue, TLC

CONSTANTS p1, p2, a1, a2

VARIABLE part \* the queue this behaviour is about

MCProcs == {p1, p2}
MCAgents == {a1, a2}
MCProcOf == a1 :> p1 @@ a2 :> p2
MCPriority == 1 :> 4 @@ 2 :> 5

Entry(n, B) == [id |-> n, blockers |-> B]

\* What topological_sort makes of 1, 2 after 4, 3 after 1 and 2, and 4: as in
\* CANONICAL_TASKS, entries are not stored under the ids they declare.  Row 3
\* names row 4, which is inserted after it.
Sorted == <<Entry(1, {}), Entry(4, {}), Entry(2, {4}), Entry(3, {1, 2})>>

MCInit ==
    /\ part \in {"calls", "team", "audit", "runner"}
    /\ Init /\ AuditInit /\ RunnerInit

MCNext ==
    /\ UNCHANGED part
    /\ \/ part = "calls" /\ Next /\ UNCHANGED <<auditVars, runnerVars>>
       \/ part = "team" /\ AgentNext /\ UNCHANGED <<auditVars, runnerVars>>
       \/ part = "audit" /\ AuditNext /\ UNCHANGED <<vars, runnerVars>>
       \/ part = "runner" /\ RunnerNext /\ UNCHANGED <<vars, auditVars>>

\* The fairness that FairAgentSpec, FairAuditSpec and FairRunnerSpec state.
MCSpec ==
    /\ MCInit /\ [][MCNext]_<<part, vars, auditVars, runnerVars>>
    /\ WF_vars(part = "team" /\ \E p \in Seeders : SeedStart(p))
    /\ \A p \in Procs : WF_vars(part = "team" /\ SeedRow(p))
    /\ \A a \in Agents : WF_vars(part = "team" /\ AgentStep(a))
    /\ \A t \in Threads : WF_auditVars(part = "audit" /\ FinishIncrement(t))
    /\ \A a \in Runners : WF_runnerVars(part = "runner" /\ ScriptStep(a))

-----------------------------------------------------------------------------
\* Disciplined agents start a row when the rows before it that its blockers
\* name are done (RowOrder of Worklist); out of the discipline,
\* mark_in_progress can reopen a task that is done.
TeamOrder == part = "team" => RowOrder

\* Disciplined agents drain the worklist (EventuallyDrained of Worklist).
TeamDrains == <>[](part = "team" => Drained)

\* Agents work off the Redis queue (EventuallyWorkedOff of RunnerQueue).
RunnersFinish == <>[](part = "runner" => WorkedOff)
=============================================================================
