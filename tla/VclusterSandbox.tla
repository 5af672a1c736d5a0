--------------------------- MODULE VclusterSandbox ---------------------------
(***************************************************************************)
(* The sandbox lifecycle (src/auto_remediate/vcluster_sandbox.py): each    *)
(* run_sandbox() call is a coroutine that takes a permit of _SANDBOX_SEM,  *)
(* creates a vcluster, applies the candidate manifest, smoke-tests it and  *)
(* tears the vcluster down in a finally block.                             *)
(*                                                                         *)
(* Every external command is awaited, so it is one step, and the return    *)
(* codes of vcluster create, connect and delete and of the probe's apply   *)
(* are ignored.  A step may also raise: the program cannot be started, the *)
(* log cannot be written, or the task is cancelled.                        *)
(***************************************************************************)
EXTENDS Integers, FiniteSets, RemediationRuns

CONSTANTS
    SandboxConcurrency, \* SANDBOX_CONCURRENCY
    MaxSandboxFaults    \* bound: awaits that raise and deletes that fail

ASSUME SandboxConstants ==
    /\ SandboxConcurrency \in Nat \ {0}
    /\ MaxSandboxFaults \in Nat

VARIABLES
    step,       \* where a run is in _sandbox_lifecycle
    result,     \* what it is about to return, or "raised"
    vcluster,   \* host cluster: the run's vcluster and its namespace exist
    kubeconfig, \* /tmp/sandbox-<run_id>.kubeconfig exists
    trouble     \* awaits that raised and deletes that failed

sandboxVars == <<step, result, vcluster, kubeconfig, trouble>>

\* The steps of the try block, in order.
TrySteps == {"create", "ready", "connect", "apply", "probe", "smoke"}
Inside(r) == step[r] \in TrySteps \cup {"delete"}

SandboxInit ==
    /\ step = [r \in Runs |-> "idle"]
    /\ result = [r \in Runs |-> "none"]
    /\ vcluster = [r \in Runs |-> FALSE]
    /\ kubeconfig = [r \in Runs |-> FALSE]
    /\ trouble = 0

InTrouble == trouble < MaxSandboxFaults

Goto(r, s) == step' = [step EXCEPT ![r] = s]
\* return inside the try block: the finally block runs next.
Return(r, v) == Goto(r, "delete") /\ result' = [result EXCEPT ![r] = v]

-----------------------------------------------------------------------------
\* run_sandbox() is called and waits for a permit.
Request(r) ==
    /\ step[r] = "idle"
    /\ Goto(r, "queued")
    /\ UNCHANGED <<result, vcluster, kubeconfig, trouble>>

\* Mutant: a permit is never given back.
PermitsLeaked ==
    SandboxConcurrency - Cardinality({r \in Runs : Inside(r) \/ step[r] = "done"})

Permits == SandboxConcurrency - Cardinality({r \in Runs : Inside(r)})

\* async with _SANDBOX_SEM.
Enter(r) ==
    /\ step[r] = "queued"
    /\ Permits > 0
    /\ Goto(r, "create")
    /\ UNCHANGED <<result, vcluster, kubeconfig, trouble>>

\* vcluster create, which may leave nothing behind.
Create(r) ==
    /\ step[r] = "create"
    /\ \E made \in BOOLEAN : vcluster' = [vcluster EXCEPT ![r] = made]
    /\ Goto(r, "ready")
    /\ UNCHANGED <<result, kubeconfig, trouble>>

\* Mutant: the early return leaves the lifecycle without the finally block.
ReadyReturnsEarly(r) ==
    /\ step[r] = "ready"
    /\ \/ vcluster[r] /\ Goto(r, "connect") /\ UNCHANGED result
       \/ Goto(r, "done") /\ result' = [result EXCEPT ![r] = "unavailable"]
    /\ UNCHANGED <<vcluster, kubeconfig, trouble>>

\* _wait_vcluster_ready: polls until the pod is ready or the time is up.
Ready(r) ==
    /\ step[r] = "ready"
    /\ \/ vcluster[r] /\ Goto(r, "connect") /\ UNCHANGED result
       \/ Return(r, "unavailable")
    /\ UNCHANGED <<vcluster, kubeconfig, trouble>>

\* vcluster connect, which may not write the kubeconfig.
Connect(r) ==
    /\ step[r] = "connect"
    /\ \E written \in BOOLEAN : kubeconfig' = [kubeconfig EXCEPT ![r] = written]
    /\ Goto(r, "apply")
    /\ UNCHANGED <<result, vcluster, trouble>>

\* kubectl apply of the candidate manifest; a failure is logged and returned.
Apply(r) ==
    /\ step[r] = "apply"
    /\ \/ kubeconfig[r] /\ Goto(r, "probe") /\ UNCHANGED result
       \/ Return(r, "failed")
    /\ UNCHANGED <<vcluster, kubeconfig, trouble>>

\* kubectl apply of PROBE_MANIFEST.
Probe(r) ==
    /\ step[r] = "probe"
    /\ Goto(r, "smoke")
    /\ UNCHANGED <<result, vcluster, kubeconfig, trouble>>

\* The smoke test and write_sandbox_log.  DeploymentRolloutSmoke waits for
\* the rollout of sandbox-probe and PodRunningSmoke for every listed pod to
\* be Running, so either may pass or fail whatever the candidate does.
Smoke(r) ==
    /\ step[r] = "smoke"
    /\ \E passed \in BOOLEAN : Return(r, IF passed THEN "passed" ELSE "failed")
    /\ UNCHANGED <<vcluster, kubeconfig, trouble>>

\* An await of the try block raises.  A create that is cancelled may have
\* made the vcluster, and a connect the kubeconfig.
Raise(r) ==
    /\ step[r] \in TrySteps
    /\ InTrouble
    /\ trouble' = trouble + 1
    /\ Return(r, "raised")
    /\ IF step[r] = "create"
       THEN vcluster' = vcluster \/ vcluster' = [vcluster EXCEPT ![r] = TRUE]
       ELSE UNCHANGED vcluster
    /\ IF step[r] = "connect"
       THEN kubeconfig' = kubeconfig \/ kubeconfig' = [kubeconfig EXCEPT ![r] = TRUE]
       ELSE UNCHANGED kubeconfig

\* The finally block, and the permit given back: vcluster delete, whose
\* failure is ignored, and the unlink of the kubeconfig.
Delete(r) ==
    /\ step[r] = "delete"
    /\ Goto(r, "done")
    /\ kubeconfig' = [kubeconfig EXCEPT ![r] = FALSE]
    /\ \/ vcluster' = [vcluster EXCEPT ![r] = FALSE] /\ UNCHANGED trouble
       \/ InTrouble /\ trouble' = trouble + 1 /\ UNCHANGED vcluster
    /\ UNCHANGED result

\* The await of the finally block raises: the kubeconfig stays.
DeleteRaises(r) ==
    /\ step[r] = "delete"
    /\ InTrouble
    /\ trouble' = trouble + 1
    /\ Goto(r, "done")
    /\ result' = [result EXCEPT ![r] = "raised"]
    /\ vcluster' = vcluster \/ vcluster' = [vcluster EXCEPT ![r] = FALSE]
    /\ UNCHANGED kubeconfig

Advance(r) ==
    \/ Create(r) \/ Ready(r) \/ Connect(r) \/ Apply(r) \/ Probe(r) \/ Smoke(r)
    \/ Raise(r) \/ Delete(r) \/ DeleteRaises(r)

\* The process dies; no finally block runs.
SandboxCrash ==
    /\ step' = [r \in Runs |-> IF step[r] = "idle" THEN "idle" ELSE "done"]
    /\ result' = [r \in Runs |-> IF Inside(r) \/ step[r] = "queued"
                                 THEN "raised" ELSE result[r]]
    /\ UNCHANGED <<vcluster, kubeconfig, trouble>>
=============================================================================
