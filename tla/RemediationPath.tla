--------------------------- MODULE RemediationPath ---------------------------
(***************************************************************************)
(* The path from a candidate fix to a pull request: a run tries its        *)
(* candidate in a sandbox (VclusterSandbox) and hands the verdict to       *)
(* create_remediation_pr (PrGenerator).  All runs are coroutines of one    *)
(* process: k8s/auto-remediate.yaml has one replica and recreates it.      *)
(* Nothing in the source joins the two halves; a driver that calls them in *)
(* this order is what the design describes.                                *)
(***************************************************************************)
EXTENDS VclusterSandbox, PrGenerator

CONSTANT MaxCrashes \* bound: restarts of the process

ASSUME MaxCrashesAssumption == MaxCrashes \in Nat

VARIABLE crashes

vars == <<sandboxVars, prVars, crashes>>

Init == SandboxInit /\ PrInit /\ crashes = 0

\* A coroutine runs while no call of create_remediation_pr holds the loop.
\* External commands that were started go on, but nobody sees them finish.
SandboxStep(r) ==
    /\ ~Blocked
    /\ Request(r) \/ Enter(r) \/ Advance(r)
    /\ UNCHANGED <<prVars, crashes>>

Verdict(r) == IF result[r] = "passed" THEN "healed" ELSE "still_sick"

\* The driver reports a run whose sandbox returned.
Report(r) ==
    /\ step[r] = "done" /\ result[r] # "raised"
    /\ \E f \in Fixes : Call(r, f, Verdict(r))
    /\ UNCHANGED <<sandboxVars, crashes>>

Publish(r) == PrStep(r) /\ UNCHANGED <<sandboxVars, crashes>>

GitHub == \E i \in DOMAIN prs : Settle(i) /\ UNCHANGED <<sandboxVars, crashes>>

Crash ==
    /\ crashes < MaxCrashes
    /\ crashes' = crashes + 1
    /\ SandboxCrash
    /\ PrCrash({r \in Runs : step[r] # "idle"})

Next ==
    \/ \E r \in Runs : SandboxStep(r) \/ Report(r) \/ Publish(r)
    \/ GitHub
    \/ Crash

Spec == Init /\ [][Next]_vars

\* Commands end and the event loop runs every coroutine that is ready.  No
\* run has to be requested.
FairSpec ==
    /\ Spec
    /\ \A r \in Runs :
          /\ WF_vars(~Blocked /\ Advance(r) /\ UNCHANGED <<prVars, crashes>>)
          /\ SF_vars(~Blocked /\ Enter(r) /\ UNCHANGED <<prVars, crashes>>)
          /\ WF_vars(Report(r))
          /\ WF_vars(Publish(r))

-----------------------------------------------------------------------------
(* Properties *)

PullRequest ==
    [fix : Fixes, by : Runs, state : {"open", "merged", "closed", "automerged"},
     auto : BOOLEAN, assigned : BOOLEAN, human : BOOLEAN,
     reported : {"healed", "still_sick"}]

TypeOK ==
    /\ step \in [Runs -> {"idle", "queued", "done"} \cup TrySteps \cup {"delete"}]
    /\ result \in [Runs -> {"none", "passed", "failed", "unavailable", "raised"}]
    /\ vcluster \in [Runs -> BOOLEAN]
    /\ kubeconfig \in [Runs -> BOOLEAN]
    /\ trouble \in 0 .. MaxSandboxFaults
    /\ dryRun \in BOOLEAN
    /\ fix \in [Runs -> Fixes \cup {NoFix}]
    /\ verdict \in [Runs -> {"none", "healed", "still_sick"}]
    /\ call \in [Runs -> {"none", "lookup", "comment", "create", "follow",
                          "returned", "raised"}]
    /\ target \in [Runs -> Nat]
    /\ prs \in Seq(PullRequest)
    /\ ghFaults \in 0 .. MaxPrFaults
    /\ crashes \in 0 .. MaxCrashes

\* Auto-merge is only ever turned on for a pull request whose own run came
\* back green from its sandbox, for a deterministic fix in an allowed
\* namespace that needs no human; every other pull request carries the
\* human-review label from the moment it is open; a dry run opens none.
AutoMergeGate ==
    \A i \in DOMAIN prs :
        LET p == prs[i] IN
        /\ ~dryRun
        /\ p.auto => /\ result[p.by] = "passed" /\ fix[p.by] = p.fix
                     /\ p.fix \in Deterministic \cap Allowed
                     /\ p.fix \notin Trading \cup PrOnly
        /\ ~p.human => result[p.by] = "passed" /\ p.fix \notin Trading \cup PrOnly

\* The same (finding, fix) pair has at most one open pull request, although
\* calls fail after opening one, the process is restarted, people close pull
\* requests and several runs of one fix end together.
OneOpenPr ==
    \A i, j \in DOMAIN prs :
        prs[i].fix = prs[j].fix /\ prs[i].state = "open" /\ prs[j].state = "open" => i = j

\* A run of an existing pull request never gives it auto-merge or takes its
\* human-review label away: only the call that opened it can turn it on.
RerunNeverEscalates ==
    [][\A i \in DOMAIN prs :
          /\ prs'[i].auto /\ ~prs[i].auto => call[prs[i].by] = "follow"
          /\ prs[i].human => prs'[i].human]_vars

\* A run that is over has left a vcluster or a kubeconfig behind only if an
\* await of it raised, a delete failed or the process died; with none of
\* these, and while it waits for its permit, it owns nothing on the host.
TornDown ==
    \A r \in Runs :
        /\ step[r] \in {"idle", "queued", "create"} => ~vcluster[r] /\ ~kubeconfig[r]
        /\ step[r] = "done" /\ (vcluster[r] \/ kubeconfig[r]) => trouble + crashes > 0

\* A run that has been asked for ends: its permit comes, whatever the runs
\* before it do, and its pull request is dealt with.
EveryRunEnds ==
    \A r \in Runs :
        step[r] = "queued" ~>
            step[r] = "done" /\ (result[r] = "raised" \/ call[r] \in {"returned", "raised"})

\* "Sandbox-red findings never auto-merge": GitHub merges by itself only what
\* was green when it was last reported.
RedNeverMerges ==
    [][\A i \in DOMAIN prs :
          prs[i].state = "open" /\ prs'[i].state = "automerged" =>
              prs[i].reported = "healed"]_vars
=============================================================================
