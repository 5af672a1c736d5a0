----------------------------- MODULE PrGenerator -----------------------------
(***************************************************************************)
(* The GitOps pull requests (src/gitops/pr_generator.py): calls of         *)
(* create_remediation_pr() in one process, and the repository on GitHub    *)
(* that other people and GitHub itself change meanwhile.                   *)
(*                                                                         *)
(* create_remediation_pr never awaits: a call holds the event loop from    *)
(* its first gh command to its last, and only GitHub acts in between.  A   *)
(* fix stands for a (finding_id, fix_id) pair.  The search of              *)
(* find_existing_pr is taken to be current.                                *)
(***************************************************************************)
EXTENDS Integers, Sequences, RemediationRuns

CONSTANTS
    Fixes,         \* (finding_id, fix_id) pairs
    Trading,       \* fixes whose namespace is in TRADING_NAMESPACES
    PrOnly,        \* fixes whose repository has the policy pr-only
    Deterministic, \* fixes whose class is in DETERMINISTIC_FIX_CLASSES
    Allowed,       \* fixes whose namespace is in ALLOWED_AUTO_MERGE_NAMESPACES
    Assigned,      \* fixes whose repository override names an assignee
    MaxPrFaults,   \* bound: gh commands that fail
    NoFix

ASSUME PrConstants ==
    /\ NoFix \notin Fixes
    /\ Trading \subseteq Fixes /\ PrOnly \subseteq Fixes
    /\ Deterministic \subseteq Fixes /\ Allowed \subseteq Fixes
    /\ Assigned \subseteq Fixes
    /\ MaxPrFaults \in Nat

VARIABLES
    dryRun,  \* the dry_run argument or GITOPS_DRY_RUN
    fix,     \* the finding and fix_id arguments of a call
    verdict, \* SandboxResult.verdict of a call, "none" before it is made
    call,    \* where a call is
    target,  \* the pull request a call works on, 0 when it has none
    prs,     \* GitHub: the pull requests, in the order of their numbers
    ghFaults \* gh commands that have failed

prVars == <<dryRun, fix, verdict, call, target, prs, ghFaults>>

PrInit ==
    /\ dryRun \in BOOLEAN
    /\ fix = [r \in Runs |-> NoFix]
    /\ verdict = [r \in Runs |-> "none"]
    /\ call = [r \in Runs |-> "none"]
    /\ target = [r \in Runs |-> 0]
    /\ prs = <<>>
    /\ ghFaults = 0

\* A call in progress blocks the event loop.
Blocked == \E r \in Runs : call[r] \in {"lookup", "comment", "create", "follow"}

\* is_trading.
NeedsHuman(f) == f \in Trading \/ f \in PrOnly
HasAssignee(f) == NeedsHuman(f) /\ f \in Assigned

\* Mutant: the verdict is not looked at.
AutoMergeUnverified(r) ==
    /\ ~NeedsHuman(fix[r])
    /\ fix[r] \in Deterministic
    /\ fix[r] \in Allowed

\* _is_auto_merge_eligible.
AutoMerge(r) ==
    /\ ~NeedsHuman(fix[r])
    /\ verdict[r] = "healed"
    /\ fix[r] \in Deterministic
    /\ fix[r] \in Allowed

GhFails == ghFaults < MaxPrFaults /\ ghFaults' = ghFaults + 1
GhWorks == UNCHANGED ghFaults
At(r, c) == call' = [call EXCEPT ![r] = c]

-----------------------------------------------------------------------------
\* create_remediation_pr is called; a dry run writes to stdout and returns.
Call(r, f, v) ==
    /\ call[r] = "none" /\ ~Blocked
    /\ fix' = [fix EXCEPT ![r] = f]
    /\ verdict' = [verdict EXCEPT ![r] = v]
    /\ At(r, IF dryRun THEN "returned" ELSE "lookup")
    /\ UNCHANGED <<dryRun, target, prs, ghFaults>>

Open(f) == {i \in DOMAIN prs : prs[i].fix = f /\ prs[i].state = "open"}

\* Mutant: the existing pull request is not looked for.
LookupSkipped(r) ==
    /\ call[r] = "lookup"
    /\ At(r, "create")
    /\ GhWorks /\ UNCHANGED target
    /\ UNCHANGED <<dryRun, fix, verdict, prs>>

\* find_existing_pr: the first open pull request with the marker in its body.
Lookup(r) ==
    /\ call[r] = "lookup"
    /\ \/ /\ Open(fix[r]) # {}
          /\ target' = [target EXCEPT ![r] = CHOOSE i \in Open(fix[r]) : TRUE]
          /\ At(r, "comment") /\ GhWorks
       \/ /\ Open(fix[r]) = {}
          /\ At(r, "create") /\ GhWorks /\ UNCHANGED target
       \/ At(r, "raised") /\ GhFails /\ UNCHANGED target
    /\ UNCHANGED <<dryRun, fix, verdict, prs>>

\* Mutant: a re-run that is eligible turns auto-merge on.
CommentMerges(r) ==
    /\ call[r] = "comment"
    /\ \/ /\ prs' = [prs EXCEPT ![target[r]].reported = verdict[r],
                                ![target[r]].auto = @ \/ AutoMerge(r)]
          /\ At(r, "returned") /\ GhWorks
       \/ At(r, "raised") /\ GhFails /\ UNCHANGED prs
    /\ UNCHANGED <<dryRun, fix, verdict, target>>

\* A re-run only comments, with its verdict.
Comment(r) ==
    /\ call[r] = "comment"
    /\ \/ /\ prs' = [prs EXCEPT ![target[r]].reported = verdict[r]]
          /\ At(r, "returned") /\ GhWorks
       \/ At(r, "raised") /\ GhFails /\ UNCHANGED prs
    /\ UNCHANGED <<dryRun, fix, verdict, target>>

\* The pull request a call opens: human-review-required unless it may be
\* merged automatically, and the body reports the verdict.
NewPr(r) ==
    [fix |-> fix[r], by |-> r, state |-> "open", auto |-> FALSE, assigned |-> FALSE,
     human |-> NeedsHuman(fix[r]) \/ ~AutoMerge(r), reported |-> verdict[r]]

\* _ensure_labels and gh pr create, which may fail with the pull request
\* opened all the same.
CreatePr(r) ==
    /\ call[r] = "create"
    /\ \/ /\ prs' = Append(prs, NewPr(r))
          /\ target' = [target EXCEPT ![r] = Len(prs) + 1]
          /\ At(r, "follow") /\ GhWorks
       \/ /\ prs' = prs \/ prs' = Append(prs, NewPr(r))
          /\ At(r, "raised") /\ GhFails /\ UNCHANGED target
    /\ UNCHANGED <<dryRun, fix, verdict>>

\* gh pr edit --add-assignee, or gh pr merge --auto, or neither; a failure of
\* either is ignored.  gh pr merge does nothing to a pull request that is no
\* longer open.
FollowUp(r) ==
    /\ call[r] = "follow"
    /\ At(r, "returned")
    /\ \/ /\ prs' = [prs EXCEPT
                ![target[r]].assigned = HasAssignee(fix[r]),
                ![target[r]].auto = AutoMerge(r) /\ prs[target[r]].state = "open"]
          /\ GhWorks
       \/ /\ AutoMerge(r) \/ HasAssignee(fix[r])
          /\ GhFails /\ UNCHANGED prs
    /\ UNCHANGED <<dryRun, fix, verdict, target>>

PrStep(r) == Lookup(r) \/ Comment(r) \/ CreatePr(r) \/ FollowUp(r)

\* GitHub merges a pull request whose auto-merge is on; a person merges or
\* closes any.
Settle(i) ==
    /\ prs[i].state = "open"
    /\ \E new \in {"merged", "closed"} \cup (IF prs[i].auto THEN {"automerged"} ELSE {}) :
          prs' = [prs EXCEPT ![i].state = new]
    /\ UNCHANGED <<dryRun, fix, verdict, call, target, ghFaults>>

\* The process dies: a call in progress, or still to be made for a run that
\* is gone, is never finished.
PrCrash(gone) ==
    /\ call' = [r \in Runs |-> IF call[r] \in {"lookup", "comment", "create", "follow"}
                                  \/ (call[r] = "none" /\ r \in gone)
                               THEN "raised" ELSE call[r]]
    /\ UNCHANGED <<dryRun, fix, verdict, target, prs, ghFaults>>
=============================================================================
