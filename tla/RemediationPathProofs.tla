------------------------ MODULE RemediationPathProofs ------------------------
(***************************************************************************)
(* Proofs about RemediationPath, for any runs and fixes, any permits and   *)
(* any number of faults and restarts.                                      *)
(***************************************************************************)
EXTENDS RemediationPath, SequenceTheorems, TLAPS

-----------------------------------------------------------------------------
(* The inductive invariant *)

InCall(r) == call[r] \in {"lookup", "comment", "create", "follow"}

SandboxTypeOK ==
    /\ step \in [Runs -> {"idle", "queued", "done"} \cup TrySteps \cup {"delete"}]
    /\ result \in [Runs -> {"none", "passed", "failed", "unavailable", "raised"}]
    /\ vcluster \in [Runs -> BOOLEAN]
    /\ kubeconfig \in [Runs -> BOOLEAN]
    /\ trouble \in 0 .. MaxSandboxFaults
    /\ crashes \in 0 .. MaxCrashes

PrTypeOK ==
    /\ dryRun \in BOOLEAN
    /\ fix \in [Runs -> Fixes \cup {NoFix}]
    /\ verdict \in [Runs -> {"none", "healed", "still_sick"}]
    /\ call \in [Runs -> {"none", "lookup", "comment", "create", "follow",
                          "returned", "raised"}]
    /\ target \in [Runs -> Nat]
    /\ prs \in Seq(PullRequest)
    /\ ghFaults \in 0 .. MaxPrFaults

\* What a run owns follows from where it is.
Owned ==
    \A r \in Runs :
        /\ step[r] \in {"idle", "queued", "create"} => ~vcluster[r] /\ ~kubeconfig[r]
        /\ step[r] = "ready" => ~kubeconfig[r]
        /\ step[r] = "done" /\ (vcluster[r] \/ kubeconfig[r]) => trouble + crashes > 0

\* A call that has started belongs to a run whose sandbox returned, and
\* carries its verdict and its fix.
Started(r) ==
    /\ step[r] = "done" /\ result[r] # "raised"
    /\ verdict[r] = Verdict(r)
    /\ fix[r] \in Fixes
    /\ ~dryRun

Calls ==
    /\ \A r, q \in Runs : InCall(r) /\ InCall(q) => r = q
    /\ \A r \in Runs : InCall(r) => Started(r)
    /\ \A r \in Runs : call[r] = "create" => Open(fix[r]) = {}
    /\ \A r \in Runs : call[r] \in {"comment", "follow"} => target[r] \in DOMAIN prs
    /\ \A r \in Runs : call[r] = "follow" => prs[target[r]].by = r

\* A pull request was opened by a call for its fix, and has auto-merge or no
\* human-review label only if that call was eligible.
Opened(i) ==
    LET p == prs[i] IN
    /\ call[p.by] \in {"follow", "returned", "raised"}
    /\ Started(p.by)
    /\ fix[p.by] = p.fix
    /\ p.auto \/ ~p.human => AutoMerge(p.by)

PathInv ==
    /\ SandboxTypeOK /\ PrTypeOK
    /\ Owned
    /\ Calls
    /\ \A i \in DOMAIN prs : Opened(i)
    /\ OneOpenPr

LEMMA PathInit == Init => PathInv
<1> SUFFICES ASSUME Init PROVE PathInv
  OBVIOUS
<1>1. SandboxTypeOK /\ Owned
  BY SandboxConstants, MaxCrashesAssumption
     DEF Init, SandboxInit, SandboxTypeOK, Owned
<1>2. PrTypeOK
  BY PrConstants DEF Init, PrInit, PrTypeOK
<1>3. Calls /\ OneOpenPr /\ \A i \in DOMAIN prs : Opened(i)
  BY DEF Init, PrInit, Calls, InCall, OneOpenPr
<1> QED
  BY <1>1, <1>2, <1>3 DEF PathInv

-----------------------------------------------------------------------------
(* Steps of the sandbox *)

\* A step of one run's sandbox changes that run only, and only before it is
\* over.
LEMMA SandboxStepEffect ==
    ASSUME PathInv, NEW r \in Runs, SandboxStep(r)
    PROVE  /\ step[r] # "done"
           /\ \A q \in Runs : q # r => step'[q] = step[q] /\ result'[q] = result[q]
           /\ SandboxTypeOK'
           /\ Owned'
           /\ UNCHANGED prVars
<1> USE SandboxConstants DEF PathInv, SandboxTypeOK, TrySteps, Goto, Return, InTrouble
<1>0. UNCHANGED <<prVars, crashes>> /\ trouble \in Nat /\ crashes \in Nat
  BY MaxCrashesAssumption DEF SandboxStep
<1>1. CASE Request(r)
  BY <1>0, <1>1 DEF Request, Owned
<1>2. CASE Enter(r)
  BY <1>0, <1>2 DEF Enter, Owned
<1>3. CASE Create(r)
  BY <1>0, <1>3 DEF Create, Owned
<1>4. CASE Ready(r)
  BY <1>0, <1>4 DEF Ready, Owned
<1>5. CASE Connect(r)
  BY <1>0, <1>5 DEF Connect, Owned
<1>6. CASE Apply(r)
  BY <1>0, <1>6 DEF Apply, Owned
<1>7. CASE Probe(r)
  BY <1>0, <1>7 DEF Probe, Owned
<1>8. CASE Smoke(r)
  BY <1>0, <1>8 DEF Smoke, Owned
<1>9. CASE Raise(r)
  <2>1. /\ step[r] \in TrySteps /\ trouble' = trouble + 1 /\ trouble' \in 0 .. MaxSandboxFaults
        /\ step' = [step EXCEPT ![r] = "delete"] /\ result' = [result EXCEPT ![r] = "raised"]
        /\ vcluster' = vcluster \/ vcluster' = [vcluster EXCEPT ![r] = TRUE]
        /\ kubeconfig' = kubeconfig \/ kubeconfig' = [kubeconfig EXCEPT ![r] = TRUE]
    BY <1>0, <1>9 DEF Raise
  <2>2. SandboxTypeOK'
    BY <1>0, <2>1
  <2>3. \A q \in Runs : q # r => vcluster'[q] = vcluster[q] /\ kubeconfig'[q] = kubeconfig[q]
    BY <2>1
  <2>4. Owned'
    BY <1>0, <2>1, <2>3 DEF Owned
  <2> QED
    BY <1>0, <2>1, <2>2, <2>4
<1>10. CASE Delete(r)
  <2>1. /\ step[r] = "delete" /\ step' = [step EXCEPT ![r] = "done"] /\ result' = result
        /\ kubeconfig' = [kubeconfig EXCEPT ![r] = FALSE]
        /\ \/ vcluster' = [vcluster EXCEPT ![r] = FALSE] /\ trouble' = trouble
           \/ vcluster' = vcluster /\ trouble' = trouble + 1 /\ trouble' \in 0 .. MaxSandboxFaults
    BY <1>0, <1>10 DEF Delete
  <2>2. SandboxTypeOK'
    BY <1>0, <2>1
  <2>3. \A q \in Runs : q # r => vcluster'[q] = vcluster[q] /\ kubeconfig'[q] = kubeconfig[q]
    BY <2>1
  <2>4. (vcluster'[r] \/ kubeconfig'[r]) => trouble' > 0
    BY <1>0, <2>1
  <2>5. Owned'
    BY <1>0, <2>1, <2>3, <2>4 DEF Owned
  <2> QED
    BY <1>0, <2>1, <2>2, <2>5
<1>11. CASE DeleteRaises(r)
  <2>1. /\ step[r] = "delete" /\ step' = [step EXCEPT ![r] = "done"]
        /\ result' = [result EXCEPT ![r] = "raised"] /\ kubeconfig' = kubeconfig
        /\ trouble' = trouble + 1 /\ trouble' \in 0 .. MaxSandboxFaults
        /\ vcluster' = vcluster \/ vcluster' = [vcluster EXCEPT ![r] = FALSE]
    BY <1>0, <1>11 DEF DeleteRaises
  <2>2. SandboxTypeOK'
    BY <1>0, <2>1
  <2>3. \A q \in Runs : q # r => vcluster'[q] = vcluster[q] /\ kubeconfig'[q] = kubeconfig[q]
    BY <2>1
  <2>4. Owned'
    BY <1>0, <2>1, <2>3 DEF Owned
  <2> QED
    BY <1>0, <2>1, <2>2, <2>4
<1> QED
  BY <1>1, <1>2, <1>3, <1>4, <1>5, <1>6, <1>7, <1>8, <1>9, <1>10, <1>11
     DEF SandboxStep, Advance

\* The calls and the pull requests depend only on runs that are over.
LEMMA PrPartStable ==
    ASSUME PathInv, UNCHANGED prVars,
           \A q \in Runs : step[q] = "done" => step'[q] = step[q] /\ result'[q] = result[q]
    PROVE  /\ PrTypeOK'
           /\ Calls'
           /\ (\A i \in DOMAIN prs : Opened(i))'
           /\ OneOpenPr'
<1> USE DEF PathInv, prVars
<1>1. PrTypeOK' /\ OneOpenPr'
  BY DEF PrTypeOK, OneOpenPr
<1>2. \A q \in Runs : Started(q) => Started(q)'
  BY DEF Started, Verdict
<1>3. Calls'
  BY <1>2 DEF Calls, InCall, Open
<1>4. ASSUME NEW i \in DOMAIN prs PROVE Opened(i)'
  <2>0. prs[i] \in PullRequest
    BY DEF PrTypeOK
  <2>1. prs[i].by \in Runs
    BY <2>0 DEF PullRequest
  <2> QED
    BY <1>2, <2>1 DEF Opened, AutoMerge, NeedsHuman
<1> QED
  BY <1>1, <1>3, <1>4

LEMMA PathSandboxStep ==
    ASSUME PathInv, NEW r \in Runs, SandboxStep(r)
    PROVE  PathInv'
BY SandboxStepEffect, PrPartStable DEF PathInv

-----------------------------------------------------------------------------
(* Steps of the pull requests *)

\* A pull request that exists stays opened when its run's call, fix and
\* verdict stay and it gains neither auto-merge nor a lost label.
LEMMA OpenedStable ==
    ASSUME PathInv, UNCHANGED <<sandboxVars, dryRun>>, NEW i \in DOMAIN prs,
           prs'[i].by = prs[i].by, prs'[i].fix = prs[i].fix,
           fix'[prs[i].by] = fix[prs[i].by], verdict'[prs[i].by] = verdict[prs[i].by],
           call'[prs[i].by] \in {"follow", "returned", "raised"},
           (prs'[i].auto \/ ~prs'[i].human) => AutoMerge(prs[i].by)
    PROVE  Opened(i)'
BY DEF PathInv, Opened, Started, Verdict, AutoMerge, sandboxVars

LEMMA PathReport ==
    ASSUME PathInv, NEW r \in Runs, Report(r)
    PROVE  PathInv'
<1> USE DEF PathInv
<1>1. PICK f \in Fixes : Call(r, f, Verdict(r))
  BY DEF Report
<1>2. /\ step[r] = "done" /\ result[r] # "raised" /\ call[r] = "none"
      /\ \A q \in Runs : ~InCall(q)
      /\ fix' = [fix EXCEPT ![r] = f]
      /\ verdict' = [verdict EXCEPT ![r] = Verdict(r)]
      /\ call' = [call EXCEPT ![r] = IF dryRun THEN "returned" ELSE "lookup"]
      /\ UNCHANGED <<dryRun, target, prs, ghFaults, sandboxVars, crashes>>
  BY <1>1 DEF Report, Call, Blocked, InCall, At
<1>3. SandboxTypeOK' /\ Owned'
  BY <1>2 DEF SandboxTypeOK, Owned, sandboxVars
<1>4. PrTypeOK'
  BY <1>2 DEF PrTypeOK, Verdict
<1>5. Calls'
  <2>1. \A q \in Runs : InCall(q)' => q = r /\ ~dryRun
    BY <1>2 DEF InCall, PrTypeOK
  <2>2. ~dryRun => Started(r)'
    BY <1>2 DEF Started, Verdict, sandboxVars, PrTypeOK
  <2>3. call'[r] \in {"lookup", "returned"}
    BY <1>2 DEF PrTypeOK
  <2> QED
    BY <2>1, <2>2, <2>3 DEF Calls, InCall
<1>6. ASSUME NEW i \in DOMAIN prs PROVE Opened(i)'
  <2>0. prs[i] \in PullRequest
    BY DEF PrTypeOK
  <2>1. prs[i].by \in Runs /\ prs[i].by # r
    BY <1>2, <2>0 DEF Opened, PullRequest
  <2>2. /\ fix'[prs[i].by] = fix[prs[i].by] /\ verdict'[prs[i].by] = verdict[prs[i].by]
        /\ call'[prs[i].by] = call[prs[i].by]
    BY <1>2, <2>1 DEF PrTypeOK
  <2> QED
    BY <1>2, <2>2, OpenedStable DEF Opened
<1> QED
  BY <1>2, <1>3, <1>4, <1>5, <1>6 DEF OneOpenPr

\* The sandboxes do not notice a step of a call.
LEMMA SandboxPartStable ==
    ASSUME PathInv, UNCHANGED <<sandboxVars, crashes>>
    PROVE  SandboxTypeOK' /\ Owned'
BY DEF PathInv, SandboxTypeOK, Owned, sandboxVars

\* A pull request's run is a run and its fix a fix.
LEMMA PullRequestTypes ==
    ASSUME PrTypeOK, NEW i \in DOMAIN prs
    PROVE  prs[i] \in PullRequest /\ prs[i].by \in Runs /\ prs[i].fix \in Fixes
<1>1. prs[i] \in PullRequest
  BY DEF PrTypeOK
<1> QED
  BY <1>1 DEF PullRequest

\* One pull request is replaced.
LEMMA ReplacePr ==
    ASSUME PrTypeOK, NEW t \in DOMAIN prs, NEW p \in PullRequest,
           prs' = [prs EXCEPT ![t] = p]
    PROVE  /\ prs' \in Seq(PullRequest)
           /\ DOMAIN prs' = DOMAIN prs
           /\ prs'[t] = p
           /\ \A i \in DOMAIN prs : i # t => prs'[i] = prs[i]
<1>1. prs \in Seq(PullRequest) /\ t \in 1 .. Len(prs)
  BY DEF PrTypeOK
<1>2. prs' \in Seq(PullRequest)
  BY <1>1, ExceptSeq
<1> QED
  BY <1>1, <1>2

LEMMA PathLookup ==
    ASSUME PathInv, NEW r \in Runs, Lookup(r), UNCHANGED <<sandboxVars, crashes>>
    PROVE  PathInv'
<1> USE DEF PathInv
<1>1. /\ call[r] = "lookup" /\ InCall(r)
      /\ UNCHANGED <<dryRun, fix, verdict, prs>>
  BY DEF Lookup, InCall
<1>2. PICK c \in {"comment", "create", "raised"} :
         /\ call' = [call EXCEPT ![r] = c]
         /\ c = "comment" => target'[r] \in DOMAIN prs
         /\ c = "create" => Open(fix[r]) = {}
  <2>1. CASE Open(fix[r]) # {} /\ At(r, "comment")
                /\ target' = [target EXCEPT ![r] = CHOOSE i \in Open(fix[r]) : TRUE]
    <3>1. (CHOOSE i \in Open(fix[r]) : TRUE) \in DOMAIN prs
      BY <2>1 DEF Open
    <3>2. target'[r] \in DOMAIN prs
      BY <2>1, <3>1 DEF PrTypeOK
    <3> QED
      BY <2>1, <3>2 DEF At
  <2>2. CASE Open(fix[r]) = {} /\ At(r, "create")
    BY <2>2 DEF At
  <2>3. CASE At(r, "raised")
    BY <2>3 DEF At
  <2> QED
    BY <2>1, <2>2, <2>3 DEF Lookup
<1>3. /\ target' \in [Runs -> Nat] /\ ghFaults' \in 0 .. MaxPrFaults
      /\ \A q \in Runs : q # r => target'[q] = target[q]
  <2>1. DOMAIN prs \subseteq Nat
    BY DEF PrTypeOK
  <2>2. \A j \in Open(fix[r]) : j \in Nat
    BY <2>1 DEF Open
  <2>3. Open(fix[r]) # {} => (CHOOSE i \in Open(fix[r]) : TRUE) \in Nat
    BY <2>2
  <2> QED
    <3>1. ghFaults' \in 0 .. MaxPrFaults
      BY PrConstants DEF Lookup, PrTypeOK, GhWorks, GhFails
    <3>2. target' = target \/ \E t \in Nat : target' = [target EXCEPT ![r] = t]
      BY <2>3 DEF Lookup
    <3> QED
      BY <3>1, <3>2 DEF PrTypeOK
<1>4. PrTypeOK'
  BY <1>1, <1>2, <1>3 DEF PrTypeOK
<1>5. \A q \in Runs : q # r => call'[q] = call[q] /\ ~InCall(q)
  BY <1>1, <1>2 DEF Calls, PrTypeOK
<1>6. \A q \in Runs : Started(q) => Started(q)'
  BY <1>1 DEF Started, Verdict, sandboxVars
<1>7. Calls'
  <2>1. Started(r)'
    BY <1>1, <1>6 DEF Calls
  <2>2. call'[r] \in {"comment", "create", "raised"}
    BY <1>2 DEF PrTypeOK
  <2>3. \A q \in Runs : InCall(q)' => q = r
    BY <1>5 DEF InCall
  <2>4. call'[r] = "create" => Open(fix[r])' = {}
    BY <1>1, <1>2 DEF PrTypeOK, Open
  <2>5. call'[r] = "comment" => target'[r] \in DOMAIN prs'
    BY <1>1, <1>2 DEF PrTypeOK
  <2> QED
    BY <2>1, <2>2, <2>3, <2>4, <2>5 DEF Calls, InCall
<1>8. ASSUME NEW i \in DOMAIN prs PROVE Opened(i)'
  <2>1. prs[i].by \in Runs /\ prs[i].by # r
    BY <1>1, PullRequestTypes DEF Opened
  <2> QED
    BY <1>1, <1>5, <2>1, OpenedStable DEF Opened
<1> QED
  BY <1>1, <1>4, <1>7, <1>8, SandboxPartStable DEF OneOpenPr

LEMMA PathComment ==
    ASSUME PathInv, NEW r \in Runs, Comment(r), UNCHANGED <<sandboxVars, crashes>>
    PROVE  PathInv'
<1> USE DEF PathInv
<1>1. /\ call[r] = "comment" /\ InCall(r) /\ target[r] \in DOMAIN prs
      /\ UNCHANGED <<dryRun, fix, verdict, target>>
  BY DEF Comment, InCall, Calls
<1>2. PICK c \in {"returned", "raised"} : call' = [call EXCEPT ![r] = c]
  BY DEF Comment, At
<1>3. prs' = prs \/ prs' = [prs EXCEPT ![target[r]].reported = verdict[r]]
  BY DEF Comment
<1>4. verdict[r] \in {"healed", "still_sick"}
  BY <1>1 DEF Calls, Started, Verdict
<1>5. /\ prs' \in Seq(PullRequest) /\ DOMAIN prs' = DOMAIN prs
      /\ \A i \in DOMAIN prs :
            /\ prs'[i].by = prs[i].by /\ prs'[i].fix = prs[i].fix
            /\ prs'[i].state = prs[i].state /\ prs'[i].auto = prs[i].auto
            /\ prs'[i].human = prs[i].human
  <2> DEFINE old == prs[target[r]]
             new == [old EXCEPT !.reported = verdict[r]]
  <2>1. old \in PullRequest
    BY <1>1, PullRequestTypes
  <2>2. /\ new \in PullRequest
        /\ new.by = old.by /\ new.fix = old.fix /\ new.state = old.state
        /\ new.auto = old.auto /\ new.human = old.human
    BY <1>4, <2>1 DEF PullRequest
  <2>3. prs' = prs \/ prs' = [prs EXCEPT ![target[r]] = new]
    BY <1>3
  <2>4. CASE prs' = prs
    BY <2>4 DEF PrTypeOK
  <2>5. CASE prs' = [prs EXCEPT ![target[r]] = new]
    <3> HIDE DEF new
    <3>1. /\ prs' \in Seq(PullRequest) /\ DOMAIN prs' = DOMAIN prs
          /\ prs'[target[r]] = new
          /\ \A i \in DOMAIN prs : i # target[r] => prs'[i] = prs[i]
      BY <1>1, <2>2, <2>5, ReplacePr
    <3> QED
      BY <2>2, <3>1
  <2> QED
    BY <2>3, <2>4, <2>5
<1>6. PrTypeOK'
  BY <1>1, <1>2, <1>5, PrConstants DEF PrTypeOK, Comment, GhWorks, GhFails
<1>7. \A q \in Runs : q # r => call'[q] = call[q] /\ ~InCall(q)
  BY <1>1, <1>2 DEF Calls, PrTypeOK
<1>8. \A q \in Runs : ~InCall(q)'
  BY <1>2, <1>7 DEF InCall, PrTypeOK
<1>9. Calls'
  BY <1>8 DEF Calls, InCall
<1>10. ASSUME NEW i \in DOMAIN prs PROVE Opened(i)'
  <2>1. prs[i].by \in Runs /\ prs[i].by # r
    BY <1>1, PullRequestTypes DEF Opened
  <2> QED
    BY <1>1, <1>5, <1>7, <2>1, OpenedStable DEF Opened
<1>11. OneOpenPr'
  BY <1>5 DEF OneOpenPr
<1> QED
  BY <1>5, <1>6, <1>9, <1>10, <1>11, SandboxPartStable

\* The pull request a call opens reports its run's verdict on its fix.
LEMMA NewPrFields ==
    ASSUME PrTypeOK, NEW r \in Runs, Started(r)
    PROVE  /\ NewPr(r) \in PullRequest
           /\ NewPr(r).by = r /\ NewPr(r).fix = fix[r] /\ NewPr(r).state = "open"
           /\ NewPr(r).auto \/ ~NewPr(r).human => AutoMerge(r)
BY DEF Started, Verdict, NewPr, PullRequest, AutoMerge, NeedsHuman

LEMMA PathCreatePr ==
    ASSUME PathInv, NEW r \in Runs, CreatePr(r), UNCHANGED <<sandboxVars, crashes>>
    PROVE  PathInv'
<1> USE DEF PathInv
<1> DEFINE n == Len(prs) + 1
<1>1. /\ call[r] = "create" /\ InCall(r) /\ Started(r) /\ Open(fix[r]) = {}
      /\ UNCHANGED <<dryRun, fix, verdict>>
  BY DEF CreatePr, InCall, Calls
<1>2. /\ prs \in Seq(PullRequest) /\ DOMAIN prs = 1 .. Len(prs) /\ Len(prs) \in Nat
      /\ n \notin DOMAIN prs
  BY DEF PrTypeOK
<1>3. PICK c \in {"follow", "raised"} :
         /\ call' = [call EXCEPT ![r] = c]
         /\ c = "follow" => prs' = Append(prs, NewPr(r)) /\ target' = [target EXCEPT ![r] = n]
         /\ c = "raised" => target' = target
  BY DEF CreatePr, At
<1>4. prs' = prs \/ prs' = Append(prs, NewPr(r))
  BY DEF CreatePr
<1>5. /\ NewPr(r) \in PullRequest
      /\ NewPr(r).by = r /\ NewPr(r).fix = fix[r] /\ NewPr(r).state = "open"
      /\ NewPr(r).auto \/ ~NewPr(r).human => AutoMerge(r)
  BY <1>1, NewPrFields
<1>6. /\ prs' \in Seq(PullRequest)
      /\ \A i \in DOMAIN prs' :
            \/ i \in DOMAIN prs /\ prs'[i] = prs[i]
            \/ i = n /\ prs'[i] = NewPr(r)
      /\ prs' # prs => n \in DOMAIN prs' /\ prs'[n] = NewPr(r)
  BY <1>2, <1>4, <1>5
<1>7. target' \in [Runs -> Nat]
  <2>1. n \in Nat
    BY <1>2
  <2> HIDE DEF n
  <2>2. target' = target \/ target' = [target EXCEPT ![r] = n]
    BY <1>3
  <2> QED
    BY <2>1, <2>2 DEF PrTypeOK
<1>8. PrTypeOK'
  <2>1. ghFaults' \in 0 .. MaxPrFaults
    BY PrConstants DEF CreatePr, PrTypeOK, GhWorks, GhFails
  <2> QED
    BY <1>1, <1>3, <1>6, <1>7, <2>1 DEF PrTypeOK
<1>9. \A q \in Runs : q # r => call'[q] = call[q] /\ ~InCall(q)
  BY <1>1, <1>3 DEF Calls, PrTypeOK
<1>10. \A q \in Runs : Started(q) => Started(q)'
  BY <1>1 DEF Started, Verdict, sandboxVars
<1>11. Calls'
  <2>1. call'[r] \in {"follow", "raised"} /\ Started(r)'
    BY <1>1, <1>3, <1>10 DEF PrTypeOK
  <2>2. \A q \in Runs : InCall(q)' => q = r
    BY <1>9 DEF InCall
  <2>3. call'[r] = "follow" => target'[r] = n /\ n \in DOMAIN prs' /\ prs'[n].by = r
    BY <1>2, <1>3, <1>5, <1>6 DEF PrTypeOK
  <2> QED
    BY <2>1, <2>2, <2>3 DEF Calls, InCall
<1>12. ASSUME NEW i \in DOMAIN prs' PROVE Opened(i)'
  <2>1. CASE i \in DOMAIN prs /\ prs'[i] = prs[i]
    <3>1. prs[i].by \in Runs /\ prs[i].by # r
      BY <1>1, <2>1, PullRequestTypes DEF Opened
    <3> QED
      BY <1>1, <1>9, <2>1, <3>1, OpenedStable DEF Opened
  <2>2. CASE i = n /\ prs'[i] = NewPr(r)
    <3>1. Started(r)' /\ call'[r] \in {"follow", "raised"} /\ (AutoMerge(r) => AutoMerge(r)')
      BY <1>1, <1>3, <1>10 DEF PrTypeOK, AutoMerge
    <3> QED
      BY <1>1, <1>5, <2>2, <3>1 DEF Opened
  <2> QED
    BY <1>6, <2>1, <2>2
<1>13. OneOpenPr'
  <2> SUFFICES ASSUME NEW i \in DOMAIN prs', NEW j \in DOMAIN prs',
                      prs'[i].fix = prs'[j].fix,
                      prs'[i].state = "open", prs'[j].state = "open"
               PROVE  i = j
    BY DEF OneOpenPr
  <2>1. ASSUME NEW k \in DOMAIN prs, prs[k].fix = fix[r], prs[k].state = "open" PROVE FALSE
    BY <1>1, <2>1 DEF Open
  <2> QED
    BY <1>5, <1>6, <2>1 DEF OneOpenPr
<1> QED
  BY <1>8, <1>11, <1>12, <1>13, SandboxPartStable

LEMMA PathFollowUp ==
    ASSUME PathInv, NEW r \in Runs, FollowUp(r), UNCHANGED <<sandboxVars, crashes>>
    PROVE  PathInv'
<1> USE DEF PathInv
<1> DEFINE t   == target[r]
           old == prs[t]
           new == [old EXCEPT !.assigned = HasAssignee(fix[r]),
                              !.auto = AutoMerge(r) /\ prs[t].state = "open"]
<1>1. /\ call[r] = "follow" /\ InCall(r) /\ t \in DOMAIN prs /\ old.by = r
      /\ UNCHANGED <<dryRun, fix, verdict, target>>
      /\ call' = [call EXCEPT ![r] = "returned"]
  BY DEF FollowUp, InCall, Calls, At
<1>2. old \in PullRequest
  BY <1>1, PullRequestTypes
<1>3. /\ new \in PullRequest
      /\ new.by = old.by /\ new.fix = old.fix /\ new.state = old.state
      /\ new.human = old.human /\ (new.auto => AutoMerge(r))
  BY <1>2 DEF PullRequest, HasAssignee, NeedsHuman, AutoMerge
<1>4. prs' = prs \/ prs' = [prs EXCEPT ![t] = new]
  BY DEF FollowUp
<1>5. /\ prs' \in Seq(PullRequest) /\ DOMAIN prs' = DOMAIN prs
      /\ \A i \in DOMAIN prs :
            /\ prs'[i].by = prs[i].by /\ prs'[i].fix = prs[i].fix
            /\ prs'[i].state = prs[i].state /\ prs'[i].human = prs[i].human
            /\ prs'[i].auto = prs[i].auto \/ (i = t /\ (prs'[i].auto => AutoMerge(r)))
  <2>1. CASE prs' = prs
    BY <2>1 DEF PrTypeOK
  <2>2. CASE prs' = [prs EXCEPT ![t] = new]
    <3> HIDE DEF new
    <3>1. /\ prs' \in Seq(PullRequest) /\ DOMAIN prs' = DOMAIN prs /\ prs'[t] = new
          /\ \A i \in DOMAIN prs : i # t => prs'[i] = prs[i]
      BY <1>1, <1>3, <2>2, ReplacePr
    <3> QED
      BY <1>3, <3>1
  <2> QED
    BY <1>4, <2>1, <2>2
<1>6. PrTypeOK'
  <2>1. ghFaults' \in 0 .. MaxPrFaults
    BY PrConstants DEF FollowUp, PrTypeOK, GhWorks, GhFails
  <2> QED
    BY <1>1, <1>5, <2>1 DEF PrTypeOK
<1>7. \A q \in Runs : q # r => call'[q] = call[q] /\ ~InCall(q)
  BY <1>1 DEF Calls, PrTypeOK
<1>8. \A q \in Runs : ~InCall(q)'
  BY <1>1, <1>7 DEF InCall, PrTypeOK
<1>9. Calls'
  BY <1>8 DEF Calls, InCall
<1>10. ASSUME NEW i \in DOMAIN prs PROVE Opened(i)'
  <2>1. /\ prs[i].by \in Runs /\ Opened(i)
        /\ call'[prs[i].by] \in {"follow", "returned", "raised"}
    BY <1>1, <1>7, PullRequestTypes DEF Opened, PrTypeOK
  <2>2. (prs'[i].auto \/ ~prs'[i].human) => AutoMerge(prs[i].by)
    BY <1>1, <1>5, <2>1 DEF Opened
  <2> QED
    BY <1>1, <1>5, <2>1, <2>2, OpenedStable
<1>11. OneOpenPr'
  BY <1>5 DEF OneOpenPr
<1> QED
  BY <1>5, <1>6, <1>9, <1>10, <1>11, SandboxPartStable

LEMMA PathSettle ==
    ASSUME PathInv, NEW t \in DOMAIN prs, Settle(t), UNCHANGED <<sandboxVars, crashes>>
    PROVE  PathInv'
<1> USE DEF PathInv
<1>1. PICK s \in {"merged", "closed", "automerged"} : prs' = [prs EXCEPT ![t].state = s]
  BY DEF Settle
<1> DEFINE new == [prs[t] EXCEPT !.state = s]
<1>2. UNCHANGED <<dryRun, fix, verdict, call, target, ghFaults>>
  BY DEF Settle
<1>3. /\ new \in PullRequest
      /\ new.by = prs[t].by /\ new.fix = prs[t].fix /\ new.state # "open"
      /\ new.auto = prs[t].auto /\ new.human = prs[t].human
  BY PullRequestTypes DEF PullRequest
<1>4. /\ prs' \in Seq(PullRequest) /\ DOMAIN prs' = DOMAIN prs /\ prs'[t] = new
      /\ \A i \in DOMAIN prs : i # t => prs'[i] = prs[i]
  <2>1. prs' = [prs EXCEPT ![t] = new]
    BY <1>1
  <2> HIDE DEF new
  <2> QED
    BY <1>3, <2>1, ReplacePr
<1>5. \A i \in DOMAIN prs :
         /\ prs'[i].by = prs[i].by /\ prs'[i].fix = prs[i].fix
         /\ prs'[i].auto = prs[i].auto /\ prs'[i].human = prs[i].human
         /\ prs'[i].state = "open" => prs[i].state = "open"
  BY <1>3, <1>4
<1>6. PrTypeOK'
  BY <1>2, <1>4 DEF PrTypeOK
<1>7. \A q \in Runs : Started(q) => Started(q)'
  BY <1>2 DEF Started, Verdict, sandboxVars
<1>8. \A f : Open(f)' \subseteq Open(f)
  BY <1>4, <1>5 DEF Open
<1>9. Calls'
  BY <1>2, <1>4, <1>5, <1>7, <1>8 DEF Calls, InCall
<1>10. ASSUME NEW i \in DOMAIN prs PROVE Opened(i)'
  BY <1>2, <1>5, OpenedStable DEF Opened
<1>11. OneOpenPr'
  BY <1>4, <1>5 DEF OneOpenPr
<1> QED
  BY <1>4, <1>6, <1>9, <1>10, <1>11, SandboxPartStable

-----------------------------------------------------------------------------
(* Restarts *)

LEMMA PathCrash ==
    ASSUME PathInv, Crash
    PROVE  PathInv'
<1> USE DEF PathInv
<1>1. /\ crashes' = crashes + 1 /\ crashes' \in 0 .. MaxCrashes
      /\ UNCHANGED <<vcluster, kubeconfig, trouble, dryRun, fix, verdict, target, prs, ghFaults>>
      /\ step' = [r \in Runs |-> IF step[r] = "idle" THEN "idle" ELSE "done"]
      /\ result' = [r \in Runs |-> IF Inside(r) \/ step[r] = "queued"
                                   THEN "raised" ELSE result[r]]
  BY MaxCrashesAssumption DEF Crash, SandboxCrash, PrCrash, SandboxTypeOK
<1>2. /\ call' \in [Runs -> {"none", "returned", "raised"}]
      /\ \A r \in Runs : call[r] \in {"follow", "returned", "raised"} =>
                             call'[r] \in {"returned", "raised"}
  <2>1. \A r \in Runs : call'[r] = "raised" \/ (call'[r] = call[r] /\ ~InCall(r))
    BY DEF Crash, PrCrash, InCall
  <2>2. call' = [r \in Runs |-> call'[r]]
    BY DEF Crash, PrCrash
  <2> QED
    BY <2>1, <2>2 DEF InCall, PrTypeOK
<1>3. SandboxTypeOK'
  BY <1>1 DEF SandboxTypeOK
<1>4. Owned'
  BY <1>1 DEF Owned, SandboxTypeOK
<1>5. PrTypeOK'
  BY <1>1, <1>2 DEF PrTypeOK
<1>6. \A r \in Runs : Started(r) => Started(r)'
  BY <1>1 DEF Started, Verdict, Inside, TrySteps
<1>7. Calls'
  BY <1>2 DEF Calls, InCall
<1>8. ASSUME NEW i \in DOMAIN prs PROVE Opened(i)'
  <2>1. prs[i].by \in Runs
    BY PullRequestTypes
  <2> QED
    BY <1>1, <1>2, <1>6, <2>1 DEF Opened, AutoMerge
<1>9. OneOpenPr'
  BY <1>1 DEF OneOpenPr
<1> QED
  BY <1>1, <1>3, <1>4, <1>5, <1>7, <1>8, <1>9

LEMMA PathNext == PathInv /\ [Next]_vars => PathInv'
<1> SUFFICES ASSUME PathInv, [Next]_vars PROVE PathInv'
  OBVIOUS
<1>1. ASSUME NEW r \in Runs, SandboxStep(r) PROVE PathInv'
  BY <1>1, PathSandboxStep
<1>2. ASSUME NEW r \in Runs, Report(r) PROVE PathInv'
  BY <1>2, PathReport
<1>3. ASSUME NEW r \in Runs, Publish(r) PROVE PathInv'
  BY <1>3, PathLookup, PathComment, PathCreatePr, PathFollowUp DEF Publish, PrStep
<1>4. CASE GitHub
  BY <1>4, PathSettle DEF GitHub
<1>5. CASE Crash
  BY <1>5, PathCrash
<1>6. CASE UNCHANGED vars
  <2>1. UNCHANGED prVars /\ UNCHANGED <<sandboxVars, crashes>>
    BY <1>6 DEF vars
  <2> QED
    BY <2>1, PrPartStable, SandboxPartStable DEF PathInv, sandboxVars
<1> QED
  BY <1>1, <1>2, <1>3, <1>4, <1>5, <1>6 DEF Next

LEMMA PathInvariant == Spec => []PathInv
BY PathInit, PathNext, PTL DEF Spec

-----------------------------------------------------------------------------
(* The theorems *)

\* Every variable of the path keeps its type.
THEOREM PathTypeCorrect == Spec => []TypeOK
<1>1. PathInv => TypeOK
  BY DEF PathInv, SandboxTypeOK, PrTypeOK, TypeOK
<1> QED
  BY <1>1, PathInvariant, PTL

\* Auto-merge is the privilege of green, deterministic fixes in allowed
\* namespaces, and everything else asks for a human.
THEOREM AutoMergeGuarded == Spec => []AutoMergeGate
<1>1. PathInv => AutoMergeGate
  <2> SUFFICES ASSUME PathInv, NEW i \in DOMAIN prs
               PROVE  LET p == prs[i] IN
                      /\ ~dryRun
                      /\ p.auto => /\ result[p.by] = "passed" /\ fix[p.by] = p.fix
                                   /\ p.fix \in Deterministic \cap Allowed
                                   /\ p.fix \notin Trading \cup PrOnly
                      /\ ~p.human => result[p.by] = "passed" /\ p.fix \notin Trading \cup PrOnly
    BY DEF AutoMergeGate
  <2>1. Opened(i)
    BY DEF PathInv
  <2> QED
    BY <2>1 DEF Opened, Started, Verdict, AutoMerge, NeedsHuman
<1> QED
  BY <1>1, PathInvariant, PTL

\* A (finding, fix) pair has at most one open pull request.
THEOREM SingleOpenPr == Spec => []OneOpenPr
<1>1. PathInv => OneOpenPr
  BY DEF PathInv
<1> QED
  BY <1>1, PathInvariant, PTL

\* Without a fault or a restart, a run that is over has left nothing behind.
THEOREM SandboxesTornDown == Spec => []TornDown
<1>1. PathInv => TornDown
  BY DEF PathInv, Owned, TornDown
<1> QED
  BY <1>1, PathInvariant, PTL

\* Auto-merge is turned on by the call that opened the pull request, and no
\* step takes a label away.
LEMMA RerunStep ==
    ASSUME PathInv, [Next]_vars, NEW i \in DOMAIN prs
    PROVE  /\ prs'[i].auto /\ ~prs[i].auto => call[prs[i].by] = "follow"
           /\ prs[i].human => prs'[i].human
<1>0. prs \in Seq(PullRequest) /\ prs[i] \in PullRequest
  BY PullRequestTypes DEF PathInv, PrTypeOK
<1> DEFINE Kept == prs'[i].auto = prs[i].auto /\ prs'[i].human = prs[i].human
<1>1. ASSUME prs' = prs PROVE Kept
  BY <1>1
<1>2. ASSUME NEW r \in Runs, Comment(r) PROVE Kept
  <2>1. prs' = prs \/ prs' = [prs EXCEPT ![target[r]].reported = verdict[r]]
    BY <1>2 DEF Comment
  <2> QED
    BY <1>0, <2>1 DEF PullRequest
<1>3. ASSUME NEW r \in Runs, CreatePr(r) PROVE Kept
  <2>1. prs' = prs \/ prs' = Append(prs, NewPr(r))
    BY <1>3 DEF CreatePr
  <2>2. prs'[i] = prs[i]
    BY <1>0, <2>1, AppendProperties
  <2> QED
    BY <2>2
<1>4. ASSUME NEW r \in Runs, FollowUp(r)
      PROVE  (Kept \/ call[prs[i].by] = "follow") /\ prs'[i].human = prs[i].human
  <2>1. call[r] = "follow" /\ prs[target[r]].by = r
    BY <1>4 DEF FollowUp, PathInv, Calls
  <2>2. \/ prs' = prs
        \/ prs' = [prs EXCEPT ![target[r]].assigned = HasAssignee(fix[r]),
                              ![target[r]].auto = AutoMerge(r) /\ prs[target[r]].state = "open"]
    BY <1>4 DEF FollowUp
  <2>3. CASE i = target[r]
    BY <1>0, <2>1, <2>2, <2>3 DEF PullRequest
  <2>4. CASE i # target[r]
    BY <1>0, <2>2, <2>4
  <2> QED
    BY <2>3, <2>4
<1>5. ASSUME NEW t \in DOMAIN prs, Settle(t) PROVE Kept
  <2>1. PICK s \in {"merged", "closed", "automerged"} : prs' = [prs EXCEPT ![t].state = s]
    BY <1>5 DEF Settle
  <2> QED
    BY <1>0, <2>1 DEF PullRequest
<1>6. ASSUME NEW r \in Runs, Publish(r)
      PROVE  (Kept \/ call[prs[i].by] = "follow") /\ prs'[i].human = prs[i].human
  <2>1. Lookup(r) => prs' = prs
    BY DEF Lookup
  <2> QED
    BY <1>1, <1>2, <1>3, <1>4, <1>6, <2>1 DEF Publish, PrStep
<1>7. CASE GitHub
  BY <1>5, <1>7 DEF GitHub
<1>8. ASSUME NEW r \in Runs, SandboxStep(r) \/ Report(r) PROVE prs' = prs
  BY <1>8 DEF SandboxStep, Report, Call, prVars
<1>9. CASE Crash
  BY <1>1, <1>9 DEF Crash, PrCrash
<1>10. CASE UNCHANGED vars
  BY <1>1, <1>10 DEF vars, prVars
<1> QED
  BY <1>1, <1>6, <1>7, <1>8, <1>9, <1>10 DEF Next

\* A re-run of an existing pull request never turns auto-merge on and never
\* takes the human-review label away.
THEOREM RerunsNeverEscalate == Spec => RerunNeverEscalates
<1>1. PathInv /\ [Next]_vars =>
        [\A i \in DOMAIN prs :
            /\ prs'[i].auto /\ ~prs[i].auto => call[prs[i].by] = "follow"
            /\ prs[i].human => prs'[i].human]_vars
  BY RerunStep
<1> QED
  BY <1>1, PathInvariant, PTL DEF Spec, RerunNeverEscalates
=============================================================================
