---------------------------- MODULE WorkQueueProofs ----------------------------
(***************************************************************************)
(* Proofs about the other two work queues, the audit-run row and the Redis *)
(* queue, for any set of threads or agents and any number of deaths and    *)
(* failures, and about the three queues as MCWorkQueues composes them.     *)
(***************************************************************************)
EXTENDS MCWorkQueues, WorklistProofs, FiniteSetTheorems

-----------------------------------------------------------------------------
(* AuditRun *)

\* Callers inside increment_iteration.
Inside == reading \cup owing

\* Until a stop reason is recorded, each call that had to escalate is still
\* inside increment_iteration or was killed there.
Owed == ~stopped => OverBudget <= Cardinality(Inside) + deaths

AuditInv == AuditTypeOK /\ IsFiniteSet(Inside) /\ Owed

LEMMA AuditInitInv == AuditInit => AuditInv
<1> SUFFICES ASSUME AuditInit PROVE AuditInv
  OBVIOUS
<1>1. IsFiniteSet(Inside) /\ Cardinality(Inside) = 0
  <2>1. Inside = {}
    BY DEF AuditInit, Inside
  <2> QED BY <2>1, FS_EmptySet
<1>2. 0 \in 0 .. MaxCount /\ 0 \in 0 .. MaxDeaths
  BY AuditRunConstants DEF MaxCount
<1>3. AuditTypeOK
  BY <1>2, Zenon DEF AuditInit, AuditTypeOK, Phases
<1> QED
  BY <1>1, <1>3, AuditRunConstants DEF AuditInit, AuditInv, Owed, OverBudget

LEMMA AuditNextInv == AuditInv /\ [AuditNext]_auditVars => AuditInv'
<1> SUFFICES ASSUME AuditInv, [AuditNext]_auditVars PROVE AuditInv'
  OBVIOUS
<1> USE AuditRunConstants DEF AuditInv, MaxCount
<1>0. Cardinality(Inside) \in Nat /\ count \in Nat /\ deaths \in Nat
  BY FS_CardinalityType DEF AuditTypeOK
<1>1. CASE EnsureAuditRun
  BY <1>1 DEF EnsureAuditRun, AuditTypeOK, Owed, OverBudget, Inside
<1>2. ASSUME NEW t \in Threads, NEW new \in Phases, AdvancePhase(t, new) PROVE AuditInv'
  BY <1>2 DEF AdvancePhase, AuditTypeOK, Owed, OverBudget, Inside
<1>3. ASSUME NEW t \in Threads, IncrementIteration(t) PROVE AuditInv'
  <2>1. /\ t \notin Inside /\ count' = count + 1 /\ count' \in 0 .. MaxCount
        /\ phase' = "review" /\ reading' = reading \cup {t}
        /\ UNCHANGED <<exists, stopped, owing, deaths>>
    BY <1>0, <1>3 DEF IncrementIteration, Free, Inside
  <2>2. AuditTypeOK'
    BY <2>1 DEF AuditTypeOK, Phases
  <2>3. Inside' = Inside \cup {t}
    BY <2>1 DEF Inside
  <2>4. IsFiniteSet(Inside') /\ Cardinality(Inside') = Cardinality(Inside) + 1
    BY <2>1, <2>3, FS_AddElement
  <2>5. OverBudget' <= OverBudget + 1 /\ OverBudget' \in Nat /\ OverBudget \in Nat
    BY <1>0, <2>1 DEF OverBudget
  <2>6. Owed'
    BY <1>0, <2>1, <2>4, <2>5 DEF Owed
  <2> QED
    BY <2>2, <2>4, <2>6
<1>4. ASSUME NEW t \in Threads, ReadBack(t) PROVE AuditInv'
  <2>1. /\ t \in reading /\ reading' = reading \ {t}
        /\ owing' = IF count >= MaxIterations THEN owing \cup {t} ELSE owing
        /\ UNCHANGED <<exists, phase, count, stopped, deaths>>
    BY <1>4 DEF ReadBack, ShouldEscalate, row
  <2>2. AuditTypeOK'
    BY <2>1 DEF AuditTypeOK
  <2>3. CASE count >= MaxIterations
    <3>1. Inside' = Inside
      BY <2>1, <2>3 DEF Inside
    <3> QED
      BY <2>1, <2>2, <3>1 DEF Owed, OverBudget
  <2>4. CASE ~(count >= MaxIterations)
    <3>1. Inside' \subseteq Inside
      BY <2>1, <2>4 DEF Inside
    <3>2. IsFiniteSet(Inside') /\ Cardinality(Inside') \in Nat
      BY <3>1, FS_Subset, FS_CardinalityType
    <3>3. OverBudget' = 0 /\ deaths' \in Nat
      BY <1>0, <2>1, <2>4 DEF OverBudget
    <3> QED
      BY <2>2, <3>2, <3>3 DEF Owed
  <2> QED
    BY <2>3, <2>4
<1>5. ASSUME NEW t \in Threads, EscalateOwed(t) PROVE AuditInv'
  <2>1. Inside' \subseteq Inside
    BY <1>5 DEF EscalateOwed, SetEscalated, Inside
  <2>2. IsFiniteSet(Inside')
    BY <2>1, FS_Subset
  <2> QED
    BY <1>5, <2>2 DEF EscalateOwed, SetEscalated, AuditTypeOK, Owed, Phases
<1>6. ASSUME NEW t \in Threads, Escalate(t) PROVE AuditInv'
  BY <1>6 DEF Escalate, SetEscalated, AuditTypeOK, Owed, Phases, Inside
<1>7. ASSUME NEW t \in Threads, CallerDies(t) PROVE AuditInv'
  <2>1. /\ t \in Inside /\ reading' = reading \ {t} /\ owing' = owing \ {t}
        /\ deaths' = deaths + 1 /\ deaths' \in 0 .. MaxDeaths
        /\ UNCHANGED <<exists, phase, count, stopped>>
    BY <1>0, <1>7 DEF CallerDies, Free, Inside, row
  <2>2. Inside' = Inside \ {t}
    BY <2>1 DEF Inside
  <2>3. IsFiniteSet(Inside') /\ Cardinality(Inside') = Cardinality(Inside) - 1
    BY <2>1, <2>2, FS_RemoveElement
  <2>4. OverBudget' = OverBudget /\ OverBudget \in Nat
    BY <1>0, <2>1 DEF OverBudget
  <2> QED
    BY <1>0, <2>1, <2>3, <2>4 DEF AuditTypeOK, Owed
<1>8. CASE UNCHANGED auditVars
  BY <1>8 DEF auditVars, AuditTypeOK, Owed, OverBudget, Inside
<1> QED
  BY <1>1, <1>2, <1>3, <1>4, <1>5, <1>6, <1>7, <1>8 DEF AuditNext, FinishIncrement

\* Every column of the row keeps its type.
THEOREM AuditTypeCorrect == AuditSpec => []AuditTypeOK
<1>1. AuditInv => AuditTypeOK
  BY DEF AuditInv
<1> QED
  BY <1>1, AuditInitInv, AuditNextInv, PTL DEF AuditSpec

\* A killed caller loses no escalation but its own, whatever other processes
\* write between its UPDATE, its SELECT and its escalation.
THEOREM EscalationKept == AuditSpec => []EscalationNotLost
<1>1. AuditInv => EscalationNotLost
  <2> SUFFICES ASSUME AuditInv, OverBudget > deaths, ~stopped, Inside = {} PROVE FALSE
    BY DEF EscalationNotLost, Inside
  <2> QED
    BY FS_EmptySet, AuditRunConstants DEF AuditInv, Owed, AuditTypeOK, OverBudget, MaxCount
<1> QED
  BY <1>1, AuditInitInv, AuditNextInv, PTL DEF AuditSpec

-----------------------------------------------------------------------------
(* RunnerQueue *)

\* As long as no mark_failed ran twice, a task is queued or in one hand; and
\* the task of a script that is past the claim is marked as claimed by it.
HolderInv ==
    /\ pending \in [Stories -> Nat \cup {NotQueued}]
    /\ mark \in [Stories -> {"pending", "claimed", "needs_fix", "done"}]
    /\ assignee \in [Stories -> Runners \cup {NoRunner}]
    /\ at \in [Runners -> Places]
    /\ on \in [Runners -> Stories \cup {NoStory}]
    /\ score \in [Runners -> Nat]
    /\ reruns \in Nat
    /\ \A a \in Runners : at[a] = "idle" <=> on[a] = NoStory
    /\ \A a \in Runners : at[a] = "unsure" => reruns > 0
    /\ OneHolder

LEMMA HolderInitInv == RunnerInit => HolderInv
BY RunnerConstants DEF RunnerInit, HolderInv, OneHolder, Places, NotQueued

\* The step of a script leaves the tasks of the other scripts alone, since as
\* long as no mark_failed ran twice they work on others.
LEMMA HolderNextInv == HolderInv /\ [RunnerNext]_runnerVars => HolderInv'
<1> SUFFICES ASSUME HolderInv, [RunnerNext]_runnerVars PROVE HolderInv'
  OBVIOUS
<1> USE RunnerConstants DEF HolderInv, Goto, LetGo, redis, counts, Queued
<1>1. ASSUME NEW a \in Runners, NEW t \in Stories, ClaimPop(a, t) PROVE HolderInv'
  <2>1. /\ at[a] = "idle" /\ on[a] = NoStory /\ pending[t] # NotQueued
        /\ pending' = [pending EXCEPT ![t] = NotQueued]
        /\ on' = [on EXCEPT ![a] = t]
        /\ at' = [at EXCEPT ![a] = "popped"]
        /\ score' = [score EXCEPT ![a] = pending[t]]
        /\ UNCHANGED <<mark, assignee, reruns>>
    BY <1>1 DEF ClaimPop, First
  <2>2. OneHolder'
    BY <2>1 DEF OneHolder
  <2> QED BY <2>1, <2>2 DEF Places
<1>2. ASSUME NEW a \in Runners, ClaimCheck(a) PROVE HolderInv'
  <2>1. CASE Takes(mark[on[a]])
    BY <1>2, <2>1 DEF ClaimCheck, OneHolder, Places
  <2>2. CASE ~Takes(mark[on[a]])
    BY <1>2, <2>2 DEF ClaimCheck, OneHolder, Places
  <2> QED BY <2>1, <2>2
<1>3. ASSUME NEW a \in Runners, ClaimRequeue(a) PROVE HolderInv'
  <2>1. /\ at[a] = "rejected" /\ on[a] \in Stories
        /\ pending' = [pending EXCEPT ![on[a]] = score[a]]
        /\ at' = [at EXCEPT ![a] = "idle"] /\ on' = [on EXCEPT ![a] = NoStory]
        /\ UNCHANGED <<mark, assignee, score, reruns>>
    BY <1>3 DEF ClaimRequeue
  <2>2. OneHolder'
    BY <2>1 DEF OneHolder
  <2> QED BY <2>1, <2>2 DEF Places
<1>4. ASSUME NEW a \in Runners, ClaimSet(a) PROVE HolderInv'
  <2>1. /\ at[a] = "accepted" /\ on[a] \in Stories
        /\ mark' = [mark EXCEPT ![on[a]] = "claimed"]
        /\ assignee' = [assignee EXCEPT ![on[a]] = a]
        /\ at' = [at EXCEPT ![a] = "holding"]
        /\ UNCHANGED <<pending, on, score, reruns>>
    BY <1>4 DEF ClaimSet
  <2>2. OneHolder'
    BY <2>1 DEF OneHolder
  <2> QED BY <2>1, <2>2 DEF Places
<1>5. ASSUME NEW a \in Runners, DoneRead(a) PROVE HolderInv'
  BY <1>5 DEF DoneRead, OneHolder, Places
<1>6. ASSUME NEW a \in Runners, DoneSet(a) PROVE HolderInv'
  <2>1. /\ at[a] = "confirming" /\ on[a] \in Stories
        /\ mark' = [mark EXCEPT ![on[a]] = "done"]
        /\ at' = [at EXCEPT ![a] = "idle"] /\ on' = [on EXCEPT ![a] = NoStory]
        /\ UNCHANGED <<pending, assignee, score, reruns>>
    BY <1>6 DEF DoneSet
  <2>2. OneHolder'
    BY <2>1 DEF OneHolder
  <2> QED BY <2>1, <2>2 DEF Places
<1>7. ASSUME NEW a \in Runners, FailSet(a) PROVE HolderInv'
  <2>1. /\ at[a] \in {"holding", "unsure"} /\ on[a] \in Stories
        /\ mark' = [mark EXCEPT ![on[a]] = "needs_fix"]
        /\ at' = [at EXCEPT ![a] = "failing"]
        /\ UNCHANGED <<pending, assignee, on, score, reruns>>
    BY <1>7 DEF FailSet
  <2>2. OneHolder'
    BY <2>1 DEF OneHolder
  <2> QED BY <2>1, <2>2 DEF Places
<1>8. ASSUME NEW a \in Runners, FailAdd(a) PROVE HolderInv'
  <2>1. /\ at[a] = "failing" /\ on[a] \in Stories
        /\ pending' = [pending EXCEPT ![on[a]] = Raised(on[a])]
        /\ UNCHANGED <<mark, assignee, score>>
    BY <1>8 DEF FailAdd
  <2>2. Raised(on[a]) \in Nat
    <3>1. Priority[on[a]] \in Nat
      BY <2>1
    <3> QED BY <3>1 DEF Raised
  <2>3. CASE LetGo(a) /\ UNCHANGED reruns
    <3>1. OneHolder'
      BY <2>1, <2>3 DEF OneHolder
    <3> QED BY <2>1, <2>2, <2>3, <3>1 DEF Places
  <2>4. CASE reruns' = reruns + 1 /\ Goto(a, "unsure") /\ UNCHANGED on
    <3>1. reruns' \in Nat /\ reruns' > 0
      BY <2>4
    <3> QED BY <2>1, <2>2, <2>4, <3>1 DEF OneHolder, Places
  <2> QED BY <1>8, <2>3, <2>4 DEF FailAdd
<1>9. ASSUME NEW a \in Runners, RunnerDies(a) PROVE HolderInv'
  BY <1>9 DEF RunnerDies, OneHolder, Places
<1>10. CASE UNCHANGED runnerVars
  BY <1>10 DEF runnerVars, OneHolder
<1> QED
  BY <1>1, <1>2, <1>3, <1>4, <1>5, <1>6, <1>7, <1>8, <1>9, <1>10 DEF RunnerNext, ScriptStep

\* However the commands of the scripts interleave and whichever agents die, no
\* task is given to two agents as long as no mark_failed is run twice
\* (claim_task.py, mark_done.py, mark_failed.py).
THEOREM NoSharedTask == RunnerSpec => []OneHolder
<1>1. HolderInv => OneHolder
  BY DEF HolderInv
<1> QED
  BY <1>1, HolderInitInv, HolderNextInv, PTL DEF RunnerSpec

-----------------------------------------------------------------------------
\* A script that will bring its task to an end or back into the queue: all but
\* the one of an agent whose claim was overwritten, which mark_done turns away.
Carries(a, t) == on[a] = t /\ (at[a] = "holding" => mark[t] = "claimed")

\* Stranded tasks, and those that will be when such an agent lets go.
Abandoned == {t \in Stories : /\ mark[t] # "done" /\ ~Queued(t)
                              /\ \A a \in Runners : ~Carries(a, t)}

LossInv ==
    /\ pending \in [Stories -> Nat \cup {NotQueued}]
    /\ mark \in [Stories -> {"pending", "claimed", "needs_fix", "done"}]
    /\ at \in [Runners -> Places]
    /\ on \in [Runners -> Stories \cup {NoStory}]
    /\ score \in [Runners -> Nat]
    /\ \A a \in Runners : at[a] = "idle" <=> on[a] = NoStory
    /\ kills \in Nat
    /\ Cardinality(Abandoned) <= kills

LEMMA AbandonedFinite ==
    /\ IsFiniteSet(Abandoned) /\ IsFiniteSet(Abandoned')
    /\ IsFiniteSet(Stranded)
BY RunnerConstants, FS_Subset DEF Abandoned, Stranded

LEMMA OneMore ==
    ASSUME NEW S, IsFiniteSet(S), NEW x
    PROVE  IsFiniteSet(S \cup {x}) /\ Cardinality(S \cup {x}) <= Cardinality(S) + 1
<1>1. Cardinality(S) \in Nat
  BY FS_CardinalityType
<1> QED BY <1>1, FS_AddElement

\* What is not abandoned by a step is not counted by it.
LEMMA NoneAbandoned ==
    ASSUME LossInv, Abandoned' \subseteq Abandoned, kills' = kills
    PROVE  Cardinality(Abandoned)' <= kills'
<1>1. Cardinality(Abandoned') <= Cardinality(Abandoned)
  BY AbandonedFinite, FS_Subset
<1>2. Cardinality(Abandoned') \in Nat /\ Cardinality(Abandoned) \in Nat
  BY AbandonedFinite, FS_CardinalityType
<1> QED BY <1>1, <1>2 DEF LossInv

LEMMA LossInitInv == RunnerInit => LossInv
<1> SUFFICES ASSUME RunnerInit PROVE LossInv
  OBVIOUS
<1>1. \A t \in Stories : pending[t] \in Nat
  BY RunnerConstants DEF RunnerInit
<1>2. Abandoned = {}
  BY <1>1 DEF Abandoned, Queued, NotQueued
<1> QED
  BY <1>2, FS_EmptySet, RunnerConstants DEF RunnerInit, LossInv, Places, NotQueued

LEMMA LossNextInv == LossInv /\ [RunnerNext]_runnerVars => LossInv'
<1> SUFFICES ASSUME LossInv, [RunnerNext]_runnerVars PROVE LossInv'
  OBVIOUS
<1> USE RunnerConstants DEF LossInv, Goto, LetGo, redis, counts
<1>1. ASSUME NEW a \in Runners, NEW t \in Stories, ClaimPop(a, t) PROVE LossInv'
  <2>1. Abandoned' \subseteq Abandoned
    BY <1>1 DEF ClaimPop, First, Abandoned, Carries, Queued
  <2>2. pending[t] \in Nat
    BY <1>1 DEF ClaimPop, First, Queued
  <2> QED BY <1>1, <2>1, <2>2, NoneAbandoned DEF ClaimPop, Places
<1>2. ASSUME NEW a \in Runners, ClaimCheck(a) PROVE LossInv'
  <2>1. Abandoned' \subseteq Abandoned
    BY <1>2 DEF ClaimCheck, Abandoned, Carries, Queued
  <2> QED BY <1>2, <2>1, NoneAbandoned DEF ClaimCheck, Places
<1>3. ASSUME NEW a \in Runners, ClaimRequeue(a) PROVE LossInv'
  <2>1. Abandoned' \subseteq Abandoned
    BY <1>3 DEF ClaimRequeue, Abandoned, Carries, Queued, NotQueued
  <2> QED BY <1>3, <2>1, NoneAbandoned DEF ClaimRequeue, Places
<1>4. ASSUME NEW a \in Runners, ClaimSet(a) PROVE LossInv'
  <2>1. Abandoned' \subseteq Abandoned
    BY <1>4 DEF ClaimSet, Abandoned, Carries, Queued
  <2> QED BY <1>4, <2>1, NoneAbandoned DEF ClaimSet, Places
<1>5. ASSUME NEW a \in Runners, DoneRead(a) PROVE LossInv'
  <2>1. Abandoned' \subseteq Abandoned
    BY <1>5 DEF DoneRead, Abandoned, Carries, Queued
  <2> QED BY <1>5, <2>1, NoneAbandoned DEF DoneRead, Places
<1>6. ASSUME NEW a \in Runners, DoneSet(a) PROVE LossInv'
  <2>1. Abandoned' \subseteq Abandoned
    BY <1>6 DEF DoneSet, Abandoned, Carries, Queued
  <2> QED BY <1>6, <2>1, NoneAbandoned DEF DoneSet, Places
<1>7. ASSUME NEW a \in Runners, FailSet(a) PROVE LossInv'
  <2>1. Abandoned' \subseteq Abandoned
    BY <1>7 DEF FailSet, Abandoned, Carries, Queued
  <2> QED BY <1>7, <2>1, NoneAbandoned DEF FailSet, Places
<1>8. ASSUME NEW a \in Runners, FailAdd(a) PROVE LossInv'
  <2>1. on[a] \in Stories /\ Raised(on[a]) \in Nat
    <3>1. on[a] \in Stories
      BY <1>8 DEF FailAdd
    <3>2. Priority[on[a]] \in Nat
      BY <3>1
    <3> QED BY <3>1, <3>2 DEF Raised
  <2>2. Abandoned' \subseteq Abandoned
    BY <1>8, <2>1 DEF FailAdd, Abandoned, Carries, Queued, NotQueued
  <2> QED BY <1>8, <2>1, <2>2, NoneAbandoned DEF FailAdd, Places
<1>9. ASSUME NEW a \in Runners, RunnerDies(a) PROVE LossInv'
  <2>1. Abandoned' \subseteq Abandoned \cup {on[a]}
    BY <1>9 DEF RunnerDies, Abandoned, Carries, Queued
  <2>2. /\ IsFiniteSet(Abandoned \cup {on[a]})
        /\ Cardinality(Abandoned \cup {on[a]}) <= Cardinality(Abandoned) + 1
    BY AbandonedFinite, OneMore
  <2>3. Cardinality(Abandoned') <= Cardinality(Abandoned \cup {on[a]})
    BY <2>1, <2>2, FS_Subset
  <2>4. /\ Cardinality(Abandoned') \in Nat /\ Cardinality(Abandoned) \in Nat
        /\ Cardinality(Abandoned \cup {on[a]}) \in Nat
    BY <2>2, AbandonedFinite, FS_CardinalityType
  <2>5. kills' = kills + 1
    BY <1>9 DEF RunnerDies
  <2>6. Cardinality(Abandoned') <= kills'
    BY <2>2, <2>3, <2>4, <2>5
  <2> QED BY <1>9, <2>5, <2>6 DEF RunnerDies, Places
<1>10. CASE UNCHANGED runnerVars
  <2>1. Abandoned' \subseteq Abandoned
    BY <1>10 DEF runnerVars, Abandoned, Carries, Queued
  <2> QED BY <1>10, <2>1, NoneAbandoned DEF runnerVars
<1> QED
  BY <1>1, <1>2, <1>3, <1>4, <1>5, <1>6, <1>7, <1>8, <1>9, <1>10 DEF RunnerNext, ScriptStep

\* Between the pop, the claim and the requeue an agent may die at any point and
\* scripts may run twice; the tasks that nobody will ever see again are no more
\* than the agents that died.
THEOREM LossesBounded == RunnerSpec => []LossesAccounted
<1>1. LossInv => LossesAccounted
  <2> SUFFICES ASSUME LossInv PROVE LossesAccounted
    OBVIOUS
  <2>1. Stranded \subseteq Abandoned
    BY RunnerConstants DEF Stranded, Abandoned, InHand, Carries
  <2>2. Cardinality(Stranded) <= Cardinality(Abandoned)
    BY <2>1, AbandonedFinite, FS_Subset
  <2>3. Cardinality(Stranded) \in Nat /\ Cardinality(Abandoned) \in Nat
    BY AbandonedFinite, FS_CardinalityType
  <2> QED BY <2>2, <2>3 DEF LossInv, LossesAccounted
<1> QED
  BY <1>1, LossInitInv, LossNextInv, PTL DEF RunnerSpec

-----------------------------------------------------------------------------
(* The worklist among the other queues *)

TeamInv == part = "team" => OrderInv

\* What agents are promised of the worklist alone they are promised where it is
\* composed with the other queues: rows are started after those they name.
THEOREM TeamInOrder == MCSpec => []TeamOrder
<1>1. MCInit => TeamInv
  BY OrderInit DEF MCInit, TeamInv
<1>2. TeamInv /\ [MCNext]_<<part, vars, auditVars, runnerVars>> => TeamInv'
  <2> SUFFICES ASSUME TeamInv, part' = "team",
                      MCNext \/ UNCHANGED <<part, vars, auditVars, runnerVars>>
               PROVE  OrderInv'
    BY DEF TeamInv
  <2>1. part = "team" /\ [AgentNext]_vars
    BY DEF MCNext
  <2> QED BY <2>1, OrderNext DEF TeamInv
<1>3. TeamInv => TeamOrder
  BY DEF TeamInv, TeamOrder, OrderInv
<1> QED
  BY <1>1, <1>2, <1>3, PTL DEF MCSpec
=============================================================================
