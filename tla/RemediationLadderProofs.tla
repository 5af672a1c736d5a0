----------------------- MODULE RemediationLadderProofs -----------------------
(***************************************************************************)
(* Proofs about RemediationLadder, for any sets of sessions, tasks and     *)
(* resources and any values of the caps and bounds.                        *)
(***************************************************************************)
EXTENDS RemediationLadder, FiniteSetTheorems, TLAPS

-----------------------------------------------------------------------------
(* Type correctness *)

\* A coroutine inside its watchdog watches a session that detect() created;
\* without this, TypeOK is not inductive.
WatchersExist == \A t \in Tasks : watch[t] # NoWatch => Exists(watch[t].sess)

TypeInv == TypeOK /\ WatchersExist

\* One pass of the poll loop keeps the types of what it assigns.
PollKeeps(t, s) ==
    /\ state' \in [Sessions -> LadderState \cup {"NONE"}]
    /\ \E st \in LadderState : state' = [state EXCEPT ![s] = st]
    /\ watch' \in [Tasks -> WatchLocals \cup {NoWatch}]
    /\ \A u \in Tasks : u # t => watch'[u] = watch[u]
    /\ watch'[t] = NoWatch \/ watch'[t].sess = s
    /\ faults' \in 0 .. MaxFaults

LEMMA PollTypes ==
    ASSUME TypeOK, NEW t \in Tasks, NEW s \in Sessions,
           NEW st \in LadderState, NEW n \in 0 .. WatchPolls - 1, NEW h \in 0 .. 1,
           PollSees(t, s, st, n, h) \/ PollRaises(t, s, st)
    PROVE  PollKeeps(t, s)
<1>1. CASE PollSees(t, s, st, n, h)
  <2>1. PICK ready \in SUBSET BOOLEAN, warnings \in SUBSET {"older", "newer"} :
          LET healthy == IF AllReady(ready) /\ "newer" \notin warnings THEN h + 1 ELSE 0
          IN  /\ IF healthy >= 2
                 THEN /\ state' = [state EXCEPT ![s] = "HEALED"]
                      /\ watch' = [watch EXCEPT ![t] = NoWatch]
                 ELSE /\ state' = [state EXCEPT ![s] = st]
                      /\ watch' = [watch EXCEPT ![t] =
                                      [sess |-> s, polls |-> n + 1, healthy |-> healthy]]
              /\ UNCHANGED faults
    BY <1>1 DEF PollSees
  <2> DEFINE healthy == IF AllReady(ready) /\ "newer" \notin warnings THEN h + 1 ELSE 0
  <2>2. healthy \in 0 .. 2
    OBVIOUS
  <2>3. CASE healthy >= 2
    BY <2>1, <2>3 DEF PollKeeps, TypeOK, LadderState
  <2>4. CASE ~(healthy >= 2)
    <3>1. [sess |-> s, polls |-> n + 1, healthy |-> healthy] \in WatchLocals
      BY <2>2, <2>4, LadderConstants DEF WatchLocals
    <3> QED
      BY <2>1, <2>4, <3>1 DEF PollKeeps, TypeOK, LadderState
  <2> QED
    BY <2>3, <2>4
<1>2. CASE PollRaises(t, s, st)
  <2>1. faults' \in 0 .. MaxFaults
    BY <1>2, LadderConstants DEF PollRaises, TypeOK, CanFail
  <2> QED
    BY <1>2, <2>1 DEF PollKeeps, PollRaises, TypeOK
<1> QED
  BY <1>1, <1>2

LEMMA NoWatchOutside == NoWatch \notin WatchLocals
BY LadderConstants DEF NoWatch, WatchLocals

LEMMA WatchedSession ==
    ASSUME TypeOK, NEW t \in Tasks, watch[t] # NoWatch
    PROVE  watch[t] \in WatchLocals /\ watch[t].sess \in Sessions
BY DEF TypeOK, WatchLocals

\* A step that starts no watch and removes no session keeps WatchersExist.
LEMMA WatchersStay ==
    ASSUME TypeOK, WatchersExist, watch' = watch,
           \A s \in Sessions : Exists(s) => Exists(s)'
    PROVE  WatchersExist'
BY WatchedSession DEF WatchersExist

\* A poll keeps every session and only watches one that exists.
LEMMA PollWatchers ==
    ASSUME TypeOK, WatchersExist, NEW t \in Tasks, NEW s \in Sessions,
           Exists(s), PollKeeps(t, s)
    PROVE  /\ \A q \in Sessions : Exists(q)' <=> Exists(q)
           /\ WatchersExist'
<1>1. PICK st \in LadderState : state' = [state EXCEPT ![s] = st]
  BY DEF PollKeeps
<1>2. \A q \in Sessions : Exists(q)' <=> Exists(q)
  BY <1>1 DEF Exists, TypeOK, LadderState
<1>3. ASSUME NEW u \in Tasks, watch'[u] # NoWatch PROVE Exists(watch[u].sess)'
  <2>1. CASE u = t
    BY <1>2, <1>3, <2>1 DEF PollKeeps, Exists
  <2>2. CASE u # t
    <3>1. watch'[u] = watch[u]
      BY <2>2 DEF PollKeeps
    <3> QED
      BY <1>2, <1>3, <3>1, WatchedSession DEF WatchersExist, Exists
  <2> QED
    BY <2>1, <2>2
<1> QED
  BY <1>2, <1>3 DEF WatchersExist

LEMMA TypeInit == Init => TypeInv
<1>1. Init => TypeOK
  BY LadderConstants DEF Init, TypeOK, Exists
<1>2. Init => WatchersExist
  BY DEF Init, WatchersExist
<1> QED
  BY <1>1, <1>2 DEF TypeInv

LEMMA TypeNext == TypeInv /\ [Next]_vars => TypeInv'
<1> SUFFICES ASSUME TypeOK, WatchersExist, [Next]_vars PROVE TypeOK' /\ WatchersExist'
  BY DEF TypeInv
<1> USE LadderConstants
<1>1. ASSUME NEW r \in Resources, NEW s \in Sessions, Detect(r, s)
      PROVE  TypeOK' /\ WatchersExist'
  BY <1>1 DEF Detect, Acquire, TypeOK, WatchersExist, Exists, LadderState, clusterVars
<1>2. ASSUME NEW s \in Sessions, Restart(s) PROVE TypeOK' /\ WatchersExist'
  <2>1. CASE RestartReturns(s)
    BY <1>2, <2>1 DEF Restart, RestartReturns, TypeOK, WatchersExist, Exists, LadderState
  <2>2. CASE RestartRaises(s)
    BY <1>2, <2>2 DEF Restart, RestartRaises, CanFail, TypeOK, WatchersExist, Exists
  <2> QED
    BY <1>2, <2>1, <2>2 DEF Restart
<1>3. ASSUME NEW t \in Tasks, NEW s \in Sessions, Watch(t, s)
      PROVE  TypeOK' /\ WatchersExist'
  <2>1. CASE restarted[s] /\ (PollSees(t, s, "WATCH_HEALING", 0, 0)
                              \/ PollRaises(t, s, "WATCH_HEALING"))
    <3>1. "WATCH_HEALING" \in LadderState /\ 0 \in 0 .. WatchPolls - 1 /\ 0 \in 0 .. 1
      BY DEF LadderState
    <3>2. PollKeeps(t, s)
      BY <1>3, <2>1, <3>1, PollTypes DEF Watch
    <3> QED
      BY <1>3, <3>2, PollWatchers DEF PollKeeps, Watch, TypeOK, Exists, clusterVars
  <2>2. CASE ~restarted[s]
    <3>1. TypeOK'
      BY <1>3, <2>2 DEF Watch, TypeOK, Exists, LadderState, clusterVars
    <3>2. \A q \in Sessions : Exists(q) => Exists(q)'
      BY <1>3, <2>2 DEF Watch, TypeOK, Exists
    <3> QED
      BY <1>3, <2>2, <3>1, <3>2, WatchersStay DEF Watch
  <2> QED
    BY <1>3, <2>1, <2>2 DEF Watch
<1>4. ASSUME NEW t \in Tasks, WatchWakes(t) PROVE TypeOK' /\ WatchersExist'
  <2> DEFINE s == watch[t].sess
  <2>1. /\ watch[t] \in WatchLocals /\ s \in Sessions
        /\ Exists(s) /\ state[s] \in LadderState
    BY <1>4 DEF WatchWakes, TypeOK, WatchersExist, WatchLocals, Exists
  <2>2. CASE PollAgain(t)
    <3>1. watch[t].polls \in 0 .. WatchPolls - 1 /\ watch[t].healthy \in 0 .. 1
      BY <2>1, <2>2 DEF WatchLocals, PollAgain
    <3>2. PollKeeps(t, s)
      BY <2>1, <2>2, <3>1, PollTypes DEF PollAgain
    <3> QED
      BY <1>4, <2>1, <3>2, PollWatchers
         DEF PollKeeps, WatchWakes, TypeOK, Exists, clusterVars
  <2>3. CASE DeadlinePassed(t)
    BY <1>4, <2>1, <2>3 DEF DeadlinePassed, WatchWakes, TypeOK, WatchersExist, Exists,
                             LadderState, clusterVars
  <2> QED
    BY <1>4, <2>2, <2>3 DEF WatchWakes
<1>5. ASSUME NEW s \in Sessions, Analyze(s) PROVE TypeOK' /\ WatchersExist'
  BY <1>5 DEF Analyze, TypeOK, WatchersExist, Exists, LadderState, clusterVars
<1>6. ASSUME NEW s \in Sessions, SandboxVerify(s) PROVE TypeOK' /\ WatchersExist'
  BY <1>6 DEF SandboxVerify, TypeOK, WatchersExist, Exists, LadderState, clusterVars
<1>7. ASSUME NEW s \in Sessions, Apply(s) PROVE TypeOK' /\ WatchersExist'
  <2>1. fixed' = fixed \/ fixed' = [fixed EXCEPT ![s] = TRUE]
    BY <1>7 DEF Apply
  <2>2. fixed' \in [Sessions -> BOOLEAN]
    BY <2>1 DEF TypeOK
  <2> QED
    <3>1. state' \in [Sessions -> LadderState \cup {"NONE"}]
          /\ (\A q \in Sessions : Exists(q)' <=> Exists(q))
      BY <1>7 DEF Apply, TypeOK, Exists, LadderState
    <3>2. faults' \in 0 .. MaxFaults
      BY <1>7 DEF Apply, CanFail, TypeOK
    <3>3. TypeOK'
      BY <1>7, <2>2, <3>1, <3>2 DEF Apply, TypeOK
    <3> QED
      BY <1>7, <3>1, <3>3, WatchersStay DEF Apply
<1>8. ASSUME NEW s \in Sessions, Escalate(s) PROVE TypeOK' /\ WatchersExist'
  BY <1>8 DEF Escalate, TypeOK, WatchersExist, Exists, LadderState
<1>9. ASSUME NEW s \in Sessions, Release(s) PROVE TypeOK' /\ WatchersExist'
  BY <1>9 DEF Release, TypeOK, WatchersExist, Exists, Ns, sessionVars, clusterVars
<1>10. CASE UNCHANGED vars
  BY <1>10 DEF TypeOK, WatchersExist, Exists, vars, sessionVars, clusterVars
<1> QED
  BY <1>1, <1>2, <1>3, <1>4, <1>5, <1>6, <1>7, <1>8, <1>9, <1>10 DEF Next

\* Every variable keeps its type, in whatever order the methods are called.
THEOREM TypeCorrect == Spec => []TypeOK
<1>1. Spec => []TypeInv
  BY TypeInit, TypeNext, PTL DEF Spec
<1> QED
  BY <1>1, PTL DEF TypeInv
-----------------------------------------------------------------------------
(* The guards on what the ladder does to the cluster *)

\* A session that does not exist yet has left no trace.
Fresh ==
    \A s \in Sessions : ~Exists(s) =>
        cycles[s] = 0 /\ lost[s] = 0 /\ restarted[s] = FALSE /\ freed[s] = FALSE

MutationInv == OnlyAllowedMutations /\ RestartsAccounted /\ Fresh

\* A step that leaves the counters, the guards' inputs and the existing
\* sessions alone keeps MutationInv.
LEMMA MutationStay ==
    ASSUME TypeOK, MutationInv, faults' \in Nat, faults <= faults',
           \A s \in Sessions : Exists(s)' <=> Exists(s),
           UNCHANGED <<dryRun, res, cycles, restarted, freed, rollouts, fixed, lost, notified, dpo>>
    PROVE  MutationInv'
<1>1. \A s \in Sessions : /\ Patches(s)' <=> Patches(s)
                          /\ Trading(s)' <=> Trading(s)
  BY DEF Patches, Trading, Ns
<1>2. OnlyAllowedMutations' /\ Fresh'
  BY <1>1 DEF MutationInv, OnlyAllowedMutations, Fresh
<1>3. RestartsAccounted'
  BY <1>1, LadderConstants DEF MutationInv, RestartsAccounted, TypeOK
<1> QED
  BY <1>2, <1>3 DEF MutationInv

LEMMA MutationInit == Init => MutationInv
BY LadderConstants
   DEF Init, MutationInv, OnlyAllowedMutations, RestartsAccounted, Fresh, Exists

LEMMA MutationDetect ==
    ASSUME TypeInv, MutationInv, NEW r \in Resources, NEW s \in Sessions, Detect(r, s)
    PROVE  MutationInv'
<1>1. /\ ~Exists(s) /\ rollouts[s] = 0 /\ fixed[s] = FALSE
      /\ cycles[s] = 0 /\ lost[s] = 0
  BY DEF Detect, TypeInv, TypeOK, MutationInv, OnlyAllowedMutations, Fresh
<1>2. \A q \in Sessions : q # s => /\ Exists(q)' <=> Exists(q)
                                   /\ Patches(q)' <=> Patches(q)
                                   /\ Trading(q)' <=> Trading(q)
  BY DEF Detect, TypeInv, TypeOK, Exists, Patches, Trading, Ns
<1>3. /\ UNCHANGED <<dryRun, rollouts, fixed, lost, notified, dpo, cycles, restarted, freed, faults>>
      /\ Exists(s)'
  BY DEF Detect, clusterVars, TypeInv, TypeOK, Exists
<1>4. OnlyAllowedMutations' /\ Fresh'
  BY <1>1, <1>2, <1>3 DEF MutationInv, OnlyAllowedMutations, Fresh
<1>5. RestartsAccounted'
  BY <1>1, <1>2, <1>3, LadderConstants DEF MutationInv, RestartsAccounted, TypeInv, TypeOK
<1> QED
  BY <1>4, <1>5 DEF MutationInv

LEMMA MutationRestart ==
    ASSUME TypeInv, MutationInv, NEW s \in Sessions, Restart(s)
    PROVE  MutationInv'
<1>1. /\ Exists(s) /\ ~Trading(s) /\ cycles[s] < MaxCyclesPerHour
      /\ UNCHANGED <<dryRun, res, fixed, freed, notified, dpo>>
      /\ RestartReturns(s) \/ RestartRaises(s)
  BY DEF Restart
<1>2. \A q \in Sessions : /\ Patches(q)' <=> Patches(q)
                          /\ Trading(q)' <=> Trading(q)
  BY <1>1 DEF Patches, Trading, Ns
<1>3. \A q \in Sessions : Exists(q)' <=> Exists(q)
  BY <1>1 DEF RestartReturns, RestartRaises, TypeInv, TypeOK, Exists
<1>4. CASE RestartReturns(s)
  <2>1. OnlyAllowedMutations' /\ Fresh'
    BY <1>1, <1>2, <1>3, <1>4
       DEF RestartReturns, MutationInv, OnlyAllowedMutations, Fresh, TypeInv, TypeOK
  <2>2. RestartsAccounted'
    BY <1>1, <1>2, <1>3, <1>4, LadderConstants
       DEF RestartReturns, MutationInv, RestartsAccounted, TypeInv, TypeOK
  <2> QED
    BY <2>1, <2>2 DEF MutationInv
<1>5. CASE RestartRaises(s)
  <2>1. OnlyAllowedMutations' /\ Fresh'
    BY <1>1, <1>2, <1>3, <1>5
       DEF RestartRaises, MutationInv, OnlyAllowedMutations, Fresh, TypeInv, TypeOK
  <2>2. RestartsAccounted'
    BY <1>1, <1>2, <1>3, <1>5, LadderConstants
       DEF RestartRaises, MutationInv, RestartsAccounted, TypeInv, TypeOK
  <2> QED
    BY <2>1, <2>2 DEF MutationInv
<1> QED
  BY <1>1, <1>4, <1>5

LEMMA MutationApply ==
    ASSUME TypeInv, MutationInv, NEW s \in Sessions, Apply(s)
    PROVE  MutationInv'
<1>1. /\ Exists(s) /\ ~Trading(s)
      /\ UNCHANGED <<dryRun, res, cycles, restarted, rollouts, lost, freed, notified, dpo>>
      /\ faults' = faults \/ faults' = faults + 1
      /\ fixed' = fixed \/ (fixed' = [fixed EXCEPT ![s] = TRUE] /\ Patches(s))
  BY DEF Apply
<1>2. \A q \in Sessions : /\ Exists(q)' <=> Exists(q)
                          /\ Patches(q)' <=> Patches(q)
                          /\ Trading(q)' <=> Trading(q)
  BY <1>1 DEF Apply, TypeInv, TypeOK, Exists, Patches, Trading, Ns
<1>3. OnlyAllowedMutations' /\ Fresh'
  BY <1>1, <1>2 DEF MutationInv, OnlyAllowedMutations, Fresh, TypeInv, TypeOK
<1>4. RestartsAccounted'
  BY <1>1, <1>2, LadderConstants DEF MutationInv, RestartsAccounted, TypeInv, TypeOK
<1> QED
  BY <1>3, <1>4 DEF MutationInv

LEMMA MutationNext == TypeInv /\ MutationInv /\ [Next]_vars => MutationInv'
<1> SUFFICES ASSUME TypeInv, MutationInv, [Next]_vars PROVE MutationInv'
  OBVIOUS
<1> USE LadderConstants DEF TypeInv
\* The steps that touch none of the variables of MutationInv but state.
<1>1. ASSUME faults' = faults \/ faults' = faults + 1,
             \A s \in Sessions : Exists(s)' <=> Exists(s),
             UNCHANGED <<dryRun, res, cycles, restarted, freed, rollouts, fixed, lost, notified, dpo>>
      PROVE  MutationInv'
  BY <1>1, MutationStay DEF TypeOK
<1>2. ASSUME NEW r \in Resources, NEW s \in Sessions, Detect(r, s) PROVE MutationInv'
  BY <1>2, MutationDetect
<1>3. ASSUME NEW s \in Sessions, Restart(s) PROVE MutationInv'
  BY <1>3, MutationRestart
<1>4. ASSUME NEW t \in Tasks, NEW s \in Sessions, Watch(t, s) PROVE MutationInv'
  <2>1. \E st \in LadderState : state' = [state EXCEPT ![s] = st]
    BY <1>4 DEF Watch, PollSees, PollRaises, LadderState
  <2>2. \A q \in Sessions : Exists(q)' <=> Exists(q)
    BY <1>4, <2>1 DEF Watch, TypeOK, Exists, LadderState
  <2>3. faults' = faults \/ faults' = faults + 1
    BY <1>4 DEF Watch, PollSees, PollRaises
  <2> QED
    BY <1>1, <1>4, <2>2, <2>3 DEF Watch, clusterVars
<1>5. ASSUME NEW t \in Tasks, WatchWakes(t) PROVE MutationInv'
  <2> DEFINE s == watch[t].sess
  <2>1. s \in Sessions /\ Exists(s) /\ state[s] \in LadderState
    BY <1>5, WatchedSession DEF WatchWakes, WatchersExist, TypeOK, Exists
  <2>2. \E st \in LadderState : state' = [state EXCEPT ![s] = st]
    BY <1>5, <2>1 DEF WatchWakes, PollAgain, PollSees, PollRaises, DeadlinePassed, LadderState
  <2>3. \A q \in Sessions : Exists(q)' <=> Exists(q)
    BY <2>1, <2>2 DEF TypeOK, Exists, LadderState
  <2>4. faults' = faults \/ faults' = faults + 1
    BY <1>5 DEF WatchWakes, PollAgain, PollSees, PollRaises, DeadlinePassed
  <2> QED
    BY <1>1, <1>5, <2>3, <2>4 DEF WatchWakes, clusterVars
<1>6. ASSUME NEW s \in Sessions, Analyze(s) PROVE MutationInv'
  BY <1>1, <1>6 DEF Analyze, TypeOK, Exists, clusterVars
<1>7. ASSUME NEW s \in Sessions, SandboxVerify(s) PROVE MutationInv'
  BY <1>1, <1>7 DEF SandboxVerify, TypeOK, Exists, clusterVars
<1>8. ASSUME NEW s \in Sessions, Apply(s) PROVE MutationInv'
  BY <1>8, MutationApply
<1>9. ASSUME NEW s \in Sessions, Escalate(s) PROVE MutationInv'
  <2>1. /\ UNCHANGED <<dryRun, res, cycles, restarted, rollouts, fixed, lost, faults, freed>>
        /\ \A q \in Sessions : Exists(q)' <=> Exists(q)
    BY <1>9 DEF Escalate, TypeOK, Exists
  <2>2. \A q \in Sessions : dpo[q] => dpo'[q]
    BY <1>9 DEF Escalate, TypeOK
  <2>3. \A q \in Sessions : notified'[q] => notified[q] \/ (~dryRun /\ dpo'[q])
    BY <1>9, Zenon DEF Escalate, TypeOK
  <2> QED
    BY <2>1, <2>2, <2>3 DEF MutationInv, OnlyAllowedMutations, RestartsAccounted, Fresh, TypeOK,
                Patches, Trading, Ns
<1>10. ASSUME NEW s \in Sessions, Release(s) PROVE MutationInv'
  <2>1. /\ UNCHANGED <<dryRun, state, res, cycles, restarted, rollouts, fixed, lost, faults, notified, dpo>>
        /\ Exists(s) /\ freed' = [freed EXCEPT ![s] = TRUE]
    BY <1>10 DEF Release, sessionVars, clusterVars
  <2> QED
    BY <2>1 DEF MutationInv, OnlyAllowedMutations, RestartsAccounted, Fresh, TypeOK,
                Exists, Patches, Trading, Ns
<1>11. CASE UNCHANGED vars
  BY <1>1, <1>11 DEF vars, sessionVars, clusterVars, Exists
<1> QED
  BY <1>2, <1>3, <1>4, <1>5, <1>6, <1>7, <1>8, <1>9, <1>10, <1>11 DEF Next

\* No call order and no half-failed call changes the cluster for a session in
\* a trading namespace, on an unsupported kind, or in dry_run.
THEOREM MutationsGuarded == Spec => []OnlyAllowedMutations
<1>1. Spec => [](TypeInv /\ MutationInv)
  BY TypeInit, TypeNext, MutationInit, MutationNext, PTL DEF Spec
<1> QED
  BY <1>1, PTL DEF MutationInv

\* Every rollout is accounted for by the session's cycle counter or by a
\* lost reply, and there are no more lost replies than failed calls.
THEOREM RestartBudget == Spec => []RestartsAccounted
<1>1. Spec => [](TypeInv /\ MutationInv)
  BY TypeInit, TypeNext, MutationInit, MutationNext, PTL DEF Spec
<1> QED
  BY <1>1, PTL DEF MutationInv

-----------------------------------------------------------------------------
(* The circuit breaker *)

LEMMA HoldersFinite ==
    ASSUME NEW ns
    PROVE  IsFiniteSet(Holders(ns)) /\ Cardinality(Holders(ns)) \in Nat
<1>1. IsFiniteSet(Holders(ns))
  BY LadderConstants, FS_Subset DEF Holders
<1> QED
  BY <1>1, FS_CardinalityType

\* Only detect() and release() touch the slots.
LEMMA SlotsStay ==
    ASSUME TypeInv, [Next]_vars
    PROVE  \/ \E r \in Resources, s \in Sessions : Detect(r, s)
           \/ \E s \in Sessions : Release(s)
           \/ /\ UNCHANGED <<res, freed, counts>>
              /\ \A q \in Sessions : Exists(q)' <=> Exists(q)
<1> DEFINE Same == /\ UNCHANGED <<res, freed, counts>>
                   /\ \A q \in Sessions : Exists(q)' <=> Exists(q)
<1> USE DEF TypeInv
<1>1. ASSUME NEW s \in Sessions, Restart(s) PROVE Same
  BY <1>1 DEF Restart, RestartReturns, RestartRaises, TypeOK, Exists
<1>2. ASSUME NEW s \in Sessions, Exists(s),
             UNCHANGED <<res, freed, counts>>,
             \E st \in LadderState : state' = [state EXCEPT ![s] = st]
      PROVE  Same
  BY <1>2 DEF TypeOK, Exists, LadderState
<1>3. ASSUME NEW t \in Tasks, NEW s \in Sessions, Watch(t, s) PROVE Same
  BY <1>2, <1>3 DEF Watch, PollSees, PollRaises, LadderState
<1>4. ASSUME NEW t \in Tasks, WatchWakes(t) PROVE Same
  <2>1. /\ watch[t].sess \in Sessions /\ Exists(watch[t].sess)
        /\ state[watch[t].sess] \in LadderState
    BY <1>4, WatchedSession DEF WatchWakes, WatchersExist, TypeOK, Exists
  <2> QED
    BY <1>2, <1>4, <2>1
       DEF WatchWakes, PollAgain, PollSees, PollRaises, DeadlinePassed, LadderState
<1>5. ASSUME NEW s \in Sessions, Analyze(s) \/ SandboxVerify(s) \/ Escalate(s) PROVE Same
  BY <1>2, <1>5 DEF Analyze, SandboxVerify, Escalate, LadderState
<1>6. ASSUME NEW s \in Sessions, Apply(s) PROVE Same
  BY <1>6 DEF Apply, TypeOK, Exists
<1>7. CASE UNCHANGED vars
  BY <1>7 DEF vars, sessionVars, Exists
<1> QED
  BY <1>1, <1>3, <1>4, <1>5, <1>6, <1>7 DEF Next

\* Session s takes a slot of its namespace, or gives one back.
LEMMA BreakerDetect ==
    ASSUME TypeInv, Fresh, BreakerExact,
           NEW r \in Resources, NEW s \in Sessions, Detect(r, s)
    PROVE  BreakerExact'
<1> DEFINE n == NsOf[r]
<1>1. /\ n \in Namespaces /\ counts[n] < NamespaceLadderCap
      /\ counts \in [Namespaces -> Nat] /\ counts' = [counts EXCEPT ![n] = @ + 1]
  BY LadderConstants DEF Detect, Acquire, TypeInv, TypeOK
<1>2. /\ ~Exists(s) /\ Exists(s)' /\ Ns(s)' = n /\ freed'[s] = FALSE
      /\ \A q \in Sessions : q # s =>
            (Exists(q)' <=> Exists(q)) /\ Ns(q)' = Ns(q) /\ freed'[q] = freed[q]
  BY DEF Detect, TypeInv, TypeOK, Exists, Ns, Fresh
<1>3. s \notin Holders(n) /\ Holders(n)' = Holders(n) \cup {s}
  BY <1>2 DEF Holders
<1>4. \A ns \in Namespaces : ns # n => Holders(ns)' = Holders(ns)
  BY <1>2 DEF Holders
<1>5. Cardinality(Holders(n)') = Cardinality(Holders(n)) + 1
  BY <1>3, HoldersFinite, FS_AddElement
<1> QED
  BY <1>1, <1>4, <1>5, LadderConstants DEF BreakerExact

LEMMA BreakerRelease ==
    ASSUME TypeInv, BreakerExact, NEW s \in Sessions, Release(s)
    PROVE  BreakerExact'
<1>0. PICK n \in Namespaces : n = Ns(s)
  BY LadderConstants DEF Release, TypeInv, TypeOK, Ns
<1>1. /\ Exists(s) /\ ~freed[s] /\ freed' = [freed EXCEPT ![s] = TRUE]
      /\ UNCHANGED <<state, res>>
      /\ counts' = [counts EXCEPT ![n] = IF @ > 0 THEN @ - 1 ELSE 0]
  BY <1>0 DEF Release, sessionVars
<1>2. n \in Namespaces /\ counts \in [Namespaces -> Nat] /\ freed \in [Sessions -> BOOLEAN]
  BY DEF TypeInv, TypeOK
<1>3. s \in Holders(n) /\ Holders(n)' = Holders(n) \ {s}
  BY <1>0, <1>1, <1>2 DEF Holders, Exists, Ns
<1>4. \A ns \in Namespaces : ns # n => Holders(ns)' = Holders(ns)
  BY <1>0, <1>1, <1>2 DEF Holders, Exists, Ns
<1>5. Cardinality(Holders(n)') = Cardinality(Holders(n)) - 1
  BY <1>3, HoldersFinite, FS_RemoveElement
<1>6. counts[n] > 0
  BY <1>2, <1>3, HoldersFinite, FS_EmptySet DEF BreakerExact
<1>7. counts'[n] = counts[n] - 1 /\ \A ns \in Namespaces : ns # n => counts'[ns] = counts[ns]
  BY <1>1, <1>2, <1>6
<1>8. Cardinality(Holders(n)') = counts'[n] /\ counts'[n] <= NamespaceLadderCap
  BY <1>2, <1>5, <1>7, LadderConstants DEF BreakerExact
<1> QED
  BY <1>4, <1>7, <1>8 DEF BreakerExact

LEMMA BreakerInit == Init => BreakerExact
<1> SUFFICES ASSUME Init, NEW ns \in Namespaces
             PROVE  counts[ns] = Cardinality(Holders(ns)) /\ counts[ns] <= NamespaceLadderCap
  BY DEF BreakerExact
<1>1. Holders(ns) = {}
  BY DEF Init, Holders, Exists
<1> QED
  BY <1>1, FS_EmptySet, LadderConstants DEF Init

LEMMA BreakerNext == TypeInv /\ MutationInv /\ BreakerExact /\ [Next]_vars => BreakerExact'
<1> SUFFICES ASSUME TypeInv, MutationInv, BreakerExact, [Next]_vars PROVE BreakerExact'
  OBVIOUS
<1>1. CASE UNCHANGED <<res, freed, counts>> /\ \A q \in Sessions : Exists(q)' <=> Exists(q)
  <2>1. \A ns \in Namespaces : Holders(ns)' = Holders(ns)
    BY <1>1 DEF Holders, Ns
  <2> QED
    BY <1>1, <2>1 DEF BreakerExact
<1> QED
  BY <1>1, SlotsStay, BreakerDetect, BreakerRelease DEF MutationInv

\* The circuit breaker counts exactly the sessions that hold a slot, and
\* never lets more than NAMESPACE_LADDER_CAP of them in.
THEOREM BreakerCorrect == Spec => []BreakerExact
<1>1. Spec => [](TypeInv /\ MutationInv /\ BreakerExact)
  BY TypeInit, TypeNext, MutationInit, MutationNext, BreakerInit, BreakerNext, PTL DEF Spec
<1> QED
  BY <1>1, PTL

-----------------------------------------------------------------------------
(* Sessions that are driven by advance() (LoopSpec): one watcher at a time, *)
(* restart first, and the contract of the ladder                           *)

\* A step of the driven ladder is a step of the ladder.
LEMMA LoopIsLadder == [LoopNext]_vars => [Next]_vars
BY DEF LoopNext, Advance, Next

\* A session is charged for its restart exactly when it leaves IDLE.
NotStarted(s) == state[s] \in {"NONE", "IDLE"}

LoopInv ==
    /\ TypeInv
    /\ \A s \in Sessions : NotStarted(s) => cycles[s] = 0
    /\ OneWatcher
    /\ RestartFirst

LEMMA LoopInit == Init => LoopInv
<1> SUFFICES ASSUME Init PROVE LoopInv
  OBVIOUS
<1>1. TypeInv
  BY TypeInit
<1>2. OneWatcher
  BY LadderConstants DEF Init, OneWatcher, Watching, NoWatch
<1> QED
  BY <1>1, <1>2 DEF Init, LoopInv, NotStarted, RestartFirst

-----------------------------------------------------------------------------
(* What one step of a session does to its state *)

\* The rungs other than restart(): session s moves along an edge, or stays.
Moves(s) ==
    /\ \E e \in Contract!Edges : state[s] = e[1] /\ state' = [state EXCEPT ![s] = e[2]]
    /\ UNCHANGED cycles

Stays == UNCHANGED <<state, cycles>>

\* The first poll of a watch cannot decide: two healthy polls are needed.
LEMMA FirstPoll ==
    ASSUME TypeOK, NEW t \in Tasks, NEW s \in Sessions, NEW st,
           PollSees(t, s, st, 0, 0) \/ PollRaises(t, s, st)
    PROVE  /\ state' = [state EXCEPT ![s] = st]
           /\ \A u \in Tasks : u # t => watch'[u] = watch[u]
           /\ watch'[t] = NoWatch \/ watch'[t].sess = s
BY DEF PollSees, PollRaises, TypeOK

\* A wake-up leaves the state of the session or gives a verdict; it decides
\* nothing about any other session and starts no watch.
LEMMA WakeVerdict ==
    ASSUME TypeInv, NEW t \in Tasks, WatchWakes(t)
    PROVE  /\ \/ state' = state
              \/ /\ \E st \in {"HEALED", "STILL_SICK"} :
                       state' = [state EXCEPT ![watch[t].sess] = st]
                 /\ watch'[t] = NoWatch
           /\ \A u \in Tasks : u # t => watch'[u] = watch[u]
           /\ watch'[t] = NoWatch \/ watch'[t].sess = watch[t].sess
           /\ UNCHANGED <<dryRun, res, restarted, cycles, rollouts>>
<1> DEFINE s == watch[t].sess
<1>1. watch \in [Tasks -> WatchLocals \cup {NoWatch}] /\ state \in [Sessions -> LadderState \cup {"NONE"}]
  BY DEF TypeInv, TypeOK
<1>2. s \in Sessions
  BY WatchedSession DEF WatchWakes, TypeInv
<1>3. [state EXCEPT ![s] = state[s]] = state
  BY <1>1
<1>4. CASE PollAgain(t)
  <2>1. CASE PollSees(t, s, state[s], watch[t].polls, watch[t].healthy)
    BY <1>1, <1>2, <1>3, <2>1 DEF PollSees, WatchWakes, clusterVars
  <2>2. CASE PollRaises(t, s, state[s])
    BY <1>1, <1>2, <1>3, <2>2 DEF PollRaises, WatchWakes, clusterVars
  <2> QED
    BY <1>4, <2>1, <2>2 DEF PollAgain
<1>5. CASE DeadlinePassed(t)
  BY <1>1, <1>2, <1>5 DEF DeadlinePassed, WatchWakes, clusterVars
<1> QED
  BY <1>4, <1>5 DEF WatchWakes

\* One step per action of LoopNext: what it does to the state and to the
\* variables the invariant speaks of.
LEMMA DetectStep ==
    ASSUME LoopInv, NEW r \in Resources, NEW s \in Sessions, Detect(r, s)
    PROVE  /\ state[s] = "NONE" /\ state' = [state EXCEPT ![s] = "IDLE"]
           /\ UNCHANGED <<dryRun, restarted, cycles, watch, rollouts>>
           /\ \A q \in Sessions : q # s => res'[q] = res[q]
BY DEF Detect, Exists, clusterVars, LoopInv, TypeInv, TypeOK

LEMMA RestartStep ==
    ASSUME LoopInv, NEW s \in Sessions, state[s] = "IDLE", Restart(s)
    PROVE  /\ ~Trading(s)
           /\ UNCHANGED <<dryRun, res, watch>>
           /\ \/ /\ Stays /\ UNCHANGED restarted
                 /\ \A q \in Sessions : q # s => rollouts'[q] = rollouts[q]
              \/ /\ state' = [state EXCEPT ![s] = "RESTART_ISSUED"]
                 /\ restarted' = [restarted EXCEPT ![s] = TRUE]
                 /\ cycles[s] = 0 /\ cycles' = [cycles EXCEPT ![s] = 1]
                 /\ rollouts' = [rollouts EXCEPT ![s] = IF Patches(s) THEN @ + 1 ELSE @]
<1>1. cycles[s] = 0 /\ rollouts \in [Sessions -> Nat]
  BY DEF LoopInv, NotStarted, TypeInv, TypeOK
<1>2. CASE RestartReturns(s)
  BY <1>1, <1>2 DEF Restart, RestartReturns
<1>3. CASE RestartRaises(s)
  BY <1>1, <1>3 DEF Restart, RestartRaises, Stays
<1> QED
  BY <1>2, <1>3 DEF Restart

LEMMA WatchStep ==
    ASSUME LoopInv, NEW t \in Tasks, NEW s \in Sessions,
           state[s] = "RESTART_ISSUED", watch[t] = NoWatch, Watch(t, s)
    PROVE  /\ state' = [state EXCEPT ![s] = "WATCH_HEALING"]
           /\ \A u \in Tasks : u # t => watch'[u] = watch[u]
           /\ watch'[t] = NoWatch \/ watch'[t].sess = s
           /\ UNCHANGED <<dryRun, res, restarted, cycles, rollouts>>
<1>1. restarted[s]
  BY DEF LoopInv, RestartFirst
<1>2. PollSees(t, s, "WATCH_HEALING", 0, 0) \/ PollRaises(t, s, "WATCH_HEALING")
  BY <1>1 DEF Watch
<1> QED
  BY <1>2, FirstPoll DEF Watch, clusterVars, LoopInv, TypeInv

LEMMA RungStep ==
    ASSUME LoopInv, NEW s \in Sessions,
           \/ state[s] = "STILL_SICK" /\ Analyze(s)
           \/ state[s] = "PROPOSE_FIX" /\ SandboxVerify(s)
    PROVE  /\ Moves(s)
           /\ UNCHANGED <<dryRun, res, restarted, watch, rollouts>>
           /\ state[s] # "WATCH_HEALING" /\ ~NotStarted(s) /\ ~NotStarted(s)'
<1>1. CASE state[s] = "STILL_SICK" /\ Analyze(s)
  BY <1>1 DEF Analyze, Moves, Contract!Edges, clusterVars, NotStarted, LoopInv, TypeInv, TypeOK
<1>2. CASE state[s] = "PROPOSE_FIX" /\ SandboxVerify(s)
  BY <1>2 DEF SandboxVerify, Moves, Contract!Edges, clusterVars, NotStarted, LoopInv, TypeInv, TypeOK
<1> QED
  BY <1>1, <1>2

-----------------------------------------------------------------------------
(* The invariant *)

\* The parts of LoopInv that speak of the ladder.
Driven ==
    /\ \A s \in Sessions : NotStarted(s) => cycles[s] = 0
    /\ OneWatcher
    /\ RestartFirst

LEMMA LoopStep ==
    ASSUME LoopInv, [LoopNext]_vars
    PROVE  Driven'
<1> USE DEF LoopInv
<1> TypeOK
  BY DEF TypeInv
<1>1. ASSUME NEW r \in Resources, NEW s \in Sessions, Detect(r, s) PROVE Driven'
  <2>1. OneWatcher'
    BY <1>1, DetectStep DEF OneWatcher, Watching, TypeOK
  <2>2. RestartFirst' /\ \A q \in Sessions : NotStarted(q)' => cycles'[q] = 0
    BY <1>1, DetectStep DEF RestartFirst, NotStarted, Trading, Patches, Ns, TypeOK
  <2> QED
    BY <2>1, <2>2 DEF Driven
<1>2. ASSUME NEW s \in Sessions, state[s] = "IDLE", Restart(s) PROVE Driven'
  <2>1. OneWatcher'
    BY <1>2, RestartStep DEF OneWatcher, Watching, Stays, TypeOK
  <2>2. CASE Stays /\ UNCHANGED restarted /\ \A q \in Sessions : q # s => rollouts'[q] = rollouts[q]
    BY <1>2, <2>1, <2>2, RestartStep
       DEF Driven, Stays, RestartFirst, NotStarted, Trading, Patches, Ns
  <2>3. CASE ~(Stays /\ UNCHANGED restarted /\ \A q \in Sessions : q # s => rollouts'[q] = rollouts[q])
    <3>1. \A q \in Sessions : Patches(q)' <=> Patches(q)
      BY <1>2, RestartStep DEF Patches
    <3>2. \A q \in Sessions : Trading(q)' <=> Trading(q)
      BY <1>2, RestartStep DEF Trading, Ns
    <3> QED
      BY <1>2, <2>1, <2>3, <3>1, <3>2, RestartStep
         DEF Driven, RestartFirst, NotStarted, TypeOK
  <2> QED
    BY <2>2, <2>3
<1>3. ASSUME NEW t \in Tasks, NEW s \in Sessions,
             state[s] = "RESTART_ISSUED", watch[t] = NoWatch, Watch(t, s)
      PROVE  Driven'
  <2>1. OneWatcher'
    BY <1>3, WatchStep, LadderConstants DEF OneWatcher, Watching, NoWatch, TypeOK
  <2>2. RestartFirst' /\ \A q \in Sessions : NotStarted(q)' => cycles'[q] = 0
    BY <1>3, WatchStep DEF RestartFirst, NotStarted, Trading, Patches, Ns, TypeOK
  <2> QED
    BY <2>1, <2>2 DEF Driven
<1>4. ASSUME NEW s \in Sessions,
             \/ state[s] = "STILL_SICK" /\ Analyze(s)
             \/ state[s] = "PROPOSE_FIX" /\ SandboxVerify(s)
      PROVE  Driven'
  <2>1. PICK new \in LadderState : state' = [state EXCEPT ![s] = new]
    BY <1>4 DEF Analyze, SandboxVerify, LadderState
  <2>2. OneWatcher'
    BY <1>4, <2>1, RungStep DEF OneWatcher, Watching, TypeOK
  <2>3. RestartFirst' /\ \A q \in Sessions : NotStarted(q)' => cycles'[q] = 0
    BY <1>4, <2>1, RungStep DEF Moves, RestartFirst, NotStarted, Trading, Patches, Ns, TypeOK
  <2> QED
    BY <2>2, <2>3 DEF Driven
<1>5. ASSUME NEW t \in Tasks, WatchWakes(t) PROVE Driven'
  <2>1. watch[t].sess \in Sessions /\ state[watch[t].sess] = "WATCH_HEALING"
    BY <1>5, WatchedSession DEF WatchWakes, OneWatcher, Watching
  <2>2. OneWatcher'
    BY <1>5, <2>1, WakeVerdict, LadderConstants DEF OneWatcher, Watching, NoWatch, TypeOK
  <2>3. RestartFirst' /\ \A q \in Sessions : NotStarted(q)' => cycles'[q] = 0
    BY <1>5, <2>1, WakeVerdict DEF RestartFirst, NotStarted, Trading, Patches, Ns, TypeOK
  <2> QED
    BY <2>2, <2>3 DEF Driven
<1>6. CASE UNCHANGED vars
  BY <1>6 DEF Driven, OneWatcher, Watching, RestartFirst, NotStarted, Trading, Patches, Ns,
              vars, sessionVars, clusterVars
<1> QED
  BY <1>1, <1>2, <1>3, <1>4, <1>5, <1>6 DEF LoopNext, Advance

LEMMA LoopInductive == LoopInv /\ [LoopNext]_vars => LoopInv'
BY LoopStep, LoopIsLadder, TypeNext DEF LoopInv, Driven

\* A session driven by advance(), by any number of coroutines, has at most
\* one watchdog at a time, and it is in WATCH_HEALING while it has.
THEOREM SingleWatcher == LoopSpec => []OneWatcher
<1>1. LoopSpec => []LoopInv
  BY LoopInit, LoopInductive, PTL DEF LoopSpec
<1> QED
  BY <1>1, PTL DEF LoopInv

\* No session driven by advance() is analyzed, patched or escalated before its
\* rollout restart, and it gets one cycle.
THEOREM RestartComesFirst == LoopSpec => []RestartFirst
<1>1. LoopSpec => []LoopInv
  BY LoopInit, LoopInductive, PTL DEF LoopSpec
<1> QED
  BY <1>1, PTL DEF LoopInv

-----------------------------------------------------------------------------
(* The contract *)

LEMMA ContractStep ==
    ASSUME LoopInv, [LoopNext]_vars
    PROVE  Contract!ContractNext \/ Stays
<1>1. ASSUME NEW r \in Resources, NEW s \in Sessions, Detect(r, s)
      PROVE  Contract!ContractMove(s)
  BY <1>1, DetectStep DEF Contract!ContractMove, Contract!Edges
<1>2. ASSUME NEW s \in Sessions, state[s] = "IDLE", Restart(s)
      PROVE  Contract!ContractRestart(s) \/ Stays
  BY <1>2, RestartStep DEF Contract!ContractRestart
<1>3. ASSUME NEW t \in Tasks, NEW s \in Sessions,
             state[s] = "RESTART_ISSUED", watch[t] = NoWatch, Watch(t, s)
      PROVE  Contract!ContractMove(s)
  BY <1>3, WatchStep DEF Contract!ContractMove, Contract!Edges
<1>4. ASSUME NEW s \in Sessions,
             \/ state[s] = "STILL_SICK" /\ Analyze(s)
             \/ state[s] = "PROPOSE_FIX" /\ SandboxVerify(s)
      PROVE  Contract!ContractMove(s)
  BY <1>4, RungStep DEF Moves, Contract!ContractMove
<1>5. ASSUME NEW t \in Tasks, WatchWakes(t)
      PROVE  Stays \/ \E s \in Sessions : Contract!ContractMove(s)
  <2>1. watch[t].sess \in Sessions /\ state[watch[t].sess] = "WATCH_HEALING"
    BY <1>5, WatchedSession DEF WatchWakes, OneWatcher, Watching, LoopInv, TypeInv
  <2> QED
    BY <1>5, <2>1, WakeVerdict DEF LoopInv, Stays, Contract!ContractMove, Contract!Edges
<1>6. CASE UNCHANGED vars
  BY <1>6 DEF Stays, vars, sessionVars
<1> QED
  BY <1>1, <1>2, <1>3, <1>4, <1>5, <1>6 DEF LoopNext, Advance, Contract!ContractNext

\* The ladder driven by advance() implements its contract: the mapping takes
\* LadderSession.state and ladder_cycles_this_hour as they are.
THEOREM ContractImplemented == LoopSpec => ImplementsContract
<1>1. Init => Contract!ContractInit
  BY DEF Init, Contract!ContractInit
<1>2. LoopInv /\ [LoopNext]_vars => [Contract!ContractNext]_<<state, cycles>>
  BY ContractStep DEF Stays
<1> QED
  BY <1>1, <1>2, LoopInit, LoopInductive, PTL
     DEF LoopSpec, ImplementsContract, Contract!ContractSpec

\* advance() never takes a session out of HEALED, APPLY or ESCALATE.
THEOREM TerminalIsFinal == LoopSpec => TerminalStays
<1>1. ASSUME LoopInv, [LoopNext]_vars, NEW s \in Sessions, state[s] \in Terminal
      PROVE  state'[s] = state[s]
  BY <1>1, ContractStep
     DEF Contract!ContractNext, Contract!ContractRestart, Contract!ContractMove,
         Contract!Edges, Stays, Terminal, LoopInv, TypeInv, TypeOK
<1>2. LoopInv /\ [LoopNext]_vars =>
        [\A s \in Sessions : state[s] \in Terminal => state'[s] = state[s]]_vars
  BY <1>1
<1> QED
  BY <1>2, LoopInit, LoopInductive, PTL DEF LoopSpec, TerminalStays
=============================================================================
