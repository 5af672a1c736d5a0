-------------------------- MODULE RemediationLadder --------------------------
(***************************************************************************)
(* The restart-first remediation ladder                                    *)
(* (src/auto_remediate/remediation_ladder.py): one RemediationLadder with  *)
(* its NamespaceCircuitBreaker, the LadderSessions that detect() creates,  *)
(* and the coroutines that call its methods.                               *)
(*                                                                         *)
(* All methods run in one asyncio event loop.  The only await that yields  *)
(* is the sleep of the _watchdog loop, so every method other than watch()  *)
(* is one atomic step, and watch() is one step up to its first sleep and   *)
(* one step per later wake-up.  A method that raises before it assigns     *)
(* anything changes no state and has no step of its own.                   *)
(*                                                                         *)
(* Two specifications share the methods: Spec lets coroutines call any     *)
(* public method in any order; LoopSpec only detects and drives sessions   *)
(* with advance(), which is what the class documents.                      *)
(***************************************************************************)
EXTENDS Integers, Sequences, FiniteSets

CONSTANTS
    Sessions,           \* session ids (uuid4 strings)
    Tasks,              \* asyncio tasks that may be inside watch()
    Resources,          \* ResourceRef values
    Namespaces,
    NsOf,               \* ResourceRef.namespace
    KindOf,             \* ResourceRef.kind
    TradingNamespaces,
    NamespaceLadderCap, \* NAMESPACE_LADDER_CAP
    MaxCyclesPerHour,   \* MAX_CYCLES_PER_HOUR
    WatchPolls,         \* WATCH_TIMEOUT_SECONDS / poll_interval
    PodStatuses,        \* container_statuses lists the API server may return
    CrashThreshold,     \* CRASH_LOOP_HIGH_RESTART_THRESHOLD
    MaxFaults,          \* bound: Kubernetes API calls that raise
    FaultPoints,        \* the methods in which a call may raise
    AwareTimestamps,    \* the API client returns timezone-aware datetimes
    NoSession, NoResource

\* restart() and apply() patch these kinds and silently skip any other.
PatchableKinds == {"Deployment", "StatefulSet", "DaemonSet"}

RestartEligibleReasons ==
    {"CrashLoopBackOff", "ReadinessProbeConnectionRefused", "LivenessProbeTimeout"}

NonRestartReasons ==
    {"ImagePullBackOff", "ErrImagePull", "OOMKilled",
     "CreateContainerConfigError", "FailedMount", "FailedAttach"}

\* A container status: state.waiting.reason ("" when it has none, NotWaiting
\* when the container is not waiting), last_state.terminated.reason and
\* restart_count.
NotWaiting == "-"
Container == [waiting : STRING, terminated : STRING, restarts : Nat]

ASSUME LadderConstants ==
    /\ IsFiniteSet(Sessions)
    /\ NoSession \notin Sessions
    /\ NoResource \notin Resources
    /\ NsOf \in [Resources -> Namespaces]
    /\ KindOf \in [Resources -> PatchableKinds \cup {"Pod"}]
    /\ TradingNamespaces \subseteq Namespaces
    /\ NamespaceLadderCap \in Nat
    /\ MaxCyclesPerHour \in Nat
    /\ WatchPolls \in Nat \ {0}
    /\ CrashThreshold \in Nat
    /\ MaxFaults \in Nat
    /\ AwareTimestamps \in BOOLEAN

ASSUME PodStatusesAssumption == PodStatuses \subseteq Seq(Container)

LadderState ==
    {"IDLE", "RESTART_ISSUED", "WATCH_HEALING", "HEALED", "STILL_SICK",
     "PROPOSE_FIX", "APPLY", "ESCALATE"}

\* advance(): "Call in a loop until session.state is one of" these.
Terminal == {"HEALED", "APPLY", "ESCALATE"}

NoWatch == [sess |-> NoSession, polls |-> 0, healthy |-> 0]

VARIABLES
    dryRun,     \* RemediationLadder._dry_run
    state,      \* LadderSession.state, or "NONE" before detect() creates it
    res,        \* LadderSession.resource
    restarted,  \* LadderSession.restart_ts is not None
    cycles,     \* LadderSession.ladder_cycles_this_hour
    dpo,        \* LadderSession.dpo_pair is not None
    counts,     \* NamespaceCircuitBreaker._counts
    watch,      \* what each asyncio task inside _watchdog holds in its locals
    rollouts,   \* cluster: restart patches a session's calls have landed
    fixed,      \* cluster: a session's apply() has landed its patch
    lost,       \* restart patches that landed although the call raised
    notified,   \* the escalation webhook accepted the session's POST
    freed,      \* the session's owner has called release() for its slot
    faults      \* API calls that have raised

sessionVars == <<state, res, restarted, cycles, dpo>>
clusterVars == <<rollouts, fixed, lost, notified>>
vars == <<dryRun, sessionVars, counts, watch, clusterVars, freed, faults>>

-----------------------------------------------------------------------------
(* Eligibility *)

\* detect() walks the containers in order and keeps the reason of the last
\* one that is waiting and the restart count of the last one that has any.
LastReason(pod) ==
    LET W == {i \in DOMAIN pod : pod[i].waiting # NotWaiting}
    IN  IF W = {} THEN ""
        ELSE pod[CHOOSE i \in W : \A j \in W : j <= i].waiting

LastRestartCount(pod) ==
    LET R == {i \in DOMAIN pod : pod[i].restarts # 0}
    IN  IF R = {} THEN 0
        ELSE pod[CHOOSE i \in R : \A j \in R : j <= i].restarts

IsRestartEligible(reason, count) ==
    /\ reason \notin NonRestartReasons
    /\ ~(reason = "CrashLoopBackOff" /\ count >= CrashThreshold)
    /\ reason \in RestartEligibleReasons

Eligible(pod) == IsRestartEligible(LastReason(pod), LastRestartCount(pod))

-----------------------------------------------------------------------------
Exists(s)  == state[s] # "NONE"
Ns(s)      == NsOf[res[s]]
Trading(s) == Ns(s) \in TradingNamespaces
\* The call sends a patch to the API server.
Patches(s) == ~dryRun /\ KindOf[res[s]] \in PatchableKinds

CanFail(point) == point \in FaultPoints /\ faults < MaxFaults

Init ==
    /\ dryRun \in BOOLEAN
    /\ state = [s \in Sessions |-> "NONE"]
    /\ res = [s \in Sessions |-> NoResource]
    /\ restarted = [s \in Sessions |-> FALSE]
    /\ cycles = [s \in Sessions |-> 0]
    /\ dpo = [s \in Sessions |-> FALSE]
    /\ counts = [n \in Namespaces |-> 0]
    /\ watch = [t \in Tasks |-> NoWatch]
    /\ rollouts = [s \in Sessions |-> 0]
    /\ fixed = [s \in Sessions |-> FALSE]
    /\ lost = [s \in Sessions |-> 0]
    /\ notified = [s \in Sessions |-> FALSE]
    /\ freed = [s \in Sessions |-> FALSE]
    /\ faults = 0

\* Mutant: the cap is compared with > instead of >=.
AcquireOverCap(ns) ==
    /\ counts[ns] <= NamespaceLadderCap
    /\ counts' = [counts EXCEPT ![ns] = @ + 1]

\* NamespaceCircuitBreaker.acquire: raises when the namespace is at its cap.
Acquire(ns) ==
    /\ counts[ns] < NamespaceLadderCap
    /\ counts' = [counts EXCEPT ![ns] = @ + 1]

\* detect(): ValueError when the pod is not eligible, then acquire(), then a
\* new session.  A trading namespace is not refused here.
Detect(r, s) ==
    /\ ~Exists(s)
    /\ \E pod \in PodStatuses : Eligible(pod)
    /\ Acquire(NsOf[r])
    /\ state' = [state EXCEPT ![s] = "IDLE"]
    /\ res' = [res EXCEPT ![s] = r]
    /\ UNCHANGED <<dryRun, restarted, cycles, dpo, watch, clusterVars, freed, faults>>

\* Mutant: the cycle counter is not incremented.
RestartUncounted(s) ==
    /\ rollouts' = [rollouts EXCEPT ![s] = IF Patches(s) THEN @ + 1 ELSE @]
    /\ state' = [state EXCEPT ![s] = "RESTART_ISSUED"]
    /\ restarted' = [restarted EXCEPT ![s] = TRUE]
    /\ UNCHANGED <<cycles, lost, faults>>

\* restart(), the call returns: the patch (if any) landed and the session
\* records it.
RestartReturns(s) ==
    /\ rollouts' = [rollouts EXCEPT ![s] = IF Patches(s) THEN @ + 1 ELSE @]
    /\ state' = [state EXCEPT ![s] = "RESTART_ISSUED"]
    /\ restarted' = [restarted EXCEPT ![s] = TRUE]
    /\ cycles' = [cycles EXCEPT ![s] = @ + 1]
    /\ UNCHANGED <<lost, faults>>

\* Mutant: the state is assigned before the patch call that raises.
RestartRaisesLate(s) ==
    /\ Patches(s) /\ CanFail("restart")
    /\ faults' = faults + 1
    /\ state' = [state EXCEPT ![s] = "RESTART_ISSUED"]
    /\ UNCHANGED <<rollouts, lost, restarted, cycles>>

\* restart(), the patch call raises: the session is left as it was, and the
\* API server may or may not have carried the patch out.
RestartRaises(s) ==
    /\ Patches(s) /\ CanFail("restart")
    /\ faults' = faults + 1
    /\ \/ UNCHANGED <<rollouts, lost>>
       \/ /\ rollouts' = [rollouts EXCEPT ![s] = @ + 1]
          /\ lost' = [lost EXCEPT ![s] = @ + 1]
    /\ UNCHANGED <<state, restarted, cycles>>

\* Mutant: no _assert_not_trading.
RestartAnywhere(s) ==
    /\ Exists(s)
    /\ cycles[s] < MaxCyclesPerHour
    /\ RestartReturns(s) \/ RestartRaises(s)
    /\ UNCHANGED <<dryRun, res, dpo, counts, watch, fixed, notified, freed>>

Restart(s) ==
    /\ Exists(s)
    /\ ~Trading(s)
    /\ cycles[s] < MaxCyclesPerHour
    /\ RestartReturns(s) \/ RestartRaises(s)
    /\ UNCHANGED <<dryRun, res, dpo, counts, watch, fixed, notified, freed>>

-----------------------------------------------------------------------------
(* watch() and _watchdog() *)

\* all(cs.ready for cs in container_statuses or []): TRUE of the empty list.
AllReady(ready) == FALSE \notin ready

\* One pass of the poll loop by task t on session s whose state is st, n
\* polls and h consecutive healthy ones behind it.  A poll sees the ready
\* flags of the containers and which timestamped Warning events exist, older
\* or newer than the restart.
PollSees(t, s, st, n, h) ==
    \E ready \in SUBSET BOOLEAN, warnings \in SUBSET {"older", "newer"} :
       LET healthy == IF AllReady(ready) /\ "newer" \notin warnings THEN h + 1 ELSE 0
       IN  /\ ~(AwareTimestamps /\ warnings # {})
           /\ IF healthy >= 2
              THEN /\ state' = [state EXCEPT ![s] = "HEALED"]
                   /\ watch' = [watch EXCEPT ![t] = NoWatch]
              ELSE /\ state' = [state EXCEPT ![s] = st]
                   /\ watch' = [watch EXCEPT ![t] =
                                   [sess |-> s, polls |-> n + 1, healthy |-> healthy]]
           /\ UNCHANGED faults

\* The pass raises, which ends the coroutine: an API error, or the comparison
\* of an aware event timestamp with the naive restart_ts.
PollRaises(t, s, st) ==
    /\ state' = [state EXCEPT ![s] = st]
    /\ watch' = [watch EXCEPT ![t] = NoWatch]
    /\ \/ CanFail("watch") /\ faults' = faults + 1
       \/ AwareTimestamps /\ UNCHANGED faults

\* Mutant: WATCH_HEALING is not assigned before the first sleep.
WatchWithoutState(t, s) ==
    /\ watch[t] = NoWatch
    /\ Exists(s) /\ restarted[s]
    /\ PollSees(t, s, state[s], 0, 0) \/ PollRaises(t, s, state[s])
    /\ UNCHANGED <<dryRun, res, restarted, cycles, dpo, counts, clusterVars, freed>>

\* watch(): sets WATCH_HEALING, asserts restart_ts and polls once before it
\* first sleeps.  The deadline is 300 s away, so the first pass always runs.
Watch(t, s) ==
    /\ watch[t] = NoWatch
    /\ Exists(s)
    /\ \/ restarted[s] /\ PollSees(t, s, "WATCH_HEALING", 0, 0)
       \/ restarted[s] /\ PollRaises(t, s, "WATCH_HEALING")
       \/ /\ ~restarted[s]
          /\ state' = [state EXCEPT ![s] = "WATCH_HEALING"]
          /\ UNCHANGED <<watch, faults>>
    /\ UNCHANGED <<dryRun, res, restarted, cycles, dpo, counts, clusterVars, freed>>

\* The sleep ends before the deadline: poll again.
PollAgain(t) ==
    LET w == watch[t] IN
    /\ w.polls < WatchPolls
    /\ \/ PollSees(t, w.sess, state[w.sess], w.polls, w.healthy)
       \/ PollRaises(t, w.sess, state[w.sess])

\* The sleep ends at or after the deadline.  Slow API calls may bring it
\* forward to any poll, and no more than WatchPolls sleeps fit before it.
DeadlinePassed(t) ==
    /\ state' = [state EXCEPT ![watch[t].sess] = "STILL_SICK"]
    /\ watch' = [watch EXCEPT ![t] = NoWatch]
    /\ UNCHANGED faults

WatchWakes(t) ==
    /\ watch[t] # NoWatch
    /\ PollAgain(t) \/ DeadlinePassed(t)
    /\ UNCHANGED <<dryRun, res, restarted, cycles, dpo, counts, clusterVars, freed>>

-----------------------------------------------------------------------------
\* analyze(): reads only; allowed in trading namespaces.
Analyze(s) ==
    /\ Exists(s)
    /\ state' = [state EXCEPT ![s] = "PROPOSE_FIX"]
    /\ UNCHANGED <<dryRun, res, restarted, cycles, dpo, counts, watch,
                   clusterVars, freed, faults>>

\* sandbox_verify(): the stub's verdict is the dry_run flag.
SandboxVerify(s) ==
    /\ Exists(s)
    /\ ~Trading(s)
    /\ state' = [state EXCEPT ![s] = IF dryRun THEN "ESCALATE" ELSE "APPLY"]
    /\ UNCHANGED <<dryRun, res, restarted, cycles, dpo, counts, watch,
                   clusterVars, freed, faults>>

\* apply(): patches production, or raises with the patch landed or not.
Apply(s) ==
    /\ Exists(s)
    /\ ~Trading(s)
    /\ \/ /\ fixed' = IF Patches(s) THEN [fixed EXCEPT ![s] = TRUE] ELSE fixed
          /\ state' = [state EXCEPT ![s] = "APPLY"]
          /\ UNCHANGED faults
       \/ /\ Patches(s) /\ CanFail("apply")
          /\ fixed' = fixed \/ fixed' = [fixed EXCEPT ![s] = TRUE]
          /\ faults' = faults + 1
          /\ UNCHANGED state
    /\ UNCHANGED <<dryRun, res, restarted, cycles, dpo, counts, watch,
                   rollouts, lost, notified, freed>>

\* escalate(): records the DPO pair and posts to the webhook unless dry_run;
\* a failed POST is logged and swallowed.
Escalate(s) ==
    /\ Exists(s)
    /\ dpo' = [dpo EXCEPT ![s] = TRUE]
    /\ \E accepted \in BOOLEAN :
          notified' = [notified EXCEPT ![s] = @ \/ (~dryRun /\ accepted)]
    /\ state' = [state EXCEPT ![s] = "ESCALATE"]
    /\ UNCHANGED <<dryRun, res, restarted, cycles, counts, watch, rollouts,
                   fixed, lost, freed, faults>>

\* NamespaceCircuitBreaker.release, called by a session's owner when it is
\* done with the session.  No method of the ladder calls it.
Release(s) ==
    /\ Exists(s)
    /\ ~freed[s]
    /\ freed' = [freed EXCEPT ![s] = TRUE]
    /\ counts' = [counts EXCEPT ![Ns(s)] = IF @ > 0 THEN @ - 1 ELSE 0]
    /\ UNCHANGED <<dryRun, sessionVars, watch, clusterVars, faults>>

\* Mutants of advance(): an eligible session is analyzed without a restart;
\* PROPOSE_FIX falls through.
AdvanceSkipsRestart(t, s) ==
    /\ watch[t] = NoWatch
    /\ \/ state[s] \in {"IDLE", "STILL_SICK"} /\ Analyze(s)
       \/ state[s] = "RESTART_ISSUED" /\ Watch(t, s)
       \/ state[s] = "PROPOSE_FIX" /\ SandboxVerify(s)

AdvanceForgetsVerify(t, s) ==
    /\ watch[t] = NoWatch
    /\ \/ state[s] = "IDLE" /\ Restart(s)
       \/ state[s] = "RESTART_ISSUED" /\ Watch(t, s)
       \/ state[s] = "STILL_SICK" /\ Analyze(s)

\* advance(): one step of the state machine.  On WATCH_HEALING and on the
\* terminal states it returns the session unchanged.
Advance(t, s) ==
    /\ watch[t] = NoWatch
    /\ \/ state[s] = "IDLE" /\ Restart(s)
       \/ state[s] = "RESTART_ISSUED" /\ Watch(t, s)
       \/ state[s] = "STILL_SICK" /\ Analyze(s)
       \/ state[s] = "PROPOSE_FIX" /\ SandboxVerify(s)

-----------------------------------------------------------------------------
\* Coroutines call the public methods in any order, on any session.
Next ==
    \/ \E r \in Resources, s \in Sessions : Detect(r, s)
    \/ \E s \in Sessions : Restart(s)
    \/ \E t \in Tasks, s \in Sessions : Watch(t, s)
    \/ \E t \in Tasks : WatchWakes(t)
    \/ \E s \in Sessions : Analyze(s)
    \/ \E s \in Sessions : SandboxVerify(s)
    \/ \E s \in Sessions : Apply(s)
    \/ \E s \in Sessions : Escalate(s)
    \/ \E s \in Sessions : Release(s)

Spec == Init /\ [][Next]_vars

\* Coroutines detect and then drive sessions with advance(); several of them
\* may drive the same session.
LoopNext ==
    \/ \E r \in Resources, s \in Sessions : Detect(r, s)
    \/ \E t \in Tasks, s \in Sessions : Advance(t, s)
    \/ \E t \in Tasks : WatchWakes(t)

LoopSpec == Init /\ [][LoopNext]_vars

\* The event loop runs every ready coroutine, and some coroutine keeps
\* calling advance() on each session.
LoopFairness ==
    /\ \A s \in Sessions : WF_vars(\E t \in Tasks : Advance(t, s))
    /\ \A t \in Tasks : WF_vars(WatchWakes(t))

FairLoopSpec == LoopSpec /\ LoopFairness
-----------------------------------------------------------------------------
(* Properties *)

Watching(t, s) == watch[t].sess = s

WatchLocals == [sess : Sessions, polls : 1 .. WatchPolls, healthy : 0 .. 1]

TypeOK ==
    /\ dryRun \in BOOLEAN
    /\ state \in [Sessions -> LadderState \cup {"NONE"}]
    /\ res \in [Sessions -> Resources \cup {NoResource}]
    /\ \A s \in Sessions : Exists(s) => res[s] \in Resources
    /\ restarted \in [Sessions -> BOOLEAN]
    /\ cycles \in [Sessions -> 0 .. MaxCyclesPerHour]
    /\ dpo \in [Sessions -> BOOLEAN]
    /\ counts \in [Namespaces -> Nat]
    /\ watch \in [Tasks -> WatchLocals \cup {NoWatch}]
    /\ rollouts \in [Sessions -> Nat]
    /\ fixed \in [Sessions -> BOOLEAN]
    /\ lost \in [Sessions -> Nat]
    /\ notified \in [Sessions -> BOOLEAN]
    /\ freed \in [Sessions -> BOOLEAN]
    /\ faults \in 0 .. MaxFaults

\* Whatever order coroutines call the methods in, and whichever calls fail
\* half-way, the cluster is only ever changed on behalf of a session on a
\* patchable resource outside the trading namespaces, and nothing leaves the
\* process in dry_run, the escalation webhook included (the dry_run and
\* _assert_not_trading guards of restart, apply and escalate).
OnlyAllowedMutations ==
    \A s \in Sessions :
        /\ rollouts[s] > 0 \/ fixed[s] => Exists(s) /\ Patches(s) /\ ~Trading(s)
        /\ notified[s] => ~dryRun /\ dpo[s]

\* A session's cycle counter accounts for every rollout restart it has caused
\* except the ones whose call raised after the patch had landed, so
\* MAX_CYCLES_PER_HOUR bounds a session's rollouts only up to those lost
\* replies, of which there are no more than failed calls.
RestartsAccounted ==
    \A s \in Sessions :
        /\ Exists(s) /\ Patches(s) => rollouts[s] = cycles[s] + lost[s]
        /\ cycles[s] <= MaxCyclesPerHour
        /\ lost[s] <= faults

\* Sessions that hold a slot of namespace ns.
Holders(ns) == {s \in Sessions : Exists(s) /\ Ns(s) = ns /\ ~freed[s]}

\* The breaker's counter of a namespace is the number of sessions whose slot
\* has not been given back, and no interleaving of detect() and release()
\* lifts it over NAMESPACE_LADDER_CAP.
BreakerExact ==
    \A ns \in Namespaces :
        /\ counts[ns] = Cardinality(Holders(ns))
        /\ counts[ns] <= NamespaceLadderCap

\* However many coroutines drive one session with advance(), at most one of
\* them is inside its watchdog: watch() sets WATCH_HEALING before it first
\* yields, and advance() does nothing on WATCH_HEALING.
OneWatcher ==
    \A t, u \in Tasks, s \in Sessions :
        Watching(t, s) /\ Watching(u, s) => t = u /\ state[s] = "WATCH_HEALING"

\* The ladder is restart-first: a session driven by advance() that has left
\* IDLE went through exactly one restart cycle outside a trading namespace,
\* and its rollout has landed if the resource has one.
RestartFirst ==
    \A s \in Sessions :
        state[s] \notin {"NONE", "IDLE"} =>
            /\ restarted[s] /\ cycles[s] = 1 /\ ~Trading(s)
            /\ Patches(s) => rollouts[s] >= 1

\* advance() never moves a session out of HEALED, APPLY or ESCALATE, not even
\* when another coroutine is still driving it.
TerminalStays ==
    [][\A s \in Sessions : state[s] \in Terminal => state'[s] = state[s]]_vars

\* Sessions driven by advance() walk the ladder's state diagram one edge at a
\* time, whatever fails and however the coroutines interleave.
Contract == INSTANCE LadderContract WITH phase <- state, attempts <- cycles
ImplementsContract == Contract!ContractSpec

\* A session whose watchdog raised: advance() takes it for one in progress.
Abandoned(s) == state[s] = "WATCH_HEALING" /\ \A t \in Tasks : ~Watching(t, s)

\* A session outside the trading namespaces that is driven by advance()
\* reaches a terminal state, retried patch calls included, unless its watch
\* raised: nothing else can leave it half-way.
LadderSettles ==
    \A s \in Sessions :
        (state[s] = "IDLE" /\ ~Trading(s)) ~> (state[s] \in Terminal \/ Abandoned(s))

\* The watchdog gives every session it is started on its verdict, HEALED or
\* STILL_SICK, as long as the API server answers.
WatchDecides ==
    \A s \in Sessions :
        state[s] = "WATCH_HEALING" ~> state[s] \in {"HEALED", "STILL_SICK"}

\* Sessions of namespace ns that still have work to do.
InFlight(ns) == {s \in Sessions : Exists(s) /\ Ns(s) = ns /\ state[s] \notin Terminal}

\* detect() refuses a namespace only while NAMESPACE_LADDER_CAP of its
\* sessions are active.
OpenOnlyWhenBusy ==
    \A ns \in Namespaces :
        counts[ns] >= NamespaceLadderCap => Cardinality(InFlight(ns)) >= NamespaceLadderCap
=============================================================================
