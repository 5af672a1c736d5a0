---------------------------- MODULE ObserverRuntime ----------------------------
(***************************************************************************)
(* The observer loop (src/auto_remediate/runtime.py) around PodAnalyzer    *)
(* (src/analyzers/pod_analyzer.py, run_safe of base.py): every interval it *)
(* turns the pods into findings and writes an audit line for each one that *)
(* is not in its rolling dedup window.                                     *)
(*                                                                         *)
(* An interval is one step: nothing else runs in the process meanwhile.    *)
(* Between two steps pods change, the wall clock is set back, a signal     *)
(* arrives, or the container restarts and loses the window, which is only  *)
(* in memory.  Times are counted in intervals.                             *)
(***************************************************************************)
EXTENDS Integers, Sequences, SequencesExt

CONSTANTS
    Pods,
    Conditions,    \* what the API server can say of a pod
    DedupWindow,   \* DEDUP_WINDOW
    ClockStep,     \* how far the wall clock is set back at a time
    MaxClockSteps, \* bound: times it is set back
    MaxOutages,    \* bound: intervals in which the API server or the disk fails
    MaxRestarts    \* bound: restarts of the container

ASSUME RuntimeBounds ==
    /\ IsFiniteSet(Pods)
    /\ DedupWindow \in Nat \ {0} /\ ClockStep \in Nat
    /\ MaxClockSteps \in Nat /\ MaxOutages \in Nat /\ MaxRestarts \in Nat

VARIABLES
    pods,      \* the condition of each pod
    alive, shutdown,
    seen,      \* _SEEN: the key, left = expires_at - now, and the true age
    wrote,     \* keys that got an audit line in the last interval
    silence,   \* the age of the oldest entry that suppressed a finding in it
    clockSteps, outages, restarts

runtimeVars == <<pods, alive, shutdown, seen, wrote, silence,
                 clockSteps, outages, restarts>>

Categories == {"image-pull", "crash-loop", "oom-killed", "pending-scheduling",
               "probe-failure", "failed-mount"}
Keys == Pods \X Categories

\* Nothing tells apart entries that are older, or expired for longer, than this.
MaxAge == DedupWindow + MaxClockSteps * ClockStep + 1

RuntimeInit ==
    /\ pods \in [Pods -> Conditions]
    /\ alive = TRUE /\ shutdown = FALSE
    /\ seen = <<>>
    /\ wrote = {} /\ silence = 0
    /\ clockSteps = 0 /\ outages = 0 /\ restarts = 0

-----------------------------------------------------------------------------
(* PodAnalyzer *)

\* _check_container: the category of the first reason that applies.
CheckContainer(c) ==
    IF c.waiting = "ImagePullBackOff" THEN {"image-pull"}
    ELSE IF c.waiting = "CrashLoopBackOff" THEN {"crash-loop"}
    ELSE IF c.oom THEN {"oom-killed"}
    ELSE {}

\* _evaluate_pod and _fetch_events: a failing event query leaves the pod
\* without events.
Evaluate(pod, eventsFail) ==
    LET events == IF eventsFail THEN {} ELSE pod.events
    IN  (UNION {CheckContainer(c) : c \in pod.containers})
        \cup {x \in {"pending-scheduling"} : pod.pending /\ "FailedScheduling" \in events}
        \cup {x \in {"probe-failure"} : "Unhealthy" \in events}
        \cup {x \in {"failed-mount"} : "FailedMount" \in events}

\* analyze and run_safe: one finding per fingerprint, none when a call raises.
RunSafe(listFails, eventsFail) ==
    IF listFails THEN {} ELSE UNION {{p} \X Evaluate(pods[p], eventsFail) : p \in Pods}

-----------------------------------------------------------------------------
(* The dedup window *)

\* The pruning of _is_seen: expired entries at the head of the deque.
Pruned(entries) ==
    LET n == CHOOSE n \in 0 .. Len(entries) :
                /\ \A i \in 1 .. n : entries[i].left <= 0
                /\ n < Len(entries) => entries[n + 1].left > 0
    IN  SubSeq(entries, n + 1, Len(entries))

KeysIn(entries) == {entries[i].key : i \in DOMAIN entries}

Entered(k, age) == [key |-> k, left |-> DedupWindow, age |-> age]

\* How long ago the finding was marked because it was new.
AgeOf(entries, k) == Max({0} \cup {entries[i].age : i \in {j \in DOMAIN entries : entries[j].key = k}})

\* Mutant: an entry that is found again is marked again.
MarkSeenAgain(entries, found) ==
    entries \o SetToSeq({Entered(k, AgeOf(entries, k)) : k \in found})

\* _mark_seen of every finding that _is_seen does not know.
MarkSeen(entries, found) ==
    entries \o SetToSeq({Entered(k, 0) : k \in found \ KeysIn(entries)})

\* The clock moves by d and t intervals pass.
Elapse(entries, d, t) ==
    [i \in DOMAIN entries |-> [entries[i] EXCEPT !.left = Max({@ - d, -MaxAge}),
                                               !.age = Min({@ + t, MaxAge})]]

\* Mutant: nothing is ever pruned.
WindowUnpruned(entries, found) == entries

\* _is_seen prunes only when there is something to look up.
Window(entries, found) == IF found = {} THEN entries ELSE Pruned(entries)

-----------------------------------------------------------------------------
(* One iteration of _run_loop.  A finding is marked before its line is     *)
(* written, and a write that fails is swallowed by _append_audit.          *)
Interval(listFails, eventsFail, writeFails) ==
    LET found == RunSafe(listFails, eventsFail)
        old   == Window(seen, found)
        new   == found \ KeysIn(old)
    IN  /\ alive /\ ~shutdown
        /\ IF listFails \/ eventsFail \/ writeFails
           THEN outages < MaxOutages /\ outages' = outages + 1
           ELSE UNCHANGED outages
        /\ seen' = Elapse(MarkSeen(old, found), 1, 1)
        /\ wrote' = IF writeFails THEN {} ELSE new
        /\ silence' = Max({0} \cup {AgeOf(old, k) : k \in found})
        /\ UNCHANGED <<pods, alive, shutdown, clockSteps, restarts>>

\* HEALTH.write_text is outside the try block: the process ends.
HealthFails ==
    /\ alive /\ ~shutdown
    /\ outages < MaxOutages
    /\ outages' = outages + 1
    /\ alive' = FALSE
    /\ wrote' = {} /\ silence' = 0
    /\ UNCHANGED <<pods, shutdown, seen, clockSteps, restarts>>

\* The kubelet kills or restarts the container.
Restart ==
    /\ ~shutdown
    /\ alive => restarts < MaxRestarts /\ restarts' = restarts + 1
    /\ ~alive => UNCHANGED restarts
    /\ alive' = TRUE
    /\ seen' = <<>>
    /\ wrote' = {} /\ silence' = 0
    /\ UNCHANGED <<pods, shutdown, clockSteps, outages>>

\* SIGTERM or SIGINT.
Signal ==
    /\ alive /\ ~shutdown
    /\ shutdown' = TRUE
    /\ UNCHANGED <<pods, alive, seen, wrote, silence, clockSteps, outages, restarts>>

PodChanges(p, c) ==
    /\ pods' = [pods EXCEPT ![p] = c]
    /\ UNCHANGED <<alive, shutdown, seen, wrote, silence, clockSteps, outages, restarts>>

\* time.time() is the wall clock.
ClockBack ==
    /\ clockSteps < MaxClockSteps
    /\ clockSteps' = clockSteps + 1
    /\ seen' = Elapse(seen, -ClockStep, 0)
    /\ UNCHANGED <<pods, alive, shutdown, wrote, silence, outages, restarts>>

RuntimeStep == \E l, e, w \in BOOLEAN : Interval(l, e, w)

RuntimeNext ==
    \/ RuntimeStep
    \/ HealthFails \/ Restart \/ Signal \/ ClockBack
    \/ \E p \in Pods, c \in Conditions : PodChanges(p, c)

RuntimeSpec == RuntimeInit /\ [][RuntimeNext]_runtimeVars

\* The loop goes on and the kubelet restarts a process that ended.
FairRuntimeSpec ==
    /\ RuntimeSpec
    /\ WF_runtimeVars(RuntimeStep)
    /\ WF_runtimeVars(~alive /\ Restart)

-----------------------------------------------------------------------------
RuntimeTypeOK ==
    /\ pods \in [Pods -> Conditions]
    /\ alive \in BOOLEAN /\ shutdown \in BOOLEAN
    /\ seen \in Seq([key : Keys, left : -MaxAge .. MaxAge, age : 0 .. MaxAge])
    /\ wrote \subseteq Keys
    /\ silence \in 0 .. MaxAge
    /\ clockSteps \in 0 .. MaxClockSteps
    /\ outages \in 0 .. MaxOutages /\ restarts \in 0 .. MaxRestarts

\* Marking before writing, a deque that is pruned only at its head and a clock
\* that is set back can each lengthen a silence; together they never keep a
\* finding from being marked again for longer than the window and the steps of
\* the clock since it was marked.
SilenceBounded ==
    silence < DedupWindow + clockSteps * ClockStep

\* A finding that persists gets an audit line again and again, whatever was
\* lost with a failing disk or a restart in between, until shutdown.
StillReported ==
    \A k \in Keys :
        <>[](k \in RunSafe(FALSE, FALSE)) => []<>(k \in wrote \/ shutdown)
=============================================================================
