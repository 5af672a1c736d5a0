-------------------------------- MODULE Watchdog --------------------------------
(***************************************************************************)
(* run_watchdog of src/auto_remediate/watchdog.py: a coroutine that polls  *)
(* a pod until a verdict or the deadline, and the task that collects the   *)
(* pod's Warning events beside it.                                         *)
(*                                                                         *)
(* Both run on one event loop.  The event stream is a blocking iterator:   *)
(* while it waits for the next event ("blocked") nothing else on the loop  *)
(* runs, and only the await after an event ("yielding") or the end of the  *)
(* stream lets a poll that is due take place.                              *)
(***************************************************************************)
EXTENDS Integers

CONSTANTS
    Looks,       \* what a read of the pod shows besides its restarts
    Uids,        \* Warning events by uid
    Deadline,    \* timeout_seconds, also the server's timeout of the stream
    FastUntil, MidUntil,       \* _poll_interval: where the interval changes
    Fast, Mid, Slow,           \* and the intervals
    RecentWindow,  \* _recent_warning_events: window_seconds
    MaxRestartsSeen, \* bound: restart count of a pod
    MaxWarnings, \* bound: deliveries of Warning events
    MaxApiFaults \* bound: API calls that raise

ASSUME WatchdogConstants ==
    /\ Deadline \in Nat \ {0} /\ FastUntil \in Nat /\ MidUntil \in Nat
    /\ Fast \in Nat \ {0} /\ Mid \in Nat \ {0} /\ Slow \in Nat \ {0}

\* The last poll starts before the deadline and may be due this much later.
LastTime == Deadline + Slow

NotSeen == -1

VARIABLES
    now,
    look, restartCount, podThere, \* the pod
    stage,     \* "start", "watching" or "done"
    baseline,  \* baseline_restart
    due,       \* when the poll's sleep ends
    stream,    \* the event task
    recorded,  \* last_timestamp of an event in events_seen, or NotSeen
    verdict,
    restarted, \* a container of the watched pod restarted since the baseline
    replaced,  \* another pod took the name since the baseline
    warnings, apiFaults

podVars == <<look, restartCount, podThere, restarted, replaced>>
watchdogVars == <<now, look, restartCount, podThere, stage, baseline, due, stream,
                  recorded, verdict, restarted, replaced, warnings, apiFaults>>

WatchdogInit ==
    /\ now = 0
    /\ look \in Looks /\ restartCount \in 0 .. 1 /\ podThere \in BOOLEAN
    /\ stage = "start" /\ baseline = 0 /\ due = 0
    /\ stream = "none"
    /\ recorded = [u \in Uids |-> NotSeen]
    /\ verdict = "none"
    /\ restarted = FALSE /\ replaced = FALSE
    /\ warnings = 0 /\ apiFaults = 0

-----------------------------------------------------------------------------
(* The cluster *)

PodLooks(l) ==
    /\ stage # "done" /\ look' = l
    /\ UNCHANGED <<now, restartCount, podThere, stage, baseline, due, stream, recorded, verdict,
                   restarted, replaced, warnings, apiFaults>>

PodRestarts ==
    /\ stage # "done" /\ podThere /\ restartCount < MaxRestartsSeen
    /\ restartCount' = restartCount + 1
    /\ restarted' = (stage = "watching")
    /\ UNCHANGED <<now, look, podThere, stage, baseline, due, stream, recorded, verdict,
                   replaced, warnings, apiFaults>>

\* The pod is deleted, and its controller may create one of the same name.
PodReplaced(e) ==
    /\ stage # "done"
    /\ podThere' = e
    /\ restartCount' = 0
    /\ replaced' = (stage = "watching")
    /\ UNCHANGED <<now, look, stage, baseline, due, stream, recorded, verdict,
                   restarted, warnings, apiFaults>>

-----------------------------------------------------------------------------
PollInterval(elapsed) ==
    IF elapsed < FastUntil THEN Fast ELSE IF elapsed < MidUntil THEN Mid ELSE Slow

\* A stream that raised makes the final await raise, whatever was decided.
Finish(v, eventTask) ==
    /\ stage' = "done"
    /\ verdict' = IF eventTask = "raised" THEN "raised" ELSE v

\* An API call that answers with an error other than 404.
ApiFault == apiFaults < MaxApiFaults /\ apiFaults' = apiFaults + 1

\* The baseline snapshot; then the event task is created and the first sleep
\* lets it run into its first wait.
Baseline ==
    /\ stage = "start"
    /\ \/ ~podThere /\ Finish("deleted", stream) /\ UNCHANGED <<baseline, due, stream, apiFaults>>
       \/ ApiFault /\ Finish("raised", stream) /\ UNCHANGED <<baseline, due, stream>>
       \/ /\ podThere
          /\ stage' = "watching"
          /\ baseline' = restartCount
          /\ due' = PollInterval(0)
          /\ stream' = "blocked"
          /\ UNCHANGED <<verdict, apiFaults>>
    /\ UNCHANGED <<now, podVars, recorded, warnings>>

\* _recent_warning_events.
RecentWarning == \E u \in Uids : recorded[u] # NotSeen /\ recorded[u] >= now - RecentWindow

\* Mutant: the restart count is not compared.
IsHealedRunning(delta) ==
    /\ look.phase = "Running" /\ look.ready
    /\ ~RecentWarning

IsHealed(delta) ==
    /\ look.phase = "Running" /\ look.ready
    /\ ~RecentWarning
    /\ delta = 0

\* badWait: a container waits for one of the five reasons; stuck: finalizers
\* and a deletion timestamp older than 90 s.
IsStillSick(delta) ==
    look.phase \in {"Failed", "Unknown"} \/ look.badWait \/ delta > 0 \/ look.stuck

\* Mutant: the deadline is not looked at.
GoOnForever ==
    /\ due' = IF now < Deadline THEN now + PollInterval(now) ELSE due
    /\ UNCHANGED <<stage, verdict>>

\* The while condition after a poll without verdict.
GoOn ==
    IF now < Deadline
    THEN due' = now + PollInterval(now) /\ UNCHANGED <<stage, verdict>>
    ELSE Finish("still-sick", stream) /\ UNCHANGED due

Verdict(v) == Finish(v, stream) /\ UNCHANGED due

\* One turn of the poll loop after its sleep.
Poll ==
    LET delta == restartCount - baseline
    IN  /\ stage = "watching" /\ stream # "blocked" /\ now >= due
        /\ \/ ApiFault /\ Verdict("raised")
           \/ /\ UNCHANGED apiFaults
              /\ IF ~podThere THEN Verdict("deleted")
                 ELSE IF look.phase = "Unknown" /\ ~look.node THEN Verdict("namespace-deleted")
                 ELSE IF IsHealed(delta) THEN Verdict("healed")
                 ELSE IF IsStillSick(delta) THEN Verdict("still-sick")
                 ELSE GoOn
        /\ UNCHANGED <<now, podVars, baseline, stream, recorded, warnings>>

\* An event arrives; one that is repeated keeps the time it was recorded with.
StreamDelivers(u) ==
    /\ stage = "watching" /\ stream = "blocked"
    /\ warnings < MaxWarnings
    /\ warnings' = warnings + 1
    /\ recorded' = IF recorded[u] = NotSeen THEN [recorded EXCEPT ![u] = now] ELSE recorded
    /\ stream' = "yielding"
    /\ UNCHANGED <<now, podVars, stage, baseline, due, verdict, apiFaults>>

\* The event task gets its turn again and waits for the next event.
StreamWaits ==
    /\ stage = "watching" /\ stream = "yielding"
    /\ stream' = "blocked"
    /\ UNCHANGED <<now, podVars, stage, baseline, due, recorded, verdict, warnings, apiFaults>>

\* The server closes the stream, at its timeout or before, or the request fails.
StreamEnds ==
    /\ stage = "watching" /\ stream = "blocked"
    /\ \/ stream' = "ended" /\ UNCHANGED apiFaults
       \/ ApiFault /\ stream' = "raised"
    /\ UNCHANGED <<now, podVars, stage, baseline, due, recorded, verdict, warnings>>

\* Time passes while the stream waits, until its timeout, or while the loop has nothing to run.
TimePasses ==
    /\ stage = "watching"
    /\ \/ stream = "blocked" /\ now < Deadline
       \/ stream \in {"ended", "raised"} /\ now < due
    /\ now' = now + 1
    /\ UNCHANGED <<podVars, stage, baseline, due, stream, recorded, verdict, warnings, apiFaults>>

LoopStep == Baseline \/ Poll \/ StreamWaits \/ StreamEnds \/ TimePasses

WatchdogNext ==
    \/ LoopStep
    \/ \E u \in Uids : StreamDelivers(u)
    \/ \E l \in Looks : PodLooks(l)
    \/ \E e \in BOOLEAN : PodReplaced(e)
    \/ PodRestarts

WatchdogSpec == WatchdogInit /\ [][WatchdogNext]_watchdogVars

\* Time passes, the server closes the stream by its timeout and the event loop
\* runs what is ready.
FairWatchdogSpec == WatchdogSpec /\ WF_watchdogVars(LoopStep)

-----------------------------------------------------------------------------
WatchdogTypeOK ==
    /\ now \in 0 .. LastTime /\ due \in 0 .. LastTime
    /\ look \in Looks /\ restartCount \in 0 .. MaxRestartsSeen /\ podThere \in BOOLEAN
    /\ stage \in {"start", "watching", "done"}
    /\ baseline \in 0 .. MaxRestartsSeen
    /\ stream \in {"none", "blocked", "yielding", "ended", "raised"}
    /\ recorded \in [Uids -> {NotSeen} \cup 0 .. LastTime]
    /\ verdict \in {"none", "healed", "still-sick", "deleted", "namespace-deleted", "raised"}
    /\ restarted \in BOOLEAN /\ replaced \in BOOLEAN
    /\ warnings \in 0 .. MaxWarnings /\ apiFaults \in 0 .. MaxApiFaults

\* Between polls the pod restarts, is replaced and recovers; the pod that is
\* called healed is running and ready, has no event recorded within the window,
\* and did not restart since the baseline unless another pod took its name.
HealedJustified ==
    verdict = "healed" =>
        /\ podThere /\ look.phase = "Running" /\ look.ready
        /\ ~RecentWarning
        /\ restarted => replaced

\* The watchdog ends with a verdict or an exception, whatever the pod, the
\* stream and the API server do.
VerdictReached == stage = "watching" ~> stage = "done"

\* The readiness poll takes place when it is due, independent of the events.
PolledOnTime == stage = "watching" => now <= due
=============================================================================
