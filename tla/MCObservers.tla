------------------------------ MODULE MCObservers ------------------------------
(***************************************************************************)
(* Small instances of the parts that observe the cluster and of those that *)
(* guard, explain, record and follow what is done to it: the observer loop *)
(* ("runtime"), the audit log ("log"), the safety gate ("gate"), the cache *)
(* of explanations ("cache"), the pod watchdog ("watchdog") and the orphan *)
(* job cleaner ("cleaner").                                                *)
(*                                                                         *)
(* They share no state.  The initial state picks the one a behaviour is    *)
(* about, and the variables of the others keep their initial values.       *)
(***************************************************************************)
EXTENDS ObserverRuntime, AuditFile, SafetyGate, ExplainCache, Watchdog, OrphanCleaner, TLC

CONSTANTS w1, w2, c1, c2, c3, m1, m2

VARIABLE part \* the one this behaviour is about

-----------------------------------------------------------------------------
(* What the environment may show *)

Container(waiting, oom) == [waiting |-> waiting, oom |-> oom]

\* A pod that cannot be scheduled, and one with a container that was out of
\* memory and another whose probe fails.
MCConditions ==
    { [containers |-> {Container("no", FALSE)}, pending |-> TRUE, events |-> {"FailedScheduling"}],
      [containers |-> {Container("CrashLoopBackOff", TRUE), Container("no", TRUE)},
       pending |-> FALSE, events |-> {"Unhealthy"}] }

\* The desk matches two lists until it is taken off the trading list.
MCConfigFiles == {"desk" :> {"trading", "batch"}, "desk" :> {"batch"}}

MCModelOf == c1 :> m1 @@ c2 :> m2 @@ c3 :> m1

Look(phase, ready, badWait, node) ==
    [phase |-> phase, ready |-> ready, badWait |-> badWait, node |-> node, stuck |-> FALSE]

MCLooks ==
    { Look("Running", TRUE, FALSE, TRUE), Look("Running", FALSE, FALSE, TRUE),
      Look("Running", FALSE, TRUE, TRUE), Look("Unknown", FALSE, FALSE, FALSE) }

-----------------------------------------------------------------------------
\* Initial values of the frozen parts are no different ones.
MCInit ==
    /\ part \in {"runtime", "log", "gate", "cache", "watchdog", "cleaner"}
    /\ RuntimeInit /\ AuditFileInit /\ GateInit
    /\ ExplainInit /\ WatchdogInit /\ CleanerInit
    /\ part # "runtime" => \A p \in Pods : pods[p].pending
    /\ part # "gate" => file = NoConfig
    /\ part # "cache" => \A c \in Askers : about[c] = CHOOSE s \in Subjects : TRUE
    /\ part # "watchdog" => look.node /\ look.ready /\ restartCount = 0 /\ podThere
    /\ part # "cleaner" => ~dryRun /\ trading = {} /\ crons = {CHOOSE c \in CronUids : TRUE}

MCNext ==
    /\ UNCHANGED part
    /\ \/ /\ part = "runtime" /\ RuntimeNext
          /\ UNCHANGED <<fileVars, gateVars, cacheVars, watchdogVars, cleanerVars>>
       \/ /\ part = "log" /\ FileNext
          /\ UNCHANGED <<runtimeVars, gateVars, cacheVars, watchdogVars, cleanerVars>>
       \/ /\ part = "gate" /\ GateNext
          /\ UNCHANGED <<runtimeVars, fileVars, cacheVars, watchdogVars, cleanerVars>>
       \/ /\ part = "cache" /\ ExplainNext
          /\ UNCHANGED <<runtimeVars, fileVars, gateVars, watchdogVars, cleanerVars>>
       \/ /\ part = "watchdog" /\ WatchdogNext
          /\ UNCHANGED <<runtimeVars, fileVars, gateVars, cacheVars, cleanerVars>>
       \/ /\ part = "cleaner" /\ CleanerNext
          /\ UNCHANGED <<runtimeVars, fileVars, gateVars, cacheVars, watchdogVars>>

\* The fairness that FairRuntimeSpec, FairExplainSpec and FairWatchdogSpec state.
MCSpec ==
    /\ MCInit /\ [][MCNext]_<<part, runtimeVars, fileVars, gateVars, cacheVars, watchdogVars, cleanerVars>>
    /\ WF_runtimeVars(part = "runtime" /\ RuntimeStep)
    /\ WF_runtimeVars(part = "runtime" /\ ~alive /\ Restart)
    /\ \A c \in Askers : WF_cacheVars(part = "cache" /\ CallGoesOn(c))
    /\ WF_watchdogVars(part = "watchdog" /\ LoopStep)

-----------------------------------------------------------------------------
\* An observer reports what persists (StillReported of ObserverRuntime).
RuntimeReports ==
    \A k \in Keys :
        <>[](part = "runtime" /\ k \in RunSafe(FALSE, FALSE)) => []<>(k \in wrote \/ shutdown)
=============================================================================
