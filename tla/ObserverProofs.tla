---------------------------- MODULE ObserverProofs ----------------------------
(***************************************************************************)
(* Proofs about the cache of explanations, the safety gate, the orphan job *)
(* cleaner, the pod watchdog, the observer loop and the audit log, each    *)
(* for every value of its constants.                                       *)
(***************************************************************************)
EXTENDS ExplainCache, SafetyGate, OrphanCleaner, Watchdog, ObserverRuntime, AuditFile,
        FiniteOrders

-----------------------------------------------------------------------------
(* ExplainCache *)

\* What a caller was told within the TTL is in the cache, under the caller's
\* model, and the row is no older than what the caller was told.
ExplainInv ==
    /\ row \in [Subjects -> Rows \cup {NoRow}]
    /\ about \in [Askers -> Subjects]
    /\ known \in [Askers -> [Subjects -> 0 .. TTL + 1]]
    /\ \A c \in Askers : \A s \in Subjects : known[c][s] <= TTL =>
          row[s] # NoRow /\ row[s].model = ModelOf[c] /\ row[s].age <= known[c][s]

LEMMA ExplainInitInv == ExplainInit => ExplainInv
BY ExplainConstants DEF ExplainInit, ExplainInv

\* Ages stay in their range and in their order as time passes.
LEMMA OlderInOrder ==
    ASSUME NEW i \in 0 .. TTL + 1, NEW j \in 0 .. TTL + 1
    PROVE  /\ Older(i) \in 0 .. TTL + 1
           /\ Older(i) <= TTL => i <= TTL
           /\ i <= j => Older(i) <= Older(j)
BY ExplainConstants DEF Older

LEMMA ExplainNextInv == ExplainInv /\ [ExplainNext]_cacheVars => ExplainInv'
<1> SUFFICES ASSUME ExplainInv, [ExplainNext]_cacheVars PROVE ExplainInv'
  OBVIOUS
<1> USE DEF ExplainInv
<1>1. ASSUME NEW c \in Askers, NEW s \in Subjects, Ask(c, s) PROVE ExplainInv'
  <2>1. CASE Hit(s, ModelOf[c])
    <3>1. row[s] \in Rows /\ row[s].model = ModelOf[c] /\ row[s].age \in 0 .. TTL + 1
      BY <2>1 DEF Hit, Rows
    <3>2. /\ row' = row
          /\ about' = [about EXCEPT ![c] = s]
          /\ known' = [known EXCEPT ![c][s] = row[s].age]
      BY <1>1, <2>1 DEF Ask
    <3>3. ASSUME NEW d \in Askers, NEW u \in Subjects
          PROVE known'[d][u] = IF d = c /\ u = s THEN row[s].age ELSE known[d][u]
      BY <3>2
    <3>4. known' \in [Askers -> [Subjects -> 0 .. TTL + 1]]
      BY <3>1, <3>2
    <3> QED
      BY <2>1, <3>1, <3>2, <3>3, <3>4 DEF Hit
  <2>2. CASE ~Hit(s, ModelOf[c])
    BY <1>1, <2>2 DEF Ask
  <2> QED BY <2>1, <2>2
<1>2. ASSUME NEW c \in Askers, Reply(c) PROVE ExplainInv'
  <2> DEFINE new == [model |-> ModelOf[c], age |-> 0]
  <2>1. new \in Rows /\ new # NoRow
    BY ExplainConstants DEF Rows
  <2>2. /\ row' = [row EXCEPT ![about[c]] = new]
        /\ about' = about
    BY <1>2 DEF Reply
  <2>3. ASSUME NEW d \in Askers, NEW u \in Subjects
        PROVE known'[d][u] = IF u # about[c] THEN known[d][u]
                             ELSE IF d = c THEN 0
                             ELSE IF ModelOf[d] = ModelOf[c] THEN known[d][u] ELSE TTL + 1
    BY <1>2 DEF Reply
  <2>4. known' \in [Askers -> [Subjects -> 0 .. TTL + 1]]
    BY <1>2, ExplainConstants DEF Reply
  <2>5. new.model = ModelOf[c] /\ new.age = 0
    OBVIOUS
  <2> HIDE DEF new
  <2> QED
    BY <2>1, <2>2, <2>3, <2>4, <2>5, ExplainConstants
<1>3. ASSUME NEW c \in Askers, ReplyLost(c) \/ RequestFails(c) \/ TryAgain(c) PROVE ExplainInv'
  BY <1>3 DEF ReplyLost, RequestFails, TryAgain
<1>4. CASE EvictExpired
  <2>1. ASSUME NEW c \in Askers, NEW s \in Subjects, known[c][s] <= TTL
        PROVE row'[s] = row[s]
    <3>1. row[s] \in Rows /\ row[s].age \in 0 .. TTL + 1 /\ known[c][s] \in 0 .. TTL + 1
      BY <2>1 DEF Rows
    <3> QED
      BY <1>4, <2>1, <3>1, ExplainConstants DEF EvictExpired
  <2> QED
    BY <1>4, <2>1 DEF EvictExpired
<1>5. CASE Tick
  <2>1. ASSUME NEW s \in Subjects, row[s] # NoRow
        PROVE /\ row'[s] \in Rows /\ row'[s].model = row[s].model
              /\ row'[s].age = Older(row[s].age) /\ row[s].age \in 0 .. TTL + 1
    BY <1>5, <2>1, OlderInOrder DEF Tick, Rows
  <2>2. ASSUME NEW c \in Askers, NEW s \in Subjects
        PROVE known'[c][s] = Older(known[c][s]) /\ known[c][s] \in 0 .. TTL + 1
    BY <1>5 DEF Tick
  <2>3. row' \in [Subjects -> Rows \cup {NoRow}]
    BY <1>5, <2>1 DEF Tick
  <2>4. known' \in [Askers -> [Subjects -> 0 .. TTL + 1]]
    BY <1>5, OlderInOrder DEF Tick
  <2>5. ASSUME NEW c \in Askers, NEW s \in Subjects, known'[c][s] <= TTL
        PROVE row'[s] # NoRow /\ row'[s].model = ModelOf[c] /\ row'[s].age <= known'[c][s]
    <3>1. known[c][s] <= TTL
      BY <2>2, <2>5, OlderInOrder
    <3> QED
      BY <3>1, <2>1, <2>2, OlderInOrder, ExplainConstants
  <2> QED
    BY <1>5, <2>3, <2>4, <2>5 DEF Tick
<1>6. CASE Reboot
  BY <1>6 DEF Reboot
<1>7. CASE UNCHANGED cacheVars
  BY <1>7 DEF cacheVars
<1> QED
  BY <1>1, <1>2, <1>3, <1>4, <1>5, <1>6, <1>7 DEF ExplainNext, CallGoesOn

\* The backend is asked once within the TTL for every caller with the same model
\* (FindingCache and CachedBackend.explain), for every number of callers,
\* findings and attempts.
THEOREM BackendAskedOnce == ExplainSpec => []AskedOnce
<1>1. ExplainInv => AskedOnce
  <2> SUFFICES ASSUME ExplainInv, NEW c \in Askers, NEW d \in Askers, NEW s \in Subjects,
                      known[c][s] <= TTL, ModelOf[d] = ModelOf[c]
               PROVE  Hit(s, ModelOf[d])
    BY DEF AskedOnce
  <2>1. row[s] \in Rows /\ row[s].age \in 0 .. TTL + 1 /\ known[c][s] \in 0 .. TTL + 1
    BY DEF ExplainInv, Rows
  <2> QED
    BY <2>1, ExplainConstants DEF ExplainInv, Hit
<1> QED
  BY <1>1, ExplainInitInv, ExplainNextInv, PTL DEF ExplainSpec

-----------------------------------------------------------------------------
(* SafetyGate *)

\* What a caller was granted is in the log and permitted by the configuration
\* of the running server.
GateInv ==
    /\ asked \in [Callers -> [ns : Namespaces \cup {"none"}, action : Actions \cup {"none"},
                              granted : BOOLEAN]]
    /\ \A c \in Callers : asked[c].granted =>
          /\ [ns |-> asked[c].ns, action |-> asked[c].action, allowed |-> TRUE] \in decisions
          /\ Permitted(asked[c].ns, asked[c].action)
    /\ GateFirst

\* A mutating action is permitted only where neither list matches.
LEMMA PermittedLists ==
    ASSUME NEW ns, NEW action \in MutatingActions, Permitted(ns, action)
    PROVE  config[ns] \cap {"trading", "system"} = {}
BY DEF Permitted, Categorize

LEMMA GateInitInv == GateInit => GateInv
BY DEF GateInit, GateInv, GateFirst, Idle

LEMMA GateNextInv == GateInv /\ [GateNext]_gateVars => GateInv'
<1> SUFFICES ASSUME GateInv, [GateNext]_gateVars PROVE GateInv'
  OBVIOUS
<1> USE DEF GateInv
<1>1. CASE Load
  BY <1>1 DEF Load, GateFirst, Idle
<1>2. ASSUME NEW f, EditConfig(f) PROVE GateInv'
  BY <1>2 DEF EditConfig, GateFirst, Permitted, Categorize
<1>3. ASSUME NEW c \in Callers, NEW ns \in Namespaces, NEW a \in Actions, NEW e \in BOOLEAN,
             Check(c, ns, a, e)
      PROVE  GateInv'
  <2>1. /\ config' = config /\ acted' = acted /\ decisions \subseteq decisions'
        /\ asked' = [asked EXCEPT ![c] = [ns |-> ns, action |-> a,
                                          granted |-> Permitted(ns, a) /\ ~e]]
        /\ Permitted(ns, a) /\ ~e =>
              [ns |-> ns, action |-> a, allowed |-> TRUE] \in decisions'
    BY <1>3 DEF Check
  <2>2. asked' \in [Callers -> [ns : Namespaces \cup {"none"}, action : Actions \cup {"none"},
                                granted : BOOLEAN]]
    BY <2>1
  <2>3. ASSUME NEW d \in Callers, asked'[d].granted
        PROVE  /\ [ns |-> asked'[d].ns, action |-> asked'[d].action, allowed |-> TRUE]
                     \in decisions'
               /\ Permitted(asked'[d].ns, asked'[d].action)
    BY <2>1, <2>3
  <2>4. \A x, y : Permitted(x, y)' <=> Permitted(x, y)
    BY <2>1 DEF Permitted, Categorize
  <2> QED
    BY <2>1, <2>2, <2>3, <2>4 DEF GateFirst
<1>4. ASSUME NEW c \in Callers, Act(c) PROVE GateInv'
  <2>1. /\ asked[c].granted
        /\ acted' = acted \cup {[ns |-> asked[c].ns, action |-> asked[c].action,
                               lists |-> config[asked[c].ns]]}
        /\ asked' = [asked EXCEPT ![c] = Idle]
        /\ config' = config /\ decisions' = decisions
    BY <1>4 DEF Act
  <2> DEFINE done == [ns |-> asked[c].ns, action |-> asked[c].action,
                      lists |-> config[asked[c].ns]]
  <2>2. GateFirst'
    <3>1. /\ [ns |-> done.ns, action |-> done.action, allowed |-> TRUE] \in decisions
          /\ done.action \in MutatingActions => done.lists \cap {"trading", "system"} = {}
      BY <2>1, PermittedLists
    <3>2. acted' = acted \cup {done} /\ decisions' = decisions
      BY <2>1
    <3> HIDE DEF done
    <3> QED BY <3>1, <3>2 DEF GateFirst
  <2>3. \A x, y : Permitted(x, y)' <=> Permitted(x, y)
    BY <2>1 DEF Permitted, Categorize
  <2>4. asked' \in [Callers -> [ns : Namespaces \cup {"none"}, action : Actions \cup {"none"},
                                granted : BOOLEAN]]
    BY <2>1 DEF Idle
  <2>5. \A d \in Callers : asked'[d].granted => asked'[d] = asked[d]
    BY <2>1 DEF Idle
  <2> QED
    BY <2>1, <2>2, <2>3, <2>4, <2>5
<1>5. CASE UNCHANGED gateVars
  BY <1>5 DEF gateVars, GateFirst, Permitted, Categorize
<1> QED
  BY <1>1, <1>2, <1>3, <1>4, <1>5 DEF GateNext

\* Whatever callers, edits of the configuration and restarts do in which order,
\* an action was logged as allowed before it took place and a mutating one never
\* hits a namespace on the trading or the system list (SafetyGate.check).
THEOREM GateComesFirst == GateSpec => []GateFirst
<1>1. GateInv => GateFirst
  BY DEF GateInv
<1> QED
  BY <1>1, GateInitInv, GateNextInv, PTL DEF GateSpec

-----------------------------------------------------------------------------
(* OrphanCleaner *)

\* A Job that is still the listed one kept its owners, and a CronJob that was
\* missing from the listing is gone for good.
CleanerInv ==
    /\ jobs \in [JobNames -> Jobs \cup {NoJob}]
    /\ snapshot \in [JobNames -> Jobs \cup {NoJob}]
    /\ births \in Nat /\ crons \subseteq born
    /\ \A n \in JobNames : jobs[n] # NoJob =>
          jobs[n].uid <= births /\ jobs[n].owners \subseteq born
    /\ \A n \in JobNames : snapshot[n] # NoJob =>
          /\ snapshot[n].uid <= births /\ snapshot[n].owners \subseteq born
          /\ jobs[n] # NoJob /\ jobs[n].uid = snapshot[n].uid =>
                jobs[n].owners = snapshot[n].owners
    /\ orphans \subseteq JobNames
    /\ step = "found" => \A n \in orphans :
          /\ snapshot[n] # NoJob /\ snapshot[n].old
          /\ \E c \in snapshot[n].owners : c \in born /\ c \notin crons
    /\ DeletesJustified

LEMMA CleanerInitInv == CleanerInit => CleanerInv
<1> SUFFICES ASSUME CleanerInit PROVE CleanerInv
  OBVIOUS
<1>1. PICK c \in CronUids :
         /\ crons = {c} /\ born = {c}
         /\ jobs \in [JobNames -> {[uid |-> 0, owners |-> {c}, old |-> FALSE, active |-> TRUE]}]
  BY DEF CleanerInit
<1>2. \A n \in JobNames : jobs[n] = [uid |-> 0, owners |-> {c}, old |-> FALSE, active |-> TRUE]
  BY <1>1
<1>3. jobs \in [JobNames -> Jobs \cup {NoJob}]
  <2> DEFINE first == [uid |-> 0, owners |-> {c}, old |-> FALSE, active |-> TRUE]
  <2>1. 0 \in Instances
    BY CleanerConstants DEF Instances
  <2>2. first \in Jobs
    BY <2>1 DEF Jobs
  <2>3. jobs \in [JobNames -> {first}]
    BY <1>1
  <2> HIDE DEF first
  <2> QED BY <2>2, <2>3
<1> QED
  BY <1>1, <1>2, <1>3 DEF CleanerInit, CleanerInv, DeletesJustified

LEMMA CleanerNextInv == CleanerInv /\ [CleanerNext]_cleanerVars => CleanerInv'
<1> SUFFICES ASSUME CleanerInv, [CleanerNext]_cleanerVars PROVE CleanerInv'
  OBVIOUS
<1> USE DEF CleanerInv
<1>1. ASSUME NEW c \in CronUids, CronJobDeleted(c) PROVE CleanerInv'
  BY <1>1 DEF CronJobDeleted, cleaner, DeletesJustified
<1>2. ASSUME NEW c \in CronUids, CronJobCreated(c) PROVE CleanerInv'
  BY <1>2 DEF CronJobCreated, cleaner, DeletesJustified
<1>3. ASSUME NEW n \in JobNames, NEW owners \in SUBSET CronUids,
             owners \subseteq crons, JobCreated(n, owners)
      PROVE  CleanerInv'
  <2> DEFINE new == [uid |-> births + 1, owners |-> owners, old |-> FALSE, active |-> TRUE]
  <2>1. /\ births' = births + 1 /\ births + 1 \in Nat
        /\ jobs' = [jobs EXCEPT ![n] = new]
        /\ UNCHANGED <<crons, born, cleaner>>
    BY <1>3 DEF JobCreated
  <2>2. new \in Jobs /\ new.uid = births + 1 /\ new.owners \subseteq born
    BY <1>3, CleanerConstants DEF JobCreated, Jobs, Instances
  <2> HIDE DEF new
  <2>3. \A m \in JobNames : jobs'[m] = IF m = n THEN new ELSE jobs[m]
    BY <2>1
  <2>4. \A m \in JobNames : snapshot[m] # NoJob => snapshot[m].uid \in Nat
    BY CleanerConstants DEF Jobs, Instances
  <2>5. \A m \in JobNames : jobs[m] # NoJob => jobs[m].uid \in Nat
    BY CleanerConstants DEF Jobs, Instances
  <2> QED
    BY <2>1, <2>2, <2>3, <2>4, <2>5 DEF cleaner, DeletesJustified
<1>4. ASSUME NEW n \in JobNames, JobChanges(n) PROVE CleanerInv'
  <2>1. jobs[n] \in Jobs
    BY <1>4 DEF JobChanges
  <2>2. /\ jobs' \in [JobNames -> Jobs \cup {NoJob}]
        /\ \A m \in JobNames : jobs'[m] # NoJob =>
              jobs[m] # NoJob /\ jobs'[m].uid = jobs[m].uid /\ jobs'[m].owners = jobs[m].owners
    <3>1. CASE jobs' = [jobs EXCEPT ![n].active = ~@]
      BY <2>1, <3>1, <1>4 DEF Jobs, JobChanges
    <3>2. CASE jobs' = [jobs EXCEPT ![n].old = TRUE]
      BY <2>1, <3>2, <1>4 DEF Jobs, JobChanges
    <3>3. CASE jobs' = [jobs EXCEPT ![n] = NoJob]
      BY <3>3
    <3> QED BY <3>1, <3>2, <3>3, <1>4 DEF JobChanges
  <2> QED
    BY <1>4, <2>2 DEF JobChanges, cleaner, DeletesJustified
<1>5. CASE ListJobs
  BY <1>5 DEF ListJobs, cluster, DeletesJustified
<1>6. CASE ListCronJobs
  BY <1>6 DEF ListCronJobs, Orphan, cluster, DeletesJustified
<1>7. ASSUME NEW n \in JobNames, CleanUp(n) PROVE CleanerInv'
  <2>1. /\ n \in orphans /\ step = "found" /\ orphans' = orphans \ {n}
        /\ UNCHANGED <<crons, born, births, step, snapshot, dryRun, trading>>
    BY <1>7 DEF CleanUp
  <2>2. CASE UNCHANGED <<jobs, killed>>
    BY <2>1, <2>2 DEF DeletesJustified
  <2>3. CASE /\ MayDelete(n) /\ jobs[n] # NoJob
             /\ killed' = killed \cup {[listed |-> snapshot[n], name |-> n, job |-> jobs[n],
                                        gone |-> ~(jobs[n].owners \subseteq crons)]}
             /\ jobs' = [jobs EXCEPT ![n] = NoJob]
    <3> DEFINE kill == [listed |-> snapshot[n], name |-> n, job |-> jobs[n],
                        gone |-> ~(jobs[n].owners \subseteq crons)]
    <3>1. /\ ~dryRun /\ kill.name \notin trading
          /\ kill.listed.old /\ ~kill.listed.active
          /\ kill.job.uid = kill.listed.uid => kill.gone
      BY <2>1, <2>3 DEF MayDelete
    <3>2. killed' = killed \cup {kill}
      BY <2>3
    <3> HIDE DEF kill
    <3>3. DeletesJustified'
      BY <2>1, <3>1, <3>2 DEF DeletesJustified
    <3> QED
      BY <2>1, <2>3, <3>3
  <2> QED BY <1>7, <2>2, <2>3 DEF CleanUp
<1>8. CASE CleanUpEnds
  BY <1>8 DEF CleanUpEnds, cluster, DeletesJustified
<1>9. CASE UNCHANGED cleanerVars
  BY <1>9 DEF cleanerVars, DeletesJustified
<1> QED
  BY <1>1, <1>2, <1>3, <1>4, <1>5, <1>6, <1>7, <1>8, <1>9 DEF CleanerNext

\* Whatever happens to Jobs and CronJobs between the two listings and the
\* deletions, a Job is deleted only as DeletesJustified says (find_orphan_jobs
\* and cleanup of OrphanJobCleaner).
THEOREM OnlyOrphansDeleted == CleanerSpec => []DeletesJustified
<1>1. CleanerInv => DeletesJustified
  BY DEF CleanerInv
<1> QED
  BY <1>1, CleanerInitInv, CleanerNextInv, PTL DEF CleanerSpec

-----------------------------------------------------------------------------
(* Watchdog *)

\* A restart since the baseline shows in the restart count unless another pod
\* took the name, and nothing the verdict was about changes after it.
HealedInv ==
    /\ restartCount \in Nat /\ baseline \in Nat
    /\ restarted \in BOOLEAN /\ replaced \in BOOLEAN
    /\ stage = "start" => ~restarted /\ ~replaced
    /\ stage = "watching" /\ ~replaced =>
          restartCount >= baseline /\ (restarted => restartCount > baseline)
    /\ verdict = "healed" => stage = "done"
    /\ HealedJustified

LEMMA HealedInitInv == WatchdogInit => HealedInv
<1> SUFFICES ASSUME WatchdogInit PROVE HealedInv
  OBVIOUS
<1>1. /\ restartCount \in Nat /\ baseline \in Nat
      /\ stage = "start" /\ verdict = "none"
      /\ restarted = FALSE /\ replaced = FALSE
  BY DEF WatchdogInit
<1>2. HealedJustified
  BY <1>1 DEF HealedJustified
<1> QED BY <1>1, <1>2 DEF HealedInv

LEMMA HealedNextInv == HealedInv /\ [WatchdogNext]_watchdogVars => HealedInv'
<1> SUFFICES ASSUME HealedInv, [WatchdogNext]_watchdogVars PROVE HealedInv'
  OBVIOUS
<1> USE DEF HealedInv
<1>1. CASE Baseline
  BY <1>1 DEF Baseline, Finish, podVars, HealedJustified, RecentWarning
<1>2. CASE Poll
  <2> DEFINE delta == restartCount - baseline
  <2>1. /\ stage = "watching"
        /\ UNCHANGED <<now, podVars, baseline, stream, recorded, warnings>>
    BY <1>2 DEF Poll
  <2>2. RecentWarning' <=> RecentWarning
    BY <2>1 DEF RecentWarning
  <2>3. CASE verdict' = "healed"
    <3>1. podThere /\ IsHealed(delta) /\ stage' = "done"
      BY <1>2, <2>1, <2>3 DEF Poll, Verdict, Finish, GoOn
    <3>2. restarted => replaced
      BY <2>1, <3>1 DEF IsHealed
    <3> QED
      BY <2>1, <2>2, <2>3, <3>1, <3>2 DEF IsHealed, HealedJustified, podVars
  <2>4. CASE verdict' # "healed"
    <3>1. stage' \in {"watching", "done"}
      BY <1>2, <2>1 DEF Poll, Verdict, Finish, GoOn
    <3> QED
      BY <2>1, <2>4, <3>1 DEF HealedJustified, podVars
  <2> QED BY <2>3, <2>4
<1>3. CASE StreamWaits
  BY <1>3 DEF StreamWaits, podVars, HealedJustified
<1>4. CASE StreamEnds
  BY <1>4 DEF StreamEnds, podVars, HealedJustified
<1>5. CASE TimePasses
  BY <1>5 DEF TimePasses, podVars, HealedJustified
<1>6. ASSUME NEW u \in Uids, StreamDelivers(u) PROVE HealedInv'
  BY <1>6 DEF StreamDelivers, podVars, HealedJustified
<1>7. ASSUME NEW l \in Looks, PodLooks(l) PROVE HealedInv'
  BY <1>7 DEF PodLooks, HealedJustified
<1>8. ASSUME NEW e \in BOOLEAN, PodReplaced(e) PROVE HealedInv'
  BY <1>8 DEF PodReplaced, HealedJustified
<1>9. CASE PodRestarts
  BY <1>9 DEF PodRestarts, HealedJustified
<1>10. CASE UNCHANGED watchdogVars
  BY <1>10 DEF watchdogVars, HealedJustified, RecentWarning
<1> QED
  BY <1>1, <1>2, <1>3, <1>4, <1>5, <1>6, <1>7, <1>8, <1>9, <1>10 DEF WatchdogNext, LoopStep

\* A verdict of healed is about a pod that is running and ready without a recent
\* Warning event, and that did not restart while it was watched (run_watchdog).
THEOREM HealedIsHealed == WatchdogSpec => []HealedJustified
<1>1. HealedInv => HealedJustified
  BY DEF HealedInv
<1> QED
  BY <1>1, HealedInitInv, HealedNextInv, PTL DEF WatchdogSpec

-----------------------------------------------------------------------------
(* ObserverRuntime *)

Entries == [key : Keys, left : -MaxAge .. MaxAge, age : 0 .. MaxAge]

\* The window and how far the clock was set back in all.
Bound(steps) == DedupWindow + steps * ClockStep

\* Entries are no older than the time they have left allows, and the deque is
\* in the order of age.
Dated(entries, bound) ==
    \A i \in DOMAIN entries : entries[i].left + entries[i].age <= bound

OldestFirst(entries) ==
    \A i, j \in DOMAIN entries : i < j => entries[j].age <= entries[i].age

RuntimeInv ==
    /\ RuntimeTypeOK
    /\ Dated(seen, Bound(clockSteps)) /\ OldestFirst(seen)
    /\ SilenceBounded

LEMMA BoundGrows ==
    /\ Bound(0) = DedupWindow /\ MaxAge = Bound(MaxClockSteps) + 1
    /\ \A c \in 0 .. MaxClockSteps :
          /\ Bound(c) \in Nat \ {0} /\ Bound(c) < MaxAge
          /\ Bound(c + 1) = Bound(c) + ClockStep
<1> SUFFICES ASSUME NEW c \in 0 .. MaxClockSteps
             PROVE  /\ c * ClockStep \in Nat /\ (c + 1) * ClockStep = c * ClockStep + ClockStep
                    /\ MaxClockSteps * ClockStep \in Nat
                    /\ c * ClockStep <= MaxClockSteps * ClockStep
  BY RuntimeBounds DEF Bound, MaxAge
<1>1. PICK r \in Nat : MaxClockSteps = c + r
  <2> MaxClockSteps = c + (MaxClockSteps - c) /\ MaxClockSteps - c \in Nat
    BY RuntimeBounds
  <2> QED OBVIOUS
<1>2. r * ClockStep \in Nat /\ c * ClockStep \in Nat
  BY RuntimeBounds, <1>1
<1>3. (c + r) * ClockStep = c * ClockStep + r * ClockStep
  BY RuntimeBounds, <1>1
<1>4. (c + 1) * ClockStep = c * ClockStep + ClockStep
  BY RuntimeBounds
<1> QED BY <1>1, <1>2, <1>3, <1>4

LEMMA EntryTyped ==
    ASSUME NEW entries \in Seq(Entries)
    PROVE  /\ DOMAIN entries = 1 .. Len(entries) /\ Len(entries) \in Nat
           /\ MaxAge \in Nat
           /\ \A i \in DOMAIN entries :
                 /\ i \in Nat /\ entries[i] \in Entries
                 /\ entries[i].key \in Keys
                 /\ entries[i].left \in -MaxAge .. MaxAge /\ entries[i].left \in Int
                 /\ entries[i].age \in 0 .. MaxAge /\ entries[i].age \in Nat
<1>1. MaxAge \in Nat
  BY BoundGrows, RuntimeBounds
<1>2. \A i \in DOMAIN entries : i \in Nat /\ entries[i] \in Entries
  OBVIOUS
<1>3. \A e \in Entries : /\ e.key \in Keys
                         /\ e.left \in -MaxAge .. MaxAge /\ e.left \in Int
                         /\ e.age \in 0 .. MaxAge /\ e.age \in Nat
  BY <1>1 DEF Entries
<1> QED BY <1>1, <1>2, <1>3

LEMMA MaxOfTwo ==
    ASSUME NEW a \in Int, NEW b \in Int
    PROVE  Max({a, b}) = IF a >= b THEN a ELSE b
<1>1. PICK m \in {a, b} : \A y \in {a, b} : m >= y
  <2>1. CASE a >= b
    BY <2>1
  <2>2. CASE ~(a >= b)
    BY <2>2
  <2> QED BY <2>1, <2>2
<1>2. Max({a, b}) \in {a, b} /\ \A y \in {a, b} : Max({a, b}) >= y
  BY <1>1 DEF Max
<1> QED BY <1>2

LEMMA MinOfTwo ==
    ASSUME NEW a \in Int, NEW b \in Int
    PROVE  Min({a, b}) = IF a <= b THEN a ELSE b
<1>1. PICK m \in {a, b} : \A y \in {a, b} : m <= y
  <2>1. CASE a <= b
    BY <2>1
  <2>2. CASE ~(a <= b)
    BY <2>2
  <2> QED BY <2>1, <2>2
<1>2. Min({a, b}) \in {a, b} /\ \A y \in {a, b} : Min({a, b}) <= y
  BY <1>1 DEF Min
<1> QED BY <1>2

\* Time that passes, and a clock that is set back, keep the order of the deque.
LEMMA ElapseKeeps ==
    ASSUME NEW entries \in Seq(Entries), OldestFirst(entries),
           NEW d \in Int, NEW t \in 0 .. 1,
           \A i \in DOMAIN entries : entries[i].left - d <= MaxAge
    PROVE  /\ Elapse(entries, d, t) \in Seq(Entries)
           /\ OldestFirst(Elapse(entries, d, t))
           /\ \A bound, more \in Nat :
                 Dated(entries, bound) /\ bound + (t - d) <= more
                    => Dated(Elapse(entries, d, t), more)
<1> DEFINE e == Elapse(entries, d, t)
<1>1. /\ DOMAIN entries = 1 .. Len(entries) /\ Len(entries) \in Nat /\ MaxAge \in Nat
      /\ \A i \in DOMAIN entries :
            /\ entries[i] \in Entries
            /\ entries[i].left \in -MaxAge .. MaxAge /\ entries[i].left \in Int
            /\ entries[i].age \in 0 .. MaxAge /\ entries[i].age \in Nat
  BY EntryTyped
<1>2. DOMAIN e = DOMAIN entries
  BY DEF Elapse
<1>3. ASSUME NEW i \in DOMAIN entries
      PROVE  /\ e[i] \in Entries
             /\ e[i].left = IF entries[i].left - d >= -MaxAge THEN entries[i].left - d ELSE -MaxAge
             /\ e[i].age = IF entries[i].age + t <= MaxAge THEN entries[i].age + t ELSE MaxAge
  <2> DEFINE l == IF entries[i].left - d >= -MaxAge THEN entries[i].left - d ELSE -MaxAge
             a == IF entries[i].age + t <= MaxAge THEN entries[i].age + t ELSE MaxAge
  <2>1. /\ e[i] = [entries[i] EXCEPT !.left = Max({entries[i].left - d, -MaxAge}),
                                     !.age = Min({entries[i].age + t, MaxAge})]
    BY DEF Elapse
  <2>2. /\ entries[i].left - d \in Int /\ -MaxAge \in Int
        /\ entries[i].age + t \in Int /\ MaxAge \in Int
    BY <1>1
  <2>3. Max({entries[i].left - d, -MaxAge}) = l /\ Min({entries[i].age + t, MaxAge}) = a
    BY <2>2, MaxOfTwo, MinOfTwo
  <2>4. l \in -MaxAge .. MaxAge /\ a \in 0 .. MaxAge
    BY <1>1
  <2>5. e[i] = [entries[i] EXCEPT !.left = l, !.age = a]
    BY <2>1, <2>3
  <2> HIDE DEF l, a, e
  <2>6. e[i] \in Entries /\ e[i].left = l /\ e[i].age = a
    BY <1>1, <2>4, <2>5 DEF Entries
  <2> QED BY <2>6 DEF l, a
<1>4. e \in Seq(Entries)
  <2>1. e \in [1 .. Len(entries) -> Entries]
    BY <1>1, <1>3 DEF Elapse
  <2> HIDE DEF e
  <2> QED BY <1>1, <2>1
<1> HIDE DEF e
<1>5. OldestFirst(e)
  <2> SUFFICES ASSUME NEW i \in DOMAIN entries, NEW j \in DOMAIN entries, i < j
               PROVE  e[j].age <= e[i].age
    BY <1>2 DEF OldestFirst
  <2>1. entries[j].age <= entries[i].age
    BY DEF OldestFirst
  <2> QED BY <1>1, <1>3, <2>1
<1>6. ASSUME NEW bound \in Nat, NEW more \in Nat, Dated(entries, bound), bound + (t - d) <= more
      PROVE  Dated(e, more)
  <2> SUFFICES ASSUME NEW i \in DOMAIN entries PROVE e[i].left + e[i].age <= more
    BY <1>2 DEF Dated
  <2>1. entries[i].left + entries[i].age <= bound
    BY <1>6 DEF Dated
  <2> DEFINE l == entries[i].left
             a == entries[i].age
  <2>2. /\ l \in -MaxAge .. MaxAge /\ a \in 0 .. MaxAge /\ MaxAge \in Nat /\ l + a <= bound
        /\ e[i].left = IF l - d >= -MaxAge THEN l - d ELSE -MaxAge
        /\ e[i].age = IF a + t <= MaxAge THEN a + t ELSE MaxAge
    BY <1>1, <1>3, <2>1
  <2> HIDE DEF l, a
  <2>3. CASE l - d >= -MaxAge
    BY <1>6, <2>2, <2>3
  <2>4. CASE ~(l - d >= -MaxAge)
    BY <1>6, <2>2, <2>4
  <2> QED BY <2>3, <2>4
<1> QED BY <1>4, <1>5, <1>6 DEF e

\* What is left of the deque after its head was pruned is younger than the
\* bound, and is as well ordered.
LEMMA WindowKeeps ==
    ASSUME NEW entries \in Seq(Entries), OldestFirst(entries), NEW found,
           NEW bound \in Nat \ {0}, Dated(entries, bound)
    PROVE  LET old == Window(entries, found)
           IN  /\ old \in Seq(Entries) /\ OldestFirst(old) /\ Dated(old, bound)
               /\ found # {} => \A i \in DOMAIN old : old[i].age < bound
<1>1. /\ DOMAIN entries = 1 .. Len(entries) /\ Len(entries) \in Nat /\ MaxAge \in Nat
      /\ \A i \in DOMAIN entries : /\ entries[i].left \in Int /\ entries[i].age \in Nat
  BY EntryTyped
<1>2. CASE found = {}
  BY <1>2 DEF Window
<1>3. CASE found # {}
  <2> DEFINE P(n) == /\ \A i \in 1 .. n : entries[i].left <= 0
                     /\ n < Len(entries) => entries[n + 1].left > 0
             n0 == CHOOSE n \in 0 .. Len(entries) : P(n)
             old == SubSeq(entries, n0 + 1, Len(entries))
  <2>1. \E n \in 0 .. Len(entries) : P(n)
    <3> DEFINE T == {n \in 0 .. Len(entries) : n < Len(entries) => entries[n + 1].left > 0}
    <3>1. PICK n \in T : \A m \in T : n <= m
      <4> Len(entries) \in T /\ T \in SUBSET Nat
        BY <1>1
      <4> HIDE DEF T
      <4> QED BY LeastExists
    <3>2. ASSUME NEW i \in 1 .. n PROVE entries[i].left <= 0
      <4> n \in Nat
        BY <3>1
      <4>1. i - 1 \in 0 .. Len(entries) /\ i - 1 < n /\ i - 1 < Len(entries) /\ i - 1 + 1 = i
        BY <3>1, <1>1
      <4>2. i - 1 \notin T
        <5> HIDE DEF T
        <5> QED BY <3>1, <4>1, <1>1
      <4> QED BY <4>1, <4>2, <1>1
    <3> QED BY <3>1, <3>2
  <2>2. n0 \in 0 .. Len(entries) /\ (n0 < Len(entries) => entries[n0 + 1].left > 0)
    <3> HIDE DEF P
    <3>1. n0 \in 0 .. Len(entries) /\ P(n0)
      BY <2>1
    <3> HIDE DEF n0
    <3> QED BY <3>1 DEF P
  <2>3. Window(entries, found) = old
    BY <1>3 DEF Window, Pruned
  <2> HIDE DEF n0
  <2>4. /\ old \in Seq(Entries)
        /\ DOMAIN old = 1 .. Len(entries) - n0
        /\ \A i \in 1 .. Len(entries) - n0 : i + n0 \in DOMAIN entries /\ old[i] = entries[i + n0]
    <3>1. \A i \in n0 + 1 .. Len(entries) : i \in DOMAIN entries
      BY <2>2, <1>1
    <3>2. /\ old \in Seq(Entries)
          /\ Len(old) = IF n0 + 1 <= Len(entries) THEN Len(entries) - (n0 + 1) + 1 ELSE 0
          /\ \A i \in 1 .. Len(entries) - (n0 + 1) + 1 : old[i] = entries[(n0 + 1) + i - 1]
      BY <2>2, <3>1, <1>1, SubSeqProperties
    <3>3. Len(old) = Len(entries) - n0 /\ DOMAIN old = 1 .. Len(old)
      <4> HIDE DEF old
      <4>1. DOMAIN old = 1 .. Len(old)
        BY <3>2
      <4>2. Len(entries) - (n0 + 1) + 1 = Len(entries) - n0
        BY <2>2, <1>1
      <4>3. CASE n0 = Len(entries)
        BY <3>2, <4>1, <4>3, <1>1
      <4>4. CASE n0 < Len(entries)
        <5>1. n0 + 1 <= Len(entries)
          BY <4>4, <2>2, <1>1
        <5> QED BY <3>2, <4>1, <4>2, <5>1
      <4> QED BY <4>3, <4>4, <2>2, <1>1
    <3>4. ASSUME NEW i \in 1 .. Len(entries) - n0
          PROVE  i + n0 \in DOMAIN entries /\ old[i] = entries[i + n0]
      <4>1. (n0 + 1) + i - 1 = i + n0 /\ i \in 1 .. Len(entries) - (n0 + 1) + 1
        <5>1. n0 \in Int /\ Len(entries) \in Int /\ i \in Int
          BY <2>2, <1>1
        <5>2. Len(entries) - (n0 + 1) + 1 = Len(entries) - n0
          BY <5>1
        <5> QED BY <5>1, <5>2
      <4>2. i + n0 \in DOMAIN entries
        BY <2>2, <1>1
      <4> HIDE DEF old
      <4> QED BY <4>1, <4>2, <3>2
    <3> HIDE DEF old
    <3> QED BY <3>2, <3>3, <3>4
  <2> HIDE DEF old
  <2>5. OldestFirst(old)
    <3> SUFFICES ASSUME NEW i \in DOMAIN old, NEW j \in DOMAIN old, i < j
                 PROVE  old[j].age <= old[i].age
      BY DEF OldestFirst
    <3>1. i + n0 \in DOMAIN entries /\ j + n0 \in DOMAIN entries /\ i + n0 < j + n0
      BY <2>2, <2>4, <1>1
    <3> QED BY <2>4, <3>1 DEF OldestFirst
  <2>6. Dated(old, bound)
    BY <2>4 DEF Dated
  <2>7. ASSUME NEW i \in DOMAIN old PROVE old[i].age < bound
    <3>1. /\ n0 < Len(entries) /\ n0 + 1 \in DOMAIN entries /\ i + n0 \in DOMAIN entries
          /\ i + n0 = n0 + 1 \/ n0 + 1 < i + n0
          /\ old[i] = entries[i + n0]
      BY <2>2, <2>4, <1>1
    <3>2. entries[n0 + 1].left > 0 /\ entries[n0 + 1].left + entries[n0 + 1].age <= bound
      BY <2>2, <3>1 DEF Dated
    <3>3. entries[i + n0].age <= entries[n0 + 1].age
      BY <3>1, <1>1 DEF OldestFirst
    <3> QED BY <3>1, <3>2, <3>3, <1>1
  <2> QED BY <2>3, <2>4, <2>5, <2>6, <2>7
<1> QED BY <1>2, <1>3

\* New entries are the youngest.
LEMMA MarkSeenKeeps ==
    ASSUME NEW entries \in Seq(Entries), OldestFirst(entries),
           NEW found \in SUBSET Keys, NEW bound \in Nat, Dated(entries, bound),
           DedupWindow <= bound
    PROVE  LET marked == MarkSeen(entries, found)
           IN  marked \in Seq(Entries) /\ OldestFirst(marked) /\ Dated(marked, bound)
<1> DEFINE new == {Entered(k, 0) : k \in found \ KeysIn(entries)}
           s   == SetToSeq(new)
           marked == entries \o s
<1>1. \A e \in new : e \in Entries /\ e.age = 0 /\ e.left = DedupWindow
  <2>1. DedupWindow \in -MaxAge .. MaxAge /\ 0 \in 0 .. MaxAge
    BY RuntimeBounds, BoundGrows
  <2>2. ASSUME NEW k \in Keys
        PROVE  /\ Entered(k, 0) \in Entries /\ Entered(k, 0).age = 0
               /\ Entered(k, 0).left = DedupWindow
    BY <2>1 DEF Entered, Entries
  <2> QED BY <2>2
<1>2. IsFiniteSet(new)
  <2>1. IsFiniteSet(Categories)
    <3> DEFINE names == <<"image-pull", "crash-loop", "oom-killed", "pending-scheduling",
                          "probe-failure", "failed-mount">>
    <3>1. names \in Surjection(1 .. 6, Categories)
      BY DEF Surjection, Categories
    <3>2. IsFiniteSet(1 .. 6)
      <4> DEFINE n == 6
      <4>1. n \in Int
        OBVIOUS
      <4> HIDE DEF n
      <4>2. IsFiniteSet(1 .. n)
        BY <4>1, FS_Interval
      <4> QED BY <4>2 DEF n
    <3> QED BY <3>1, <3>2, FS_Surjection
  <2>2. IsFiniteSet(Keys)
    BY <2>1, RuntimeBounds, FS_Product DEF Keys
  <2>3. IsFiniteSet(found \ KeysIn(entries))
    BY <2>2, FS_Subset
  <2>4. [k \in found \ KeysIn(entries) |-> Entered(k, 0)]
           \in Surjection(found \ KeysIn(entries), new)
    BY DEF Surjection
  <2> QED BY <2>3, <2>4, FS_Surjection
<1> HIDE DEF new
<1>3. s \in Seq(new)
  BY <1>2, SetToSeqLists
<1>4. \A i \in 1 .. Len(s) : s[i] \in new
  BY <1>3
<1>5. s \in Seq(Entries) /\ Len(s) \in Nat
  BY <1>1, <1>3
<1> HIDE DEF s
<1>6. /\ marked \in Seq(Entries) /\ DOMAIN marked = 1 .. Len(entries) + Len(s)
      /\ \A i \in 1 .. Len(entries) + Len(s) :
            \/ i \in DOMAIN entries /\ marked[i] = entries[i]
            \/ i > Len(entries) /\ marked[i] \in new
  BY <1>4, <1>5, EntryTyped
<1> HIDE DEF marked
<1>7. OldestFirst(marked)
  <2> SUFFICES ASSUME NEW i \in DOMAIN marked, NEW j \in DOMAIN marked, i < j
               PROVE  marked[j].age <= marked[i].age
    BY DEF OldestFirst
  <2>1. CASE marked[j] \in new
    BY <2>1, <1>1, <1>6, EntryTyped
  <2>2. CASE j \in DOMAIN entries /\ marked[j] = entries[j]
    BY <2>2, <1>6, EntryTyped DEF OldestFirst
  <2> QED BY <2>1, <2>2, <1>6
<1>8. Dated(marked, bound)
  BY <1>1, <1>6, RuntimeBounds DEF Dated
<1> QED BY <1>6, <1>7, <1>8 DEF MarkSeen, marked, s, new

\* The largest of numbers that have a bound.
LEMMA MaxBounded ==
    ASSUME NEW T \in SUBSET Nat, NEW b \in Nat \ {0}, \A m \in T : m < b
    PROVE  Max({0} \cup T) \in Nat /\ Max({0} \cup T) < b
<1> DEFINE U == {0} \cup T
<1>1. PICK n \in U : \A m \in U : m <= n
  <2> U \in SUBSET Nat /\ U # {} /\ \A m \in U : m <= b
    OBVIOUS
  <2> HIDE DEF U
  <2> QED BY GreatestExists
<1>2. Max(U) \in U
  <2> \A m \in U : n >= m
    BY <1>1
  <2> HIDE DEF U
  <2> QED BY <1>1 DEF Max
<1>3. \A m \in U : m \in Nat /\ m < b
  OBVIOUS
<1> QED BY <1>2, <1>3, Zenon

LEMMA RunSafeTyped ==
    ASSUME NEW l, NEW e PROVE RunSafe(l, e) \in SUBSET Keys
<1>1. ASSUME NEW c PROVE CheckContainer(c) \subseteq Categories
  BY DEF CheckContainer, Categories
<1>2. ASSUME NEW pod PROVE Evaluate(pod, e) \subseteq Categories
  <2>1. UNION {CheckContainer(c) : c \in pod.containers} \subseteq Categories
    BY <1>1
  <2>2. {"pending-scheduling", "probe-failure", "failed-mount"} \subseteq Categories
    BY DEF Categories
  <2> DEFINE events == IF e THEN {} ELSE pod.events
  <2>3. /\ {x \in {"pending-scheduling"} : pod.pending /\ "FailedScheduling" \in events}
              \subseteq Categories
        /\ {x \in {"probe-failure"} : "Unhealthy" \in events} \subseteq Categories
        /\ {x \in {"failed-mount"} : "FailedMount" \in events} \subseteq Categories
    <3> HIDE DEF events
    <3> QED BY <2>2
  <2> QED BY <2>1, <2>3 DEF Evaluate
<1> QED BY <1>2 DEF RunSafe, Keys

LEMMA RuntimeInitInv == RuntimeInit => RuntimeInv
<1> SUFFICES ASSUME RuntimeInit PROVE RuntimeInv
  OBVIOUS
<1>1. SilenceBounded /\ MaxAge \in Nat
  BY RuntimeBounds, BoundGrows DEF RuntimeInit, SilenceBounded
<1>2. seen = <<>> /\ DOMAIN seen = {}
  BY DEF RuntimeInit
<1>3. Dated(seen, Bound(clockSteps)) /\ OldestFirst(seen)
  BY <1>2 DEF Dated, OldestFirst
<1>4. seen \in Seq(Entries)
  BY <1>2
<1>5. RuntimeTypeOK
  <2>1. pods \in [Pods -> Conditions] /\ alive \in BOOLEAN /\ shutdown \in BOOLEAN
    BY DEF RuntimeInit
  <2>2. /\ wrote \subseteq Keys /\ silence \in 0 .. MaxAge /\ clockSteps \in 0 .. MaxClockSteps
        /\ outages \in 0 .. MaxOutages /\ restarts \in 0 .. MaxRestarts
    BY <1>1, RuntimeBounds DEF RuntimeInit
  <2> QED BY <1>4, <2>1, <2>2 DEF RuntimeTypeOK, Entries
<1> QED
  BY <1>1, <1>3, <1>5 DEF RuntimeInv

LEMMA RuntimeNextInv == RuntimeInv /\ [RuntimeNext]_runtimeVars => RuntimeInv'
<1> SUFFICES ASSUME RuntimeInv, [RuntimeNext]_runtimeVars PROVE RuntimeInv'
  OBVIOUS
<1> DEFINE bound == Bound(clockSteps)
<1>1. /\ bound \in Nat \ {0} /\ bound < MaxAge /\ DedupWindow <= bound
      /\ clockSteps \in 0 .. MaxClockSteps /\ MaxAge \in Nat
      /\ clockSteps < MaxClockSteps => Bound(clockSteps + 1) = bound + ClockStep
  <2>1. clockSteps \in 0 .. MaxClockSteps
    BY DEF RuntimeInv, RuntimeTypeOK
  <2>2. clockSteps * ClockStep \in Nat
    BY <2>1, RuntimeBounds
  <2> QED BY <2>1, <2>2, BoundGrows, RuntimeBounds DEF Bound
<1>2. seen \in Seq(Entries) /\ OldestFirst(seen) /\ Dated(seen, bound)
  BY DEF RuntimeInv, RuntimeTypeOK, Entries
<1> HIDE DEF bound
<1>3. ASSUME NEW l \in BOOLEAN, NEW e \in BOOLEAN, NEW w \in BOOLEAN, Interval(l, e, w)
      PROVE  RuntimeInv'
  <2> DEFINE found == RunSafe(l, e)
             old   == Window(seen, found)
             marked == MarkSeen(old, found)
             ages  == {AgeOf(old, k) : k \in found}
  <2>1. found \in SUBSET Keys
    BY RunSafeTyped
  <2>2. /\ seen' = Elapse(marked, 1, 1) /\ silence' = Max({0} \cup ages)
        /\ wrote' \in SUBSET Keys
    BY <1>3, <2>1 DEF Interval
  <2>3. outages' \in 0 .. MaxOutages
    BY <1>3, RuntimeBounds DEF Interval, RuntimeInv, RuntimeTypeOK
  <2> HIDE DEF found
  <2>4. /\ old \in Seq(Entries) /\ OldestFirst(old) /\ Dated(old, bound)
        /\ found # {} => \A i \in DOMAIN old : old[i].age < bound
    BY <1>1, <1>2, WindowKeeps
  <2> HIDE DEF old
  <2>5. marked \in Seq(Entries) /\ OldestFirst(marked) /\ Dated(marked, bound)
    BY <1>1, <2>1, <2>4, MarkSeenKeeps
  <2> HIDE DEF marked
  <2>6. seen' \in Seq(Entries) /\ OldestFirst(seen') /\ Dated(seen', bound)
    <3>1. \A i \in DOMAIN marked : marked[i].left - 1 <= MaxAge
      BY <2>5, EntryTyped
    <3> QED BY <3>1, <1>1, <2>2, <2>5, ElapseKeeps
  <2>7. silence' \in Nat /\ silence' < bound
    <3>1. ASSUME NEW k \in found PROVE AgeOf(old, k) \in Nat /\ AgeOf(old, k) < bound
      <4> DEFINE T == {old[i].age : i \in {j \in DOMAIN old : old[j].key = k}}
      <4>1. T \in SUBSET Nat /\ \A m \in T : m < bound
        BY <2>4, <3>1, EntryTyped
      <4> HIDE DEF T
      <4>2. Max({0} \cup T) \in Nat /\ Max({0} \cup T) < bound
        BY <4>1, <1>1, MaxBounded
      <4> QED BY <4>2 DEF AgeOf, T
    <3>2. ages \in SUBSET Nat /\ \A m \in ages : m < bound
      BY <3>1
    <3> HIDE DEF ages
    <3> QED BY <3>2, <2>2, <1>1, MaxBounded
  <2>8. /\ clockSteps' = clockSteps
        /\ UNCHANGED <<pods, alive, shutdown, clockSteps, restarts>>
    BY <1>3 DEF Interval
  <2>9. RuntimeTypeOK'
    BY <2>2, <2>3, <2>6, <2>7, <2>8, <1>1 DEF RuntimeInv, RuntimeTypeOK, Entries
  <2> QED BY <2>6, <2>7, <2>8, <2>9 DEF RuntimeInv, SilenceBounded, bound, Bound
<1>4. CASE HealthFails
  <2>1. outages' \in 0 .. MaxOutages
    BY <1>4, RuntimeBounds DEF HealthFails, RuntimeInv, RuntimeTypeOK
  <2>2. RuntimeTypeOK'
    <3>1. UNCHANGED <<pods, shutdown, seen, clockSteps, restarts>> /\ alive' \in BOOLEAN
      BY <1>4 DEF HealthFails
    <3>2. wrote' \subseteq Keys /\ silence' \in 0 .. MaxAge
      BY <1>1, <1>4 DEF HealthFails
    <3> QED BY <2>1, <3>1, <3>2 DEF RuntimeInv, RuntimeTypeOK
  <2>3. clockSteps' = clockSteps /\ seen' = seen /\ silence' = 0
    BY <1>4 DEF HealthFails
  <2>4. Dated(seen', Bound(clockSteps')) /\ OldestFirst(seen')
    BY <2>3 DEF RuntimeInv
  <2>5. SilenceBounded'
    BY <1>1, <2>3 DEF SilenceBounded, bound, Bound
  <2> QED BY <2>2, <2>4, <2>5 DEF RuntimeInv
<1>5. CASE Restart
  <2>1. restarts' \in 0 .. MaxRestarts
    BY <1>5, RuntimeBounds DEF Restart, RuntimeInv, RuntimeTypeOK
  <2> QED
    BY <1>1, <1>5, <2>1
    DEF Restart, RuntimeInv, RuntimeTypeOK, SilenceBounded, bound, Bound, Dated, OldestFirst
<1>6. CASE Signal
  BY <1>6 DEF Signal, RuntimeInv, RuntimeTypeOK, SilenceBounded
<1>7. ASSUME NEW p \in Pods, NEW c \in Conditions, PodChanges(p, c) PROVE RuntimeInv'
  BY <1>7 DEF PodChanges, RuntimeInv, RuntimeTypeOK, SilenceBounded
<1>8. CASE ClockBack
  <2> DEFINE more == Bound(clockSteps + 1)
  <2>1. /\ clockSteps' = clockSteps + 1 /\ clockSteps' \in 0 .. MaxClockSteps
        /\ more = bound + ClockStep
    BY <1>1, <1>8, RuntimeBounds DEF ClockBack
  <2>2. more \in Nat /\ more < MaxAge
    BY <2>1, BoundGrows
  <2>3. seen' = Elapse(seen, -ClockStep, 0) /\ -ClockStep \in Int
    BY <1>8, RuntimeBounds DEF ClockBack
  <2> HIDE DEF more
  <2>4. \A i \in DOMAIN seen : seen[i].left - (-ClockStep) <= MaxAge
    BY <1>1, <1>2, <2>1, <2>2, EntryTyped, RuntimeBounds DEF Dated
  <2>5. bound + (0 - (-ClockStep)) <= more
    BY <2>1, <1>1, RuntimeBounds
  <2>6. seen' \in Seq(Entries) /\ OldestFirst(seen') /\ Dated(seen', more)
    BY <1>1, <1>2, <2>2, <2>3, <2>4, <2>5, RuntimeBounds, ElapseKeeps
  <2>7. RuntimeTypeOK'
    BY <1>8, <2>1, <2>6 DEF ClockBack, RuntimeInv, RuntimeTypeOK, Entries
  <2>8. silence' < more
    BY <1>1, <1>8, <2>1, RuntimeBounds
    DEF ClockBack, RuntimeInv, RuntimeTypeOK, SilenceBounded, bound, Bound
  <2> QED BY <2>1, <2>6, <2>7, <2>8 DEF RuntimeInv, SilenceBounded, more, Bound
<1>9. CASE UNCHANGED runtimeVars
  <2>1. RuntimeTypeOK' /\ SilenceBounded'
    BY <1>9 DEF runtimeVars, RuntimeInv, RuntimeTypeOK, SilenceBounded
  <2>2. clockSteps' = clockSteps /\ seen' = seen
    BY <1>9 DEF runtimeVars
  <2>3. Dated(seen', Bound(clockSteps')) /\ OldestFirst(seen')
    BY <2>2 DEF RuntimeInv
  <2> QED BY <2>1, <2>3 DEF RuntimeInv
<1> QED
  BY <1>3, <1>4, <1>5, <1>6, <1>7, <1>8, <1>9 DEF RuntimeNext, RuntimeStep

\* However the pods change, whatever fails, and whenever the clock is set back
\* or the container restarts, no finding is silent for the window and the steps
\* of the clock.
THEOREM SilenceIsBounded == RuntimeSpec => []SilenceBounded
<1>1. RuntimeInv => SilenceBounded
  BY DEF RuntimeInv
<1> QED BY <1>1, RuntimeInitInv, RuntimeNextInv, PTL DEF RuntimeSpec

-----------------------------------------------------------------------------
(* AuditFile *)

Lines == {l \in Files \X Nat : l[2] \in DOMAIN content[l[1]]}

RecOf(l) == content[l[1]][l[2]].rec

TornLines == {l \in Lines : ~content[l[1]][l[2]].whole}

\* What the files hold: records that were sent, in order, each in one file, and
\* no more torn lines than torn writes.
Ordered ==
    \A f \in Files : \A i \in DOMAIN content[f] :
        /\ content[f][i].rec <= sent
        /\ \A j \in DOMAIN content[f] : i < j => content[f][i].rec < content[f][j].rec

OneFile ==
    \A f, g \in Files : \A i \in DOMAIN content[f], j \in DOMAIN content[g] :
        content[f][i].rec = content[g][j].rec => f = g

TornCounted == IsFiniteSet(TornLines) /\ Cardinality(TornLines) <= torn

IsStored(r) == \E f \in Files : \E i \in DOMAIN content[f] : content[f][i].rec = r

\* Every record that was sent is stored, or was reported, or strayed.
FileInv ==
    /\ FileTypeOK
    /\ path = Closed => created <= MaxRotations
    /\ Ordered /\ OneFile /\ TornCounted
    /\ \A r \in 1 .. sent : r \in reported \cup stray \/ IsStored(r)
    /\ openFails = 0 => stray = {} /\ \A w \in Writers : fd[w] \in Files

LEMMA FileInitInv == AuditFileInit => FileInv
<1> SUFFICES ASSUME AuditFileInit PROVE FileInv
  OBVIOUS
<1>1. TornLines = {}
  BY DEF AuditFileInit, TornLines, Lines, Files
<1>2. Ordered /\ OneFile /\ TornCounted
  BY <1>1, FS_EmptySet DEF AuditFileInit, Ordered, OneFile, TornCounted
<1> QED
  BY <1>2, FileBounds DEF AuditFileInit, FileInv, FileTypeOK, Files, Closed

\* The line that is at place i of a file.
LEMMA LineTyped ==
    ASSUME FileTypeOK, NEW f \in Files
    PROVE  /\ content[f] \in Seq([rec : 1 .. MaxRecords, whole : BOOLEAN])
           /\ DOMAIN content[f] = 1 .. Len(content[f]) /\ Len(content[f]) \in Nat
           /\ \A i \in DOMAIN content[f] : i \in Nat /\ content[f][i].rec \in Nat
           /\ sent \in Nat /\ torn \in Nat
<1> DEFINE Line == [rec : 1 .. MaxRecords, whole : BOOLEAN]
<1>1. content[f] \in Seq(Line)
  BY DEF FileTypeOK
<1>2. \A i \in DOMAIN content[f] : i \in Nat /\ content[f][i] \in Line
  <2> HIDE DEF Line
  <2> QED BY <1>1
<1>3. \A l \in Line : l.rec \in Nat
  BY FileBounds
<1>4. sent \in Nat /\ torn \in Nat
  BY FileBounds DEF FileTypeOK
<1>5. DOMAIN content[f] = 1 .. Len(content[f]) /\ Len(content[f]) \in Nat
  <2> HIDE DEF Line
  <2> QED BY <1>1
<1> HIDE DEF Line
<1> QED BY <1>1, <1>2, <1>3, <1>4, <1>5 DEF Line

LEMMA SameContent ==
    ASSUME FileInv, content' = content, torn' = torn, sent' \in {sent, sent + 1}
    PROVE  Ordered' /\ OneFile' /\ TornCounted' /\ \A r : IsStored(r) => IsStored(r)'
<1>1. TornLines' = TornLines
  BY DEF TornLines, Lines
<1>2. TornCounted'
  BY <1>1 DEF FileInv, TornCounted
<1>3. OneFile' /\ \A r : IsStored(r) => IsStored(r)'
  BY DEF FileInv, OneFile, IsStored
<1>4. ASSUME NEW f \in Files, NEW i \in DOMAIN content[f]
      PROVE  content[f][i].rec \in Nat /\ content[f][i].rec <= sent /\ sent \in Nat
  BY LineTyped DEF FileInv, Ordered
<1>5. Ordered'
  BY <1>4 DEF FileInv, Ordered
<1> QED BY <1>2, <1>3, <1>5

\* What an append of one line changes.
LEMMA AppendLineInv ==
    ASSUME FileInv, NEW w \in Writers, NEW whole \in BOOLEAN, AppendLine(w, whole),
           sent < MaxRecords, sent' = sent + 1,
           IF whole THEN torn' = torn ELSE torn < MaxTorn /\ torn' = torn + 1,
           UNCHANGED <<path, created, fd, openFails>>
    PROVE  FileInv'
<1> DEFINE f0 == fd[w]
           n  == Len(content[f0]) + 1
           line == [rec |-> sent + 1, whole |-> whole]
           Line == [rec : 1 .. MaxRecords, whole : BOOLEAN]
<1>1. /\ f0 \in Files /\ content[f0] \in Seq(Line) /\ line \in Line
      /\ sent \in Nat /\ n \in Nat \ {0}
  <2>1. f0 \in Files /\ content[f0] \in Seq(Line) /\ sent \in Nat
    BY LineTyped DEF FileInv, AppendLine
  <2>2. line \in Line
    BY <2>1, FileBounds
  <2>3. n \in Nat \ {0}
    BY <2>1, LineTyped DEF FileInv
  <2> QED BY <2>1, <2>2, <2>3
<1>2. /\ content' = [content EXCEPT ![f0] = Append(content[f0], line)]
      /\ reported' = reported /\ stray' = stray
  BY DEF AppendLine
<1>3. Append(content[f0], line) \in Seq(Line)
  BY <1>1
<1>4. content' \in [Files -> Seq(Line)]
  <2>1. content \in [Files -> Seq(Line)]
    BY DEF FileInv, FileTypeOK
  <2> HIDE DEF line, Line, f0
  <2> QED BY <1>2, <1>3, <2>1
<1>5. FileTypeOK'
  <2> path \in Files \cup {Closed} /\ created \in 1 .. MaxRotations + 1
    BY DEF FileInv, FileTypeOK
  <2>1. sent' \in 0 .. MaxRecords /\ reported' \subseteq 1 .. sent' /\ stray' \subseteq 1 .. sent'
    BY <1>1, <1>2, FileBounds DEF FileInv, FileTypeOK
  <2>2. torn' \in 0 .. MaxTorn
    BY FileBounds DEF FileInv, FileTypeOK
  <2> HIDE DEF f0, line
  <2> QED BY <1>4, <2>1, <2>2 DEF FileInv, FileTypeOK
<1>6. /\ \A f \in Files \ {f0} : content'[f] = content[f]
      /\ content'[f0] = Append(content[f0], line)
  BY <1>1, <1>2 DEF FileInv, FileTypeOK
<1>7. /\ DOMAIN content[f0] = 1 .. n - 1 /\ DOMAIN content'[f0] = 1 .. n
      /\ \A i \in 1 .. n - 1 : content'[f0][i] = content[f0][i]
      /\ content'[f0][n] = line
  <2> HIDE DEF line, Line
  <2> QED BY <1>1, <1>6
<1>8. ASSUME NEW f \in Files, NEW i \in DOMAIN content[f]
      PROVE  /\ i \in Nat /\ i \in DOMAIN content'[f] /\ content'[f][i] = content[f][i]
             /\ content[f][i].rec <= sent /\ content[f][i].rec \in Nat
             /\ f = f0 => i < n
  <2>1. i \in Nat /\ content[f][i].rec <= sent /\ content[f][i].rec \in Nat
    BY LineTyped DEF FileInv, Ordered
  <2> HIDE DEF line, Line, f0, n
  <2> QED BY <1>1, <1>6, <1>7, <2>1
<1>9. ASSUME NEW f \in Files, NEW i \in DOMAIN content'[f]
      PROVE  \/ i \in DOMAIN content[f] /\ content'[f][i] = content[f][i]
             \/ f = f0 /\ i = n /\ content'[f][i] = line
  <2> HIDE DEF line, Line, f0, n
  <2> QED BY <1>1, <1>6, <1>7
<1>10. line.rec = sent + 1 /\ line.whole = whole
  OBVIOUS
<1> HIDE DEF line, Line, f0, n
<1>11. Ordered'
  <2>1. ASSUME NEW f \in Files, NEW i \in DOMAIN content'[f] PROVE content'[f][i].rec <= sent'
    BY <1>1, <1>8, <1>9, <1>10
  <2>2. ASSUME NEW f \in Files, NEW i \in DOMAIN content'[f], NEW j \in DOMAIN content'[f], i < j
        PROVE  content'[f][i].rec < content'[f][j].rec
    <3>1. CASE i \in DOMAIN content[f] /\ j \in DOMAIN content[f]
      BY <2>2, <3>1, <1>8 DEF FileInv, Ordered
    <3>2. CASE i \in DOMAIN content[f] /\ j = n /\ content'[f][j] = line
      BY <3>2, <1>1, <1>8, <1>10
    <3>3. CASE i = n /\ f = f0
      BY <2>2, <3>3, <1>1, <1>8, <1>9
    <3> QED BY <3>1, <3>2, <3>3, <1>9
  <2> QED BY <2>1, <2>2 DEF Ordered
<1>12. OneFile'
  <2> SUFFICES ASSUME NEW f \in Files, NEW g \in Files,
                      NEW i \in DOMAIN content'[f], NEW j \in DOMAIN content'[g],
                      content'[f][i].rec = content'[g][j].rec
               PROVE  f = g
    BY DEF OneFile
  <2>1. CASE i \in DOMAIN content[f] /\ j \in DOMAIN content[g]
    BY <2>1, <1>8 DEF FileInv, OneFile
  <2>2. CASE i \in DOMAIN content[f] /\ content'[g][j] = line
    BY <2>2, <1>1, <1>8, <1>10
  <2>3. CASE j \in DOMAIN content[g] /\ content'[f][i] = line
    BY <2>3, <1>1, <1>8, <1>10
  <2> QED BY <2>1, <2>2, <2>3, <1>9
<1>13. ASSUME NEW r \in 1 .. sent' PROVE r \in reported \cup stray \/ IsStored(r)'
  <2>1. CASE r = sent + 1
    BY <2>1, <1>1, <1>7, <1>10 DEF IsStored
  <2>2. CASE r # sent + 1
    <3>1. r \in reported \cup stray \/ IsStored(r)
      BY <2>2, <1>1 DEF FileInv
    <3> QED BY <3>1, <1>8 DEF IsStored
  <2> QED BY <2>1, <2>2
<1>14. TornCounted'
  <2> DEFINE more == TornLines \cup {<<f0, n>>}
  <2>1. ASSUME NEW l \in TornLines'
        PROVE  l \in TornLines \/ (~whole /\ l = <<f0, n>>)
    <3>1. /\ l \in Files \X Nat /\ l = <<l[1], l[2]>>
          /\ l[2] \in DOMAIN content'[l[1]] /\ ~content'[l[1]][l[2]].whole
      BY <2>1 DEF TornLines, Lines
    <3> QED BY <3>1, <1>9, <1>10 DEF TornLines, Lines
  <2>2. ASSUME NEW l \in TornLines PROVE l \in TornLines'
    BY <2>2, <1>8 DEF TornLines, Lines
  <2>3. ~whole => <<f0, n>> \in TornLines'
    BY <1>1, <1>7, <1>10 DEF TornLines, Lines
  <2>4. TornLines' = IF whole THEN TornLines ELSE more
    BY <2>1, <2>2, <2>3
  <2>5. IsFiniteSet(TornLines) /\ Cardinality(TornLines) \in Nat /\ Cardinality(TornLines) <= torn
    BY FS_CardinalityType DEF FileInv, TornCounted
  <2>6. /\ IsFiniteSet(more) /\ Cardinality(more) \in Nat
        /\ Cardinality(more) <= Cardinality(TornLines) + 1
    <3>1. Cardinality(more) \in {Cardinality(TornLines), Cardinality(TornLines) + 1}
      BY <2>5, FS_AddElement
    <3>2. IsFiniteSet(more)
      BY <2>5, FS_AddElement
    <3> HIDE DEF more
    <3> QED BY <2>5, <3>1, <3>2
  <2>7. torn \in Nat
    BY FileBounds DEF FileInv, FileTypeOK
  <2> HIDE DEF more
  <2> QED BY <2>4, <2>5, <2>6, <2>7 DEF TornCounted
<1> QED
  BY <1>2, <1>5, <1>11, <1>12, <1>13, <1>14, <1>1, FileBounds DEF FileInv, FileTypeOK

LEMMA FileNextInv == FileInv /\ [FileNext]_fileVars => FileInv'
<1> SUFFICES ASSUME FileInv, [FileNext]_fileVars PROVE FileInv'
  OBVIOUS
<1>1. ASSUME NEW w \in Writers, AppendRecord(w) PROVE FileInv'
  <2>1. CASE \E whole \in BOOLEAN :
               /\ AppendLine(w, whole)
               /\ IF whole THEN torn' = torn ELSE torn < MaxTorn /\ torn' = torn + 1
    BY <1>1, <2>1, AppendLineInv DEF AppendRecord
  <2>2. CASE /\ UNCHANGED torn /\ content' = content /\ fd' = fd
             /\ \/ reported' = reported \cup {sent + 1} /\ stray' = stray
                \/ fd[w] \notin Files /\ stray' = stray \cup {sent + 1} /\ reported' = reported
    <3>1. Ordered' /\ OneFile' /\ TornCounted' /\ \A r : IsStored(r) => IsStored(r)'
      BY <1>1, <2>2, SameContent DEF AppendRecord
    <3>2. FileTypeOK'
      <4>1. /\ sent' \in 0 .. MaxRecords
            /\ reported' \subseteq 1 .. sent' /\ stray' \subseteq 1 .. sent'
        <5>1. sent \in 0 .. MaxRecords /\ reported \subseteq 1 .. sent /\ stray \subseteq 1 .. sent
          BY DEF FileInv, FileTypeOK
        <5>2. sent' = sent + 1 /\ sent' \in 0 .. MaxRecords
          BY <1>1, <5>1, FileBounds DEF AppendRecord
        <5>3. 1 .. sent \subseteq 1 .. sent + 1 /\ sent + 1 \in 1 .. sent + 1
          BY <5>1, FileBounds
        <5> QED BY <2>2, <5>1, <5>2, <5>3
      <4> QED BY <1>1, <2>2, <4>1 DEF AppendRecord, FileInv, FileTypeOK
    <3>3. \A r \in 1 .. sent' : r = sent + 1 \/ r \in 1 .. sent
      BY <1>1, FileBounds DEF AppendRecord, FileInv, FileTypeOK
    <3>4. \A r \in 1 .. sent' : r \in reported' \cup stray' \/ IsStored(r)'
      BY <2>2, <3>1, <3>3 DEF FileInv
    <3> QED BY <1>1, <2>2, <3>1, <3>2, <3>4 DEF AppendRecord, FileInv
  <2>3. Foreign \notin Files
    BY DEF Foreign, Files
  <2> QED BY <1>1, <2>1, <2>2, <2>3 DEF AppendRecord, Refused, WriteStray
<1>2. ASSUME UNCHANGED <<content, sent, reported, stray, torn>>,
             FileTypeOK', path' = Closed => created' <= MaxRotations,
             openFails' = 0 => openFails = 0 /\ \A w \in Writers : fd'[w] \in Files
      PROVE  FileInv'
  BY <1>2, SameContent DEF FileInv
<1>3. CASE Rotate
  <2> FileTypeOK'
    BY <1>3 DEF Rotate, FileInv, FileTypeOK
  <2> QED BY <1>2, <1>3 DEF Rotate, FileInv
<1>4. ASSUME NEW w \in Writers, Reopen(w) PROVE FileInv'
  <2> DEFINE f == IF path = Closed THEN created ELSE path
  <2>1. f \in Files /\ f # Closed
    BY FileBounds DEF FileInv, FileTypeOK, Files, Closed
  <2>2. FileTypeOK'
    <3>1. created' \in 1 .. MaxRotations + 1
      BY <1>4, FileBounds DEF Reopen, FileInv, FileTypeOK
    <3>2. path' = f /\ fd' = [fd EXCEPT ![w] = f]
      BY <1>4 DEF Reopen
    <3>3. path' \in Files \cup {Closed} /\ fd' \in [Writers -> Files \cup {Closed, Foreign}]
      <4> HIDE DEF f
      <4> QED BY <2>1, <3>2 DEF FileInv, FileTypeOK
    <3> QED BY <1>4, <3>1, <3>3 DEF Reopen, FileInv, FileTypeOK
  <2>3. \A v \in Writers : fd'[v] = IF v = w THEN f ELSE fd[v]
    BY <1>4 DEF Reopen, FileInv, FileTypeOK
  <2> QED BY <1>2, <1>4, <2>1, <2>2, <2>3 DEF Reopen, FileInv
<1>5. ASSUME NEW w \in Writers, ReopenRaises(w) PROVE FileInv'
  <2>1. openFails' \in 0 .. MaxOpenFails /\ openFails' # 0
    BY <1>5, FileBounds DEF ReopenRaises, FileInv, FileTypeOK
  <2>2. FileTypeOK'
    BY <1>5, <2>1 DEF ReopenRaises, FileInv, FileTypeOK
  <2> QED BY <1>2, <1>5, <2>1, <2>2 DEF ReopenRaises, FileInv
<1>6. ASSUME NEW w \in Writers, NumberReused(w) PROVE FileInv'
  <2>1. openFails # 0
    BY <1>6 DEF NumberReused, FileInv, Closed, Files
  <2>2. FileTypeOK'
    BY <1>6 DEF NumberReused, FileInv, FileTypeOK
  <2> QED BY <1>2, <1>6, <2>1, <2>2 DEF NumberReused, FileInv
<1>7. CASE UNCHANGED fileVars
  <2> FileTypeOK'
    BY <1>7 DEF fileVars, FileInv, FileTypeOK
  <2> QED BY <1>2, <1>7 DEF fileVars, FileInv
<1> QED BY <1>1, <1>3, <1>4, <1>5, <1>6, <1>7 DEF FileNext

\* The records that are missed without having strayed are those of torn lines
\* and of lines after them, of each no more than there are torn lines.
LEMMA FileInvKept == FileInv => RecordsKept
<1> SUFFICES ASSUME FileInv PROVE RecordsKept
  OBVIOUS
<1> DEFINE Next1(l) == <<l[1], l[2] + 1>>
           after  == {Next1(l) : l \in TornLines}
           spoilt == TornLines \cup after
           recs   == {RecOf(l) : l \in spoilt}
<1>1. IsFiniteSet(TornLines) /\ Cardinality(TornLines) \in Nat /\ Cardinality(TornLines) <= torn
  BY FS_CardinalityType DEF FileInv, TornCounted
<1>2. IsFiniteSet(after) /\ Cardinality(after) <= Cardinality(TornLines) /\ Cardinality(after) \in Nat
  <2>1. [l \in TornLines |-> Next1(l)] \in Surjection(TornLines, after)
    BY DEF Surjection
  <2> QED BY <1>1, <2>1, FS_Surjection, FS_CardinalityType
<1>3. /\ IsFiniteSet(spoilt) /\ Cardinality(spoilt) \in Nat
      /\ Cardinality(spoilt) <= 2 * torn
  <2>1. IsFiniteSet(TornLines \cap after) /\ Cardinality(TornLines \cap after) \in Nat
    BY <1>1, FS_Intersection, FS_CardinalityType
  <2>2. Cardinality(spoilt)
          = Cardinality(TornLines) + Cardinality(after) - Cardinality(TornLines \cap after)
    <3> HIDE DEF after
    <3> QED BY <1>1, <1>2, FS_Union
  <2>3. IsFiniteSet(spoilt)
    <3> HIDE DEF after
    <3> QED BY <1>1, <1>2, FS_Union
  <2>4. torn \in Nat
    BY FileBounds DEF FileInv, FileTypeOK
  <2> HIDE DEF after, spoilt
  <2> QED BY <1>1, <1>2, <2>1, <2>2, <2>3, <2>4, FS_CardinalityType
<1>4. IsFiniteSet(recs) /\ Cardinality(recs) <= 2 * torn /\ Cardinality(recs) \in Nat
  <2>1. [l \in spoilt |-> RecOf(l)] \in Surjection(spoilt, recs)
    BY DEF Surjection
  <2>2. torn \in Nat
    BY FileBounds DEF FileInv, FileTypeOK
  <2> HIDE DEF spoilt, recs
  <2>3. IsFiniteSet(recs) /\ Cardinality(recs) <= Cardinality(spoilt)
    BY <1>3, <2>1, FS_Surjection
  <2> QED BY <1>3, <2>2, <2>3, FS_CardinalityType
<1>5. Missing \ stray \subseteq recs
  <2> SUFFICES ASSUME NEW r \in Missing \ stray PROVE r \in recs
    OBVIOUS
  <2>1. PICK f \in Files : \E i \in DOMAIN content[f] : content[f][i].rec = r
    BY DEF FileInv, Missing, IsStored
  <2>2. PICK i \in DOMAIN content[f] : content[f][i].rec = r
    BY <2>1
  <2>3. ~Parses(f, i)
    <3> r \notin Readable(f)
      BY DEF Missing
    <3> QED BY <2>2 DEF Readable
  <2>4. i \in Nat /\ <<f, i>> \in Lines /\ RecOf(<<f, i>>) = r
    BY <2>2 DEF Lines, RecOf, FileInv, FileTypeOK
  <2>5. <<f, i>> \in spoilt
    <3>1. CASE ~content[f][i].whole
      BY <3>1, <2>4 DEF TornLines
    <3>2. CASE content[f][i].whole
      <4>1. i > 1 /\ ~content[f][i - 1].whole /\ i - 1 \in DOMAIN content[f]
        BY <3>2, <2>3, <2>4 DEF Parses, FileInv, FileTypeOK
      <4>2. <<f, i - 1>> \in TornLines
        BY <4>1, <2>4 DEF TornLines, Lines
      <4>3. <<f, i>> = Next1(<<f, i - 1>>)
        BY <2>4
      <4> QED BY <4>2, <4>3
    <3> QED BY <3>1, <3>2
  <2> QED BY <2>4, <2>5
<1>6. Cardinality(Missing \ stray) <= 2 * torn
  <2>1. torn \in Nat
    BY FileBounds DEF FileInv, FileTypeOK
  <2>2. /\ IsFiniteSet(Missing \ stray) /\ Cardinality(Missing \ stray) \in Nat
        /\ Cardinality(Missing \ stray) <= Cardinality(recs)
    <3> HIDE DEF recs
    <3> QED BY <1>4, <1>5, FS_Subset, FS_CardinalityType
  <2> HIDE DEF recs
  <2> QED BY <1>4, <2>1, <2>2
<1>7. \A f, g \in Files : f # g => Readable(f) \cap Readable(g) = {}
  BY DEF FileInv, OneFile, Readable
<1> QED BY <1>6, <1>7 DEF RecordsKept, FileInv, Ordered

\* Every state of the log of AuditFile has its type.
THEOREM FileTyped == FileSpec => []FileTypeOK
<1>1. FileInv => FileTypeOK
  BY DEF FileInv
<1> QED BY <1>1, FileInitInv, FileNextInv, PTL DEF FileSpec

\* However many processes append, rotate and reopen, and whichever writes and
\* opens fail, a record is lost only to a torn line (two at most), is in one file
\* only, and strays only after an open that failed.
THEOREM RecordsAreKept == FileSpec => []RecordsKept
BY FileInitInv, FileNextInv, FileInvKept, PTL DEF FileSpec
=============================================================================
