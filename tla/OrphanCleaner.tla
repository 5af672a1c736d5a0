----------------------------- MODULE OrphanCleaner -----------------------------
(***************************************************************************)
(* OrphanJobCleaner (src/analyzers/orphan_job_cleaner.py): it lists the    *)
(* Jobs, then the CronJobs, and later deletes by name the Jobs whose       *)
(* CronJob is gone.  Controllers, the garbage collector and people change  *)
(* the cluster between any two of these calls.                             *)
(***************************************************************************)
EXTENDS Integers, FiniteSets

CONSTANTS
    JobNames,
    CronUids,     \* CronJobs by uid: one that is deleted does not come back
    MaxJobs,      \* bound: Jobs created after the start
    MaxRounds,    \* bound: find_orphan_jobs calls
    NoJob

ASSUME CleanerConstants == MaxJobs \in Nat /\ MaxRounds \in Nat

Instances == 0 .. MaxJobs

\* A Job: its uid, its CronJob owners, whether it is past the grace period and
\* whether it has active pods.
Jobs == [uid : Instances, owners : SUBSET CronUids, old : BOOLEAN, active : BOOLEAN]

VARIABLES
    jobs,     \* the Job of each name, or NoJob
    crons,    \* the CronJobs there are
    born,     \* CronJobs that were ever created
    births,   \* Jobs created so far
    step,     \* "idle", "listed" (the Jobs), "found" (the orphans)
    snapshot, \* what list_job returned
    orphans,  \* the names cleanup() still has to look at
    dryRun,
    trading,  \* the names in one of the cleaner's TRADING_NAMESPACES
    killed,   \* deletions: the Job that was listed, the one that was deleted and
              \* whether a CronJob that owned it was gone
    rounds

cleanerVars == <<jobs, crons, born, births, step, snapshot, orphans, dryRun, trading, killed, rounds>>

CleanerInit ==
    /\ \E c \in CronUids :
          /\ crons = {c} /\ born = {c}
          /\ jobs \in [JobNames -> {[uid |-> 0, owners |-> {c}, old |-> FALSE, active |-> TRUE]}]
    /\ births = 0
    /\ step = "idle"
    /\ snapshot = [n \in JobNames |-> NoJob]
    /\ orphans = {}
    /\ dryRun \in BOOLEAN /\ trading \in SUBSET JobNames
    /\ killed = {}
    /\ rounds = 0

cluster == <<jobs, crons, born, births>>
cleaner == <<step, snapshot, orphans, dryRun, trading, killed, rounds>>

-----------------------------------------------------------------------------
(* The cluster *)

CronJobDeleted(c) ==
    /\ c \in crons
    /\ crons' = crons \ {c}
    /\ UNCHANGED <<jobs, born, births, cleaner>>

CronJobCreated(c) ==
    /\ c \notin born
    /\ born' = born \cup {c}
    /\ crons' = crons \cup {c}
    /\ UNCHANGED <<jobs, births, cleaner>>

\* By its CronJob, or by a person without an owner.
JobCreated(n, owners) ==
    /\ jobs[n] = NoJob /\ births < MaxJobs
    /\ births' = births + 1
    /\ jobs' = [jobs EXCEPT ![n] = [uid |-> births + 1, owners |-> owners,
                                    old |-> FALSE, active |-> TRUE]]
    /\ UNCHANGED <<crons, born, cleaner>>

\* Its pods end or are started again after a back-off, it gets past the grace
\* period, or it is deleted.
JobChanges(n) ==
    /\ jobs[n] # NoJob
    /\ \/ jobs' = [jobs EXCEPT ![n].active = ~@]
       \/ jobs' = [jobs EXCEPT ![n].old = TRUE]
       \/ jobs' = [jobs EXCEPT ![n] = NoJob]
    /\ UNCHANGED <<crons, born, births, cleaner>>

-----------------------------------------------------------------------------
ListJobs ==
    /\ step = "idle" /\ rounds < MaxRounds
    /\ rounds' = rounds + 1
    /\ step' = "listed"
    /\ snapshot' = jobs
    /\ UNCHANGED <<cluster, orphans, dryRun, trading, killed>>

\* One of the owners is missing from the listing of the CronJobs, and the Job
\* is past the grace period.
Orphan(job, uids) == job # NoJob /\ job.old /\ \E c \in job.owners : c \notin uids

\* Mutant: a listing that fails counts as an empty one.
ListCronJobsOrNone ==
    /\ step = "listed"
    /\ step' = "found"
    /\ \E uids \in {crons, {}} : orphans' = {n \in JobNames : Orphan(snapshot[n], uids)}
    /\ UNCHANGED <<cluster, snapshot, dryRun, trading, killed, rounds>>

\* The rest of find_orphan_jobs; a call that raises ends the round.
ListCronJobs ==
    /\ step = "listed"
    /\ \/ step' = "found" /\ orphans' = {n \in JobNames : Orphan(snapshot[n], crons)}
       \/ step' = "idle" /\ UNCHANGED orphans
    /\ UNCHANGED <<cluster, snapshot, dryRun, trading, killed, rounds>>

MayDelete(n) == n \notin trading /\ ~snapshot[n].active /\ ~dryRun

\* One iteration of cleanup(): a delete by name, which may fail.
CleanUp(n) ==
    /\ step = "found" /\ n \in orphans
    /\ orphans' = orphans \ {n}
    /\ \/ /\ MayDelete(n) /\ jobs[n] # NoJob
          /\ killed' = killed \cup {[listed |-> snapshot[n], name |-> n, job |-> jobs[n],
                                     gone |-> ~(jobs[n].owners \subseteq crons)]}
          /\ jobs' = [jobs EXCEPT ![n] = NoJob]
       \/ UNCHANGED <<jobs, killed>>
    /\ UNCHANGED <<crons, born, births, step, snapshot, dryRun, trading, rounds>>

CleanUpEnds ==
    /\ step = "found" /\ orphans = {}
    /\ step' = "idle"
    /\ UNCHANGED <<cluster, snapshot, orphans, dryRun, trading, killed, rounds>>

CleanerNext ==
    \/ \E c \in CronUids : CronJobDeleted(c) \/ CronJobCreated(c)
    \/ \E n \in JobNames, owners \in SUBSET CronUids : owners \subseteq crons /\ JobCreated(n, owners)
    \/ \E n \in JobNames : JobChanges(n) \/ CleanUp(n)
    \/ ListJobs \/ ListCronJobs \/ CleanUpEnds

CleanerSpec == CleanerInit /\ [][CleanerNext]_cleanerVars

-----------------------------------------------------------------------------
CleanerTypeOK ==
    /\ jobs \in [JobNames -> Jobs \cup {NoJob}]
    /\ crons \subseteq born /\ born \subseteq CronUids
    /\ births \in 0 .. MaxJobs
    /\ step \in {"idle", "listed", "found"}
    /\ snapshot \in [JobNames -> Jobs \cup {NoJob}]
    /\ orphans \subseteq JobNames
    /\ dryRun \in BOOLEAN /\ trading \subseteq JobNames
    /\ killed \subseteq [listed : Jobs, name : JobNames, job : Jobs, gone : BOOLEAN]
    /\ rounds \in 0 .. MaxRounds

\* The two listings and the deletion see three different clusters.  A Job that
\* is deleted is in no trading namespace; the Job of that name was listed past
\* its grace period without active pods; and unless it made room for another
\* one, a CronJob that owned it is gone, and not merely younger than a listing.
DeletesJustified ==
    \A k \in killed :
        /\ ~dryRun /\ k.name \notin trading
        /\ k.listed.old /\ ~k.listed.active
        /\ k.job.uid = k.listed.uid => k.gone
=============================================================================
