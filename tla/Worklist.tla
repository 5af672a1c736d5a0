------------------------------- MODULE Worklist -------------------------------
(***************************************************************************)
(* The task table of the SQLite worklist (src/worklist.py, WorklistDB) and *)
(* the agents that work it from several operating-system processes.        *)
(*                                                                         *)
(* The connection is in autocommit mode, so every SQL statement is one     *)
(* atomic step against all other processes; claim_next is one statement    *)
(* inside BEGIN IMMEDIATE.  seed() is one INSERT OR IGNORE per task: other *)
(* processes may run between two of them, while the callers of the same    *)
(* process wait for its threading.Lock.  A call that raises                *)
(* OperationalError because the database is locked changes nothing.        *)
(*                                                                         *)
(* Spec lets an agent call its methods in any order on the tasks it owns;  *)
(* AgentSpec is the discipline the worklist is written for: claim one      *)
(* task, mark it in progress, then complete or fail it.                    *)
(***************************************************************************)
EXTENDS Integers, Sequences

CONSTANTS
    Procs,      \* processes with a WorklistDB on the same file
    Agents,     \* agent_id strings
    ProcOf,     \* the process an agent runs in
    Seeders,    \* processes that call seed()
    Payload,    \* the list given to seed(): declared id and declared blockers
    MaxSeeds,   \* bound: calls of seed()
    MaxCrashes, \* bound: processes killed
    MayFail,    \* agents call fail()
    NoAgent, NoTask

\* Every INSERT takes one rowid, so these are all the ids a behaviour needs.
MaxId == Len(Payload) * MaxSeeds
Ids == 1 .. MaxId
Entries == DOMAIN Payload

ASSUME WorklistConstants ==
    /\ ProcOf \in [Agents -> Procs]
    /\ Seeders \subseteq Procs
    /\ Payload \in Seq([id : Nat, blockers : SUBSET Nat])
    /\ Payload # <<>>
    /\ \A j, k \in DOMAIN Payload : Payload[j].id = Payload[k].id => j = k
    /\ MaxSeeds \in Nat
    /\ MaxCrashes \in Nat
    /\ MayFail \in BOOLEAN
    /\ NoAgent \notin Agents
    /\ NoTask \notin DOMAIN Payload

Status == {"queued", "claimed", "in_progress", "done", "failed"}

VARIABLES
    task,     \* the payload entry stored under a row id, or NoTask
    status,   \* tasks.status; "absent" where there is no row
    owner,    \* tasks.claimed_by
    seq,      \* sqlite_sequence: the last rowid handed out
    seedPos,  \* the entry a process inside seed() inserts next, else 0
    seeds,    \* calls of seed() so far
    job,      \* the row id an agent is working on, else 0
    crashes   \* processes killed so far

table == <<task, status, owner>>
vars == <<task, status, owner, seq, seedPos, seeds, job, crashes>>

Init ==
    /\ task = [i \in Ids |-> NoTask]
    /\ status = [i \in Ids |-> "absent"]
    /\ owner = [i \in Ids |-> NoAgent]
    /\ seq = 0
    /\ seedPos = [p \in Procs |-> 0]
    /\ seeds = 0
    /\ job = [a \in Agents |-> 0]
    /\ crashes = 0

-----------------------------------------------------------------------------
Rows == {i \in Ids : status[i] # "absent"}

\* The blockers column of a row.
Blockers(i) == Payload[task[i]].blockers

\* Mutant: a blocker that failed counts as done.
UnblockedByEnded(i) == \A b \in Blockers(i) \cap Rows : status[b] \in {"done", "failed"}

\* NOT EXISTS (a row b in the blockers with status != 'done'): an id that
\* has no row does not block.
Unblocked(i) == \A b \in Blockers(i) \cap Rows : status[b] = "done"

\* Mutant: tasks that were claimed and not started are handed out again.
ClaimableStale == {i \in Rows : status[i] \in {"queued", "claimed"} /\ Unblocked(i)}

Claimable == {i \in Rows : status[i] = "queued" /\ Unblocked(i)}

\* The process's threading.Lock is not held by a seed() in progress.
LockFree(p) == seedPos[p] = 0

-----------------------------------------------------------------------------
\* seed() takes the lock and starts with the first entry.
SeedStart(p) ==
    /\ LockFree(p)
    /\ seeds < MaxSeeds
    /\ seeds' = seeds + 1
    /\ seedPos' = [seedPos EXCEPT ![p] = 1]
    /\ UNCHANGED <<table, seq, job, crashes>>

\* Mutant: no UNIQUE index.
SeedRowTwice(p) ==
    LET k  == seedPos[p]
        id == seq + 1
    IN  /\ k # 0
        /\ seq' = id
        /\ seedPos' = [seedPos EXCEPT ![p] = IF k = Len(Payload) THEN 0 ELSE k + 1]
        /\ task' = [task EXCEPT ![id] = k]
        /\ status' = [status EXCEPT ![id] = "queued"]
        /\ UNCHANGED <<owner, seeds, job, crashes>>

\* One INSERT OR IGNORE.  AUTOINCREMENT allocates the rowid before the UNIQUE
\* (prd_section, title) index is looked up, so an ignored row uses one up.
SeedRow(p) ==
    LET k  == seedPos[p]
        id == seq + 1
    IN  /\ k # 0
        /\ seq' = id
        /\ seedPos' = [seedPos EXCEPT ![p] = IF k = Len(Payload) THEN 0 ELSE k + 1]
        /\ IF \E i \in Rows : task[i] = k
           THEN UNCHANGED <<task, status>>
           ELSE /\ task' = [task EXCEPT ![id] = k]
                /\ status' = [status EXCEPT ![id] = "queued"]
        /\ UNCHANGED <<owner, seeds, job, crashes>>

\* Mutant: a restart puts the tasks of the process's agents back in the queue.
CrashRequeues(p) ==
    /\ crashes < MaxCrashes
    /\ crashes' = crashes + 1
    /\ seedPos' = [seedPos EXCEPT ![p] = 0]
    /\ job' = [a \in Agents |-> IF ProcOf[a] = p THEN 0 ELSE job[a]]
    /\ status' = [i \in Ids |-> IF owner[i] # NoAgent /\ status[i] = "claimed"
                                  /\ ProcOf[owner[i]] = p
                               THEN "queued" ELSE status[i]]
    /\ UNCHANGED <<task, owner, seq, seeds>>

\* The process dies: a seed() in progress stops where it is, its agents
\* forget their tasks, and no row of the table is given back.
Crash(p) ==
    /\ crashes < MaxCrashes
    /\ crashes' = crashes + 1
    /\ seedPos' = [seedPos EXCEPT ![p] = 0]
    /\ job' = [a \in Agents |-> IF ProcOf[a] = p THEN 0 ELSE job[a]]
    /\ UNCHANGED <<table, seq, seeds>>

\* claim_next(): the lowest-id queued task without a pending blocker.
ClaimNext(a, i) ==
    /\ LockFree(ProcOf[a])
    /\ i \in Claimable
    /\ \A j \in Claimable : i <= j
    /\ status' = [status EXCEPT ![i] = "claimed"]
    /\ owner' = [owner EXCEPT ![i] = a]
    /\ UNCHANGED <<task, seq, seedPos, seeds, crashes>>

\* UPDATE tasks SET status = new WHERE id = i AND claimed_by = a.
SetStatus(a, i, new) ==
    /\ LockFree(ProcOf[a])
    /\ owner[i] = a
    /\ status' = [status EXCEPT ![i] = new]
    /\ UNCHANGED <<task, owner, seq, seedPos, seeds, crashes>>

MarkInProgress(a, i) == SetStatus(a, i, "in_progress")
Complete(a, i) == SetStatus(a, i, "done")

\* Mutant: a failed task goes back to the queue.
FailRequeues(a, i) == SetStatus(a, i, "queued")

Fail(a, i) == SetStatus(a, i, "failed")

SeedOrCrash ==
    \/ \E p \in Seeders : SeedStart(p)
    \/ \E p \in Procs : SeedRow(p)
    \/ \E p \in Procs : Crash(p)

-----------------------------------------------------------------------------
\* Any call at any time; the table alone decides what it does.
Next ==
    \/ SeedOrCrash
    \/ /\ \E a \in Agents, i \in Ids :
             ClaimNext(a, i) \/ MarkInProgress(a, i) \/ Complete(a, i) \/ Fail(a, i)
       /\ UNCHANGED job

Spec == Init /\ [][Next]_vars

\* One task at a time, in order.
AgentClaims(a, i) ==
    /\ job[a] = 0
    /\ ClaimNext(a, i)
    /\ job' = [job EXCEPT ![a] = i]

AgentStarts(a, i) ==
    /\ job[a] = i /\ status[i] = "claimed"
    /\ MarkInProgress(a, i)
    /\ UNCHANGED job

AgentFinishes(a, i) ==
    /\ job[a] = i /\ status[i] = "in_progress"
    /\ Complete(a, i) \/ (MayFail /\ Fail(a, i))
    /\ job' = [job EXCEPT ![a] = 0]

AgentStep(a) ==
    \E i \in Ids : AgentClaims(a, i) \/ AgentStarts(a, i) \/ AgentFinishes(a, i)

AgentNext == SeedOrCrash \/ \E a \in Agents : AgentStep(a)

AgentSpec == Init /\ [][AgentNext]_vars

\* A process inside seed() keeps inserting, somebody seeds, and every agent
\* keeps asking for work and finishing what it has.
FairAgentSpec ==
    /\ AgentSpec
    /\ WF_vars(\E p \in Seeders : SeedStart(p))
    /\ \A p \in Procs : WF_vars(SeedRow(p))
    /\ \A a \in Agents : WF_vars(AgentStep(a))

-----------------------------------------------------------------------------
(* Properties *)

TypeOK ==
    /\ task \in [Ids -> Entries \cup {NoTask}]
    /\ status \in [Ids -> Status \cup {"absent"}]
    /\ owner \in [Ids -> Agents \cup {NoAgent}]
    /\ seq \in Nat
    /\ seedPos \in [Procs -> 0 .. Len(Payload)]
    /\ seeds \in 0 .. MaxSeeds
    /\ job \in [Agents -> Ids \cup {0}]
    /\ crashes \in 0 .. MaxCrashes

\* seed() is idempotent for the rows of the table: however many processes
\* seed, restart half-way and seed again, a task has at most one row.
OneRowPerTask ==
    \A i, j \in Rows : task[i] = task[j] => i = j

\* A task is claimed once and for all: whatever calls follow, its owner never
\* changes and it is never queued again, so no two agents are given it.
ClaimIsFinal ==
    [][\A i \in Ids : owner[i] # NoAgent =>
          owner'[i] = owner[i] /\ status'[i] # "queued"]_vars

\* Agents that follow the discipline hold different tasks, each the owner of
\* the row it works on.
ExclusiveJobs ==
    \A a \in Agents : job[a] # 0 =>
        /\ owner[job[a]] = a
        /\ status[job[a]] \in {"claimed", "in_progress"}

\* The row that holds the task declared with id d is done.
DeclaredDone(d) == \E j \in Rows : Payload[task[j]].id = d /\ status[j] = "done"

\* Work starts in dependency order: a task that has been claimed has every
\* task it declares as a blocker done.  The rows do not have the declared ids
\* as soon as the sorted list is in another order than its ids.
DependencyOrder ==
    \A i \in Rows :
        status[i] # "queued" => \A d \in Blockers(i) : DeclaredDone(d)

\* What claim_next keeps of it: the blockers are compared with row ids, so a
\* row past "queued" has every blocker done that had a row when its own row
\* was inserted, which are those with ids up to its own; a row that names
\* itself is never claimed.
RowOrder ==
    \A i \in Rows :
        status[i] # "queued" =>
            \A b \in Blockers(i) \cap Rows : b <= i => status[b] = "done"

\* No agent works on the row and none ever will: it failed, or the agent that
\* claimed it died and nothing takes a claim back.
Dead(i) ==
    \/ status[i] = "failed"
    \/ /\ status[i] \in {"claimed", "in_progress"}
       /\ crashes > 0
       /\ \A a \in Agents : job[a] # i

\* Nobody holds a task but agents that died, and nothing is claimable: what is
\* still queued waits for a task that is dead, or for rows that wait for it.
Drained ==
    /\ \A i \in Rows : status[i] \in {"claimed", "in_progress"} => Dead(i)
    /\ Claimable = {}

\* Agents drain the worklist although tasks fail and processes die with their
\* tasks: from some time on it is drained.
EventuallyDrained == <>[]Drained
=============================================================================
