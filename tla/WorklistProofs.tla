---------------------------- MODULE WorklistProofs ----------------------------
(***************************************************************************)
(* Proofs about Worklist, for any payload, any processes and agents and    *)
(* any bounds on calls of seed() and on crashes.                           *)
(***************************************************************************)
EXTENDS Worklist, TLAPS

-----------------------------------------------------------------------------
(* The table *)

\* A call of WorklistDB, or a statement of one, on the table.
TableCall ==
    \/ SeedOrCrash
    \/ \E a \in Agents, i \in Ids :
          ClaimNext(a, i) \/ MarkInProgress(a, i) \/ Complete(a, i) \/ Fail(a, i)

TableStep == TableCall \/ UNCHANGED <<table, seq, seedPos, seeds, crashes>>

TableTypeOK ==
    /\ task \in [Ids -> Entries \cup {NoTask}]
    /\ status \in [Ids -> Status \cup {"absent"}]
    /\ owner \in [Ids -> Agents \cup {NoAgent}]
    /\ seq \in Nat
    /\ seedPos \in [Procs -> 0 .. Len(Payload)]
    /\ seeds \in 0 .. MaxSeeds
    /\ crashes \in 0 .. MaxCrashes

\* An absent row holds no task, the rows that have an owner are those past
\* "queued", and the next rowid is free.
RowsConsistent ==
    /\ \A i \in Ids : status[i] = "absent" <=> task[i] = NoTask
    /\ \A i \in Ids : status[i] \in {"absent", "queued"} <=> owner[i] = NoAgent
    /\ \A i \in Ids : i > seq => status[i] = "absent"

TableInv == TableTypeOK /\ RowsConsistent /\ OneRowPerTask

LEMMA TableInit == Init => TableInv
BY WorklistConstants
   DEF Init, TableInv, TableTypeOK, RowsConsistent, OneRowPerTask, Rows, Status

LEMMA TableSeedRow ==
    ASSUME TableInv, NEW p \in Procs, SeedRow(p)
    PROVE  /\ TableInv'
           /\ UNCHANGED owner
           /\ \A i \in Ids : status'[i] = status[i] \/ owner[i] = NoAgent
<1> USE DEF TableInv
<1> DEFINE k  == seedPos[p]
           id == seq + 1
<1>1. /\ k # 0 /\ seq' = id
      /\ seedPos' = [seedPos EXCEPT ![p] = IF k = Len(Payload) THEN 0 ELSE k + 1]
      /\ UNCHANGED <<owner, seeds, crashes>>
  BY DEF SeedRow
<1>2. Len(Payload) \in Nat /\ k \in Entries /\ NoTask \notin Entries
  BY <1>1, WorklistConstants DEF TableTypeOK, Entries
<1>0. seq \in Nat /\ \A i \in Ids : i \in Int
  BY DEF TableTypeOK, Ids
<1>3. seedPos' \in [Procs -> 0 .. Len(Payload)] /\ seq' \in Nat
  BY <1>1, <1>2 DEF TableTypeOK, Entries
<1>4. CASE \E i \in Rows : task[i] = k
  <2>1. UNCHANGED <<task, status>>
    BY <1>4 DEF SeedRow
  <2> QED
    BY <1>0, <1>1, <1>3, <2>1 DEF TableTypeOK, RowsConsistent, OneRowPerTask, Rows
<1>5. CASE ~ \E i \in Rows : task[i] = k
  <2>1. /\ task' = [task EXCEPT ![id] = k]
        /\ status' = [status EXCEPT ![id] = "queued"]
    BY <1>5 DEF SeedRow
  <2>2. id \in Ids => status[id] = "absent" /\ owner[id] = NoAgent
    BY DEF RowsConsistent, TableTypeOK
  <2>3. TableTypeOK'
    BY <1>1, <1>2, <1>3, <2>1 DEF TableTypeOK, Status
  <2>4. RowsConsistent'
    BY <1>0, <1>1, <1>2, <2>1, <2>2 DEF TableTypeOK, RowsConsistent
  <2>5. OneRowPerTask'
    BY <1>5, <2>1 DEF TableTypeOK, OneRowPerTask, Rows
  <2> QED
    BY <1>1, <2>1, <2>2, <2>3, <2>4, <2>5 DEF TableTypeOK
<1> QED
  BY <1>4, <1>5

LEMMA TableClaim ==
    ASSUME TableInv, NEW a \in Agents, NEW i \in Ids, ClaimNext(a, i)
    PROVE  /\ TableInv'
           /\ owner[i] = NoAgent
           /\ owner' = [owner EXCEPT ![i] = a]
           /\ status' = [status EXCEPT ![i] = "claimed"]
<1>1. status[i] = "queued"
  BY DEF ClaimNext, Claimable
<1> QED
  BY <1>1, WorklistConstants
     DEF ClaimNext, TableInv, TableTypeOK, RowsConsistent, OneRowPerTask, Rows, Status

LEMMA TableSetStatus ==
    ASSUME TableInv, NEW a \in Agents, NEW i \in Ids,
           NEW new \in {"in_progress", "done", "failed"}, SetStatus(a, i, new)
    PROVE  /\ TableInv'
           /\ UNCHANGED owner
           /\ owner[i] = a
           /\ status' = [status EXCEPT ![i] = new]
BY WorklistConstants
   DEF SetStatus, TableInv, TableTypeOK, RowsConsistent, OneRowPerTask, Rows, Status

LEMMA TableNext == TableInv /\ TableStep => TableInv'
<1> SUFFICES ASSUME TableInv, TableStep PROVE TableInv'
  OBVIOUS
<1>1. ASSUME NEW p \in Procs, SeedStart(p) PROVE TableInv'
  BY <1>1, WorklistConstants
     DEF SeedStart, table, TableInv, TableTypeOK, RowsConsistent, OneRowPerTask, Rows
<1>2. ASSUME NEW p \in Procs, Crash(p) PROVE TableInv'
  BY <1>2, WorklistConstants
     DEF Crash, table, TableInv, TableTypeOK, RowsConsistent, OneRowPerTask, Rows
<1>3. CASE UNCHANGED <<table, seq, seedPos, seeds, crashes>>
  BY <1>3 DEF table, TableInv, TableTypeOK, RowsConsistent, OneRowPerTask, Rows
<1> QED
  BY <1>1, <1>2, <1>3, TableSeedRow, TableClaim, TableSetStatus, WorklistConstants
     DEF TableStep, TableCall, SeedOrCrash, MarkInProgress, Complete, Fail

\* What ClaimIsFinal says of one step.
LEMMA ClaimKept ==
    ASSUME TableInv, TableStep, NEW i \in Ids, owner[i] # NoAgent
    PROVE  owner'[i] = owner[i] /\ status'[i] # "queued"
<1>1. status[i] # "queued"
  BY DEF TableInv, RowsConsistent
<1>2. ASSUME NEW p \in Procs, SeedStart(p) \/ Crash(p) PROVE UNCHANGED <<owner, status>>
  BY <1>2 DEF SeedStart, Crash, table
<1>3. ASSUME NEW p \in Procs, SeedRow(p) PROVE owner'[i] = owner[i] /\ status'[i] # "queued"
  BY <1>1, <1>3, TableSeedRow
<1>4. ASSUME NEW a \in Agents, NEW j \in Ids, ClaimNext(a, j)
      PROVE  owner'[i] = owner[i] /\ status'[i] # "queued"
  BY <1>1, <1>4, TableClaim DEF TableInv, TableTypeOK
<1>5. ASSUME NEW a \in Agents, NEW j \in Ids,
             NEW new \in {"in_progress", "done", "failed"}, SetStatus(a, j, new)
      PROVE  owner'[i] = owner[i] /\ status'[i] # "queued"
  BY <1>1, <1>5, TableSetStatus DEF TableInv, TableTypeOK
<1>6. CASE UNCHANGED <<table, seq, seedPos, seeds, crashes>>
  BY <1>1, <1>6 DEF table
<1> QED
  BY <1>1, <1>2, <1>3, <1>4, <1>5, <1>6, WorklistConstants
     DEF TableStep, TableCall, SeedOrCrash, MarkInProgress, Complete, Fail

LEMMA NextIsTableStep == [Next]_vars => TableStep
BY DEF Next, TableStep, TableCall, vars, table

LEMMA AgentNextIsTableStep == [AgentNext]_vars => TableStep
<1>1. ASSUME NEW a \in Agents, NEW i \in Ids,
             AgentClaims(a, i) \/ AgentStarts(a, i) \/ AgentFinishes(a, i)
      PROVE  TableCall
  BY <1>1 DEF AgentClaims, AgentStarts, AgentFinishes, TableCall
<1> QED
  BY <1>1 DEF AgentNext, AgentStep, TableStep, TableCall, vars, table

-----------------------------------------------------------------------------
(* What the table promises, whatever is called *)

LEMMA JobType ==
    ASSUME job \in [Agents -> Ids \cup {0}], [Next]_vars \/ [AgentNext]_vars
    PROVE  job' \in [Agents -> Ids \cup {0}]
<1>1. ASSUME SeedOrCrash PROVE job' \in [Agents -> Ids \cup {0}]
  BY <1>1 DEF SeedOrCrash, SeedStart, SeedRow, Crash
<1>2. ASSUME NEW a \in Agents, AgentStep(a) PROVE job' \in [Agents -> Ids \cup {0}]
  BY <1>2 DEF AgentStep, AgentClaims, AgentStarts, AgentFinishes
<1> QED
  BY <1>1, <1>2 DEF Next, AgentNext, vars

WorklistInv == TableInv /\ job \in [Agents -> Ids \cup {0}]

LEMMA WorklistInit == Init => WorklistInv
BY TableInit DEF Init, WorklistInv

LEMMA WorklistNext == WorklistInv /\ [Next]_vars => WorklistInv'
BY TableNext, NextIsTableStep, JobType DEF WorklistInv

LEMMA WorklistTypes == WorklistInv => TypeOK
BY DEF WorklistInv, TableInv, TableTypeOK, TypeOK

\* Every variable keeps its type, whatever is called in whatever order.
THEOREM WorklistTypeCorrect == Spec => []TypeOK
BY WorklistInit, WorklistNext, WorklistTypes, PTL DEF Spec

\* However many processes seed, die half-way and seed again, no task of the
\* payload gets two rows.
THEOREM SeedIdempotent == Spec => []OneRowPerTask
<1>1. WorklistInv => OneRowPerTask
  BY DEF WorklistInv, TableInv
<1> QED
  BY <1>1, WorklistInit, WorklistNext, PTL DEF Spec

\* Once claimed, a task keeps its owner and is never queued again.
THEOREM ClaimsAreFinal == Spec => ClaimIsFinal
<1>1. WorklistInv /\ [Next]_vars =>
        [\A i \in Ids : owner[i] # NoAgent => owner'[i] = owner[i] /\ status'[i] # "queued"]_vars
  BY ClaimKept, NextIsTableStep DEF WorklistInv
<1> QED
  BY <1>1, WorklistInit, WorklistNext, PTL DEF Spec, ClaimIsFinal

-----------------------------------------------------------------------------
(* Agents that follow the discipline *)

AgentInv == WorklistInv /\ ExclusiveJobs

LEMMA AgentInit == Init => AgentInv
BY WorklistInit DEF Init, AgentInv, ExclusiveJobs

LEMMA AgentInvNext == AgentInv /\ [AgentNext]_vars => AgentInv'
<1> SUFFICES ASSUME AgentInv, [AgentNext]_vars PROVE ExclusiveJobs'
  BY TableNext, AgentNextIsTableStep, JobType DEF AgentInv, WorklistInv
<1> USE DEF AgentInv, WorklistInv
<1>0. /\ TableInv /\ job \in [Agents -> Ids \cup {0}] /\ 0 \notin Ids
      /\ owner \in [Ids -> Agents \cup {NoAgent}] /\ status \in [Ids -> Status \cup {"absent"}]
  BY DEF TableInv, TableTypeOK, Ids
<1>1. ASSUME NEW p \in Procs, SeedStart(p) PROVE ExclusiveJobs'
  BY <1>1 DEF SeedStart, table, ExclusiveJobs
<1>2. ASSUME NEW p \in Procs, SeedRow(p) PROVE ExclusiveJobs'
  <2>1. UNCHANGED <<job, owner>>
    BY <1>2 DEF SeedRow
  <2>2. \A a \in Agents : job[a] # 0 => status'[job[a]] = status[job[a]]
    BY <1>0, <1>2, TableSeedRow, WorklistConstants DEF ExclusiveJobs
  <2> QED
    BY <2>1, <2>2 DEF ExclusiveJobs
<1>3. ASSUME NEW p \in Procs, Crash(p) PROVE ExclusiveJobs'
  BY <1>3 DEF Crash, table, ExclusiveJobs
<1>4. ASSUME NEW a \in Agents, NEW i \in Ids, AgentClaims(a, i) PROVE ExclusiveJobs'
  <2>1. /\ owner[i] = NoAgent /\ owner' = [owner EXCEPT ![i] = a]
        /\ status' = [status EXCEPT ![i] = "claimed"] /\ job' = [job EXCEPT ![a] = i]
    BY <1>0, <1>4, TableClaim DEF AgentClaims
  <2>2. \A b \in Agents : b # a /\ job[b] # 0 => job[b] # i
    BY <1>0, <2>1, WorklistConstants DEF ExclusiveJobs
  <2> QED
    BY <1>0, <2>1, <2>2 DEF ExclusiveJobs
<1>5. ASSUME NEW a \in Agents, NEW i \in Ids, AgentStarts(a, i) PROVE ExclusiveJobs'
  <2>1. UNCHANGED <<job, owner>> /\ status' = [status EXCEPT ![i] = "in_progress"]
    BY <1>0, <1>5, TableSetStatus DEF AgentStarts, MarkInProgress
  <2> QED
    BY <1>0, <2>1 DEF ExclusiveJobs
<1>6. ASSUME NEW a \in Agents, NEW i \in Ids, AgentFinishes(a, i) PROVE ExclusiveJobs'
  <2>1. /\ owner[i] = a /\ UNCHANGED owner /\ job' = [job EXCEPT ![a] = 0]
        /\ \A j \in Ids : j # i => status'[j] = status[j]
    BY <1>0, <1>6, TableSetStatus DEF AgentFinishes, Complete, Fail
  <2>2. \A b \in Agents : b # a /\ job[b] # 0 => job[b] # i
    BY <1>0, <2>1 DEF ExclusiveJobs
  <2> QED
    BY <1>0, <2>1, <2>2 DEF ExclusiveJobs
<1>7. CASE UNCHANGED vars
  BY <1>7 DEF vars, table, ExclusiveJobs
<1> QED
  BY <1>1, <1>2, <1>3, <1>4, <1>5, <1>6, <1>7, WorklistConstants
     DEF AgentNext, SeedOrCrash, AgentStep

\* Agents that claim one task at a time never work on the same task, crashes
\* of processes and repeated seeds included.
THEOREM JobsExclusive == AgentSpec => []ExclusiveJobs
<1>1. AgentInv => ExclusiveJobs
  BY DEF AgentInv
<1> QED
  BY <1>1, AgentInit, AgentInvNext, PTL DEF AgentSpec

-----------------------------------------------------------------------------
(* The order of the rows *)

\* A row inserted later than i has a higher id, and what is claimed has no
\* pending blocker among the rows there are.
OrderInv == AgentInv /\ RowOrder

\* A step that keeps rows, their entries and what is done.
KeepsRows ==
    \A i \in Rows : /\ i \in Rows' /\ task'[i] = task[i]
                    /\ status[i] = "done" => status'[i] = "done"

\* Order is kept by a step that inserts rows past the others and moves rows past
\* "queued" only when they are unblocked.
LEMMA OrderKept ==
    ASSUME RowOrder, KeepsRows,
           \A i \in Rows, b \in Rows' : b <= i => b \in Rows,
           \A i \in Rows' : status'[i] # "queued" =>
              i \in Rows /\ (status[i] # "queued" \/ Unblocked(i))
    PROVE  RowOrder'
<1> SUFFICES ASSUME NEW i \in Rows', status'[i] # "queued",
                    NEW b \in Blockers(i)' \cap Rows', b <= i
             PROVE  status'[b] = "done"
  BY DEF RowOrder
<1>1. i \in Rows /\ task'[i] = task[i] /\ b \in Rows
  BY DEF KeepsRows
<1>2. b \in Blockers(i) \cap Rows
  BY <1>1 DEF Blockers
<1>3. status[b] = "done"
  BY <1>1, <1>2 DEF RowOrder, Unblocked
<1> QED
  BY <1>1, <1>3 DEF KeepsRows

LEMMA OrderInit == Init => OrderInv
<1>1. Init => Rows = {}
  BY DEF Init, Rows
<1> QED
  BY <1>1, AgentInit DEF OrderInv, RowOrder

LEMMA OrderSeedRow ==
    ASSUME TableInv, RowOrder, NEW p \in Procs, SeedRow(p)
    PROVE  RowOrder'
<1> DEFINE k  == seedPos[p]
           id == seq + 1
<1>1. k \in Entries /\ NoTask \notin Entries /\ seq \in Nat /\ \A i \in Ids : i \in Nat
  BY WorklistConstants DEF SeedRow, TableInv, TableTypeOK, Entries, Ids
<1>2. CASE \E i \in Rows : task[i] = k
  <2>1. UNCHANGED <<task, status>>
    BY <1>2 DEF SeedRow
  <2> QED
    BY <2>1 DEF RowOrder, Rows, Blockers
<1>3. CASE ~ \E i \in Rows : task[i] = k
  <2>1. /\ task' = [task EXCEPT ![id] = k]
        /\ status' = [status EXCEPT ![id] = "queued"]
    BY <1>3 DEF SeedRow
  <2>2. /\ \A i \in Ids : i # id => task'[i] = task[i] /\ status'[i] = status[i]
        /\ id \in Ids => status'[id] = "queued"
    BY <2>1 DEF TableInv, TableTypeOK
  <2>3. \A i \in Rows : i \in Nat /\ i <= seq
    BY <1>1 DEF Rows, TableInv, RowsConsistent
  <2>4. Rows' = IF id \in Ids THEN Rows \cup {id} ELSE Rows
    BY <2>2 DEF Rows
  <2>5. id \notin Rows
    BY <1>1, <2>3
  <2>6. KeepsRows
    BY <2>2, <2>4, <2>5 DEF KeepsRows, Rows
  <2>7. \A i \in Rows, b \in Rows' : b <= i => b \in Rows
    BY <1>1, <2>3, <2>4
  <2>8. \A i \in Rows' : status'[i] # "queued" => i \in Rows /\ status[i] # "queued"
    BY <2>2, <2>4 DEF Rows
  <2> QED
    BY <2>6, <2>7, <2>8, OrderKept
<1> QED
  BY <1>2, <1>3

\* A step on one existing row.
LEMMA OrderRowStep ==
    ASSUME TableInv, RowOrder, NEW i \in Rows, NEW new \in Status,
           status' = [status EXCEPT ![i] = new], status[i] # "done",
           status[i] # "queued" \/ Unblocked(i), UNCHANGED task
    PROVE  RowOrder'
<1>1. /\ \A j \in Ids : j # i => status'[j] = status[j]
      /\ status'[i] = new /\ new # "absent"
  BY DEF TableInv, TableTypeOK, Rows, Status
<1>2. Rows' = Rows
  BY <1>1 DEF Rows
<1>3. KeepsRows
  BY <1>1, <1>2 DEF KeepsRows, Rows
<1>4. \A j \in Rows' : status'[j] # "queued" =>
         j \in Rows /\ (status[j] # "queued" \/ Unblocked(j))
  BY <1>1, <1>2 DEF Rows
<1> QED
  BY <1>2, <1>3, <1>4, OrderKept

LEMMA OrderNext == OrderInv /\ [AgentNext]_vars => OrderInv'
<1> SUFFICES ASSUME OrderInv, [AgentNext]_vars PROVE RowOrder'
  BY AgentInvNext DEF OrderInv
<1>0. TableInv /\ RowOrder /\ Seeders \subseteq Procs
  BY WorklistConstants DEF OrderInv, AgentInv, WorklistInv
<1>1. ASSUME NEW p \in Procs, SeedStart(p) \/ Crash(p) PROVE RowOrder'
  BY <1>0, <1>1 DEF SeedStart, Crash, table, RowOrder, Rows, Blockers
<1>2. ASSUME NEW p \in Procs, SeedRow(p) PROVE RowOrder'
  BY <1>0, <1>2, OrderSeedRow
<1>3. ASSUME NEW a \in Agents, NEW i \in Ids, AgentClaims(a, i) PROVE RowOrder'
  <2>1. /\ i \in Rows /\ status[i] = "queued" /\ Unblocked(i)
        /\ status' = [status EXCEPT ![i] = "claimed"] /\ UNCHANGED task
    BY <1>3 DEF AgentClaims, ClaimNext, Claimable
  <2> QED
    BY <1>0, <2>1, OrderRowStep DEF Status
<1>4. ASSUME NEW a \in Agents, NEW i \in Ids, AgentStarts(a, i) \/ AgentFinishes(a, i)
      PROVE  RowOrder'
  <2>1. /\ i \in Rows /\ status[i] \in {"claimed", "in_progress"}
        /\ \E new \in {"in_progress", "done", "failed"} :
              status' = [status EXCEPT ![i] = new]
        /\ UNCHANGED task
    BY <1>4 DEF AgentStarts, AgentFinishes, MarkInProgress, Complete, Fail, SetStatus, Rows
  <2> QED
    BY <1>0, <2>1, OrderRowStep DEF Status
<1>5. CASE UNCHANGED vars
  BY <1>0, <1>5 DEF vars, table, RowOrder, Rows, Blockers
<1> QED
  BY <1>0, <1>1, <1>2, <1>3, <1>4, <1>5 DEF AgentNext, SeedOrCrash, AgentStep

\* Whatever list is seeded, however many processes seed it, die and seed again,
\* and whatever fails, an agent never starts a row before the rows that its
\* blockers name and that were there when it was inserted are done.
THEOREM WorkInOrder == AgentSpec => []RowOrder
<1>1. OrderInv => RowOrder
  BY DEF OrderInv
<1> QED
  BY <1>1, OrderInit, OrderNext, PTL DEF AgentSpec
=============================================================================
