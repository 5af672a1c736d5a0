------------------------------- MODULE AuditRun -------------------------------
(***************************************************************************)
(* One row of the audit_runs table of the worklist (src/worklist.py) and   *)
(* the threads that move it through its phases.                            *)
(*                                                                         *)
(* Each method takes the lock once and its UPDATE is one atomic step.  The *)
(* exception is increment_iteration: its UPDATE is committed before the    *)
(* SELECT that reads the new count, so other processes may write between   *)
(* the two; then it lets the lock go, and calls escalate() under the lock  *)
(* again when the count it read has reached MAX_ITERATIONS.  Callers of    *)
(* one process wait for each other's lock, which only takes interleavings  *)
(* away; here every caller is its own process.                             *)
(***************************************************************************)
EXTENDS Integers

CONSTANTS
    Threads,        \* callers
    MaxIterations,  \* MAX_ITERATIONS
    ExtraIterations,\* bound: increments past MAX_ITERATIONS
    MaxDeaths      \* bound: callers killed inside increment_iteration

ASSUME AuditRunConstants ==
    /\ MaxIterations \in Nat \ {0}
    /\ ExtraIterations \in Nat
    /\ MaxDeaths \in Nat

\* The CHECK constraint on audit_runs.phase.
Phases == {"review", "synthesize", "claim", "implement", "verify", "done", "escalate"}

MaxCount == MaxIterations + ExtraIterations

VARIABLES
    exists,   \* the row is there
    phase,    \* audit_runs.phase
    count,    \* audit_runs.iteration_count
    stopped,  \* audit_runs.stopped_reason IS NOT NULL
    reading,  \* callers of increment_iteration that have not read the count back
    owing,    \* those that have, and have to escalate
    deaths

row  == <<exists, phase, count, stopped>>
auditVars == <<exists, phase, count, stopped, reading, owing, deaths>>

AuditInit ==
    /\ exists = FALSE
    /\ phase = "review"
    /\ count = 0
    /\ stopped = FALSE
    /\ reading = {}
    /\ owing = {}
    /\ deaths = 0

\* Not inside increment_iteration.
Free(t) == t \notin reading \cup owing

\* Mutant: > for >=.
ShouldEscalateLate(n) == n > MaxIterations

ShouldEscalate(n) == n >= MaxIterations

\* ensure_audit_run(): INSERT OR IGNORE, so an existing row is kept.
EnsureAuditRun ==
    /\ ~exists
    /\ exists' = TRUE
    /\ UNCHANGED <<phase, count, stopped, reading, owing, deaths>>

\* advance_phase(): no condition on the phase it leaves.
AdvancePhase(t, new) ==
    /\ exists /\ Free(t)
    /\ phase' = new
    /\ UNCHANGED <<exists, count, stopped, reading, owing, deaths>>

\* Mutant: the limit is tested on the count read before the UPDATE.
IncrementStale(t) ==
    /\ exists /\ Free(t)
    /\ count < MaxCount
    /\ count' = count + 1
    /\ phase' = "review"
    /\ owing' = IF ShouldEscalate(count) THEN owing \cup {t} ELSE owing
    /\ UNCHANGED <<exists, stopped, reading, deaths>>

\* increment_iteration(): the UPDATE.
IncrementIteration(t) ==
    /\ exists /\ Free(t)
    /\ count < MaxCount
    /\ count' = count + 1
    /\ phase' = "review"
    /\ reading' = reading \cup {t}
    /\ UNCHANGED <<exists, stopped, owing, deaths>>

\* increment_iteration(): the SELECT of the count, and the end of the locked
\* region.  What is read may be higher than what the caller wrote.
ReadBack(t) ==
    /\ t \in reading
    /\ reading' = reading \ {t}
    /\ owing' = IF ShouldEscalate(count) THEN owing \cup {t} ELSE owing
    /\ UNCHANGED <<row, deaths>>

\* The UPDATE of escalate().
SetEscalated ==
    /\ phase' = "escalate"
    /\ stopped' = TRUE
    /\ UNCHANGED <<exists, count, reading, deaths>>

\* increment_iteration(), second locked region.
EscalateOwed(t) ==
    /\ t \in owing
    /\ SetEscalated
    /\ owing' = owing \ {t}

Escalate(t) ==
    /\ exists /\ Free(t)
    /\ SetEscalated
    /\ UNCHANGED owing

\* The caller dies after its UPDATE and before its escalation.
CallerDies(t) ==
    /\ ~Free(t)
    /\ deaths < MaxDeaths
    /\ deaths' = deaths + 1
    /\ reading' = reading \ {t}
    /\ owing' = owing \ {t}
    /\ UNCHANGED row

FinishIncrement(t) == ReadBack(t) \/ EscalateOwed(t)

AuditNext ==
    \/ EnsureAuditRun
    \/ \E t \in Threads :
          \/ \E new \in Phases : AdvancePhase(t, new)
          \/ IncrementIteration(t)
          \/ FinishIncrement(t)
          \/ Escalate(t)
          \/ CallerDies(t)

AuditSpec == AuditInit /\ [][AuditNext]_auditVars

\* A thread that has entered increment_iteration runs to its end.
FairAuditSpec == AuditSpec /\ \A t \in Threads : WF_auditVars(FinishIncrement(t))

-----------------------------------------------------------------------------
AuditTypeOK ==
    /\ exists \in BOOLEAN
    /\ phase \in Phases
    /\ count \in 0 .. MaxCount
    /\ stopped \in BOOLEAN
    /\ reading \subseteq Threads
    /\ owing \subseteq Threads
    /\ deaths \in 0 .. MaxDeaths

\* Calls of increment_iteration that had to escalate.
OverBudget == IF count >= MaxIterations THEN count - MaxIterations + 1 ELSE 0

\* A killed caller loses at most the one escalation it owed: as soon as more
\* calls had to escalate than callers were killed on the way, the stop reason
\* is recorded or a caller is about to read the count or to record it, however
\* the callers interleave inside increment_iteration.
EscalationNotLost ==
    OverBudget > deaths => stopped \/ reading \cup owing # {}

\* Reaching MAX_ITERATIONS leads to the escalation being recorded, unless a
\* caller was killed on the way.
EscalationFollows == count >= MaxIterations ~> (stopped \/ deaths > 0)
=============================================================================
