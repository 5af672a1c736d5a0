------------------------------ MODULE RunnerQueue ------------------------------
(***************************************************************************)
(* The Redis task queue and the scripts an agent runs against it           *)
(* (scripts/runner/claim_task.py, mark_done.py, mark_failed.py): a sorted  *)
(* set queue:pending and a hash per task.                                  *)
(*                                                                         *)
(* A script is a sequence of Redis commands and each command is one step,  *)
(* so scripts of other agents run in between.  An agent works on one task  *)
(* at a time: claim, work, then mark done or failed.  When the connection  *)
(* drops after the last command of mark_failed the agent cannot know that  *)
(* the task is queued, and runs the script again.                          *)
(***************************************************************************)
EXTENDS Integers, FiniteSets

CONSTANTS
    Runners,    \* agents, one script at a time each
    Stories,    \* story ids, numbered in the order Redis compares members
    Priority,   \* the priority field of a task's hash, in halves
    MaxFails,   \* bound: mark_failed calls for work that failed
    MaxReruns,  \* bound: mark_failed calls whose reply is lost
    MaxKills,   \* bound: agents killed
    NoStory, NoRunner

ASSUME RunnerConstants ==
    /\ Stories \subseteq Nat
    /\ IsFiniteSet(Stories)
    /\ Priority \in [Stories -> Nat]
    /\ MaxFails \in Nat /\ MaxReruns \in Nat /\ MaxKills \in Nat
    /\ NoStory \notin Stories
    /\ NoRunner \notin Runners

\* Not a member of queue:pending.
NotQueued == -1

Places == {"idle", "popped", "accepted", "rejected", "holding", "confirming",
           "failing", "unsure"}

VARIABLES
    pending,  \* queue:pending, the score of each member
    mark,     \* the status field of each task's hash
    assignee, \* its assigned_agent field
    at,       \* the command an agent's script runs next
    on,       \* the story id the script or the agent works on
    score,    \* the score claim_task popped
    fails, reruns, kills

redis      == <<pending, mark, assignee>>
counts     == <<fails, reruns, kills>>
runnerVars == <<pending, mark, assignee, at, on, score, fails, reruns, kills>>

RunnerInit ==
    /\ pending = Priority
    /\ mark = [t \in Stories |-> "pending"]
    /\ assignee = [t \in Stories |-> NoRunner]
    /\ at = [a \in Runners |-> "idle"]
    /\ on = [a \in Runners |-> NoStory]
    /\ score = [a \in Runners |-> 0]
    /\ fails = 0 /\ reruns = 0 /\ kills = 0

Queued(t) == pending[t] # NotQueued

\* ZPOPMIN: the lowest score, and among equals the lowest member.
First(t) ==
    /\ Queued(t)
    /\ \A u \in Stories : Queued(u) =>
          pending[t] < pending[u] \/ (pending[t] = pending[u] /\ t <= u)

Goto(a, place) == at' = [at EXCEPT ![a] = place]

\* The script ends and its agent has no task.
LetGo(a) == Goto(a, "idle") /\ on' = [on EXCEPT ![a] = NoStory]

-----------------------------------------------------------------------------
\* Mutant: ZRANGE for ZPOPMIN, the head stays in the queue.
ClaimPeek(a, t) ==
    /\ at[a] = "idle"
    /\ First(t)
    /\ score' = [score EXCEPT ![a] = pending[t]]
    /\ on' = [on EXCEPT ![a] = t]
    /\ Goto(a, "popped")
    /\ UNCHANGED <<redis, counts>>

\* claim_task.py: ZPOPMIN; an empty queue ends the script.
ClaimPop(a, t) ==
    /\ at[a] = "idle"
    /\ First(t)
    /\ pending' = [pending EXCEPT ![t] = NotQueued]
    /\ score' = [score EXCEPT ![a] = pending[t]]
    /\ on' = [on EXCEPT ![a] = t]
    /\ Goto(a, "popped")
    /\ UNCHANGED <<mark, assignee, counts>>

\* Mutant: a failed task is not claimable.
TakesPending(s) == s = "pending"

\* status in (None, "pending", "needs_fix").
Takes(s) == s \in {"pending", "needs_fix"}

\* HGET status.
ClaimCheck(a) ==
    /\ at[a] = "popped"
    /\ Goto(a, IF Takes(mark[on[a]]) THEN "accepted" ELSE "rejected")
    /\ UNCHANGED <<redis, on, score, counts>>

\* ZADD with the popped score, then exit 3.
ClaimRequeue(a) ==
    /\ at[a] = "rejected"
    /\ pending' = [pending EXCEPT ![on[a]] = score[a]]
    /\ LetGo(a)
    /\ UNCHANGED <<mark, assignee, score, counts>>

\* HSET status claimed, assigned_agent.
ClaimSet(a) ==
    /\ at[a] = "accepted"
    /\ mark' = [mark EXCEPT ![on[a]] = "claimed"]
    /\ assignee' = [assignee EXCEPT ![on[a]] = a]
    /\ Goto(a, "holding")
    /\ UNCHANGED <<pending, on, score, counts>>

-----------------------------------------------------------------------------
\* mark_done.py: HGET status; anything but claimed ends the script.
DoneRead(a) ==
    /\ at[a] = "holding"
    /\ IF mark[on[a]] = "claimed"
       THEN Goto(a, "confirming") /\ UNCHANGED on
       ELSE LetGo(a)
    /\ UNCHANGED <<redis, score, counts>>

\* HSET status done.
DoneSet(a) ==
    /\ at[a] = "confirming"
    /\ mark' = [mark EXCEPT ![on[a]] = "done"]
    /\ LetGo(a)
    /\ UNCHANGED <<pending, assignee, score, counts>>

\* mark_failed.py: HGET priority and HSET status needs_fix, whatever it was.
FailSet(a) ==
    /\ \/ at[a] = "holding" /\ fails < MaxFails /\ fails' = fails + 1
       \/ at[a] = "unsure" /\ UNCHANGED fails
    /\ mark' = [mark EXCEPT ![on[a]] = "needs_fix"]
    /\ Goto(a, "failing")
    /\ UNCHANGED <<pending, assignee, on, score, reruns, kills>>

\* max(0, priority - 0.5).
Raised(t) == IF Priority[t] > 1 THEN Priority[t] - 1 ELSE 0

\* Mutant: the status alone is meant to bring the task back.
FailAddNothing(a) ==
    /\ at[a] = "failing"
    /\ LetGo(a)
    /\ UNCHANGED <<redis, score, counts>>

\* ZADD with the raised priority.  When the reply is lost the agent keeps the
\* task and runs the script again.
FailAdd(a) ==
    /\ at[a] = "failing"
    /\ pending' = [pending EXCEPT ![on[a]] = Raised(on[a])]
    /\ \/ LetGo(a) /\ UNCHANGED reruns
       \/ /\ reruns < MaxReruns
          /\ reruns' = reruns + 1
          /\ Goto(a, "unsure")
          /\ UNCHANGED on
    /\ UNCHANGED <<mark, assignee, score, fails, kills>>

\* The agent, or the script it runs, is killed.
RunnerDies(a) ==
    /\ at[a] # "idle"
    /\ kills < MaxKills
    /\ kills' = kills + 1
    /\ LetGo(a)
    /\ UNCHANGED <<redis, score, fails, reruns>>

ScriptStep(a) ==
    \/ \E t \in Stories : ClaimPop(a, t)
    \/ ClaimCheck(a) \/ ClaimRequeue(a) \/ ClaimSet(a)
    \/ DoneRead(a) \/ DoneSet(a)
    \/ FailSet(a) \/ FailAdd(a)

RunnerNext == \E a \in Runners : ScriptStep(a) \/ RunnerDies(a)

RunnerSpec == RunnerInit /\ [][RunnerNext]_runnerVars

\* Runners keep asking for work, and a script that was started runs on.
FairRunnerSpec == RunnerSpec /\ \A a \in Runners : WF_runnerVars(ScriptStep(a))

-----------------------------------------------------------------------------
RunnerTypeOK ==
    /\ pending \in [Stories -> Nat \cup {NotQueued}]
    /\ mark \in [Stories -> {"pending", "claimed", "needs_fix", "done"}]
    /\ assignee \in [Stories -> Runners \cup {NoRunner}]
    /\ at \in [Runners -> Places]
    /\ on \in [Runners -> Stories \cup {NoStory}]
    /\ score \in [Runners -> Nat]
    /\ fails \in 0 .. MaxFails /\ reruns \in 0 .. MaxReruns /\ kills \in 0 .. MaxKills

InHand(t) == {a \in Runners : on[a] = t}

\* The scripts never compare assigned_agent, and still no task is given to two
\* agents or claimed from the queue while somebody works on it, as long as no
\* mark_failed is run twice: every requeue follows a claim and the claim took
\* the task out of the queue.
OneHolder ==
    reruns = 0 =>
        /\ \A a, b \in Runners : on[a] = on[b] /\ on[a] # NoStory => a = b
        /\ \A a \in Runners : on[a] # NoStory => ~Queued(on[a])
        /\ \A a \in Runners : at[a] \in {"holding", "confirming"} =>
              mark[on[a]] = "claimed" /\ assignee[on[a]] = a

\* A task nobody will ever see again: not done, not queued, in no hand.
Stranded == {t \in Stories : mark[t] # "done" /\ ~Queued(t) /\ InHand(t) = {}}

\* The pop, the claim and the requeue are separate commands, and only an agent
\* that dies between them loses a task: never more tasks than agents died,
\* scripts that are run twice included.
LossesAccounted == Cardinality(Stranded) <= kills

\* Every task is done or was lost with an agent.
WorkedOff == reruns = 0 => \A t \in Stories : mark[t] = "done" \/ t \in Stranded

\* The queue is worked off, although work fails and tasks are handed out again,
\* unless a mark_failed was run twice.
EventuallyWorkedOff == <>[]WorkedOff
=============================================================================
