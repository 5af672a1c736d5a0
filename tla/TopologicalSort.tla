--------------------------- MODULE TopologicalSort ---------------------------
(***************************************************************************)
(* topological_sort (src/worklist_seed.py): Kahn's algorithm over the      *)
(* tasks of a worklist, one step per task taken from the queue.            *)
(*                                                                         *)
(* A task is its integer id.  The ids of the list are distinct and every   *)
(* blocker is in the list (the code raises KeyError otherwise).            *)
(***************************************************************************)
EXTENDS Integers, Sequences, SequencesExt, FiniteSets

CONSTANT TaskIds

ASSUME TaskIdsAssumption == TaskIds \subseteq Nat /\ IsFiniteSet(TaskIds)

VARIABLES
    blockers,  \* the argument: the blockers of every task
    inDegree,  \* in_degree
    queue,     \* queue (a deque)
    ordered,   \* ordered
    result     \* "running", "ordered" or "cycle" (ValueError)

vars == <<blockers, inDegree, queue, ordered, result>>

\* The elements of a set in ascending order.
Ascending(S) ==
    CHOOSE s \in [1 .. Cardinality(S) -> S] : \A i, j \in DOMAIN s : i < j => s[i] < s[j]

\* The two loops before the while.
InDegrees(B) == [t \in TaskIds |-> Cardinality(B[t])]

\* Mutant: the queue starts with every task that does not block itself.
SourcesAll(B) == {t \in TaskIds : t \notin B[t]}

Sources(B) == {t \in TaskIds : B[t] = {}}

Init ==
    /\ blockers \in [TaskIds -> SUBSET TaskIds]
    /\ inDegree = InDegrees(blockers)
    /\ queue = Ascending(Sources(blockers))
    /\ ordered = <<>>
    /\ result = "running"

Dependents(t) == {d \in TaskIds : t \in blockers[d]}

\* One pass of the while loop: the dependents of the head lose one blocker,
\* and those that have none left are queued in ascending order.
Take ==
    LET t == Head(queue) IN
    /\ result = "running" /\ queue # <<>>
    /\ ordered' = Append(ordered, t)
    /\ inDegree' = [d \in TaskIds |->
                       IF d \in Dependents(t) THEN inDegree[d] - 1 ELSE inDegree[d]]
    /\ queue' = Tail(queue) \o Ascending({d \in Dependents(t) : inDegree'[d] = 0})
    /\ UNCHANGED <<blockers, result>>

\* The check after the loop.
Finish ==
    /\ result = "running" /\ queue = <<>>
    /\ result' = IF Len(ordered) # Cardinality(TaskIds) THEN "cycle" ELSE "ordered"
    /\ UNCHANGED <<blockers, inDegree, queue, ordered>>

Next == Take \/ Finish

Spec == Init /\ [][Next]_vars

-----------------------------------------------------------------------------
TypeOK ==
    /\ blockers \in [TaskIds -> SUBSET TaskIds]
    /\ inDegree \in [TaskIds -> Nat]
    /\ queue \in Seq(TaskIds)
    /\ ordered \in Seq(TaskIds)
    /\ result \in {"running", "ordered", "cycle"}

\* Every task put out so far comes after all of its blockers, and no task is
\* put out or queued twice: the list handed to seed() inserts blockers first.
BlockersFirst ==
    /\ IsInjective(ordered \o queue)
    /\ \A i \in DOMAIN ordered : \A b \in blockers[ordered[i]] :
          \E j \in DOMAIN ordered : j < i /\ ordered[j] = b

\* A set of tasks in which each is blocked by another one of the set.
HasCycle ==
    \E S \in (SUBSET TaskIds) \ {{}} : \A t \in S : blockers[t] \cap S # {}

\* ValueError is raised exactly for the inputs with a dependency cycle, and
\* otherwise the whole list comes out.
CycleDetected ==
    /\ result = "cycle" => HasCycle
    /\ result = "ordered" => ~HasCycle /\ Range(ordered) = TaskIds

\* topological_sort puts out blockers first and raises exactly on a cycle.
SortCorrect == BlockersFirst /\ CycleDetected
=============================================================================
