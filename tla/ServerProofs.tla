----------------------------- MODULE ServerProofs -----------------------------
(***************************************************************************)
(* Proofs about what the server computes for itself: the order of the      *)
(* worklist's seed, the findings of the resource analyzers and the         *)
(* deterministic fixes, each for every value of its constants.             *)
(***************************************************************************)
EXTENDS TopologicalSort, FixTable, ResourceAnalyzers, FiniteOrders

-----------------------------------------------------------------------------
(* TopologicalSort *)

\* Blockers of a task that are not put out yet.
Waiting(t) == blockers[t] \ Range(ordered)

\* In-degrees count the blockers that a task still waits for, and a task is
\* put out or queued exactly when it waits for none.
KahnInv ==
    /\ TypeOK
    /\ \A t \in TaskIds : inDegree[t] = Cardinality(Waiting(t))
    /\ Range(ordered \o queue) = {t \in TaskIds : Waiting(t) = {}}
    /\ BlockersFirst
    /\ result # "running" =>
          queue = <<>> /\ (result = "cycle" <=> Len(ordered) # Cardinality(TaskIds))

\* Ascending lists a finite set of ids without repetition.
LEMMA AscendingLists ==
    ASSUME NEW S \in SUBSET TaskIds
    PROVE  /\ Ascending(S) \in Seq(TaskIds)
           /\ IsInjective(Ascending(S))
           /\ Range(Ascending(S)) = S
<1> DEFINE n == Cardinality(S)
           UpTo(x) == {y \in S : y <= x}
           rank == [x \in S |-> Cardinality(UpTo(x))]
<1>1. S \in SUBSET Nat /\ IsFiniteSet(S) /\ n \in Nat
  BY TaskIdsAssumption, FS_Subset, FS_CardinalityType
<1>2. ASSUME NEW x \in S
      PROVE  /\ IsFiniteSet(UpTo(x)) /\ Cardinality(UpTo(x)) \in Nat
             /\ rank[x] = Cardinality(UpTo(x)) /\ rank[x] \in 1 .. n
  <2>1. UpTo(x) \in SUBSET S /\ x \in UpTo(x)
    BY <1>1
  <2>2. IsFiniteSet(UpTo(x)) /\ Cardinality(UpTo(x)) <= n /\ Cardinality(UpTo(x)) \in Nat
    BY <1>1, <2>1, FS_Subset, FS_CardinalityType
  <2>3. Cardinality(UpTo(x)) # 0
    BY <2>1, <2>2, FS_EmptySet
  <2> HIDE DEF UpTo
  <2> QED BY <1>1, <2>2, <2>3
<1>3. ASSUME NEW x \in S, NEW y \in S, x < y PROVE rank[x] < rank[y]
  <2>1. \A z \in S : z <= x => z <= y
    BY <1>1, <1>3
  <2>2. UpTo(x) \in SUBSET UpTo(y)
    BY <2>1
  <2>3. y \in UpTo(y) /\ y \notin UpTo(x)
    BY <1>1, <1>3
  <2>4. Cardinality(UpTo(x)) <= Cardinality(UpTo(y)) /\ Cardinality(UpTo(x)) # Cardinality(UpTo(y))
    BY <1>2, <2>2, <2>3, FS_Subset
  <2> HIDE DEF UpTo
  <2> QED BY <1>2, <2>4
<1>4. rank \in Surjection(S, 1 .. n)
  <2>1. rank \in [S -> 1 .. n]
    BY <1>2
  <2>2. \A x, y \in S : x # y => x < y \/ y < x
    BY <1>1
  <2>3. \A x, y \in S : rank[x] = rank[y] => x = y
    <3>1. \A x \in S : rank[x] \in Int
      BY <1>2
    <3> HIDE DEF rank
    <3> QED BY <1>3, <2>2, <3>1
  <2>4. rank \in Injection(S, 1 .. n)
    BY <2>1, <2>3 DEF Injection, IsInjective
  <2>5. IsFiniteSet(1 .. n) /\ Cardinality(1 .. n) = n
    BY <1>1, FS_Interval
  <2> HIDE DEF rank
  <2> QED BY <2>4, <2>5, FS_Injection
<1>5. \E s \in [1 .. n -> S] : \A i, j \in DOMAIN s : i < j => s[i] < s[j]
  <2> DEFINE s == [i \in 1 .. n |-> CHOOSE x \in S : rank[x] = i]
  <2> HIDE DEF rank
  <2>1. \A i \in 1 .. n : s[i] \in S /\ rank[s[i]] = i
    BY <1>4 DEF Surjection
  <2>2. s \in [1 .. n -> S]
    BY <2>1
  <2> HIDE DEF s, n
  <2>3. ASSUME NEW i \in 1 .. n, NEW j \in 1 .. n, i < j PROVE s[i] < s[j]
    <3>1. s[i] \in S /\ s[j] \in S /\ s[i] \in Nat /\ s[j] \in Nat
      BY <1>1, <2>1
    <3>2. s[i] # s[j]
      BY <1>1, <2>1, <2>3
    <3>3. ~(s[j] < s[i])
      <4>1. s[j] < s[i] => rank[s[j]] < rank[s[i]]
        BY <1>3, <3>1
      <4> QED BY <1>1, <2>1, <2>3, <4>1
    <3> QED BY <3>1, <3>2, <3>3
  <2> QED BY <2>2, <2>3
<1>6. /\ Ascending(S) \in [1 .. n -> S]
      /\ \A i, j \in 1 .. n : i < j => Ascending(S)[i] < Ascending(S)[j]
  BY <1>5 DEF Ascending
<1>7. IsInjective(Ascending(S))
  <2>1. ASSUME NEW i \in 1 .. n, NEW j \in 1 .. n, Ascending(S)[i] = Ascending(S)[j] PROVE i = j
    <3>1. Ascending(S)[i] \in Nat /\ Ascending(S)[j] \in Nat
      BY <1>1, <1>6
    <3> QED BY <1>1, <1>6, <2>1, <3>1
  <2> QED BY <1>6, <2>1 DEF IsInjective
<1>8. Ascending(S) \in Injection(1 .. n, S)
  BY <1>6, <1>7 DEF Injection
<1>9. Ascending(S) \in Surjection(1 .. n, S)
  BY <1>1, <1>8, FS_Interval, FS_Injection
<1>10. Range(Ascending(S)) = S
  BY <1>6, <1>9 DEF Surjection, Range
<1>11. Ascending(S) \in Seq(TaskIds)
  <2> HIDE DEF n
  <2>1. Ascending(S) \in [1 .. n -> TaskIds]
    BY <1>6
  <2> QED BY <1>1, <2>1
<1> QED BY <1>7, <1>10, <1>11

LEMMA KahnInit == Init => KahnInv
<1> SUFFICES ASSUME Init PROVE KahnInv
  OBVIOUS
<1> DEFINE first == Sources(blockers)
<1>1. /\ blockers \in [TaskIds -> SUBSET TaskIds] /\ inDegree = InDegrees(blockers)
      /\ queue = Ascending(first) /\ ordered = <<>> /\ result = "running"
  BY DEF Init
<1>2. first \in SUBSET TaskIds
  BY DEF Sources
<1>3. queue \in Seq(TaskIds) /\ IsInjective(queue) /\ Range(queue) = first
  BY <1>1, <1>2, AscendingLists
<1>4. /\ ordered \in Seq(TaskIds) /\ Range(ordered) = {} /\ DOMAIN ordered = {}
      /\ ordered \o queue = queue
  <2>1. ordered \in Seq(TaskIds) /\ DOMAIN ordered = {}
    BY <1>1
  <2> QED BY <1>1, <1>3, <2>1, ConcatEmptySeq DEF Range
<1>5. \A t \in TaskIds : Waiting(t) = blockers[t]
  BY <1>4 DEF Waiting
<1>6. \A t \in TaskIds : inDegree[t] = Cardinality(Waiting(t)) /\ inDegree[t] \in Nat
  <2> TAKE t \in TaskIds
  <2>1. blockers[t] \in SUBSET TaskIds
    BY <1>1
  <2>2. Cardinality(blockers[t]) \in Nat
    BY <2>1, TaskIdsAssumption, FS_Subset, FS_CardinalityType
  <2> QED BY <1>1, <1>5, <2>2 DEF InDegrees
<1>7. TypeOK
  BY <1>1, <1>3, <1>4, <1>6 DEF TypeOK, InDegrees
<1>8. Range(ordered \o queue) = {t \in TaskIds : Waiting(t) = {}}
  BY <1>3, <1>4, <1>5 DEF Sources
<1>9. BlockersFirst
  BY <1>3, <1>4 DEF BlockersFirst
<1> QED
  BY <1>1, <1>6, <1>7, <1>8, <1>9 DEF KahnInv

LEMMA KahnTake == KahnInv /\ Take => KahnInv'
<1> SUFFICES ASSUME KahnInv, Take PROVE KahnInv'
  OBVIOUS
<1> DEFINE t    == Head(queue)
           line == ordered \o queue
           new  == {d \in Dependents(t) : inDegree'[d] = 0}
<1>1. /\ blockers \in [TaskIds -> SUBSET TaskIds] /\ inDegree \in [TaskIds -> Nat]
      /\ queue \in Seq(TaskIds) /\ ordered \in Seq(TaskIds)
  BY DEF KahnInv, TypeOK
<1>2. /\ queue # <<>> /\ result = "running" /\ blockers' = blockers /\ result' = result
      /\ ordered' = Append(ordered, t)
      /\ inDegree' = [d \in TaskIds |->
                         IF d \in Dependents(t) THEN inDegree[d] - 1 ELSE inDegree[d]]
      /\ queue' = Tail(queue) \o Ascending(new)
  BY DEF Take
<1>3. new \in SUBSET TaskIds
  BY DEF Dependents
<1>4. Ascending(new) \in Seq(TaskIds) /\ IsInjective(Ascending(new)) /\ Range(Ascending(new)) = new
  BY <1>3, AscendingLists
<1>5. t \in TaskIds /\ Tail(queue) \in Seq(TaskIds)
  BY <1>1, <1>2, HeadTailProperties
<1>6. ordered' \in Seq(TaskIds) /\ queue' \in Seq(TaskIds)
  BY <1>1, <1>2, <1>4, <1>5, ConcatProperties, AppendProperties
<1>7. (ordered \o queue)' = line \o Ascending(new)
  <2> HIDE DEF new
  <2>1. Append(ordered, Head(queue)) \o (Tail(queue) \o Ascending(new)) = line \o Ascending(new)
    <3>1. Append(ordered, t) \in Seq(TaskIds) /\ Append(ordered, t) \o Tail(queue) = line
      BY <1>1, <1>2, <1>5, MoveHead
    <3> DEFINE x == Append(ordered, t)
               y == Tail(queue)
               z == Ascending(new)
    <3>2. x \in Seq(TaskIds) /\ y \in Seq(TaskIds) /\ z \in Seq(TaskIds) /\ x \o y = line
      BY <1>4, <1>5, <3>1
    <3> HIDE DEF x, y, z, line
    <3>3. (x \o y) \o z = x \o (y \o z)
      <4>1. \A a, b, c \in Seq(TaskIds) : (a \o b) \o c = a \o (b \o c)
        BY ConcatAssociative
      <4> QED BY <3>2, <4>1
    <3> QED BY <3>2, <3>3 DEF x, y, z
  <2> QED BY <1>2, <2>1
<1>8. Range(line) = {d \in TaskIds : Waiting(d) = {}} /\ IsInjective(line) /\ line \in Seq(TaskIds)
  BY <1>1, ConcatProperties DEF KahnInv, BlockersFirst
<1>9. t \in Range(queue) /\ Range(ordered) \cap Range(queue) = {}
  <2>1. t = queue[1] /\ 1 \in DOMAIN queue
    BY <1>1, <1>2
  <2>2. t \in Range(queue)
    BY <2>1 DEF Range
  <2> QED BY <1>1, <1>8, <2>2, ConcatInjective
<1>10. Waiting(t) = {} /\ t \notin Range(ordered)
  BY <1>1, <1>8, <1>9, RangeConcatenation
<1>11. Range(ordered') = Range(ordered) \cup {t}
  <2>1. /\ DOMAIN ordered' = 1 .. Len(ordered) + 1 /\ ordered'[Len(ordered) + 1] = t
        /\ \A i \in 1 .. Len(ordered) : ordered'[i] = ordered[i]
        /\ DOMAIN ordered = 1 .. Len(ordered) /\ Len(ordered) \in Nat
    BY <1>1, <1>2, <1>5, AppendProperties, LenProperties
  <2> QED BY <2>1 DEF Range
<1>12. \A d \in TaskIds : Waiting(d)' = Waiting(d) \ {t}
  BY <1>2, <1>11 DEF Waiting
<1>13. \A d \in TaskIds : d \in Dependents(t) <=> t \in Waiting(d)
  BY <1>10 DEF Dependents, Waiting
<1>14. \A d \in TaskIds : inDegree'[d] = Cardinality(Waiting(d)') /\ inDegree'[d] \in Nat
                          /\ (inDegree'[d] = 0 <=> Waiting(d)' = {})
  <2> TAKE d \in TaskIds
  <2>1. Waiting(d) \in SUBSET TaskIds
    BY <1>1 DEF Waiting
  <2>2. IsFiniteSet(Waiting(d)) /\ inDegree[d] = Cardinality(Waiting(d))
    BY <2>1, TaskIdsAssumption, FS_Subset DEF KahnInv
  <2>3. inDegree'[d] = IF t \in Waiting(d) THEN inDegree[d] - 1 ELSE inDegree[d]
    BY <1>2, <1>13
  <2>4. /\ IsFiniteSet(Waiting(d) \ {t})
        /\ Cardinality(Waiting(d) \ {t}) = IF t \in Waiting(d) THEN Cardinality(Waiting(d)) - 1
                                                               ELSE Cardinality(Waiting(d))
    BY <2>2, FS_RemoveElement
  <2>5. inDegree'[d] = Cardinality(Waiting(d) \ {t})
    BY <2>2, <2>3, <2>4
  <2> QED BY <1>12, <2>4, <2>5, FS_EmptySet, FS_CardinalityType
<1>15. new = {d \in TaskIds : t \in Waiting(d) /\ Waiting(d)' = {}}
  BY <1>3, <1>13, <1>14
<1>16. TypeOK'
  BY <1>1, <1>2, <1>6, <1>14 DEF TypeOK, KahnInv
<1>17. Range((ordered \o queue)') = {d \in TaskIds : Waiting(d)' = {}}
  <2>1. Range((ordered \o queue)') = Range(line) \cup new
    <3> HIDE DEF new, line
    <3>1. Range(line \o Ascending(new)) = Range(line) \cup Range(Ascending(new))
      BY <1>4, <1>8, RangeConcatenation
    <3> QED BY <1>4, <1>7, <3>1
  <2> QED BY <1>8, <1>12, <1>15, <2>1
<1>18. IsInjective((ordered \o queue)')
  <2>1. Range(line) \cap new = {}
    BY <1>8, <1>15
  <2> QED BY <1>4, <1>7, <1>8, <2>1, ConcatInjective
<1>19. ASSUME NEW i \in DOMAIN ordered', NEW b \in blockers'[ordered'[i]]
       PROVE  \E j \in DOMAIN ordered' : j < i /\ ordered'[j] = b
  <2>1. /\ DOMAIN ordered' = 1 .. Len(ordered) + 1 /\ ordered'[Len(ordered) + 1] = t
        /\ \A k \in 1 .. Len(ordered) : ordered'[k] = ordered[k]
        /\ DOMAIN ordered = 1 .. Len(ordered) /\ Len(ordered) \in Nat
    BY <1>1, <1>2, <1>5, AppendProperties, LenProperties
  <2>2. CASE i \in DOMAIN ordered
    <3>1. PICK j \in DOMAIN ordered : j < i /\ ordered[j] = b
      BY <1>2, <1>19, <2>1, <2>2 DEF KahnInv, BlockersFirst
    <3> QED BY <2>1, <3>1
  <2>3. CASE i = Len(ordered) + 1
    <3>1. b \in Range(ordered)
      BY <1>2, <1>10, <1>19, <2>1, <2>3 DEF Waiting
    <3>2. PICK j \in DOMAIN ordered : ordered[j] = b
      BY <3>1 DEF Range
    <3> QED BY <2>1, <2>3, <3>2
  <2> QED BY <2>1, <2>2, <2>3
<1>20. BlockersFirst'
  BY <1>18, <1>19 DEF BlockersFirst
<1> QED
  BY <1>2, <1>14, <1>16, <1>17, <1>20 DEF KahnInv

LEMMA KahnNext == KahnInv /\ [Next]_vars => KahnInv'
<1> SUFFICES ASSUME KahnInv, Next \/ UNCHANGED vars PROVE KahnInv'
  OBVIOUS
<1>1. CASE Take
  BY <1>1, KahnTake
<1>2. CASE Finish
  <2>1. /\ UNCHANGED <<blockers, inDegree, queue, ordered>> /\ queue = <<>>
        /\ result' = IF Len(ordered) # Cardinality(TaskIds) THEN "cycle" ELSE "ordered"
    BY <1>2 DEF Finish
  <2> QED BY <2>1 DEF KahnInv, TypeOK, BlockersFirst, Waiting
<1>3. CASE UNCHANGED vars
  BY <1>3 DEF vars, KahnInv, TypeOK, BlockersFirst, Waiting
<1> QED
  BY <1>1, <1>2, <1>3 DEF Next

\* Of a set of tasks that are all put out, the first one has its blockers
\* before it, so none of them is in the set.
LEMMA PutOutHasNoCycle ==
    ASSUME KahnInv, NEW S \in SUBSET TaskIds, S # {}, S \subseteq Range(ordered)
    PROVE  \E t \in S : blockers[t] \cap S = {}
<1> DEFINE places == {i \in DOMAIN ordered : ordered[i] \in S}
<1>1. ordered \in Seq(TaskIds) /\ DOMAIN ordered \in SUBSET Nat
  BY DEF KahnInv, TypeOK
<1>2. PICK i \in places : \A j \in places : i <= j
  <2>1. places \in SUBSET Nat /\ places # {}
    BY <1>1 DEF Range
  <2> HIDE DEF places
  <2> QED BY <2>1, LeastExists
<1>3. ASSUME NEW b \in blockers[ordered[i]] \cap S PROVE FALSE
  <2>1. PICK j \in DOMAIN ordered : j < i /\ ordered[j] = b
    BY <1>2, <1>3 DEF KahnInv, BlockersFirst
  <2> QED BY <1>1, <1>2, <1>3, <2>1
<1> QED BY <1>2, <1>3

LEMMA KahnImpliesSorted == KahnInv => SortCorrect
<1> SUFFICES ASSUME KahnInv PROVE CycleDetected
  BY DEF KahnInv, SortCorrect
<1>1. /\ ordered \in Seq(TaskIds) /\ IsFiniteSet(TaskIds) /\ Range(ordered) \in SUBSET TaskIds
      /\ IsInjective(ordered \o queue) /\ queue \in Seq(TaskIds)
  BY TaskIdsAssumption, RangeOfSeq DEF KahnInv, TypeOK, BlockersFirst
<1>2. IsInjective(ordered) /\ DOMAIN ordered = 1 .. Len(ordered) /\ Len(ordered) \in Nat
  BY <1>1, ConcatInjective, LenProperties
<1>3. Cardinality(Range(ordered)) = Len(ordered)
  <2>1. ordered \in [1 .. Len(ordered) -> Range(ordered)]
    BY <1>1, <1>2 DEF Range
  <2>2. \A x \in Range(ordered) : \E i \in 1 .. Len(ordered) : ordered[i] = x
    BY <1>2 DEF Range
  <2>3. ordered \in Bijection(1 .. Len(ordered), Range(ordered))
    BY <1>2, <2>1, <2>2 DEF Bijection, Injection, Surjection
  <2> QED BY <1>2, <2>3, FS_CountingElements DEF ExistsBijection
<1>4. ASSUME result = "cycle" PROVE HasCycle
  <2> DEFINE S == TaskIds \ Range(ordered)
  <2>1. queue = <<>> /\ Len(ordered) # Cardinality(TaskIds)
    BY <1>4 DEF KahnInv
  <2>2. S # {}
    BY <1>1, <1>3, <2>1
  <2>3. Range(ordered) = {t \in TaskIds : Waiting(t) = {}}
    BY <1>1, <2>1, ConcatEmptySeq DEF KahnInv
  <2>4. \A t \in S : blockers[t] \cap S # {}
    BY <2>3 DEF Waiting, KahnInv, TypeOK
  <2> QED BY <2>2, <2>4 DEF HasCycle
<1>5. ASSUME result = "ordered" PROVE ~HasCycle /\ Range(ordered) = TaskIds
  <2>1. Len(ordered) = Cardinality(TaskIds)
    BY <1>5 DEF KahnInv
  <2>2. Range(ordered) = TaskIds
    BY <1>1, <1>3, <2>1, FS_Subset
  <2>3. ASSUME NEW S \in (SUBSET TaskIds) \ {{}} PROVE \E t \in S : blockers[t] \cap S = {}
    BY <2>2, PutOutHasNoCycle
  <2> QED BY <2>2, <2>3 DEF HasCycle
<1> QED BY <1>4, <1>5 DEF CycleDetected

\* topological_sort puts every task out after its blockers, none twice, and
\* raises exactly on a dependency cycle.
THEOREM SortIsCorrect == Spec => []SortCorrect
<1> QED
  BY KahnInit, KahnNext, KahnImpliesSorted, PTL DEF Spec

-----------------------------------------------------------------------------
(* FixTable *)

\* What was dispatched last is what dispatch makes of the finding.
FixInv ==
    /\ report \in Reports
    /\ \/ fix = Fix(NoHandler, 0)
       \/ \E v \in Dispatch(report).values : fix = Fix(Dispatch(report), v)

\* dispatch takes the first handler that applies.
LEMMA DispatchTakesFirst ==
    ASSUME NEW f, Dispatch(f) # NoHandler
    PROVE  \E i \in Matching(f) : Dispatch(f) = Registry(f)[i] /\ \A j \in Matching(f) : i <= j
<1>1. Matching(f) # {} /\ Dispatch(f) = Registry(f)[CHOOSE i \in Matching(f) : \A j \in Matching(f) : i <= j]
  BY DEF Dispatch
<1>2. Matching(f) \in SUBSET Nat
  BY DEF Matching, Registry
<1>3. \E i \in Matching(f) : \A j \in Matching(f) : i <= j
  BY <1>1, <1>2, LeastExists
<1> QED BY <1>1, <1>3

\* The handlers in the order of REGISTRY.
LEMMA RegistryEntries ==
    ASSUME NEW f
    PROVE  /\ DOMAIN Registry(f) = 1 .. 10
           /\ Registry(f)[1] = ImageTagMigration(f) /\ Registry(f)[2] = ProbeTuning(f)
           /\ Registry(f)[3] = OrphanJobCleanup(f) /\ Registry(f)[4] = OOMKilled(f)
           /\ Registry(f)[5] = PVCResize(f) /\ Registry(f)[6] = DNSConfigFix(f)
           /\ Registry(f)[7] = NodeSelectorMismatch(f) /\ Registry(f)[8] = TolerationMissing(f)
           /\ Registry(f)[9] = HPAEnableMetricsServer(f) /\ Registry(f)[10] = PDBTooStrict(f)
BY DEF Registry

\* When each handler applies.
LEMMA Applicable ==
    ASSUME NEW f \in Reports
    PROVE  /\ 1 \in Matching(f) => f.behavior = "image_tag_migration_remediation"
                                   /\ f.reason = "ImagePullBackOff"
           /\ 2 \in Matching(f) => f.behavior = "probe_tuning_remediation"
           /\ 3 \in Matching(f) => f.behavior = "orphan_job_remediation" /\ f.kind = "Job"
           /\ 4 \in Matching(f) => f.reason = "OOMKilled"
           /\ 5 \in Matching(f) => f.kind = "PersistentVolumeClaim"
           /\ 6 \in Matching(f) => f.behavior = "dns_resolution_failure"
           /\ 7 \in Matching(f) => f.reason = "Unschedulable"
           /\ 8 \in Matching(f) => f.reason = "Unschedulable"
           /\ 9 \in Matching(f) => f.kind = "HorizontalPodAutoscaler"
           /\ 10 \in Matching(f) => f.kind = "PodDisruptionBudget"
<1>1. \A i \in Matching(f) : Registry(f)[i].applies
  BY DEF Matching
<1>2. /\ ImageTagMigration(f).applies => f.behavior = "image_tag_migration_remediation"
                                         /\ f.reason = "ImagePullBackOff"
      /\ ProbeTuning(f).applies => f.behavior = "probe_tuning_remediation"
  BY DEF Handler, ImageTagMigration, ProbeTuning
<1>3. /\ OrphanJobCleanup(f).applies => f.behavior = "orphan_job_remediation" /\ f.kind = "Job"
      /\ OOMKilled(f).applies => f.reason = "OOMKilled"
  BY DEF Handler, OrphanJobCleanup, OOMKilled
<1>4. /\ PVCResize(f).applies => f.kind = "PersistentVolumeClaim"
      /\ DNSConfigFix(f).applies => f.behavior = "dns_resolution_failure"
  BY DEF Handler, PVCResize, DNSConfigFix
<1>5. /\ NodeSelectorMismatch(f).applies => f.reason = "Unschedulable"
      /\ TolerationMissing(f).applies => f.reason = "Unschedulable"
  BY DEF Handler, NodeSelectorMismatch, TolerationMissing
<1>6. HPAEnableMetricsServer(f).applies => f.kind = "HorizontalPodAutoscaler"
  BY DEF Handler, HPAEnableMetricsServer
<1>7. PDBTooStrict(f).applies => f.kind = "PodDisruptionBudget"
  BY DEF Handler, PDBTooStrict
<1> QED
  BY <1>1, <1>2, <1>3, <1>4, <1>5, <1>6, <1>7, RegistryEntries

\* The handlers that may raise, and the names of those that matter for Hides.
LEMMA Raising ==
    ASSUME NEW f \in Reports
    PROVE  /\ ~Registry(f)[2].raises /\ ~Registry(f)[3].raises
           /\ ~Registry(f)[6].raises /\ ~Registry(f)[9].raises
           /\ Registry(f)[4].handler = "OOMKilled" /\ Registry(f)[6].handler = "DNSConfigFix"
           /\ Registry(f)[7].handler = "NodeSelectorMismatch"
           /\ Registry(f)[8].handler = "TolerationMissing"
<1>1. ~ProbeTuning(f).raises /\ ~OrphanJobCleanup(f).raises
  BY DEF Handler, ProbeTuning, OrphanJobCleanup
<1>2. ~DNSConfigFix(f).raises /\ ~HPAEnableMetricsServer(f).raises
  BY DEF Handler, DNSConfigFix, HPAEnableMetricsServer
<1>3. OOMKilled(f).handler = "OOMKilled" /\ DNSConfigFix(f).handler = "DNSConfigFix"
  BY DEF Handler, OOMKilled, DNSConfigFix
<1>4. /\ NodeSelectorMismatch(f).handler = "NodeSelectorMismatch"
      /\ TolerationMissing(f).handler = "TolerationMissing"
  BY DEF Handler, NodeSelectorMismatch, TolerationMissing
<1> QED
  BY <1>1, <1>2, <1>3, <1>4, RegistryEntries

\* A handler that raises hides a later one only as Hides says.
LEMMA HidesOnly ==
    ASSUME NEW f \in Reports, ~Misfiled(f),
           NEW i \in Matching(f), NEW j \in Matching(f), i <= j,
           Registry(f)[i].raises, ~Registry(f)[j].raises
    PROVE  <<Registry(f)[i].handler, Registry(f)[j].handler>> \in Hides
<1>1. i \in 1 .. 10 /\ j \in 1 .. 10 /\ i < j
  BY RegistryEntries DEF Matching
<1>2. f.reason # "none" => f.kind = "Pod"
  BY DEF Misfiled
<1>3. f.behavior \notin {"orphan_job_remediation", "other"} => f.kind = "Pod"
  BY DEF Misfiled
<1>4. i \in {1, 4, 5, 7, 8}
  BY <1>1, Raising
<1>5. CASE i = 1
  BY <1>1, <1>2, <1>5, Applicable
<1>6. CASE i = 4
  <2>1. j = 6
    BY <1>1, <1>2, <1>6, Applicable
  <2> QED BY <1>6, <2>1, Raising DEF Hides
<1>7. CASE i = 5
  BY <1>1, <1>2, <1>3, <1>7, Applicable
<1>8. CASE i = 7
  <2>1. j = 8
    BY <1>1, <1>2, <1>8, Applicable
  <2> QED BY <1>8, <2>1, Raising DEF Hides
<1>9. CASE i = 8
  BY <1>1, <1>2, <1>9, Applicable
<1> QED BY <1>4, <1>5, <1>6, <1>7, <1>8, <1>9

\* A raise by more than a unit is not lost to rounding, and no raise takes more
\* than rounding down does.
LEMMA RaisedByBounds ==
    ASSUME NEW n \in Nat, NEW percent \in Nat, NEW unit \in Nat \ {0},
           NEW v \in RaisedBy(n, percent, unit)
    PROVE  /\ v \in Int
           /\ unit * v > n - unit
           /\ n * percent > 100 * unit => unit * v > n
           /\ unit = 1 => v >= n
<1> DEFINE more  == n * percent
           exact == n * (100 + percent)
           whole == 100 * unit
           floor == exact \div whole
           rest  == exact % whole
<1>1. more \in Nat /\ exact = 100 * n + more /\ exact \in Nat /\ whole \in Nat \ {0}
  OBVIOUS
<1>2. floor \in Nat /\ rest \in 0 .. whole - 1 /\ exact = whole * floor + rest
  <2> HIDE DEF exact, whole
  <2> QED BY <1>1
<1>3. v = floor \/ (v = floor - 1 /\ n > 0 /\ rest = 0 /\ percent # 0)
  BY DEF RaisedBy
<1>4. n > 0 /\ percent # 0 => more > 0
  <2>1. \A a, b \in Nat : a > 0 /\ b # 0 => a * b > 0
    OBVIOUS
  <2> QED BY <2>1
<1>5. whole * floor = 100 * (unit * floor) /\ unit * floor \in Nat
  <2> HIDE DEF floor
  <2> QED BY <1>2
<1>6. unit * (floor - 1) = unit * floor - unit
  <2> HIDE DEF floor
  <2> QED BY <1>2
<1> DEFINE x == unit * floor
<1>7. /\ x \in Nat /\ 100 * n + more = 100 * x + rest /\ rest \in 0 .. 100 * unit - 1
      /\ more \in Nat /\ (unit = 1 => x = floor)
  <2>1. unit = 1 => unit * floor = floor
    <3> HIDE DEF floor
    <3> QED BY <1>2
  <2> HIDE DEF floor, rest, exact, more
  <2> QED BY <1>1, <1>2, <1>5, <2>1
<1>8. CASE v = floor
  <2>1. unit * v = x
    BY <1>8
  <2> HIDE DEF x, floor, rest, exact, more
  <2>2. x > n - unit /\ (more > 100 * unit => x > n) /\ (unit = 1 => x >= n)
    BY <1>7
  <2> QED BY <1>2, <1>7, <1>8, <2>1, <2>2 DEF more
<1>9. CASE v = floor - 1 /\ n > 0 /\ rest = 0 /\ percent # 0
  <2>1. unit * v = x - unit
    BY <1>6, <1>9
  <2>2. more > 0
    BY <1>4, <1>9
  <2> HIDE DEF x, floor, rest, exact, more
  <2>3. /\ x - unit > n - unit /\ (more > 100 * unit => x - unit > n)
        /\ (unit = 1 => x - 1 >= n)
    BY <1>7, <1>9, <2>2
  <2> QED BY <1>2, <1>7, <1>9, <2>1, <2>3 DEF more
<1> QED BY <1>3, <1>8, <1>9

\* The numbers of a fix that was made.
LEMMA RoundedDown ==
    ASSUME NEW f \in Reports, NEW i \in Matching(f), ~Registry(f)[i].raises,
           NEW v \in Registry(f)[i].values
    PROVE  LET x == Registry(f)[i]
           IN  /\ x.handler = "OOMKilled" =>
                     /\ 1024 * v > f.memory - 1024
                     /\ f.memory * Percent(f.bump, 30) > 100 * 1024 => 1024 * v > f.memory
               /\ x.handler = "PVCResize" =>
                     /\ v >= f.capacity
                     /\ f.capacity * Percent(f.growth, 50) > 100 => v > f.capacity
               /\ x.handler = "PDBTooStrict" => v \in 1 .. f.matched - 1
<1> DEFINE x == Registry(f)[i]
<1>1. i \in 1 .. 10
  BY RegistryEntries DEF Matching
<1>2. /\ f.memory \in Nat \cup {Absent} /\ f.capacity \in Nat \cup {Absent}
      /\ f.bump \in Nat \cup {Absent} /\ f.growth \in Nat \cup {Absent}
      /\ f.matched \in Nat \cup {Absent}
  BY ReportsAssumption
<1>3. /\ ImageTagMigration(f).handler = "ImageTagMigration"
      /\ ProbeTuning(f).handler = "ProbeTuning"
      /\ OrphanJobCleanup(f).handler = "OrphanJobCleanup"
  BY DEF Handler, ImageTagMigration, ProbeTuning, OrphanJobCleanup
<1>4. HPAEnableMetricsServer(f).handler = "HPAEnableMetricsServer"
  BY DEF Handler, HPAEnableMetricsServer
<1>5. CASE i = 4
  <2>1. x = OOMKilled(f) /\ x.handler = "OOMKilled"
    BY <1>5, RegistryEntries, Raising
  <2>2. OOMKilled(f).raises <=> f.memory = Absent
    BY DEF OOMKilled, Handler
  <2>3. f.memory \in Nat /\ f.memory # Absent
    BY <1>2, <2>1, <2>2
  <2>4. x.values = RaisedBy(f.memory, Percent(f.bump, 30), 1024)
    BY <2>1, <2>3 DEF OOMKilled, Handler
  <2>5. Percent(f.bump, 30) \in Nat
    BY <1>2 DEF Percent
  <2>6. /\ 1024 * v > f.memory - 1024
        /\ f.memory * Percent(f.bump, 30) > 100 * 1024 => 1024 * v > f.memory
    BY <2>3, <2>4, <2>5, RaisedByBounds
  <2> QED BY <2>1, <2>6
<1>6. CASE i = 5
  <2>1. x = PVCResize(f)
    BY <1>6, RegistryEntries
  <2>2. /\ PVCResize(f).raises <=> f.capacity = Absent
        /\ PVCResize(f).handler = "PVCResize"
    BY DEF PVCResize, Handler
  <2>3. f.capacity \in Nat /\ f.capacity # Absent
    BY <1>2, <2>1, <2>2
  <2>4. x.values = RaisedBy(f.capacity, Percent(f.growth, 50), 1)
    BY <2>1, <2>3 DEF PVCResize, Handler
  <2>5. Percent(f.growth, 50) \in Nat
    BY <1>2 DEF Percent
  <2>6. /\ v \in Int /\ v >= f.capacity
        /\ f.capacity * Percent(f.growth, 50) > 100 * 1 => 1 * v > f.capacity
    BY <2>3, <2>4, <2>5, RaisedByBounds
  <2> QED BY <2>1, <2>2, <2>6
<1>7. CASE i = 10
  <2>1. x = PDBTooStrict(f)
    BY <1>7, RegistryEntries
  <2>2. /\ PDBTooStrict(f).raises <=> (f.matched = Absent \/ f.matched <= 1)
        /\ PDBTooStrict(f).handler = "PDBTooStrict"
    BY DEF PDBTooStrict, Handler
  <2>3. f.matched \in Nat /\ f.matched # Absent /\ f.matched >= 2
    BY <1>2, <2>1, <2>2
  <2>4. v = f.matched - 1
    BY <2>1, <2>3 DEF PDBTooStrict, Handler
  <2> HIDE DEF x
  <2> QED BY <2>1, <2>2, <2>3, <2>4 DEF x
<1>8. CASE i \notin {4, 5, 10}
  <2>1. x.handler \notin {"OOMKilled", "PVCResize", "PDBTooStrict"}
    BY <1>1, <1>3, <1>4, <1>8, RegistryEntries, Raising
  <2> QED BY <2>1
<1> QED BY <1>5, <1>6, <1>7, <1>8

LEMMA FixInvSound == FixInv => FixesSound
<1> SUFFICES ASSUME FixInv PROVE FixesSound
  OBVIOUS
<1>1. ASSUME NEW v, fix = Fix(NoHandler, v) PROVE FixesSound
  BY <1>1 DEF Fix, NoHandler, Handler, FixesSound
<1>2. ASSUME NEW v \in Dispatch(report).values, fix = Fix(Dispatch(report), v),
             Dispatch(report) # NoHandler
      PROVE  FixesSound
  <2>1. PICK i \in Matching(report) :
           Dispatch(report) = Registry(report)[i] /\ \A j \in Matching(report) : i <= j
    BY <1>2, DispatchTakesFirst
  <2>2. /\ fix.raises = Registry(report)[i].raises /\ fix.handler = Registry(report)[i].handler
        /\ fix.value = v /\ v \in Registry(report)[i].values
    BY <1>2, <2>1 DEF Fix
  <2>3. fix.raises /\ ~Misfiled(report) =>
           \A j \in Matching(report) :
              \/ Registry(report)[j].raises
              \/ <<fix.handler, Registry(report)[j].handler>> \in Hides
    BY <2>1, <2>2, HidesOnly DEF FixInv
  <2>4. ~fix.raises =>
           /\ fix.handler = "OOMKilled" =>
                 /\ 1024 * fix.value > report.memory - 1024
                 /\ report.memory * Percent(report.bump, 30) > 100 * 1024 =>
                       1024 * fix.value > report.memory
           /\ fix.handler = "PVCResize" =>
                 /\ fix.value >= report.capacity
                 /\ report.capacity * Percent(report.growth, 50) > 100 =>
                       fix.value > report.capacity
           /\ fix.handler = "PDBTooStrict" => fix.value \in 1 .. report.matched - 1
    BY <2>1, <2>2, RoundedDown DEF FixInv
  <2> QED BY <2>3, <2>4 DEF FixesSound
<1> QED BY <1>1, <1>2 DEF FixInv

\* Whatever findings come, with whatever quantities and percentages, a handler
\* that raises hides only what Hides says, and rounding takes no more from a fix
\* than less than one unit.
THEOREM FixesAreSound == FixSpec => []FixesSound
<1>1. FixInit => FixInv
  BY DEF FixInit, FixInv
<1>2. FixInv /\ [FixNext]_fixVars => FixInv'
  <2> SUFFICES ASSUME FixInv, FixNext \/ UNCHANGED fixVars PROVE FixInv'
    OBVIOUS
  <2>1. CASE FixNext
    BY <2>1 DEF FixNext, DispatchReport, FixInv
  <2>2. CASE UNCHANGED fixVars
    BY <2>2 DEF fixVars, FixInv
  <2> QED BY <2>1, <2>2
<1> QED
  BY <1>1, <1>2, FixInvSound, PTL DEF FixSpec

-----------------------------------------------------------------------------
(* ResourceAnalyzers *)

\* What was found last is what the analyzer makes of the object.
ScanInv ==
    \/ subject = NoSubject
    \/ subject \in Objects /\ findings = Analyze(subject, down)

\* What the analyzers find although calls fail, they find when none fails, apart
\* from false alarms.
LEMMA DeploymentGrounded ==
    ASSUME NEW d, NEW D
    PROVE  DeploymentFindings(d, D) \subseteq DeploymentFindings(d, {})
BY DEF DeploymentFindings, TooLarge, When

LEMMA StatefulSetGrounded ==
    ASSUME NEW s, NEW D
    PROVE  StatefulSetFindings(s, D) \subseteq StatefulSetFindings(s, {})
BY DEF StatefulSetFindings, PodsSeen, OrdinalsOff, When

LEMMA ServiceGrounded ==
    ASSUME NEW v, NEW D
    PROVE  ServiceFindings(v, D)
              \subseteq ServiceFindings(v, {}) \cup When("pods" \in D, "selector-no-pods")
BY DEF ServiceFindings, When

LEMMA IngressGrounded ==
    ASSUME NEW g, NEW D
    PROVE  IngressFindings(g, D) \subseteq IngressFindings(g, {})
BY DEF IngressFindings, When

LEMMA PVCGrounded ==
    ASSUME NEW v, NEW D
    PROVE  PVCFindings(v, D)
              \subseteq PVCFindings(v, {}) \cup When("classes" \in D, "pvc-pending-no-sc")
                                           \cup When("events" \in D, "pvc-pending-unknown")
BY DEF PVCFindings, When

LEMMA HPAGrounded ==
    ASSUME NEW h, NEW D
    PROVE  HPAFindings(h, D)
              \subseteq HPAFindings(h, {})
                        \cup IF "target" \in D /\ ~h.target
                             THEN {"no_metrics", "capped_at_max", "never_scaling"} ELSE {}
BY DEF HPAFindings, When

LEMMA PDBGrounded ==
    ASSUME NEW b, NEW D
    PROVE  PDBFindings(b, D) \subseteq PDBFindings(b, {})
BY DEF PDBFindings, When

LEMMA NamespaceGrounded ==
    ASSUME NEW n, NEW D
    PROVE  NetworkPolicyFindings(n, D) \subseteq NetworkPolicyFindings(n, {})
BY DEF NetworkPolicyFindings, When

LEMMA AnalyzeGrounded ==
    ASSUME NEW x \in Objects, NEW D
    PROVE  Analyze(x, D) \subseteq Analyze(x, {}) \cup FalseAlarms(x, D)
<1>1. CASE Unlisted(x, D)
  BY <1>1 DEF Analyze
<1>2. CASE ~Unlisted(x, D)
  <2>0. ~Unlisted(x, {})
    BY DEF Unlisted
  <2>1. x.kind \in Kinds
    BY ObjectsAssumption
  <2>2. CASE x.kind \in {"Node", "ReplicaSets", "CronJob"}
    BY <1>2, <2>0, <2>2 DEF Analyze
  <2>3. CASE x.kind \in {"Deployment", "StatefulSet", "Ingress", "PDB", "Namespace"}
    BY <1>2, <2>0, <2>3, DeploymentGrounded, StatefulSetGrounded, IngressGrounded, PDBGrounded,
       NamespaceGrounded DEF Analyze
  <2>4. CASE x.kind = "Service"
    BY <1>2, <2>0, <2>4, ServiceGrounded DEF Analyze, FalseAlarms
  <2>5. CASE x.kind = "PVC"
    BY <1>2, <2>0, <2>5, PVCGrounded DEF Analyze, FalseAlarms
  <2>6. CASE x.kind = "HPA"
    BY <1>2, <2>0, <2>6, HPAGrounded DEF Analyze, FalseAlarms
  <2> QED BY <2>1, <2>2, <2>3, <2>4, <2>5, <2>6 DEF Kinds
<1> QED BY <1>1, <1>2

\* The two categories that are about quantities are those of one analyzer each.
LEMMA OwnCategories ==
    ASSUME NEW x \in Objects, NEW D
    PROVE  /\ "impossible-resource-request" \in Analyze(x, D) =>
                 x.kind = "Deployment" /\ \E c \in x.containers : TooLarge(c, x.nodes, D)
           /\ "ordinal-gap" \in Analyze(x, D) =>
                 x.kind = "StatefulSet" /\ OrdinalsOff(PodsSeen(x, D))
<1> DEFINE own == {"impossible-resource-request", "ordinal-gap"}
<1>1. x.kind \in Kinds
  BY ObjectsAssumption
<1>2. CASE Unlisted(x, D)
  BY <1>2 DEF Analyze
<1>3. CASE ~Unlisted(x, D) /\ x.kind = "Deployment"
  BY <1>3 DEF Analyze, DeploymentFindings, When
<1>4. CASE ~Unlisted(x, D) /\ x.kind = "StatefulSet"
  BY <1>4 DEF Analyze, StatefulSetFindings, When
<1>5. NodeFindings(x) \cap own = {}
  BY DEF NodeFindings, Pressure, When
<1>6. ReplicaSetFindings(x) \cap own = {} /\ CronJobFindings(x) \cap own = {}
  BY DEF ReplicaSetFindings, CronJobFindings, When
<1>7. ServiceFindings(x, D) \cap own = {} /\ IngressFindings(x, D) \cap own = {}
  BY DEF ServiceFindings, IngressFindings, When
<1>8. PVCFindings(x, D) \cap own = {}
  BY DEF PVCFindings, When
<1>9. HPAFindings(x, D) \cap own = {} /\ PDBFindings(x, D) \cap own = {}
  BY DEF HPAFindings, PDBFindings, When
<1>10. NetworkPolicyFindings(x, D) \cap own = {}
  BY DEF NetworkPolicyFindings, When
<1>11. CASE ~Unlisted(x, D) /\ x.kind \in Kinds \ {"Deployment", "StatefulSet"}
  <2>1. Analyze(x, D) \cap own = {}
    BY <1>5, <1>6, <1>7, <1>8, <1>9, <1>10, <1>11 DEF Analyze, Kinds
  <2> QED BY <2>1
<1> QED BY <1>1, <1>2, <1>3, <1>4, <1>11

\* The largest of finitely many quantities.
LEMMA LargestOf ==
    ASSUME NEW S \in SUBSET Nat, IsFiniteSet(S), S # {}
    PROVE  Largest(S) \in S /\ \A y \in S : y <= Largest(S)
BY FiniteGreatest DEF Largest

\* A request that is too large for the largest node fits on no node.
LEMMA TooLargeFitsNowhere ==
    ASSUME NEW nodes, IsFiniteSet(nodes), \A n \in nodes : n.cpu \in Nat /\ n.memory \in Nat,
           NEW c, c.cpu \in Nat, c.memory \in Nat, NEW D, TooLarge(c, nodes, D)
    PROVE  \A n \in nodes : ~Fits(c, n)
<1> DEFINE cpus == {n.cpu : n \in nodes}
           memories == {n.memory : n \in nodes}
<1>1. IsFiniteSet({0} \cup cpus) /\ IsFiniteSet({0} \cup memories)
  <2>1. [n \in nodes |-> n.cpu] \in Surjection(nodes, cpus)
    BY DEF Surjection
  <2>2. [n \in nodes |-> n.memory] \in Surjection(nodes, memories)
    BY DEF Surjection
  <2>3. IsFiniteSet(cpus) /\ IsFiniteSet(memories)
    BY <2>1, <2>2, FS_Surjection
  <2>4. {0} \cup cpus = cpus \cup {0} /\ {0} \cup memories = memories \cup {0}
    OBVIOUS
  <2> HIDE DEF cpus, memories
  <2> QED BY <2>3, <2>4, FS_AddElement
<1>2. {0} \cup cpus \in SUBSET Nat /\ {0} \cup memories \in SUBSET Nat
  OBVIOUS
<1>3. /\ Largest({0} \cup cpus) \in Nat /\ \A n \in nodes : n.cpu <= Largest({0} \cup cpus)
      /\ Largest({0} \cup memories) \in Nat
      /\ \A n \in nodes : n.memory <= Largest({0} \cup memories)
  BY <1>1, <1>2, LargestOf
<1> QED
  BY <1>3 DEF TooLarge, Fits

\* A gap among the ordinals of one StatefulSet is a pod that is missing.
LEMMA GapIsMissing ==
    ASSUME NEW pods, IsFiniteSet(pods), \A p \in pods : p.ordinal \in Nat,
           \A p, q \in pods : p.set = q.set /\ p.ordinal = q.ordinal => p = q,
           \A p, q \in pods : p.set = q.set,
           OrdinalsOff(pods)
    PROVE  \E p \in pods : \E o \in 0 .. p.ordinal : \A q \in pods : q.ordinal # o
<1> DEFINE ordinals == {p.ordinal : p \in pods}
           f == [p \in pods |-> p.ordinal]
<1>1. f \in Surjection(pods, ordinals)
  BY DEF Surjection
<1>2. f \in Injection(pods, ordinals)
  BY DEF Injection, IsInjective
<1>3. IsFiniteSet(ordinals) /\ Cardinality(pods) = Cardinality(ordinals)
  BY <1>1, <1>2, FS_Surjection
<1>4. ordinals # 0 .. Largest(ordinals) /\ pods # {}
  BY <1>3 DEF OrdinalsOff
<1>5. Largest(ordinals) \in ordinals /\ \A o \in ordinals : o <= Largest(ordinals)
  BY <1>3, <1>4, LargestOf
<1>6. \A o \in ordinals : o \in 0 .. Largest(ordinals)
  BY <1>5
<1>7. PICK o \in 0 .. Largest(ordinals) : o \notin ordinals
  BY <1>4, <1>6
<1>8. PICK p \in pods : p.ordinal = Largest(ordinals)
  BY <1>5
<1> QED BY <1>7, <1>8

LEMMA ScanInvGrounded == ScanInv => FindingsGrounded
<1> SUFFICES ASSUME subject \in Objects, findings = Analyze(subject, down) PROVE FindingsGrounded
  BY DEF ScanInv, FindingsGrounded
<1>1. findings \subseteq Analyze(subject, {}) \cup FalseAlarms(subject, down)
  BY AnalyzeGrounded
<1>2. ASSUME "impossible-resource-request" \in findings
      PROVE  \E c \in subject.containers : \A n \in subject.nodes : ~Fits(c, n)
  <2>1. PICK c \in subject.containers : TooLarge(c, subject.nodes, down)
    BY <1>2, OwnCategories
  <2>2. /\ IsFiniteSet(subject.nodes) /\ c.cpu \in Nat /\ c.memory \in Nat
        /\ \A n \in subject.nodes : n.cpu \in Nat /\ n.memory \in Nat
    BY <1>2, OwnCategories, ObjectsAssumption
  <2> QED BY <2>1, <2>2, TooLargeFitsNowhere
<1>3. ASSUME "ordinal-gap" \in findings, Cardinality({p.set : p \in subject.pods}) = 1
      PROVE  \E p \in subject.pods : \E o \in 0 .. p.ordinal :
                \A q \in subject.pods : q.ordinal # o
  <2>1. subject.kind = "StatefulSet" /\ OrdinalsOff(PodsSeen(subject, down))
    BY <1>3, OwnCategories
  <2>2. OrdinalsOff(subject.pods)
    BY <2>1 DEF PodsSeen, OrdinalsOff
  <2>3. /\ IsFiniteSet(subject.pods) /\ \A p \in subject.pods : p.ordinal \in Nat
        /\ \A p, q \in subject.pods : p.set = q.set /\ p.ordinal = q.ordinal => p = q
    BY <2>1, ObjectsAssumption
  <2>4. \A p, q \in subject.pods : p.set = q.set
    <3> DEFINE sets == {p.set : p \in subject.pods}
               f == [p \in subject.pods |-> p.set]
    <3>1. f \in Surjection(subject.pods, sets)
      BY DEF Surjection
    <3>2. IsFiniteSet(sets)
      BY <2>3, <3>1, FS_Surjection
    <3>3. PICK s : sets = {s}
      BY <1>3, <3>2, FS_Singleton
    <3> QED BY <3>3
  <2> QED BY <2>2, <2>3, <2>4, GapIsMissing
<1> QED BY <1>1, <1>2, <1>3 DEF FindingsGrounded

\* Whatever the cluster holds and whichever calls fail, what is reported is
\* there, a request called impossible fits on no node, and a gap in the ordinals
\* is a pod that is missing.
THEOREM ScanIsGrounded == ScanSpec => []FindingsGrounded
<1>1. ScanInit => ScanInv
  BY DEF ScanInit, ScanInv
<1>2. ScanInv /\ [ScanNext]_scanVars => ScanInv'
  <2> SUFFICES ASSUME ScanInv, ScanNext \/ UNCHANGED scanVars PROVE ScanInv'
    OBVIOUS
  <2>1. CASE ScanNext
    BY <2>1 DEF ScanNext, Scan, ScanInv
  <2>2. CASE UNCHANGED scanVars
    BY <2>2 DEF scanVars, ScanInv
  <2> QED BY <2>1, <2>2
<1> QED
  BY <1>1, <1>2, ScanInvGrounded, PTL DEF ScanSpec
=============================================================================
