---------------------------- MODULE EventWatcher ----------------------------
(***************************************************************************)
(* The cluster event watcher (src/watchers/event_watcher.py): one          *)
(* EventStreamWatcher reading the event stream of the API server into the  *)
(* work_queue table of a SQLite file that remediation workers also write.  *)
(*                                                                         *)
(* The watcher is one thread (run() hands _consume_stream to an executor   *)
(* and waits for it).  _queue_depth(), the SELECT of _upsert and its       *)
(* UPDATE or INSERT are separate statements, so a worker can change the    *)
(* table between them; each of them can raise.  A notice is handled well   *)
(* within one unit of the clock: SQLite waits five seconds for a lock.     *)
(* Notices are positions in the server's log, and a resource version is    *)
(* the position of a notice; 0 is the empty version.  The code does not    *)
(* look at a notice's type (ADDED, MODIFIED, DELETED).                     *)
(***************************************************************************)
EXTENDS Integers, Sequences, FiniteSets

CONSTANTS
    Notices,         \* what an event of the stream can say
    QueueDepthLimit, \* QUEUE_DEPTH_LIMIT
    DedupWindow,     \* DEDUP_WINDOW_SECONDS
    UnhealthyLimit,  \* RATE_LIMITED_REASONS["Unhealthy"]
    StartTimes,      \* readings of the monotonic clock when the watcher starts
    MaxNow,          \* bound: the clock
    MaxLog,          \* bound: notices the API server sends
    MaxFaults        \* bound: streams that end, statements that raise, restarts

ASSUME WatcherConstants ==
    /\ Notices \subseteq [object : STRING, kind : STRING, reason : STRING,
                          warning : BOOLEAN]
    /\ QueueDepthLimit \in Nat
    /\ DedupWindow \in Nat
    /\ UnhealthyLimit \in Nat
    /\ StartTimes \subseteq Nat
    /\ MaxNow \in Nat /\ MaxLog \in Nat /\ MaxFaults \in Nat

\* The window in which a key is deduplicated does not outlast its rate limit.
ASSUME WindowsNested == DedupWindow <= UnhealthyLimit

\* REASON_TO_FIX_CLASS: reason, kind, class.
ReasonToFixClass ==
    {<<"BackOff", "Pod", "restart-first-ladder">>,
     <<"OOMKilling", "Pod", "restart-first-ladder">>,
     <<"ImagePullBackOff", "Pod", "image-tag-migration">>,
     <<"ErrImagePull", "Pod", "image-tag-migration">>,
     <<"FailedScheduling", "Pod", "resource-shortage">>,
     <<"FailedMount", "Pod", "pvc-issue">>,
     <<"FailedAttachVolume", "Pod", "pvc-issue">>,
     <<"Evicted", "Pod", "resource-shortage">>,
     <<"NodeNotReady", "Node", "node-issue">>,
     <<"FailedCreate", "ReplicaSet", "resource-shortage">>,
     <<"Killing", "Pod", "ignored">>}

Classify(n) ==
    LET hits == {e \in ReasonToFixClass : e[1] = n.reason /\ e[2] = n.kind}
    IN  IF hits = {} THEN "unknown" ELSE (CHOOSE e \in hits : TRUE)[3]

\* (namespace, name, reason): the key of the rate limit and of the dedup.
Key(n) == <<n.object, n.reason>>
Keys   == {Key(n) : n \in Notices}

VARIABLES
    log,      \* API server: the notices sent so far
    oldest,   \* API server: the first position its watch cache still holds
    at,       \* where the watcher thread is
    next,     \* the position the open stream delivers next, 1 when there is none
    lastRv,   \* _last_rv
    limitSeen,\* _rate_limit_seen, 0 where there is no entry
    found,    \* the row the SELECT of _upsert returned, or 0
    rows,     \* work_queue
    stopping, \* stop_event is set
    now,      \* the clock
    accepted, \* notices that reached the queue-depth test
    dropped,  \* BACKPRESSURE_COUNTER
    lost,     \* notices in hand when a statement raised or the process died
    faults,   \* streams that ended and statements that raised
    crashes   \* restarts of the process

server  == <<log, oldest>>
thread  == <<at, next, lastRv, limitSeen, found>>
tally   == <<accepted, dropped, lost>>
vars == <<server, thread, rows, stopping, now, tally, faults, crashes>>

Init ==
    /\ log = <<>>
    /\ oldest = 1
    /\ at = "down"
    /\ next = 1
    /\ lastRv = 0
    /\ limitSeen = [k \in Keys |-> 0]
    /\ found = 0
    /\ rows = <<>>
    /\ stopping = FALSE
    /\ now \in StartTimes
    /\ accepted = 0 /\ dropped = 0 /\ lost = 0
    /\ faults = 0 /\ crashes = 0

Queued == {i \in DOMAIN rows : rows[i].status = "queued"}
InHand == at \in {"depth", "select", "write"}
MayFault == faults + crashes < MaxFaults
\* The notice being handled.
Current == log[next - 1]

-----------------------------------------------------------------------------
(* The API server, the workers, the clock *)

Emit(n) ==
    /\ Len(log) < MaxLog
    /\ log' = Append(log, n)
    /\ UNCHANGED <<oldest, thread, rows, stopping, now, tally, faults, crashes>>

\* The oldest notice leaves the watch cache.
Compact ==
    /\ oldest <= Len(log)
    /\ oldest' = oldest + 1
    /\ UNCHANGED <<log, thread, rows, stopping, now, tally, faults, crashes>>

\* A worker takes a queued row (claimed, resolved or escalated); no row is
\* ever queued again.
Take(i) ==
    /\ i \in Queued
    /\ rows' = [rows EXCEPT ![i].status = "taken"]
    /\ UNCHANGED <<server, thread, stopping, now, tally, faults, crashes>>

Tick ==
    /\ ~InHand
    /\ now < MaxNow
    /\ now' = now + 1
    /\ UNCHANGED <<server, thread, rows, stopping, tally, faults, crashes>>

Stop ==
    /\ ~stopping
    /\ stopping' = TRUE
    /\ UNCHANGED <<server, thread, rows, now, tally, faults, crashes>>

-----------------------------------------------------------------------------
(* run(): connecting and reconnecting *)

\* Mutant: 410 is retried with the same resource version.
ConnectStubborn ==
    /\ at = "down" /\ ~stopping
    /\ lastRv = 0 \/ lastRv + 1 >= oldest
    /\ at' = "stream"
    /\ next' = IF lastRv = 0 THEN oldest ELSE lastRv + 1
    /\ UNCHANGED <<server, lastRv, limitSeen, found, rows, stopping, now, tally,
                   faults, crashes>>

\* The server resumes after _last_rv, or from its oldest notice when the
\* version is empty.  A version that has left its cache is 410 Gone: run()
\* empties the version and tries again.
Connect ==
    /\ at = "down" /\ ~stopping
    /\ IF lastRv = 0 \/ lastRv + 1 >= oldest
       THEN /\ at' = "stream"
            /\ next' = IF lastRv = 0 THEN oldest ELSE lastRv + 1
            /\ UNCHANGED lastRv
       ELSE /\ lastRv' = 0
            /\ UNCHANGED <<at, next>>
    /\ UNCHANGED <<server, limitSeen, found, rows, stopping, now, tally, faults, crashes>>

\* The stream ends, normally or with an error.
Disconnect ==
    /\ at = "stream"
    /\ MayFault
    /\ faults' = faults + 1
    /\ at' = "down"
    /\ next' = 1
    /\ UNCHANGED <<server, lastRv, limitSeen, found, rows, stopping, now,
                   tally, crashes>>

\* The stream falls behind the watch cache and ends with 410 Gone.
Gone ==
    /\ at = "stream" /\ next < oldest
    /\ at' = "down"
    /\ next' = 1
    /\ lastRv' = 0
    /\ UNCHANGED <<server, limitSeen, found, rows, stopping, now, tally,
                   faults, crashes>>
-----------------------------------------------------------------------------
(* _consume_stream(): one notice *)

\* Mutant: no rate limit.
RateLimitedNever(k) == FALSE

\* _is_rate_limited, for the only reason that has a limit.
RateLimited(k) == k[2] = "Unhealthy" /\ now - limitSeen[k] < UnhealthyLimit

\* The loop body up to the depth test.  A key that passes the rate limit is
\* stamped, whatever becomes of the notice.
Deliver ==
    LET n == log[next] IN
    /\ at = "stream" /\ next >= oldest /\ next <= Len(log)
    /\ IF stopping
       THEN /\ at' = "down" /\ next' = 1
            /\ UNCHANGED <<lastRv, limitSeen, accepted>>
       ELSE /\ next' = next + 1
            /\ lastRv' = next
            /\ IF n.warning /\ ~RateLimited(Key(n))
               THEN /\ limitSeen' = IF n.reason = "Unhealthy"
                                    THEN [limitSeen EXCEPT ![Key(n)] = now]
                                    ELSE limitSeen
                    /\ IF Classify(n) = "ignored"
                       THEN UNCHANGED <<at, accepted>>
                       ELSE at' = "depth" /\ accepted' = accepted + 1
               ELSE UNCHANGED <<at, limitSeen, accepted>>
    /\ UNCHANGED <<server, found, rows, stopping, now, dropped, lost, faults, crashes>>

\* Mutants: <= for <; a drop that is not counted.
DepthOver ==
    /\ at = "depth"
    /\ IF Cardinality(Queued) <= QueueDepthLimit
       THEN at' = "select" /\ UNCHANGED dropped
       ELSE at' = "stream" /\ dropped' = dropped + 1
    /\ UNCHANGED <<server, next, lastRv, limitSeen, found, rows, stopping, now,
                   accepted, lost, faults, crashes>>

DepthSilent ==
    /\ at = "depth"
    /\ at' = IF Cardinality(Queued) < QueueDepthLimit THEN "select" ELSE "stream"
    /\ UNCHANGED <<server, next, lastRv, limitSeen, found, rows, stopping, now,
                   tally, faults, crashes>>

\* _queue_depth() and the backpressure branch.
Depth ==
    /\ at = "depth"
    /\ IF Cardinality(Queued) < QueueDepthLimit
       THEN at' = "select" /\ UNCHANGED dropped
       ELSE at' = "stream" /\ dropped' = dropped + 1
    /\ UNCHANGED <<server, next, lastRv, limitSeen, found, rows, stopping, now,
                   accepted, lost, faults, crashes>>

\* Mutant: the window is measured from first_seen.
InWindowOfFirst(k) ==
    {i \in Queued : rows[i].key = k /\ rows[i].first > now - DedupWindow}

\* The rows the SELECT of _upsert matches.
InWindow(k) == {i \in Queued : rows[i].key = k /\ rows[i].last > now - DedupWindow}

\* _upsert, the SELECT (fetchone: any of the rows).
Select ==
    /\ at = "select"
    /\ at' = "write"
    /\ IF InWindow(Key(Current)) = {}
       THEN found' = 0
       ELSE found' \in InWindow(Key(Current))
    /\ UNCHANGED <<server, next, lastRv, limitSeen, rows, stopping, now, tally,
                   faults, crashes>>

NewRow(n) ==
    [key |-> Key(n), class |-> Classify(n), first |-> now, last |-> now,
     count |-> 1, status |-> "queued"]

\* _upsert, the UPDATE by id (whatever the row's status is by now) or the
\* INSERT.
Write ==
    /\ at = "write"
    /\ at' = "stream"
    /\ rows' = IF found = 0
               THEN Append(rows, NewRow(Current))
               ELSE [rows EXCEPT ![found].count = @ + 1, ![found].last = now]
    /\ found' = 0
    /\ UNCHANGED <<server, next, lastRv, limitSeen, stopping, now, tally, faults, crashes>>

\* A statement raises: _consume_stream ends, and the notice it was handling
\* is behind _last_rv.
Raise ==
    /\ InHand
    /\ MayFault
    /\ faults' = faults + 1
    /\ at' = "down"
    /\ next' = 1
    /\ found' = 0
    /\ lost' = lost + 1
    /\ UNCHANGED <<server, lastRv, limitSeen, rows, stopping, now, accepted,
                   dropped, crashes>>

\* The process is restarted: only the table survives.
Crash ==
    /\ MayFault
    /\ crashes' = crashes + 1
    /\ at' = "down"
    /\ next' = 1
    /\ lastRv' = 0
    /\ limitSeen' = [k \in Keys |-> 0]
    /\ found' = 0
    /\ lost' = IF InHand THEN lost + 1 ELSE lost
    /\ stopping' = FALSE
    /\ UNCHANGED <<server, rows, now, accepted, dropped, faults>>

Process == Depth \/ Select \/ Write

Next ==
    \/ \E n \in Notices : Emit(n)
    \/ Compact
    \/ \E i \in DOMAIN rows : Take(i)
    \/ Tick \/ Stop
    \/ Connect \/ Disconnect \/ Gone
    \/ Deliver \/ Process \/ Raise
    \/ Crash

Spec == Init /\ [][Next]_vars

\* The executor thread keeps running and run() keeps reconnecting.
FairSpec ==
    /\ Spec
    /\ WF_vars(Connect)
    /\ WF_vars(Gone)
    /\ WF_vars(Deliver)
    /\ WF_vars(Process)

-----------------------------------------------------------------------------
(* Properties *)

Classes == {e[3] : e \in ReasonToFixClass} \cup {"unknown"}

Row == [key : Keys, class : Classes, first : Nat, last : Nat, count : Nat,
        status : {"queued", "taken"}]

TypeOK ==
    /\ log \in Seq(Notices)
    /\ oldest \in 1 .. Len(log) + 1
    /\ at \in {"down", "stream", "depth", "select", "write"}
    /\ next \in 1 .. Len(log) + 1
    /\ lastRv \in 0 .. Len(log)
    /\ limitSeen \in [Keys -> Nat]
    /\ rows \in Seq(Row)
    /\ found \in {0} \cup DOMAIN rows
    /\ stopping \in BOOLEAN
    /\ now \in Nat
    /\ accepted \in Nat /\ dropped \in Nat /\ lost \in Nat
    /\ faults \in Nat /\ crashes \in Nat
    /\ InHand => next > 1

\* Backpressure: the queue never holds more than QUEUE_DEPTH_LIMIT queued
\* rows, although the depth is read in one statement and the row inserted in
\* another, across restarts and replays.
DepthBounded == Cardinality(Queued) <= QueueDepthLimit

\* Deduplication: two queued rows of the same namespace, name and reason are
\* at least DEDUP_WINDOW_SECONDS apart, counted from the last time the older
\* one was seen, whatever is replayed after a 410 or a restart.
RowsApart ==
    \A i, j \in Queued :
        i < j /\ rows[i].key = rows[j].key => rows[j].first - rows[i].last >= DedupWindow

\* The notices that the rows count, as the row and the number it counted.
Counted == UNION {{i} \X (1 .. rows[i].count) : i \in DOMAIN rows}

\* Every notice that reached the depth test is in some row's count, was
\* counted as dropped by backpressure, was in hand when a statement raised or
\* the process died, or is in hand now.
Accounted ==
    accepted = Cardinality(Counted) + dropped + lost + (IF InHand THEN 1 ELSE 0)

\* The 120 s rate limit outlasts the 60 s dedup window, so a row of an
\* Unhealthy notice counts one notice per life of the process: the limit lets
\* through no repeat that a row could absorb.
UnhealthyNotMerged ==
    \A i \in DOMAIN rows :
        rows[i].key[2] = "Unhealthy" => rows[i].count <= 1 + crashes

\* The watcher comes back from every lost stream, 410 included, and reads
\* everything the server still holds, unless it is told to stop.
CaughtUp == at = "stream" /\ next > Len(log)
EventuallyCaughtUp == <>[](CaughtUp \/ stopping)
=============================================================================
