------------------------------ MODULE IssuesCache ------------------------------
(***************************************************************************)
(* GitHubIssuesManager (src/github_issues_manager.py): every interval a    *)
(* server copies a page of open and a page of closed issues of a           *)
(* repository into SQLite and deletes old closed ones.                     *)
(*                                                                         *)
(* One repository: the requests for the others run beside it and touch     *)
(* other rows, but hold the database's lock, so that a transaction may     *)
(* fail.  Servers started in one directory share the file.                 *)
(***************************************************************************)
EXTENDS Integers, FiniteSets

CONSTANTS
    Servers,
    Issues,
    Pulls,      \* the issues that are pull requests
    PageSize,   \* per_page
    MaxUpdates, \* bound: changes of issues on GitHub
    MaxFaults,  \* bound: requests and transactions that fail, and stops
    NoIssueRow

VARIABLES
    issue,    \* what GitHub has: open, bodyless (no body), ver (its last change)
    recent,   \* issues changed within 30 days
    old,      \* issues created more than a year ago
    updates,  \* changes so far: they order the pages
    table,    \* github_issues, UNIQUE(repo, issue_number)
    at,       \* where a server is
    looping,  \* it is in _background_update_loop, not in initialize
    fetched,  \* the response it has got
    faults

github == <<issue, recent, old, updates>>
issuesVars == <<github, table, at, looping, fetched, faults>>

IssuesInit ==
    /\ issue \in [Issues -> [open : BOOLEAN, bodyless : BOOLEAN, ver : {0}]]
    /\ \A i \in Pulls : ~issue[i].bodyless \* nothing reads it
    /\ recent = Issues /\ old = {}
    /\ updates = 0
    /\ table = [i \in Issues |-> NoIssueRow]
    /\ at = [s \in Servers |-> "stopped"]
    /\ looping = [s \in Servers |-> FALSE]
    /\ fetched = [s \in Servers |-> {}]
    /\ faults = 0

-----------------------------------------------------------------------------
(* GitHub *)

\* An issue is opened again, closed or edited.
IssueChanges(i, open, bodyless) ==
    /\ updates < MaxUpdates /\ (bodyless => i \notin Pulls)
    /\ updates' = updates + 1
    /\ issue' = [issue EXCEPT ![i] = [open |-> open, bodyless |-> bodyless, ver |-> updates + 1]]
    /\ recent' = recent \cup {i}
    /\ UNCHANGED <<old, table, at, looping, fetched, faults>>

IssueAges(i) ==
    /\ \/ recent' = recent \ {i} /\ UNCHANGED old
       \/ i \notin Pulls /\ old' = old \cup {i} /\ UNCHANGED recent
    /\ UNCHANGED <<issue, updates, table, at, looping, fetched, faults>>

\* The parameter state selects; for closed issues so does since.
Selected(open) == {i \in Issues : issue[i].open = open /\ (~open => i \in recent)}

\* The first page, sorted by the last change.
Pages(open) ==
    {P \in SUBSET Selected(open) :
        /\ Cardinality(P) <= PageSize
        /\ Cardinality(P) < PageSize => P = Selected(open)
        /\ \A i \in P, j \in Selected(open) \ P : issue[i].ver >= issue[j].ver}

-----------------------------------------------------------------------------
(* A server *)

\* Where the steps of an update lead to.
After(s) ==
    CASE at[s] \in {"open", "openPage"} -> "closed"
      [] at[s] \in {"closed", "closedPage"} -> IF looping[s] THEN "cleanup" ELSE "sleep"
      [] at[s] = "cleanup" -> "sleep"

Goes(s, to) == at' = [at EXCEPT ![s] = to]

\* A request or a transaction that fails is logged, and the update goes on.
Fails(s) ==
    /\ at[s] \in {"open", "closed", "openPage", "closedPage", "cleanup"}
    /\ faults < MaxFaults
    /\ faults' = faults + 1
    /\ fetched' = [fetched EXCEPT ![s] = {}]
    /\ Goes(s, After(s))
    /\ UNCHANGED <<github, table, looping>>

\* initialize().
Initialize(s) ==
    /\ at[s] = "stopped"
    /\ Goes(s, "open")
    /\ looping' = [looping EXCEPT ![s] = FALSE]
    /\ UNCHANGED <<github, table, fetched, faults>>

\* _fetch_repo_issues and _fetch_issues_page, up to the response.
FetchPage(s) ==
    /\ at[s] \in {"open", "closed"}
    /\ \E P \in Pages(at[s] = "open") :
          fetched' = [fetched EXCEPT ![s] = {[i |-> i, is |-> issue[i]] : i \in P}]
    /\ Goes(s, IF at[s] = "open" THEN "openPage" ELSE "closedPage")
    /\ UNCHANGED <<github, table, looping, faults>>

Copies(s) == {x \in fetched[s] : x.i \notin Pulls}

\* _process_issues: one transaction for the page.  An issue without body makes
\* _analyze_severity raise, and nothing of the page is stored.
ProcessIssues(s) ==
    /\ at[s] \in {"openPage", "closedPage"}
    /\ table' = IF \E x \in Copies(s) : x.is.bodyless THEN table
                ELSE [i \in Issues |->
                         IF \E x \in Copies(s) : x.i = i
                         THEN (CHOOSE x \in Copies(s) : x.i = i).is ELSE table[i]]
    /\ fetched' = [fetched EXCEPT ![s] = {}]
    /\ Goes(s, After(s))
    /\ UNCHANGED <<github, looping, faults>>

\* Mutant: every old issue is deleted.
ExpiredOpen(i) == i \in old /\ table[i] # NoIssueRow

\* The WHERE of _cleanup_old_issues.
Expired(i) == i \in old /\ table[i] # NoIssueRow /\ ~table[i].open

CleanupOldIssues(s) ==
    /\ at[s] = "cleanup"
    /\ table' = [i \in Issues |-> IF Expired(i) THEN NoIssueRow ELSE table[i]]
    /\ Goes(s, After(s))
    /\ UNCHANGED <<github, looping, fetched, faults>>

\* _background_update_loop: the sleep ends.
Wake(s) ==
    /\ at[s] = "sleep"
    /\ Goes(s, "open")
    /\ looping' = [looping EXCEPT ![s] = TRUE]
    /\ UNCHANGED <<github, table, fetched, faults>>

\* stop() cancels the loop wherever it is; a process that dies does the same.
StopServer(s) ==
    /\ at[s] # "stopped" /\ faults < MaxFaults
    /\ faults' = faults + 1
    /\ Goes(s, "stopped")
    /\ fetched' = [fetched EXCEPT ![s] = {}]
    /\ UNCHANGED <<github, table, looping>>

UpdateStep(s) ==
    FetchPage(s) \/ ProcessIssues(s) \/ CleanupOldIssues(s) \/ Wake(s) \/ Fails(s)

IssuesNext ==
    \/ \E i \in Issues : IssueAges(i) \/ \E o, b \in BOOLEAN : IssueChanges(i, o, b)
    \/ \E s \in Servers : Initialize(s) \/ UpdateStep(s) \/ StopServer(s)

IssuesSpec == IssuesInit /\ [][IssuesNext]_issuesVars

\* Requests return or time out, and sleeps end.
FairIssuesSpec == IssuesSpec /\ \A s \in Servers : WF_issuesVars(UpdateStep(s))

-----------------------------------------------------------------------------
IssuesTypeOK ==
    /\ issue \in [Issues -> [open : BOOLEAN, bodyless : BOOLEAN, ver : 0 .. MaxUpdates]]
    /\ recent \subseteq Issues /\ old \subseteq Issues
    /\ updates \in 0 .. MaxUpdates
    /\ table \in [Issues -> [open : BOOLEAN, bodyless : BOOLEAN, ver : 0 .. MaxUpdates]
                             \cup {NoIssueRow}]
    /\ at \in [Servers -> {"stopped", "open", "openPage", "closed", "closedPage",
                           "cleanup", "sleep"}]
    /\ looping \in [Servers -> BOOLEAN]
    /\ \A s \in Servers : \A x \in fetched[s] : x.i \in Issues
    /\ faults \in 0 .. MaxFaults

\* The page an issue is on holds it for certain and has nothing without body.
OnGoodPage(i) ==
    \A P \in Pages(issue[i].open) : i \in P /\ \A j \in P \ Pulls : ~issue[j].bodyless

\* Rows of issues that are on a page and are not deleted as fast as they are
\* stored.
Synced ==
    \A i \in Issues \ Pulls :
        OnGoodPage(i) /\ (i \in old => issue[i].open) => table[i] = issue[i]

\* With a server running, and once GitHub is quiet and requests succeed, the
\* rows are what GitHub shows: pages that were fetched before a change and
\* stored after it, by this or another server, stops in the middle of an update
\* and the clean-up are all repaired by a later update.
EventuallySynced ==
    <>[](\E s \in Servers : at[s] # "stopped") => <>[]Synced
=============================================================================
