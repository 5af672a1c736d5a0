------------------------------ MODULE ExplainCache ------------------------------
(***************************************************************************)
(* Explanations of findings: the SQLite cache                              *)
(* (src/auto_remediate/finding_cache.py, FindingCache and CachedBackend)   *)
(* in front of the chat-completions backend (nim_backend.py).              *)
(*                                                                         *)
(* explain() runs without a break from the lookup to the request and from  *)
(* the reply to the INSERT OR REPLACE; between the two other callers run,  *)
(* with the same or another model, rows expire and are evicted, and the    *)
(* process may restart with the rows it stored.                            *)
(***************************************************************************)
EXTENDS Integers

CONSTANTS
    Askers,     \* concurrent callers of explain()
    ModelOf,    \* the model_id of a caller's CachedBackend
    Subjects,   \* findings with different cache keys
    TTL,        \* _TTL_SECONDS
    MaxRetries, \* MAX_RETRIES
    NoRow

\* A row of the cache: the model_id and how old it is; what is past the TTL does
\* not get older.
Rows == [model : {ModelOf[c] : c \in Askers}, age : 0 .. TTL + 1]

ASSUME ExplainConstants ==
    /\ TTL \in Nat /\ MaxRetries \in Nat
    /\ NoRow \notin Rows

VARIABLES
    row,     \* the row under a finding's hash, or NoRow
    call,    \* where a caller's explain() is
    about,   \* the finding it was called with
    attempt, \* NimBackend.explain: attempts made
    known    \* history: the age of what a caller was last told about a finding;
             \* TTL + 1 when that is nothing, or another model answered since

cacheVars == <<row, call, about, attempt, known>>

ExplainInit ==
    /\ row = [s \in Subjects |-> NoRow]
    /\ call = [c \in Askers |-> "idle"]
    /\ about \in [Askers -> Subjects]
    /\ attempt = [c \in Askers |-> 0]
    /\ known = [c \in Askers |-> [s \in Subjects |-> TTL + 1]]

\* FindingCache.get.
Hit(s, model) == row[s] # NoRow /\ row[s].age <= TTL /\ row[s].model = model

\* CachedBackend.explain, up to its return or to the first request.
Ask(c, s) ==
    /\ call[c] \in {"idle", "answered", "raised"}
    /\ about' = [about EXCEPT ![c] = s]
    /\ IF Hit(s, ModelOf[c])
       THEN /\ call' = [call EXCEPT ![c] = "answered"]
            /\ known' = [known EXCEPT ![c][s] = row[s].age]
            /\ UNCHANGED attempt
       ELSE /\ call' = [call EXCEPT ![c] = "waiting"]
            /\ attempt' = [attempt EXCEPT ![c] = 1]
            /\ UNCHANGED known
    /\ UNCHANGED row

\* The request returns, and what is parsed of the text, or the answer of the
\* table when it cannot be parsed, goes into the cache: INSERT OR REPLACE under
\* the finding's hash, whichever model's row was there.
Reply(c) ==
    /\ call[c] = "waiting"
    /\ row' = [row EXCEPT ![about[c]] = [model |-> ModelOf[c], age |-> 0]]
    /\ known' = [d \in Askers |->
                    [known[d] EXCEPT ![about[c]] =
                        IF d = c THEN 0 ELSE IF ModelOf[d] = ModelOf[c] THEN @ ELSE TTL + 1]]
    /\ call' = [call EXCEPT ![c] = "answered"]
    /\ attempt' = [attempt EXCEPT ![c] = 0]
    /\ UNCHANGED about

\* The request returns, but FindingCache.set raises: the caller gets the
\* exception and the answer is lost.
ReplyLost(c) ==
    /\ call[c] = "waiting"
    /\ call' = [call EXCEPT ![c] = "raised"]
    /\ attempt' = [attempt EXCEPT ![c] = 0]
    /\ UNCHANGED <<row, about, known>>

\* Mutant: the sleep goes back to the first attempt.
RequestFailsUncounted(c) ==
    /\ call[c] = "waiting"
    /\ call' = [call EXCEPT ![c] = "sleeping"]
    /\ UNCHANGED <<row, about, attempt, known>>

\* The request raises: sleep and try again, or raise at the last attempt.
RequestFails(c) ==
    /\ call[c] = "waiting"
    /\ IF attempt[c] > MaxRetries
       THEN /\ call' = [call EXCEPT ![c] = "raised"]
            /\ attempt' = [attempt EXCEPT ![c] = 0]
       ELSE /\ call' = [call EXCEPT ![c] = "sleeping"]
            /\ UNCHANGED attempt
    /\ UNCHANGED <<row, about, known>>

TryAgain(c) ==
    /\ call[c] = "sleeping"
    /\ call' = [call EXCEPT ![c] = "waiting"]
    /\ attempt' = [attempt EXCEPT ![c] = IF @ > MaxRetries THEN @ ELSE @ + 1]
    /\ UNCHANGED <<row, about, known>>

\* Mutant: a row goes when its TTL ends, though a lookup would still find it.
EvictEarly ==
    /\ row' = [s \in Subjects |->
                  IF row[s] # NoRow /\ row[s].age >= TTL THEN NoRow ELSE row[s]]
    /\ UNCHANGED <<call, about, attempt, known>>

\* evict_expired().
EvictExpired ==
    /\ row' = [s \in Subjects |->
                  IF row[s] # NoRow /\ row[s].age > TTL THEN NoRow ELSE row[s]]
    /\ UNCHANGED <<call, about, attempt, known>>

\* Time passes.
Older(age) == IF age > TTL THEN age ELSE age + 1

Tick ==
    /\ row' = [s \in Subjects |->
                  IF row[s] = NoRow THEN NoRow ELSE [row[s] EXCEPT !.age = Older(@)]]
    /\ known' = [c \in Askers |-> [s \in Subjects |-> Older(known[c][s])]]
    /\ UNCHANGED <<call, about, attempt>>

\* The process restarts: the calls are gone, the rows stay.
Reboot ==
    /\ call' = [c \in Askers |-> "idle"]
    /\ attempt' = [c \in Askers |-> 0]
    /\ UNCHANGED <<row, about, known>>

CallGoesOn(c) == Reply(c) \/ ReplyLost(c) \/ RequestFails(c) \/ TryAgain(c)

ExplainNext ==
    \/ \E c \in Askers :
          \/ \E s \in Subjects : Ask(c, s)
          \/ CallGoesOn(c)
    \/ EvictExpired \/ Tick \/ Reboot

ExplainSpec == ExplainInit /\ [][ExplainNext]_cacheVars

\* A request returns or times out, and a sleep ends.
FairExplainSpec == ExplainSpec /\ \A c \in Askers : WF_cacheVars(CallGoesOn(c))

-----------------------------------------------------------------------------
ExplainTypeOK ==
    /\ row \in [Subjects -> Rows \cup {NoRow}]
    /\ call \in [Askers -> {"idle", "waiting", "sleeping", "answered", "raised"}]
    /\ about \in [Askers -> Subjects]
    /\ attempt \in [Askers -> 0 .. MaxRetries + 1]
    /\ known \in [Askers -> [Subjects -> 0 .. TTL + 1]]

\* The backend is asked once: for as long as the TTL runs from the request, what
\* a caller was told is found again without a request, by it and by the callers
\* with its model, although requests for the same finding were under way beside
\* it, others failed or could not be stored, rows were evicted and the process
\* restarted.  Only a caller with another model, which overwrites the row under
\* the same hash, makes it ask again.
AskedOnce ==
    \A c, d \in Askers : \A s \in Subjects :
        known[c][s] <= TTL /\ ModelOf[d] = ModelOf[c] => Hit(s, ModelOf[d])

\* Every call returns or raises after its last attempt, whatever the backend
\* does.
EveryCallEnds ==
    \A c \in Askers : call[c] = "waiting" ~> call[c] \in {"idle", "answered", "raised"}
=============================================================================
