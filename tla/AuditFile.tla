------------------------------- MODULE AuditFile -------------------------------
(***************************************************************************)
(* The JSONL audit log of several processes                                *)
(* (src/auto_remediate/audit_logger.py) under rotation by rename, and what *)
(* a reader finds in it (read_entries there, query_audit_log of            *)
(* audit_query.py).                                                        *)
(*                                                                         *)
(* Threads of a process take turns on the logger's lock, and an append     *)
(* holds the file's flock over one os.write on an O_APPEND descriptor, so  *)
(* an append is one step.  What os.write returns is not looked at: on a    *)
(* full disk it may store the head of a line.                              *)
(***************************************************************************)
EXTENDS Integers, Sequences, FiniteSets

CONSTANTS
    Writers,      \* processes with an AuditLogger on the path
    MaxRecords,   \* bound: records appended
    MaxRotations, \* bound: renames of the log
    MaxRefused,   \* bound: writes that raise
    MaxTorn,      \* bound: writes that store a part of the line
    MaxOpenFails  \* bound: os.open calls that raise

ASSUME FileBounds ==
    /\ MaxRecords \in Nat /\ MaxRotations \in Nat
    /\ MaxTorn \in Nat /\ MaxOpenFails \in Nat

\* Files are numbered in the order they are created.
Files == 0 .. MaxRotations

\* What a descriptor number denotes besides a file of the log.
Closed  == -1
Foreign == -2

VARIABLES
    path,     \* the file the log path names, or Closed when it names none
    created,  \* files created so far
    content,  \* the lines of each file: the record and whether it is whole
    fd,       \* the file a process's _fd denotes
    sent,     \* records appended so far
    reported, \* records whose append wrote audit_write_failed to stderr
    stray,    \* records written to something that is not the log
    torn, openFails

fileVars == <<path, created, content, fd, sent, reported, stray, torn, openFails>>

AuditFileInit ==
    /\ path = 0 /\ created = 1
    /\ content = [f \in Files |-> <<>>]
    /\ fd = [w \in Writers |-> 0]
    /\ sent = 0
    /\ reported = {} /\ stray = {}
    /\ torn = 0 /\ openFails = 0

\* flock, write, unlock of the next record.
AppendLine(w, whole) ==
    /\ fd[w] \in Files
    /\ content' = [content EXCEPT ![fd[w]] = Append(@, [rec |-> sent + 1, whole |-> whole])]
    /\ UNCHANGED <<reported, stray>>

\* An OSError of flock or write is printed and the caller goes on.
Refused(w) ==
    /\ fd[w] = Closed \/ Cardinality(reported) < MaxRefused
    /\ reported' = reported \cup {sent + 1}
    /\ UNCHANGED <<content, stray>>

\* The number belongs to another file of the process by now.
WriteStray(w) ==
    /\ fd[w] = Foreign
    /\ stray' = stray \cup {sent + 1}
    /\ UNCHANGED <<content, reported>>

\* append() of the next record.
AppendRecord(w) ==
    /\ sent < MaxRecords
    /\ sent' = sent + 1
    /\ \/ AppendLine(w, TRUE) /\ UNCHANGED torn
       \/ torn < MaxTorn /\ torn' = torn + 1 /\ AppendLine(w, FALSE)
       \/ Refused(w) /\ UNCHANGED torn
       \/ WriteStray(w) /\ UNCHANGED torn
    /\ UNCHANGED <<path, created, fd, openFails>>

\* logrotate renames the file; every descriptor keeps the file it has.
Rotate ==
    /\ path # Closed /\ created <= MaxRotations
    /\ path' = Closed
    /\ UNCHANGED <<created, content, fd, sent, reported, stray, torn, openFails>>

\* Mutant: O_TRUNC for O_APPEND.
ReopenTruncates(w) ==
    LET f == IF path = Closed THEN created ELSE path
    IN  /\ path' = f
        /\ created' = IF path = Closed THEN created + 1 ELSE created
        /\ fd' = [fd EXCEPT ![w] = f]
        /\ content' = [content EXCEPT ![f] = <<>>]
        /\ UNCHANGED <<sent, reported, stray, torn, openFails>>

\* reopen(): close, then open with O_CREAT.
Reopen(w) ==
    LET f == IF path = Closed THEN created ELSE path
    IN  /\ path' = f
        /\ created' = IF path = Closed THEN created + 1 ELSE created
        /\ fd' = [fd EXCEPT ![w] = f]
        /\ UNCHANGED <<content, sent, reported, stray, torn, openFails>>

\* reopen() raises in os.open: _fd keeps the number of the closed descriptor.
ReopenRaises(w) ==
    /\ openFails < MaxOpenFails
    /\ openFails' = openFails + 1
    /\ fd' = [fd EXCEPT ![w] = Closed]
    /\ UNCHANGED <<path, created, content, sent, reported, stray, torn>>

\* The process opens something else and is given that number.
NumberReused(w) ==
    /\ fd[w] = Closed
    /\ fd' = [fd EXCEPT ![w] = Foreign]
    /\ UNCHANGED <<path, created, content, sent, reported, stray, torn, openFails>>

FileNext ==
    \/ Rotate
    \/ \E w \in Writers : AppendRecord(w) \/ Reopen(w) \/ ReopenRaises(w) \/ NumberReused(w)

FileSpec == AuditFileInit /\ [][FileNext]_fileVars

-----------------------------------------------------------------------------
(* Reading *)

\* A line that is not whole has no newline, so the next one is glued to it;
\* json.loads accepts neither, and the query skips them.
Parses(f, i) == content[f][i].whole /\ (i > 1 => content[f][i - 1].whole)

Readable(f) == {content[f][i].rec : i \in {i \in DOMAIN content[f] : Parses(f, i)}}

-----------------------------------------------------------------------------
FileTypeOK ==
    /\ path \in Files \cup {Closed} /\ created \in 1 .. MaxRotations + 1
    /\ content \in [Files -> Seq([rec : 1 .. MaxRecords, whole : BOOLEAN])]
    /\ fd \in [Writers -> Files \cup {Closed, Foreign}]
    /\ sent \in 0 .. MaxRecords
    /\ reported \subseteq 1 .. sent /\ stray \subseteq 1 .. sent
    /\ torn \in 0 .. MaxTorn /\ openFails \in 0 .. MaxOpenFails

\* Records that cannot be read in any file and were not reported on stderr.
Missing == (1 .. sent) \ (reported \cup UNION {Readable(f) : f \in Files})

\* However processes append, rotate and reopen: a line that is stored in part
\* costs at most itself and the one after it, only a failed reopen sends records
\* elsewhere, and every other record is in one file, in the order of appends.
RecordsKept ==
    /\ Cardinality(Missing \ stray) <= 2 * torn
    /\ openFails = 0 => stray = {}
    /\ \A f \in Files : \A i, j \in DOMAIN content[f] :
          i < j => content[f][i].rec < content[f][j].rec
    /\ \A f, g \in Files : f # g => Readable(f) \cap Readable(g) = {}
=============================================================================
