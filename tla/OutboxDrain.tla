----------------------------- MODULE OutboxDrain -----------------------------
(***************************************************************************)
(* export.drain: exporter.drain_outbox walks the outbox rows that are not  *)
(* exported, writes one JSONL file per event (tmp file, fsync, rename) and *)
(* settles the row.  Every UPDATE is autocommitted, the files are not part *)
(* of any transaction and no lock is held between two steps, so a drain    *)
(* that dies, an I/O error and a second drain meet it anywhere.            *)
(*                                                                         *)
(* Files are modelled as a POSIX directory: the tmp and the final name of  *)
(* an event are links to inodes, and an open descriptor keeps its inode    *)
(* whatever happens to the names.                                          *)
(***************************************************************************)
EXTENDS Naturals, Sequences, FiniteSets

CONSTANTS
    Drains,       \* processes that run export.drain
    None,
    NumEvents,    \* bound: events the writers commit with the export on
    Unreadable,   \* events whose stored payload is missing or no JSON object
    AttemptCap,   \* bound: attempt_count saturates here
    MaxFaults,    \* bound: OSErrors
    MaxCrashes    \* bound: deaths of a drain

ASSUME OutboxAssumption ==
    /\ NumEvents \in Nat /\ AttemptCap \in Nat /\ MaxFaults \in Nat /\ MaxCrashes \in Nat
    /\ Unreadable \subseteq 1..NumEvents
    /\ IsFiniteSet(Drains)

Events == 1..NumEvents
Inodes == 1..(2 * NumEvents + Cardinality(Drains))

VARIABLES
    row,       \* [Events -> outbox.state, or "none" before the event is committed]
    attempts,  \* [Events -> outbox.attempt_count]
    tmp,       \* [Events -> inode of <event>.jsonl.tmp, or None]
    final,     \* [Events -> inode of <event>.jsonl, or None]
    content,   \* [Inodes -> what the inode holds]
    stale,     \* events whose tmp file is older than an hour
    pc,        \* [Drains -> step]
    todo,      \* [Drains -> Seq(Events)]: the rows the drain has read, head first
    fd,        \* [Drains -> open inode, or None]
    faults, crashes

vars == <<row, attempts, tmp, final, content, stale, pc, todo, fd, faults, crashes>>
table == <<row, attempts>>
disk == <<tmp, final, content, stale>>

Init ==
    /\ row = [e \in Events |-> "none"]
    /\ attempts = [e \in Events |-> 0]
    /\ tmp = [e \in Events |-> None]
    /\ final = [e \in Events |-> None]
    /\ content = [i \in Inodes |-> "empty"]
    /\ stale = {}
    /\ pc = [p \in Drains |-> "idle"]
    /\ todo = [p \in Drains |-> << >>]
    /\ fd = [p \in Drains |-> None]
    /\ faults = 0
    /\ crashes = 0

-----------------------------------------------------------------------------
(* Helpers. *)

Goto(p, step) == pc' = [pc EXCEPT ![p] = step]
Current(p) == Head(todo[p])
Whole(e) == final[e] # None /\ content[final[e]] = "full"

Linked == {tmp[e] : e \in Events} \cup {final[e] : e \in Events} \cup {fd[p] : p \in Drains}
NewInode == CHOOSE i \in Inodes \ Linked : TRUE

Closed(p) == [fd EXCEPT ![p] = None]

\* UPDATE outbox ... attempt_count + 1, then the next row of the loop.
Settle(p, state) ==
    LET e == Current(p) IN
    /\ row' = [row EXCEPT ![e] = state]
    /\ attempts' = [attempts EXCEPT ![e] = IF @ < AttemptCap THEN @ + 1 ELSE @]
    /\ todo' = [todo EXCEPT ![p] = Tail(@)]
    /\ Goto(p, "load")

Ascending(ids) ==
    CHOOSE s \in [1..Cardinality(ids) -> ids] : \A i, j \in 1..Cardinality(ids) : i < j => s[i] < s[j]

\* Mutant: failed rows are not read again.
DrainablePendingOnly == Ascending({e \in Events : row[e] = "pending"})

\* _read_outbox_pending: ORDER BY event_id.
Drainable == Ascending({e \in Events : row[e] \in {"pending", "failed"}})

-----------------------------------------------------------------------------
(* The writers: the next event is committed together with its outbox row. *)

Enqueue(e) ==
    /\ row[e] = "none"
    /\ \A d \in 1..(e - 1) : row[d] # "none"
    /\ row' = [row EXCEPT ![e] = "pending"]
    /\ UNCHANGED <<attempts, disk, pc, todo, fd, faults, crashes>>

-----------------------------------------------------------------------------
(* drain_outbox *)

\* cleanup_orphan_tmp_files, unless the caller passed cleanup_orphans = false.
Start(p, cleanup) ==
    /\ pc[p] = "idle"
    /\ tmp' = [e \in Events |-> IF cleanup /\ e \in stale THEN None ELSE tmp[e]]
    /\ stale' = IF cleanup THEN {} ELSE stale
    /\ Goto(p, "list")
    /\ UNCHANGED <<table, final, content, todo, fd, faults, crashes>>

List(p) ==
    /\ pc[p] = "list"
    /\ todo' = [todo EXCEPT ![p] = Drainable]
    /\ Goto(p, "load")
    /\ UNCHANGED <<table, disk, fd, faults, crashes>>

\* The head of the loop: the drain ends, marks an unreadable event as failed,
\* or goes on to write its line.
Load(p) ==
    /\ pc[p] = "load"
    /\ \/ /\ todo[p] = << >>
          /\ Goto(p, "idle")
          /\ UNCHANGED <<table, todo>>
       \/ /\ todo[p] # << >> /\ Current(p) \in Unreadable
          /\ Settle(p, "failed")
       \/ /\ todo[p] # << >> /\ Current(p) \notin Unreadable
          /\ Goto(p, "open")
          /\ UNCHANGED <<table, todo>>
    /\ UNCHANGED <<disk, fd, faults, crashes>>

\* Mutant: the line is written under the final name.
OpenFinal(p) ==
    LET e == Current(p)
        i == IF final[e] # None THEN final[e] ELSE NewInode
    IN
    /\ pc[p] = "open"
    /\ final' = [final EXCEPT ![e] = i]
    /\ content' = [content EXCEPT ![i] = "empty"]
    /\ fd' = [fd EXCEPT ![p] = i]
    /\ Goto(p, "write")
    /\ UNCHANGED <<table, tmp, stale, todo, faults, crashes>>

\* os.open(tmp, O_CREAT|O_WRONLY|O_TRUNC): an existing tmp file is emptied, not
\* replaced.
Open(p) ==
    LET e == Current(p)
        i == IF tmp[e] # None THEN tmp[e] ELSE NewInode
    IN
    /\ pc[p] = "open"
    /\ tmp' = [tmp EXCEPT ![e] = i]
    /\ content' = [content EXCEPT ![i] = "empty"]
    /\ stale' = stale \ {e}
    /\ fd' = [fd EXCEPT ![p] = i]
    /\ Goto(p, "write")
    /\ UNCHANGED <<table, final, todo, faults, crashes>>

\* Mutant: the tmp file is opened by name once more to write it.
WriteByName(p) ==
    LET e == Current(p) IN
    /\ pc[p] = "write"
    /\ IF tmp[e] = None
       THEN Goto(p, "fail") /\ UNCHANGED content
       ELSE Goto(p, "rename") /\ content' = [content EXCEPT ![tmp[e]] = "full"]
    /\ fd' = Closed(p)
    /\ UNCHANGED <<table, tmp, final, stale, todo, faults, crashes>>

\* write, flush, fsync, close.
Write(p) ==
    /\ pc[p] = "write"
    /\ content' = [content EXCEPT ![fd[p]] = "full"]
    /\ stale' = stale \ {e \in Events : tmp[e] = fd[p]}
    /\ fd' = Closed(p)
    /\ Goto(p, "rename")
    /\ UNCHANGED <<table, tmp, final, todo, faults, crashes>>

\* os.replace(tmp, final): the tmp name may be gone (a second drain renamed it,
\* or its cleanup removed it), which is an OSError.
Rename(p) ==
    LET e == Current(p) IN
    /\ pc[p] = "rename"
    /\ IF tmp[e] = None
       THEN Goto(p, "fail") /\ UNCHANGED <<tmp, final>>
       ELSE /\ final' = [final EXCEPT ![e] = tmp[e]]
            /\ tmp' = [tmp EXCEPT ![e] = None]
            /\ Goto(p, "mark")
    /\ stale' = stale \ {e}
    /\ UNCHANGED <<table, content, todo, fd, faults, crashes>>

\* The line was read back and scanned; the row is exported.
Mark(p) ==
    /\ pc[p] = "mark"
    /\ Settle(p, "exported")
    /\ UNCHANGED <<disk, fd, faults, crashes>>

\* except OSError: the row is left for the next drain.
Fail(p) ==
    /\ pc[p] = "fail"
    /\ Settle(p, "failed")
    /\ UNCHANGED <<disk, fd, faults, crashes>>

-----------------------------------------------------------------------------
(* The environment *)

\* ENOSPC and its like, while opening, writing or renaming.  What was written
\* of the line so far stays in the inode.
IOError(p) ==
    /\ pc[p] \in {"open", "write", "rename"}
    /\ faults < MaxFaults
    /\ faults' = faults + 1
    /\ fd' = Closed(p)
    /\ Goto(p, "fail")
    /\ UNCHANGED <<table, disk, todo, crashes>>

\* The process dies, or an UPDATE raises "database is locked" out of the loop.
Crash(p) ==
    /\ pc[p] # "idle"
    /\ crashes < MaxCrashes
    /\ crashes' = crashes + 1
    /\ Goto(p, "idle")
    /\ todo' = [todo EXCEPT ![p] = << >>]
    /\ fd' = Closed(p)
    /\ UNCHANGED <<table, disk, faults>>

\* An hour passes: every tmp file that lies about is now an orphan to cleanup,
\* a live drain's (on a suspended machine) included.
Age ==
    /\ stale # {e \in Events : tmp[e] # None}
    /\ stale' = {e \in Events : tmp[e] # None}
    /\ UNCHANGED <<table, tmp, final, content, pc, todo, fd, faults, crashes>>

Step(p) ==
    \/ List(p) \/ Load(p) \/ Open(p) \/ Write(p) \/ Rename(p) \/ Mark(p) \/ Fail(p)

Next ==
    \/ \E e \in Events : Enqueue(e)
    \/ \E p \in Drains : \/ \E cleanup \in BOOLEAN : Start(p, cleanup)
                         \/ Step(p) \/ IOError(p) \/ Crash(p)
    \/ Age

Spec == Init /\ [][Next]_vars

\* There is no daemon: a drain that runs goes on, and someone calls export.drain
\* again and again.
Fairness == \A p \in Drains : WF_vars(Step(p)) /\ WF_vars(Start(p, TRUE))
FairSpec == Spec /\ Fairness

-----------------------------------------------------------------------------
(* Properties *)

\* What the importer, which ignores *.tmp, takes any *.jsonl to be (operability.md
\* 9.1: "written as <name>.jsonl.tmp then renamed to <name>.jsonl on success").
ReadersSeeWholeFiles == \A e \in Events : final[e] # None => Whole(e)

\* With a second drain running, a row that says 'exported' has at least a file of
\* its name; and two drains that ran to their end, without an I/O error or a crash,
\* leave only whole files behind: each emptying of a shared tmp file is followed by
\* a write through the same descriptor.
WholeWhenQuiet ==
    /\ \A e \in Events : row[e] = "exported" => final[e] # None
    /\ (\A p \in Drains : pc[p] = "idle") => ReadersSeeWholeFiles

\* Every readable event that is queued gets its file and its row is settled for
\* good, past errors, deaths and unreadable neighbours.
Drained ==
    \A e \in Events \ Unreadable :
        row[e] = "pending" ~> [](row[e] = "exported" /\ Whole(e))

\* Abstract specification: the export of one drain at a time is atomic per event
\* and keeps the order of the log, whatever died or failed in between.
Abstract == INSTANCE AtomicExport WITH
    files <- {e \in Events : Whole(e)},
    done <- {e \in Events : row[e] = "exported"},
    failed <- {e \in Events : row[e] = "failed"}
AtomicPerEvent == Abstract!Spec
=============================================================================
