---------------------------- MODULE JournalFiles ----------------------------
(***************************************************************************)
(* The files of a journal under journal.backup, journal.restore and        *)
(* import.commit(single), beside the tool calls of other processes.        *)
(*                                                                         *)
(* A SQLite database in WAL mode is two files: the main file, and a log    *)
(* whose frames hold whole images of the pages a transaction changed.  A   *)
(* reader takes a page from its last frame, else from the main file.  The  *)
(* last connection to close copies the frames into the main file and       *)
(* removes the log by its name.  The admin tools read, overwrite and       *)
(* rename these files without any of SQLite's locks.                       *)
(***************************************************************************)
EXTENDS Integers, Sequences, FiniteSets

CONSTANTS
    Clients,     \* processes that dispatch tool calls
    None,
    Pages,       \* 1..n, in the order of the main file
    Touches,     \* pages each transaction changes, by its number
    Imported,    \* numbers of the transactions an import file holds
    MaxOpens, MaxWrites, MaxAdmin, MaxCrashes   \* bounds

ASSUME FilesAssumption ==
    /\ IsFiniteSet(Pages) /\ Pages # {} /\ Pages = 1..Cardinality(Pages)
    /\ Touches \in Seq((SUBSET Pages) \ {{}})
    /\ None \notin Clients
    /\ {MaxOpens, MaxWrites, MaxAdmin, MaxCrashes} \subseteq Nat
    /\ MaxWrites <= Len(Touches) /\ Imported \subseteq (MaxWrites + 1)..Len(Touches)

Txns == 1..Len(Touches)
Image == [Pages -> SUBSET Txns]   \* what the pages of a main file reflect
Frame == UNION {[some -> SUBSET Txns] : some \in SUBSET Pages}

ASSUME NoneAssumption == None \notin Image /\ None \notin Seq(Frame)

Blank == [g \in Pages |-> {}]
ImageOf(txns) == [g \in Pages |-> {t \in txns : g \in Touches[t]}]

VARIABLES
    mains,      \* inodes of main files, oldest first
    wals,       \* inodes of logs: sequences of frames
    main, wal,  \* the inodes the two names stand for (wal = 0: no such file)
    conn,       \* [Clients -> [main, wal] it has open, or None]
    busy,       \* clients inside a transaction
    backup,     \* [image, manifest]: the backup directory
    op,         \* what the admin process is doing
    page,       \* the next page it copies
    seen,       \* what import.commit has read: fingerprint and staged copy
    truth,      \* transactions the journal must hold
    must,       \* transactions the running backup must hold
    calm,       \* no client and no death met a replacement or a copy of the files
    opens, writes, admin, crashes

vars == <<mains, wals, main, wal, conn, busy, backup, op, page, seen, truth,
          must, calm, opens, writes, admin, crashes>>
files == <<mains, wals, main, wal>>
counts == <<opens, writes, admin, crashes>>

NotSeen == [main |-> None, wal |-> None, staged |-> None]

Init ==
    /\ mains = <<Blank>> /\ wals = << >> /\ main = 1 /\ wal = 0
    /\ conn = [p \in Clients |-> None] /\ busy = {}
    /\ backup = [image |-> Blank, manifest |-> None]
    /\ op = "idle" /\ page = 1 /\ seen = NotSeen
    /\ truth = {} /\ must = {} /\ calm = TRUE
    /\ opens = 0 /\ writes = 0 /\ admin = 0 /\ crashes = 0

-----------------------------------------------------------------------------
(* SQLite's WAL mode, as far as the tools rely on it. *)

\* The database a reader sees in a main file with a log beside it.
Recover(m, frames) ==
    [g \in Pages |->
        LET hits == {i \in DOMAIN frames : g \in DOMAIN frames[i]} IN
        IF hits = {} THEN m[g]
        ELSE frames[CHOOSE i \in hits : \A j \in hits : i >= j][g]]

Frames(w) == IF w = 0 THEN << >> ELSE wals[w]
Journal == Recover(mains[main], Frames(wal))   \* what a new connection sees
View(p) == Recover(mains[conn[p].main], wals[conn[p].wal])

Connected == {p \in Clients : conn[p] # None}
OnMain(m) == {p \in Connected : conn[p].main = m}
OnWal(w) == {p \in Connected : conn[p].wal = w}

\* Between import.commit's last look at the files and its answer, and while
\* journal.restore writes, nobody else may have the journal open.
Replacing == op \in {"recheck wal", "replace", "unlink", "restore"}

Open(p) ==
    /\ conn[p] = None
    /\ opens < MaxOpens
    /\ opens' = opens + 1
    /\ LET w == IF wal = 0 THEN Len(wals) + 1 ELSE wal IN
         /\ wals' = IF wal = 0 THEN Append(wals, << >>) ELSE wals
         /\ wal' = w
         /\ conn' = [conn EXCEPT ![p] = [main |-> main, wal |-> w]]
    /\ calm' = (calm /\ ~Replacing)
    /\ UNCHANGED <<mains, main, busy, backup, op, page, seen, truth, must,
                   writes, admin, crashes>>

\* BEGIN IMMEDIATE: one writer for each log file.
Begin(p) ==
    /\ conn[p] # None
    /\ busy \cap OnWal(conn[p].wal) = {}
    /\ busy' = busy \cup {p}
    /\ UNCHANGED <<files, conn, backup, op, page, seen, truth, must, calm, counts>>

Commit(p) ==
    LET t == writes + 1
        w == conn[p].wal
        frame == [g \in Touches[t] |-> View(p)[g] \cup {t}]
    IN
    /\ p \in busy
    /\ writes < MaxWrites
    /\ writes' = t
    /\ wals' = [wals EXCEPT ![w] = Append(@, frame)]
    /\ busy' = busy \ {p}
    /\ truth' = truth \cup {t}
    /\ UNCHANGED <<mains, main, wal, conn, backup, op, page, seen, must, calm,
                   opens, admin, crashes>>

Rollback(p) ==
    /\ p \in busy
    /\ busy' = busy \ {p}
    /\ UNCHANGED <<files, conn, backup, op, page, seen, truth, must, calm, counts>>

\* Database.close: the last connection checkpoints and removes the log.
Close(p) ==
    LET m == conn[p].main  w == conn[p].wal IN
    /\ conn[p] # None /\ p \notin busy
    /\ conn' = [conn EXCEPT ![p] = None]
    /\ IF OnMain(m) = {p}
       THEN /\ mains' = [mains EXCEPT ![m] = View(p)]
            /\ wals' = [wals EXCEPT ![w] = << >>]
            /\ wal' = 0
       ELSE UNCHANGED <<mains, wals, wal>>
    /\ calm' = (calm /\ ~(op = "copy" /\ OnMain(m) = {p}))
    /\ UNCHANGED <<main, busy, backup, op, page, seen, truth, must, counts>>

\* A client dies; its log stays.
Crash(p) ==
    /\ conn[p] # None
    /\ crashes < MaxCrashes
    /\ crashes' = crashes + 1
    /\ conn' = [conn EXCEPT ![p] = None]
    /\ busy' = busy \ {p}
    /\ UNCHANGED <<files, backup, op, page, seen, truth, must, calm, opens,
                   writes, admin>>

-----------------------------------------------------------------------------
(* journal.backup *)

\* wal_checkpoint(TRUNCATE) fails loudly when another connection is inside a
\* transaction; then the connection is closed.
BackupCheckpoint ==
    /\ op = "idle"
    /\ admin < MaxAdmin
    /\ busy \cap OnMain(main) = {}
    /\ admin' = admin + 1
    /\ mains' = [mains EXCEPT ![main] = Journal]
    /\ wals' = IF wal = 0 THEN wals ELSE [wals EXCEPT ![wal] = << >>]
    /\ wal' = IF OnMain(main) = {} THEN 0 ELSE wal
    /\ op' = "copy" /\ page' = 1
    /\ must' = IF calm THEN truth ELSE {}
    /\ UNCHANGED <<main, conn, busy, backup, seen, truth, calm, opens, writes, crashes>>

\* shutil.copy2 of the main file, which goes on living meanwhile.
BackupCopy ==
    /\ op = "copy"
    /\ backup' = [backup EXCEPT !.image =
                    [g \in Pages |-> IF g < page THEN @[g]
                                     ELSE IF g = page THEN mains[main][g] ELSE {}]]
    /\ page' = page + 1
    /\ op' = IF page + 1 \in Pages THEN "copy" ELSE "manifest"
    /\ UNCHANGED <<files, conn, busy, seen, truth, must, calm, counts>>

\* The hash of what was copied, written last.
BackupManifest ==
    /\ op = "manifest"
    /\ backup' = [backup EXCEPT !.manifest = backup.image]
    /\ op' = "idle"
    /\ UNCHANGED <<files, conn, busy, page, seen, truth, must, calm, counts>>

-----------------------------------------------------------------------------
(* journal.restore *)

\* Mutant: the hashes are not compared.
RestoreUnverified ==
    /\ op = "idle"
    /\ admin < MaxAdmin
    /\ admin' = admin + 1
    /\ backup.manifest # None
    /\ op' = "restore" /\ page' = 1
    /\ calm' = (calm /\ Connected = {} /\ wal = 0)
    /\ UNCHANGED <<files, conn, busy, backup, seen, truth, must, opens, writes, crashes>>

\* Every file is hashed before anything is written.
RestoreVerify ==
    /\ op = "idle"
    /\ admin < MaxAdmin
    /\ admin' = admin + 1
    /\ backup.manifest = backup.image
    /\ op' = "restore" /\ page' = 1
    /\ calm' = (calm /\ Connected = {} /\ wal = 0)
    /\ UNCHANGED <<files, conn, busy, backup, seen, truth, must, opens, writes, crashes>>

\* shutil.copy2 over the main file in place; a log that is there stays.
RestoreCopy ==
    /\ op = "restore"
    /\ mains' = [mains EXCEPT ![main] =
                   [g \in Pages |-> IF g < page THEN @[g]
                                    ELSE IF g = page THEN backup.image[g] ELSE {}]]
    /\ page' = page + 1
    /\ op' = IF page + 1 \in Pages THEN "restore" ELSE "idle"
    /\ truth' = IF page + 1 \in Pages THEN truth
                ELSE UNION {backup.manifest[g] : g \in Pages}
    /\ UNCHANGED <<wals, main, wal, conn, busy, backup, seen, must, calm, counts>>

-----------------------------------------------------------------------------
(* import.commit, transaction_mode = "single" *)

WalBytes == IF wal = 0 THEN None ELSE wals[wal]

\* _db_files_fingerprint and _copy_db_files read one file after the other.
ImportRead ==
    \/ /\ op = "idle" /\ admin < MaxAdmin
       /\ admin' = admin + 1
       /\ seen' = [NotSeen EXCEPT !.main = mains[main]]
       /\ op' = "read wal"
       /\ UNCHANGED <<files, conn, busy, backup, page, truth, must, calm, opens,
                      writes, crashes>>
    \/ /\ op = "read wal"
       /\ seen' = [seen EXCEPT !.wal = WalBytes]
       /\ op' = "copy main"
       /\ UNCHANGED <<files, conn, busy, backup, page, truth, must, calm, counts>>
    \/ /\ op = "copy main"
       /\ seen' = [seen EXCEPT !.staged = mains[main]]
       /\ op' = "copy wal"
       /\ UNCHANGED <<files, conn, busy, backup, page, truth, must, calm, counts>>
    \/ /\ op = "copy wal"
       /\ seen' = [seen EXCEPT !.staged = Recover(@, Frames(wal))]
       /\ op' = "check main"
       /\ UNCHANGED <<files, conn, busy, backup, page, truth, must, calm, counts>>

\* Mutant: only the main file is compared, and only after the copy.
ImportNoRecheck ==
    LET next == CASE op = "check main" -> "check wal"   [] op = "check wal" -> "stage"
                  [] op = "recheck main" -> "recheck wal" [] op = "recheck wal" -> "replace"
    IN
    /\ op \in {"check main", "check wal", "recheck main", "recheck wal"}
    /\ op' = IF op = "check main" /\ mains[main] # seen.main THEN "idle" ELSE next
    /\ calm' = (calm /\ ~(op = "recheck main" /\ Connected # {}))
    /\ UNCHANGED <<files, conn, busy, backup, page, seen, truth, must, counts>>

\* The files must be as they were, after the copy and again after the rows, else
\* the import is refused and the staged copy thrown away.
ImportRecheck ==
    /\ \/ op = "check main"   /\ op' = IF mains[main] = seen.main THEN "check wal" ELSE "idle"
       \/ op = "check wal"    /\ op' = IF WalBytes = seen.wal THEN "stage" ELSE "idle"
       \/ op = "recheck main" /\ op' = IF mains[main] = seen.main THEN "recheck wal" ELSE "idle"
       \/ op = "recheck wal"  /\ op' = IF WalBytes = seen.wal THEN "replace" ELSE "idle"
    /\ calm' = (calm /\ ~(op = "recheck main" /\ Connected # {}))
    /\ UNCHANGED <<files, conn, busy, backup, page, seen, truth, must, counts>>

\* The rows are dispatched to the staged copy; one that fails ends the import.
ImportStage ==
    /\ op = "stage"
    /\ \/ /\ seen' = [seen EXCEPT !.staged =
                        [g \in Pages |-> @[g] \cup ImageOf(Imported)[g]]]
          /\ op' = "recheck main"
       \/ op' = "idle" /\ UNCHANGED seen
    /\ UNCHANGED <<files, conn, busy, backup, page, truth, must, calm, counts>>

\* _replace_db_files: the main file, then the log.
ImportReplace ==
    /\ op = "replace"
    /\ mains' = Append(mains, seen.staged)
    /\ main' = Len(mains) + 1
    /\ truth' = truth \cup Imported
    /\ op' = "unlink"
    /\ UNCHANGED <<wals, wal, conn, busy, backup, page, seen, must, calm, counts>>

ImportUnlink ==
    /\ op = "unlink"
    /\ wal' = 0
    /\ op' = "idle"
    /\ UNCHANGED <<mains, wals, main, conn, busy, backup, page, seen, truth, must,
                   calm, counts>>

-----------------------------------------------------------------------------

\* The admin process dies between two steps.
AdminCrash ==
    /\ op # "idle"
    /\ crashes < MaxCrashes
    /\ crashes' = crashes + 1
    /\ op' = "idle"
    /\ calm' = (calm /\ ~(op = "restore" /\ page > 1) /\ ~(op = "unlink" /\ wal # 0))
    /\ UNCHANGED <<files, conn, busy, backup, page, seen, truth, must, opens,
                   writes, admin>>

Admin ==
    \/ BackupCheckpoint \/ BackupCopy \/ BackupManifest
    \/ RestoreVerify \/ RestoreCopy
    \/ ImportRead \/ ImportStage \/ ImportRecheck \/ ImportReplace \/ ImportUnlink
    \/ AdminCrash

Next ==
    \/ \E p \in Clients : Open(p) \/ Begin(p) \/ Commit(p) \/ Rollback(p)
                          \/ Close(p) \/ Crash(p)
    \/ Admin

Spec == Init /\ [][Next]_vars

-----------------------------------------------------------------------------
(* Properties *)

\* Backups, refused and successful imports, verified restores and the deaths of
\* either side leave exactly the journal they should: every transaction that was
\* answered ok since the last restore, what the restore brought, all of the
\* imported rows or none.  Three things are asked for, and the code secures none of
\* them: nobody has the journal open while its files are being replaced, no last
\* connection closes while the main file is being copied, and no death leaves a
\* replacement half done.  And a backup holds every transaction that was committed
\* when it began, however many clients write and close meanwhile (admin.py,
\* _journal_backup: a busy checkpoint "would [...] silently drop committed rows").
JournalIsTruth ==
    /\ calm /\ op # "restore" /\ ~(op = "unlink" /\ wal # 0) => Journal = ImageOf(truth)
    /\ op = "manifest" =>
         \A t \in must : \A g \in Touches[t] : t \in backup.image[g]

\* "tt journal backup [...] wraps .backup correctly", which "works while writers
\* are active" (operability.md 5.1): a transaction is in a backup whole or not at
\* all.
BackupIsWhole ==
    backup.manifest # None =>
        backup.manifest = ImageOf(UNION {backup.manifest[g] : g \in Pages})
=============================================================================
