--------------------------- MODULE Storage_proofs ---------------------------
(***************************************************************************)
(* What Storage guarantees for any number of processes, migrations and      *)
(* forecasts.  The invariants of the runs are not inductive: the version    *)
(* and the objects agree because a migration under way has an image that    *)
(* holds a prefix of the migrations and all that is on disk, and a signal is *)
(* timely because what a scan found stays true until something is committed. *)
(*                                                                         *)
(* The second half is about JournalFiles.  Its invariant adds to           *)
(* JournalIsTruth that all who have the journal open are on the files the  *)
(* names stand for, that a frame holds all its page held before, so closing *)
(* and checkpointing only add to the main file, and that the copy an import *)
(* stages lies between what it saw and what the journal is by now: the two *)
(* are one when the last look finds the files as they were.                *)
(***************************************************************************)
EXTENDS Storage, JournalFiles, FiniteSetTheorems, WellFoundedInduction, TLAPS

DiskImage == [version : 0..Latest, objects : SUBSET (1..Latest), signals : [Forecasts -> Nat]]

Steps == [does : {"nothing"}] \cup [does : {"assert"}, from : 0..(Latest - 1)]
         \cup [does : {"migrate"}, from : 0..(Latest - 1), done : 0..Latest]
         \cup [does : {"migrate"}, from : 0..(Latest - 1), done : 0..Latest, image : DiskImage]
         \cup [does : {"scan"}, dedupe : BOOLEAN, found : SUBSET Forecasts, sees : Nat]

StorageTypeOK ==
    /\ disk \in DiskImage /\ unscored \subseteq Forecasts /\ commits \in Nat
    /\ writer \in Processes \cup {NoProcess}
    /\ work \in [Processes -> Steps]

\* A process that initialises started from a version that is behind the disk, and
\* only one that holds the lock has run anything.
StartsBehind ==
    \A p \in Processes :
        /\ (Doing(p, "assert") \/ Doing(p, "migrate")) => work[p].from <= disk.version
        /\ Doing(p, "migrate") /\ writer # p => work[p].done = work[p].from
        /\ writer = p => Doing(p, "migrate")

\* What the holder of the lock is about to commit.
ImageIsPrefix ==
    \A p \in Processes : writer = p =>
        /\ work[p].image \in DiskImage
        /\ work[p].image.version = work[p].done
        /\ 1..work[p].done \subseteq work[p].image.objects
        /\ disk.objects \subseteq work[p].image.objects
        /\ work[p].image.signals = disk.signals
        /\ work[p].done = Latest => Latest \notin disk.objects

\* A second commit of migrations is impossible.
OneInit == (\A a, b \in inits : a = b) /\ (inits # {} => disk.version = Latest)

\* What a scan found is so until the next commit.
FoundIsSo ==
    \A p \in Processes : Doing(p, "scan") =>
        /\ work[p].sees \in 0..commits
        /\ \A f \in work[p].found : work[p].sees = commits =>
             f \in unscored /\ (work[p].dedupe => disk.signals[f] = 0)

StorageInv == StorageTypeOK /\ SchemaIsVersion /\ StartsBehind /\ ImageIsPrefix /\ OneInit /\ FoundIsSo

-----------------------------------------------------------------------------

\* The bounds the proofs use of the constants.
LEMMA StorageFacts == Latest \in Nat /\ Latest \notin Again /\ NoProcess \notin Processes
    BY StorageAssumption DEF StorageAssumption

\* What a process in a migration has noted.
LEMMA MigratingHas ==
    ASSUME StorageTypeOK, NEW p \in Processes, Doing(p, "migrate")
    PROVE  work[p].from \in 0..(Latest - 1) /\ work[p].done \in 0..Latest
    BY DEF StorageTypeOK, Steps, Doing

\* A process that comes to rest keeps all that is known of the others.
LEMMA RestKeeps ==
    ASSUME StorageInv, NEW p \in Processes, Rest(p), UNCHANGED <<disk, unscored, commits, inits>>
    PROVE  StorageInv'
<1> USE StorageFacts
<1>1. /\ work' \in [Processes -> Steps] /\ work'[p] = Resting
      /\ \A q \in Processes : q # p => work'[q] = work[q]
  BY DEF Rest, Resting, StorageInv, StorageTypeOK, Steps
<1>2. /\ writer' \in Processes \cup {NoProcess} /\ writer' # p
      /\ \A q \in Processes : q # p => (writer' = q <=> writer = q)
  BY DEF Rest, StorageInv, StorageTypeOK
<1>3. StorageTypeOK'
  BY <1>1, <1>2 DEF StorageInv, StorageTypeOK
<1>4. SchemaIsVersion' /\ OneInit'
  BY DEF StorageInv, SchemaIsVersion, OneInit
<1>5. StartsBehind'
  BY <1>1, <1>2 DEF StorageInv, StartsBehind, Doing, Resting
<1>6. ImageIsPrefix'
  BY <1>1, <1>2 DEF StorageInv, ImageIsPrefix
<1>7. FoundIsSo'
  BY <1>1 DEF StorageInv, FoundIsSo, Doing, Resting
<1> QED
  BY <1>3, <1>4, <1>5, <1>6, <1>7 DEF StorageInv

LEMMA InitHolds == StorageInit => StorageInv
<1> SUFFICES ASSUME StorageInit PROVE StorageInv
  OBVIOUS
<1> USE StorageFacts
<1>1. PICK v \in 0..Latest : disk = [version |-> v, objects |-> 1..v, signals |-> [f \in Forecasts |-> 0]]
  BY DEF StorageInit
<1>2. disk \in DiskImage
  BY <1>1 DEF DiskImage
<1>3. StorageTypeOK
  BY <1>2 DEF StorageInit, StorageTypeOK, Steps, Resting
<1>4. SchemaIsVersion
  BY <1>1 DEF SchemaIsVersion
<1>5. StartsBehind /\ ImageIsPrefix /\ OneInit /\ FoundIsSo
  BY DEF StorageInit, Resting, Doing, StartsBehind, ImageIsPrefix, OneInit, FoundIsSo
<1> QED
  BY <1>3, <1>4, <1>5 DEF StorageInv

LEMMA ReadVersionKeeps ==
    ASSUME StorageInv, NEW p \in Processes, ReadVersion(p)
    PROVE  StorageInv'
<1> USE StorageFacts
<1>1. CASE disk.version >= Latest
  <2>1. UNCHANGED storageVars
    BY <1>1 DEF ReadVersion, storageVars
  <2> QED
    BY <2>1 DEF storageVars, StorageInv, StorageTypeOK, SchemaIsVersion, StartsBehind, ImageIsPrefix, OneInit, FoundIsSo, Doing
<1>2. CASE ~(disk.version >= Latest)
  <2>1. work' = [work EXCEPT ![p] = [does |-> "assert", from |-> disk.version]]
    BY <1>2 DEF ReadVersion
  <2>2. disk.version \in 0..(Latest - 1)
    BY <1>2 DEF StorageInv, StorageTypeOK, DiskImage
  <2>3. [does |-> "assert", from |-> disk.version] \in Steps
    BY <2>2 DEF Steps
  <2>4. StorageTypeOK'
    BY <2>1, <2>3 DEF StorageInv, StorageTypeOK, ReadVersion
  <2>5. /\ work'[p] = [does |-> "assert", from |-> disk.version]
        /\ \A q \in Processes : q # p => work'[q] = work[q]
    BY <2>1 DEF StorageInv, StorageTypeOK
  <2>6. writer # p
    BY DEF ReadVersion, StorageInv, StartsBehind, Doing
  <2>7. SchemaIsVersion' /\ OneInit'
    BY DEF ReadVersion, StorageInv, SchemaIsVersion, OneInit
  <2>8. StartsBehind'
    BY <2>2, <2>5, <2>6 DEF ReadVersion, StorageInv, StartsBehind, Doing
  <2>9. ImageIsPrefix'
    BY <2>5, <2>6 DEF ReadVersion, StorageInv, ImageIsPrefix
  <2>10. FoundIsSo'
    BY <2>5 DEF ReadVersion, StorageInv, FoundIsSo, Doing
  <2> QED
    BY <2>4, <2>7, <2>8, <2>9, <2>10 DEF StorageInv
<1> QED
  BY <1>1, <1>2

LEMMA AssertSchemaKeeps ==
    ASSUME StorageInv, NEW p \in Processes, AssertSchema(p)
    PROVE  StorageInv'
<1> USE StorageFacts
<1> DEFINE begun == [does |-> "migrate", from |-> work[p].from, done |-> work[p].from]
<1>1. work[p].from \in 0..(Latest - 1) /\ work[p].from <= disk.version
  BY DEF AssertSchema, Doing, StorageInv, StorageTypeOK, StartsBehind, Steps
<1>2. Resting \in Steps /\ begun \in Steps
  BY <1>1 DEF Resting, Steps
<1>3. /\ work'[p] = Resting \/ work'[p] = begun
      /\ \A q \in Processes : q # p => work'[q] = work[q]
      /\ work' \in [Processes -> Steps]
  BY <1>2 DEF AssertSchema, StorageInv, StorageTypeOK
<1>4. writer # p
  BY DEF AssertSchema, StorageInv, StartsBehind, Doing
<1>5. StorageTypeOK' /\ SchemaIsVersion' /\ OneInit'
  BY <1>3 DEF AssertSchema, StorageInv, StorageTypeOK, SchemaIsVersion, OneInit
<1>6. StartsBehind'
  BY <1>1, <1>3, <1>4 DEF AssertSchema, StorageInv, StartsBehind, Doing, Resting
<1>7. ImageIsPrefix'
  BY <1>3, <1>4 DEF AssertSchema, StorageInv, ImageIsPrefix
<1>8. FoundIsSo'
  BY <1>3 DEF AssertSchema, StorageInv, FoundIsSo, Doing, Resting
<1> QED
  BY <1>5, <1>6, <1>7, <1>8 DEF StorageInv

LEMMA MigrateOneKeeps ==
    ASSUME StorageInv, NEW p \in Processes, MigrateOne(p)
    PROVE  StorageInv'
<1> USE StorageFacts
<1> DEFINE image == IF writer = p THEN work[p].image ELSE disk
           next == work[p].done + 1
           after == [version |-> next, objects |-> image.objects \cup {next}, signals |-> image.signals]
           noted == [does |-> "migrate", from |-> work[p].from, done |-> next, image |-> after]
<1>1. Doing(p, "migrate") /\ Free(p) /\ next <= Latest /\ Runs(next, image.objects) /\ writer' = p
  BY DEF MigrateOne
<1>2. work[p].from \in 0..(Latest - 1) /\ next \in 1..Latest
  BY <1>1, MigratingHas DEF StorageInv
<1>3. /\ image \in DiskImage /\ 1..(next - 1) \subseteq image.objects
      /\ disk.objects \subseteq image.objects /\ image.signals = disk.signals
  <2>1. CASE writer = p
    <3>1. work[p].done \in Nat /\ next - 1 = work[p].done
      BY <1>1, MigratingHas DEF StorageInv
    <3> QED
      BY <2>1, <3>1 DEF StorageInv, ImageIsPrefix
  <2>2. CASE writer # p
    <3>1. work[p].done = work[p].from /\ work[p].from <= disk.version
      BY <2>2, <1>1 DEF StorageInv, StartsBehind
    <3>2. disk \in DiskImage /\ disk.objects = 1..disk.version
      BY DEF StorageInv, StorageTypeOK, SchemaIsVersion
    <3>3. disk.version \in Nat
      BY <3>2 DEF DiskImage
    <3> QED
      BY <2>2, <1>2, <3>1, <3>2, <3>3
  <2> QED
    BY <2>1, <2>2
<1>4. after \in DiskImage
  BY <1>2, <1>3 DEF DiskImage
<1>5. noted \in Steps
  BY <1>2, <1>4 DEF Steps
<1>6. work' = [work EXCEPT ![p] = noted]
  BY DEF MigrateOne
<1>7. /\ work' \in [Processes -> Steps] /\ work'[p] = noted
      /\ \A q \in Processes : q # p => work'[q] = work[q]
  BY <1>5, <1>6 DEF StorageInv, StorageTypeOK
<1>8. StorageTypeOK' /\ SchemaIsVersion' /\ OneInit'
  BY <1>1, <1>7 DEF MigrateOne, StorageInv, StorageTypeOK, SchemaIsVersion, OneInit
<1>9. work[p].from <= disk.version
  BY <1>1 DEF StorageInv, StartsBehind
<1>10. StartsBehind'
  BY <1>1, <1>7, <1>9 DEF MigrateOne, Free, StorageInv, StartsBehind, Doing
<1>11. 1..next \subseteq after.objects /\ disk.objects \subseteq after.objects /\ after.signals = disk.signals
  BY <1>2, <1>3
<1>12. next = Latest => Latest \notin disk.objects
  BY <1>1, <1>3 DEF Runs
<1>13. ImageIsPrefix'
  <2> HIDE DEF after, next
  <2>1. /\ work'[p].image = after /\ work'[p].done = next /\ disk' = disk
        /\ after.version = next
    BY <1>7 DEF MigrateOne, after
  <2> QED
    BY <1>1, <1>4, <1>11, <1>12, <2>1 DEF ImageIsPrefix
<1>14. FoundIsSo'
  BY <1>7 DEF MigrateOne, StorageInv, FoundIsSo, Doing
<1> QED
  BY <1>8, <1>10, <1>13, <1>14 DEF StorageInv

LEMMA CommitMigrationsKeeps ==
    ASSUME StorageInv, NEW p \in Processes, CommitMigrations(p)
    PROVE  StorageInv'
<1> USE StorageFacts
<1> DEFINE image == work[p].image
<1>1. Doing(p, "migrate") /\ work[p].done = Latest /\ writer = p /\ disk' = image /\ commits' = commits + 1
  BY DEF CommitMigrations, Committed
<1>2. /\ image \in DiskImage /\ image.version = Latest /\ 1..Latest \subseteq image.objects
      /\ image.signals = disk.signals /\ Latest \notin disk.objects
  BY <1>1 DEF StorageInv, ImageIsPrefix
<1>3. image.objects = 1..Latest
  BY <1>2 DEF DiskImage
<1>4. disk.version < Latest
  BY <1>1, <1>2, MigratingHas DEF StorageInv, StorageTypeOK, SchemaIsVersion, DiskImage
<1>5. inits = {}
  BY <1>4 DEF StorageInv, StorageTypeOK, OneInit, DiskImage
<1>6. /\ work' \in [Processes -> Steps] /\ work'[p] = Resting /\ writer' = NoProcess
      /\ \A q \in Processes : q # p => work'[q] = work[q]
  BY <1>1 DEF CommitMigrations, Rest, Resting, StorageInv, StorageTypeOK, Steps
<1>7. StorageTypeOK'
  BY <1>1, <1>2, <1>6 DEF CommitMigrations, StorageInv, StorageTypeOK
<1>8. SchemaIsVersion'
  BY <1>1, <1>2, <1>3 DEF SchemaIsVersion
<1>9. OneInit'
  <2>1. inits' = {[by |-> p, at |-> commits, applied |-> (work[p].from + 1)..Latest]}
    BY <1>5 DEF CommitMigrations
  <2> QED
    BY <1>1, <1>2, <2>1 DEF OneInit
<1>10. StartsBehind'
  <2> SUFFICES ASSUME NEW q \in Processes
               PROVE  /\ (Doing(q, "assert") \/ Doing(q, "migrate"))' => work'[q].from <= disk'.version
                      /\ (Doing(q, "migrate") /\ writer # q)' => work'[q].done = work'[q].from
                      /\ writer' # q
    BY DEF StartsBehind
  <2>1. CASE q = p
    BY <2>1, <1>6 DEF Doing, Resting
  <2>2. CASE q # p
    <3>1. Doing(q, "assert") => work[q].from \in 0..(Latest - 1)
      BY DEF StorageInv, StorageTypeOK, Steps, Doing
    <3>2. Doing(q, "migrate") => work[q].from \in 0..(Latest - 1)
      BY MigratingHas DEF StorageInv
    <3>3. writer # q
      BY <2>2, <1>1
    <3> QED
      BY <2>2, <1>1, <1>2, <1>6, <3>1, <3>2, <3>3 DEF StorageInv, StartsBehind, Doing
  <2> QED
    BY <2>1, <2>2
<1>11. ImageIsPrefix'
  BY <1>6 DEF ImageIsPrefix
<1>12. FoundIsSo'
  <2>1. commits \in Nat /\ UNCHANGED unscored
    BY DEF CommitMigrations, StorageInv, StorageTypeOK
  <2> QED
    BY <1>1, <1>6, <2>1 DEF CommitMigrations, StorageInv, FoundIsSo, Doing, Resting
<1> QED
  BY <1>7, <1>8, <1>9, <1>10, <1>11, <1>12 DEF StorageInv
LEMMA MigrationFailsKeeps ==
    ASSUME StorageInv, NEW p \in Processes, MigrationFails(p)
    PROVE  StorageInv'
  BY RestKeeps DEF MigrationFails, AfterFailure

LEMMA DetectKeeps ==
    ASSUME StorageInv, NEW p \in Processes, NEW dedupe \in BOOLEAN, Detect(p, dedupe)
    PROVE  StorageInv'
<1> USE StorageFacts
<1> DEFINE found == {f \in unscored : ~(dedupe /\ AlreadySignaled(f))}
           scan == [does |-> "scan", dedupe |-> dedupe, sees |-> commits, found |-> found]
<1>1. scan \in Steps
  BY DEF StorageInv, StorageTypeOK, Steps
<1>2. /\ work' \in [Processes -> Steps] /\ work'[p] = scan
      /\ \A q \in Processes : q # p => work'[q] = work[q]
  BY <1>1 DEF Detect, StorageInv, StorageTypeOK
<1>3. writer # p
  BY DEF Detect, StorageInv, StartsBehind, Doing
<1>4. StorageTypeOK' /\ SchemaIsVersion' /\ OneInit'
  BY <1>2 DEF Detect, StorageInv, StorageTypeOK, SchemaIsVersion, OneInit
<1>5. StartsBehind'
  BY <1>2, <1>3 DEF Detect, StorageInv, StartsBehind, Doing
<1>6. ImageIsPrefix'
  BY <1>2, <1>3 DEF Detect, StorageInv, ImageIsPrefix
<1>7. \A f \in found : f \in unscored /\ (dedupe => disk.signals[f] = 0)
  BY DEF AlreadySignaled, StorageInv, StorageTypeOK, DiskImage
<1>8. FoundIsSo'
  <2>1. commits \in Nat
    BY DEF StorageInv, StorageTypeOK
  <2> HIDE DEF found
  <2> QED
    BY <1>2, <1>7, <2>1 DEF Detect, StorageInv, FoundIsSo, Doing
<1> QED
  BY <1>4, <1>5, <1>6, <1>8 DEF StorageInv

LEMMA EmitSignalsKeeps ==
    ASSUME StorageInv, NEW p \in Processes, EmitSignals(p)
    PROVE  StorageInv'
<1> USE StorageFacts
<1> DEFINE counted == [f \in Forecasts |-> IF f \in work[p].found THEN disk.signals[f] + 1 ELSE disk.signals[f]]
<1>1. writer = NoProcess /\ UNCHANGED writer
  BY DEF EmitSignals, Free, Rest, StorageInv, StartsBehind, Doing
<1>2. disk' = [disk EXCEPT !.signals = counted] /\ commits' = commits + 1 /\ UNCHANGED <<unscored, inits>>
  BY DEF EmitSignals, Committed
<1>3. disk' \in DiskImage /\ disk'.objects = disk.objects /\ disk'.version = disk.version
  BY <1>2 DEF StorageInv, StorageTypeOK, DiskImage
<1>4. /\ work' \in [Processes -> Steps] /\ work'[p] = Resting
      /\ \A q \in Processes : q # p => work'[q] = work[q]
  BY DEF EmitSignals, Rest, Resting, StorageInv, StorageTypeOK, Steps
<1>5. StorageTypeOK'
  BY <1>1, <1>2, <1>3, <1>4 DEF StorageInv, StorageTypeOK
<1>6. SchemaIsVersion' /\ OneInit'
  BY <1>2, <1>3 DEF StorageInv, SchemaIsVersion, OneInit
<1>7. StartsBehind'
  BY <1>1, <1>3, <1>4 DEF StorageInv, StartsBehind, Doing, Resting
<1>8. ImageIsPrefix'
  BY <1>1 DEF ImageIsPrefix
<1>9. FoundIsSo'
  <2>1. commits \in Nat
    BY DEF StorageInv, StorageTypeOK
  <2> QED
    BY <1>2, <1>4, <2>1 DEF StorageInv, FoundIsSo, Doing, Resting
<1> QED
  BY <1>5, <1>6, <1>7, <1>8, <1>9 DEF StorageInv

LEMMA OtherCommitKeeps ==
    ASSUME StorageInv, NEW f \in Forecasts, Settle(f) \/ Reopen(f)
    PROVE  StorageInv'
<1> USE StorageFacts
<1>1. /\ commits \in Nat /\ commits' = commits + 1 /\ unscored' \subseteq Forecasts
      /\ UNCHANGED <<disk, writer, work, inits>>
  BY DEF Settle, Reopen, OtherCommit, StorageInv, StorageTypeOK
<1>2. StorageTypeOK' /\ SchemaIsVersion' /\ OneInit'
  BY <1>1 DEF StorageInv, StorageTypeOK, SchemaIsVersion, OneInit
<1>4. StartsBehind' /\ ImageIsPrefix'
  BY <1>1 DEF StorageInv, StartsBehind, ImageIsPrefix, Doing
<1>3. FoundIsSo'
  BY <1>1 DEF StorageInv, FoundIsSo, Doing
<1> QED
  BY <1>2, <1>3, <1>4 DEF StorageInv

LEMMA StorageStepKeeps == StorageInv /\ [StorageNext]_storageVars => StorageInv'
<1> SUFFICES ASSUME StorageInv, [StorageNext]_storageVars PROVE StorageInv'
  OBVIOUS
<1>1. ASSUME NEW p \in Processes,
             \/ ReadVersion(p) \/ AssertSchema(p) \/ MigrateOne(p) \/ MigrationFails(p) \/ CommitMigrations(p)
             \/ (\E dedupe \in BOOLEAN : Detect(p, dedupe)) \/ EmitSignals(p) \/ FoundNothing(p) \/ Abandon(p)
      PROVE  StorageInv'
  <2>1. CASE FoundNothing(p) \/ Abandon(p)
    BY <2>1, RestKeeps DEF FoundNothing, Abandon
  <2> QED
    BY <1>1, <2>1, ReadVersionKeeps, AssertSchemaKeeps, MigrateOneKeeps, MigrationFailsKeeps,
       CommitMigrationsKeeps, DetectKeeps, EmitSignalsKeeps
<1>2. CASE \E f \in Forecasts : Settle(f) \/ Reopen(f)
  BY <1>2, OtherCommitKeeps
<1>3. CASE UNCHANGED storageVars
  BY <1>3 DEF storageVars, StorageInv, StorageTypeOK, SchemaIsVersion, StartsBehind, ImageIsPrefix,
              OneInit, FoundIsSo, Doing
<1> QED
  BY <1>1, <1>2, <1>3 DEF StorageNext

-----------------------------------------------------------------------------

\* The version in meta says which migrations the schema holds.
THEOREM SchemaIsVersionAlways == StorageSpec => []SchemaIsVersion
<1>1. StorageInv => SchemaIsVersion
  BY DEF StorageInv
<1> QED
  BY InitHolds, StorageStepKeeps, <1>1, PTL DEF StorageSpec

\* Each migration is reported as applied by one journal.init.
THEOREM AppliedOnceAlways == StorageSpec => []AppliedOnce
<1>1. StorageInv => AppliedOnce
  BY DEF StorageInv, OneInit, AppliedOnce
<1> QED
  BY InitHolds, StorageStepKeeps, <1>1, PTL DEF StorageSpec

\* What SignalsAreTimely says of a step and a forecast.
TimelyAbout(f) ==
    /\ f \in unscored /\ disk'.signals[f] = disk.signals[f] + 1
    /\ disk.signals[f] > 0 =>
         \E p \in Processes : /\ Doing(p, "scan") /\ ~work[p].dedupe
                             /\ ~Doing(p, "scan")'

LEMMA OnlyScansSignal ==
    ASSUME StorageInv, StorageNext, NEW f \in Forecasts, disk'.signals[f] # disk.signals[f]
    PROVE  TimelyAbout(f)
<1>1. PICK p \in Processes : CommitMigrations(p) \/ EmitSignals(p)
  BY DEF StorageNext, ReadVersion, AssertSchema, MigrateOne, MigrationFails, AfterFailure, Detect,
         FoundNothing, Abandon, Settle, Reopen
<1>2. ~CommitMigrations(p)
  BY DEF CommitMigrations, Committed, StorageInv, ImageIsPrefix
<1>3. EmitSignals(p)
  BY <1>1, <1>2
<1> DEFINE counted == [g \in Forecasts |-> IF g \in work[p].found THEN disk.signals[g] + 1 ELSE disk.signals[g]]
<1>4. disk' = [disk EXCEPT !.signals = counted] /\ Doing(p, "scan") /\ work[p].sees = commits
  BY <1>3 DEF EmitSignals, Committed, SnapshotIsCurrent
<1>5. disk'.signals = counted
  BY <1>4 DEF StorageInv, StorageTypeOK, DiskImage
<1>6. f \in work[p].found
  BY <1>5
<1>7. ~Doing(p, "scan")'
  BY <1>3 DEF EmitSignals, Rest, Resting, Doing, StorageInv, StorageTypeOK
<1>8. f \in unscored /\ (work[p].dedupe => disk.signals[f] = 0)
  BY <1>4, <1>6 DEF StorageInv, FoundIsSo
<1>9. disk'.signals[f] = disk.signals[f] + 1
  BY <1>5, <1>6
<1> QED
  BY <1>4, <1>7, <1>8, <1>9 DEF TimelyAbout

\* A scan signals only a forecast that is unscored when it is written, and signals one
\* again only if it was called with dedupe=false.
THEOREM SignalsAreTimelyAlways == StorageSpec => SignalsAreTimely
<1>1. StorageInv /\ [StorageNext]_storageVars =>
        [\A f \in Forecasts : disk'.signals[f] # disk.signals[f] =>
            /\ f \in unscored /\ disk'.signals[f] = disk.signals[f] + 1
            /\ disk.signals[f] > 0 =>
                 \E p \in Processes : /\ Doing(p, "scan") /\ ~work[p].dedupe
                                     /\ ~Doing(p, "scan")']_storageVars
  BY OnlyScansSignal DEF TimelyAbout
<1> QED
  BY InitHolds, StorageStepKeeps, <1>1, PTL DEF StorageSpec, SignalsAreTimely

-----------------------------------------------------------------------------
(* What a reader recovers from a main file and its log *)

LEMMA LeastNatural ==
    ASSUME NEW T, T \subseteq Nat, T # {}
    PROVE  \E n \in T : \A m \in T : n <= m
<1> DEFINE R == {p \in Nat \X Nat : p[1] < p[2]}
<1>1. R = OpToRel(<, Nat)
  BY DEF OpToRel
<1>2. IsWellFoundedOn(R, Nat)
  BY <1>1, NatLessThanWellFounded
<1>3. \E n \in T : \A m \in T : <<m, n>> \notin R
  BY <1>2, WFMin
<1>4. \A n \in T, m \in T : <<m, n>> \notin R => n <= m
  OBVIOUS
<1> QED
  BY <1>3, <1>4

LEMMA LastHit ==
    ASSUME NEW n \in Nat, NEW T, T \subseteq 1..n, T # {}
    PROVE  \E i \in T : \A j \in T : i >= j
<1> DEFINE S == {k \in Nat : n - k \in T}
<1>1. S \subseteq Nat /\ S # {}
  <2>1. PICK i \in T : i \in 1..n
    OBVIOUS
  <2>2. n - (n - i) = i /\ n - i \in Nat
    BY <2>1
  <2> QED
    BY <2>1, <2>2
<1>2. PICK k \in S : \A j \in S : k <= j
  BY <1>1, LeastNatural
<1>3. n - k \in T /\ k \in Nat
  BY <1>2
<1>4. \A j \in T : n - k >= j
  <2> TAKE j \in T
  <2>1. j \in 1..n /\ n - (n - j) = j /\ n - j \in Nat
    OBVIOUS
  <2>2. k <= n - j
    BY <1>2, <2>1
  <2> QED
    BY <1>3, <2>1, <2>2
<1> QED
  BY <1>3, <1>4

Hits(frames, g) == {i \in DOMAIN frames : g \in DOMAIN frames[i]}

LEMMA FrameIs ==
    ASSUME NEW frame \in Frame
    PROVE  /\ DOMAIN frame \subseteq Pages
           /\ \A g \in DOMAIN frame : frame[g] \subseteq Txns
BY DEF Frame

LEMMA FrameMade ==
    ASSUME NEW some, some \subseteq Pages, NEW frame \in [some -> SUBSET Txns]
    PROVE  frame \in Frame
BY DEF Frame

\* Each page of the recovered database is that of its last frame, or the main file's.
LEMMA RecoverIs ==
    ASSUME NEW m \in Image, NEW frames \in Seq(Frame), NEW g \in Pages
    PROVE  /\ Hits(frames, g) = {} => Recover(m, frames)[g] = m[g]
           /\ Hits(frames, g) # {} =>
                \E i \in Hits(frames, g) :
                    /\ \A j \in Hits(frames, g) : i >= j
                    /\ Recover(m, frames)[g] = frames[i][g]
<1> DEFINE hits == Hits(frames, g)
<1>1. hits = {i \in DOMAIN frames : g \in DOMAIN frames[i]}
  BY DEF Hits
<1>2. Recover(m, frames)[g] = IF hits = {} THEN m[g]
                              ELSE frames[CHOOSE i \in hits : \A j \in hits : i >= j][g]
  BY <1>1 DEF Recover
<1>3. hits # {} => \E i \in hits : \A j \in hits : i >= j
  <2>1. Len(frames) \in Nat /\ hits \subseteq 1..Len(frames)
    BY <1>1
  <2> QED
    BY <2>1, LastHit
<1> HIDE DEF hits
<1>4. hits # {} => \E i \in hits : /\ \A j \in hits : i >= j
                                   /\ i = CHOOSE i1 \in hits : \A j \in hits : i1 >= j
  BY <1>3
<1> QED
  BY <1>2, <1>4 DEF hits

LEMMA RecoverIsImage ==
    ASSUME NEW m \in Image, NEW frames \in Seq(Frame)
    PROVE  Recover(m, frames) \in Image
<1>1. \A g \in Pages : Recover(m, frames)[g] \subseteq Txns
  <2> TAKE g \in Pages
  <2>1. m[g] \subseteq Txns
    BY DEF Image
  <2>2. \A i \in Hits(frames, g) : frames[i] \in Frame /\ g \in DOMAIN frames[i]
    BY DEF Hits
  <2>3. \A i \in Hits(frames, g) : frames[i][g] \subseteq Txns
    BY <2>2, FrameIs
  <2> QED
    BY <2>1, <2>3, RecoverIs
<1>2. Recover(m, frames) = [g \in Pages |-> Recover(m, frames)[g]]
  BY DEF Recover
<1> HIDE DEF Recover
<1> QED
  BY <1>1, <1>2 DEF Image

LEMMA RecoverEmpty ==
    ASSUME NEW m \in Image
    PROVE  Recover(m, << >>) = m
<1>1. \A g \in Pages : {i \in DOMAIN << >> : g \in DOMAIN (<< >>)[i]} = {}
  OBVIOUS
<1> QED
  BY <1>1 DEF Recover, Image

\* A committed frame covers the pages it has and leaves the others.
LEMMA RecoverAppend ==
    ASSUME NEW m \in Image, NEW frames \in Seq(Frame), NEW frame \in Frame, NEW g \in Pages
    PROVE  Recover(m, Append(frames, frame))[g] =
             IF g \in DOMAIN frame THEN frame[g] ELSE Recover(m, frames)[g]
<1> DEFINE n == Len(frames)
           more == Append(frames, frame)
           before == Hits(frames, g)
           after == Hits(more, g)
<1>1. /\ n \in Nat /\ more \in Seq(Frame) /\ DOMAIN more = 1..(n + 1)
      /\ DOMAIN frames = 1..n /\ more[n + 1] = frame
      /\ \A i \in 1..n : more[i] = frames[i]
  OBVIOUS
<1> HIDE DEF more, n
<1>2. CASE g \in DOMAIN frame
  <2>1. n + 1 \in after /\ \A j \in after : j <= n + 1
    BY <1>1, <1>2 DEF Hits
  <2>2. \A i \in after : (\A j \in after : i >= j) => i = n + 1
    BY <2>1, <1>1 DEF Hits
  <2>3. \E i \in after : (\A j \in after : i >= j) /\ Recover(m, more)[g] = more[i][g]
    BY <2>1, <1>1, RecoverIs
  <2> QED
    BY <2>2, <2>3, <1>1, <1>2 DEF more
<1>3. CASE g \notin DOMAIN frame
  <2>1. before = after /\ \A i \in after : more[i] = frames[i]
    BY <1>1, <1>3 DEF Hits
  <2>2. CASE after = {}
    BY <2>1, <2>2, <1>1, <1>3, RecoverIs DEF more
  <2>3. CASE after # {}
    <3>1. PICK i \in after : (\A j \in after : i >= j) /\ Recover(m, more)[g] = more[i][g]
      BY <2>3, <1>1, RecoverIs
    <3>2. PICK k \in before : (\A j \in before : k >= j) /\ Recover(m, frames)[g] = frames[k][g]
      BY <2>1, <2>3, RecoverIs
    <3>3. i = k
      BY <3>1, <3>2, <2>1, <1>1 DEF Hits
    <3> QED
      BY <3>1, <3>2, <3>3, <2>1, <1>3 DEF more
  <2> QED
    BY <2>2, <2>3
<1> QED
  BY <1>2, <1>3

Below(a, b) == \A g \in Pages : a[g] \subseteq b[g]

\* A main file that holds more gives a database that holds more.
LEMMA RecoverGrows ==
    ASSUME NEW m \in Image, NEW n \in Image, NEW frames \in Seq(Frame), Below(m, n)
    PROVE  Below(Recover(m, frames), Recover(n, frames))
<1> SUFFICES ASSUME NEW g \in Pages PROVE Recover(m, frames)[g] \subseteq Recover(n, frames)[g]
  BY DEF Below
<1>1. CASE Hits(frames, g) = {}
  BY <1>1, RecoverIs DEF Below
<1>2. CASE Hits(frames, g) # {}
  <2>1. PICK i \in Hits(frames, g) : (\A j \in Hits(frames, g) : i >= j) /\ Recover(m, frames)[g] = frames[i][g]
    BY <1>2, RecoverIs
  <2>2. PICK k \in Hits(frames, g) : (\A j \in Hits(frames, g) : k >= j) /\ Recover(n, frames)[g] = frames[k][g]
    BY <1>2, RecoverIs
  <2>3. i = k
    BY <2>1, <2>2 DEF Hits
  <2> QED
    BY <2>1, <2>2, <2>3
<1> QED
  BY <1>1, <1>2

\* What the main file's page and every frame of that page hold, the database holds.
LEMMA RecoverKeeps ==
    ASSUME NEW m \in Image, NEW frames \in Seq(Frame), NEW g \in Pages, NEW S,
           S \subseteq m[g],
           \A i \in DOMAIN frames : g \in DOMAIN frames[i] => S \subseteq frames[i][g]
    PROVE  S \subseteq Recover(m, frames)[g]
<1>1. \A i \in Hits(frames, g) : S \subseteq frames[i][g]
  BY DEF Hits
<1> QED
  BY <1>1, RecoverIs

-----------------------------------------------------------------------------
(* Types *)

Links == [main : 1..Len(mains), wal : 1..Len(wals)]
Restarts == {"idle", "copy", "manifest", "restore", "unlink"}
WithWal == {"copy main", "copy wal", "check main", "check wal", "stage",
            "recheck main", "recheck wal", "replace"}
WithCopy == {"check main", "check wal", "stage", "recheck main", "recheck wal", "replace"}
Seeing == {"read wal"} \cup WithWal

FileTypes ==
    /\ mains \in Seq(Image) /\ wals \in Seq(Seq(Frame))
    /\ main \in 1..Len(mains) /\ wal \in 0..Len(wals)
LinkTypes ==
    /\ conn \in [Clients -> Links \cup {None}]
    /\ busy \subseteq Connected
AdminTypes ==
    /\ backup \in [image : Image, manifest : Image \cup {None}]
    /\ op \in Restarts \cup Seeing /\ page \in Nat
    /\ op \in {"copy", "restore"} => page \in Pages
    /\ op = "restore" => backup.manifest = backup.image
    /\ seen \in [main : Image \cup {None}, wal : Seq(Frame) \cup {None}, staged : Image \cup {None}]
    /\ op \in Seeing => seen.main # None
    /\ op \in WithCopy \cup {"copy wal"} => seen.staged # None
GhostTypes == truth \subseteq Txns /\ must \subseteq Txns /\ calm \in BOOLEAN /\ writes \in Nat
JournalTypeOK == FileTypes /\ LinkTypes /\ AdminTypes /\ GhostTypes

LEMMA FilesFacts ==
    /\ \A t \in Txns : Touches[t] \subseteq Pages /\ Touches[t] # {}
    /\ MaxWrites \in Nat /\ Imported \subseteq Txns
    /\ \A k \in 1..MaxWrites : k \in Txns
    /\ \A g \in Pages : g \in Nat /\ g >= 1
    /\ 1 \in Pages
    /\ \A g, h \in Pages : g + 1 \notin Pages => h <= g
    /\ Blank \in Image
<1>1. Len(Touches) \in Nat /\ MaxWrites \in Nat
  BY FilesAssumption
<1>2. Blank \in Image
  BY DEF Blank, Image
<1>3. /\ Cardinality(Pages) \in Nat /\ Pages = 1..Cardinality(Pages) /\ Pages # {}
      /\ Touches \in Seq((SUBSET Pages) \ {{}})
  BY FilesAssumption, FS_CardinalityType
<1>4. \A t \in Txns : Touches[t] \subseteq Pages /\ Touches[t] # {}
  <2> TAKE t \in Txns
  <2>1. t \in 1..Len(Touches)
    BY DEF Txns
  <2> QED
    BY <1>3, <2>1
<1>5. \A k \in 1..MaxWrites : k \in Txns
  BY <1>1, FilesAssumption DEF Txns
<1>6. Imported \subseteq Txns
  BY <1>1, FilesAssumption DEF Txns
<1>7. /\ \A g \in Pages : g \in Nat /\ g >= 1
      /\ 1 \in Pages
      /\ \A g, h \in Pages : g + 1 \notin Pages => h <= g
  BY <1>3
<1> QED
  BY <1>1, <1>2, <1>4, <1>5, <1>6, <1>7
LEMMA TypeInit == Init => JournalTypeOK
<1> SUFFICES ASSUME Init PROVE JournalTypeOK
  OBVIOUS
<1>1. FileTypes
  BY FilesFacts DEF Init, FileTypes
<1>2. LinkTypes
  BY DEF Init, LinkTypes, Connected
<1>3. AdminTypes
  BY FilesFacts DEF Init, AdminTypes, NotSeen, Restarts, Seeing, WithWal, WithCopy
<1>4. GhostTypes
  BY DEF Init, GhostTypes
<1> QED
  BY <1>1, <1>2, <1>3, <1>4 DEF JournalTypeOK

\* The databases that are read are images.
LEMMA ViewsAreImages ==
    ASSUME JournalTypeOK
    PROVE  /\ Frames(wal) \in Seq(Frame) /\ mains[main] \in Image /\ Journal \in Image
           /\ \A p \in Connected : /\ p \in Clients /\ conn[p].main \in 1..Len(mains)
                                    /\ conn[p].wal \in 1..Len(wals)
                                    /\ wals[conn[p].wal] \in Seq(Frame)
                                    /\ mains[conn[p].main] \in Image /\ View(p) \in Image
<1>1. /\ Len(mains) \in Nat /\ \A i \in 1..Len(mains) : mains[i] \in Image
      /\ Len(wals) \in Nat /\ \A i \in 1..Len(wals) : wals[i] \in Seq(Frame)
  BY DEF JournalTypeOK, FileTypes
<1>2. Frames(wal) \in Seq(Frame) /\ mains[main] \in Image
  <2>1. wal \in 0..Len(wals) /\ main \in 1..Len(mains)
    BY DEF JournalTypeOK, FileTypes
  <2>2. << >> \in Seq(Frame)
    OBVIOUS
  <2>3. wal # 0 => wal \in 1..Len(wals)
    BY <1>1, <2>1
  <2> QED
    BY <1>1, <2>1, <2>2, <2>3 DEF Frames
<1>3. \A p \in Connected : conn[p] \in Links /\ p \in Clients
  BY DEF JournalTypeOK, LinkTypes, Connected
<1>4. \A p \in Connected : /\ p \in Clients /\ conn[p].main \in 1..Len(mains)
                           /\ conn[p].wal \in 1..Len(wals)
  BY <1>3 DEF Links
<1> QED
  BY <1>1, <1>2, <1>4, RecoverIsImage DEF Journal, View
LEMMA ClientTypes ==
    ASSUME JournalTypeOK, NEW p \in Clients,
           Open(p) \/ Begin(p) \/ Commit(p) \/ Rollback(p) \/ Close(p) \/ Crash(p)
    PROVE  JournalTypeOK'
<1> USE DEF JournalTypeOK
<1>1. FileTypes /\ LinkTypes /\ AdminTypes /\ GhostTypes
  OBVIOUS
<1>2. AdminTypes'
  BY <1>1 DEF AdminTypes, Open, Begin, Commit, Rollback, Close, Crash
<1>3. /\ Len(mains) \in Nat /\ Len(wals) \in Nat /\ wal \in 0..Len(wals)
      /\ mains \in Seq(Image) /\ wals \in Seq(Seq(Frame))
  BY <1>1 DEF FileTypes
<1>4. CASE Open(p)
  <2>1. GhostTypes'
    BY <1>1, <1>4 DEF GhostTypes, Open
  <2>2. FileTypes' /\ wal' \in 1..Len(wals') /\ Len(wals') >= Len(wals) /\ Len(wals') \in Nat
    BY <1>1, <1>3, <1>4 DEF FileTypes, Open
  <2>3. conn' = [conn EXCEPT ![p] = [main |-> main, wal |-> wal']] /\ main \in 1..Len(mains) /\ mains' = mains
    BY <1>1, <1>4 DEF Open, FileTypes
  <2>4. Links \subseteq Links' /\ [main |-> main, wal |-> wal'] \in Links'
    BY <1>3, <2>2, <2>3 DEF Links
  <2>5. LinkTypes'
    <3>1. conn' \in [Clients -> Links' \cup {None}]
      BY <1>1, <2>3, <2>4 DEF LinkTypes
    <3>2. busy' \subseteq Connected'
      BY <1>1, <1>4, <2>3 DEF LinkTypes, Connected, Open
    <3> QED
      BY <3>1, <3>2 DEF LinkTypes
  <2> QED
    BY <1>2, <2>1, <2>2, <2>5
<1>5. CASE Begin(p)
  BY <1>1, <1>2, <1>5 DEF Begin, FileTypes, LinkTypes, GhostTypes, Connected, files, counts, Links
<1>6. CASE Commit(p)
  <2> DEFINE t == writes + 1
             w == conn[p].wal
             frame == [g \in Touches[t] |-> View(p)[g] \cup {t}]
  <2>1. p \in Connected
    BY <1>1, <1>6 DEF LinkTypes, Commit
  <2>2. w \in 1..Len(wals) /\ wals[w] \in Seq(Frame) /\ View(p) \in Image
    BY <2>1, ViewsAreImages
  <2>3. t \in Txns /\ t \in Nat
    BY <1>1, <1>6, FilesFacts DEF GhostTypes, Commit
  <2>4. frame \in Frame
    <3>1. Touches[t] \subseteq Pages
      BY <2>3, FilesFacts
    <3>2. \A g \in Touches[t] : View(p)[g] \cup {t} \subseteq Txns
      BY <2>2, <2>3, <3>1 DEF Image
    <3>3. frame \in [Touches[t] -> SUBSET Txns]
      BY <3>2
    <3> QED
      BY <3>1, <3>3, FrameMade
  <2>5. wals' = [wals EXCEPT ![w] = Append(@, frame)]
    BY <1>6 DEF Commit
  <2>6. Append(wals[w], frame) \in Seq(Frame)
    BY <2>2, <2>4
  <2>7. wals' \in Seq(Seq(Frame)) /\ Len(wals') = Len(wals)
    BY <1>3, <2>2, <2>5, <2>6
  <2> HIDE DEF frame, w, t
  <2>8. FileTypes'
    BY <1>1, <1>6, <2>7 DEF FileTypes, Commit
  <2>9. LinkTypes'
    BY <1>1, <1>6, <2>7 DEF LinkTypes, Links, Connected, Commit
  <2>10. GhostTypes'
    BY <1>1, <1>6, <2>3 DEF GhostTypes, Commit, t
  <2> QED
    BY <1>2, <2>8, <2>9, <2>10
<1>7. CASE Rollback(p)
  BY <1>1, <1>2, <1>7 DEF Rollback, FileTypes, LinkTypes, GhostTypes, Connected, files, counts, Links
<1>8. CASE Close(p)
  <2>1. p \in Connected
    BY <1>8 DEF Close, Connected
  <2>2. /\ conn[p].wal \in 1..Len(wals) /\ conn[p].main \in 1..Len(mains) /\ View(p) \in Image
        /\ << >> \in Seq(Frame)
    BY <2>1, ViewsAreImages
  <2>3. FileTypes' /\ Len(mains') = Len(mains) /\ Len(wals') = Len(wals)
    <3>1. CASE OnMain(conn[p].main) = {p}
      <4>1. /\ mains' = [mains EXCEPT ![conn[p].main] = View(p)]
            /\ wals' = [wals EXCEPT ![conn[p].wal] = << >>] /\ wal' = 0 /\ main' = main
        BY <1>8, <3>1 DEF Close
      <4>2. mains' \in Seq(Image) /\ Len(mains') = Len(mains)
        BY <1>3, <2>2, <4>1
      <4>3. wals' \in Seq(Seq(Frame)) /\ Len(wals') = Len(wals)
        BY <1>3, <2>2, <4>1
      <4> QED
        BY <1>1, <1>3, <4>1, <4>2, <4>3 DEF FileTypes
    <3>2. CASE OnMain(conn[p].main) # {p}
      BY <1>1, <1>8, <3>2 DEF FileTypes, Close
    <3> QED
      BY <3>1, <3>2
  <2>4. LinkTypes'
    <3>1. conn' = [conn EXCEPT ![p] = None] /\ busy' = busy /\ p \notin busy
      BY <1>8 DEF Close
    <3>2. Links' = Links
      BY <2>3 DEF Links
    <3> QED
      BY <1>1, <3>1, <3>2 DEF LinkTypes, Connected
  <2>5. GhostTypes'
    BY <1>1, <1>8 DEF GhostTypes, Close, counts
  <2> QED
    BY <1>2, <2>3, <2>4, <2>5
<1>9. CASE Crash(p)
  <2>1. FileTypes' /\ GhostTypes'
    BY <1>1, <1>9 DEF Crash, FileTypes, GhostTypes, files
  <2>2. Links' = Links
    BY <1>9 DEF Crash, Links, files
  <2>3. LinkTypes'
    BY <1>1, <1>9, <2>2 DEF Crash, LinkTypes, Connected
  <2> QED
    BY <1>2, <2>1, <2>3
<1> QED
  BY <1>4, <1>5, <1>6, <1>7, <1>8, <1>9

LEMMA AdminTypesStep ==
    ASSUME JournalTypeOK, Admin
    PROVE  JournalTypeOK'
<1> USE DEF JournalTypeOK
<1>1. FileTypes /\ LinkTypes /\ AdminTypes /\ GhostTypes
  OBVIOUS
<1>2. /\ Len(mains) \in Nat /\ Len(wals) \in Nat /\ wal \in 0..Len(wals) /\ main \in 1..Len(mains)
      /\ mains \in Seq(Image) /\ wals \in Seq(Seq(Frame))
      /\ << >> \in Seq(Frame) /\ mains[main] \in Image /\ Journal \in Image /\ Frames(wal) \in Seq(Frame)
  BY <1>1, ViewsAreImages DEF FileTypes
<1>3. ASSUME UNCHANGED <<mains, wals, main, wal, conn, busy>>
      PROVE  FileTypes' /\ LinkTypes'
  BY <1>1, <1>3 DEF FileTypes, LinkTypes, Connected, Links
<1>4. ASSUME UNCHANGED <<truth, must, writes>>, calm' \in BOOLEAN
      PROVE  GhostTypes'
  BY <1>1, <1>4 DEF GhostTypes
<1>5. CASE BackupCheckpoint
  <2>1. mains' \in Seq(Image) /\ Len(mains') = Len(mains)
    BY <1>2, <1>5 DEF BackupCheckpoint
  <2>2. wals' \in Seq(Seq(Frame)) /\ Len(wals') = Len(wals)
    BY <1>2, <1>5 DEF BackupCheckpoint
  <2>3. FileTypes'
    BY <1>1, <1>2, <1>5, <2>1, <2>2 DEF FileTypes, BackupCheckpoint
  <2>4. LinkTypes'
    BY <1>1, <1>5, <2>1, <2>2 DEF LinkTypes, Connected, Links, BackupCheckpoint
  <2>5. AdminTypes'
    BY <1>1, <1>5, FilesFacts DEF AdminTypes, BackupCheckpoint, Restarts, Seeing, WithCopy, WithWal
  <2>6. GhostTypes'
    BY <1>1, <1>5 DEF GhostTypes, BackupCheckpoint
  <2> QED
    BY <2>3, <2>4, <2>5, <2>6
<1>6. CASE BackupCopy
  <2>1. FileTypes' /\ LinkTypes' /\ GhostTypes'
    BY <1>1, <1>3, <1>4, <1>6 DEF BackupCopy, files, counts, GhostTypes
  <2>2. [g \in Pages |-> IF g < page THEN backup.image[g] ELSE IF g = page THEN mains[main][g] ELSE {}] \in Image
    BY <1>1, <1>2 DEF Image, AdminTypes
  <2> DEFINE copied == [g \in Pages |-> IF g < page THEN backup.image[g] ELSE IF g = page THEN mains[main][g] ELSE {}]
  <2>3. backup' = [backup EXCEPT !.image = copied]
    BY <1>6 DEF BackupCopy
  <2> HIDE DEF copied
  <2>4. backup' \in [image : Image, manifest : Image \cup {None}]
    BY <1>1, <2>2, <2>3 DEF AdminTypes, copied
  <2>5. AdminTypes'
    BY <1>1, <1>6, <2>4 DEF AdminTypes, BackupCopy, Restarts, Seeing, WithCopy, WithWal
  <2> QED
    BY <2>1, <2>5
<1>7. CASE BackupManifest
  <2>1. FileTypes' /\ LinkTypes' /\ GhostTypes'
    BY <1>1, <1>3, <1>4, <1>7 DEF BackupManifest, files, counts, GhostTypes
  <2>3. AdminTypes'
    BY <1>1, <1>7 DEF AdminTypes, BackupManifest, Restarts, Seeing, WithCopy, WithWal
  <2> QED
    BY <2>1, <2>3
<1>8. CASE RestoreVerify
  <2>1. FileTypes' /\ LinkTypes' /\ GhostTypes'
    BY <1>1, <1>3, <1>4, <1>8 DEF RestoreVerify, files, counts, GhostTypes
  <2>3. AdminTypes'
    BY <1>1, <1>8, FilesFacts DEF AdminTypes, RestoreVerify, Restarts, Seeing, WithCopy, WithWal
  <2> QED
    BY <2>1, <2>3
<1>9. CASE RestoreCopy
  <2>1. [g \in Pages |-> IF g < page THEN mains[main][g] ELSE IF g = page THEN backup.image[g] ELSE {}] \in Image
    BY <1>1, <1>2 DEF Image, AdminTypes
  <2>2. mains' \in Seq(Image) /\ Len(mains') = Len(mains)
    BY <1>2, <1>9, <2>1 DEF RestoreCopy
  <2>3. FileTypes' /\ LinkTypes'
    BY <1>1, <1>9, <2>2 DEF RestoreCopy, FileTypes, LinkTypes, Connected, Links
  <2>4. AdminTypes'
    BY <1>1, <1>9 DEF AdminTypes, RestoreCopy, Restarts, Seeing, WithCopy, WithWal
  <2>5. \A g \in Pages : backup.manifest[g] \subseteq Txns
    BY <1>1, <1>9 DEF AdminTypes, RestoreCopy, Image
  <2>6. GhostTypes'
    BY <1>1, <1>9, <2>5 DEF RestoreCopy, GhostTypes, counts
  <2> QED
    BY <2>3, <2>4, <2>6
<1>10. CASE ImportRead
  <2>1. FileTypes' /\ LinkTypes' /\ GhostTypes'
    BY <1>1, <1>3, <1>4, <1>10 DEF ImportRead, files, counts, GhostTypes
  <2>2. None \notin Image /\ None \notin Seq(Frame)
    BY NoneAssumption
  <2>3. WalBytes \in Seq(Frame) \cup {None}
    BY <1>1, <1>2 DEF WalBytes, FileTypes
  <2>4. AdminTypes'
    <3> USE DEF AdminTypes, Restarts, Seeing, WithCopy, WithWal
    <3>1. CASE op = "idle"
      BY <1>1, <1>2, <1>10, <2>2, <3>1 DEF ImportRead, NotSeen
    <3>2. CASE op = "read wal"
      BY <1>1, <1>2, <1>10, <2>2, <2>3, <3>2 DEF ImportRead
    <3>3. CASE op = "copy main"
      BY <1>1, <1>2, <1>10, <2>2, <3>3 DEF ImportRead
    <3>4. CASE op = "copy wal"
      <4>1. Recover(seen.staged, Frames(wal)) \in Image
        BY <1>1, <1>2, <3>4, RecoverIsImage
      <4> QED
        BY <1>1, <1>10, <2>2, <3>4, <4>1 DEF ImportRead
    <3> QED
      BY <1>10, <3>1, <3>2, <3>3, <3>4 DEF ImportRead
  <2> QED
    BY <2>1, <2>4
<1>11. CASE ImportStage
  <2>1. FileTypes' /\ LinkTypes' /\ GhostTypes'
    BY <1>1, <1>3, <1>4, <1>11 DEF ImportStage, files, counts, GhostTypes
  <2>2. None \notin Image
    BY NoneAssumption
  <2>3. seen.staged \in Image
    BY <1>1, <1>11 DEF AdminTypes, WithCopy, ImportStage
  <2>4. [g \in Pages |-> seen.staged[g] \cup ImageOf(Imported)[g]] \in Image
    <3>1. \A g \in Pages : ImageOf(Imported)[g] \subseteq Txns
      BY FilesFacts DEF ImageOf
    <3> QED
      BY <2>3, <3>1 DEF Image
  <2>5. AdminTypes'
    BY <1>1, <1>11, <2>2, <2>4 DEF ImportStage, AdminTypes, Restarts, Seeing, WithCopy, WithWal
  <2> QED
    BY <2>1, <2>5
<1>12. CASE ImportRecheck
  <2>1. FileTypes' /\ LinkTypes' /\ GhostTypes'
    BY <1>1, <1>3, <1>4, <1>12 DEF ImportRecheck, files, counts, GhostTypes
  <2>2. AdminTypes'
    BY <1>1, <1>12 DEF ImportRecheck, AdminTypes, Restarts, Seeing, WithCopy, WithWal
  <2> QED
    BY <2>1, <2>2
<1>13. CASE ImportReplace
  <2>1. seen.staged \in Image
    BY <1>1, <1>13 DEF AdminTypes, WithCopy, ImportReplace
  <2>2. mains' \in Seq(Image) /\ Len(mains') = Len(mains) + 1 /\ main' = Len(mains) + 1
    BY <1>2, <1>13, <2>1 DEF ImportReplace
  <2>3. FileTypes'
    BY <1>1, <1>2, <1>13, <2>2 DEF ImportReplace, FileTypes
  <2>4. LinkTypes'
    <3>1. Links \subseteq Links' /\ conn' = conn /\ busy' = busy
      BY <1>2, <1>13, <2>2 DEF ImportReplace, Links
    <3> QED
      BY <1>1, <3>1 DEF LinkTypes, Connected
  <2>5. AdminTypes' /\ GhostTypes'
    BY <1>1, <1>13, FilesFacts DEF ImportReplace, AdminTypes, GhostTypes, counts, Restarts, Seeing, WithCopy, WithWal
  <2> QED
    BY <2>3, <2>4, <2>5
<1>14. CASE ImportUnlink
  <2>1. FileTypes' /\ LinkTypes' /\ GhostTypes'
    BY <1>1, <1>2, <1>4, <1>14 DEF ImportUnlink, FileTypes, LinkTypes, Connected, Links, counts, GhostTypes
  <2>2. AdminTypes'
    BY <1>1, <1>14 DEF ImportUnlink, AdminTypes, Restarts, Seeing, WithCopy, WithWal
  <2> QED
    BY <2>1, <2>2
<1>15. CASE AdminCrash
  <2>1. FileTypes' /\ LinkTypes' /\ GhostTypes'
    BY <1>1, <1>3, <1>4, <1>15 DEF AdminCrash, files, GhostTypes
  <2>2. AdminTypes'
    BY <1>1, <1>15 DEF AdminCrash, AdminTypes, Restarts, Seeing, WithCopy, WithWal
  <2> QED
    BY <2>1, <2>2
<1> QED
  BY <1>5, <1>6, <1>7, <1>8, <1>9, <1>10, <1>11, <1>12, <1>13, <1>14, <1>15 DEF Admin
-----------------------------------------------------------------------------
(* The inductive invariant *)

\* While the files are replaced: a restore wrote some pages, or an import renamed the
\* main file and has yet to remove the log.
Torn == (op = "restore" /\ page > 1) \/ (op = "unlink" /\ wal # 0)

Alone == Replacing => Connected = {}
OneJournal == \A p \in Connected : conn[p] = [main |-> main, wal |-> wal]
FramesAbove ==
    \A i \in DOMAIN Frames(wal) : \A g \in DOMAIN Frames(wal)[i] :
        mains[main][g] \subseteq Frames(wal)[i][g]
HoldsTruth == ~Torn => Journal = ImageOf(truth) /\ FramesAbove

Restoring ==
    /\ op = "restore" => wal = 0 /\ \A g \in Pages : g < page => mains[main][g] = backup.image[g]
    /\ op = "unlink" => mains[main] = ImageOf(truth)

IsWhole(image) == \E T \in SUBSET Txns : image = ImageOf(T)
BackupsWhole ==
    /\ backup.manifest # None => IsWhole(backup.manifest)
    /\ op = "copy" => /\ IsWhole(mains[main])
                      /\ \A g \in Pages : g < page => backup.image[g] = mains[main][g]
    /\ op = "manifest" => IsWhole(backup.image)

\* The staged copy lies between what import.commit saw and what the journal is now;
\* the two are one when the main file is as it was seen.
Read == Recover(seen.main, IF seen.wal = None THEN << >> ELSE seen.wal)
Merged(a, b) == [g \in Pages |-> a[g] \cup b[g]]
Added == IF op \in {"recheck main", "recheck wal", "replace"} THEN ImageOf(Imported) ELSE Blank
SeenIsBelow ==
    /\ op \in Seeing => Below(seen.main, mains[main])
    /\ op \in WithWal => Below(Read, Journal)
    /\ op = "copy wal" => Below(seen.main, seen.staged) /\ Below(seen.staged, mains[main])
    /\ op \in WithCopy /\ mains[main] = seen.main =>
         Below(Merged(Read, Added), seen.staged) /\ Below(seen.staged, Merged(Journal, Added))
    /\ op \in {"recheck wal", "replace"} => mains[main] = seen.main
    /\ op = "replace" => WalBytes = seen.wal

CalmInv == Alone /\ OneJournal /\ HoldsTruth /\ Restoring /\ BackupsWhole /\ SeenIsBelow

\* What was committed before a backup is in every place the copy can take a page from.
Kept(t, g) ==
    /\ t \in mains[main][g]
    /\ \A i \in DOMAIN Frames(wal) : g \in DOMAIN Frames(wal)[i] => t \in Frames(wal)[i][g]
MustHeld ==
    /\ op = "copy" /\ must # {} => OneJournal
    /\ op = "copy" => \A t \in must : \A g \in Touches[t] :
                        Kept(t, g) /\ (g < page => t \in backup.image[g])
    /\ op = "manifest" => \A t \in must : \A g \in Touches[t] : t \in backup.image[g]

JournalInv == JournalTypeOK /\ (calm => CalmInv) /\ MustHeld

-----------------------------------------------------------------------------
(* The clients *)

\* What a client's step does to the files when all are on the ones the names stand for.
LEMMA ClientFiles ==
    ASSUME JournalTypeOK, OneJournal, NEW p \in Clients,
           Open(p) \/ Begin(p) \/ Commit(p) \/ Rollback(p) \/ Close(p) \/ Crash(p)
    PROVE  /\ main' = main /\ OneJournal'
           /\ \/ mains' = mains /\ Frames(wal)' = Frames(wal) /\ truth' = truth
              \/ /\ mains' = mains /\ writes + 1 \in Txns /\ truth' = truth \cup {writes + 1}
                 /\ Frames(wal)' = Append(Frames(wal),
                                          [g \in Touches[writes + 1] |-> Journal[g] \cup {writes + 1}])
              \/ /\ mains'[main'] = Journal /\ Frames(wal)' = << >> /\ truth' = truth
                 /\ calm' => op # "copy"
<1>1. /\ Len(mains) \in Nat /\ Len(wals) \in Nat /\ wal \in 0..Len(wals) /\ main \in 1..Len(mains)
      /\ mains \in Seq(Image) /\ wals \in Seq(Seq(Frame)) /\ busy \subseteq Connected
  BY DEF JournalTypeOK, FileTypes, LinkTypes
<1>2. \A q \in Connected : /\ conn[q].main = main /\ conn[q].wal = wal /\ wal \in 1..Len(wals)
                           /\ View(q) = Journal
  <2> TAKE q \in Connected
  <2>1. conn[q].main = main /\ conn[q].wal = wal
    BY DEF OneJournal
  <2>2. wal \in 1..Len(wals)
    BY <2>1, ViewsAreImages
  <2> QED
    BY <2>1, <2>2 DEF View, Journal, Frames
<1>3. CASE Open(p)
  <2>1. main' = main /\ mains' = mains /\ truth' = truth
    BY <1>3 DEF Open
  <2>2. Frames(wal)' = Frames(wal)
    <3>1. CASE wal = 0
      <4>1. wal' = Len(wals) + 1 /\ wals' = Append(wals, << >>)
        BY <1>3, <3>1 DEF Open
      <4>2. wals'[wal'] = << >> /\ wal' # 0
        BY <1>1, <4>1
      <4> QED
        BY <3>1, <4>2 DEF Frames
    <3>2. CASE wal # 0
      BY <1>3, <3>2 DEF Open, Frames
    <3> QED
      BY <3>1, <3>2
  <2>3. OneJournal'
    <3>1. conn' = [conn EXCEPT ![p] = [main |-> main, wal |-> wal']]
      BY <1>3 DEF Open
    <3>2. wal' = wal \/ Connected = {}
      BY <1>1, <1>2, <1>3 DEF Open
    <3>3. conn \in [Clients -> Links \cup {None}]
      BY DEF JournalTypeOK, LinkTypes
    <3> QED
      BY <2>1, <3>1, <3>2, <3>3 DEF OneJournal, Connected
  <2> QED
    BY <2>1, <2>2, <2>3
<1>4. CASE Begin(p) \/ Rollback(p)
  <2>1. UNCHANGED <<mains, wals, main, wal, conn, truth>>
    BY <1>4 DEF Begin, Rollback, files
  <2> QED
    BY <2>1 DEF OneJournal, Connected, Frames
<1>5. CASE Commit(p)
  <2> DEFINE frame == [g \in Touches[writes + 1] |-> Journal[g] \cup {writes + 1}]
  <2>1. p \in Connected
    BY <1>1, <1>5 DEF Commit
  <2>2. wals' = [wals EXCEPT ![wal] = Append(@, [g \in Touches[writes + 1] |-> View(p)[g] \cup {writes + 1}])]
    BY <1>2, <1>5, <2>1 DEF Commit
  <2>3. wals' = [wals EXCEPT ![wal] = Append(@, frame)]
    BY <1>2, <2>1, <2>2
  <2> HIDE DEF frame
  <2>4. wals'[wal] = Append(wals[wal], frame) /\ wal # 0
    BY <1>1, <1>2, <2>1, <2>3
  <2>5. UNCHANGED <<mains, main, wal, conn>> /\ truth' = truth \cup {writes + 1}
    BY <1>5 DEF Commit
  <2>6. Frames(wal)' = Append(Frames(wal), frame)
    BY <2>4, <2>5 DEF Frames
  <2>7. writes + 1 \in Txns
    BY <1>5, FilesFacts DEF Commit, JournalTypeOK, GhostTypes
  <2> QED
    BY <2>5, <2>6, <2>7 DEF OneJournal, Connected, frame
<1>6. CASE Close(p)
  <2>1. p \in Connected
    BY <1>6 DEF Close, Connected
  <2>2. conn' = [conn EXCEPT ![p] = None] /\ main' = main /\ truth' = truth
    BY <1>6 DEF Close
  <2>3. conn \in [Clients -> Links \cup {None}]
    BY DEF JournalTypeOK, LinkTypes
  <2>4. Connected' = Connected \ {p} /\ \A q \in Connected' : conn'[q] = conn[q]
    BY <2>2, <2>3 DEF Connected
  <2>5. CASE OnMain(main) = {p}
    <3>1. mains' = [mains EXCEPT ![main] = Journal] /\ wal' = 0
      BY <1>2, <1>6, <2>1, <2>5 DEF Close
    <3>2. mains'[main'] = Journal /\ Frames(wal)' = << >>
      BY <1>1, <2>2, <3>1 DEF Frames
    <3>3. Connected' = {}
      BY <1>2, <2>4, <2>5 DEF OnMain
    <3>4. calm' => op # "copy"
      BY <1>2, <1>6, <2>1, <2>5 DEF Close
    <3> QED
      BY <2>2, <3>2, <3>3, <3>4 DEF OneJournal
  <2>6. CASE OnMain(main) # {p}
    <3>1. UNCHANGED <<mains, wals, wal>>
      BY <1>2, <1>6, <2>1, <2>6 DEF Close
    <3> QED
      BY <2>2, <2>4, <3>1 DEF OneJournal, Frames
  <2> QED
    BY <2>5, <2>6
<1>7. CASE Crash(p)
  <2>1. UNCHANGED <<mains, wals, main, wal, truth>> /\ conn' = [conn EXCEPT ![p] = None]
    BY <1>7 DEF Crash, files
  <2>2. conn \in [Clients -> Links \cup {None}]
    BY DEF JournalTypeOK, LinkTypes
  <2>3. Connected' = Connected \ {p} /\ \A q \in Connected' : conn'[q] = conn[q]
    BY <2>1, <2>2 DEF Connected
  <2> QED
    BY <2>1, <2>3 DEF OneJournal, Frames
<1> QED
  BY <1>3, <1>4, <1>5, <1>6, <1>7
\* With nobody else about, the clients find the files together and only add to them.
LEMMA ClientGrows ==
    ASSUME JournalTypeOK, JournalTypeOK', OneJournal, FramesAbove, Journal = ImageOf(truth),
           NEW p \in Clients,
           Open(p) \/ Begin(p) \/ Commit(p) \/ Rollback(p) \/ Close(p) \/ Crash(p)
    PROVE  /\ FramesAbove' /\ Journal' = ImageOf(truth')
           /\ Below(mains[main], mains'[main']) /\ Below(Journal, Journal')
           /\ calm' /\ op = "copy" => mains'[main'] = mains[main]
<1>1. /\ Frames(wal) \in Seq(Frame) /\ mains[main] \in Image /\ Journal \in Image
      /\ Journal = Recover(mains[main], Frames(wal))
  BY ViewsAreImages DEF Journal
<1>2. Journal' = Recover(mains'[main'], Frames(wal)')
  BY DEF Journal
<1>3. Below(mains[main], mains[main]) /\ Below(Journal, Journal)
  BY DEF Below
<1>4. CASE mains' = mains /\ main' = main /\ Frames(wal)' = Frames(wal) /\ truth' = truth
  BY <1>1, <1>2, <1>3, <1>4 DEF FramesAbove
<1>5. CASE /\ mains' = mains /\ main' = main /\ writes + 1 \in Txns /\ truth' = truth \cup {writes + 1}
           /\ Frames(wal)' = Append(Frames(wal),
                                    [g \in Touches[writes + 1] |-> Journal[g] \cup {writes + 1}])
  <2> DEFINE t == writes + 1
             frame == [g \in Touches[writes + 1] |-> Journal[g] \cup {writes + 1}]
  <2>1. t \in Txns /\ Touches[t] \subseteq Pages
    BY <1>5, FilesFacts
  <2>2. \A g \in Pages : Journal[g] \cup {t} \subseteq Txns
    BY <1>1, <2>1 DEF Image
  <2>3. frame \in [Touches[t] -> SUBSET Txns]
    BY <2>1, <2>2
  <2>4. frame \in Frame
    BY <2>1, <2>3, FrameMade
  <2>5. \A g \in Pages : Journal'[g] = IF g \in Touches[t] THEN Journal[g] \cup {t} ELSE Journal[g]
    <3> TAKE g \in Pages
    <3>1. Journal' = Recover(mains[main], Append(Frames(wal), frame))
      BY <1>2, <1>5
    <3>2. Recover(mains[main], Append(Frames(wal), frame))[g]
            = IF g \in DOMAIN frame THEN frame[g] ELSE Recover(mains[main], Frames(wal))[g]
      BY <1>1, <2>4, RecoverAppend
    <3> QED
      BY <3>1, <3>2, <1>1
  <2>6. Below(Journal, Journal')
    BY <2>5 DEF Below
  <2>7. Journal' = ImageOf(truth')
    <3>1. \A g \in Pages : Journal'[g] = ImageOf(truth')[g]
      <4> TAKE g \in Pages
      <4>1. ImageOf(truth)[g] = {x \in truth : g \in Touches[x]}
        BY DEF ImageOf
      <4>2. ImageOf(truth')[g] = {x \in truth \cup {t} : g \in Touches[x]}
        BY <1>5 DEF ImageOf
      <4> QED
        BY <4>1, <4>2, <2>5
    <3>2. Journal' \in Image
      <4>1. Append(Frames(wal), frame) \in Seq(Frame)
        BY <1>1, <2>4
      <4>2. Journal' = Recover(mains[main], Append(Frames(wal), frame))
        BY <1>2, <1>5
      <4> HIDE DEF frame
      <4> QED
        BY <1>1, <4>1, <4>2, RecoverIsImage
    <3> QED
      BY <3>1, <3>2 DEF Image, ImageOf
  <2>8. Below(mains[main], Journal)
    <3> SUFFICES ASSUME NEW g \in Pages PROVE mains[main][g] \subseteq Journal[g]
      BY DEF Below
    <3>1. \A i \in DOMAIN Frames(wal) : g \in DOMAIN Frames(wal)[i] => mains[main][g] \subseteq Frames(wal)[i][g]
      BY DEF FramesAbove
    <3> QED
      BY <1>1, <3>1, RecoverKeeps
  <2>9. FramesAbove'
    <3> DEFINE more == Append(Frames(wal), frame)
    <3>1. /\ DOMAIN more = 1..(Len(Frames(wal)) + 1) /\ Len(Frames(wal)) \in Nat
          /\ DOMAIN Frames(wal) = 1..Len(Frames(wal))
          /\ more[Len(Frames(wal)) + 1] = frame
          /\ \A i \in 1..Len(Frames(wal)) : more[i] = Frames(wal)[i]
      BY <1>1
    <3> HIDE DEF more
    <3>2. \A i \in DOMAIN more : \A g \in DOMAIN more[i] : mains[main][g] \subseteq more[i][g]
      <4> TAKE i \in DOMAIN more
      <4>1. CASE i \in 1..Len(Frames(wal))
        BY <3>1, <4>1 DEF FramesAbove
      <4>2. CASE i = Len(Frames(wal)) + 1
        BY <2>1, <2>8, <3>1, <4>2 DEF Below
      <4> QED
        BY <3>1, <4>1, <4>2
    <3>3. Frames(wal)' = more /\ mains' = mains /\ main' = main
      BY <1>5 DEF more
    <3> QED
      BY <3>2, <3>3 DEF FramesAbove
  <2> QED
    BY <1>3, <1>5, <2>6, <2>7, <2>9
<1>6. CASE /\ mains'[main'] = Journal /\ Frames(wal)' = << >> /\ truth' = truth
           /\ calm' => op # "copy"
  <2>1. Journal' = Journal
    BY <1>1, <1>2, <1>6, RecoverEmpty
  <2>2. Below(mains[main], Journal)
    <3> SUFFICES ASSUME NEW g \in Pages PROVE mains[main][g] \subseteq Journal[g]
      BY DEF Below
    <3>1. \A i \in DOMAIN Frames(wal) : g \in DOMAIN Frames(wal)[i] => mains[main][g] \subseteq Frames(wal)[i][g]
      BY DEF FramesAbove
    <3> QED
      BY <1>1, <3>1, RecoverKeeps
  <2>3. FramesAbove'
    BY <1>6 DEF FramesAbove
  <2> QED
    BY <1>3, <1>6, <2>1, <2>2, <2>3
<1> QED
  BY <1>4, <1>5, <1>6, ClientFiles

\* A client that opens the journal while it is replaced ends the calm.
LEMMA ClientQuiet ==
    ASSUME JournalTypeOK, calm => Alone, NEW p \in Clients, calm',
           Open(p) \/ Begin(p) \/ Commit(p) \/ Rollback(p) \/ Close(p) \/ Crash(p)
    PROVE  calm /\ ~Replacing /\ ~Torn /\ UNCHANGED <<op, page, seen, backup>>
<1>1. UNCHANGED <<op, page, seen, backup>> /\ calm
  BY DEF Open, Begin, Commit, Rollback, Close, Crash
<1>2. ~Replacing
  <2>1. CASE Open(p)
    BY <2>1 DEF Open
  <2>2. CASE Begin(p) \/ Commit(p) \/ Rollback(p) \/ Close(p) \/ Crash(p)
    <3>1. p \in Connected
      BY <2>2 DEF Begin, Commit, Rollback, Close, Crash, Connected, JournalTypeOK, LinkTypes
    <3> QED
      BY <1>1, <3>1 DEF Alone
  <2> QED
    BY <2>1, <2>2
<1> QED
  BY <1>1, <1>2 DEF Replacing, Torn
LEMMA ClientKeeps ==
    ASSUME JournalInv, JournalTypeOK', NEW p \in Clients,
           Open(p) \/ Begin(p) \/ Commit(p) \/ Rollback(p) \/ Close(p) \/ Crash(p)
    PROVE  (calm' => CalmInv') /\ MustHeld'
<1>1. JournalTypeOK /\ (calm => CalmInv) /\ MustHeld
  BY DEF JournalInv
<1>2. UNCHANGED <<op, page, seen, backup, must>>
  BY DEF Open, Begin, Commit, Rollback, Close, Crash
<1>3. ASSUME calm' PROVE CalmInv'
  <2>1. calm /\ ~Replacing /\ ~Torn
    BY <1>1, <1>3, ClientQuiet DEF CalmInv
  <2>2. OneJournal /\ FramesAbove /\ Journal = ImageOf(truth)
    BY <1>1, <2>1 DEF CalmInv, HoldsTruth
  <2>3. /\ FramesAbove' /\ Journal' = ImageOf(truth')
        /\ Below(mains[main], mains'[main']) /\ Below(Journal, Journal')
        /\ op = "copy" => mains'[main'] = mains[main]
    BY <1>1, <1>3, <2>2, ClientGrows
  <2>4. OneJournal'
    BY <1>1, <2>2, ClientFiles
  <2>5. Alone' /\ Restoring' /\ HoldsTruth'
    BY <1>2, <2>1, <2>3 DEF Alone, Replacing, Restoring, HoldsTruth
  <2>6. BackupsWhole'
    BY <1>1, <1>2, <2>1, <2>3 DEF CalmInv, BackupsWhole
  <2>7. SeenIsBelow'
    <3>1. SeenIsBelow
      BY <1>1, <2>1 DEF CalmInv
    <3>2. Read' = Read /\ Added' = Added
      BY <1>2 DEF Read, Added
    <3>3. op \in Seeing => Below(seen.main, mains'[main'])
      BY <2>3, <3>1 DEF SeenIsBelow, Below
    <3>4. op \in WithWal => Below(Read, Journal')
      BY <2>3, <3>1 DEF SeenIsBelow, Below
    <3>5. op = "copy wal" => Below(seen.main, seen.staged) /\ Below(seen.staged, mains'[main'])
      BY <2>3, <3>1 DEF SeenIsBelow, Below
    <3>6. ASSUME op \in WithCopy, mains'[main'] = seen.main
          PROVE  Below(Merged(Read, Added), seen.staged) /\ Below(seen.staged, Merged(Journal', Added))
      <4>1. mains[main] = seen.main
        <5>1. Below(seen.main, mains[main]) /\ Below(mains[main], seen.main)
          BY <2>3, <3>1, <3>6 DEF SeenIsBelow, WithCopy, WithWal, Seeing
        <5>2. mains[main] \in Image /\ seen.main \in Image
          BY <1>1, <3>6, ViewsAreImages DEF JournalTypeOK, AdminTypes, Seeing, WithWal, WithCopy
        <5>3. \A g \in Pages : mains[main][g] = seen.main[g]
          BY <5>1 DEF Below
        <5> QED
          BY <5>2, <5>3 DEF Image
      <4>2. Below(Merged(Read, Added), seen.staged) /\ Below(seen.staged, Merged(Journal, Added))
        BY <3>1, <3>6, <4>1 DEF SeenIsBelow
      <4> QED
        BY <2>3, <4>2 DEF Below, Merged
    <3>7. op \notin {"recheck wal", "replace"}
      BY <2>1 DEF Replacing
    <3>8. Merged(Journal', Added) = Merged(Journal, Added)'
      BY <3>2 DEF Merged
    <3> HIDE DEF Read, Added, Merged
    <3> QED
      BY <1>2, <3>2, <3>3, <3>4, <3>5, <3>6, <3>7 DEF SeenIsBelow, Merged
  <2> QED
    BY <2>4, <2>5, <2>6, <2>7 DEF CalmInv
<1>4. MustHeld'
  <2>1. op = "manifest" => \A t \in must : \A g \in Touches[t] : t \in backup.image[g]
    BY <1>1 DEF MustHeld
  <2>2. ASSUME op = "copy", NEW t \in must
        PROVE  /\ OneJournal'
               /\ \A g \in Touches[t] : Kept(t, g)' /\ (g < page => t \in backup.image[g])
    <3>1. OneJournal /\ \A g \in Touches[t] : Kept(t, g) /\ (g < page => t \in backup.image[g])
      BY <1>1, <2>2 DEF MustHeld
    <3>2. /\ Frames(wal) \in Seq(Frame) /\ mains[main] \in Image
          /\ Journal = Recover(mains[main], Frames(wal))
      BY <1>1, ViewsAreImages DEF Journal
    <3>3. ASSUME NEW g \in Touches[t] PROVE Kept(t, g)' /\ t \in Journal[g]
      <4>1. g \in Pages /\ Kept(t, g)
        BY <1>1, <3>1, FilesFacts DEF JournalTypeOK, GhostTypes
      <4>2. t \in Journal[g]
        <5>1. /\ {t} \subseteq mains[main][g]
              /\ \A i \in DOMAIN Frames(wal) : g \in DOMAIN Frames(wal)[i] => {t} \subseteq Frames(wal)[i][g]
          BY <4>1 DEF Kept
        <5>2. {t} \subseteq Recover(mains[main], Frames(wal))[g]
          BY <3>2, <4>1, <5>1, RecoverKeeps
        <5> QED
          BY <3>2, <5>2
      <4>3. CASE mains' = mains /\ main' = main /\ Frames(wal)' = Frames(wal)
        BY <4>1, <4>2, <4>3 DEF Kept
      <4>4. CASE /\ mains' = mains /\ main' = main
                 /\ Frames(wal)' = Append(Frames(wal),
                                          [h \in Touches[writes + 1] |-> Journal[h] \cup {writes + 1}])
        <5> DEFINE frame == [h \in Touches[writes + 1] |-> Journal[h] \cup {writes + 1}]
                   more == Append(Frames(wal), frame)
        <5>1. g \in DOMAIN frame => t \in frame[g]
          BY <4>2
        <5>2. /\ DOMAIN more = 1..(Len(Frames(wal)) + 1) /\ Len(Frames(wal)) \in Nat
              /\ DOMAIN Frames(wal) = 1..Len(Frames(wal))
              /\ more[Len(Frames(wal)) + 1] = frame
              /\ \A i \in 1..Len(Frames(wal)) : more[i] = Frames(wal)[i]
          BY <3>2
        <5> HIDE DEF frame
        <5>3. \A i \in DOMAIN more : g \in DOMAIN more[i] => t \in more[i][g]
          <6> HIDE DEF more
          <6> TAKE i \in DOMAIN more
          <6>1. CASE i \in 1..Len(Frames(wal))
            BY <4>1, <5>2, <6>1 DEF Kept
          <6>2. CASE i = Len(Frames(wal)) + 1
            BY <5>1, <5>2, <6>2
          <6> QED
            BY <5>2, <6>1, <6>2
        <5>4. Frames(wal)' = more
          BY <4>4 DEF frame
        <5> HIDE DEF more
        <5> QED
          BY <4>1, <4>2, <4>4, <5>3, <5>4 DEF Kept
      <4>5. CASE mains'[main'] = Journal /\ Frames(wal)' = << >>
        BY <4>2, <4>5 DEF Kept
      <4> QED
        BY <1>1, <3>1, <4>2, <4>3, <4>4, <4>5, ClientFiles
    <3>4. OneJournal'
      BY <1>1, <3>1, ClientFiles
    <3> QED
      BY <3>1, <3>3, <3>4
  <2> QED
    BY <1>2, <2>1, <2>2 DEF MustHeld
<1> QED
  BY <1>3, <1>4
-----------------------------------------------------------------------------
(* The admin tools *)

LEMMA MustElsewhere == op' \notin {"copy", "manifest"} => MustHeld'
BY DEF MustHeld

LEMMA BackupCheckpointKeeps ==
    ASSUME JournalInv, JournalTypeOK', BackupCheckpoint
    PROVE  (calm' => CalmInv') /\ MustHeld'
<1>1. JournalTypeOK /\ (calm => CalmInv)
  BY DEF JournalInv
<1>2. /\ Len(mains) \in Nat /\ Len(wals) \in Nat /\ wal \in 0..Len(wals) /\ main \in 1..Len(mains)
      /\ mains \in Seq(Image) /\ wals \in Seq(Seq(Frame)) /\ Journal \in Image
  BY <1>1, ViewsAreImages DEF JournalTypeOK, FileTypes
<1>3. mains'[main'] = Journal /\ main' = main
  BY <1>2 DEF BackupCheckpoint
<1>4. Frames(wal)' = << >>
  <2>1. wal' \in {0, wal} /\ (wal # 0 => wals'[wal] = << >>)
    BY <1>2 DEF BackupCheckpoint
  <2> QED
    BY <2>1 DEF Frames
<1>5. Journal' = Journal
  BY <1>2, <1>3, <1>4, RecoverEmpty DEF Journal
<1>6. op = "idle" /\ op' = "copy" /\ page' = 1 /\ calm' = calm /\ truth' = truth /\ conn' = conn
      /\ backup' = backup /\ must' = IF calm THEN truth ELSE {}
  BY DEF BackupCheckpoint
<1>7. ASSUME calm
      PROVE  OneJournal' /\ Journal = ImageOf(truth)
  <2>1. OneJournal /\ Journal = ImageOf(truth)
    BY <1>1, <1>6, <1>7 DEF CalmInv, HoldsTruth, Torn
  <2>2. wal' = wal \/ Connected = {}
    BY <2>1 DEF BackupCheckpoint, OneJournal, OnMain
  <2> QED
    BY <1>3, <1>6, <2>1, <2>2 DEF OneJournal, Connected
<1>8. \A g \in Pages : ~(g < 1)
  BY FilesFacts
<1>9. ASSUME calm' PROVE CalmInv'
  <2>1. OneJournal' /\ Journal = ImageOf(truth) /\ CalmInv
    BY <1>1, <1>6, <1>7, <1>9
  <2>2. IsWhole(mains'[main'])
    BY <1>1, <1>3, <2>1 DEF IsWhole, JournalTypeOK, GhostTypes
  <2>3. BackupsWhole'
    BY <1>6, <1>8, <2>1, <2>2 DEF BackupsWhole, CalmInv
  <2>4. HoldsTruth'
    BY <1>4, <1>5, <1>6, <2>1 DEF HoldsTruth, FramesAbove
  <2>5. Alone' /\ Restoring' /\ SeenIsBelow'
    BY <1>6 DEF Alone, Replacing, Restoring, SeenIsBelow, Seeing, WithWal, WithCopy
  <2> QED
    BY <2>1, <2>3, <2>4, <2>5 DEF CalmInv
<1>10. MustHeld'
  <2>1. must' # {} => OneJournal'
    BY <1>6, <1>7
  <2>2. ASSUME NEW t \in must', NEW g \in Touches[t]
        PROVE  Kept(t, g)' /\ ~(g < page')
    <3>1. calm /\ t \in truth
      BY <1>6, <2>2
    <3>2. g \in Pages
      BY <1>1, <3>1, FilesFacts DEF JournalTypeOK, GhostTypes
    <3>3. t \in Journal[g]
      BY <1>7, <3>1, <3>2 DEF ImageOf
    <3> QED
      BY <1>3, <1>4, <1>6, <1>8, <3>2, <3>3 DEF Kept
  <2> QED
    BY <1>6, <2>1, <2>2 DEF MustHeld
<1> QED
  BY <1>9, <1>10

LEMMA BackupCopyKeeps ==
    ASSUME JournalInv, JournalTypeOK', BackupCopy
    PROVE  (calm' => CalmInv') /\ MustHeld'
<1>1. JournalTypeOK /\ (calm => CalmInv) /\ MustHeld
  BY DEF JournalInv
<1>2. /\ op = "copy" /\ page' = page + 1 /\ op' = IF page + 1 \in Pages THEN "copy" ELSE "manifest"
      /\ UNCHANGED <<mains, wals, main, wal, conn, seen, truth, must, calm>>
  BY DEF BackupCopy, files
<1>3. page \in Pages /\ page \in Nat /\ \A g \in Pages : g \in Nat
  BY <1>1, <1>2, FilesFacts DEF JournalTypeOK, AdminTypes
<1>4. /\ backup'.manifest = backup.manifest /\ backup'.image \in Image
      /\ \A g \in Pages : g < page => backup'.image[g] = backup.image[g]
      /\ backup'.image[page] = mains[main][page]
  <2>1. backup \in [image : Image, manifest : Image \cup {None}]
    BY <1>1 DEF JournalTypeOK, AdminTypes
  <2> DEFINE copied == [g \in Pages |-> IF g < page THEN backup.image[g] ELSE IF g = page THEN mains[main][g] ELSE {}]
  <2>2. backup' = [backup EXCEPT !.image = copied]
    BY DEF BackupCopy
  <2>3. /\ \A g \in Pages : g < page => copied[g] = backup.image[g]
        /\ copied[page] = mains[main][page]
    BY <1>3
  <2> HIDE DEF copied
  <2>4. backup'.image = copied /\ backup'.manifest = backup.manifest
    BY <2>1, <2>2
  <2>5. backup'.image \in Image
    BY DEF JournalTypeOK, AdminTypes
  <2>6. ASSUME NEW g \in Pages
        PROVE  g < page => backup'.image[g] = backup.image[g]
    BY <2>3, <2>4
  <2> QED
    BY <2>3, <2>4, <2>5, <2>6
<1>5. \A g \in Pages : page + 1 \notin Pages => g <= page
  BY <1>3, FilesFacts
<1>6. ASSUME calm' PROVE CalmInv'
  <2>1. CalmInv
    BY <1>1, <1>2, <1>6
  <2>2. IsWhole(mains[main]) /\ \A g \in Pages : g < page => backup.image[g] = mains[main][g]
    BY <1>2, <2>1 DEF CalmInv, BackupsWhole
  <2>3. \A g \in Pages : g < page' => backup'.image[g] = mains[main][g]
    BY <1>2, <1>3, <1>4, <2>2
  <2>4. op' = "manifest" => backup'.image = mains[main]
    <3>1. op' = "manifest" => \A g \in Pages : backup'.image[g] = mains[main][g]
      <4> SUFFICES ASSUME op' = "manifest", NEW g \in Pages PROVE backup'.image[g] = mains[main][g]
        OBVIOUS
      <4>1. page + 1 \notin Pages
        BY <1>2
      <4>2. g < page'
        BY <1>2, <1>3, <1>5, <4>1
      <4> QED
        BY <2>3, <4>2
    <3>2. mains[main] \in Image
      BY <1>1, ViewsAreImages
    <3> QED
      BY <1>4, <3>1, <3>2 DEF Image
  <2>5. BackupsWhole'
    BY <1>2, <1>4, <2>1, <2>2, <2>3, <2>4 DEF CalmInv, BackupsWhole
  <2>6. Alone' /\ OneJournal' /\ Restoring' /\ SeenIsBelow'
    BY <1>2, <2>1 DEF CalmInv, Alone, OneJournal, Replacing, Restoring, SeenIsBelow, Seeing,
                      WithWal, WithCopy, Connected
  <2>7. HoldsTruth'
    BY <1>2, <2>1 DEF CalmInv, HoldsTruth, Torn, Journal, FramesAbove, Frames
  <2> QED
    BY <2>5, <2>6, <2>7 DEF CalmInv
<1>7. MustHeld'
  <2>1. must # {} => OneJournal'
    BY <1>1, <1>2 DEF MustHeld, OneJournal, Connected
  <2>2. ASSUME NEW t \in must, NEW g \in Touches[t]
        PROVE  Kept(t, g)' /\ (g < page' => t \in backup'.image[g])
    <3>1. Kept(t, g) /\ (g < page => t \in backup.image[g])
      BY <1>1, <1>2 DEF MustHeld
    <3>2. g \in Pages
      BY <1>1, FilesFacts DEF JournalTypeOK, GhostTypes
    <3>3. Kept(t, g)'
      BY <1>2, <3>1 DEF Kept, Frames
    <3>4. g < page' => g < page \/ g = page
      BY <1>2, <1>3, <3>2
    <3>5. g = page => t \in backup'.image[g]
      BY <1>4, <3>1, <3>2 DEF Kept
    <3>6. g < page => t \in backup'.image[g]
      BY <1>4, <3>1, <3>2
    <3> QED
      BY <3>3, <3>4, <3>5, <3>6
  <2>3. op' = "manifest" => \A t \in must : \A g \in Touches[t] : g < page'
    <3>1. \A t \in must : Touches[t] \subseteq Pages
      BY <1>1, FilesFacts DEF JournalTypeOK, GhostTypes
    <3> SUFFICES ASSUME op' = "manifest", NEW t \in must, NEW g \in Touches[t] PROVE g < page'
      OBVIOUS
    <3>2. page + 1 \notin Pages /\ g \in Pages
      BY <1>2, <3>1
    <3> QED
      BY <1>2, <1>3, <1>5, <3>2
  <2> QED
    BY <1>2, <2>1, <2>2, <2>3 DEF MustHeld
<1> QED
  BY <1>6, <1>7

LEMMA BackupManifestKeeps ==
    ASSUME JournalInv, JournalTypeOK', BackupManifest
    PROVE  (calm' => CalmInv') /\ MustHeld'
<1>1. JournalTypeOK /\ (calm => CalmInv)
  BY DEF JournalInv
<1>2. /\ op = "manifest" /\ op' = "idle" /\ backup'.image = backup.image /\ backup'.manifest = backup.image
      /\ UNCHANGED <<mains, wals, main, wal, conn, seen, truth, must, calm>>
  BY <1>1 DEF BackupManifest, files, JournalTypeOK, AdminTypes
<1>3. ASSUME calm' PROVE CalmInv'
  <2>1. CalmInv
    BY <1>1, <1>2, <1>3
  <2>2. BackupsWhole'
    BY <1>2, <2>1 DEF CalmInv, BackupsWhole
  <2>3. Alone' /\ OneJournal' /\ Restoring' /\ SeenIsBelow'
    BY <1>2, <2>1 DEF CalmInv, Alone, OneJournal, Replacing, Restoring, SeenIsBelow, Seeing,
                      WithWal, WithCopy, Connected
  <2>4. HoldsTruth'
    BY <1>2, <2>1 DEF CalmInv, HoldsTruth, Torn, Journal, FramesAbove, Frames
  <2> QED
    BY <2>2, <2>3, <2>4 DEF CalmInv
<1> QED
  BY <1>2, <1>3, MustElsewhere

LEMMA RestoreVerifyKeeps ==
    ASSUME JournalInv, JournalTypeOK', RestoreVerify
    PROVE  (calm' => CalmInv') /\ MustHeld'
<1>1. JournalTypeOK /\ (calm => CalmInv)
  BY DEF JournalInv
<1>2. /\ op = "idle" /\ op' = "restore" /\ page' = 1
      /\ calm' = (calm /\ Connected = {} /\ wal = 0)
      /\ UNCHANGED <<mains, wals, main, wal, conn, backup, seen, truth, must>>
  BY DEF RestoreVerify, files
<1>3. ASSUME calm' PROVE CalmInv'
  <2>1. CalmInv /\ Connected = {} /\ wal = 0
    BY <1>1, <1>2, <1>3
  <2>2. BackupsWhole' /\ SeenIsBelow' /\ Alone' /\ OneJournal'
    BY <1>2, <2>1 DEF CalmInv, BackupsWhole, SeenIsBelow, Alone, OneJournal, Connected, Seeing, WithWal, WithCopy
  <2>3. Restoring'
    BY <1>2, <2>1, FilesFacts DEF Restoring
  <2>4. HoldsTruth'
    BY <1>2, <2>1 DEF CalmInv, HoldsTruth, Torn, Journal, FramesAbove, Frames
  <2> QED
    BY <2>2, <2>3, <2>4 DEF CalmInv
<1> QED
  BY <1>2, <1>3, MustElsewhere

\* The union of the pages of a whole image is the transactions it holds.
LEMMA WholeIsItsPages ==
    ASSUME NEW image, IsWhole(image)
    PROVE  image = ImageOf(UNION {image[g] : g \in Pages})
<1>1. PICK T \in SUBSET Txns : image = ImageOf(T)
  BY DEF IsWhole
<1>2. \A g \in Pages : image[g] = {t \in T : g \in Touches[t]}
  BY <1>1 DEF ImageOf
<1>3. UNION {image[g] : g \in Pages} = T
  <2>1. \A t \in T : \E g \in Pages : g \in Touches[t]
    BY FilesFacts
  <2>2. \A t \in T : \E g \in Pages : t \in image[g]
    BY <1>2, <2>1
  <2>3. \A g \in Pages : image[g] \subseteq T
    BY <1>2
  <2> QED
    BY <2>2, <2>3
<1> QED
  BY <1>1, <1>3

LEMMA RestoreCopyKeeps ==
    ASSUME JournalInv, JournalTypeOK', RestoreCopy
    PROVE  (calm' => CalmInv') /\ MustHeld'
<1>1. JournalTypeOK /\ JournalTypeOK' /\ (calm => CalmInv)
  BY DEF JournalInv
<1>2. /\ op = "restore" /\ page' = page + 1 /\ op' = IF page + 1 \in Pages THEN "restore" ELSE "idle"
      /\ UNCHANGED <<wals, main, wal, conn, backup, seen, must, calm>>
      /\ truth' = IF page + 1 \in Pages THEN truth ELSE UNION {backup.manifest[g] : g \in Pages}
  BY DEF RestoreCopy
<1>3. page \in Pages /\ page \in Nat /\ page >= 1 /\ \A g \in Pages : g \in Nat
  BY <1>1, <1>2, FilesFacts DEF JournalTypeOK, AdminTypes
<1>4. /\ mains'[main'] \in Image
      /\ \A g \in Pages : g < page => mains'[main'][g] = mains[main][g]
      /\ mains'[main'][page] = backup.image[page]
  <2> DEFINE copied == [g \in Pages |-> IF g < page THEN mains[main][g] ELSE IF g = page THEN backup.image[g] ELSE {}]
  <2>1. mains' = [mains EXCEPT ![main] = copied]
    BY DEF RestoreCopy
  <2>2. mains \in Seq(Image) /\ main \in 1..Len(mains)
    BY <1>1 DEF JournalTypeOK, FileTypes
  <2>3. /\ \A g \in Pages : g < page => copied[g] = mains[main][g]
        /\ copied[page] = backup.image[page]
    BY <1>3
  <2> HIDE DEF copied
  <2>4. mains'[main'] = copied
    BY <1>2, <2>1, <2>2
  <2>5. mains' \in Seq(Image) /\ main' \in 1..Len(mains')
    BY <1>1 DEF JournalTypeOK, FileTypes
  <2>6. mains'[main'] \in Image
    BY <2>5
  <2>7. ASSUME NEW g \in Pages
        PROVE  g < page => mains'[main'][g] = mains[main][g]
    BY <2>3, <2>4
  <2> QED
    BY <2>3, <2>4, <2>6, <2>7
<1>5. \A g \in Pages : page + 1 \notin Pages => g <= page
  BY <1>3, FilesFacts
<1>6. ASSUME calm' PROVE CalmInv'
  <2>1. CalmInv /\ wal = 0 /\ \A g \in Pages : g < page => mains[main][g] = backup.image[g]
    BY <1>1, <1>2, <1>6 DEF CalmInv, Restoring
  <2>2. \A g \in Pages : g < page' => mains'[main'][g] = backup.image[g]
    BY <1>2, <1>3, <1>4, <2>1
  <2>3. BackupsWhole' /\ SeenIsBelow' /\ Alone' /\ OneJournal'
    BY <1>2, <2>1 DEF CalmInv, BackupsWhole, SeenIsBelow, Alone, Replacing, OneJournal, Connected,
                      Seeing, WithWal, WithCopy
  <2>4. Restoring'
    BY <1>2, <2>1, <2>2 DEF Restoring
  <2>5. Frames(wal)' = << >>
    BY <1>2, <2>1 DEF Frames
  <2>6. op' = "idle" => Journal' = ImageOf(truth')
    <3> SUFFICES ASSUME op' = "idle" PROVE Journal' = ImageOf(truth')
      OBVIOUS
    <3>1. page + 1 \notin Pages
      BY <1>2
    <3>2. backup.manifest = backup.image /\ backup.image \in Image /\ backup.manifest # None
      BY <1>1, <1>2, NoneAssumption DEF JournalTypeOK, AdminTypes
    <3>3. \A g \in Pages : mains'[main'][g] = backup.manifest[g]
      BY <1>2, <1>3, <1>5, <2>2, <3>1, <3>2
    <3>4. mains'[main'] = backup.manifest
      BY <1>4, <3>2, <3>3 DEF Image
    <3>5. IsWhole(backup.manifest)
      BY <2>1, <3>2 DEF CalmInv, BackupsWhole
    <3>6. backup.manifest = ImageOf(truth')
      BY <1>2, <3>1, <3>5, WholeIsItsPages
    <3>7. Journal' = mains'[main']
      BY <1>4, <2>5, RecoverEmpty DEF Journal
    <3> QED
      BY <3>4, <3>6, <3>7
  <2>7. HoldsTruth'
    BY <1>2, <1>3, <2>5, <2>6 DEF HoldsTruth, Torn, FramesAbove
  <2> QED
    BY <2>3, <2>4, <2>7 DEF CalmInv
<1> QED
  BY <1>2, <1>6, MustElsewhere
\* A step of import.commit that leaves the files alone keeps what is said of them.
LEMMA ImportApart ==
    ASSUME CalmInv, ~Torn, UNCHANGED <<mains, wals, main, wal, conn, backup, truth>>,
           op' \notin {"copy", "manifest", "restore", "unlink"},
           Alone', SeenIsBelow'
    PROVE  CalmInv'
<1>1. BackupsWhole' /\ OneJournal' /\ Restoring'
  BY DEF CalmInv, BackupsWhole, OneJournal, Connected, Restoring
<1>2. HoldsTruth'
  BY DEF CalmInv, HoldsTruth, Journal, FramesAbove, Frames
<1> QED
  BY <1>1, <1>2 DEF CalmInv

LEMMA ImportReadKeeps ==
    ASSUME JournalInv, JournalTypeOK', ImportRead
    PROVE  (calm' => CalmInv') /\ MustHeld'
<1>1. JournalTypeOK /\ (calm => CalmInv) /\ JournalTypeOK'
  BY DEF JournalInv
<1>2. /\ UNCHANGED <<mains, wals, main, wal, conn, backup, truth, calm>>
      /\ op \in {"idle", "read wal", "copy main", "copy wal"}
      /\ op' \in {"read wal", "copy main", "copy wal", "check main"}
  BY DEF ImportRead, files
<1>3. ASSUME calm' PROVE CalmInv'
  <2>1. CalmInv /\ ~Torn /\ Alone'
    BY <1>1, <1>2, <1>3 DEF Torn, Alone, Replacing
  <2>2. Journal' = Journal
    BY <1>2 DEF Journal, Frames
  <2>3. /\ Frames(wal) \in Seq(Frame) /\ mains[main] \in Image /\ Journal = Recover(mains[main], Frames(wal))
    BY <1>1, ViewsAreImages DEF Journal
  <2>4. SeenIsBelow /\ FramesAbove
    BY <2>1 DEF CalmInv, HoldsTruth
  <2>5. seen \in [main : Image \cup {None}, wal : Seq(Frame) \cup {None}, staged : Image \cup {None}]
    BY <1>1 DEF JournalTypeOK, AdminTypes
  <2>6. CASE op = "idle"
    <3>1. op' = "read wal" /\ seen'.main = mains[main]
      BY <2>6 DEF ImportRead, NotSeen
    <3>2. Below(mains[main], mains[main])
      BY DEF Below
    <3>3. SeenIsBelow'
      BY <1>2, <3>1, <3>2 DEF SeenIsBelow, Seeing, WithWal, WithCopy
    <3> QED
      BY <1>2, <2>1, <3>3, ImportApart
  <2>7. CASE op = "read wal"
    <3>1. op' = "copy main" /\ seen'.main = seen.main /\ seen'.wal = WalBytes
      BY <2>5, <2>7 DEF ImportRead
    <3>2. seen.main \in Image /\ Below(seen.main, mains[main])
      BY <1>1, <2>4, <2>7 DEF JournalTypeOK, AdminTypes, Seeing, SeenIsBelow
    <3>3. Read' = Recover(seen.main, Frames(wal))
      <4>1. wal # 0 => wals[wal] # None
        BY <2>3, NoneAssumption DEF Frames
      <4> QED
        BY <3>1, <4>1 DEF Read, WalBytes, Frames
    <3>4. Below(Read', Journal')
      BY <2>2, <2>3, <3>2, <3>3, RecoverGrows
    <3>5. SeenIsBelow'
      BY <1>2, <3>1, <3>2, <3>4 DEF SeenIsBelow, Seeing, WithWal, WithCopy
    <3> QED
      BY <1>2, <2>1, <3>5, ImportApart
  <2>8. CASE op = "copy main"
    <3>1. op' = "copy wal" /\ seen'.main = seen.main /\ seen'.wal = seen.wal /\ seen'.staged = mains[main]
      BY <2>5, <2>8 DEF ImportRead
    <3>2. Below(seen.main, mains[main]) /\ Below(Read, Journal) /\ Read' = Read
      BY <2>4, <2>8, <3>1 DEF Seeing, WithWal, SeenIsBelow, Read
    <3>3. Below(mains[main], mains[main])
      BY DEF Below
    <3>4. SeenIsBelow'
      BY <1>2, <2>2, <3>1, <3>2, <3>3 DEF SeenIsBelow, Seeing, WithWal, WithCopy
    <3> QED
      BY <1>2, <2>1, <3>4, ImportApart
  <2>9. CASE op = "copy wal"
    <3>1. /\ op' = "check main" /\ seen'.main = seen.main /\ seen'.wal = seen.wal
          /\ seen'.staged = Recover(seen.staged, Frames(wal))
      BY <2>5, <2>9 DEF ImportRead
    <3>2. /\ Below(seen.main, mains[main]) /\ Below(Read, Journal) /\ Read' = Read
          /\ Below(seen.main, seen.staged) /\ Below(seen.staged, mains[main])
      BY <2>4, <2>9, <3>1 DEF Seeing, WithWal, SeenIsBelow, Read
    <3>3. seen.main = mains[main] => seen.staged = mains[main]
      <4>1. seen.staged \in Image
        BY <1>1, <2>9 DEF JournalTypeOK, AdminTypes
      <4>2. seen.main = mains[main] => \A g \in Pages : seen.staged[g] = mains[main][g]
        BY <3>2 DEF Below
      <4> QED
        BY <2>3, <4>1, <4>2 DEF Image
    <3>4. seen'.main = mains'[main'] => seen'.staged = Journal
      BY <1>2, <2>3, <3>1, <3>3
    <3>5. Added' = Blank
      BY <3>1 DEF Added
    <3>6. Below(Merged(Read, Blank), Journal) /\ Below(Journal, Merged(Journal, Blank))
      BY <3>2 DEF Below, Merged, Blank
    <3>7. Merged(Read, Added)' = Merged(Read, Blank) /\ Merged(Journal, Added)' = Merged(Journal, Blank)
      BY <2>2, <3>2, <3>5 DEF Merged
    <3>8. SeenIsBelow'
      BY <1>2, <2>2, <3>1, <3>2, <3>4, <3>6, <3>7 DEF SeenIsBelow, Seeing, WithWal, WithCopy
    <3> QED
      BY <1>2, <2>1, <3>8, ImportApart
  <2> QED
    BY <1>2, <2>6, <2>7, <2>8, <2>9
<1> QED
  BY <1>2, <1>3, MustElsewhere

LEMMA ImportRecheckKeeps ==
    ASSUME JournalInv, JournalTypeOK', ImportRecheck
    PROVE  (calm' => CalmInv') /\ MustHeld'
<1>1. JournalTypeOK /\ (calm => CalmInv)
  BY DEF JournalInv
<1>2. /\ UNCHANGED <<mains, wals, main, wal, conn, backup, truth, seen>>
      /\ op \in {"check main", "check wal", "recheck main", "recheck wal"}
      /\ op' \in {"idle", "check wal", "stage", "recheck wal", "replace"}
      /\ calm' = (calm /\ ~(op = "recheck main" /\ Connected # {}))
  BY DEF ImportRecheck, files
<1>3. ASSUME calm' PROVE CalmInv'
  <2>1. CalmInv /\ ~Torn
    BY <1>1, <1>2, <1>3 DEF Torn
  <2>2. Alone'
    <3>1. op' \in {"recheck wal", "replace"} => op \in {"recheck main", "recheck wal"}
      BY DEF ImportRecheck
    <3>2. op = "recheck wal" => Connected = {}
      BY <2>1 DEF CalmInv, Alone, Replacing
    <3> QED
      BY <1>2, <1>3, <3>1, <3>2 DEF Alone, Replacing, Connected
  <2>3. /\ op' = "recheck wal" => mains[main] = seen.main
        /\ op' = "replace" => op = "recheck wal" /\ WalBytes = seen.wal
    BY DEF ImportRecheck
  <2>4. SeenIsBelow
    BY <2>1 DEF CalmInv
  <2>5. Journal' = Journal /\ Read' = Read /\ WalBytes' = WalBytes
    BY <1>2 DEF Journal, Frames, Read, WalBytes
  <2>6. op' # "idle" => Added' = Added
    BY DEF Added, ImportRecheck
  <2>7. op' # "idle" => Merged(Read, Added)' = Merged(Read, Added) /\ Merged(Journal, Added)' = Merged(Journal, Added)
    BY <2>5, <2>6 DEF Merged
  <2>8. SeenIsBelow'
    <3>1. op' = "replace" => mains[main] = seen.main
      BY <2>3, <2>4 DEF SeenIsBelow
    <3> HIDE DEF Read, Added, Merged
    <3>2. CASE op' = "idle"
      BY <3>2 DEF SeenIsBelow, Seeing, WithWal, WithCopy
    <3>3. CASE op' # "idle"
      BY <1>2, <2>3, <2>4, <2>5, <2>7, <3>1, <3>3 DEF SeenIsBelow, Seeing, WithWal, WithCopy
    <3> QED
      BY <3>2, <3>3
  <2> QED
    BY <1>2, <2>1, <2>2, <2>8, ImportApart
<1> QED
  BY <1>2, <1>3, MustElsewhere

LEMMA ImportStageKeeps ==
    ASSUME JournalInv, JournalTypeOK', ImportStage
    PROVE  (calm' => CalmInv') /\ MustHeld'
<1>1. JournalTypeOK /\ (calm => CalmInv)
  BY DEF JournalInv
<1>2. /\ UNCHANGED <<mains, wals, main, wal, conn, backup, truth, calm>>
      /\ op = "stage" /\ op' \in {"idle", "recheck main"}
  BY DEF ImportStage, files
<1>3. ASSUME calm' PROVE CalmInv'
  <2>1. CalmInv /\ ~Torn /\ Alone'
    BY <1>1, <1>2, <1>3 DEF Torn, Alone, Replacing
  <2>2. SeenIsBelow'
    <3>1. CASE op' = "idle"
      BY <3>1 DEF SeenIsBelow, Seeing, WithWal, WithCopy
    <3>2. CASE op' = "recheck main"
      <4>1. SeenIsBelow
        BY <2>1 DEF CalmInv
      <4>2. seen \in [main : Image \cup {None}, wal : Seq(Frame) \cup {None}, staged : Image \cup {None}]
        BY <1>1 DEF JournalTypeOK, AdminTypes
      <4>3. seen' = [seen EXCEPT !.staged = [g \in Pages |-> @[g] \cup ImageOf(Imported)[g]]]
        BY <3>2 DEF ImportStage
      <4>4. /\ seen'.main = seen.main /\ seen'.wal = seen.wal
            /\ \A g \in Pages : seen'.staged[g] = seen.staged[g] \cup ImageOf(Imported)[g]
        BY <4>2, <4>3
      <4>5. Journal' = Journal /\ Read' = Read
        BY <1>2, <4>4 DEF Journal, Frames, Read
      <4>6. Added = Blank /\ Added' = ImageOf(Imported)
        BY <1>2, <3>2 DEF Added
      <4>7. /\ Merged(Read, Added)' = Merged(Read, ImageOf(Imported))
            /\ Merged(Journal, Added)' = Merged(Journal, ImageOf(Imported))
        BY <4>5, <4>6 DEF Merged
      <4>8. mains[main] = seen.main =>
              /\ Below(Merged(Read, Added)', seen'.staged)
              /\ Below(seen'.staged, Merged(Journal, Added)')
        <5>1. mains[main] = seen.main =>
                Below(Merged(Read, Blank), seen.staged) /\ Below(seen.staged, Merged(Journal, Blank))
          BY <1>2, <4>1, <4>6 DEF SeenIsBelow, WithCopy
        <5> HIDE DEF ImageOf
        <5> QED
          BY <4>4, <4>7, <5>1 DEF Below, Merged, Blank
      <4>9. Below(seen.main, mains[main]) /\ Below(Read, Journal)
        BY <1>2, <4>1 DEF SeenIsBelow, Seeing, WithWal
      <4> HIDE DEF Read, Added, Merged
      <4> QED
        BY <1>2, <3>2, <4>4, <4>5, <4>8, <4>9 DEF SeenIsBelow, Seeing, WithWal, WithCopy
    <3> QED
      BY <1>2, <3>1, <3>2
  <2> QED
    BY <1>2, <2>1, <2>2, ImportApart
<1> QED
  BY <1>2, <1>3, MustElsewhere

LEMMA ImportReplaceKeeps ==
    ASSUME JournalInv, JournalTypeOK', ImportReplace
    PROVE  (calm' => CalmInv') /\ MustHeld'
<1>1. JournalTypeOK /\ (calm => CalmInv)
  BY DEF JournalInv
<1>2. /\ op = "replace" /\ op' = "unlink" /\ truth' = truth \cup Imported
      /\ mains' = Append(mains, seen.staged) /\ main' = Len(mains) + 1
      /\ UNCHANGED <<wals, wal, conn, backup, seen, calm>>
  BY DEF ImportReplace
<1>3. ASSUME calm' PROVE CalmInv'
  <2>1. CalmInv /\ ~Torn
    BY <1>1, <1>2, <1>3 DEF Torn
  <2>2. Connected = {} /\ Alone' /\ OneJournal' /\ BackupsWhole'
    BY <1>2, <2>1 DEF CalmInv, Alone, Replacing, OneJournal, Connected, BackupsWhole
  <2>3. mains[main] = seen.main /\ WalBytes = seen.wal /\ Journal = ImageOf(truth)
    BY <1>2, <2>1 DEF CalmInv, SeenIsBelow, HoldsTruth
  <2>4. Below(Merged(Read, Added), seen.staged) /\ Below(seen.staged, Merged(Journal, Added))
    BY <1>2, <2>1, <2>3 DEF CalmInv, SeenIsBelow, WithCopy
  <2>5. Read = Journal
    <3>1. Frames(wal) \in Seq(Frame)
      BY <1>1, ViewsAreImages
    <3>2. wal # 0 => wals[wal] # None
      BY <3>1, NoneAssumption DEF Frames
    <3> QED
      BY <2>3, <3>2 DEF Read, WalBytes, Journal, Frames
  <2>6. \A g \in Pages : seen.staged[g] = Journal[g] \cup ImageOf(Imported)[g]
    <3>1. Added = ImageOf(Imported)
      BY <1>2 DEF Added
    <3> HIDE DEF ImageOf
    <3> QED
      BY <2>4, <2>5, <3>1 DEF Below, Merged
  <2>7. seen.staged \in Image
    BY <1>1, <1>2 DEF JournalTypeOK, AdminTypes, WithCopy
  <2>8. seen.staged = ImageOf(truth')
    <3>1. \A g \in Pages : seen.staged[g] = ImageOf(truth')[g]
      BY <1>2, <2>3, <2>6 DEF ImageOf
    <3> QED
      BY <2>7, <3>1 DEF Image, ImageOf
  <2>9. mains \in Seq(Image)
    BY <1>1 DEF JournalTypeOK, FileTypes
  <2>10. mains'[main'] = ImageOf(truth')
    BY <1>2, <2>7, <2>8, <2>9
  <2>11. Restoring' /\ SeenIsBelow'
    BY <1>2, <2>10 DEF Restoring, SeenIsBelow, Seeing, WithWal, WithCopy
  <2>12. HoldsTruth'
    <3> SUFFICES ASSUME wal = 0 PROVE Journal' = ImageOf(truth') /\ FramesAbove'
      BY <1>2 DEF HoldsTruth, Torn
    <3>1. Frames(wal)' = << >>
      BY <1>2 DEF Frames
    <3>2. ImageOf(truth') \in Image
      BY <2>7, <2>8
    <3>3. Journal' = ImageOf(truth')
      BY <2>10, <3>1, <3>2, RecoverEmpty DEF Journal
    <3> QED
      BY <3>1, <3>3 DEF FramesAbove
  <2> QED
    BY <2>2, <2>11, <2>12 DEF CalmInv
<1> QED
  BY <1>2, <1>3, MustElsewhere

LEMMA ImportUnlinkKeeps ==
    ASSUME JournalInv, JournalTypeOK', ImportUnlink
    PROVE  (calm' => CalmInv') /\ MustHeld'
<1>1. JournalTypeOK /\ (calm => CalmInv)
  BY DEF JournalInv
<1>2. /\ op = "unlink" /\ op' = "idle" /\ wal' = 0
      /\ UNCHANGED <<mains, wals, main, conn, backup, seen, truth, calm>>
  BY DEF ImportUnlink
<1>3. ASSUME calm' PROVE CalmInv'
  <2>1. CalmInv
    BY <1>1, <1>2, <1>3
  <2>2. Connected = {} /\ mains[main] = ImageOf(truth)
    BY <1>2, <2>1 DEF CalmInv, Alone, Replacing, Restoring
  <2>3. Frames(wal)' = << >>
    BY <1>2 DEF Frames
  <2>4. mains[main] \in Image
    BY <1>1, ViewsAreImages
  <2>5. Journal' = ImageOf(truth')
    BY <1>2, <2>2, <2>3, <2>4, RecoverEmpty DEF Journal
  <2>6. HoldsTruth'
    BY <2>3, <2>5 DEF HoldsTruth, FramesAbove
  <2>7. Alone' /\ OneJournal' /\ Restoring' /\ BackupsWhole' /\ SeenIsBelow'
    BY <1>2, <2>1, <2>2 DEF CalmInv, Alone, Replacing, OneJournal, Connected, Restoring, BackupsWhole,
                            SeenIsBelow, Seeing, WithWal, WithCopy
  <2> QED
    BY <2>6, <2>7 DEF CalmInv
<1> QED
  BY <1>2, <1>3, MustElsewhere

LEMMA AdminCrashKeeps ==
    ASSUME JournalInv, JournalTypeOK', AdminCrash
    PROVE  (calm' => CalmInv') /\ MustHeld'
<1>1. JournalTypeOK /\ (calm => CalmInv)
  BY DEF JournalInv
<1>2. /\ op' = "idle" /\ UNCHANGED <<mains, wals, main, wal, conn, backup, truth, seen>>
      /\ calm' = (calm /\ ~Torn)
  BY DEF AdminCrash, files, Torn
<1>3. ASSUME calm' PROVE CalmInv'
  <2>1. CalmInv /\ ~Torn
    BY <1>1, <1>2, <1>3
  <2>2. Alone' /\ SeenIsBelow'
    BY <1>2 DEF Alone, Replacing, SeenIsBelow, Seeing, WithWal, WithCopy
  <2> QED
    BY <1>2, <2>1, <2>2, ImportApart
<1> QED
  BY <1>2, <1>3, MustElsewhere

-----------------------------------------------------------------------------

LEMMA JournalInit == Init => JournalInv
<1> SUFFICES ASSUME Init PROVE JournalInv
  OBVIOUS
<1>1. JournalTypeOK
  BY TypeInit
<1>2. Frames(wal) = << >> /\ mains[main] = Blank /\ Connected = {} /\ op = "idle" /\ must = {} /\ truth = {}
  BY DEF Init, Frames, Connected
<1>3. Journal = ImageOf(truth)
  BY <1>2, FilesFacts, RecoverEmpty DEF Journal, Blank, ImageOf
<1>4. HoldsTruth /\ Alone /\ OneJournal /\ Restoring /\ MustHeld
  BY <1>2, <1>3 DEF HoldsTruth, FramesAbove, Alone, OneJournal, Restoring, MustHeld
<1>5. BackupsWhole /\ SeenIsBelow
  BY <1>2 DEF Init, BackupsWhole, SeenIsBelow, Seeing, WithWal, WithCopy
<1> QED
  BY <1>1, <1>4, <1>5 DEF JournalInv, CalmInv

LEMMA JournalStep == JournalInv /\ [Next]_vars => JournalInv'
<1> SUFFICES ASSUME JournalInv, [Next]_vars PROVE JournalInv'
  OBVIOUS
<1>1. JournalTypeOK
  BY DEF JournalInv
<1>2. ASSUME NEW p \in Clients,
             Open(p) \/ Begin(p) \/ Commit(p) \/ Rollback(p) \/ Close(p) \/ Crash(p)
      PROVE  JournalInv'
  <2>1. JournalTypeOK'
    BY <1>1, <1>2, ClientTypes
  <2> QED
    BY <1>2, <2>1, ClientKeeps DEF JournalInv
<1>3. CASE Admin
  <2>1. JournalTypeOK'
    BY <1>1, <1>3, AdminTypesStep
  <2>2. (calm' => CalmInv') /\ MustHeld'
    BY <1>3, <2>1, BackupCheckpointKeeps, BackupCopyKeeps, BackupManifestKeeps, RestoreVerifyKeeps,
       RestoreCopyKeeps, ImportReadKeeps, ImportStageKeeps, ImportRecheckKeeps, ImportReplaceKeeps,
       ImportUnlinkKeeps, AdminCrashKeeps DEF Admin
  <2> QED
    BY <2>1, <2>2 DEF JournalInv
<1>4. CASE UNCHANGED vars
  <2>1. /\ UNCHANGED <<mains, wals, main, wal, conn, busy, backup, op, page, seen, truth, must, calm, writes>>
        /\ Connected' = Connected /\ Journal' = Journal /\ Frames(wal)' = Frames(wal) /\ WalBytes' = WalBytes
        /\ Read' = Read /\ Added' = Added /\ Links' = Links /\ Torn' = Torn /\ Replacing' = Replacing
    BY <1>4 DEF vars, Connected, Journal, Frames, WalBytes, Read, Added, Links, Torn, Replacing
  <2>2. Merged(Read, Added)' = Merged(Read, Added) /\ Merged(Journal, Added)' = Merged(Journal, Added)
    BY <2>1 DEF Merged
  <2> HIDE DEF Connected, Journal, Frames, WalBytes, Read, Added, Links, Torn, Replacing, Merged
  <2>3. JournalTypeOK'
    BY <1>1, <2>1 DEF JournalTypeOK, FileTypes, LinkTypes, AdminTypes, GhostTypes
  <2>4. (CalmInv => CalmInv') /\ calm' = calm
    BY <2>1, <2>2 DEF CalmInv, Alone, OneJournal, HoldsTruth, FramesAbove, Restoring, BackupsWhole, SeenIsBelow
  <2>5. MustHeld'
    BY <2>1 DEF JournalInv, MustHeld, OneJournal, Kept
  <2> QED
    BY <2>3, <2>4, <2>5 DEF JournalInv
<1> QED
  BY <1>2, <1>3, <1>4 DEF Next

\* After any number of backups, restores, imports, commits, closes and deaths, the
\* journal holds exactly what it should while the three conditions of the property were
\* met, and a backup holds all that was committed when it began (journal.backup,
\* journal.restore, import.commit(single)).
THEOREM JournalStaysTrue == Spec => []JournalIsTruth
<1>1. JournalInv => JournalIsTruth
  <2> SUFFICES ASSUME JournalInv PROVE JournalIsTruth
    OBVIOUS
  <2>1. calm /\ op # "restore" /\ ~(op = "unlink" /\ wal # 0) => Journal = ImageOf(truth)
    BY DEF JournalInv, CalmInv, HoldsTruth, Torn
  <2>2. op = "manifest" => \A t \in must : \A g \in Touches[t] : t \in backup.image[g]
    BY DEF JournalInv, MustHeld
  <2> QED
    BY <2>1, <2>2 DEF JournalIsTruth
<1> QED
  BY JournalInit, JournalStep, <1>1, PTL DEF Spec
=============================================================================
