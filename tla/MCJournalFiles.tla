--------------------------- MODULE MCJournalFiles ---------------------------
(* Instances of JournalFiles and of Storage: what the admin tools do to the files, *)
(* and what two processes write inside them, are run one at a time. *)
EXTENDS JournalFiles, Storage, TLC

TwoPages == {1, 2}
\* A write to both pages, one to the second, and the imported one to both.
TwoWrites == <<{1, 2}, {2}, {1, 2}>>
Third == {3}

\* Five migrations stand for the thirty-six.
SomeMarks == {1, 2, 5}
SomeAgain == {1, 4}

MCInit == Init /\ StorageInit
MCNext ==
    \/ disk.version = Latest /\ StorageInit /\ Next /\ UNCHANGED storageVars
    \/ Init /\ StorageNext /\ UNCHANGED vars
MCSpec == MCInit /\ [][MCNext]_<<vars, storageVars>>

MCSymmetry == Permutations(Clients) \cup Permutations(Processes) \cup Permutations(Forecasts)
=============================================================================
