------------------------------ MODULE MCJsonl ------------------------------
(* Instances of OutboxDrain and of Imports, the two ends of the JSONL files, run one *)
(* at a time. *)
EXTENDS MCOutboxDrain, MCImports

MCInit == Init /\ ImportsInit
MCNext ==
    \/ ImportsInit /\ Next /\ UNCHANGED importVars
    \/ Init /\ ImportsNext /\ UNCHANGED vars
MCSpec == MCInit /\ [][MCNext]_<<vars, importVars>>

JsonlSymmetry == DrainSymmetry \cup Permutations(Importers)
=============================================================================
