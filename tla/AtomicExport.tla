---------------------------- MODULE AtomicExport ----------------------------
(***************************************************************************)
(* What the JSONL export promises: a file appears under its final name     *)
(* whole or not at all, it never disappears or shrinks again, an outbox    *)
(* row is settled only after its file is there, and a file appears only    *)
(* after each elder event has its own or was given up for now              *)
(* ("Ordered by event_id ASC so parent rows are emitted before children",  *)
(* exporter.py, _read_outbox_pending).                                     *)
(***************************************************************************)
EXTENDS Naturals

CONSTANT Events   \* event ids, in the order of the log

VARIABLES files,   \* events whose whole line stands under its final name
          done,    \* events whose outbox row is 'exported'
          failed   \* events whose outbox row is 'failed'

Init == files = {} /\ done = {} /\ failed = {}

Publish(e) ==
    /\ \A d \in Events : d < e => d \in files \cup failed
    /\ files' = files \cup {e}
    /\ UNCHANGED <<done, failed>>

Settle(e) ==
    /\ e \in files
    /\ done' = done \cup {e} /\ failed' = failed \ {e}
    /\ UNCHANGED files

GiveUp(e) == e \notin done /\ failed' = failed \cup {e} /\ UNCHANGED <<files, done>>

Next == \E e \in Events : Publish(e) \/ Settle(e) \/ GiveUp(e)

Spec == Init /\ [][Next]_<<files, done, failed>>
=============================================================================
