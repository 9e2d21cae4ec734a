--------------------------- MODULE ExactlyOnceLog ---------------------------
(***************************************************************************)
(* What the journal promises its agents, whatever processes, locks,        *)
(* retries and crashes lie in between: one append-only log to which a call *)
(* adds all its events at once or none, a keyed call at most once; and     *)
(* answers that are true of the log at the moment they are given.          *)
(***************************************************************************)
EXTENDS ToolCall

VARIABLES log,      \* the events, indexed by id
          answers   \* [call, send, env] records the agents have received

Init == log = << >> /\ answers = {}

\* All the events of one execution of c, about ledger row r.
Unit(c, r) ==
    IF c.type \in CascadeTypes 
    THEN <<PrimaryEvent(c, r), CascadeEvent(c, r)>>
    ELSE <<PrimaryEvent(c, r)>>

Record(c) ==
    /\ Accepted(c) /\ ~c.dry
    /\ Matching(log, c) = {}
    /\ \E r \in 1..(Len(log) + 1) : log' = log \o Unit(c, r)
    /\ UNCHANGED answers

\* ok names an event that says what the call said; a conflict names a key
\* whose event says something else; any other error promises nothing.  A dry
\* run answers with ids that may never exist.
Truthful(c, env) ==
    CASE env.code = "ok" ->
             c.dry \/ (env.id \in DOMAIN log /\ Says(log[env.id], c))
      [] env.code = "IDEMPOTENCY_CONFLICT" ->
             \E i \in Matching(log, c) : log[i].shape # c.shape
      [] OTHER -> TRUE

\* An answer that claims to have written (meta.idempotent_replay is not set) is the
\* only one to claim its event: a lost answer and its retry are told apart.
Claims(a) == a.env.code = "ok" /\ ~a.env.replay /\ ~a.call.dry

Deliver(a) ==
    /\ Truthful(a.call, a.env)
    /\ Claims(a) => \A b \in answers \ {a} : Claims(b) => b.env.id # a.env.id
    /\ answers' = answers \cup {a}
    /\ UNCHANGED log

Next ==
    \/ \E c \in Calls : Record(c)
    \/ \E a \in answers' : Deliver(a)

Spec == Init /\ [][Next]_<<log, answers>>
=============================================================================
