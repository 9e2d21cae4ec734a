------------------------------ MODULE ToolCall ------------------------------
(***************************************************************************)
(* What a write tool call is to the event log: its event type, actor,      *)
(* idempotency key and the structural fields of its payload ("shape"), and *)
(* the events one execution of it appends.                                 *)
(***************************************************************************)
EXTENDS Integers, Sequences

CONSTANTS
    Types,        \* primary event types of the tools that are called
    Derivable,    \* those in TOOL_PRIMARY_EVENT_TYPE: a missing key is derived
    CascadeTypes, \* those whose handler also emits a secondary event
    Actors,       \* actor ids
    Shapes,       \* structural fields of a payload, up to payloads_equivalent
    CallerKeys,   \* idempotency keys the agents choose
    Calls         \* the calls the agents make, a set of CallRecords

\* A key is a tuple, so that the three kinds never compare equal.
NoKey        == << >>
CallerKey(k) == <<"caller", k>>
AutoKey(t, s) == <<"auto", t, s>>
CallKeys == {NoKey} \cup {CallerKey(k) : k \in CallerKeys}
Keys == CallKeys \cup {AutoKey(t, s) : t \in Types, s \in Shapes}

CallRecord == [id: Nat, type: Types, actor: Actors, shape: Shapes,
               key: CallKeys,
               optOut: BOOLEAN,     \* _allow_no_idempotency
               dry: BOOLEAN]        \* _dry_run

ASSUME CallsAssumption == Calls \subseteq CallRecord

(***************************************************************************)
(* The idempotency contract of dispatch: the caller's key, else a derived  *)
(* key for the tools in the registry, else the call is refused unless it   *)
(* opted out.                                                              *)
(***************************************************************************)
EffectiveKey(c) ==
    IF c.key # NoKey \/ c.optOut \/ c.type \notin Derivable
    THEN c.key ELSE AutoKey(c.type, c.shape)

Accepted(c) == c.optOut \/ EffectiveKey(c) # NoKey

Event == [type: Types, actor: Actors, key: Keys, shape: Shapes,
          row: Nat, cascade: BOOLEAN]

PrimaryEvent(c, r) ==
    [type |-> c.type, actor |-> c.actor, key |-> EffectiveKey(c),
     shape |-> c.shape, row |-> r, cascade |-> FALSE]

\* Secondary events (forecast.scored after outcome.recorded, edge.created, ...)
\* are written without a key, in the same transaction.
CascadeEvent(c, r) ==
    [PrimaryEvent(c, r) EXCEPT !.key = NoKey, !.cascade = TRUE]

SameIdentity(e, c) ==
    /\ e.type = c.type
    /\ e.actor = c.actor
    /\ e.key = EffectiveKey(c)

\* Mutant: the lookup asks for the payload as well as for the key.
MatchingContent(log, c) ==
    {i \in DOMAIN log : EffectiveKey(c) # NoKey /\ SameIdentity(log[i], c)
                         /\ log[i].shape = c.shape}

\* find_existing over a log: ids of the events the replay lookup of c returns.
Matching(log, c) ==
    {i \in DOMAIN log : EffectiveKey(c) # NoKey /\ SameIdentity(log[i], c)}

\* Event e says what call c said, under c's identity.
Says(e, c) == SameIdentity(e, c) /\ e.shape = c.shape

\* No two events of a log share an identity.
UniqueKeys(log) ==
    \A i, j \in DOMAIN log :
        /\ log[i].key # NoKey
        /\ log[i].type = log[j].type
        /\ log[i].actor = log[j].actor
        /\ log[i].key = log[j].key
        => i = j

Codes == {"ok", "IDEMPOTENCY_CONFLICT", "VALIDATION_ERROR",
          "STORAGE_ERROR", "single_writer_lock"}
Envelope == [code: Codes, id: Nat, replay: BOOLEAN]
Error(code) == [code |-> code, id |-> 0, replay |-> FALSE]
Ok(id, isReplay) == [code |-> "ok", id |-> id, replay |-> isReplay]
=============================================================================
