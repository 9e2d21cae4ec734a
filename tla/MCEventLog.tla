----------------------------- MODULE MCEventLog -----------------------------
EXTENDS EventLog

CONSTANTS a1, k1, s1, s2, s3

C(id, type, shape, key, optOut, dry) ==
    [id |-> id, type |-> type, actor |-> a1, shape |-> shape, key |-> key,
     optOut |-> optOut, dry |-> dry]

K1 == CallerKey(k1)

\* Two calls that reuse one key with different content, and a third
\* use of it as a dry run: every race of the lookup, the lock and the dry-run flag.
RaceCalls ==
    {C(1, "forecast.created", s1, K1, FALSE, FALSE),
     C(2, "forecast.created", s2, K1, FALSE, FALSE),
     C(3, "forecast.created", s3, K1, FALSE, TRUE)}

\* A key left to the server, a write that has no key at all, the opt-out, and one
\* key for two contents.
KeyCalls ==
    {C(4, "forecast.created", s1, NoKey, FALSE, FALSE),
     C(5, "source.attached", s1, NoKey, FALSE, FALSE),
     C(6, "source.attached", s1, NoKey, TRUE, FALSE),
     C(7, "source.attached", s2, K1, FALSE, FALSE),
     C(8, "source.attached", s3, K1, FALSE, FALSE)}
MCCalls == RaceCalls \cup KeyCalls

\* A run makes three calls of the race, or two of the others.
Made == {c \in Calls : (\E p \in Writers : call[p] = c) \/ \E a \in answers : a.call = c}
MCNext ==
    /\ Next
    /\ Made' \subseteq RaceCalls \/ (Made' \subseteq KeyCalls /\ sends' < MaxSends)
MCSpec == Init /\ [][MCNext]_vars /\ Fairness
=============================================================================
