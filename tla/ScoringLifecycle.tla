-------------------------- MODULE ScoringLifecycle --------------------------
(***************************************************************************)
(* What a reader of forecast.list may rely on.  The table of scoring.md    *)
(* 4.4 is one part of it, the other parts are what the code does besides:  *)
(* a forecast that is recorded after the outcome is born settled, a second *)
(* final outcome scores a settled forecast again, to either result         *)
(* (4.4 says "`scored -> failed` does not exist": see ScoredStands), and a *)
(* supersedes edge between outcomes takes scores out of force.             *)
(***************************************************************************)
EXTENDS Naturals

CONSTANT Forecasts   \* forecast ids
VARIABLES
    state,           \* [Forecasts -> scoring state, or "none"]
    corrections      \* how many supersedes edges were written by hand

Settled == {"scored", "failed"}
States == {"none", "pending", "superseded"} \cup Settled

Init == state = [f \in Forecasts |-> "none"] /\ corrections = 0

\* The table of scoring.md 4.4.
Table(from, to) ==
    \/ from = to
    \/ from = "none" /\ to = "pending"
    \/ from = "pending" /\ to \in Settled
    \/ from \in {"pending"} \cup Settled /\ to = "superseded"

BornSettled(from, to) == from = "none" /\ to \in Settled
ScoredAgain(from, to) == from \in Settled /\ to \in Settled

\* A tool that scores or supersedes.
Score ==
    /\ UNCHANGED corrections
    /\ state' \in [Forecasts -> States]
    /\ \A f \in Forecasts :
         \/ Table(state[f], state'[f])
         \/ BornSettled(state[f], state'[f])
         \/ ScoredAgain(state[f], state'[f])

\* An edge by hand scores nothing: it supersedes a forecast or takes scores out of
\* force, so that an older score, or none, is the one that counts.
Correct ==
    /\ corrections' = corrections + 1
    /\ state' \in [Forecasts -> States]
    /\ \A f \in Forecasts :
         \/ state'[f] = state[f]
         \/ state[f] # "none" /\ state'[f] = "superseded"
         \/ state[f] \in Settled /\ state'[f] \in Settled \cup {"pending"}

Next == Score \/ Correct

Spec == Init /\ [][Next]_<<state, corrections>>
=============================================================================
