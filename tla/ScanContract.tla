----------------------------- MODULE ScanContract -----------------------------
(***************************************************************************)
(* What running a plan promises its caller, in terms of the plan alone:    *)
(* no threads, no queue, no clock.  ScanRunner is shown to implement it.   *)
(***************************************************************************)
EXTENDS Naturals, FiniteSets

CONSTANTS Steps, After, Lanes, MaxWorkers

VARIABLES
    phase,      \* where each step stands
    cancelled,  \* someone asked for the scan to be cancelled
    outcome     \* "none" until the result is there

cvars == <<phase, cancelled, outcome>>

Ended  == {"completed", "timed_out", "crashed", "cancelled"}
Phases == Ended \cup {"waiting", "active", "not_started"}

Active == {s \in Steps : phase[s] = "active"}

CInit ==
    /\ phase = [s \in Steps |-> "waiting"]
    /\ cancelled = FALSE
    /\ outcome = "none"

\* A step starts after its predecessors are over, alone in its lanes, in a free slot.
Start(s) ==
    /\ outcome = "none" /\ phase[s] = "waiting"
    /\ \A t \in After[s] : phase[t] \in Ended
    /\ \A t \in Active : Lanes[s] \cap Lanes[t] = {}
    /\ Cardinality(Active) < MaxWorkers
    /\ phase' = [phase EXCEPT ![s] = "active"]
    /\ UNCHANGED <<cancelled, outcome>>

\* An active step ends, with exactly one verdict, for good.
End(s, verdict) ==
    /\ outcome = "none" /\ phase[s] = "active"
    /\ verdict = "cancelled" => cancelled
    /\ phase' = [phase EXCEPT ![s] = verdict]
    /\ UNCHANGED <<cancelled, outcome>>

Cancel == cancelled' = TRUE /\ UNCHANGED <<phase, outcome>>

\* The scan is called off: what has not started never will.
CallOff ==
    /\ outcome = "none"
    /\ cancelled' = TRUE
    /\ phase' = [s \in Steps |-> IF phase[s] = "waiting" THEN "not_started" ELSE phase[s]]
    /\ UNCHANGED outcome

\* The result: nothing is left to start or to end, and it says whether a step is missing.
Conclude ==
    /\ outcome = "none"
    /\ \A s \in Steps : phase[s] \notin {"waiting", "active"}
    /\ outcome' = IF \E s \in Steps : phase[s] \in {"cancelled", "not_started"}
                  THEN "cancelled" ELSE "completed"
    /\ UNCHANGED <<phase, cancelled>>

CNext ==
    \/ \E s \in Steps : Start(s) \/ \E v \in Ended : End(s, v)
    \/ Cancel \/ CallOff \/ Conclude

CSpec == CInit /\ [][CNext]_cvars
=============================================================================
