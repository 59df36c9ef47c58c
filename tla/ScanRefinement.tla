---------------------------- MODULE ScanRefinement ----------------------------
(* The scan runner implements ScanContract. *)
EXTENDS ScanRunner

\* Where a step stands, read off the runner's books.
PhaseOf(s) ==
    CASE s \in pending  -> "waiting"
      [] s \in running  -> "active"
      [] s \in finished -> states[s]
      [] OTHER          -> "not_started"

Contract == INSTANCE ScanContract WITH
    phase   <- [s \in Steps |-> PhaseOf(s)],
    outcome <- result.outcome

\* Every behaviour of the coordinator, its threads and the clock is one of the contract.
ImplementsContract == Contract!CSpec

\* How a scan closes: winding down leaves nothing to start, what is still running is to be
\* abandoned, and the report is assembled once nothing is left.
Closing ==
    /\ (winding => pending = {}) /\ (pc = "enforce" => ~winding)
    /\ winding /\ (pc = "abandon" \/ (pc = "announce" /\ back = "abandon")) => running \subseteq todo
    /\ pc = "assemble" => pending = {} /\ running = {}
    /\ pc \notin {"scan_finished", "done", "raised"} => result.outcome = "none"
    /\ \A s \in Steps \ finished : states[s] = "not_started"

\* Until a scan winds down every step is on one of the books, and a pass of the scheduler has
\* something to start or to wait for; the outcome, once there, is that of the books.
Accounted ==
    /\ ~winding => pending \cup running \cup finished = Steps
    /\ pc \in {"begin", "loop", "start", "launch", "step_started"} => ~winding
    /\ pc \in {"start", "launch", "step_started"} => pending # {} \/ running # {}
    /\ pc \in {"scan_finished", "done"} => result.outcome # "none"
    /\ result.outcome # "none" => result.outcome = Outcome /\ (winding \/ finished = Steps)

\* What is in the report: a step's items name the step, and the report is those of the books.
Reported ==
    /\ \A s \in Steps : items[s] \in Seq(ItemsOfStep(s)) /\ posted[s].items \in Seq(ItemsOfStep(s))
    /\ result.outcome # "none" => /\ result.results = Assembled("diagnostic")
                                  /\ result.findings = Assembled("finding")

\* No step is announced to be over before it is, or twice, whatever a Ctrl+C cuts off; and the
\* scan's end comes last.
ToldOnce ==
    /\ pc = "step_started" => cur \in running
    /\ pc = "announce" => cur \in finished /\ ~told[cur].finished
    /\ \A s \in Steps : told[s].finished => s \in finished
    /\ "finished" \in scanTold => pc = "done"

\* How far the announcements of a step are, while no Ctrl+C has cut one off.
Announced ==
    ~interrupted =>
        /\ "started" \notin scanTold => pc \in {"begin", "raised"} /\ running = {} /\ finished = {}
        /\ "finished" \in scanTold => "started" \in scanTold /\ pc = "done"
        /\ pc = "announce" => cur \in finished
        /\ pc \in {"launch", "step_started"} => cur \in running
        /\ \A s \in Steps :
              /\ s \notin running \cup finished => told[s] = Silence
              /\ s \in running => /\ told[s].results = 0 /\ ~told[s].finished
                                  /\ told[s].started \/ (pc \in {"launch", "step_started"} /\ cur = s)
              /\ s \in finished => /\ told[s].started /\ told[s].results <= Len(items[s])
                                   /\ told[s].finished <=> ~(pc = "announce" /\ cur = s)
                                   /\ told[s].finished => told[s].results = Len(items[s])
=============================================================================
