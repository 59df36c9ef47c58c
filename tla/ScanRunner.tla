------------------------------ MODULE ScanRunner ------------------------------
(***************************************************************************)
(* The scan runner (netdiag/runner/runner.py): one coordinator, in the     *)
(* caller's thread, that starts the steps of a plan on daemon threads of   *)
(* their own, reads their completions from a queue, enforces the budgets,  *)
(* winds the scan down after a cancellation or a Ctrl+C, emits the events  *)
(* and assembles the report.                                               *)
(*                                                                         *)
(* Time is not a number here: the clock actions say that a deadline or a   *)
(* grace period has passed.  A step's function is what its thread may      *)
(* deliver: some items, a value of the wrong type, an exception,           *)
(* ScanCancelled, or nothing at all.                                       *)
(***************************************************************************)
EXTENDS Naturals, FiniteSets, SequencesExt

CONSTANTS
    Steps,         \* the step ids
    Plan,          \* ScanPlan.steps, in plan order
    After,         \* Step.after: the steps that must have finished first
    Lanes,         \* Step.lanes
    Budgeted,      \* the steps whose budget_s is not None
    SecuritySteps, \* the steps of kind "security"; the others are diagnostics
    Outputs,       \* for each step, the sequences of item types it may return
    MaxWorkers,    \* ScanRunner.max_workers
    MaxInterrupts, \* bound on the number of Ctrl+C (KeyboardInterrupt)
    NoStep,        \* no step in hand
    Wake           \* the _WAKE message of the cancel callback

ItemType == {"diagnostic", "finding"}

ASSUME PlanAssumption ==
    /\ Plan \in Seq(Steps)
    /\ \A i, j \in DOMAIN Plan : Plan[i] = Plan[j] => i = j
    /\ \A s \in Steps : \E i \in DOMAIN Plan : Plan[i] = s
    /\ Budgeted \subseteq Steps
    /\ SecuritySteps \subseteq Steps

\* What ScanPlan._check_acyclic lets through: some step of any set waits for none of it.
ASSUME AfterAssumption ==
    /\ After \in [Steps -> SUBSET Steps]
    /\ \A D \in (SUBSET Steps) \ {{}} : \E s \in D : After[s] \cap D = {}

LaneNames == UNION {Lanes[s] : s \in Steps}

ASSUME LanesAssumption == Lanes \in [Steps -> SUBSET LaneNames]

ASSUME OutputsAssumption == \A s \in Steps : Outputs[s] \subseteq Seq(ItemType)

ASSUME BoundsAssumption == MaxWorkers \in Nat \ {0} /\ MaxInterrupts \in Nat

ASSUME MarkersAssumption == NoStep \notin Steps /\ Wake \notin Steps

VARIABLES
    \* the coordinator's control and its locals
    pc, cur, back, winding, todo,
    \* _Execution's books
    pending, running, expired, finished, busyLanes, states, items,
    \* the cancel token and its callback, and the completion queue
    cancelled, wakeOwed, queue,
    \* the step threads and what each has delivered
    thread, posted,
    \* the clock: deadlines and grace periods that have passed
    overdue, graceOver, windOver,
    \* Ctrl+C
    interrupts, interrupted,
    \* what the event callback has been told, and the ScanResult
    told, scanTold, result

control == <<pc, cur, back, winding, todo>>
books   == <<pending, running, expired, finished, busyLanes, states, items>>
shared  == <<cancelled, wakeOwed, queue>>
threads == <<thread, posted>>
clock   == <<overdue, graceOver, windOver>>
ctrlC   == <<interrupts, interrupted>>
output  == <<told, scanTold, result>>
vars    == <<control, books, shared, threads, clock, ctrlC, output>>

Verdicts == {"completed", "timed_out", "crashed", "cancelled"}
States   == Verdicts \cup {"not_started"}
Kinds    == {"ok", "bad", "error", "cancelled"}   \* "bad": not a result or finding
Item     == [step : Steps, type : ItemType, origin : {"output", "timeout", "crash"}]
Delivery == [kind : Kinds \cup {"none"}, late : BOOLEAN, items : Seq(Item)]

Nothing == [kind |-> "none", late |-> FALSE, items |-> <<>>]
Silence == [started |-> FALSE, results |-> 0, finished |-> FALSE]
NoReport == [results |-> <<>>, findings |-> <<>>, outcome |-> "none"]

Init ==
    /\ pc = "begin" /\ cur = NoStep /\ back = "drain" /\ winding = FALSE /\ todo = {}
    /\ pending = Steps /\ running = {} /\ expired = {} /\ finished = {} /\ busyLanes = {}
    /\ states = [s \in Steps |-> "not_started"]
    /\ items = [s \in Steps |-> <<>>]
    /\ cancelled = FALSE /\ wakeOwed = FALSE /\ queue = <<>>
    /\ thread = [s \in Steps |-> "none"]
    /\ posted = [s \in Steps |-> Nothing]
    /\ overdue = {} /\ graceOver = {} /\ windOver = FALSE
    /\ interrupts = 0 /\ interrupted = FALSE
    /\ told = [s \in Steps |-> Silence] /\ scanTold = {} /\ result = NoReport

-----------------------------------------------------------------------------
(* The main loop *)

\* execute: the wake callback is registered, and runs at once if the token is cancelled
\* already; then ScanStarted is emitted.
Begin ==
    /\ pc = "begin"
    /\ pc' = "loop"
    /\ queue' = IF cancelled THEN Append(queue, Wake) ELSE queue
    /\ scanTold' = scanTold \cup {"started"}
    /\ UNCHANGED <<cur, back, winding, todo, books, cancelled, wakeOwed, threads, clock, ctrlC,
                   told, result>>

\* The loop condition fails: the callback is removed (finally) and the report assembled.
LoopEnds ==
    /\ pc = "loop"
    /\ pending = {} /\ running = {}
    /\ pc' = "assemble"
    /\ UNCHANGED <<cur, back, winding, todo, books, shared, threads, clock, ctrlC, output>>

LoopSchedules ==
    /\ pc = "loop"
    /\ pending # {} \/ running # {}
    /\ ~cancelled
    /\ pc' = "start"
    /\ UNCHANGED <<cur, back, winding, todo, books, shared, threads, clock, ctrlC, output>>

\* The entry of _wind_down_after_cancel: nothing new starts, a fresh grace period runs.
WindDown ==
    /\ pc' = "wind"
    /\ winding' = TRUE
    /\ pending' = {}
    /\ windOver' = FALSE
    /\ cur' = NoStep /\ todo' = {}

LoopCancelled ==
    /\ pc = "loop"
    /\ pending # {} \/ running # {}
    /\ cancelled
    /\ WindDown
    /\ UNCHANGED <<back, running, expired, finished, busyLanes, states, items,
                   shared, threads, overdue, graceOver, ctrlC, output>>

-----------------------------------------------------------------------------
(* Scheduling *)

ReadyWithoutLanes(s) == s \in pending /\ After[s] \subseteq finished         \* mutant
ReadyWithoutAfter(s) == s \in pending /\ Lanes[s] \cap busyLanes = {}       \* mutant

Ready(s) ==
    /\ s \in pending
    /\ After[s] \subseteq finished
    /\ Lanes[s] \cap busyLanes = {}

Full == Cardinality(running) >= MaxWorkers

\* One iteration of _start_ready_steps that starts a step.  During a pass nothing
\* finishes and lanes only fill, so a step once passed over stays unready and the
\* next to start is the first ready one in plan order.
FirstReady(i) ==
    /\ Ready(Plan[i])
    /\ \A j \in 1..(i - 1) : ~Ready(Plan[j])

StartStep(i) ==
    /\ pc = "start"
    /\ ~Full /\ ~cancelled
    /\ FirstReady(i)
    /\ pending' = pending \ {Plan[i]}
    /\ running' = running \cup {Plan[i]}
    /\ busyLanes' = busyLanes \cup Lanes[Plan[i]]
    /\ cur' = Plan[i]
    /\ pc' = "launch"
    /\ UNCHANGED <<back, winding, todo, expired, finished, states, items,
                   shared, threads, clock, ctrlC, output>>

\* thread.start()
LaunchThread ==
    /\ pc = "launch"
    /\ thread' = [thread EXCEPT ![cur] = "live"]
    /\ pc' = "step_started"
    /\ UNCHANGED <<cur, back, winding, todo, books, shared, posted, clock, ctrlC, output>>

EmitStepStarted ==
    /\ pc = "step_started"
    /\ told' = [told EXCEPT ![cur].started = TRUE]
    /\ pc' = "start" /\ cur' = NoStep
    /\ UNCHANGED <<back, winding, todo, books, shared, threads, clock, ctrlC, scanTold, result>>

StartPassEnds ==
    /\ pc = "start"
    /\ Full \/ cancelled \/ \A i \in DOMAIN Plan : ~Ready(Plan[i])
    /\ pc' = "get"
    /\ UNCHANGED <<cur, back, winding, todo, books, shared, threads, clock, ctrlC, output>>

-----------------------------------------------------------------------------
(* Completions *)

KeepLanes(s) == busyLanes                                                  \* mutant

LanesWithout(s) == busyLanes \ Lanes[s]

\* A step is over, with verdict v and items its: the bookkeeping half of _finish.
\* Its announcements follow, one emission at a time, and then control goes to b.
Finish(s, v, its, b) ==
    /\ running' = running \ {s}
    /\ busyLanes' = LanesWithout(s)
    /\ finished' = finished \cup {s}
    /\ states' = [states EXCEPT ![s] = v]
    /\ items' = [items EXCEPT ![s] = its]
    /\ cur' = s /\ back' = b /\ pc' = "announce"

\* The one ERROR item the runner puts in place of a step's output.
Synthesized(s, origin) ==
    << [step |-> s, origin |-> origin,
        type |-> IF s \in SecuritySteps THEN "finding" ELSE "diagnostic"] >>

\* The first get waits for the poll interval, the ones that drain the queue do not.
TakeMessage ==
    /\ pc \in {"get", "drain"}
    /\ queue # <<>>
    /\ cur' = Head(queue) /\ queue' = Tail(queue)
    /\ pc' = "complete"
    /\ UNCHANGED <<back, winding, todo, books, cancelled, wakeOwed, threads, clock, ctrlC, output>>

NoMessage ==
    /\ pc \in {"get", "drain"}
    /\ queue = <<>>
    /\ pc' = IF winding THEN "wind" ELSE "enforce"
    /\ UNCHANGED <<cur, back, winding, todo, books, shared, threads, clock, ctrlC, output>>

OfAnyStep(message) == message \in Steps                                    \* mutant

\* Not _WAKE, nor the late completion of an abandoned step.
OfRunningStep(message) == message \in running

IgnoreMessage ==
    /\ pc = "complete"
    /\ ~OfRunningStep(cur)
    /\ pc' = "drain" /\ cur' = NoStep
    /\ UNCHANGED <<back, winding, todo, books, shared, threads, clock, ctrlC, output>>

TimedOutIfSeen(s) == s \in expired                                         \* mutant

\* Timed out if the coordinator saw the deadline pass, or the step finished after it.
TimedOut(s) == s \in expired \/ posted[s].late

VerdictOn(s) ==
    CASE posted[s].kind = "cancelled" -> "cancelled"
      [] posted[s].kind # "cancelled" /\ TimedOut(s) -> "timed_out"
      [] posted[s].kind \in {"error", "bad"} /\ ~TimedOut(s) -> "crashed"
      [] OTHER -> "completed"

ItemsFor(s, verdict) ==
    CASE verdict = "cancelled" -> <<>>
      [] verdict = "timed_out" -> Synthesized(s, "timeout")
      [] verdict = "crashed"   -> Synthesized(s, "crash")
      [] OTHER -> posted[s].items

CompleteStep ==
    /\ pc = "complete"
    /\ OfRunningStep(cur)
    /\ Finish(cur, VerdictOn(cur), ItemsFor(cur, VerdictOn(cur)), "drain")
    /\ UNCHANGED <<winding, todo, pending, expired, shared, threads, clock, ctrlC, output>>

NoneToAnnounce == TRUE                                                     \* mutant

AllAnnounced == told[cur].results = Len(items[cur])

\* _finish emits one ResultProduced for each item ...
EmitResult ==
    /\ pc = "announce"
    /\ ~AllAnnounced
    /\ told' = [told EXCEPT ![cur].results = @ + 1]
    /\ UNCHANGED <<control, books, shared, threads, clock, ctrlC, scanTold, result>>

\* ... and then StepFinished.
EmitStepFinished ==
    /\ pc = "announce"
    /\ AllAnnounced
    /\ told' = [told EXCEPT ![cur].finished = TRUE]
    /\ pc' = back /\ cur' = NoStep
    /\ UNCHANGED <<back, winding, todo, books, shared, threads, clock, ctrlC, scanTold, result>>

-----------------------------------------------------------------------------
(* Budgets and wind-down *)

NoneOverstayed == {}                                                       \* mutant

PastDeadline == running \cap overdue
Overstayed   == running \cap expired \cap graceOver

\* One pass of _enforce_budgets, at the instant it reads the clock: running steps past
\* their deadline expire, those that expired in an earlier pass and did not stop within
\* the grace period are to be abandoned.
EnforceBudgets ==
    /\ pc = "enforce"
    /\ expired' = expired \cup PastDeadline
    /\ todo' = Overstayed
    /\ pc' = "abandon"
    /\ UNCHANGED <<cur, back, winding, pending, running, finished, busyLanes, states, items,
                   shared, threads, clock, ctrlC, output>>

WindDownOver == running = {} \/ windOver

\* The loop of _wind_down_after_cancel: poll until nothing runs or the grace is over.
WindDownPolls ==
    /\ pc = "wind"
    /\ ~WindDownOver
    /\ pc' = "get"
    /\ UNCHANGED <<cur, back, winding, todo, books, shared, threads, clock, ctrlC, output>>

WindDownGivesUp ==
    /\ pc = "wind"
    /\ WindDownOver
    /\ todo' = running
    /\ pc' = "abandon"
    /\ UNCHANGED <<cur, back, winding, books, shared, threads, clock, ctrlC, output>>

\* A step is finished although its thread still runs.  (The order in which the dict
\* lists the entries is left open.)
AbandonStep(s) ==
    /\ pc = "abandon"
    /\ s \in todo
    /\ todo' = todo \ {s}
    /\ IF winding THEN Finish(s, "cancelled", <<>>, "abandon")
                  ELSE Finish(s, "timed_out", Synthesized(s, "timeout"), "abandon")
    /\ UNCHANGED <<winding, pending, expired, shared, threads, clock, ctrlC, output>>

AbandonEnds ==
    /\ pc = "abandon"
    /\ todo = {}
    /\ pc' = IF winding THEN "assemble" ELSE "loop"
    /\ UNCHANGED <<cur, back, winding, todo, books, shared, threads, clock, ctrlC, output>>

-----------------------------------------------------------------------------
(* The result *)

\* The entries of a list that are in a set, in the list's order (SelectSeq, as a recursion that
\* the proofs can unfold).
Only(list, set) ==
    LET F[i \in 0..Len(list)] ==
            IF i = 0 THEN <<>>
            ELSE IF list[i] \in set THEN Append(F[i - 1], list[i]) ELSE F[i - 1]
    IN  F[Len(list)]

ItemsOfType(t) == {item \in Item : item.type = t}

OfType(s, t) == Only(items[s], ItemsOfType(t))

AssembledIfDone(t) ==                                                      \* mutant
    FlattenSeq([i \in DOMAIN Plan |->
                   IF states[Plan[i]] = "completed" THEN OfType(Plan[i], t) ELSE <<>>])

\* _assemble_report walks the plan, whatever order the steps finished in.
Assembled(t) == FlattenSeq([i \in DOMAIN Plan |-> OfType(Plan[i], t)])

OutcomeOfStarted == IF \E s \in Steps : states[s] = "cancelled"            \* mutant
                    THEN "cancelled" ELSE "completed"

Outcome == IF \E s \in Steps : states[s] \in {"cancelled", "not_started"}
           THEN "cancelled" ELSE "completed"

Assemble ==
    /\ pc = "assemble"
    /\ result' = [results |-> Assembled("diagnostic"), findings |-> Assembled("finding"),
                  outcome |-> Outcome]
    /\ pc' = "scan_finished"
    /\ UNCHANGED <<cur, back, winding, todo, books, shared, threads, clock, ctrlC, told, scanTold>>

EmitScanFinished ==
    /\ pc = "scan_finished"
    /\ scanTold' = scanTold \cup {"finished"}
    /\ pc' = "done"
    /\ UNCHANGED <<cur, back, winding, todo, books, shared, threads, clock, ctrlC, told, result>>

-----------------------------------------------------------------------------
(* Ctrl+C: KeyboardInterrupt raised in the coordinator, by a callback or between two
   of the steps above (but not inside one) *)

CanInterrupt ==
    /\ interrupts < MaxInterrupts
    /\ interrupts' = interrupts + 1

\* execute's except clause: token.cancel(), in this thread, then the wind-down.
InterruptCaught ==
    /\ CanInterrupt
    /\ pc \notin {"begin", "assemble", "scan_finished", "done", "raised"}
    /\ ~interrupted
    /\ interrupted' = TRUE
    /\ cancelled' = TRUE
    /\ queue' = IF cancelled THEN queue ELSE Append(queue, Wake)
    /\ WindDown
    /\ UNCHANGED <<back, running, expired, finished, busyLanes, states, items,
                   wakeOwed, threads, overdue, graceOver, output>>

\* Outside the try, or in the except clause itself, it leaves the runner.
InterruptRaised ==
    /\ CanInterrupt
    /\ \/ pc \in {"begin", "assemble", "scan_finished"}
       \/ interrupted /\ pc \notin {"done", "raised"}
    /\ pc' = "raised"
    /\ UNCHANGED <<cur, back, winding, todo, books, shared, threads, clock, interrupted, output>>

Over == pc \in {"done", "raised"}

-----------------------------------------------------------------------------
(* The other threads and the clock *)

\* CancelToken.cancel from any thread: the flag is set under the lock, the callbacks
\* taken with it run afterwards.  The runner's is registered while execute is in its try.
Cancel ==
    /\ ~Over /\ ~cancelled
    /\ cancelled' = TRUE
    /\ wakeOwed' = (pc \notin {"begin", "assemble", "scan_finished"})
    /\ UNCHANGED <<control, books, queue, threads, clock, ctrlC, output>>

PostWake ==
    /\ wakeOwed
    /\ wakeOwed' = FALSE
    /\ queue' = Append(queue, Wake)
    /\ UNCHANGED <<control, books, cancelled, threads, clock, ctrlC, output>>

\* _run_step: the step's function ends and its completion, stamped with the time, is
\* queued.  ScanCancelled is only raised once the token is cancelled.
Deliver(s, kind, its) ==
    /\ thread[s] = "live"
    /\ kind = "cancelled" => cancelled
    /\ thread' = [thread EXCEPT ![s] = "exited"]
    /\ posted' = [posted EXCEPT ![s] = [kind |-> kind, late |-> s \in overdue, items |-> its]]
    /\ queue' = Append(queue, s)
    /\ UNCHANGED <<control, books, cancelled, wakeOwed, clock, ctrlC, output>>

Tagged(s, types) == [i \in DOMAIN types |-> [step |-> s, type |-> types[i], origin |-> "output"]]

StepReturns(s) == \E types \in Outputs[s] : Deliver(s, "ok", Tagged(s, types))
StepFails(s)   == \E kind \in {"bad", "error", "cancelled"} : Deliver(s, kind, <<>>)

DeadlinePasses(s) ==
    /\ ~Over
    /\ s \in running \cap Budgeted /\ s \notin overdue
    /\ overdue' = overdue \cup {s}
    /\ UNCHANGED <<control, books, shared, threads, graceOver, windOver, ctrlC, output>>

GracePasses(s) ==
    /\ ~Over
    /\ s \in running \cap expired /\ s \notin graceOver
    /\ graceOver' = graceOver \cup {s}
    /\ UNCHANGED <<control, books, shared, threads, overdue, windOver, ctrlC, output>>

WindGracePasses ==
    /\ ~Over
    /\ winding /\ running # {} /\ ~windOver
    /\ windOver' = TRUE
    /\ UNCHANGED <<control, books, shared, threads, overdue, graceOver, ctrlC, output>>

-----------------------------------------------------------------------------

Coordinator ==
    \/ Begin \/ LoopEnds \/ LoopSchedules \/ LoopCancelled
    \/ \E i \in DOMAIN Plan : StartStep(i)
    \/ LaunchThread \/ EmitStepStarted \/ StartPassEnds
    \/ TakeMessage \/ NoMessage \/ IgnoreMessage \/ CompleteStep
    \/ EmitResult \/ EmitStepFinished
    \/ EnforceBudgets \/ WindDownPolls \/ WindDownGivesUp
    \/ \E s \in Steps : AbandonStep(s)
    \/ AbandonEnds \/ Assemble \/ EmitScanFinished

Interrupt == InterruptCaught \/ InterruptRaised

StepThread(s) == StepReturns(s) \/ StepFails(s)

Clock == \/ \E s \in Steps : DeadlinePasses(s) \/ GracePasses(s)
         \/ WindGracePasses

\* run() has returned, or raised: the caller goes on.
Terminated == Over /\ UNCHANGED vars

Next ==
    \/ Coordinator \/ Interrupt
    \/ Cancel \/ PostWake
    \/ \E s \in Steps : StepThread(s)
    \/ Clock
    \/ Terminated

Spec == Init /\ [][Next]_vars

\* The coordinator runs and time passes.  Nothing is promised of the step threads, nor
\* that anyone cancels.
Fairness ==
    /\ WF_vars(Coordinator)
    /\ \A s \in Steps : WF_vars(DeadlinePasses(s)) /\ WF_vars(GracePasses(s))
    /\ WF_vars(WindGracePasses)

FairSpec == Spec /\ Fairness
-----------------------------------------------------------------------------
(* Properties *)

PCs == {"begin", "loop", "start", "launch", "step_started", "get", "drain",
        "complete", "announce", "enforce", "abandon", "wind", "assemble", "scan_finished",
        "done", "raised"}

\* The types of the variables, and the coordinator's locals where they are in use.
TypeOK ==
    /\ pc \in PCs /\ cur \in Steps \cup {NoStep, Wake} /\ back \in {"drain", "abandon"}
    /\ winding \in BOOLEAN /\ todo \subseteq Steps
    /\ pending \subseteq Steps /\ running \subseteq Steps
    /\ expired \subseteq Budgeted /\ finished \subseteq Steps /\ busyLanes \subseteq LaneNames
    /\ states \in [Steps -> States] /\ items \in [Steps -> Seq(Item)]
    /\ cancelled \in BOOLEAN /\ wakeOwed \in BOOLEAN /\ queue \in Seq(Steps \cup {Wake})
    /\ thread \in [Steps -> {"none", "live", "exited"}] /\ posted \in [Steps -> Delivery]
    /\ overdue \subseteq Budgeted /\ graceOver \subseteq Steps /\ windOver \in BOOLEAN
    /\ interrupts \in Nat /\ interrupted \in BOOLEAN
    /\ told \in [Steps -> [started : BOOLEAN, results : Nat, finished : BOOLEAN]]
    /\ scanTold \subseteq {"started", "finished"}
    /\ pc \in {"launch", "step_started", "announce"} => cur \in Steps

\* Steps that share a lane are never on the books together (Step.lanes).
LaneExclusion ==
    \A s, t \in running : s # t => Lanes[s] \cap Lanes[t] = {}

\* A step is on the books, or over, only after every step it comes after is over.
DependencyOrder ==
    \A s \in running \cup finished : After[s] \subseteq finished

\* At most max_workers steps are active.
WorkerBound == Cardinality(running) <= MaxWorkers

Earned(s, verdict, its) ==
    /\ verdict = "completed" => /\ posted[s].kind = "ok"
                                /\ s \notin expired /\ ~posted[s].late
                                /\ its = posted[s].items
    /\ verdict = "timed_out" => s \in overdue /\ its = Synthesized(s, "timeout")
    /\ verdict = "crashed" => /\ posted[s].kind \in {"bad", "error"}
                              /\ s \notin expired /\ ~posted[s].late
                              /\ its = Synthesized(s, "crash")
    /\ verdict = "cancelled" => cancelled /\ its = <<>>

\* A verdict is backed by what happened: a step is COMPLETED with the items its thread
\* delivered in time, TIMED_OUT only past its deadline, CRASHED only by its own doing
\* within its budget, and CANCELLED, contributing nothing, only in a cancelled scan.
VerdictEarned == \A s \in finished : states[s] \in Verdicts /\ Earned(s, states[s], items[s])

\* What a step ended with never changes: the late completion of an abandoned step
\* reaches neither its verdict nor its items.
VerdictIsFinal ==
    [][\A s \in finished : /\ s \in finished' /\ s \notin running'
                           /\ states'[s] = states[s]
                           /\ items'[s] = items[s]]_vars

\* The coordinator never waits with nothing running, nor while a step could start.
NoIdleWait ==
    pc = "get" /\ ~cancelled =>
        /\ running # {}
        /\ \/ Cardinality(running) >= MaxWorkers
           \/ \A s \in pending : \/ ~(After[s] \subseteq finished)
                                 \/ \E t \in running : Lanes[s] \cap Lanes[t] # {}

\* The events of a scan no Ctrl+C disturbs: for each step StepStarted, then its results
\* as they stand, then StepFinished; ScanStarted first, ScanFinished after all of them.
EventProtocol ==
    ~interrupted =>
        /\ \A s \in Steps :
              /\ told[s].started => "started" \in scanTold /\ s \in running \cup finished
              /\ told[s].results > 0 => told[s].started /\ told[s].results <= Len(items[s])
              /\ told[s].finished => /\ told[s].started /\ s \in finished
                                     /\ told[s].results = Len(items[s])
        /\ "finished" \in scanTold =>
              /\ "started" \in scanTold
              /\ \A s \in finished : told[s].finished

\* Where an item's step stands in the plan.
Place(s) == CHOOSE i \in DOMAIN Plan : Plan[i] = s

ItemsOfStep(s) == {item \in Item : item.step = s}

\* The report lists the items in plan order, each step's in the order it gave them, and
\* holds all the items of the steps that are over and none besides.
ReportInPlanOrder ==
    result.outcome # "none" =>
        \A t \in ItemType :
            LET list == IF t = "diagnostic" THEN result.results ELSE result.findings
            IN  /\ \A i, j \in DOMAIN list : i < j => Place(list[i].step) <= Place(list[j].step)
                /\ \A s \in Steps : Only(list, ItemsOfStep(s)) = Only(items[s], ItemsOfType(t))

\* A scan nobody cancelled ends with a verdict on every step, and is COMPLETED; one that
\* is CANCELLED was cancelled, and a COMPLETED one lacks no step's contribution.
OutcomeTrue ==
    /\ pc = "done" /\ ~cancelled => finished = Steps /\ result.outcome = "completed"
    /\ result.outcome = "cancelled" => cancelled
    /\ result.outcome = "completed" => \A s \in Steps : /\ s \in finished
                                                       /\ states[s] # "cancelled"

\* The books: no step is on two of them, the busy lanes are those of the running steps, and
\* the coordinator's locals agree with them wherever they are used.
Books ==
    /\ pending \cap running = {} /\ pending \cap finished = {} /\ running \cap finished = {}
    /\ busyLanes = UNION {Lanes[s] : s \in running}
    /\ expired \subseteq overdue
    /\ \A s \in pending : thread[s] = "none"
    /\ (winding => cancelled) /\ (pc = "wind" => winding)
    /\ pc = "launch" => cur \in running /\ thread[cur] = "none"
    /\ (pc = "abandon" \/ (pc = "announce" /\ back = "abandon")) =>
           todo \subseteq running /\ (winding \/ todo \subseteq expired)

\* The hand-over from a step thread to the coordinator: a completion that is queued, or in
\* the coordinator's hand, is that of a thread that delivered it once and for all.
HandOver ==
    /\ \A s \in Steps : /\ thread[s] = "exited" <=> posted[s].kind # "none"
                        /\ posted[s].late => s \in overdue
                        /\ posted[s].kind = "cancelled" => cancelled
    /\ \A i \in 1..Len(queue) : queue[i] # Wake => thread[queue[i]] = "exited"
    /\ pc = "complete" /\ cur \in Steps => thread[cur] = "exited"

\* The inductive invariant behind the safety properties.
IInv == TypeOK /\ Books /\ HandOver /\ LaneExclusion /\ DependencyOrder /\ VerdictEarned

\* A step that no budget bounds and whose thread has not returned.
Unbounded == \E s \in running \ Budgeted : thread[s] = "live"

\* A scan ends, whatever the step threads do, unless nobody cancelled it and it waits for a
\* step without a budget: lanes, dependencies and worker slots never hold it up.
Concludes == []<>(Over \/ (~cancelled /\ Unbounded))

\* Behind Concludes: a completion is not lost on the way from its thread to the books, unless a
\* Ctrl+C takes it out of the coordinator's hand.
CompletionKept ==
    ~interrupted =>
        \A s \in running : thread[s] = "exited" =>
            s \in ToSet(queue) \/ (pc = "complete" /\ cur = s)

\* Doc of Step.lanes (plan.py): "steps sharing a lane never run at the same time".
ThreadsRespectLanes ==
    \A s, t \in Steps :
        s # t /\ thread[s] = "live" /\ thread[t] = "live" => Lanes[s] \cap Lanes[t] = {}
=============================================================================
