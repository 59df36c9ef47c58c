# NetDiag-Toolkit: a TLA+ verification project

NetDiag-Toolkit diagnoses a network target. It builds a *plan* of checks (*steps*), runs it on
a *scan runner* that starts the steps on threads of their own, and shows the results on a
terminal, in a Qt window and in report files. Most of its steps are sequential code around a
socket or a command; what is hard in it is how the steps, the runner, a cancellation, the
child processes and the window interleave. That is what these modules model.

Run `tlc -config <name>.cfg <module>.tla` for a model check and `tlapm <module>.tla` for a
proof. `PROJECT.json` lists every run, the source lines behind every definition (`map`), the
hazards, and a mutant of the code for each checked property.

## 1. The system

| part | state | operations | interacts with |
|---|---|---|---|
| scan runner (`runner/runner.py`, `result.py`, `events.py`) | the books of `_Execution`: pending, active, expired, finished, busy lanes, one record per step; a completion queue | start ready steps, take completions, enforce budgets, wind down, assemble the report, emit events | one daemon thread per step, the cancel token (a callback wakes the queue), the caller's event callback |
| plan (`runner/plan.py`) | steps with `after`, `lanes`, `budget_s` | validation: unique ids, known dependencies, no cycle | input of the runner |
| plans and budgets (`runner/plans.py`, `budgets.py`) | none | the real plans of CLI and GUI and the time each step gets | input of the validation and of the runner |
| cancel token (`CancelToken`) | flag, list of callbacks, a lock | `cancel`, `add_callback`, its `remove` | any thread |
| scan cache (`ScanCache`) | values by key, a lock per key; among them the resolved address | `get_or_compute`, `set`, `get` | step threads, abandoned ones included |
| execution scope (`ExecutionScope`) | deadline, token, expired flag, cache | `remaining`, `expire`, `check_cancelled` | runner, process, steps |
| subprocess (`utils/process.py`) | stop reason, killed flag | `run`: spawn, poll, terminate, kill, reap | the command and its children, the scope |
| window and worker (`gui/main_window.py`, `gui/workers.py`) | current worker, the bar, the report, a pending close | run, cancel, close, the slots of the worker's signals | scan thread through queued signals, the user |
| panels (`gui/widgets/`) | rows in plan order, the bar, the export buttons | begin a run, add a result, change the theme | window |
| command line (`cli/`) | progress counters and what is written on the line; an interrupted result in `ctx.meta` | parse options, run a plan in the main thread, print the report, exit with a code | runner, the user's Ctrl+C |
| security checks (`security/`) | the findings of each; a handshake shared through the scan cache | certificate, protocol versions, host name, headers, DNSSEC, open resolver, ports | sockets, the cache, the TLS lane |
| diagnostics (`core/`, `network/`) | none of their own | one diagnostic each | sockets, `process.run`, the scan cache |
| reports, models, settings, styles, `NetDiag.ps1` | none that lives on | formatting | — |

All the source paths above are under `src/netdiag/`, `NetDiag.ps1` under `src/`.

**What is hard.** A step's completion races its deadline, the grace period after it, a
cancellation and a Ctrl+C, and an abandoned step's completion can arrive at any later time.
Several steps ask the cache for one key. A cancellation lands while callbacks are being added,
removed or run. A command ignores SIGTERM, leaves children, or ends while it is being stopped, and
its process id is given away. The window sees a scan's items, its report and the end of its thread
as separate events, between which the user clicks. A plan's dependencies and lanes are strings
written by hand. An audit's dozen connections fail one by one, and the target answers each
differently. Its name may resolve to another address at each lookup. A Ctrl+C strikes before, in
and after a scan, in the middle of a redrawn line or of an event. The DNS step records the address
others connect by, perhaps after it was abandoned. `PROJECT.json` lists each hazard at its line.

**What makes each part correct.**

- Runner: no two steps of one lane at a time; dependencies respected; at most `max_workers`
  active; each verdict backed by what the step did and final; every item reported exactly once
  and in plan order; the events in the promised order; the outcome true; every scan ends that
  can.
- Cancel token: each callback runs at most once, and exactly once if it was registered and not
  removed when the token was cancelled, whatever another callback does.
- Cache: one computation of a key at a time; what is kept is fit and never changes; a
  hanging computation holds up no other key; the steps that reuse the resolved address look at one
  machine. (HTTPS, the header check and the open-resolver check go by name on purpose, and may
  look at another.)
- Command line: the exit code says what became of the run and of its steps; the progress line
  says what the books say and is gone when the report is printed; every command ends. An exit code 1
  does not say which of its causes it has, a refused plan among them.
- Subprocess: the outcome says what happened; no running command or zombie is left; no signal
  goes to a stranger; a cancelled scan gets rid of a stubborn command.
- Plan: what the validation accepts can be scheduled, and only that; every plan the program builds
  is accepted, but that of `netdiag tcp` with a hopeless negative `--timeout`; it puts what
  records a shared value before what uses it, and gives each step more time than its own timeouts
  need.
- Diagnostics: what a completed step reports does not owe to the end of its budget or to a
  cancellation; the MTU search ends on the right payload, after no more probes than its budget
  counts.
- Security checks: a failure that is reported is one the target showed; the checks agree on the
  certificate and do not contradict one another; every check returns.
- Window: one scan at a time; no use of a deleted worker; the exported report is the one on the
  screen; the rows are in plan order, whatever order the steps finish in; no close over a running
  thread; the buttons come back.

## 2. Modules

| module | models | checked by | proofs |
|---|---|---|---|
| `ScanRunner` | coordinator, step threads, queue, clock, Ctrl+C | `MCCommandLine`, `MCScanRunner` | `ScanRunner_proofs` |
| `ScanContract` | what a scan promises, without a coordinator | through `ScanRefinement` | — |
| `ScanRefinement` | `ScanRunner` implements `ScanContract` | `MCCommandLine` | `ScanRunner_proofs` |
| `CommandLine` | the runner under a command in the main thread, with Ctrl+C, progress line, report and exit code, or under another caller | `MCCommandLine` | `ScanRunner_proofs` |
| `CancelToken` | the token and its callbacks | `MCCancelToken` | `CancelToken_proofs` |
| `ScanCache` | the cache of one scan, and the resolved address in it | `MCScanCache` | `ScanCache_proofs` |
| `ProcessRun` | one call of `process.run` inside a scope | `MCProcessRun` | `ProcessRun_proofs` |
| `PlanValidation` | the checks of `Step` and `ScanPlan`, the depth-first search call by call | `MCScanPlans` | `PlanValidation_proofs` |
| `ScanPlans` | the plans of `plans.py` and the budgets of `budgets.py`, as inputs of `PlanValidation` | `MCScanPlans` | `PlanValidation_proofs` |
| `Diagnostics` | a step that runs one of the twelve diagnostics: ping, traceroute, gateway, comparison of DNS servers, Wi-Fi, adapters, HTTPS, TCP, path MTU, host discovery, the two scans of ports | `MCDiagnostics` | `Diagnostics_proofs` |
| `SecurityAudit` | the seven security checks of a scan | `MCSecurityAudit` | `SecurityAudit_proofs` |
| `GuiWindow` | window, panels, worker and Qt's event queue | `MCGuiWindow` | `GuiWindow_proofs` |

### ScanRunner

`pc` is where the coordinator is in `_Execution`. Its books are the sets `pending`, `running`
(`_active`), `expired`, `finished`, `busyLanes` and the records `states` and `items`. A pass
over the plan (`_start_ready_steps`) is `StartStep` / `LaunchThread` / `EmitStepStarted` for each
step started, then `StartPassEnds`. `TakeMessage`, `IgnoreMessage` and `CompleteStep` are
`_process_completions` and `_complete`; `EmitResult` and `EmitStepFinished` are the emissions at
the end of `_finish`; `EnforceBudgets` and `AbandonStep` are `_enforce_budgets`; the `WindDown*`
actions are `_wind_down_after_cancel`; `Assemble` and `EmitScanFinished` end `execute`. Step
threads (`StepReturns`, `StepFails`) deliver once, or never. `Cancel` and `PostWake` are another
thread in `CancelToken.cancel`, the flag first and the runner's wake callback afterwards.

A Ctrl+C (`Interrupt`) strikes the coordinator between any two of its actions: the first, inside the
loop, cancels the token and winds the scan down; elsewhere it leaves the runner.

Abstractions. Time is not a number: clock actions say that a deadline or a grace period has
passed, at any moment it could. A step's function is the set of what it may deliver. A Ctrl+C
arrives between two actions, never inside one, and at most `MaxInterrupts` times. Which overdue
step is abandoned first is left open (the code goes through a dict). The wording and the durations
of synthesized items are left out.

### ScanContract and ScanRefinement

The contract knows a phase for each step (waiting, active, a verdict, or not started) and the
outcome: a step starts only when those before it are over and no active step shares its lane, a
verdict is given once, and the outcome says whether any contribution is missing. `PhaseOf` reads
a step's phase off the runner's books, `Contract` is the contract over it, and
`ImplementsContract` says every step of the runner is one of the contract or a stutter.

### CommandLine

`caller` is who runs the plan. A command parses its options (`ParseOptions`: Click's callbacks
accept or refuse), builds its plan (`BuildPlan`, or `PlanRefused`: the constructor of a step
raises, and the command ends with 1, nothing run), scans (`CommandScans`: the coordinator's
actions, and the progress callback in those that emit an event), takes the result (`TakeResult`),
prints or fails to export the report (`PrintReport`, `ExportFails`) and exits (`Exit`, with
`ExitCode`). `Show` and `Clear` are `ProgressLine`: a text is written, and then its length noted
in `_shown` (`NoteShown`), between which a Ctrl+C may strike. `InterruptInScan` and
`InterruptAround` are Ctrl+C in and outside of the runner. Any other caller, like the window's
worker, runs the plan and may cancel the token from another thread. `LSpec => Spec` is proved:
whatever holds of the runner holds under its callers. Abstractions: which results fail is left
open, an error is what the runner puts in place of a result; a text is its width, the number of a
step's label.

### CancelToken

`cancel` is its section under the lock (`Cancel`) and then, one by one, the callbacks it took;
`add_callback` either registers under the lock (`Add`) or runs the callback at once
(`RunAtOnce`); `Remove` is the function it returns. A callback may raise.

### ScanCache

The two looks of `get_or_compute`, the key's lock between them, the computation, `cache_if` and
the store are actions of one caller. A value is told apart by its key and the computation that
made it. `address` is the target's resolution: the DNS step, which the runner may abandon
at any moment without its thread stopping, records what it resolved, once (`Set`, through
`remember_resolution`). `Addresses` is what the name may resolve to, anew at each lookup. A
connection (`dialled`) says how it came by its address: `Connect` asks for the record
(`connect_host`) and takes it or, without one, looks the name up; `ConnectByName` looks it up
without asking, before, in and after the DNS step, as `https`, `http_headers`, `open_resolver` and
the tools of `netdiag mtu` and `netdiag trace` do. A plan may have no DNS step (`dns = "none"`).
`ReuseAgreed` is about those that ask: they agree on the address unless the scan has none, or one
of them asked before a given-up DNS step recorded it. Of the connections by name nothing is
promised.

### ProcessRun

`CheckCancelled`, `CheckBudget`, `Spawn`, then the poll loop (`communicate`, `look`), the signals
(`Signal` is `_terminate`, `_kill` and `_signal`, with the `poll()` that reaps), the exception
path (`CommunicateFails`, `WaitEnds`) and the translation into an outcome (`Conclude`).
`windows` is `_IS_WINDOWS`. The processes are external, modelled from what the code relies on:
`communicate()` ends when nobody holds the pipe and the command is dead; a dead command keeps its
id until `poll()` or `wait()` reaps it. Outside a scope `run` is `subprocess.run`, which is not
modelled.

### PlanValidation

`steps` is one of `Inputs`. The loops of `__post_init__` are actions in their order: each step is
constructed (`WellFormed`), ids must be unique, dependencies known, and then `visit` runs on each
step. `path` is the list of open calls, `mark` the dictionary `state`, `left` the dependencies each
open call has still to visit, `root` the place of the outer loop. Abstraction:
the order in which a step's dependencies are visited is left open (the code has a tuple's), so the
results hold for every order.

### ScanPlans

The helpers of `plans.py` and `budgets.py` as operators; `BuiltPlans` is everything the commands
and the window can ask for. A step carries, beside what the validation reads, the function it
binds and the counts and timeouts it is called with, so that `BudgetCovers` can compare the step's
budget with the time the function may take. There is one target, so a lane is its prefix; seconds
are integers. `TcpTimeouts` is the `--timeout` of `netdiag tcp`, a number that nothing checks: any
integer (the fractions between, infinity and NaN are left out). `HopelessTimeouts` are those that
leave its step no budget, so that `Step` refuses it. `BudgetCovers` counts the timeouts of
commands and of TCP connects; the durations of TLS and HTTP exchanges, whose timeouts hold for one
operation, have no bound to count, and neither has the lookup of a name that `connect_ex` is given
where no address was recorded (`netdiag tcp` and `netdiag scan` have no DNS step).

### Diagnostics

One step of a scan: `fn` is one of twelve diagnostics, `Calls` the commands a sequential one runs
in their order, `place` where it is. The MTU search and the pools of `host_discovery`, `port_scan`
and `tcp_multi_port` ask for their calls in `Due`. A connection (`Connect` for HTTPS and the
system resolver, `ConnectTo` for a port) and a look into psutil (`AskPsutil`) are not stopped by
anything but their own timeouts: neither the budget nor a cancellation cuts them short. A call of
`process.run` is refused (`Refuse`: the checks before the spawn) or started (`Run`), and ends by
itself (`CommandEnds`) or is stopped (`CommandTimesOut`, `CommandCancelled`); `Handle` is what the
diagnostic makes of its outcome: `except Exception` makes a result of everything but
`ScanCancelled`, which leaves the diagnostic, at once or, in the pool, through `future.result()`.
`Expire` and `Complete` are the runner's part. `network` is the truth the commands are about;
`cut` and `lost` are history.

Abstractions. Parsing is its outcome: a full answer, a partial one, none, an error. Time is in
ticks, in which what `run` does between spawn and reap (`ProcessRun`) takes none. The step is not
abandoned (`ScanRunner`). An address, or a port, is a member of `Hosts`; whether a subnet is one
is left open (`RefuseSubnet` is `host_discovery`'s early return). `Carried` says that a probe is
answered only if the path carries it; it need not be, and then `lost` says so.

### SecurityAudit

`at` is where each check is, `findings` what it has reported. `Start` and `Abandon` are what the
runner's lanes, dependencies and budgets leave the three TLS checks: one at a time, except that
an abandoned one goes on. `cached_value`, the handshake and its reuse are `ReuseHandshake`,
`BeginFetch` and `FetchEnds`; the version loop is `LookForVersion` and `TestVersion`; DNSSEC's
three queries are `QueryName`, `FindApex` and `QueryApex`. `relied` is history: what the target
did that a check went by. Abstractions: a connection with its handshake is one action, and so is
a query; a certificate is its days and whether its key signs it; the library's errors are the
kinds the code tells apart. An audit is the TLS checks together, or one of the others alone:
those share no state with any other check.

### GuiWindow

`queue` holds the queued signals and deferred deletions of Qt's event loop; the scan thread
emits items, its report and `finished`; every slot of the window is an action. The nested event
loop of the closing question is `pc = "asking"`, in which queued events are handled, the
two-second wait is `pc = "waiting"`, in which none is. The steps of `Plan` finish in any order, each
with some results; an item's order key is `step * 1000 + position` and the panel inserts it before
the first row with a greater one (`InsertRow`). A change of theme clears the findings and adds
every one again (`ThemeChanged`). What Qt does with signals, `isRunning` and
`deleteLater` is external.

## 3. Runs

| run | shows | states |
|---|---|---|
| `CommandLine_scans` | the runner under its callers: its safety properties, the refinement of `ScanContract`, true exit codes and progress line, and that every command and scan ends | 720k |
| `ScanRunner_zombies` | *violation*: an abandoned step's thread overlaps the next step of its lane | |
| `CancelToken_callbacks` | callbacks run at most once, and none is lost | 835 |
| `ProcessRun_stops` | outcomes, reaping, signals, and that a cancellation stops the command | 25k |
| `ProcessRun_group` | *violation*: a child that outlives the command is not killed | |
| `ScanCache_shared` | single flight, agreement, one machine for all that reuse the address, calls return | 572k |
| `ScanPlans_built` | the validation decides rightly; the built plans are accepted (but the hopeless), ordered and have time enough | 8.5k |
| `Diagnostics_scoped` | a completed step was not cut short; the MTU found is right, in few probes | 795k |
| `SecurityAudit_findings` | failures are earned, one handshake, no contradiction, DNSSEC; every check returns | 279k |
| `SecurityAudit_exposure` | *violation*: PASS for ports no connection was tried to | |
| `GuiWindow_scans` | one scan, live worker, rows in plan order, right report, safe close, the bar comes back | 243k |
| `GuiWindow_close` | *violation*: a pending close that never happens | |

**Bounds and why they are enough.**

- Runner: three steps, of which two share a lane, one waits for another, one starts beside it;
  with two workers a pass can meet the bound.
  One step has a budget, so that each run has a step that can be abandoned and one that can
  not. `Outputs` gives several items, none, and both types. Two Ctrl+C, as the second is the one
  nothing catches; a command with and without a terminal, and another caller with a token. The
  proofs below lift all of the safety properties to every plan and number of workers, and to any
  number of Ctrl+C.
- Token: two cancellers (a third would find the flag set like the second) and three callbacks,
  one of which fails between two others in the list.
- Process: two children, of which one holds the pipe and the other and the command are stubborn;
  both platforms.
- Cache: three callers, so that one computes while two wait; two keys, one of which hangs; each
  caller calls once. Reuse after the fact is a caller that asks after another has left. A DNS
  step, or none, that may be abandoned with its address still to record; a name with two
  addresses; and any two connections (`MaxDialled` 2), since `ReuseAgreed` is about pairs.
- Plans: all that are built, for five probe timeouts (the shortest, the default's neighbours and
  one beyond every default budget), timeouts of `netdiag tcp` of minutes, none and less than none,
  which leave a budget above, at and below zero for one wave and for several, MTU ranges at powers
  of two and empty, port and host counts at and beside a full wave. Beside them, for the
  validation: every graph of three steps, every graph of four with at most one dependency each
  (the longest cycles), pairs of ill-formed steps, and the empty plan. The proofs lift the
  validation to every finite input, and what is said of the built plans to every timeout, range
  and count.
- Diagnostics: ranges of seven sizes (2^k - 1: the most that k probes decide), eight, one and
  none, and paths that carry less than the range, its ends, a size within and more; three
  addresses or ports for a pool of two, some up; a command timeout of two ticks with no budget,
  one below and one above it, and a clock that runs beyond them all (`Horizon` 5). The proofs lift
  what is found, in how many probes and what is cut short to every value.
- Security: certificates expired, about to and not (the fourteenth day included), self-signed
  and not; a handshake that negotiates a deprecated version and a current one; a version that
  cannot be tested; two headers; three ports, so that some and not all are reachable.
- Window: two scans, so that events of one can meet the next, of a plan of three steps: two of
  them fill the same panel, one with two results, so that rows arrive before and after their
  successors. `GuiWindow_proofs` lifts all of it to any number of scans of any plan.

**Fairness.** `CommandLine`: the caller's thread (the command's, or the coordinator's under
another caller) runs, and a deadline or grace period that is being waited for passes; the queue's
`get` has a timeout (`POLL_INTERVAL_S`), so the coordinator never sleeps for good. Nothing is
assumed of step threads, of the user or of Ctrl+C. `CancelToken`: a thread that took callbacks
goes on with them. `ScanCache`: a thread inside a call goes on, except a computation of a hanging
key; weak fairness is enough for the lock since calls are bounded. `ProcessRun`: `run` goes on,
the grace period passes, a process dies of a signal it does not ignore; `communicate` is strongly
fair, because polling disables it again and again only between two attempts. `SecurityAudit`: the
runner starts what may start, and a check goes on, as every connection and query has a timeout.
`GuiWindow`: the event loop handles its queue and the scan thread ends (which `CommandEnds` shows
for a scan that does not wait for a step without a budget); the user need do nothing.

**Deadlock** is checked except where the system really stops: a scan that has its report, a
process that has its outcome, a plan that has its verdict, an audit whose checks have returned, a
step that has its verdict, a token or a cache whose callers are done.

## 4. Proofs

Every theorem holds for every value of the constants that satisfies the module's assumptions.
Those say what the code ensures: `PlanAssumption` and `AfterAssumption` are what
`ScanPlan.__post_init__` enforces (the second is acyclicity: some step of any set waits for none
of it), `CacheAssumption` is about types and bounds. `DiagnosticsAssumption` gives the questions,
addresses and times their types, `CountsAssumption` the timeouts and counts of a plan theirs: the
`--timeout` of `netdiag tcp` any integer, an MTU range any two, the others naturals, which the
settings (`probe_timeout`) and the counting of ports and addresses ensure. Every safety invariant
and every action property of the passing runs is stated by a theorem. The inductive invariants are
proved, so the runs check what follows from them rather than them.

- `ScanRunner_proofs`: types, lane exclusion, dependency order, the worker bound, earned and
  final verdicts. `IInv` is their inductive invariant: none of them is inductive alone. Lane
  exclusion needs that `busyLanes` is the union of the running steps' lanes; that in turn needs
  pending, running and finished to be disjoint, so that a late completion cannot free lanes
  (`Books`); an earned verdict needs that a completion in the queue or in hand is that of a
  thread that has delivered, once (`HandOver`). Each action is a step of the proof and each
  conjunct it can disturb a step below it.
- `ScanRunner_proofs`, second part: the refinement (`RunnerImplementsContract`), from `IInv` and
  `Closing` (winding down leaves nothing pending, and the report is assembled only when nothing
  runs). The outcome is true (`OutcomesTrue`) and the coordinator never waits in vain
  (`NeverIdle`), from `Accounted`: until a scan winds down every step is on one of the books, and
  a pass over the plan starts with something to start or to wait for; acyclicity of the plan gives
  the step that can start. The events come in the promised order (`EventsInOrder`), from
  `Announced`: how far each step's announcements are follows from its place in the books and from
  `pc`. The report is in plan order (`ReportsOrdered`), from `Reported`: a step's items name the
  step, and a report that is there is the one assembled from the books. `OneMoreStep` says that
  appending the items of a plan's next step keeps what is assembled a list of the items so far,
  each once and in order (`MadeOf`), `AssembledInOrder` that the whole fold therefore is one.
- `ScanRunner_proofs`, third part, the callers: every step of a command, of its Ctrl+C and of
  another caller is one of the runner or none (`CallersKeepContract`). The exit code of a command
  that printed its report says what became of the run and of its steps, and that of one that ran
  nothing is 1 or 2 (`ExitCodesTrue`), from `InStep`, how far the command and its scan are, and
  `ErrorsShow`, by which a diagnostic step that did not run to its end has an error in the report.
  The progress line says what the callback heard (`ProgressLinesTrue`), from `LineKept` (what
  `_shown` covers of the line) and `ToldOnce` (no step is announced over twice or too early,
  whatever a Ctrl+C cuts off).
- `GuiWindow_proofs`: one scan, live worker and safe close, for any number of scans of any plan.
  `OneScan` rests on the queue: the window lets go of its worker at a `finished` event, so there
  must be one such event at most, that of the window's own worker, whose thread has ended
  (`EventsTrue`). The worker lives because its `deleteLater` is queued before its `finished` and only
  its handling queues the deletion, behind both. `AskedTrue` is what lets the close trust the worker
  it asked about in the nested loop. The lemmas `Queued`, `Taken`, `EndQueued` and `DeletionQueued`
  say what each change of the queue does to its order.
- `GuiWindow_proofs`, second part: the rows and the report (`RowsOrdered`, `ReportOnScreen`), from
  `ShownInv`: what is queued is the latest run's and its results come before its report
  (`ResultsTrue`), an item is on the screen or on its way to it, once (`ItemsOnce`), and a report
  that can be exported finds no result still queued (`ReportTrue`). `InsertedRow` says where a new
  row goes, `StillSorted` that the panel stays in order and loses no row, `SameRowsAgain` that a
  change of theme, which clears a panel and adds its rows again, shows the same rows.
- `CancelToken_proofs`: at most once, from `Whereabouts`: a callback is in one place, the list or
  the hands of one canceller, or nowhere any more.
- `ScanCache_proofs`: single flight, fitness, agreement, no replacement, from `LockHeld` (the
  holder of a key's lock is exactly the thread inside) and `GivenIsStored`. One machine for all
  that reuse the address (`ReusersAgree`), from `DialledRecorded`: the address is recorded once,
  whoever found it went there, and who found none asked in a scan that has none yet or whose DNS
  step was given up.
- `SecurityAudit_proofs`: the four invariants of the security checks, for any certificates, versions
  and sets of checks run together. One handshake serves all, because whoever fetches holds the key's
  lock over an empty cache, and what a check went by is what the cache keeps unless it is not kept at
  all (`FetchedOnce`). The version check does not contradict the certificate check because it
  follows it, unless that was abandoned, and never tests a version that is known (`VersionsFollow`):
  the invariant ties the place in the version loop to what the other check has negotiated. The
  verdicts rest on what is reported with each step (`VersionsTrue`, `ExpiryTrue`, `HostnameTrue`,
  `ResolverTrue`, `DnssecTrue`). `OthersKept` says once that a step of one check leaves the others
  alone. `AuditAssumption` is that a handshake negotiates only versions the local library can be
  pinned to.
- `ProcessRun_proofs`: outcomes, reaping and signals, from `CommandStages` and `StopFounded`.
- `PlanValidation_proofs`: the verdict is right and the cycle named is one, for every input. Both
  rest on `PathKept` (the path holds the steps being visited, each once, and each waits for the next)
  and `DoneKept` (what a finished step waits for is finished). A refused plan has the named
  cycle, which no order can satisfy. For an accepted one take any set of steps of which each
  waits for another in the set: the first of them to be finished would have waited for a step
  finished before it; this is what `AfterAssumption` of the runner asks of its plan.
- `PlanValidation_proofs`, second part: the plans that are built, whatever is asked of them
  (`BuiltPlansAccepted`, `WritersRunFirst`, `BudgetsCover`). `HopelessInvalid` is that a hopeless
  plan of `netdiag tcp` is not well formed, `GoodPlans` that all others are what follows. Each
  helper of `plans.py` returns good steps (`GoodStep`): a step waits for the writer of what it
  reads, only for the DNS step and the certificate check, and its budget is longer than its own
  timeouts can last. A part of a plan is made of good steps with known ids, each once (`Part`);
  parts with different ids join to one (`Joined`); a plan that is a part with its dependencies in
  it (`GoodPlan`) is accepted: the DNS step waits for none, the certificate check for the DNS step
  at most. For the MTU search this takes `ProbesBounded` and `CeilLog2Enough`, which bound the
  probes the budget counts; `SearchFitsBudget` puts it together with the probes the search makes
  (`SearchHalves` of `Diagnostics`): all of them fit into its budget.
- `Diagnostics_proofs`: nothing cut short, for each of the twelve, and the MTU found. The first
  rests on `CutEndsLate` (a refused or stopped command means that the budget is over, which it
  stays, or that a cancellation is on its way out) with `Judged`; the second on `Bracketed` (what
  is below `low` the path carries, what is above `high` it does not), and on the first, since a
  probe that was cut short says nothing. Both need `Awaited`: a command runs only while its
  diagnostic waits for it. The search makes few probes (`SearchHalves`) because each leaves at
  most half of the sizes (`Halved`).

**The safety behind the liveness.** Each liveness property of the runs rests on something never being
lost or left waiting for itself, and that much is proved for every value of the constants:

| liveness, checked | safety behind it, proved |
|---|---|
| `CommandEnds` | `CompletionsKept`: a completion is in the queue or in the coordinator's hand until it is on the books, unless a Ctrl+C takes it out of that hand; `NeverIdle` |
| `NoneLost` | `CallbacksKept`: once the token is cancelled, a callback not removed in time has run or is in the hands of a thread about to run it |
| `CancelStops` | `StopsReachTheCommand`: a command that still runs has been sent what `run` decided on, and is doomed once it was killed or is waited for |
| `CallsReturn` | `NoCircularWait`: whoever waits for a key's lock finds it free, or held by a thread in a call of the same key, which waits for no lock |
| `BarComesBack` | `BarFounded`: the bar is disabled exactly while the run's thread runs or its one report is queued, and the window still has the worker |
| `ChecksReturn` | `HandshakeNotHeldIdle`: the lock of the handshake is held only by a check that is at it, given up or not; `AuditsWindDown`: every step lowers the steps a check has to go, tries a port more or gives a check up, and none takes that back |

**Recursion.** What the models compute by recursion is written as recursive functions and folds,
and the theorems of the library that take an operator are not used. Their place is taken by
induction over a set of naturals (`SetInduction`, from the least element of one, `LeastNat`) and
over the lists in a set (`ListInduction`); that a fold or a recursive function unfolds is proved
first (`OnlyUnfolds`, `FlattenUnfolds`, `PowersDouble`, `ProbingExists`), by building the function
it chooses.

**Only model-checked:** the six liveness properties (`CommandEnds`, `NoneLost`, `CancelStops`,
`CallsReturn`, `BarComesBack`, `ChecksReturn`): liveness under fairness is out of the prover's reach.

## 5. Findings

1. `Step.lanes` promises that steps of one lane never run at the same time. The books keep that
   (`LaneExclusion`, proved); the threads do not: abandoning a step frees its lane while its
   thread goes on. In the run the path MTU search is given up and `ping`, of the same lane, starts
   beside it (`ScanRunner_zombies`).
2. A port check that raised counts as a closed port: when the name of the target cannot be
   resolved, the exposure check reports PASS, "All closed or filtered"
   (`SecurityAudit_exposure`).
3. `process.run` signals the command's group only while the command itself is alive: a child
   that outlives it and holds the pipe gets no kill, and `run` waits for it
   (`ProcessRun_group`).
4. A close that waited in vain connects itself to `finished` after the thread may have emitted
   it; the window then stays open and disabled (`GuiWindow_close`).

Seen while modelling, without a run of its own: `netdiag tcp --timeout -10` (or less; with more
than ten ports a smaller negative number is enough) ends with the traceback of `Step`'s
`ValueError` and exit code 1, which is documented as a failed diagnostic, before anything ran
(`PlanRefused`, `HopelessTimeouts`); a Ctrl+C between `_finish`'s bookkeeping and its emissions
loses the rest of that step's events although `ScanFinished` comes (the report is not affected,
and `EventProtocol` excludes it by name); `dig +short` prints nothing for SERVFAIL and NXDOMAIN
too, so that without dnspython DNSSEC is "not detected" there, which `DnssecEarned` therefore says
only of dnspython; a service that speaks only TLS 1.1 is skipped as unreachable when no handshake
was recorded; the worst case of the gateway check in `budgets.py` leaves out one of its commands,
without harm, as the budget covers it; `main.py` gives an interrupted scan the exit code 130 and a
partial report, but a Ctrl+C in `_assemble`, in the emission of `ScanFinished`, after the runner
or for a second time leaves the command as Click's abort, with exit code 1 (`Abort`); a Ctrl+C
between `ProgressLine`'s write and the noting of its length leaves a residue of the line beside
the report (`torn`, which `ProgressTrue` excludes by name); a security step that crashed or ran
out of its budget is an ERROR finding, which `exit_code_for` does not count, so that the exit code
may be 0 (`ExitTrue` therefore speaks of diagnostic steps); on a platform without a known command
`host_discovery` reports PASS with no active host, where ping, traceroute and the MTU search
report SKIP.

## 6. Not modelled

- Target validation (`utils/validation.py`), the parsing of command output, certificates and
  answers: what they say of a string is string processing without state. The models start from
  their outcomes, every one that the code tells apart.
- Sockets, HTTP and TLS inside one operation: one connection or query is one action.
- The formatting of reports, the cells, colours and cards of the panels, settings, styles, logging:
  layout and output, without state that several steps touch. The order of the rows and what is
  on the screen when a report is exported are modelled.
- The context variable that carries a scope to a step's thread: one per thread, set before the step
  and reset after it.
- `NetDiag.ps1`: a sequential script that shares no code with the package.

## 7. Plan

Done, in this order: runner, contract and refinement; token; process; cache; window; validation,
plans and budgets; security checks; diagnostics; the command line over the runner; the resolved
address; the rows of the panels; connections and scans of ports; proofs of the outcome, the events,
the exit codes, the window and the security checks; proofs of the report, the progress line, the rows
and their export, the built plans and their budgets, the probes of the MTU search, and of the safety
behind the liveness. What could follow: the window and the runner in one model, with the worker's
token; decreasing measures, like that of the security checks, for the runner and `process.run`.
