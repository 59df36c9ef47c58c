------------------------------ MODULE GuiWindow ------------------------------
(***************************************************************************)
(* The main window and its scan threads (netdiag/gui/main_window.py and    *)
(* workers.py).  A ScanWorker runs a scan in a QThread of its own; what it *)
(* signals is queued for the GUI thread, which handles one event at a time *)
(* between the user's clicks.  The steps of a scan finish in any order;    *)
(* the panels (widgets/) insert their results where the plan has them.     *)
(*                                                                         *)
(* External, as the code relies on Qt: queued signals arrive in order;     *)
(* `finished` is emitted as the thread ends, to the slots connected then;  *)
(* deleteLater deletes the worker in a later event, in the loop of an open *)
(* dialog too; wait() blocks the GUI thread; a deleted worker raises when  *)
(* used, and a closeEvent that raises leaves the event accepted.           *)
(***************************************************************************)
EXTENDS Naturals, FiniteSetsExt, SequencesExt

CONSTANTS MaxRuns,   \* bound on the scans started
          Plan       \* for each step, the panel of its results and a bound on their number

Panels == {"diagnostics", "findings"}

OrderStride == 1000

ASSUME BoundsAssumption == MaxRuns \in Nat \ {0}
ASSUME PlanAssumption   == Plan \in Seq([panel : Panels, results : 1..OrderStride])

Runs == 1..MaxRuns
None == 0      \* _worker is None

\* The order key of a step's item, and the panel an order key belongs to.
OrderKey(step, position) == step * OrderStride + position
PanelOf(order) == Plan[order \div OrderStride].panel
Orders == UNION {{OrderKey(s, i) : i \in 0..(Plan[s].results - 1)} : s \in DOMAIN Plan}

VARIABLES
    pc, asked,        \* the GUI thread, and closeEvent's local `worker`
    queue,            \* the events waiting for it
    worker,           \* _worker
    started,          \* how many scans have been started
    thread, items,    \* per run: its QThread, and the order keys of the results it has emitted
    token,            \* the runs whose token is cancelled
    deleted,          \* the workers Qt has deleted
    busy,             \* the target bar is disabled
    cancelArmed,      \* btn_cancel is enabled
    shown,            \* the rows of each panel: of which run, with which order key
    report,           \* _report: of which run, and its items
    exportable,       \* the report panel's buttons are enabled
    closePending, closeOnFinish,   \* _close_pending; finished is connected to close
    closed, logRouted              \* the window is closed; its log handler is attached

gui    == <<worker, started, busy, cancelArmed, shown, report, exportable>>
scans  == <<thread, items, token, deleted>>
ending == <<pc, asked, closePending, closeOnFinish, closed, logRouted>>
vars   == <<gui, scans, ending, queue>>

Init ==
    /\ pc = "loop" /\ asked = None /\ queue = <<>>
    /\ worker = None /\ started = 0
    /\ thread = [r \in Runs |-> "none"] /\ items = [r \in Runs |-> {}]
    /\ token = {} /\ deleted = {}
    /\ busy = FALSE /\ cancelArmed = TRUE
    /\ shown = [p \in Panels |-> <<>>] /\ report = [run |-> None, items |-> {}] /\ exportable = FALSE
    /\ closePending = FALSE /\ closeOnFinish = FALSE /\ closed = FALSE /\ logRouted = TRUE

Event(kind, r)     == [kind |-> kind, run |-> r]
ItemEvent(r, order) == [kind |-> PanelOf(order), run |-> r, order |-> order]
IsRunning(r)   == thread[r] \in {"running", "reported"}

-----------------------------------------------------------------------------
(* The user, while no dialog is open *)

Idle == pc = "loop" /\ ~closed

AppendRow(rows, row) == Append(rows, row)                             \* mutant

\* _row_for, and add_finding's index: before the first row whose order key is greater.
InsertRow(rows, row) ==
    LET later == {i \in DOMAIN rows : rows[i].order > row.order}
    IN  InsertAt(rows, IF later = {} THEN Len(rows) + 1 ELSE Min(later), row)

KeepRows == shown                                                     \* mutant

ClearedRows == [p \in Panels |-> <<>>]

\* A click on a run button, and _on_run_requested; ignored while there is a worker.
RunRequested ==
    /\ Idle /\ ~busy /\ ~closePending
    /\ worker = None /\ started < MaxRuns
    /\ started' = started + 1
    /\ worker' = started'
    /\ thread' = [thread EXCEPT ![started'] = "running"]
    /\ report' = [run |-> started', items |-> {}]
    /\ shown' = ClearedRows
    /\ exportable' = FALSE /\ busy' = TRUE
    /\ UNCHANGED <<cancelArmed, items, token, deleted, ending, queue>>

\* The Cancel button, shown while a run is in progress.
CancelClicked ==
    /\ Idle /\ busy /\ cancelArmed /\ ~closePending
    /\ worker # None
    /\ token' = token \cup {worker}
    /\ cancelArmed' = FALSE
    /\ UNCHANGED <<worker, started, busy, shown, report, exportable, thread, items, deleted,
                   ending, queue>>

\* closeEvent: an idle window detaches its log handler and closes.
CloseAccepted ==
    /\ closed' = TRUE /\ logRouted' = FALSE
    /\ UNCHANGED <<pc, asked, closePending, closeOnFinish>>

CloseEvent ==
    IF worker # None /\ IsRunning(worker)
       THEN /\ ~closePending     \* else: already waiting, the event is ignored
            /\ pc' = "asking" /\ asked' = worker
            /\ UNCHANGED <<closePending, closeOnFinish, closed, logRouted>>
       ELSE CloseAccepted

CloseClicked ==
    /\ Idle
    /\ CloseEvent
    /\ UNCHANGED <<gui, scans, queue>>

\* set_theme of the security panel: cleared, and every finding added again with its key.
ShownAgain(rows) ==
    LET Again[i \in 0..Len(rows)] ==
            IF i = 0 THEN <<>> ELSE InsertRow(Again[i - 1], rows[i])
    IN  Again[Len(rows)]

\* Preferences accepted, and the new theme applied.  (The dialog's loop handles events as the
\* main one does.)
ThemeChanged ==
    /\ Idle
    /\ shown' = [shown EXCEPT !["findings"] = ShownAgain(@)]
    /\ UNCHANGED <<worker, started, busy, cancelArmed, report, exportable, scans, ending, queue>>

-----------------------------------------------------------------------------
(* closeEvent's question and what follows; events are handled while it is open *)

AnswerNo ==
    /\ pc = "asking"
    /\ pc' = "loop"
    /\ UNCHANGED <<asked, closePending, closeOnFinish, closed, logRouted, gui, scans, queue>>

AnswerYes ==
    /\ pc = "asking"
    /\ asked \notin deleted
    /\ token' = token \cup {asked}
    /\ pc' = "waiting"
    /\ UNCHANGED <<asked, closePending, closeOnFinish, closed, logRouted, gui,
                   thread, items, deleted, queue>>

\* The scan ended behind the dialog and its worker is deleted: wait() raises, and the window
\* closes without the rest of closeEvent.
AnswerYesTooLate ==
    /\ pc = "asking"
    /\ asked \in deleted
    /\ token' = token \cup {asked}
    /\ pc' = "loop" /\ closed' = TRUE
    /\ UNCHANGED <<asked, closePending, closeOnFinish, logRouted, gui,
                   thread, items, deleted, queue>>

NeverMindTheWait == TRUE                                              \* mutant

WaitSucceeds == ~IsRunning(asked)

\* worker.wait(2000): the thread has ended in time ...
WaitEnds ==
    /\ pc = "waiting"
    /\ WaitSucceeds
    /\ pc' = "loop" /\ closed' = TRUE /\ logRouted' = FALSE
    /\ UNCHANGED <<asked, closePending, closeOnFinish, gui, scans, queue>>

\* ... or not: the window is disabled until the thread ends.
WaitTimesOut ==
    /\ pc = "waiting"
    /\ IsRunning(asked)
    /\ pc' = "connecting"
    /\ closePending' = TRUE
    /\ UNCHANGED <<asked, closeOnFinish, closed, logRouted, gui, scans, queue>>

ConnectClose ==
    /\ pc = "connecting"
    /\ pc' = "loop"
    /\ closeOnFinish' = TRUE
    /\ UNCHANGED <<asked, closePending, closed, logRouted, gui, scans, queue>>

-----------------------------------------------------------------------------
(* The scan threads *)

\* A step that has not finished yet does: _on_event gives its results their order keys.
EmitStep(r, s, n) ==
    /\ thread[r] = "running" /\ \A order \in items[r] : order \div OrderStride # s
    /\ items' = [items EXCEPT ![r] = @ \cup {OrderKey(s, i) : i \in 0..(n - 1)}]
    /\ queue' = queue \o [i \in 1..n |-> ItemEvent(r, OrderKey(s, i - 1))]
    /\ UNCHANGED <<gui, thread, token, deleted, ending>>

\* run() returns from the runner: cancelled at most if its token is.
EmitReport(r) ==
    /\ thread[r] = "running"
    /\ thread' = [thread EXCEPT ![r] = "reported"]
    /\ \E kind \in {"completed"} \cup (IF r \in token THEN {"aborted"} ELSE {}) :
          queue' = Append(queue, Event(kind, r))
    /\ UNCHANGED <<gui, items, token, deleted, ending>>

\* The thread ends: `finished` to the slots connected by now, in the order of connection.
Finish(r) ==
    /\ thread[r] = "reported"
    /\ thread' = [thread EXCEPT ![r] = "ended"]
    /\ queue' = queue \o <<Event("deleteLater", r), Event("finished", r)>>
                      \o (IF closeOnFinish THEN <<Event("close", r)>> ELSE <<>>)
    /\ UNCHANGED <<gui, items, token, deleted, ending>>

-----------------------------------------------------------------------------
(* The GUI thread handles the first event, in the main loop or in the dialog's *)

Handling(kind) ==
    /\ pc \in {"loop", "asking"} /\ ~closed
    /\ queue # <<>>
    /\ Head(queue).kind = kind

Rest == queue' = Tail(queue)

OnItem(panel) ==
    /\ Handling(panel)
    /\ LET row == [run |-> Head(queue).run, order |-> Head(queue).order]
       IN  shown' = [shown EXCEPT ![panel] = InsertRow(@, row)]
    /\ Rest
    /\ UNCHANGED <<worker, started, busy, cancelArmed, report, exportable, scans, ending>>

\* add_diagnostic
OnDiagnostic == OnItem("diagnostics")

\* add_finding
OnFinding == OnItem("findings")

ForgetWorker == None                                                  \* mutant

WorkerAfterReport == worker

\* mutant: only a completed run gives the bar back
FinishCompleted ==
    /\ busy' = (Head(queue).kind = "aborted")
    /\ cancelArmed' = TRUE /\ worker' = WorkerAfterReport

\* _finish_run: the target bar and the Cancel button are ready again.
FinishRun == busy' = FALSE /\ cancelArmed' = TRUE /\ worker' = WorkerAfterReport

OnReport(kind, keep) ==
    /\ Handling(kind)
    /\ report' = [run |-> Head(queue).run, items |-> items[Head(queue).run]]
    /\ exportable' = (exportable \/ keep)
    /\ FinishRun
    /\ Rest
    /\ UNCHANGED <<started, shown, scans, ending>>

OnCompleted == OnReport("completed", TRUE)

\* A cancelled scan's report is kept if there is anything in it.
OnAborted == OnReport("aborted", queue # <<>> /\ items[Head(queue).run] # {})

DeletedAtOnce(r) == deleted \cup {r}                                  \* mutant

DeletedSoFar(r) == deleted

OnDeleteLater ==
    /\ Handling("deleteLater")
    /\ queue' = Append(Tail(queue), Event("deferredDelete", Head(queue).run))
    /\ deleted' = DeletedSoFar(Head(queue).run)
    /\ UNCHANGED <<gui, thread, items, token, ending>>

OnDeferredDelete ==
    /\ Handling("deferredDelete")
    /\ deleted' = deleted \cup {Head(queue).run}
    /\ Rest
    /\ UNCHANGED <<gui, thread, items, token, ending>>

OnThreadFinished ==
    /\ Handling("finished")
    /\ worker' = None
    /\ Rest
    /\ UNCHANGED <<started, busy, cancelArmed, shown, report, exportable, scans, ending>>

OnCloseSignal ==
    /\ Handling("close") /\ pc = "loop"
    /\ CloseEvent
    /\ Rest
    /\ UNCHANGED <<gui, scans>>

User ==
    \/ RunRequested \/ CancelClicked \/ CloseClicked \/ ThemeChanged
    \/ AnswerNo \/ AnswerYes \/ AnswerYesTooLate

ScanThread(r) ==
    \/ \E s \in DOMAIN Plan : \E n \in 1..Plan[s].results : EmitStep(r, s, n)
    \/ EmitReport(r) \/ Finish(r)

GuiThread ==
    \/ OnDiagnostic \/ OnFinding \/ OnCompleted \/ OnAborted
    \/ OnDeleteLater \/ OnDeferredDelete \/ OnThreadFinished \/ OnCloseSignal
    \/ WaitEnds \/ WaitTimesOut \/ ConnectClose

Next == User \/ GuiThread \/ \E r \in Runs : ScanThread(r)

Spec == Init /\ [][Next]_vars

\* The GUI thread handles its events, and a scan ends (see ScanRunner); the user does nothing.
FairSpec == Spec /\ WF_vars(GuiThread) /\ \A r \in Runs : WF_vars(ScanThread(r))

-----------------------------------------------------------------------------
(* Properties *)

TypeOK ==
    /\ pc \in {"loop", "asking", "waiting", "connecting"} /\ asked \in Runs \cup {None}
    /\ worker \in {None, started} /\ started \in 0..MaxRuns
    /\ thread \in [Runs -> {"none", "running", "reported", "ended"}]
    /\ items \in [Runs -> SUBSET Orders]
    /\ token \subseteq Runs /\ deleted \subseteq Runs
    /\ shown \in [Panels -> Seq([run : Runs, order : Orders])]
    /\ report \in [run : Runs \cup {None}, items : SUBSET Orders]
    /\ {busy, cancelArmed, exportable, closePending, closeOnFinish, closed, logRouted}
          \subseteq BOOLEAN

\* At most one scan thread runs, and the window knows it: it can be cancelled and waited for.
OneScan == \A r \in Runs : IsRunning(r) => worker = r

\* The window never keeps a worker that Qt has deleted.
WorkerAlive == worker \notin deleted

\* Whatever order the steps finish in and whatever the theme, the rows of a panel are those of
\* one scan, in plan order, each item once.
RowsInPlanOrder ==
    \A p \in Panels : \A i, j \in DOMAIN shown[p] :
        i < j => shown[p][i].order < shown[p][j].order /\ shown[p][i].run = shown[p][j].run

\* What can be exported is what is on the screen: the report of the latest run, and a row for
\* every one of its items.
ReportMatchesRows ==
    exportable => /\ report.run = started
                  /\ UNION {ToSet(shown[p]) : p \in Panels}
                        = {[run |-> started, order |-> order] : order \in report.items}

\* A window never closes over a running scan thread (Qt would abort the process).
SafeClose == closed => \A r \in Runs : ~IsRunning(r)

\* However a scan ends, the target bar comes back, unless the window is closed first.
BarComesBack == busy ~> ~busy \/ closed

\* main_window.py, closeEvent: the window closes again when the worker has finished.
CloseFollows == closePending ~> closed

-----------------------------------------------------------------------------
(* The inductive invariant behind OneScan, WorkerAlive and SafeClose *)

Ending == {"deleteLater", "deferredDelete", "finished"}
Events == [kind : Ending \cup {"completed", "aborted", "close"}, run : Runs]
          \cup [kind : Panels, run : Runs, order : Nat]

Types ==
    /\ pc \in {"loop", "asking", "waiting", "connecting"} /\ closed \in BOOLEAN
    /\ worker \in {None, started} /\ started \in 0..MaxRuns
    /\ thread \in [Runs -> {"none", "running", "reported", "ended"}] /\ deleted \subseteq Runs
    /\ queue \in Seq(Events)

\* A run has a thread once it is started, and its worker is deleted after the thread's end.
ThreadsTrue ==
    /\ \A r \in Runs : thread[r] # "none" => r <= started
    /\ \A r \in deleted : thread[r] = "ended"

\* What the queued events of a thread's end say: there is one `finished`, that of the window's
\* worker; it is behind the worker's deleteLater and before its deletion.
EventsTrue ==
    \A i \in 1..Len(queue) :
        /\ queue[i].run <= started
        /\ queue[i].kind \in Ending => thread[queue[i].run] = "ended"
        /\ queue[i].kind = "finished" =>
              queue[i].run = worker /\ \A j \in 1..Len(queue) : queue[j].kind = "finished" => j = i
        /\ queue[i].kind = "deleteLater" /\ queue[i].run = worker =>
              \E j \in 1..Len(queue) : j > i /\ queue[j].kind = "finished"
        /\ queue[i].kind = "deferredDelete" /\ queue[i].run = worker =>
              \E j \in 1..Len(queue) : j < i /\ queue[j].kind = "finished"

\* The worker closeEvent asks about is the window's, as long as the window has one.
AskedTrue == pc # "loop" => asked \in Runs /\ worker \in {asked, None}

IInv == Types /\ ThreadsTrue /\ EventsTrue /\ AskedTrue /\ OneScan /\ WorkerAlive /\ SafeClose

-----------------------------------------------------------------------------
(* ... and behind RowsInPlanOrder and ReportMatchesRows *)

Reports == {"completed", "aborted"}
Row     == [run : Runs, order : Nat]

\* A run has items once it is started, and no more once its report is on its way.
ItemsTrue ==
    /\ items \in [Runs -> SUBSET Nat]
    /\ \A r \in Runs : thread[r] = "none" => items[r] = {}

\* The results and the report still to be handled are the latest run's; the results come before
\* the report, and both before the thread's `finished`.
ResultsTrue ==
    \A i \in 1..Len(queue) :
        /\ queue[i].kind \in Panels \cup Reports => queue[i].run = started /\ worker = started
        /\ queue[i].kind \in Reports => /\ thread[started] # "running"
                                       /\ \A j \in 1..Len(queue) : queue[j].kind = "finished" => i < j
        /\ queue[i].kind \in Panels =>
              /\ \A j \in 1..Len(queue) : queue[j].kind \in Reports \cup {"finished"} => i < j
              /\ queue[i].kind = PanelOf(queue[i].order) /\ queue[i].order \in items[started]

\* The rows are the latest run's, each in its panel and in order.
RowsTrue ==
    /\ shown \in [Panels -> Seq(Row)]
    /\ \A p \in Panels :
          /\ \A i \in 1..Len(shown[p]) : /\ shown[p][i].run = started
                                         /\ shown[p][i].order \in items[started]
                                         /\ PanelOf(shown[p][i].order) = p
          /\ \A i, j \in 1..Len(shown[p]) : i < j => shown[p][i].order < shown[p][j].order

IsShown(order)  == \E p \in Panels : \E i \in 1..Len(shown[p]) : shown[p][i].order = order
IsQueued(order) == \E i \in 1..Len(queue) : queue[i].kind \in Panels /\ queue[i].order = order

\* An item is on the screen or on its way to it, once.
ItemsOnce ==
    /\ \A i, j \in 1..Len(queue) :
          queue[i].kind \in Panels /\ queue[j].kind \in Panels /\ queue[i].order = queue[j].order => i = j
    /\ \A i \in 1..Len(queue) : queue[i].kind \in Panels => ~IsShown(queue[i].order)
    /\ started # None => \A order \in items[started] : IsShown(order) \/ IsQueued(order)

\* A report that can be exported is the whole of the latest run, all of it on the screen.
ReportTrue ==
    exportable => /\ started # None /\ report = [run |-> started, items |-> items[started]]
                  /\ thread[started] # "running"
                  /\ \A i \in 1..Len(queue) : queue[i].kind \notin Panels

ShownInv == ItemsTrue /\ ResultsTrue /\ RowsTrue /\ ItemsOnce /\ ReportTrue

ReportQueued == \E i \in 1..Len(queue) : queue[i].kind \in Reports

\* Behind BarComesBack: the bar is disabled exactly until the one report of the run is handled, by
\* a window that still has its worker; a Cancel button that was clicked has cancelled the run.
BarTrue ==
    /\ {busy, cancelArmed} \subseteq BOOLEAN
    /\ busy <=> ReportQueued \/ \E r \in Runs : thread[r] = "running"
    /\ \A i, j \in 1..Len(queue) : {queue[i].kind, queue[j].kind} \subseteq Reports => i = j
    /\ busy => worker # None
    /\ ~cancelArmed => busy /\ worker \in token
=============================================================================
