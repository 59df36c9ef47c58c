------------------------------ MODULE CommandLine ------------------------------
(***************************************************************************)
(* The runner and its callers.  A command (netdiag/cli) runs a plan in its *)
(* main thread, with a token nobody else has: Ctrl+C may strike at any     *)
(* moment, the events drive the progress line on stderr, and the report    *)
(* and the exit code come out of the result.  Any other caller of          *)
(* ScanRunner.run, like the window's worker (netdiag/gui/workers.py), only *)
(* waits for it and may hold its token.                                    *)
(*                                                                         *)
(* External, as the code relies on Click: a refused option ends the        *)
(* command with exit code 2; KeyboardInterrupt that leaves it with 1; any  *)
(* other exception ends the interpreter, with 1 too.                       *)
(***************************************************************************)
EXTENDS ScanRefinement

VARIABLES
    caller,       \* who runs the plan
    interactive,  \* stderr is a terminal: there is a progress line
    line,         \* ProgressLine: _finished, _running and _shown
    drawn,        \* how many columns of the terminal's line are written on
    writing,      \* the length of a text just written and not yet noted in _shown
    torn,         \* a Ctrl+C came between those two
    shell,        \* how far the command is
    printed,      \* the report is out
    noted,        \* ctx.meta has an interrupted result
    code          \* the exit code

progress == <<line, drawn, writing, torn>>
command  == <<caller, interactive, progress, shell, printed, noted, code>>
all      == <<vars, command>>

Nil == 0      \* nothing written that is not noted

LInit ==
    /\ Init
    /\ caller \in {"command", "other"}
    /\ interactive \in BOOLEAN /\ (caller = "other" => ~interactive)
    /\ line = [finished |-> 0, running |-> <<>>, shown |-> 0]
    /\ drawn = 0 /\ writing = Nil /\ torn = FALSE
    /\ shell = "options" /\ printed = FALSE /\ noted = FALSE /\ code = 0

-----------------------------------------------------------------------------
(* The progress line *)

\* The columns of _render's text: the counters, and the label of the step started last.
Width(labels) == 1 + IF labels = <<>> THEN 0 ELSE Place(Last(labels))

Overwritten(was, width, shown) == IF was > width THEN was ELSE width        \* mutant

\* What is left on the line by `\r`, the text, and spaces up to the columns known as shown.
AfterWrite(was, width, shown) == IF was > width /\ was > shown THEN was ELSE width

\* An event that _render follows.
Show(l) ==
    IF interactive
       THEN /\ line' = l
            /\ writing' = Width(l.running)
            /\ drawn' = AfterWrite(drawn, Width(l.running), l.shown)
            /\ UNCHANGED torn
       ELSE UNCHANGED progress

\* _shown = len(text), the callback's last act.
NoteShown ==
    /\ writing # Nil
    /\ line' = [line EXCEPT !.shown = writing]
    /\ writing' = Nil
    /\ UNCHANGED <<vars, caller, interactive, drawn, torn, shell, printed, noted, code>>

\* clear: spaces over the columns known as shown.
Clear ==
    /\ drawn' = IF drawn > line.shown THEN drawn ELSE 0
    /\ line' = [line EXCEPT !.shown = 0]
    /\ UNCHANGED <<writing, torn>>

KeepStep(labels, s) == labels                                               \* mutant

WithoutStep(labels, s) == Only(labels, Steps \ {s})

Started(l, s)  == [l EXCEPT !.running = Append(@, s)]
Finished(l, s) == [l EXCEPT !.running = WithoutStep(@, s), !.finished = @ + 1]

\* An action of the coordinator that the line does not hear of.
Unheard ==
    /\ Coordinator
    /\ scanTold' = scanTold
    /\ \A s \in Steps : /\ told'[s].started = told[s].started
                        /\ told'[s].finished = told[s].finished
    /\ UNCHANGED progress

\* The coordinator, in the command's thread: it waits for the callback to return.
CommandScans ==
    /\ shell = "scanning" /\ writing = Nil
    /\ \/ Begin /\ Show(line)
       \/ EmitStepStarted /\ Show(Started(line, cur))
       \/ EmitStepFinished /\ Show(Finished(line, cur))
       \/ EmitScanFinished /\ Clear
       \/ Unheard
    /\ UNCHANGED <<caller, interactive, shell, printed, noted, code>>

-----------------------------------------------------------------------------
(* Before and after the scan *)

\* The option callbacks accept, or Click ends the command.
ParseOptions ==
    /\ shell = "options"
    /\ \/ shell' = "building" /\ UNCHANGED code
       \/ shell' = "exited" /\ code' = 2
    /\ UNCHANGED <<vars, caller, interactive, progress, printed, noted>>

BuildPlan ==
    /\ shell = "building"
    /\ shell' = "scanning"
    /\ UNCHANGED <<vars, caller, interactive, progress, printed, noted, code>>

\* Options that were accepted make a step that its constructor refuses, like a `tcp --timeout` of
\* -10 or less (ScanPlans!HopelessTimeouts): the exception ends the command, and nothing was run.
PlanRefused ==
    /\ shell = "building"
    /\ shell' = "exited" /\ code' = 1
    /\ UNCHANGED <<vars, caller, interactive, progress, printed, noted>>

\* _execute: an interrupted result is noted for _output_report.
TakeResult ==
    /\ shell = "scanning" /\ pc = "done"
    /\ noted' = interrupted
    /\ shell' = "reporting"
    /\ UNCHANGED <<vars, caller, interactive, progress, printed, code>>

PrintReport ==
    /\ shell = "reporting"
    /\ printed' = TRUE
    /\ shell' = "exiting"
    /\ UNCHANGED <<vars, caller, interactive, progress, noted, code>>

\* The report cannot be written: the exception ends the command.
ExportFails ==
    /\ shell = "reporting"
    /\ shell' = "exited" /\ code' = 1
    /\ UNCHANGED <<vars, caller, interactive, progress, printed, noted>>

\* ERROR is the status of what the runner puts in place of a result.
Errors(list) == {i \in DOMAIN list : list[i].origin # "output"}

\* exit_code_for: failing are the indices of the results and findings whose status is FAIL.
ExitCodeFor(failing) ==
    (IF Errors(result.results) \cup failing.results # {} THEN 1 ELSE 0)
  + (IF failing.findings # {} THEN 4 ELSE 0)

CodeOfReport(failing) == ExitCodeFor(failing)                               \* mutant

ExitCode(failing) == IF noted THEN 130 ELSE ExitCodeFor(failing)

MayFail(list) == SUBSET (DOMAIN list \ Errors(list))

Exit ==
    /\ shell = "exiting"
    /\ \E failing \in [results : MayFail(result.results), findings : MayFail(result.findings)] :
          code' = ExitCode(failing)
    /\ shell' = "exited"
    /\ UNCHANGED <<vars, caller, interactive, progress, printed, noted>>

-----------------------------------------------------------------------------
(* Ctrl+C *)

\* In the runner, or in the callback it is in.
InterruptInScan ==
    /\ shell = "scanning"
    /\ Interrupt
    /\ torn' = (torn \/ writing # Nil)
    /\ writing' = Nil
    /\ UNCHANGED <<caller, interactive, line, drawn, shell, printed, noted, code>>

\* Click aborts the command when KeyboardInterrupt leaves it.
Abort ==
    /\ shell' = "aborted" /\ code' = 1
    /\ UNCHANGED <<vars, caller, interactive, progress, printed, noted>>

\* Before and after the runner.
InterruptAround ==
    /\ shell \in {"options", "building", "reporting", "exiting"} \/ (shell = "scanning" /\ pc = "done")
    /\ Abort

\* It left the runner.
Aborted == shell = "scanning" /\ pc = "raised" /\ Abort

Command ==
    /\ caller = "command"
    /\ \/ ParseOptions \/ BuildPlan \/ PlanRefused \/ CommandScans \/ NoteShown
       \/ TakeResult \/ PrintReport \/ ExportFails \/ Exit \/ Aborted

-----------------------------------------------------------------------------

Ended == shell \in {"exited", "aborted"}

CtrlC == caller = "command" /\ (InterruptInScan \/ InterruptAround)

\* The step threads are daemons: they end with the process.
StepThreads == caller = "command" /\ ~Ended /\ (\E s \in Steps : StepThread(s)) /\ UNCHANGED command

TimePasses == caller = "command" /\ Clock /\ UNCHANGED command

OtherCaller == caller = "other" /\ Next /\ UNCHANGED command

CommandOver == Ended /\ UNCHANGED all

LNext == Command \/ CtrlC \/ StepThreads \/ TimePasses \/ OtherCaller \/ CommandOver

LSpec == LInit /\ [][LNext]_all

\* The caller's thread runs and time passes; nothing is promised of the step threads.
LFairSpec ==
    /\ LSpec
    /\ WF_all(Command \/ (Coordinator /\ caller = "other" /\ UNCHANGED command))
    /\ \A s \in Steps : /\ WF_all(DeadlinePasses(s) /\ UNCHANGED command)
                        /\ WF_all(GracePasses(s) /\ UNCHANGED command)
    /\ WF_all(WindGracePasses /\ UNCHANGED command)

-----------------------------------------------------------------------------
(* Properties *)

\* What a script learns of the run from the exit code: a command that printed its report says
\* 130 exactly if a Ctrl+C interrupted the scan; 0, 4 and 5 say that the report is printed, 2 that
\* nothing was run.  1 leaves it open: a failed check, a report that could not be written, or a plan
\* that was refused before anything ran.
CodeTellsRun ==
    shell = "exited" =>
        /\ printed => (code = 130 <=> interrupted)
        /\ code \in {0, 4, 5, 130} => printed
        /\ code = 2 => pc = "begin"
        /\ pc = "begin" => code \in {1, 2}

\* ... and of the steps: 0 or 4 says that every diagnostic step ran to its end.
ExitTrue ==
    /\ CodeTellsRun
    /\ shell = "exited" /\ code \in {0, 4} => \A s \in Steps \ SecuritySteps : states[s] = "completed"

\* How far a command is, and how far its scan; only a Ctrl+C cancels a command's token.
InStep ==
    /\ caller = "other" => shell = "options"
    /\ caller = "command" /\ shell \in {"options", "building"} => pc = "begin"
    /\ caller = "command" /\ ~interrupted => ~cancelled
    /\ shell \in {"reporting", "exiting"} => pc = "done" /\ noted = interrupted
    /\ shell = "exiting" => printed
    /\ shell \in {"options", "building", "scanning", "reporting"} => ~printed
    /\ printed => pc = "done"
    /\ ExitTrue

\* The steps the callback heard finish, and those it heard start and not finish.
HeardFinish == {s \in Steps : told[s].finished}
HeardActive == {s \in Steps : told[s].started /\ ~told[s].finished}

\* The progress line says what the callback heard, whether or not a Ctrl+C came between, never
\* counts more steps than are over, and is erased before the report is printed; unless a Ctrl+C
\* came between the writing of a text and the noting of its length.
ProgressTrue ==
    /\ line.finished <= Cardinality(finished)
    /\ interactive => /\ line.finished = Cardinality(HeardFinish)
                      /\ ToSet(line.running) = HeardActive
    /\ printed => drawn = 0 \/ torn

\* What the progress line rests on: _shown covers what is on the line, unless a Ctrl+C came
\* between the two, and the line is erased when the scan is done.
LineKept ==
    /\ line \in [finished : Nat, running : Seq(Steps), shown : Nat]
    /\ drawn \in Nat /\ writing \in Nat /\ torn \in BOOLEAN
    /\ IF interactive THEN /\ line.finished = Cardinality(HeardFinish)
                           /\ ToSet(line.running) = HeardActive
                      ELSE line.finished = 0 /\ drawn = 0 /\ writing = Nil
    /\ caller = "other" => ~interactive
    /\ torn \/ IF writing = Nil THEN drawn <= line.shown ELSE drawn = writing
    /\ pc = "done" => writing = Nil /\ (drawn = 0 \/ torn)

\* A command exits, and a scan ends for any caller, whatever the step threads do, unless it waits
\* for a step without a budget, not cancelled: lanes, dependencies and worker slots never hold
\* it up.
CommandEnds ==
    []<>(\/ IF caller = "command" THEN Ended ELSE Over
         \/ ~cancelled /\ Unbounded)
=============================================================================
