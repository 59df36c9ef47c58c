------------------------------ MODULE ProcessRun ------------------------------
(***************************************************************************)
(* process.run inside a scan step (netdiag/utils/process.py): one command, *)
(* polled while it runs, stopped when the scan is cancelled or the time is *)
(* up, killed when it does not stop.                                       *)
(*                                                                         *)
(* External, and modelled from what the code relies on: communicate()      *)
(* returns once no process holds the output pipe and the command has been  *)
(* waited for; a dead command is a zombie until poll() or wait() reaps it, *)
(* and from then on its process id can be given to a stranger, unless the  *)
(* group it leads still has members.                                       *)
(***************************************************************************)
EXTENDS Naturals, FiniteSets

CONSTANTS
    Command,      \* the process Popen starts
    Children,     \* the processes it may start in its group
    PipeHolders,  \* those of them that keep its output pipe open while they run
    Stubborn      \* the processes that ignore SIGTERM

ASSUME ProcessAssumption ==
    /\ Command \notin Children /\ IsFiniteSet(Children)
    /\ PipeHolders \subseteq Children
    /\ Stubborn \subseteq Children \cup {Command}

VARIABLES
    pc,         \* where run() is
    stop,       \* stop_reason
    killed,     \* the local of that name
    outcome,    \* how run() ended
    proc,       \* the state of each process
    asked,      \* the processes sent SIGTERM
    doomed,     \* the processes sent SIGKILL
    idReused,   \* the command's process id belongs to a stranger
    strangerHit,\* a signal went to that stranger
    cancelled, expired,  \* the token; the step's budget
    timeUp,     \* effective_timeout has passed since the start
    graceUp,    \* KILL_GRACE_S has passed since the stop request
    windows     \* _IS_WINDOWS, which never changes

local   == <<pc, stop, killed, outcome>>
system  == <<proc, asked, doomed, idReused, strangerHit>>
clock   == <<cancelled, expired, timeUp, graceUp, windows>>
vars    == <<local, system, clock>>

Procs    == Children \cup {Command}
OwnGroup == ~windows
Outcomes == {"cancelled", "timeout", "raised", "checked_failure", "done"}

Init ==
    /\ pc = "check" /\ stop = "none" /\ killed = FALSE /\ outcome = "none"
    /\ proc = [p \in Procs |-> "none"]
    /\ asked = {} /\ doomed = {} /\ idReused = FALSE /\ strangerHit = FALSE
    /\ cancelled \in BOOLEAN /\ expired \in BOOLEAN
    /\ timeUp = FALSE /\ graceUp = FALSE
    /\ windows \in BOOLEAN

RunningProcs == {p \in Procs : proc[p] = "running"}

End(how) == pc' = "ended" /\ outcome' = how

-----------------------------------------------------------------------------
(* run() *)

CheckCancelled ==
    /\ pc = "check"
    /\ IF cancelled THEN End("cancelled") ELSE pc' = "budget" /\ outcome' = outcome
    /\ UNCHANGED <<stop, killed, system, clock>>

CheckBudget ==
    /\ pc = "budget"
    /\ IF expired THEN End("timeout") ELSE pc' = "spawn" /\ outcome' = outcome
    /\ UNCHANGED <<stop, killed, system, clock>>

Spawn ==
    /\ pc = "spawn"
    /\ pc' = "communicate"
    /\ proc' = [proc EXCEPT ![Command] = "running"]
    /\ UNCHANGED <<stop, killed, outcome, asked, doomed, idReused, strangerHit, clock>>

\* The arguments are refused, or Popen fails (no such program).
SpawnFails ==
    /\ pc = "spawn"
    /\ End("raised")
    /\ UNCHANGED <<stop, killed, system, clock>>

Reaped == [proc EXCEPT ![Command] = IF @ = "zombie" THEN "reaped" ELSE @]

SignalAnyway == FALSE                                                 \* mutant

\* _signal: poll() first, which reaps a dead command; nothing is sent once it is reaped.
NothingToSignal == proc[Command] # "running"

\* Windows has no graceful signal: both become TerminateProcess, of the command only.
Signal(sig) ==
    LET receivers == IF OwnGroup THEN RunningProcs ELSE {Command} \cap RunningProcs
        hit == IF NothingToSignal THEN {} ELSE receivers
        kills == sig = "kill" \/ windows
    IN  /\ proc' = Reaped
        /\ asked' = IF kills THEN asked ELSE asked \cup hit
        /\ doomed' = IF kills THEN doomed \cup hit ELSE doomed
        /\ strangerHit' = (strangerHit \/ (~NothingToSignal /\ idReused))
        /\ idReused' = idReused

CommunicateEnds ==
    /\ pc = "communicate"
    /\ proc[Command] # "running"
    /\ RunningProcs \cap PipeHolders = {}
    /\ proc' = Reaped
    /\ pc' = "outcome"
    /\ UNCHANGED <<stop, killed, outcome, asked, doomed, idReused, strangerHit, clock>>

\* subprocess.TimeoutExpired after POLL_INTERVAL_S.
PollIntervalPasses ==
    /\ pc = "communicate"
    /\ pc' = "look"
    /\ UNCHANGED <<stop, killed, outcome, system, clock>>

\* Any other exception (output that cannot be decoded, a Ctrl+C): kill, then wait.
CommunicateFails ==
    /\ pc = "communicate"
    /\ pc' = "wait"
    /\ Signal("kill")
    /\ UNCHANGED <<stop, killed, outcome, clock>>

OutOfTime == expired \/ timeUp

Look ==
    /\ pc = "look"
    /\ stop = "none"
    /\ pc' = "communicate"
    /\ IF cancelled \/ OutOfTime
          THEN /\ stop' = IF cancelled THEN "cancelled" ELSE "timeout"
               /\ graceUp' = FALSE
               /\ Signal("terminate")
          ELSE UNCHANGED <<stop, graceUp, system>>
    /\ UNCHANGED <<killed, outcome, cancelled, expired, timeUp, windows>>

NeverKill == FALSE                                                    \* mutant

KillDue == ~killed /\ graceUp

LookAgain ==
    /\ pc = "look"
    /\ stop # "none"
    /\ pc' = "communicate"
    /\ IF KillDue THEN killed' = TRUE /\ Signal("kill") ELSE UNCHANGED <<killed, system>>
    /\ UNCHANGED <<stop, outcome, clock>>

NoNeedToWait == TRUE                                                  \* mutant

WaitOver == proc[Command] # "running"

\* proc.wait() and the streams closed; the exception goes on.
WaitEnds ==
    /\ pc = "wait"
    /\ WaitOver
    /\ proc' = Reaped
    /\ End("raised")
    /\ UNCHANGED <<stop, killed, asked, doomed, idReused, strangerHit, clock>>

IgnoreStop == {"checked_failure", "done"}                             \* mutant

\* What the ended command means: the stop reason wins over the exit status, which check
\* turns into CalledProcessError.
Endings ==
    CASE stop = "cancelled" -> {"cancelled"}
      [] stop = "timeout"   -> {"timeout"}
      [] stop = "none"      -> {"checked_failure", "done"}

Conclude ==
    /\ pc = "outcome"
    /\ \E how \in Endings : End(how)
    /\ UNCHANGED <<stop, killed, system, clock>>

-----------------------------------------------------------------------------
(* The processes, the scan and the clock *)

\* Only a command still running starts children.
Fork(c) ==
    /\ proc[Command] = "running"
    /\ Command \notin doomed
    /\ proc[c] = "none"
    /\ proc' = [proc EXCEPT ![c] = "running"]
    /\ UNCHANGED <<local, asked, doomed, idReused, strangerHit, clock>>

\* By itself or because of a signal; a child is reaped by its own parent or by init.
Exit(p) ==
    /\ proc[p] = "running"
    /\ proc' = [proc EXCEPT ![p] = IF p = Command THEN "zombie" ELSE "reaped"]
    /\ UNCHANGED <<local, asked, doomed, idReused, strangerHit, clock>>

Obeys(p) == p \in doomed \/ (p \in asked /\ p \notin Stubborn)

ReuseId ==
    /\ proc[Command] = "reaped"
    /\ RunningProcs = {}
    /\ ~idReused
    /\ idReused' = TRUE
    /\ UNCHANGED <<local, proc, asked, doomed, strangerHit, clock>>

CancelScan ==
    /\ ~cancelled /\ cancelled' = TRUE
    /\ UNCHANGED <<local, system, expired, timeUp, graceUp, windows>>

\* The deadline, or expire() by the runner's backstop.
BudgetPasses ==
    /\ ~expired /\ expired' = TRUE
    /\ UNCHANGED <<local, system, cancelled, timeUp, graceUp, windows>>

TimeoutPasses ==
    /\ ~timeUp /\ pc \in {"communicate", "look"} /\ timeUp' = TRUE
    /\ UNCHANGED <<local, system, cancelled, expired, graceUp, windows>>

GracePasses ==
    /\ stop # "none" /\ ~graceUp /\ graceUp' = TRUE
    /\ UNCHANGED <<local, system, cancelled, expired, timeUp, windows>>

Run ==
    \/ CheckCancelled \/ CheckBudget \/ Spawn \/ SpawnFails
    \/ CommunicateEnds \/ PollIntervalPasses \/ CommunicateFails
    \/ Look \/ LookAgain \/ WaitEnds \/ Conclude

Environment ==
    \/ \E c \in Children : Fork(c)
    \/ \E p \in Procs : Exit(p)
    \/ ReuseId \/ CancelScan \/ BudgetPasses \/ TimeoutPasses \/ GracePasses

Next == Run \/ Environment

Spec == Init /\ [][Next]_vars

\* run() itself makes progress, the grace period passes, and a process dies of a signal it
\* does not ignore.  Nothing makes a command end by itself, and no timeout has to pass.
FairSpec ==
    /\ Spec
    /\ WF_vars(CheckCancelled \/ CheckBudget \/ Spawn)
    /\ WF_vars(Look \/ LookAgain \/ WaitEnds \/ Conclude)
    /\ WF_vars(PollIntervalPasses) /\ SF_vars(CommunicateEnds)
    /\ WF_vars(GracePasses)
    /\ \A p \in Procs : WF_vars(Obeys(p) /\ Exit(p))

-----------------------------------------------------------------------------
(* Properties *)

TypeOK ==
    /\ pc \in {"check", "budget", "spawn", "communicate", "look", "wait", "outcome", "ended"}
    /\ stop \in {"none", "cancelled", "timeout"}
    /\ killed \in BOOLEAN
    /\ outcome \in Outcomes \cup {"none"} /\ (outcome = "none" <=> pc # "ended")
    /\ proc \in [Procs -> {"none", "running", "zombie", "reaped"}]
    /\ asked \subseteq Procs /\ doomed \subseteq Procs
    /\ idReused \in BOOLEAN /\ strangerHit \in BOOLEAN
    /\ cancelled \in BOOLEAN /\ expired \in BOOLEAN
    /\ timeUp \in BOOLEAN /\ graceUp \in BOOLEAN /\ windows \in BOOLEAN

\* What run() reports is what happened: an exit status only of a command that run() never
\* signalled, a timeout only of time that has passed, a cancellation only of a cancelled scan.
OutcomeHonest ==
    /\ outcome \in {"checked_failure", "done"} => asked \cup doomed = {} /\ ~killed
    /\ outcome = "timeout" => OutOfTime
    /\ outcome = "cancelled" => cancelled

\* However run() ends, its command neither runs on nor stays behind as a zombie.
CommandReaped == pc = "ended" => proc[Command] \in {"none", "reaped"}

\* No signal reaches a process that was given the dead command's process id.
NoStrangerSignalled == ~strangerHit

\* The life of the command as run() goes on, and what run() knows of it.
CommandStages ==
    /\ pc \in {"check", "budget", "spawn"} => proc[Command] = "none"
    /\ pc \in {"communicate", "look", "wait"} => proc[Command] # "none"
    /\ pc = "outcome" => proc[Command] = "reaped"
    /\ idReused => proc[Command] = "reaped"

StopFounded ==
    /\ stop = "none" /\ pc \notin {"wait", "ended"} => asked \cup doomed = {} /\ ~killed
    /\ stop = "cancelled" => cancelled
    /\ stop = "timeout" => OutOfTime

\* Behind CancelStops: a command that still runs has been sent what run() decided on, and is
\* doomed once run() has killed it or waits for it.
StopSent ==
    /\ pc \in {"check", "budget", "spawn"} => stop = "none" /\ ~killed
    /\ proc[Command] = "running" =>
          /\ stop # "none" => Command \in asked \cup doomed
          /\ killed \/ pc = "wait" => Command \in doomed

\* The inductive invariant.
IInv ==
    /\ TypeOK /\ OutcomeHonest /\ CommandReaped /\ NoStrangerSignalled
    /\ CommandStages /\ StopFounded /\ StopSent

PipeHeld == RunningProcs \cap PipeHolders # {}

\* A cancelled scan ends a running command, even one that ignores SIGTERM, and run() with
\* it: without the command's help, unless one of its children keeps the output pipe open.
CancelStops == cancelled /\ pc \in {"communicate", "look"} ~> pc = "ended" \/ []PipeHeld

\* process.py's header: on cancellation or expiry the whole process group is terminated,
\* escalating to kill.
GroupKilled == OwnGroup /\ killed => RunningProcs \subseteq doomed
=============================================================================
