---------------------------- MODULE PlanValidation ----------------------------
(***************************************************************************)
(* What netdiag/runner/plan.py lets through: the checks of each Step, then *)
(* those of ScanPlan: unique ids, known dependencies and no cycle, found   *)
(* by a depth-first search.  The search is one action per call and return  *)
(* of visit(); its argument `path` and the interpreter's stack are one     *)
(* sequence.  The order of a step's dependencies is left open.             *)
(***************************************************************************)
EXTENDS Integers, FiniteSets, SequencesExt

CONSTANTS
    Ids,     \* step ids
    Inputs   \* the sequences of steps that a plan may be built from

\* A sequence of steps.  budget is {} for None.
StepSequence(st) ==
    /\ st \in Seq({st[i] : i \in DOMAIN st})
    /\ \A i \in DOMAIN st : /\ st[i].id \in Ids
                            /\ st[i].after \subseteq Ids
                            /\ st[i].budget \subseteq Int

ASSUME InputsAssumption == \A st \in Inputs : StepSequence(st)

VARIABLES
    steps,    \* the steps in hand
    pc,       \* how far the checks have come, "accepted" or "rejected"
    problem,  \* what the ValueError complains of
    root,     \* the next step of the loop over the steps
    path,     \* the calls of visit() that have not returned
    left,     \* for each id, the dependencies visit() has still to follow
    mark,     \* the search's `state`
    cycle     \* the ids the error message names

vars == <<steps, pc, problem, root, path, left, mark, cycle>>

Checks   == {"steps", "duplicates", "unknown", "search"}
Problems == {"none", "step", "duplicate", "unknown", "cycle"}
Marks    == {"new", "visiting", "done"}

WellFormed(s) == (\A b \in s.budget : b > 0) /\ s.id \notin s.after

IdsOf(st) == {st[i].id : i \in DOMAIN st}

DepsOf(st, s) == st[CHOOSE i \in DOMAIN st : st[i].id = s].after

Init ==
    /\ steps \in Inputs
    /\ pc = "steps"
    /\ problem = "none"
    /\ root = 1
    /\ path = <<>>
    /\ left = [s \in Ids |-> {}]
    /\ mark = [s \in Ids |-> "new"]
    /\ cycle = <<>>

Refuse(why) == pc' = "rejected" /\ problem' = why

Pass(next) == pc' = next /\ UNCHANGED problem

CheckSteps ==
    /\ pc = "steps"
    /\ IF \A i \in DOMAIN steps : WellFormed(steps[i])
       THEN Pass("duplicates")
       ELSE Refuse("step")
    /\ UNCHANGED <<steps, root, path, left, mark, cycle>>

UniqueIds(st) == \A i, j \in DOMAIN st : st[i].id = st[j].id => i = j

CheckDuplicates ==
    /\ pc = "duplicates"
    /\ IF UniqueIds(steps) THEN Pass("unknown") ELSE Refuse("duplicate")
    /\ UNCHANGED <<steps, root, path, left, mark, cycle>>

KnownDeps(st) == \A i \in DOMAIN st : st[i].after \subseteq IdsOf(st)

CheckUnknown ==
    /\ pc = "unknown"
    /\ IF KnownDeps(steps) THEN Pass("search") ELSE Refuse("unknown")
    /\ UNCHANGED <<steps, root, path, left, mark, cycle>>

\* A call of visit() that finds nothing in `state`.
Enter(s) ==
    /\ mark' = [mark EXCEPT ![s] = "visiting"]
    /\ left' = [left EXCEPT ![s] = DepsOf(steps, s)]
    /\ path' = Append(path, s)

\* The loop over the steps calls visit(step.id, []).
NextRoot ==
    /\ pc = "search" /\ path = <<>> /\ root <= Len(steps)
    /\ root' = root + 1
    /\ IF mark[steps[root].id] = "done"
       THEN UNCHANGED <<path, left, mark>>
       ELSE Enter(steps[root].id)
    /\ UNCHANGED <<steps, pc, problem, cycle>>

Follow(d) ==
    /\ pc = "search" /\ path # <<>>
    /\ d \in left[Last(path)]
    /\ UNCHANGED <<steps, root>>

Met(d)      == mark[d] # "new"                                         \* mutant
Finished(d) == mark[d] = "done"
Advanced(d) == left[Last(path)] \ {d}

VisitDone(d) ==
    /\ Follow(d)
    /\ Finished(d)
    /\ left' = [left EXCEPT ![Last(path)] = Advanced(d)]
    /\ UNCHANGED <<pc, problem, path, mark, cycle>>

VisitNew(d) ==
    /\ Follow(d)
    /\ mark[d] = "new"
    /\ Enter(d)
    /\ UNCHANGED <<pc, problem, cycle>>

FromRoot(k, d) == k = 1                                                  \* mutant
IndexOf(k, d)  == path[k] = d

\* path[path.index(step_id):] + [step_id]
VisitAgain(d) ==
    /\ Follow(d)
    /\ mark[d] = "visiting"
    /\ \E k \in DOMAIN path :
          /\ IndexOf(k, d)
          /\ cycle' = Append(SubSeq(path, k, Len(path)), d)
    /\ Refuse("cycle")
    /\ UNCHANGED <<path, left, mark>>

Marked(s)       == [mark EXCEPT ![s] = "done"]

\* All dependencies followed: visit() marks the step and returns to its caller,
\* whose loop goes on with the next one.
Return ==
    /\ pc = "search" /\ path # <<>>
    /\ left[Last(path)] = {}
    /\ mark' = Marked(Last(path))
    /\ path' = Front(path)
    /\ left' = [s \in Ids |-> IF Len(path) > 1 /\ s = path[Len(path) - 1]
                              THEN left[s] \ {Last(path)} ELSE left[s]]
    /\ UNCHANGED <<steps, pc, problem, root, cycle>>

Accept ==
    /\ pc = "search" /\ path = <<>> /\ root > Len(steps)
    /\ Pass("accepted")
    /\ UNCHANGED <<steps, root, path, left, mark, cycle>>

Next ==
    \/ CheckSteps \/ CheckDuplicates \/ CheckUnknown
    \/ NextRoot \/ Return \/ Accept
    \/ \E d \in Ids : VisitDone(d) \/ VisitNew(d) \/ VisitAgain(d)

Spec == Init /\ [][Next]_vars

-----------------------------------------------------------------------------
TypeOK ==
    /\ StepSequence(steps)
    /\ pc \in Checks \cup {"accepted", "rejected"}
    /\ problem \in Problems
    /\ root \in 1 .. Len(steps) + 1
    /\ path \in Seq(IdsOf(steps))
    /\ left \in [Ids -> SUBSET Ids]
    /\ mark \in [Ids -> Marks]
    /\ cycle \in Seq(Ids)

\* Some step of any set of steps waits for none of it: the steps can be started
\* one after another until none is left.
Schedulable(st) ==
    \A D \in (SUBSET IdsOf(st)) \ {{}} : \E s \in D : DepsOf(st, s) \cap D = {}

Valid(st) ==
    /\ \A i \in DOMAIN st : WellFormed(st[i])
    /\ UniqueIds(st)
    /\ KnownDeps(st)
    /\ Schedulable(st)

\* ScanPlan is built exactly from the steps that can all be scheduled: an accepted
\* plan cannot keep the runner waiting, and no such plan is turned away.
VerdictRight ==
    /\ pc = "accepted" => Valid(steps)
    /\ pc = "rejected" => ~ Valid(steps)

\* The message of a rejected plan names a real cycle: each step named runs after the next.
CycleNamed ==
    problem = "cycle" =>
        /\ Len(cycle) > 1
        /\ cycle[1] = Last(cycle)
        /\ \A i \in 1 .. Len(cycle) - 1 : cycle[i + 1] \in DepsOf(steps, cycle[i])

\* The strengthening that makes VerdictRight inductive.
Done == {s \in Ids : mark[s] = "done"}

PathKept ==
    /\ \A s \in Ids : mark[s] = "visiting" <=> \E i \in DOMAIN path : path[i] = s
    /\ \A i, j \in DOMAIN path : path[i] = path[j] => i = j
    /\ \A i \in 1 .. Len(path) - 1 : path[i + 1] \in DepsOf(steps, path[i])
    /\ \A i \in DOMAIN path : /\ left[path[i]] \subseteq DepsOf(steps, path[i])
                              /\ DepsOf(steps, path[i]) \subseteq Done \cup left[path[i]]

DoneKept ==
    /\ Done \subseteq IdsOf(steps)
    /\ \A s \in Done : DepsOf(steps, s) \subseteq Done
    /\ \A D \in (SUBSET Done) \ {{}} : \E s \in D : DepsOf(steps, s) \cap D = {}
    /\ \A i \in 1 .. root - 1 : mark[steps[i].id] # "new"

Checked ==
    /\ pc \in {"duplicates", "unknown"} => \A i \in DOMAIN steps : WellFormed(steps[i])
    /\ pc = "unknown" => UniqueIds(steps)
    /\ pc \in {"search", "accepted"} \/ problem = "cycle" =>
          (\A i \in DOMAIN steps : WellFormed(steps[i])) /\ UniqueIds(steps) /\ KnownDeps(steps)
    /\ pc = "rejected" <=> problem # "none"
    /\ problem = "cycle" => cycle \in Seq(IdsOf(steps))

IInv == TypeOK /\ Checked /\ PathKept /\ DoneKept /\ CycleNamed /\ VerdictRight

=============================================================================
