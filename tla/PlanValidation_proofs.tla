------------------------ MODULE PlanValidation_proofs ------------------------
(***************************************************************************)
(* VerdictRight and CycleNamed, for any steps; and what the plans the      *)
(* program builds promise (BuiltAccepted, WritersFirst, BudgetCovers), for *)
(* any timeouts, sizes and counts.  The second part goes from a step       *)
(* (GoodStep) to a part of a plan (Part) to a plan (GoodPlan); its first   *)
(* lemmas evaluate the recursive functions it meets, by the least element  *)
(* of the set of naturals where a claim fails.                             *)
(***************************************************************************)
EXTENDS ScanPlans, NaturalsInduction, WellFoundedInduction, TLAPS

\* A step's dependencies are ids, and those of a plan without unknown ones are its ids.
LEMMA DepsAreIds ==
    ASSUME NEW st, StepSequence(st), NEW s \in IdsOf(st)
    PROVE  /\ DepsOf(st, s) \subseteq Ids
           /\ KnownDeps(st) => DepsOf(st, s) \subseteq IdsOf(st)
<1>1. PICK i \in DOMAIN st : st[i].id = s
  BY DEF IdsOf
<1>2. PICK j \in DOMAIN st : j = (CHOOSE k \in DOMAIN st : st[k].id = s)
  BY <1>1
<1>. QED
  BY <1>2 DEF DepsOf, StepSequence, KnownDeps

\* The ids of a sequence of steps are among the constant's.
LEMMA IdsTyped == ASSUME NEW st, StepSequence(st) PROVE IdsOf(st) \subseteq Ids
  BY DEF StepSequence, IdsOf

\* What is followed is a dependency of the step in hand, and a step of the plan.
LEMMA FollowKnown ==
    ASSUME IInv, NEW d \in Ids, Follow(d)
    PROVE  /\ Len(path) \in DOMAIN path /\ Last(path) = path[Len(path)]
           /\ d \in DepsOf(steps, Last(path)) /\ d \in IdsOf(steps)
<1>1. Len(path) \in DOMAIN path /\ Last(path) = path[Len(path)] /\ Last(path) \in IdsOf(steps)
  BY DEF IInv, TypeOK, Follow, Last
<1>2. d \in DepsOf(steps, Last(path)) /\ KnownDeps(steps)
  BY <1>1 DEF IInv, PathKept, Checked, Follow
<1>. QED
  BY <1>1, <1>2, DepsAreIds DEF IInv, TypeOK

\* An index that is not the last has a next one.
LEMMA NotLast == \A n \in Nat : \A k \in 1 .. n : k # n => k \in 1 .. n - 1 /\ k + 1 \in 1 .. n
  OBVIOUS

\* Types are kept.
LEMMA TypeNext == IInv /\ [Next]_vars => TypeOK'
<1> SUFFICES ASSUME IInv, [Next]_vars PROVE TypeOK'
  OBVIOUS
<1>t. TypeOK
  BY DEF IInv
<1> USE <1>t DEF TypeOK, Checks, Problems, Marks
<1>i. IdsOf(steps) \subseteq Ids
  BY IdsTyped
<1>l. Len(steps) \in Nat /\ DOMAIN steps = 1 .. Len(steps)
  BY DEF StepSequence
<1>e. ASSUME NEW s \in IdsOf(steps), Enter(s)
      PROVE  /\ path' \in Seq(IdsOf(steps))
             /\ left' \in [Ids -> SUBSET Ids]
             /\ mark' \in [Ids -> Marks]
  BY <1>e, <1>i, DepsAreIds DEF Enter
<1>1. CASE CheckSteps
  BY <1>1 DEF CheckSteps, Refuse, Pass
<1>2. CASE CheckDuplicates
  BY <1>2 DEF CheckDuplicates, Refuse, Pass
<1>3. CASE CheckUnknown
  BY <1>3 DEF CheckUnknown, Refuse, Pass
<1>4. CASE NextRoot
  <2>1. steps[root].id \in IdsOf(steps) /\ root + 1 \in 1 .. Len(steps) + 1
    BY <1>4, <1>l DEF NextRoot, IdsOf
  <2>. QED
    BY <1>4, <1>e, <2>1 DEF NextRoot
<1>5. CASE Return
  <2>1. Last(path) \in IdsOf(steps) /\ Front(path) \in Seq(IdsOf(steps))
    BY <1>5 DEF Return, Last, Front
  <2>. QED
    BY <1>5, <1>i, <2>1 DEF Return, Marked
<1>6. CASE Accept
  BY <1>6 DEF Accept, Pass
<1>7. ASSUME NEW d \in Ids, VisitDone(d) PROVE TypeOK'
  BY <1>7, <1>i DEF VisitDone, Follow, Advanced, Last
<1>8. ASSUME NEW d \in Ids, VisitNew(d) PROVE TypeOK'
  BY <1>8, <1>e, FollowKnown DEF VisitNew, Follow
<1>9. ASSUME NEW d \in Ids, VisitAgain(d) PROVE TypeOK'
  BY <1>9, <1>i DEF VisitAgain, Follow, Refuse
<1>10. CASE UNCHANGED vars
  BY <1>10 DEF vars
<1>. QED
  BY <1>1, <1>2, <1>3, <1>4, <1>5, <1>6, <1>7, <1>8, <1>9, <1>10 DEF Next

\* The checks that were passed hold of the steps.
LEMMA CheckedNext == IInv /\ [Next]_vars => Checked'
<1> SUFFICES ASSUME IInv, [Next]_vars PROVE Checked'
  OBVIOUS
<1>t. TypeOK /\ Checked
  BY DEF IInv
<1> USE <1>t DEF Checked
<1>1. CASE CheckSteps
  BY <1>1 DEF CheckSteps, Refuse, Pass
<1>2. CASE CheckDuplicates
  BY <1>2 DEF CheckDuplicates, Refuse, Pass
<1>3. CASE CheckUnknown
  BY <1>3 DEF CheckUnknown, Refuse, Pass
<1>4. CASE NextRoot
  BY <1>4 DEF NextRoot
<1>5. CASE Return
  BY <1>5 DEF Return
<1>6. CASE Accept
  BY <1>6 DEF Accept, Pass
<1>7. ASSUME NEW d \in Ids, VisitDone(d) PROVE Checked'
  BY <1>7 DEF VisitDone, Follow
<1>8. ASSUME NEW d \in Ids, VisitNew(d) PROVE Checked'
  BY <1>8 DEF VisitNew, Follow
<1>9. ASSUME NEW d \in Ids, VisitAgain(d) PROVE Checked'
  <2>1. PICK k \in DOMAIN path : cycle' = Append(SubSeq(path, k, Len(path)), d)
    BY <1>9 DEF VisitAgain
  <2>2. SubSeq(path, k, Len(path)) \in Seq(IdsOf(steps))
    BY DEF TypeOK
  <2>3. cycle' \in Seq(IdsOf(steps))
    BY <1>9, <2>1, <2>2, FollowKnown DEF VisitAgain
  <2>. QED
    BY <1>9, <2>3 DEF VisitAgain, Follow, Refuse
<1>10. CASE UNCHANGED vars
  BY <1>10 DEF vars
<1>. QED
  BY <1>1, <1>2, <1>3, <1>4, <1>5, <1>6, <1>7, <1>8, <1>9, <1>10 DEF Next

\* visit() enters a step that is not on the path, which stays one of dependencies.
LEMMA PathEnters ==
    ASSUME IInv, NEW s \in IdsOf(steps), mark[s] = "new", Enter(s), UNCHANGED steps,
           \A k \in DOMAIN path : k = Len(path) => s \in DepsOf(steps, path[k])
    PROVE  PathKept'
<1>1. s \in Ids /\ DepsOf(steps, s) \subseteq Ids
  BY IdsTyped, DepsAreIds DEF IInv, TypeOK
<1>2. path \in Seq(IdsOf(steps)) /\ \A i \in DOMAIN path : path[i] \in Ids /\ path[i] # s
  BY IdsTyped DEF IInv, TypeOK, PathKept
<1>3. /\ path' = Append(path, s) /\ Len(path') = Len(path) + 1 /\ DOMAIN path' = 1 .. Len(path) + 1
      /\ \A i \in DOMAIN path : path'[i] = path[i]
      /\ path'[Len(path) + 1] = s
      /\ DOMAIN path = 1 .. Len(path) /\ Len(path) \in Nat
  BY <1>2 DEF Enter
<1>4. Done' = Done /\ mark' = [mark EXCEPT ![s] = "visiting"] /\ mark \in [Ids -> Marks]
      /\ left' = [left EXCEPT ![s] = DepsOf(steps, s)] /\ left \in [Ids -> SUBSET Ids]
  BY <1>1 DEF IInv, TypeOK, Done, Enter, Marks
<1>5. (\A t \in Ids : mark[t] = "visiting" <=> \E i \in DOMAIN path : path[i] = t)'
  BY <1>1, <1>2, <1>3, <1>4 DEF IInv, PathKept
<1>6. (\A i, j \in DOMAIN path : path[i] = path[j] => i = j)'
  BY <1>2, <1>3 DEF IInv, PathKept
<1>7. (\A i \in 1 .. Len(path) - 1 : path[i + 1] \in DepsOf(steps, path[i]))'
  <2> SUFFICES ASSUME NEW i \in 1 .. Len(path) PROVE path'[i + 1] \in DepsOf(steps, path'[i])
    BY <1>3
  <2>1. CASE i = Len(path)
    BY <1>3, <2>1
  <2>2. CASE i # Len(path)
    <3>1. i \in 1 .. Len(path) - 1 /\ i \in DOMAIN path /\ i + 1 \in DOMAIN path
      BY <1>3, <2>2, NotLast, Zenon
    <3>2. path[i + 1] \in DepsOf(steps, path[i])
      BY <3>1 DEF IInv, PathKept
    <3>. QED
      BY <1>3, <3>1, <3>2
  <2>. QED
    BY <2>1, <2>2
<1>8. (\A i \in DOMAIN path : /\ left[path[i]] \subseteq DepsOf(steps, path[i])
                              /\ DepsOf(steps, path[i]) \subseteq Done \cup left[path[i]])'
  <2> SUFFICES ASSUME NEW i \in 1 .. Len(path) + 1
               PROVE  /\ left'[path'[i]] \subseteq DepsOf(steps, path'[i])
                      /\ DepsOf(steps, path'[i]) \subseteq Done \cup left'[path'[i]]
    BY <1>3, <1>4
  <2>1. CASE i = Len(path) + 1
    BY <1>1, <1>3, <1>4, <2>1
  <2>2. CASE i # Len(path) + 1
    BY <1>2, <1>3, <1>4, <2>2 DEF IInv, PathKept
  <2>. QED
    BY <2>1, <2>2
<1>. QED
  BY <1>5, <1>6, <1>7, <1>8 DEF PathKept

\* When visit() returns, what remains on the path stays as it was, but for the
\* caller, which has one dependency less to follow.
LEMMA PathReturns == IInv /\ Return => PathKept'
<1> SUFFICES ASSUME IInv, Return PROVE PathKept'
  OBVIOUS
<1> DEFINE n == Len(path)
<1>1. /\ path \in Seq(IdsOf(steps)) /\ n \in Nat \ {0} /\ DOMAIN path = 1 .. n
      /\ Last(path) = path[n] /\ path[n] \in Ids /\ \A i \in DOMAIN path : path[i] \in Ids
  BY IdsTyped DEF IInv, TypeOK, Return, Last
<1>2. /\ path' = Front(path) /\ Len(path') = n - 1 /\ DOMAIN path' = 1 .. n - 1
      /\ \A i \in 1 .. n - 1 : path'[i] = path[i]
  BY <1>1 DEF Return, Front
<1>3. /\ mark' = [mark EXCEPT ![path[n]] = "done"] /\ mark \in [Ids -> Marks]
      /\ Done' = Done \cup {path[n]} /\ UNCHANGED steps
  BY <1>1 DEF IInv, TypeOK, Return, Marked, Done
<1>4. \A i \in 1 .. n - 1 : path[i] # path[n]
  BY <1>1 DEF IInv, PathKept
<1>5. (\A t \in Ids : mark[t] = "visiting" <=> \E i \in DOMAIN path : path[i] = t)'
  <2> SUFFICES ASSUME NEW t \in Ids
               PROVE  mark'[t] = "visiting" <=> \E i \in 1 .. n - 1 : path[i] = t
    BY <1>2
  <2>1. CASE t = path[n]
    BY <1>3, <1>4, <2>1
  <2>2. CASE t # path[n]
    BY <1>1, <1>3, <2>2 DEF IInv, PathKept
  <2>. QED
    BY <2>1, <2>2
<1>6. (\A i, j \in DOMAIN path : path[i] = path[j] => i = j)'
  BY <1>1, <1>2 DEF IInv, PathKept
<1>7. (\A i \in 1 .. Len(path) - 1 : path[i + 1] \in DepsOf(steps, path[i]))'
  BY <1>1, <1>2, <1>3 DEF IInv, PathKept
<1>8. (\A i \in DOMAIN path : /\ left[path[i]] \subseteq DepsOf(steps, path[i])
                              /\ DepsOf(steps, path[i]) \subseteq Done \cup left[path[i]])'
  <2> SUFFICES ASSUME NEW i \in 1 .. n - 1
               PROVE  /\ left'[path[i]] \subseteq DepsOf(steps, path[i])
                      /\ DepsOf(steps, path[i]) \subseteq Done' \cup left'[path[i]]
    BY <1>2, <1>3
  <2>1. /\ i \in DOMAIN path /\ path[i] \in Ids
        /\ left[path[i]] \subseteq DepsOf(steps, path[i])
        /\ DepsOf(steps, path[i]) \subseteq Done \cup left[path[i]]
    BY <1>1 DEF IInv, PathKept
  <2>2. left'[path[i]] = left[path[i]] \/ left'[path[i]] = left[path[i]] \ {path[n]}
    BY <1>1 DEF Return
  <2>. QED
    BY <1>3, <2>1, <2>2
<1>. QED
  BY <1>5, <1>6, <1>7, <1>8 DEF PathKept

\* The path is one of dependencies, each with what it has still to follow.
LEMMA PathNext == IInv /\ [Next]_vars => PathKept'
<1> SUFFICES ASSUME IInv, [Next]_vars PROVE PathKept'
  OBVIOUS
<1>s. ASSUME UNCHANGED <<steps, path, left, mark>> PROVE PathKept'
  BY <1>s DEF IInv, PathKept, Done
<1>1. CASE CheckSteps
  BY <1>1, <1>s DEF CheckSteps
<1>2. CASE CheckDuplicates
  BY <1>2, <1>s DEF CheckDuplicates
<1>3. CASE CheckUnknown
  BY <1>3, <1>s DEF CheckUnknown
<1>4. CASE NextRoot
  <2>1. steps[root].id \in IdsOf(steps) /\ steps[root].id \in Ids
    BY <1>4, IdsTyped DEF NextRoot, IdsOf, IInv, TypeOK, StepSequence
  <2>2. CASE mark[steps[root].id] = "done"
    BY <1>4, <2>2, <1>s DEF NextRoot
  <2>3. CASE mark[steps[root].id] = "new"
    BY <1>4, <2>1, <2>3, PathEnters DEF NextRoot
  <2>4. mark[steps[root].id] # "visiting"
    BY <1>4, <2>1 DEF IInv, PathKept, NextRoot
  <2>. QED
    BY <2>1, <2>2, <2>3, <2>4 DEF IInv, TypeOK, Marks
<1>5. CASE Return
  BY <1>5, PathReturns
<1>6. CASE Accept
  BY <1>6, <1>s DEF Accept
<1>7. ASSUME NEW d \in Ids, VisitDone(d) PROVE PathKept'
  <2>1. d \in Done /\ UNCHANGED <<steps, path, mark>> /\ Done' = Done
    BY <1>7 DEF VisitDone, Finished, Follow, Done
  <2>2. \A t \in Ids : left'[t] = left[t] \/ left'[t] = left[t] \ {d}
    BY <1>7 DEF IInv, TypeOK, VisitDone, Advanced
  <2>3. \A i \in DOMAIN path : path[i] \in Ids
    BY IdsTyped DEF IInv, TypeOK
  <2>. QED
    BY <2>1, <2>2, <2>3 DEF IInv, PathKept
<1>8. ASSUME NEW d \in Ids, VisitNew(d) PROVE PathKept'
  BY <1>8, FollowKnown, PathEnters DEF VisitNew, Follow
<1>9. ASSUME NEW d \in Ids, VisitAgain(d) PROVE PathKept'
  BY <1>9, <1>s DEF VisitAgain, Follow
<1>10. CASE UNCHANGED vars
  BY <1>10, <1>s DEF vars
<1>. QED
  BY <1>1, <1>2, <1>3, <1>4, <1>5, <1>6, <1>7, <1>8, <1>9, <1>10 DEF Next

\* A step whose dependencies are all done joins those that can be scheduled.
LEMMA DoneReturns == IInv /\ Return => DoneKept'
<1> SUFFICES ASSUME IInv, Return PROVE DoneKept'
  OBVIOUS
<1> DEFINE top == path[Len(path)]
<1>1. Len(path) \in DOMAIN path /\ Last(path) = top /\ top \in IdsOf(steps) /\ top \in Ids
  BY IdsTyped DEF IInv, TypeOK, Return, Last
<1>2. /\ mark' = [mark EXCEPT ![top] = "done"] /\ mark \in [Ids -> Marks]
      /\ Done' = Done \cup {top} /\ UNCHANGED <<steps, root>>
  BY <1>1 DEF IInv, TypeOK, Return, Marked, Done
<1>3. DepsOf(steps, top) \subseteq Done /\ top \notin Done
  BY <1>1 DEF IInv, PathKept, Return, Done
<1>4. ASSUME NEW D \in (SUBSET (Done \cup {top})) \ {{}}
      PROVE  \E s \in D : DepsOf(steps, s) \cap D = {}
  <2>1. CASE D \ {top} = {}
    BY <1>3, <2>1
  <2>2. CASE D \ {top} # {}
    <3>1. PICK s \in D \ {top} : DepsOf(steps, s) \cap (D \ {top}) = {}
      BY <2>2 DEF IInv, DoneKept
    <3>2. DepsOf(steps, s) \subseteq Done
      BY <3>1 DEF IInv, DoneKept
    <3>. QED
      BY <1>3, <3>1, <3>2
  <2>. QED
    BY <2>1, <2>2
<1>5. (\A i \in 1 .. root - 1 : mark[steps[i].id] # "new")'
  BY <1>1, <1>2 DEF IInv, DoneKept
<1>6. Done' \subseteq IdsOf(steps) /\ \A s \in Done' : DepsOf(steps, s) \subseteq Done'
  BY <1>1, <1>2, <1>3 DEF IInv, DoneKept
<1>. QED
  BY <1>2, <1>4, <1>5, <1>6 DEF DoneKept

\* The steps done can be scheduled, and the loop has left none behind.
LEMMA DoneNext == IInv /\ [Next]_vars => DoneKept'
<1> SUFFICES ASSUME IInv, [Next]_vars PROVE DoneKept'
  OBVIOUS
<1>s. ASSUME UNCHANGED <<steps, mark, root>> PROVE DoneKept'
  BY <1>s DEF IInv, DoneKept, Done
<1>e. ASSUME NEW s \in IdsOf(steps), mark[s] = "new", Enter(s)
      PROVE  Done' = Done /\ \A t \in Ids : mark[t] # "new" => mark'[t] # "new"
  BY <1>e, IdsTyped DEF IInv, TypeOK, Done, Enter, Marks
<1>1. CASE CheckSteps
  BY <1>1, <1>s DEF CheckSteps
<1>2. CASE CheckDuplicates
  BY <1>2, <1>s DEF CheckDuplicates
<1>3. CASE CheckUnknown
  BY <1>3, <1>s DEF CheckUnknown
<1>4. CASE NextRoot
  <2> DEFINE s == steps[root].id
  <2>1. /\ \A i \in 1 .. root : steps[i].id \in IdsOf(steps) /\ steps[i].id \in Ids
        /\ root \in Nat \ {0} /\ root' = root + 1 /\ steps' = steps
    BY <1>4 DEF NextRoot, IdsOf, IInv, TypeOK, StepSequence
  <2>2. mark[s] = "done" \/ mark[s] = "new"
    BY <1>4, <2>1 DEF IInv, PathKept, NextRoot, TypeOK, Marks
  <2>3. Done' = Done /\ \A t \in Ids : mark[t] # "new" => mark'[t] # "new"
    BY <1>4, <1>e, <2>1, <2>2 DEF NextRoot, Done
  <2>4. mark'[s] # "new"
    BY <1>4, <2>1, <2>2 DEF NextRoot, Enter, IInv, TypeOK
  <2>5. ASSUME NEW i \in 1 .. root' - 1 PROVE mark'[steps[i].id] # "new"
    BY <2>1, <2>3, <2>4 DEF IInv, DoneKept
  <2>. QED
    BY <2>1, <2>3, <2>5 DEF IInv, DoneKept
<1>5. CASE Return
  BY <1>5, DoneReturns
<1>6. CASE Accept
  BY <1>6, <1>s DEF Accept
<1>7. ASSUME NEW d \in Ids, VisitDone(d) PROVE DoneKept'
  BY <1>7, <1>s DEF VisitDone, Follow
<1>8. ASSUME NEW d \in Ids, VisitNew(d) PROVE DoneKept'
  <2>1. Done' = Done /\ \A t \in Ids : mark[t] # "new" => mark'[t] # "new"
    BY <1>8, <1>e, FollowKnown DEF VisitNew
  <2>2. UNCHANGED <<steps, root>>
    BY <1>8 DEF VisitNew, Follow
  <2>3. \A i \in 1 .. root - 1 : steps[i].id \in Ids
    BY DEF IInv, TypeOK, StepSequence
  <2>. QED
    BY <2>1, <2>2, <2>3 DEF IInv, DoneKept
<1>9. ASSUME NEW d \in Ids, VisitAgain(d) PROVE DoneKept'
  BY <1>9, <1>s DEF VisitAgain, Follow
<1>10. CASE UNCHANGED vars
  BY <1>10, <1>s DEF vars
<1>. QED
  BY <1>1, <1>2, <1>3, <1>4, <1>5, <1>6, <1>7, <1>8, <1>9, <1>10 DEF Next

\* The cycle that is named is one.
LEMMA CycleNext == IInv /\ [Next]_vars => CycleNamed'
<1> SUFFICES ASSUME IInv, [Next]_vars PROVE CycleNamed'
  OBVIOUS
<1>s. ASSUME UNCHANGED <<steps, cycle>>, problem' = problem \/ problem' # "cycle" PROVE CycleNamed'
  BY <1>s DEF IInv, CycleNamed
<1>1. CASE CheckSteps
  BY <1>1, <1>s DEF CheckSteps, Refuse, Pass
<1>2. CASE CheckDuplicates
  BY <1>2, <1>s DEF CheckDuplicates, Refuse, Pass
<1>3. CASE CheckUnknown
  BY <1>3, <1>s DEF CheckUnknown, Refuse, Pass
<1>4. CASE NextRoot
  BY <1>4, <1>s DEF NextRoot
<1>5. CASE Return
  BY <1>5, <1>s DEF Return
<1>6. CASE Accept
  BY <1>6, <1>s DEF Accept, Pass
<1>7. ASSUME NEW d \in Ids, VisitDone(d) PROVE CycleNamed'
  BY <1>7, <1>s DEF VisitDone, Follow
<1>8. ASSUME NEW d \in Ids, VisitNew(d) PROVE CycleNamed'
  BY <1>8, <1>s DEF VisitNew, Follow
<1>9. ASSUME NEW d \in Ids, VisitAgain(d) PROVE CycleNamed'
  <2> DEFINE n == Len(path)
  <2>1. PICK k \in DOMAIN path : path[k] = d /\ cycle' = Append(SubSeq(path, k, n), d)
    BY <1>9 DEF VisitAgain, IndexOf
  <2>2. path \in Seq(Ids) /\ n \in Nat /\ k \in 1 .. n /\ DOMAIN path = 1 .. n
    BY IdsTyped DEF IInv, TypeOK
  <2>3. /\ Len(cycle') = n - k + 2
        /\ \A i \in 1 .. n - k + 1 : cycle'[i] = path[k + i - 1]
        /\ cycle'[n - k + 2] = d
    BY <2>1, <2>2
  <2>4. Last(cycle') = cycle'[Len(cycle')]
    BY DEF Last
  <2>5. ASSUME NEW i \in 1 .. n - k + 1 PROVE cycle'[i + 1] \in DepsOf(steps, cycle'[i])
    <3>1. CASE i = n - k + 1
      BY <1>9, <2>2, <2>3, <3>1, FollowKnown DEF VisitAgain
    <3>2. CASE i # n - k + 1
      <4>1. k + i - 1 \in 1 .. n - 1 /\ i + 1 \in 1 .. n - k + 1 /\ k + (i + 1) - 1 = (k + i - 1) + 1
        BY <2>2, <3>2
      <4>2. path[(k + i - 1) + 1] \in DepsOf(steps, path[k + i - 1])
        BY <4>1 DEF IInv, PathKept
      <4>. QED
        BY <2>3, <4>1, <4>2
    <3>. QED
      BY <3>1, <3>2
  <2>6. steps' = steps
    BY <1>9 DEF VisitAgain, Follow
  <2>. QED
    BY <2>1, <2>2, <2>3, <2>4, <2>5, <2>6 DEF CycleNamed
<1>10. CASE UNCHANGED vars
  BY <1>10, <1>s DEF vars
<1>. QED
  BY <1>1, <1>2, <1>3, <1>4, <1>5, <1>6, <1>7, <1>8, <1>9, <1>10 DEF Next

\* Steps with a cycle cannot all be scheduled: each of the cycle's waits for another.
LEMMA CycleBlocks ==
    ASSUME NEW st, NEW c \in Seq(IdsOf(st)), Len(c) > 1, c[1] = c[Len(c)],
           \A i \in 1 .. Len(c) - 1 : c[i + 1] \in DepsOf(st, c[i])
    PROVE  ~ Schedulable(st)
<1> DEFINE D == {c[i] : i \in 1 .. Len(c) - 1}
<1>1. D \subseteq IdsOf(st) /\ c[1] \in D
  OBVIOUS
<1>2. ASSUME NEW i \in 1 .. Len(c) - 1 PROVE c[i + 1] \in D
  BY <1>2
<1>3. \A s \in D : DepsOf(st, s) \cap D # {}
  BY <1>2
<1>. QED
  BY <1>1, <1>3 DEF Schedulable

\* Plans are accepted when all their steps are done, and rejected for a reason.
LEMMA VerdictNext == IInv /\ [Next]_vars => VerdictRight'
<1> SUFFICES ASSUME IInv, [Next]_vars PROVE VerdictRight'
  OBVIOUS
<1>s. ASSUME UNCHANGED steps, pc' = pc \/ pc' \in Checks PROVE VerdictRight'
  BY <1>s DEF IInv, VerdictRight, Checks
<1>1. CASE CheckSteps
  BY <1>1, <1>s DEF CheckSteps, Refuse, Pass, VerdictRight, Valid, Checks
<1>2. CASE CheckDuplicates
  BY <1>2, <1>s DEF CheckDuplicates, Refuse, Pass, VerdictRight, Valid, Checks
<1>3. CASE CheckUnknown
  BY <1>3, <1>s DEF CheckUnknown, Refuse, Pass, VerdictRight, Valid, Checks
<1>4. CASE NextRoot
  BY <1>4, <1>s DEF NextRoot
<1>5. CASE Return
  BY <1>5, <1>s DEF Return
<1>6. CASE Accept
  <2>1. \A i \in DOMAIN steps : steps[i].id \in Done
    <3> SUFFICES ASSUME NEW i \in DOMAIN steps PROVE steps[i].id \in Done
      OBVIOUS
    <3>1. i \in 1 .. root - 1 /\ steps[i].id \in Ids
      BY <1>6 DEF Accept, IInv, TypeOK, StepSequence
    <3>2. mark[steps[i].id] # "visiting"
      BY <1>6, <3>1 DEF Accept, IInv, PathKept
    <3>. QED
      BY <3>1, <3>2 DEF IInv, TypeOK, DoneKept, Done, Marks
  <2>2. IdsOf(steps) \subseteq Done
    BY <2>1 DEF IdsOf
  <2>3. Schedulable(steps)
    BY <2>2 DEF IInv, DoneKept, Schedulable
  <2>. QED
    BY <1>6, <2>3 DEF Accept, Pass, IInv, Checked, VerdictRight, Valid
<1>7. ASSUME NEW d \in Ids, VisitDone(d) PROVE VerdictRight'
  BY <1>7, <1>s DEF VisitDone, Follow
<1>8. ASSUME NEW d \in Ids, VisitNew(d) PROVE VerdictRight'
  BY <1>8, <1>s DEF VisitNew, Follow
<1>9. ASSUME NEW d \in Ids, VisitAgain(d) PROVE VerdictRight'
  <2>1. TypeOK' /\ Checked' /\ CycleNamed' /\ problem' = "cycle" /\ pc' = "rejected"
    BY <1>9, TypeNext, CheckedNext, CycleNext DEF VisitAgain, Refuse
  <2>2. cycle' \in Seq(IdsOf(steps')) /\ Last(cycle') = cycle'[Len(cycle')]
    BY <2>1 DEF Checked, Last
  <2>3. ~ Schedulable(steps')
    BY <2>1, <2>2, CycleBlocks DEF CycleNamed
  <2>. QED
    BY <2>1, <2>3 DEF VerdictRight, Valid
<1>10. CASE UNCHANGED vars
  BY <1>10, <1>s DEF vars
<1>. QED
  BY <1>1, <1>2, <1>3, <1>4, <1>5, <1>6, <1>7, <1>8, <1>9, <1>10 DEF Next

\* It holds of any steps before the first check.
LEMMA InitIInv == Init => IInv
<1> SUFFICES ASSUME Init PROVE IInv
  OBVIOUS
<1>1. TypeOK
  <2>1. StepSequence(steps)
    BY InputsAssumption DEF Init
  <2>2. root \in 1 .. Len(steps) + 1
    <3>1. Len(steps) \in Nat
      BY <2>1 DEF StepSequence
    <3>. QED
      BY <3>1 DEF Init
  <2>3. path \in Seq(IdsOf(steps)) /\ cycle \in Seq(Ids)
    BY DEF Init
  <2>4. left \in [Ids -> SUBSET Ids] /\ mark \in [Ids -> Marks]
    BY DEF Init, Marks
  <2>. QED
    BY <2>1, <2>2, <2>3, <2>4 DEF Init, TypeOK, Checks, Problems
<1>2. Checked /\ CycleNamed /\ VerdictRight
  BY DEF Init, Checked, CycleNamed, VerdictRight
<1>3. PathKept
  BY DEF Init, PathKept
<1>4. Done = {}
  BY DEF Init, Done
<1>5. DoneKept
  BY <1>4 DEF Init, DoneKept
<1>. QED
  BY <1>1, <1>2, <1>3, <1>5 DEF IInv

\* The inductive invariant holds throughout.
THEOREM Invariance == Spec => []IInv
<1>1. IInv /\ [Next]_vars => IInv'
  BY TypeNext, CheckedNext, PathNext, DoneNext, CycleNext, VerdictNext DEF IInv
<1>. QED
  BY InitIInv, <1>1, PTL DEF Spec

\* A plan is built exactly from steps that can all be scheduled (ScanPlan.__post_init__).
THEOREM VerdictsRight == Spec => []VerdictRight
<1>1. IInv => VerdictRight
  BY DEF IInv
<1>. QED
  BY Invariance, <1>1, PTL

\* The cycle of the error message is one (ScanPlan._check_acyclic).
THEOREM CyclesNamed == Spec => []CycleNamed
<1>1. IInv => CycleNamed
  BY DEF IInv
<1>. QED
  BY Invariance, <1>1, PTL

-----------------------------------------------------------------------------
(* Recursive definitions *)

\* Every set of naturals has a least element.
LEMMA LeastNat ==
  ASSUME NEW T, T \subseteq Nat, T # {}
  PROVE  \E x \in T : \A y \in T : x <= y
<1>1. IsWellFoundedOn(OpToRel(<, Nat), Nat)
  BY NatLessThanWellFounded
<1>2. PICK x \in T : \A y \in T : <<y, x>> \notin OpToRel(<, Nat)
  BY <1>1, WFMin
<1>3. ASSUME NEW y \in T PROVE ~(y < x)
  <2>1. <<y, x>> \in Nat \X Nat
    OBVIOUS
  <2> QED
    BY <1>2, <2>1 DEF OpToRel
<1> QED
  BY <1>3

\* So a set of naturals that holds 0, and the successor of each it holds, holds them all.
LEMMA SetInduction ==
  ASSUME NEW T, T \subseteq Nat, 0 \in T, \A n \in T : n + 1 \in T
  PROVE  \A n \in Nat : n \in T
<1> SUFFICES ASSUME NEW n \in Nat, n \notin T PROVE FALSE
  OBVIOUS
<1>1. PICK m \in Nat \ T : \A k \in Nat \ T : m <= k
  BY LeastNat
<1>2. m - 1 \in Nat /\ m - 1 \in T
  BY <1>1
<1> QED
  BY <1>1, <1>2

\* f is the function on 0..N with value base at 0, and step[i] applied to its last value at i.
Defines(f, N, S, base, step) ==
    f \in [0..N -> S] /\ f[0] = base /\ \A i \in 1..N : f[i] = step[i][f[i - 1]]

Definable(N, S, base, step) == \E f : Defines(f, N, S, base, step)

\* There is such a function.
LEMMA Recursion ==
  ASSUME NEW N \in Nat, NEW S, NEW base \in S, NEW step \in [1..N -> [S -> S]]
  PROVE  Definable(N, S, base, step)
<1> DEFINE T == {n \in Nat : n <= N => Definable(n, S, base, step)}
<1>1. 0 \in T
  <2> DEFINE f == [i \in 0..0 |-> base]
  <2>1. f \in [0..0 -> S] /\ f[0] = base /\ 1..0 = {}
    OBVIOUS
  <2>2. Definable(0, S, base, step)
    <3> HIDE DEF f
    <3> QED BY <2>1 DEF Defines, Definable
  <2> QED BY <2>2
<1>2. ASSUME NEW n \in T PROVE n + 1 \in T
  <2> SUFFICES ASSUME n + 1 <= N PROVE Definable(n + 1, S, base, step)
    OBVIOUS
  <2>1. PICK f : Defines(f, n, S, base, step)
    BY DEF Definable
  <2> DEFINE g == [i \in 0..(n + 1) |-> IF i <= n THEN f[i] ELSE step[n + 1][f[n]]]
  <2>2. g \in [0..(n + 1) -> S]
    BY <2>1 DEF Defines
  <2>3. g[0] = base
    BY <2>1 DEF Defines
  <2>4. ASSUME NEW i \in 1..(n + 1) PROVE g[i] = step[i][g[i - 1]]
    <3>1. CASE i = n + 1
      <4>1. g[i] = step[n + 1][f[n]] /\ g[i - 1] = f[n]
        BY <3>1
      <4> QED BY <3>1, <4>1
    <3>2. CASE i <= n
      <4>1. g[i] = f[i] /\ g[i - 1] = f[i - 1] /\ i \in 1..n
        BY <3>2
      <4> QED BY <2>1, <4>1 DEF Defines
    <3> QED BY <3>1, <3>2
  <2>5. Defines(g, n + 1, S, base, step)
    <3> HIDE DEF g
    <3> QED BY <2>2, <2>3, <2>4 DEF Defines
  <2> QED BY <2>5 DEF Definable
<1>3. \A n \in Nat : n \in T
  <2> HIDE DEF T
  <2>1. T \subseteq Nat
    BY DEF T
  <2> QED BY <1>1, <1>2, <2>1, SetInduction
<1> QED BY <1>3

\* The function on 0..n that doubles from 1 on.
Doubling(f, n) == f \in [0..n -> Nat] /\ f[0] = 1 /\ \A i \in 1..n : f[i] = 2 * f[i - 1]

\* There is one.
LEMMA DoublingExists == ASSUME NEW n \in Nat PROVE \E f : Doubling(f, n)
<1> DEFINE step == [i \in 1..n |-> [x \in Nat |-> 2 * x]]
<1>1. step \in [1..n -> [Nat -> Nat]] /\ \A i \in 1..n : \A x \in Nat : step[i][x] = 2 * x
  OBVIOUS
<1> HIDE DEF step
<1>2. PICK f : Defines(f, n, Nat, 1, step)
  BY <1>1, Recursion DEF Definable
<1>3. f \in [0..n -> Nat] /\ f[0] = 1 /\ \A i \in 1..n : f[i] = step[i][f[i - 1]]
  BY <1>2 DEF Defines
<1>4. \A i \in 1..n : f[i - 1] \in Nat
  BY <1>3
<1>5. Doubling(f, n)
  BY <1>1, <1>3, <1>4 DEF Doubling
<1> QED
  BY <1>5

\* Two of them agree as far as both go.
LEMMA DoublingUnique ==
  ASSUME NEW n \in Nat, NEW m \in Nat, NEW f, NEW g, Doubling(f, n), Doubling(g, m)
  PROVE  \A i \in Nat : i <= n /\ i <= m => f[i] = g[i]
<1> DEFINE T == {i \in Nat : i <= n /\ i <= m => f[i] = g[i]}
<1>1. 0 \in T
  BY DEF Doubling
<1>2. ASSUME NEW i \in T PROVE i + 1 \in T
  <2> SUFFICES ASSUME i + 1 <= n, i + 1 <= m PROVE f[i + 1] = g[i + 1]
    OBVIOUS
  <2>1. i + 1 \in 1..n /\ i + 1 \in 1..m /\ (i + 1) - 1 = i /\ f[i] = g[i]
    OBVIOUS
  <2> QED
    BY <2>1 DEF Doubling
<1>3. T \subseteq Nat
  OBVIOUS
<1> HIDE DEF T
<1>4. \A i \in Nat : i \in T
  BY <1>1, <1>2, <1>3, SetInduction
<1> QED
  BY <1>4 DEF T

\* PowerOfTwo doubles from 1 on, without an end.
LEMMA PowersDouble ==
  /\ PowerOfTwo[0] = 1
  /\ \A k \in Nat : PowerOfTwo[k] \in Nat /\ PowerOfTwo[k + 1] = 2 * PowerOfTwo[k]
<1> DEFINE IsPower(P) == P = [k \in Nat |-> IF k = 0 THEN 1 ELSE 2 * P[k - 1]]
           F(n) == CHOOSE f : Doubling(f, n)
           W == [n \in Nat |-> F(n)[n]]
<1>1. \A n \in Nat : Doubling(F(n), n)
  BY DoublingExists
<1> HIDE DEF F
<1>2. W[0] = 1 /\ \A n \in Nat : W[n] \in Nat
  BY <1>1 DEF Doubling
<1>3. ASSUME NEW n \in Nat, n # 0 PROVE W[n] = 2 * W[n - 1]
  <2>1. n - 1 \in Nat /\ n \in 1..n /\ n - 1 <= n
    BY <1>3
  <2>2. F(n)[n] = 2 * F(n)[n - 1]
    BY <1>1, <2>1 DEF Doubling
  <2>3. F(n)[n - 1] = F(n - 1)[n - 1]
    BY <1>1, <2>1, DoublingUnique
  <2> QED
    BY <2>1, <2>2, <2>3
<1>4. IsPower(W)
  <2>1. \A n \in Nat : W[n] = IF n = 0 THEN 1 ELSE 2 * W[n - 1]
    BY <1>2, <1>3
  <2>2. W = [n \in Nat |-> W[n]]
    OBVIOUS
  <2> HIDE DEF W
  <2> QED
    BY <2>1, <2>2
<1> HIDE DEF W
<1>5. IsPower(PowerOfTwo)
  <2>1. PowerOfTwo = CHOOSE P : IsPower(P)
    BY DEF PowerOfTwo
  <2> HIDE DEF IsPower
  <2> QED
    BY <1>4, <2>1
<1>6. PowerOfTwo[0] = 1 /\ \A k \in Nat : PowerOfTwo[k + 1] = 2 * PowerOfTwo[k]
  <2>1. PowerOfTwo[0] = 1
    BY <1>5
  <2>2. ASSUME NEW k \in Nat PROVE PowerOfTwo[k + 1] = 2 * PowerOfTwo[k]
    <3>1. k + 1 \in Nat /\ k + 1 # 0 /\ (k + 1) - 1 = k
      OBVIOUS
    <3> QED
      BY <1>5, <3>1
  <2> QED
    BY <2>1, <2>2
<1> HIDE DEF IsPower
<1> DEFINE T == {k \in Nat : PowerOfTwo[k] \in Nat}
<1>7. 0 \in T /\ \A k \in T : k + 1 \in T
  BY <1>6
<1>8. T \subseteq Nat
  OBVIOUS
<1> HIDE DEF T
<1>9. \A k \in Nat : k \in T
  BY <1>7, <1>8, SetInduction
<1> QED
  BY <1>6, <1>9 DEF T

\* There is a power of two for every size; CeilLog2 is the exponent of one.
LEMMA CeilLog2Enough ==
  ASSUME NEW n \in Nat, n >= 1
  PROVE  CeilLog2(n) \in Nat /\ PowerOfTwo[CeilLog2(n)] >= n
<1> DEFINE T == {k \in Nat : PowerOfTwo[k] >= k + 1}
<1>1. 0 \in T /\ \A k \in T : k + 1 \in T
  BY PowersDouble
<1>2. T \subseteq Nat
  OBVIOUS
<1> HIDE DEF T
<1>3. n \in T
  BY <1>1, <1>2, SetInduction
<1> DEFINE B == {k \in Nat : PowerOfTwo[k] >= n}
<1>4. n \in B /\ B \subseteq Nat
  BY <1>3, PowersDouble DEF T
<1>5. PICK k \in B : \A y \in B : k <= y
  <2> HIDE DEF B
  <2> QED
    BY <1>4, LeastNat
<1>6. k \in 0..n /\ PowerOfTwo[k] >= n
  BY <1>4, <1>5
<1>7. k = 0 \/ PowerOfTwo[k - 1] < n
  <2> SUFFICES ASSUME k # 0 PROVE PowerOfTwo[k - 1] < n
    OBVIOUS
  <2>1. k - 1 \in Nat /\ ~(k <= k - 1)
    BY <1>5
  <2> QED
    BY <1>5, <2>1, PowersDouble
<1> HIDE DEF B
<1>8. /\ CeilLog2(n) \in 0..n /\ PowerOfTwo[CeilLog2(n)] >= n
  BY <1>6, <1>7 DEF CeilLog2
<1> QED
  BY <1>8

\* The number of probes for each of the sizes up to m.
Probing(P, m) == P = [k \in 0..m |-> IF k = 0 THEN 0 ELSE 1 + P[k \div 2]]

\* It is defined.
LEMMA ProbingExists == ASSUME NEW m \in Nat PROVE \E P \in [0..m -> Nat] : Probing(P, m)
<1> DEFINE T == {n \in Nat : \E P \in [0..n -> Nat] : Probing(P, n)}
<1>1. 0 \in T
  <2> DEFINE P == [k \in 0..0 |-> 0]
  <2>1. P \in [0..0 -> Nat] /\ Probing(P, 0)
    BY DEF Probing
  <2> QED
    BY <2>1
<1>2. ASSUME NEW n \in T PROVE n + 1 \in T
  <2>1. PICK P \in [0..n -> Nat] : Probing(P, n)
    OBVIOUS
  <2>2. (n + 1) \div 2 \in 0..n
    OBVIOUS
  <2> DEFINE Q == [k \in 0..(n + 1) |-> IF k <= n THEN P[k] ELSE 1 + P[(n + 1) \div 2]]
  <2>3. Q \in [0..(n + 1) -> Nat]
    BY <2>2
  <2>4. ASSUME NEW k \in 0..(n + 1) PROVE Q[k] = IF k = 0 THEN 0 ELSE 1 + Q[k \div 2]
    <3>1. CASE k = n + 1
      BY <2>2, <3>1
    <3>2. CASE k # n + 1
      <4>1. k \in 0..n /\ k \div 2 \in 0..n
        BY <3>2
      <4>2. P[k] = IF k = 0 THEN 0 ELSE 1 + P[k \div 2]
        BY <2>1, <4>1 DEF Probing
      <4> QED
        BY <4>1, <4>2
    <3> QED
      BY <3>1, <3>2
  <2>5. Probing(Q, n + 1)
    <3> HIDE DEF Q
    <3> DEFINE R == [k \in 0..(n + 1) |-> IF k = 0 THEN 0 ELSE 1 + Q[k \div 2]]
    <3>1. \A k \in 0..(n + 1) : R[k] = Q[k]
      BY <2>4
    <3>2. DOMAIN R = DOMAIN Q /\ R = [k \in DOMAIN R |-> R[k]] /\ Q = [k \in DOMAIN Q |-> Q[k]]
      BY <2>3
    <3>3. DOMAIN R = 0..(n + 1)
      OBVIOUS
    <3> HIDE DEF R
    <3>4. R = Q
      BY <3>1, <3>2, <3>3
    <3> QED
      BY <3>4 DEF Probing, R
  <2>6. n + 1 \in Nat
    OBVIOUS
  <2> HIDE DEF Q
  <2> QED
    BY <2>3, <2>5, <2>6
<1>3. T \subseteq Nat
  OBVIOUS
<1> HIDE DEF T
<1>4. m \in T
  BY <1>1, <1>2, <1>3, SetInduction
<1> QED
  BY <1>4 DEF T

\* k probes are enough for fewer than 2^k sizes.
LEMMA ProbesBounded ==
  ASSUME NEW n \in Int, NEW k \in Nat, n < PowerOfTwo[k]
  PROVE  MostProbes(n) \in Nat /\ MostProbes(n) <= k
<1> DEFINE m == Larger(0, n)
           P == CHOOSE P : Probing(P, m)
<1>1. m \in Nat /\ m < PowerOfTwo[k]
  <2>1. PowerOfTwo[k] \in Nat /\ PowerOfTwo[k] > 0
    <3> DEFINE T == {i \in Nat : PowerOfTwo[i] > 0}
    <3>1. 0 \in T /\ \A i \in T : i + 1 \in T
      BY PowersDouble
    <3>2. T \subseteq Nat
      OBVIOUS
    <3> HIDE DEF T
    <3>3. k \in T
      BY <3>1, <3>2, SetInduction
    <3> QED
      BY <3>3, PowersDouble DEF T
  <2> QED
    BY <2>1 DEF Larger
<1> HIDE DEF m
<1>2. PICK R \in [0..m -> Nat] : Probing(R, m)
  BY <1>1, ProbingExists
<1>3. Probing(P, m)
  BY <1>2
<1>4. MostProbes(n) = P[m]
  BY DEF MostProbes, Probing, m
<1> HIDE DEF P
<1>5. P[0] = 0 /\ \A i \in 1..m : P[i] = 1 + P[i \div 2]
  <2>1. 0 \in 0..m /\ \A i \in 1..m : i \in 0..m /\ i # 0
    BY <1>1
  <2> QED
    BY <1>1, <1>3, <2>1 DEF Probing
<1> DEFINE T == {j \in Nat : \A i \in 0..m : i < PowerOfTwo[j] => P[i] \in Nat /\ P[i] <= j}
<1>6. 0 \in T
  <2>1. \A i \in 0..m : i < 1 => i = 0
    BY <1>1
  <2>2. PowerOfTwo[0] = 1
    BY PowersDouble
  <2> QED
    BY <1>5, <2>1, <2>2
<1>7. ASSUME NEW j \in T PROVE j + 1 \in T
  <2> SUFFICES ASSUME NEW i \in 0..m, i < PowerOfTwo[j + 1] PROVE P[i] \in Nat /\ P[i] <= j + 1
    OBVIOUS
  <2>1. CASE i = 0
    BY <1>5, <2>1
  <2>2. CASE i # 0
    <3>1. i \in 1..m /\ i \div 2 \in 0..m /\ i \div 2 < PowerOfTwo[j]
      <4>2. j \in Nat /\ i \in Nat
        BY <1>1
      <4>3. PowerOfTwo[j] \in Nat /\ PowerOfTwo[j + 1] = 2 * PowerOfTwo[j]
        BY <4>2, PowersDouble
      <4>1. PowerOfTwo[j] \in Nat /\ i < 2 * PowerOfTwo[j] /\ i \in Nat
        BY <4>2, <4>3
      <4> QED
        BY <1>1, <2>2, <4>1
    <3>2. P[i \div 2] \in Nat /\ P[i \div 2] <= j
      BY <3>1
    <3> QED
      BY <1>5, <3>1, <3>2
  <2> QED
    BY <2>1, <2>2
<1>8. T \subseteq Nat
  OBVIOUS
<1> HIDE DEF T
<1>9. k \in T
  BY <1>6, <1>7, <1>8, SetInduction
<1> QED
  BY <1>1, <1>4, <1>9 DEF T

\* What a step waits for is over when it runs.
LEMMA DepsAreAncestors ==
  ASSUME StepSequence(steps), KnownDeps(steps), NEW s \in IdsOf(steps)
  PROVE  DepsOf(steps, s) \subseteq Ancestors(s)
<1> DEFINE N == Len(steps)
           X == SUBSET IdsOf(steps)
           first == DepsOf(steps, s)
           More(B) == B \cup UNION {DepsOf(steps, d) : d \in B}
           step == [i \in 1..N |-> [B \in X |-> More(B)]]
           Unfolds(A) == A = [n \in 0..N |-> IF n = 0 THEN first ELSE More(A[n - 1])]
           A == CHOOSE A : Unfolds(A)
<1>1. N \in Nat /\ first \in X
  BY DepsAreIds DEF StepSequence
<1>2. step \in [1..N -> [X -> X]]
  <2>1. \A B \in X : More(B) \in X
    BY DepsAreIds
  <2> HIDE DEF More, X, N
  <2> QED
    BY <2>1
<1>3. Ancestors(s) = A[N]
  BY DEF Ancestors
<1>4. PICK f : f \in [0..N -> X] /\ f[0] = first /\ \A i \in 1..N : f[i] = step[i][f[i - 1]]
  <2> HIDE DEF N, X, first, step
  <2> QED
    BY <1>1, <1>2, Recursion DEF Definable, Defines
<1> HIDE DEF N, X, first, More
<1>5. \A i \in 1..N : f[i - 1] \in X /\ f[i] = More(f[i - 1])
  <2>1. \A i \in 1..N : i - 1 \in 0..N
    BY <1>1
  <2>2. \A i \in 1..N : f[i - 1] \in X
    BY <1>4, <2>1
  <2>3. \A i \in 1..N : \A B \in X : step[i][B] = More(B)
    OBVIOUS
  <2> HIDE DEF step
  <2> QED
    BY <1>4, <2>2, <2>3
<1>6. Unfolds(f)
  BY <1>1, <1>4, <1>5
<1> HIDE DEF A
<1>7. Unfolds(A)
  <2> HIDE DEF Unfolds
  <2> QED
    BY <1>6 DEF A
<1>8. A[0] = first /\ \A i \in 1..N : A[i] = More(A[i - 1])
  BY <1>1, <1>7
<1> HIDE DEF Unfolds
<1> DEFINE T == {n \in Nat : n <= N => first \subseteq A[n]}
<1>9. 0 \in T
  BY <1>8
<1>10. ASSUME NEW n \in T PROVE n + 1 \in T
  <2> SUFFICES ASSUME n + 1 <= N PROVE first \subseteq A[n + 1]
    OBVIOUS
  <2>1. n + 1 \in 1..N /\ (n + 1) - 1 = n /\ first \subseteq A[n]
    BY <1>1
  <2>2. A[n + 1] = More(A[n])
    BY <1>8, <2>1
  <2> QED
    BY <2>1, <2>2 DEF More
<1>11. T \subseteq Nat
  OBVIOUS
<1> HIDE DEF T
<1>12. N \in T
  BY <1>1, <1>9, <1>10, <1>11, SetInduction
<1> QED
  BY <1>1, <1>3, <1>12 DEF T, first

-----------------------------------------------------------------------------
(* The steps the program builds *)

\* What a step of a plan promises, in a plan whose steps wait for `after`: it waits for the steps
\* whose values it reads, and its budget is longer than it can take.
GoodStep(s, after) ==
    /\ s.id \notin s.after /\ s.after \subseteq after \cup {"tls.expiry"}
    /\ "tls.expiry" \in s.after => s.id \in {"tls.versions", "tls.hostname"}
    /\ "address" \in Reads(s) => after \subseteq s.after
    /\ "handshake" \in Reads(s) => "tls.expiry" \in s.after
    /\ "address" \in Writes(s) => s.id = "dns"
    /\ "handshake" \in Writes(s) => s.id = "tls.expiry"
    /\ s.id = "dns" => s.after = {}
    /\ s.id = "tls.expiry" => s.after \subseteq {"dns"}
    /\ \A b \in s.budget : b > 0 /\ (s.fn \in TimedFunctions => b > LongestRun(s))

Has(s, id, fn, args, b, after, pinned) ==
    s.id = id /\ s.fn = fn /\ s.args = args /\ s.budget = {b} /\ s.after = after /\ s.pinned = pinned

\* The name server's step, which the others wait for.
LEMMA GoodDns ==
  ASSUME NEW after, after \subseteq {"dns"}
  PROVE  GoodStep(DnsStep, after) /\ DnsStep.id = "dns"
<1> DEFINE s == DnsStep
<1>1. Has(s, "dns", "resolve_hostname", <<>>, 15, {}, FALSE)
  BY DEF Has, DnsStep, NewStep, DefaultBudget, BudgetTable
<1> HIDE DEF s
<1>2. Reads(s) = {} /\ Writes(s) = {"address"}
  BY <1>1 DEF Has, Reads, Writes, TlsChecks, ConnectsByAddress
<1>3. GoodStep(s, after) /\ s.id = "dns"
  BY <1>1, <1>2 DEF Has, GoodStep, TimedFunctions, IcmpTools
<1> QED
  BY <1>3 DEF s

\* ping, whatever its timeout.
LEMMA GoodPing ==
  ASSUME NEW probe \in Nat, NEW after, after \subseteq {"dns"}
  PROVE  GoodStep(PingStep(probe, after), after) /\ PingStep(probe, after).id = "ping"
<1> DEFINE t == TimeoutOr(probe, 10)
           b == ScaledBudget("ping", PingWorstCase(PingCount, t))
           s == PingStep(probe, after)
<1>1. Has(s, "ping", "ping", <<PingCount, t>>, b, after, TRUE)
  BY DEF Has, PingStep, Relabel, Pinned, OnLane, Behind, NewStep
<1>2. t \in Nat /\ b > 0 /\ b > t + 9
  BY DEF TimeoutOr, Larger, ScaledBudget, PingWorstCase, PingCount, DefaultBudget, BudgetTable
<1> HIDE DEF t, b, s
<1>3. LongestRun(s) = t + 9
  BY <1>1, <1>2 DEF Has, LongestRun, PingCount
<1>4. Reads(s) = {"address"} /\ Writes(s) = {}
  BY <1>1 DEF Has, Reads, Writes, TlsChecks, ConnectsByAddress
<1>5. GoodStep(s, after) /\ s.id = "ping"
  BY <1>1, <1>2, <1>3, <1>4 DEF Has, GoodStep
<1> QED
  BY <1>5 DEF s

\* The HTTPS request, whatever its timeout.
LEMMA GoodHttps ==
  ASSUME NEW probe \in Nat, NEW after
  PROVE  GoodStep(HttpsStep(probe), after) /\ HttpsStep(probe).id = "https"
<1> DEFINE t == TimeoutOr(probe, 10)
           b == ScaledBudget("https", t)
           s == HttpsStep(probe)
<1>1. Has(s, "https", "https_connectivity", <<t>>, b, {}, FALSE)
  BY DEF Has, HttpsStep, NewStep
<1>2. t \in Nat /\ b > 0
  BY DEF TimeoutOr, Larger, ScaledBudget, DefaultBudget, BudgetTable
<1> HIDE DEF t, b, s
<1>3. Reads(s) = {} /\ Writes(s) = {}
  BY <1>1 DEF Has, Reads, Writes, TlsChecks, ConnectsByAddress
<1>4. GoodStep(s, after) /\ s.id = "https"
  BY <1>1, <1>2, <1>3 DEF Has, GoodStep, TimedFunctions, IcmpTools
<1> QED
  BY <1>4 DEF s

\* A connection to one port, whatever its timeout.
LEMMA GoodTcp ==
  ASSUME NEW id \in {"tcp:80", "tcp:443"}, NEW t \in Nat, NEW after, after \subseteq {"dns"}
  PROVE  GoodStep(TcpStep(id, t, after), after) /\ TcpStep(id, t, after).id = id
<1> DEFINE b == ScaledBudget("tcp", t)
           s == TcpStep(id, t, after)
<1>1. Has(s, id, "tcp_connect", <<t>>, b, after, FALSE)
  BY DEF Has, TcpStep, Relabel, Behind, NewStep
<1>2. b > 0 /\ b > t
  BY DEF Larger, ScaledBudget, DefaultBudget, BudgetTable
<1> HIDE DEF b, s
<1>3. LongestRun(s) = t
  BY <1>1 DEF Has, LongestRun
<1>4. Reads(s) = {"address"} /\ Writes(s) = {}
  BY <1>1 DEF Has, Reads, Writes, TlsChecks, ConnectsByAddress
<1>5. GoodStep(s, after) /\ s.id = id
  BY <1>1, <1>2, <1>3, <1>4 DEF Has, GoodStep
<1> QED
  BY <1>5 DEF s

\* The steps that wait for none, and whose commands have fixed timeouts.
LEMMA GoodFixed ==
  ASSUME NEW s, NEW after,
         \/ \E relabelled \in BOOLEAN : s = GatewayStep(relabelled)
         \/ \E relabelled \in BOOLEAN : s = WifiStep(relabelled)
         \/ s = NewStep("adapters", "adapter_info", <<>>, DefaultBudget("adapters"))
         \/ s = NewStep("dns_compare", "compare_dns_servers", <<>>, DefaultBudget("dns_compare"))
  PROVE  GoodStep(s, after) /\ s.id \in {"gateway", "wifi", "adapters", "dns_compare"}
<1>1. \/ Has(s, "gateway", "gateway_diagnostics", <<>>, 20, {}, FALSE)
      \/ Has(s, "wifi", "wifi_info", <<>>, 15, {}, FALSE)
      \/ Has(s, "adapters", "adapter_info", <<>>, 15, {}, FALSE)
      \/ Has(s, "dns_compare", "compare_dns_servers", <<>>, 30, {}, FALSE)
  BY DEF Has, GatewayStep, WifiStep, NewStep, DefaultBudget, BudgetTable
<1>2. Reads(s) = {} /\ Writes(s) = {}
  BY <1>1 DEF Has, Reads, Writes, TlsChecks, ConnectsByAddress
<1>3. \A b \in s.budget : b > 0 /\ b > LongestRun(s)
  BY <1>1 DEF Has, LongestRun
<1> QED
  BY <1>1, <1>2, <1>3 DEF Has, GoodStep

\* traceroute, in a plan or alone.
LEMMA GoodTraceroute ==
  ASSUME NEW after, after \subseteq {"dns"}, NEW pin \in BOOLEAN
  PROVE  GoodStep(TracerouteStep(after, pin), after) /\ TracerouteStep(after, pin).id = "traceroute"
<1> DEFINE s == TracerouteStep(after, pin)
<1>1. Has(s, "traceroute", "traceroute", <<>>, 75, after, pin)
  BY DEF Has, TracerouteStep, OnLane, Behind, NewStep, DefaultBudget, BudgetTable
<1> HIDE DEF s
<1>2. Reads(s) \subseteq {"address"} /\ Writes(s) = {}
  BY <1>1 DEF Has, Reads, Writes, TlsChecks, ConnectsByAddress
<1>3. \A b \in s.budget : b > 0 /\ b > LongestRun(s)
  BY <1>1 DEF Has, LongestRun
<1>4. GoodStep(s, after) /\ s.id = "traceroute"
  BY <1>1, <1>2, <1>3 DEF Has, GoodStep
<1> QED
  BY <1>4 DEF s

\* The check of the certificate, whose handshake the two other checks read.
LEMMA GoodTls ==
  ASSUME NEW after, after \subseteq {"dns"}, NEW s,
         \/ s = TlsStep("tls.expiry", "check_certificate_expiry", "tls_expiry", after)
         \/ s = TlsStep("tls.versions", "check_tls_protocol_versions", "tls_versions", TlsAfter(after))
         \/ s = TlsStep("tls.hostname", "check_certificate_hostname", "tls_hostname", TlsAfter(after))
  PROVE  GoodStep(s, after) /\ s.id \in {"tls.expiry", "tls.versions", "tls.hostname"}
<1>1. \E b \in {20, 30, 90} :
          \/ Has(s, "tls.expiry", "check_certificate_expiry", <<>>, b, after, FALSE)
          \/ Has(s, "tls.versions", "check_tls_protocol_versions", <<>>, b, TlsAfter(after), FALSE)
          \/ Has(s, "tls.hostname", "check_certificate_hostname", <<>>, b, TlsAfter(after), FALSE)
  BY DEF Has, TlsStep, OnLane, Behind, NewStep, DefaultBudget, BudgetTable
<1>2. CASE s.id = "tls.expiry"
  <2>2. s.after = after /\ s.fn = "check_certificate_expiry" /\ \E b \in {20, 30, 90} : s.budget = {b}
    BY <1>1, <1>2 DEF Has
  <2>3. s.id \notin after /\ "tls.expiry" \notin after /\ s.fn \notin TimedFunctions
    BY <1>2, <2>2 DEF TimedFunctions, IcmpTools
  <2>1. Reads(s) = {"address"} /\ Writes(s) = {"handshake"}
    BY <1>1, <1>2 DEF Has, Reads, Writes, TlsChecks, ConnectsByAddress
  <2> QED
    BY <1>2, <2>1, <2>2, <2>3 DEF GoodStep
<1>3. CASE s.id # "tls.expiry"
  <2>1. Reads(s) = {"address", "handshake"} /\ Writes(s) = {}
    BY <1>1, <1>3 DEF Has, Reads, Writes, TlsChecks, ConnectsByAddress
  <2> QED
    BY <1>1, <1>3, <2>1 DEF Has, GoodStep, TimedFunctions, IcmpTools, TlsAfter
<1> QED
  BY <1>2, <1>3

\* The other security checks.
LEMMA GoodSecurity ==
  ASSUME NEW after, after \subseteq {"dns"}, NEW s,
         \/ s = NewStep("http_headers", "check_http_security_headers", <<>>, DefaultBudget("http_headers"))
         \/ s = NewStep("dnssec", "check_dnssec", <<>>, DefaultBudget("dnssec"))
         \/ s = NewStep("open_resolver", "check_open_resolver", <<>>, DefaultBudget("open_resolver"))
         \/ s = Behind(NewStep("tcp_exposure", "check_tcp_exposure", <<>>, DefaultBudget("tcp_exposure")), after)
  PROVE  GoodStep(s, after) /\ s.id \in {"http_headers", "dnssec", "open_resolver", "tcp_exposure"}
<1>1. \/ \E b \in {20, 40} : \/ Has(s, "http_headers", "check_http_security_headers", <<>>, b, {}, FALSE)
                             \/ Has(s, "dnssec", "check_dnssec", <<>>, b, {}, FALSE)
                             \/ Has(s, "open_resolver", "check_open_resolver", <<>>, b, {}, FALSE)
      \/ Has(s, "tcp_exposure", "check_tcp_exposure", <<>>, 20, after, FALSE)
  BY DEF Has, Behind, NewStep, DefaultBudget, BudgetTable
<1>2. Reads(s) \subseteq {"address"} /\ Writes(s) = {} /\ (s.id # "tcp_exposure" => Reads(s) = {})
  BY <1>1 DEF Has, Reads, Writes, TlsChecks, ConnectsByAddress
<1>3. \A b \in s.budget : b > 0 /\ (s.fn \in TimedFunctions => b > LongestRun(s))
  <2>1. CASE s.id = "tcp_exposure"
    BY <1>1, <2>1 DEF Has, LongestRun, CeilDiv
  <2>2. CASE s.id # "tcp_exposure"
    BY <1>1, <2>2 DEF Has, TimedFunctions, IcmpTools
  <2> QED
    BY <2>1, <2>2
<1> QED
  BY <1>1, <1>2, <1>3 DEF Has, GoodStep

\* Connections to many ports or hosts in waves, however many and whatever their timeout.
LEMMA WavesCovered ==
  ASSUME NEW n \in Nat, NEW concurrency \in {10, 20, 50}, NEW t \in Nat
  PROVE  /\ Waves(n, concurrency) * t + Margin > 0
         /\ Waves(n, concurrency) * t + Margin > CeilDiv(n, concurrency) * t
<1> DEFINE c == CeilDiv(n, concurrency)
<1>1. c \in Nat
  BY DEF CeilDiv
<1> HIDE DEF c
<1>2. Waves(n, concurrency) = Larger(1, c)
  BY DEF Waves, c
<1>3. c * t \in Nat /\ (c = 0 => c * t = 0) /\ 1 * t = t
  BY <1>1
<1>4. CASE c = 0
  <2>1. Larger(1, c) = 1
    BY <1>4 DEF Larger
  <2> QED
    BY <1>2, <1>3, <1>4, <2>1 DEF Margin, c
<1>5. CASE c > 0
  <2>1. Larger(1, c) = c
    BY <1>1, <1>5 DEF Larger
  <2> QED
    BY <1>2, <1>3, <2>1 DEF Margin, c
<1> QED
  BY <1>1, <1>4, <1>5

\* The connections of `netdiag tcp`, whatever its timeout, if that leaves a budget.
LEMMA TcpCovered ==
  ASSUME NEW n \in Nat, NEW t \in Int, Waves(n, 10) * t > - Margin
  PROVE  /\ PortScanBudget(n, t, 10) > 0
         /\ PortScanBudget(n, t, 10) > CeilDiv(n, 10) * Larger(0, t)
<1>1. CeilDiv(n, 10) \in Nat /\ Waves(n, 10) \in Nat /\ Waves(n, 10) * t \in Int
  BY DEF CeilDiv, Waves, Larger
<1>2. PortScanBudget(n, t, 10) = Waves(n, 10) * t + Margin /\ Margin = 10
  BY DEF PortScanBudget, Margin
<1>3. CASE t < 0
  <2>1. Larger(0, t) = 0
    BY <1>3 DEF Larger
  <2> QED
    BY <1>1, <1>2, <2>1
<1>4. CASE t >= 0
  <2>1. t \in Nat /\ Larger(0, t) = t
    BY <1>4 DEF Larger
  <2> QED
    BY <1>2, <2>1, WavesCovered
<1> QED
  BY <1>3, <1>4

\* The scans of many ports or hosts.
LEMMA GoodScans ==
  ASSUME NEW n \in Nat, NEW t \in Int, NEW after, NEW s,
         \/ /\ s = NewStep("tcp", "tcp_multi_port", <<n, t>>, PortScanBudget(n, t, 10))
            /\ Waves(n, 10) * t > - Margin
         \/ t \in Nat /\ s = NewStep("scan", "port_scan", <<n, t>>, PortScanBudget(n, t, 20))
         \/ t \in Nat /\ s = NewStep("discover", "host_discovery", <<n, t>>, HostDiscoveryBudget(n, t, 50))
  PROVE  GoodStep(s, after) /\ s.id \in {"tcp", "scan", "discover"}
<1>1. \/ /\ Has(s, "tcp", "tcp_multi_port", <<n, t>>, PortScanBudget(n, t, 10), {}, FALSE)
         /\ Waves(n, 10) * t > - Margin
      \/ t \in Nat /\ Has(s, "scan", "port_scan", <<n, t>>, PortScanBudget(n, t, 20), {}, FALSE)
      \/ /\ t \in Nat
         /\ Has(s, "discover", "host_discovery", <<n, t>>, HostDiscoveryBudget(n, t, 50), {}, FALSE)
  BY DEF Has, NewStep
<1>2. Reads(s) = {} /\ Writes(s) = {}
  BY <1>1 DEF Has, Reads, Writes, TlsChecks, ConnectsByAddress
<1>3. \A b \in s.budget : b > 0 /\ b > LongestRun(s)
  <2>1. CASE /\ Has(s, "tcp", "tcp_multi_port", <<n, t>>, PortScanBudget(n, t, 10), {}, FALSE)
             /\ Waves(n, 10) * t > - Margin
    <3>1. LongestRun(s) = CeilDiv(n, 10) * Larger(0, t)
      BY <2>1 DEF Has, LongestRun
    <3> QED
      BY <2>1, <3>1, TcpCovered DEF Has
  <2>2. CASE t \in Nat /\ Has(s, "scan", "port_scan", <<n, t>>, PortScanBudget(n, t, 20), {}, FALSE)
    <3>1. LongestRun(s) = CeilDiv(n, 20) * t
      BY <2>2 DEF Has, LongestRun
    <3> QED
      BY <2>2, <3>1, WavesCovered DEF Has, PortScanBudget
  <2>3. CASE /\ t \in Nat
             /\ Has(s, "discover", "host_discovery", <<n, t>>, HostDiscoveryBudget(n, t, 50), {}, FALSE)
    <3>1. LongestRun(s) = CeilDiv(n, 50) * (t + 2) /\ t + 2 \in Nat
      BY <2>3 DEF Has, LongestRun
    <3> QED
      BY <2>3, <3>1, WavesCovered DEF Has, HostDiscoveryBudget
  <2> QED
    BY <1>1, <2>1, <2>2, <2>3
<1> QED
  BY <1>1, <1>2, <1>3 DEF Has, GoodStep

\* The MTU search, in a plan or alone, whatever its range: the worst case of its budget is that
\* of one probe more than there are sizes.
LEMMA GoodMtu ==
  ASSUME NEW after, after \subseteq {"dns"}, NEW pin \in BOOLEAN, NEW sizes \in Int \X Int
  PROVE  GoodStep(MtuStep(after, pin, sizes), after) /\ MtuStep(after, pin, sizes).id = "mtu"
<1> DEFINE n == sizes[2] - sizes[1] + 1
           L == CeilLog2(Larger(1, sizes[2] - sizes[1] + 2))
           b == ScaledBudget("mtu", MtuWorstCase(sizes[1], sizes[2]))
           s == MtuStep(after, pin, sizes)
<1>1. Has(s, "mtu", "estimate_path_mtu", sizes, b, after, pin)
  BY DEF Has, MtuStep, OnLane, Behind, NewStep
<1>2. n \in Int /\ sizes[1] \in Int /\ sizes[2] \in Int
  OBVIOUS
<1>3. L \in Nat /\ PowerOfTwo[L] \in Nat /\ PowerOfTwo[L] > n
  <2> DEFINE k == Larger(1, sizes[2] - sizes[1] + 2)
  <2>1. k \in Nat /\ k >= 1 /\ k > n
    BY <1>2 DEF Larger
  <2> HIDE DEF k, n
  <2>2. CeilLog2(k) \in Nat /\ PowerOfTwo[CeilLog2(k)] >= k
    BY <2>1, CeilLog2Enough
  <2>3. PowerOfTwo[CeilLog2(k)] \in Nat
    BY <2>2, PowersDouble
  <2> QED
    BY <1>2, <2>1, <2>2, <2>3 DEF k
<1>4. MostProbes(n) \in Nat /\ MostProbes(n) <= L
  <2> HIDE DEF n, L
  <2> QED
    BY <1>2, <1>3, ProbesBounded
<1>5. b \in Int /\ b >= 75 /\ b >= L * 5 + 20
  BY <1>3 DEF MtuWorstCase, ScaledBudget, Larger, DefaultBudget, BudgetTable
<1>6. LongestRun(s) = MostProbes(n) * 5
  <2> HIDE DEF b, s
  <2> QED
    BY <1>1 DEF Has, LongestRun
<1> HIDE DEF n, L, b, s
<1>7. b > 0 /\ b > LongestRun(s)
  BY <1>3, <1>4, <1>5, <1>6
<1>8. Reads(s) \subseteq {"address"} /\ Writes(s) = {}
  BY <1>1 DEF Has, Reads, Writes, TlsChecks, ConnectsByAddress
<1>9. GoodStep(s, after) /\ s.id = "mtu"
  BY <1>1, <1>7, <1>8 DEF Has, GoodStep
<1> QED
  BY <1>9 DEF s

-----------------------------------------------------------------------------
(* The plans the program builds *)

\* A part of a plan: good steps with the ids `ids`, each once.
Part(st, after, ids) ==
    /\ \E S : st \in Seq(S) /\ \A s \in S : GoodStep(s, after)
    /\ UniqueIds(st)
    /\ IdsOf(st) = ids

\* Two parts with different ids, one behind the other.
LEMMA Joined ==
  ASSUME NEW after, NEW s, NEW t, NEW I, NEW J, Part(s, after, I), Part(t, after, J),
         \A id \in I : id \notin J
  PROVE  Part(s \o t, after, I \cup J)
<1>1. PICK A : s \in Seq(A) /\ \A x \in A : GoodStep(x, after)
  BY DEF Part
<1>2. PICK B : t \in Seq(B) /\ \A x \in B : GoodStep(x, after)
  BY DEF Part
<1> DEFINE S == A \cup B
           p == s \o t
<1>3. s \in Seq(S) /\ t \in Seq(S) /\ \A x \in S : GoodStep(x, after)
  <2>1. \A x \in S : GoodStep(x, after)
    BY <1>1, <1>2
  <2>2. s \in Seq(S) /\ t \in Seq(S)
    BY <1>1, <1>2
  <2> QED
    BY <2>1, <2>2
<1> HIDE DEF S
<1>4. /\ p \in Seq(S) /\ Len(s) \in Nat /\ Len(t) \in Nat /\ Len(p) = Len(s) + Len(t)
      /\ DOMAIN p = 1..Len(p) /\ DOMAIN s = 1..Len(s) /\ DOMAIN t = 1..Len(t)
      /\ \A i \in 1..Len(s) : p[i] = s[i]
      /\ \A i \in 1..Len(t) : p[Len(s) + i] = t[i]
  BY <1>3
<1> HIDE DEF p
<1>5. /\ \A i \in DOMAIN s : i \in DOMAIN p /\ p[i] = s[i]
      /\ \A i \in DOMAIN t : Len(s) + i \in DOMAIN p /\ p[Len(s) + i] = t[i]
      /\ \A i \in DOMAIN p : \/ i \in DOMAIN s
                             \/ i - Len(s) \in DOMAIN t /\ p[i] = t[i - Len(s)] /\ i \in Nat
  <2>1. \A i \in DOMAIN s : i \in DOMAIN p
    BY <1>4
  <2>2. \A i \in DOMAIN t : Len(s) + i \in DOMAIN p
    BY <1>4
  <2>3. ASSUME NEW i \in DOMAIN p, i \notin DOMAIN s
        PROVE  i - Len(s) \in DOMAIN t /\ p[i] = t[i - Len(s)] /\ i \in Nat
    <3>1. i - Len(s) \in 1..Len(t) /\ Len(s) + (i - Len(s)) = i /\ i \in Nat
      BY <1>4, <2>3
    <3> QED
      BY <1>4, <3>1
  <2> QED
    BY <1>4, <2>1, <2>2, <2>3
<1>6. UniqueIds(p)
  <2> SUFFICES ASSUME NEW i \in DOMAIN p, NEW j \in DOMAIN p, p[i].id = p[j].id PROVE i = j
    BY DEF UniqueIds
  <2>1. \A k \in DOMAIN s : s[k].id \in I
    BY DEF Part, IdsOf
  <2>2. \A k \in DOMAIN t : t[k].id \in J
    BY DEF Part, IdsOf
  <2>3. CASE i \in DOMAIN s /\ j \in DOMAIN s
    BY <1>5, <2>3 DEF Part, UniqueIds
  <2>4. CASE i \notin DOMAIN s /\ j \notin DOMAIN s
    <3>1. i - Len(s) = j - Len(s) /\ i \in Nat /\ j \in Nat
      BY <1>5, <2>4 DEF Part, UniqueIds
    <3> QED
      BY <1>4, <3>1
  <2>5. CASE i \in DOMAIN s /\ j \notin DOMAIN s
    BY <1>5, <2>1, <2>2, <2>5
  <2>6. CASE i \notin DOMAIN s /\ j \in DOMAIN s
    BY <1>5, <2>1, <2>2, <2>6
  <2> QED
    BY <2>3, <2>4, <2>5, <2>6
<1>7. IdsOf(p) = I \cup J
  <2>1. IdsOf(s) = I /\ IdsOf(t) = J
    BY DEF Part
  <2>2. IdsOf(p) \subseteq I \cup J
    BY <1>5, <2>1 DEF IdsOf
  <2>3. I \subseteq IdsOf(p)
    BY <1>5, <2>1 DEF IdsOf
  <2>4. J \subseteq IdsOf(p)
    BY <1>5, <2>1 DEF IdsOf
  <2> QED
    BY <2>2, <2>3, <2>4
<1>8. Part(p, after, I \cup J)
  BY <1>3, <1>4, <1>6, <1>7 DEF Part
<1> QED
  BY <1>8 DEF p

\* One step, and none.
LEMMA OneOrNone ==
  ASSUME NEW after
  PROVE  /\ Part(<<>>, after, {})
         /\ \A s : GoodStep(s, after) => Part(<<s>>, after, {s.id})
<1>1. Part(<<>>, after, {})
  <2> DEFINE p == <<>>
             S == {}
  <2>1. p \in Seq(S) /\ DOMAIN p = {} /\ \A s \in S : GoodStep(s, after)
    OBVIOUS
  <2> HIDE DEF p, S
  <2>2. Part(p, after, {})
    BY <2>1 DEF Part, UniqueIds, IdsOf
  <2> QED
    BY <2>2 DEF p
<1>2. ASSUME NEW s, GoodStep(s, after) PROVE Part(<<s>>, after, {s.id})
  <2> DEFINE p == <<s>>
  <2>1. p \in Seq({s}) /\ DOMAIN p = {1} /\ p[1] = s
    OBVIOUS
  <2> HIDE DEF p
  <2>2. Part(p, after, {s.id})
    BY <1>2, <2>1 DEF Part, UniqueIds, IdsOf
  <2> QED
    BY <2>2 DEF p
<1> QED
  BY <1>1, <1>2

\* Two steps, and three.
LEMMA TwoOrThree ==
  ASSUME NEW after, NEW a, NEW b, NEW c, GoodStep(a, after), GoodStep(b, after), GoodStep(c, after),
         a.id # b.id, a.id # c.id, b.id # c.id
  PROVE  /\ Part(<<a, b>>, after, {a.id, b.id})
         /\ Part(<<a, b, c>>, after, {a.id, b.id, c.id})
<1> DEFINE p == <<a, b>>
           q == <<a, b, c>>
           S == {a, b, c}
<1>1. /\ p \in Seq(S) /\ DOMAIN p = 1..2 /\ p[1] = a /\ p[2] = b
      /\ q \in Seq(S) /\ DOMAIN q = 1..3 /\ q[1] = a /\ q[2] = b /\ q[3] = c
  OBVIOUS
<1>2. \A s \in S : GoodStep(s, after)
  OBVIOUS
<1>3. /\ \A i \in 1..2 : i = 1 \/ i = 2
      /\ \A i \in 1..3 : i = 1 \/ i = 2 \/ i = 3
  OBVIOUS
<1> HIDE DEF p, q, S
<1>4. UniqueIds(p) /\ UniqueIds(q)
  BY <1>1, <1>3 DEF UniqueIds
<1>5. IdsOf(p) = {a.id, b.id} /\ IdsOf(q) = {a.id, b.id, c.id}
  BY <1>1, <1>3 DEF IdsOf
<1>6. Part(p, after, {a.id, b.id}) /\ Part(q, after, {a.id, b.id, c.id})
  BY <1>1, <1>2, <1>4, <1>5 DEF Part
<1> QED
  BY <1>6 DEF p, q

\* A part that is there under a condition.
LEMMA PartWhen ==
  ASSUME NEW after, NEW s, NEW I, NEW c \in BOOLEAN, c => Part(s, after, I)
  PROVE  Part(When(c, s), after, IF c THEN I ELSE {})
BY OneOrNone DEF When

DiagnosticIds == {"dns", "ping", "https", "tcp:80", "tcp:443"}
SecurityIds   == {"tls.expiry", "tls.versions", "tls.hostname", "http_headers", "dnssec", "open_resolver",
                  "tcp_exposure"}

\* The diagnostics every scan starts with.
LEMMA DiagnosticPart ==
  ASSUME NEW after, after \subseteq {"dns"}, NEW probe \in Nat, NEW t \in Nat
  PROVE  Part(<<DnsStep, PingStep(probe, after), HttpsStep(probe),
                TcpStep("tcp:80", t, after), TcpStep("tcp:443", t, after)>>, after, DiagnosticIds)
<1> DEFINE a == DnsStep
           b == PingStep(probe, after)
           c == HttpsStep(probe)
           d == TcpStep("tcp:80", t, after)
           e == TcpStep("tcp:443", t, after)
           p == <<a, b, c, d, e>>
           S == {a, b, c, d, e}
<1>1. /\ a.id = "dns" /\ b.id = "ping" /\ c.id = "https" /\ d.id = "tcp:80" /\ e.id = "tcp:443"
      /\ \A s \in S : GoodStep(s, after)
  BY GoodDns, GoodPing, GoodHttps, GoodTcp
<1> HIDE DEF a, b, c, d, e
<1>2. /\ p \in Seq(S) /\ DOMAIN p = 1..5
      /\ p[1].id = "dns" /\ p[2].id = "ping" /\ p[3].id = "https" /\ p[4].id = "tcp:80" /\ p[5].id = "tcp:443"
  BY <1>1
<1> HIDE DEF p, S
<1>3. UniqueIds(p)
  BY <1>2 DEF UniqueIds
<1>4. IdsOf(p) = DiagnosticIds
  <2>1. \A i \in 1..5 : i = 1 \/ i = 2 \/ i = 3 \/ i = 4 \/ i = 5
    OBVIOUS
  <2> QED
    BY <1>2, <2>1 DEF IdsOf, DiagnosticIds
<1>5. Part(p, after, DiagnosticIds)
  BY <1>1, <1>2, <1>3, <1>4 DEF Part
<1> QED
  BY <1>5 DEF p, a, b, c, d, e

\* The security checks.
LEMMA SecurityPart ==
  ASSUME NEW after, after \subseteq {"dns"}
  PROVE  Part(SecuritySteps(after), after, SecurityIds)
<1> DEFINE a == TlsStep("tls.expiry", "check_certificate_expiry", "tls_expiry", after)
           b == TlsStep("tls.versions", "check_tls_protocol_versions", "tls_versions", TlsAfter(after))
           c == TlsStep("tls.hostname", "check_certificate_hostname", "tls_hostname", TlsAfter(after))
           d == NewStep("http_headers", "check_http_security_headers", <<>>, DefaultBudget("http_headers"))
           e == NewStep("dnssec", "check_dnssec", <<>>, DefaultBudget("dnssec"))
           f == NewStep("open_resolver", "check_open_resolver", <<>>, DefaultBudget("open_resolver"))
           g == Behind(NewStep("tcp_exposure", "check_tcp_exposure", <<>>, DefaultBudget("tcp_exposure")), after)
           p == <<a, b, c, d, e, f, g>>
           S == {a, b, c, d, e, f, g}
<1>1. SecuritySteps(after) = p
  BY DEF SecuritySteps
<1>2. /\ a.id = "tls.expiry" /\ b.id = "tls.versions" /\ c.id = "tls.hostname" /\ d.id = "http_headers"
      /\ e.id = "dnssec" /\ f.id = "open_resolver" /\ g.id = "tcp_exposure"
  BY DEF TlsStep, OnLane, Behind, NewStep
<1>3. \A s \in {a, b, c} : GoodStep(s, after)
  BY GoodTls
<1>4. \A s \in {d, e, f, g} : GoodStep(s, after)
  BY GoodSecurity
<1> HIDE DEF a, b, c, d, e, f, g
<1>5. \A s \in S : GoodStep(s, after)
  BY <1>3, <1>4
<1>6. /\ p \in Seq(S) /\ DOMAIN p = 1..7
      /\ p[1].id = "tls.expiry" /\ p[2].id = "tls.versions" /\ p[3].id = "tls.hostname"
      /\ p[4].id = "http_headers" /\ p[5].id = "dnssec" /\ p[6].id = "open_resolver" /\ p[7].id = "tcp_exposure"
  BY <1>2
<1> HIDE DEF p, S
<1>7. UniqueIds(p)
  BY <1>6 DEF UniqueIds
<1>8. IdsOf(p) = SecurityIds
  <2>1. \A i \in 1..7 : i = 1 \/ i = 2 \/ i = 3 \/ i = 4 \/ i = 5 \/ i = 6 \/ i = 7
    OBVIOUS
  <2> QED
    BY <1>6, <2>1 DEF IdsOf, SecurityIds
<1> QED
  BY <1>1, <1>5, <1>6, <1>7, <1>8 DEF Part

\* The order of the two parts between them.
LEMMA MiddlePart ==
  ASSUME NEW after, after \subseteq {"dns"}, NEW extended \in BOOLEAN, NEW cli \in BOOLEAN
  PROVE  LET longer  == When(extended, <<MtuStep(after, TRUE, DefaultSizes), TracerouteStep(after, TRUE)>>)
             gateway == <<GatewayStep(cli)>>
         IN  Part(IF cli THEN longer \o gateway ELSE gateway \o longer, after,
                  {"gateway"} \cup (IF extended THEN {"mtu", "traceroute"} ELSE {}))
<1> DEFINE m == MtuStep(after, TRUE, DefaultSizes)
           r == TracerouteStep(after, TRUE)
           g == GatewayStep(cli)
           longer == When(extended, <<m, r>>)
           I == IF extended THEN {"mtu", "traceroute"} ELSE {}
<1>1. GoodStep(m, after) /\ m.id = "mtu" /\ GoodStep(r, after) /\ r.id = "traceroute"
  <2>1. DefaultSizes \in Int \X Int
    BY DEF DefaultSizes
  <2> QED
    BY <2>1, GoodMtu, GoodTraceroute
<1>2. GoodStep(g, after) /\ g.id = "gateway"
  BY GoodFixed DEF GatewayStep, NewStep
<1> HIDE DEF m, r, g
<1>3. Part(<<m, r>>, after, {"mtu", "traceroute"})
  BY <1>1, <1>2, TwoOrThree
<1>4. Part(longer, after, I)
  BY <1>3, PartWhen
<1>5. Part(<<g>>, after, {"gateway"})
  BY <1>2, OneOrNone
<1>6. \A id \in I : id \notin {"gateway"}
  OBVIOUS
<1> HIDE DEF longer, I
<1>7. Part(longer \o <<g>>, after, I \cup {"gateway"}) /\ Part(<<g>> \o longer, after, {"gateway"} \cup I)
  BY <1>4, <1>5, <1>6, Joined
<1>8. I \cup {"gateway"} = {"gateway"} \cup I
  OBVIOUS
<1> QED
  BY <1>7, <1>8 DEF longer, I, m, r, g

\* A plan of good steps.
GoodPlan(st) ==
    \E after \in {{}, {"dns"}} : \E ids :
        /\ Part(st, after, ids) /\ after \subseteq ids
        /\ "dns" \in ids => after = {"dns"}
        /\ ids \cap {"tls.versions", "tls.hostname"} # {} => "tls.expiry" \in ids

\* build_plan, whatever is asked of it.
LEMMA GoodBuilt ==
  ASSUME NEW diagnostics \in BOOLEAN, NEW extended \in BOOLEAN, NEW security \in BOOLEAN, NEW wifi \in BOOLEAN,
         NEW probe \in Nat, NEW cli \in BOOLEAN
  PROVE  GoodPlan(BuildPlan(diagnostics, extended, security, wifi, probe, cli))
<1> DEFINE after  == IF diagnostics THEN {"dns"} ELSE {}
           tcp    == IF probe = 0 THEN 3 ELSE probe
           longer == When(extended, <<MtuStep(after, TRUE, DefaultSizes), TracerouteStep(after, TRUE)>>)
           gate   == <<GatewayStep(cli)>>
           first  == <<DnsStep, PingStep(probe, after), HttpsStep(probe),
                       TcpStep("tcp:80", tcp, after), TcpStep("tcp:443", tcp, after)>>
           middle == IF cli THEN longer \o gate ELSE gate \o longer
           last   == When(wifi, <<WifiStep(cli)>>)
           checks == When(security, SecuritySteps(after))
           M == {"gateway"} \cup (IF extended THEN {"mtu", "traceroute"} ELSE {})
           W == IF wifi THEN {"wifi"} ELSE {}
           C == IF security THEN SecurityIds ELSE {}
           D == (DiagnosticIds \cup M) \cup W
           E == IF diagnostics THEN D ELSE {}
<1>1. after \subseteq {"dns"} /\ tcp \in Nat
  OBVIOUS
<1>2. BuildPlan(diagnostics, extended, security, wifi, probe, cli)
        = When(diagnostics, (first \o middle) \o last) \o checks
  BY DEF BuildPlan
<1>3. Part(first, after, DiagnosticIds)
  <2> HIDE DEF after, tcp
  <2> QED
    BY <1>1, DiagnosticPart
<1>4. Part(middle, after, M)
  <2> HIDE DEF after, tcp
  <2> QED
    BY <1>1, MiddlePart
<1>5. Part(last, after, W)
  <2> DEFINE w == WifiStep(cli)
  <2>1. GoodStep(w, after) /\ w.id = "wifi"
    BY GoodFixed DEF WifiStep, NewStep
  <2> HIDE DEF w, after
  <2>2. Part(<<w>>, after, {"wifi"})
    BY <2>1, OneOrNone
  <2> QED
    BY <2>2, PartWhen DEF w
<1>6. Part(checks, after, C)
  <2> HIDE DEF after
  <2> QED
    BY <1>1, SecurityPart, PartWhen
<1>7. /\ \A id \in DiagnosticIds : id \notin M
      /\ \A id \in DiagnosticIds \cup M : id \notin W
      /\ \A id \in E : id \notin C
  BY DEF DiagnosticIds, SecurityIds
<1>8. /\ after \in {{}, {"dns"}} /\ after \subseteq E \cup C
      /\ "dns" \in E \cup C => after = {"dns"}
      /\ (E \cup C) \cap {"tls.versions", "tls.hostname"} # {} => "tls.expiry" \in E \cup C
  BY DEF DiagnosticIds, SecurityIds
<1> HIDE DEF after, first, middle, last, checks, M, W, C
<1>9. Part(first \o middle, after, DiagnosticIds \cup M)
  BY <1>3, <1>4, <1>7, Joined
<1>10. Part((first \o middle) \o last, after, D)
  BY <1>5, <1>7, <1>9, Joined
<1> HIDE DEF D
<1>11. Part(When(diagnostics, (first \o middle) \o last), after, E)
  BY <1>10, PartWhen
<1> HIDE DEF E
<1>12. Part(When(diagnostics, (first \o middle) \o last) \o checks, after, E \cup C)
  BY <1>6, <1>7, <1>11, Joined
<1> QED
  BY <1>2, <1>8, <1>12 DEF GoodPlan

\* A plan of one step that waits for none.
LEMMA GoodAlone ==
  ASSUME NEW s, GoodStep(s, {}), s.id \notin {"dns", "tls.versions", "tls.hostname"}
  PROVE  GoodPlan(<<s>>)
<1>1. Part(<<s>>, {}, {s.id})
  BY OneOrNone
<1>2. "dns" \notin {s.id} /\ {s.id} \cap {"tls.versions", "tls.hostname"} = {}
  OBVIOUS
<1> QED
  BY <1>1, <1>2 DEF GoodPlan

\* Every plan the program builds, but for `netdiag tcp` with a timeout that leaves no budget.
LEMMA GoodPlans == \A st \in BuiltPlans \ HopelessPlans : GoodPlan(st)
<1>1. ASSUME NEW st \in CliPlans PROVE GoodPlan(st)
  <2>1. TRUE \in BOOLEAN /\ FALSE \in BOOLEAN /\ 0 \in Nat
    OBVIOUS
  <2>2. \A wifi \in BOOLEAN : GoodPlan(BuildPlan(TRUE, FALSE, FALSE, wifi, 0, TRUE))
    BY <2>1, GoodBuilt
  <2>3. \A wifi \in BOOLEAN : GoodPlan(BuildPlan(TRUE, TRUE, FALSE, wifi, 0, TRUE))
    BY <2>1, GoodBuilt
  <2>4. \A wifi \in BOOLEAN : GoodPlan(BuildPlan(TRUE, TRUE, TRUE, wifi, 0, TRUE))
    BY <2>1, GoodBuilt
  <2>5. GoodPlan(BuildPlan(FALSE, FALSE, TRUE, FALSE, 0, TRUE))
    BY <2>1, GoodBuilt
  <2>6. CASE st \in {BuildPlan(TRUE, FALSE, FALSE, wifi, 0, TRUE) : wifi \in BOOLEAN}
    BY <2>2, <2>6
  <2>7. CASE st \in {BuildPlan(TRUE, TRUE, FALSE, wifi, 0, TRUE) : wifi \in BOOLEAN}
    BY <2>3, <2>7
  <2>8. CASE st \in {BuildPlan(TRUE, TRUE, TRUE, wifi, 0, TRUE) : wifi \in BOOLEAN}
    BY <2>4, <2>8
  <2>9. CASE st = BuildPlan(FALSE, FALSE, TRUE, FALSE, 0, TRUE)
    BY <2>5, <2>9
  <2> QED
    BY <2>6, <2>7, <2>8, <2>9 DEF CliPlans
<1>6. ASSUME NEW st \in GuiPlans PROVE GoodPlan(st)
  <2>1. PICK mode \in {"diagnose", "security", "full"}, probe \in Timeouts : st = GuiPlan(mode, probe)
    BY DEF GuiPlans
  <2>2. probe \in Nat
    BY CountsAssumption
  <2> DEFINE d == mode \in {"diagnose", "full"}
             e == mode = "full"
             s == mode \in {"security", "full"}
  <2>3. d \in BOOLEAN /\ e \in BOOLEAN /\ s \in BOOLEAN
    OBVIOUS
  <2>4. st = BuildPlan(d, e, s, FALSE, probe, FALSE)
    BY <2>1 DEF GuiPlan
  <2> HIDE DEF d, e, s
  <2> QED
    BY <2>2, <2>3, <2>4, GoodBuilt
<1>2. ASSUME NEW st \in DnsPlans PROVE GoodPlan(st)
  <2> DEFINE c == NewStep("dns_compare", "compare_dns_servers", <<>>, DefaultBudget("dns_compare"))
  <2>1. GoodStep(c, {}) /\ c.id = "dns_compare"
    BY GoodFixed DEF NewStep
  <2>2. Part(<<DnsStep>>, {"dns"}, {"dns"})
    BY GoodDns, OneOrNone
  <2>3. GoodPlan(<<DnsStep>>)
    BY <2>2 DEF GoodPlan
  <2>4. st = <<DnsStep>> \/ st = <<c>>
    BY DEF DnsPlans
  <2> HIDE DEF c
  <2> QED
    BY <2>1, <2>3, <2>4, GoodAlone
<1>3. ASSUME NEW st \in MtuPlans PROVE GoodPlan(st)
  <2>1. PICK sizes \in MtuRanges : st = <<MtuStep({}, FALSE, sizes)>>
    BY DEF MtuPlans
  <2>2. sizes \in Int \X Int
    BY CountsAssumption
  <2>3. GoodStep(MtuStep({}, FALSE, sizes), {}) /\ MtuStep({}, FALSE, sizes).id = "mtu"
    BY <2>2, GoodMtu
  <2> QED
    BY <2>1, <2>3, GoodAlone
<1>7. GoodPlan(TraceroutePlan)
  <2>1. GoodStep(TracerouteStep({}, FALSE), {}) /\ TracerouteStep({}, FALSE).id = "traceroute"
    BY GoodTraceroute
  <2> QED
    BY <2>1, GoodAlone DEF TraceroutePlan
<1>8. ASSUME NEW n \in Nat
      PROVE  /\ GoodPlan(<<NewStep("scan", "port_scan", <<n, 2>>, PortScanBudget(n, 2, 20))>>)
             /\ GoodPlan(<<NewStep("discover", "host_discovery", <<n, 2>>, HostDiscoveryBudget(n, 2, 50))>>)
  <2> DEFINE b == NewStep("scan", "port_scan", <<n, 2>>, PortScanBudget(n, 2, 20))
             c == NewStep("discover", "host_discovery", <<n, 2>>, HostDiscoveryBudget(n, 2, 50))
  <2>1. 2 \in Nat /\ 2 \in Int
    OBVIOUS
  <2>2. GoodStep(b, {}) /\ b.id \in {"tcp", "scan", "discover"}
    BY <2>1, GoodScans
  <2>3. GoodStep(c, {}) /\ c.id \in {"tcp", "scan", "discover"}
    BY <2>1, GoodScans
  <2> HIDE DEF b, c
  <2>4. GoodPlan(<<b>>) /\ GoodPlan(<<c>>)
    BY <2>2, <2>3, GoodAlone
  <2> QED
    BY <2>4 DEF b, c
<1>9. ASSUME NEW n \in Nat, NEW t \in Int, Waves(n, 10) * t > - Margin PROVE GoodPlan(TcpPlan(n, t))
  <2> DEFINE a == NewStep("tcp", "tcp_multi_port", <<n, t>>, PortScanBudget(n, t, 10))
  <2>1. GoodStep(a, {}) /\ a.id \in {"tcp", "scan", "discover"}
    BY <1>9, GoodScans
  <2>2. TcpPlan(n, t) = <<a>>
    BY DEF TcpPlan
  <2> HIDE DEF a
  <2> QED
    BY <2>1, <2>2, GoodAlone
<1>4. ASSUME NEW st \in TcpPlans \cup ScanPlansOf \cup DiscoverPlans, st \notin HopelessPlans
      PROVE  GoodPlan(st)
  <2>1. PortCounts \subseteq Nat /\ HostCounts \subseteq Nat /\ TcpTimeouts \subseteq Int
    BY CountsAssumption
  <2>2. CASE st \in TcpPlans
    <3>1. PICK n \in PortCounts, t \in TcpTimeouts : st = TcpPlan(n, t)
      BY <2>2 DEF TcpPlans
    <3>2. t \notin HopelessTimeouts(n)
      BY <1>4, <3>1 DEF HopelessPlans
    <3>3. Waves(n, 10) * t > - Margin
      <4>1. Waves(n, 10) \in Int /\ Waves(n, 10) * t \in Int
        BY <2>1 DEF Waves, CeilDiv, Larger
      <4> QED
        BY <3>2, <4>1 DEF HopelessTimeouts, Margin
    <3> QED
      BY <1>9, <2>1, <3>1, <3>3
  <2>3. CASE st \in ScanPlansOf
    <3>1. PICK n \in PortCounts :
              st = <<NewStep("scan", "port_scan", <<n, 2>>, PortScanBudget(n, 2, 20))>>
      BY <2>3 DEF ScanPlansOf
    <3> QED
      BY <1>8, <2>1, <3>1
  <2>4. CASE st \in DiscoverPlans
    <3>1. PICK n \in HostCounts :
              st = <<NewStep("discover", "host_discovery", <<n, 2>>, HostDiscoveryBudget(n, 2, 50))>>
      BY <2>4 DEF DiscoverPlans
    <3> QED
      BY <1>8, <2>1, <3>1
  <2> QED
    BY <1>4, <2>2, <2>3, <2>4
<1>5. GoodPlan(NetworkPlan)
  <2> DEFINE a == NewStep("adapters", "adapter_info", <<>>, DefaultBudget("adapters"))
             w == WifiStep(FALSE)
             g == GatewayStep(TRUE)
  <2>1. /\ GoodStep(a, {}) /\ GoodStep(w, {}) /\ GoodStep(g, {})
        /\ a.id = "adapters" /\ w.id = "wifi" /\ g.id = "gateway"
    BY GoodFixed DEF NewStep, WifiStep, GatewayStep
  <2>2. NetworkPlan = <<a, w, g>>
    BY DEF NetworkPlan
  <2> HIDE DEF a, w, g
  <2> DEFINE ids == {"adapters", "wifi", "gateway"}
  <2>3. Part(<<a, w, g>>, {}, ids)
    BY <2>1, TwoOrThree
  <2>4. "dns" \notin ids /\ ids \cap {"tls.versions", "tls.hostname"} = {}
    OBVIOUS
  <2> HIDE DEF ids
  <2> QED
    BY <2>2, <2>3, <2>4 DEF GoodPlan
<1> QED
  BY <1>1, <1>2, <1>3, <1>4, <1>5, <1>6, <1>7 DEF BuiltPlans


-----------------------------------------------------------------------------
(* What holds of good plans *)

\* With unique ids, what a step waits for is what it was given.
LEMMA OwnDeps ==
  ASSUME NEW st, UniqueIds(st), NEW i \in DOMAIN st
  PROVE  st[i].id \in IdsOf(st) /\ DepsOf(st, st[i].id) = st[i].after
<1> DEFINE j == CHOOSE k \in DOMAIN st : st[k].id = st[i].id
<1>1. j \in DOMAIN st /\ st[j].id = st[i].id
  OBVIOUS
<1>2. j = i
  BY <1>1 DEF UniqueIds
<1> QED
  BY <1>2 DEF IdsOf, DepsOf

\* What a plan promises of each of its steps.
LEMMA GoodSteps ==
  ASSUME NEW st, GoodPlan(st)
  PROVE  \E after \in {{}, {"dns"}} :
             /\ \A i \in DOMAIN st : GoodStep(st[i], after)
             /\ UniqueIds(st)
             /\ after \subseteq IdsOf(st)
             /\ "dns" \in IdsOf(st) => after = {"dns"}
             /\ IdsOf(st) \cap {"tls.versions", "tls.hostname"} # {} => "tls.expiry" \in IdsOf(st)
<1>0. PICK after \in {{}, {"dns"}} : \E ids :
          /\ Part(st, after, ids) /\ after \subseteq ids
          /\ "dns" \in ids => after = {"dns"}
          /\ ids \cap {"tls.versions", "tls.hostname"} # {} => "tls.expiry" \in ids
  BY DEF GoodPlan
<1>1. PICK ids :
          /\ Part(st, after, ids) /\ after \subseteq ids
          /\ "dns" \in ids => after = {"dns"}
          /\ ids \cap {"tls.versions", "tls.hostname"} # {} => "tls.expiry" \in ids
  BY <1>0
<1>2. IdsOf(st) = ids /\ UniqueIds(st)
  BY <1>1 DEF Part
<1>3. \A i \in DOMAIN st : GoodStep(st[i], after)
  <2>1. PICK S : st \in Seq(S) /\ \A s \in S : GoodStep(s, after)
    BY <1>1 DEF Part
  <2> QED
    BY <2>1
<1> QED
  BY <1>1, <1>2, <1>3

\* A good plan can be scheduled: first the name server's step, then the certificate's, then the rest.
LEMMA GoodSchedulable == ASSUME NEW st, GoodPlan(st) PROVE Schedulable(st)
<1>1. PICK after \in {{}, {"dns"}} : UniqueIds(st) /\ \A i \in DOMAIN st : GoodStep(st[i], after)
  BY GoodSteps
<1> SUFFICES ASSUME NEW D \in (SUBSET IdsOf(st)) \ {{}} PROVE \E s \in D : DepsOf(st, s) \cap D = {}
  BY DEF Schedulable
<1>2. ASSUME NEW s \in D
      PROVE  /\ DepsOf(st, s) \subseteq {"dns", "tls.expiry"}
             /\ s = "dns" => DepsOf(st, s) = {}
             /\ s = "tls.expiry" => DepsOf(st, s) \subseteq {"dns"}
  <2>1. PICK i \in DOMAIN st : st[i].id = s
    BY DEF IdsOf
  <2>2. DepsOf(st, s) = st[i].after
    BY <1>1, <2>1, OwnDeps
  <2> QED
    BY <1>1, <2>1, <2>2 DEF GoodStep
<1>3. CASE "dns" \in D
  BY <1>2, <1>3
<1>4. CASE "dns" \notin D /\ "tls.expiry" \in D
  BY <1>2, <1>4
<1>5. CASE "dns" \notin D /\ "tls.expiry" \notin D
  BY <1>2, <1>5
<1> QED
  BY <1>3, <1>4, <1>5

\* A good plan is one the validation accepts.
LEMMA GoodValid == ASSUME NEW st, GoodPlan(st) PROVE Valid(st)
<1>1. PICK after \in {{}, {"dns"}} :
          /\ \A i \in DOMAIN st : GoodStep(st[i], after)
          /\ UniqueIds(st)
          /\ after \subseteq IdsOf(st)
          /\ IdsOf(st) \cap {"tls.versions", "tls.hostname"} # {} => "tls.expiry" \in IdsOf(st)
  BY GoodSteps
<1>2. \A i \in DOMAIN st : WellFormed(st[i])
  BY <1>1 DEF GoodStep, WellFormed
<1>3. KnownDeps(st)
  <2> SUFFICES ASSUME NEW i \in DOMAIN st, NEW d \in st[i].after PROVE d \in IdsOf(st)
    BY DEF KnownDeps
  <2>1. d \in after \/ d = "tls.expiry"
    BY <1>1 DEF GoodStep
  <2>2. d = "tls.expiry" => st[i].id \in {"tls.versions", "tls.hostname"}
    BY <1>1 DEF GoodStep
  <2>3. st[i].id \in IdsOf(st)
    BY DEF IdsOf
  <2> QED
    BY <1>1, <2>1, <2>2, <2>3
<1> QED
  BY <1>1, <1>2, <1>3, GoodSchedulable DEF Valid

\* Validation turns a hopeless plan away: its step has no budget left.
LEMMA HopelessInvalid == ASSUME NEW st \in HopelessPlans PROVE ~ Valid(st)
<1>0. PICK n \in PortCounts : \E t \in HopelessTimeouts(n) : st = TcpPlan(n, t)
  BY DEF HopelessPlans
<1>1. PICK t \in HopelessTimeouts(n) : st = TcpPlan(n, t)
  BY <1>0
<1>2. n \in Nat /\ t \in Int /\ Waves(n, 10) * t <= - Margin
  BY CountsAssumption DEF HopelessTimeouts
<1>3. Waves(n, 10) * t \in Int
  BY <1>2 DEF Waves, CeilDiv, Larger
<1> DEFINE b == PortScanBudget(n, t, 10)
<1>4. b \in Int /\ b <= 0
  BY <1>2, <1>3 DEF PortScanBudget, Margin
<1> HIDE DEF b
<1>5. 1 \in DOMAIN st /\ st[1].budget = {b}
  BY <1>1 DEF TcpPlan, NewStep, b
<1>6. ~ WellFormed(st[1])
  BY <1>4, <1>5 DEF WellFormed
<1> QED
  BY <1>5, <1>6 DEF Valid

\* BuiltAccepted holds: of the plans that the commands and the window build the validation turns
\* away those of `netdiag tcp` whose timeout leaves no budget, and no others, whatever the timeouts,
\* the sizes and the numbers of ports and hosts (plans.py and budgets.py against plan.py).
THEOREM BuiltPlansAccepted == Spec => []BuiltAccepted
<1>1. IInv => BuiltAccepted
  <2> SUFFICES ASSUME IInv, pc \in {"accepted", "rejected"}, Built
               PROVE  pc = "rejected" <=> steps \in HopelessPlans
    BY DEF BuiltAccepted
  <2>1. CASE steps \in HopelessPlans
    <3>1. ~ Valid(steps)
      BY <2>1, HopelessInvalid
    <3> QED
      BY <2>1, <3>1 DEF IInv, VerdictRight
  <2>2. CASE steps \notin HopelessPlans
    <3>1. Valid(steps)
      BY <2>2, GoodPlans, GoodValid DEF Built
    <3> QED
      BY <2>2, <3>1 DEF IInv, VerdictRight
  <2> QED
    BY <2>1, <2>2
<1> QED
  BY <1>1, Invariance, PTL

\* An accepted plan that the program built is a good one.
LEMMA AcceptedGood == IInv /\ pc = "accepted" /\ Built => GoodPlan(steps)
<1> SUFFICES ASSUME IInv, pc = "accepted", Built PROVE GoodPlan(steps)
  OBVIOUS
<1>1. steps \notin HopelessPlans
  BY HopelessInvalid DEF IInv, VerdictRight
<1> QED
  BY <1>1, GoodPlans DEF Built

\* WritersFirst holds: in every such plan, a step that reads the resolved address or the certificate
\* handshake runs after the step that writes it.
THEOREM WritersRunFirst == Spec => []WritersFirst
<1>1. IInv => WritersFirst
  <2> SUFFICES ASSUME IInv, pc = "accepted", Built,
                      NEW i \in DOMAIN steps, NEW j \in DOMAIN steps,
                      Writes(steps[i]) \cap Reads(steps[j]) # {}
               PROVE  steps[i].id \in Ancestors(steps[j].id)
    BY DEF WritersFirst
  <2>1. StepSequence(steps) /\ KnownDeps(steps) /\ UniqueIds(steps)
    BY DEF IInv, TypeOK, VerdictRight, Valid
  <2>2. PICK after \in {{}, {"dns"}} :
            /\ \A k \in DOMAIN steps : GoodStep(steps[k], after)
            /\ "dns" \in IdsOf(steps) => after = {"dns"}
    BY AcceptedGood, GoodSteps
  <2>3. steps[i].id \in IdsOf(steps)
    BY DEF IdsOf
  <2>4. PICK v \in Writes(steps[i]) : v \in Reads(steps[j])
    OBVIOUS
  <2>5. v \in {"address", "handshake"}
    BY <2>4 DEF Reads
  <2>6. steps[i].id \in steps[j].after
    <3>1. CASE v = "address"
      BY <2>2, <2>3, <2>4, <3>1 DEF GoodStep
    <3>2. CASE v = "handshake"
      BY <2>2, <2>4, <3>2 DEF GoodStep
    <3> QED
      BY <2>5, <3>1, <3>2
  <2>7. steps[j].id \in IdsOf(steps) /\ DepsOf(steps, steps[j].id) = steps[j].after
    BY <2>1, OwnDeps
  <2> QED
    BY <2>1, <2>6, <2>7, DepsAreAncestors
<1> QED
  BY <1>1, Invariance, PTL

\* BudgetCovers holds: the runner stops no such step before its own timeouts could have ended it,
\* whatever they are (budgets.py).
THEOREM BudgetsCover == Spec => []BudgetCovers
<1>1. IInv => BudgetCovers
  <2> SUFFICES ASSUME IInv, pc = "accepted", Built, NEW i \in DOMAIN steps, steps[i].fn \in TimedFunctions, NEW b \in steps[i].budget
               PROVE  b > LongestRun(steps[i])
    BY DEF BudgetCovers
  <2>1. PICK after \in {{}, {"dns"}} : \A k \in DOMAIN steps : GoodStep(steps[k], after)
    BY AcceptedGood, GoodSteps
  <2> QED
    BY <2>1 DEF GoodStep
<1> QED
  BY <1>1, Invariance, PTL

\* The budget of an MTU search, whatever its range, is more than the time of all its probes, of a
\* second and four at most each, if there are no more of them than Diagnostics!SearchHalves allows:
\* a search is not stopped for probes that it was meant to make.
THEOREM SearchFitsBudget ==
  ASSUME NEW sizes \in Int \X Int, NEW probes \in Nat,
         probes > 0 => PowerOfTwo[probes - 1] <= sizes[2] - sizes[1] + 1
  PROVE  \A budget \in MtuStep({}, FALSE, sizes).budget : probes * 5 < budget
<1> DEFINE n == sizes[2] - sizes[1] + 1
           k == Larger(1, sizes[2] - sizes[1] + 2)
           L == CeilLog2(k)
           b == ScaledBudget("mtu", MtuWorstCase(sizes[1], sizes[2]))
<1>1. MtuStep({}, FALSE, sizes).budget = {b}
  BY DEF MtuStep, OnLane, Behind, NewStep
<1>2. n \in Int /\ k \in Nat /\ k >= 1 /\ k > n
  BY DEF Larger
<1>3. L \in Nat /\ PowerOfTwo[L] > n
  <2> HIDE DEF k, n
  <2>1. L \in Nat /\ PowerOfTwo[L] >= k
    BY <1>2, CeilLog2Enough
  <2>2. PowerOfTwo[L] \in Nat
    BY <2>1, PowersDouble
  <2> QED
    BY <1>2, <2>1, <2>2
<1>4. b \in Int /\ b >= L * 5 + 20
  BY <1>3 DEF MtuWorstCase, ScaledBudget, Larger, DefaultBudget, BudgetTable
<1> DEFINE T == {j \in Nat : PowerOfTwo[L + j] >= PowerOfTwo[L]}
<1> HIDE DEF n, k, L, b
<1>5. \A j \in Nat : j \in T
  <2>1. 0 \in T
    BY <1>3, PowersDouble
  <2>2. ASSUME NEW j \in T PROVE j + 1 \in T
    <3>1. /\ L + j \in Nat /\ (L + j) + 1 = L + (j + 1)
          /\ PowerOfTwo[L] \in Nat /\ PowerOfTwo[L + j] \in Nat
      BY <1>3, PowersDouble
    <3>2. PowerOfTwo[L + (j + 1)] = 2 * PowerOfTwo[L + j]
      BY <3>1, PowersDouble
    <3> QED
      BY <3>1, <3>2
  <2>3. T \subseteq Nat
    OBVIOUS
  <2> HIDE DEF T
  <2> QED
    BY <2>1, <2>2, <2>3, SetInduction
<1>6. probes <= L
  <2> SUFFICES ASSUME probes > L PROVE FALSE
    BY <1>3
  <2>1. probes - 1 - L \in Nat /\ L + (probes - 1 - L) = probes - 1 /\ probes > 0 /\ probes - 1 \in Nat
    BY <1>3
  <2>2. PowerOfTwo[probes - 1] >= PowerOfTwo[L] /\ PowerOfTwo[probes - 1] <= n
    BY <1>5, <2>1 DEF n
  <2>3. PowerOfTwo[probes - 1] \in Nat /\ PowerOfTwo[L] \in Nat
    BY <1>3, <2>1, PowersDouble
  <2> QED
    BY <1>2, <1>3, <2>2, <2>3
<1>7. probes * 5 < b
  BY <1>3, <1>4, <1>6
<1> QED
  BY <1>1, <1>7
=============================================================================
