-------------------------- MODULE ProcessRun_proofs --------------------------
(***************************************************************************)
(* What process.run reports and leaves behind, for any command and any     *)
(* children of it, on POSIX and on Windows.                                *)
(***************************************************************************)
EXTENDS ProcessRun, TLAPS

\* Types are kept, and an outcome is set exactly at the end.
LEMMA TypeNext == TypeOK /\ [Next]_vars => TypeOK'
<1> SUFFICES ASSUME TypeOK, [Next]_vars PROVE TypeOK'
  OBVIOUS
<1> USE ProcessAssumption DEF TypeOK, Procs, Outcomes, RunningProcs, OwnGroup
<1>1. CASE CheckCancelled
  BY <1>1 DEF CheckCancelled, End, local, system, clock
<1>2. CASE CheckBudget
  BY <1>2 DEF CheckBudget, End, local, system, clock
<1>3. CASE Spawn
  BY <1>3 DEF Spawn, local, system, clock
<1>4. CASE SpawnFails
  BY <1>4 DEF SpawnFails, End, local, system, clock
<1>5. CASE CommunicateEnds
  BY <1>5 DEF CommunicateEnds, Reaped, local, system, clock
<1>6. CASE PollIntervalPasses
  BY <1>6 DEF PollIntervalPasses, local, system, clock
<1>7. CASE CommunicateFails
  BY <1>7 DEF CommunicateFails, Signal, Reaped, local, system, clock
<1>8. CASE Look
  BY <1>8 DEF Look, Signal, Reaped, local, system, clock
<1>9. CASE LookAgain
  BY <1>9 DEF LookAgain, KillDue, Signal, Reaped, local, system, clock
<1>10. CASE WaitEnds
  BY <1>10 DEF WaitEnds, WaitOver, Reaped, End, local, system, clock
<1>11. CASE Conclude
  BY <1>11 DEF Conclude, Endings, End, local, system, clock
<1>12. CASE ReuseId
  BY <1>12 DEF ReuseId, local, system, clock
<1>13. CASE CancelScan
  BY <1>13 DEF CancelScan, local, system, clock
<1>14. CASE BudgetPasses
  BY <1>14 DEF BudgetPasses, local, system, clock
<1>15. CASE TimeoutPasses
  BY <1>15 DEF TimeoutPasses, local, system, clock
<1>16. CASE GracePasses
  BY <1>16 DEF GracePasses, local, system, clock
<1>17. ASSUME NEW c \in Children, Fork(c) PROVE TypeOK'
  BY <1>17 DEF Fork, local, system, clock
<1>18. ASSUME NEW p \in Procs, Exit(p) PROVE TypeOK'
  BY <1>18 DEF Exit, local, system, clock
<1>19. CASE UNCHANGED vars
  BY <1>19 DEF vars, local, system, clock
<1>. QED
  BY <1>1, <1>2, <1>3, <1>4, <1>5, <1>6, <1>7, <1>8, <1>9, <1>10, <1>11, <1>12, <1>13, <1>14, <1>15, <1>16, <1>17, <1>18, <1>19
     DEF Next, Run, Environment

\* The command goes from not started to reaped as run() goes on.
LEMMA StagesNext == TypeOK /\ CommandStages /\ CommandReaped /\ [Next]_vars => (CommandStages /\ CommandReaped)'
<1> SUFFICES ASSUME TypeOK, CommandStages, CommandReaped, [Next]_vars PROVE (CommandStages /\ CommandReaped)'
  OBVIOUS
<1> USE ProcessAssumption DEF TypeOK, CommandStages, CommandReaped, Procs, NothingToSignal
<1>1. CASE CheckCancelled
  BY <1>1 DEF CheckCancelled, End, local, system, clock
<1>2. CASE CheckBudget
  BY <1>2 DEF CheckBudget, End, local, system, clock
<1>3. CASE Spawn
  BY <1>3 DEF Spawn, local, system, clock
<1>4. CASE SpawnFails
  BY <1>4 DEF SpawnFails, End, local, system, clock
<1>5. CASE CommunicateEnds
  BY <1>5 DEF CommunicateEnds, Reaped, local, system, clock
<1>6. CASE PollIntervalPasses
  BY <1>6 DEF PollIntervalPasses, local, system, clock
<1>7. CASE CommunicateFails
  BY <1>7 DEF CommunicateFails, Signal, Reaped, local, system, clock
<1>8. CASE Look
  BY <1>8 DEF Look, Signal, Reaped, local, system, clock
<1>9. CASE LookAgain
  BY <1>9 DEF LookAgain, KillDue, Signal, Reaped, local, system, clock
<1>10. CASE WaitEnds
  BY <1>10 DEF WaitEnds, WaitOver, Reaped, End, local, system, clock
<1>11. CASE Conclude
  BY <1>11 DEF Conclude, Endings, End, local, system, clock
<1>12. CASE ReuseId
  BY <1>12 DEF ReuseId, local, system, clock
<1>13. CASE CancelScan
  BY <1>13 DEF CancelScan, local, system, clock
<1>14. CASE BudgetPasses
  BY <1>14 DEF BudgetPasses, local, system, clock
<1>15. CASE TimeoutPasses
  BY <1>15 DEF TimeoutPasses, local, system, clock
<1>16. CASE GracePasses
  BY <1>16 DEF GracePasses, local, system, clock
<1>17. ASSUME NEW c \in Children, Fork(c) PROVE (CommandStages /\ CommandReaped)'
  BY <1>17 DEF Fork, local, system, clock
<1>18. ASSUME NEW p \in Procs, Exit(p) PROVE (CommandStages /\ CommandReaped)'
  BY <1>18 DEF Exit, local, system, clock
<1>19. CASE UNCHANGED vars
  BY <1>19 DEF vars, local, system, clock
<1>. QED
  BY <1>1, <1>2, <1>3, <1>4, <1>5, <1>6, <1>7, <1>8, <1>9, <1>10, <1>11, <1>12, <1>13, <1>14, <1>15, <1>16, <1>17, <1>18, <1>19
     DEF Next, Run, Environment

\* run() stops a command for the reason it says.
LEMMA StopNext == TypeOK /\ CommandStages /\ StopFounded /\ [Next]_vars => StopFounded'
<1> SUFFICES ASSUME TypeOK, CommandStages, StopFounded, [Next]_vars PROVE StopFounded'
  OBVIOUS
<1> USE ProcessAssumption DEF TypeOK, CommandStages, StopFounded, OutOfTime, NothingToSignal
<1>1. CASE CheckCancelled
  BY <1>1 DEF CheckCancelled, End, local, system, clock
<1>2. CASE CheckBudget
  BY <1>2 DEF CheckBudget, End, local, system, clock
<1>3. CASE Spawn
  BY <1>3 DEF Spawn, local, system, clock
<1>4. CASE SpawnFails
  BY <1>4 DEF SpawnFails, End, local, system, clock
<1>5. CASE CommunicateEnds
  BY <1>5 DEF CommunicateEnds, Reaped, local, system, clock
<1>6. CASE PollIntervalPasses
  BY <1>6 DEF PollIntervalPasses, local, system, clock
<1>7. CASE CommunicateFails
  BY <1>7 DEF CommunicateFails, Signal, Reaped, local, system, clock
<1>8. CASE Look
  BY <1>8 DEF Look, Signal, Reaped, local, system, clock
<1>9. CASE LookAgain
  BY <1>9 DEF LookAgain, KillDue, Signal, Reaped, local, system, clock
<1>10. CASE WaitEnds
  BY <1>10 DEF WaitEnds, WaitOver, Reaped, End, local, system, clock
<1>11. CASE Conclude
  BY <1>11 DEF Conclude, Endings, End, local, system, clock
<1>12. CASE ReuseId
  BY <1>12 DEF ReuseId, local, system, clock
<1>13. CASE CancelScan
  BY <1>13 DEF CancelScan, local, system, clock
<1>14. CASE BudgetPasses
  BY <1>14 DEF BudgetPasses, local, system, clock
<1>15. CASE TimeoutPasses
  BY <1>15 DEF TimeoutPasses, local, system, clock
<1>16. CASE GracePasses
  BY <1>16 DEF GracePasses, local, system, clock
<1>17. ASSUME NEW c \in Children, Fork(c) PROVE StopFounded'
  BY <1>17 DEF Fork, local, system, clock
<1>18. ASSUME NEW p \in Procs, Exit(p) PROVE StopFounded'
  BY <1>18 DEF Exit, local, system, clock
<1>19. CASE UNCHANGED vars
  BY <1>19 DEF vars, local, system, clock
<1>. QED
  BY <1>1, <1>2, <1>3, <1>4, <1>5, <1>6, <1>7, <1>8, <1>9, <1>10, <1>11, <1>12, <1>13, <1>14, <1>15, <1>16, <1>17, <1>18, <1>19
     DEF Next, Run, Environment

\* Whatever run() decides on reaches a command that still runs.
LEMMA SentNext ==
    TypeOK /\ CommandStages /\ StopFounded /\ StopSent /\ [Next]_vars => StopSent'
<1> SUFFICES ASSUME TypeOK, CommandStages, StopFounded, StopSent, [Next]_vars
             PROVE  StopSent'
  OBVIOUS
<1> USE ProcessAssumption DEF TypeOK, CommandStages, StopFounded, StopSent, Procs, NothingToSignal,
                           RunningProcs, OwnGroup
<1>1. CASE CheckCancelled
  BY <1>1 DEF CheckCancelled, End, local, system, clock
<1>2. CASE CheckBudget
  BY <1>2 DEF CheckBudget, End, local, system, clock
<1>3. CASE Spawn
  BY <1>3 DEF Spawn, local, system, clock
<1>4. CASE SpawnFails
  BY <1>4 DEF SpawnFails, End, local, system, clock
<1>5. CASE CommunicateEnds
  BY <1>5 DEF CommunicateEnds, Reaped, local, system, clock
<1>6. CASE PollIntervalPasses
  BY <1>6 DEF PollIntervalPasses, local, system, clock
<1>7. CASE CommunicateFails
  BY <1>7 DEF CommunicateFails, Signal, Reaped, local, system, clock
<1>8. CASE Look
  BY <1>8 DEF Look, Signal, Reaped, local, system, clock
<1>9. CASE LookAgain
  BY <1>9 DEF LookAgain, KillDue, Signal, Reaped, local, system, clock
<1>10. CASE WaitEnds
  BY <1>10 DEF WaitEnds, WaitOver, Reaped, End, local, system, clock
<1>11. CASE Conclude
  BY <1>11 DEF Conclude, Endings, End, local, system, clock
<1>12. CASE ReuseId
  BY <1>12 DEF ReuseId, local, system, clock
<1>13. CASE CancelScan
  BY <1>13 DEF CancelScan, local, system, clock
<1>14. CASE BudgetPasses
  BY <1>14 DEF BudgetPasses, local, system, clock
<1>15. CASE TimeoutPasses
  BY <1>15 DEF TimeoutPasses, local, system, clock
<1>16. CASE GracePasses
  BY <1>16 DEF GracePasses, local, system, clock
<1>17. ASSUME NEW c \in Children, Fork(c) PROVE StopSent'
  BY <1>17 DEF Fork, local, system, clock
<1>18. ASSUME NEW p \in Procs, Exit(p) PROVE StopSent'
  BY <1>18 DEF Exit, local, system, clock
<1>19. CASE UNCHANGED vars
  BY <1>19 DEF vars, local, system, clock
<1>. QED
  BY <1>1, <1>2, <1>3, <1>4, <1>5, <1>6, <1>7, <1>8, <1>9, <1>10, <1>11, <1>12, <1>13, <1>14, <1>15, <1>16, <1>17, <1>18, <1>19
     DEF Next, Run, Environment

\* The outcome follows the stop reason.
LEMMA HonestNext == TypeOK /\ StopFounded /\ OutcomeHonest /\ [Next]_vars => OutcomeHonest'
<1> SUFFICES ASSUME TypeOK, StopFounded, OutcomeHonest, [Next]_vars PROVE OutcomeHonest'
  OBVIOUS
<1> USE ProcessAssumption DEF TypeOK, StopFounded, OutcomeHonest, OutOfTime
<1>1. CASE CheckCancelled
  BY <1>1 DEF CheckCancelled, End, local, system, clock
<1>2. CASE CheckBudget
  BY <1>2 DEF CheckBudget, End, local, system, clock
<1>3. CASE Spawn
  BY <1>3 DEF Spawn, local, system, clock
<1>4. CASE SpawnFails
  BY <1>4 DEF SpawnFails, End, local, system, clock
<1>5. CASE CommunicateEnds
  BY <1>5 DEF CommunicateEnds, Reaped, local, system, clock
<1>6. CASE PollIntervalPasses
  BY <1>6 DEF PollIntervalPasses, local, system, clock
<1>7. CASE CommunicateFails
  BY <1>7 DEF CommunicateFails, Signal, Reaped, local, system, clock
<1>8. CASE Look
  BY <1>8 DEF Look, Signal, Reaped, local, system, clock
<1>9. CASE LookAgain
  BY <1>9 DEF LookAgain, KillDue, Signal, Reaped, local, system, clock
<1>10. CASE WaitEnds
  BY <1>10 DEF WaitEnds, WaitOver, Reaped, End, local, system, clock
<1>11. CASE Conclude
  BY <1>11 DEF Conclude, Endings, End, local, system, clock
<1>12. CASE ReuseId
  BY <1>12 DEF ReuseId, local, system, clock
<1>13. CASE CancelScan
  BY <1>13 DEF CancelScan, local, system, clock
<1>14. CASE BudgetPasses
  BY <1>14 DEF BudgetPasses, local, system, clock
<1>15. CASE TimeoutPasses
  BY <1>15 DEF TimeoutPasses, local, system, clock
<1>16. CASE GracePasses
  BY <1>16 DEF GracePasses, local, system, clock
<1>17. ASSUME NEW c \in Children, Fork(c) PROVE OutcomeHonest'
  BY <1>17 DEF Fork, local, system, clock
<1>18. ASSUME NEW p \in Procs, Exit(p) PROVE OutcomeHonest'
  BY <1>18 DEF Exit, local, system, clock
<1>19. CASE UNCHANGED vars
  BY <1>19 DEF vars, local, system, clock
<1>. QED
  BY <1>1, <1>2, <1>3, <1>4, <1>5, <1>6, <1>7, <1>8, <1>9, <1>10, <1>11, <1>12, <1>13, <1>14, <1>15, <1>16, <1>17, <1>18, <1>19
     DEF Next, Run, Environment

\* A reused process id is a reaped command's, which is not signalled.
LEMMA StrangerNext == CommandStages /\ NoStrangerSignalled /\ [Next]_vars => NoStrangerSignalled'
<1> SUFFICES ASSUME CommandStages, NoStrangerSignalled, [Next]_vars PROVE NoStrangerSignalled'
  OBVIOUS
<1> USE ProcessAssumption DEF CommandStages, NoStrangerSignalled, NothingToSignal
<1>1. CASE CheckCancelled
  BY <1>1 DEF CheckCancelled, End, local, system, clock
<1>2. CASE CheckBudget
  BY <1>2 DEF CheckBudget, End, local, system, clock
<1>3. CASE Spawn
  BY <1>3 DEF Spawn, local, system, clock
<1>4. CASE SpawnFails
  BY <1>4 DEF SpawnFails, End, local, system, clock
<1>5. CASE CommunicateEnds
  BY <1>5 DEF CommunicateEnds, Reaped, local, system, clock
<1>6. CASE PollIntervalPasses
  BY <1>6 DEF PollIntervalPasses, local, system, clock
<1>7. CASE CommunicateFails
  BY <1>7 DEF CommunicateFails, Signal, Reaped, local, system, clock
<1>8. CASE Look
  BY <1>8 DEF Look, Signal, Reaped, local, system, clock
<1>9. CASE LookAgain
  BY <1>9 DEF LookAgain, KillDue, Signal, Reaped, local, system, clock
<1>10. CASE WaitEnds
  BY <1>10 DEF WaitEnds, WaitOver, Reaped, End, local, system, clock
<1>11. CASE Conclude
  BY <1>11 DEF Conclude, Endings, End, local, system, clock
<1>12. CASE ReuseId
  BY <1>12 DEF ReuseId, local, system, clock
<1>13. CASE CancelScan
  BY <1>13 DEF CancelScan, local, system, clock
<1>14. CASE BudgetPasses
  BY <1>14 DEF BudgetPasses, local, system, clock
<1>15. CASE TimeoutPasses
  BY <1>15 DEF TimeoutPasses, local, system, clock
<1>16. CASE GracePasses
  BY <1>16 DEF GracePasses, local, system, clock
<1>17. ASSUME NEW c \in Children, Fork(c) PROVE NoStrangerSignalled'
  BY <1>17 DEF Fork, local, system, clock
<1>18. ASSUME NEW p \in Procs, Exit(p) PROVE NoStrangerSignalled'
  BY <1>18 DEF Exit, local, system, clock
<1>19. CASE UNCHANGED vars
  BY <1>19 DEF vars, local, system, clock
<1>. QED
  BY <1>1, <1>2, <1>3, <1>4, <1>5, <1>6, <1>7, <1>8, <1>9, <1>10, <1>11, <1>12, <1>13, <1>14, <1>15, <1>16, <1>17, <1>18, <1>19
     DEF Next, Run, Environment

\* IInv is inductive.
LEMMA ProcessInvariant == Spec => []IInv
<1>1. Init => IInv
  <2> SUFFICES ASSUME Init PROVE IInv
    OBVIOUS
  <2> USE ProcessAssumption DEF Init, Procs
  <2>1. TypeOK
    BY DEF TypeOK, Outcomes
  <2>2. OutcomeHonest /\ CommandReaped /\ NoStrangerSignalled
    BY DEF OutcomeHonest, CommandReaped, NoStrangerSignalled
  <2>3. CommandStages /\ StopFounded /\ StopSent
    BY DEF CommandStages, StopFounded, StopSent
  <2>. QED
    BY <2>1, <2>2, <2>3 DEF IInv
<1>2. IInv /\ [Next]_vars => IInv'
  BY TypeNext, StagesNext, StopNext, SentNext, HonestNext, StrangerNext DEF IInv
<1>. QED
  BY <1>1, <1>2, PTL DEF Spec

\* An exit status is reported only of a command never signalled, a timeout only of time that
\* has passed, a cancellation only of a cancelled scan.
THEOREM OutcomesHonest == Spec => []OutcomeHonest
<1>1. IInv => OutcomeHonest
  BY DEF IInv
<1>. QED
  BY ProcessInvariant, <1>1, PTL

\* run() leaves neither a running command nor a zombie behind.
THEOREM CommandsReaped == Spec => []CommandReaped
<1>1. IInv => CommandReaped
  BY DEF IInv
<1>. QED
  BY ProcessInvariant, <1>1, PTL

\* No signal reaches a process that was given the command's process id.
THEOREM StrangersSpared == Spec => []NoStrangerSignalled
<1>1. IInv => NoStrangerSignalled
  BY DEF IInv
<1>. QED
  BY ProcessInvariant, <1>1, PTL

\* A decision to stop is never forgotten on the way to the command: one that still runs has been
\* signalled since, and is doomed once run() has killed it or only waits for it; that the grace
\* period passes and a doomed process dies is all CancelStops needs besides.
THEOREM StopsReachTheCommand == Spec => []StopSent
<1>1. IInv => StopSent
  BY DEF IInv
<1>. QED
  BY ProcessInvariant, <1>1, PTL
=============================================================================
