---------------------------- MODULE GuiWindow_proofs ----------------------------
(***************************************************************************)
(* Proofs about the window and its scan threads, for any number of scans   *)
(* of any plan: in whatever order clicks, closing and the queued events    *)
(* come.                                                                   *)
(***************************************************************************)
EXTENDS GuiWindow, NaturalsInduction, WellFoundedInduction, TLAPS

(* Sequences *)

\* One sequence behind another.
LEMMA Behind ==
  ASSUME NEW S, NEW s \in Seq(S), NEW t \in Seq(S), NEW p, p = s \o t
  PROVE  /\ p \in Seq(S) /\ Len(s) \in Nat /\ Len(t) \in Nat
         /\ Len(p) = Len(s) + Len(t)
         /\ \A i \in 1..Len(s) : p[i] = s[i]
         /\ \A i \in 1..Len(t) : p[Len(s) + i] = t[i]
OBVIOUS

\* Its indices: those of the first, and those of the other behind them.
LEMMA BehindIndices ==
  ASSUME NEW S, NEW s \in Seq(S), NEW t \in Seq(S), NEW p, p = s \o t
  PROVE  /\ p \in Seq(S)
         /\ \A i \in 1..Len(s) : i \in 1..Len(p) /\ p[i] = s[i]
         /\ \A i \in 1..Len(p) : \/ i \in 1..Len(s)
                                 \/ i - Len(s) \in 1..Len(t) /\ p[i] = t[i - Len(s)]
<1>1. /\ p \in Seq(S) /\ Len(s) \in Nat /\ Len(t) \in Nat
      /\ Len(p) = Len(s) + Len(t)
      /\ \A i \in 1..Len(s) : p[i] = s[i]
      /\ \A i \in 1..Len(t) : p[Len(s) + i] = t[i]
  BY Behind
<1>2. \A i \in 1..Len(s) : i \in 1..Len(p) /\ p[i] = s[i]
  BY <1>1
<1>3. ASSUME NEW i \in 1..Len(p), i \notin 1..Len(s)
      PROVE  i - Len(s) \in 1..Len(t) /\ p[i] = t[i - Len(s)]
  <2>1. i - Len(s) \in 1..Len(t) /\ Len(s) + (i - Len(s)) = i
    BY <1>1, <1>3
  <2> QED
    BY <1>1, <2>1
<1> QED
  BY <1>1, <1>2, <1>3

-----------------------------------------------------------------------------
(* The initial states *)

USE DEF gui, scans, ending, vars, Runs, None

\* IInv holds initially.
LEMMA IInvInit == Init => IInv
<1> SUFFICES ASSUME Init PROVE IInv
  OBVIOUS
<1> USE DEF Init
<1>1. Types
  <2>1. <<>> \in Seq(Events)
    OBVIOUS
  <2>2. 0 \in 0..MaxRuns
    BY BoundsAssumption
  <2>3. thread \in [1..MaxRuns -> {"none", "running", "reported", "ended"}]
    OBVIOUS
  <2> QED
    BY <2>1, <2>2, <2>3 DEF Types
<1>2. ThreadsTrue /\ EventsTrue /\ AskedTrue
  BY DEF ThreadsTrue, EventsTrue, AskedTrue
<1>3. OneScan /\ WorkerAlive /\ SafeClose
  BY DEF OneScan, IsRunning, WorkerAlive, SafeClose
<1> QED
  BY <1>1, <1>2, <1>3 DEF IInv

-----------------------------------------------------------------------------
(* The queue *)

\* An event that is queued behind the others, and is none of a thread's end, breaks nothing.
LEMMA Queued ==
  ASSUME Types, EventsTrue, NEW q \in Seq(Events), queue' = queue \o q,
         \A i \in 1..Len(q) : q[i].kind \notin Ending /\ q[i].run <= started,
         UNCHANGED <<worker, started>>,
         \A r \in Runs : thread[r] = "ended" => thread'[r] = "ended"
  PROVE  queue' \in Seq(Events) /\ EventsTrue'
<1>1. /\ queue \in Seq(Events) /\ Len(queue) \in Nat /\ Len(q) \in Nat
      /\ queue' \in Seq(Events) /\ Len(queue') = Len(queue) + Len(q)
      /\ \A i \in 1..Len(queue) : queue'[i] = queue[i]
      /\ \A i \in 1..Len(q) : queue'[Len(queue) + i] = q[i]
  BY DEF Types
<1>2. \A i \in 1..Len(queue') : i \in 1..Len(queue)
                                \/ \E k \in 1..Len(q) : i = Len(queue) + k /\ queue'[i] = q[k]
  <2> SUFFICES ASSUME NEW i \in 1..Len(queue'), i \notin 1..Len(queue)
               PROVE  \E k \in 1..Len(q) : i = Len(queue) + k /\ queue'[i] = q[k]
    OBVIOUS
  <2>1. i - Len(queue) \in 1..Len(q)
    BY <1>1
  <2> QED
    BY <1>1, <2>1
<1>3. \A i \in 1..Len(queue') : queue'[i].kind \in Ending => i \in 1..Len(queue) /\ queue'[i] = queue[i]
  BY <1>1, <1>2
<1>4. \A i \in 1..Len(queue) : queue[i] \in Events
  BY <1>1
<1>5. \A i \in 1..Len(queue) : queue[i].run \in Runs
  BY <1>4 DEF Events
<1>6. \A i \in 1..Len(queue') : queue'[i].run <= started
  BY <1>1, <1>2 DEF EventsTrue
<1>7. \A i \in 1..Len(queue) : i \in 1..Len(queue')
  BY <1>1
<1> QED
  BY <1>1, <1>3, <1>5, <1>6, <1>7 DEF EventsTrue, Ending

\* The first event is taken: the others move up.
LEMMA Taken ==
  ASSUME Types, EventsTrue, queue # <<>>, queue' = Tail(queue), UNCHANGED <<started, thread>>,
         \/ UNCHANGED worker /\ Head(queue).kind # "finished"
         \/ worker' = None /\ Head(queue).kind = "finished"
  PROVE  queue' \in Seq(Events) /\ EventsTrue'
<1>1. /\ queue \in Seq(Events) /\ Len(queue) \in Nat /\ Head(queue) = queue[1]
      /\ queue' \in Seq(Events) /\ Len(queue') = Len(queue) - 1
      /\ \A i \in 1..Len(queue') : i + 1 \in 1..Len(queue) /\ queue'[i] = queue[i + 1]
  BY DEF Types
<1>2. \A i \in 1..Len(queue) : queue[i].run \in Runs /\ queue[i].run # 0
  <2>1. \A i \in 1..Len(queue) : queue[i] \in Events
    BY <1>1
  <2> QED
    BY <2>1 DEF Events
<1>3. CASE UNCHANGED worker /\ Head(queue).kind # "finished"
  <2>1. ASSUME NEW j \in 1..Len(queue), queue[j].kind = "finished"
        PROVE  j - 1 \in 1..Len(queue') /\ queue'[j - 1].kind = "finished"
    <3>1. j # 1
      BY <1>1, <1>3, <2>1
    <3>2. j - 1 \in 1..Len(queue')
      BY <1>1, <3>1
    <3> QED
      BY <1>1, <2>1, <3>2
  <2>2. ASSUME NEW i \in 1..Len(queue')
        PROVE  /\ queue'[i].run <= started
               /\ queue'[i].kind \in Ending => thread[queue'[i].run] = "ended"
               /\ queue'[i].kind = "finished" =>
                     queue'[i].run = worker /\ \A j \in 1..Len(queue') : queue'[j].kind = "finished" => j = i
    BY <1>1, <2>2 DEF EventsTrue
  <2>3. ASSUME NEW i \in 1..Len(queue'), queue'[i].kind = "deleteLater", queue'[i].run = worker
        PROVE  \E j \in 1..Len(queue') : j > i /\ queue'[j].kind = "finished"
    <3>1. PICK j \in 1..Len(queue) : j > i + 1 /\ queue[j].kind = "finished"
      BY <1>1, <2>3 DEF EventsTrue
    <3> QED
      BY <1>1, <2>1, <3>1
  <2>4. ASSUME NEW i \in 1..Len(queue'), queue'[i].kind = "deferredDelete", queue'[i].run = worker
        PROVE  \E j \in 1..Len(queue') : j < i /\ queue'[j].kind = "finished"
    <3>1. PICK j \in 1..Len(queue) : j < i + 1 /\ queue[j].kind = "finished"
      BY <1>1, <2>4 DEF EventsTrue
    <3>2. j - 1 < i
      BY <1>1, <3>1
    <3> QED
      BY <2>1, <3>1, <3>2
  <2> QED
    BY <1>1, <1>3, <2>2, <2>3, <2>4 DEF EventsTrue
<1>4. CASE worker' = None /\ Head(queue).kind = "finished"
  <2>1. \A i \in 1..Len(queue') : queue'[i].kind # "finished" /\ queue'[i].run # worker'
    <3>1. 1 \in 1..Len(queue)
      BY <1>1
    <3> QED
      BY <1>1, <1>2, <1>4, <3>1 DEF EventsTrue
  <2> QED
    BY <1>1, <1>4, <2>1 DEF EventsTrue
<1> QED
  BY <1>3, <1>4

\* A thread ends: its end is queued, once.
LEMMA EndQueued ==
  ASSUME IInv, NEW r \in Runs, Finish(r)
  PROVE  queue' \in Seq(Events) /\ EventsTrue'
<1>0. Types /\ EventsTrue /\ OneScan /\ worker = r /\ r <= started
  BY DEF IInv, Finish, OneScan, IsRunning, ThreadsTrue
<1> DEFINE close == IF closeOnFinish THEN <<Event("close", r)>> ELSE <<>>
<1>1. /\ close \in Seq(Events) /\ Len(close) \in Nat
      /\ \A i \in 1..Len(close) : close[i].kind = "close" /\ close[i].run = r
  <2>1. Event("close", r) \in Events
    BY DEF Event, Events
  <2>2. CASE closeOnFinish
    BY <2>1, <2>2 DEF Event
  <2>3. CASE ~closeOnFinish
    BY <2>3
  <2> QED
    BY <2>2, <2>3
<1> DEFINE two == <<Event("deleteLater", r), Event("finished", r)>>
<1> DEFINE more == queue \o two
<1>2. two \in Seq(Events) /\ Len(two) = 2 /\ two[1] = Event("deleteLater", r) /\ two[2] = Event("finished", r)
  <2>1. Event("deleteLater", r) \in Events /\ Event("finished", r) \in Events
    BY DEF Event, Events, Ending
  <2> QED
    BY <2>1
<1>3. more = queue \o two /\ queue' = more \o close
  BY DEF Finish
<1> HIDE DEF close, two, more
<1>4. queue \in Seq(Events) /\ Len(queue) \in Nat
  BY <1>0 DEF Types
<1>5. /\ more \in Seq(Events) /\ Len(more) = Len(queue) + Len(two)
      /\ \A i \in 1..Len(queue) : more[i] = queue[i]
      /\ \A i \in 1..Len(two) : more[Len(queue) + i] = two[i]
  <2>1. two \in Seq(Events)
    BY <1>2
  <2> QED
    BY <1>3, <1>4, <2>1, Behind
<1>6. /\ queue' \in Seq(Events)
      /\ \A i \in 1..Len(more) : i \in 1..Len(queue') /\ queue'[i] = more[i]
      /\ \A i \in 1..Len(queue') : \/ i \in 1..Len(more)
                                   \/ i - Len(more) \in 1..Len(close) /\ queue'[i] = close[i - Len(more)]
  BY <1>1, <1>3, <1>5, BehindIndices
<1>16. 1 \in 1..Len(two) /\ 2 \in 1..Len(two)
  BY <1>2
<1>17. /\ \A i \in 1..Len(queue) : i \in 1..Len(more)
       /\ Len(queue) + 1 \in 1..Len(more) /\ Len(queue) + 2 \in 1..Len(more)
       /\ \A i \in 1..Len(more) : i \in 1..Len(queue) \/ i = Len(queue) + 1 \/ i = Len(queue) + 2
  BY <1>2, <1>4, <1>5
<1>18. /\ \A i \in 1..Len(queue) : i \in 1..Len(queue') /\ queue'[i] = queue[i]
       /\ Len(queue) + 1 \in 1..Len(queue') /\ queue'[Len(queue) + 1] = Event("deleteLater", r)
       /\ Len(queue) + 2 \in 1..Len(queue') /\ queue'[Len(queue) + 2] = Event("finished", r)
  BY <1>2, <1>5, <1>6, <1>16, <1>17
<1>7. \A i \in 1..Len(queue') : \/ i \in 1..Len(queue) \/ i = Len(queue) + 1 \/ i = Len(queue) + 2
                                \/ queue'[i].kind = "close" /\ queue'[i].run = r
  BY <1>1, <1>6, <1>17
<1>8. \A i \in 1..Len(queue) : queue[i].kind # "finished" /\ queue[i].run \in Runs
  <2>1. \A i \in 1..Len(queue) : queue[i] \in Events
    BY <1>4
  <2>2. \A i \in 1..Len(queue) : queue[i].run \in Runs
    BY <2>1 DEF Events
  <2>3. thread[r] # "ended"
    BY DEF Finish
  <2> QED
    BY <1>0, <2>2, <2>3 DEF EventsTrue, Ending
<1>9. /\ thread'[r] = "ended" /\ \A t \in Runs : thread[t] = "ended" => thread'[t] = "ended"
      /\ UNCHANGED <<worker, started>>
  BY <1>0 DEF Finish, Types
<1>10. /\ Event("deleteLater", r).kind = "deleteLater" /\ Event("deleteLater", r).run = r
       /\ Event("finished", r).kind = "finished" /\ Event("finished", r).run = r
  BY DEF Event
<1>11. \A i \in 1..Len(queue) : queue[i].kind \notin {"finished", "deferredDelete", "deleteLater"} \/ queue[i].run # r
  <2>1. thread[r] # "ended"
    BY DEF Finish
  <2> QED
    BY <1>0, <2>1 DEF EventsTrue, Ending
<1>12. ASSUME NEW i \in 1..Len(queue')
       PROVE  /\ queue'[i].run <= started
              /\ queue'[i].kind \in Ending => thread'[queue'[i].run] = "ended"
  <2>1. CASE i \in 1..Len(queue)
    BY <1>0, <1>18, <1>8, <1>9, <2>1 DEF EventsTrue
  <2> QED
    BY <1>0, <1>18, <1>7, <1>9, <1>10, <1>12, <2>1 DEF Ending
<1>13. ASSUME NEW i \in 1..Len(queue'), queue'[i].kind = "finished"
       PROVE  i = Len(queue) + 2 /\ queue'[i].run = worker
  BY <1>0, <1>18, <1>7, <1>8, <1>10, <1>13
<1>14. ASSUME NEW i \in 1..Len(queue'), queue'[i].kind = "deleteLater", queue'[i].run = worker
       PROVE  i = Len(queue) + 1
  BY <1>0, <1>18, <1>7, <1>10, <1>11, <1>14
<1>15. ASSUME NEW i \in 1..Len(queue'), queue'[i].kind = "deferredDelete", queue'[i].run = worker
       PROVE  FALSE
  BY <1>0, <1>18, <1>7, <1>10, <1>11, <1>15
<1>19. Len(queue) + 2 > Len(queue) + 1
  BY <1>4
<1> QED
  BY <1>18, <1>9, <1>10, <1>12, <1>13, <1>14, <1>15, <1>6, <1>19 DEF EventsTrue

\* A worker is to be deleted: its deletion is behind all that is queued.
LEMMA DeletionQueued ==
  ASSUME Types, EventsTrue, OnDeleteLater
  PROVE  queue' \in Seq(Events) /\ EventsTrue'
<1> DEFINE h == Head(queue).run
<1> DEFINE rest == Tail(queue)
<1> DEFINE dd == Event("deferredDelete", h)
<1>1. /\ queue \in Seq(Events) /\ queue # <<>> /\ Len(queue) \in Nat
      /\ queue[1].kind = "deleteLater" /\ queue[1].run = h /\ 1 \in 1..Len(queue)
      /\ UNCHANGED <<worker, started, thread>>
  BY DEF Types, OnDeleteLater, Handling
<1>2. h \in Runs
  <2>1. queue[1] \in Events
    BY <1>1
  <2> QED
    BY <1>1, <2>1 DEF Events
<1>3. /\ rest \in Seq(Events) /\ Len(rest) = Len(queue) - 1
      /\ \A i \in 1..Len(rest) : i + 1 \in 1..Len(queue) /\ rest[i] = queue[i + 1]
  BY <1>1
<1>4. dd \in Events /\ dd.kind = "deferredDelete" /\ dd.run = h
  BY <1>2 DEF Event, Events, Ending
<1>5. queue' = Append(rest, dd)
  BY DEF OnDeleteLater
<1> HIDE DEF h, rest, dd
<1>6. /\ queue' \in Seq(Events) /\ Len(queue') = Len(queue)
      /\ \A i \in 1..Len(rest) : queue'[i] = rest[i]
      /\ queue'[Len(queue)] = dd
  BY <1>1, <1>3, <1>4, <1>5
<1>7. \A i \in 1..Len(queue') : \/ i + 1 \in 1..Len(queue) /\ queue'[i] = queue[i + 1]
                                \/ i = Len(queue) /\ queue'[i] = dd
  <2>1. \A i \in 1..Len(queue') : i \in 1..Len(rest) \/ i = Len(queue)
    BY <1>1, <1>3, <1>6
  <2> QED
    BY <1>3, <1>6, <2>1
<1>8. ASSUME NEW j \in 1..Len(queue), queue[j].kind = "finished"
      PROVE  /\ j > 1 /\ j - 1 \in 1..Len(queue') /\ j - 1 < Len(queue)
             /\ queue'[j - 1].kind = "finished"
  <2>1. j > 1
    BY <1>1, <1>8
  <2>2. j - 1 \in 1..Len(rest) /\ j = (j - 1) + 1 /\ j - 1 \in 1..Len(queue') /\ j - 1 < Len(queue)
    BY <1>1, <1>3, <1>6, <2>1
  <2> QED
    BY <1>3, <1>6, <1>8, <2>1, <2>2
<1>9. h <= started /\ thread[h] = "ended"
  BY <1>1 DEF EventsTrue, Ending
<1>10. ASSUME NEW i \in 1..Len(queue')
       PROVE  /\ queue'[i].run <= started
              /\ queue'[i].kind \in Ending => thread[queue'[i].run] = "ended"
  BY <1>4, <1>7, <1>9 DEF EventsTrue
<1>11. ASSUME NEW i \in 1..Len(queue'), queue'[i].kind = "finished"
       PROVE  i + 1 \in 1..Len(queue) /\ queue'[i] = queue[i + 1]
  BY <1>4, <1>7, <1>11
<1>12. ASSUME NEW i \in 1..Len(queue'), queue'[i].kind = "finished"
       PROVE  /\ queue'[i].run = worker
              /\ \A j \in 1..Len(queue') : queue'[j].kind = "finished" => j = i
  <2>1. queue[i + 1].kind = "finished" /\ i + 1 \in 1..Len(queue) /\ queue'[i].run = queue[i + 1].run
    BY <1>11, <1>12
  <2>2. ASSUME NEW j \in 1..Len(queue'), queue'[j].kind = "finished"
        PROVE  j = i
    <3>1. queue[j + 1].kind = "finished" /\ j + 1 \in 1..Len(queue)
      BY <1>11, <2>2
    <3>2. j + 1 = i + 1
      BY <2>1, <3>1 DEF EventsTrue
    <3> QED
      BY <3>2
  <2> QED
    BY <2>1, <2>2 DEF EventsTrue
<1>13. ASSUME NEW i \in 1..Len(queue'), queue'[i].kind = "deleteLater", queue'[i].run = worker
       PROVE  \E j \in 1..Len(queue') : j > i /\ queue'[j].kind = "finished"
  <2>1. i + 1 \in 1..Len(queue) /\ queue[i + 1].kind = "deleteLater" /\ queue[i + 1].run = worker
    BY <1>4, <1>7, <1>13
  <2>2. PICK j \in 1..Len(queue) : j > i + 1 /\ queue[j].kind = "finished"
    BY <2>1 DEF EventsTrue
  <2>3. j - 1 > i
    BY <1>1, <2>2
  <2> QED
    BY <1>8, <2>2, <2>3
<1>14. ASSUME NEW i \in 1..Len(queue'), queue'[i].kind = "deferredDelete", queue'[i].run = worker
       PROVE  \E j \in 1..Len(queue') : j < i /\ queue'[j].kind = "finished"
  <2>1. CASE i + 1 \in 1..Len(queue) /\ queue'[i] = queue[i + 1]
    <3>1. PICK j \in 1..Len(queue) : j < i + 1 /\ queue[j].kind = "finished"
      BY <1>14, <2>1 DEF EventsTrue
    <3>2. j - 1 < i
      BY <1>1, <3>1
    <3> QED
      BY <1>8, <3>1, <3>2
  <2>2. CASE i = Len(queue) /\ queue'[i] = dd
    <3>1. queue[1].run = worker
      BY <1>1, <1>4, <1>14, <2>2
    <3>2. PICK j \in 1..Len(queue) : j > 1 /\ queue[j].kind = "finished"
      BY <1>1, <3>1 DEF EventsTrue
    <3> QED
      BY <1>8, <2>2, <3>2
  <2> QED
    BY <1>7, <2>1, <2>2
<1> QED
  BY <1>1, <1>6, <1>10, <1>12, <1>13, <1>14 DEF EventsTrue

-----------------------------------------------------------------------------
(* Steps *)

\* A step of the GUI thread that neither takes an event nor touches a scan, a click or closing.
LEMMA QueueKept ==
  ASSUME IInv, UNCHANGED <<queue, worker, started, thread, deleted>>,
         pc' \in {"loop", "asking", "waiting", "connecting"}, closed' \in BOOLEAN,
         pc' # "loop" => asked' \in Runs /\ worker \in {asked', None},
         closed' => \A r \in Runs : ~IsRunning(r)
  PROVE  IInv'
<1>1. Types' /\ ThreadsTrue' /\ EventsTrue'
  BY DEF IInv, Types, ThreadsTrue, EventsTrue
<1>2. AskedTrue' /\ OneScan' /\ WorkerAlive' /\ SafeClose'
  BY DEF IInv, AskedTrue, OneScan, WorkerAlive, SafeClose, IsRunning
<1> QED
  BY <1>1, <1>2 DEF IInv

\* No thread runs once the window's worker does not.
LEMMA NoneRuns ==
  ASSUME IInv, worker = None \/ ~IsRunning(worker)
  PROVE  \A r \in Runs : ~IsRunning(r)
BY DEF IInv, OneScan

\* An event is taken, and handled without a change to the threads.
LEMMA EventTaken ==
  ASSUME IInv, queue # <<>>, queue' = Tail(queue), UNCHANGED <<started, thread>>,
         pc' \in {"loop", "asking", "waiting", "connecting"}, closed' \in BOOLEAN,
         \/ UNCHANGED worker /\ Head(queue).kind # "finished"
         \/ worker' = None /\ Head(queue).kind = "finished",
         deleted' \subseteq Runs, \A r \in deleted' : thread[r] = "ended" /\ r # worker',
         pc' # "loop" => asked' \in Runs /\ worker \in {asked', None},
         closed' => \A r \in Runs : ~IsRunning(r)
  PROVE  IInv'
<1>1. queue' \in Seq(Events) /\ EventsTrue'
  BY Taken DEF IInv
<1>2. worker' \in {worker, None} /\ queue[1] = Head(queue) /\ 1 \in 1..Len(queue)
  BY DEF IInv, Types
<1>3. Types' /\ ThreadsTrue' /\ AskedTrue' /\ WorkerAlive' /\ SafeClose'
  BY <1>1, <1>2 DEF IInv, Types, ThreadsTrue, AskedTrue, WorkerAlive, SafeClose, IsRunning
<1>4. OneScan'
  <2>1. CASE UNCHANGED worker
    BY <2>1 DEF IInv, OneScan, IsRunning
  <2>2. CASE worker' = None /\ Head(queue).kind = "finished"
    <3>1. thread[worker] = "ended" /\ worker \in Runs
      <4>1. queue[1] \in Events
        BY <1>2 DEF IInv, Types
      <4> QED
        BY <1>2, <2>2, <4>1 DEF IInv, EventsTrue, Ending, Events
    <3>2. \A r \in Runs : ~IsRunning(r)
      BY <3>1, NoneRuns DEF IsRunning
    <3> QED
      BY <3>2 DEF OneScan, IsRunning
  <2> QED
    BY <2>1, <2>2
<1> QED
  BY <1>1, <1>3, <1>4 DEF IInv

\* closeEvent keeps what EventTaken and QueueKept ask for.
LEMMA ClosingKept ==
  ASSUME IInv, pc = "loop", ~closed, CloseEvent
  PROVE  /\ pc' \in {"loop", "asking", "waiting", "connecting"} /\ closed' \in BOOLEAN
         /\ pc' # "loop" => asked' \in Runs /\ worker \in {asked', None}
         /\ closed' => \A r \in Runs : ~IsRunning(r)
<1>1. CASE worker # None /\ IsRunning(worker)
  BY <1>1 DEF CloseEvent, IInv, Types
<1>2. CASE ~(worker # None /\ IsRunning(worker))
  <2>1. \A r \in Runs : ~IsRunning(r)
    BY <1>2, NoneRuns
  <2> QED
    BY <1>2, <2>1 DEF CloseEvent, CloseAccepted
<1> QED
  BY <1>1, <1>2

\* What the user does.
LEMMA UserKeeps ==
  ASSUME IInv, User
  PROVE  IInv'
<1> USE DEF Idle
<1>1. CASE RunRequested
  <2>1. /\ pc = "loop" /\ ~closed /\ worker = None /\ started < MaxRuns
        /\ started' = started + 1 /\ worker' = started + 1
        /\ thread' = [thread EXCEPT ![started + 1] = "running"]
        /\ UNCHANGED <<pc, asked, closed, deleted, queue>>
    BY <1>1 DEF RunRequested
  <2>2. /\ started \in Nat /\ started + 1 \in Runs
        /\ \A r \in Runs : r # started + 1 => thread'[r] = thread[r]
        /\ thread'[started + 1] = "running"
    BY <2>1, BoundsAssumption DEF IInv, Types
  <2>3. \A r \in Runs : r <= started => r # started + 1 /\ r <= started + 1
    BY <2>2
  <2>4. thread[started + 1] = "none"
    BY <2>2, <2>3 DEF IInv, Types, ThreadsTrue
  <2>5. Types'
    <3>1. started + 1 \in 0..MaxRuns
      BY <2>1, <2>2, BoundsAssumption
    <3>2. thread' \in [Runs -> {"none", "running", "reported", "ended"}]
      BY <2>1 DEF IInv, Types
    <3> QED
      BY <2>1, <3>1, <3>2 DEF IInv, Types
  <2>6. ThreadsTrue'
    <3>1. \A r \in Runs : r <= started + 1 \/ thread[r] = "none"
      BY <2>2, <2>3 DEF IInv, ThreadsTrue
    <3>2. \A r \in Runs : thread'[r] # "none" => r <= started + 1
      BY <2>2, <3>1
    <3>3. \A r \in deleted : r \in Runs /\ r # started + 1 /\ thread[r] = "ended"
      BY <2>4 DEF IInv, Types, ThreadsTrue
    <3> QED
      BY <2>1, <2>2, <3>2, <3>3 DEF ThreadsTrue
  <2>7. \A i \in 1..Len(queue) : queue[i].run \in Runs /\ queue[i].run <= started
    <3>1. \A i \in 1..Len(queue) : queue[i] \in Events
      BY DEF IInv, Types
    <3> QED
      BY <3>1 DEF Events, IInv, EventsTrue
  <2>8. \A i \in 1..Len(queue) : queue[i].kind # "finished"
    BY <2>1, <2>7 DEF IInv, EventsTrue
  <2>9. \A i \in 1..Len(queue) : queue[i].run # started + 1 /\ queue[i].run <= started + 1
    BY <2>3, <2>7
  <2>10. EventsTrue'
    BY <2>1, <2>2, <2>7, <2>8, <2>9 DEF IInv, EventsTrue
  <2>11. AskedTrue' /\ SafeClose'
    BY <2>1 DEF AskedTrue, SafeClose
  <2>12. OneScan' /\ WorkerAlive'
    <3>1. \A r \in Runs : ~IsRunning(r)
      BY <2>1, NoneRuns
    <3> QED
      BY <2>1, <2>2, <2>4, <3>1 DEF IInv, ThreadsTrue, OneScan, WorkerAlive, IsRunning
  <2> QED
    BY <2>5, <2>6, <2>10, <2>11, <2>12 DEF IInv
<1>2. CASE CancelClicked
  BY <1>2, QueueKept DEF CancelClicked, IInv, Types, AskedTrue
<1>3. CASE CloseClicked
  <2>1. pc = "loop" /\ ~closed /\ CloseEvent /\ UNCHANGED <<queue, worker, started, thread, deleted>>
    BY <1>3 DEF CloseClicked
  <2> QED
    BY <2>1, ClosingKept, QueueKept
<1>4. CASE ThemeChanged
  BY <1>4, QueueKept DEF ThemeChanged, IInv, Types, AskedTrue
<1>5. CASE AnswerNo
  BY <1>5, QueueKept DEF AnswerNo, IInv, Types, SafeClose
<1>6. CASE AnswerYes
  BY <1>6, QueueKept DEF AnswerYes, IInv, Types, AskedTrue, SafeClose
<1>7. CASE AnswerYesTooLate
  <2>1. asked \in Runs /\ worker \in {asked, None} /\ thread[asked] = "ended"
    BY <1>7 DEF AnswerYesTooLate, IInv, AskedTrue, ThreadsTrue
  <2>2. \A r \in Runs : ~IsRunning(r)
    BY <2>1, NoneRuns DEF IsRunning
  <2> QED
    BY <1>7, <2>2, QueueKept DEF AnswerYesTooLate
<1> QED
  BY <1>1, <1>2, <1>3, <1>4, <1>5, <1>6, <1>7 DEF User

\* What the GUI thread handles.
LEMMA GuiThreadKeeps ==
  ASSUME IInv, GuiThread
  PROVE  IInv'
<1> USE DEF Handling, Rest, WorkerAfterReport
<1>a. ASSUME pc' = pc, asked' = asked, closed' = closed, ~closed
      PROVE  /\ pc' \in {"loop", "asking", "waiting", "connecting"} /\ closed' \in BOOLEAN
             /\ pc' # "loop" => asked' \in Runs /\ worker \in {asked', None}
             /\ closed' => \A r \in Runs : ~IsRunning(r)
  BY <1>a DEF IInv, Types, AskedTrue
<1>b. ASSUME deleted' = deleted, worker' = worker
      PROVE  deleted' \subseteq Runs /\ \A r \in deleted' : thread[r] = "ended" /\ r # worker'
  BY <1>b DEF IInv, Types, ThreadsTrue, WorkerAlive
<1>1. ASSUME NEW panel \in Panels, OnItem(panel)
      PROVE  IInv'
  <2>1. panel # "finished"
    BY DEF Panels
  <2> QED
    BY <1>a, <1>b, <1>1, <2>1, EventTaken DEF OnItem
<1>2. CASE OnDiagnostic \/ OnFinding
  BY <1>1, <1>2 DEF OnDiagnostic, OnFinding, Panels
<1>3. CASE OnCompleted \/ OnAborted
  <2>1. /\ ~closed /\ queue # <<>> /\ Head(queue).kind # "finished"
        /\ queue' = Tail(queue) /\ UNCHANGED <<worker, started, thread, deleted, pc, asked, closed>>
    BY <1>3 DEF OnCompleted, OnAborted, OnReport, FinishRun
  <2> QED
    BY <1>a, <1>b, <2>1, EventTaken
<1>4. CASE OnDeleteLater
  <2>1. queue' \in Seq(Events) /\ EventsTrue'
    BY <1>4, DeletionQueued DEF IInv
  <2>2. UNCHANGED <<worker, started, thread, deleted, pc, asked, closed>>
    BY <1>4 DEF OnDeleteLater, DeletedSoFar
  <2>3. Types' /\ ThreadsTrue'
    BY <2>1, <2>2 DEF IInv, Types, ThreadsTrue
  <2>4. AskedTrue' /\ OneScan' /\ WorkerAlive' /\ SafeClose'
    BY <2>2 DEF IInv, AskedTrue, OneScan, WorkerAlive, SafeClose, IsRunning
  <2> QED
    BY <2>1, <2>3, <2>4 DEF IInv
<1>5. CASE OnDeferredDelete
  <2> DEFINE h == Head(queue).run
  <2>1. /\ queue \in Seq(Events) /\ queue # <<>> /\ 1 \in 1..Len(queue) /\ queue[1] = Head(queue)
        /\ Head(queue).kind = "deferredDelete" /\ ~closed
        /\ queue' = Tail(queue) /\ deleted' = deleted \cup {h}
        /\ UNCHANGED <<worker, started, thread, pc, asked, closed>>
    BY <1>5 DEF OnDeferredDelete, IInv, Types
  <2>2. h \in Runs /\ thread[h] = "ended"
    <3>1. queue[1] \in Events
      BY <2>1
    <3> QED
      BY <2>1, <3>1 DEF Events, IInv, EventsTrue, Ending
  <2>3. h # worker
    <3>1. ~\E j \in 1..Len(queue) : j < 1
      BY <2>1
    <3> QED
      BY <2>1, <3>1 DEF IInv, EventsTrue
  <2>4. deleted' \subseteq Runs /\ \A r \in deleted' : thread[r] = "ended" /\ r # worker'
    BY <2>1, <2>2, <2>3 DEF IInv, Types, ThreadsTrue, WorkerAlive
  <2> HIDE DEF h
  <2> QED
    BY <1>a, <1>b, <2>1, <2>4, EventTaken
<1>6. CASE OnThreadFinished
  <2>1. /\ ~closed /\ queue # <<>> /\ Head(queue).kind = "finished" /\ worker' = None
        /\ queue' = Tail(queue) /\ UNCHANGED <<started, thread, deleted, pc, asked, closed>>
    BY <1>6 DEF OnThreadFinished
  <2>2. deleted' \subseteq Runs /\ \A r \in deleted' : thread[r] = "ended" /\ r # worker'
    BY <2>1 DEF IInv, Types, ThreadsTrue
  <2> QED
    BY <1>a, <1>b, <2>1, <2>2, EventTaken
<1>7. CASE OnCloseSignal
  <2>1. /\ pc = "loop" /\ ~closed /\ CloseEvent /\ queue # <<>> /\ Head(queue).kind # "finished"
        /\ queue' = Tail(queue) /\ UNCHANGED <<worker, started, thread, deleted>>
    BY <1>7 DEF OnCloseSignal
  <2> QED
    BY <1>a, <1>b, <2>1, ClosingKept, EventTaken
<1>8. CASE WaitEnds
  <2>1. asked \in Runs /\ worker \in {asked, None} /\ ~IsRunning(asked)
    BY <1>8 DEF WaitEnds, WaitSucceeds, IInv, AskedTrue
  <2>2. \A r \in Runs : ~IsRunning(r)
    BY <2>1, NoneRuns
  <2> QED
    BY <1>8, <2>2, QueueKept DEF WaitEnds
<1>9. CASE WaitTimesOut
  BY <1>8, <1>9, QueueKept DEF WaitTimesOut, IInv, Types, AskedTrue, SafeClose
<1>10. CASE ConnectClose
  BY <1>10, QueueKept DEF ConnectClose, IInv, Types, SafeClose
<1> QED
  BY <1>2, <1>3, <1>4, <1>5, <1>6, <1>7, <1>8, <1>9, <1>10 DEF GuiThread

\* The steps of a plan.
LEMMA PlanSteps ==
  ASSUME NEW s \in DOMAIN Plan
  PROVE  s \in Nat /\ Plan[s] \in [panel : Panels, results : 1..OrderStride]
<1> DEFINE Step == [panel : Panels, results : 1..OrderStride]
<1>1. Plan \in Seq(Step)
  BY PlanAssumption
<1> HIDE DEF Step
<1>2. s \in 1..Len(Plan) /\ Plan[s] \in Step
  BY <1>1
<1> QED
  BY <1>2 DEF Step

\* The order keys of a step's results are those of its panel.
LEMMA OwnPanel ==
  ASSUME NEW s \in DOMAIN Plan, NEW i \in 0..(OrderStride - 1)
  PROVE  PanelOf(OrderKey(s, i)) \in Panels /\ OrderKey(s, i) \in Nat
<1>1. s \in Nat /\ Plan[s] \in [panel : Panels, results : 1..OrderStride]
  BY PlanSteps
<1>2. i \in Nat /\ i < 1000
  BY DEF OrderStride
<1>3. (s * 1000 + i) \div 1000 = s /\ s * 1000 + i \in Nat
  BY <1>1, <1>2
<1> QED
  BY <1>1, <1>3 DEF PanelOf, OrderKey, OrderStride

\* What a scan thread does.
LEMMA ScanThreadKeeps ==
  ASSUME IInv, NEW r \in Runs, ScanThread(r)
  PROVE  IInv'
<1>1. ASSUME NEW s \in DOMAIN Plan, NEW n \in 1..Plan[s].results, EmitStep(r, s, n)
      PROVE  IInv'
  <2> DEFINE q == [i \in 1..n |-> ItemEvent(r, OrderKey(s, i - 1))]
  <2>1. Plan[s] \in [panel : Panels, results : 1..OrderStride]
    BY PlanSteps
  <2>2. n \in Nat /\ n <= OrderStride
    BY <2>1 DEF OrderStride
  <2>3. \A i \in 1..n : i - 1 \in 0..(OrderStride - 1)
    BY <2>2 DEF OrderStride
  <2>4. r <= started
    BY <1>1 DEF EmitStep, IInv, ThreadsTrue
  <2>5. \A i \in 1..n : /\ ItemEvent(r, OrderKey(s, i - 1)) \in Events
                        /\ ItemEvent(r, OrderKey(s, i - 1)).kind \notin Ending
                        /\ ItemEvent(r, OrderKey(s, i - 1)).run = r
    <3> SUFFICES ASSUME NEW i \in 1..n
                 PROVE  /\ ItemEvent(r, OrderKey(s, i - 1)) \in Events
                        /\ ItemEvent(r, OrderKey(s, i - 1)).kind \notin Ending
                        /\ ItemEvent(r, OrderKey(s, i - 1)).run = r
      OBVIOUS
    <3>1. PanelOf(OrderKey(s, i - 1)) \in Panels /\ OrderKey(s, i - 1) \in Nat
      BY <2>3, OwnPanel
    <3> QED
      BY <3>1 DEF ItemEvent, Events, Ending, Panels
  <2>6. q \in Seq(Events) /\ Len(q) = n
    BY <2>2, <2>5
  <2>7. queue' = queue \o q /\ UNCHANGED <<worker, started, thread, deleted, pc, asked, closed>>
    BY <1>1 DEF EmitStep
  <2>8. \A i \in 1..Len(q) : q[i].kind \notin Ending /\ q[i].run <= started
    BY <2>4, <2>5, <2>6
  <2> HIDE DEF q
  <2>9. queue' \in Seq(Events) /\ EventsTrue'
    BY <2>6, <2>7, <2>8, Queued DEF IInv
  <2>10. Types' /\ ThreadsTrue' /\ AskedTrue'
    BY <2>7, <2>9 DEF IInv, Types, ThreadsTrue, AskedTrue
  <2>11. OneScan' /\ WorkerAlive' /\ SafeClose'
    BY <2>7 DEF IInv, OneScan, WorkerAlive, SafeClose, IsRunning
  <2> QED
    BY <2>9, <2>10, <2>11 DEF IInv
<1>2. CASE EmitReport(r)
  <2>1. PICK kind \in {"completed", "aborted"} : queue' = Append(queue, Event(kind, r))
    BY <1>2 DEF EmitReport
  <2>2. /\ thread[r] = "running" /\ thread' = [thread EXCEPT ![r] = "reported"]
        /\ UNCHANGED <<worker, started, deleted, pc, asked, closed>>
    BY <1>2 DEF EmitReport
  <2>3. r <= started
    BY <2>2 DEF IInv, ThreadsTrue
  <2> DEFINE q == <<Event(kind, r)>>
  <2>4. q \in Seq(Events) /\ Len(q) = 1 /\ q[1].kind \notin Ending /\ q[1].run = r
    <3>1. Event(kind, r) \in Events /\ kind \notin Ending
      BY DEF Event, Events, Ending
    <3> QED
      BY <3>1 DEF Event
  <2>5. queue' = queue \o q
    BY <2>1, <2>4 DEF IInv, Types
  <2>6. /\ \A t \in Runs : thread[t] = "ended" => thread'[t] = "ended"
        /\ \A t \in Runs : thread'[t] # "none" => thread[t] # "none"
        /\ \A t \in Runs : thread'[t] \in {"running", "reported"} => IsRunning(t)
    BY <2>2 DEF IInv, Types, IsRunning
  <2>7. \A i \in 1..Len(q) : q[i].kind \notin Ending /\ q[i].run <= started
    BY <2>3, <2>4
  <2> HIDE DEF q
  <2>8. queue' \in Seq(Events) /\ EventsTrue'
    BY <2>2, <2>4, <2>5, <2>6, <2>7, Queued DEF IInv
  <2>9. Types' /\ ThreadsTrue' /\ AskedTrue'
    BY <2>2, <2>6, <2>8 DEF IInv, Types, ThreadsTrue, AskedTrue
  <2>10. OneScan' /\ WorkerAlive' /\ SafeClose'
    BY <2>2, <2>6 DEF IInv, OneScan, WorkerAlive, SafeClose, IsRunning
  <2> QED
    BY <2>8, <2>9, <2>10 DEF IInv
<1>3. CASE Finish(r)
  <2>1. queue' \in Seq(Events) /\ EventsTrue'
    BY <1>3, EndQueued
  <2>2. /\ thread[r] = "reported" /\ thread' = [thread EXCEPT ![r] = "ended"]
        /\ UNCHANGED <<worker, started, deleted, pc, asked, closed>>
    BY <1>3 DEF Finish
  <2>3. /\ \A t \in Runs : thread[t] = "ended" => thread'[t] = "ended"
        /\ \A t \in Runs : thread'[t] # "none" => thread[t] # "none"
        /\ \A t \in Runs : thread'[t] \in {"running", "reported"} => IsRunning(t)
    BY <2>2 DEF IInv, Types, IsRunning
  <2>4. Types' /\ ThreadsTrue' /\ AskedTrue'
    BY <2>1, <2>2, <2>3 DEF IInv, Types, ThreadsTrue, AskedTrue
  <2>5. OneScan' /\ WorkerAlive' /\ SafeClose'
    BY <2>2, <2>3 DEF IInv, OneScan, WorkerAlive, SafeClose, IsRunning
  <2> QED
    BY <2>1, <2>4, <2>5 DEF IInv
<1> QED
  BY <1>1, <1>2, <1>3 DEF ScanThread

-----------------------------------------------------------------------------
(* Rows *)

\* Every set of naturals has a least element.
LEMMA LeastNat ==
  ASSUME NEW T, T \subseteq Nat, T # {}
  PROVE  \E x \in T : \A y \in T : x <= y
<1>1. IsWellFoundedOn(OpToRel(<, Nat), Nat)
  BY NatLessThanWellFounded
<1>2. PICK x \in T : \A y \in T : <<y, x>> \notin OpToRel(<, Nat)
  BY <1>1, WFMin
<1>3. ASSUME NEW y \in T PROVE ~(y < x)
  <2>1. <<y, x>> \in Nat \X Nat
    OBVIOUS
  <2> QED
    BY <1>2, <2>1 DEF OpToRel
<1> QED
  BY <1>3

\* So a set of naturals that holds 0, and the successor of each it holds, holds them all.
LEMMA SetInduction ==
  ASSUME NEW T, T \subseteq Nat, 0 \in T, \A n \in T : n + 1 \in T
  PROVE  \A n \in Nat : n \in T
<1> SUFFICES ASSUME NEW n \in Nat, n \notin T PROVE FALSE
  OBVIOUS
<1>1. PICK m \in Nat \ T : \A k \in Nat \ T : m <= k
  BY LeastNat
<1>2. m - 1 \in Nat /\ m - 1 \in T
  BY <1>1
<1> QED
  BY <1>1, <1>2

Sorted(rows) == \A i, j \in 1..Len(rows) : i < j => rows[i].order < rows[j].order

\* Rows t are rows s with one more at k.
OneMore(t, s, k, row) ==
    /\ t \in Seq(Row) /\ Len(t) = Len(s) + 1 /\ t[k] = row
    /\ \A j \in 1..(k - 1) : t[j] = s[j]
    /\ \A j \in k..Len(s) : t[j + 1] = s[j]

\* InsertAt, for a position in the sequence or just behind it.
LEMMA Inserted ==
  ASSUME NEW s \in Seq(Row), NEW k \in 1..(Len(s) + 1), NEW row \in Row
  PROVE  OneMore(InsertAt(s, k, row), s, k, row)
<1> DEFINE front == SubSeq(s, 1, k - 1)
           back  == SubSeq(s, k, Len(s))
           one   == <<row>>
           two   == front \o one
           t     == two \o back
<1>1. Len(s) \in Nat /\ k \in Nat
  OBVIOUS
<1>2. front \in Seq(Row) /\ Len(front) = k - 1 /\ \A j \in 1..(k - 1) : front[j] = s[j]
  OBVIOUS
<1>3. back \in Seq(Row) /\ Len(back) = Len(s) - k + 1 /\ \A j \in 1..(Len(s) - k + 1) : back[j] = s[k + j - 1]
  OBVIOUS
<1>4. one \in Seq(Row) /\ Len(one) = 1 /\ one[1] = row
  OBVIOUS
<1>a. two = front \o one /\ t = two \o back
  OBVIOUS
<1> HIDE DEF front, back, one, two, t
<1>b. /\ two \in Seq(Row) /\ Len(two) = Len(front) + Len(one)
      /\ \A j \in 1..Len(front) : two[j] = front[j]
      /\ \A j \in 1..Len(one) : two[Len(front) + j] = one[j]
  <2>1. front \in Seq(Row) /\ one \in Seq(Row)
    BY <1>2, <1>4
  <2> QED
    BY <1>a, <2>1, Behind
<1>5. /\ two \in Seq(Row) /\ Len(two) = k
      /\ \A j \in 1..(k - 1) : two[j] = front[j]
      /\ two[k] = row
  <2>1. 1 \in 1..Len(one) /\ Len(front) + 1 = k /\ Len(front) + Len(one) = k
    BY <1>1, <1>2, <1>4
  <2>2. two[Len(front) + 1] = row
    BY <1>4, <1>b, <2>1
  <2> QED
    BY <1>2, <1>b, <2>1, <2>2
<1>6. /\ t \in Seq(Row) /\ Len(t) = Len(s) + 1
      /\ \A j \in 1..k : t[j] = two[j]
      /\ \A j \in 1..(Len(s) - k + 1) : t[k + j] = back[j]
  <2>1. two \in Seq(Row) /\ back \in Seq(Row)
    BY <1>3, <1>5
  <2>2. /\ t \in Seq(Row) /\ Len(t) = Len(two) + Len(back)
        /\ \A j \in 1..Len(two) : t[j] = two[j]
        /\ \A j \in 1..Len(back) : t[Len(two) + j] = back[j]
    BY <1>a, <2>1, Behind
  <2> QED
    BY <1>1, <1>3, <1>5, <2>2
<1>7. InsertAt(s, k, row) = t
  BY DEF InsertAt, front, back, one, two, t
<1>8. \A j \in k..Len(s) : t[j + 1] = s[j]
  <2> SUFFICES ASSUME NEW j \in k..Len(s) PROVE t[j + 1] = s[j]
    OBVIOUS
  <2>1. j - k + 1 \in 1..(Len(s) - k + 1) /\ k + (j - k + 1) = j + 1 /\ k + (j - k + 1) - 1 = j
    BY <1>1
  <2> QED
    BY <1>3, <1>6, <2>1
<1>9. t[k] = row /\ \A j \in 1..(k - 1) : t[j] = s[j]
  <2>1. k \in 1..k /\ \A j \in 1..(k - 1) : j \in 1..k
    BY <1>1
  <2> QED
    BY <1>2, <1>5, <1>6, <2>1
<1> QED
  BY <1>6, <1>7, <1>8, <1>9 DEF OneMore

\* A new row goes between the ones before it in the plan and the ones after it.
LEMMA InsertedRow ==
  ASSUME NEW s \in Seq(Row), Sorted(s), NEW row \in Row, \A i \in 1..Len(s) : s[i].order # row.order
  PROVE  \E k \in 1..(Len(s) + 1) : /\ OneMore(InsertRow(s, row), s, k, row)
                                    /\ \A j \in 1..(k - 1) : s[j].order < row.order
                                    /\ \A j \in k..Len(s) : row.order < s[j].order
<1> DEFINE later == {i \in DOMAIN s : s[i].order > row.order}
           k == IF later = {} THEN Len(s) + 1 ELSE Min(later)
<1>1. Len(s) \in Nat /\ DOMAIN s = 1..Len(s) /\ row.order \in Nat /\ \A i \in 1..Len(s) : s[i].order \in Nat
  <2>1. \A i \in 1..Len(s) : s[i] \in Row
    OBVIOUS
  <2> QED
    BY <2>1 DEF Row
<1>2. /\ k \in 1..(Len(s) + 1)
      /\ \A j \in 1..(k - 1) : s[j].order < row.order
      /\ \A j \in k..Len(s) : row.order < s[j].order
  <2>1. CASE later = {}
    <3>1. k = Len(s) + 1
      BY <2>1
    <3>2. \A j \in 1..Len(s) : s[j].order < row.order
      BY <1>1, <2>1
    <3> QED
      BY <1>1, <3>1, <3>2
  <2>2. CASE later # {}
    <3>1. later \subseteq Nat
      BY <1>1
    <3>2. k = Min(later)
      BY <2>2
    <3>3. \E x \in later : \A y \in later : x <= y
      <4> HIDE DEF later
      <4> QED
        BY <2>2, <3>1, LeastNat
    <3>4. k \in later /\ \A y \in later : k <= y
      <4> HIDE DEF later
      <4> QED
        BY <3>2, <3>3 DEF Min
    <3> HIDE DEF k
    <3>5. k \in 1..Len(s) /\ s[k].order > row.order
      BY <1>1, <3>4
    <3>6. \A j \in 1..(k - 1) : s[j].order < row.order
      <4> SUFFICES ASSUME NEW j \in 1..(k - 1) PROVE s[j].order < row.order
        OBVIOUS
      <4>1. j \in 1..Len(s) /\ ~(k <= j)
        BY <1>1, <3>5
      <4>2. ~(s[j].order > row.order)
        BY <1>1, <3>4, <4>1
      <4> QED
        BY <1>1, <4>1, <4>2
    <3>7. \A j \in k..Len(s) : row.order < s[j].order
      <4> SUFFICES ASSUME NEW j \in k..Len(s) PROVE row.order < s[j].order
        OBVIOUS
      <4>1. j \in 1..Len(s) /\ (j = k \/ k < j)
        BY <1>1, <3>5
      <4>2. s[k].order <= s[j].order
        BY <1>1, <3>5, <4>1 DEF Sorted
      <4> QED
        BY <1>1, <3>5, <4>1, <4>2
    <3> QED
      BY <1>1, <3>5, <3>6, <3>7
  <2> QED
    BY <2>1, <2>2
<1>3. InsertRow(s, row) = InsertAt(s, k, row)
  BY DEF InsertRow
<1> HIDE DEF k
<1>4. OneMore(InsertRow(s, row), s, k, row)
  BY <1>2, <1>3, Inserted
<1> QED
  BY <1>2, <1>4

\* So the rows stay in order, and are the ones before and the new one.
LEMMA StillSorted ==
  ASSUME NEW s \in Seq(Row), Sorted(s), NEW row \in Row, \A i \in 1..Len(s) : s[i].order # row.order,
         NEW t, t = InsertRow(s, row)
  PROVE  /\ t \in Seq(Row) /\ Sorted(t)
         /\ \A j \in 1..Len(t) : t[j] = row \/ \E i \in 1..Len(s) : t[j] = s[i]
         /\ \A i \in 1..Len(s) : \E j \in 1..Len(t) : t[j] = s[i]
         /\ \E j \in 1..Len(t) : t[j] = row
<1>1. PICK k \in 1..(Len(s) + 1) : /\ OneMore(t, s, k, row)
                                   /\ \A j \in 1..(k - 1) : s[j].order < row.order
                                   /\ \A j \in k..Len(s) : row.order < s[j].order
  BY InsertedRow
<1>2. t \in Seq(Row) /\ Len(s) \in Nat /\ Len(t) = Len(s) + 1 /\ k \in 1..Len(t) /\ t[k] = row
  BY <1>1 DEF OneMore
<1>3. \A j \in 1..Len(t) : \/ j < k /\ j \in 1..Len(s) /\ t[j] = s[j] /\ s[j].order < row.order
                           \/ j = k /\ t[j] = row
                           \/ j > k /\ j - 1 \in 1..Len(s) /\ t[j] = s[j - 1] /\ row.order < s[j - 1].order
  <2> SUFFICES ASSUME NEW j \in 1..Len(t)
               PROVE  \/ j < k /\ j \in 1..Len(s) /\ t[j] = s[j] /\ s[j].order < row.order
                      \/ j = k /\ t[j] = row
                      \/ j > k /\ j - 1 \in 1..Len(s) /\ t[j] = s[j - 1] /\ row.order < s[j - 1].order
    OBVIOUS
  <2>1. CASE j < k
    <3>1. j \in 1..(k - 1) /\ j \in 1..Len(s)
      BY <1>2, <2>1
    <3> QED
      BY <1>1, <2>1, <3>1 DEF OneMore
  <2>2. CASE j > k
    <3>1. j - 1 \in k..Len(s) /\ j - 1 \in 1..Len(s) /\ (j - 1) + 1 = j
      BY <1>2, <2>2
    <3> QED
      BY <1>1, <2>2, <3>1 DEF OneMore
  <2>3. CASE j = k
    BY <1>2, <2>3
  <2> QED
    BY <1>2, <2>1, <2>2, <2>3
<1>4. \A i \in 1..Len(s) : \E j \in 1..Len(t) : t[j] = s[i]
  <2> SUFFICES ASSUME NEW i \in 1..Len(s) PROVE \E j \in 1..Len(t) : t[j] = s[i]
    OBVIOUS
  <2>1. CASE i < k
    <3>1. i \in 1..(k - 1) /\ i \in 1..Len(t)
      BY <1>2, <2>1
    <3> QED
      BY <1>1, <3>1 DEF OneMore
  <2>2. CASE ~(i < k)
    <3>1. i \in k..Len(s) /\ i + 1 \in 1..Len(t)
      BY <1>2, <2>2
    <3> QED
      BY <1>1, <3>1 DEF OneMore
  <2> QED
    BY <2>1, <2>2
<1>5. Sorted(t)
  <2>0. row.order \in Nat /\ \A i \in 1..Len(s) : s[i].order \in Nat
    <3>1. \A i \in 1..Len(s) : s[i] \in Row
      OBVIOUS
    <3> QED
      BY <3>1 DEF Row
  <2> SUFFICES ASSUME NEW i \in 1..Len(t), NEW j \in 1..Len(t), i < j PROVE t[i].order < t[j].order
    BY DEF Sorted
  <2>1. CASE i < k /\ j < k
    <3>1. i \in 1..Len(s) /\ j \in 1..Len(s) /\ t[i] = s[i] /\ t[j] = s[j]
      BY <1>2, <1>3, <2>1
    <3> QED
      BY <3>1 DEF Sorted
  <2>2. CASE i < k /\ j > k
    <3>1. i \in 1..Len(s) /\ j - 1 \in 1..Len(s) /\ t[i] = s[i] /\ t[j] = s[j - 1] /\ i < j - 1
      BY <1>2, <1>3, <2>2
    <3> QED
      BY <3>1 DEF Sorted
  <2>3. CASE i > k /\ j > k
    <3>1. i - 1 \in 1..Len(s) /\ j - 1 \in 1..Len(s) /\ t[i] = s[i - 1] /\ t[j] = s[j - 1] /\ i - 1 < j - 1
      BY <1>2, <1>3, <2>3
    <3> QED
      BY <3>1 DEF Sorted
  <2>4. CASE i = k \/ j = k
    BY <1>2, <1>3, <2>0, <2>4
  <2> QED
    BY <1>2, <2>1, <2>2, <2>3, <2>4
<1> QED
  BY <1>2, <1>3, <1>4, <1>5

\* Rows that are in order are the same when they are shown again.
LEMMA SameRowsAgain ==
  ASSUME NEW rows \in Seq(Row), Sorted(rows)
  PROVE  ShownAgain(rows) = rows
<1> DEFINE N == Len(rows)
           Upto(i) == SubSeq(rows, 1, i)
           IsAgain(A) == A = [i \in 0..N |-> IF i = 0 THEN <<>> ELSE InsertRow(A[i - 1], rows[i])]
           A == CHOOSE A : IsAgain(A)
<1>1. N \in Nat /\ Upto(0) = <<>> /\ Upto(N) = rows
  OBVIOUS
<1>2. ShownAgain(rows) = A[N]
  BY DEF ShownAgain
<1> HIDE DEF A
<1>3. \A i \in 1..N : InsertRow(Upto(i - 1), rows[i]) = Upto(i)
  <2> SUFFICES ASSUME NEW i \in 1..N PROVE InsertRow(Upto(i - 1), rows[i]) = Upto(i)
    OBVIOUS
  <2> DEFINE s == Upto(i - 1)
  <2>1. s \in Seq(Row) /\ Len(s) = i - 1 /\ i \in 1..(Len(s) + 1) /\ rows[i] \in Row /\ \A j \in 1..(i - 1) : s[j] = rows[j]
    OBVIOUS
  <2>2. \A j \in 1..(i - 1) : j \in 1..N /\ j < i
    BY <1>1
  <2>3. \A j \in 1..(i - 1) : s[j].order < rows[i].order /\ s[j].order \in Nat /\ rows[i].order \in Nat
    <3>1. \A j \in 1..N : rows[j] \in Row
      OBVIOUS
    <3> HIDE DEF s
    <3> QED
      BY <2>1, <2>2, <3>1 DEF Sorted, Row
  <2>4. DOMAIN s = 1..(i - 1)
    BY <2>1
  <2> HIDE DEF s
  <2>5. {j \in DOMAIN s : s[j].order > rows[i].order} = {}
    BY <2>3, <2>4
  <2>6. InsertRow(s, rows[i]) = InsertAt(s, i, rows[i])
    <3>1. Len(s) + 1 = i
      BY <2>1
    <3> QED
      BY <2>5, <3>1 DEF InsertRow
  <2>7. OneMore(InsertAt(s, i, rows[i]), s, i, rows[i])
    BY <2>1, Inserted
  <2> DEFINE t == InsertAt(s, i, rows[i])
  <2>8. t \in Seq(Row) /\ Len(t) = i /\ \A j \in 1..i : t[j] = rows[j]
    <3> HIDE DEF t
    <3>1. t \in Seq(Row) /\ Len(t) = i /\ t[i] = rows[i] /\ \A j \in 1..(i - 1) : t[j] = s[j]
      BY <2>1, <2>7 DEF OneMore, t
    <3>2. \A j \in 1..i : j = i \/ j \in 1..(i - 1)
      OBVIOUS
    <3> QED
      BY <2>1, <3>1, <3>2
  <2> HIDE DEF t
  <2>9. Upto(i) \in Seq(Row) /\ Len(Upto(i)) = i /\ \A j \in 1..i : Upto(i)[j] = rows[j]
    OBVIOUS
  <2>10. t = Upto(i)
    <3> DEFINE u == Upto(i)
    <3>1. u \in Seq(Row) /\ Len(u) = i /\ \A j \in 1..i : u[j] = rows[j]
      BY <2>9
    <3> HIDE DEF u
    <3>2. t = u
      BY <2>8, <3>1
    <3> QED
      BY <3>2 DEF u
  <2> QED
    BY <2>6, <2>10 DEF s, t
<1> DEFINE W == [i \in 0..N |-> Upto(i)]
<1>4. IsAgain(W)
  <2> HIDE DEF N, Upto
  <2>1. \A i \in 1..N : W[i - 1] = Upto(i - 1)
    BY <1>1
  <2> QED
    BY <1>1, <1>3, <2>1
<1>5. IsAgain(A)
  <2> HIDE DEF W, IsAgain
  <2> QED
    BY <1>4 DEF A
<1> HIDE DEF Upto, W
<1>6. A[0] = <<>> /\ \A i \in 1..N : A[i] = InsertRow(A[i - 1], rows[i])
  <2> HIDE DEF N
  <2> QED
    BY <1>1, <1>5
<1> DEFINE T == {i \in Nat : i <= N => A[i] = Upto(i)}
<1>7. 0 \in T
  BY <1>1, <1>6
<1>8. ASSUME NEW i \in T PROVE i + 1 \in T
  <2> SUFFICES ASSUME i + 1 <= N PROVE A[i + 1] = Upto(i + 1)
    OBVIOUS
  <2>1. i + 1 \in 1..N /\ (i + 1) - 1 = i /\ A[i] = Upto(i)
    BY <1>1
  <2> QED
    BY <1>3, <1>6, <2>1
<1>9. \A i \in Nat : i \in T
  <2>1. T \subseteq Nat
    OBVIOUS
  <2> HIDE DEF T
  <2> QED
    BY <1>7, <1>8, <2>1, SetInduction
<1> QED
  BY <1>1, <1>2, <1>9

-----------------------------------------------------------------------------
(* What is on the screen *)

Telling == Panels \cup Reports \cup {"finished"}

\* ShownInv holds initially.
LEMMA ShownInit == Init => ShownInv
<1> SUFFICES ASSUME Init PROVE ShownInv
  OBVIOUS
<1> USE DEF Init
<1>1. Len(queue) = 0 /\ shown \in [Panels -> Seq(Row)] /\ \A p \in Panels : shown[p] = <<>>
  OBVIOUS
<1>2. ItemsTrue /\ ResultsTrue /\ ReportTrue
  BY <1>1 DEF ItemsTrue, ResultsTrue, ReportTrue
<1>3. RowsTrue
  BY <1>1 DEF RowsTrue
<1>4. ItemsOnce
  BY <1>1 DEF ItemsOnce
<1> QED
  BY <1>2, <1>3, <1>4 DEF ShownInv

\* A step that touches neither a scan nor the panels nor the report.
LEMMA ScreenKept ==
  ASSUME ShownInv, UNCHANGED <<queue, worker, started, thread, items, shown, report, exportable>>
  PROVE  ShownInv'
<1>1. ItemsTrue' /\ ResultsTrue' /\ RowsTrue' /\ ReportTrue'
  BY DEF ShownInv, ItemsTrue, ResultsTrue, RowsTrue, ReportTrue
<1>2. ItemsOnce'
  BY DEF ShownInv, ItemsOnce, IsShown, IsQueued
<1> QED
  BY <1>1, <1>2 DEF ShownInv

\* The first event is gone, and what the others have to tell has moved up.
HeadGone ==
    /\ queue # <<>> /\ Len(queue) \in Nat /\ Len(queue') \in Nat /\ 1 \in 1..Len(queue)
    /\ queue[1] = Head(queue)
    /\ \A i \in 1..Len(queue') : queue'[i].kind \in Telling =>
          i + 1 \in 1..Len(queue) /\ queue'[i] = queue[i + 1]
    /\ \A i \in 1..Len(queue) : i # 1 => i - 1 \in 1..Len(queue') /\ queue'[i - 1] = queue[i]

\* So it is when the first event is taken, and a deletion may be queued.
LEMMA TakenIsGone ==
  ASSUME IInv, queue # <<>>, NEW r,
         queue' = Tail(queue) \/ queue' = Append(Tail(queue), Event("deferredDelete", r))
  PROVE  HeadGone
<1> DEFINE rest == Tail(queue)
<1>1. /\ Len(queue) \in Nat /\ Head(queue) = queue[1] /\ 1 \in 1..Len(queue)
      /\ rest \in Seq(Events) /\ Len(rest) = Len(queue) - 1
      /\ \A i \in 1..Len(rest) : i + 1 \in 1..Len(queue) /\ rest[i] = queue[i + 1]
  BY DEF IInv, Types
<1>2. \A i \in 1..Len(queue) : i # 1 => i - 1 \in 1..Len(rest) /\ rest[i - 1] = queue[i]
  BY <1>1
<1>3. CASE queue' = rest
  BY <1>1, <1>2, <1>3 DEF HeadGone
<1>4. CASE queue' = Append(rest, Event("deferredDelete", r))
  <2> DEFINE e == Event("deferredDelete", r)
  <2>0. e.kind \notin Telling
    BY DEF Event, Telling, Panels, Reports
  <2> HIDE DEF rest, e
  <2>1. /\ Len(queue') = Len(rest) + 1 /\ queue'[Len(rest) + 1] = e
        /\ \A i \in 1..Len(rest) : queue'[i] = rest[i]
    BY <1>1, <1>4 DEF e
  <2>2. \A i \in 1..Len(queue') : i \in 1..Len(rest) \/ i = Len(rest) + 1
    BY <1>1, <2>1
  <2>3. \A i \in 1..Len(rest) : i \in 1..Len(queue')
    BY <1>1, <2>1
  <2> QED
    BY <1>1, <1>2, <2>0, <2>1, <2>2, <2>3 DEF HeadGone
<1> QED
  BY <1>3, <1>4

\* What is left in the queue is still true.
LEMMA ResultsLeft ==
  ASSUME ResultsTrue, HeadGone, UNCHANGED <<started, thread, items>>,
         UNCHANGED worker \/ Head(queue).kind = "finished"
  PROVE  ResultsTrue'
<1>1. ASSUME NEW i \in 1..Len(queue'), queue'[i].kind \in Telling
      PROVE  i + 1 \in 1..Len(queue) /\ queue'[i] = queue[i + 1] /\ i \in Nat /\ i + 1 \in Nat
  BY <1>1 DEF HeadGone
<1>2. ASSUME NEW i \in 1..Len(queue'), queue'[i].kind \in Panels \cup Reports
      PROVE  UNCHANGED worker
  <2>1. i + 1 \in 1..Len(queue) /\ queue[i + 1].kind \in Panels \cup Reports /\ ~(i + 1 < 1)
    BY <1>1, <1>2 DEF Telling
  <2>2. 1 \in 1..Len(queue) /\ queue[1].kind # "finished"
    BY <2>1 DEF ResultsTrue, HeadGone
  <2> QED
    BY <2>2 DEF HeadGone
<1>3. ASSUME NEW i \in 1..Len(queue'), NEW j \in 1..Len(queue'),
             queue'[i].kind \in Telling, queue'[j].kind \in Telling, i + 1 < j + 1
      PROVE  i < j
  BY <1>3, <1>1
<1>4. "finished" \in Telling /\ Panels \subseteq Telling /\ Reports \subseteq Telling
  BY DEF Telling
<1> SUFFICES ASSUME NEW i \in 1..Len(queue')
             PROVE
        /\ queue'[i].kind \in Panels \cup Reports => queue'[i].run = started /\ worker' = started
        /\ queue'[i].kind \in Reports => /\ thread[started] # "running"
                                       /\ \A j \in 1..Len(queue') : queue'[j].kind = "finished" => i < j
        /\ queue'[i].kind \in Panels =>
              /\ \A j \in 1..Len(queue') : queue'[j].kind \in Reports \cup {"finished"} => i < j
              /\ queue'[i].kind = PanelOf(queue'[i].order) /\ queue'[i].order \in items[started]
  BY DEF ResultsTrue
<1>5. CASE queue'[i].kind \in Panels \cup Reports
  <2>1. /\ i + 1 \in 1..Len(queue) /\ queue'[i] = queue[i + 1]
    BY <1>1, <1>4, <1>5
  <2>2. queue'[i].run = started /\ worker' = started
    BY <1>2, <1>5, <2>1 DEF ResultsTrue
  <2>3. ASSUME queue'[i].kind \in Reports, NEW j \in 1..Len(queue'), queue'[j].kind = "finished" PROVE i < j
    <3>1. j + 1 \in 1..Len(queue) /\ queue[j + 1].kind = "finished"
      BY <1>1, <1>4, <2>3
    <3>2. i + 1 < j + 1
      BY <2>1, <2>3, <3>1 DEF ResultsTrue
    <3> QED
      BY <1>3, <1>4, <2>3, <3>2
  <2>4. ASSUME queue'[i].kind \in Panels, NEW j \in 1..Len(queue'), queue'[j].kind \in Reports \cup {"finished"} PROVE i < j
    <3>1. j + 1 \in 1..Len(queue) /\ queue[j + 1].kind \in Reports \cup {"finished"}
      BY <1>1, <1>4, <2>4
    <3>2. i + 1 < j + 1
      BY <2>1, <2>4, <3>1 DEF ResultsTrue
    <3> QED
      BY <1>3, <1>4, <2>4, <3>2
  <2> QED
    BY <2>1, <2>2, <2>3, <2>4 DEF ResultsTrue
<1> QED
  BY <1>5

\* An event that is no item is gone: the items that are queued still are.
LEMMA ItemsStillQueued ==
  ASSUME HeadGone, Head(queue).kind \notin Panels
  PROVE  \A order : IsQueued(order)' <=> IsQueued(order)
<1> SUFFICES ASSUME NEW order PROVE IsQueued(order)' <=> IsQueued(order)
  OBVIOUS
<1>1. ASSUME IsQueued(order) PROVE IsQueued(order)'
  <2>1. PICK i \in 1..Len(queue) : queue[i].kind \in Panels /\ queue[i].order = order
    BY <1>1 DEF IsQueued
  <2>2. i - 1 \in 1..Len(queue') /\ queue'[i - 1] = queue[i]
    BY <2>1 DEF HeadGone
  <2> QED
    BY <2>1, <2>2 DEF IsQueued
<1>2. ASSUME IsQueued(order)' PROVE IsQueued(order)
  <2>1. PICK i \in 1..Len(queue') : queue'[i].kind \in Panels /\ queue'[i].order = order
    BY <1>2 DEF IsQueued
  <2>2. i + 1 \in 1..Len(queue) /\ queue'[i] = queue[i + 1]
    BY <2>1 DEF HeadGone, Telling
  <2> QED
    BY <2>1, <2>2 DEF IsQueued
<1> QED
  BY <1>1, <1>2

\* No item is queued twice, once one event is gone.
LEMMA StillDistinct ==
  ASSUME ItemsOnce, HeadGone
  PROVE  \A i, j \in 1..Len(queue') :
            queue'[i].kind \in Panels /\ queue'[j].kind \in Panels /\ queue'[i].order = queue'[j].order => i = j
<1> SUFFICES ASSUME NEW i \in 1..Len(queue'), NEW j \in 1..Len(queue'),
                    queue'[i].kind \in Panels, queue'[j].kind \in Panels, queue'[i].order = queue'[j].order
             PROVE  i = j
  OBVIOUS
<1>1. /\ i + 1 \in 1..Len(queue) /\ queue'[i] = queue[i + 1]
      /\ j + 1 \in 1..Len(queue) /\ queue'[j] = queue[j + 1]
  BY DEF HeadGone, Telling
<1>2. i + 1 = j + 1
  BY <1>1 DEF ItemsOnce
<1> QED
  BY <1>2

\* An event that is no item is handled.
LEMMA EndHandled ==
  ASSUME ShownInv, HeadGone, Head(queue).kind \notin Panels,
         UNCHANGED <<started, thread, items, shown>>,
         UNCHANGED <<report, exportable>> \/ ReportTrue',
         UNCHANGED worker \/ Head(queue).kind = "finished"
  PROVE  ShownInv'
<1>1. ItemsTrue' /\ RowsTrue'
  BY DEF ShownInv, ItemsTrue, RowsTrue
<1>2. ResultsTrue'
  BY ResultsLeft DEF ShownInv
<1>3. \A order : (IsQueued(order)' <=> IsQueued(order)) /\ (IsShown(order)' <=> IsShown(order))
  BY ItemsStillQueued DEF IsShown
<1>4. ItemsOnce'
  <2>1. ASSUME NEW i \in 1..Len(queue'), queue'[i].kind \in Panels PROVE ~IsShown(queue'[i].order)
    <3>1. i + 1 \in 1..Len(queue) /\ queue'[i] = queue[i + 1]
      BY <2>1 DEF HeadGone, Telling
    <3> QED
      BY <2>1, <3>1 DEF ShownInv, ItemsOnce
  <2> QED
    BY <1>3, <2>1, StillDistinct DEF ShownInv, ItemsOnce
<1>5. ReportTrue'
  <2>1. \A i \in 1..Len(queue') : queue'[i].kind \in Panels => i + 1 \in 1..Len(queue) /\ queue'[i] = queue[i + 1]
    BY DEF HeadGone, Telling
  <2> QED
    BY <2>1 DEF ShownInv, ReportTrue
<1> QED
  BY <1>1, <1>2, <1>4, <1>5 DEF ShownInv


\* An item is shown in its panel, where the plan has it.
LEMMA ItemHandled ==
  ASSUME IInv, ShownInv, NEW panel \in Panels, OnItem(panel)
  PROVE  ShownInv'
<1> DEFINE h == Head(queue)
           row == [run |-> h.run, order |-> h.order]
<1>1. /\ queue # <<>> /\ h.kind = panel /\ queue' = Tail(queue)
      /\ shown' = [shown EXCEPT ![panel] = InsertRow(@, row)]
      /\ UNCHANGED <<worker, started, report, exportable, thread, items>>
  BY DEF OnItem, Handling, Rest
<1>2. HeadGone
  BY <1>1, TakenIsGone
<1>3. 1 \in 1..Len(queue) /\ queue[1] = h /\ queue[1] \in Events
  BY <1>2 DEF HeadGone, IInv, Types
<1>4. /\ h.run = started /\ worker = started /\ PanelOf(h.order) = panel /\ h.order \in items[started]
      /\ ~IsShown(h.order)
  BY <1>1, <1>3 DEF ShownInv, ResultsTrue, ItemsOnce
<1>5. started \in Runs /\ h.order \in Nat
  <2>1. h.run \in Runs
    BY <1>3 DEF Events
  <2> QED
    BY <1>4, <2>1 DEF ShownInv, ItemsTrue
<1>6. row \in Row /\ row.run = started /\ row.order = h.order
  BY <1>4, <1>5 DEF Row
<1> HIDE DEF h, row
<1> DEFINE s == shown[panel]
           t == InsertRow(s, row)
<1>7. /\ s \in Seq(Row) /\ Sorted(s) /\ \A i \in 1..Len(s) : s[i].order # row.order
      /\ shown'[panel] = t /\ shown' \in [Panels -> Seq(Row) \cup {t}]
      /\ \A p \in Panels : p # panel => shown'[p] = shown[p]
  BY <1>1, <1>4, <1>6 DEF ShownInv, RowsTrue, Sorted, IsShown
<1>17. t = InsertRow(s, row)
  OBVIOUS
<1> HIDE DEF s, t
<1>8. /\ t \in Seq(Row) /\ Sorted(t)
      /\ \A j \in 1..Len(t) : t[j] = row \/ \E i \in 1..Len(s) : t[j] = s[i]
      /\ \A i \in 1..Len(s) : \E j \in 1..Len(t) : t[j] = s[i]
      /\ \E j \in 1..Len(t) : t[j] = row
  BY <1>6, <1>7, <1>17, StillSorted
<1>9. ItemsTrue'
  BY <1>1 DEF ShownInv, ItemsTrue
<1>10. ResultsTrue'
  BY <1>1, <1>2, ResultsLeft DEF ShownInv
<1>11. RowsTrue'
  <2>1. shown' \in [Panels -> Seq(Row)]
    BY <1>7, <1>8
  <2> SUFFICES ASSUME NEW p \in Panels
               PROVE  /\ \A i \in 1..Len(shown'[p]) : /\ shown'[p][i].run = started
                                                      /\ shown'[p][i].order \in items[started]
                                                      /\ PanelOf(shown'[p][i].order) = p
                      /\ \A i, j \in 1..Len(shown'[p]) : i < j => shown'[p][i].order < shown'[p][j].order
    BY <1>1, <2>1 DEF RowsTrue
  <2>2. CASE p # panel
    BY <1>7, <2>2 DEF ShownInv, RowsTrue
  <2>3. CASE p = panel
    <3>1. \A i \in 1..Len(s) : s[i].run = started /\ s[i].order \in items[started] /\ PanelOf(s[i].order) = panel
      BY DEF ShownInv, RowsTrue, s
    <3>2. \A j \in 1..Len(t) : t[j].run = started /\ t[j].order \in items[started] /\ PanelOf(t[j].order) = panel
      BY <1>4, <1>6, <1>8, <3>1
    <3> QED
      BY <1>7, <1>8, <2>3, <3>2 DEF Sorted
  <2> QED
    BY <2>2, <2>3
<1>12. \A order : IsShown(order)' <=> (IsShown(order) \/ order = h.order)
  <2> SUFFICES ASSUME NEW order PROVE IsShown(order)' <=> (IsShown(order) \/ order = h.order)
    OBVIOUS
  <2>1. ASSUME NEW p \in Panels
        PROVE  (\E j \in 1..Len(shown'[p]) : shown'[p][j].order = order)
                 <=> \/ \E i \in 1..Len(shown[p]) : shown[p][i].order = order
                     \/ p = panel /\ order = h.order
    <3>1. CASE p # panel
      BY <1>7, <3>1
    <3>2. CASE p = panel
      <4>1. (\E j \in 1..Len(t) : t[j].order = order)
              <=> (\E i \in 1..Len(s) : s[i].order = order) \/ order = h.order
        BY <1>6, <1>8
      <4> QED
        BY <1>7, <3>2, <4>1 DEF s
    <3> QED
      BY <3>1, <3>2
  <2> QED
    BY <2>1 DEF IsShown
<1>13. \A order : IsQueued(order)' => IsQueued(order)
  <2> SUFFICES ASSUME NEW order, NEW i \in 1..Len(queue'), queue'[i].kind \in Panels, queue'[i].order = order
               PROVE  IsQueued(order)
    BY DEF IsQueued
  <2>1. i + 1 \in 1..Len(queue) /\ queue'[i] = queue[i + 1]
    BY <1>2 DEF HeadGone, Telling
  <2> QED
    BY <2>1 DEF IsQueued
<1>14. \A order : IsQueued(order) => IsQueued(order)' \/ order = h.order
  <2> SUFFICES ASSUME NEW order, NEW i \in 1..Len(queue), queue[i].kind \in Panels, queue[i].order = order,
                      order # h.order
               PROVE  IsQueued(order)'
    BY DEF IsQueued
  <2>1. i # 1
    BY <1>3
  <2>2. i - 1 \in 1..Len(queue') /\ queue'[i - 1] = queue[i]
    BY <1>2, <2>1 DEF HeadGone
  <2> QED
    BY <2>2 DEF IsQueued
<1>15. ItemsOnce'
  <2>1. ASSUME NEW i \in 1..Len(queue'), queue'[i].kind \in Panels
        PROVE  \A order : order = queue'[i].order => ~IsShown(order)'
    <3>1. i + 1 \in 1..Len(queue) /\ queue'[i] = queue[i + 1] /\ i + 1 # 1
      <4>1. i + 1 \in 1..Len(queue) /\ queue'[i] = queue[i + 1]
        BY <1>2, <2>1 DEF HeadGone, Telling
      <4>2. i + 1 # 1
        OBVIOUS
      <4> QED
        BY <4>1, <4>2
    <3>2. queue[i + 1].order # h.order
      BY <1>1, <1>3, <2>1, <3>1 DEF ShownInv, ItemsOnce
    <3>3. ~IsShown(queue[i + 1].order)
      BY <2>1, <3>1 DEF ShownInv, ItemsOnce
    <3> QED
      BY <1>12, <3>1, <3>2, <3>3
  <2>2. \A order \in items[started] : IsShown(order)' \/ IsQueued(order)'
    BY <1>5, <1>12, <1>14 DEF ShownInv, ItemsOnce
  <2>3. \A i, j \in 1..Len(queue') :
            queue'[i].kind \in Panels /\ queue'[j].kind \in Panels /\ queue'[i].order = queue'[j].order => i = j
    BY <1>2, StillDistinct DEF ShownInv
  <2>4. \A i \in 1..Len(queue') : queue'[i].kind \in Panels
            => ~\E p \in Panels : \E k \in 1..Len(shown'[p]) : shown'[p][k].order = queue'[i].order
    BY <2>1 DEF IsShown
  <2> QED
    BY <1>1, <2>2, <2>3, <2>4 DEF ItemsOnce, IsShown, IsQueued
<1>16. ReportTrue'
  BY <1>1, <1>3 DEF ShownInv, ReportTrue
<1> QED
  BY <1>9, <1>10, <1>11, <1>15, <1>16 DEF ShownInv

\* A report is handled: all its items are on the screen.
LEMMA ReportHandled ==
  ASSUME IInv, ShownInv, NEW kind \in Reports, NEW keep, OnReport(kind, keep)
  PROVE  ShownInv'
<1>1. /\ queue # <<>> /\ Head(queue).kind = kind /\ queue' = Tail(queue)
      /\ report' = [run |-> Head(queue).run, items |-> items[Head(queue).run]]
      /\ UNCHANGED <<worker, started, thread, items, shown>>
  BY DEF OnReport, Handling, Rest, FinishRun, WorkerAfterReport
<1>2. HeadGone
  BY <1>1, TakenIsGone
<1>3. 1 \in 1..Len(queue) /\ queue[1] = Head(queue) /\ queue[1] \in Events /\ Head(queue).run \in Runs
  <2>1. 1 \in 1..Len(queue) /\ queue[1] = Head(queue) /\ queue[1] \in Events
    BY <1>2 DEF HeadGone, IInv, Types
  <2> QED
    BY <2>1 DEF Events
<1>4. Head(queue).run = started /\ thread[started] # "running"
  BY <1>1, <1>3 DEF ShownInv, ResultsTrue
<1>5. \A i \in 1..Len(queue') : queue'[i].kind \notin Panels
  <2> SUFFICES ASSUME NEW i \in 1..Len(queue'), queue'[i].kind \in Panels PROVE FALSE
    OBVIOUS
  <2>1. i + 1 \in 1..Len(queue) /\ queue[i + 1].kind \in Panels /\ ~(i + 1 < 1)
    BY <1>2 DEF HeadGone, Telling
  <2> QED
    BY <1>1, <1>3, <2>1 DEF ShownInv, ResultsTrue
<1>6. ReportTrue'
  BY <1>1, <1>3, <1>4, <1>5 DEF ReportTrue
<1>7. kind \notin Panels
  BY DEF Reports, Panels
<1> QED
  BY <1>1, <1>2, <1>6, <1>7, EndHandled

\* A new run starts on an empty screen: nothing of an earlier one is still to come.
LEMMA RunStarts ==
  ASSUME IInv, ShownInv, RunRequested
  PROVE  ShownInv'
<1>1. /\ worker = None /\ started < MaxRuns /\ started' = started + 1
      /\ thread' = [thread EXCEPT ![started + 1] = "running"]
      /\ shown' = [p \in Panels |-> <<>>] /\ exportable' = FALSE
      /\ UNCHANGED <<items, queue>>
  BY DEF RunRequested, ClearedRows
<1>2. started \in Nat /\ started + 1 \in Runs
  BY <1>1, BoundsAssumption DEF IInv, Types
<1>3. \A i \in 1..Len(queue) : queue[i].kind \notin Panels \cup Reports
  <2> SUFFICES ASSUME NEW i \in 1..Len(queue), queue[i].kind \in Panels \cup Reports PROVE FALSE
    OBVIOUS
  <2>1. queue[i] \in Events
    BY DEF IInv, Types
  <2>2. queue[i].run \in Runs
    BY <2>1 DEF Events
  <2> QED
    BY <1>1, <2>2 DEF ShownInv, ResultsTrue
<1>4. items[started + 1] = {}
  <2>1. ~(started + 1 <= started)
    BY <1>2
  <2>2. thread[started + 1] = "none"
    BY <1>2, <2>1 DEF IInv, ThreadsTrue
  <2> QED
    BY <1>2, <2>2 DEF ShownInv, ItemsTrue
<1>5. ItemsTrue'
  <2>1. \A r \in Runs : thread'[r] = "none" => thread[r] = "none"
    BY <1>1, <1>2 DEF IInv, Types
  <2> QED
    BY <1>1, <2>1 DEF ShownInv, ItemsTrue
<1>6. ResultsTrue' /\ ReportTrue'
  BY <1>1, <1>3 DEF ResultsTrue, ReportTrue
<1>7. shown' \in [Panels -> Seq(Row)] /\ \A p \in Panels : shown'[p] = <<>> /\ Len(shown'[p]) = 0
  BY <1>1
<1>8. RowsTrue'
  BY <1>7 DEF RowsTrue
<1>9. ItemsOnce'
  BY <1>1, <1>3, <1>4 DEF ItemsOnce
<1> QED
  BY <1>5, <1>6, <1>8, <1>9 DEF ShownInv

\* What a thread says that is no result: its report while it runs, its end after that.
LEMMA EndQueuedBehind ==
  ASSUME IInv, ShownInv, NEW q \in Seq(Events), queue' = queue \o q,
         UNCHANGED <<worker, started, items, shown, report, exportable>>,
         \A r \in Runs : /\ thread'[r] = "none" => thread[r] = "none"
                         /\ thread'[r] = "running" => thread[r] = "running",
         \A i \in 1..Len(q) : q[i].kind \notin Panels,
         \A i \in 1..Len(q) : q[i].kind \in Reports =>
            /\ q[i].run = started /\ worker = started /\ thread'[started] # "running"
            /\ \A j \in 1..Len(q) : q[j].kind # "finished"
            /\ \A j \in 1..Len(queue) : queue[j].kind # "finished"
  PROVE  ShownInv'
<1>1. /\ queue \in Seq(Events) /\ Len(queue) \in Nat /\ Len(q) \in Nat /\ started \in Nat
      /\ started # 0 => started \in Runs
  BY BoundsAssumption DEF IInv, Types
<1>2. /\ \A i \in 1..Len(queue) : i \in 1..Len(queue') /\ queue'[i] = queue[i]
      /\ \A i \in 1..Len(queue') : \/ i \in 1..Len(queue)
                                   \/ i - Len(queue) \in 1..Len(q) /\ queue'[i] = q[i - Len(queue)]
  BY <1>1, BehindIndices
<1>3. \A i \in 1..Len(queue), j \in 1..Len(queue') : j \notin 1..Len(queue) => i < j
  BY <1>1
<1>4. \A i \in 1..Len(queue') : queue'[i].kind \in Panels => i \in 1..Len(queue) /\ queue'[i] = queue[i]
  BY <1>2
<1>5. \A i \in 1..Len(queue) : queue[i].run \in Runs
  <2>1. \A i \in 1..Len(queue) : queue[i] \in Events
    BY <1>1
  <2> QED
    BY <2>1 DEF Events
<1>6. ItemsTrue' /\ RowsTrue'
  BY DEF ShownInv, ItemsTrue, RowsTrue
<1>7. ResultsTrue'
  <2> SUFFICES ASSUME NEW i \in 1..Len(queue')
               PROVE
          /\ queue'[i].kind \in Panels \cup Reports => queue'[i].run = started /\ worker' = started
          /\ queue'[i].kind \in Reports => /\ thread'[started] # "running"
                                         /\ \A j \in 1..Len(queue') : queue'[j].kind = "finished" => i < j
          /\ queue'[i].kind \in Panels =>
                /\ \A j \in 1..Len(queue') : queue'[j].kind \in Reports \cup {"finished"} => i < j
                /\ queue'[i].kind = PanelOf(queue'[i].order) /\ queue'[i].order \in items[started]
    BY DEF ResultsTrue
  <2>1. CASE i \in 1..Len(queue)
    <3>1. queue'[i] = queue[i]
      BY <1>2, <2>1
    <3>2. queue[i].kind \in Panels \cup Reports => queue[i].run = started /\ worker = started /\ started \in Runs
      BY <1>5, <2>1 DEF ShownInv, ResultsTrue
    <3>3. queue[i].kind \in Reports => thread'[started] # "running"
      BY <3>2, <2>1 DEF ShownInv, ResultsTrue
    <3>4. ASSUME NEW j \in 1..Len(queue'), queue'[j].kind \in Reports \cup {"finished"},
                 queue[i].kind \in Panels \/ (queue[i].kind \in Reports /\ queue'[j].kind = "finished")
          PROVE  i < j
      <4>1. CASE j \in 1..Len(queue)
        BY <1>2, <2>1, <3>4, <4>1 DEF ShownInv, ResultsTrue
      <4>2. CASE j \notin 1..Len(queue)
        BY <1>3, <2>1, <4>2
      <4> QED
        BY <4>1, <4>2
    <3>5. queue[i].kind \in Panels => queue[i].kind = PanelOf(queue[i].order) /\ queue[i].order \in items[started]
      BY <2>1 DEF ShownInv, ResultsTrue
    <3> QED
      BY <3>1, <3>2, <3>3, <3>4, <3>5
  <2>2. CASE i \notin 1..Len(queue)
    <3>1. i - Len(queue) \in 1..Len(q) /\ queue'[i] = q[i - Len(queue)]
      BY <1>2, <2>2
    <3>2. queue'[i].kind \notin Panels
      BY <3>1
    <3>3. ASSUME queue'[i].kind \in Reports, NEW j \in 1..Len(queue') PROVE queue'[j].kind # "finished"
      BY <1>2, <3>1, <3>3
    <3> QED
      BY <3>1, <3>2, <3>3
  <2> QED
    BY <2>1, <2>2
<1>8. ItemsOnce'
  <2>1. \A order : IsQueued(order) => IsQueued(order)'
    BY <1>2 DEF IsQueued
  <2>2. \A order : IsShown(order)' <=> IsShown(order)
    BY DEF IsShown
  <2>3. \A i, j \in 1..Len(queue') :
            queue'[i].kind \in Panels /\ queue'[j].kind \in Panels /\ queue'[i].order = queue'[j].order => i = j
    BY <1>4 DEF ShownInv, ItemsOnce
  <2>4. \A i \in 1..Len(queue') : queue'[i].kind \in Panels
            => ~\E p \in Panels : \E k \in 1..Len(shown'[p]) : shown'[p][k].order = queue'[i].order
    BY <1>4 DEF ShownInv, ItemsOnce, IsShown
  <2>5. started' # None => \A order \in items'[started'] : IsShown(order)' \/ IsQueued(order)'
    BY <2>1, <2>2 DEF ShownInv, ItemsOnce
  <2> QED
    BY <2>3, <2>4, <2>5 DEF ItemsOnce, IsShown, IsQueued
<1>9. ReportTrue'
  BY <1>1, <1>4 DEF ShownInv, ReportTrue
<1> QED
  BY <1>6, <1>7, <1>8, <1>9 DEF ShownInv

\* The run whose thread runs is the latest, and the window's: nothing of its end is queued.
LEMMA LatestRuns ==
  ASSUME IInv, ShownInv, NEW r \in Runs, thread[r] = "running"
  PROVE  /\ started = r /\ worker = r /\ ~exportable
         /\ \A j \in 1..Len(queue) : queue[j].kind \notin Reports \cup {"finished"}
<1>1. started = r /\ worker = r
  BY BoundsAssumption DEF IInv, OneScan, IsRunning, Types
<1>2. ASSUME NEW j \in 1..Len(queue) PROVE queue[j].kind \notin Reports \cup {"finished"}
  <2>1. queue[j].kind \notin Reports
    BY <1>1, <1>2 DEF ShownInv, ResultsTrue
  <2>2. queue[j].kind # "finished"
    BY <1>1, <1>2 DEF IInv, EventsTrue, Ending
  <2> QED
    BY <2>1, <2>2
<1>3. ~exportable
  BY <1>1 DEF ShownInv, ReportTrue
<1> QED
  BY <1>1, <1>2, <1>3

\* The order keys of a step's results: each of its own, and none that another step has.
LEMMA OwnOrders ==
  ASSUME NEW s \in DOMAIN Plan, NEW n \in 1..Plan[s].results
  PROVE  /\ n \in Nat
         /\ \A i \in 0..(n - 1) : /\ OrderKey(s, i) \in Nat /\ PanelOf(OrderKey(s, i)) \in Panels
                                  /\ OrderKey(s, i) \div OrderStride = s
         /\ \A i, j \in 0..(n - 1) : OrderKey(s, i) = OrderKey(s, j) => i = j
<1>1. s \in Nat /\ Plan[s].results \in 1..OrderStride
  <2>1. Plan[s] \in [panel : Panels, results : 1..OrderStride]
    BY PlanSteps
  <2> QED
    BY <2>1, PlanSteps
<1>2. n \in Nat /\ n <= 1000
  BY <1>1 DEF OrderStride
<1>3. \A i \in 0..(n - 1) : i \in 0..(OrderStride - 1) /\ i \in Nat /\ i < 1000
  BY <1>2 DEF OrderStride
<1>4. ASSUME NEW i \in 0..(n - 1) PROVE OrderKey(s, i) \div OrderStride = s
  <2>1. (s * 1000 + i) \div 1000 = s
    BY <1>1, <1>3
  <2> QED
    BY <2>1 DEF OrderKey, OrderStride
<1>5. ASSUME NEW i \in 0..(n - 1), NEW j \in 0..(n - 1), OrderKey(s, i) = OrderKey(s, j) PROVE i = j
  <2>1. s * 1000 + i = s * 1000 + j
    BY <1>5 DEF OrderKey, OrderStride
  <2> QED
    BY <1>1, <1>3, <2>1
<1> QED
  BY <1>2, <1>3, <1>4, <1>5, OwnPanel

\* A step's results are queued: new items of the latest run, behind its others.
LEMMA ResultsQueued ==
  ASSUME IInv, ShownInv, NEW r \in Runs, NEW s \in DOMAIN Plan, NEW n \in 1..Plan[s].results, EmitStep(r, s, n)
  PROVE  ShownInv'
<1> DEFINE q     == [i \in 1..n |-> ItemEvent(r, OrderKey(s, i - 1))]
           fresh == {OrderKey(s, i) : i \in 0..(n - 1)}
<1>1. /\ thread[r] = "running" /\ \A order \in items[r] : order \div OrderStride # s
      /\ items' = [items EXCEPT ![r] = @ \cup fresh] /\ queue' = queue \o q
      /\ UNCHANGED <<worker, started, thread, shown, report, exportable>>
  BY DEF EmitStep
<1>2. /\ started = r /\ worker = r /\ ~exportable
      /\ \A j \in 1..Len(queue) : queue[j].kind \notin Reports \cup {"finished"}
  BY <1>1, LatestRuns
<1>3. n \in Nat /\ \A i \in 1..n : i - 1 \in 0..(n - 1)
  BY OwnOrders
<1>4. /\ fresh \subseteq Nat /\ \A order \in fresh : order \notin items[r]
      /\ items' \in [Runs -> SUBSET Nat] /\ items'[r] = items[r] \cup fresh
      /\ \A t \in Runs : t # r => items'[t] = items[t]
  <2>1. fresh \subseteq Nat /\ \A order \in fresh : order \div OrderStride = s
    BY OwnOrders
  <2> HIDE DEF fresh
  <2> QED
    BY <1>1, <2>1 DEF ShownInv, ItemsTrue
<1>5. q \in Seq(Events) /\ Len(q) = n /\ Len(q) \in Nat
  <2>1. \A i \in 1..n : ItemEvent(r, OrderKey(s, i - 1)) \in Events
    BY <1>3, OwnOrders DEF ItemEvent, Events
  <2> QED
    BY <1>3, <2>1
<1>6. \A i \in 1..Len(q) : /\ q[i].kind \in Panels /\ q[i].kind = PanelOf(q[i].order)
                           /\ q[i].run = r /\ q[i].order \in fresh
  BY <1>3, <1>5, OwnOrders DEF ItemEvent
<1>7. \A i, j \in 1..Len(q) : q[i].order = q[j].order => i = j
  <2> SUFFICES ASSUME NEW i \in 1..n, NEW j \in 1..n, OrderKey(s, i - 1) = OrderKey(s, j - 1) PROVE i = j
    BY <1>5 DEF ItemEvent
  <2>1. i - 1 = j - 1
    BY <1>3, OwnOrders
  <2> QED
    BY <2>1
<1>8. \A order \in fresh : \E i \in 1..Len(q) : q[i].order = order
  <2> SUFFICES ASSUME NEW k \in 0..(n - 1) PROVE \E i \in 1..n : q[i].order = OrderKey(s, k)
    BY <1>5
  <2>1. k + 1 \in 1..n /\ (k + 1) - 1 = k
    BY <1>3
  <2> QED
    BY <2>1 DEF ItemEvent
<1> HIDE DEF q, fresh
<1>9. /\ queue \in Seq(Events) /\ Len(queue) \in Nat /\ queue' \in Seq(Events)
      /\ Len(queue') = Len(queue) + Len(q)
      /\ \A i \in 1..Len(queue) : i \in 1..Len(queue') /\ queue'[i] = queue[i]
      /\ \A i \in 1..Len(queue') : \/ i \in 1..Len(queue)
                                   \/ i - Len(queue) \in 1..Len(q) /\ queue'[i] = q[i - Len(queue)]
      /\ \A i \in 1..Len(q) : queue'[Len(queue) + i] = q[i]
  <2>1. queue \in Seq(Events) /\ queue' = queue \o q
    BY <1>1 DEF IInv, Types
  <2>2. /\ queue' \in Seq(Events) /\ Len(queue) \in Nat
        /\ Len(queue') = Len(queue) + Len(q)
        /\ \A i \in 1..Len(q) : queue'[Len(queue) + i] = q[i]
    <3>1. q \in Seq(Events)
      BY <1>5
    <3> QED
      BY <2>1, <3>1, Behind
  <2>3. /\ \A i \in 1..Len(queue) : i \in 1..Len(queue') /\ queue'[i] = queue[i]
        /\ \A i \in 1..Len(queue') : \/ i \in 1..Len(queue)
                                     \/ i - Len(queue) \in 1..Len(q) /\ queue'[i] = q[i - Len(queue)]
    BY <1>5, <2>1, BehindIndices
  <2> QED
    BY <2>1, <2>2, <2>3
<1>10. ItemsTrue'
  BY <1>1, <1>4 DEF ShownInv, ItemsTrue
<1>11. \A i \in 1..Len(queue) : queue[i].kind \in Panels => queue[i].order \in items[r]
  BY <1>2 DEF ShownInv, ResultsTrue
<1>12. ResultsTrue'
  <2> SUFFICES ASSUME NEW i \in 1..Len(queue')
               PROVE
          /\ queue'[i].kind \in Panels \cup Reports => queue'[i].run = started /\ worker' = started
          /\ queue'[i].kind \notin Reports \cup {"finished"}
          /\ queue'[i].kind \in Panels =>
                queue'[i].kind = PanelOf(queue'[i].order) /\ queue'[i].order \in items'[r]
    BY <1>1, <1>2 DEF ResultsTrue
  <2>1. CASE i \in 1..Len(queue)
    BY <1>1, <1>2, <1>4, <1>9, <2>1 DEF ShownInv, ResultsTrue
  <2>2. CASE i \notin 1..Len(queue)
    BY <1>1, <1>2, <1>4, <1>6, <1>9, <2>2 DEF Panels, Reports
  <2> QED
    BY <2>1, <2>2
<1>13. RowsTrue'
  BY <1>1, <1>2, <1>4 DEF ShownInv, RowsTrue
<1>14. \A order : /\ IsShown(order)' <=> IsShown(order)
                  /\ IsShown(order) => order \in items[r]
  BY <1>1, <1>2 DEF ShownInv, RowsTrue, IsShown
<1>15. ItemsOnce'
  <2>1. ASSUME NEW i \in 1..Len(queue'), NEW j \in 1..Len(queue'),
               queue'[i].kind \in Panels, queue'[j].kind \in Panels, queue'[i].order = queue'[j].order
        PROVE  i = j
    <3>1. CASE i \in 1..Len(queue) /\ j \in 1..Len(queue)
      BY <1>9, <2>1, <3>1 DEF ShownInv, ItemsOnce
    <3>2. CASE i \in 1..Len(queue) /\ j \notin 1..Len(queue)
      BY <1>4, <1>6, <1>9, <1>11, <2>1, <3>2
    <3>3. CASE i \notin 1..Len(queue) /\ j \in 1..Len(queue)
      BY <1>4, <1>6, <1>9, <1>11, <2>1, <3>3
    <3>4. CASE i \notin 1..Len(queue) /\ j \notin 1..Len(queue)
      <4>1. /\ i - Len(queue) \in 1..Len(q) /\ j - Len(queue) \in 1..Len(q)
            /\ q[i - Len(queue)].order = q[j - Len(queue)].order
        BY <1>9, <2>1, <3>4
      <4>2. i - Len(queue) = j - Len(queue)
        BY <1>7, <4>1
      <4> QED
        BY <1>9, <4>2
    <3> QED
      BY <3>1, <3>2, <3>3, <3>4
  <2>2. ASSUME NEW i \in 1..Len(queue'), queue'[i].kind \in Panels
        PROVE  ~IsShown(queue'[i].order)
    <3>1. CASE i \in 1..Len(queue)
      BY <1>9, <2>2, <3>1 DEF ShownInv, ItemsOnce
    <3>2. CASE i \notin 1..Len(queue)
      BY <1>4, <1>6, <1>9, <1>14, <3>2
    <3> QED
      BY <3>1, <3>2
  <2>3. ASSUME NEW order \in items'[r] PROVE IsShown(order) \/ IsQueued(order)'
    <3>1. CASE order \in items[r]
      <4>1. IsShown(order) \/ IsQueued(order)
        BY <1>2, <3>1 DEF ShownInv, ItemsOnce
      <4>2. IsQueued(order) => IsQueued(order)'
        BY <1>9 DEF IsQueued
      <4> QED
        BY <4>1, <4>2
    <3>2. CASE order \in fresh
      <4>1. PICK i \in 1..Len(q) : q[i].order = order
        BY <1>8, <3>2
      <4>2. Len(queue) + i \in 1..Len(queue') /\ queue'[Len(queue) + i] = q[i]
        BY <1>5, <1>9
      <4> QED
        BY <1>6, <4>1, <4>2 DEF IsQueued
    <3> QED
      BY <1>4, <3>1, <3>2
  <2>4. \A i \in 1..Len(queue') : queue'[i].kind \in Panels
            => ~\E p \in Panels : \E k \in 1..Len(shown'[p]) : shown'[p][k].order = queue'[i].order
    BY <1>1, <2>2 DEF IsShown
  <2>5. \A order \in items'[r] : IsShown(order)' \/ IsQueued(order)'
    BY <1>14, <2>3
  <2> QED
    BY <1>1, <1>2, <2>1, <2>4, <2>5 DEF ItemsOnce, IsShown, IsQueued
<1>16. ReportTrue'
  BY <1>1, <1>2 DEF ReportTrue
<1> QED
  BY <1>10, <1>12, <1>13, <1>15, <1>16 DEF ShownInv

\* A thread's report and its end.
LEMMA EndsQueued ==
  ASSUME IInv, ShownInv, NEW r \in Runs, EmitReport(r) \/ Finish(r)
  PROVE  ShownInv'
<1>1. CASE EmitReport(r)
  <2>1. PICK kind \in {"completed", "aborted"} : queue' = Append(queue, Event(kind, r))
    BY <1>1 DEF EmitReport
  <2>2. /\ thread[r] = "running" /\ thread' = [thread EXCEPT ![r] = "reported"]
        /\ UNCHANGED <<worker, started, items, shown, report, exportable>>
    BY <1>1 DEF EmitReport
  <2>3. /\ started = r /\ worker = r
        /\ \A j \in 1..Len(queue) : queue[j].kind \notin Reports \cup {"finished"}
    BY <2>2, LatestRuns
  <2> DEFINE q == <<Event(kind, r)>>
  <2>4. q \in Seq(Events) /\ Len(q) = 1 /\ q[1].kind = kind /\ q[1].run = r
    <3>1. Event(kind, r) \in Events
      BY DEF Event, Events
    <3> QED
      BY <3>1 DEF Event
  <2>5. queue' = queue \o q
    BY <2>1, <2>4 DEF IInv, Types
  <2>6. \A t \in Runs : /\ thread'[t] = "none" => thread[t] = "none"
                        /\ thread'[t] = "running" => thread[t] = "running"
    BY <2>2 DEF IInv, Types
  <2>7. thread'[r] # "running"
    BY <2>2 DEF IInv, Types
  <2> HIDE DEF q
  <2>8. \A i \in 1..Len(q) : q[i].kind = kind /\ q[i].run = r
    BY <2>4
  <2>9. kind \notin Panels /\ kind # "finished"
    BY DEF Panels
  <2> QED
    BY <2>2, <2>3, <2>4, <2>5, <2>6, <2>7, <2>8, <2>9, EndQueuedBehind
<1>2. CASE Finish(r)
  <2> DEFINE two   == <<Event("deleteLater", r), Event("finished", r)>>
             close == IF closeOnFinish THEN <<Event("close", r)>> ELSE <<>>
             q     == two \o close
  <2>1. /\ thread[r] = "reported" /\ thread' = [thread EXCEPT ![r] = "ended"]
        /\ UNCHANGED <<worker, started, items, shown, report, exportable>>
    BY <1>2 DEF Finish
  <2>2. two \in Seq(Events) /\ \A i \in 1..Len(two) : two[i].kind \in {"deleteLater", "finished"}
    <3>1. Event("deleteLater", r) \in Events /\ Event("finished", r) \in Events
      BY DEF Event, Events, Ending
    <3> QED
      BY <3>1 DEF Event
  <2>3. close \in Seq(Events) /\ \A i \in 1..Len(close) : close[i].kind = "close"
    <3>1. Event("close", r) \in Events
      BY DEF Event, Events
    <3> QED
      BY <3>1 DEF Event
  <2>4. queue' = (queue \o two) \o close
    BY <1>2 DEF Finish
  <2> HIDE DEF two, close
  <2>5. queue' = queue \o q
    BY <2>2, <2>3, <2>4 DEF IInv, Types
  <2>6. q \in Seq(Events) /\ \A i \in 1..Len(q) : q[i].kind \in {"deleteLater", "finished", "close"}
    <3>1. /\ q \in Seq(Events)
          /\ \A i \in 1..Len(q) : \/ i \in 1..Len(two) /\ q[i] = two[i]
                                  \/ i - Len(two) \in 1..Len(close) /\ q[i] = close[i - Len(two)]
      BY <2>2, <2>3, BehindIndices
    <3> HIDE DEF q
    <3> QED
      BY <2>2, <2>3, <3>1
  <2>7. \A t \in Runs : /\ thread'[t] = "none" => thread[t] = "none"
                        /\ thread'[t] = "running" => thread[t] = "running"
    BY <2>1 DEF IInv, Types
  <2> HIDE DEF q
  <2>8. \A i \in 1..Len(q) : q[i].kind \notin Panels \cup Reports
    BY <2>6 DEF Panels, Reports
  <2> QED
    BY <2>1, <2>5, <2>6, <2>7, <2>8, EndQueuedBehind
<1> QED
  BY <1>1, <1>2

\* Another theme: the rows are taken off the panel and put where they were.
LEMMA ThemeKeepsRows ==
  ASSUME ShownInv, ThemeChanged
  PROVE  ShownInv'
<1>1. shown["findings"] \in Seq(Row) /\ Sorted(shown["findings"])
  BY DEF ShownInv, RowsTrue, Sorted, Panels
<1>2. ShownAgain(shown["findings"]) = shown["findings"]
  BY <1>1, SameRowsAgain
<1>3. shown' = shown
  BY <1>2 DEF ThemeChanged, ShownInv, RowsTrue
<1> QED
  BY <1>3, ScreenKept DEF ThemeChanged

\* Every step keeps ShownInv.
LEMMA ShownNext ==
  ASSUME IInv, ShownInv, [Next]_vars
  PROVE  ShownInv'
<1> USE DEF Handling, Rest
<1>1. CASE RunRequested
  BY <1>1, RunStarts
<1>2. CASE CancelClicked \/ CloseClicked \/ AnswerNo \/ AnswerYes \/ AnswerYesTooLate
           \/ WaitEnds \/ WaitTimesOut \/ ConnectClose \/ UNCHANGED vars
  <2>1. UNCHANGED <<queue, worker, started, thread, items, shown, report, exportable>>
    BY <1>2 DEF CancelClicked, CloseClicked, AnswerNo, AnswerYes, AnswerYesTooLate, WaitEnds, WaitTimesOut,
                ConnectClose
  <2> QED
    BY <2>1, ScreenKept
<1>3. CASE ThemeChanged
  BY <1>3, ThemeKeepsRows
<1>4. CASE OnDiagnostic \/ OnFinding
  BY <1>4, ItemHandled DEF OnDiagnostic, OnFinding, Panels
<1>5. CASE OnCompleted
  BY <1>5, ReportHandled DEF OnCompleted, Reports
<1>6. CASE OnAborted
  BY <1>6, ReportHandled DEF OnAborted, Reports
<1>7. CASE OnDeleteLater
  <2>1. /\ queue # <<>> /\ queue' = Append(Tail(queue), Event("deferredDelete", Head(queue).run))
        /\ Head(queue).kind = "deleteLater"
        /\ UNCHANGED <<worker, started, thread, items, shown, report, exportable>>
    BY <1>7 DEF OnDeleteLater
  <2>2. HeadGone
    BY <2>1, TakenIsGone
  <2> QED
    BY <2>1, <2>2, EndHandled DEF Panels
<1>8. CASE OnDeferredDelete \/ OnThreadFinished \/ OnCloseSignal
  <2>1. /\ queue # <<>> /\ queue' = Tail(queue)
        /\ Head(queue).kind \in {"deferredDelete", "finished", "close"}
        /\ UNCHANGED <<started, thread, items, shown, report, exportable>>
        /\ UNCHANGED worker \/ Head(queue).kind = "finished"
    BY <1>8 DEF OnDeferredDelete, OnThreadFinished, OnCloseSignal
  <2>2. HeadGone
    BY <2>1, TakenIsGone
  <2> QED
    BY <2>1, <2>2, EndHandled DEF Panels
<1>9. CASE \E r \in Runs : ScanThread(r)
  BY <1>9, ResultsQueued, EndsQueued DEF ScanThread
<1> QED
  BY <1>1, <1>2, <1>3, <1>4, <1>5, <1>6, <1>7, <1>8, <1>9 DEF Next, User, GuiThread

-----------------------------------------------------------------------------
(* The target bar *)

\* The bar is ready before the first run.
LEMMA BarInit == Init => BarTrue
<1> SUFFICES ASSUME Init PROVE BarTrue
  OBVIOUS
<1>1. /\ queue = <<>> /\ 1..Len(queue) = {} /\ busy = FALSE /\ cancelArmed = TRUE
      /\ \A r \in Runs : thread[r] # "running"
  BY DEF Init
<1> QED
  BY <1>1 DEF BarTrue, ReportQueued

\* A step that leaves the queue, the threads and the bar alone.
LEMMA BarKept ==
  ASSUME BarTrue, UNCHANGED <<queue, worker, thread, busy, cancelArmed>>, token \subseteq token'
  PROVE  BarTrue'
BY DEF BarTrue, ReportQueued

\* An event that is no report is taken; the worker is forgotten only with the bar ready.
LEMMA BarWaits ==
  ASSUME BarTrue, HeadGone, Head(queue).kind \notin Reports,
         UNCHANGED <<thread, token, busy, cancelArmed>>, UNCHANGED worker \/ ~busy
  PROVE  BarTrue'
<1>1. \A i \in 1..Len(queue') : queue'[i].kind \in Reports => i + 1 \in 1..Len(queue) /\ queue'[i] = queue[i + 1]
  BY DEF HeadGone, Telling
<1>2. ReportQueued' <=> ReportQueued
  <2>1. ReportQueued' => ReportQueued
    BY <1>1 DEF ReportQueued
  <2>2. ASSUME NEW i \in 1..Len(queue), queue[i].kind \in Reports PROVE ReportQueued'
    <3>1. i # 1
      BY <2>2 DEF HeadGone
    <3> QED
      BY <2>2, <3>1 DEF HeadGone, ReportQueued
  <2> QED
    BY <2>1, <2>2 DEF ReportQueued
<1>3. ASSUME NEW i \in 1..Len(queue'), NEW j \in 1..Len(queue'), {queue'[i].kind, queue'[j].kind} \subseteq Reports
      PROVE  i = j
  <2>1. i + 1 = j + 1
    BY <1>1, <1>3 DEF BarTrue
  <2> QED
    BY <2>1
<1> QED
  BY <1>2, <1>3 DEF BarTrue

\* The report is taken: no other is queued, no thread runs, and the bar is ready again.
LEMMA BarBack ==
  ASSUME IInv, ShownInv, BarTrue, NEW kind \in Reports, NEW keep, OnReport(kind, keep)
  PROVE  BarTrue'
<1>1. /\ queue # <<>> /\ Head(queue).kind = kind /\ queue' = Tail(queue)
      /\ busy' = FALSE /\ cancelArmed' = TRUE /\ UNCHANGED thread
  BY DEF OnReport, Handling, Rest, FinishRun
<1>2. HeadGone
  BY <1>1, TakenIsGone
<1>3. ASSUME NEW i \in 1..Len(queue'), queue'[i].kind \in Reports PROVE FALSE
  <2>1. i + 1 \in 1..Len(queue) /\ queue[i + 1].kind \in Reports /\ queue[1].kind \in Reports
        /\ 1 \in 1..Len(queue)
    BY <1>1, <1>2, <1>3 DEF HeadGone, Telling
  <2>2. i + 1 = 1
    BY <2>1 DEF BarTrue
  <2> QED
    BY <2>2
<1>4. ASSUME NEW r \in Runs, thread[r] = "running" PROVE FALSE
  BY <1>1, <1>2, <1>4, LatestRuns DEF HeadGone
<1> QED
  BY <1>1, <1>3, <1>4 DEF BarTrue, ReportQueued

\* A run is requested: nothing is queued yet that would give its bar back.
LEMMA BarTaken ==
  ASSUME IInv, BarTrue, RunRequested
  PROVE  BarTrue'
<1>1. /\ ~busy /\ busy' = TRUE /\ worker' = started + 1 /\ thread' = [thread EXCEPT ![started + 1] = "running"]
      /\ started < MaxRuns /\ UNCHANGED <<queue, token, cancelArmed>>
  BY DEF RunRequested
<1>2. started + 1 \in Runs /\ worker' # None /\ thread'[started + 1] = "running"
  BY <1>1, BoundsAssumption DEF IInv, Types
<1> QED
  BY <1>1, <1>2 DEF BarTrue, ReportQueued

\* A thread says something that is no report, and runs on or had stopped running.
LEMMA BarUntouched ==
  ASSUME IInv, BarTrue, NEW q \in Seq(Events), queue' = queue \o q,
         \A i \in 1..Len(q) : q[i].kind \notin Reports,
         UNCHANGED <<worker, token, busy, cancelArmed>>,
         \A r \in Runs : thread'[r] = "running" <=> thread[r] = "running"
  PROVE  BarTrue'
<1>1. /\ \A i \in 1..Len(queue) : i \in 1..Len(queue') /\ queue'[i] = queue[i]
      /\ \A i \in 1..Len(queue') : \/ i \in 1..Len(queue)
                                   \/ i - Len(queue) \in 1..Len(q) /\ queue'[i] = q[i - Len(queue)]
  <2>1. queue \in Seq(Events)
    BY DEF IInv, Types
  <2> QED
    BY <2>1, BehindIndices
<1>2. \A i \in 1..Len(queue') : queue'[i].kind \in Reports => i \in 1..Len(queue) /\ queue'[i] = queue[i]
  BY <1>1
<1>3. ReportQueued' <=> ReportQueued
  BY <1>1, <1>2 DEF ReportQueued
<1> QED
  BY <1>2, <1>3 DEF BarTrue

\* The run's thread stops running as its report, the only one, is queued.
LEMMA BarReported ==
  ASSUME IInv, ShownInv, BarTrue, NEW r \in Runs, EmitReport(r)
  PROVE  BarTrue'
<1>1. PICK kind \in Reports : queue' = Append(queue, Event(kind, r))
  BY DEF EmitReport, Reports
<1>2. /\ thread[r] = "running" /\ UNCHANGED <<worker, token, busy, cancelArmed>>
  BY DEF EmitReport
<1>3. \A j \in 1..Len(queue) : queue[j].kind \notin Reports
  BY <1>2, LatestRuns
<1>4. /\ Len(queue) \in Nat /\ Len(queue') = Len(queue) + 1
      /\ queue'[Len(queue) + 1].kind = kind
      /\ \A i \in 1..Len(queue) : queue'[i] = queue[i]
  BY <1>1 DEF IInv, Types, Event
<1>5. Len(queue) + 1 \in 1..Len(queue')
      /\ \A i \in 1..Len(queue') : i = Len(queue) + 1 \/ i \in 1..Len(queue)
  BY <1>4
<1>6. \A i \in 1..Len(queue') : queue'[i].kind \in Reports => i = Len(queue) + 1
  BY <1>3, <1>4, <1>5
<1>7. ReportQueued'
  BY <1>4, <1>5 DEF ReportQueued
<1>8. busy
  BY <1>2 DEF BarTrue
<1> QED
  BY <1>2, <1>6, <1>7, <1>8 DEF BarTrue

\* What a scan thread does to the bar.
LEMMA BarOfThreads ==
  ASSUME IInv, ShownInv, BarTrue, NEW r \in Runs, ScanThread(r)
  PROVE  BarTrue'
<1>1. ASSUME NEW s \in DOMAIN Plan, NEW n \in 1..Plan[s].results, EmitStep(r, s, n) PROVE BarTrue'
  <2> DEFINE q == [i \in 1..n |-> ItemEvent(r, OrderKey(s, i - 1))]
  <2>1. queue' = queue \o q /\ UNCHANGED <<worker, token, busy, cancelArmed, thread>>
    BY <1>1 DEF EmitStep
  <2>2. n \in Nat /\ \A i \in 1..n : /\ OrderKey(s, i - 1) \in Nat
                                    /\ PanelOf(OrderKey(s, i - 1)) \in Panels
    BY OwnOrders
  <2>3. ASSUME NEW i \in 1..n
        PROVE  /\ ItemEvent(r, OrderKey(s, i - 1)) \in Events
               /\ ItemEvent(r, OrderKey(s, i - 1)).kind \notin Reports
    BY <2>2 DEF ItemEvent, Events, Reports, Panels
  <2>4. q \in Seq(Events) /\ \A i \in 1..Len(q) : q[i].kind \notin Reports
    BY <2>2, <2>3
  <2> HIDE DEF q
  <2> QED
    BY <2>1, <2>4, BarUntouched
<1>2. CASE EmitReport(r)
  BY <1>2, BarReported
<1>3. CASE Finish(r)
  <2> DEFINE two   == <<Event("deleteLater", r), Event("finished", r)>>
             close == IF closeOnFinish THEN <<Event("close", r)>> ELSE <<>>
  <2>1. /\ thread[r] = "reported" /\ thread' = [thread EXCEPT ![r] = "ended"]
        /\ queue' = (queue \o two) \o close
        /\ UNCHANGED <<worker, token, busy, cancelArmed>>
    BY <1>3 DEF Finish
  <2>2. /\ Event("deleteLater", r) \in Events /\ Event("finished", r) \in Events
        /\ Event("close", r) \in Events
    BY DEF Event, Events, Ending
  <2>3. two \in Seq(Events) /\ \A i \in 1..Len(two) : two[i].kind \notin Reports
    BY <2>2 DEF Event, Reports
  <2>4. close \in Seq(Events) /\ \A i \in 1..Len(close) : close[i].kind \notin Reports
    BY <2>2 DEF Event, Reports
  <2>5. \A t \in Runs : thread'[t] = "running" <=> thread[t] = "running"
    BY <2>1 DEF IInv, Types
  <2> HIDE DEF two, close
  <2> DEFINE q == two \o close
  <2>6. queue' = queue \o q
    BY <2>1, <2>3, <2>4 DEF IInv, Types
  <2>7. /\ q \in Seq(Events)
        /\ \A i \in 1..Len(q) : \/ i \in 1..Len(two) /\ q[i] = two[i]
                                \/ i - Len(two) \in 1..Len(close) /\ q[i] = close[i - Len(two)]
    BY <2>3, <2>4, BehindIndices
  <2> HIDE DEF q
  <2>8. \A i \in 1..Len(q) : q[i].kind \notin Reports
    BY <2>3, <2>4, <2>7
  <2> QED
    BY <2>1, <2>5, <2>6, <2>7, <2>8, BarUntouched
<1> QED
  BY <1>1, <1>2, <1>3 DEF ScanThread

\* Every step keeps BarTrue.
LEMMA BarNext ==
  ASSUME IInv, ShownInv, BarTrue, [Next]_vars
  PROVE  BarTrue'
<1> USE DEF Handling, Rest
<1>1. CASE RunRequested
  BY <1>1, BarTaken
<1>2. CASE CancelClicked
  <2>1. /\ busy /\ worker' = worker /\ worker # None /\ cancelArmed' = FALSE /\ worker \in token'
        /\ UNCHANGED <<queue, thread, busy>>
    BY <1>2 DEF CancelClicked
  <2> QED
    BY <2>1 DEF BarTrue, ReportQueued
<1>3. CASE CloseClicked \/ ThemeChanged \/ AnswerNo \/ AnswerYes \/ AnswerYesTooLate
           \/ WaitEnds \/ WaitTimesOut \/ ConnectClose \/ UNCHANGED vars
  <2>1. UNCHANGED <<queue, worker, thread, busy, cancelArmed>> /\ token \subseteq token'
    BY <1>3 DEF CloseClicked, ThemeChanged, AnswerNo, AnswerYes, AnswerYesTooLate, WaitEnds, WaitTimesOut,
                ConnectClose
  <2> QED
    BY <2>1, BarKept
<1>4. CASE OnDiagnostic \/ OnFinding
  <2>1. /\ queue # <<>> /\ queue' = Tail(queue) /\ Head(queue).kind \in Panels
        /\ UNCHANGED <<worker, thread, token, busy, cancelArmed>>
    BY <1>4 DEF OnDiagnostic, OnFinding, OnItem, Panels
  <2>2. HeadGone
    BY <2>1, TakenIsGone
  <2> QED
    BY <2>1, <2>2, BarWaits DEF Panels, Reports
<1>5. CASE OnCompleted
  BY <1>5, BarBack DEF OnCompleted, Reports
<1>6. CASE OnAborted
  BY <1>6, BarBack DEF OnAborted, Reports
<1>7. CASE OnDeleteLater
  <2>1. /\ queue # <<>> /\ queue' = Append(Tail(queue), Event("deferredDelete", Head(queue).run))
        /\ Head(queue).kind = "deleteLater"
        /\ UNCHANGED <<worker, thread, token, busy, cancelArmed>>
    BY <1>7 DEF OnDeleteLater
  <2>2. HeadGone
    BY <2>1, TakenIsGone
  <2> QED
    BY <2>1, <2>2, BarWaits DEF Reports
<1>8. CASE OnDeferredDelete \/ OnCloseSignal
  <2>1. /\ queue # <<>> /\ queue' = Tail(queue)
        /\ Head(queue).kind \in {"deferredDelete", "close"}
        /\ UNCHANGED <<worker, thread, token, busy, cancelArmed>>
    BY <1>8 DEF OnDeferredDelete, OnCloseSignal
  <2>2. HeadGone
    BY <2>1, TakenIsGone
  <2> QED
    BY <2>1, <2>2, BarWaits DEF Reports
<1>9. CASE OnThreadFinished
  <2>1. /\ queue # <<>> /\ queue' = Tail(queue) /\ Head(queue).kind = "finished"
        /\ UNCHANGED <<thread, token, busy, cancelArmed>>
    BY <1>9 DEF OnThreadFinished
  <2>2. HeadGone
    BY <2>1, TakenIsGone
  <2>3. ~ReportQueued
    <3> SUFFICES ASSUME NEW i \in 1..Len(queue), queue[i].kind \in Reports PROVE FALSE
      BY DEF ReportQueued
    <3>1. i < 1
      BY <2>1, <2>2 DEF ShownInv, ResultsTrue, HeadGone
    <3> QED
      BY <3>1
  <2>4. \A r \in Runs : thread[r] # "running"
    BY <2>1, <2>2, LatestRuns DEF HeadGone
  <2>5. ~busy
    BY <2>3, <2>4 DEF BarTrue
  <2> QED
    BY <2>1, <2>2, <2>5, BarWaits DEF Reports
<1>10. CASE \E r \in Runs : ScanThread(r)
  BY <1>10, BarOfThreads
<1> QED
  BY <1>1, <1>2, <1>3, <1>4, <1>5, <1>6, <1>7, <1>8, <1>9, <1>10 DEF Next, User, GuiThread

-----------------------------------------------------------------------------
(* Theorems *)

\* The events of a scan thread's end, in the order they are queued in, keep the window and its
\* threads in step.
THEOREM InStepAlways == Spec => []IInv
<1>1. IInv /\ [Next]_vars => IInv'
  <2> SUFFICES ASSUME IInv, [Next]_vars PROVE IInv'
    OBVIOUS
  <2>1. CASE User
    BY <2>1, UserKeeps
  <2>2. CASE GuiThread
    BY <2>2, GuiThreadKeeps
  <2>3. CASE \E r \in Runs : ScanThread(r)
    BY <2>3, ScanThreadKeeps
  <2>4. CASE UNCHANGED vars
    BY <2>4, QueueKept DEF IInv, Types, AskedTrue, SafeClose
  <2> QED
    BY <2>1, <2>2, <2>3, <2>4 DEF Next
<1> QED
  BY IInvInit, <1>1, PTL DEF Spec

\* At most one scan thread runs at a time, and it is the one the window can cancel and wait for,
\* whenever the runs, their ends and the window's closing happen.
THEOREM OneScanAtATime == Spec => []OneScan
<1>1. IInv => OneScan
  BY DEF IInv
<1> QED
  BY <1>1, InStepAlways, PTL

\* deleteLater and finished are queued together, and the window has let go of its worker when
\* Qt deletes it.
THEOREM WorkersAlive == Spec => []WorkerAlive
<1>1. IInv => WorkerAlive
  BY DEF IInv
<1> QED
  BY <1>1, InStepAlways, PTL

\* However it is closed, the window never closes over a running thread.
THEOREM ClosesSafely == Spec => []SafeClose
<1>1. IInv => SafeClose
  BY DEF IInv
<1> QED
  BY <1>1, InStepAlways, PTL

\* What the panels and the report show is kept in step with what the threads emit.
THEOREM ScreenInStep == Spec => []ShownInv
<1>1. ShownInv /\ IInv /\ [Next]_vars => ShownInv'
  BY ShownNext
<1> QED
  BY ShownInit, InStepAlways, <1>1, PTL DEF Spec

\* Whatever order the steps of a scan finish in, and however often the theme changes, the rows of
\* a panel are one scan's, in the order of the plan, each item once.
THEOREM RowsOrdered == Spec => []RowsInPlanOrder
<1>1. ShownInv => RowsInPlanOrder
  <2> SUFFICES ASSUME ShownInv, NEW p \in Panels, NEW i \in DOMAIN shown[p], NEW j \in DOMAIN shown[p], i < j
               PROVE  shown[p][i].order < shown[p][j].order /\ shown[p][i].run = shown[p][j].run
    BY DEF RowsInPlanOrder
  <2>1. shown[p] \in Seq(Row) /\ i \in 1..Len(shown[p]) /\ j \in 1..Len(shown[p])
    BY DEF ShownInv, RowsTrue
  <2> QED
    BY <2>1 DEF ShownInv, RowsTrue
<1> QED
  BY <1>1, ScreenInStep, PTL

\* The report that can be exported is what is on the screen: all of the latest run, and nothing
\* else.
THEOREM ReportOnScreen == Spec => []ReportMatchesRows
<1>1. IInv /\ ShownInv => ReportMatchesRows
  <2> SUFFICES ASSUME IInv, ShownInv, exportable PROVE ReportMatchesRows
    BY DEF ReportMatchesRows
  <2>1. /\ started # None /\ report.run = started /\ report.items = items[started]
        /\ \A i \in 1..Len(queue) : queue[i].kind \notin Panels
    BY DEF ShownInv, ReportTrue
  <2>2. \A order \in items[started] : IsShown(order)
    BY <2>1 DEF ShownInv, ItemsOnce, IsQueued
  <2> DEFINE rows  == UNION {ToSet(shown[p]) : p \in Panels}
             items0 == {[run |-> started, order |-> order] : order \in report.items}
  <2>3. ASSUME NEW p \in Panels, NEW i \in 1..Len(shown[p])
        PROVE  shown[p][i] = [run |-> started, order |-> shown[p][i].order] /\ shown[p][i].order \in items[started]
    <3>1. shown[p] \in Seq(Row) /\ shown[p][i] \in Row
      BY DEF ShownInv, RowsTrue
    <3>2. shown[p][i].run = started /\ shown[p][i].order \in items[started]
      BY DEF ShownInv, RowsTrue
    <3> QED
      BY <3>1, <3>2 DEF Row
  <2>4. ASSUME NEW p \in Panels PROVE ToSet(shown[p]) = {shown[p][i] : i \in 1..Len(shown[p])}
    BY DEF ToSet, ShownInv, RowsTrue
  <2>5. rows \subseteq items0
    <3> SUFFICES ASSUME NEW p \in Panels, NEW i \in 1..Len(shown[p]) PROVE shown[p][i] \in items0
      BY <2>4
    <3>1. shown[p][i] = [run |-> started, order |-> shown[p][i].order] /\ shown[p][i].order \in report.items
      BY <2>1, <2>3
    <3> QED
      BY <3>1
  <2>6. items0 \subseteq rows
    <3> SUFFICES ASSUME NEW order \in items[started]
                 PROVE  \E p \in Panels : [run |-> started, order |-> order] \in ToSet(shown[p])
      BY <2>1
    <3>1. PICK p \in Panels : \E i \in 1..Len(shown[p]) : shown[p][i].order = order
      BY <2>2 DEF IsShown
    <3>2. PICK i \in 1..Len(shown[p]) : shown[p][i].order = order
      BY <3>1
    <3>3. shown[p][i] = [run |-> started, order |-> order]
      BY <2>3, <3>2
    <3> QED
      BY <2>4, <3>3
  <2> QED
    BY <2>1, <2>5, <2>6 DEF ReportMatchesRows
<1> QED
  BY <1>1, ScreenInStep, InStepAlways, PTL

\* The bar is never left disabled: while it is, the run's thread is running or its one report is
\* queued, and the Cancel button either still works or has cancelled that run; that the thread and
\* the window get on with it is all BarComesBack needs besides.
THEOREM BarFounded == Spec => []BarTrue
<1>1. BarTrue /\ IInv /\ ShownInv /\ [Next]_vars => BarTrue'
  BY BarNext
<1> QED
  BY BarInit, InStepAlways, ScreenInStep, <1>1, PTL DEF Spec
=============================================================================
