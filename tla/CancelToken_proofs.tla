-------------------------- MODULE CancelToken_proofs --------------------------
(***************************************************************************)
(* RunsAtMostOnce and NoneForgotten, for any callbacks and any cancelling  *)
(* threads.                                                                *)
(***************************************************************************)
EXTENDS CancelToken, TLAPS

\* Types are kept.
LEMMA TypeNext == TypeOK /\ [Next]_vars => TypeOK'
<1> SUFFICES ASSUME TypeOK, [Next]_vars PROVE TypeOK'
  OBVIOUS
<1> USE DEF TypeOK
<1>1. ASSUME NEW c \in Cancellers, Cancel(c) PROVE TypeOK'
  BY <1>1 DEF Cancel
<1>2. ASSUME NEW c \in Cancellers, NEW b \in Callbacks, RunTaken(c, b) PROVE TypeOK'
  BY <1>2 DEF RunTaken, LeftAfter
<1>3. ASSUME NEW b \in Callbacks, Add(b) PROVE TypeOK'
  BY <1>3 DEF Add
<1>4. ASSUME NEW b \in Callbacks, RunAtOnce(b) PROVE TypeOK'
  BY <1>4 DEF RunAtOnce
<1>5. ASSUME NEW b \in Callbacks, Remove(b) PROVE TypeOK'
  BY <1>5 DEF Remove, Unlisted
<1>6. CASE UNCHANGED vars
  BY <1>6 DEF vars
<1>. QED
  BY <1>1, <1>2, <1>3, <1>4, <1>5, <1>6 DEF Next

\* Every step keeps each waiting callback in one place.
LEMMA WhereaboutsNext == TypeOK /\ Whereabouts /\ [Next]_vars => Whereabouts'
<1> SUFFICES ASSUME TypeOK, Whereabouts, [Next]_vars, NEW b \in Callbacks
             PROVE  Whereabouts!(b)'
  BY DEF Whereabouts
<1> USE DEF TypeOK, Whereabouts
<1>1. ASSUME NEW c \in Cancellers, Cancel(c) PROVE Whereabouts!(b)'
  BY <1>1 DEF Cancel, AlreadyCancelled
<1>2. ASSUME NEW c \in Cancellers, NEW a \in Callbacks, RunTaken(c, a) PROVE Whereabouts!(b)'
  BY <1>2 DEF RunTaken, LeftAfter
<1>3. ASSUME NEW a \in Callbacks, Add(a) PROVE Whereabouts!(b)'
  BY <1>3 DEF Add
<1>4. ASSUME NEW a \in Callbacks, RunAtOnce(a) PROVE Whereabouts!(b)'
  BY <1>4 DEF RunAtOnce
<1>5. ASSUME NEW a \in Callbacks, Remove(a) PROVE Whereabouts!(b)'
  BY <1>5 DEF Remove, Unlisted
<1>6. CASE UNCHANGED vars
  BY <1>6 DEF vars
<1>. QED
  BY <1>1, <1>2, <1>3, <1>4, <1>5, <1>6 DEF Next

\* Every step keeps each callback that is due in the hands of some thread.
LEMMA NoneForgottenNext == TypeOK /\ Whereabouts /\ NoneForgotten /\ [Next]_vars => NoneForgotten'
<1> SUFFICES ASSUME TypeOK, Whereabouts, NoneForgotten, [Next]_vars, NEW b \in Callbacks
             PROVE  NoneForgotten!(b)'
  BY DEF NoneForgotten
<1> USE DEF TypeOK, Whereabouts, NoneForgotten
<1>1. ASSUME NEW c \in Cancellers, Cancel(c) PROVE NoneForgotten!(b)'
  BY <1>1 DEF Cancel, AlreadyCancelled
<1>2. ASSUME NEW c \in Cancellers, NEW a \in Callbacks, RunTaken(c, a) PROVE NoneForgotten!(b)'
  <2>1. CASE a = b
    BY <1>2, <2>1 DEF RunTaken, LeftAfter
  <2>2. CASE a # b
    <3>1. ASSUME NEW d \in Cancellers, b \in taken[d] PROVE b \in taken'[d]
      BY <1>2, <2>2, <3>1 DEF RunTaken, LeftAfter
    <3>. QED
      BY <1>2, <2>2, <3>1 DEF RunTaken
  <2>. QED
    BY <2>1, <2>2
<1>3. ASSUME NEW a \in Callbacks, Add(a) PROVE NoneForgotten!(b)'
  BY <1>3 DEF Add
<1>4. ASSUME NEW a \in Callbacks, RunAtOnce(a) PROVE NoneForgotten!(b)'
  BY <1>4 DEF RunAtOnce
<1>5. ASSUME NEW a \in Callbacks, Remove(a) PROVE NoneForgotten!(b)'
  BY <1>5 DEF Remove, Unlisted
<1>6. CASE UNCHANGED vars
  BY <1>6 DEF vars
<1>. QED
  BY <1>1, <1>2, <1>3, <1>4, <1>5, <1>6 DEF Next

\* The initial states satisfy the inductive invariant.
LEMMA InitIInv == Init => IInv
<1> SUFFICES ASSUME Init PROVE IInv
  OBVIOUS
<1>1. TypeOK
  BY DEF Init, TypeOK
<1>2. ASSUME NEW b \in Callbacks PROVE Whereabouts!(b)
  BY <1>2 DEF Init
<1>3. NoneForgotten
  BY DEF Init, NoneForgotten
<1>. QED
  BY <1>1, <1>2, <1>3 DEF IInv, Whereabouts

\* Every step keeps the inductive invariant.
LEMMA NextIInv == IInv /\ [Next]_vars => IInv'
BY TypeNext, WhereaboutsNext, NoneForgottenNext DEF IInv

\* A callback runs at most once, and not after it was removed before the cancellation.
THEOREM CallbacksRunAtMostOnce == Spec => []RunsAtMostOnce
<1>1. IInv => RunsAtMostOnce
  <2> SUFFICES ASSUME IInv, NEW b \in Callbacks PROVE RunsAtMostOnce!(b)
    BY DEF RunsAtMostOnce
  <2>. QED
    BY DEF IInv, TypeOK, Whereabouts
<1>. QED
  BY <1>1, InitIInv, NextIInv, PTL DEF Spec

\* A cancellation drops no callback: added before it or after it, a callback that was not removed
\* in time has run, or is in the hands of the thread that is about to run it; that a thread in
\* cancel() or add_callback() gets on with it is all NoneLost needs besides.
THEOREM CallbacksKept == Spec => []NoneForgotten
<1>1. IInv => NoneForgotten
  BY DEF IInv
<1>. QED
  BY <1>1, InitIInv, NextIInv, PTL DEF Spec
=============================================================================
