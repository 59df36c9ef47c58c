----------------------------- MODULE CancelToken -----------------------------
(***************************************************************************)
(* The one-way cancellation flag (netdiag/utils/execution.py) and its      *)
(* callbacks.  What runs under the token's lock is one action; callbacks   *)
(* run outside it, so registrations, removals and other cancel calls come  *)
(* in between.                                                             *)
(***************************************************************************)
EXTENDS Naturals

CONSTANTS Callbacks,   \* each registered by a caller of its own
          Cancellers,  \* the threads that call cancel()
          Failing      \* the callbacks that raise an Exception

ASSUME FailingAssumption == Failing \subseteq Callbacks

VARIABLES flag,      \* _event
          listed,    \* _callbacks
          taken,     \* the list each canceller took from the token, still to be run
          client,    \* how far each callback's caller is
          runs       \* how often each callback has run

vars == <<flag, listed, taken, client, runs>>

Init ==
    /\ flag = FALSE /\ listed = {}
    /\ taken = [c \in Cancellers |-> {}]
    /\ client = [b \in Callbacks |-> "new"]
    /\ runs = [b \in Callbacks |-> 0]

AlreadyCancelled == flag
IgnoreFlag == FALSE                                                   \* mutant

\* cancel(): only the first caller takes the callbacks.
Cancel(c) ==
    /\ ~AlreadyCancelled
    /\ flag' = TRUE
    /\ taken' = [taken EXCEPT ![c] = listed]
    /\ listed' = {}
    /\ UNCHANGED <<client, runs>>

StopAtFailure(left, b) == IF b \in Failing THEN {} ELSE left \ {b}    \* mutant

\* One failing does not keep the others from running.
LeftAfter(left, b) == left \ {b}

RunTaken(c, b) ==
    /\ b \in taken[c]
    /\ runs' = [runs EXCEPT ![b] = @ + 1]
    /\ taken' = [taken EXCEPT ![c] = LeftAfter(@, b)]
    /\ UNCHANGED <<flag, listed, client>>

ListAnyway(b) ==                                                      \* mutant
    /\ client[b] = "new"
    /\ client' = [client EXCEPT ![b] = "listed"] /\ listed' = listed \cup {b}
    /\ UNCHANGED <<flag, taken, runs>>

\* add_callback(): listed, or to be run by the caller itself if already cancelled.
Add(b) ==
    /\ client[b] = "new"
    /\ client' = [client EXCEPT ![b] = IF flag THEN "calling" ELSE "listed"]
    /\ listed' = IF flag THEN listed ELSE listed \cup {b}
    /\ UNCHANGED <<flag, taken, runs>>

RunAtOnce(b) ==
    /\ client[b] = "calling"
    /\ client' = [client EXCEPT ![b] = "called"]
    /\ runs' = [runs EXCEPT ![b] = @ + 1]
    /\ UNCHANGED <<flag, listed, taken>>

KeepListed(b) == listed                                               \* mutant

Unlisted(b) == listed \ {b}

\* remove(), the function add_callback returned; it may come too late.
Remove(b) ==
    /\ client[b] = "listed"
    /\ client' = [client EXCEPT ![b] = IF b \in listed THEN "removed" ELSE "too_late"]
    /\ listed' = Unlisted(b)
    /\ UNCHANGED <<flag, taken, runs>>

Next ==
    \/ \E c \in Cancellers : Cancel(c) \/ \E b \in Callbacks : RunTaken(c, b)
    \/ \E b \in Callbacks : Add(b) \/ RunAtOnce(b) \/ Remove(b)

Spec == Init /\ [][Next]_vars

\* A thread in cancel() or add_callback() gets on with it; nobody has to cancel.
FairSpec ==
    /\ Spec
    /\ \A b \in Callbacks : /\ WF_vars(RunAtOnce(b))
                            /\ \A c \in Cancellers : WF_vars(RunTaken(c, b))

-----------------------------------------------------------------------------

TypeOK ==
    /\ flag \in BOOLEAN /\ listed \subseteq Callbacks
    /\ taken \in [Cancellers -> SUBSET Callbacks]
    /\ client \in [Callbacks -> {"new", "listed", "calling", "called", "removed", "too_late"}]
    /\ runs \in [Callbacks -> Nat]

\* A callback runs at most once, however many threads cancel and whenever it was added, and
\* never after a removal that came before the cancellation.
RunsAtMostOnce ==
    \A b \in Callbacks : /\ runs[b] <= 1
                         /\ client[b] \in {"new", "removed"} \/ ~flag => runs[b] = 0

\* Where a callback that has not run yet is waiting, so that it cannot run twice.
Whereabouts ==
    \A b \in Callbacks :
        /\ runs[b] + (IF b \in listed THEN 1 ELSE 0) <= 1
        /\ b \in listed => ~flag /\ client[b] = "listed"
        /\ client[b] \in {"new", "calling", "removed"} =>
              runs[b] = 0 /\ b \notin listed
        /\ \A c \in Cancellers : b \in taken[c] =>
              /\ flag /\ runs[b] = 0 /\ b \notin listed /\ client[b] \in {"listed", "too_late"}
              /\ \A d \in Cancellers \ {c} : b \notin taken[d]
        /\ client[b] \in {"calling", "called", "too_late"} => flag
        /\ client[b] = "listed" /\ b \notin listed => flag

\* Behind NoneLost: once the token is cancelled, a callback that was not removed in time has run
\* or is in the hands of a thread that is about to run it.
NoneForgotten ==
    \A b \in Callbacks :
        client[b] \notin {"new", "removed"} =>
            IF flag THEN \/ runs[b] = 1
                         \/ client[b] = "calling"
                         \/ \E c \in Cancellers : b \in taken[c]
                    ELSE b \in listed

\* The inductive invariant.
IInv == TypeOK /\ Whereabouts /\ NoneForgotten

\* No callback is lost: added before or after, once the token is cancelled it runs, unless
\* it was removed in time.
NoneLost ==
    \A b \in Callbacks :
        flag /\ client[b] \notin {"new", "removed"} ~> runs[b] = 1
=============================================================================
