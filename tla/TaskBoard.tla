----------------------------- MODULE TaskBoard -----------------------------
(* What the daemon's task queue promises its clients, with no processes, file, *)
(* memory or faults: tasks run one at a time, a task ends with one verdict and *)
(* only out of a run of its own, and one that has ended is not run again. It   *)
(* holds until the board is spoilt. TaskQueue implements it.                   *)
EXTENDS Naturals

CONSTANTS Tasks, Verdicts

VARIABLES
    taken,      \* tasks that were accepted
    active,     \* the task that is being run, as a set
    started,    \* times each task was started
    told,       \* the verdict each task was given, or "none"
    spoilt      \* the promise is off

board == <<taken, active, started, told, spoilt>>

BoardInit ==
    /\ taken = {} /\ active = {}
    /\ started = [t \in Tasks |-> 0]
    /\ told = [t \in Tasks |-> "none"]
    /\ spoilt = FALSE

Take(t) ==
    /\ t \notin taken /\ started[t] = 0 /\ told[t] = "none"
    /\ taken' = taken \cup {t}
    /\ UNCHANGED <<active, started, told>>

Begin(t) ==
    /\ active = {} /\ told[t] = "none"
    /\ active' = {t}
    /\ started' = [started EXCEPT ![t] = @ + 1]
    /\ UNCHANGED <<taken, told>>

\* The run is cut short; the task may be started again.
Interrupt ==
    /\ active' = {}
    /\ UNCHANGED <<taken, started, told>>

End(t, v) ==
    /\ active = {t} /\ told[t] = "none"
    /\ active' = {}
    /\ told' = [told EXCEPT ![t] = v]
    /\ UNCHANGED <<taken, started>>

Spoil == spoilt' = TRUE

Kept ==
    /\ ~spoilt /\ ~spoilt'
    /\ \/ \E t \in Tasks : Take(t) \/ Begin(t) \/ \E v \in Verdicts : End(t, v)
       \/ Interrupt

BoardNext == Kept \/ Spoil

BoardSpec == BoardInit /\ [][BoardNext]_board
=============================================================================
