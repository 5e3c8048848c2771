---------------------------- MODULE Philosophers ----------------------------
(***************************************************************************)
(* The dining philosophers with semaphores: lab10's philosophers_ipc.c and *)
(* philosophers_pthread.c (whose mutexes work as semaphores of 1), and     *)
(* philosophers_a.c and philosophers.c of notes/10-ipc-code.  In the last  *)
(* nobody starts to eat before everybody has checked in at the table.      *)
(*                                                                         *)
(* A philosopher takes a utensil with semop(-1), which blocks at 0, and    *)
(* gives it back with semop(+1).  A semop on a semaphore that has been     *)
(* removed fails, which no philosopher looks at.  The model starts when    *)
(* the semaphores are made.  MaxFailures forks or thread creations may     *)
(* fail: main takes the -1 of a fork for a pid, and waits for any child    *)
(* with it; philosophers_pthread.c exits, and takes its threads with it.   *)
(***************************************************************************)
EXTENDS Integers, FiniteSets

CONSTANTS N,        \* N_PHILOSOPHERS
          Meals,    \* MEALS_TO_FINISH
          MaxFailures

ASSUME PhilosophersAssumption ==
    N \in Nat /\ N >= 2 /\ Meals \in Nat \ {0} /\ MaxFailures \in Nat

VARIABLES
    program,        \* which of them runs: "barrier" has the semaphore not_at_table
    at,             \* what each philosopher is doing
    meals,          \* the meals each has had
    utensils,       \* the value of each utensil's semaphore
    not_at_table,   \* the value of that semaphore
    forked,         \* main: the philosophers it has forked, or tried to
    failed,         \* those of them that were not made
    waited,         \* main: how often it has waited
    reaped,         \* the children that waitpid has reported
    removed         \* main: whether the semaphores are removed

semaphores == <<utensils, not_at_table>>
main       == <<forked, failed, waited, reaped, removed>>
vars       == <<program, at, meals, semaphores, main>>

Phil == 0..(N - 1)

\* Faulty: everybody goes for the utensil of the same number first.
firstOwn(n) == n

\* The two utensils of philosopher n, in the order in which they are taken.
first(n)  == IF n # N - 1 THEN n ELSE 0
second(n) == IF n # N - 1 THEN n + 1 ELSE n

TypeOK ==
    /\ program \in {"ipc", "barrier", "pthread"}
    /\ at \in [Phil -> {"unborn", "arriving", "seated", "thinking", "one", "eating", "half", "gone"}]
    /\ meals \in [Phil -> 0..Meals]
    /\ utensils \in [Phil -> 0..1]
    /\ not_at_table \in 0..N
    /\ forked \in 0..N /\ waited \in 0..N
    /\ failed \subseteq Phil /\ reaped \subseteq Phil
    /\ removed \in BOOLEAN

Init ==
    /\ program \in {"ipc", "barrier", "pthread"}
    /\ at = [n \in Phil |-> "unborn"]
    /\ meals = [n \in Phil |-> 0]
    /\ utensils = [u \in Phil |-> 1]
    /\ not_at_table = N
    /\ forked = 0 /\ failed = {}
    /\ waited = 0 /\ reaped = {}
    /\ removed = FALSE

-----------------------------------------------------------------------------
(* main *)

Fork ==
    /\ forked < N
    /\ forked' = forked + 1
    /\ at' = [at EXCEPT ![forked] = IF program = "barrier" THEN "arriving" ELSE "thinking"]
    /\ UNCHANGED <<program, meals, semaphores, failed, waited, reaped, removed>>

\* fork returns -1, which becomes phil[i].
ForkFails ==
    /\ program # "pthread"
    /\ forked < N /\ Cardinality(failed) < MaxFailures
    /\ forked' = forked + 1
    /\ failed' = failed \cup {forked}
    /\ UNCHANGED <<program, at, meals, semaphores, waited, reaped, removed>>

\* pthread_create fails: exit(1) ends all threads, wherever they are.
CreateFails ==
    /\ program = "pthread"
    /\ forked < N /\ Cardinality(failed) < MaxFailures
    /\ forked' = N
    /\ failed' = forked..(N - 1)
    /\ at' = [n \in Phil |-> IF n < forked THEN "gone" ELSE "unborn"]
    /\ waited' = N
    /\ removed' = TRUE
    /\ UNCHANGED <<program, meals, semaphores, reaped>>

\* Faulty: with the -1 of a failed fork main does not wait for a child that ends,
\* but takes any pid for one that has ended.
WaitNot ==
    /\ forked = N /\ waited < N
    /\ at[waited] = "gone" \/ failed # {}
    /\ waited' = waited + 1
    /\ UNCHANGED <<program, at, meals, semaphores, forked, failed, reaped, removed>>

\* waitpid(phil[i]): for a pid until that child has ended, even if it has been
\* reported before; for -1 until any child has ended, if one is left to report.
Wait ==
    /\ forked = N /\ waited < N
    /\ IF waited \in failed
       THEN \/ \E n \in Phil \ (failed \cup reaped) :
                at[n] = "gone" /\ reaped' = reaped \cup {n}
            \/ Phil \subseteq failed \cup reaped /\ UNCHANGED reaped
       ELSE at[waited] = "gone" /\ reaped' = reaped \cup {waited}
    /\ waited' = waited + 1
    /\ UNCHANGED <<program, at, meals, semaphores, forked, failed, removed>>

Remove ==
    /\ waited = N /\ ~removed
    /\ removed' = TRUE
    /\ UNCHANGED <<program, at, meals, semaphores, forked, failed, waited, reaped>>

-----------------------------------------------------------------------------
(* philosopher *)

\* semop(utensil, -1) and semop(utensil, +1)
CanTake(u) == removed \/ utensils[u] > 0
Take(u) == IF removed THEN UNCHANGED utensils ELSE utensils' = [utensils EXCEPT ![u] = @ - 1]
Give(u) == IF removed THEN UNCHANGED utensils ELSE utensils' = [utensils EXCEPT ![u] = @ + 1]

Step(n, from, to) ==
    /\ at[n] = from
    /\ at' = [at EXCEPT ![n] = to]
    /\ UNCHANGED <<program, main>>

CheckIn(n) ==
    /\ Step(n, "arriving", "seated")
    /\ not_at_table' = not_at_table - 1
    /\ UNCHANGED <<meals, utensils>>

\* Faulty: the semaphore is taken once more instead of waited for to be 0.
BeginDinnerAlone(n) ==
    /\ not_at_table > 0
    /\ Step(n, "seated", "thinking")
    /\ not_at_table' = not_at_table - 1
    /\ UNCHANGED <<meals, utensils>>

\* semop(not_at_table, 0) waits for the value 0.
BeginDinner(n) ==
    /\ not_at_table = 0
    /\ Step(n, "seated", "thinking")
    /\ UNCHANGED <<meals, semaphores>>

TakeFirst(n) ==
    /\ CanTake(first(n))
    /\ Step(n, "thinking", "one")
    /\ Take(first(n))
    /\ UNCHANGED <<meals, not_at_table>>

TakeSecond(n) ==
    /\ CanTake(second(n))
    /\ Step(n, "one", "eating")
    /\ Take(second(n))
    /\ UNCHANGED <<meals, not_at_table>>

GiveFirst(n) ==
    /\ Step(n, "eating", "half")
    /\ Give(first(n))
    /\ UNCHANGED <<meals, not_at_table>>

\* Faulty: the first utensil is given back twice, the second never.
GiveFirstAgain(n) ==
    /\ Step(n, "half", IF meals[n] + 1 < Meals THEN "thinking" ELSE "gone")
    /\ Give(first(n))
    /\ meals' = [meals EXCEPT ![n] = @ + 1]
    /\ UNCHANGED not_at_table

GiveSecond(n) ==
    /\ Step(n, "half", IF meals[n] + 1 < Meals THEN "thinking" ELSE "gone")
    /\ Give(second(n))
    /\ meals' = [meals EXCEPT ![n] = @ + 1]
    /\ UNCHANGED not_at_table

-----------------------------------------------------------------------------

Main == Fork \/ ForkFails \/ CreateFails \/ Wait \/ Remove

philosopher(n) ==
    \/ CheckIn(n) \/ BeginDinner(n)
    \/ TakeFirst(n) \/ TakeSecond(n) \/ GiveFirst(n) \/ GiveSecond(n)

Next == Main \/ \E n \in Phil : philosopher(n)

Spec == Init /\ [][Next]_vars

\* The kernel runs every process that can run.  A philosopher has a bounded
\* number of meals, so that nothing more is asked of the semaphores' queues.
FairSpec == Spec /\ WF_vars(Main) /\ \A n \in Phil : WF_vars(philosopher(n))

-----------------------------------------------------------------------------
(* Properties *)

Eating(n) == at[n] \in {"eating"}

\* Neighbours do not eat at the same time: a utensil that two of them use is
\* in one hand, until the last philosopher has left and the semaphores go.
Exclusion ==
    \A m, n \in Phil :
        m # n /\ {first(m), second(m)} \cap {first(n), second(n)} # {} => ~(Eating(m) /\ Eating(n))

\* Taking the utensils in ascending order means that there is always somebody
\* who can go on: the "slightly different order" of the last philosopher.
Ready(n) ==
    \/ at[n] \in {"arriving", "eating", "half"}
    \/ at[n] = "seated" /\ not_at_table = 0
    \/ at[n] = "thinking" /\ CanTake(first(n))
    \/ at[n] = "one" /\ CanTake(second(n))

\* With the barrier a failed fork leaves nobody who can, for ever.
SomebodyCanGoOn ==
    /\ forked = N
    /\ program = "barrier" => failed = {}
    /\ \E n \in Phil \ failed : at[n] # "gone"
    => \E n \in Phil : Ready(n)

\* With the barrier nobody touches a utensil before everybody is at the table;
\* if a fork has failed, nobody ever does.
DinnerStartsTogether ==
    program = "barrier" /\ (\E n \in Phil : at[n] \in {"thinking", "one", "eating", "half", "gone"}) =>
        failed = {} /\ \A n \in Phil : at[n] \notin {"unborn", "arriving"}

\* All who have been forked have all the meals and leave, and main cleans up after
\* them, even if forks have failed.
EverybodyLeaves ==
    [](failed = {} \/ program = "ipc") =>
        <>(removed /\ \A n \in Phil \ failed : at[n] = "gone" /\ meals[n] = Meals)

=============================================================================
