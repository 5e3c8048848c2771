-------------------------------- MODULE Threads --------------------------------
(***************************************************************************)
(* The thread programs of notes/11-threads-code, lab10 and lab11.  Each    *)
(* has one global counter, one mutex (or none, in the broken one), and at  *)
(* most two condition variables:                                           *)
(*                                                                         *)
(*   busy, nested_if, triple_if, condvar, two_condvars                     *)
(*        odds_evens_*.c: threads that may add 1 to an even number only    *)
(*        and threads that may add 1 to an odd number only                 *)
(*   bump, watch                                                           *)
(*        condvar.c and pthreads_producer_consumer.c: two threads count,   *)
(*        a third waits for the count to reach a limit                     *)
(*   broken, mutex, nocontention                                           *)
(*        pthreads_picalc_*.c: threads that add up their hits              *)
(*                                                                         *)
(* Init chooses the program.  An increment of the counter is a load and a  *)
(* store.  A thread that waits for a condition variable may be woken for   *)
(* no reason; MaxSpurious bounds how often that happens.                   *)
(***************************************************************************)
EXTENDS Integers, FiniteSets

CONSTANTS Pairs,        \* NUM_THREADS of odds_evens.h: threads of each parity
          Workers,      \* num_threads of picalc
          Rounds,       \* THREAD_ITERS, TCOUNT, points_per_thread
          Limit,        \* COUNT_LIMIT
          MaxSpurious

ASSUME ThreadsAssumption ==
    /\ Pairs \in Nat \ {0} /\ Workers \in Nat \ {0}
    /\ Rounds \in Nat \ {0}
    /\ Limit \in 1..(2 * Rounds)
    /\ MaxSpurious \in Nat

VARIABLES
    program,
    created,      \* main: the threads it has created
    joined,       \* main: the threads it has joined
    at,           \* where each thread is
    i,            \* each thread's loop variable
    my_hits,      \* picalc_nocontention: each thread's hits so far
    reg,          \* what each thread has loaded
    count,        \* the global variable: count or total_hits
    lock,         \* the thread that has the mutex, or Free
    asleep,       \* the threads in pthread_cond_wait
    hits,         \* history: the hits of all threads
    bumps,        \* history: how often watch_count has added 125
    spurious      \* the wake-ups for no reason

main  == <<created, joined>>
sync  == <<lock, asleep, spurious>>
work  == <<i, my_hits, reg, count, hits, bumps>>
vars  == <<program, main, at, sync, work>>

-----------------------------------------------------------------------------
(* The programs *)

OddsEvens == {"busy", "nested_if", "triple_if", "condvar", "two_condvars"}
Watching  == {"bump", "watch"}
Picalc    == {"broken", "mutex", "nocontention"}
Busy      == {"busy", "nested_if", "triple_if"}
Program   == OddsEvens \cup Watching \cup Picalc

Thread == 0..((CASE program \in OddsEvens -> 2 * Pairs
                 [] program \in Watching  -> 3
                 [] program \in Picalc    -> Workers) - 1)

Free    == -1
Watcher == 0                              \* the thread that runs watch_count
IsWatcher(t) == program \in Watching /\ t = Watcher

\* even_work is run by the threads with an even number.
MyTurn(t) == count % 2 = t % 2

\* picalc_nocontention adds its hits once, and watch_count has no rounds.
Once(t) == program = "nocontention" \/ IsWatcher(t)

\* Where a round begins, and (Onward) where a thread goes after n of them.
Begin ==
    CASE program \in {"nested_if", "triple_if"} -> "peek"
      [] program \in Picalc                     -> "point"
      [] OTHER                                  -> "lock"

Onward(n) ==
    IF n < Rounds THEN Begin ELSE IF program = "nocontention" THEN "lock" ELSE "done"

\* With the mutex a thread looks at the count, or goes straight to change it.
Locked(t) == IF program \in OddsEvens \/ IsWatcher(t) THEN "check" ELSE "load"

TypeOK ==
    /\ program \in Program
    /\ created \in 0..Cardinality(Thread) /\ joined \in 0..created
    /\ at \in [Thread -> {"unborn", "peek", "recheck", "point", "lock", "relock", "check", "bump",
                          "load", "store", "signal", "unlock", "notify", "asleep", "done"}]
    /\ i \in [Thread -> 0..Rounds]
    /\ my_hits \in [Thread -> Nat] /\ reg \in [Thread -> Nat]
    /\ count \in Nat
    /\ lock \in Thread \cup {Free}
    /\ asleep \subseteq Thread
    /\ hits \in Nat /\ bumps \in Nat
    /\ spurious \in 0..MaxSpurious

Init ==
    /\ program \in Program
    /\ created = 0 /\ joined = 0
    /\ at = [t \in Thread |-> "unborn"]
    /\ i = [t \in Thread |-> 0]
    /\ my_hits = [t \in Thread |-> 0]
    /\ reg = [t \in Thread |-> 0]
    /\ count = 0
    /\ lock = Free
    /\ asleep = {}
    /\ hits = 0 /\ bumps = 0 /\ spurious = 0

-----------------------------------------------------------------------------
(* main *)

Create ==
    /\ created \in Thread
    /\ created' = created + 1
    /\ at' = [at EXCEPT ![created] = Begin]
    /\ UNCHANGED <<program, joined, sync, work>>

\* The threads are joined in the order in which they were created.
Join ==
    /\ created \notin Thread
    /\ joined \in Thread /\ at[joined] = "done"
    /\ joined' = joined + 1
    /\ UNCHANGED <<program, created, at, sync, work>>

-----------------------------------------------------------------------------
(* The mutex and the condition variables *)

Go(t, from, to) == at[t] = from /\ at' = [at EXCEPT ![t] = to] /\ UNCHANGED <<program, main>>

Take(t) == lock = Free /\ lock' = t /\ UNCHANGED <<asleep, spurious, work>>

\* Faulty: watch_count has `if', not `while', around its wait.
LockIf(t) ==
    \/ Go(t, "lock", Locked(t)) /\ Take(t)
    \/ Go(t, "relock", CASE program = "bump"  -> "bump"
                         [] program = "watch" -> "unlock"
                         [] OTHER             -> "check") /\ Take(t)

\* A thread that is woken has to take the mutex again.
Lock(t) ==
    \/ Go(t, "lock", Locked(t)) /\ Take(t)
    \/ Go(t, "relock", IF program = "bump" THEN "bump" ELSE "check") /\ Take(t)

Unlock(t) ==
    /\ Go(t, "unlock", IF program \in {"condvar", "two_condvars"} THEN "notify"
                       ELSE IF Once(t) THEN "done" ELSE Onward(i[t]))
    /\ lock' = Free
    /\ UNCHANGED <<asleep, spurious, work>>

\* pthread_cond_wait lets go of the mutex and waits in one step.
CondWait(t) ==
    /\ Go(t, "check", "asleep")
    /\ lock' = Free
    /\ asleep' = asleep \cup {t}
    /\ UNCHANGED <<spurious, work>>

\* Thread t goes on from `from' and wakes the threads in S.
Wake(t, S, from, to) ==
    /\ at[t] = from
    /\ at' = [u \in Thread |-> IF u \in S THEN "relock" ELSE IF u = t THEN to ELSE at[u]]
    /\ asleep' = asleep \ S
    /\ UNCHANGED <<program, main, lock, work>>

\* pthread_cond_signal: one of those that wait, if any does.
OneOf(S) == IF S = {} THEN {{}} ELSE {{u} : u \in S}

SpuriousWakeUp(t) ==
    /\ spurious < MaxSpurious
    /\ spurious' = spurious + 1
    /\ Wake(t, {t}, "asleep", "relock")

-----------------------------------------------------------------------------
(* odds_evens_*.c: even_work and odd_work *)

\* nested_if and triple_if look at the count without the mutex; a thread that
\* sees the wrong number looks again.
Peek(t) ==
    /\ \/ MyTurn(t) /\ Go(t, "peek", IF program = "triple_if" THEN "recheck" ELSE "lock")
       \/ Go(t, "recheck", IF MyTurn(t) THEN "lock" ELSE "peek")
    /\ UNCHANGED <<sync, work>>

\* Faulty: nested_if and triple_if rely on the look without the mutex.
CheckOnce(t) ==
    /\ program \in OddsEvens
    /\ \/ /\ MyTurn(t) \/ program \in {"nested_if", "triple_if"}
          /\ Go(t, "check", "load") /\ UNCHANGED <<sync, work>>
       \/ /\ ~MyTurn(t) /\ program = "busy"
          /\ Go(t, "check", "unlock") /\ UNCHANGED <<sync, work>>
       \/ ~MyTurn(t) /\ program \notin Busy /\ CondWait(t)

\* With the mutex: go ahead, let go and start again, or wait to be notified.
Check(t) ==
    /\ program \in OddsEvens
    /\ \/ MyTurn(t) /\ Go(t, "check", "load") /\ UNCHANGED <<sync, work>>
       \/ /\ ~MyTurn(t) /\ program \in Busy
          /\ Go(t, "check", "unlock") /\ UNCHANGED <<sync, work>>
       \/ ~MyTurn(t) /\ program \notin Busy /\ CondWait(t)

Load(t) ==
    /\ Go(t, "load", "store")
    /\ reg' = [reg EXCEPT ![t] = count]
    /\ UNCHANGED <<sync, i, my_hits, count, hits, bumps>>

\* What a thread does after it has stored x.
AfterStore(t, x) ==
    CASE program = "broken"                   -> Onward(i[t] + 1)
      [] program \in Watching /\ x = Limit    -> "signal"
      [] OTHER                                -> "unlock"

Store(t) ==
    /\ count' = reg[t] + (IF Once(t) THEN my_hits[t] ELSE 1)
    /\ Go(t, "store", AfterStore(t, count'))
    /\ i' = IF Once(t) THEN i ELSE [i EXCEPT ![t] = @ + 1]
    /\ UNCHANGED <<sync, my_hits, reg, hits, bumps>>

\* Faulty: pthread_cond_signal where all of the threads wait for one condition.
NotifyOne(t) ==
    /\ program \in {"condvar", "two_condvars"}
    /\ \E S \in OneOf(IF program = "condvar" THEN asleep ELSE {u \in asleep : u % 2 # t % 2}) :
           Wake(t, S, "notify", Onward(i[t]))
    /\ UNCHANGED spurious

\* Behind the unlock: everybody, or one thread of the other parity, is woken.
Notify(t) ==
    /\ \/ program = "condvar" /\ Wake(t, asleep, "notify", Onward(i[t]))
       \/ /\ program = "two_condvars"
          /\ \E S \in OneOf({u \in asleep : u % 2 # t % 2}) : Wake(t, S, "notify", Onward(i[t]))
    /\ UNCHANGED spurious

-----------------------------------------------------------------------------
(* condvar.c and pthreads_producer_consumer.c: watch_count; the two threads  *)
(* of inc_count lock, load, store, signal and unlock                         *)

\* The wait is skipped when the limit has been reached.
Watch(t) ==
    /\ IsWatcher(t)
    /\ \/ count < Limit /\ CondWait(t)
       \/ count >= Limit /\ Go(t, "check", "unlock") /\ UNCHANGED <<sync, work>>

\* condvar.c: each wake-up adds 125, the one for no reason, too.
Bump(t) ==
    /\ Go(t, "bump", "check")
    /\ count' = count + 125
    /\ bumps' = bumps + 1
    /\ UNCHANGED <<sync, i, my_hits, reg, hits>>

Signal(t) ==
    /\ \E S \in OneOf(asleep) : Wake(t, S, "signal", "unlock")
    /\ UNCHANGED spurious

-----------------------------------------------------------------------------
(* pthreads_picalc_*.c: compute_pi *)

\* A point outside the circle, and, in nocontention, one inside.
Point(t) ==
    /\ Go(t, "point", Onward(i[t] + 1))
    /\ i' = [i EXCEPT ![t] = @ + 1]
    /\ \/ UNCHANGED <<my_hits, hits>>
       \/ /\ program = "nocontention"
          /\ my_hits' = [my_hits EXCEPT ![t] = @ + 1]
          /\ hits' = hits + 1
    /\ UNCHANGED <<sync, reg, count, bumps>>

\* Faulty: a hit is added without the mutex.
HitUnlocked(t) ==
    /\ program # "nocontention"
    /\ Go(t, "point", "load")
    /\ hits' = hits + 1
    /\ UNCHANGED <<sync, i, my_hits, reg, count, bumps>>

Hit(t) ==
    /\ program # "nocontention"
    /\ Go(t, "point", IF program = "mutex" THEN "lock" ELSE "load")
    /\ hits' = hits + 1
    /\ UNCHANGED <<sync, i, my_hits, reg, count, bumps>>

-----------------------------------------------------------------------------

Main == Create \/ Join

Step(t) ==
    \/ Lock(t) \/ Unlock(t) \/ Peek(t) \/ Check(t) \/ Load(t) \/ Store(t) \/ Notify(t)
    \/ Watch(t) \/ Bump(t) \/ Signal(t) \/ Point(t) \/ Hit(t)

Next == Main \/ \E t \in Thread : Step(t) \/ SpuriousWakeUp(t)

Spec == Init /\ [][Next]_vars

\* A thread that can run does.  That is not enough for the programs of Busy: a
\* mutex that is free again and again may pass one thread by for ever.
FairSpec == Spec /\ WF_vars(Main) /\ \A t \in 0..(2 * Pairs + Workers + 2) : WF_vars(t \in Thread /\ Step(t))

-----------------------------------------------------------------------------
(* Properties *)

\* The heart of odds_evens: whoever is about to change the count still finds it
\* of its parity, so that odd and even threads take turns.
TurnsRespected ==
    program \in OddsEvens => \A t \in Thread : at[t] \in {"load", "store"} => MyTurn(t)

\* What main reports is the work that was done: no increment is lost, except
\* by picalc_broken, which can lose hits and not invent any.
AllJoined == joined \notin Thread

CountIsWork ==
    AllJoined =>
        CASE program \in OddsEvens -> count = 2 * Pairs * Rounds
          [] program \in Watching  -> count = 2 * Rounds + 125 * bumps
          [] program = "broken"    -> count <= hits
          [] OTHER                 -> count = hits

\* watch_count comes back only when the limit has been reached, woken for no
\* reason or not.
WatcherSawLimit == program \in Watching /\ at[Watcher] = "done" => count >= Limit

\* No wake-up is lost: the programs with condition variables, and those that only
\* lock, always end.  In condvar.c this is what the comment on COUNT_LIMIT is about.
AllFinish == <>(AllJoined \/ program \in Busy)

=============================================================================
