---------------------------- MODULE ThreadsProofs ----------------------------
(***************************************************************************)
(* For any number of threads, rounds and spurious wake-ups: the mutex      *)
(* excludes, odd and even threads take turns, watch_count comes back only  *)
(* when the limit has been reached, and no increment is lost, except by    *)
(* picalc_broken.                                                          *)
(***************************************************************************)
EXTENDS Threads, FiniteSetTheorems, TLAPS

-----------------------------------------------------------------------------
(* The programs *)

\* Every program has at least one thread, and they are numbered from 0.
LEMMA ThreadRange ==
    ASSUME program \in Program
    PROVE  \E n \in Nat \ {0} : Thread = 0..(n - 1)
<1>1. CASE program \in OddsEvens
  <2>1. Thread = 0..(2 * Pairs - 1) /\ 2 * Pairs \in Nat \ {0}
    BY <1>1, ThreadsAssumption DEF Thread, OddsEvens, Watching, Picalc
  <2> QED
    BY <2>1
<1>2. CASE program \in Watching
  <2>1. Thread = 0..(3 - 1) /\ 3 \in Nat \ {0}
    BY <1>2 DEF Thread, OddsEvens, Watching, Picalc
  <2> QED
    BY <2>1
<1>3. CASE program \in Picalc
  <2>1. Thread = 0..(Workers - 1) /\ Workers \in Nat \ {0}
    BY <1>3, ThreadsAssumption DEF Thread, OddsEvens, Watching, Picalc
  <2> QED
    BY <2>1
<1> QED
  BY <1>1, <1>2, <1>3 DEF Program

\* A round begins with a look, with the mutex or, in picalc, with a point.
LEMMA BeginPlace ==
    /\ Begin \in {"peek", "point", "lock"}
    /\ Begin = "point" => program \in Picalc
BY DEF Begin

\* A thread that has done n rounds starts another one only if there is one left.
LEMMA OnwardPlace ==
    ASSUME NEW n
    PROVE  /\ Onward(n) \in {"peek", "point", "lock", "done"}
           /\ Onward(n) \in {"peek", "point"} => n < Rounds
           /\ Onward(n) = "lock" => n < Rounds \/ program = "nocontention"
           /\ Onward(n) = "point" => program \in Picalc
BY BeginPlace DEF Onward

-----------------------------------------------------------------------------
(* The invariant *)

Place == {"unborn", "peek", "recheck", "point", "lock", "relock", "check", "bump",
          "load", "store", "signal", "unlock", "notify", "asleep", "done"}

ShapeInv ==
    /\ program \in Program
    /\ at \in [Thread -> Place]
    /\ i \in [Thread -> 0..Rounds]
    /\ my_hits \in [Thread -> Nat] /\ reg \in [Thread -> Nat]
    /\ count \in Nat
    /\ lock \in Thread \cup {Free}
    /\ asleep = {t \in Thread : at[t] = "asleep"}
    /\ hits \in Nat /\ bumps \in Nat
    /\ spurious \in 0..MaxSpurious

\* The threads from created on do not exist yet, and main joins last.
MainInv ==
    /\ created \in Nat /\ joined \in Nat
    /\ \A t \in Nat : t < created => t \in Thread
    /\ joined > 0 => created \notin Thread
    /\ \A t \in Nat : t < joined => t \in Thread
    /\ \A t \in Thread : t >= created => at[t] = "unborn"

\* Whoever has a round before it has not done all of them, and only the threads
\* of picalc throw points.
RoundsInv ==
    \A t \in Thread :
        /\ at[t] = "point" => program \in Picalc
        /\ at[t] \in {"unborn", "peek", "recheck", "point"} => i[t] < Rounds
        /\ at[t] \in {"lock", "relock", "check", "bump", "load", "store", "asleep"} /\ ~Once(t) => i[t] < Rounds

\* Between lock and unlock a thread has the mutex.
Inside == {"check", "bump", "load", "store", "signal", "unlock"}

LockInv ==
    program # "broken" => \A t \in Thread : at[t] \in Inside => lock = t

\* What a thread has loaded is the count until it has stored its own.
RegInv ==
    program # "broken" => \A t \in Thread : at[t] = "store" => reg[t] = count

\* watch_count is somewhere between its lock and its end, and leaves its loop
\* only when the limit has been reached.
WatchInv ==
    \A t \in Thread : IsWatcher(t) =>
        /\ at[t] \in {"unborn", "lock", "relock", "check", "asleep", "bump", "unlock", "done"}
        /\ at[t] \in {"unlock", "done"} => count >= Limit

IInv == ShapeInv /\ MainInv /\ RoundsInv /\ LockInv /\ RegInv /\ WatchInv /\ TurnsRespected

USE ThreadsAssumption

LEMMA InitInv == Init => IInv
<1> SUFFICES ASSUME Init PROVE IInv
  OBVIOUS
<1>1. ShapeInv
  BY DEF Init, ShapeInv, Place
<1>2. MainInv
  BY ThreadRange DEF Init, MainInv
<1> QED
  BY <1>1, <1>2 DEF Init, IInv, RoundsInv, LockInv, RegInv, WatchInv, TurnsRespected, Inside

-----------------------------------------------------------------------------
(* Every step preserves the invariant *)

\* The operators that only depend on the program keep their values.
LEMMA SameProgram ==
    ASSUME program' = program
    PROVE  /\ Thread' = Thread
           /\ \A t : Once(t)' = Once(t) /\ IsWatcher(t)' = IsWatcher(t)
           /\ Begin' = Begin
BY DEF Thread, Once, IsWatcher, Begin, OddsEvens, Watching, Picalc

LEMMA NotFree == ASSUME program \in Program, NEW t \in Thread PROVE t # Free /\ t \in Nat
BY ThreadRange DEF Free

LEMMA CreateKeeps == ASSUME IInv, Create PROVE IInv'
<1>1. program' = program /\ created \in Thread /\ at[created] = "unborn"
  BY NotFree DEF Create, IInv, MainInv, ShapeInv
<1>2. Thread' = Thread /\ \A t : Once(t)' = Once(t) /\ IsWatcher(t)' = IsWatcher(t)
  BY <1>1, SameProgram
<1>3. /\ at' = [at EXCEPT ![created] = Begin] /\ Begin \in {"peek", "point", "lock"}
      /\ Begin = "point" => program \in Picalc
  BY BeginPlace DEF Create
<1>4. ShapeInv'
  BY <1>1, <1>2, <1>3 DEF Create, IInv, ShapeInv, sync, work, Place
<1>5. MainInv'
  <2>1. created' = created + 1 /\ created \in Nat /\ joined' = joined /\ joined = 0
    BY <1>1, NotFree DEF Create, IInv, MainInv, ShapeInv
  <2>2. \A t \in Thread : t \in Nat
    BY NotFree DEF IInv, ShapeInv
  <2> QED
    BY <1>1, <1>2, <1>3, <2>1, <2>2 DEF IInv, MainInv, ShapeInv
<1>6. RoundsInv' /\ LockInv' /\ RegInv'
  BY <1>1, <1>2, <1>3 DEF Create, IInv, ShapeInv, RoundsInv, LockInv, RegInv, Inside, sync, work
<1>7. WatchInv'
  <2>1. \A t : IsWatcher(t) => Begin = "lock"
    BY DEF IsWatcher, Begin, Watching, Picalc
  <2> QED
    BY <1>1, <1>2, <1>3, <2>1 DEF Create, IInv, ShapeInv, WatchInv, work
<1>8. TurnsRespected'
  BY <1>1, <1>2, <1>3 DEF Create, IInv, ShapeInv, TurnsRespected, MyTurn, work
<1> QED
  BY <1>4, <1>5, <1>6, <1>7, <1>8 DEF IInv

LEMMA JoinKeeps == ASSUME IInv, Join PROVE IInv'
<1>1. program' = program
  BY DEF Join
<1>2. Thread' = Thread /\ \A t : Once(t)' = Once(t) /\ IsWatcher(t)' = IsWatcher(t)
  BY <1>1, SameProgram
<1>3. MainInv'
  BY <1>1, <1>2, NotFree DEF Join, IInv, MainInv, ShapeInv
<1> QED
  BY <1>1, <1>2, <1>3 DEF Join, IInv, ShapeInv, RoundsInv, LockInv, RegInv, WatchInv, TurnsRespected,
     MyTurn, sync, work

\* A thread that exists stays one of those that main has created.
LEMMA MainKept ==
    ASSUME IInv, program' = program, UNCHANGED main, NEW t \in Thread, at[t] # "unborn",
           \A u \in Thread : u # t /\ at[u] # "asleep" => at'[u] = at[u]
    PROVE  MainInv'
<1>1. Thread' = Thread
  BY SameProgram
<1> QED
  BY <1>1 DEF IInv, MainInv, ShapeInv, main

LEMMA LockKeeps == ASSUME IInv, NEW t \in Thread, Lock(t) PROVE IInv'
<1>1. program' = program /\ Thread' = Thread /\ \A u : Once(u)' = Once(u) /\ IsWatcher(u)' = IsWatcher(u)
  BY SameProgram DEF Lock, Go
<1>2. /\ at[t] \in {"lock", "relock"} /\ lock = Free /\ lock' = t
      /\ UNCHANGED <<program, main, asleep, spurious, work>>
  BY DEF Lock, Go, Take
<1>3. PICK p \in {"check", "load", "bump"} :
          /\ at' = [at EXCEPT ![t] = p]
          /\ p = "load" => program \notin OddsEvens /\ ~IsWatcher(t)
          /\ p = "bump" => program = "bump"
  BY DEF Lock, Go, Locked
<1>4. ShapeInv'
  BY <1>1, <1>2, <1>3 DEF IInv, ShapeInv, Place, work
<1>5. MainInv'
  BY <1>2, <1>3, MainKept DEF IInv, ShapeInv
<1>6. RoundsInv'
  BY <1>1, <1>2, <1>3 DEF IInv, ShapeInv, RoundsInv, work
<1>7. LockInv' /\ RegInv'
  BY <1>1, <1>2, <1>3, NotFree DEF IInv, ShapeInv, LockInv, RegInv, Inside, work
<1>8. WatchInv'
  BY <1>1, <1>2, <1>3 DEF IInv, ShapeInv, WatchInv, work
<1>9. TurnsRespected'
  BY <1>1, <1>2, <1>3 DEF IInv, ShapeInv, TurnsRespected, MyTurn, work
<1> QED
  BY <1>4, <1>5, <1>6, <1>7, <1>8, <1>9 DEF IInv

LEMMA UnlockKeeps == ASSUME IInv, NEW t \in Thread, Unlock(t) PROVE IInv'
<1>1. program' = program /\ Thread' = Thread /\ \A u : Once(u)' = Once(u) /\ IsWatcher(u)' = IsWatcher(u)
  BY SameProgram DEF Unlock, Go
<1>2. /\ at[t] = "unlock" /\ lock' = Free
      /\ UNCHANGED <<program, main, asleep, spurious, work>>
  BY DEF Unlock, Go
<1>3. PICK p \in {"peek", "point", "lock", "done", "notify"} :
          /\ at' = [at EXCEPT ![t] = p]
          /\ p \in {"peek", "point"} => i[t] < Rounds
          /\ p = "point" => program \in Picalc
          /\ p = "lock" => i[t] < Rounds \/ Once(t)
          /\ IsWatcher(t) => p = "done"
  BY OnwardPlace DEF Unlock, Go, Once, IsWatcher, Watching
<1>4. ShapeInv'
  BY <1>1, <1>2, <1>3 DEF IInv, ShapeInv, Place, work
<1>5. MainInv'
  BY <1>2, <1>3, MainKept DEF IInv, ShapeInv
<1>6. RoundsInv'
  BY <1>1, <1>2, <1>3 DEF IInv, ShapeInv, RoundsInv, work
<1>7. LockInv'
  BY <1>1, <1>2, <1>3, NotFree DEF IInv, ShapeInv, LockInv, Inside, work
<1>8. RegInv'
  BY <1>1, <1>2, <1>3 DEF IInv, ShapeInv, RegInv, work
<1>9. WatchInv' /\ TurnsRespected'
  BY <1>1, <1>2, <1>3 DEF IInv, ShapeInv, WatchInv, TurnsRespected, MyTurn, work
<1> QED
  BY <1>4, <1>5, <1>6, <1>7, <1>8, <1>9 DEF IInv

LEMMA PeekKeeps == ASSUME IInv, NEW t \in Thread, Peek(t) PROVE IInv'
<1>1. program' = program /\ Thread' = Thread /\ \A u : Once(u)' = Once(u) /\ IsWatcher(u)' = IsWatcher(u)
  BY SameProgram DEF Peek, Go
<1>2. /\ at[t] \in {"peek", "recheck"}
      /\ UNCHANGED <<program, main, sync, work>>
  BY DEF Peek, Go
<1>3. PICK p \in {"peek", "recheck", "lock"} : at' = [at EXCEPT ![t] = p]
  BY DEF Peek, Go
<1>4. ShapeInv'
  BY <1>1, <1>2, <1>3 DEF IInv, ShapeInv, Place, sync, work
<1>5. MainInv'
  BY <1>2, <1>3, MainKept DEF IInv, ShapeInv
<1>6. RoundsInv' /\ LockInv' /\ RegInv'
  BY <1>1, <1>2, <1>3 DEF IInv, ShapeInv, RoundsInv, LockInv, RegInv, Inside, sync, work
<1>7. WatchInv' /\ TurnsRespected'
  BY <1>1, <1>2, <1>3 DEF IInv, ShapeInv, WatchInv, TurnsRespected, MyTurn, work
<1> QED
  BY <1>4, <1>5, <1>6, <1>7 DEF IInv

LEMMA CondWaitKeeps == ASSUME IInv, NEW t \in Thread, CondWait(t) PROVE IInv'
<1>1. program' = program /\ Thread' = Thread /\ \A u : Once(u)' = Once(u) /\ IsWatcher(u)' = IsWatcher(u)
  BY SameProgram DEF CondWait, Go
<1>2. /\ at[t] = "check" /\ at' = [at EXCEPT ![t] = "asleep"]
      /\ lock' = Free /\ asleep' = asleep \cup {t}
      /\ UNCHANGED <<program, main, spurious, work>>
  BY DEF CondWait, Go
<1>3. ShapeInv'
  BY <1>1, <1>2 DEF IInv, ShapeInv, Place, work
<1>4. MainInv'
  BY <1>2, MainKept DEF IInv, ShapeInv
<1>5. LockInv'
  BY <1>1, <1>2, NotFree DEF IInv, ShapeInv, LockInv, Inside
<1>6. RoundsInv' /\ RegInv'
  BY <1>1, <1>2 DEF IInv, ShapeInv, RoundsInv, RegInv, work
<1>7. WatchInv' /\ TurnsRespected'
  BY <1>1, <1>2 DEF IInv, ShapeInv, WatchInv, TurnsRespected, MyTurn, work
<1> QED
  BY <1>3, <1>4, <1>5, <1>6, <1>7 DEF IInv

\* A thread that looks at the count with the mutex goes on or waits.
LEMMA CheckKeeps == ASSUME IInv, NEW t \in Thread, Check(t) \/ Watch(t) PROVE IInv'
<1>1. CASE CondWait(t)
  BY <1>1, CondWaitKeeps
<1>2. CASE ~CondWait(t)
  <2>1. PICK p \in {"load", "unlock"} :
            /\ Go(t, "check", p) /\ UNCHANGED <<sync, work>>
            /\ p = "load" => program \in OddsEvens /\ MyTurn(t)
            /\ p = "unlock" /\ IsWatcher(t) => count >= Limit
    BY <1>2 DEF Check, Watch, IsWatcher, OddsEvens, Watching
  <2>2. program' = program /\ Thread' = Thread /\ \A u : Once(u)' = Once(u) /\ IsWatcher(u)' = IsWatcher(u)
    BY <2>1, SameProgram DEF Go
  <2>3. at[t] = "check" /\ at' = [at EXCEPT ![t] = p] /\ UNCHANGED <<program, main, sync, work>>
    BY <2>1 DEF Go
  <2>4. ShapeInv'
    BY <2>2, <2>3 DEF IInv, ShapeInv, Place, sync, work
  <2>5. MainInv'
    BY <2>3, MainKept DEF IInv, ShapeInv
  <2>6. RoundsInv' /\ LockInv' /\ RegInv'
    BY <2>2, <2>3 DEF IInv, ShapeInv, RoundsInv, LockInv, RegInv, Inside, sync, work
  <2>7. WatchInv'
    BY <2>1, <2>2, <2>3 DEF IInv, ShapeInv, WatchInv, work, IsWatcher, OddsEvens, Watching
  <2>8. TurnsRespected'
    BY <2>1, <2>2, <2>3 DEF IInv, ShapeInv, TurnsRespected, MyTurn, work
  <2> QED
    BY <2>4, <2>5, <2>6, <2>7, <2>8 DEF IInv
<1> QED
  BY <1>1, <1>2

LEMMA LoadKeeps == ASSUME IInv, NEW t \in Thread, Load(t) PROVE IInv'
<1>1. program' = program /\ Thread' = Thread /\ \A u : Once(u)' = Once(u) /\ IsWatcher(u)' = IsWatcher(u)
  BY SameProgram DEF Load, Go
<1>2. /\ at[t] = "load" /\ at' = [at EXCEPT ![t] = "store"]
      /\ reg' = [reg EXCEPT ![t] = count]
      /\ UNCHANGED <<program, main, sync, i, my_hits, count, hits, bumps>>
  BY DEF Load, Go
<1>3. ShapeInv'
  BY <1>1, <1>2 DEF IInv, ShapeInv, Place, sync
<1>4. MainInv'
  BY <1>2, MainKept DEF IInv, ShapeInv
<1>5. RoundsInv' /\ LockInv' /\ RegInv'
  BY <1>1, <1>2 DEF IInv, ShapeInv, RoundsInv, LockInv, RegInv, Inside, sync
<1>6. WatchInv' /\ TurnsRespected'
  BY <1>1, <1>2 DEF IInv, ShapeInv, WatchInv, TurnsRespected, MyTurn
<1> QED
  BY <1>3, <1>4, <1>5, <1>6 DEF IInv

\* With the mutex no other thread has loaded a count that the store makes old,
\* or seen a parity that it changes.
LEMMA StoreKeeps == ASSUME IInv, NEW t \in Thread, Store(t) PROVE IInv'
<1>1. program' = program /\ Thread' = Thread /\ \A u : Once(u)' = Once(u) /\ IsWatcher(u)' = IsWatcher(u)
  BY SameProgram DEF Store, Go
<1>2. at[t] = "store" /\ UNCHANGED <<program, main, sync, my_hits, reg, hits, bumps>>
  BY DEF Store, Go
<1>3. i' = IF Once(t) THEN i ELSE [i EXCEPT ![t] = @ + 1]
  BY DEF Store
<1>4. i' \in [Thread -> 0..Rounds]
  BY <1>2, <1>3 DEF IInv, ShapeInv, RoundsInv
<1>5. count' \in Nat /\ (program # "broken" => count' >= count)
  BY <1>2 DEF Store, IInv, ShapeInv, RegInv
<1>6. at' = [at EXCEPT ![t] = AfterStore(t, count')]
  BY DEF Store, Go
<1>7. ~IsWatcher(t)
  BY <1>2 DEF IInv, WatchInv
<1>8. CASE program = "broken"
  <2>1. i'[t] = i[t] + 1
    BY <1>3, <1>7, <1>8 DEF Once, IInv, ShapeInv
  <2>2. PICK p \in {"peek", "point", "lock", "done"} :
            /\ at' = [at EXCEPT ![t] = p]
            /\ p \in {"peek", "point", "lock"} => i'[t] < Rounds
            /\ p = "point" => program \in Picalc
    <3>1. AfterStore(t, count') = Onward(i'[t])
      BY <1>8, <2>1 DEF AfterStore, Watching
    <3> QED
      BY <1>6, <1>8, <3>1, OnwardPlace
  <2>3. \A u \in Thread : u # t => i'[u] = i[u]
    BY <1>3 DEF IInv, ShapeInv
  <2>4. ShapeInv'
    BY <1>1, <1>2, <1>4, <1>5, <2>2 DEF IInv, ShapeInv, Place, sync
  <2>5. MainInv'
    BY <1>2, <2>2, MainKept DEF IInv, ShapeInv
  <2>6. RoundsInv'
    BY <1>1, <2>2, <2>3 DEF IInv, ShapeInv, RoundsInv
  <2>7. LockInv' /\ RegInv' /\ WatchInv' /\ TurnsRespected'
    BY <1>1, <1>8 DEF LockInv, RegInv, WatchInv, TurnsRespected, IsWatcher, Watching, OddsEvens
  <2> QED
    BY <2>4, <2>5, <2>6, <2>7 DEF IInv
<1>9. CASE program # "broken"
  <2>1. PICK p \in {"signal", "unlock"} : at' = [at EXCEPT ![t] = p]
    BY <1>6, <1>9 DEF AfterStore
  <2>2. \A u \in Thread : u # t => at[u] \notin {"load", "store"} /\ i'[u] = i[u]
    BY <1>2, <1>3, <1>9 DEF IInv, ShapeInv, LockInv, Inside
  <2>3. ShapeInv'
    BY <1>1, <1>2, <1>4, <1>5, <2>1 DEF IInv, ShapeInv, Place, sync
  <2>4. MainInv'
    BY <1>2, <2>1, MainKept DEF IInv, ShapeInv
  <2>5. RoundsInv'
    BY <1>1, <2>1, <2>2 DEF IInv, ShapeInv, RoundsInv
  <2>6. LockInv' /\ RegInv' /\ TurnsRespected'
    BY <1>1, <1>2, <2>1, <2>2 DEF IInv, ShapeInv, LockInv, RegInv, TurnsRespected, Inside, sync
  <2>7. \A u \in Thread : IsWatcher(u) /\ at[u] \in {"unlock", "done"} => count' >= Limit
    BY <1>5, <1>9 DEF IInv, ShapeInv, WatchInv
  <2>8. WatchInv'
    BY <1>1, <1>7, <2>1, <2>7 DEF IInv, ShapeInv, WatchInv
  <2> QED
    BY <2>3, <2>4, <2>5, <2>6, <2>8 DEF IInv
<1> QED
  BY <1>8, <1>9

LEMMA BumpKeeps == ASSUME IInv, NEW t \in Thread, Bump(t) PROVE IInv'
<1>1. program' = program /\ Thread' = Thread /\ \A u : Once(u)' = Once(u) /\ IsWatcher(u)' = IsWatcher(u)
  BY SameProgram DEF Bump, Go
<1>2. /\ at[t] = "bump" /\ at' = [at EXCEPT ![t] = "check"]
      /\ count' = count + 125 /\ bumps' = bumps + 1
      /\ UNCHANGED <<program, main, sync, i, my_hits, reg, hits>>
  BY DEF Bump, Go
<1>3. program # "broken" => \A u \in Thread : u # t => at[u] \notin {"load", "store"}
  BY <1>2 DEF IInv, ShapeInv, LockInv, Inside
<1>4. ShapeInv'
  BY <1>1, <1>2 DEF IInv, ShapeInv, Place, sync
<1>5. MainInv'
  BY <1>2, MainKept DEF IInv, ShapeInv
<1>6. RoundsInv' /\ LockInv'
  BY <1>1, <1>2 DEF IInv, ShapeInv, RoundsInv, LockInv, Inside, sync
<1>7. RegInv' /\ TurnsRespected'
  BY <1>1, <1>2, <1>3 DEF IInv, ShapeInv, RegInv, TurnsRespected, OddsEvens
<1>8. WatchInv'
  BY <1>1, <1>2 DEF IInv, ShapeInv, WatchInv
<1> QED
  BY <1>4, <1>5, <1>6, <1>7, <1>8 DEF IInv

\* Threads that are woken go back to the mutex; the one that wakes them goes on.
LEMMA WakeKeeps ==
    ASSUME IInv, NEW t \in Thread, NEW S \in SUBSET asleep, NEW from, NEW p \in Place \ {"asleep", "unborn"},
           Wake(t, S, from, p), spurious' \in 0..MaxSpurious,
           from \in {"asleep", "notify", "signal"},
           from = "asleep" => t \in S,
           from = "signal" => p = "unlock",
           from = "notify" => /\ p \in {"peek", "point", "lock", "done"}
                              /\ p # "done" => i[t] < Rounds \/ (p = "lock" /\ Once(t))
                              /\ p = "point" => program \in Picalc
    PROVE  IInv'
<1>1. program' = program /\ Thread' = Thread /\ \A u : Once(u)' = Once(u) /\ IsWatcher(u)' = IsWatcher(u)
  BY SameProgram DEF Wake
<1>2. /\ at[t] = from /\ asleep' = asleep \ S
      /\ at' = [u \in Thread |-> IF u \in S THEN "relock" ELSE IF u = t THEN p ELSE at[u]]
      /\ UNCHANGED <<program, main, lock, work>>
  BY DEF Wake
<1>3. \A u \in S : u \in Thread /\ at[u] = "asleep"
  BY DEF IInv, ShapeInv
<1>4. ShapeInv'
  BY <1>1, <1>2, <1>3 DEF IInv, ShapeInv, Place, work
<1>5. MainInv'
  BY <1>2, <1>3, MainKept
<1>6. RoundsInv'
  BY <1>1, <1>2, <1>3 DEF IInv, ShapeInv, RoundsInv, work
<1>7. LockInv' /\ RegInv'
  BY <1>1, <1>2, <1>3 DEF IInv, ShapeInv, LockInv, RegInv, Inside, work
<1>8. WatchInv'
  BY <1>1, <1>2, <1>3 DEF IInv, ShapeInv, WatchInv, work
<1>9. TurnsRespected'
  BY <1>1, <1>2, <1>3 DEF IInv, ShapeInv, TurnsRespected, MyTurn, work
<1> QED
  BY <1>4, <1>5, <1>6, <1>7, <1>8, <1>9 DEF IInv

\* pthread_cond_broadcast, pthread_cond_signal and a wake-up for no reason.
LEMMA NotifyKeeps == ASSUME IInv, NEW t \in Thread, Notify(t) PROVE IInv'
<1>1. PICK S \in SUBSET asleep : Wake(t, S, "notify", Onward(i[t]))
  BY DEF Notify, OneOf
<1>2. spurious' \in 0..MaxSpurious
  BY DEF Notify, IInv, ShapeInv
<1>3. /\ Onward(i[t]) \in {"peek", "point", "lock", "done"}
      /\ Onward(i[t]) # "done" => i[t] < Rounds \/ (Onward(i[t]) = "lock" /\ Once(t))
      /\ Onward(i[t]) = "point" => program \in Picalc
  BY OnwardPlace DEF Once
<1>4. Onward(i[t]) \in Place \ {"asleep", "unborn"}
  BY <1>3 DEF Place
<1> QED
  BY <1>1, <1>2, <1>3, <1>4, WakeKeeps

LEMMA SignalKeeps == ASSUME IInv, NEW t \in Thread, Signal(t) PROVE IInv'
<1>1. PICK S \in SUBSET asleep : Wake(t, S, "signal", "unlock")
  BY DEF Signal, OneOf
<1>2. spurious' \in 0..MaxSpurious
  BY DEF Signal, IInv, ShapeInv
<1>3. "unlock" \in Place \ {"asleep", "unborn"}
  BY DEF Place
<1> QED
  BY <1>1, <1>2, <1>3, WakeKeeps

LEMMA SpuriousKeeps == ASSUME IInv, NEW t \in Thread, SpuriousWakeUp(t) PROVE IInv'
<1>1. Wake(t, {t}, "asleep", "relock") /\ {t} \in SUBSET asleep
  BY DEF SpuriousWakeUp, Wake, IInv, ShapeInv
<1>2. spurious' \in 0..MaxSpurious
  BY DEF SpuriousWakeUp, IInv, ShapeInv
<1>3. "relock" \in Place \ {"asleep", "unborn"}
  BY DEF Place
<1> QED
  BY <1>1, <1>2, <1>3, WakeKeeps

LEMMA PointKeeps == ASSUME IInv, NEW t \in Thread, Point(t) PROVE IInv'
<1>1. program' = program /\ Thread' = Thread /\ \A u : Once(u)' = Once(u) /\ IsWatcher(u)' = IsWatcher(u)
  BY SameProgram DEF Point, Go
<1>2. /\ at[t] = "point" /\ i' = [i EXCEPT ![t] = @ + 1]
      /\ UNCHANGED <<program, main, sync, reg, count, bumps>>
  BY DEF Point, Go
<1>3. i' \in [Thread -> 0..Rounds] /\ i'[t] = i[t] + 1 /\ \A u \in Thread : u # t => i'[u] = i[u]
  BY <1>2 DEF IInv, ShapeInv, RoundsInv
<1>4. my_hits' \in [Thread -> Nat] /\ hits' \in Nat
  BY DEF Point, IInv, ShapeInv
<1>5. PICK p \in {"peek", "point", "lock", "done"} :
          /\ at' = [at EXCEPT ![t] = p]
          /\ p \in {"peek", "point", "lock"} => i'[t] < Rounds \/ (p = "lock" /\ Once(t))
          /\ p = "point" => program \in Picalc
  BY <1>3, OnwardPlace DEF Point, Go, Once
<1>6. ~IsWatcher(t)
  BY <1>2 DEF IInv, WatchInv
<1>7. ShapeInv'
  BY <1>1, <1>2, <1>3, <1>4, <1>5 DEF IInv, ShapeInv, Place, sync
<1>8. MainInv'
  BY <1>2, <1>5, MainKept DEF IInv, ShapeInv
<1>9. RoundsInv'
  BY <1>1, <1>2, <1>3, <1>5 DEF IInv, ShapeInv, RoundsInv
<1>10. LockInv' /\ RegInv' /\ TurnsRespected'
  BY <1>1, <1>2, <1>5 DEF IInv, ShapeInv, LockInv, RegInv, TurnsRespected, MyTurn, Inside, sync
<1>11. WatchInv'
  BY <1>1, <1>2, <1>5, <1>6 DEF IInv, ShapeInv, WatchInv
<1> QED
  BY <1>7, <1>8, <1>9, <1>10, <1>11 DEF IInv

LEMMA HitKeeps == ASSUME IInv, NEW t \in Thread, Hit(t) PROVE IInv'
<1>1. program' = program /\ Thread' = Thread /\ \A u : Once(u)' = Once(u) /\ IsWatcher(u)' = IsWatcher(u)
  BY SameProgram DEF Hit, Go
<1>2. /\ at[t] = "point" /\ hits' = hits + 1
      /\ UNCHANGED <<program, main, sync, i, my_hits, reg, count, bumps>>
  BY DEF Hit, Go
<1>3. PICK p \in {"lock", "load"} :
          /\ at' = [at EXCEPT ![t] = p]
          /\ p = "load" => program # "mutex"
  BY DEF Hit, Go
<1>4. program \in {"broken", "mutex"}
  BY <1>2 DEF Hit, IInv, RoundsInv, Picalc
<1>5. ShapeInv'
  BY <1>1, <1>2, <1>3 DEF IInv, ShapeInv, Place, sync
<1>6. MainInv'
  BY <1>2, <1>3, MainKept DEF IInv, ShapeInv
<1>7. RoundsInv'
  BY <1>1, <1>2, <1>3 DEF IInv, ShapeInv, RoundsInv
<1>8. LockInv' /\ RegInv'
  BY <1>1, <1>2, <1>3, <1>4 DEF IInv, ShapeInv, LockInv, RegInv, Inside, sync
<1>9. WatchInv' /\ TurnsRespected'
  BY <1>1, <1>4 DEF WatchInv, TurnsRespected, IsWatcher, Watching, OddsEvens
<1> QED
  BY <1>5, <1>6, <1>7, <1>8, <1>9 DEF IInv

LEMMA NextInv == IInv /\ [Next]_vars => IInv'
<1> SUFFICES ASSUME IInv, [Next]_vars PROVE IInv'
  OBVIOUS
<1>1. CASE Main
  BY <1>1, CreateKeeps, JoinKeeps DEF Main
<1>2. ASSUME NEW t \in Thread, Step(t) PROVE IInv'
  BY <1>2, LockKeeps, UnlockKeeps, PeekKeeps, CheckKeeps, LoadKeeps, StoreKeeps, NotifyKeeps,
     BumpKeeps, SignalKeeps, PointKeeps, HitKeeps DEF Step
<1>3. ASSUME NEW t \in Thread, SpuriousWakeUp(t) PROVE IInv'
  BY <1>3, SpuriousKeeps
<1>4. CASE UNCHANGED vars
  <2>1. program' = program /\ Thread' = Thread /\ \A u : Once(u)' = Once(u) /\ IsWatcher(u)' = IsWatcher(u)
    BY <1>4, SameProgram DEF vars
  <2> QED
    BY <1>4, <2>1 DEF vars, main, sync, work, IInv, ShapeInv, MainInv, RoundsInv, LockInv, RegInv,
       WatchInv, TurnsRespected, MyTurn
<1> QED
  BY <1>1, <1>2, <1>3, <1>4 DEF Next

LEMMA Invariance == Spec => []IInv
BY InitInv, NextInv, PTL DEF Spec

-----------------------------------------------------------------------------
(* The theorems *)

\* main creates each thread once and joins only what it has created; every
\* counter and every thread's place stay in range.
THEOREM TypeCorrect == Spec => []TypeOK
<1>1. IInv => TypeOK
  <2> SUFFICES ASSUME IInv PROVE TypeOK
    OBVIOUS
  <2>1. PICK n \in Nat \ {0} : Thread = 0..(n - 1)
    BY ThreadRange DEF IInv, ShapeInv
  <2>2. Cardinality(Thread) = n
    BY <2>1, FS_Interval
  <2>3. created \in 0..n /\ joined \in 0..created
    BY <2>1 DEF IInv, MainInv
  <2> QED
    BY <2>2, <2>3 DEF IInv, ShapeInv, Place, TypeOK
<1> QED
  BY <1>1, Invariance, PTL

\* The threads of odds_evens take turns, however many there are and whichever
\* of the five programs runs: the mutex is held from the last look at the count
\* to the store, and a wake-up never skips that look.
THEOREM TurnsTaken == Spec => []TurnsRespected
BY Invariance, PTL DEF IInv

\* watch_count does not come back early, whatever wakes it.
THEOREM WatcherPatient == Spec => []WatcherSawLimit
<1>1. IInv => WatcherSawLimit
  <2> SUFFICES ASSUME IInv, program \in Watching, at[Watcher] = "done" PROVE count >= Limit
    BY DEF WatcherSawLimit
  <2>1. Watcher \in Thread /\ IsWatcher(Watcher)
    BY ThreadRange DEF IInv, ShapeInv, IsWatcher, Watcher
  <2> QED
    BY <2>1 DEF IInv, WatchInv
<1> QED
  BY <1>1, Invariance, PTL

-----------------------------------------------------------------------------
(* The work: what main reports *)

\* A thread that is done has done all of its rounds, watch_count has none, and the
\* threads of picalc have no places but these.
EndInv ==
    /\ \A t \in Thread : t < joined => at[t] = "done"
    /\ \A t \in Thread : at[t] = "done" /\ ~Once(t) => i[t] = Rounds
    /\ \A t \in Thread : IsWatcher(t) => i[t] = 0
    /\ \A t \in Thread : at[t] = "bump" => program = "bump"
    /\ bumps # 0 => program = "bump"
    /\ program \in Picalc =>
          \A t \in Thread : at[t] \in {"unborn", "point", "lock", "load", "store", "unlock", "done"}

LEMMA OnwardEnd ==
    ASSUME NEW n \in 0..Rounds
    PROVE  /\ Onward(n) = "done" => n = Rounds
           /\ program \in Picalc => Onward(n) \in {"point", "lock", "done"}
BY DEF Onward, Begin, Picalc

\* A step by which thread t goes on alone.
LEMMA EndKept ==
    ASSUME IInv, EndInv, NEW t \in Thread, at[t] \notin {"unborn", "done"}, NEW p \in Place,
           at' = [at EXCEPT ![t] = p], UNCHANGED <<program, main>>,
           \A u \in Thread : u # t => i'[u] = i[u],
           IsWatcher(t) => i'[t] = i[t],
           bumps' = bumps \/ program = "bump",
           p = "done" /\ ~Once(t) => i'[t] = Rounds,
           p = "bump" => program = "bump",
           program \in Picalc => p \in {"point", "lock", "load", "store", "unlock", "done"}
    PROVE  EndInv'
<1>1. Thread' = Thread /\ \A u : Once(u)' = Once(u) /\ IsWatcher(u)' = IsWatcher(u)
  BY SameProgram
<1>2. at'[t] = p /\ \A u \in Thread : u # t => at'[u] = at[u]
  BY DEF IInv, ShapeInv
<1>3. joined' = joined /\ ~(t < joined)
  BY DEF EndInv, main
<1> QED
  BY <1>1, <1>2, <1>3 DEF EndInv

LEMMA WakeEnd ==
    ASSUME IInv, EndInv, NEW t \in Thread, NEW S \in SUBSET asleep, NEW from, NEW p \in Place,
           Wake(t, S, from, p),
           from \notin {"unborn", "done"}, program \notin Picalc,
           p = "done" /\ ~Once(t) => i[t] = Rounds,
           p # "bump"
    PROVE  EndInv'
<1>1. Thread' = Thread /\ \A u : Once(u)' = Once(u) /\ IsWatcher(u)' = IsWatcher(u)
  BY SameProgram DEF Wake
<1>2. /\ at[t] = from
      /\ at' = [u \in Thread |-> IF u \in S THEN "relock" ELSE IF u = t THEN p ELSE at[u]]
      /\ UNCHANGED <<program, joined, i, bumps>>
  BY DEF Wake, main, work
<1>3. \A u \in S : u \in Thread /\ at[u] = "asleep"
  BY DEF IInv, ShapeInv
<1>4. \A u \in Thread : at'[u] = at[u] \/ (at[u] \notin {"unborn", "done"} /\ at'[u] = "relock")
                     \/ (u = t /\ at'[u] = p)
  BY <1>2, <1>3
<1> QED
  BY <1>1, <1>2, <1>4 DEF EndInv

LEMMA NextEnd == IInv /\ EndInv /\ [Next]_vars => EndInv'
<1> SUFFICES ASSUME IInv, EndInv, [Next]_vars PROVE EndInv'
  OBVIOUS
<1>0. /\ i \in [Thread -> 0..Rounds] /\ program \in Program /\ at \in [Thread -> Place]
  BY DEF IInv, ShapeInv
<1>1. CASE Create
  <2>1. program' = program /\ created \in Thread /\ at[created] = "unborn" /\ joined = 0 /\ joined' = joined
    BY <1>1, NotFree DEF Create, IInv, MainInv, ShapeInv
  <2>2. Thread' = Thread /\ \A u : Once(u)' = Once(u) /\ IsWatcher(u)' = IsWatcher(u)
    BY <2>1, SameProgram
  <2>3. Begin \in {"peek", "point", "lock"} /\ (program \in Picalc => Begin = "point")
    BY DEF Begin, Picalc
  <2>4. /\ at'[created] = Begin /\ \A u \in Thread : u # created => at'[u] = at[u]
        /\ UNCHANGED <<i, bumps>>
    BY <1>0, <1>1, <2>1 DEF Create, work
  <2>5. \A u \in Thread : ~(u < joined)
    BY <2>1, NotFree, <1>0
  <2> QED
    BY <2>1, <2>2, <2>3, <2>4, <2>5 DEF EndInv
<1>2. CASE Join
  <2>1. program' = program /\ joined' = joined + 1 /\ at[joined] = "done" /\ UNCHANGED <<at, i, bumps>>
        /\ joined \in Nat
    BY <1>2 DEF Join, work, IInv, MainInv
  <2>2. Thread' = Thread /\ \A u : Once(u)' = Once(u) /\ IsWatcher(u)' = IsWatcher(u)
    BY <2>1, SameProgram
  <2>3. \A u \in Thread : u < joined + 1 => u < joined \/ u = joined
    BY <1>0, <2>1, NotFree
  <2> QED
    BY <2>1, <2>2, <2>3 DEF EndInv
<1>3. ASSUME NEW t \in Thread, Lock(t) PROVE EndInv'
  <2>1. PICK p \in {"check", "load", "bump"} :
           /\ at' = [at EXCEPT ![t] = p] /\ at[t] \in {"lock", "relock"} /\ UNCHANGED <<program, main, work>>
           /\ p = "bump" => program = "bump"
           /\ program \in Picalc => p = "load" \/ at[t] = "relock"
    BY <1>3 DEF Lock, Go, Take, Locked, IsWatcher, Watching, OddsEvens, Picalc
  <2>2. program \in Picalc => p = "load"
    BY <2>1 DEF EndInv
  <2> QED
    BY <2>1, <2>2, EndKept DEF work, Place
<1>4. ASSUME NEW t \in Thread, Unlock(t) PROVE EndInv'
  <2> DEFINE p == IF program \in {"condvar", "two_condvars"} THEN "notify"
                  ELSE IF Once(t) THEN "done" ELSE Onward(i[t])
  <2>1. at' = [at EXCEPT ![t] = p] /\ at[t] = "unlock" /\ UNCHANGED <<program, main, work>>
    BY <1>4 DEF Unlock, Go
  <2>2. /\ p \in Place /\ p # "bump" /\ (p = "done" /\ ~Once(t) => i[t] = Rounds)
        /\ program \in Picalc => p \in {"point", "lock", "done"}
    BY <1>0, OnwardEnd, OnwardPlace DEF Place, Picalc
  <2> HIDE DEF p
  <2> QED
    BY <2>1, <2>2, EndKept DEF work
<1>5. ASSUME NEW t \in Thread, Peek(t) PROVE EndInv'
  <2>1. PICK p \in {"peek", "recheck", "lock"} :
           at' = [at EXCEPT ![t] = p] /\ at[t] \in {"peek", "recheck"} /\ UNCHANGED <<program, main, work>>
    BY <1>5 DEF Peek, Go
  <2>2. program \notin Picalc
    BY <2>1 DEF EndInv
  <2> QED
    BY <2>1, <2>2, EndKept DEF work, Place
<1>6. ASSUME NEW t \in Thread, Check(t) \/ Watch(t) PROVE EndInv'
  <2>1. PICK p \in {"load", "unlock", "asleep"} :
           at' = [at EXCEPT ![t] = p] /\ at[t] = "check" /\ UNCHANGED <<program, main, work>>
    BY <1>6 DEF Check, Watch, CondWait, Go
  <2>2. program \notin Picalc
    BY <2>1 DEF EndInv
  <2> QED
    BY <2>1, <2>2, EndKept DEF work, Place
<1>7. ASSUME NEW t \in Thread, Load(t) PROVE EndInv'
  <2>1. at' = [at EXCEPT ![t] = "store"] /\ at[t] = "load" /\ UNCHANGED <<program, main, i, bumps>>
    BY <1>7 DEF Load, Go
  <2> QED
    BY <2>1, EndKept DEF Place
<1>8. ASSUME NEW t \in Thread, Store(t) PROVE EndInv'
  <2>1. /\ at[t] = "store" /\ at' = [at EXCEPT ![t] = AfterStore(t, count')]
        /\ UNCHANGED <<program, main, bumps>>
        /\ i' = IF Once(t) THEN i ELSE [i EXCEPT ![t] = @ + 1]
    BY <1>8 DEF Store, Go
  <2>2. Once(t) \/ i[t] + 1 \in 0..Rounds
    <3>1. i[t] \in 0..Rounds /\ (Once(t) \/ i[t] < Rounds)
      BY <1>0, <2>1 DEF IInv, RoundsInv
    <3> QED
      BY <3>1
  <2>3. ~IsWatcher(t)
    BY <2>1 DEF IInv, WatchInv
  <2>4. \A u \in Thread : u # t => i'[u] = i[u]
    BY <1>0, <2>1
  <2>5. CASE program = "broken"
    <3>1. ~Once(t) /\ i'[t] = i[t] + 1 /\ i[t] + 1 \in 0..Rounds
      BY <1>0, <2>1, <2>2, <2>3, <2>5 DEF Once
    <3>2. AfterStore(t, count') = Onward(i[t] + 1)
      BY <2>5 DEF AfterStore, Watching
    <3>3. Onward(i[t] + 1) \in {"point", "lock", "done"} /\ (Onward(i[t] + 1) = "done" => i[t] + 1 = Rounds)
      BY <2>5, <3>1, OnwardEnd DEF Picalc
    <3>4. AfterStore(t, count') \in Place
      BY <3>2, <3>3 DEF Place
    <3> QED
      BY <2>1, <2>3, <2>4, <3>1, <3>2, <3>3, <3>4, EndKept
  <2>6. CASE program # "broken"
    <3>1. AfterStore(t, count') \in {"signal", "unlock"}
          /\ (program \in Picalc => AfterStore(t, count') = "unlock")
      BY <2>6 DEF AfterStore, Picalc, Watching
    <3>2. AfterStore(t, count') \in Place
      BY <3>1 DEF Place
    <3> QED
      BY <2>1, <2>3, <2>4, <3>1, <3>2, EndKept
  <2> QED
    BY <2>5, <2>6
<1>9. ASSUME NEW t \in Thread, Notify(t) \/ Signal(t) \/ SpuriousWakeUp(t) PROVE EndInv'
  <2>1. CASE Notify(t)
    <3>1. PICK S \in SUBSET asleep : Wake(t, S, "notify", Onward(i[t]))
      BY <2>1 DEF Notify, OneOf
    <3>2. program \notin Picalc
      BY <2>1 DEF Notify, Picalc
    <3>3. Onward(i[t]) \in Place /\ Onward(i[t]) # "bump" /\ (Onward(i[t]) = "done" => i[t] = Rounds)
      BY <1>0, OnwardEnd, OnwardPlace DEF Place
    <3> QED
      BY <3>1, <3>2, <3>3, WakeEnd
  <2>2. CASE Signal(t)
    <3>1. PICK S \in SUBSET asleep : Wake(t, S, "signal", "unlock")
      BY <2>2 DEF Signal, OneOf
    <3>2. program \notin Picalc
      BY <3>1 DEF Wake, EndInv
    <3> QED
      BY <3>1, <3>2, WakeEnd DEF Place
  <2>3. CASE SpuriousWakeUp(t)
    <3>1. Wake(t, {t}, "asleep", "relock") /\ at[t] = "asleep"
      BY <2>3 DEF SpuriousWakeUp, Wake
    <3>2. program \notin Picalc /\ {t} \in SUBSET asleep
      BY <3>1 DEF EndInv, IInv, ShapeInv
    <3> QED
      BY <3>1, <3>2, WakeEnd DEF Place
  <2> QED
    BY <1>9, <2>1, <2>2, <2>3
<1>10. ASSUME NEW t \in Thread, Bump(t) PROVE EndInv'
  <2>1. at' = [at EXCEPT ![t] = "check"] /\ at[t] = "bump" /\ UNCHANGED <<program, main, i>>
    BY <1>10 DEF Bump, Go
  <2>2. program = "bump" /\ program \notin Picalc
    BY <2>1 DEF EndInv, Picalc
  <2> QED
    BY <2>1, <2>2, EndKept DEF Place
<1>11. ASSUME NEW t \in Thread, Point(t) PROVE EndInv'
  <2>1. /\ at[t] = "point" /\ at' = [at EXCEPT ![t] = Onward(i[t] + 1)]
        /\ UNCHANGED <<program, main, bumps>> /\ i' = [i EXCEPT ![t] = @ + 1]
    BY <1>11 DEF Point, Go
  <2>2. program \in Picalc /\ ~IsWatcher(t) /\ i[t] + 1 \in 0..Rounds /\ i'[t] = i[t] + 1
    BY <1>0, <2>1 DEF IInv, RoundsInv, WatchInv
  <2>3. /\ Onward(i[t] + 1) \in {"point", "lock", "done"}
        /\ Onward(i[t] + 1) = "done" => i[t] + 1 = Rounds
    BY <2>2, OnwardEnd
  <2>4. Onward(i[t] + 1) \in Place
    BY <2>3 DEF Place
  <2>5. \A u \in Thread : u # t => i'[u] = i[u]
    BY <1>0, <2>1
  <2> QED
    BY <2>1, <2>2, <2>3, <2>4, <2>5, EndKept
<1>12. ASSUME NEW t \in Thread, Hit(t) PROVE EndInv'
  <2>1. PICK p \in {"lock", "load"} :
           at' = [at EXCEPT ![t] = p] /\ at[t] = "point" /\ UNCHANGED <<program, main, i, bumps>>
    BY <1>12 DEF Hit, Go
  <2> QED
    BY <2>1, EndKept DEF Place
<1>13. CASE UNCHANGED vars
  <2>1. Thread' = Thread /\ \A u : Once(u)' = Once(u) /\ IsWatcher(u)' = IsWatcher(u)
    BY <1>13, SameProgram DEF vars
  <2> QED
    BY <1>13, <2>1 DEF vars, main, work, EndInv
<1> QED
  BY <1>1, <1>2, <1>3, <1>4, <1>5, <1>6, <1>7, <1>8, <1>9, <1>10, <1>11, <1>12, <1>13 DEF Next, Main, Step

\* The rounds that have been done, the hits of mutex and broken that have not been
\* added yet, and those that the threads of nocontention still keep.
Done == {p \in Thread \X (1..Rounds) : p[2] <= i[p[1]]}
Open == {t \in Thread : at[t] \in {"lock", "load", "store"}}
Owed == {p \in Thread \X (1..Rounds) : at[p[1]] \notin {"unlock", "done"} /\ p[2] <= my_hits[p[1]]}

CountInv ==
    /\ program \notin Picalc => count = Cardinality(Done) + 125 * bumps
    /\ program = "mutex" => hits = count + Cardinality(Open)
    /\ program = "broken" =>
          /\ count + Cardinality(Open) <= hits
          /\ \A t \in Thread : at[t] = "store" => reg[t] + Cardinality(Open) <= hits
    /\ program = "nocontention" =>
          /\ \A t \in Thread : my_hits[t] <= i[t]
          /\ hits = count + Cardinality(Owed)

LEMMA UpTo == ASSUME NEW n \in Nat PROVE IsFiniteSet(1..n) /\ Cardinality(1..n) = n
<1>1. IsFiniteSet(1..n) /\ Cardinality(1..n) = IF 1 > n THEN 0 ELSE n - 1 + 1
  BY FS_Interval
<1> QED
  BY <1>1

LEMMA ThreadsFinite ==
    ASSUME program \in Program
    PROVE  /\ IsFiniteSet(Thread) /\ IsFiniteSet(Thread \X (1..Rounds))
           /\ Cardinality(Thread \X (1..Rounds)) = Cardinality(Thread) * Rounds
<1>1. PICK n \in Nat \ {0} : Thread = 0..(n - 1)
  BY ThreadRange
<1>2. IsFiniteSet(Thread)
  BY <1>1, FS_Interval
<1>3. IsFiniteSet(1..Rounds) /\ Cardinality(1..Rounds) = Rounds
  BY FS_Interval
<1> QED
  BY <1>2, <1>3, FS_Product

LEMMA WorkFinite ==
    ASSUME program \in Program
    PROVE  /\ IsFiniteSet(Done) /\ Cardinality(Done) \in Nat
           /\ IsFiniteSet(Open) /\ Cardinality(Open) \in Nat
           /\ IsFiniteSet(Owed) /\ Cardinality(Owed) \in Nat
<1>1. IsFiniteSet(Done)
  <2>1. Done \in SUBSET (Thread \X (1..Rounds))
    BY DEF Done
  <2> QED
    BY <2>1, ThreadsFinite, FS_Subset
<1>2. IsFiniteSet(Open)
  <2>1. Open \in SUBSET Thread
    BY DEF Open
  <2> QED
    BY <2>1, ThreadsFinite, FS_Subset
<1>3. IsFiniteSet(Owed)
  <2>1. Owed \in SUBSET (Thread \X (1..Rounds))
    BY DEF Owed
  <2> QED
    BY <2>1, ThreadsFinite, FS_Subset
<1> QED
  BY <1>1, <1>2, <1>3, FS_CardinalityType

LEMMA ProgramKept == [Next]_vars => program' = program /\ Thread' = Thread
<1> SUFFICES ASSUME [Next]_vars PROVE program' = program
  BY SameProgram
<1> QED
  BY DEF Next, Main, Create, Join, Step, Lock, Unlock, Peek, Check, Watch, CondWait, Load, Store, Notify,
         Signal, SpuriousWakeUp, Wake, Bump, Point, Hit, Go, vars

LEMMA DoneGrows ==
    ASSUME IInv, Thread' = Thread, NEW t \in Thread, i[t] < Rounds, i' = [i EXCEPT ![t] = i[t] + 1]
    PROVE  Cardinality(Done)' = Cardinality(Done) + 1
<1> DEFINE x == <<t, i[t] + 1>>
<1>1. i \in [Thread -> 0..Rounds] /\ program \in Program
  BY DEF IInv, ShapeInv
<1>2. i[t] \in 0..Rounds /\ i[t] + 1 \in 1..Rounds /\ i'[t] = i[t] + 1 /\ \A u \in Thread : u # t => i'[u] = i[u]
  BY <1>1
<1>3. x \in Thread \X (1..Rounds) /\ x \notin Done
  BY <1>2 DEF Done
<1>4. Done' = Done \cup {x}
  <2>1. ASSUME NEW u \in Thread, NEW k \in 1..Rounds
        PROVE  k <= i'[u] <=> k <= i[u] \/ (u = t /\ k = i[t] + 1)
    <3>1. i[u] \in 0..Rounds
      BY <1>1
    <3> QED
      BY <1>2, <3>1
  <2>2. \A y \in Thread \X (1..Rounds) : y[1] \in Thread /\ y[2] \in 1..Rounds /\ y = <<y[1], y[2]>>
    OBVIOUS
  <2>3. \A y \in Thread \X (1..Rounds) : y[2] <= i'[y[1]] <=> y[2] <= i[y[1]] \/ y = x
    BY <2>1, <2>2
  <2>4. Done' = {y \in Thread \X (1..Rounds) : y[2] <= i'[y[1]]}
    BY DEF Done
  <2> QED
    BY <1>3, <2>3, <2>4 DEF Done
<1> HIDE DEF x
<1>5. Cardinality(Done \cup {x}) = Cardinality(Done) + 1
  BY <1>1, <1>3, WorkFinite, FS_AddElement
<1> QED
  BY <1>4, <1>5

LEMMA OpenGrows ==
    ASSUME IInv, Thread' = Thread, NEW t \in Thread, t \notin Open, at'[t] \in {"lock", "load", "store"},
           \A u \in Thread : u # t => at'[u] = at[u]
    PROVE  Cardinality(Open)' = Cardinality(Open) + 1
<1>1. Open' = Open \cup {t}
  BY DEF Open
<1>2. program \in Program
  BY DEF IInv, ShapeInv
<1>3. Cardinality(Open \cup {t}) = Cardinality(Open) + 1
  BY <1>2, WorkFinite, FS_AddElement
<1> QED
  BY <1>1, <1>3

LEMMA OpenShrinks ==
    ASSUME IInv, Thread' = Thread, NEW t \in Thread, t \in Open, at'[t] \notin {"lock", "load", "store"},
           \A u \in Thread : u # t => at'[u] = at[u]
    PROVE  Cardinality(Open)' = Cardinality(Open) - 1
<1>1. Open' = Open \ {t}
  BY DEF Open
<1>2. program \in Program
  BY DEF IInv, ShapeInv
<1>3. Cardinality(Open \ {t}) = Cardinality(Open) - 1
  BY <1>2, WorkFinite, FS_RemoveElement
<1> QED
  BY <1>1, <1>3

\* Odd and even threads and inc_count: the count is the number of rounds done.
LEMMA NextDone ==
    ASSUME IInv, EndInv, [Next]_vars, program \notin Picalc, count = Cardinality(Done) + 125 * bumps
    PROVE  count' = Cardinality(Done)' + 125 * bumps'
<1>1. program \in Program /\ program' = program /\ Thread' = Thread /\ bumps \in Nat /\ count \in Nat
      /\ Cardinality(Done) \in Nat
  BY ProgramKept, WorkFinite DEF IInv, ShapeInv
<1>2. CASE UNCHANGED <<i, count, bumps>>
  BY <1>1, <1>2 DEF Done
<1>3. ASSUME NEW t \in Thread, Store(t) PROVE count' = Cardinality(Done)' + 125 * bumps'
  <2>1. at[t] = "store" /\ ~Once(t)
    BY <1>3 DEF Store, Go, IInv, WatchInv, Once, Picalc
  <2>2. i[t] < Rounds /\ reg[t] = count
    BY <2>1 DEF IInv, RoundsInv, RegInv, Picalc
  <2>3. i' = [i EXCEPT ![t] = i[t] + 1] /\ count' = count + 1 /\ bumps' = bumps
    BY <1>3, <2>1, <2>2 DEF Store
  <2>4. Cardinality(Done)' = Cardinality(Done) + 1
    BY <1>1, <2>2, <2>3, DoneGrows
  <2> QED
    BY <1>1, <2>3, <2>4
<1>4. ASSUME NEW t \in Thread, Bump(t) PROVE count' = Cardinality(Done)' + 125 * bumps'
  <2>1. count' = count + 125 /\ bumps' = bumps + 1 /\ i' = i
    BY <1>4 DEF Bump
  <2>2. Done' = Done
    BY <1>1, <2>1 DEF Done
  <2> QED
    BY <1>1, <2>1, <2>2
<1>5. ASSUME NEW t \in Thread, Point(t) \/ Hit(t) PROVE FALSE
  BY <1>5 DEF Point, Hit, Go, IInv, RoundsInv
<1> QED
  BY <1>2, <1>3, <1>4, <1>5
     DEF Next, Main, Create, Join, Step, Lock, Take, Unlock, Peek, Check, Watch, CondWait, Load, Notify,
         Signal, SpuriousWakeUp, Wake, work, vars

\* mutex and broken: a hit is open from the point to the store.
OpenInv ==
    /\ program = "mutex" => hits = count + Cardinality(Open)
    /\ program = "broken" =>
          /\ count + Cardinality(Open) <= hits
          /\ \A t \in Thread : at[t] = "store" => reg[t] + Cardinality(Open) <= hits

LEMMA NextOpen ==
    ASSUME IInv, EndInv, [Next]_vars, program \in {"mutex", "broken"}, OpenInv
    PROVE  OpenInv'
<1>1. /\ program \in Program /\ program' = program /\ Thread' = Thread
      /\ count \in Nat /\ hits \in Nat /\ Cardinality(Open) \in Nat
      /\ at \in [Thread -> Place] /\ reg \in [Thread -> Nat] /\ program \in Picalc
  BY ProgramKept, WorkFinite DEF IInv, ShapeInv, Picalc
<1>2. ASSUME UNCHANGED <<count, hits, reg>>,
             \A u \in Thread : /\ u \in Open <=> at'[u] \in {"lock", "load", "store"}
                               /\ at'[u] = "store" => at[u] = "store"
      PROVE  OpenInv'
  <2>1. Open' = Open
    BY <1>1, <1>2 DEF Open
  <2> QED
    BY <1>1, <1>2, <2>1 DEF OpenInv
<1>3. ASSUME NEW t \in Thread, NEW p, at' = [at EXCEPT ![t] = p], UNCHANGED <<count, hits, reg>>,
             t \in Open <=> p \in {"lock", "load", "store"}, p # "store"
      PROVE  OpenInv'
  <2>1. at'[t] = p /\ \A u \in Thread : u # t => at'[u] = at[u]
    BY <1>1, <1>3
  <2> QED
    BY <1>2, <1>3, <2>1 DEF Open
<1>4. \A n \in 0..Rounds : Onward(n) \in {"point", "done"}
  BY DEF Onward, Begin, Picalc
<1>5. i \in [Thread -> 0..Rounds]
  BY DEF IInv, ShapeInv
<1>6. CASE Create
  <2>1. created \in Thread /\ at[created] = "unborn" /\ at' = [at EXCEPT ![created] = Begin]
        /\ UNCHANGED <<count, hits, reg>> /\ Begin = "point"
    BY <1>1, <1>6, NotFree DEF Create, IInv, MainInv, work, Begin, Picalc
  <2> QED
    BY <1>3, <2>1 DEF Open
<1>7. CASE Join \/ UNCHANGED vars
  BY <1>2, <1>7 DEF Join, vars, work, Open
<1>8. ASSUME NEW t \in Thread, Lock(t) PROVE OpenInv'
  <2>1. at[t] = "lock" /\ UNCHANGED <<count, hits, reg>> /\ at' = [at EXCEPT ![t] = Locked(t)]
    BY <1>1, <1>8 DEF Lock, Go, Take, work, EndInv
  <2>2. Locked(t) = "load"
    BY DEF Locked, OddsEvens, IsWatcher, Watching
  <2> QED
    BY <1>3, <2>1, <2>2 DEF Open
<1>9. ASSUME NEW t \in Thread, Unlock(t) PROVE OpenInv'
  <2>1. at[t] = "unlock" /\ UNCHANGED <<count, hits, reg>> /\ at' = [at EXCEPT ![t] = Onward(i[t])]
    BY <1>9 DEF Unlock, Go, work, Once, IsWatcher, Watching
  <2> QED
    BY <1>3, <1>4, <1>5, <2>1 DEF Open
<1>10. ASSUME NEW t \in Thread, Load(t) PROVE OpenInv'
  <2>1. /\ at[t] = "load" /\ UNCHANGED <<count, hits>> /\ at' = [at EXCEPT ![t] = "store"]
        /\ reg' = [reg EXCEPT ![t] = count]
    BY <1>10 DEF Load, Go
  <2>2. /\ at'[t] = "store" /\ \A u \in Thread : u # t => at'[u] = at[u]
        /\ reg'[t] = count /\ \A u \in Thread : u # t => reg'[u] = reg[u]
    BY <1>1, <2>1
  <2>3. Open' = Open
    BY <1>1, <2>1, <2>2 DEF Open
  <2> QED
    BY <1>1, <2>1, <2>2, <2>3 DEF OpenInv
<1>11. ASSUME NEW t \in Thread, Store(t) PROVE OpenInv'
  <2>1. /\ at[t] = "store" /\ UNCHANGED <<hits, reg>> /\ count' = reg[t] + 1
        /\ at' = [at EXCEPT ![t] = AfterStore(t, count')]
        /\ i' = [i EXCEPT ![t] = i[t] + 1]
    BY <1>11 DEF Store, Go, Once, IsWatcher, Watching
  <2>2. AfterStore(t, count') \in {"point", "done", "unlock"}
    <3>1. ~Once(t)
      BY DEF Once, IsWatcher, Watching
    <3>2. i[t] \in 0..Rounds /\ i[t] < Rounds
      BY <1>5, <2>1, <3>1 DEF IInv, RoundsInv
    <3>3. i[t] + 1 \in 0..Rounds
      BY <3>2
    <3>4. AfterStore(t, count') = Onward(i[t] + 1) \/ AfterStore(t, count') = "unlock"
      BY DEF AfterStore, Watching
    <3> QED
      BY <1>4, <3>3, <3>4
  <2>3. at'[t] \in {"point", "done", "unlock"} /\ \A u \in Thread : u # t => at'[u] = at[u]
    BY <1>1, <2>1, <2>2
  <2>4. t \in Open
    BY <2>1 DEF Open
  <2>5. Cardinality(Open)' = Cardinality(Open) - 1
    BY <1>1, <2>3, <2>4, OpenShrinks
  <2>6. reg[t] \in Nat /\ (program = "mutex" => reg[t] = count)
    BY <1>1, <2>1 DEF IInv, RegInv
  <2>7. CASE program = "mutex"
    BY <1>1, <2>1, <2>5, <2>6, <2>7 DEF OpenInv
  <2>8. CASE program = "broken"
    <3>1. reg[t] + Cardinality(Open) <= hits
      BY <2>1, <2>8 DEF OpenInv
    <3>2. count' + Cardinality(Open)' <= hits'
      BY <1>1, <2>1, <2>5, <2>6, <3>1
    <3>3. ASSUME NEW u \in Thread, at'[u] = "store" PROVE reg'[u] + Cardinality(Open)' <= hits'
      <4>1. reg[u] + Cardinality(Open) <= hits /\ reg[u] \in Nat /\ reg'[u] = reg[u]
        BY <1>1, <2>1, <2>3, <2>8, <3>3 DEF OpenInv
      <4> QED
        BY <1>1, <2>1, <2>5, <4>1
    <3> QED
      BY <1>1, <2>8, <3>2, <3>3 DEF OpenInv
  <2> QED
    BY <2>7, <2>8
<1>12. ASSUME NEW t \in Thread, Point(t) PROVE OpenInv'
  <2>1. at[t] = "point" /\ UNCHANGED <<count, hits, reg>> /\ at' = [at EXCEPT ![t] = Onward(i[t] + 1)]
    BY <1>12 DEF Point, Go
  <2>2. i[t] \in 0..Rounds /\ i[t] < Rounds
    BY <1>5, <2>1 DEF IInv, RoundsInv
  <2>3. i[t] + 1 \in 0..Rounds
    BY <2>2
  <2> QED
    BY <1>3, <1>4, <2>1, <2>3 DEF Open
<1>13. ASSUME NEW t \in Thread, Hit(t) PROVE OpenInv'
  <2>1. PICK p \in {"lock", "load"} :
            at[t] = "point" /\ hits' = hits + 1 /\ UNCHANGED <<count, reg>> /\ at' = [at EXCEPT ![t] = p]
    BY <1>13 DEF Hit, Go
  <2>2. at'[t] = p /\ \A u \in Thread : u # t => at'[u] = at[u]
    BY <1>1, <2>1
  <2>3. t \notin Open
    BY <2>1 DEF Open
  <2>4. Cardinality(Open)' = Cardinality(Open) + 1
    BY <1>1, <2>2, <2>3, OpenGrows
  <2>5. CASE program = "mutex"
    BY <1>1, <2>1, <2>4, <2>5 DEF OpenInv
  <2>6. CASE program = "broken"
    <3>1. count' + Cardinality(Open)' <= hits'
      BY <1>1, <2>1, <2>4, <2>6 DEF OpenInv
    <3>2. ASSUME NEW u \in Thread, at'[u] = "store" PROVE reg'[u] + Cardinality(Open)' <= hits'
      <4>1. reg[u] + Cardinality(Open) <= hits /\ reg[u] \in Nat /\ reg'[u] = reg[u]
        BY <1>1, <2>1, <2>2, <2>6, <3>2 DEF OpenInv
      <4> QED
        BY <1>1, <2>1, <2>4, <4>1
    <3> QED
      BY <1>1, <2>6, <3>1, <3>2 DEF OpenInv
  <2> QED
    BY <2>5, <2>6
<1>14. ASSUME NEW t \in Thread, Peek(t) \/ Check(t) \/ Watch(t) \/ Bump(t) \/ Signal(t) \/ SpuriousWakeUp(t)
                                \/ Notify(t)
       PROVE  FALSE
  BY <1>1, <1>14 DEF Peek, Check, Watch, CondWait, Bump, Signal, SpuriousWakeUp, Notify, Wake, Go, EndInv
<1> QED
  BY <1>6, <1>7, <1>8, <1>9, <1>10, <1>11, <1>12, <1>13, <1>14 DEF Next, Main, Step

\* nocontention: what a thread has hit is owed until it is stored.
LEMMA OwedSame ==
    ASSUME Thread' = Thread, my_hits' = my_hits,
           \A u \in Thread : at[u] \in {"unlock", "done"} <=> at'[u] \in {"unlock", "done"}
    PROVE  Owed' = Owed
<1>1. \A y \in Thread \X (1..Rounds) : y[1] \in Thread
  OBVIOUS
<1> QED
  BY <1>1 DEF Owed

LEMMA OwedGrows ==
    ASSUME IInv, Thread' = Thread, NEW t \in Thread, my_hits[t] < Rounds,
           my_hits' = [my_hits EXCEPT ![t] = my_hits[t] + 1],
           \A u \in Thread : at[u] \in {"unlock", "done"} <=> at'[u] \in {"unlock", "done"},
           at[t] \notin {"unlock", "done"}
    PROVE  Cardinality(Owed)' = Cardinality(Owed) + 1
<1> DEFINE x == <<t, my_hits[t] + 1>>
<1>1. my_hits \in [Thread -> Nat] /\ program \in Program
  BY DEF IInv, ShapeInv
<1>2. /\ my_hits[t] \in Nat /\ my_hits[t] + 1 \in 1..Rounds /\ my_hits'[t] = my_hits[t] + 1
      /\ \A u \in Thread : u # t => my_hits'[u] = my_hits[u]
  BY <1>1
<1>3. x \in Thread \X (1..Rounds) /\ x \notin Owed
  BY <1>2 DEF Owed
<1>4. Owed' = Owed \cup {x}
  <2>1. ASSUME NEW u \in Thread, NEW k \in 1..Rounds
        PROVE  k <= my_hits'[u] <=> k <= my_hits[u] \/ (u = t /\ k = my_hits[t] + 1)
    <3>1. my_hits[u] \in Nat
      BY <1>1
    <3> QED
      BY <1>2, <3>1
  <2>2. \A y \in Thread \X (1..Rounds) : y[1] \in Thread /\ y[2] \in 1..Rounds /\ y = <<y[1], y[2]>>
    OBVIOUS
  <2>3. \A y \in Thread \X (1..Rounds) :
           /\ y[2] <= my_hits'[y[1]] <=> y[2] <= my_hits[y[1]] \/ y = x
           /\ at[y[1]] \in {"unlock", "done"} <=> at'[y[1]] \in {"unlock", "done"}
    BY <2>1, <2>2
  <2>4. Owed' = {y \in Thread \X (1..Rounds) : at'[y[1]] \notin {"unlock", "done"} /\ y[2] <= my_hits'[y[1]]}
    BY DEF Owed
  <2>5. at[x[1]] \notin {"unlock", "done"}
    OBVIOUS
  <2> HIDE DEF x
  <2> QED
    BY <1>3, <2>3, <2>4, <2>5 DEF Owed
<1> HIDE DEF x
<1>5. Cardinality(Owed \cup {x}) = Cardinality(Owed) + 1
  BY <1>1, <1>3, WorkFinite, FS_AddElement
<1> QED
  BY <1>4, <1>5

LEMMA OwedPaid ==
    ASSUME IInv, Thread' = Thread, NEW t \in Thread, my_hits[t] <= Rounds, my_hits' = my_hits,
           at[t] \notin {"unlock", "done"}, at'[t] \in {"unlock", "done"},
           \A u \in Thread : u # t => at'[u] = at[u]
    PROVE  Cardinality(Owed)' = Cardinality(Owed) - my_hits[t]
<1> DEFINE own == {t} \X (1..my_hits[t])
<1>1. my_hits \in [Thread -> Nat] /\ program \in Program /\ my_hits[t] \in Nat
  BY DEF IInv, ShapeInv
<1>2. IsFiniteSet(own) /\ Cardinality(own) = my_hits[t]
  <2>1. IsFiniteSet(1..my_hits[t]) /\ Cardinality(1..my_hits[t]) = my_hits[t]
    BY <1>1, UpTo
  <2>2. IsFiniteSet({t}) /\ Cardinality({t}) = 1
    BY FS_Singleton
  <2>3. Cardinality(own) = Cardinality({t}) * Cardinality(1..my_hits[t]) /\ IsFiniteSet(own)
    BY <2>1, <2>2, FS_Product
  <2> QED
    BY <1>1, <2>1, <2>2, <2>3
<1>3. own \subseteq Owed
  <2>1. \A y \in own : y[1] = t /\ y[2] \in 1..my_hits[t] /\ y \in Thread \X (1..Rounds)
    BY <1>1
  <2> HIDE DEF own
  <2> QED
    BY <1>1, <2>1 DEF Owed
<1>4. Owed' = Owed \ own
  <2>1. \A y \in Thread \X (1..Rounds) : y[1] \in Thread /\ y[2] \in 1..Rounds /\ y = <<y[1], y[2]>>
    OBVIOUS
  <2>2. \A y \in Thread \X (1..Rounds) : y \in own <=> y[1] = t /\ y[2] <= my_hits[t]
    BY <1>1, <2>1
  <2>3. Owed' = {y \in Thread \X (1..Rounds) : at'[y[1]] \notin {"unlock", "done"} /\ y[2] <= my_hits[y[1]]}
    BY DEF Owed
  <2> HIDE DEF own
  <2> QED
    BY <2>1, <2>2, <2>3 DEF Owed
<1> HIDE DEF own
<1>5. Owed \cap own = own
  BY <1>3
<1>6. Cardinality(Owed \ own) = Cardinality(Owed) - my_hits[t]
  <2>1. IsFiniteSet(Owed)
    BY <1>1, WorkFinite
  <2>2. Cardinality(Owed \ own) = Cardinality(Owed) - Cardinality(Owed \cap own)
    BY <2>1, FS_Difference
  <2> QED
    BY <1>2, <1>5, <2>2
<1> QED
  BY <1>4, <1>6

OwedInv ==
    /\ \A t \in Thread : my_hits[t] <= i[t]
    /\ hits = count + Cardinality(Owed)

LEMMA NextOwed ==
    ASSUME IInv, EndInv, [Next]_vars, program = "nocontention", OwedInv
    PROVE  OwedInv'
<1>1. /\ program \in Program /\ program' = program /\ Thread' = Thread
      /\ count \in Nat /\ hits \in Nat /\ Cardinality(Owed) \in Nat
      /\ at \in [Thread -> Place] /\ i \in [Thread -> 0..Rounds] /\ my_hits \in [Thread -> Nat]
      /\ program \in Picalc
  BY ProgramKept, WorkFinite DEF IInv, ShapeInv, Picalc
<1>2. ASSUME UNCHANGED <<count, hits, my_hits, i>>,
             \A u \in Thread : at[u] \in {"unlock", "done"} <=> at'[u] \in {"unlock", "done"}
      PROVE  OwedInv'
  <2>1. Owed' = Owed
    BY <1>1, <1>2, OwedSame
  <2> QED
    BY <1>1, <1>2, <2>1 DEF OwedInv
<1>3. ASSUME NEW t \in Thread, NEW p, at' = [at EXCEPT ![t] = p], UNCHANGED <<count, hits, my_hits, i>>,
             at[t] \in {"unlock", "done"} <=> p \in {"unlock", "done"}
      PROVE  OwedInv'
  <2>1. at'[t] = p /\ \A u \in Thread : u # t => at'[u] = at[u]
    BY <1>1, <1>3
  <2> QED
    BY <1>2, <1>3, <2>1
<1>4. CASE Create
  <2>1. created \in Thread /\ at[created] = "unborn" /\ at' = [at EXCEPT ![created] = "point"]
        /\ UNCHANGED <<count, hits, my_hits, i>>
    BY <1>1, <1>4, NotFree DEF Create, IInv, MainInv, work, Begin
  <2> QED
    BY <1>3, <2>1
<1>5. CASE Join \/ UNCHANGED vars
  BY <1>2, <1>5 DEF Join, vars, work
<1>6. ASSUME NEW t \in Thread, Lock(t) PROVE OwedInv'
  <2>1. at[t] = "lock" /\ UNCHANGED <<count, hits, my_hits, i>> /\ at' = [at EXCEPT ![t] = "load"]
    BY <1>1, <1>6 DEF Lock, Go, Take, work, EndInv, Locked, OddsEvens, IsWatcher, Watching
  <2> QED
    BY <1>3, <2>1
<1>7. ASSUME NEW t \in Thread, Unlock(t) PROVE OwedInv'
  <2>1. at[t] = "unlock" /\ UNCHANGED <<count, hits, my_hits, i>> /\ at' = [at EXCEPT ![t] = "done"]
    BY <1>7 DEF Unlock, Go, work, Once
  <2> QED
    BY <1>3, <2>1
<1>8. ASSUME NEW t \in Thread, Load(t) PROVE OwedInv'
  <2>1. at[t] = "load" /\ UNCHANGED <<count, hits, my_hits, i>> /\ at' = [at EXCEPT ![t] = "store"]
    BY <1>8 DEF Load, Go
  <2> QED
    BY <1>3, <2>1
<1>9. ASSUME NEW t \in Thread, Store(t) PROVE OwedInv'
  <2>1. /\ at[t] = "store" /\ UNCHANGED <<hits, my_hits, i>> /\ count' = reg[t] + my_hits[t]
        /\ at' = [at EXCEPT ![t] = "unlock"]
    BY <1>9 DEF Store, Go, Once, AfterStore, Watching
  <2>2. at'[t] = "unlock" /\ \A u \in Thread : u # t => at'[u] = at[u]
    BY <1>1, <2>1
  <2>3. reg[t] = count /\ my_hits[t] <= i[t] /\ i[t] \in 0..Rounds /\ my_hits[t] \in Nat
    BY <1>1, <2>1 DEF IInv, RegInv, OwedInv
  <2>4. my_hits[t] <= Rounds
    BY <2>3
  <2>5. Cardinality(Owed)' = Cardinality(Owed) - my_hits[t]
    BY <1>1, <2>1, <2>2, <2>4, OwedPaid
  <2>6. hits' = count' + Cardinality(Owed)'
    BY <1>1, <2>1, <2>3, <2>5 DEF OwedInv
  <2> QED
    BY <1>1, <2>1, <2>6 DEF OwedInv
<1>10. ASSUME NEW t \in Thread, Point(t) PROVE OwedInv'
  <2>1. /\ at[t] = "point" /\ count' = count /\ at' = [at EXCEPT ![t] = Onward(i[t] + 1)]
        /\ i' = [i EXCEPT ![t] = i[t] + 1]
        /\ \/ UNCHANGED <<my_hits, hits>>
           \/ my_hits' = [my_hits EXCEPT ![t] = my_hits[t] + 1] /\ hits' = hits + 1
    BY <1>10 DEF Point, Go
  <2>2. i[t] \in 0..Rounds /\ i[t] < Rounds /\ my_hits[t] <= i[t] /\ my_hits[t] \in Nat
    BY <1>1, <2>1 DEF IInv, RoundsInv, OwedInv
  <2>3. Onward(i[t] + 1) \in {"point", "lock"}
    BY DEF Onward, Begin, Picalc
  <2>4. \A u \in Thread : at[u] \in {"unlock", "done"} <=> at'[u] \in {"unlock", "done"}
    BY <1>1, <2>1, <2>3
  <2>5. i'[t] = i[t] + 1 /\ \A u \in Thread : u # t => i'[u] = i[u]
    BY <1>1, <2>1
  <2>6. CASE UNCHANGED <<my_hits, hits>>
    <3>1. Owed' = Owed
      BY <1>1, <2>4, <2>6, OwedSame
    <3>2. \A u \in Thread : my_hits'[u] <= i'[u]
      <4>1. \A u \in Thread : u # t => my_hits'[u] <= i'[u]
        BY <2>5, <2>6 DEF OwedInv
      <4>2. my_hits'[t] <= i'[t]
        BY <2>2, <2>5, <2>6
      <4> QED
        BY <4>1, <4>2
    <3>3. hits' = count' + Cardinality(Owed')
      BY <2>1, <2>6, <3>1 DEF OwedInv
    <3> QED
      BY <1>1, <3>2, <3>3 DEF OwedInv
  <2>7. CASE my_hits' = [my_hits EXCEPT ![t] = my_hits[t] + 1] /\ hits' = hits + 1
    <3>1. my_hits[t] < Rounds
      BY <2>2
    <3>2. Cardinality(Owed)' = Cardinality(Owed) + 1
      BY <1>1, <2>1, <2>4, <2>7, <3>1, OwedGrows
    <3>3. my_hits'[t] = my_hits[t] + 1 /\ \A u \in Thread : u # t => my_hits'[u] = my_hits[u]
      BY <1>1, <2>7
    <3>4. \A u \in Thread : my_hits'[u] <= i'[u]
      <4>1. \A u \in Thread : u # t => my_hits'[u] <= i'[u]
        BY <2>5, <3>3 DEF OwedInv
      <4>2. my_hits'[t] <= i'[t]
        BY <2>2, <2>5, <3>3
      <4> QED
        BY <4>1, <4>2
    <3>5. hits' = count' + Cardinality(Owed)'
      BY <1>1, <2>1, <2>7, <3>2 DEF OwedInv
    <3> QED
      BY <1>1, <3>4, <3>5 DEF OwedInv
  <2> QED
    BY <2>1, <2>6, <2>7
<1>11. ASSUME NEW t \in Thread, Hit(t) \/ Peek(t) \/ Check(t) \/ Watch(t) \/ Bump(t) \/ Signal(t)
                                \/ SpuriousWakeUp(t) \/ Notify(t)
       PROVE  FALSE
  BY <1>1, <1>11 DEF Hit, Peek, Check, Watch, CondWait, Bump, Signal, SpuriousWakeUp, Notify, Wake, Go, EndInv
<1> QED
  BY <1>4, <1>5, <1>6, <1>7, <1>8, <1>9, <1>10, <1>11 DEF Next, Main, Step

LEMMA InitWork == Init => EndInv /\ CountInv
<1> SUFFICES ASSUME Init PROVE EndInv /\ CountInv
  OBVIOUS
<1>1. IInv
  BY InitInv
<1>2. \A t \in Thread : t \in Nat
  BY <1>1, NotFree DEF IInv, ShapeInv
<1>3. EndInv
  BY <1>2 DEF Init, EndInv
<1>4. Done = {} /\ Open = {} /\ Owed = {}
  BY DEF Init, Done, Open, Owed
<1>5. Cardinality({}) = 0
  BY FS_EmptySet
<1> QED
  BY <1>3, <1>4, <1>5 DEF Init, CountInv

LEMMA NextCount == IInv /\ EndInv /\ CountInv /\ [Next]_vars => CountInv'
<1> SUFFICES ASSUME IInv, EndInv, CountInv, [Next]_vars PROVE CountInv'
  OBVIOUS
<1>1. program' = program
  BY ProgramKept
<1>2. CASE program \notin Picalc
  <2>1. count' = Cardinality(Done)' + 125 * bumps'
    BY <1>2, NextDone DEF CountInv
  <2> QED
    BY <1>1, <1>2, <2>1 DEF CountInv, Picalc
<1>3. CASE program \in {"mutex", "broken"}
  <2>1. OpenInv'
    BY <1>3, NextOpen DEF CountInv, OpenInv
  <2> QED
    BY <1>1, <1>3, <2>1 DEF CountInv, OpenInv, Picalc
<1>4. CASE program = "nocontention"
  <2>1. OwedInv'
    BY <1>4, NextOwed DEF CountInv, OwedInv
  <2> QED
    BY <1>1, <1>4, <2>1 DEF CountInv, OwedInv, Picalc
<1> QED
  BY <1>2, <1>3, <1>4 DEF Picalc

\* For any number of threads and rounds: what main reports when it has joined all
\* of them is the work that was done, each increment once, plus 125 for each time
\* that watch_count has woken up; picalc_broken reports no hit that there was not.
THEOREM WorkIsCounted == Spec => []CountIsWork
<1>1. IInv /\ EndInv /\ CountInv => CountIsWork
  <2> SUFFICES ASSUME IInv, EndInv, CountInv, AllJoined
               PROVE  CASE program \in OddsEvens -> count = 2 * Pairs * Rounds
                        [] program \in Watching  -> count = 2 * Rounds + 125 * bumps
                        [] program = "broken"    -> count <= hits
                        [] OTHER                 -> count = hits
    BY DEF CountIsWork
  <2>1. program \in Program /\ count \in Nat /\ bumps \in Nat /\ hits \in Nat
        /\ i \in [Thread -> 0..Rounds] /\ my_hits \in [Thread -> Nat]
    BY DEF IInv, ShapeInv
  <2>2. \A t \in Thread : at[t] = "done"
    <3>1. PICK n \in Nat \ {0} : Thread = 0..(n - 1)
      BY <2>1, ThreadRange
    <3>2. joined \in Nat /\ joined >= n
      BY <3>1 DEF IInv, MainInv, AllJoined
    <3>3. \A t \in Thread : t < joined
      BY <3>1, <3>2
    <3> QED
      BY <3>3 DEF EndInv
  <2>3. CASE program \in OddsEvens
    <3>1. Thread = 0..(2 * Pairs - 1) /\ program \notin Picalc /\ program # "bump"
      BY <2>3 DEF Thread, OddsEvens, Watching, Picalc
    <3>2. Cardinality(Thread) = 2 * Pairs
      BY <3>1, FS_Interval
    <3>3. \A t \in Thread : i[t] = Rounds
      BY <2>2, <2>3 DEF EndInv, Once, IsWatcher, OddsEvens, Watching
    <3>4. Done = Thread \X (1..Rounds)
      BY <3>3 DEF Done
    <3>5. Cardinality(Done) = 2 * Pairs * Rounds
      BY <2>1, <3>2, <3>4, ThreadsFinite
    <3>6. bumps = 0
      BY <3>1 DEF EndInv
    <3>7. count = Cardinality(Done) + 125 * bumps
      BY <3>1 DEF CountInv
    <3>8. count = 2 * Pairs * Rounds
      BY <2>1, <3>5, <3>6, <3>7
    <3> QED
      BY <2>3, <3>8 DEF OddsEvens, Watching
  <2>4. CASE program \in Watching
    <3>1. Thread = 0..2 /\ program \notin Picalc /\ program \notin OddsEvens /\ program # "broken"
      BY <2>4 DEF Thread, OddsEvens, Watching, Picalc
    <3>2. i[0] = 0 /\ i[1] = Rounds /\ i[2] = Rounds
      <4>1. IsWatcher(0) /\ ~Once(1) /\ ~Once(2)
        BY <2>4 DEF Once, IsWatcher, Watcher, Watching
      <4> QED
        BY <2>2, <3>1, <4>1 DEF EndInv
    <3>3. Done = (1..2) \X (1..Rounds)
      <4>1. \A y \in Thread \X (1..Rounds) : y[1] \in 0..2 /\ y[2] \in 1..Rounds /\ y = <<y[1], y[2]>>
        BY <3>1
      <4>2. \A y \in Thread \X (1..Rounds) : y[2] <= i[y[1]] <=> y[1] \in 1..2
        <5>1. ASSUME NEW u \in 0..2, NEW k \in 1..Rounds PROVE k <= i[u] <=> u \in 1..2
          <6>1. u = 0 \/ u = 1 \/ u = 2
            OBVIOUS
          <6> QED
            BY <3>2, <6>1
        <5> QED
          BY <4>1, <5>1
      <4>3. \A y \in (1..2) \X (1..Rounds) : y \in Thread \X (1..Rounds) /\ y[1] \in 1..2
        BY <3>1
      <4> QED
        BY <4>1, <4>2, <4>3 DEF Done
    <3>4. Cardinality(Done) = 2 * Rounds
      <4>1. /\ IsFiniteSet(1..2) /\ Cardinality(1..2) = 2
            /\ IsFiniteSet(1..Rounds) /\ Cardinality(1..Rounds) = Rounds
        BY UpTo
      <4>2. Cardinality((1..2) \X (1..Rounds)) = Cardinality(1..2) * Cardinality(1..Rounds)
        BY <4>1, FS_Product
      <4> QED
        BY <3>3, <4>1, <4>2
    <3>5. count = Cardinality(Done) + 125 * bumps
      BY <3>1 DEF CountInv
    <3>6. count = 2 * Rounds + 125 * bumps
      BY <3>4, <3>5
    <3> QED
      BY <2>4, <3>1, <3>6
  <2>5. CASE program \in Picalc
    <3>1. program \notin OddsEvens /\ program \notin Watching
      BY <2>5 DEF OddsEvens, Watching, Picalc
    <3>2. Open = {} /\ Owed = {}
      <4>1. \A y \in Thread \X (1..Rounds) : y[1] \in Thread
        OBVIOUS
      <4> QED
        BY <2>2, <4>1 DEF Open, Owed
    <3>3. Cardinality({}) = 0
      BY FS_EmptySet
    <3>4. program = "broken" => count <= hits
      BY <2>1, <3>2, <3>3 DEF CountInv
    <3>5. program # "broken" => count = hits
      BY <2>1, <2>5, <3>2, <3>3 DEF CountInv, Picalc
    <3> QED
      BY <3>1, <3>4, <3>5
  <2> QED
    BY <2>1, <2>3, <2>4, <2>5 DEF Program
<1> QED
  BY <1>1, InitInv, InitWork, NextInv, NextEnd, NextCount, PTL DEF Spec

=============================================================================
