------------------------------- MODULE FileLock -------------------------------
(***************************************************************************)
(* What a lock promises to the processes that use it: one holder at a      *)
(* time, and whoever holds it gives it up itself, be it because it lets go *)
(* or because it ends.  semdemo.c calls itself a demonstration of          *)
(* "semaphore use as a file locking mechanism": SemDemo implements this.   *)
(***************************************************************************)
CONSTANT Process

VARIABLE holders     \* the processes that have the lock

Init == holders = {}

Acquire(p) == holders = {} /\ holders' = {p}

Release(p) == holders = {p} /\ holders' = {}

Next == \E p \in Process : Acquire(p) \/ Release(p)

Spec == Init /\ [][Next]_holders

=============================================================================
