------------------------------- MODULE SemDemo -------------------------------
(***************************************************************************)
(* semdemo.c of notes/10-ipc-code: any number of processes that lock and   *)
(* unlock a semaphore, which whoever comes first makes and sets up.        *)
(*                                                                         *)
(* semget makes the set with the value 0 and with sem_otime 0; the value   *)
(* becomes 1 by a semop of its maker, who waits for its user before, and   *)
(* the first semop sets sem_otime, for which the others poll.  The lock is *)
(* taken and given back with SEM_UNDO: the kernel keeps a semadj for the   *)
(* process and adds it to the value when the process ends, in whatever     *)
(* way.  A user may kill a process at any point, and need not press return *)
(* where getchar waits for it.                                             *)
(*                                                                         *)
(* The set outlives the processes: the first states are those in which     *)
(* earlier processes may have left it.                                     *)
(***************************************************************************)
EXTENDS Integers

CONSTANTS Process,       \* the processes that run semdemo
          MAX_RETRIES    \* looks at sem_otime

ASSUME SemDemoAssumption == MAX_RETRIES \in Nat \ {0}

VARIABLES
    exists,         \* whether there is a semaphore set
    semval,         \* its value
    sem_otime,      \* whether sem_otime is not 0
    semadj,         \* what the kernel adds to the value when a process ends
    pc,             \* where each process is
    retries         \* initsem's i

semset  == <<exists, semval, sem_otime>>
semVars == <<semset, semadj, pc, retries>>

SemTypeOK ==
    /\ exists \in BOOLEAN
    /\ semval \in Int
    /\ sem_otime \in BOOLEAN
    /\ semadj \in [Process -> Int]
    /\ pc \in [Process -> {"semget", "made", "poll", "ready", "lock", "locked", "unlocked", "gone"}]
    /\ retries \in [Process -> 0..MAX_RETRIES]

\* No set; one whose maker was killed ahead of its semop; one in good order.
SemInit ==
    /\ \/ exists = FALSE /\ semval = 0 /\ sem_otime = FALSE
       \/ exists = TRUE  /\ semval = 0 /\ sem_otime = FALSE
       \/ exists = TRUE  /\ semval = 1 /\ sem_otime = TRUE
    /\ semadj = [p \in Process |-> 0]
    /\ pc = [p \in Process |-> "semget"]
    /\ retries = [p \in Process |-> 0]

-----------------------------------------------------------------------------
(* initsem *)

\* Faulty: without IPC_EXCL everybody gets the set and sets it up.
SemgetShared(p) ==
    /\ pc[p] = "semget"
    /\ pc' = [pc EXCEPT ![p] = "made"]
    /\ exists' = TRUE
    /\ UNCHANGED <<semval, sem_otime, semadj, retries>>

\* semget with IPC_CREAT | IPC_EXCL, and semget again if the set is there:
\* nothing removes it, as the semop after which it would be does not fail.
Semget(p) ==
    /\ pc[p] = "semget"
    /\ pc' = [pc EXCEPT ![p] = IF exists THEN "poll" ELSE "made"]
    /\ exists' = TRUE
    /\ UNCHANGED <<semval, sem_otime, semadj, retries>>

\* The maker's user has pressed return: semop(+1), without SEM_UNDO.
Free(p) ==
    /\ pc[p] = "made"
    /\ pc' = [pc EXCEPT ![p] = "ready"]
    /\ semval' = semval + 1
    /\ sem_otime' = TRUE
    /\ UNCHANGED <<exists, semadj, retries>>

FoundReady(p) ==
    /\ pc[p] = "poll"
    /\ sem_otime
    /\ pc' = [pc EXCEPT ![p] = "ready"]
    /\ UNCHANGED <<semset, semadj, retries>>

\* Faulty: the looks are not counted.
PollsOn(p) ==
    /\ pc[p] = "poll"
    /\ ~sem_otime
    /\ UNCHANGED semVars

\* A look in vain, and sleep(1); after the last one initsem fails with ETIME.
NotReady(p) ==
    /\ pc[p] = "poll"
    /\ ~sem_otime
    /\ retries' = [retries EXCEPT ![p] = @ + 1]
    /\ pc' = [pc EXCEPT ![p] = IF retries[p] + 1 < MAX_RETRIES THEN "poll" ELSE "gone"]
    /\ UNCHANGED <<semset, semadj>>

-----------------------------------------------------------------------------
(* main *)

PressToLock(p) ==
    /\ pc[p] = "ready"
    /\ pc' = [pc EXCEPT ![p] = "lock"]
    /\ UNCHANGED <<semset, semadj, retries>>

\* Faulty: the lock is taken without SEM_UNDO.
LockForGood(p) ==
    /\ pc[p] = "lock"
    /\ semval > 0
    /\ pc' = [pc EXCEPT ![p] = "locked"]
    /\ semval' = semval - 1
    /\ UNCHANGED <<exists, sem_otime, semadj, retries>>

\* semop(-1) with SEM_UNDO
Lock(p) ==
    /\ pc[p] = "lock"
    /\ semval > 0
    /\ pc' = [pc EXCEPT ![p] = "locked"]
    /\ semval' = semval - 1
    /\ semadj' = [semadj EXCEPT ![p] = @ + 1]
    /\ UNCHANGED <<exists, sem_otime, retries>>

\* Faulty: the lock is given back without SEM_UNDO.
UnlockNoUndo(p) ==
    /\ pc[p] = "locked"
    /\ pc' = [pc EXCEPT ![p] = "unlocked"]
    /\ semval' = semval + 1
    /\ UNCHANGED <<exists, sem_otime, semadj, retries>>

\* The user has pressed return: semop(+1), the flag is still SEM_UNDO.
Unlock(p) ==
    /\ pc[p] = "locked"
    /\ pc' = [pc EXCEPT ![p] = "unlocked"]
    /\ semval' = semval + 1
    /\ semadj' = [semadj EXCEPT ![p] = @ - 1]
    /\ UNCHANGED <<exists, sem_otime, retries>>

\* The end of a process, at which the kernel undoes what it has to.
End(p) ==
    /\ pc' = [pc EXCEPT ![p] = "gone"]
    /\ semval' = semval + semadj[p]
    /\ semadj' = [semadj EXCEPT ![p] = 0]
    /\ UNCHANGED <<exists, sem_otime, retries>>

Return(p) == pc[p] = "unlocked" /\ End(p)

Kill(p) == pc[p] # "gone" /\ End(p)

-----------------------------------------------------------------------------

\* What a process does without its user.
semdemo(p) == Semget(p) \/ FoundReady(p) \/ NotReady(p) \/ Lock(p) \/ Return(p)

SemNext == \E p \in Process : semdemo(p) \/ Free(p) \/ PressToLock(p) \/ Unlock(p) \/ Kill(p)

SemSpec == SemInit /\ [][SemNext]_semVars

-----------------------------------------------------------------------------
(* Properties *)

Holders == {p \in Process : pc[p] = "locked"}

\* Once set up, the semaphore is free, or it is in one process's hands, who can
\* give it back: no kill at any point loses it or doubles it.  Until then nobody
\* has it.
FreeOrHeld ==
    /\ ~sem_otime => semval = 0 /\ Holders = {}
    /\ sem_otime => \/ semval = 1 /\ Holders = {}
                    \/ semval = 0 /\ \E p \in Process : Holders = {p}

\* semdemo is a lock: it has one holder at a time, whatever process is killed
\* when, and goes from hand to hand by way of being free.
FLock == INSTANCE FileLock WITH holders <- Holders
LockSpec == FLock!Spec

\* Nobody waits for ever for a lock that nobody has, even if its last holder was
\* killed, nor at the semaphore's set-up, even if its maker was.
NobodyWaitsInVain ==
    \A p \in Process :
        /\ []<>(pc[p] # "lock" \/ Holders # {})
        /\ pc[p] = "poll" ~> pc[p] # "poll"

=============================================================================
