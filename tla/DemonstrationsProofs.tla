------------------------ MODULE DemonstrationsProofs ------------------------
(***************************************************************************)
(* Proofs about the demonstrations, each of which is a specification of    *)
(* its own: for any number of processes, kirks and spocks, servers and     *)
(* clients, lines and iterations, whoever is killed and whenever that is.  *)
(***************************************************************************)
EXTENDS SemDemo, KirkSpock, Signals, Families, Sockets, Writers,
        FiniteSetTheorems, SequenceTheorems, TLAPS

-----------------------------------------------------------------------------
(* semdemo: the semaphore is free or held, and is a lock *)

\* The set is set up once, by the one process that has made it.
MakerInv ==
    /\ sem_otime => exists
    /\ \A p \in Process : pc[p] = "made" => exists /\ ~sem_otime
    /\ \A p, q \in Process : pc[p] = "made" /\ pc[q] = "made" => p = q

\* Nobody is past initsem before that.
EnteredInv ==
    \A p \in Process : pc[p] \in {"ready", "lock", "locked", "unlocked"} => sem_otime

\* The kernel gives back what a process has, and nothing else.
UndoInv == \A p \in Process : semadj[p] = IF pc[p] = "locked" THEN 1 ELSE 0

\* Whoever polls has a look left.
RetriesInv == \A p \in Process : pc[p] \in {"semget", "poll"} => retries[p] < MAX_RETRIES

SemInv == SemTypeOK /\ RetriesInv /\ MakerInv /\ EnteredInv /\ UndoInv /\ FreeOrHeld

-----------------------------------------------------------------------------

LEMMA SemInitInv == SemInit => SemInv
<1> SUFFICES ASSUME SemInit PROVE SemInv
    OBVIOUS
<1> USE DEF SemInit
<1>1. SemTypeOK
    <2>1. semval \in Int
        OBVIOUS
    <2>2. exists \in BOOLEAN /\ sem_otime \in BOOLEAN
        BY Zenon
    <2>3. retries \in [Process -> 0..MAX_RETRIES]
        BY SemDemoAssumption
    <2>4. semadj \in [Process -> Int]
        OBVIOUS
    <2> QED
        BY <2>1, <2>2, <2>3, <2>4 DEF SemTypeOK
<1>2. MakerInv /\ EnteredInv /\ UndoInv /\ RetriesInv
    BY SemDemoAssumption DEF MakerInv, EnteredInv, UndoInv, RetriesInv
<1>3. Holders = {}
    BY DEF Holders
<1>4. FreeOrHeld
    BY <1>3 DEF FreeOrHeld
<1> QED
    BY <1>1, <1>2, <1>4 DEF SemInv

\* A step after which the same processes hold the lock.
LEMMA SameHolders ==
    ASSUME NEW p \in Process, SemTypeOK,
           NEW to, to # "locked", pc[p] # "locked",
           pc' = [pc EXCEPT ![p] = to]
    PROVE  Holders' = Holders
BY DEF Holders, SemTypeOK

LEMMA SemgetInv ==
    ASSUME SemInv, NEW p \in Process, Semget(p)
    PROVE  SemInv'
<1> USE DEF SemInv, Semget, semset
<1>1. SemTypeOK'
    BY DEF SemTypeOK
<1>2. MakerInv'
    BY DEF SemTypeOK, MakerInv
<1>3. EnteredInv' /\ UndoInv' /\ RetriesInv'
    BY DEF SemTypeOK, EnteredInv, UndoInv, RetriesInv
<1>4. Holders' = Holders
    BY SameHolders
<1>5. FreeOrHeld'
    BY <1>4 DEF FreeOrHeld
<1> QED
    BY <1>1, <1>2, <1>3, <1>5

\* The maker's semop finds the value 0, since nobody else has done any.
LEMMA FreeInv ==
    ASSUME SemInv, NEW p \in Process, Free(p)
    PROVE  SemInv'
<1> USE DEF SemInv, Free, semset
<1>1. SemTypeOK'
    BY DEF SemTypeOK
<1>2. MakerInv'
    BY DEF SemTypeOK, MakerInv
<1>3. EnteredInv' /\ UndoInv' /\ RetriesInv'
    BY DEF SemTypeOK, EnteredInv, UndoInv, RetriesInv
<1>4. Holders' = Holders
    BY SameHolders
<1>5. ~sem_otime
    BY DEF MakerInv
<1>6. FreeOrHeld'
    BY <1>4, <1>5 DEF FreeOrHeld, SemTypeOK
<1> QED
    BY <1>1, <1>2, <1>3, <1>6

LEMMA PollInv ==
    ASSUME SemInv, NEW p \in Process, FoundReady(p) \/ NotReady(p)
    PROVE  SemInv'
<1> USE SemDemoAssumption DEF SemInv, FoundReady, NotReady, semset
<1>1. SemTypeOK'
    <2>1. CASE FoundReady(p)
        BY <2>1 DEF SemTypeOK
    <2>2. CASE NotReady(p)
        <3>1. pc' \in [Process -> {"semget", "made", "poll", "ready", "lock", "locked", "unlocked", "gone"}]
            BY <2>2 DEF SemTypeOK
        <3>2. PICK r \in 0..MAX_RETRIES : retries[p] = r
            BY DEF SemTypeOK
        <3>3. r + 1 \in 0..MAX_RETRIES
            BY <2>2, <3>2 DEF RetriesInv
        <3> QED
            BY <2>2, <3>1, <3>2, <3>3 DEF SemTypeOK
    <2> QED
        BY <2>1, <2>2
<1>2. MakerInv'
    BY DEF SemTypeOK, MakerInv
<1>3. EnteredInv' /\ UndoInv' /\ RetriesInv'
    BY DEF SemTypeOK, EnteredInv, UndoInv, RetriesInv
<1>4. Holders' = Holders
    BY DEF SemTypeOK, Holders
<1>5. FreeOrHeld'
    BY <1>4 DEF FreeOrHeld
<1> QED
    BY <1>1, <1>2, <1>3, <1>5

LEMMA PressInv ==
    ASSUME SemInv, NEW p \in Process, PressToLock(p)
    PROVE  SemInv'
<1> USE DEF SemInv, PressToLock, semset
<1>1. SemTypeOK'
    BY DEF SemTypeOK
<1>2. MakerInv' /\ EnteredInv' /\ UndoInv' /\ RetriesInv'
    BY DEF SemTypeOK, MakerInv, EnteredInv, UndoInv, RetriesInv
<1>3. Holders' = Holders
    BY SameHolders
<1>4. FreeOrHeld'
    BY <1>3 DEF FreeOrHeld
<1> QED
    BY <1>1, <1>2, <1>4

LEMMA LockInv ==
    ASSUME SemInv, NEW p \in Process, Lock(p)
    PROVE  SemInv' /\ Holders = {} /\ Holders' = {p}
<1> USE DEF SemInv, Lock
<1>1. SemTypeOK'
    BY DEF SemTypeOK
<1>2. MakerInv' /\ EnteredInv' /\ UndoInv' /\ RetriesInv'
    BY DEF SemTypeOK, MakerInv, EnteredInv, UndoInv, RetriesInv
<1>3. sem_otime /\ semval = 1 /\ Holders = {}
    BY DEF EnteredInv, FreeOrHeld
<1>4. Holders' = {p}
    BY <1>3 DEF SemTypeOK, Holders
<1>5. FreeOrHeld'
    BY <1>3, <1>4 DEF FreeOrHeld
<1> QED
    BY <1>1, <1>2, <1>3, <1>4, <1>5

LEMMA UnlockInv ==
    ASSUME SemInv, NEW p \in Process, Unlock(p)
    PROVE  SemInv' /\ Holders = {p} /\ Holders' = {}
<1> USE DEF SemInv, Unlock
<1>1. SemTypeOK'
    BY DEF SemTypeOK
<1>2. MakerInv' /\ EnteredInv' /\ UndoInv' /\ RetriesInv'
    BY DEF SemTypeOK, MakerInv, EnteredInv, UndoInv, RetriesInv
<1>3. sem_otime /\ p \in Holders
    BY DEF EnteredInv, Holders
<1>4. semval = 0 /\ Holders = {p}
    BY <1>3 DEF FreeOrHeld
<1>5. Holders' = {}
    BY <1>4 DEF SemTypeOK, Holders
<1>6. FreeOrHeld'
    BY <1>3, <1>4, <1>5 DEF FreeOrHeld
<1> QED
    BY <1>1, <1>2, <1>4, <1>5, <1>6

\* The end of a process gives back the lock it has, and changes nothing if it has
\* none, even if it has had it.
LEMMA EndInv ==
    ASSUME SemInv, NEW p \in Process, End(p)
    PROVE  SemInv' /\ (\/ Holders' = Holders
                       \/ Holders = {p} /\ Holders' = {})
<1> USE DEF SemInv, End
<1>1. SemTypeOK'
    BY DEF SemTypeOK
<1>2. MakerInv' /\ EnteredInv' /\ UndoInv' /\ RetriesInv'
    BY DEF SemTypeOK, MakerInv, EnteredInv, UndoInv, RetriesInv
<1>3. CASE pc[p] = "locked"
    <2>1. sem_otime /\ p \in Holders
        BY <1>3 DEF EnteredInv, Holders
    <2>2. semval = 0 /\ Holders = {p}
        BY <2>1 DEF FreeOrHeld
    <2>3. Holders' = {}
        BY <2>2 DEF SemTypeOK, Holders
    <2>4. semval' = 1
        BY <1>3, <2>2 DEF UndoInv
    <2>5. FreeOrHeld'
        BY <2>1, <2>3, <2>4 DEF FreeOrHeld
    <2> QED
        BY <1>1, <1>2, <2>2, <2>3, <2>5
<1>4. CASE pc[p] # "locked"
    <2>1. Holders' = Holders
        BY <1>4, SameHolders
    <2>2. semval' = semval
        BY <1>4 DEF UndoInv, SemTypeOK
    <2>3. FreeOrHeld'
        BY <2>1, <2>2 DEF FreeOrHeld
    <2> QED
        BY <1>1, <1>2, <2>1, <2>3
<1> QED
    BY <1>3, <1>4

-----------------------------------------------------------------------------

LEMMA SemStepInv == SemInv /\ [SemNext]_semVars => SemInv'
<1> SUFFICES ASSUME SemInv, [SemNext]_semVars PROVE SemInv'
    OBVIOUS
<1>1. CASE UNCHANGED semVars
    BY <1>1 DEF SemInv, semVars, semset, SemTypeOK, RetriesInv, MakerInv, EnteredInv, UndoInv, FreeOrHeld, Holders
<1>2. ASSUME NEW p \in Process,
             semdemo(p) \/ Free(p) \/ PressToLock(p) \/ Unlock(p) \/ Kill(p)
      PROVE  SemInv'
    BY <1>2, SemgetInv, FreeInv, PollInv, PressInv, LockInv, UnlockInv, EndInv
       DEF semdemo, Return, Kill
<1> QED
    BY <1>1, <1>2 DEF SemNext

\* At any time the semaphore's value and the processes between lock and unlock
\* make one: semdemo.c neither loses the lock nor gives it to two.
THEOREM SemaphoreIsWhole == SemSpec => []FreeOrHeld
<1>1. SemInv => FreeOrHeld
    BY DEF SemInv
<1> QED
    BY <1>1, SemInitInv, SemStepInv, PTL DEF SemSpec

\* semdemo.c is the lock that FileLock describes.
THEOREM SemDemoIsLock == SemSpec => LockSpec
<1>1. SemInit => FLock!Init
    BY DEF SemInit, FLock!Init, Holders
<1>2. SemInv /\ [SemNext]_semVars => [FLock!Next]_Holders
    <2> SUFFICES ASSUME SemInv, [SemNext]_semVars PROVE FLock!Next \/ Holders' = Holders
        OBVIOUS
    <2> USE DEF FLock!Next, FLock!Acquire, FLock!Release
    <2>1. CASE UNCHANGED semVars
        BY <2>1 DEF semVars, Holders
    <2>2. ASSUME NEW p \in Process, Lock(p)
          PROVE  FLock!Next
        BY <2>2, LockInv
    <2>3. ASSUME NEW p \in Process, Unlock(p)
          PROVE  FLock!Next
        BY <2>3, UnlockInv
    <2>4. ASSUME NEW p \in Process, Return(p) \/ Kill(p)
          PROVE  FLock!Next \/ Holders' = Holders
        BY <2>4, EndInv DEF Return, Kill
    <2>5. ASSUME NEW p \in Process,
                 Semget(p) \/ Free(p) \/ FoundReady(p) \/ NotReady(p) \/ PressToLock(p)
          PROVE  Holders' = Holders
        BY <2>5 DEF SemInv, SemTypeOK, Holders, Semget, Free, FoundReady, NotReady, PressToLock
    <2> QED
        BY <2>1, <2>2, <2>3, <2>4, <2>5 DEF SemNext, semdemo
<1> QED
    BY <1>1, <1>2, SemInitInv, SemStepInv, PTL DEF SemSpec, LockSpec, FLock!Spec

-----------------------------------------------------------------------------
(* kirk and spock: one message for each who waits *)

\* Who is past msgget has an id, and without a queue there is nothing to count.
IdInv ==
    /\ \A p \in Crew : at[p] \in {"fgets", "msgsnd", "msgrcv"} => msqid[p] # 0
    /\ queue = 0 => msgs = 0 /\ unclaimed = 0

MsgInv == MsgTypeOK /\ IdInv /\ OneMessagePerWaiter

-----------------------------------------------------------------------------

LEMMA FiniteCrews ==
    /\ IsFiniteSet(Waiting) /\ IsFiniteSet(Replying)
    /\ Cardinality(Waiting) \in Nat /\ Cardinality(Replying) \in Nat
<1>1. Waiting \subseteq Kirk /\ Replying \subseteq Spock
    BY DEF Waiting, Replying
<1>2. IsFiniteSet(Waiting) /\ IsFiniteSet(Replying)
    BY <1>1, KirkSpockAssumption, FS_Subset
<1> QED
    BY <1>2, FS_CardinalityType

\* One process more, or one less.
LEMMA OneMore ==
    ASSUME NEW S, IsFiniteSet(S), NEW p, p \notin S
    PROVE  Cardinality(S \cup {p}) = Cardinality(S) + 1
BY FS_AddElement

LEMMA OneLess ==
    ASSUME NEW S, IsFiniteSet(S), NEW p, p \in S
    PROVE  Cardinality(S \ {p}) = Cardinality(S) - 1
BY FS_RemoveElement

LEMMA MsgInitInv == MsgInit => MsgInv
<1> SUFFICES ASSUME MsgInit PROVE MsgInv
    OBVIOUS
<1>1. MsgTypeOK
    BY DEF MsgInit, MsgTypeOK
<1>2. IdInv /\ OneMessagePerWaiter
    BY DEF MsgInit, IdInv, OneMessagePerWaiter
<1> QED
    BY <1>1, <1>2 DEF MsgInv

LEMMA MsgTypeStep == MsgTypeOK /\ IdInv /\ [MsgNext]_msgVars => MsgTypeOK' /\ IdInv'
<1> SUFFICES ASSUME MsgTypeOK, IdInv, [MsgNext]_msgVars PROVE MsgTypeOK' /\ IdInv'
    OBVIOUS
<1> USE DEF MsgTypeOK, IdInv, Connected
<1>1. CASE UNCHANGED msgVars
    BY <1>1 DEF msgVars
<1>2. ASSUME NEW p \in Crew, Msgget(p) PROVE MsgTypeOK' /\ IdInv'
    <2>1. MsgTypeOK'
        BY <1>2 DEF Msgget, Goes
    <2>2. queue' # 0
        BY <1>2 DEF Msgget
    <2> QED
        BY <1>2, <2>1, <2>2 DEF Msgget, Goes
<1>3. ASSUME NEW p \in Crew, Send(p) \/ Receive(p) \/ ReceiveFails(p) PROVE MsgTypeOK' /\ IdInv'
    <2>1. CASE Send(p)
        BY <1>3, <2>1 DEF Send, Goes
    <2>2. CASE Receive(p)
        BY <1>3, <2>2 DEF Receive, Goes
    <2>3. CASE ReceiveFails(p)
        BY <1>3, <2>3 DEF ReceiveFails, Goes
    <2> QED
        BY <1>3, <2>1, <2>2, <2>3
<1>4. ASSUME NEW p \in Crew, KillCrew(p) PROVE MsgTypeOK' /\ IdInv'
    <2>1. MsgTypeOK'
        BY <1>4 DEF KillCrew
    <2>2. queue = 0 => p \notin Waiting /\ p \notin Replying
        BY DEF Waiting, Replying, Crew
    <2> QED
        BY <1>4, <2>1, <2>2 DEF KillCrew
<1>5. ASSUME NEW k \in Kirk, TypeLine(k) \/ Quit(k) PROVE MsgTypeOK' /\ IdInv'
    <2>1. k \in Crew
        BY DEF Crew
    <2>2. CASE TypeLine(k)
        BY <2>1, <2>2 DEF TypeLine, Goes
    <2>3. CASE Quit(k)
        BY <2>1, <2>3 DEF Quit, Goes
    <2> QED
        BY <1>5, <2>2, <2>3
<1> QED
    BY <1>1, <1>2, <1>3, <1>4, <1>5 DEF MsgNext, crew

-----------------------------------------------------------------------------
(* The messages and those who wait for them *)

LEMMA MsggetBalance ==
    ASSUME MsgInv, NEW p \in Crew, Msgget(p)
    PROVE  OneMessagePerWaiter'
<1> USE DEF MsgInv, MsgTypeOK, IdInv, Connected, Msgget, Goes
<1>1. CASE queue # 0
    <2>1. Waiting' = Waiting /\ Replying' = Replying
        BY <1>1, KirkSpockAssumption DEF Waiting, Replying, Crew
    <2> QED
        BY <1>1, <2>1 DEF OneMessagePerWaiter
<1>2. CASE queue = 0
    <2>1. queue' = made + 1 /\ \A q \in Crew : q # p => msqid'[q] # queue'
        BY <1>2
    <2>2. Waiting' = {} /\ Replying' = {}
        BY <2>1, KirkSpockAssumption DEF Waiting, Replying, Crew
    <2> QED
        BY <1>2, <2>2, FS_EmptySet DEF OneMessagePerWaiter
<1> QED
    BY <1>1, <1>2

LEMMA SendBalance ==
    ASSUME MsgInv, NEW p \in Crew, Send(p)
    PROVE  OneMessagePerWaiter'
<1> USE DEF MsgInv, MsgTypeOK, Connected, Send, Goes
<1>1. CASE ~Connected(p)
    <2>1. Waiting' = Waiting /\ Replying' = Replying
        BY <1>1 DEF Waiting, Replying, Crew
    <2> QED
        BY <1>1, <2>1 DEF OneMessagePerWaiter
<1>2. CASE Connected(p) /\ p \in Kirk
    <2>1. Waiting' = Waiting \cup {p} /\ Replying' = Replying /\ p \notin Waiting
        BY <1>2, KirkSpockAssumption DEF Waiting, Replying, Crew
    <2>2. Cardinality(Waiting') = Cardinality(Waiting) + 1
        BY <2>1, OneMore, FiniteCrews
    <2> QED
        BY <1>2, <2>1, <2>2, FiniteCrews DEF OneMessagePerWaiter
<1>3. CASE Connected(p) /\ p \in Spock
    <2>1. Replying' = Replying \ {p} /\ Waiting' = Waiting /\ p \in Replying
        BY <1>3, KirkSpockAssumption DEF Waiting, Replying, Crew
    <2>2. Cardinality(Replying') = Cardinality(Replying) - 1
        BY <2>1, OneLess, FiniteCrews
    <2> QED
        BY <1>3, <2>1, <2>2, FiniteCrews DEF OneMessagePerWaiter
<1> QED
    BY <1>1, <1>2, <1>3 DEF Crew

LEMMA ReceiveBalance ==
    ASSUME MsgInv, NEW p \in Crew, Receive(p)
    PROVE  OneMessagePerWaiter'
<1> USE DEF MsgInv, MsgTypeOK, Connected, Receive, Goes
<1>1. CASE p \in Kirk
    <2>1. Waiting' = Waiting \ {p} /\ Replying' = Replying /\ p \in Waiting
        BY <1>1, KirkSpockAssumption DEF Waiting, Replying, Crew
    <2>2. Cardinality(Waiting') = Cardinality(Waiting) - 1
        BY <2>1, OneLess, FiniteCrews
    <2> QED
        BY <1>1, <2>1, <2>2, FiniteCrews DEF OneMessagePerWaiter
<1>2. CASE p \in Spock
    <2>1. Replying' = Replying \cup {p} /\ Waiting' = Waiting /\ p \notin Replying
        BY <1>2, KirkSpockAssumption DEF Waiting, Replying, Crew
    <2>2. Cardinality(Replying') = Cardinality(Replying) + 1
        BY <2>1, OneMore, FiniteCrews
    <2> QED
        BY <1>2, <2>1, <2>2, FiniteCrews DEF OneMessagePerWaiter
<1> QED
    BY <1>1, <1>2 DEF Crew

LEMMA KillBalance ==
    ASSUME MsgInv, NEW p \in Crew, KillCrew(p)
    PROVE  OneMessagePerWaiter'
<1> USE DEF MsgInv, MsgTypeOK, Connected, KillCrew
<1>1. CASE p \in Waiting
    <2>1. Waiting' = Waiting \ {p} /\ Replying' = Replying
        BY <1>1, KirkSpockAssumption DEF Waiting, Replying, Crew
    <2>2. Cardinality(Waiting') = Cardinality(Waiting) - 1
        BY <1>1, <2>1, OneLess, FiniteCrews
    <2> QED
        BY <1>1, <2>1, <2>2, FiniteCrews DEF OneMessagePerWaiter
<1>2. CASE p \in Replying
    <2>1. Replying' = Replying \ {p} /\ Waiting' = Waiting /\ p \notin Waiting
        BY <1>2, KirkSpockAssumption DEF Waiting, Replying, Crew
    <2>2. Cardinality(Replying') = Cardinality(Replying) - 1
        BY <1>2, <2>1, OneLess, FiniteCrews
    <2> QED
        BY <1>2, <2>1, <2>2, FiniteCrews DEF OneMessagePerWaiter
<1>3. CASE p \notin Waiting /\ p \notin Replying
    <2>1. Waiting' = Waiting /\ Replying' = Replying
        BY <1>3 DEF Waiting, Replying, Crew
    <2> QED
        BY <1>3, <2>1 DEF OneMessagePerWaiter
<1> QED
    BY <1>1, <1>2, <1>3

LEMMA OtherBalance ==
    ASSUME MsgInv, NEW p \in Crew, ReceiveFails(p) \/ (p \in Kirk /\ (TypeLine(p) \/ Quit(p)))
    PROVE  OneMessagePerWaiter'
<1> USE DEF MsgInv, MsgTypeOK, Connected
<1>1. CASE ReceiveFails(p)
    <2>1. Waiting' = Waiting /\ Replying' = Replying
        BY <1>1 DEF ReceiveFails, Goes, Waiting, Replying, Crew
    <2> QED
        BY <1>1, <2>1 DEF OneMessagePerWaiter, ReceiveFails
<1>2. CASE p \in Kirk /\ TypeLine(p)
    <2>1. Waiting' = Waiting /\ Replying' = Replying
        BY <1>2, KirkSpockAssumption DEF TypeLine, Goes, Waiting, Replying, Crew
    <2> QED
        BY <1>2, <2>1 DEF OneMessagePerWaiter, TypeLine
<1>3. CASE p \in Kirk /\ Quit(p) /\ ~Connected(p)
    <2>1. Waiting' = Waiting /\ Replying' = Replying
        BY <1>3 DEF Quit, Goes, Waiting, Replying, Crew
    <2> QED
        BY <1>3, <2>1 DEF OneMessagePerWaiter, Quit
<1>4. CASE p \in Kirk /\ Quit(p) /\ Connected(p)
    BY <1>4 DEF OneMessagePerWaiter, Quit
<1> QED
    BY <1>1, <1>2, <1>3, <1>4

LEMMA MsgStepInv == MsgInv /\ [MsgNext]_msgVars => MsgInv'
<1> SUFFICES ASSUME MsgInv, [MsgNext]_msgVars PROVE MsgInv'
    OBVIOUS
<1>1. MsgTypeOK' /\ IdInv'
    BY MsgTypeStep DEF MsgInv
<1>2. CASE UNCHANGED msgVars
    <2>1. Waiting' = Waiting /\ Replying' = Replying
        BY <1>2 DEF msgVars, Waiting, Replying, Connected
    <2> QED
        BY <1>1, <1>2, <2>1 DEF MsgInv, OneMessagePerWaiter, msgVars
<1>3. ASSUME NEW p \in Crew, crew(p) \/ KillCrew(p) PROVE OneMessagePerWaiter'
    <2>1. ReceiveFails(p) => OneMessagePerWaiter'
        BY OtherBalance
    <2> QED
        BY <1>3, <2>1, MsggetBalance, SendBalance, ReceiveBalance, KillBalance DEF crew
<1>4. ASSUME NEW k \in Kirk, TypeLine(k) \/ Quit(k) PROVE OneMessagePerWaiter'
    BY <1>4, OtherBalance DEF Crew
<1> QED
    BY <1>1, <1>2, <1>3, <1>4 DEF MsgInv, MsgNext

\* kirk.c and spock.c keep the number of messages in step with those who wait for
\* one, however many of them use the queue and although anybody may take any
\* message.
THEOREM MessagesMatchWaiters == MsgSpec => []OneMessagePerWaiter
<1>1. MsgInv => OneMessagePerWaiter
    BY DEF MsgInv
<1> QED
    BY <1>1, MsgInitInv, MsgStepInv, PTL DEF MsgSpec

-----------------------------------------------------------------------------
(* signals: the protected program asks and compares undisturbed *)

\* Who is inside getpwnam has its lock.
LockIsHeld ==
    /\ lock = "main" <=> main = "inside"
    /\ lock = "handler" <=> handler = "inside"

\* From Block to Unblock, or to the end, the handler does not run, so that the
\* record is still main's when main looks at it.
MaskInv == protected =>
    /\ mask <=> main # "block"
    /\ mask => handler = "off"
    /\ main \in {"strcmp", "unblock"} /\ known => record = USERNAME
    /\ main = "exit" => ~known

SignalsInv == SignalsTypeOK /\ LockIsHeld /\ MaskInv

LEMMA SigInitInv == SigInit => SignalsInv
BY DEF SigInit, LoopTop, SignalsInv, SignalsTypeOK, LockIsHeld, MaskInv, USERNAME

LEMMA SigStepInv == SignalsInv /\ [SigNext]_sigVars => SignalsInv'
<1> SUFFICES ASSUME SignalsInv, [SigNext]_sigVars PROVE SignalsInv'
    OBVIOUS
<1> USE DEF SignalsInv, SignalsTypeOK, LockIsHeld, MaskInv
<1>1. CASE Ring \/ Deliver
    BY <1>1 DEF Ring, Deliver, Due
<1>2. CASE HandlerAsks \/ HandlerReturns
    BY <1>2 DEF HandlerAsks, HandlerReturns, Enter
<1>3. CASE HandlerHasAnswer
    BY <1>3 DEF HandlerHasAnswer, Fill, USERNAME
<1>4. CASE Block \/ Unblock
    BY <1>4 DEF Block, Unblock, Runs
<1>5. CASE MainAsks
    BY <1>5 DEF MainAsks, Runs, Enter
<1>6. CASE MainHasAnswer
    BY <1>6 DEF MainHasAnswer, Runs, Fill, USERNAME
<1>7. CASE Compare
    BY <1>7 DEF Compare, Runs, LoopTop
<1>8. CASE UNCHANGED sigVars
    BY <1>8 DEF sigVars
<1> QED
    BY <1>1, <1>2, <1>3, <1>4, <1>5, <1>6, <1>7, <1>8 DEF SigNext

\* Wherever the alarm rings, protected-reentrant reads the record it has asked
\* for, and its handler never waits inside getpwnam for main.
THEOREM RecordIsMain == SigSpec => []RecordIsOwn
<1>1. SignalsInv => RecordIsOwn
    BY DEF SignalsInv, LockIsHeld, MaskInv, RecordIsOwn, Stalled
<1> QED
    BY <1>1, SigInitInv, SigStepInv, PTL DEF SigSpec

-----------------------------------------------------------------------------
(* families: who waits has no more children than waits left *)

\* A process is born in an iteration of its parent's that lies behind it.
BirthInv == \A m \in Member : post[m] # "unborn" =>
    /\ \A x \in m : x < i[m]
    /\ \A c \in Children(m) : post[c] # "unborn" => Max(c) \in 1..(i[m] - 1)

LeafInv == \A m \in Member : post[m] \in {"unborn", "child", "runs"} =>
    \A c \in Children(m) : post[c] = "unborn"

\* faster-child has at most one child for each iteration it has left behind and
\* then waits as often as there are iterations; the others that wait do so in the
\* iteration, for the one child there may be.
WaitsInv == \A m \in Member :
    /\ post[m] = "wait" => waits[m] >= 1 /\ Cardinality(Unreaped(m)) <= waits[m]
    /\ family = "faster_child" =>
          /\ post[m] \in {"unborn", "child", "fork"} => waits[m] = Forks
          /\ post[m] = "fork" => Cardinality(Unreaped(m)) < i[m]
    /\ family \in WaitsNow =>
          /\ post[m] = "fork" => Unreaped(m) = {}
          /\ post[m] = "wait" => waits[m] = 1

FamilyInv == FamiliesTypeOK /\ BirthInv /\ LeafInv /\ WaitsInv /\ NobodyOutlivesParent

LEMMA FiniteFamily ==
    ASSUME NEW m \in Member
    PROVE  IsFiniteSet(Unreaped(m)) /\ Cardinality(Unreaped(m)) \in Nat
<1>1. IsFiniteSet(1..Forks)
    BY FamiliesAssumption, FS_Interval
<1>2. IsFiniteSet(Member)
    BY <1>1, FS_SUBSET DEF Member
<1>3. Unreaped(m) \subseteq Member
    BY DEF Unreaped, Children
<1> QED
    BY <1>2, <1>3, FS_Subset, FS_CardinalityType

LEMMA OneAtMost ==
    ASSUME NEW S, NEW x, IsFiniteSet(S), Cardinality(S) \in Nat
    PROVE  IsFiniteSet(S \cup {x}) /\ Cardinality(S \cup {x}) <= Cardinality(S) + 1
BY FS_AddElement

\* The child that m forks in its iteration k is m's and nobody else's.
LEMMA NewChild ==
    ASSUME NEW m \in Member, NEW k \in 1..Forks, \A x \in m : x < k
    PROVE  /\ m \cup {k} \in Member /\ m \cup {k} # m
           /\ m \cup {k} \in Children(m) /\ Max(m \cup {k}) = k
<1> DEFINE c == m \cup {k}
<1>1. c \in Member /\ c # Main /\ k \notin m /\ \A x \in c : x \in Nat
    BY FamiliesAssumption DEF Member, Main
<1>2. \A x \in c : x >= k <=> x = k
    BY <1>1
<1>3. \A y \in c : k >= y
    BY <1>1
<1>4. Max(c) \in c /\ \A y \in c : Max(c) >= y
    BY <1>3 DEF Max
<1>5. Max(c) = k
    BY <1>2, <1>4
<1> QED
    BY <1>1, <1>5 DEF Children

LEMMA OneParent ==
    ASSUME NEW m, NEW n, NEW c \in Children(m), c \in Children(n)
    PROVE  m = n
BY DEF Children

\* A process that goes on, or ends, is as much its parent's child as before.
LEMMA GoesOn ==
    ASSUME FamiliesTypeOK, NEW m \in Member, NEW there,
           post[m] \notin {"unborn", "reaped"}, there \notin {"unborn", "reaped"},
           post' = [post EXCEPT ![m] = there]
    PROVE  \A n \in Member : /\ Unreaped(n)' = Unreaped(n)
                             /\ post'[n] = "unborn" <=> post[n] = "unborn"
BY DEF FamiliesTypeOK, Unreaped, Children

LEMMA FamilyInitInv == FamilyInit => FamilyInv
<1> SUFFICES ASSUME FamilyInit PROVE FamilyInv
    OBVIOUS
<1>1. Main \in Member /\ \A m \in Member : \A c \in Children(m) : c # Main /\ post[c] = "unborn"
    BY DEF Main, Member, Children, FamilyInit
<1>2. \A m \in Member : Unreaped(m) = {}
    BY <1>1 DEF Unreaped
<1>3. FamiliesTypeOK
    BY FamiliesAssumption DEF FamilyInit, FamiliesTypeOK
<1>4. BirthInv /\ LeafInv
    BY <1>1 DEF FamilyInit, BirthInv, LeafInv, Main
<1>5. WaitsInv
    BY <1>2, FS_EmptySet DEF FamilyInit, WaitsInv
<1> QED
    BY <1>2, <1>3, <1>4, <1>5 DEF FamilyInv, NobodyOutlivesParent

LEMMA ForkChildInv ==
    ASSUME FamilyInv, NEW m \in Member, ForkChild(m)
    PROVE  FamilyInv'
<1> USE DEF FamilyInv
<1>1. PICK k \in 1..Forks : k = i[m]
    BY FamiliesAssumption DEF ForkChild, Rounds, FamiliesTypeOK
<1>2. PICK c \in Member : c = m \cup {k} /\ c # m /\ c \in Children(m) /\ Max(c) = k
    BY <1>1, NewChild DEF ForkChild, BirthInv
<1>3. post[c] = "unborn" /\ \A d \in Children(c) : post[d] = "unborn"
    <2>1. post[m] # "unborn" /\ k \notin 1..(k - 1)
        BY <1>1 DEF ForkChild
    <2>2. post[c] = "unborn"
        BY <1>1, <1>2, <2>1 DEF BirthInv
    <2> QED
        BY <1>2, <2>2 DEF LeafInv
<1>4. /\ post[m] = "fork" /\ post'[m] = (IF family \in WaitsNow THEN "wait" ELSE "fork")
      /\ post'[c] \in {"unborn", "child"}
      /\ \A d \in Member \ {m, c} : post'[d] = post[d]
    BY <1>1, <1>2, <1>3 DEF ForkChild, FamiliesTypeOK
<1>5. /\ i'[m] = k + 1 /\ i'[c] = k + 1 /\ \A d \in Member \ {m, c} : i'[d] = i[d]
      /\ family' = family
    BY <1>1, <1>2 DEF ForkChild, FamiliesTypeOK
<1>6. /\ waits'[m] = (IF family \in WaitsNow THEN 1 ELSE waits[m])
      /\ \A d \in Member \ {m} : waits'[d] = waits[d]
    BY DEF ForkChild, FamiliesTypeOK
<1>7. FamiliesTypeOK'
    <2>1. post' \in [Member -> {"unborn", "fork", "child", "runs", "wait", "zombie", "reaped"}]
        BY <1>1, <1>2 DEF ForkChild, FamiliesTypeOK
    <2>2. i' \in [Member -> 1..Forks + 1]
        <3>1. i' = [i EXCEPT ![m] = k + 1, ![c] = k + 1]
            BY <1>1, <1>2 DEF ForkChild, FamiliesTypeOK
        <3>2. k + 1 \in 1..Forks + 1
            BY <1>1, FamiliesAssumption
        <3> QED
            BY <3>1, <3>2 DEF FamiliesTypeOK
    <2>3. waits' \in [Member -> 0..Forks]
        BY FamiliesAssumption DEF ForkChild, FamiliesTypeOK
    <2> QED
        BY <1>5, <2>1, <2>2, <2>3 DEF FamiliesTypeOK
<1>8. \A n \in Member : c \in Children(n) => n = m
    BY <1>2, OneParent
<1>9. Unreaped(m)' \subseteq Unreaped(m) \cup {c}
    BY <1>4 DEF Unreaped, Children
<1>10. \A n \in Member : n # m => Unreaped(n)' = Unreaped(n)
    BY <1>4, <1>8 DEF Unreaped, Children
<1>11. Cardinality(Unreaped(m)') <= Cardinality(Unreaped(m)) + 1
    <2>1. /\ IsFiniteSet(Unreaped(m) \cup {c})
          /\ Cardinality(Unreaped(m) \cup {c}) <= Cardinality(Unreaped(m)) + 1
        <3>1. IsFiniteSet(Unreaped(m)) /\ Cardinality(Unreaped(m)) \in Nat
            BY FiniteFamily
        <3> QED
            BY <3>1, OneAtMost
    <2>2. Cardinality(Unreaped(m)') <= Cardinality(Unreaped(m) \cup {c})
        BY <1>9, <2>1, FS_Subset
    <2>3. Cardinality(Unreaped(m)') \in Nat /\ Cardinality(Unreaped(m) \cup {c}) \in Nat
        BY <1>9, <2>1, FS_Subset, FS_CardinalityType
    <2> QED
        BY <2>1, <2>2, <2>3, FiniteFamily
<1>12. BirthInv'
    <2>1. \A n \in Member : \A d \in Children(n) : d \in Member
        BY DEF Children
    <2>2. ASSUME NEW n \in Member, post'[n] # "unborn" PROVE \A x \in n : x < i'[n]
        <3>1. CASE n = m
            BY <1>1, <1>4, <1>5, <3>1 DEF BirthInv, Member
        <3>2. CASE n = c
            BY <1>1, <1>2, <1>4, <1>5, <3>2 DEF BirthInv, Member
        <3>3. CASE n \notin {m, c}
            BY <1>4, <1>5, <2>2, <3>3 DEF BirthInv
        <3> QED
            BY <3>1, <3>2, <3>3
    <2>3. ASSUME NEW n \in Member, post'[n] # "unborn", NEW d \in Children(n), post'[d] # "unborn"
          PROVE  Max(d) \in 1..(i'[n] - 1)
        <3>1. CASE n = c
            BY <1>3, <1>4, <1>8, <2>1, <2>3, <3>1, <1>2
        <3>2. CASE n = m /\ d = c
            BY <1>2, <1>5, <3>2
        <3>3. CASE n = m /\ d # c
            <4>1. post[d] # "unborn" /\ post[m] # "unborn"
                BY <1>4, <2>1, <2>3, <3>3
            <4>2. Max(d) \in 1..(k - 1)
                BY <1>1, <2>3, <3>3, <4>1 DEF BirthInv
            <4> QED
                BY <1>1, <1>5, <3>3, <4>2
        <3>4. CASE n \notin {m, c}
            <4>1. post[n] # "unborn" /\ post[d] # "unborn" /\ i'[n] = i[n]
                BY <1>4, <1>5, <1>8, <2>1, <2>3, <3>4
            <4> QED
                BY <2>3, <4>1 DEF BirthInv
        <3> QED
            BY <3>1, <3>2, <3>3, <3>4
    <2> QED
        BY <2>2, <2>3 DEF BirthInv
<1>13. LeafInv'
    <2>1. \A n \in Member : \A d \in Children(n) : d \in Member
        BY DEF Children
    <2>2. ASSUME NEW n \in Member, post'[n] \in {"unborn", "child", "runs"}, NEW d \in Children(n)
          PROVE  post'[d] = "unborn"
        <3>1. n # m
            BY <1>4, <2>2
        <3>2. post[n] \in {"unborn", "child", "runs"}
            BY <1>3, <1>4, <2>2, <3>1
        <3>3. post[d] = "unborn"
            BY <2>2, <3>2 DEF LeafInv
        <3> QED
            BY <1>4, <1>8, <2>1, <2>2, <3>1, <3>3
    <2> QED
        BY <2>2 DEF LeafInv
<1>14. WaitsInv'
    <2>1. ASSUME NEW n \in Member, n # m
          PROVE  /\ post'[n] = "wait" => waits'[n] >= 1 /\ Cardinality(Unreaped(n)') <= waits'[n]
                 /\ family = "faster_child" =>
                       /\ post'[n] \in {"unborn", "child", "fork"} => waits'[n] = Forks
                       /\ post'[n] = "fork" => Cardinality(Unreaped(n)') < i'[n]
                 /\ family \in WaitsNow =>
                       /\ post'[n] = "fork" => Unreaped(n)' = {}
                       /\ post'[n] = "wait" => waits'[n] = 1
        <3>1. CASE n = c
            BY <1>3, <1>4, <1>6, <2>1, <3>1 DEF WaitsInv
        <3>2. CASE n # c
            BY <1>4, <1>5, <1>6, <1>10, <2>1, <3>2 DEF WaitsInv
        <3> QED
            BY <3>1, <3>2
    <2>2. CASE family \in WaitsNow
        <3>1. Cardinality(Unreaped(m)) = 0 /\ "faster_child" \notin WaitsNow
            BY <1>4, <2>2, FS_EmptySet DEF WaitsInv, WaitsNow
        <3>2. post'[m] = "wait" /\ waits'[m] = 1 /\ Cardinality(Unreaped(m)') <= 1
            BY <1>4, <1>6, <1>11, <2>2, <3>1
        <3> QED
            BY <1>5, <2>1, <2>2, <3>1, <3>2 DEF WaitsInv
    <2>3. CASE family \notin WaitsNow
        <3>1. post'[m] = "fork" /\ waits'[m] = waits[m]
            BY <1>4, <1>6, <2>3
        <3>2. family = "faster_child" => Cardinality(Unreaped(m)') < k + 1 /\ waits[m] = Forks
            <4>1. /\ Cardinality(Unreaped(m)') \in Nat
                  /\ Cardinality(Unreaped(m)) \in Nat
                <5>1. IsFiniteSet(Unreaped(m) \cup {c})
                    BY FiniteFamily, OneAtMost
                <5> QED
                    BY <1>9, <5>1, FS_Subset, FS_CardinalityType, FiniteFamily
            <4> QED
                BY <1>1, <1>4, <1>11, <4>1 DEF WaitsInv
        <3> QED
            BY <1>5, <2>1, <2>3, <3>1, <3>2 DEF WaitsInv
    <2> QED
        BY <2>2, <2>3
<1>15. NobodyOutlivesParent'
    BY <1>3, <1>4, <1>5, <1>10 DEF NobodyOutlivesParent
<1> QED
    BY <1>7, <1>12, <1>13, <1>14, <1>15

\* The steps of one process that neither forks nor waits.
LEMMA AloneInv ==
    ASSUME FamilyInv, NEW m \in Member, LeaveLoop(m) \/ Exec(m) \/ ExecFailed(m) \/ ChildEnds(m)
    PROVE  FamilyInv'
<1> USE DEF FamilyInv
<1>1. UNCHANGED <<family, i, waits>>
    BY DEF LeaveLoop, Exec, ExecFailed, ChildEnds
<1>2. PICK there \in {"fork", "runs", "wait", "zombie"} : post' = [post EXCEPT ![m] = there]
    BY DEF LeaveLoop, Exec, ExecFailed, ChildEnds
<1>3. post[m] \in {"fork", "child", "runs"}
    BY DEF LeaveLoop, Exec, ExecFailed, ChildEnds
<1>4. /\ post'[m] = there /\ \A n \in Member \ {m} : post'[n] = post[n]
      /\ \A n \in Member : /\ Unreaped(n)' = Unreaped(n)
                           /\ post'[n] = "unborn" <=> post[n] = "unborn"
    BY <1>2, <1>3, GoesOn DEF FamiliesTypeOK
<1>5. FamiliesTypeOK'
    BY <1>1, <1>2 DEF FamiliesTypeOK
<1>6. \A n \in Member : \A d \in Children(n) : d \in Member
    BY DEF Children
<1>7. BirthInv'
    BY <1>1, <1>4, <1>6 DEF BirthInv
<1>8. LeafInv'
    <2>1. there = "runs" => post[m] = "child"
        BY <1>3, <1>4 DEF LeaveLoop, Exec, ExecFailed, ChildEnds, FamiliesTypeOK
    <2> QED
        BY <1>4, <1>6, <2>1 DEF LeafInv
<1>9. post[m] \in {"child", "runs"} => Unreaped(m) = {}
    BY DEF LeafInv, Unreaped
<1>10. WaitsInv'
    <2>1. CASE LeaveLoop(m) /\ family = "faster_child"
        <3>1. i[m] > Forks /\ post[m] = "fork" /\ there = "wait" /\ i[m] \in 1..Forks + 1
            BY <1>4, <2>1 DEF LeaveLoop, Rounds, Loops, FamiliesTypeOK
        <3>2. waits[m] = Forks /\ Cardinality(Unreaped(m)) < i[m] /\ Cardinality(Unreaped(m)) \in Nat
            BY <2>1, <3>1, FiniteFamily DEF WaitsInv
        <3>3. waits[m] >= 1 /\ Cardinality(Unreaped(m)) <= waits[m]
            BY <3>1, <3>2, FamiliesAssumption
        <3> QED
            BY <1>1, <1>4, <2>1, <3>1, <3>3 DEF WaitsInv, WaitsNow
    <2>2. CASE ~(LeaveLoop(m) /\ family = "faster_child")
        <3>1. there # "wait" /\ (there = "fork" => post[m] = "child" /\ family = "faster_child")
            BY <1>3, <1>4, <2>2 DEF LeaveLoop, Exec, ExecFailed, ChildEnds, FamiliesTypeOK
        <3>2. there = "fork" => Cardinality(Unreaped(m)) < i[m] /\ waits[m] = Forks
            <4>1. Cardinality({}) = 0 /\ i[m] \in Nat /\ i[m] >= 1
                BY FS_EmptySet, FamiliesAssumption DEF FamiliesTypeOK
            <4> QED
                BY <1>9, <3>1, <4>1 DEF WaitsInv
        <3> QED
            BY <1>1, <1>4, <3>1, <3>2 DEF WaitsInv, WaitsNow
    <2> QED
        BY <2>1, <2>2
<1>11. NobodyOutlivesParent'
    <2>1. there = "zombie" /\ post[m] = "fork" => LeaveLoop(m) /\ family # "faster_child"
        BY <1>3, <1>4 DEF LeaveLoop, Exec, ExecFailed, ChildEnds, FamiliesTypeOK
    <2>2. there = "zombie" /\ family # "child_labor" => Unreaped(m) = {}
        BY <1>3, <1>9, <2>1 DEF WaitsInv, FamiliesTypeOK, Family, Loops, Execs, WaitsNow
    <2> QED
        BY <1>1, <1>4, <2>2 DEF NobodyOutlivesParent
<1> QED
    BY <1>5, <1>7, <1>8, <1>10, <1>11

\* wait has taken a child away, or there is none that it could take.
LEMMA WaitForChildInv ==
    ASSUME FamilyInv, NEW m \in Member, WaitForChild(m)
    PROVE  FamilyInv'
<1> USE DEF FamilyInv
<1>1. post[m] = "wait" /\ UNCHANGED <<family, i>> /\ waits[m] \in 1..Forks
    BY DEF WaitForChild, WaitsInv, FamiliesTypeOK
<1>2. waits'[m] = waits[m] - 1 /\ \A n \in Member \ {m} : waits'[n] = waits[n]
    BY DEF WaitForChild, FamiliesTypeOK
<1>3. waits' \in [Member -> 0..Forks]
    <2>1. waits[m] - 1 \in 0..Forks
        BY <1>1, FamiliesAssumption
    <2> QED
        BY <2>1 DEF WaitForChild, FamiliesTypeOK
<1>4. Waited(m) \in {"wait", "fork", "zombie"}
    BY DEF Waited
<1>5. \A n \in Member : \A d \in Children(n) : d \in Member
    BY DEF Children
<1>6. /\ post'[m] = Waited(m) /\ post' \in [Member -> {"unborn", "fork", "child", "runs", "wait", "zombie", "reaped"}]
      /\ \A n \in Member : n # m => post'[n] = post[n] \/ (post[n] = "zombie" /\ post'[n] = "reaped")
      /\ \A n \in Member : n # m => Unreaped(n)' = Unreaped(n)
      /\ Cardinality(Unreaped(m)') <= waits[m] - 1
      /\ Cardinality(Unreaped(m)') = 0 => Unreaped(m)' = {}
    <2>1. CASE Unreaped(m) = {} /\ post' = [post EXCEPT ![m] = Waited(m)]
        <3>1. \A n \in Member : Unreaped(n)' = Unreaped(n)
            BY <1>1, <1>4, <2>1, GoesOn
        <3>2. Cardinality(Unreaped(m)') = 0
            BY <2>1, <3>1, FS_EmptySet
        <3> QED
            BY <1>1, <1>4, <2>1, <3>1, <3>2 DEF FamiliesTypeOK
    <2>2. ASSUME NEW c \in Children(m), post[c] = "zombie",
                 post' = [post EXCEPT ![m] = Waited(m), ![c] = "reaped"]
          PROVE  /\ post'[m] = Waited(m) /\ post' \in [Member -> {"unborn", "fork", "child", "runs", "wait", "zombie", "reaped"}]
                 /\ \A n \in Member : n # m => post'[n] = post[n] \/ (post[n] = "zombie" /\ post'[n] = "reaped")
                 /\ \A n \in Member : n # m => Unreaped(n)' = Unreaped(n)
                 /\ Cardinality(Unreaped(m)') <= waits[m] - 1
                 /\ Cardinality(Unreaped(m)') = 0 => Unreaped(m)' = {}
        <3>1. c \in Member /\ c # m
            BY <1>1, <1>5, <2>2
        <3>2. /\ post'[m] = Waited(m) /\ post'[c] = "reaped"
              /\ \A n \in Member \ {m, c} : post'[n] = post[n]
            BY <2>2, <3>1 DEF FamiliesTypeOK
        <3>3. \A n \in Member : n # m => Unreaped(n)' = Unreaped(n)
            BY <1>1, <1>4, <1>5, <2>2, <3>2, OneParent DEF Unreaped
        <3>4. Unreaped(m)' = Unreaped(m) \ {c} /\ c \in Unreaped(m)
            BY <1>1, <1>4, <1>5, <2>2, <3>2 DEF Unreaped
        <3>5. /\ IsFiniteSet(Unreaped(m)')
              /\ Cardinality(Unreaped(m)') = Cardinality(Unreaped(m)) - 1
            BY <3>4, FiniteFamily, FS_RemoveElement
        <3>6. Cardinality(Unreaped(m)) <= waits[m] /\ Cardinality(Unreaped(m)) \in Nat
            BY <1>1, FiniteFamily DEF WaitsInv
        <3>7. post' \in [Member -> {"unborn", "fork", "child", "runs", "wait", "zombie", "reaped"}]
            BY <1>4, <2>2 DEF FamiliesTypeOK
        <3>8. Cardinality(Unreaped(m)') = 0 => Unreaped(m)' = {}
            BY <3>5, FS_EmptySet
        <3> QED
            BY <1>1, <2>2, <3>2, <3>3, <3>5, <3>6, <3>7, <3>8
    <2> QED
        BY <2>1, <2>2 DEF WaitForChild
<1>7. \A n \in Member : post'[n] = "unborn" <=> post[n] = "unborn"
    BY <1>1, <1>4, <1>6
<1>8. Waited(m) # "wait" => Unreaped(m)' = {} /\ waits[m] = 1
    <2>1. Waited(m) # "wait" => waits[m] = 1
        BY <1>1 DEF Waited
    <2>2. Cardinality(Unreaped(m)') \in Nat
        <3>1. IsFiniteSet(Unreaped(m)')
            <4>1. IsFiniteSet(1..Forks)
                BY FamiliesAssumption, FS_Interval
            <4>2. IsFiniteSet(Member)
                BY <4>1, FS_SUBSET DEF Member
            <4>3. Unreaped(m)' \subseteq Member
                BY DEF Unreaped, Children
            <4> QED
                BY <4>2, <4>3, FS_Subset
        <3> QED
            BY <3>1, FS_CardinalityType
    <2> QED
        BY <1>6, <2>1, <2>2
<1>9. FamiliesTypeOK'
    BY <1>1, <1>3, <1>6 DEF FamiliesTypeOK
<1>10. BirthInv'
    BY <1>1, <1>5, <1>7 DEF BirthInv
<1>11. LeafInv'
    BY <1>1, <1>4, <1>5, <1>6, <1>7 DEF LeafInv
<1>12. WaitsInv'
    <2>1. Waited(m) = "wait" => waits[m] > 1 /\ family \notin WaitsNow
        BY <1>1 DEF Waited, WaitsInv
    <2>2. Waited(m) = "fork" => family = "fork1"
        BY DEF Waited
    <2>3. ASSUME NEW n \in Member, n # m, post'[n] \in {"unborn", "child", "fork", "wait"}
          PROVE  post'[n] = post[n] /\ Unreaped(n)' = Unreaped(n) /\ waits'[n] = waits[n] /\ i'[n] = i[n]
        BY <1>1, <1>2, <1>6, <2>3
    <2>4. ASSUME NEW n \in Member, n # m
          PROVE  /\ post'[n] = "wait" => waits'[n] >= 1 /\ Cardinality(Unreaped(n)') <= waits'[n]
                 /\ family = "faster_child" =>
                       /\ post'[n] \in {"unborn", "child", "fork"} => waits'[n] = Forks
                       /\ post'[n] = "fork" => Cardinality(Unreaped(n)') < i'[n]
                 /\ family \in WaitsNow =>
                       /\ post'[n] = "fork" => Unreaped(n)' = {}
                       /\ post'[n] = "wait" => waits'[n] = 1
        BY <2>3, <2>4 DEF WaitsInv
    <2>5. post'[m] = "wait" => waits'[m] >= 1 /\ Cardinality(Unreaped(m)') <= waits'[m]
        BY <1>1, <1>2, <1>6, <2>1
    <2> QED
        BY <1>1, <1>4, <1>6, <1>8, <2>1, <2>2, <2>4, <2>5 DEF WaitsInv
<1>13. NobodyOutlivesParent'
    BY <1>1, <1>4, <1>6, <1>8 DEF NobodyOutlivesParent
<1> QED
    BY <1>9, <1>10, <1>11, <1>12, <1>13

LEMMA FamilyStepInv == FamilyInv /\ [FamilyNext]_familyVars => FamilyInv'
<1> SUFFICES ASSUME FamilyInv, [FamilyNext]_familyVars PROVE FamilyInv'
    OBVIOUS
<1>1. CASE UNCHANGED familyVars
    BY <1>1 DEF familyVars, FamilyInv, FamiliesTypeOK, BirthInv, LeafInv, WaitsInv, Unreaped,
                NobodyOutlivesParent
<1> QED
    BY <1>1, ForkChildInv, AloneInv, WaitForChildInv DEF FamilyNext

\* However often the loops fork, and whichever forks and execs fail, the programs
\* that wait leave nobody behind.
THEOREM NobodyIsLeft == FamilySpec => []NobodyOutlivesParent
<1>1. FamilyInv => NobodyOutlivesParent
    BY DEF FamilyInv
<1> QED
    BY <1>1, FamilyInitInv, FamilyStepInv, PTL DEF FamilySpec

-----------------------------------------------------------------------------
(* sockets: what a client ends with says what has become of its server *)

\* Who has been told, or may be: those that server s has accepted.
AcceptedBy(s) == {c \in accepted : host[c] = s}

\* A connection waits for one server's accept, or that server has accepted it and
\* not closed it, or it is over; it is reset only without having been accepted, and
\* closed without a word only when the server was killed.
ConnectionsInv == \A c \in Client :
    /\ cli[c] = "off" => c \notin accepted \cup reset
    /\ c \in accepted \cup reset => host[c] \in Server
    /\ \A s \in Server :
          /\ c \in ToSet(backlog[s]) => cli[c] # "off" /\ host[c] = s /\ c \notin accepted \cup reset
          /\ c \in ToSet(client_fds[s]) => host[c] = s /\ c \in accepted \ closed
    /\ c \in accepted => c \notin reset
    /\ c \in written \cup closed => c \in accepted
    /\ c \in closed \ written => srv[host[c]] = "killed"
    /\ c \in reset => srv[host[c]] \in {"killed", "exited"}

AnswersInv == \A c \in Client :
    /\ cli[c] = "answered" => c \in written
    /\ cli[c] = "empty" => c \in closed \ written
    /\ cli[c] = "reset" => c \in reset

\* Only a server that listens has connections, and it closes only what it has
\* written to.
ServersInv == \A s \in Server :
    /\ IsInjective(backlog[s]) /\ IsInjective(client_fds[s])
    /\ srv[s] \in {"write", "close"} => s \in listening /\ client_fds[s] # << >>
    /\ srv[s] = "close" => Head(client_fds[s]) \in written
    /\ s \in listening => srv[s] \in {"accept", "write", "close"}
    /\ s \notin listening => backlog[s] = << >> /\ client_fds[s] = << >>
    /\ s \notin listening /\ srv[s] \notin {"exited", "killed"} => AcceptedBy(s) = {}

\* pause-server accepts until there are MAX_CLIENTS, and then no more.
CountInv ==
    /\ IsFiniteSet(accepted)
    /\ program = "pause" =>
          /\ \A s \in listening : srv[s] = "accept" =>
                /\ Cardinality(AcceptedBy(s)) = Len(client_fds[s])
                /\ Len(client_fds[s]) < MAX_CLIENTS
          /\ \A s \in Server : srv[s] \in {"write", "close", "exited"} =>
                Cardinality(AcceptedBy(s)) = MAX_CLIENTS
          /\ \A c \in written : Cardinality(AcceptedBy(host[c])) = MAX_CLIENTS

NetInv == SocketsTypeOK /\ ConnectionsInv /\ AnswersInv /\ ServersInv /\ CountInv

LEMMA EmptyQueue == ToSet(<< >>) = {} /\ IsInjective(<< >>) /\ Len(<< >>) = 0
BY DEF ToSet, IsInjective

LEMMA FirstTaken ==
    ASSUME NEW S, NEW q \in Seq(S), q # << >>
    PROVE  /\ Head(q) \in S /\ Tail(q) \in Seq(S)
           /\ ToSet(q) = {Head(q)} \cup ToSet(Tail(q))
           /\ IsInjective(q) => Head(q) \notin ToSet(Tail(q)) /\ IsInjective(Tail(q))
<1>1. /\ Len(q) \in Nat \ {0} /\ Len(Tail(q)) = Len(q) - 1 /\ Head(q) = q[1] /\ Tail(q) \in Seq(S)
      /\ \A k \in 1..(Len(q) - 1) : Tail(q)[k] = q[k + 1]
    OBVIOUS
<1>2. DOMAIN q = 1..Len(q) /\ DOMAIN Tail(q) = 1..(Len(q) - 1)
    BY <1>1
<1>3. ToSet(q) \subseteq {Head(q)} \cup ToSet(Tail(q))
    <2> SUFFICES ASSUME NEW k \in 1..Len(q), k # 1 PROVE q[k] \in ToSet(Tail(q))
        BY <1>1, <1>2 DEF ToSet
    <2>1. k - 1 \in 1..(Len(q) - 1) /\ Tail(q)[k - 1] = q[k]
        BY <1>1
    <2> QED
        BY <1>2, <2>1 DEF ToSet
<1>4. {Head(q)} \cup ToSet(Tail(q)) \subseteq ToSet(q)
    <2>1. Head(q) \in ToSet(q)
        BY <1>1, <1>2 DEF ToSet
    <2>2. \A k \in 1..(Len(q) - 1) : k + 1 \in 1..Len(q) /\ Tail(q)[k] = q[k + 1]
        BY <1>1
    <2> QED
        BY <1>2, <2>1, <2>2 DEF ToSet
<1>5. ASSUME IsInjective(q) PROVE Head(q) \notin ToSet(Tail(q)) /\ IsInjective(Tail(q))
    <2>1. \A k, l \in 1..Len(q) : q[k] = q[l] => k = l
        BY <1>2, <1>5 DEF IsInjective
    <2>2. \A k \in 1..(Len(q) - 1) : k + 1 \in 1..Len(q) /\ Tail(q)[k] = q[k + 1] /\ k + 1 # 1
        BY <1>1
    <2>3. 1 \in 1..Len(q)
        BY <1>1
    <2>4. \A k, l \in 1..(Len(q) - 1) : k + 1 = l + 1 => k = l
        OBVIOUS
    <2>5. IsInjective(Tail(q))
        BY <1>2, <2>1, <2>2, <2>4 DEF IsInjective
    <2>6. Head(q) \notin ToSet(Tail(q))
        BY <1>1, <1>2, <2>1, <2>2, <2>3 DEF ToSet
    <2> QED
        BY <2>5, <2>6
<1> QED
    BY <1>1, <1>3, <1>4, <1>5

LEMMA LastAdded ==
    ASSUME NEW S, NEW q \in Seq(S), NEW x \in S
    PROVE  /\ Append(q, x) \in Seq(S) /\ Append(q, x) # << >> /\ Len(Append(q, x)) = Len(q) + 1
           /\ ToSet(Append(q, x)) = ToSet(q) \cup {x}
           /\ IsInjective(q) /\ x \notin ToSet(q) => IsInjective(Append(q, x))
<1>1. /\ Append(q, x) \in Seq(S) /\ Append(q, x) # << >>
      /\ Len(q) \in Nat /\ Len(Append(q, x)) = Len(q) + 1 /\ Append(q, x)[Len(q) + 1] = x
      /\ \A k \in 1..Len(q) : Append(q, x)[k] = q[k]
    OBVIOUS
<1>2. DOMAIN q = 1..Len(q) /\ DOMAIN Append(q, x) = 1..(Len(q) + 1)
    BY <1>1
<1>3. \A k : k \in 1..(Len(q) + 1) <=> k \in 1..Len(q) \/ k = Len(q) + 1
    BY <1>1
<1>4. ToSet(Append(q, x)) = ToSet(q) \cup {x}
    BY <1>1, <1>2, <1>3 DEF ToSet
<1>5. ASSUME IsInjective(q), x \notin ToSet(q) PROVE IsInjective(Append(q, x))
    BY <1>1, <1>2, <1>3, <1>5 DEF ToSet, IsInjective
<1> QED
    BY <1>1, <1>4, <1>5

LEMMA NetInitInv == NetInit => NetInv
<1> SUFFICES ASSUME NetInit PROVE NetInv
    OBVIOUS
<1>1. SocketsTypeOK
    BY DEF NetInit, SocketsTypeOK, Up
<1>2. ConnectionsInv /\ AnswersInv /\ ServersInv
    BY EmptyQueue DEF NetInit, ConnectionsInv, AnswersInv, ServersInv, AcceptedBy
<1>3. CountInv
    BY FS_EmptySet DEF NetInit, CountInv
<1> QED
    BY <1>1, <1>2, <1>3 DEF NetInv

\* A server that is not about to accept: nothing but where it is changes.
LEMMA ServerMoves ==
    ASSUME NetInv, NEW s \in Server,
           StartServer(s) \/ Bind(s) \/ AcceptFails(s)
    PROVE  NetInv'
<1> USE DEF Moves, lines
<1>1. UNCHANGED <<program, listening, backlog, client_fds, cli, host, accepted, written, closed, reset>>
    BY DEF StartServer, Bind, AcceptFails
<1>2. PICK a \in {"bind", "listen", "refused", "aborted"} : srv' = [srv EXCEPT ![s] = a]
    BY DEF StartServer, Bind, AcceptFails
<1>3. s \notin listening /\ srv[s] \in {"off", "bind", "accept"}
    BY DEF StartServer, Bind, AcceptFails, NetInv, ServersInv
<1>4. SocketsTypeOK /\ ConnectionsInv /\ AnswersInv /\ ServersInv /\ CountInv
    BY DEF NetInv
<1>5. /\ srv' \in [Server -> {"off", "bind", "listen", "accept", "write", "close",
                               "refused", "aborted", "exited", "killed"}]
      /\ srv'[s] = a /\ \A z \in Server \ {s} : srv'[z] = srv[z]
    BY <1>2, <1>4 DEF SocketsTypeOK
<1>6. SocketsTypeOK'
    BY <1>1, <1>3, <1>4, <1>5 DEF SocketsTypeOK, Up
<1>7. ConnectionsInv' /\ AnswersInv'
    BY <1>1, <1>3, <1>4, <1>5 DEF ConnectionsInv, AnswersInv
<1>8. ServersInv'
    BY <1>1, <1>3, <1>4, <1>5 DEF ServersInv, AcceptedBy
<1>9. \A z \in Server : AcceptedBy(z)' = AcceptedBy(z)
    BY <1>1 DEF AcceptedBy
<1>10. \A c \in written : host'[c] = host[c] /\ host[c] \in Server
    BY <1>1, <1>4 DEF ConnectionsInv, SocketsTypeOK
<1>11. CountInv'
    BY <1>1, <1>3, <1>4, <1>5, <1>9, <1>10 DEF CountInv, SocketsTypeOK
<1> QED
    BY <1>6, <1>7, <1>8, <1>11 DEF NetInv

\* The servers other than s are where they were.
LEMMA OneServerMoves ==
    ASSUME SocketsTypeOK, NEW s \in Server, NEW from, NEW to, Moves(s, from, to)
    PROVE  /\ srv[s] = from /\ srv'[s] = to
           /\ \A z \in Server \ {s} : srv'[z] = srv[z]
           /\ program' = program
BY DEF Moves, SocketsTypeOK

LEMMA ListenInv == ASSUME NetInv, NEW s \in Server, Listen(s) PROVE NetInv'
<1>1. UNCHANGED <<backlog, client_fds, cli, host, accepted, written, closed, reset>>
    BY DEF Listen, lines
<1>2. SocketsTypeOK /\ ConnectionsInv /\ AnswersInv /\ ServersInv /\ CountInv
    BY DEF NetInv
<1>3. /\ srv[s] = "listen" /\ srv'[s] = "accept"
      /\ \A z \in Server \ {s} : srv'[z] = srv[z]
      /\ program' = program
    BY <1>2, OneServerMoves DEF Listen
<1>4. s \notin listening /\ backlog[s] = << >> /\ client_fds[s] = << >> /\ AcceptedBy(s) = {}
    BY <1>2, <1>3 DEF ServersInv
<1>5. listening' \subseteq listening \cup {s} /\ (listening' = listening \/ (listening' = {s} /\ listening = {}))
    BY DEF Listen, Moves, lines
<1>6. SocketsTypeOK'
    BY <1>1, <1>2, <1>3, <1>5 DEF SocketsTypeOK, Up, Listen, Moves
<1>7. ConnectionsInv' /\ AnswersInv'
    BY <1>1, <1>2, <1>3 DEF ConnectionsInv, AnswersInv
<1>8. \A z \in Server : AcceptedBy(z)' = AcceptedBy(z)
    BY <1>1 DEF AcceptedBy
<1>9. ServersInv'
    BY <1>1, <1>2, <1>3, <1>4, <1>5, <1>8 DEF ServersInv
<1>10. Cardinality(AcceptedBy(s)) = Len(client_fds[s]) /\ Len(client_fds[s]) < MAX_CLIENTS
    BY <1>4, EmptyQueue, FS_EmptySet, SocketsAssumption
<1>11. \A c \in written : host'[c] = host[c] /\ host[c] \in Server
    BY <1>1, <1>2 DEF ConnectionsInv, SocketsTypeOK
<1>12. CountInv'
    BY <1>1, <1>2, <1>3, <1>5, <1>8, <1>10, <1>11 DEF CountInv, SocketsTypeOK
<1> QED
    BY <1>6, <1>7, <1>9, <1>12 DEF NetInv

LEMMA AcceptInv == ASSUME NetInv, NEW s \in Server, Accept(s) PROVE NetInv'
<1> DEFINE h == Head(backlog[s])
<1>1. UNCHANGED <<listening, cli, host, written, closed, reset>>
    BY DEF Accept, lines
<1>2. SocketsTypeOK /\ ConnectionsInv /\ AnswersInv /\ ServersInv /\ CountInv
    BY DEF NetInv
<1>3. PICK to \in {"accept", "write"} :
         /\ srv[s] = "accept" /\ srv'[s] = to
         /\ \A z \in Server \ {s} : srv'[z] = srv[z]
         /\ program' = program
         /\ program = "pause" => (to = "accept" <=> Len(client_fds[s]) + 1 < MAX_CLIENTS)
    BY <1>2, OneServerMoves DEF Accept
<1>4. /\ h \in Client /\ Tail(backlog[s]) \in Seq(Client)
      /\ ToSet(backlog[s]) = {h} \cup ToSet(Tail(backlog[s]))
      /\ h \notin ToSet(Tail(backlog[s])) /\ IsInjective(Tail(backlog[s]))
    BY <1>2, FirstTaken DEF Accept, SocketsTypeOK, ServersInv
<1>5. cli[h] # "off" /\ host[h] = s /\ h \notin accepted \cup reset
    BY <1>2, <1>4 DEF ConnectionsInv
<1>6. h \notin ToSet(client_fds[s]) /\ h \notin closed \cup written
    BY <1>2, <1>4, <1>5 DEF ConnectionsInv
<1>7. /\ Append(client_fds[s], h) \in Seq(Client) /\ Append(client_fds[s], h) # << >>
      /\ Len(Append(client_fds[s], h)) = Len(client_fds[s]) + 1
      /\ ToSet(Append(client_fds[s], h)) = ToSet(client_fds[s]) \cup {h}
      /\ IsInjective(Append(client_fds[s], h))
    <2>1. client_fds[s] \in Seq(Client) /\ IsInjective(client_fds[s])
        BY <1>2 DEF SocketsTypeOK, ServersInv
    <2> HIDE DEF h
    <2> QED
        BY <1>4, <1>6, <2>1, LastAdded
<1>8. /\ backlog'[s] = Tail(backlog[s]) /\ client_fds'[s] = Append(client_fds[s], h)
      /\ \A z \in Server \ {s} : backlog'[z] = backlog[z] /\ client_fds'[z] = client_fds[z]
      /\ accepted' = accepted \cup {h}
    BY <1>2 DEF Accept, SocketsTypeOK
<1>9. SocketsTypeOK'
    BY <1>1, <1>2, <1>3, <1>4, <1>7, <1>8 DEF SocketsTypeOK, Up, Accept, Moves
<1>10. ConnectionsInv'
    <2>1. ASSUME NEW c \in Client, NEW z \in Server, c \in ToSet(backlog'[z])
          PROVE  c \in ToSet(backlog[z]) /\ c # h
        BY <1>2, <1>4, <1>5, <1>8, <2>1 DEF ConnectionsInv
    <2>2. ASSUME NEW c \in Client, NEW z \in Server, c \in ToSet(client_fds'[z])
          PROVE  c \in ToSet(client_fds[z]) \/ (c = h /\ z = s)
        BY <1>7, <1>8, <2>2
    <2>3. \A z \in Server : srv[z] \in {"exited", "killed"} => srv'[z] = srv[z]
        BY <1>3
    <2> HIDE DEF h
    <2> QED
        BY <1>1, <1>2, <1>4, <1>5, <1>6, <1>8, <2>1, <2>2, <2>3 DEF ConnectionsInv
<1>11. AnswersInv'
    BY <1>1, <1>2 DEF AnswersInv
<1>12. /\ AcceptedBy(s)' = AcceptedBy(s) \cup {h} /\ h \notin AcceptedBy(s)
       /\ \A z \in Server \ {s} : AcceptedBy(z)' = AcceptedBy(z)
    BY <1>1, <1>5, <1>8 DEF AcceptedBy
<1>13. ServersInv'
    BY <1>1, <1>2, <1>3, <1>4, <1>7, <1>8, <1>12 DEF ServersInv, Accept
<1>14. IsFiniteSet(accepted') /\ IsFiniteSet(AcceptedBy(s)) /\ AcceptedBy(s) \subseteq accepted
    BY <1>2, <1>8, FS_AddElement, FS_Subset DEF CountInv, AcceptedBy
<1>15. Cardinality(AcceptedBy(s)') = Cardinality(AcceptedBy(s)) + 1
    <2> HIDE DEF h
    <2> QED
        BY <1>12, <1>14, OneMore
<1>16. ASSUME program = "pause" PROVE Cardinality(AcceptedBy(s)) = Len(client_fds[s]) /\ Len(client_fds[s]) < MAX_CLIENTS
    BY <1>2, <1>3, <1>16 DEF CountInv, Accept
<1>17. ASSUME program = "pause", to = "write" PROVE Len(client_fds[s]) + 1 = MAX_CLIENTS
    BY <1>2, <1>3, <1>16, <1>17, SocketsAssumption DEF SocketsTypeOK
<1>18. ASSUME program = "pause", NEW c \in written PROVE host[c] \in Server \ {s}
    BY <1>2, <1>16, <1>18, SocketsAssumption DEF ConnectionsInv, CountInv, SocketsTypeOK
<1>19. CountInv'
    <2>1. ASSUME program = "pause", NEW z \in listening, srv'[z] = "accept"
          PROVE  Cardinality(AcceptedBy(z)') = Len(client_fds'[z]) /\ Len(client_fds'[z]) < MAX_CLIENTS
        BY <1>2, <1>3, <1>7, <1>8, <1>12, <1>15, <1>16, <2>1 DEF CountInv, SocketsTypeOK
    <2>2. ASSUME program = "pause", NEW z \in Server, srv'[z] \in {"write", "close", "exited"}
          PROVE  Cardinality(AcceptedBy(z)') = MAX_CLIENTS
        BY <1>2, <1>3, <1>12, <1>15, <1>16, <1>17, <2>2 DEF CountInv
    <2>3. ASSUME program = "pause", NEW c \in written PROVE Cardinality(AcceptedBy(host[c])') = MAX_CLIENTS
        BY <1>1, <1>2, <1>12, <1>18, <2>3 DEF CountInv
    <2> QED
        BY <1>1, <1>3, <1>14, <2>1, <2>2, <2>3 DEF CountInv, AcceptedBy
<1> QED
    BY <1>9, <1>10, <1>11, <1>13, <1>19 DEF NetInv

LEMMA WriteInv == ASSUME NetInv, NEW s \in Server, Write(s) PROVE NetInv'
<1> DEFINE h == Head(client_fds[s])
<1>1. UNCHANGED <<listening, backlog, client_fds, cli, host, accepted, closed, reset>>
    BY DEF Write
<1>2. SocketsTypeOK /\ ConnectionsInv /\ AnswersInv /\ ServersInv /\ CountInv
    BY DEF NetInv
<1>3. /\ srv[s] = "write" /\ srv'[s] = "close"
      /\ \A z \in Server \ {s} : srv'[z] = srv[z]
      /\ program' = program /\ written' = written \cup {h}
    BY <1>2, OneServerMoves DEF Write
<1>4. s \in listening /\ h \in Client /\ h \in ToSet(client_fds[s])
    BY <1>2, <1>3, FirstTaken DEF SocketsTypeOK, ServersInv
<1>5. host[h] = s /\ h \in accepted \ closed
    BY <1>2, <1>4 DEF ConnectionsInv
<1>6. SocketsTypeOK'
    BY <1>1, <1>2, <1>3, <1>4 DEF SocketsTypeOK, Up, Write, Moves
<1>7. ConnectionsInv' /\ AnswersInv'
    BY <1>1, <1>2, <1>3, <1>5 DEF ConnectionsInv, AnswersInv
<1>8. ServersInv'
    BY <1>1, <1>2, <1>3, <1>4 DEF ServersInv, AcceptedBy
<1>9. program = "pause" => Cardinality(AcceptedBy(s)) = MAX_CLIENTS
    BY <1>2, <1>3 DEF CountInv
<1>10. \A z \in Server : AcceptedBy(z)' = AcceptedBy(z)
    BY <1>1 DEF AcceptedBy
<1>11. \A c \in written' : host'[c] = host[c] /\ host[c] \in Server /\ (c \in written \/ host[c] = s)
    BY <1>1, <1>2, <1>3, <1>5 DEF ConnectionsInv, SocketsTypeOK
<1>12. CountInv'
    BY <1>1, <1>2, <1>3, <1>9, <1>10, <1>11 DEF CountInv, SocketsTypeOK
<1> QED
    BY <1>6, <1>7, <1>8, <1>12 DEF NetInv

\* Exit closes what the server has open, and resets who has not been accepted.
LEMMA EndsInv ==
    ASSUME NetInv, NEW s \in Server, NEW to \in {"exited", "killed"}, Up(s),
           Moves(s, srv[s], to), Ends(s), UNCHANGED <<cli, host, accepted, written>>,
           to = "exited" => /\ \A c \in ToSet(client_fds[s]) : c \in written
                            /\ program = "pause" => Cardinality(AcceptedBy(s)) = MAX_CLIENTS
    PROVE  NetInv'
<1>1. SocketsTypeOK /\ ConnectionsInv /\ AnswersInv /\ ServersInv /\ CountInv
    BY DEF NetInv
<1>2. /\ srv'[s] = to
      /\ \A z \in Server \ {s} : srv'[z] = srv[z]
      /\ program' = program
    BY <1>1, OneServerMoves
<1>3. /\ ToSet(client_fds[s]) \subseteq Client /\ ToSet(backlog[s]) \subseteq Client
      /\ ToSet(<< >>) = {} /\ IsInjective(<< >>)
    BY <1>1, EmptyQueue DEF SocketsTypeOK, ToSet
<1>4. /\ backlog'[s] = << >> /\ client_fds'[s] = << >>
      /\ \A z \in Server \ {s} : backlog'[z] = backlog[z] /\ client_fds'[z] = client_fds[z]
      /\ closed' = closed \cup ToSet(client_fds[s]) /\ reset' = reset \cup ToSet(backlog[s])
      /\ listening' = listening \ {s}
    BY <1>1 DEF Ends, SocketsTypeOK
<1>5. SocketsTypeOK'
    <2>1. listening' \subseteq {z \in Server : Up(z)'}
        BY <1>1, <1>2, <1>4 DEF SocketsTypeOK, Up
    <2>2. /\ program' \in {"simple", "pause"} /\ closed' \subseteq Client /\ reset' \subseteq Client
          /\ srv' \in [Server -> {"off", "bind", "listen", "accept", "write", "close",
                                  "refused", "aborted", "exited", "killed"}]
        BY <1>1, <1>2, <1>3, <1>4 DEF SocketsTypeOK, Moves
    <2>3. backlog' \in [Server -> Seq(Client)] /\ client_fds' \in [Server -> Seq(Client)]
        BY <1>1 DEF SocketsTypeOK, Ends
    <2> QED
        BY <1>1, <2>1, <2>2, <2>3 DEF SocketsTypeOK
<1>6. \A c \in Client : c \in ToSet(client_fds[s]) => host[c] = s /\ c \in accepted
    BY <1>1 DEF ConnectionsInv
<1>7. \A c \in Client : c \in ToSet(backlog[s]) => host[c] = s /\ cli[c] # "off" /\ c \notin accepted
    BY <1>1 DEF ConnectionsInv
<1>8. \A c \in Client, z \in Server \ {s} : c \in ToSet(client_fds[z]) \cup ToSet(backlog[z]) => host[c] = z
    BY <1>1 DEF ConnectionsInv
<1>9. srv[s] \notin {"exited", "killed"}
    BY DEF Up
<1>10. ConnectionsInv'
    BY <1>1, <1>2, <1>3, <1>4, <1>6, <1>7, <1>8, <1>9 DEF ConnectionsInv
<1>11. AnswersInv'
    BY <1>1, <1>3, <1>4, <1>6 DEF AnswersInv, ConnectionsInv
<1>12. \A z \in Server : AcceptedBy(z)' = AcceptedBy(z)
    BY DEF AcceptedBy
<1>13. ServersInv'
    BY <1>1, <1>2, <1>3, <1>4, <1>12 DEF ServersInv
<1>14. \A c \in written : host[c] \in Server
    BY <1>1 DEF ConnectionsInv, SocketsTypeOK
<1>15. CountInv'
    BY <1>1, <1>2, <1>4, <1>12, <1>14 DEF CountInv, SocketsTypeOK
<1> QED
    BY <1>5, <1>10, <1>11, <1>13, <1>15 DEF NetInv

LEMMA KillServerInv == ASSUME NetInv, NEW s \in Server, KillServer(s) PROVE NetInv'
BY EndsInv DEF KillServer

LEMMA CloseInv == ASSUME NetInv, NEW s \in Server, Close(s) PROVE NetInv'
<1> DEFINE h == Head(client_fds[s])  rest == Tail(client_fds[s])
<1>1. SocketsTypeOK /\ ConnectionsInv /\ AnswersInv /\ ServersInv /\ CountInv
    BY DEF NetInv
<1>2. srv[s] = "close" /\ client_fds[s] # << >> /\ s \in listening /\ h \in written
    BY <1>1 DEF Close, ServersInv
<1>3. /\ h \in Client /\ rest \in Seq(Client)
      /\ ToSet(client_fds[s]) = {h} \cup ToSet(rest)
      /\ h \notin ToSet(rest) /\ IsInjective(rest)
    BY <1>1, <1>2, FirstTaken DEF SocketsTypeOK, ServersInv
<1>4. program = "pause" => Cardinality(AcceptedBy(s)) = MAX_CLIENTS
    BY <1>1, <1>2 DEF CountInv
<1>5. CASE program = "pause" /\ rest = << >>
    <2>1. \A c \in ToSet(client_fds[s]) : c \in written
        BY <1>2, <1>3, <1>5, EmptyQueue
    <2>2. /\ Moves(s, srv[s], "exited") /\ Ends(s)
          /\ UNCHANGED <<cli, host, accepted, written>> /\ Up(s)
        BY <1>2, <1>5 DEF Close, Up
    <2> QED
        BY <1>4, <2>1, <2>2, EndsInv
<1>6. CASE ~(program = "pause" /\ rest = << >>)
    <2> DEFINE to == IF rest = << >> THEN "accept" ELSE "write"
    <2>1. /\ Moves(s, "close", to)
          /\ client_fds' = [client_fds EXCEPT ![s] = rest]
          /\ closed' = closed \cup {h}
          /\ UNCHANGED <<listening, backlog, reset, cli, host, accepted, written>>
        BY <1>6 DEF Close
    <2>2. /\ srv'[s] = to /\ program' = program
          /\ \A z \in Server \ {s} : srv'[z] = srv[z]
        BY <1>1, <2>1, OneServerMoves
    <2>3. /\ client_fds'[s] = rest
          /\ \A z \in Server \ {s} : client_fds'[z] = client_fds[z]
        BY <1>1, <2>1 DEF SocketsTypeOK
    <2>4. SocketsTypeOK'
        BY <1>1, <1>3, <2>1, <2>2 DEF SocketsTypeOK, Up, Moves
    <2>5. \A z \in Server \ {s} : h \notin ToSet(client_fds[z])
        BY <1>1, <1>3 DEF ConnectionsInv
    <2>6. h \in accepted /\ host[h] = s
        BY <1>1, <1>3 DEF ConnectionsInv
    <2>7. ConnectionsInv'
        <3>1. ASSUME NEW c \in Client, NEW z \in Server, c \in ToSet(client_fds'[z])
              PROVE  c \in ToSet(client_fds[z]) /\ c # h
            BY <1>3, <2>3, <2>5, <3>1
        <3>2. \A z \in Server : srv[z] \in {"exited", "killed"} => srv'[z] = srv[z]
            BY <1>2, <2>2
        <3> HIDE DEF h, rest, to
        <3> QED
            BY <1>1, <1>2, <2>1, <2>6, <3>1, <3>2 DEF ConnectionsInv
    <2>8. AnswersInv'
        BY <1>1, <1>2, <2>1 DEF AnswersInv
    <2>9. \A z \in Server : AcceptedBy(z)' = AcceptedBy(z)
        BY <2>1 DEF AcceptedBy
    <2>10. ServersInv'
        BY <1>1, <1>2, <1>3, <2>1, <2>2, <2>3, <2>9 DEF ServersInv
    <2>11. \A c \in written : host[c] \in Server
        BY <1>1 DEF ConnectionsInv, SocketsTypeOK
    <2>12. CountInv'
        BY <1>1, <1>4, <1>6, <2>1, <2>2, <2>3, <2>9, <2>11 DEF CountInv, SocketsTypeOK
    <2> QED
        BY <2>4, <2>7, <2>8, <2>10, <2>12 DEF NetInv
<1> QED
    BY <1>5, <1>6

LEMMA ConnectInv == ASSUME NetInv, NEW c \in Client, Connect(c) PROVE NetInv'
<1>1. SocketsTypeOK /\ ConnectionsInv /\ AnswersInv /\ ServersInv /\ CountInv
    BY DEF NetInv
<1>2. /\ cli[c] = "off" /\ UNCHANGED <<program, srv, listening, client_fds, accepted, written, closed, reset>>
      /\ \A d \in Client \ {c} : cli'[d] = cli[d]
      /\ cli'[c] \in {"read", "refused"}
      /\ cli' \in [Client -> {"off", "read", "answered", "empty", "refused", "reset", "killed"}]
    BY <1>1 DEF Connect, Proceeds, SocketsTypeOK, lines
<1>3. /\ c \notin accepted \cup reset \cup written \cup closed
      /\ \A z \in Server : c \notin ToSet(backlog[z]) \cup ToSet(client_fds[z])
    BY <1>1, <1>2 DEF ConnectionsInv
<1>4. CASE listening = {} /\ UNCHANGED <<backlog, host>>
    <2>1. SocketsTypeOK'
        BY <1>1, <1>2, <1>4 DEF SocketsTypeOK, Up
    <2>2. ConnectionsInv' /\ AnswersInv'
        BY <1>1, <1>2, <1>3, <1>4 DEF ConnectionsInv, AnswersInv
    <2>3. ServersInv' /\ CountInv'
        BY <1>1, <1>2, <1>4 DEF ServersInv, CountInv, AcceptedBy
    <2> QED
        BY <2>1, <2>2, <2>3 DEF NetInv
<1>5. ASSUME NEW s \in listening, cli'[c] = "read",
             backlog' = [backlog EXCEPT ![s] = Append(@, c)],
             host' = [host EXCEPT ![c] = s]
      PROVE  NetInv'
    <2>1. /\ s \in Server /\ host'[c] = s /\ \A d \in Client \ {c} : host'[d] = host[d]
          /\ backlog'[s] = Append(backlog[s], c)
          /\ \A z \in Server \ {s} : backlog'[z] = backlog[z]
        BY <1>1, <1>5 DEF SocketsTypeOK
    <2>2. /\ backlog'[s] \in Seq(Client) /\ backlog'[s] # << >>
          /\ ToSet(backlog'[s]) = ToSet(backlog[s]) \cup {c} /\ IsInjective(backlog'[s])
        <3>1. backlog[s] \in Seq(Client) /\ IsInjective(backlog[s]) /\ c \notin ToSet(backlog[s])
            BY <1>1, <1>3, <2>1 DEF SocketsTypeOK, ServersInv
        <3> QED
            BY <2>1, <3>1, LastAdded
    <2>3. SocketsTypeOK'
        BY <1>1, <1>2, <1>5, <2>1, <2>2 DEF SocketsTypeOK, Up
    <2>4. ConnectionsInv'
        BY <1>1, <1>2, <1>3, <1>5, <2>1, <2>2 DEF ConnectionsInv
    <2>5. AnswersInv'
        BY <1>1, <1>2, <1>5 DEF AnswersInv
    <2>6. \A z \in Server : AcceptedBy(z)' = AcceptedBy(z)
        BY <1>1, <1>2, <1>3, <2>1 DEF AcceptedBy, SocketsTypeOK
    <2>7. ServersInv'
        BY <1>1, <1>2, <2>1, <2>2, <2>6 DEF ServersInv
    <2>8. \A d \in written : host'[d] = host[d] /\ host[d] \in Server
        BY <1>1, <1>3, <2>1 DEF ConnectionsInv, SocketsTypeOK
    <2>9. CountInv'
        BY <1>1, <1>2, <2>6, <2>8 DEF CountInv, SocketsTypeOK
    <2> QED
        BY <2>3, <2>4, <2>5, <2>7, <2>9 DEF NetInv
<1> QED
    BY <1>1, <1>4, <1>5 DEF Connect, Proceeds, SocketsTypeOK

LEMMA ReadInv == ASSUME NetInv, NEW c \in Client, Read(c) \/ KillClient(c) PROVE NetInv'
<1>1. SocketsTypeOK /\ ConnectionsInv /\ AnswersInv /\ ServersInv /\ CountInv
    BY DEF NetInv
<1>2. /\ cli[c] = "read"
      /\ UNCHANGED <<program, srv, listening, backlog, client_fds, host, accepted, written, closed, reset>>
      /\ \A d \in Client \ {c} : cli'[d] = cli[d]
      /\ cli' \in [Client -> {"off", "read", "answered", "empty", "refused", "reset", "killed"}]
      /\ \/ cli'[c] = "answered" /\ c \in written
         \/ cli'[c] = "empty" /\ c \in closed \ written
         \/ cli'[c] = "reset" /\ c \in reset
         \/ cli'[c] = "killed"
    BY <1>1 DEF Read, KillClient, Proceeds, SocketsTypeOK, lines
<1>3. SocketsTypeOK'
    BY <1>1, <1>2 DEF SocketsTypeOK, Up
<1>4. ConnectionsInv' /\ AnswersInv'
    BY <1>1, <1>2 DEF ConnectionsInv, AnswersInv
<1>5. ServersInv' /\ CountInv'
    BY <1>1, <1>2 DEF ServersInv, CountInv, AcceptedBy
<1> QED
    BY <1>3, <1>4, <1>5 DEF NetInv

LEMMA NetStepInv == NetInv /\ [NetNext]_netVars => NetInv'
<1> SUFFICES ASSUME NetInv, [NetNext]_netVars PROVE NetInv'
    OBVIOUS
<1>1. CASE UNCHANGED netVars
    <2>1. SocketsTypeOK' /\ ConnectionsInv' /\ AnswersInv'
        BY <1>1 DEF netVars, NetInv, SocketsTypeOK, Up, ConnectionsInv, AnswersInv
    <2>2. ServersInv'
        BY <1>1 DEF netVars, NetInv, ServersInv, AcceptedBy
    <2>3. CountInv'
        BY <1>1 DEF netVars, NetInv, CountInv, AcceptedBy
    <2> QED
        BY <2>1, <2>2, <2>3 DEF NetInv
<1>2. ASSUME NEW s \in Server, StartServer(s) \/ server(s) \/ KillServer(s) PROVE NetInv'
    BY <1>2, ServerMoves, ListenInv, AcceptInv, WriteInv, CloseInv, KillServerInv DEF server
<1>3. ASSUME NEW c \in Client, Connect(c) \/ Read(c) \/ KillClient(c) PROVE NetInv'
    BY <1>3, ConnectInv, ReadInv
<1> QED
    BY <1>1, <1>2, <1>3 DEF NetNext

\* However the servers and clients are started, killed and interleaved: a client of
\* pause-server that is told of the shutdown is one of exactly MAX_CLIENTS, one that
\* reads nothing had a killed server, and one that is reset was never accepted.
THEOREM FateIsServers == NetSpec => []FateFitsServer
<1>1. NetInv => FateFitsServer
    <2> SUFFICES ASSUME NetInv, NEW c \in Client PROVE
            /\ cli[c] = "answered" /\ program = "pause" => Cardinality(AcceptedBy(host[c])) = MAX_CLIENTS
            /\ cli[c] = "empty" => srv[host[c]] = "killed" /\ c \in accepted
            /\ cli[c] = "reset" => srv[host[c]] \in {"killed", "exited"} /\ c \notin accepted
        BY DEF FateFitsServer, AcceptedBy
    <2> QED
        BY DEF NetInv, CountInv, AnswersInv, ConnectionsInv
<1> QED
    BY <1>1, NetInitInv, NetStepInv, PTL DEF NetSpec

-----------------------------------------------------------------------------
(* multiple_writes: all data is present *)

\* The lines written so far: those that have been read, and those still there.
Stream == got \o file

StreamInv == prefork \/ use_fifo => \A w \in Writer : HasLines(w, line[w], Stream)

\* Who shares a position writes behind the last line; who has one of his own has as
\* many lines behind him as he has written.
PositionInv ==
    /\ ~use_fifo => reader = "none" /\ got = << >>
    /\ ~use_fifo /\ prefork =>
          position[Parent] = Len(file) /\ Len(file) = line[Parent] + line[Child]
    /\ ~use_fifo /\ ~prefork => \A w \in Writer : position[w] = line[w] /\ line[w] <= Len(file)

OverwrittenInv == ~prefork /\ ~use_fifo =>
    \A k \in 1..Len(file) : \E w \in Writer : file[k] = <<w, k>> /\ k <= line[w]

\* When the file is opened ahead of the fork, no writer is still to come once
\* there is a reader.
OpenersInv ==
    /\ prefork =>
          /\ place[Child] \notin {"open", "opening", "fork"}
          /\ place[Parent] \in {"open", "opening", "fork"} => place[Child] = "unborn"
          /\ place[Parent] = "open" => reader \in {"none", "opening"}
          /\ reader = "eof" => \A w \in Writer : place[w] \in {"closed", "unborn"}
    /\ \A w \in Writer : place[w] = "killed" => reader = "killed"

DataInv == WritersTypeOK /\ StreamInv /\ PositionInv /\ OverwrittenInv /\ OpenersInv

LEMMA TwoWriters == Parent \in Writer /\ Child \in Writer /\ Parent # Child
BY DEF Parent, Child, Writer

LEMMA ReadIsKept ==
    ASSUME NEW S, NEW read \in Seq(S), NEW there \in Seq(S), there # << >>
    PROVE  Append(read, Head(there)) \o Tail(there) = read \o there
OBVIOUS

LEMMA WrittenBehind ==
    ASSUME NEW S, NEW read \in Seq(S), NEW there \in Seq(S), NEW l \in S
    PROVE  /\ read \o there \in Seq(S)
           /\ read \o Append(there, l) = Append(read \o there, l)
OBVIOUS

\* A process's next line, behind everything that has been written.
LEMMA NextLine ==
    ASSUME NEW seq \in Seq(Writer \X Nat), NEW w \in Writer, NEW n \in Nat, HasLines(w, n, seq)
    PROVE  HasLines(w, n + 1, Append(seq, <<w, n + 1>>))
<1> DEFINE l == <<w, n + 1>>  all == Append(seq, l)
<1>1. l \in Writer \X Nat /\ l[1] = w /\ l[2] = n + 1
    OBVIOUS
<1>2. /\ Len(seq) \in Nat /\ Len(all) = Len(seq) + 1 /\ all[Len(seq) + 1] = l
      /\ \A m \in 1..Len(seq) : all[m] = seq[m]
    BY <1>1
<1>3. \A m : m \in 1..Len(all) <=> m \in 1..Len(seq) \/ m = Len(seq) + 1
    BY <1>2
<1>4. \A m \in 1..Len(seq) : seq[m][1] = w => seq[m][2] \in 1..n
    BY DEF HasLines
<1> HIDE DEF l, all
<1>5. \A m \in 1..Len(all) : all[m][1] = w => all[m][2] \in 1..(n + 1)
    BY <1>1, <1>2, <1>3, <1>4
<1>6. ASSUME NEW k \in 1..(n + 1) PROVE \E m \in 1..Len(all) : all[m] = <<w, k>>
    <2>1. CASE k \in 1..n
        <3>1. PICK m \in 1..Len(seq) : seq[m] = <<w, k>>
            BY <2>1 DEF HasLines
        <3> QED
            BY <1>2, <1>3, <3>1
    <2>2. CASE k = n + 1
        BY <1>2, <1>3, <2>2 DEF l
    <2> QED
        BY <2>1, <2>2
<1>7. ASSUME NEW m \in 1..Len(all), NEW j \in 1..Len(all), m < j, all[m][1] = w, all[j][1] = w
      PROVE  all[m][2] < all[j][2]
    <2>1. m \in 1..Len(seq) /\ all[m] = seq[m]
        BY <1>2, <1>3, <1>7
    <2>2. CASE j \in 1..Len(seq)
        BY <1>2, <1>7, <2>1, <2>2 DEF HasLines
    <2>3. CASE j = Len(seq) + 1
        BY <1>1, <1>2, <1>4, <1>7, <2>1, <2>3
    <2> QED
        BY <1>3, <2>2, <2>3
<1> QED
    BY <1>5, <1>6, <1>7 DEF HasLines, l, all

\* It changes nothing about the other process's.
LEMMA AnotherLine ==
    ASSUME NEW seq \in Seq(Writer \X Nat), NEW v \in Writer, NEW n \in Nat, HasLines(v, n, seq),
           NEW l \in Writer \X Nat, l[1] # v
    PROVE  HasLines(v, n, Append(seq, l))
<1> DEFINE all == Append(seq, l)
<1>1. /\ Len(seq) \in Nat /\ Len(all) = Len(seq) + 1 /\ all[Len(seq) + 1] = l
      /\ \A m \in 1..Len(seq) : all[m] = seq[m]
    OBVIOUS
<1>2. \A m : m \in 1..Len(all) <=> m \in 1..Len(seq) \/ m = Len(seq) + 1
    BY <1>1
<1> HIDE DEF all
<1> QED
    BY <1>1, <1>2 DEF HasLines, all

\* What write does to a file with the position ahead of its end, and at its end.
LEMMA Overwritten ==
    ASSUME NEW S, NEW seq \in Seq(S), NEW k \in 1..Len(seq), NEW x \in S
    PROVE  /\ [seq EXCEPT ![k] = x] \in Seq(S) /\ Len([seq EXCEPT ![k] = x]) = Len(seq)
           /\ [seq EXCEPT ![k] = x][k] = x
           /\ \A m \in 1..Len(seq) : m # k => [seq EXCEPT ![k] = x][m] = seq[m]
OBVIOUS

LEMMA Extended ==
    ASSUME NEW S, NEW seq \in Seq(S), NEW x \in S
    PROVE  /\ Append(seq, x) \in Seq(S) /\ Len(Append(seq, x)) = Len(seq) + 1
           /\ Append(seq, x)[Len(seq) + 1] = x
           /\ \A m \in 1..Len(seq) : Append(seq, x)[m] = seq[m]
OBVIOUS

LEMMA WritersInitInv == WritersInit => DataInv
<1> SUFFICES ASSUME WritersInit PROVE DataInv
    OBVIOUS
<1>1. iters \in Nat /\ 0 \in 0..iters /\ 0 \in 0..2 * iters
    BY WritersAssumption
<1>2. WritersTypeOK
    BY <1>1, TwoWriters DEF WritersInit, WritersTypeOK
<1>3. Stream = << >> /\ Len(Stream) = 0 /\ Len(file) = 0
    BY DEF WritersInit, Stream
<1>4. StreamInv /\ OverwrittenInv
    BY <1>3 DEF WritersInit, StreamInv, HasLines, OverwrittenInv
<1>5. PositionInv /\ OpenersInv
    BY <1>3, TwoWriters DEF WritersInit, PositionInv, OpenersInv
<1> QED
    BY <1>2, <1>4, <1>5 DEF DataInv

\* open, fork, close, and what the reader does but to read.
LEMMA PlacesInv ==
    ASSUME DataInv, UNCHANGED <<prefork, use_fifo, line, position, file, got>>,
           \/ Fork \/ StartReader \/ EndOfFile \/ KillReader
           \/ \E w \in Writer : Open(w) \/ BreakPipe(w) \/ CloseFile(w)
    PROVE  DataInv'
<1>1. WritersTypeOK /\ StreamInv /\ PositionInv /\ OverwrittenInv /\ OpenersInv
    BY DEF DataInv
<1>2. StreamInv' /\ OverwrittenInv'
    <2>1. Stream' = Stream
        BY DEF Stream
    <2>2. StreamInv'
        BY <1>1, <2>1 DEF StreamInv, HasLines
    <2> QED
        BY <1>1, <2>2 DEF OverwrittenInv
<1> USE TwoWriters
<1>3. WritersTypeOK' /\ PositionInv' /\ OpenersInv'
    <2>1. CASE Fork
        <3>1. PICK next \in {"write", "open"}, born \in {"write", "open", "unborn"} :
                  /\ prefork => next = "write" /\ born # "open"
                  /\ place' = [place EXCEPT ![Parent] = next, ![Child] = born]
                  /\ UNCHANGED reader
            BY <2>1 DEF Fork
        <3>2. place' \in [Writer -> {"unborn", "open", "opening", "fork", "write", "closed", "killed"}]
            BY <1>1, <3>1 DEF WritersTypeOK
        <3>3. /\ \A w \in Writer : w = Parent \/ w = Child
              /\ place'[Parent] = next /\ place'[Child] = born /\ place[Parent] = "fork"
            BY <1>1, <2>1, <3>1 DEF WritersTypeOK, Writer, Fork
        <3>4. WritersTypeOK' /\ PositionInv'
            BY <1>1, <3>1, <3>2 DEF WritersTypeOK, PositionInv
        <3>5. OpenersInv'
            BY <1>1, <3>1, <3>3 DEF OpenersInv
        <3> QED
            BY <3>4, <3>5
    <2>2. CASE StartReader
        BY <1>1, <2>2 DEF StartReader, WritersTypeOK, PositionInv, OpenersInv, AfterOpen, HasOpen, Writer
    <2>3. CASE EndOfFile
        BY <1>1, <2>3 DEF EndOfFile, WritersTypeOK, PositionInv, OpenersInv, HasOpen, Writer
    <2>4. CASE KillReader
        BY <1>1, <2>4 DEF KillReader, WritersTypeOK, PositionInv, OpenersInv
    <2>5. ASSUME NEW w \in Writer, Open(w) PROVE WritersTypeOK' /\ PositionInv' /\ OpenersInv'
        BY <1>1, <2>5 DEF Open, AfterOpen, WritersTypeOK, PositionInv, OpenersInv, Writer
    <2>6. ASSUME NEW w \in Writer, BreakPipe(w) PROVE WritersTypeOK' /\ PositionInv' /\ OpenersInv'
        BY <1>1, <2>6 DEF BreakPipe, WritersTypeOK, PositionInv, OpenersInv, Writer
    <2>7. ASSUME NEW w \in Writer, CloseFile(w) PROVE WritersTypeOK' /\ PositionInv' /\ OpenersInv'
        BY <1>1, <2>7 DEF CloseFile, WritersTypeOK, PositionInv, OpenersInv, Writer
    <2> QED
        BY <2>1, <2>2, <2>3, <2>4, <2>5, <2>6, <2>7
<1> QED
    BY <1>1, <1>2, <1>3 DEF DataInv

LEMMA ReadFifoInv == ASSUME DataInv, ReadFifo PROVE DataInv'
<1>1. WritersTypeOK /\ StreamInv /\ PositionInv /\ OverwrittenInv /\ OpenersInv
    BY DEF DataInv
<1>2. UNCHANGED <<prefork, use_fifo, place, line, position, reader>> /\ use_fifo
    BY <1>1 DEF ReadFifo, PositionInv
<1>3. WritersTypeOK'
    BY <1>1, <1>2 DEF ReadFifo, WritersTypeOK
<1>4. Stream' = Stream
    BY <1>1, ReadIsKept DEF Stream, ReadFifo, WritersTypeOK
<1>5. StreamInv'
    BY <1>1, <1>2, <1>4 DEF StreamInv, HasLines
<1>6. PositionInv' /\ OverwrittenInv' /\ OpenersInv'
    BY <1>1, <1>2 DEF PositionInv, OverwrittenInv, OpenersInv
<1> QED
    BY <1>3, <1>5, <1>6 DEF DataInv

LEMMA WriteLineInv == ASSUME DataInv, NEW w \in Writer, WriteLine(w) PROVE DataInv'
<1> DEFINE mine == <<w, line[w] + 1>>
<1>1. WritersTypeOK /\ StreamInv /\ PositionInv /\ OverwrittenInv /\ OpenersInv
    BY DEF DataInv
<1>2. /\ UNCHANGED <<prefork, use_fifo, place, reader, got>>
      /\ line[w] \in Nat /\ line[w] < iters /\ line' = [line EXCEPT ![w] = @ + 1]
      /\ line'[w] = line[w] + 1 /\ \A v \in Writer \ {w} : line'[v] = line[v]
    BY <1>1 DEF WriteLine, WritersTypeOK
<1>3. line[w] + 1 \in 0..iters /\ line' \in [Writer -> 0..iters] /\ mine \in Writer \X Nat
    <2>1. line[w] + 1 \in 0..iters
        BY <1>2, WritersAssumption
    <2> QED
        BY <1>1, <1>2, <2>1 DEF WritersTypeOK
<1>4. OpenersInv'
    BY <1>1, <1>2 DEF OpenersInv
<1>5. ASSUME file' = Append(file, mine), prefork \/ use_fifo PROVE StreamInv'
    <2>1. Stream \in Seq(Writer \X Nat) /\ Stream' = Append(Stream, mine)
        <3>1. got \in Seq(Writer \X Nat) /\ file \in Seq(Writer \X Nat)
            BY <1>1 DEF WritersTypeOK
        <3>2. Stream' = got \o Append(file, mine)
            BY <1>2, <1>5 DEF Stream
        <3> DEFINE Line == Writer \X Nat
        <3> HIDE DEF mine, Line
        <3>3. got \in Seq(Line) /\ file \in Seq(Line) /\ mine \in Line
            BY <1>3, <3>1 DEF Line
        <3>4. got \o file \in Seq(Line) /\ got \o Append(file, mine) = Append(got \o file, mine)
            BY <3>3, WrittenBehind
        <3> QED
            BY <3>2, <3>4 DEF Stream, Line
    <2>2. \A v \in Writer : HasLines(v, line[v], Stream) /\ line[v] \in Nat
        BY <1>1, <1>5, WritersAssumption DEF StreamInv, WritersTypeOK
    <2>3. HasLines(w, line'[w], Stream')
        BY <1>2, <2>1, <2>2, NextLine
    <2>4. ASSUME NEW v \in Writer \ {w} PROVE HasLines(v, line'[v], Stream')
        <3>1. mine \in Writer \X Nat /\ mine[1] # v
            BY <1>3
        <3>2. line'[v] = line[v] /\ line[v] \in Nat /\ HasLines(v, line[v], Stream)
            BY <1>2, <2>2
        <3> HIDE DEF mine
        <3>3. HasLines(v, line[v], Append(Stream, mine))
            BY <2>1, <3>1, <3>2, AnotherLine
        <3> QED
            BY <2>1, <3>2, <3>3
    <2> QED
        BY <2>3, <2>4 DEF StreamInv
<1>6. CASE use_fifo
    <2>1. file' = Append(file, mine) /\ UNCHANGED position
        BY <1>6 DEF WriteLine, WriteFile, WriteFifo
    <2>2. WritersTypeOK'
        BY <1>1, <1>2, <1>3, <2>1 DEF WritersTypeOK
    <2>3. PositionInv' /\ OverwrittenInv'
        BY <1>2, <1>6 DEF PositionInv, OverwrittenInv
    <2> QED
        BY <1>4, <1>5, <1>6, <2>1, <2>2, <2>3 DEF DataInv
<1>7. CASE ~use_fifo /\ prefork
    <2>1. position[Parent] = Len(file) /\ Len(file) = line[Parent] + line[Child] /\ Len(file) \in Nat
        BY <1>1, <1>7 DEF PositionInv, WritersTypeOK
    <2>2. file' = Append(file, mine) /\ position' = [position EXCEPT ![Parent] = Len(file) + 1]
        BY <1>7, <2>1 DEF WriteLine, WriteFile, WriteFifo, Opener
    <2>3. line'[Parent] + line'[Child] = Len(file) + 1 /\ Len(file) + 1 \in 0..2 * iters
        <3>1. \A v \in Writer : line[v] \in Nat /\ line[v] <= iters
            BY <1>1, WritersAssumption DEF WritersTypeOK
        <3>2. w = Parent \/ w = Child
            BY DEF Writer
        <3>3. line[Parent] + line[Child] < 2 * iters
            BY <1>2, <3>1, <3>2, TwoWriters, WritersAssumption
        <3>4. line'[Parent] + line'[Child] = line[Parent] + line[Child] + 1
            BY <1>2, <3>1, <3>2, TwoWriters
        <3> QED
            BY <2>1, <3>3, <3>4, WritersAssumption
    <2>4. WritersTypeOK'
        BY <1>1, <1>2, <1>3, <2>2, <2>3, TwoWriters DEF WritersTypeOK
    <2>5. PositionInv' /\ OverwrittenInv'
        BY <1>1, <1>2, <1>3, <1>7, <2>2, <2>3, TwoWriters DEF PositionInv, OverwrittenInv, WritersTypeOK
    <2> QED
        BY <1>4, <1>5, <1>7, <2>2, <2>4, <2>5 DEF DataInv
<1>8. CASE ~use_fifo /\ ~prefork
    <2> DEFINE k == line[w] + 1
    <2>1. /\ \A v \in Writer : position[v] = line[v] /\ line[v] \in Nat /\ line[v] <= Len(file)
          /\ Len(file) \in Nat
        BY <1>1, <1>8 DEF PositionInv, WritersTypeOK
    <2>2. /\ file' = IF k <= Len(file) THEN [file EXCEPT ![k] = mine] ELSE Append(file, mine)
          /\ position' = [position EXCEPT ![w] = k]
        BY <1>8, <2>1 DEF WriteLine, WriteFile, WriteFifo, Opener
    <2>3. k \in 1..iters /\ k \in 0..2 * iters
        BY <1>2, WritersAssumption
    <2>4. /\ file' \in Seq(Writer \X Nat) /\ Len(file') \in Nat
          /\ file'[k] = mine /\ k <= Len(file') /\ Len(file) <= Len(file')
          /\ \A m \in 1..Len(file') : m # k => m \in 1..Len(file) /\ file'[m] = file[m]
        <3> DEFINE Line == Writer \X Nat
        <3>1. file \in Seq(Line) /\ mine \in Line /\ k \in Nat /\ k >= 1
            BY <1>1, <1>3, <2>3, WritersAssumption DEF WritersTypeOK
        <3> HIDE DEF mine, Line
        <3>2. /\ file' \in Seq(Line) /\ Len(file') \in Nat
              /\ file'[k] = mine /\ k <= Len(file') /\ Len(file) <= Len(file')
              /\ \A m \in 1..Len(file') : m # k => m \in 1..Len(file) /\ file'[m] = file[m]
            <4>1. CASE k <= Len(file)
                <5>1. k \in 1..Len(file) /\ file' = [file EXCEPT ![k] = mine]
                    BY <2>1, <2>2, <3>1, <4>1
                <5> HIDE DEF k
                <5> QED
                    BY <2>1, <3>1, <5>1, Overwritten
            <4>2. CASE ~(k <= Len(file))
                <5>1. k = Len(file) + 1 /\ file' = Append(file, mine)
                    BY <2>1, <2>2, <4>2
                <5> HIDE DEF k
                <5>2. /\ file' \in Seq(Line) /\ Len(file') = Len(file) + 1 /\ file'[k] = mine
                      /\ \A m \in 1..Len(file) : file'[m] = file[m]
                    BY <3>1, <5>1, Extended
                <5> QED
                    BY <2>1, <5>1, <5>2
            <4> QED
                BY <4>1, <4>2
        <3> QED
            BY <3>2 DEF Line
    <2>5. WritersTypeOK'
        BY <1>1, <1>2, <1>3, <2>2, <2>3, <2>4 DEF WritersTypeOK
    <2>6. PositionInv'
        BY <1>1, <1>2, <1>8, <2>1, <2>2, <2>4 DEF PositionInv, WritersTypeOK
    <2>7. OverwrittenInv'
        <3> SUFFICES ASSUME NEW m \in 1..Len(file')
                     PROVE  \E v \in Writer : file'[m] = <<v, m>> /\ m <= line'[v]
            BY DEF OverwrittenInv
        <3>1. CASE m = k
            BY <1>2, <2>4, <3>1
        <3>2. CASE m # k
            <4>1. PICK v \in Writer : file[m] = <<v, m>> /\ m <= line[v]
                BY <1>1, <1>8, <2>4, <3>2 DEF OverwrittenInv
            <4> QED
                BY <1>2, <2>1, <2>4, <3>2, <4>1
        <3> QED
            BY <3>1, <3>2
    <2>8. StreamInv'
        BY <1>2, <1>8 DEF StreamInv
    <2> QED
        BY <1>4, <2>5, <2>6, <2>7, <2>8 DEF DataInv
<1> QED
    BY <1>6, <1>7, <1>8

LEMMA WritersStepInv == DataInv /\ [WritersNext]_writerVars => DataInv'
<1> SUFFICES ASSUME DataInv, [WritersNext]_writerVars PROVE DataInv'
    OBVIOUS
<1>1. CASE UNCHANGED writerVars
    <2>1. WritersTypeOK /\ StreamInv /\ PositionInv /\ OverwrittenInv /\ OpenersInv
        BY DEF DataInv
    <2>2. Stream' = Stream
        BY <1>1 DEF writerVars, Stream
    <2>3. StreamInv'
        BY <1>1, <2>1, <2>2 DEF writerVars, StreamInv, HasLines
    <2>4. WritersTypeOK'
        BY <1>1, <2>1 DEF writerVars, WritersTypeOK
    <2>5. PositionInv' /\ OverwrittenInv' /\ OpenersInv'
        BY <1>1, <2>1 DEF writerVars, PositionInv, OverwrittenInv, OpenersInv
    <2> QED
        BY <2>3, <2>4, <2>5 DEF DataInv
<1>2. CASE Fork \/ StartReader \/ EndOfFile \/ KillReader
    BY <1>2, PlacesInv DEF Fork, StartReader, EndOfFile, KillReader
<1>3. CASE ReadFifo
    BY <1>3, ReadFifoInv
<1>4. ASSUME NEW w \in Writer, Open(w) \/ BreakPipe(w) \/ CloseFile(w) PROVE DataInv'
    BY <1>4, PlacesInv DEF Open, BreakPipe, CloseFile
<1>5. ASSUME NEW w \in Writer, WriteLine(w) PROVE DataInv'
    BY <1>5, WriteLineInv
<1> QED
    BY <1>1, <1>2, <1>3, <1>4, <1>5 DEF WritersNext

\* However the two processes' writes, the reader's reads and its coming and going
\* mix: with a FIFO or a shared position every line is there, once and in order.
THEOREM DataIsPresent == WritersSpec => []AllDataIsPresent
<1>1. DataInv => AllDataIsPresent
    BY DEF DataInv, StreamInv, Stream, OverwrittenInv, OpenersInv, AllDataIsPresent
<1> QED
    BY <1>1, WritersInitInv, WritersStepInv, PTL DEF WritersSpec

=============================================================================
