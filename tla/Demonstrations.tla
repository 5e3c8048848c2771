---------------------------- MODULE Demonstrations ----------------------------
(***************************************************************************)
(* The demonstrations of processes, signals, FIFOs, semaphores, queues and *)
(* sockets in notes/04, 08, 09, 10 and 13 and in lab02.  They have nothing *)
(* in common; in a behaviour one of them is used.                          *)
(***************************************************************************)
EXTENDS SemDemo, KirkSpock, Sockets, Signals, Writers, Families

VARIABLE demo      \* the one that is used

vars == <<semVars, msgVars, netVars, sigVars, writerVars, familyVars, demo>>

\* What is not used starts in one state only.
Init ==
    /\ demo \in {"semdemo", "kirk and spock", "sockets", "signals", "writers", "families"}
    /\ SemInit /\ (demo # "semdemo" => ~exists)
    /\ MsgInit
    /\ NetInit /\ (demo # "sockets" => program = "simple")
    /\ SigInit /\ (demo # "signals" => protected /\ known)
    /\ WritersInit /\ (demo # "writers" => prefork /\ use_fifo)
    /\ FamilyInit /\ (demo # "families" => family = "fork1")

RunsSemDemo(step) ==
    demo = "semdemo" /\ step
    /\ UNCHANGED <<msgVars, netVars, sigVars, writerVars, familyVars, demo>>

RunsCrew(step) ==
    demo = "kirk and spock" /\ step
    /\ UNCHANGED <<semVars, netVars, sigVars, writerVars, familyVars, demo>>

RunsNet(step) ==
    demo = "sockets" /\ step
    /\ UNCHANGED <<semVars, msgVars, sigVars, writerVars, familyVars, demo>>

RunsSignals(step) ==
    demo = "signals" /\ step
    /\ UNCHANGED <<semVars, msgVars, netVars, writerVars, familyVars, demo>>

RunsWriters(step) ==
    demo = "writers" /\ step
    /\ UNCHANGED <<semVars, msgVars, netVars, sigVars, familyVars, demo>>

RunsFamily(step) ==
    demo = "families" /\ step
    /\ UNCHANGED <<semVars, msgVars, netVars, sigVars, writerVars, demo>>

Next ==
    \/ RunsSemDemo(SemNext) \/ RunsCrew(MsgNext) \/ RunsNet(NetNext)
    \/ RunsSignals(SigNext) \/ RunsWriters(WritersNext) \/ RunsFamily(FamilyNext)

\* The kernel runs every process that can run, and serves those that sleep in
\* msgsnd or msgrcv in the order in which they came.  Users need do nothing.
FairSpec ==
    /\ Init /\ [][Next]_vars
    /\ \A p \in Process : WF_semVars(RunsSemDemo(semdemo(p)))
    /\ \A p \in Crew : SF_msgVars(RunsCrew(crew(p)))
    /\ \A s \in Server : WF_netVars(RunsNet(server(s)))
    /\ \A c \in Client : WF_netVars(RunsNet(Read(c)))

=============================================================================
