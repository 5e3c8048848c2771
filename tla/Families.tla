------------------------------- MODULE Families -------------------------------
(***************************************************************************)
(* Programs that fork in a loop, or once, and wait or not:                 *)
(* faster-child.c, child-labor.c (two versions) and spawn-undead.c of      *)
(* notes/04-making-processes-code, fork-exec1.c and fork1.c of lab02.      *)
(*                                                                         *)
(* In all but fork1 and spawn-undead the child execs a program; if that    *)
(* fails the child goes on in its parent's code, in faster-child with the  *)
(* next iteration of the loop that forks.  A process is named by the       *)
(* iterations in which it and its ancestors were forked; main is {}.       *)
(*                                                                         *)
(* Bound: Forks iterations (3 in faster-child, 8 in fork1).                *)
(***************************************************************************)
EXTENDS Naturals, FiniteSetsExt

CONSTANT Forks     \* iterations of a loop that forks

ASSUME FamiliesAssumption == Forks \in Nat \ {0}

VARIABLES
    family,   \* the program
    post,     \* where each process is
    i,        \* the iteration each is in
    waits     \* how many times each has yet to wait

familyVars == <<family, post, i, waits>>

Member == SUBSET (1..Forks)
Main   == {}

Loops    == {"faster_child", "fork1"}
Execs    == {"faster_child", "child_labor", "labor_wait", "fork_exec1"}
WaitsNow == {"fork1", "labor_wait", "fork_exec1", "spawn_undead"}  \* in the iteration

Family == Loops \cup Execs \cup WaitsNow

FamiliesTypeOK ==
    /\ family \in Family
    /\ post \in [Member -> {"unborn", "fork", "child", "runs", "wait", "zombie", "reaped"}]
    /\ i \in [Member -> 1..Forks + 1]
    /\ waits \in [Member -> 0..Forks]

FamilyInit ==
    /\ family \in Family
    /\ post = [m \in Member |-> IF m = Main THEN "fork" ELSE "unborn"]
    /\ i = [m \in Member |-> 1]
    /\ waits = [m \in Member |-> Forks]

Children(m) == {c \in Member : c # Main /\ c \ {Max(c)} = m}

Unreaped(m) == {c \in Children(m) : post[c] \notin {"unborn", "reaped"}}

Rounds == IF family \in Loops THEN Forks ELSE 1

-----------------------------------------------------------------------------

\* fork, which may fail: nobody looks.
ForkChild(m) ==
    /\ post[m] = "fork" /\ i[m] <= Rounds
    /\ LET c == m \cup {i[m]}
           goesOn == [post EXCEPT ![m] = IF family \in WaitsNow THEN "wait" ELSE "fork"]
       IN  /\ post' \in {goesOn, [goesOn EXCEPT ![c] = "child"]}
           /\ i' = [i EXCEPT ![m] = @ + 1, ![c] = i[m] + 1]
    /\ waits' = IF family \in WaitsNow THEN [waits EXCEPT ![m] = 1] ELSE waits
    /\ UNCHANGED family

\* Behind the loop faster-child waits, once for each iteration; the others return.
LeaveLoop(m) ==
    /\ post[m] = "fork" /\ i[m] > Rounds
    /\ post' = [post EXCEPT ![m] = IF family = "faster_child" THEN "wait" ELSE "zombie"]
    /\ UNCHANGED <<family, i, waits>>

Exec(c) ==
    /\ post[c] = "child" /\ family \in Execs
    /\ post' = [post EXCEPT ![c] = "runs"]
    /\ UNCHANGED <<family, i, waits>>

ExecFailed(c) ==
    /\ post[c] = "child" /\ family \in Execs
    /\ post' = [post EXCEPT ![c] = IF family = "faster_child" THEN "fork" ELSE "zombie"]
    /\ UNCHANGED <<family, i, waits>>

\* The program that was execed ends, or is killed; a child without one returns.
ChildEnds(c) ==
    /\ post[c] = "runs" \/ (post[c] = "child" /\ family \notin Execs)
    /\ post' = [post EXCEPT ![c] = "zombie"]
    /\ UNCHANGED <<family, i, waits>>

Waited(m) == IF waits[m] > 1 THEN "wait" ELSE IF family = "fork1" THEN "fork" ELSE "zombie"

\* Faulty: wait comes back though no child has ended (WNOHANG).
WaitNot(m) ==
    /\ post[m] = "wait"
    /\ \/ \E c \in Children(m) : post[c] = "zombie"
              /\ post' = [post EXCEPT ![m] = Waited(m), ![c] = "reaped"]
       \/ (\A c \in Children(m) : post[c] # "zombie")
              /\ post' = [post EXCEPT ![m] = Waited(m)]
    /\ waits' = [waits EXCEPT ![m] = @ - 1]
    /\ UNCHANGED <<family, i>>

\* wait, or waitpid for the one child there is or, when its fork has failed, for
\* any; without a child it fails.
WaitForChild(m) ==
    /\ post[m] = "wait"
    /\ \/ \E c \in Children(m) : post[c] = "zombie"
              /\ post' = [post EXCEPT ![m] = Waited(m), ![c] = "reaped"]
       \/ Unreaped(m) = {} /\ post' = [post EXCEPT ![m] = Waited(m)]
    /\ waits' = [waits EXCEPT ![m] = @ - 1]
    /\ UNCHANGED <<family, i>>

FamilyNext ==
    \E m \in Member :
        \/ ForkChild(m) \/ LeaveLoop(m) \/ WaitForChild(m)
        \/ Exec(m) \/ ExecFailed(m) \/ ChildEnds(m)

FamilySpec == FamilyInit /\ [][FamilyNext]_familyVars

-----------------------------------------------------------------------------
(* Properties *)

\* In the programs that wait, spawn-undead among them, whoever has returned has
\* reaped all its children, though forks and execs fail and a copy of the parent
\* forks children of its own: when main's prompt comes back nobody is left.  This is
\* not what spawn-undead.c:1-2 says, "demonstrate creation of zombie processes:
\* children that outlive their parent": its child is a zombie while the parent naps.
NobodyOutlivesParent ==
    family # "child_labor" =>
        \A m \in Member : post[m] \in {"zombie", "reaped"} => Unreaped(m) = {}

=============================================================================
