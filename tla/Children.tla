------------------------------- MODULE Children -------------------------------
(***************************************************************************)
(* Programs that start a program as their child and look after it:         *)
(*                                                                         *)
(*   labor          child-labor-wait-returnval.c, child-wait.c             *)
(*   impatient      impatient-parent.c: looks once and leaves              *)
(*   helicopter     helicopter-parent.c: looks until the child has ended   *)
(*   wait_loop      lab03: asks the user before each wait                  *)
(*   birth_death    lab06: interrupts the child until it has ended         *)
(*   start_stop     lab06: stops and continues the child until it has      *)
(*                  ended                                                  *)
(*   listen         lab04's parent_listen.c and capture_stdout.c: the      *)
(*                  child's words are read from a pipe when it has ended   *)
(*   read_AB, select_AB                                                    *)
(*                  lab07: two sleep_print children write to a pipe each,  *)
(*                  until the parent is told to stop and stops them        *)
(*                                                                         *)
(* Init chooses the program; every fork succeeds, an exec may fail.  Of    *)
(* the terminal's signals only those of read_AB and select_AB are here.    *)
(*                                                                         *)
(* Bounds: Room records fit in a pipe, a user kills MaxKills children.     *)
(***************************************************************************)
EXTENDS Integers, FiniteSets

CONSTANTS Room,
          MaxKills

ASSUME ChildrenAssumption == Room \in Nat \ {0} /\ MaxKills \in Nat

VARIABLES
    program,
    par,          \* where the parent is
    seen,         \* the status that the parent has got from waitpid
    signaled,     \* read_AB, select_AB: the parent's flag
    ready,        \* select_AB: the pipes in read_set
    child,        \* where each child is
    how,          \* how each child has ended
    stopped,      \* the children that are stopped by SIGSTOP
    flagged,      \* sleep_print: the children whose flag is set
    pipe,         \* the number of records in each child's pipe
    missed,       \* history: children that had a signal before their exec
    kills         \* how many children a user has killed

parent == <<program, par, seen, signaled, ready>>
life   == <<child, how, stopped, flagged, missed>>
vars   == <<parent, life, pipe, kills>>

-----------------------------------------------------------------------------

AB       == {"read_AB", "select_AB"}
Program  == AB \cup {"labor", "impatient", "helicopter", "wait_loop", "birth_death", "start_stop", "listen"}
Child    == IF program \in AB THEN {"A", "B"} ELSE {"A"}
Signal   == "signal"                           \* WIFSIGNALED
Statuses == {"none", "0", "1", "255", Signal}

Gone(c)  == child[c] \in {"zombie", "reaped"}
Alive(c) == child[c] # "unborn" /\ ~Gone(c)

TypeOK ==
    /\ program \in Program
    /\ par \in {"fork", "line", "wait", "check", "kill", "stop", "cont", "read", "test", "select",
                "readA", "readB", "killA", "killB", "ended", "killed", "stopped", "crashed"}
    /\ seen \in Statuses
    /\ signaled \in BOOLEAN
    /\ ready \subseteq Child
    /\ child \in [Child -> {"unborn", "forked", "execed", "look", "running", "deaf", "copy", "zombie", "reaped"}]
    /\ how \in [Child -> Statuses]
    /\ stopped \subseteq Child /\ flagged \subseteq Child /\ missed \subseteq Child
    /\ pipe \in [Child -> 0..Room]
    /\ kills \in 0..MaxKills

Init ==
    /\ program \in Program
    /\ par = "fork"
    /\ seen = "none"
    /\ signaled = FALSE
    /\ ready = {}
    /\ child = [c \in Child |-> "unborn"]
    /\ how = [c \in Child |-> "none"]
    /\ stopped = {} /\ flagged = {} /\ missed = {}
    /\ pipe = [c \in Child |-> 0]
    /\ kills = 0

-----------------------------------------------------------------------------
(* What happens to a child *)

Go(from, to) == par = from /\ par' = to /\ UNCHANGED program

Becomes(c, from, to) ==
    child[c] = from /\ c \notin stopped /\ child' = [child EXCEPT ![c] = to]

Ends(c, from, status) ==
    Becomes(c, from, "zombie") /\ how' = [how EXCEPT ![c] = status]

\* The children of S die by a signal.
Die(S) ==
    /\ child' = [c \in Child |-> IF c \in S THEN "zombie" ELSE child[c]]
    /\ how' = [c \in Child |-> IF c \in S THEN Signal ELSE how[c]]

\* SIGTERM or SIGINT for sleep_print: ahead of the exec the parent's handler sets
\* a flag that is gone with the exec, ahead of its own sigaction the child dies,
\* then it sets its flag.
Tell(S) ==
    /\ Die({c \in S : child[c] = "execed"})
    /\ flagged' = flagged \cup {c \in S : child[c] \in {"look", "running"}}
    /\ missed' = missed \cup {c \in S : child[c] = "forked"}
    /\ UNCHANGED stopped

\* listen's children run the parent's own code.
Exec(c) ==
    /\ program # "listen"
    /\ \/ Becomes(c, "forked", IF program \in AB THEN "execed" ELSE "running")
       \/ program = "birth_death" /\ Becomes(c, "forked", "deaf")    \* no_interruptions.c
    /\ UNCHANGED <<parent, how, stopped, flagged, missed, pipe, kills>>

\* There is no such program: some children exit, others go on as a copy of the
\* parent that has 0 for its child's pid.
ExecFails(c) ==
    /\ program # "listen"
    /\ CASE program \in AB \cup {"wait_loop"} -> Ends(c, "forked", "1")
         [] program = "labor"                 -> Ends(c, "forked", "0")
         [] program = "impatient"             -> Ends(c, "forked", "255")
         [] OTHER                             -> Becomes(c, "forked", "copy") /\ UNCHANGED how
    /\ UNCHANGED <<parent, stopped, flagged, missed, pipe, kills>>

\* The copy's kill(0, SIGINT) and kill(0, SIGSTOP) go to the whole group.
CopyKills(c) ==
    /\ child[c] = "copy" /\ c \notin stopped
    /\ \/ program = "birth_death" /\ par' = "killed" /\ Die({c}) /\ UNCHANGED stopped
       \/ program = "start_stop" /\ par' = "stopped" /\ stopped' = {c} /\ UNCHANGED <<child, how>>
    /\ UNCHANGED <<program, seen, signaled, ready, flagged, missed, pipe, kills>>

\* sleep_print is ready for signals.
Install(c) ==
    /\ Becomes(c, "execed", "look")
    /\ UNCHANGED <<parent, how, stopped, flagged, missed, pipe, kills>>

\* The loop of sleep_print: a flag that is set behind the look at it is seen after
\* the sleep, interrupted or not, and a write.
LookAtFlag(c) ==
    /\ IF c \in flagged THEN Ends(c, "look", "0") ELSE Becomes(c, "look", "running") /\ UNCHANGED how
    /\ UNCHANGED <<parent, stopped, flagged, missed, pipe, kills>>

SleepPrint(c) ==
    /\ program \in AB
    /\ Becomes(c, "running", "look")
    /\ pipe[c] < Room
    /\ pipe' = [pipe EXCEPT ![c] = @ + 1]
    /\ UNCHANGED <<parent, how, stopped, flagged, missed, kills>>

Say(c) ==
    /\ program = "listen"
    /\ Becomes(c, "forked", "running")
    /\ pipe' = [pipe EXCEPT ![c] = @ + 1]
    /\ UNCHANGED <<parent, how, stopped, flagged, missed, kills>>

ExitChild(c) ==
    /\ program \notin AB
    /\ \E status \in {"0"} \cup (IF program = "listen" THEN {} ELSE {"1"}) : Ends(c, "running", status)
    /\ UNCHANGED <<parent, stopped, flagged, missed, pipe, kills>>

\* A user kills a child.
KillChild(c) ==
    /\ Alive(c) /\ kills < MaxKills
    /\ kills' = kills + 1
    /\ Die({c})
    /\ UNCHANGED <<parent, stopped, flagged, missed, pipe>>

-----------------------------------------------------------------------------
(* The parent *)

Loop ==
    CASE program \in {"labor", "listen"}                         -> "wait"
      [] program \in {"impatient", "helicopter", "birth_death"}  -> "check"
      [] program = "wait_loop"                                   -> "line"
      [] program = "start_stop"                                  -> "stop"
      [] OTHER                                                   -> "test"

Fork(c) ==
    /\ child[c] = "unborn" /\ (c = "A" \/ child["A"] # "unborn")
    /\ Go("fork", IF program \in AB /\ c = "A" THEN "fork" ELSE Loop)
    /\ child' = [child EXCEPT ![c] = "forked"]
    /\ UNCHANGED <<seen, signaled, ready, how, stopped, flagged, missed, pipe, kills>>

\* wait or waitpid returns the child.  Only wait_loop goes on if it has not exited,
\* and listen does not ask for the status.
Reap ==
    /\ child["A"] = "zombie"
    /\ \E from \in {"wait", "check"} :
           Go(from, IF program = "listen" THEN "read"
                    ELSE IF program = "wait_loop" /\ how["A"] = Signal THEN "line" ELSE "ended")
    /\ child' = [child EXCEPT !["A"] = "reaped"]
    /\ seen' = IF program = "listen" THEN seen ELSE how["A"]
    /\ UNCHANGED <<signaled, ready, how, stopped, flagged, missed, pipe, kills>>

\* waitpid with WNOHANG returns 0 (helicopter would look again).
NotYet ==
    /\ Alive("A")
    /\ \/ program = "impatient" /\ Go("check", "ended")
       \/ program = "birth_death" /\ Go("check", "kill")
       \/ program = "start_stop" /\ Go("check", "stop")
    /\ UNCHANGED <<seen, signaled, ready, life, pipe, kills>>

\* wait_loop has reaped its child already: waitpid returns -1.
NoChild ==
    /\ child["A"] = "reaped"
    /\ Go("wait", "line")
    /\ UNCHANGED <<seen, signaled, ready, life, pipe, kills>>

\* A line for wait_loop, or the end of its input, which fgets returns as NULL.
TypeLine ==
    /\ Go("line", "wait") \/ Go("line", "crashed")
    /\ UNCHANGED <<seen, signaled, ready, life, pipe, kills>>

\* kill(pid, SIGINT): whoever has not ended and has no handler dies.
Interrupt ==
    /\ Go("kill", "check")
    /\ Die({c \in Child : Alive(c) /\ child[c] # "deaf"})
    /\ UNCHANGED <<seen, signaled, ready, stopped, flagged, missed, pipe, kills>>

Stop ==
    /\ Go("stop", "cont")
    /\ stopped' = {c \in Child : Alive(c)}
    /\ UNCHANGED <<seen, signaled, ready, child, how, flagged, missed, pipe, kills>>

Cont ==
    /\ Go("cont", "check")
    /\ stopped' = {}
    /\ UNCHANGED <<seen, signaled, ready, child, how, flagged, missed, pipe, kills>>

\* listen: the parent has the write end itself, so that there is no end of file.
ReadWords ==
    /\ Go("read", "ended")
    /\ pipe["A"] > 0
    /\ pipe' = [pipe EXCEPT !["A"] = 0]
    /\ UNCHANGED <<seen, signaled, ready, life, kills>>

-----------------------------------------------------------------------------
(* read_AB and select_AB *)

\* Faulty: the parent keeps the write ends open.
EofNever(c) == FALSE

\* B has A's pipe open, too: it was made before B was forked.
Eof(c) == pipe[c] = 0 /\ Gone("B") /\ (c = "A" => Gone("A"))

Test ==
    /\ Go("test", IF signaled THEN "killA" ELSE IF program = "read_AB" THEN "readA" ELSE "select")
    /\ ready' = IF program = "read_AB" THEN Child ELSE {}
    /\ UNCHANGED <<seen, signaled, life, pipe, kills>>

Select ==
    /\ Go("select", "readA")
    /\ ready' = {c \in Child : pipe[c] > 0 \/ Eof(c)}
    /\ ready' # {}
    /\ UNCHANGED <<seen, signaled, life, pipe, kills>>

\* A blocking read, of all that there is, if c is in read_set.
ReadFrom(c, from, to) ==
    /\ Go(from, to)
    /\ c \in ready => pipe[c] > 0 \/ Eof(c)
    /\ pipe' = IF c \in ready THEN [pipe EXCEPT ![c] = 0] ELSE pipe
    /\ UNCHANGED <<seen, signaled, ready, life, kills>>

Read == ReadFrom("A", "readA", "readB") \/ ReadFrom("B", "readB", "test")

\* Faulty: only the first child is told.
TellA ==
    /\ \/ Go("killA", "killB") /\ Tell({"A"})
       \/ Go("killB", "ended") /\ Tell({"A"})
    /\ UNCHANGED <<seen, signaled, ready, pipe, kills>>

TellChildren ==
    /\ \/ Go("killA", "killB") /\ Tell({"A"})
       \/ Go("killB", "ended") /\ Tell({"B"})
    /\ UNCHANGED <<seen, signaled, ready, pipe, kills>>

\* SIGTERM for the parent, or SIGINT from the terminal for all.  SA_RESTART has a
\* read wait on; a select fails, and read_set is what was asked for.
Signaled(S) ==
    /\ program \in AB /\ par # "ended"
    /\ signaled' = TRUE
    /\ \/ UNCHANGED <<par, ready>>
       \/ par = "select" /\ par' = "readA" /\ ready' = Child
    /\ Tell(S)
    /\ UNCHANGED <<program, seen, pipe, kills>>

-----------------------------------------------------------------------------

ParentStep ==
    \/ \E c \in Child : Fork(c)
    \/ Reap \/ NotYet \/ NoChild \/ Interrupt \/ Stop \/ Cont \/ ReadWords
    \/ Test \/ Select \/ Read \/ TellChildren

ChildStep(c) ==
    \/ Exec(c) \/ ExecFails(c) \/ CopyKills(c) \/ Install(c) \/ LookAtFlag(c) \/ SleepPrint(c)
    \/ Say(c) \/ ExitChild(c)

Next ==
    \/ ParentStep \/ TypeLine
    \/ \E c \in Child : ChildStep(c) \/ KillChild(c)
    \/ Signaled({}) \/ Signaled(Child)

Spec == Init /\ [][Next]_vars

\* The kernel runs whoever can run.  A child that is stopped again and again gets
\* its time in between and ends at last; users and their signals are not fair.
FairSpec ==
    /\ Spec
    /\ WF_vars(ParentStep)
    /\ \A c \in {"A", "B"} : SF_vars(c \in Child /\ ChildStep(c))

-----------------------------------------------------------------------------
(* Properties *)

Waiting == Program \ (AB \cup {"impatient"})

\* Whoever the parent leaves behind, it has done its duty by: a child it waits for
\* is no zombie and no orphan, and the parent knows how it ended if it has asked,
\* wherever signals and failures have come in; of the children of read_AB and
\* select_AB all that are left know that they are to end, unless they were told
\* before their exec.
NobodyForgotten ==
    par = "ended" =>
        /\ program \in Waiting =>
             child["A"] = "reaped" /\ (program # "listen" => seen = how["A"])
        /\ program \in AB => \A c \in Child : Alive(c) => c \in flagged \cup missed

\* Every parent ends, but for those that have a reason not to: nobody tells it to,
\* or A alone has ended, whose pipe B keeps open; a user has killed the child that
\* wait_loop and listen wait for; there was no program to exec; the child is deaf.
Excuse ==
    CASE program \in AB           -> ~signaled \/ (Gone("A") /\ ~Gone("B"))
      [] program = "wait_loop"    -> par = "line" \/ how["A"] = Signal
      [] program = "listen"       -> par = "read" /\ how["A"] = Signal
      [] OTHER                    -> child["A"] \in {"deaf", "copy"} \/ par = "stopped"

Ended == par \in {"ended", "killed", "crashed"}

ParentEnds == <>[](Ended \/ Excuse)

=============================================================================
