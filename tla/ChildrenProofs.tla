----------------------------- MODULE ChildrenProofs -----------------------------
(***************************************************************************)
(* Proofs about Children, for pipes of any size and any number of children *)
(* that users kill: no parent forgets a child.                             *)
(***************************************************************************)
EXTENDS Children, TLAPS

-----------------------------------------------------------------------------
(* Types *)

ParState   == {"fork", "line", "wait", "check", "kill", "stop", "cont", "read", "test", "select",
               "readA", "readB", "killA", "killB", "ended", "killed", "stopped", "crashed"}
ChildState == {"unborn", "forked", "execed", "look", "running", "deaf", "copy", "zombie", "reaped"}

\* What a child of listen says goes into an empty pipe.
SayInv == program = "listen" => \A c \in Child : child[c] \in {"unborn", "forked"} => pipe[c] = 0

\* Which program's parent is where.
WhoseInv ==
    /\ par \in {"wait", "check", "line", "kill", "stop", "cont", "read"} => program \notin AB
    /\ par \in {"test", "select", "readA", "readB", "killA", "killB"} => program \in AB
    /\ par = "read" => program = "listen"

TypeInv == TypeOK /\ SayInv /\ WhoseInv

USE DEF parent, life
USE ChildrenAssumption

LEMMA ProgramKept == [Next]_vars => program' = program /\ Child' = Child
<1> SUFFICES ASSUME [Next]_vars PROVE program' = program
    BY DEF Child
<1> QED
    BY DEF Next, ParentStep, ChildStep, Fork, Reap, NotYet, NoChild, TypeLine, Interrupt, Stop, Cont, ReadWords,
           Test, Select, Read, ReadFrom, TellChildren, Signaled, Exec, ExecFails, CopyKills, Install,
           LookAtFlag, SleepPrint, Say, ExitChild, KillChild, Go, vars

LEMMA NextWhose == TypeOK /\ WhoseInv /\ [Next]_vars => WhoseInv'
<1> SUFFICES ASSUME TypeOK, WhoseInv, [Next]_vars PROVE WhoseInv'
    OBVIOUS
<1>1. program' = program /\ program \in Program
    BY ProgramKept DEF TypeOK
<1>2. ASSUME par' \in {par, "ended", "killed", "crashed", "stopped"} PROVE WhoseInv'
    BY <1>1, <1>2 DEF WhoseInv
<1>3. ASSUME NEW c \in Child, Fork(c) PROVE WhoseInv'
    <2>1. par' = "fork" \/ par' = Loop
        BY <1>3 DEF Fork, Go
    <2>2. /\ program \in AB => Loop = "test"
          /\ program \notin AB => Loop \in {"wait", "check", "line", "stop"}
        BY <1>1 DEF Loop, Program, AB
    <2> QED
        BY <1>1, <2>1, <2>2 DEF WhoseInv
<1>4. CASE Reap
    <2>1. par \in {"wait", "check"} /\ par' \in {"read", "line", "ended"} /\ (par' = "read" => program = "listen")
        BY <1>4 DEF Reap, Go
    <2> QED
        BY <1>1, <2>1 DEF WhoseInv
<1>5. CASE NotYet \/ NoChild \/ TypeLine \/ Interrupt \/ Stop \/ Cont \/ ReadWords
    <2>1. /\ par \in {"wait", "check", "line", "kill", "stop", "cont", "read"}
          /\ par' \in {"wait", "check", "line", "kill", "stop", "cont", "ended", "crashed"}
        BY <1>5 DEF NotYet, NoChild, TypeLine, Interrupt, Stop, Cont, ReadWords, Go
    <2> QED
        BY <1>1, <2>1 DEF WhoseInv
<1>6. CASE Test \/ Select \/ Read \/ TellChildren
    <2>1. /\ par \in {"test", "select", "readA", "readB", "killA", "killB"}
          /\ par' \in {"test", "select", "readA", "readB", "killA", "killB", "ended"}
        BY <1>6 DEF Test, Select, Read, ReadFrom, TellChildren, Go
    <2> QED
        BY <1>1, <2>1 DEF WhoseInv
<1>7. ASSUME NEW S, Signaled(S) PROVE WhoseInv'
    <2>1. par' = par \/ (par' = "readA" /\ program \in AB)
        BY <1>7 DEF Signaled
    <2> QED
        BY <1>1, <2>1 DEF WhoseInv
<1>8. ASSUME NEW c \in Child, ChildStep(c) \/ KillChild(c) PROVE WhoseInv'
    BY <1>2, <1>8 DEF ChildStep, Exec, ExecFails, CopyKills, Install, LookAtFlag, SleepPrint, Say, ExitChild, KillChild
<1> QED
    BY <1>2, <1>3, <1>4, <1>5, <1>6, <1>7, <1>8 DEF Next, ParentStep, vars

LEMMA LoopState == Loop \in {"wait", "check", "line", "stop", "test"}
BY DEF Loop

LEMMA InitType == Init => TypeInv
<1> SUFFICES ASSUME Init PROVE TypeInv
    OBVIOUS
<1>1. SayInv
    BY DEF Init, SayInv
<1>2. "none" \in Statuses /\ 0 \in 0..Room /\ 0 \in 0..MaxKills
    BY DEF Statuses
<1>3. TypeOK
    BY <1>2 DEF Init, TypeOK
<1>4. WhoseInv
    BY DEF Init, WhoseInv
<1> QED
    BY <1>1, <1>3, <1>4 DEF TypeInv

\* One child goes from one state to another.
LEMMA ChildMoves ==
    ASSUME TypeInv, NEW c \in Child, NEW from, NEW to \in ChildState, Becomes(c, from, to)
    PROVE  /\ child[c] = from /\ child' \in [Child -> ChildState] /\ child'[c] = to
           /\ \A d \in Child : d # c => child'[d] = child[d]
<1>1. child \in [Child -> ChildState] /\ child[c] = from /\ child' = [child EXCEPT ![c] = to]
    BY DEF TypeInv, TypeOK, ChildState, Becomes
<1> QED
    BY <1>1

LEMMA DieMoves ==
    ASSUME TypeInv, NEW S, Die(S)
    PROVE  /\ child' \in [Child -> ChildState] /\ how' \in [Child -> Statuses]
           /\ \A c \in Child : /\ c \in S => child'[c] = "zombie"
                               /\ c \notin S => child'[c] = child[c] /\ how'[c] = how[c]
<1>1. child \in [Child -> ChildState] /\ how \in [Child -> Statuses] /\ Signal \in Statuses
    BY DEF TypeInv, TypeOK, ChildState, Statuses
<1>2. "zombie" \in ChildState
    BY DEF ChildState
<1> QED
    BY <1>1, <1>2 DEF Die

LEMMA TellMoves ==
    ASSUME TypeInv, NEW S \in SUBSET Child, Tell(S)
    PROVE  /\ child' \in [Child -> ChildState] /\ how' \in [Child -> Statuses]
           /\ flagged' \subseteq Child /\ missed' \subseteq Child /\ stopped' = stopped
           /\ flagged \subseteq flagged' /\ missed \subseteq missed'
           /\ \A c \in Child : /\ child'[c] = "zombie" \/ child'[c] = child[c]
                               /\ child[c] = "reaped" => child'[c] = "reaped" /\ how'[c] = how[c]
           /\ \A c \in S : /\ child[c] = "execed" => child'[c] = "zombie"
                           /\ child[c] \in {"look", "running"} => c \in flagged'
                           /\ child[c] = "forked" => c \in missed'
<1>1. /\ Die({c \in S : child[c] = "execed"}) /\ stopped' = stopped
      /\ flagged' = flagged \cup {c \in S : child[c] \in {"look", "running"}}
      /\ missed' = missed \cup {c \in S : child[c] = "forked"}
    BY DEF Tell
<1>2. flagged \subseteq Child /\ missed \subseteq Child
    BY DEF TypeInv, TypeOK
<1> QED
    BY <1>1, <1>2, DieMoves

\* A step that moves the parent alone.
LEMMA ParentType ==
    ASSUME TypeInv, program' = program, Child' = Child, par' \in ParState, seen' \in Statuses,
           signaled' \in BOOLEAN, ready' \subseteq Child, stopped' \subseteq Child, pipe' \in [Child -> 0..Room],
           UNCHANGED <<child, how, flagged, missed, kills>>, SayInv', WhoseInv'
    PROVE  TypeInv'
BY DEF TypeInv, TypeOK, ParState

\* A step that moves children.
LEMMA ChildType ==
    ASSUME TypeInv, program' = program, Child' = Child, par' \in ParState, seen' = seen,
           signaled' \in BOOLEAN, ready' \subseteq Child,
           child' \in [Child -> ChildState], how' \in [Child -> Statuses],
           stopped' \subseteq Child, flagged' \subseteq Child, missed' \subseteq Child,
           pipe' \in [Child -> 0..Room], kills' \in 0..MaxKills, SayInv', WhoseInv'
    PROVE  TypeInv'
BY DEF TypeInv, TypeOK, ParState, ChildState

LEMMA NextType == TypeInv /\ [Next]_vars => TypeInv'
<1> SUFFICES ASSUME TypeInv, [Next]_vars PROVE TypeInv'
    OBVIOUS
<1>1. /\ program' = program /\ Child' = Child /\ "A" \in Child
      /\ par \in ParState /\ seen \in Statuses /\ signaled \in BOOLEAN /\ ready \subseteq Child
      /\ child \in [Child -> ChildState] /\ how \in [Child -> Statuses]
      /\ stopped \subseteq Child /\ flagged \subseteq Child /\ missed \subseteq Child
      /\ pipe \in [Child -> 0..Room] /\ kills \in 0..MaxKills
    BY ProgramKept DEF TypeInv, TypeOK, ParState, ChildState, Child
<1>0. WhoseInv /\ WhoseInv'
    BY NextWhose DEF TypeInv
<1>2. SayInv
    BY DEF TypeInv
\* What listen's children say is all that is ever in a pipe of listen.
<1>3. ASSUME UNCHANGED <<child, pipe>> PROVE SayInv'
    BY <1>1, <1>2, <1>3 DEF SayInv
<1>4. ASSUME pipe' = pipe, \A c \in Child : child'[c] = child[c] \/ child'[c] \notin {"unborn", "forked"} PROVE SayInv'
    BY <1>1, <1>2, <1>4 DEF SayInv
<1>5. ASSUME program # "listen" PROVE SayInv'
    BY <1>1, <1>5 DEF SayInv
<1>6. ASSUME NEW c \in Child, Fork(c) PROVE TypeInv'
    <2>1. /\ child[c] = "unborn" /\ child' = [child EXCEPT ![c] = "forked"]
          /\ UNCHANGED <<seen, signaled, ready, how, stopped, flagged, missed, pipe, kills>>
          /\ par' \in {"fork", Loop}
        BY <1>6 DEF Fork, Go
    <2>2. par' \in ParState
        BY <2>1, LoopState DEF ParState
    <2>3. child' \in [Child -> ChildState] /\ child'[c] = "forked" /\ \A d \in Child : d # c => child'[d] = child[d]
        BY <1>1, <2>1 DEF ChildState
    <2>4. SayInv'
        BY <1>1, <1>2, <2>1, <2>3 DEF SayInv
    <2> QED
        BY <1>1, <2>1, <2>2, <2>3, <2>4, ChildType, <1>0
<1>7. CASE Reap
    <2>1. /\ child["A"] = "zombie" /\ child' = [child EXCEPT !["A"] = "reaped"]
          /\ UNCHANGED <<signaled, ready, how, stopped, flagged, missed, pipe, kills>>
          /\ par' \in {"read", "line", "ended"} /\ seen' \in {seen, how["A"]}
        BY <1>7 DEF Reap, Go
    <2>2. par' \in ParState /\ seen' \in Statuses
        BY <1>1, <2>1 DEF ParState
    <2>3. child' \in [Child -> ChildState] /\ child'["A"] = "reaped" /\ \A d \in Child : d # "A" => child'[d] = child[d]
        BY <1>1, <2>1 DEF ChildState
    <2>4. SayInv'
        BY <1>4, <2>1, <2>3
    <2> QED
        BY <1>0, <1>1, <2>1, <2>2, <2>3, <2>4 DEF TypeInv, TypeOK, ParState, ChildState
<1>8. CASE NotYet \/ NoChild \/ TypeLine \/ Test \/ Select
    <2>1. /\ UNCHANGED <<seen, signaled, life, pipe, kills>>
          /\ ready' \subseteq Child
        BY <1>1, <1>8 DEF NotYet, NoChild, TypeLine, Test, Select
    <2>2. par' \in {"ended", "kill", "stop", "line", "wait", "crashed", "killA", "readA", "select"}
        BY <1>8 DEF NotYet, NoChild, TypeLine, Test, Select, Go
    <2>3. par' \in ParState
        BY <2>2 DEF ParState
    <2> QED
        BY <1>1, <1>3, <2>1, <2>3, ParentType, <1>0
<1>9. CASE Stop \/ Cont
    <2>1. /\ UNCHANGED <<seen, signaled, ready, child, how, flagged, missed, pipe, kills>>
          /\ par' \in {"cont", "check"} /\ stopped' \subseteq Child
        BY <1>9 DEF Stop, Cont, Go
    <2>2. par' \in ParState
        BY <2>1 DEF ParState
    <2> QED
        BY <1>1, <1>3, <2>1, <2>2, ParentType, <1>0
<1>10. CASE Interrupt
    <2>1. /\ Die({c \in Child : Alive(c) /\ child[c] # "deaf"}) /\ par' = "check"
          /\ UNCHANGED <<seen, signaled, ready, stopped, flagged, missed, pipe, kills>>
        BY <1>10 DEF Interrupt, Go
    <2>2. /\ child' \in [Child -> ChildState] /\ how' \in [Child -> Statuses]
          /\ \A c \in Child : child'[c] \in {child[c], "zombie"}
        BY <2>1, DieMoves
    <2>3. SayInv'
        BY <1>4, <2>1, <2>2
    <2>4. par' \in ParState
        BY <2>1 DEF ParState
    <2> QED
        BY <1>1, <2>1, <2>2, <2>3, <2>4, ChildType, <1>0
<1>11. CASE ReadWords \/ Read
    <2>1. /\ UNCHANGED <<seen, signaled, ready, life, kills>>
          /\ pipe' = pipe \/ \E c \in Child : pipe' = [pipe EXCEPT ![c] = 0]
          /\ par' \in {"ended", "readB", "test"}
        <3>1. CASE ReadWords
            BY <1>1, <3>1 DEF ReadWords, Go
        <3>2. ASSUME NEW c, NEW from, NEW to \in {"readB", "test"}, ReadFrom(c, from, to)
              PROVE  /\ UNCHANGED <<seen, signaled, ready, life, kills>>
                     /\ pipe' = pipe \/ \E d \in Child : pipe' = [pipe EXCEPT ![d] = 0]
                     /\ par' \in {"ended", "readB", "test"}
            BY <1>1, <3>2 DEF ReadFrom, Go
        <3> QED
            BY <1>11, <3>1, <3>2 DEF Read
    <2>2. pipe' \in [Child -> 0..Room] /\ \A c \in Child : pipe'[c] \in {pipe[c], 0}
        BY <1>1, <2>1
    <2>3. SayInv'
        BY <1>1, <1>2, <2>1, <2>2 DEF SayInv
    <2>4. par' \in ParState
        BY <2>1 DEF ParState
    <2> QED
        BY <1>1, <2>1, <2>2, <2>3, <2>4, ParentType, <1>0
<1>12. ASSUME NEW S \in SUBSET Child, Tell(S), UNCHANGED <<seen, pipe, kills>>, par' \in ParState,
              signaled' \in BOOLEAN, ready' \subseteq Child
       PROVE  TypeInv'
    <2>1. /\ child' \in [Child -> ChildState] /\ how' \in [Child -> Statuses] /\ stopped' = stopped
          /\ flagged' \subseteq Child /\ missed' \subseteq Child
          /\ \A c \in Child : child'[c] = "zombie" \/ child'[c] = child[c]
        BY <1>12, TellMoves
    <2>2. SayInv'
        BY <1>4, <1>12, <2>1
    <2> QED
        BY <1>1, <1>12, <2>1, <2>2, ChildType, <1>0
<1>13. CASE TellChildren
    <2>1. PICK c \in {"A", "B"} : Tell({c}) /\ par \in {"killA", "killB"}
        BY <1>13 DEF TellChildren, Go
    <2>2. {c} \in SUBSET Child
        BY <1>0, <2>1 DEF WhoseInv, Child
    <2>3. UNCHANGED <<seen, signaled, ready, pipe, kills>> /\ par' \in {"killB", "ended"}
        BY <1>13 DEF TellChildren, Go
    <2>4. par' \in ParState
        BY <2>3 DEF ParState
    <2> QED
        BY <1>1, <1>12, <2>1, <2>2, <2>3, <2>4
<1>14. ASSUME NEW S \in {{}, Child}, Signaled(S) PROVE TypeInv'
    <2>1. /\ Tell(S) /\ signaled' = TRUE /\ UNCHANGED <<seen, pipe, kills>>
          /\ par' \in {par, "readA"} /\ ready' \in {ready, Child}
        BY <1>14 DEF Signaled
    <2>2. par' \in ParState /\ ready' \subseteq Child
        BY <1>1, <2>1 DEF ParState
    <2> QED
        BY <1>12, <2>1, <2>2
<1>15. ASSUME NEW c \in Child, NEW from, NEW to \in ChildState \ {"unborn", "forked"},
              Becomes(c, from, to), how' \in [Child -> Statuses],
              UNCHANGED <<parent, stopped, flagged, missed, pipe, kills>>
       PROVE  TypeInv'
    <2>1. child' \in [Child -> ChildState] /\ \A d \in Child : child'[d] \in {child[d], to}
        BY <1>15, ChildMoves
    <2>2. SayInv'
        BY <1>4, <1>15, <2>1
    <2> QED
        BY <1>0, <1>1, <1>15, <2>1, <2>2, ChildType
<1>16. ASSUME NEW c \in Child, Exec(c) \/ Install(c) PROVE TypeInv'
    <2>1. PICK from \in {"forked", "execed"}, to \in {"execed", "look", "running", "deaf"} : Becomes(c, from, to)
        BY <1>16 DEF Exec, Install
    <2>2. to \in ChildState \ {"unborn", "forked"}
        BY DEF ChildState
    <2>3. UNCHANGED <<parent, how, stopped, flagged, missed, pipe, kills>>
        BY <1>16 DEF Exec, Install
    <2> QED
        BY <1>1, <1>15, <2>1, <2>2, <2>3
<1>17. ASSUME NEW c \in Child, ExecFails(c) PROVE TypeInv'
    <2>1. /\ \/ \E status \in {"1", "0", "255"} : Becomes(c, "forked", "zombie") /\ how' = [how EXCEPT ![c] = status]
             \/ Becomes(c, "forked", "copy") /\ how' = how
          /\ UNCHANGED <<parent, stopped, flagged, missed, pipe, kills>>
        BY <1>17 DEF ExecFails, Ends
    <2>2. how' \in [Child -> Statuses]
        BY <1>1, <2>1 DEF Statuses
    <2>3. {"zombie", "copy"} \subseteq ChildState \ {"unborn", "forked"}
        BY DEF ChildState
    <2> QED
        BY <1>15, <2>1, <2>2, <2>3
<1>18. ASSUME NEW c \in Child, ExitChild(c) PROVE TypeInv'
    <2>1. /\ \E status \in {"1", "0"} : Becomes(c, "running", "zombie") /\ how' = [how EXCEPT ![c] = status]
          /\ UNCHANGED <<parent, stopped, flagged, missed, pipe, kills>>
        BY <1>18 DEF ExitChild, Ends
    <2>2. how' \in [Child -> Statuses]
        BY <1>1, <2>1 DEF Statuses
    <2>3. "zombie" \in ChildState \ {"unborn", "forked"}
        BY DEF ChildState
    <2> QED
        BY <1>15, <2>1, <2>2, <2>3
<1>19. ASSUME NEW c \in Child, CopyKills(c) PROVE TypeInv'
    <2>1. /\ \/ par' = "killed" /\ Die({c}) /\ UNCHANGED stopped
             \/ par' = "stopped" /\ stopped' = {c} /\ UNCHANGED <<child, how>>
          /\ UNCHANGED <<program, seen, signaled, ready, flagged, missed, pipe, kills>>
        BY <1>19 DEF CopyKills
    <2>2. par' \in ParState /\ stopped' \subseteq Child
        BY <1>1, <2>1 DEF ParState
    <2>3. /\ child' \in [Child -> ChildState] /\ how' \in [Child -> Statuses]
          /\ \A d \in Child : child'[d] \in {child[d], "zombie"}
        BY <1>1, <2>1, DieMoves
    <2>4. SayInv'
        BY <1>4, <2>1, <2>3
    <2> QED
        BY <1>0, <1>1, <2>1, <2>2, <2>3, <2>4, ChildType
<1>20. ASSUME NEW c \in Child, LookAtFlag(c) PROVE TypeInv'
    <2>1. /\ \/ Becomes(c, "look", "zombie") /\ how' = [how EXCEPT ![c] = "0"]
             \/ Becomes(c, "look", "running") /\ how' = how
          /\ UNCHANGED <<parent, stopped, flagged, missed, pipe, kills>>
        BY <1>20 DEF LookAtFlag, Ends
    <2>2. how' \in [Child -> Statuses]
        BY <1>1, <2>1 DEF Statuses
    <2>3. {"zombie", "running"} \subseteq ChildState \ {"unborn", "forked"}
        BY DEF ChildState
    <2> QED
        BY <1>15, <2>1, <2>2, <2>3
<1>21. ASSUME NEW c \in Child, SleepPrint(c) PROVE TypeInv'
    <2>1. /\ program \in AB /\ pipe[c] < Room /\ pipe' = [pipe EXCEPT ![c] = pipe[c] + 1]
          /\ Becomes(c, "running", "look")
          /\ UNCHANGED <<parent, how, stopped, flagged, missed, kills>>
        BY <1>21 DEF SleepPrint
    <2>2. child' \in [Child -> ChildState]
        <3>1. "look" \in ChildState
            BY DEF ChildState
        <3> QED
            BY <2>1, <3>1, ChildMoves
    <2>3. pipe' \in [Child -> 0..Room]
        BY <1>1, <2>1
    <2>4. SayInv'
        BY <1>5, <2>1 DEF AB
    <2> QED
        BY <1>0, <1>1, <2>1, <2>2, <2>3, <2>4, ChildType
<1>22. ASSUME NEW c \in Child, Say(c) PROVE TypeInv'
    <2>1. /\ program = "listen" /\ Becomes(c, "forked", "running") /\ pipe' = [pipe EXCEPT ![c] = pipe[c] + 1]
          /\ UNCHANGED <<parent, how, stopped, flagged, missed, kills>>
        BY <1>22 DEF Say
    <2>2. /\ child[c] = "forked" /\ child' \in [Child -> ChildState] /\ child'[c] = "running"
          /\ \A d \in Child : d # c => child'[d] = child[d]
        BY <2>1, ChildMoves DEF ChildState
    <2>3. pipe[c] = 0
        BY <1>2, <2>1, <2>2 DEF SayInv
    <2>4. pipe' \in [Child -> 0..Room] /\ \A d \in Child : d # c => pipe'[d] = pipe[d]
        BY <1>1, <2>1, <2>3
    <2>5. SayInv'
        BY <1>1, <1>2, <2>2, <2>4 DEF SayInv
    <2> QED
        BY <1>0, <1>1, <2>1, <2>2, <2>4, <2>5, ChildType
<1>23. ASSUME NEW c \in Child, KillChild(c) PROVE TypeInv'
    <2>1. /\ kills < MaxKills /\ kills' = kills + 1 /\ Die({c})
          /\ UNCHANGED <<parent, stopped, flagged, missed, pipe>>
        BY <1>23 DEF KillChild
    <2>2. /\ child' \in [Child -> ChildState] /\ how' \in [Child -> Statuses]
          /\ \A d \in Child : child'[d] \in {child[d], "zombie"}
        BY <2>1, DieMoves
    <2>3. kills' \in 0..MaxKills
        BY <1>1, <2>1
    <2>4. SayInv'
        BY <1>4, <2>1, <2>2
    <2> QED
        BY <1>0, <1>1, <2>1, <2>2, <2>3, <2>4, ChildType
<1>24. CASE UNCHANGED vars
    BY <1>1, <1>24 DEF vars, TypeInv, TypeOK, SayInv, WhoseInv
<1> QED
    BY <1>6, <1>7, <1>8, <1>9, <1>10, <1>11, <1>13, <1>14, <1>16, <1>17, <1>18, <1>19, <1>20, <1>21, <1>22, <1>23, <1>24
       DEF Next, ParentStep, ChildStep

\* Type correctness: parents, children, statuses and pipes stay within their ranges.
THEOREM TypeCorrect == Spec => []TypeOK
<1>1. TypeInv => TypeOK
    BY DEF TypeInv
<1> QED
    BY <1>1, InitType, NextType, PTL DEF Spec

-----------------------------------------------------------------------------
(* Nobody is forgotten *)

\* The programs of lab07: a child that has been told to end knows it, or was told too early.
SleepInv  == program \in AB => \A c \in Child : child[c] \in {"unborn", "forked", "execed", "look", "running", "zombie"}
Told(c)   == Alive(c) => c \in flagged \cup missed
ToldInv   == program \in AB => /\ par \in {"killB", "ended"} => Told("A")
                               /\ par = "ended" => Told("B")

\* The others have reaped their child before they read what it says, or end.
ReapedInv ==
    program \in Waiting /\ par \in {"read", "ended"} =>
        child["A"] = "reaped" /\ (program # "listen" => seen = how["A"])

DutyInv == TypeInv /\ SleepInv /\ ToldInv /\ ReapedInv

\* No step takes a signal or an end back, and only a fork brings a child to life.
LEMMA StepKeeps ==
    ASSUME TypeInv, [Next]_vars
    PROVE  /\ flagged \subseteq flagged' /\ missed \subseteq missed'
           /\ \A c \in Child : /\ child[c] = "reaped" => child'[c] = "reaped" /\ how'[c] = how[c]
                               /\ Gone(c) => Gone(c)'
                               /\ child[c] = "unborn" => child'[c] = "unborn" \/ par = "fork"
<1> DEFINE Kept == /\ flagged \subseteq flagged' /\ missed \subseteq missed'
                   /\ \A c \in Child : /\ child[c] = "reaped" => child'[c] = "reaped" /\ how'[c] = how[c]
                                       /\ Gone(c) => Gone(c)'
                                       /\ child[c] = "unborn" => child'[c] = "unborn" \/ par = "fork"
<1>1. child \in [Child -> ChildState] /\ how \in [Child -> Statuses] /\ Child' = Child /\ "A" \in Child
    BY ProgramKept DEF TypeInv, TypeOK, ChildState, Child
<1>2. ASSUME UNCHANGED <<child, how, flagged, missed>> PROVE Kept
    BY <1>2 DEF Gone
<1>3. ASSUME NEW c \in Child, Fork(c) PROVE Kept
    <2>1. par = "fork" /\ child[c] = "unborn" /\ child' = [child EXCEPT ![c] = "forked"] /\ UNCHANGED <<how, flagged, missed>>
        BY <1>3 DEF Fork, Go
    <2>2. \A d \in Child : d # c => child'[d] = child[d]
        BY <1>1, <2>1
    <2> QED
        BY <1>1, <2>1, <2>2 DEF Gone
<1>4. CASE Reap
    <2>1. child["A"] = "zombie" /\ child' = [child EXCEPT !["A"] = "reaped"] /\ UNCHANGED <<how, flagged, missed>>
        BY <1>4 DEF Reap
    <2>2. child'["A"] = "reaped" /\ \A d \in Child : d # "A" => child'[d] = child[d]
        BY <1>1, <2>1
    <2> QED
        BY <2>1, <2>2 DEF Gone
<1>5. CASE NotYet \/ NoChild \/ TypeLine \/ Stop \/ Cont \/ ReadWords \/ Test \/ Select \/ Read
    BY <1>2, <1>5 DEF NotYet, NoChild, TypeLine, Stop, Cont, ReadWords, Test, Select, Read, ReadFrom
<1>6. ASSUME NEW S, Die(S), \A c \in Child : c \in S => Alive(c), UNCHANGED <<flagged, missed>> PROVE Kept
    BY <1>6, DieMoves DEF Alive, Gone
<1>7. CASE Interrupt
    <2> DEFINE S == {c \in Child : Alive(c) /\ child[c] # "deaf"}
    <2>1. Die(S) /\ UNCHANGED <<flagged, missed>>
        BY <1>7 DEF Interrupt
    <2> QED
        BY <1>6, <2>1
<1>8. ASSUME NEW S \in SUBSET Child, Tell(S) PROVE Kept
    <2>1. /\ Die({c \in S : child[c] = "execed"})
          /\ flagged \subseteq flagged' /\ missed \subseteq missed'
        BY <1>8, TellMoves DEF Tell
    <2>2. \A c \in Child : c \in {d \in S : child[d] = "execed"} => Alive(c)
        BY DEF Alive, Gone
    <2> QED
        BY <2>1, <2>2, DieMoves DEF Alive, Gone
<1>9. CASE TellChildren
    <2>1. PICK c \in {"A", "B"} : Tell({c}) /\ par \in {"killA", "killB"}
        BY <1>9 DEF TellChildren, Go
    <2>2. {c} \in SUBSET Child
        BY <2>1 DEF TypeInv, WhoseInv, Child
    <2> QED
        BY <1>8, <2>1, <2>2
<1>10. ASSUME NEW S \in {{}, Child}, Signaled(S) PROVE Kept
    BY <1>8, <1>10 DEF Signaled
<1>11. ASSUME NEW c \in Child, NEW from \in {"forked", "execed", "look", "running"}, NEW to \in ChildState,
              Becomes(c, from, to), UNCHANGED <<flagged, missed>>,
              how' = how \/ \E status : how' = [how EXCEPT ![c] = status]
       PROVE  Kept
    <2>1. child[c] = from /\ \A d \in Child : d # c => child'[d] = child[d]
        BY <1>11, ChildMoves
    <2>2. \A d \in Child : d # c => how'[d] = how[d]
        BY <1>1, <1>11
    <2> QED
        BY <1>11, <2>1, <2>2 DEF Gone
<1>12. ASSUME NEW c \in Child, Exec(c) \/ Install(c) \/ Say(c) PROVE Kept
    <2>1. PICK from \in {"forked", "execed"}, to \in {"execed", "look", "running", "deaf"} : Becomes(c, from, to)
        BY <1>12 DEF Exec, Install, Say
    <2>2. UNCHANGED <<how, flagged, missed>> /\ to \in ChildState
        BY <1>12 DEF Exec, Install, Say, ChildState
    <2> QED
        BY <1>11, <2>1, <2>2
<1>13. ASSUME NEW c \in Child, ExecFails(c) \/ LookAtFlag(c) \/ SleepPrint(c) \/ ExitChild(c) PROVE Kept
    <2>1. PICK from \in {"forked", "look", "running"}, to \in {"zombie", "copy", "look", "running"} :
              /\ Becomes(c, from, to)
              /\ how' = how \/ \E status : how' = [how EXCEPT ![c] = status]
        BY <1>13 DEF ExecFails, LookAtFlag, SleepPrint, ExitChild, Ends
    <2>2. UNCHANGED <<flagged, missed>> /\ to \in ChildState
        BY <1>13 DEF ExecFails, LookAtFlag, SleepPrint, ExitChild, ChildState
    <2> QED
        BY <1>11, <2>1, <2>2
<1>14. ASSUME NEW c \in Child, CopyKills(c) \/ KillChild(c) PROVE Kept
    <2>1. UNCHANGED <<flagged, missed>> /\ (Die({c}) \/ UNCHANGED <<child, how>>) /\ Alive(c)
        BY <1>14 DEF CopyKills, KillChild, Alive, Gone
    <2> QED
        BY <1>2, <1>6, <2>1
<1>15. CASE UNCHANGED vars
    BY <1>2, <1>15 DEF vars
<1> QED
    BY <1>3, <1>4, <1>5, <1>7, <1>9, <1>10, <1>12, <1>13, <1>14, <1>15 DEF Next, ParentStep, ChildStep, vars

LEMMA NextSleep == DutyInv /\ [Next]_vars => SleepInv'
<1> SUFFICES ASSUME DutyInv, [Next]_vars, program \in AB
    PROVE \A c \in Child : child'[c] \in {"unborn", "forked", "execed", "look", "running", "zombie"}
    BY ProgramKept DEF SleepInv
<1> DEFINE Sleeps == {"unborn", "forked", "execed", "look", "running", "zombie"}
<1>1. TypeInv /\ child \in [Child -> ChildState] /\ \A c \in Child : child[c] \in Sleeps
    BY DEF DutyInv, SleepInv, TypeInv, TypeOK, ChildState
<1>2. par \notin {"wait", "check", "line", "kill", "stop", "cont", "read"}
      /\ program \notin {"listen", "birth_death", "start_stop", "labor", "impatient"}
    BY <1>1 DEF TypeInv, WhoseInv, AB
<1>3. ASSUME NEW c \in Child, Fork(c) PROVE \A d \in Child : child'[d] \in Sleeps
    BY <1>1, <1>3 DEF Fork
<1>4. CASE Reap \/ NotYet \/ NoChild \/ TypeLine \/ Interrupt \/ Stop \/ Cont \/ ReadWords \/ Test \/ Select \/ Read
    <2>1. child' = child
        BY <1>2, <1>4 DEF Reap, NotYet, NoChild, TypeLine, Interrupt, Stop, Cont, ReadWords, Test, Select, Read, ReadFrom, Go
    <2> QED
        BY <1>1, <2>1
<1>5. ASSUME NEW S, Die(S) PROVE \A d \in Child : child'[d] \in Sleeps
    BY <1>1, <1>5, DieMoves
<1>6. CASE TellChildren \/ Signaled({}) \/ Signaled(Child)
    BY <1>5, <1>6 DEF TellChildren, Signaled, Tell
<1>7. ASSUME NEW c \in Child, ChildStep(c) \/ KillChild(c) PROVE \A d \in Child : child'[d] \in Sleeps
    <2>1. CASE KillChild(c)
        BY <1>5, <2>1 DEF KillChild
    <2>2. CASE CopyKills(c)
        BY <1>1, <2>2 DEF CopyKills
    <2>3. CASE ~KillChild(c) /\ ~CopyKills(c)
        <3>1. PICK to \in {"execed", "zombie", "look", "running"} : child' = [child EXCEPT ![c] = to]
            BY <1>2, <1>7, <2>3 DEF ChildStep, Exec, ExecFails, Install, LookAtFlag, SleepPrint, Say, ExitChild, Becomes, Ends
        <3> QED
            BY <1>1, <3>1
    <2> QED
        BY <2>1, <2>2, <2>3
<1>8. CASE UNCHANGED vars
    BY <1>1, <1>8 DEF vars
<1> QED
    BY <1>3, <1>4, <1>6, <1>7, <1>8 DEF Next, ParentStep

LEMMA NextTold == DutyInv /\ [Next]_vars => ToldInv'
<1> SUFFICES ASSUME DutyInv, [Next]_vars, program \in AB
    PROVE  /\ par' \in {"killB", "ended"} => Told("A")'
           /\ par' = "ended" => Told("B")'
    BY ProgramKept DEF ToldInv
<1>1. /\ TypeInv /\ {"A", "B"} = Child
      /\ \A c \in Child : child[c] \in {"unborn", "forked", "execed", "look", "running", "zombie"}
      /\ par \in {"killB", "ended"} => Told("A")
      /\ par = "ended" => Told("B")
    BY DEF DutyInv, SleepInv, ToldInv, Child
<1>2. par \notin {"wait", "check", "line", "kill", "stop", "cont", "read"}
    BY <1>1 DEF TypeInv, WhoseInv
<1>3. /\ flagged \subseteq flagged' /\ missed \subseteq missed'
      /\ par # "fork" => \A c \in Child : Alive(c)' => Alive(c)
    BY <1>1, StepKeeps DEF Alive, Gone
\* Who has been told stays told.
<1>4. ASSUME par # "fork", NEW c \in Child, Told(c) PROVE Told(c)'
    BY <1>3, <1>4 DEF Told
<1>5. CASE TellChildren
    <2>1. ASSUME NEW c \in Child, Tell({c}) PROVE Told(c)'
        <3>1. /\ child[c] = "execed" => child'[c] = "zombie"
              /\ child[c] \in {"look", "running"} => c \in flagged'
              /\ child[c] = "forked" => c \in missed'
            BY <1>1, <2>1, TellMoves
        <3>2. par # "fork"
            BY <1>5 DEF TellChildren, Go
        <3> QED
            BY <1>1, <1>3, <3>1, <3>2 DEF Told, Alive, Gone
    <2>2. CASE Go("killA", "killB") /\ Tell({"A"})
        BY <1>1, <2>1, <2>2 DEF Go
    <2>3. CASE Go("killB", "ended") /\ Tell({"B"})
        <3>1. par = "killB" /\ Told("B")'
            BY <1>1, <2>1, <2>3 DEF Go
        <3> QED
            BY <1>1, <1>4, <3>1
    <2> QED
        BY <1>5, <2>2, <2>3 DEF TellChildren
<1>6. CASE ~TellChildren
    <2>1. par' \in {"killB", "ended"} => par' = par
        <3>1. ASSUME NEW c \in Child, Fork(c) PROVE par' \in {"fork", "test"}
            BY <3>1 DEF Fork, Go, Loop, AB
        <3>2. CASE Reap \/ NotYet \/ NoChild \/ TypeLine \/ Interrupt \/ Stop \/ Cont \/ ReadWords
            BY <1>2, <3>2 DEF Reap, NotYet, NoChild, TypeLine, Interrupt, Stop, Cont, ReadWords, Go
        <3>3. CASE Test \/ Select \/ Read
            BY <3>3 DEF Test, Select, Read, ReadFrom, Go
        <3>4. CASE Signaled({}) \/ Signaled(Child)
            BY <3>4 DEF Signaled
        <3>5. ASSUME NEW c \in Child, ChildStep(c) \/ KillChild(c) PROVE par' \in {par, "killed", "stopped"}
            BY <3>5 DEF ChildStep, Exec, ExecFails, CopyKills, Install, LookAtFlag, SleepPrint, Say, ExitChild, KillChild
        <3> QED
            BY <1>6, <3>1, <3>2, <3>3, <3>4, <3>5 DEF Next, ParentStep, vars
    <2> QED
        BY <1>1, <1>4, <2>1
<1> QED
    BY <1>5, <1>6

LEMMA NextReaped == DutyInv /\ [Next]_vars => ReapedInv'
<1> SUFFICES ASSUME DutyInv, [Next]_vars, program \in Waiting, par' \in {"read", "ended"}
    PROVE child'["A"] = "reaped" /\ (program # "listen" => seen' = how'["A"])
    BY ProgramKept DEF ReapedInv, Waiting, Program, AB
<1>1. TypeInv /\ "A" \in Child /\ program \notin AB \cup {"impatient"} /\ child \in [Child -> ChildState]
    BY DEF DutyInv, TypeInv, TypeOK, ChildState, Child, Waiting
<1>2. par \notin {"test", "select", "readA", "readB", "killA", "killB"}
    BY <1>1 DEF TypeInv, WhoseInv
<1>3. ASSUME par \in {"read", "ended"}, seen' = seen
      PROVE  child'["A"] = "reaped" /\ (program # "listen" => seen' = how'["A"])
    <2>1. child["A"] = "reaped" /\ (program # "listen" => seen = how["A"])
        BY <1>3 DEF DutyInv, ReapedInv
    <2> QED
        BY <1>1, <1>3, <2>1, StepKeeps
<1>4. CASE Reap
    <2>1. /\ child' = [child EXCEPT !["A"] = "reaped"] /\ how' = how
          /\ program # "listen" => seen' = how["A"]
        BY <1>4 DEF Reap
    <2> QED
        BY <1>1, <2>1
<1>5. CASE ~Reap
    <2>1. par \in {"read", "ended"} /\ seen' = seen
        <3>1. ASSUME NEW c \in Child, Fork(c) PROVE FALSE
            <4>1. par' \in {"fork", "wait", "check", "line", "stop", "test"}
                BY <3>1 DEF Fork, Go, Loop
            <4> QED
                BY <4>1
        <3>2. CASE NotYet \/ NoChild \/ TypeLine \/ Interrupt \/ Stop \/ Cont \/ ReadWords
            BY <1>1, <3>2 DEF NotYet, NoChild, TypeLine, Interrupt, Stop, Cont, ReadWords, Go
        <3>3. CASE Test \/ Select \/ Read \/ TellChildren
            BY <1>2, <3>3 DEF Test, Select, Read, ReadFrom, TellChildren, Go
        <3>4. CASE Signaled({}) \/ Signaled(Child)
            BY <1>1, <3>4 DEF Signaled
        <3>5. ASSUME NEW c \in Child, ChildStep(c) \/ KillChild(c) PROVE par' \in {par, "killed", "stopped"} /\ seen' = seen
            BY <3>5 DEF ChildStep, Exec, ExecFails, CopyKills, Install, LookAtFlag, SleepPrint, Say, ExitChild, KillChild
        <3> QED
            BY <1>5, <3>1, <3>2, <3>3, <3>4, <3>5 DEF Next, ParentStep, vars
    <2> QED
        BY <1>3, <2>1
<1> QED
    BY <1>4, <1>5

LEMMA DutyInductive == Spec => []DutyInv
<1>1. Init => DutyInv
    <2>1. Init => SleepInv /\ ToldInv /\ ReapedInv
        BY DEF Init, SleepInv, ToldInv, ReapedInv
    <2> QED
        BY <2>1, InitType DEF DutyInv
<1>2. DutyInv /\ [Next]_vars => DutyInv'
    BY NextType, NextSleep, NextTold, NextReaped DEF DutyInv
<1> QED
    BY <1>1, <1>2, PTL DEF Spec

\* No parent that has ended has forgotten its children: the one it waits for is reaped
\* with its status known, those of read_AB and select_AB have been told to end.
THEOREM NobodyIsForgotten == Spec => []NobodyForgotten
<1>1. DutyInv => NobodyForgotten
    <2> SUFFICES ASSUME DutyInv, par = "ended"
        PROVE  /\ program \in Waiting =>
                    child["A"] = "reaped" /\ (program # "listen" => seen = how["A"])
               /\ program \in AB => \A c \in Child : Alive(c) => c \in flagged \cup missed
        BY DEF NobodyForgotten
    <2>1. program \in Waiting => child["A"] = "reaped" /\ (program # "listen" => seen = how["A"])
        BY DEF DutyInv, ReapedInv
    <2>2. program \in AB => Told("A") /\ Told("B") /\ Child = {"A", "B"}
        BY DEF DutyInv, ToldInv, Child
    <2> QED
        BY <2>1, <2>2 DEF Told
<1> QED
    BY <1>1, DutyInductive, PTL

=============================================================================
