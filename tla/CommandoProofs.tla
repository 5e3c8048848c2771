---------------------------- MODULE CommandoProofs ----------------------------
(***************************************************************************)
(* What the commando shells keep, for any number of processes and any size *)
(* of the array of jobs: a job that is finished shows its own process's    *)
(* exit status, no exit status that waitpid reports is lost, and the read  *)
(* of a finished job's output does not block.                              *)
(***************************************************************************)
EXTENDS Commando, TLAPS

Fetching == {"fetch wait", "fetch update"}

\* A loop over the jobs stays inside the array.
LoopsInv == \A p \in Proc :
    /\ i[p] # 0
    /\ at[p] \in Shell => last[p] <= size(p)
    /\ at[p] \in Fetching => i[p] <= last[p] /\ Job(p).finished

\* Only a process that has got past cmd_start has children; a forked process that
\* is a shell has inherited at least one job; what waitpid has reported has ended.
LineageInv ==
    /\ \A q \in Pid :
          /\ at[q] # "unused" => at[parent[q]] \notin {"unused", "start"}
          /\ at[q] \in Shell \cup {"start"} => cmd[q] # << >>
          /\ at[q] \in Shell => lol
    /\ \A q \in reaped : at[q] \in Ended

\* While no execvp has failed, a program is the only one to hold its write end.
WriteEndsInv ==
    /\ \A r \in Pid : \A s \in writers[r] : at[s] \notin Ended
    /\ Nested = {} => \A r \in Pid : writers[r] \subseteq {r}

IInv == TypeOK /\ LoopsInv /\ LineageInv /\ OwnStatus /\ NothingLost /\ WriteEndsInv

-----------------------------------------------------------------------------

LEMMA InitInv == Init => IInv
<1> SUFFICES ASSUME Init PROVE IInv
    OBVIOUS
<1>1. 0 \in Proc /\ 0 \in Nat /\ 1 \in Nat /\ -1 \in -1..1 /\ 0 \in 0..1 /\ 0 <= MaxChild
    BY CommandoAssumption DEF Proc
<1>2. /\ \A p \in Proc : cmd[p] = << >> /\ size(p) = 0 /\ i[p] = 1 /\ last[p] = 0
      /\ \A p \in Proc : at[p] = IF p = 0 THEN "prompt" ELSE "unused"
      /\ \A q \in Pid : q \in Proc /\ at[q] = "unused" /\ writers[q] = {}
      /\ reaped = {}
    BY CommandoAssumption DEF Init, size, Proc, Pid
<1>3. TypeOK
    BY <1>1, <1>2 DEF Init, TypeOK, Shell
<1>4. LoopsInv
    <2> SUFFICES ASSUME NEW p \in Proc
                 PROVE  i[p] # 0 /\ last[p] <= size(p) /\ at[p] \notin Fetching
        BY DEF LoopsInv
    <2>1. i[p] = 1 /\ last[p] = 0 /\ size(p) = 0
        BY <1>2
    <2>2. at[p] \in {"prompt", "unused"}
        BY <1>2
    <2>3. at[p] \notin Fetching
        BY <2>2 DEF Fetching
    <2>4. i[p] # 0 /\ last[p] <= size(p)
        BY <2>1
    <2> QED
        BY <2>3, <2>4
<1>5. LineageInv
    BY <1>2 DEF LineageInv, Shell
<1>6. OwnStatus /\ NothingLost /\ WriteEndsInv
    BY <1>2 DEF OwnStatus, NothingLost, WriteEndsInv
<1> QED
    BY <1>3, <1>4, <1>5, <1>6 DEF IInv

LEMMA PidIsProc == Pid \subseteq Proc
BY CommandoAssumption DEF Pid, Proc

State == Shell \cup Program \cup Ended \cup {"unused", "start", "overrun"}

\* One process goes on to something else.
LEMMA OneMoves ==
    ASSUME TypeOK, NEW p \in Proc, NEW a \in State, at' = [at EXCEPT ![p] = a]
    PROVE  at' \in [Proc -> State] /\ at'[p] = a /\ \A q \in Proc \ {p} : at'[q] = at[q]
<1>1. at \in [Proc -> State]
    BY DEF TypeOK, State
<1> QED
    BY <1>1

\* An end is final, and what a shell shows as finished stays so: as long as no job
\* changes, what has ended stays ended and what is reaped stays reaped.
LEMMA StatusKept ==
    ASSUME IInv, UNCHANGED <<cmd, parent, reaped>>,
           \A q \in Proc : at[q] = "exited" => at'[q] = "exited" /\ code'[q] = code[q],
           \A q \in Proc : at[q] \in Ended => at'[q] = at[q]
    PROVE  OwnStatus' /\ NothingLost'
<1>1. TypeOK /\ OwnStatus /\ NothingLost /\ \A q \in reaped : at[q] \in Ended
    BY DEF IInv, LineageInv
<1>2. OwnStatus'
    <2> SUFFICES ASSUME NEW p \in Proc, NEW k \in 1..size(p), cmd[p][k].finished, cmd[p][k].pid # -1
                 PROVE  at'[cmd[p][k].pid] = "exited" /\ cmd[p][k].status = code'[cmd[p][k].pid]
        BY DEF OwnStatus, size
    <2>1. cmd[p][k] \in Cmd
        BY <1>1 DEF TypeOK, size
    <2>2. cmd[p][k].pid \in Proc
        BY <2>1, PidIsProc DEF Cmd
    <2> QED
        BY <1>1, <2>2 DEF OwnStatus
<1>3. NothingLost'
    <2> SUFFICES ASSUME NEW q \in reaped, at'[q] = "exited",
                        \A k \in 1..size(parent[q]) : cmd[parent[q]][k].pid # -1
                 PROVE  \E k \in 1..size(parent[q]) :
                            /\ cmd[parent[q]][k].pid = q /\ cmd[parent[q]][k].finished
                            /\ cmd[parent[q]][k].status = code'[q]
        BY DEF NothingLost, size
    <2>1. q \in Proc /\ at[q] = "exited"
        BY <1>1, PidIsProc DEF TypeOK
    <2> QED
        BY <1>1, <2>1 DEF NothingLost
<1> QED
    BY <1>2, <1>3

LEMMA JobHasPid ==
    ASSUME TypeOK, NEW p \in Proc, NEW k \in 1..size(p)
    PROVE  /\ cmd[p][k] \in Cmd
           /\ cmd[p][k].pid \in Pid \cup {-1} /\ (cmd[p][k].pid # -1 => cmd[p][k].pid \in Proc)
<1>1. cmd[p][k] \in Cmd
    BY DEF TypeOK, size
<1> QED
    BY <1>1, PidIsProc DEF Cmd

\* The loop of one shell is none of the others' business.
LEMMA OtherLoops ==
    ASSUME LoopsInv, NEW p \in Proc,
           \A r \in Proc \ {p} : /\ at'[r] = at[r] /\ i'[r] = i[r] /\ last'[r] = last[r]
                                 /\ size(r)' = size(r) /\ Job(r)' = Job(r),
           i'[p] # 0, at'[p] \in Shell => last'[p] <= size(p)',
           at'[p] \in Fetching => i'[p] <= last'[p] /\ Job(p)'.finished
    PROVE  LoopsInv'
<1> SUFFICES ASSUME NEW r \in Proc
             PROVE  /\ i'[r] # 0
                    /\ at'[r] \in Shell => last'[r] <= size(r)'
                    /\ at'[r] \in Fetching => i'[r] <= last'[r] /\ Job(r)'.finished
    BY DEF LoopsInv, Fetching, Shell
<1> QED
    BY DEF LoopsInv

\* Where a shell's loop stands is all that changes.
LEMMA LoopStep ==
    ASSUME IInv, NEW p \in Proc,
           \/ Builtin(p) \/ WaitFor(p) \/ WaitAll(p) \/ AddOverrun(p)
           \/ NothingNew(p) \/ WaitEnds(p) \/ UpdateEnds(p)
    PROVE  IInv'
<1> USE DEF kernel, io
<1>1. TypeOK /\ LoopsInv /\ LineageInv /\ WriteEndsInv
    BY DEF IInv
<1>2. UNCHANGED <<lol, cmd, parent, news, code, reaped, writers, toPipe, pipe, printed>>
    BY DEF Builtin, WaitFor, WaitAll, AddOverrun, NothingNew, WaitEnds, UpdateEnds
<1>3. at[p] \in {"prompt", "wait", "update"}
    BY DEF Builtin, WaitFor, WaitAll, AddOverrun, NothingNew, WaitEnds, UpdateEnds, Polling
<1>4. /\ at' \in [Proc -> State]
      /\ at'[p] \in {"prompt", "wait", "update", "overrun"}
      /\ \A q \in Proc \ {p} : at'[q] = at[q]
    <2>1. CASE NothingNew(p)
        BY <1>1, <1>3, <2>1 DEF NothingNew, TypeOK, State
    <2>2. ASSUME NEW a \in {"prompt", "wait", "update", "overrun"}, at' = [at EXCEPT ![p] = a]
          PROVE  /\ at' \in [Proc -> State] /\ at'[p] = a
                 /\ \A q \in Proc \ {p} : at'[q] = at[q]
        BY <1>1, <2>2, OneMoves DEF State, Shell
    <2>3. CASE Builtin(p) \/ WaitFor(p) \/ WaitAll(p) \/ AddOverrun(p) \/ WaitEnds(p) \/ UpdateEnds(p)
        BY <2>2, <2>3 DEF Builtin, WaitFor, WaitAll, AddOverrun, WaitEnds, UpdateEnds, Loop
    <2> QED
        BY <2>1, <2>3
<1>5. size(p) \in Nat /\ i[p] \in Nat /\ last[p] \in Nat /\ last[p] <= size(p)
    <2>1. cmd[p] \in Seq(Cmd) /\ i[p] \in Nat /\ last[p] \in Nat
        BY <1>1 DEF TypeOK
    <2>2. last[p] <= size(p)
        BY <1>1, <1>3 DEF LoopsInv, Shell
    <2> QED
        BY <2>1, <2>2 DEF size
<1>6. /\ i' \in [Proc -> Nat] /\ last' \in [Proc -> Nat]
      /\ i'[p] # 0 /\ last'[p] <= size(p)
      /\ \A q \in Proc \ {p} : i'[q] = i[q] /\ last'[q] = last[q]
    <2>1. CASE AddOverrun(p)
        BY <1>1, <1>5, <2>1 DEF AddOverrun, TypeOK, LoopsInv
    <2>2. CASE NothingNew(p)
        BY <1>1, <1>5, <2>2 DEF NothingNew, NextJob, TypeOK, LoopsInv
    <2>3. ASSUME NEW doing, NEW f \in Nat \ {0}, NEW l \in Nat, l <= size(p), Loop(p, doing, f, l)
          PROVE  /\ i' \in [Proc -> Nat] /\ last' \in [Proc -> Nat]
                 /\ i'[p] # 0 /\ last'[p] <= size(p)
                 /\ \A q \in Proc \ {p} : i'[q] = i[q] /\ last'[q] = last[q]
        BY <1>1, <2>3 DEF Loop, TypeOK
    <2>4. CASE Builtin(p) \/ WaitAll(p) \/ WaitEnds(p) \/ UpdateEnds(p)
        BY <1>5, <2>3, <2>4 DEF Builtin, WaitAll, WaitEnds, UpdateEnds
    <2>5. CASE WaitFor(p)
        BY <1>5, <2>3, <2>5 DEF WaitFor
    <2> QED
        BY <2>1, <2>2, <2>4, <2>5
<1>7. TypeOK'
    BY <1>1, <1>2, <1>4, <1>6 DEF TypeOK, size, State
<1>8. LoopsInv'
    BY <1>1, <1>2, <1>4, <1>6 DEF LoopsInv, Fetching, Job, size
<1>9. LineageInv'
    BY <1>1, <1>2, <1>3, <1>4, PidIsProc DEF LineageInv, TypeOK, Shell, Ended
<1>10. OwnStatus' /\ NothingLost'
    BY <1>2, <1>3, <1>4, StatusKept DEF Ended
<1>11. Nested' = Nested
    BY <1>2, <1>3, <1>4, PidIsProc DEF Nested
<1>12. WriteEndsInv'
    BY <1>1, <1>2, <1>3, <1>4, <1>11, PidIsProc DEF WriteEndsInv, TypeOK, Ended
<1> QED
    BY <1>7, <1>8, <1>9, <1>10, <1>12 DEF IInv

\* A process ends, which closes its write ends.
LEMMA EndStep ==
    ASSUME IInv, NEW p \in Proc,
           \/ PastLast(p) \/ ExitShell(p)
           \/ p \in Pid /\ (NoLol(p) \/ ExitProgram(p) \/ KillProgram(p))
    PROVE  IInv'
<1> USE DEF kernel, io
<1>1. TypeOK /\ LoopsInv /\ LineageInv /\ WriteEndsInv
    BY DEF IInv
<1>2. UNCHANGED <<lol, cmd, i, last, parent, news, reaped, toPipe, pipe, printed>>
    BY DEF PastLast, ExitShell, NoLol, ExitProgram, KillProgram, Dies
<1>3. at[p] \in {"prompt", "start", "running", "stopped"} /\ (at[p] = "start" => ~lol)
    BY DEF PastLast, ExitShell, NoLol, ExitProgram, KillProgram, Program
<1>4. /\ at' \in [Proc -> State]
      /\ at'[p] \in Ended /\ \A q \in Proc \ {p} : at'[q] = at[q]
      /\ writers' = [r \in Pid |-> writers[r] \ {p}]
    <2>1. \E a \in Ended : at' = [at EXCEPT ![p] = a]
        BY DEF PastLast, ExitShell, NoLol, ExitProgram, KillProgram, Dies, Ended
    <2>2. writers' = [r \in Pid |-> writers[r] \ {p}]
        BY DEF PastLast, ExitShell, NoLol, ExitProgram, KillProgram, Dies
    <2> QED
        BY <1>1, <2>1, <2>2, OneMoves DEF State
<1>5. code' \in [Proc -> -1..1] /\ \A q \in Proc \ {p} : code'[q] = code[q]
    <2>1. UNCHANGED code \/ \E c \in {0, 1} : code' = [code EXCEPT ![p] = c]
        BY DEF PastLast, ExitShell, NoLol, ExitProgram, KillProgram
    <2>2. ASSUME NEW c \in -1..1, code' = [code EXCEPT ![p] = c]
          PROVE  code' \in [Proc -> -1..1] /\ \A q \in Proc \ {p} : code'[q] = code[q]
        BY <1>1, <2>2 DEF TypeOK
    <2>3. 0 \in -1..1 /\ 1 \in -1..1
        OBVIOUS
    <2>4. CASE UNCHANGED code
        BY <1>1, <2>4 DEF TypeOK
    <2> QED
        BY <2>1, <2>2, <2>3, <2>4
<1>6. TypeOK'
    BY <1>1, <1>2, <1>4, <1>5 DEF TypeOK, size, State
<1>7. LoopsInv'
    BY <1>1, <1>2, <1>4 DEF LoopsInv, Fetching, Job, size, Shell, Ended
<1>8. LineageInv'
    BY <1>1, <1>2, <1>3, <1>4, PidIsProc DEF LineageInv, TypeOK, Shell, Ended
<1>9. OwnStatus' /\ NothingLost'
    BY <1>2, <1>3, <1>4, <1>5, StatusKept DEF Ended
<1>10. Nested \subseteq Nested'
    BY <1>2, <1>3, <1>4, PidIsProc DEF Nested, Ended
<1>11. WriteEndsInv'
    BY <1>1, <1>2, <1>4, <1>10, PidIsProc DEF WriteEndsInv, TypeOK
<1> QED
    BY <1>6, <1>7, <1>8, <1>9, <1>11 DEF IInv

\* A program prints, is stopped or continued.
LEMMA ProgramRuns ==
    ASSUME IInv, NEW p \in Pid, PrintOutput(p) \/ StopProgram(p) \/ ContinueProgram(p)
    PROVE  IInv'
<1> USE DEF kernel, io
<1>1. TypeOK /\ LoopsInv /\ LineageInv /\ WriteEndsInv /\ p \in Proc
    BY PidIsProc DEF IInv
<1>2. UNCHANGED <<lol, cmd, i, last, parent, code, reaped, writers, toPipe>>
    BY DEF PrintOutput, StopProgram, ContinueProgram
<1>3. /\ at' \in [Proc -> State]
      /\ at[p] \in Program /\ at'[p] \in Program /\ \A q \in Proc \ {p} : at'[q] = at[q]
    <2>1. CASE PrintOutput(p)
        BY <1>1, <2>1 DEF PrintOutput, TypeOK, State, Program
    <2>2. CASE StopProgram(p) \/ ContinueProgram(p)
        <3>1. \E a \in Program : at' = [at EXCEPT ![p] = a]
            BY <2>2 DEF StopProgram, ContinueProgram, Program
        <3>2. at[p] \in Program
            BY <2>2 DEF StopProgram, ContinueProgram, Program
        <3> QED
            BY <1>1, <3>1, <3>2, OneMoves DEF State
    <2> QED
        BY <2>1, <2>2
<1>4. /\ news' \in [Pid -> {"none", "stopped", "continued"}]
      /\ pipe' \in [Pid -> 0..1] /\ printed' \in [Pid -> 0..1]
    <2>1. 1 \in 0..1
        OBVIOUS
    <2>2. news' \in [Pid -> {"none", "stopped", "continued"}]
        BY <1>1 DEF PrintOutput, StopProgram, ContinueProgram, TypeOK
    <2>3. pipe' \in [Pid -> 0..1]
        BY <1>1, <2>1 DEF PrintOutput, StopProgram, ContinueProgram, TypeOK
    <2>4. printed' \in [Pid -> 0..1]
        BY <1>1, <2>1 DEF PrintOutput, StopProgram, ContinueProgram, TypeOK
    <2> QED
        BY <2>2, <2>3, <2>4
<1>5. TypeOK'
    BY <1>1, <1>2, <1>3, <1>4 DEF TypeOK, size, State
<1>6. LoopsInv' /\ LineageInv'
    BY <1>1, <1>2, <1>3, PidIsProc DEF LoopsInv, Fetching, Job, size, LineageInv, TypeOK, Shell, Ended, Program
<1>7. OwnStatus' /\ NothingLost'
    BY <1>2, <1>3, StatusKept DEF Ended, Program
<1>8. Nested' = Nested
    BY <1>2, <1>3, PidIsProc DEF Nested, Program
<1>9. WriteEndsInv'
    BY <1>1, <1>2, <1>3, <1>8, PidIsProc DEF WriteEndsInv, TypeOK, Ended, Program
<1> QED
    BY <1>5, <1>6, <1>7, <1>9 DEF IInv

\* What a shell writes into one job leaves the others, and the number of them.
LEMMA JobChanges ==
    ASSUME NEW s \in Seq(Cmd), NEW k \in 1..Len(s), NEW c \in Cmd
    PROVE  /\ [s EXCEPT ![k] = c] \in Seq(Cmd) /\ Len([s EXCEPT ![k] = c]) = Len(s)
           /\ [s EXCEPT ![k] = c][k] = c
           /\ \A l \in 1..Len(s) : l # k => [s EXCEPT ![k] = c][l] = s[l]
OBVIOUS

\* The two jobs that cmd_new makes: the child's copy of it does not know its pid.
LEMMA NewJobs ==
    ASSUME NEW q \in Pid
    PROVE  /\ NewCmd \in Cmd /\ [NewCmd EXCEPT !.pid = q] \in Cmd
           /\ ~NewCmd.finished /\ NewCmd.pid = -1
           /\ ~[NewCmd EXCEPT !.pid = q].finished
<1>1. -1 \in -1..1
    OBVIOUS
<1> QED
    BY <1>1 DEF NewCmd, Cmd

LEMMA JobAdded ==
    ASSUME NEW s \in Seq(Cmd), NEW c \in Cmd
    PROVE  /\ Append(s, c) \in Seq(Cmd) /\ Append(s, c) # << >>
           /\ Len(s) \in Nat /\ Len(Append(s, c)) = Len(s) + 1
           /\ \A k \in 1..Len(s) : Append(s, c)[k] = s[k]
           /\ \A k \in 1..(Len(s) + 1) : k \in 1..Len(s) \/ Append(s, c)[k] = c
<1>1. /\ Append(s, c) \in Seq(Cmd) /\ Append(s, c) # << >>
      /\ Len(s) \in Nat /\ Len(Append(s, c)) = Len(s) + 1 /\ Append(s, c)[Len(s) + 1] = c
      /\ \A k \in 1..Len(s) : Append(s, c)[k] = s[k]
    OBVIOUS
<1>2. \A k \in 1..(Len(s) + 1) : k \in 1..Len(s) \/ k = Len(s) + 1
    BY <1>1
<1> QED
    BY <1>1, <1>2

\* Which shell is on to what: the loop of p changes, no process starts or ends.
LEMMA StartFailsInv == ASSUME IInv, NEW p \in Proc, StartFails(p) PROVE IInv'
<1> USE DEF kernel, io
<1>1. TypeOK /\ LoopsInv /\ LineageInv /\ OwnStatus /\ NothingLost /\ WriteEndsInv
    BY DEF IInv
<1>2. UNCHANGED <<lol, parent, news, code, reaped, writers, toPipe, pipe, printed>>
    BY DEF StartFails
<1>3. /\ at[p] = "prompt" /\ at' \in [Proc -> State] /\ at'[p] = "update"
      /\ \A r \in Proc \ {p} : at'[r] = at[r]
    BY <1>1, OneMoves DEF StartFails, Loop, State, Shell
<1>4. cmd[p] \in Seq(Cmd) /\ NewCmd \in Cmd /\ ~NewCmd.finished /\ NewCmd.pid = -1
    <2>1. -1 \in -1..1
        OBVIOUS
    <2> QED
        BY <1>1, <2>1 DEF TypeOK, NewCmd, Cmd
<1>5. /\ cmd' \in [Proc -> Seq(Cmd)] /\ cmd'[p] = Append(cmd[p], NewCmd)
      /\ \A r \in Proc \ {p} : cmd'[r] = cmd[r]
    BY <1>1, <1>4, JobAdded DEF StartFails, TypeOK
<1>6. /\ size(p) \in Nat /\ size(p)' = size(p) + 1 /\ size(p) < MaxChild /\ cmd'[p] # << >>
      /\ \A r \in Proc \ {p} : size(r)' = size(r)
      /\ \A k \in 1..size(p) : cmd'[p][k] = cmd[p][k]
      /\ \A k \in 1..(size(p) + 1) : k \in 1..size(p) \/ cmd'[p][k] = NewCmd
    BY <1>4, <1>5, JobAdded DEF size, StartFails
<1>7. /\ i' \in [Proc -> Nat] /\ last' \in [Proc -> Nat] /\ i'[p] = 1 /\ last'[p] = size(p) + 1
      /\ \A r \in Proc \ {p} : i'[r] = i[r] /\ last'[r] = last[r]
    BY <1>1, <1>6 DEF StartFails, Loop, TypeOK
<1>8. TypeOK'
    <2>1. \A r \in Proc : size(r)' <= MaxChild
        <3>1. \A r \in Proc : size(r) <= MaxChild
            BY <1>1 DEF TypeOK
        <3>2. size(p) + 1 <= MaxChild
            BY <1>6, CommandoAssumption
        <3> QED
            BY <1>6, <3>1, <3>2
    <2> QED
        BY <1>1, <1>2, <1>3, <1>5, <1>7, <2>1 DEF TypeOK, State
<1>9. LoopsInv'
    <2>1. ASSUME NEW r \in Proc \ {p} PROVE Job(r)' = Job(r)
        BY <1>5, <1>7, <2>1 DEF Job
    <2>2. last'[p] <= size(p)' /\ i'[p] # 0
        BY <1>6, <1>7
    <2>3. at'[p] \notin Fetching
        BY <1>3 DEF Fetching
    <2> QED
        BY <1>1, <1>3, <1>6, <1>7, <2>1, <2>2, <2>3, OtherLoops
<1>10. LineageInv'
    BY <1>1, <1>2, <1>3, <1>5, <1>6, PidIsProc DEF LineageInv, TypeOK, Shell, Ended
<1>11. OwnStatus'
    <2> SUFFICES ASSUME NEW r \in Proc, NEW k \in 1..size(r)', cmd'[r][k].finished, cmd'[r][k].pid # -1
                 PROVE  at'[cmd'[r][k].pid] = "exited" /\ cmd'[r][k].status = code'[cmd'[r][k].pid]
        BY DEF OwnStatus
    <2>1. k \in 1..size(r) /\ cmd'[r][k] = cmd[r][k]
        BY <1>4, <1>5, <1>6
    <2>2. cmd[r][k].pid \in Proc
        BY <1>1, <2>1, JobHasPid
    <2>3. at[cmd[r][k].pid] = "exited" /\ cmd[r][k].status = code[cmd[r][k].pid]
        BY <1>1, <2>1 DEF OwnStatus
    <2> QED
        BY <1>2, <1>3, <2>1, <2>2, <2>3
<1>12. NothingLost'
    <2> SUFFICES ASSUME NEW r \in reaped, at'[r] = "exited",
                        \A k \in 1..size(parent[r])' : cmd'[parent[r]][k].pid # -1
                 PROVE  \E k \in 1..size(parent[r])' :
                            /\ cmd'[parent[r]][k].pid = r /\ cmd'[parent[r]][k].finished
                            /\ cmd'[parent[r]][k].status = code[r]
        BY <1>2 DEF NothingLost, size
    <2>1. r \in Proc /\ r # p /\ parent[r] \in Proc /\ at[r] = "exited"
        BY <1>1, <1>3, PidIsProc DEF TypeOK, LineageInv, Ended
    <2>2. ASSUME parent[r] = p PROVE FALSE
        <3>1. size(p) + 1 \in 1..size(p)' /\ cmd'[p][size(p) + 1] = NewCmd
            BY <1>6
        <3>2. cmd'[parent[r]][size(p) + 1].pid # -1
            BY <1>2, <2>2, <3>1
        <3> QED
            BY <1>4, <2>2, <3>1, <3>2
    <2>3. cmd'[parent[r]] = cmd[parent[r]] /\ size(parent[r])' = size(parent[r])
        BY <1>2, <1>5, <1>6, <2>1, <2>2
    <2> QED
        BY <1>1, <1>2, <2>1, <2>3 DEF NothingLost
<1>13. Nested \subseteq Nested'
    BY <1>2, <1>3, <1>5, <1>6, PidIsProc DEF Nested
<1>14. WriteEndsInv'
    BY <1>1, <1>2, <1>3, <1>13, PidIsProc DEF WriteEndsInv, TypeOK, Ended
<1> QED
    BY <1>8, <1>9, <1>10, <1>11, <1>12, <1>14 DEF IInv

\* A job is started: the new process is the copy of a shell that is none of the
\* forked ones unless some execvp has failed.
LEMMA StartInv == ASSUME IInv, NEW p \in Proc, Start(p) PROVE IInv'
<1> USE DEF kernel, io
<1>1. TypeOK /\ LoopsInv /\ LineageInv /\ OwnStatus /\ NothingLost /\ WriteEndsInv
    BY DEF IInv
<1>2. UNCHANGED <<lol, news, code, reaped, toPipe, pipe, printed>>
    BY DEF Start
<1>3. PICK q \in Pid :
        /\ Forked(q)
        /\ cmd' = [cmd EXCEPT ![p] = Append(@, [NewCmd EXCEPT !.pid = q]),
                              ![q] = Append(cmd[p], NewCmd)]
        /\ at' = [at EXCEPT ![p] = "update", ![q] = "start"]
        /\ i' = [i EXCEPT ![p] = 1]
        /\ last' = [last EXCEPT ![p] = size(p) + 1]
        /\ parent' = [parent EXCEPT ![q] = p]
        /\ writers' = [r \in Pid |-> IF r = q THEN {q}
                                     ELSE IF p \in writers[r] THEN writers[r] \cup {q}
                                     ELSE writers[r]]
    BY DEF Start
<1>4. q \in Proc /\ at[p] = "prompt" /\ at[q] = "unused" /\ p # q
    BY <1>3, PidIsProc DEF Start, Forked
<1>5. /\ at' \in [Proc -> State] /\ at'[p] = "update" /\ at'[q] = "start"
      /\ \A r \in Proc \ {p, q} : at'[r] = at[r]
    <2>1. at \in [Proc -> State] /\ "update" \in State /\ "start" \in State
        BY <1>1 DEF TypeOK, State, Shell
    <2> QED
        BY <1>3, <1>4, <2>1
<1> DEFINE mine == [NewCmd EXCEPT !.pid = q]
<1>6. /\ cmd[p] \in Seq(Cmd) /\ NewCmd \in Cmd /\ mine \in Cmd
      /\ ~NewCmd.finished /\ ~mine.finished
    BY <1>1, NewJobs DEF TypeOK
<1>7. mine.pid = q
    BY DEF NewCmd
<1>8. cmd' = [cmd EXCEPT ![p] = Append(@, mine), ![q] = Append(cmd[p], NewCmd)]
    BY <1>3
<1> HIDE DEF mine
<1>9. /\ cmd' \in [Proc -> Seq(Cmd)]
      /\ cmd'[p] = Append(cmd[p], mine) /\ cmd'[q] = Append(cmd[p], NewCmd)
      /\ \A r \in Proc \ {p, q} : cmd'[r] = cmd[r]
    BY <1>1, <1>4, <1>6, <1>8, JobAdded DEF TypeOK
<1>10. /\ size(p) \in Nat /\ size(p)' = size(p) + 1 /\ size(q)' = size(p) + 1
       /\ cmd'[p] # << >> /\ cmd'[q] # << >>
       /\ \A r \in Proc \ {p, q} : size(r)' = size(r)
    BY <1>6, <1>9, JobAdded DEF size
<1>11. /\ \A k \in 1..size(p) : cmd'[p][k] = cmd[p][k] /\ cmd'[q][k] = cmd[p][k]
       /\ \A k \in 1..(size(p) + 1) : k \in 1..size(p) \/ (cmd'[p][k] = mine /\ cmd'[q][k] = NewCmd)
    BY <1>6, <1>9, JobAdded DEF size
<1>12. /\ i' \in [Proc -> Nat] /\ last' \in [Proc -> Nat] /\ i'[p] = 1 /\ last'[p] = size(p) + 1
       /\ \A r \in Proc \ {p} : i'[r] = i[r] /\ last'[r] = last[r]
    BY <1>1, <1>3, <1>10 DEF TypeOK
<1>13. /\ parent' \in [Pid -> Proc] /\ parent'[q] = p /\ \A r \in Pid \ {q} : parent'[r] = parent[r]
       /\ writers' \in [Pid -> SUBSET Proc]
    BY <1>1, <1>3, <1>4 DEF TypeOK
<1>14. TypeOK'
    <2>1. \A r \in Proc : size(r)' <= MaxChild
        <3>1. \A r \in Proc : size(r) <= MaxChild
            BY <1>1 DEF TypeOK
        <3>2. size(p) + 1 <= MaxChild
            BY <1>10, CommandoAssumption DEF Start
        <3> QED
            BY <1>10, <3>1, <3>2
    <2> QED
        BY <1>1, <1>2, <1>5, <1>9, <1>12, <1>13, <2>1 DEF TypeOK, State
<1>15. LoopsInv'
    <2> SUFFICES ASSUME NEW r \in Proc
                 PROVE  /\ i'[r] # 0 /\ (at'[r] \in Shell => last'[r] <= size(r)')
                        /\ (at'[r] \in Fetching => i'[r] <= last'[r] /\ Job(r)'.finished)
        BY DEF LoopsInv, Fetching, Shell
    <2>1. CASE r = p
        <3>1. i'[r] # 0 /\ last'[r] <= size(r)'
            BY <1>10, <1>12, <2>1
        <3>2. at'[r] \notin Fetching
            BY <1>5, <2>1 DEF Fetching
        <3> QED
            BY <3>1, <3>2
    <2>2. CASE r = q
        <3>1. at'[r] \notin Fetching \cup Shell
            BY <1>5, <2>2 DEF Fetching, Shell
        <3>2. i'[r] # 0
            BY <1>1, <1>4, <1>12, <2>2 DEF LoopsInv
        <3> QED
            BY <3>1, <3>2
    <2>3. CASE r \notin {p, q}
        <3>1. /\ at'[r] = at[r] /\ i'[r] = i[r] /\ last'[r] = last[r] /\ size(r)' = size(r)
              /\ Job(r)' = Job(r)
            BY <1>5, <1>9, <1>10, <1>12, <2>3 DEF Job
        <3> QED
            BY <1>1, <3>1 DEF LoopsInv
    <2> QED
        BY <2>1, <2>2, <2>3
<1>16. LineageInv'
    <2>1. ASSUME NEW r \in Pid, at'[r] # "unused" PROVE at'[parent'[r]] \notin {"unused", "start"}
        <3>1. CASE r = q
            BY <1>5, <1>13, <3>1
        <3>2. CASE r # q
            <4>1. r \in Proc /\ at[r] # "unused"
                BY <1>4, <1>5, <2>1, <3>2, PidIsProc
            <4>2. parent[r] \in Proc /\ at[parent[r]] \notin {"unused", "start"}
                BY <1>1, <4>1 DEF LineageInv, TypeOK
            <4> QED
                BY <1>4, <1>5, <1>13, <3>2, <4>2
        <3> QED
            BY <3>1, <3>2
    <2>2. ASSUME NEW r \in Pid, at'[r] \in Shell \cup {"start"} PROVE cmd'[r] # << >>
        BY <1>1, <1>5, <1>9, <1>10, <2>2, PidIsProc DEF LineageInv
    <2>3. ASSUME NEW r \in Pid, at'[r] \in Shell PROVE lol'
        BY <1>1, <1>2, <1>4, <1>5, <2>3, PidIsProc DEF LineageInv, Shell
    <2>4. \A r \in reaped : at'[r] \in Ended
        BY <1>1, <1>4, <1>5, PidIsProc DEF LineageInv, TypeOK, Ended
    <2> QED
        BY <1>2, <2>1, <2>2, <2>3, <2>4 DEF LineageInv
<1>17. OwnStatus'
    <2> SUFFICES ASSUME NEW r \in Proc, NEW k \in 1..size(r)', cmd'[r][k].finished, cmd'[r][k].pid # -1
                 PROVE  at'[cmd'[r][k].pid] = "exited" /\ cmd'[r][k].status = code'[cmd'[r][k].pid]
        BY DEF OwnStatus
    <2>1. PICK s \in Proc : k \in 1..size(s) /\ cmd'[r][k] = cmd[s][k]
        <3>1. CASE r \in {p, q}
            <4>1. k \in 1..(size(p) + 1)
                BY <1>10, <3>1
            <4>2. k \in 1..size(p)
                BY <1>6, <1>11, <3>1, <4>1
            <4> QED
                BY <1>11, <3>1, <4>2
        <3>2. CASE r \notin {p, q}
            BY <1>9, <1>10, <3>2
        <3> QED
            BY <3>1, <3>2
    <2>2. cmd[s][k].pid \in Proc
        BY <1>1, <2>1, JobHasPid
    <2>3. at[cmd[s][k].pid] = "exited" /\ cmd[s][k].status = code[cmd[s][k].pid]
        BY <1>1, <2>1 DEF OwnStatus
    <2> QED
        BY <1>2, <1>4, <1>5, <2>1, <2>2, <2>3
<1>18. NothingLost'
    <2> SUFFICES ASSUME NEW r \in reaped, at'[r] = "exited",
                        \A k \in 1..size(parent[r])' : cmd'[parent'[r]][k].pid # -1
                 PROVE  \E k \in 1..size(parent[r])' :
                            /\ cmd'[parent'[r]][k].pid = r /\ cmd'[parent'[r]][k].finished
                            /\ cmd'[parent'[r]][k].status = code'[r]
        BY <1>2 DEF NothingLost
    <2>1. r \in Pid /\ r \in Proc /\ at[r] \in Ended
        BY <1>1, PidIsProc DEF TypeOK, LineageInv
    <2>2. r # q /\ r # p /\ at[r] = "exited" /\ parent'[r] = parent[r]
        BY <1>4, <1>5, <1>13, <2>1 DEF Ended
    <2>3. parent[r] \in Proc /\ parent[r] # q
        BY <1>1, <1>4, <2>1, <2>2 DEF LineageInv, TypeOK
    <2>4. /\ 1..size(parent[r]) \subseteq 1..size(parent[r])'
          /\ \A k \in 1..size(parent[r]) : cmd'[parent'[r]][k] = cmd[parent[r]][k]
        <3>1. CASE parent[r] = p
            <4>1. 1..size(p) \subseteq 1..size(p)'
                BY <1>10
            <4> QED
                BY <1>11, <2>2, <3>1, <4>1
        <3>2. CASE parent[r] # p
            BY <1>9, <1>10, <2>2, <2>3, <3>2
        <3> QED
            BY <3>1, <3>2
    <2>5. PICK k \in 1..size(parent[r]) :
              /\ cmd[parent[r]][k].pid = r /\ cmd[parent[r]][k].finished
              /\ cmd[parent[r]][k].status = code[r]
        BY <1>1, <2>2, <2>4 DEF NothingLost
    <2> QED
        BY <1>2, <2>4, <2>5
<1>19. Nested \subseteq Nested'
    <2> SUFFICES ASSUME NEW r \in Nested PROVE r \in Nested'
        OBVIOUS
    <2>1. r \in Pid /\ r \in Proc /\ at[r] \notin {"unused", "start"} /\ cmd[r] # << >> /\ lol
        BY PidIsProc DEF Nested
    <2>2. r # q /\ at'[r] \notin {"unused", "start"} /\ cmd'[r] # << >> /\ lol'
        BY <1>2, <1>4, <1>5, <1>9, <1>10, <2>1
    <2> QED
        BY <2>1, <2>2 DEF Nested
<1>20. WriteEndsInv'
    <2>1. ASSUME NEW r \in Pid, NEW s \in writers'[r] PROVE at'[s] \notin Ended
        <3>1. s = q \/ (s \in writers[r] /\ s \in Proc)
            BY <1>1, <1>3, <2>1 DEF TypeOK
        <3> QED
            BY <1>1, <1>5, <3>1 DEF WriteEndsInv, Ended
    <2>2. ASSUME Nested' = {}, NEW r \in Pid PROVE writers'[r] \subseteq {r}
        <3>1. Nested = {}
            BY <1>19, <2>2
        <3>2. p \notin Pid
            <4>1. p \in Pid => cmd[p] # << >> /\ lol
                BY <1>1, <1>4 DEF LineageInv, Shell
            <4> QED
                BY <1>4, <3>1, <4>1 DEF Nested
        <3>3. writers[r] \subseteq {r}
            BY <1>1, <3>1 DEF WriteEndsInv
        <3> QED
            BY <1>3, <3>2, <3>3
    <2> QED
        BY <2>1, <2>2 DEF WriteEndsInv
<1> QED
    BY <1>14, <1>15, <1>16, <1>17, <1>18, <1>20 DEF IInv

\* waitpid reports on a child, and at an exit the job shows its status.
LEMMA ReportInv ==
    ASSUME IInv, NEW p \in Proc, ReportExit(p) \/ ReportOther(p) PROVE IInv'
<1> USE DEF kernel, io
<1> DEFINE k == i[p]
<1>1. TypeOK /\ LoopsInv /\ LineageInv /\ OwnStatus /\ NothingLost /\ WriteEndsInv
    BY DEF IInv
<1>2. /\ at[p] \in {"wait", "update"} /\ i[p] <= last[p] /\ ~Job(p).finished
      /\ UNCHANGED <<lol, last, parent, code, writers, toPipe, pipe, printed>>
    BY DEF ReportExit, ReportOther, Polling
<1>3. k \in 1..size(p)
    <2>1. i[p] \in Nat /\ last[p] \in Nat /\ size(p) \in Nat
        <3>1. cmd[p] \in Seq(Cmd) /\ i[p] \in Nat /\ last[p] \in Nat
            BY <1>1 DEF TypeOK
        <3> QED
            BY <3>1 DEF size
    <2>2. i[p] # 0 /\ last[p] <= size(p)
        BY <1>1, <1>2 DEF LoopsInv, Shell
    <2> QED
        BY <1>2, <2>1, <2>2
<1> HIDE DEF k
<1>4. \A q \in Children(p, Job(p).pid) :
        q \in Pid /\ q \in Proc /\ parent[q] = p /\ q \notin reaped /\ (Job(p).pid = -1 \/ Job(p).pid = q)
    BY PidIsProc DEF Children
<1>5. CASE ReportOther(p)
    <2>1. PICK q \in Children(p, Job(p).pid) :
            \/ at[q] = "killed" /\ reaped' = reaped \cup {q} /\ UNCHANGED news
            \/ news' = [news EXCEPT ![q] = "none"] /\ UNCHANGED reaped
        BY <1>5 DEF ReportOther
    <2>2. UNCHANGED <<at, cmd>> /\ i' = [i EXCEPT ![p] = @ + 1]
        BY <1>5 DEF ReportOther, NextJob
    <2>3. /\ i' \in [Proc -> Nat] /\ i'[p] # 0 /\ \A r \in Proc \ {p} : i'[r] = i[r]
        BY <1>1, <2>2 DEF TypeOK
    <2>4. TypeOK'
        <3>1. reaped' \subseteq Pid /\ news' \in [Pid -> {"none", "stopped", "continued"}]
            <4>1. reaped' \subseteq Pid
                BY <1>1, <1>4, <2>1 DEF TypeOK
            <4>2. CASE UNCHANGED news
                BY <1>1, <4>1, <4>2 DEF TypeOK
            <4>3. CASE news' = [news EXCEPT ![q] = "none"]
                BY <1>1, <4>1, <4>3 DEF TypeOK
            <4> QED
                BY <2>1, <4>2, <4>3
        <3> QED
            BY <1>1, <1>2, <2>2, <2>3, <3>1 DEF TypeOK, size
    <2>5. LoopsInv'
        <3>1. at'[p] \notin Fetching
            BY <1>2, <2>2 DEF Fetching
        <3>2. \A r \in Proc \ {p} : Job(r)' = Job(r)
            BY <2>2, <2>3 DEF Job
        <3>3. last'[p] <= size(p)' /\ \A r \in Proc : size(r)' = size(r)
            BY <1>1, <1>2, <2>2 DEF LoopsInv, Shell, size
        <3> QED
            BY <1>1, <1>2, <2>2, <2>3, <3>1, <3>2, <3>3, OtherLoops
    <2>6. LineageInv'
        BY <1>1, <1>2, <2>1, <2>2 DEF LineageInv, Ended
    <2>7. OwnStatus'
        BY <1>1, <1>2, <2>2 DEF OwnStatus, size
    <2>8. NothingLost'
        BY <1>1, <1>2, <2>1, <2>2 DEF NothingLost, size
    <2>9. WriteEndsInv'
        BY <1>1, <1>2, <2>2 DEF WriteEndsInv, Nested
    <2> QED
        BY <2>4, <2>5, <2>6, <2>7, <2>8, <2>9 DEF IInv
<1>6. CASE ReportExit(p)
    <2>1. PICK q \in Children(p, Job(p).pid) :
            /\ at[q] = "exited" /\ reaped' = reaped \cup {q}
            /\ cmd' = [cmd EXCEPT ![p][i[p]] = [@ EXCEPT !.finished = TRUE, !.status = code[q]]]
        BY <1>6 DEF ReportExit
    <2>2. /\ UNCHANGED <<i, news>>
          /\ at' = [at EXCEPT ![p] = IF @ = "wait" THEN "fetch wait" ELSE "fetch update"]
        BY <1>6 DEF ReportExit
    <2>3. /\ at' \in [Proc -> State] /\ at'[p] \in Fetching
          /\ \A r \in Proc \ {p} : at'[r] = at[r]
        BY <1>1, <2>2, OneMoves DEF State, Shell, Fetching
    <2> DEFINE c == [cmd[p][k] EXCEPT !.finished = TRUE, !.status = code[q]]
    <2>4. /\ cmd[p][k] \in Cmd /\ c \in Cmd /\ c.pid = cmd[p][k].pid /\ c.finished /\ c.status = code[q]
        <3>1. cmd[p][k] \in Cmd /\ code[q] \in -1..1
            BY <1>1, <1>3, <1>4, <2>1, JobHasPid DEF TypeOK
        <3> QED
            BY <3>1 DEF Cmd
    <2>5. cmd' = [cmd EXCEPT ![p] = [cmd[p] EXCEPT ![k] = c]]
        BY <1>1, <2>1 DEF k, TypeOK
    <2> HIDE DEF c
    <2>6. /\ cmd' \in [Proc -> Seq(Cmd)] /\ \A r \in Proc : size(r)' = size(r)
          /\ \A r \in Proc \ {p} : cmd'[r] = cmd[r]
          /\ \A l \in 1..size(p) : l # k => cmd'[p][l] = cmd[p][l]
          /\ cmd'[p][k] = c
        <3> DEFINE s == [cmd[p] EXCEPT ![k] = c]
        <3>1. /\ s \in Seq(Cmd) /\ Len(s) = Len(cmd[p]) /\ s[k] = c
              /\ \A l \in 1..Len(cmd[p]) : l # k => s[l] = cmd[p][l]
            <4>1. cmd[p] \in Seq(Cmd) /\ k \in 1..Len(cmd[p]) /\ c \in Cmd
                BY <1>1, <1>3, <2>4 DEF TypeOK, size
            <4> QED
                BY <4>1, JobChanges
        <3>2. cmd' = [cmd EXCEPT ![p] = s]
            BY <2>5
        <3> HIDE DEF s
        <3> QED
            BY <1>1, <3>1, <3>2 DEF TypeOK, size
    <2>7. TypeOK'
        <3>1. reaped' \subseteq Pid /\ \A r \in Proc : size(r)' <= MaxChild
            BY <1>1, <1>4, <2>1, <2>6 DEF TypeOK
        <3> QED
            BY <1>1, <1>2, <2>2, <2>3, <2>6, <3>1 DEF TypeOK, State
    <2>8. LoopsInv'
        <3>1. \A r \in Proc \ {p} : Job(r)' = Job(r)
            BY <2>2, <2>6 DEF Job
        <3>2. Job(p)'.finished
            BY <2>2, <2>4, <2>6 DEF Job, k
        <3>3. last'[p] <= size(p)' /\ i'[p] # 0 /\ i'[p] <= last'[p]
            BY <1>1, <1>2, <2>2, <2>6 DEF LoopsInv, Shell
        <3> QED
            BY <1>1, <1>2, <2>2, <2>3, <2>6, <3>1, <3>2, <3>3, OtherLoops
    <2>9. \A r \in Proc : cmd[r] # << >> => cmd'[r] # << >>
        BY <1>1, <2>6 DEF TypeOK, size
    <2>10. LineageInv'
        <3>1. at'[p] \in Shell /\ at[p] \in Shell /\ at[p] # "unused" /\ at'[p] \notin {"unused", "start"} /\ at[p] \notin Ended
            BY <1>2, <2>3 DEF Shell, Fetching, Ended
        <3>2. \A r \in reaped' : at[r] \in Ended /\ r # p /\ r \in Proc
            BY <1>1, <1>4, <2>1, <3>1, PidIsProc DEF LineageInv, TypeOK, Ended
        <3> QED
            BY <1>1, <1>2, <2>3, <2>9, <3>1, <3>2, PidIsProc DEF LineageInv, TypeOK
    <2>11. OwnStatus'
        <3> SUFFICES ASSUME NEW r \in Proc, NEW l \in 1..size(r)', cmd'[r][l].finished, cmd'[r][l].pid # -1
                     PROVE  at'[cmd'[r][l].pid] = "exited" /\ cmd'[r][l].status = code'[cmd'[r][l].pid]
            BY DEF OwnStatus
        <3>1. CASE r = p /\ l = k
            <4>1. cmd'[r][l] = c /\ c.pid = q
                BY <1>4, <2>1, <2>4, <2>6, <3>1 DEF Job, k
            <4>2. c.status = code[q] /\ code' = code /\ at[q] = "exited" /\ at'[q] = "exited"
                BY <1>2, <1>4, <2>1, <2>3, <2>4 DEF Fetching
            <4> QED
                BY <4>1, <4>2
        <3>2. CASE ~(r = p /\ l = k)
            <4>1. l \in 1..size(r) /\ cmd'[r][l] = cmd[r][l]
                BY <2>6, <3>2
            <4>2. cmd[r][l].pid \in Proc
                BY <1>1, <4>1, JobHasPid
            <4>3. at[cmd[r][l].pid] = "exited" /\ cmd[r][l].status = code[cmd[r][l].pid]
                BY <1>1, <4>1 DEF OwnStatus
            <4> QED
                BY <1>2, <2>3, <4>1, <4>2, <4>3
        <3> QED
            BY <3>1, <3>2
    <2>12. NothingLost'
        <3> SUFFICES ASSUME NEW r \in reaped', at'[r] = "exited",
                            \A l \in 1..size(parent[r])' : cmd'[parent'[r]][l].pid # -1
                     PROVE  \E l \in 1..size(parent[r])' :
                                /\ cmd'[parent'[r]][l].pid = r /\ cmd'[parent'[r]][l].finished
                                /\ cmd'[parent'[r]][l].status = code'[r]
            BY DEF NothingLost
        <3>1. r \in Pid /\ r \in Proc /\ parent[r] \in Proc /\ size(parent[r])' = size(parent[r])
            BY <1>1, <1>2, <2>6, <2>7, PidIsProc DEF TypeOK
        <3>2. at[r] = "exited"
            BY <1>1, <1>2, <2>1, <2>3, <3>1 DEF LineageInv, Fetching, Ended
        <3>3. CASE r = q
            <4>1. parent[r] = p /\ c.pid # -1 /\ c.pid = q
                BY <1>2, <1>3, <1>4, <2>4, <2>6, <3>1, <3>3 DEF Job, k
            <4> QED
                BY <1>2, <1>3, <2>4, <2>6, <3>1, <3>3, <4>1
        <3>4. CASE r # q
            <4>1. r \in reaped
                BY <2>1, <3>4
            <4>2. \A l \in 1..size(parent[r]) : cmd'[parent'[r]][l].pid = cmd[parent[r]][l].pid
                BY <1>2, <2>4, <2>6, <3>1
            <4>3. PICK l \in 1..size(parent[r]) :
                    /\ cmd[parent[r]][l].pid = r /\ cmd[parent[r]][l].finished
                    /\ cmd[parent[r]][l].status = code[r]
                BY <1>1, <3>1, <3>2, <4>1, <4>2 DEF NothingLost
            <4>4. ~(parent[r] = p /\ l = k)
                BY <1>2, <4>3 DEF Job, k
            <4> QED
                BY <1>2, <2>6, <3>1, <4>3, <4>4
        <3> QED
            BY <3>3, <3>4
    <2>13. Nested' = Nested
        <3>1. \A r \in Proc : cmd'[r] # << >> <=> cmd[r] # << >>
            BY <1>1, <2>6 DEF TypeOK, size
        <3> QED
            BY <1>2, <2>3, <3>1, PidIsProc DEF Nested, Fetching
    <2>14. WriteEndsInv'
        BY <1>1, <1>2, <2>3, <2>13, PidIsProc DEF WriteEndsInv, TypeOK, Ended, Fetching
    <2> QED
        BY <2>7, <2>8, <2>10, <2>11, <2>12, <2>14 DEF IInv
<1> QED
    BY <1>5, <1>6

\* The output of the finished job is read: nothing but output_size changes in it.
LEMMA FetchInv == ASSUME IInv, NEW p \in Proc, Fetch(p) PROVE IInv'
<1> USE DEF kernel, io
<1> DEFINE k == i[p]
<1>1. TypeOK /\ LoopsInv /\ LineageInv /\ OwnStatus /\ NothingLost /\ WriteEndsInv
    BY DEF IInv
<1>2. /\ at[p] \in Fetching
      /\ UNCHANGED <<lol, last, parent, news, code, reaped, writers, toPipe, printed>>
      /\ at' = [at EXCEPT ![p] = IF @ = "fetch wait" THEN "wait" ELSE "update"]
      /\ i' = [i EXCEPT ![p] = @ + 1]
    BY DEF Fetch, Fetching, NextJob
<1>3. k \in 1..size(p) /\ cmd[p] \in Seq(Cmd) /\ cmd[p][k] \in Cmd
    <2>1. cmd[p] \in Seq(Cmd) /\ i[p] \in Nat /\ last[p] \in Nat
        BY <1>1 DEF TypeOK
    <2>2. i[p] # 0 /\ i[p] <= last[p] /\ last[p] <= size(p)
        BY <1>1, <1>2 DEF LoopsInv, Fetching, Shell
    <2>3. k \in 1..size(p)
        BY <2>1, <2>2 DEF size
    <2> QED
        BY <1>1, <2>1, <2>3, JobHasPid
<1>4. /\ i' \in [Proc -> Nat] /\ i'[p] # 0 /\ \A r \in Proc \ {p} : i'[r] = i[r]
    <2>1. i \in [Proc -> Nat] /\ i[p] \in Nat /\ p \in Proc
        BY <1>1 DEF TypeOK
    <2> HIDE DEF k
    <2>0. i' = [i EXCEPT ![p] = i[p] + 1]
        BY <1>2
    <2>2. i' \in [Proc -> Nat] /\ i'[p] = i[p] + 1
        BY <2>0, <2>1
    <2>3. \A r \in Proc \ {p} : i'[r] = i[r]
        BY <2>0, <2>1
    <2> QED
        BY <2>1, <2>2, <2>3
<1>5. /\ at' \in [Proc -> State] /\ at'[p] \in {"wait", "update"}
      /\ \A r \in Proc \ {p} : at'[r] = at[r]
    BY <1>1, <1>2, OneMoves DEF State, Shell
<1>6. PICK n \in -1..1 :
         /\ cmd' = [cmd EXCEPT ![p] = [cmd[p] EXCEPT ![k] = [cmd[p][k] EXCEPT !.output_size = n]]]
         /\ pipe' \in [Pid -> 0..1]
    <2>1. CASE Job(p).pid = -1
        <3>1. PICK n \in {-1, 0} : cmd' = [cmd EXCEPT ![p][i[p]].output_size = n] /\ UNCHANGED pipe
            BY <2>1 DEF Fetch
        <3>2. n \in -1..1
            OBVIOUS
        <3> QED
            BY <1>1, <3>1, <3>2 DEF TypeOK
    <2>2. CASE Job(p).pid # -1
        <3>1. /\ cmd' = [cmd EXCEPT ![p][i[p]].output_size = pipe[Job(p).pid]]
              /\ pipe' = [pipe EXCEPT ![Job(p).pid] = 0]
            BY <2>2 DEF Fetch
        <3>2. Job(p).pid \in Pid
            BY <1>1, <1>3, <2>2, JobHasPid DEF Job
        <3>3. pipe[Job(p).pid] \in -1..1 /\ 0 \in 0..1
            BY <1>1, <3>2 DEF TypeOK
        <3>4. pipe' \in [Pid -> 0..1]
            BY <1>1, <3>1, <3>3 DEF TypeOK
        <3> QED
            BY <1>1, <3>1, <3>3, <3>4 DEF TypeOK
    <2> QED
        BY <2>1, <2>2
<1> DEFINE c == [cmd[p][k] EXCEPT !.output_size = n]
<1>7. c \in Cmd /\ c.pid = cmd[p][k].pid /\ c.finished = cmd[p][k].finished /\ c.status = cmd[p][k].status
    BY <1>3 DEF Cmd
<1>8. cmd' = [cmd EXCEPT ![p] = [cmd[p] EXCEPT ![k] = c]]
    BY <1>6
<1> HIDE DEF c, k
<1>9. /\ cmd' \in [Proc -> Seq(Cmd)] /\ \A r \in Proc : size(r)' = size(r)
      /\ \A r \in Proc \ {p} : cmd'[r] = cmd[r]
      /\ \A l \in 1..size(p) : l # k => cmd'[p][l] = cmd[p][l]
      /\ cmd'[p][k] = c
    <2> DEFINE s == [cmd[p] EXCEPT ![k] = c]
    <2>1. /\ s \in Seq(Cmd) /\ Len(s) = Len(cmd[p]) /\ s[k] = c
          /\ \A l \in 1..Len(cmd[p]) : l # k => s[l] = cmd[p][l]
        <3>1. cmd[p] \in Seq(Cmd) /\ k \in 1..Len(cmd[p]) /\ c \in Cmd
            BY <1>3, <1>7 DEF size
        <3> QED
            BY <3>1, JobChanges
    <2>2. cmd' = [cmd EXCEPT ![p] = s]
        BY <1>8
    <2> HIDE DEF s
    <2> QED
        BY <1>1, <2>1, <2>2 DEF TypeOK, size
<1>10. \A r \in Proc : \A l \in 1..size(r) :
         /\ cmd'[r][l].pid = cmd[r][l].pid /\ cmd'[r][l].finished = cmd[r][l].finished
         /\ cmd'[r][l].status = cmd[r][l].status
    BY <1>7, <1>9
<1>11. TypeOK'
    <2>1. \A r \in Proc : size(r)' <= MaxChild
        BY <1>1, <1>9 DEF TypeOK
    <2> QED
        BY <1>1, <1>2, <1>4, <1>5, <1>6, <1>9, <2>1 DEF TypeOK, State
<1>12. LoopsInv'
    <2>1. at'[p] \notin Fetching
        BY <1>5 DEF Fetching
    <2>2. \A r \in Proc \ {p} : Job(r)' = Job(r)
        BY <1>4, <1>9 DEF Job
    <2>3. last'[p] <= size(p)'
        BY <1>1, <1>2, <1>9 DEF LoopsInv, Shell, Fetching
    <2> QED
        BY <1>1, <1>2, <1>4, <1>5, <1>9, <2>1, <2>2, <2>3, OtherLoops
<1>13. \A r \in Proc : cmd'[r] # << >> <=> cmd[r] # << >>
    BY <1>1, <1>9 DEF TypeOK, size
<1>14. /\ at[p] \in Shell /\ at'[p] \in Shell /\ at[p] \notin Ended \cup {"unused", "start"}
       /\ at'[p] \notin Ended \cup {"unused", "start"}
    BY <1>2, <1>5 DEF Shell, Fetching, Ended
<1>15. LineageInv'
    BY <1>1, <1>2, <1>5, <1>13, <1>14, PidIsProc DEF LineageInv, TypeOK
<1>16. OwnStatus'
    <2> SUFFICES ASSUME NEW r \in Proc, NEW l \in 1..size(r)', cmd'[r][l].finished, cmd'[r][l].pid # -1
                 PROVE  at'[cmd'[r][l].pid] = "exited" /\ cmd'[r][l].status = code'[cmd'[r][l].pid]
        BY DEF OwnStatus
    <2>1. /\ l \in 1..size(r) /\ cmd'[r][l].pid = cmd[r][l].pid /\ cmd[r][l].finished
          /\ cmd'[r][l].status = cmd[r][l].status
        BY <1>9, <1>10
    <2>2. cmd[r][l].pid \in Proc
        BY <1>1, <2>1, JobHasPid
    <2>3. at[cmd[r][l].pid] = "exited" /\ cmd[r][l].status = code[cmd[r][l].pid]
        BY <1>1, <2>1 DEF OwnStatus
    <2> QED
        BY <1>2, <1>5, <1>14, <2>1, <2>2, <2>3 DEF Ended
<1>17. NothingLost'
    <2> SUFFICES ASSUME NEW r \in reaped, at'[r] = "exited",
                        \A l \in 1..size(parent[r])' : cmd'[parent'[r]][l].pid # -1
                 PROVE  \E l \in 1..size(parent[r])' :
                            /\ cmd'[parent'[r]][l].pid = r /\ cmd'[parent'[r]][l].finished
                            /\ cmd'[parent'[r]][l].status = code'[r]
        BY <1>2 DEF NothingLost
    <2>1. r \in Proc /\ parent[r] \in Proc /\ size(parent[r])' = size(parent[r]) /\ parent'[r] = parent[r]
        BY <1>1, <1>2, <1>9, PidIsProc DEF TypeOK
    <2>2. at[r] = "exited"
        BY <1>5, <1>14, <2>1 DEF Ended
    <2>3. \A l \in 1..size(parent[r]) : cmd[parent[r]][l].pid # -1
        BY <1>10, <2>1
    <2>4. PICK l \in 1..size(parent[r]) :
              /\ cmd[parent[r]][l].pid = r /\ cmd[parent[r]][l].finished
              /\ cmd[parent[r]][l].status = code[r]
        BY <1>1, <2>2, <2>3 DEF NothingLost
    <2> QED
        BY <1>2, <1>10, <2>1, <2>4
<1>18. Nested' = Nested
    BY <1>2, <1>5, <1>13, <1>14, PidIsProc DEF Nested
<1>19. WriteEndsInv'
    BY <1>1, <1>2, <1>5, <1>14, <1>18, PidIsProc DEF WriteEndsInv, TypeOK
<1> QED
    BY <1>11, <1>12, <1>15, <1>16, <1>17, <1>19 DEF IInv

\* A child runs its program, or goes on as a shell: it has no children yet.
LEMMA ExecInv == ASSUME IInv, NEW p \in Pid, Exec(p) \/ ExecFails(p) PROVE IInv'
<1> USE DEF kernel, io
<1>1. TypeOK /\ LoopsInv /\ LineageInv /\ OwnStatus /\ NothingLost /\ WriteEndsInv /\ p \in Proc
    BY PidIsProc DEF IInv
<1>2. /\ at[p] = "start" /\ lol
      /\ UNCHANGED <<lol, parent, news, code, reaped, writers, pipe, printed>>
      /\ toPipe' = [toPipe EXCEPT ![p] = {"fp"}]
    BY DEF Exec, ExecFails
<1>3. toPipe' \in [Pid -> SUBSET {"stdout", "fp"}]
    BY <1>1, <1>2 DEF TypeOK
<1>4. at[p] \notin Ended \cup {"unused", "exited"}
    BY <1>2 DEF Ended
<1>5. \A r \in reaped : r \in Pid /\ r \in Proc /\ r # p /\ parent[r] # p /\ at[r] \in Ended /\ at[r] # "unused"
    BY <1>1, <1>2, PidIsProc DEF LineageInv, TypeOK, Ended
<1>6. CASE Exec(p)
    <2>1. /\ at' \in [Proc -> State] /\ at'[p] = "running" /\ \A r \in Proc \ {p} : at'[r] = at[r]
        BY <1>1, <1>6, OneMoves DEF Exec, State, Program
    <2>2. /\ cmd' \in [Proc -> Seq(Cmd)] /\ cmd'[p] = << >> /\ \A r \in Proc \ {p} : cmd'[r] = cmd[r]
          /\ UNCHANGED <<i, last>>
        BY <1>1, <1>6 DEF Exec, TypeOK
    <2>3. size(p)' = 0 /\ \A r \in Proc \ {p} : size(r)' = size(r)
        BY <2>2 DEF size
    <2>4. TypeOK'
        <3>1. \A r \in Proc : size(r)' <= MaxChild
            <4>1. \A r \in Proc : size(r) <= MaxChild
                BY <1>1 DEF TypeOK
            <4>2. 0 <= MaxChild
                BY CommandoAssumption
            <4>3. ASSUME NEW r \in Proc PROVE size(r)' <= MaxChild
                BY <2>3, <4>1, <4>2
            <4> QED
                BY <4>3
        <3> QED
            BY <1>1, <1>2, <1>3, <2>1, <2>2, <3>1 DEF TypeOK, State
    <2>5. LoopsInv'
        <3>1. at'[p] \notin Fetching \cup Shell
            BY <2>1 DEF Fetching, Shell
        <3>2. \A r \in Proc \ {p} : Job(r)' = Job(r)
            BY <2>2 DEF Job
        <3>3. i'[p] # 0
            BY <1>1, <2>2 DEF LoopsInv
        <3> QED
            BY <1>1, <2>1, <2>2, <2>3, <3>1, <3>2, <3>3, OtherLoops
    <2>6. LineageInv'
        BY <1>1, <1>2, <1>5, <2>1, <2>2, PidIsProc DEF LineageInv, TypeOK, Shell
    <2>7. OwnStatus'
        <3> SUFFICES ASSUME NEW r \in Proc, NEW l \in 1..size(r)', cmd'[r][l].finished, cmd'[r][l].pid # -1
                     PROVE  at'[cmd'[r][l].pid] = "exited" /\ cmd'[r][l].status = code'[cmd'[r][l].pid]
            BY DEF OwnStatus
        <3>1. r # p /\ l \in 1..size(r) /\ cmd'[r][l] = cmd[r][l]
            BY <2>2, <2>3
        <3>2. cmd[r][l].pid \in Proc
            BY <1>1, <3>1, JobHasPid
        <3>3. at[cmd[r][l].pid] = "exited" /\ cmd[r][l].status = code[cmd[r][l].pid]
            BY <1>1, <3>1 DEF OwnStatus
        <3> QED
            BY <1>2, <1>4, <2>1, <3>1, <3>2, <3>3
    <2>8. NothingLost'
        <3> SUFFICES ASSUME NEW r \in reaped, at'[r] = "exited",
                            \A l \in 1..size(parent[r])' : cmd'[parent'[r]][l].pid # -1
                     PROVE  \E l \in 1..size(parent[r])' :
                                /\ cmd'[parent'[r]][l].pid = r /\ cmd'[parent'[r]][l].finished
                                /\ cmd'[parent'[r]][l].status = code'[r]
            BY <1>2 DEF NothingLost
        <3>1. /\ parent[r] \in Proc \ {p} /\ parent'[r] = parent[r]
              /\ cmd'[parent[r]] = cmd[parent[r]] /\ size(parent[r])' = size(parent[r])
            BY <1>1, <1>2, <1>5, <2>2, <2>3 DEF TypeOK
        <3>2. at[r] = "exited"
            BY <1>5, <2>1
        <3> QED
            BY <1>1, <1>2, <3>1, <3>2 DEF NothingLost
    <2>9. Nested \subseteq Nested'
        BY <1>2, <2>1, <2>2, PidIsProc DEF Nested
    <2>10. WriteEndsInv'
        BY <1>1, <1>2, <2>1, <2>9, PidIsProc DEF WriteEndsInv, TypeOK, Ended
    <2> QED
        BY <2>4, <2>5, <2>6, <2>7, <2>8, <2>10 DEF IInv
<1>7. CASE ExecFails(p)
    <2>1. /\ at' \in [Proc -> State] /\ at'[p] = "update" /\ \A r \in Proc \ {p} : at'[r] = at[r]
        BY <1>1, <1>7, OneMoves DEF ExecFails, Loop, State, Shell
    <2>2. size(p) \in Nat /\ UNCHANGED cmd
        <3>1. cmd[p] \in Seq(Cmd)
            BY <1>1 DEF TypeOK
        <3> QED
            BY <1>7, <3>1 DEF ExecFails, size
    <2>3. /\ i' \in [Proc -> Nat] /\ last' \in [Proc -> Nat] /\ i'[p] = 1 /\ last'[p] = size(p)
          /\ \A r \in Proc \ {p} : i'[r] = i[r] /\ last'[r] = last[r]
        BY <1>1, <1>7, <2>2 DEF ExecFails, Loop, TypeOK
    <2>4. TypeOK'
        BY <1>1, <1>2, <1>3, <2>1, <2>2, <2>3 DEF TypeOK, State, size
    <2>5. LoopsInv'
        <3>1. at'[p] \notin Fetching
            BY <2>1 DEF Fetching
        <3>2. \A r \in Proc \ {p} : Job(r)' = Job(r) /\ size(r)' = size(r)
            BY <2>2, <2>3 DEF Job, size
        <3>3. i'[p] # 0 /\ last'[p] <= size(p)'
            BY <2>2, <2>3 DEF size
        <3> QED
            BY <1>1, <2>1, <2>3, <3>1, <3>2, <3>3, OtherLoops
    <2>6. LineageInv'
        BY <1>1, <1>2, <1>5, <2>1, <2>2, PidIsProc DEF LineageInv, TypeOK, Shell
    <2>7. OwnStatus' /\ NothingLost'
        BY <1>2, <1>4, <2>1, <2>2, StatusKept
    <2>8. Nested \subseteq Nested'
        BY <1>2, <2>1, <2>2, PidIsProc DEF Nested
    <2>9. WriteEndsInv'
        BY <1>1, <1>2, <2>1, <2>8, PidIsProc DEF WriteEndsInv, TypeOK, Ended
    <2> QED
        BY <2>4, <2>5, <2>6, <2>7, <2>9 DEF IInv
<1> QED
    BY <1>6, <1>7

LEMMA NextInv == IInv /\ [Next]_vars => IInv'
<1> SUFFICES ASSUME IInv, [Next]_vars PROVE IInv'
    OBVIOUS
<1>1. CASE UNCHANGED vars
    <2>1. UNCHANGED <<lol, at, cmd, i, last, parent, news, code, reaped, writers, toPipe, pipe, printed>>
        BY <1>1 DEF vars, kernel, io
    <2>2. TypeOK' /\ LoopsInv' /\ LineageInv'
        BY <2>1 DEF IInv, TypeOK, size, LoopsInv, Fetching, Job, LineageInv
    <2>3. OwnStatus' /\ NothingLost'
        BY <2>1, StatusKept
    <2>4. WriteEndsInv'
        BY <2>1 DEF IInv, WriteEndsInv, Nested
    <2> QED
        BY <2>2, <2>3, <2>4 DEF IInv
<1>2. ASSUME NEW p \in Proc, UserStep(p) PROVE IInv'
    BY <1>2, LoopStep, EndStep, StartInv, StartFailsInv DEF UserStep
<1>3. ASSUME NEW p \in Proc, ShellStep(p) PROVE IInv'
    BY <1>3, LoopStep, ReportInv, FetchInv DEF ShellStep
<1>4. ASSUME NEW p \in Pid, ChildStep(p) PROVE IInv'
    BY <1>4, EndStep, ExecInv, PidIsProc DEF ChildStep
<1>5. ASSUME NEW p \in Pid, ProgramStep(p) PROVE IInv'
    BY <1>5, EndStep, ProgramRuns, PidIsProc DEF ProgramStep
<1> QED
    BY <1>1, <1>2, <1>3, <1>4, <1>5 DEF Next

LEMMA Invariant == Spec => []IInv
BY InitInv, NextInv, PTL DEF Spec

-----------------------------------------------------------------------------
(* Theorems *)

\* The array of jobs never holds more than MAX_CHILD, in no shell.
THEOREM TypeCorrect == Spec => []TypeOK
<1>1. IInv => TypeOK
    BY DEF IInv
<1> QED
    BY <1>1, Invariant, PTL

\* Whichever children end between any two calls of waitpid, and however deep the
\* shells nest: a finished job's status is that of its own process.
THEOREM StatusIsOwn == Spec => []OwnStatus
<1>1. IInv => OwnStatus
    BY DEF IInv
<1> QED
    BY <1>1, Invariant, PTL

\* Every exit status that waitpid has handed to a shell is shown by the job whose
\* process it was, unless the shell has a job without a pid.
THEOREM StatusIsKept == Spec => []NothingLost
<1>1. IInv => NothingLost
    BY DEF IInv
<1> QED
    BY <1>1, Invariant, PTL

\* Nobody but the program itself holds the write end of its pipe, and it has ended
\* when its output is read: the read returns at once.
THEOREM FetchReturns == Spec => []FetchNeverBlocks
<1>1. IInv => FetchNeverBlocks
    <2> SUFFICES ASSUME IInv, NEW p \in Proc, at[p] \in Fetching, Job(p).pid # -1, Nested = {}
                 PROVE  writers[Job(p).pid] = {}
        BY DEF FetchNeverBlocks, Fetching
    <2>1. i[p] \in 1..size(p)
        <3>1. cmd[p] \in Seq(Cmd) /\ i[p] \in Nat /\ last[p] \in Nat
            BY DEF IInv, TypeOK
        <3>2. i[p] # 0 /\ i[p] <= last[p] /\ last[p] <= size(p)
            BY DEF IInv, LoopsInv, Fetching, Shell
        <3> QED
            BY <3>1, <3>2 DEF size
    <2>2. Job(p).pid \in Pid
        BY <2>1, JobHasPid DEF IInv, Job
    <2>3. at[Job(p).pid] = "exited"
        BY <2>1 DEF IInv, LoopsInv, OwnStatus, Job
    <2>4. Job(p).pid \notin writers[Job(p).pid] /\ writers[Job(p).pid] \subseteq {Job(p).pid}
        BY <2>2, <2>3 DEF IInv, WriteEndsInv, Ended
    <2> QED
        BY <2>4
<1> QED
    BY <1>1, Invariant, PTL

=============================================================================
