------------------------------ MODULE Commando ------------------------------
(***************************************************************************)
(* The commando shell (p1-code): it reads commands, runs programs as jobs  *)
(* and collects their exit statuses with waitpid.                          *)
(*                                                                         *)
(* Processes are numbered in the order of fork; 0 is the shell that the    *)
(* user starts.  A child whose execvp fails returns from cmd_start into    *)
(* main's loop and is a shell as well, with a copy of the array of jobs.   *)
(* Every waitpid and every blocking read is a step of its own, so that     *)
(* children end, stop and continue between any two of them.                *)
(*                                                                         *)
(* Bounds: MaxPid processes are forked, and a program prints once.  Left   *)
(* out: numbers other than the job numbers and the first one past them     *)
(* after output-for and wait-for; programs that fork; signals to a shell;  *)
(* a failing pipe; reuse of a process number.                              *)
(***************************************************************************)
EXTENDS Integers, Sequences, FiniteSets

CONSTANTS MaxPid,        \* the number of processes that can be forked
          MaxChild       \* MAX_CHILD, the size of commands.cmd[]

ASSUME CommandoAssumption == MaxPid \in Nat /\ MaxChild \in Nat \ {0}

VARIABLES
    lol,       \* whether the working directory has a file named "lol"
    at,        \* what each process is doing
    cmd,       \* cmd[p]: the array of jobs in p's memory
    i,         \* i[p]: the job that p's loop has come to
    last,      \* last[p]: the last one of the loop
    parent,    \* parent[q]: the process that forked q
    news,      \* news[q]: a stop or continuation of q that waitpid has not reported
    code,      \* code[q]: the exit status of q
    reaped,    \* the processes whose end waitpid has reported
    writers,   \* writers[q]: the processes holding the write end of q's pipe
    toPipe,    \* toPipe[q]: q's streams that lead into its pipe
    pipe,      \* pipe[q]: what is in q's pipe
    printed    \* printed[q]: what q wrote on its standard output

kernel == <<parent, news, code, reaped>>
io     == <<writers, toPipe, pipe, printed>>
vars   == <<lol, at, cmd, i, last, kernel, io>>

Proc == 0..MaxPid
Pid  == 1..MaxPid

Shell   == {"prompt", "wait", "update", "fetch wait", "fetch update"}
Program == {"running", "stopped"}
Ended   == {"exited", "killed"}

NewCmd == [pid |-> -1, finished |-> FALSE, status |-> -1, output_size |-> -1]
Cmd    == [pid : Pid \cup {-1}, finished : BOOLEAN, status : -1..1, output_size : -1..1]
size(p) == Len(cmd[p])

TypeOK ==
    /\ lol \in BOOLEAN
    /\ at \in [Proc -> Shell \cup Program \cup Ended \cup {"unused", "start", "overrun"}]
    /\ cmd \in [Proc -> Seq(Cmd)]
    /\ \A p \in Proc : size(p) <= MaxChild
    /\ i \in [Proc -> Nat] /\ last \in [Proc -> Nat]
    /\ parent \in [Pid -> Proc]
    /\ news \in [Pid -> {"none", "stopped", "continued"}]
    /\ code \in [Proc -> -1..1]
    /\ reaped \subseteq Pid
    /\ writers \in [Pid -> SUBSET Proc]
    /\ toPipe \in [Pid -> SUBSET {"stdout", "fp"}]
    /\ pipe \in [Pid -> 0..1] /\ printed \in [Pid -> 0..1]

Init ==
    /\ lol \in BOOLEAN
    /\ at = [p \in Proc |-> IF p = 0 THEN "prompt" ELSE "unused"]
    /\ cmd = [p \in Proc |-> << >>]
    /\ i = [p \in Proc |-> 1]
    /\ last = [p \in Proc |-> 0]
    /\ parent = [q \in Pid |-> 0]
    /\ news = [q \in Pid |-> "none"]
    /\ code = [p \in Proc |-> -1]
    /\ reaped = {}
    /\ writers = [q \in Pid |-> {}]
    /\ toPipe = [q \in Pid |-> {}]
    /\ pipe = [q \in Pid |-> 0]
    /\ printed = [q \in Pid |-> 0]

-----------------------------------------------------------------------------
(* The command line: main's loop up to cmdctl_update_state *)

\* Process p starts a loop over the jobs f..l.
Loop(p, doing, f, l) ==
    /\ at' = [at EXCEPT ![p] = doing]
    /\ i' = [i EXCEPT ![p] = f]
    /\ last' = [last EXCEPT ![p] = l]

\* help, list, pause, output-for and output-all of jobs that exist, and words
\* that are missing: nothing changes before the update.
Builtin(p) ==
    /\ at[p] = "prompt"
    /\ Loop(p, "update", 1, size(p))
    /\ UNCHANGED <<lol, cmd, kernel, io>>

\* output-for and wait-for let the number commands.size pass, one past the last
\* job: the array still holds a null pointer there or, when it is full, the
\* field size follows, which is no address either.
PastLast(p) ==
    /\ at[p] = "prompt"
    /\ at' = [at EXCEPT ![p] = "killed"]
    /\ writers' = [q \in Pid |-> writers[q] \ {p}]
    /\ UNCHANGED <<lol, cmd, i, last, kernel, toPipe, pipe, printed>>

WaitFor(p) ==
    /\ at[p] = "prompt"
    /\ \E k \in 1..size(p) : Loop(p, "wait", k, k)
    /\ UNCHANGED <<lol, cmd, kernel, io>>

WaitAll(p) ==
    /\ at[p] = "prompt"
    /\ Loop(p, "wait", 1, size(p))
    /\ UNCHANGED <<lol, cmd, kernel, io>>

\* exit, or end of input.  The jobs that run are left to themselves.
ExitShell(p) ==
    /\ at[p] = "prompt"
    /\ at' = [at EXCEPT ![p] = "exited"]
    /\ code' = [code EXCEPT ![p] = 0]
    /\ writers' = [q \in Pid |-> writers[q] \ {p}]
    /\ UNCHANGED <<lol, cmd, i, last, parent, news, reaped, toPipe, pipe, printed>>

\* cmdctl_add does not look at MAX_CHILD: one job too many is written over size.
AddOverrun(p) ==
    /\ at[p] = "prompt"
    /\ size(p) = MaxChild
    /\ at' = [at EXCEPT ![p] = "overrun"]
    /\ UNCHANGED <<lol, cmd, i, last, kernel, io>>

Forked(q) == at[q] = "unused" /\ \A r \in Pid : r < q => at[r] # "unused"

\* Faulty: the parent keeps the write end of the pipe.
StartKeepsWriteEnd(p) ==
    /\ at[p] = "prompt"
    /\ size(p) < MaxChild
    /\ \E q \in Pid :
        /\ Forked(q)
        /\ cmd' = [cmd EXCEPT ![p] = Append(@, [NewCmd EXCEPT !.pid = q]),
                              ![q] = Append(cmd[p], NewCmd)]
        /\ at' = [at EXCEPT ![p] = "update", ![q] = "start"]
        /\ i' = [i EXCEPT ![p] = 1]
        /\ last' = [last EXCEPT ![p] = size(p) + 1]
        /\ parent' = [parent EXCEPT ![q] = p]
        /\ writers' = [r \in Pid |-> IF r = q THEN {p, q}
                                     ELSE IF p \in writers[r] THEN writers[r] \cup {q}
                                     ELSE writers[r]]
    /\ UNCHANGED <<lol, news, code, reaped, toPipe, pipe, printed>>

\* A word that begins with no built-in's name: cmd_new, cmdctl_add and the
\* parent's part of cmd_start.  The child inherits every write end the parent
\* holds, and the array of jobs with its own pid still -1.
Start(p) ==
    /\ at[p] = "prompt"
    /\ size(p) < MaxChild
    /\ \E q \in Pid :
        /\ Forked(q)
        /\ cmd' = [cmd EXCEPT ![p] = Append(@, [NewCmd EXCEPT !.pid = q]),
                              ![q] = Append(cmd[p], NewCmd)]
        /\ at' = [at EXCEPT ![p] = "update", ![q] = "start"]
        /\ i' = [i EXCEPT ![p] = 1]
        /\ last' = [last EXCEPT ![p] = size(p) + 1]
        /\ parent' = [parent EXCEPT ![q] = p]
        /\ writers' = [r \in Pid |-> IF r = q THEN {q}
                                     ELSE IF p \in writers[r] THEN writers[r] \cup {q}
                                     ELSE writers[r]]
    /\ UNCHANGED <<lol, news, code, reaped, toPipe, pipe, printed>>

\* fork fails and returns -1, which the else branch takes for a pid.
StartFails(p) ==
    /\ at[p] = "prompt"
    /\ size(p) < MaxChild
    /\ cmd' = [cmd EXCEPT ![p] = Append(@, NewCmd)]
    /\ Loop(p, "update", 1, size(p) + 1)
    /\ UNCHANGED <<lol, kernel, io>>

-----------------------------------------------------------------------------
(* Collecting the children: cmd_update_state in a loop over jobs *)

Job(p) == cmd[p][i[p]]

\* The children that waitpid(pid, ...) can report on: -1 stands for all.
Children(p, pid) ==
    {q \in Pid : at[q] # "unused" /\ parent[q] = p /\ q \notin reaped /\ (pid = -1 \/ q = pid)}
HasEnded(q) == at[q] \in Ended
HasNews(q)  == HasEnded(q) \/ news[q] # "none"

Polling(p) == at[p] \in {"wait", "update"} /\ i[p] <= last[p]
NextJob(p) == i' = [i EXCEPT ![p] = @ + 1]

\* Faulty: a failed waitpid is taken for an interrupted one and tried again.
NothingNewRetries(p) ==
    /\ Polling(p)
    /\ \/ Job(p).finished
       \/ at[p] = "update" /\ \A q \in Children(p, Job(p).pid) : ~HasNews(q)
    /\ NextJob(p)
    /\ UNCHANGED <<lol, at, cmd, last, kernel, io>>

\* The job is finished, waitpid fails for want of a child, or, unless it
\* blocks, has nothing to report.
NothingNew(p) ==
    /\ Polling(p)
    /\ \/ Job(p).finished
       \/ Children(p, Job(p).pid) = {}
       \/ at[p] = "update" /\ \A q \in Children(p, Job(p).pid) : ~HasNews(q)
    /\ NextJob(p)
    /\ UNCHANGED <<lol, at, cmd, last, kernel, io>>

\* Faulty: waitpid is asked for any child.
ReportExitOfAny(p) ==
    /\ Polling(p)
    /\ ~Job(p).finished
    /\ \E q \in Children(p, -1) :
        /\ at[q] = "exited"
        /\ reaped' = reaped \cup {q}
        /\ cmd' = [cmd EXCEPT ![p][i[p]] = [@ EXCEPT !.finished = TRUE, !.status = code[q]]]
    /\ at' = [at EXCEPT ![p] = IF @ = "wait" THEN "fetch wait" ELSE "fetch update"]
    /\ UNCHANGED <<lol, i, last, parent, news, code, io>>

\* The child has exited: the job is finished, and its output is to be read.
ReportExit(p) ==
    /\ Polling(p)
    /\ ~Job(p).finished
    /\ \E q \in Children(p, Job(p).pid) :
        /\ at[q] = "exited"
        /\ reaped' = reaped \cup {q}
        /\ cmd' = [cmd EXCEPT ![p][i[p]] = [@ EXCEPT !.finished = TRUE, !.status = code[q]]]
    /\ at' = [at EXCEPT ![p] = IF @ = "wait" THEN "fetch wait" ELSE "fetch update"]
    /\ UNCHANGED <<lol, i, last, parent, news, code, io>>

\* Faulty: only an exit status of 0 is taken for the end of a job.
ReportOtherFailed(p) ==
    /\ Polling(p)
    /\ ~Job(p).finished
    /\ \E q \in Children(p, Job(p).pid) :
        \/ /\ at[q] = "killed" \/ (at[q] = "exited" /\ code[q] # 0)
           /\ reaped' = reaped \cup {q}
           /\ UNCHANGED news
        \/ /\ ~HasEnded(q) /\ news[q] # "none"
           /\ news' = [news EXCEPT ![q] = "none"]
           /\ UNCHANGED reaped
    /\ NextJob(p)
    /\ UNCHANGED <<lol, at, cmd, last, parent, code, io>>

\* The child was killed, stopped or continued: not WIFEXITED, and the report
\* is forgotten.
ReportOther(p) ==
    /\ Polling(p)
    /\ ~Job(p).finished
    /\ \E q \in Children(p, Job(p).pid) :
        \/ /\ at[q] = "killed"
           /\ reaped' = reaped \cup {q}
           /\ UNCHANGED news
        \/ /\ ~HasEnded(q) /\ news[q] # "none"
           /\ news' = [news EXCEPT ![q] = "none"]
           /\ UNCHANGED reaped
    /\ NextJob(p)
    /\ UNCHANGED <<lol, at, cmd, last, parent, code, io>>

\* cmd_fetch_output.  The read end of a job with pid -1 in a child is not one:
\* the child closed it and fopen and dup2 put a write end there, so that read
\* fails and its -1 is taken for a size.  In a parent whose fork failed the
\* pipe is empty.  Otherwise the read blocks while the pipe is empty and
\* somebody may still write to it.
Fetch(p) ==
    /\ at[p] \in {"fetch wait", "fetch update"}
    /\ LET pid == Job(p).pid IN
        \/ /\ pid = -1
           /\ \E s \in (IF p = 0 THEN {0} ELSE {-1, 0}) :
                 cmd' = [cmd EXCEPT ![p][i[p]].output_size = s]
           /\ UNCHANGED pipe
        \/ /\ pid # -1
           /\ pipe[pid] > 0 \/ writers[pid] = {}
           /\ cmd' = [cmd EXCEPT ![p][i[p]].output_size = pipe[pid]]
           /\ pipe' = [pipe EXCEPT ![pid] = 0]
    /\ at' = [at EXCEPT ![p] = IF @ = "fetch wait" THEN "wait" ELSE "update"]
    /\ NextJob(p)
    /\ UNCHANGED <<lol, last, kernel, writers, toPipe, printed>>

\* A handler's loop is over, and main calls cmdctl_update_state.
WaitEnds(p) ==
    /\ at[p] = "wait" /\ i[p] > last[p]
    /\ Loop(p, "update", 1, size(p))
    /\ UNCHANGED <<lol, cmd, kernel, io>>

UpdateEnds(p) ==
    /\ at[p] = "update" /\ i[p] > last[p]
    /\ Loop(p, "prompt", 1, 0)
    /\ UNCHANGED <<lol, cmd, kernel, io>>

-----------------------------------------------------------------------------
(* The child's part of cmd_start, and the programs *)

Dies(q, how) ==
    /\ at' = [at EXCEPT ![q] = how]
    /\ writers' = [r \in Pid |-> writers[r] \ {q}]
    /\ UNCHANGED <<lol, cmd, i, last, parent, reaped, toPipe, pipe, printed>>

\* fopen("lol") fails and fileno(NULL) is the end of the child.
NoLol(q) == at[q] = "start" /\ ~lol /\ Dies(q, "killed") /\ UNCHANGED <<news, code>>

\* dup2 makes the stream fp, not standard output, lead into the pipe.  A
\* program takes the place of the shell's memory.
Exec(q) ==
    /\ at[q] = "start" /\ lol
    /\ toPipe' = [toPipe EXCEPT ![q] = {"fp"}]
    /\ at' = [at EXCEPT ![q] = "running"]
    /\ cmd' = [cmd EXCEPT ![q] = << >>]
    /\ UNCHANGED <<lol, i, last, kernel, writers, pipe, printed>>

\* execvp fails and returns: the child goes on in main's loop.
ExecFails(q) ==
    /\ at[q] = "start" /\ lol
    /\ toPipe' = [toPipe EXCEPT ![q] = {"fp"}]
    /\ Loop(q, "update", 1, size(q))
    /\ UNCHANGED <<lol, cmd, kernel, writers, pipe, printed>>

PrintOutput(q) ==
    /\ at[q] = "running" /\ printed[q] = 0
    /\ printed' = [printed EXCEPT ![q] = 1]
    /\ pipe' = [pipe EXCEPT ![q] = IF "stdout" \in toPipe[q] THEN 1 ELSE @]
    /\ UNCHANGED <<lol, at, cmd, i, last, kernel, writers, toPipe>>

ExitProgram(q) ==
    /\ at[q] = "running"
    /\ \E c \in {0, 1} : code' = [code EXCEPT ![q] = c]
    /\ Dies(q, "exited")
    /\ UNCHANGED news

KillProgram(q) == at[q] \in Program /\ Dies(q, "killed") /\ UNCHANGED <<news, code>>

StopProgram(q) ==
    /\ at[q] = "running"
    /\ at' = [at EXCEPT ![q] = "stopped"]
    /\ news' = [news EXCEPT ![q] = "stopped"]
    /\ UNCHANGED <<lol, cmd, i, last, parent, code, reaped, io>>

ContinueProgram(q) ==
    /\ at[q] = "stopped"
    /\ at' = [at EXCEPT ![q] = "running"]
    /\ news' = [news EXCEPT ![q] = "continued"]
    /\ UNCHANGED <<lol, cmd, i, last, parent, code, reaped, io>>

-----------------------------------------------------------------------------

UserStep(p) ==
    \/ Builtin(p) \/ PastLast(p) \/ WaitFor(p) \/ WaitAll(p) \/ ExitShell(p)
    \/ AddOverrun(p) \/ Start(p) \/ StartFails(p)

ShellStep(p) ==
    \/ NothingNew(p) \/ ReportExit(p) \/ ReportOther(p) \/ Fetch(p)
    \/ WaitEnds(p) \/ UpdateEnds(p)

ChildStep(q) == NoLol(q) \/ Exec(q) \/ ExecFails(q)

ProgramStep(q) ==
    \/ PrintOutput(q) \/ ExitProgram(q) \/ KillProgram(q) \/ StopProgram(q) \/ ContinueProgram(q)

Next ==
    \/ \E p \in Proc : UserStep(p) \/ ShellStep(p)
    \/ \E q \in Pid : ChildStep(q) \/ ProgramStep(q)

Spec == Init /\ [][Next]_vars

\* The kernel runs a shell that can run.
FairSpec == Spec /\ \A p \in Proc : WF_vars(ShellStep(p))

-----------------------------------------------------------------------------
(* Properties *)

\* Children that went on as shells because their execvp failed.
Nested == {q \in Pid : at[q] \notin {"unused", "start"} /\ cmd[q] # << >> /\ lol}

\* A job that a shell shows as finished shows the exit status of its own
\* process, in nested shells too, whichever children ended in the meantime.
OwnStatus ==
    \A p \in Proc : \A k \in 1..size(p) : LET c == cmd[p][k] IN
        c.finished /\ c.pid # -1 => at[c.pid] = "exited" /\ c.status = code[c.pid]

\* An exit status that waitpid has handed out is not lost: the job whose
\* process it was shows it, unless a job without a pid waited for any child.
NothingLost ==
    \A q \in reaped : LET p == parent[q] IN
        at[q] = "exited" /\ (\A k \in 1..size(p) : cmd[p][k].pid # -1) =>
            \E k \in 1..size(p) : cmd[p][k].pid = q /\ cmd[p][k].finished /\ cmd[p][k].status = code[q]

\* The read of a finished job's output never leaves the shell blocked, as long
\* as every program could be executed: nobody else holds the write end.
FetchNeverBlocks ==
    \A p \in Proc :
        at[p] \in {"fetch wait", "fetch update"} /\ Job(p).pid # -1 /\ Nested = {} =>
            pipe[Job(p).pid] > 0 \/ writers[Job(p).pid] = {}

\* A shell that waits comes back when all its children have ended, in
\* whatever way: none is waited for in vain, or twice.
WaitComesBack ==
    \A p \in Proc :
        /\ at[p] = "wait"
        /\ Nested = {}
        /\ \A q \in Children(p, -1) : HasEnded(q)
        ~> at[p] = "prompt"

=============================================================================
