# Verification of the CSCI4061 programs

The repository holds the projects, labs and lecture code of a course on systems programming in C
under Unix. Most of it is small programs; what they have in common is what makes them hard:
processes, threads, signals, pipes and FIFOs that interleave. This directory holds TLA+ models of
the programs in which that matters, the instances on which TLC checks them, and proofs that TLAPS
checks. `PROJECT.json` maps every definition to the lines it models, and lists the hazards of the
code with the properties that would catch them going wrong.

    tlc -workers 2 -config chat_safety.cfg MCBlather      # model-check one run
    tlapm BlatherProofs.tla                               # check the proofs of one module

Contents: 1 the system, 2 the modules, 3 the runs, 4 fairness, 5 the proofs, 6 what was found,
7 what is not modelled, 8 the plan.

## 1. The system: an inventory

### Blather, the chat (p2-code) - the largest program of the repository

`bl-server` (bl-server.c, server.c) is one process with one thread. Its state is `server_t`: the
array of clients with `n_clients`, the flags `join_ready` and, per client, `data_ready`. Its loop is
select (`server_check_sources`), at most one join (`server_handle_join`, `server_add_client`), then
one record of each flagged client (`server_handle_client`, `server_broadcast`). The handlers of
SIGINT and SIGTERM run `server_shutdown` in the middle of whatever main is doing, and exit. Removal
(`server_remove_client`) shifts the array.

`bl-client` (bl-client.c, simpio.c) makes two FIFOs, writes a `join_t` to `<server>.fifo`, writes
JOINED, and then has two threads: one reads keys through simpio and writes lines, one reads records
and shows them. Each cancels the other when it ends; main joins both and writes DEPARTED. The
threads share simpio's line buffer and the terminal without a lock.

Server and clients interact by FIFOs only: one for joins, and two per client. All are opened
`O_RDWR`, so that there is no end of file and no EPIPE, and a full FIFO blocks its writer.

*Hard:* flags that outlive the select that set them; a broadcast that blocks on one client and so
holds up all; signals between any two instructions; clients killed at any point; an array that
shifts; cancelled threads in the middle of a line. *Correct when:* every read finds data; every
member sees one conversation, complete and in order; a shutdown reaches every member and ends
everybody; the array never overflows; a line that is sent is the line that was typed; DEPARTED is
last.

### Commando, the shell (p1-code)

commando.c, cmd.c, cmdctl.c and util.c. State: the array of jobs (`cmdctl_t`), each with its pid,
its pipe, its status and its output (`cmd_t`). Operations: the built-ins `help`, `exit`, `list`,
`pause`, `output-for`, `output-all`, `wait-for`, `wait-all`; starting a job (pipe, fork, dup2,
execvp); and after every command an update of all jobs with waitpid and, for those that have ended,
the read of their output. It interacts with its children through fork, waitpid, signals and pipes.

*Hard:* children end, stop and continue between any two waitpid calls; a failed fork leaves -1 in
the pid field, which means "any child" to waitpid; a failed execvp returns into the shell's own
loop, in the child; a read to the end of a pipe blocks while anybody holds its write end. *Correct
when:* a job shows the status of its own process; no status is lost; reading output never blocks the
shell; waiting comes to an end.

### The email lookup service (lab08, lab09)

em_server and em_client over three FIFOs shared by all clients, where SIGCONT tells a client that
its answer is there and a completion tells the server that it was read; and em_server_mq and
em_client_mq over two System V message queues. *Hard:* a signal that comes before its receiver
sleeps, or from somebody else (`fg`); a client that starts before the FIFOs exist; a server that is
told to stop while in msgrcv. *Correct when:* a client gets the address it has asked for; the shared
FIFO is one client's at a time; everybody is served; the server stops when told to.

### Dining philosophers (lab10, notes/10-ipc-code)

Four programs with processes and System V semaphores, or threads and mutexes; one has a barrier at
the start. *Hard:* deadlock, removal of the semaphores while they are in use, the barrier. *Correct
when:* neighbours do not eat together, somebody can always go on, all finish.

### Thread programs (lab10, lab11, notes/11-threads-code)

`odds_evens_*`: even and odd threads that take turns incrementing a counter, by busy waiting or with
one or two condition variables. condvar.c and pthreads_producer_consumer.c: a thread waits for the
count to reach a limit. `pthreads_picalc_*`: threads that add up hits, without a mutex (broken), with
one, or with a sum per thread. *Hard:* a look at the count ahead of the lock, `count++` as a load and
a store, lost and spurious wake-ups. *Correct when:* turns are respected, no increment is lost, no
thread sleeps for ever.

### Parents and children (lab03, lab04, lab06, lab07, notes/04-making-processes-code)

Programs that fork one or two children, exec a program in them, wait for them, signal them or read
what they write to a pipe; read_AB and select_AB do so with two children until a signal tells them
to stop. *Hard:* a signal ahead of the exec or of the child's own handler; an exec that fails and
leaves a copy of the parent; pipes that a second child inherits; select interrupted by a signal.
*Correct when:* a parent that waits reaps and has the status; children are told to end; the parent
ends.

### Semaphores and queues (notes/10-ipc-code)

semdemo.c: any number of processes that make, set up, take and give back one System V semaphore,
with SEM_UNDO. kirk.c and spock.c: processes that talk over one message queue, of which everybody
takes what comes first. State: the kernel's set (value, sem_otime, undo) and queue, which outlive
all processes. *Hard:* who comes first sets up what the others use; processes are killed with the
lock in hand or ahead of the set-up; a queue is removed under those who wait. *Correct when:* one
process has the lock and no kill loses it; everybody who waits gets a message or learns that there
is no queue.

### Sockets (notes/13-sockets-code)

simple-server.c, pause-server.c and simple-client.c. State: who listens at the port, the backlog,
the connections accepted. *Hard:* servers started together or one behind the other, clients that
have gone when they are accepted, a server that ends with connections in its backlog. *Correct
when:* every connection comes to an end, and what a client reads tells the truth about its server.

### Small programs on signals, FIFOs and forks (notes/04, 08, 09, lab02)

protected-reentrant.c: main and a handler that share getpwnam's one record. multiple_writes.c: two
writers of one file or FIFO, with one position or two. faster-child.c and its like: a fork in a
loop. *Hard:* a signal between any two instructions; an end of file ahead of the second writer; a
failed exec that leaves a second parent in the loop. *Correct when:* main's record is its own, no
data are lost, nobody outlives a parent that waits.

### The rest

Shared memory (notes/10), files, directories and memory maps (notes/05, 06, 14, lab05, lab12),
exercises on C (lab01, lab02, notes/01, 03). See section 7.

## 2. The modules

| module | models or shows | code |
|---|---|---|
| `ChatRoom` | abstract: what the chat promises | the conversation of server.c |
| `Blather` | server, FIFOs, any number of clients | bl-server.c, server.c, bl-client.c |
| `MCBlather` | `Blather` with the symmetry of clients | |
| `BlatherProofs` | proofs about `Blather`: types, delivery, speech | |
| `BlatherClient`, `BlatherClientProofs` | the inside of one client, proofs | bl-client.c, simpio.c |
| `Commando`, `CommandoProofs` | the shell and its children, proofs | p1-code |
| `Email`, `EmailProofs` | both lookup services, proofs | lab08-code, lab09-code |
| `Philosophers`, `PhilosophersProofs` | four programs, proofs | lab10-code, notes/10-ipc-code |
| `Threads`, `ThreadsProofs` | ten programs, proofs | lab10-code, lab11-code, notes/11-threads-code |
| `Children`, `ChildrenProofs` | nine kinds of parents, proofs | lab03, lab04, lab06, lab07, notes/04 |
| `FileLock` | abstract: what a lock promises | semdemo.c |
| `SemDemo` | the semaphore and its users | notes/10-ipc-code/semdemo.c |
| `KirkSpock` | the queue and its users | kirk.c, spock.c |
| `Sockets` | two servers, their clients, the port | notes/13-sockets-code |
| `Signals` | getpwnam in main and in a handler | notes/08-signals-code |
| `Writers` | two writers of a file or FIFO | notes/09-pipes-fifos-code/multiple_writes.c |
| `Families` | six programs that fork | notes/04, lab02 |
| `Demonstrations` | `SemDemo` to `Families` together, with their fairness | |
| `DemonstrationsProofs` | proofs about those six | |

Where several programs do the same thing in different ways, one module has them all: `Init` chooses
the program, and the operators that differ ask which it is. So one property is checked against every
version, and a version that breaks it (picalc_broken) is named in the property.

In every module a step is what the scheduler cannot take apart: a system call, a load or a store of
a shared variable. What a process does between two of them, with data nobody else sees, belongs to
the step. Operators and actions have the names of the functions where there is one. Definitions
headed "Faulty" are what the code would be with a plausible mistake; no specification uses them. Each
takes the place of the definition it follows to show that a property depends on the code.

**`ChatRoom`** has the conversation `log`, the point `since[c]` at which a client entered, and what
it was `shown`. `Post` adds a message if its sender may say it next, `Show` shows the next one to
a client: no gap, no repetition, one order for all.

**`Blather`** has `server_t` field by field: `client` is the array, `join_ready` and `data_ready` the
flags, `i` and `j` the indices of main's and server_broadcast's loops, `mesg` the record in hand.
`srv` is where main or the handler is. A FIFO is a sequence of whole records: `join_t` and `mesg_t`
are below PIPE_BUF. `Broadcast` writes to one client and is not enabled while that FIFO is full, so
that everything else can happen meanwhile. `Interrupt` may come wherever `srv` is. When a client
process ends, what its FIFOs hold is lost unless the server holds them open (`Close`). The history
variables `log`, `since` and `shown` are the mapping to `ChatRoom`: `Room == INSTANCE ChatRoom`.

**`BlatherClient`** has the line buffer character by character with its NUL, because simpio_get_char
stores a character and the NUL behind it in two stores and iprintf of the other thread reads the
buffer in between. `user` and `listener` are where the two threads are, `cancelled` who has been
cancelled; a cancelled thread ends at its next read or write, which is what POSIX promises.
`serving` says whether bl-server still reads the FIFO `unread`: its handler writes BL_SHUTDOWN and exits,
so that a client reads that kind only when it is FALSE, and `ServerStops` may come at any time. The
histories `edited` (what the keys come to in any line editor, `Edit`) and `said` (the lines written to
the server) are what the buffer is compared with.

**`Commando`** numbers processes in the order of fork; 0 is the user's shell. A child whose execvp
fails becomes a shell with a copy of the jobs and goes on in the same actions. waitpid is modelled
by what it may report (`Children`, `HasNews`): an end once, a stop or a continuation once. `lol` says
whether the file of that name exists, on which the fate of every job depends (section 6).

**`Email`** has the FIFO service (`Fifo`) and the queue service (`Mq`). A client may open a FIFO
before the server has made it: the open fails, which the client does not notice, and later reads and
writes of that descriptor fail, too. `Sleep` and `SeeSignal` are the loop around sleep(1) that waits
for SIGCONT; `Continue` is a user who stops a client and lets it go on. `Terminate` sets the
flag of em_server_mq and may find its main asleep in msgrcv or msgsnd, which then fails, or behind the
test of the flag and ahead of the call (lines 67 to 69), where it wakes nobody: the server goes to
sleep with the flag set and stops behind one more query. `StopsSoon` allows that one and no second.

**`Philosophers`** has a semaphore per utensil, and `not_at_table`. A semop on a removed semaphore
returns at once, and nobody looks at the result (`CanTake`), so that exclusion depends on when main
removes them.

**`Threads`** has one counter, one mutex, sets of sleeping threads. `Load` and `Store` are the two
halves of an increment. `SpuriousWakeUp` is pthread_cond_wait coming back for no reason.

**`Children`** has the parent's place, each child's place and end, the pipes, and who is stopped.
`LookAtFlag` and `SleepPrint` take sleep_print's loop apart, since a signal may come between its test
and its write. `Eof` is where the inherited descriptors are: B holds A's pipe. `missed` remembers a
signal that a child had before its exec.

**`SemDemo`** has the set in the kernel (`exists`, `semval`, `sem_otime`), the undo that the kernel
keeps for each process (`semadj`), and where each process is. `Free` is the semop of the maker, who
waits for its user first; `NotReady` is one look at sem_otime; `End` adds `semadj`, in whatever way
the process ends. The set outlives processes, so `SemInit` has three sets that earlier ones may have
left. `FLock` maps the processes that are past the semop to the `holders` of `FileLock`.

**`KirkSpock`** counts the messages in the queue. All have the same type and everybody takes the
first one, so their contents decide nothing. `unclaimed` is a history variable: the messages of
kirks that were killed while they waited, less those that killed spocks had taken.

**`Sockets`** has the kernel's side of the port in `listening` and `backlog`, the descriptors of each
server in `client_fds`, and of each connection whether it was written to, closed or reset.
SO_REUSEADDR is in `Bind`: only a server that listens is in the way. getpeername and the first write
to a connection succeed whether the client has closed or not, so that `Write` has no failing branch.

**`Signals`** has getpwnam as two steps with its lock between them, the alarm, and main's mask. A
signal that is due runs its handler ahead of main's next instruction.

**`Writers`** has one position per open, and the FIFO's two-sided open: who waits in open counts as a
writer already, and an end of file comes when nobody has the FIFO open for writing. The reader is
started once: one that was killed is not run again on what is left in the FIFO.

**`Families`** names a process by the iterations in which it and its ancestors were forked, so that the
copies of a parent whose exec has failed need no numbering. spawn-undead is one of its programs: it
waits, so that `NobodyOutlivesParent` holds for it against its own first comment (section 6).

**`Demonstrations`** chooses one of these in `Init`; they share nothing.

## 3. The runs

The number of states is that of the distinct states TLC finds.

| run | instance | states | what it shows |
|---|---|---|---|
| `chat_safety` | 2 clients, FIFOs of 2, 1 line, SIGINT | 332,100 | no read on an empty FIFO; delivery complete and in order; nothing typed is swallowed; `Blather` implements `ChatRoom` |
| `chat_shutdown` | 3 clients, 2 slots, FIFOs of 1, both signals | 655,938 | types and array bound; the shutdown reaches every member though one handler interrupts the other |
| `chat_liveness` | 2 clients, FIFOs of 8, SIGINT | 211,569 | joins answered, lines heard and shown; a signal ends all |
| `chat_departed` | 1 client | violation | a departed client keeps its slot |
| `chat_removal` | 2 clients, SIGINT | violation | shutdown skips every other client |
| `client` | 4 keys of 6 kinds, a buffer of 3, 2 records, a FIFO of 1 | 239,152 | the buffer always ends; lines are as typed; DEPARTED is last; either thread's end ends the process, unless a FIFO that bl-server has left is full |
| `jobs` | 2 processes, 2 slots | 58,580 | own statuses, none lost, no blocking read, waits come back |
| `email` | 2 clients, 2 names, FIFOs of 2, 1 stop | 69,560 | askers get their own answers, one at a time, and fail only after trouble; prompt stop; service |
| `diners` | 5 philosophers, 2 meals, 1 failed fork | 134,465 | exclusion, no deadlock, the barrier, all leave |
| `threads` | 2 pairs or 3 threads, 2 rounds, 1 spurious wake-up | 149,177 | turns, sums, the limit, no lost wake-up |
| `children` | pipes of 2, 1 kill | 35,009 | nobody is left as a zombie, untold or unreported; parents end |
| `demos` | 3 processes at the lock; 2 kirks, 2 spocks; 2 servers, 3 clients; 2 writers; 2 forks | 37,014 | semdemo is a `FileLock`; no message too few; every connection ends; the record is main's own; data complete; nobody outlives a waiting parent |

A type invariant is stated in every module. `chat_shutdown` checks that of `Blather`, which holds the
bound of the array; all of them are proved, those of the six demonstrations as parts of their
inductive invariants.

Why the bounds are enough to see what matters:

* Two clients make one that talks and one that is written to, and a slot behind another to shift; a
  FIFO of two fills up with a join and a line, so that broadcasts block. Three clients for two slots
  reach the full array. `chat_liveness` has FIFOs that cannot fill, because a full one blocks the
  server for ever if its reader has gone: that is what the code does (section 6), and it would make
  every liveness property false for one known reason. Its clients type no line; JOINED and DEPARTED
  take the same way.
* Two processes in `jobs` allow a nested shell that starts a job of its own, and a status that could
  land in the wrong record; two slots are reached and overrun.
* A buffer of 3 is full after two characters; four keys make a full line, an erasure at either end, a
  second line, and control-D in the middle.
* Two clients are enough for an answer to be taken by the wrong one.
* Four odd and even threads are the smallest number for which a single wake-up can reach the wrong
  one and leave all asleep. Five philosophers are the code's number.
* Three processes at semdemo's lock are a holder, one that waits and one that is killed; a queue for one
  message is full while anybody has something to send. Two servers meet at the port, three clients are
  one more than pause-server waits for, and one kill hits any of them. The backlog holds one connection
  (BACKLOG is 0, one less), so that connects are refused as well. Two iterations of a loop are enough
  for a copy of the parent to fork a child of its own. Only one demonstration runs in a behaviour, so
  that the instance is the sum of six, not their product; 31,204 of its states are those of `Sockets`.
* One failing fork at any place shows each program's way with it; a second meets the same code.
* CHECK_DEADLOCK is FALSE throughout, because every program here may end; that nothing stops too early
  is what the liveness properties and `SomebodyCanGoOn` are for.

## 4. Fairness

Weak fairness of a process or thread says that the kernel runs whoever can run for good. It is
assumed of the steps a process takes by itself, and never of users: nobody has to type, join, leave,
kill or send a signal, and no program that commando runs has to end.

* `Blather`: the server, and of each client its own steps and its listening thread.
* `BlatherClient`: each thread; bl-server's reads only as long as it is `serving`. A full FIFO behind
  that blocks its writer for good, and `QuitEnds` leaves out just that (`Unheard`).
* `Threads`: main and every thread. Weak fairness does not give a thread that wants a mutex, free now
  and then, its turn; for the busy-waiting programs, which take and release it for ever, that means
  that they need not end, and `AllFinish` does not say so. The others take it a bounded number of
  times.
* `Email`: processes that wait for the same FIFO are finitely many and each leaves it after one record.
* `Children`: strong fairness for a child, since start_stop stops and continues it again and again:
  it gets its time in between, as the parent sleeps there.
* `Philosophers`: each process; meals are bounded.
* `Demonstrations`: weak fairness for semdemo's processes, for servers and for a client's read; strong
  fairness for kirks and spocks, because the kernel serves the sleepers of a queue in the order in
  which they came. The users of semdemo and kirk need not press a key, and nobody need start a client.
  `Signals`, `Writers` and `Families` have safety properties only and need none.

## 5. The proofs

Every safety invariant and every refinement that a run checks is proved, for every value of the
constants that the assumptions allow, and from these assumptions alone:

* `BlatherAssumption`, `ClientAssumption`: sizes are natural numbers, FIFOs have room for a record, a
  line buffer for a character and its NUL, and no character is one of simpio's keys.
* `PhilosophersAssumption`: two philosophers or more. `ThreadsAssumption`: at least one thread and one
  round, and a limit that is reached. `CommandoAssumption`: an array of at least one job.
* `EmailAssumption`: pipes and queues have room, listed names are names, and the values that stand for
  nobody and for the server are no client's pid. `ChildrenAssumption`: pipes have room.
* `SemDemoAssumption`: at least one look at sem_otime. `KirkSpockAssumption`: finitely many processes, of
  two kinds, and a queue with room. `SocketsAssumption`: pause-server waits for at least one client.
  `FamiliesAssumption`: at least one iteration. `WritersAssumption`: a FIFO with room.

| theorem | statement |
|---|---|
| `BlatherProofs!TypeCorrect` | `Spec => []TypeOK` |
| `BlatherProofs!ReadsNeverBlock` | `Spec => []ReadsFindData` |
| `BlatherProofs!NothingIsMissing` | `Spec => []DeliveryComplete` |
| `BlatherProofs!ShutdownReaches` | `Spec => []ShutdownReachesMembers` |
| `BlatherProofs!ChatIsRoom` | `Spec => RoomSpec` |
| `BlatherProofs!NothingIsSwallowed` | `Spec => []NothingSwallowed` |
| `BlatherClientProofs!TypeCorrect` | `Spec => []TypeOK` |
| `BlatherClientProofs!BufferIsString` | `Spec => []BufferEnds` |
| `BlatherClientProofs!LinesReachServer` | `Spec => []LinesAsTyped` |
| `BlatherClientProofs!NothingAfterDeparted` | `Spec => []DepartedIsLast` |
| `CommandoProofs!TypeCorrect` | `Spec => []TypeOK` |
| `CommandoProofs!StatusIsOwn` | `Spec => []OwnStatus` |
| `CommandoProofs!StatusIsKept` | `Spec => []NothingLost` |
| `CommandoProofs!FetchReturns` | `Spec => []FetchNeverBlocks` |
| `EmailProofs!TypeCorrect` | `Spec => []TypeOK` |
| `EmailProofs!OwnAnswerRead` | `Spec => []AnswersReachAskers` |
| `EmailProofs!StopsAfterOne` | `Spec => []StopsSoon` |
| `PhilosophersProofs!TypeCorrect` | `Spec => []TypeOK` |
| `PhilosophersProofs!NeighboursExclude` | `Spec => []Exclusion` |
| `PhilosophersProofs!DinnerIsCommon` | `Spec => []DinnerStartsTogether` |
| `PhilosophersProofs!NoDeadlock` | `Spec => []SomebodyCanGoOn` |
| `ThreadsProofs!TypeCorrect` | `Spec => []TypeOK` |
| `ThreadsProofs!TurnsTaken` | `Spec => []TurnsRespected` |
| `ThreadsProofs!WatcherPatient` | `Spec => []WatcherSawLimit` |
| `ThreadsProofs!WorkIsCounted` | `Spec => []CountIsWork` |
| `ChildrenProofs!TypeCorrect` | `Spec => []TypeOK` |
| `ChildrenProofs!NobodyIsForgotten` | `Spec => []NobodyForgotten` |
| `DemonstrationsProofs!SemaphoreIsWhole` | `SemSpec => []FreeOrHeld` |
| `DemonstrationsProofs!SemDemoIsLock` | `SemSpec => LockSpec` |
| `DemonstrationsProofs!MessagesMatchWaiters` | `MsgSpec => []OneMessagePerWaiter` |
| `DemonstrationsProofs!RecordIsMain` | `SigSpec => []RecordIsOwn` |
| `DemonstrationsProofs!NobodyIsLeft` | `FamilySpec => []NobodyOutlivesParent` |
| `DemonstrationsProofs!FateIsServers` | `NetSpec => []FateFitsServer` |
| `DemonstrationsProofs!DataIsPresent` | `WritersSpec => []AllDataIsPresent` |

Each argument is an inductive invariant, found and checked with TLC on the run's instance before it was
proved. Hardly any of the properties is inductive by itself.

**Reads never block.** `ReadsFindData` is not inductive: it says nothing of the flags before they
are used. `FlagsInv` does: a set `join_ready` means a request in the join FIFO until
server_handle_join has read it; a client in `data_ready` is a member, and its FIFO holds a record
until its turn. It is kept because nobody but the server reads those FIFOs, clients only add to
them, and the kernel drops a dead client's FIFO only if the server has not opened it, that is, if the
client is no member and has no flag.

**Nothing is missing.** The invariant `IInv` has five parts. `WaitInv`: a client's request is in one
place, the join FIFO or the server's hand, and only before it is added; so nobody is added twice.
`MemberInv`: the array holds added clients, each once. `StreamInv`: for every added client, what it
was shown and what waits in its FIFO is a gapless part of `log`, followed by nothing but SHUTDOWN.
`CompleteInv`: until the server is dying, for members that part reaches to the end of `log`, less
the message that a broadcast has not yet brought to that slot. A broadcast step moves one client
across that difference; `MemberInv` is needed for it to be one client.

**Blather implements ChatRoom.** `SpeechInv` adds the other direction: what a client has written is
the list JOINED, lines, DEPARTED (`Speech`) up to some point; the first `h` of them are in `log` and
the next ones are in its FIFO, in order. A step of server_handle_client takes the one that is next,
which is the guard `SaidInOrder` of `Post`; showing is `Show` because of `StreamInv`; adding is
`Enter`; everything else stutters.

**Nothing is swallowed.** The kernel drops the contents of a FIFO when its client ends before the
server has opened it. `KeptInv` has the property for members and for clients that are not added yet,
under the same condition: something of the client is still in the FIFO or its JOINED was read. When a
FIFO is dropped both fail at once, and with `SpeechInv` they can never come back, as a client that can
still type has written JOINED, and whatever it wrote is where it was.

**The shutdown reaches all.** `ToldInv` speaks of clients that listen. Before the handler runs they are
members; during its broadcast each has been sent SHUTDOWN or is in a slot at or behind `j`; when the
array is taken apart, and after, each has been sent it. A second signal in the middle starts the
broadcast again with the members that are left, and those that are not left are exactly the ones the
first handler has removed behind its whole broadcast.

**BlatherClient.** `BufferInv`: the last byte of buf is NUL, since simpio_get_char takes no character
once `pos` is there. `TypedInv` ties the buffer to `edited` for each place client_thread can be: the
first `pos` characters are the line edited so far, with a NUL behind them except between the two stores
of a character; when the line is sent, the string in buf is the last one of `edited.done`, and all the
others have been said. `JoinedInv` and `DepartedInv`: main passes a join only when that thread has
ended, and writes DEPARTED behind both.

**Commando.** `IInv` adds to the three properties: `LoopsInv`, an index is inside the array, and what is
fetched is finished; `LineageInv`, only somebody past cmd_start has children, a forked shell has
inherited the job it was forked for, and what has been reaped has ended; `WriteEndsInv`, no process that
has ended holds a write end, and unless there is a nested shell nobody holds one but the program
itself. `OwnStatus` is kept because an end is reported once and a process number is used once; a job
without a pid is left out, as waitpid(-1) may bring it anybody's end. A nested shell has copies
of its parent's jobs and none of its parent's children, so that its waitpid never finishes a copy.

**Email.** `OwnInv`: every query in a FIFO, a queue or a buffer is its asker's, and every answer is the
one to its asker's query; then an answer with the right pid is the right answer. With the queues that
pid is the message's type (`StopInv`). Over the one FIFO it needs `CalmInv`, which holds as long as
there has been no trouble: a client that has asked waits unsignalled, with one query (`AskedInv`); only
the client that the server awaits has been told and is not done (`ToldInv`); `data` has that client's
answer and nothing else, until it is read, and `completions` its pid once it is done (`HandedInv`).

**Philosophers.** `UtensilInv`: while the semaphores exist a utensil's is 0 exactly when one
philosopher holds it. `MainInv`: they are removed only when all have left. `TableInv`: the barrier's
semaphore counts those who have not checked in. There is no deadlock, since among the utensils in
hand there is a highest one; its holder waits for nothing that is in hand, because everybody takes
the lower one first. Forks that fail leave the argument as it is: a philosopher that was never made
holds nothing, and whatever the waitpid of a failed one has brought, the waitpids of the others come
back only for their own ends.

**Threads.** `LockInv`: a thread between its lock and its unlock has the mutex, so there is one, in
every program but picalc_broken. `RegInv`: what a thread has loaded is the count until it stores;
hence the count never shrinks and `WatchInv`, that watch_count leaves its loop at the limit, is
kept. `TurnsRespected` is inductive with `LockInv`: only the holder changes the count. `RoundsInv` is
needed for the loop variable's range: whoever has a round before it has not done all of them.
`CountIsWork` is about a sum over all threads. A recursive sum would need induction, so `CountInv` has
it as the number of elements of a set: `Done` has a pair for each round that a thread has done, `Open` a
thread for each hit not yet added, `Owed` a pair for each hit that a thread of nocontention keeps to
itself. A step puts one element in or takes one out, or, at nocontention's only store, as many as
the thread keeps. `EndInv` says what has become of a thread that main has joined.

**Children.** `WhoseInv`: which program's parent can be where. `ToldInv`: from killB on, child A, if it
is alive, has its flag set or was told ahead of its exec, and at the end child B, too; `SleepInv` says
that a live child of these programs is in one of the three states that the signal is defined for.
`ReapedInv`: who waits has reaped, with the status, before it reads or ends. All that is kept because
no step takes a flag or an end back, and nobody comes to life but by the parent's forks (`StepKeeps`).

**SemDemo.** `FreeOrHeld` needs to know that nobody frees the semaphore twice and that the undo of a
process is exactly what it holds. `MakerInv`: at most one process is about to free it, and only while
sem_otime is 0. `EnteredInv`: whoever is past the set-up has found it done. `UndoInv`: the undo is 1
for a holder and 0 for everybody else, so that `End` gives back the unit of a holder that is killed
and nothing for a process that has let go. The refinement follows: a step changes the holders only by
`Lock`, from none to one, and by `Unlock` or a holder's end, from one to none.

**KirkSpock.** The invariant is the property with `IdInv`: whoever uses a queue has an id, and where
there is no queue there are no messages. A new queue gets an id that nobody has yet. Each step moves
one process in or out of `Waiting` or `Replying` and one message in or out of the queue; two lemmas
on cardinalities say what that does to the sum.

**Signals.** `MaskInv`: between its block and its unblock main's mask keeps the handler out, and the
record is the one main has asked for until it has been compared. `LockIsHeld` ties getpwnam's lock to
who is inside.

**Families.** `WaitsInv`: a process has at most as many unreaped children as waits before it: in
faster_child no more than the iterations it has left behind, and elsewhere none at the top of the loop
and one while it waits. `BirthInv` says that a child's number is an iteration behind its parent's, so
that a new child is one that has not been born, and `LeafInv` that who has execed has no children.

**Sockets.** `ConnectionsInv`: a connection is in one server's backlog, or among its descriptors, or it
is over; it is closed without a word only by a kill, and reset only if nobody had accepted it.
`CountInv`: a pause-server that accepts has accepted as many as it has descriptors, which is fewer than
MAX_CLIENTS, and from then on exactly MAX_CLIENTS. `ServersInv` has the rest: no connection twice, none
at a server that does not listen.

**Writers.** `StreamInv` is the property's first part for what was read and what is there together;
`PositionInv`: a shared position is the end of the file, and one of one's own is the number of one's
lines; `OpenersInv`: when the file was opened ahead of the fork, nobody is still to open it once there
is a reader, so that the end of the FIFO means that all have closed.

Only model-checked is what holds under fairness: `EverybodyIsHeard`, `ShutdownEndsAll`, `QuitEnds`,
`WaitComesBack`, `Served`, `AllFinish`, `EverybodyLeaves`, `ParentEnds`, `NobodyWaitsInVain`,
`KirkHearsBack`, `RemovalEndsCrew` and `ClientsAreServed`. To prove liveness from WF and SF one has to
prove ENABLED of whole process steps and to induct over the length of queues and the rounds left, and
neither is within the installed provers' reach. `chat_departed` and `chat_removal`
show violations and there is nothing to prove.

## 6. What was found

* **Departed clients stay** (`chat_departed`, server.c:222). server_handle_client only broadcasts a
  DEPARTED. readme.html:989-991 promises: "The server will remove its FIFOs and shift all elements in
  its clients array." The server goes on writing to a FIFO that nobody reads and that it keeps open
  itself, and blocks for ever when that is full.
* **Shutdown removes every other client** (`chat_removal`, server.c:72). The loop's index goes on
  while the array shifts. The comment at server.c:49-51 says "remove all clients".

Three more disagreements are stated in the comments of the properties that they touch; these properties
say what the code does.

* **The sender hears itself** (`RoomSpec`, server.c:223). server_broadcast writes to every client. The
  comment at server.c:203-204, and with it readme.html:1224-1225, says "Departure and Message types should
  be broadcast to all other clients"; readme.html:910, 971 and 1300 say to all. `ChatRoom` shows
  everything to everybody.
* **A client may hang in its last write** (`QuitEnds`, bl-client.c:157). main writes DEPARTED to a
  FIFO that nobody reads once bl-server has sent SHUTDOWN, and that the client holds open itself. If it
  is full the write waits for ever. readme.html:1680-1681 says: "This means the client should exit as
  well." It takes some fifty unread lines.
* **spawn-undead leaves no undead** (`NobodyOutlivesParent`, spawn-undead.c:28). It waits for its child
  before it returns. Its first comment says that it demonstrates "children that outlive their parent";
  what can be seen is a zombie, while the parent sleeps.

What else the code does and the models keep, without a property that calls it wrong: dup2 at
cmd.c:61 is given the descriptor of a file named "lol", where cmd.c:45-46 says "direct standard output
to the pipe", and without such a file every job dies ahead of its exec (`lol` in `Commando`);
multiple_writes.c:20-21 says of a FIFO opened behind the fork that "all data is present", but if the
parent has opened, written and closed before its child opens, the reader finds the end of the file and
the child waits for another reader (`EndOfFile` in `Writers`); a semdemo whose maker is killed ahead of
its semop leaves a set that no later process can use (`NotReady` in `SemDemo`); pause-server counts
clients that have gone; the blocking wait of commando also returns when the job has been stopped or continued (commando.h:21), while the
help text at commando.c:18 says "until the given job number finishes"; a failed execvp leaves
a second shell; select_AB.c:61 says it listens "until signaled or children die", yet nothing in the
loop ends it when they have died; select_AB can sit in a read of A's pipe, which B holds open, after
it was told to stop (`Excuse` in `Children`); the copy that a failed exec leaves in birth_death and
start_stop signals its whole group; a client of the email service that finds another's answer exits
without its completion, and the server waits for it for ever.

## 7. What is not modelled, and why

* Text: what is printed, the layout of tables, word splitting, prompts, terminal modes.
* Of the small programs: what a message says, socket addresses, timeouts of a connect. Of the signal
  programs those that only print that a signal has come, or ignore or block it for a time; of the FIFO
  programs those that never end or copy a file (sources_sinks, fill_pipe, pager_demo), which read and
  write whole records of one pipe as `Blather`'s FIFOs do; the shared memory programs, which make one
  copy or one lookup and do not wait for each other.
* Of blather: two clients of one name, who would share FIFOs; a client that sends a record of a kind
  the server does not expect; logging, who and ping, whose functions are empty.
* Of commando: reuse of process numbers; programs that fork; signals to the shell; a failing pipe;
  lines of more words than the array of tokens holds.
* Forks that fail in `Children`; they are in `Commando`, `Philosophers`, `Writers` and `Families`. Old
  FIFOs that an earlier run of the email service has left.
* The buffers of select_AB and read_AB: `buf[n] = '\0'` behind a full read of 1024 bytes.
* Files, directories, memory maps, C exercises: sequential, nothing persists between two calls.
* Tests and data: read as documents of what the programs promise.

## 8. The plan

In order; the first three parts are done.

1. Done: `ChatRoom`, `Blather` and its proofs; `Philosophers` and its proofs; `Threads` and
   its proofs; `BlatherClient`, `Commando`, `Email`, `Children`.
2. Done: forks and thread creations that fail in `Philosophers`; `FileLock`, `SemDemo` and `KirkSpock`
   with proofs; `Sockets`, `Signals`, `Writers`, `Families`.
3. Done: every safety invariant and refinement of the runs is proved.
4. Left to model: two clients of one name in `Blather`; the shared memory lookup of email_shmem.c;
   Collatz and the clock of lab01 as functions, against a reference definition.
5. Left to prove: the safety half of the liveness properties, as measures that each step of whoever
   is waited for decreases and nobody else's increases (`WaitComesBack`, `Served`); an abstract lookup
   service that both halves of `Email` implement; an abstract counter that
   the programs of `Threads` implement.
