--------------------------------- MODULE Email ---------------------------------
(***************************************************************************)
(* The lookup of email addresses by a server and its clients: lab08 and    *)
(* lab09 over three FIFOs and SIGCONT (em_server_fifo.c, em_client_fifo.c, *)
(* the same as lab08's em_server.c and em_client.c), and lab09 over two    *)
(* message queues (em_server_mq.c, em_client_mq.c).                        *)
(*                                                                         *)
(* Init chooses which of the two is run.  FIFOs are opened O_RDWR and      *)
(* nobody looks at what open returns: a client that is early has no FIFO   *)
(* behind a descriptor.  The handlers are installed when the model starts. *)
(*                                                                         *)
(* Bounds: Room records fit in a FIFO or a queue, and the users stop and   *)
(* continue their clients Continues times.                                 *)
(***************************************************************************)
EXTENDS Integers, Sequences, SequencesExt, FiniteSets

CONSTANTS Client,      \* client processes, each with a pid of its own
          Name,        \* the names that can be asked for
          Listed,      \* the names in the server's data[][]
          Room,
          Continues

Nobody   == "nobody"      \* no process has this pid
Server   == "server"

ASSUME EmailAssumption ==
    /\ Listed \subseteq Name /\ Room \in Nat \ {0} /\ Continues \in Nat
    /\ Nobody \notin Client /\ Server \notin Client

VARIABLES
    program,        \* "fifo" or "mq"
    asks,           \* the name each client is started with
    cli,            \* where each client is
    fds,            \* the FIFOs each client has open
    signalled,      \* the processes whose handler has set signalled
    response,       \* what each client has read
    srv,            \* where the server is
    made,           \* the FIFOs the server has made
    request,        \* the server's variable of that name
    requests, data, completions,      \* contents of the FIFOs; the queues are the first two
    continued,      \* how often a user has continued a stopped client
    late            \* history: queries answered by a server that has been told to stop

files  == <<made, requests, data, completions>>
server == <<srv, request>>
procs  == <<cli, fds, response>>
vars   == <<program, asks, procs, signalled, server, files, continued, late>>

-----------------------------------------------------------------------------
(* Data *)

Fifos    == <<"requests", "completions", "data">>
NotFound == "NOT FOUND"

Email(n)    == IF n \in Listed THEN <<n>> ELSE NotFound
Query(c)    == [pid |-> c, name |-> asks[c]]
Answer(r)   == [pid |-> r.pid, name |-> r.name, email |-> Email(r.name)]
Garbage     == [pid |-> Nobody]      \* a variable that nothing has been read into
Queries     == [pid : Client, name : Name]
Answers     == {Answer(r) : r \in Queries}

TypeOK ==
    /\ program \in {"fifo", "mq"}
    /\ asks \in [Client -> Name]
    /\ cli \in [Client -> {"open1", "open2", "open3", "write", "poll", "wait", "read",
                        "check", "complete", "done", "failed"}]
    /\ fds \in [Client -> SUBSET ToSet(Fifos)]
    /\ signalled \subseteq Client \cup {Server}
    /\ response \in [Client -> Answers \cup {Garbage}]
    /\ srv \in {"make", "test", "read", "fill", "kill", "await", "exited"}
    /\ made \subseteq ToSet(Fifos)
    /\ request \in Queries \cup {Garbage}
    /\ requests \in Seq(Queries) /\ Len(requests) <= Room
    /\ data \in Seq(Answers \cup {Garbage}) /\ Len(data) <= Room
    /\ completions \in Seq(Client) /\ Len(completions) <= Room
    /\ continued \in 0..Continues

\* A message queue is there for whoever asks for it first.
Init ==
    /\ program \in {"fifo", "mq"}
    /\ asks \in [Client -> Name]
    /\ cli = [c \in Client |-> IF program = "fifo" THEN "open1" ELSE "write"]
    /\ fds = [c \in Client |-> {}]
    /\ signalled = {}
    /\ response = [c \in Client |-> Garbage]
    /\ srv = IF program = "fifo" THEN "make" ELSE "test"
    /\ made = {}
    /\ request = Garbage
    /\ requests = << >> /\ data = << >> /\ completions = << >>
    /\ continued = 0 /\ late = 0

Fifo == program = "fifo" /\ UNCHANGED <<program, asks>>
Mq   == program = "mq" /\ UNCHANGED <<program, asks, fds, made, completions, continued>>

-----------------------------------------------------------------------------
(* em_server_fifo: requests are read, answered on data, and the client that  *)
(* has been sent SIGCONT says when it has read its answer.                   *)

\* The old FIFOs are removed; then each is made.
MakeFifo ==
    /\ Fifo /\ srv = "make"
    /\ made' = made \cup {Fifos[Cardinality(made) + 1]}
    /\ srv' = IF Cardinality(made) = 2 THEN "read" ELSE "make"
    /\ UNCHANGED <<procs, signalled, request, requests, data, completions, continued, late>>

ReadRequest ==
    /\ Fifo /\ srv = "read"
    /\ requests # << >>
    /\ request' = Head(requests)
    /\ requests' = Tail(requests)
    /\ srv' = "fill"
    /\ UNCHANGED <<procs, signalled, made, data, completions, continued, late>>

WriteAnswer ==
    /\ Fifo /\ srv = "fill"
    /\ Len(data) < Room
    /\ data' = Append(data, Answer(request))
    /\ srv' = "kill"
    /\ UNCHANGED <<procs, signalled, request, made, requests, completions, continued, late>>

\* Faulty: the server does not wait for the client to be done.
SignalOnly ==
    /\ Fifo /\ srv = "kill"
    /\ signalled' = signalled \cup {request.pid}
    /\ srv' = "read"
    /\ UNCHANGED <<procs, request, files, continued, late>>

\* Faulty: the client stops itself and has no flag, as with the raise(SIGSTOP)
\* commented out at em_client.c:60: a SIGCONT ahead of the stop does nothing.
SignalIfWaiting ==
    /\ Fifo /\ srv = "kill"
    /\ signalled' = IF cli[request.pid] = "wait" THEN signalled \cup {request.pid} ELSE signalled
    /\ srv' = "await"
    /\ UNCHANGED <<procs, request, files, continued, late>>

\* kill(request.pid, SIGCONT)
SignalClient ==
    /\ Fifo /\ srv = "kill"
    /\ signalled' = signalled \cup {request.pid}
    /\ srv' = "await"
    /\ UNCHANGED <<procs, request, files, continued, late>>

\* A completion by another client would only be reported.
ReadCompletion ==
    /\ Fifo /\ srv = "await"
    /\ completions # << >>
    /\ completions' = Tail(completions)
    /\ srv' = "read"
    /\ UNCHANGED <<procs, signalled, request, made, requests, data, continued, late>>

-----------------------------------------------------------------------------
(* em_client_fifo *)

Go(c, from, to) == cli[c] = from /\ cli' = [cli EXCEPT ![c] = to]

\* Each open succeeds if the server has made that FIFO.
Opening == <<"open1", "open2", "open3", "write">>

OpenFifo(c) ==
    /\ Fifo
    /\ \E k \in 1..3 :
        /\ Go(c, Opening[k], Opening[k + 1])
        /\ fds' = [fds EXCEPT ![c] = @ \cup (made \cap {Fifos[k]})]
    /\ UNCHANGED <<signalled, response, server, files, continued, late>>

\* The write to a descriptor of no FIFO fails, which goes unnoticed.
WriteRequest(c) ==
    /\ Fifo /\ Go(c, "write", "poll")
    /\ IF "requests" \in fds[c]
       THEN Len(requests) < Room /\ requests' = Append(requests, Query(c))
       ELSE UNCHANGED requests
    /\ UNCHANGED <<fds, signalled, response, server, made, data, completions, continued, late>>

\* The loop around sleep.  A signal between the test and the sleep is not lost:
\* the handler has set the flag, and the sleep is over in a second.
Sleep(c) ==
    /\ Fifo /\ Go(c, "poll", "wait")
    /\ c \notin signalled
    /\ UNCHANGED <<fds, signalled, response, server, files, continued, late>>

SeeSignal(c) ==
    /\ Fifo /\ (Go(c, "poll", "read") \/ Go(c, "wait", "read"))
    /\ c \in signalled
    /\ UNCHANGED <<fds, signalled, response, server, files, continued, late>>

ReadAnswer(c) ==
    /\ Fifo /\ Go(c, "read", "check")
    /\ IF "data" \in fds[c]
       THEN data # << >> /\ response' = [response EXCEPT ![c] = Head(data)] /\ data' = Tail(data)
       ELSE UNCHANGED <<response, data>>
    /\ UNCHANGED <<fds, signalled, server, made, requests, completions, continued, late>>

WriteCompletion(c) ==
    /\ Fifo /\ Go(c, "complete", "done")
    /\ IF "completions" \in fds[c]
       THEN Len(completions) < Room /\ completions' = Append(completions, c)
       ELSE UNCHANGED completions
    /\ UNCHANGED <<fds, signalled, response, server, made, requests, data, continued, late>>

\* A user stops a client at the terminal and has it continue.
Continue(c) ==
    /\ Fifo /\ cli[c] \notin {"done", "failed"}
    /\ continued < Continues
    /\ continued' = continued + 1
    /\ signalled' = signalled \cup {c}
    /\ UNCHANGED <<procs, server, files, late>>

\* Both clients compare the answer's pid with their own.
Check(c) ==
    /\ Go(c, "check", IF response[c].pid # c THEN "failed"
                      ELSE IF program = "fifo" THEN "complete" ELSE "done")
    /\ UNCHANGED <<program, asks, fds, signalled, response, server, files, continued, late>>

-----------------------------------------------------------------------------
(* em_client_mq and em_server_mq *)

\* msgsnd fails when the queue has been removed.
SendQuery(c) ==
    /\ Mq /\ Go(c, "write", "read")
    /\ IF srv = "exited" THEN UNCHANGED requests
       ELSE Len(requests) < Room /\ requests' = Append(requests, Query(c))
    /\ UNCHANGED <<signalled, response, server, data, late>>

\* msgrcv takes the first message whose type is the client's pid.
ReceiveAnswer(c) ==
    /\ Mq /\ Go(c, "read", "check")
    /\ IF srv = "exited" THEN UNCHANGED <<response, data>>
       ELSE \E k \in 1..Len(data) :
            /\ data[k].pid = c /\ \A l \in 1..(k - 1) : data[l].pid # c
            /\ response' = [response EXCEPT ![c] = data[k]]
            /\ data' = RemoveAt(data, k)
    /\ UNCHANGED <<signalled, server, requests, late>>

\* Faulty: the flag is looked at when there is nothing to answer.
TestFlagIfIdle ==
    /\ Mq /\ srv = "test"
    /\ IF Server \in signalled /\ requests = << >>
       THEN srv' = "exited" /\ requests' = << >> /\ data' = << >>
       ELSE srv' = "read" /\ UNCHANGED <<requests, data>>
    /\ UNCHANGED <<cli, response, signalled, request, late>>

\* The loop's condition; behind the loop the queues are removed.
TestFlag ==
    /\ Mq /\ srv = "test"
    /\ IF Server \in signalled
       THEN srv' = "exited" /\ requests' = << >> /\ data' = << >>
       ELSE srv' = "read" /\ UNCHANGED <<requests, data>>
    /\ UNCHANGED <<cli, response, signalled, request, late>>

ReceiveQuery ==
    /\ Mq /\ srv = "read"
    /\ requests # << >>
    /\ request' = Head(requests)
    /\ requests' = Tail(requests)
    /\ srv' = "fill"
    /\ UNCHANGED <<cli, response, signalled, data, late>>

\* A variable that was never set is sent as it is, if its type is a valid one.
SendAnswer ==
    /\ Mq /\ srv = "fill"
    /\ \/ request = Garbage /\ UNCHANGED data
       \/ /\ Len(data) < Room
          /\ data' = Append(data, IF request = Garbage THEN Garbage ELSE Answer(request))
    /\ srv' = "test"
    /\ late' = late + (IF Server \in signalled THEN 1 ELSE 0)
    /\ UNCHANGED <<cli, response, signalled, request, requests>>

\* SIGINT or SIGTERM sets the flag, which wakes the server only if it already
\* sleeps in a call: a msgrcv that waits fails, and request is answered as if it had
\* just come; a msgsnd that waits fails, and the answer is lost.  After the test of
\* the flag and ahead of that call, the server goes to sleep all the same.
Terminate ==
    /\ Mq /\ srv # "exited"
    /\ signalled' = signalled \cup {Server}
    /\ \/ UNCHANGED srv
       \/ srv = "read" /\ requests = << >> /\ srv' = "fill"
       \/ srv = "fill" /\ Len(data) = Room /\ srv' = "test"
    /\ UNCHANGED <<cli, response, request, requests, data, late>>

-----------------------------------------------------------------------------

ServerStep ==
    \/ MakeFifo \/ ReadRequest \/ WriteAnswer \/ SignalClient \/ ReadCompletion
    \/ TestFlag \/ ReceiveQuery \/ SendAnswer

ClientStep(c) ==
    \/ OpenFifo(c) \/ WriteRequest(c) \/ Sleep(c) \/ SeeSignal(c) \/ ReadAnswer(c)
    \/ Check(c) \/ WriteCompletion(c)
    \/ SendQuery(c) \/ ReceiveAnswer(c)

Next ==
    \/ ServerStep \/ Terminate
    \/ \E c \in Client : ClientStep(c) \/ Continue(c)

Spec == Init /\ [][Next]_vars

\* The kernel runs a process that can run.  The processes that wait for the same
\* FIFO are each served in the end, for the others are finitely many.
FairSpec == Spec /\ WF_vars(ServerStep) /\ \A c \in Client : WF_vars(ClientStep(c))

-----------------------------------------------------------------------------
(* Properties *)

\* What can go wrong with the service as a whole: a client was there before the
\* server's FIFOs, a client went on without an answer, or the server was stopped.
Early(c) == cli[c] \notin {"open1", "open2", "open3"} /\ fds[c] # ToSet(Fifos)
Trouble ==
    \/ program = "fifo" /\ (continued > 0 \/ \E c \in Client : Early(c))
    \/ program = "mq" /\ Server \in signalled

\* A client that ends well has the address of the name it was asked about, and
\* nobody reads an answer that is another's unless there was trouble; with the
\* queues only their removal does that.
AnswersReachAskers ==
    \A c \in Client :
        /\ cli[c] \in {"complete", "done"} => response[c] = Answer(Query(c))
        /\ cli[c] = "failed" => Trouble /\ (program = "mq" => srv = "exited")

\* em_server_mq told to stop answers one more query at most, also when the signal
\* comes between the look at the flag and a msgrcv that then sleeps.
StopsSoon == late <= 1

\* Without trouble everybody is served: no signal is lost and no answer taken.
Served == \A c \in Client : <>(cli[c] = "done" \/ Trouble)

=============================================================================
