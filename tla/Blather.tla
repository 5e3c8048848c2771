------------------------------- MODULE Blather -------------------------------
(***************************************************************************)
(* The blather chat (p2-code): one bl-server process, any number of        *)
(* bl-client processes, and the FIFOs between them.                        *)
(*                                                                         *)
(* Every blocking system call of the server is a step of its own, so that  *)
(* clients run between any two of them and a signal can be delivered       *)
(* between any two of them.  A read of an empty FIFO and a write to a full *)
(* one block: the step is not enabled.  join_t (3072 bytes) and mesg_t     *)
(* (1284 bytes) are below PIPE_BUF, so each read or write moves one whole  *)
(* record.  All FIFOs are opened O_RDWR: nobody ever sees end of file or   *)
(* EPIPE.                                                                  *)
(*                                                                         *)
(* Here user names are distinct, so that a client process stands for its   *)
(* user name and its two FIFOs.  Bounds: FifoCap and JoinCap records fit   *)
(* in a FIFO, the users type MaxLines lines in all.                       *)
(***************************************************************************)
EXTENDS Integers, Sequences, FiniteSets, SequencesExt

CONSTANTS Client,        \* bl-client processes
          MaxClients,    \* MAXCLIENTS, the size of server->client[]
          FifoCap,       \* mesg_t records a FIFO holds before a write blocks
          JoinCap,       \* join_t records the join FIFO holds
          MaxLines,      \* lines the users type between them
          Signal         \* the signals with a handler: SIGINT and SIGTERM

ASSUME BlatherAssumption ==
    /\ MaxClients \in Nat
    /\ FifoCap \in Nat \ {0}
    /\ JoinCap \in Nat \ {0}
    /\ MaxLines \in Nat

VARIABLES
    srv,          \* where bl-server is
    client,       \* server->client[]: the process behind each slot in use
    join_ready,   \* server->join_ready
    data_ready,   \* the clients whose data_ready flag is set
    i,            \* the index of main's (and server_shutdown's) loop over client[]
    j,            \* the index of server_broadcast's loop
    mesg,         \* the record the server has in hand
    signals,      \* the signals delivered to the server so far
    joinFifo,     \* contents of <server>.fifo: join requests
    to_server,    \* to_server[c]: contents of <c>.to.<server>.fifo
    to_client,    \* to_client[c]: contents of <server>.to.<c>.fifo
    proc,         \* where each bl-client is
    lines,        \* lines each user has typed
    log,          \* history: the messages the server has read from clients
    since,        \* history: Len(log) when the server added c, or Outside
    shown         \* history: what c's terminal has displayed

server == <<srv, client, join_ready, data_ready, i, j, mesg>>
fifos  == <<joinFifo, to_server, to_client>>
procs  == <<proc, lines>>
vars   == <<server, signals, fifos, procs, log, since, shown>>

\* The conversation is the history of what the server has read and clients have shown.
Room == INSTANCE ChatRoom WITH log <- log, since <- since, shown <- shown

-----------------------------------------------------------------------------
(* Data *)

Outside     == Room!Outside
Joined(c)   == Room!Joined(c)
Line(c, n)  == Room!Line(c, n)
Departed(c) == Room!Departed(c)
Mesg        == Room!Mesg
Shutdown    == [kind |-> "SHUTDOWN"]
NoMesg      == [kind |-> "none"]       \* a local variable out of scope
Requests    == [kind : {"join_t"}, from : Client]
Request(c)  == [kind |-> "join_t", from |-> c]

n_clients == Len(client)
Members   == {client[k] : k \in 1..n_clients}

\* server_start has not yet made the join FIFO, or server_shutdown has removed it.
Dying    == srv \in {"sd_broadcast", "sd_remove", "exited"}
Joinable == srv # "start" /\ ~Dying

ServerType ==
    /\ srv \in {"start", "check", "join", "add", "scan", "broadcast",
                "sd_broadcast", "sd_remove", "exited"}
    /\ client \in Seq(Client)
    /\ n_clients <= MaxClients
    /\ join_ready \in {0, 1}
    /\ data_ready \subseteq Client
    /\ i \in Nat \ {0}
    /\ j \in Nat \ {0}
    /\ signals \subseteq Signal

\* The record in hand is of the kind that the code at this point works on.
MesgType ==
    /\ mesg \in Mesg \cup {Shutdown, NoMesg} \cup Requests
    /\ srv = "add" => mesg \in Requests
    /\ srv = "broadcast" => mesg \in Mesg
    /\ srv = "sd_broadcast" => mesg = Shutdown

FifosType ==
    /\ joinFifo \in Seq(Client)
    /\ to_server \in [Client -> Seq(Mesg)]
    /\ to_client \in [Client -> Seq(Mesg \cup {Shutdown})]

ProcsType ==
    /\ proc \in [Client -> {"setup", "request", "announce", "chat", "quit", "close", "gone"}]
    /\ lines \in [Client -> 0..MaxLines]

TypeOK == ServerType /\ MesgType /\ FifosType /\ ProcsType /\ Room!TypeOK

Init ==
    /\ srv = "start"
    /\ client = << >>
    /\ join_ready = 0
    /\ data_ready = {}
    /\ i = 1
    /\ j = 1
    /\ mesg = NoMesg
    /\ signals = {}
    /\ joinFifo = << >>
    /\ to_server = [c \in Client |-> << >>]
    /\ to_client = [c \in Client |-> << >>]
    /\ proc = [c \in Client |-> "setup"]
    /\ lines = [c \in Client |-> 0]
    /\ log = << >>
    /\ since = [c \in Client |-> Outside]
    /\ shown = [c \in Client |-> << >>]

-----------------------------------------------------------------------------
(* bl-server: main's loop and the functions of server.c it calls *)

\* server_start: a stale join FIFO is removed, a new one made and opened.
Start ==
    /\ srv = "start"
    /\ srv' = "check"
    /\ UNCHANGED <<client, join_ready, data_ready, i, j, mesg, signals, fifos, procs,
                   log, since, shown>>

\* server_check_sources: select blocks until some source can be read, then
\* the flags are set from its answer.  join_ready is set here, never cleared.
CheckSources ==
    /\ srv = "check"
    /\ joinFifo # << >> \/ \E c \in Members : to_server[c] # << >>
    /\ join_ready' = IF joinFifo # << >> THEN 1 ELSE join_ready
    /\ data_ready' = {c \in Members : to_server[c] # << >>}
    /\ srv' = IF join_ready' = 1 THEN "join" ELSE "scan"
    /\ UNCHANGED <<client, i, j, mesg, signals, fifos, procs, log, since, shown>>

\* server_handle_join, up to its read of the join FIFO.
HandleJoin ==
    /\ srv = "join"
    /\ joinFifo # << >>
    /\ mesg' = Request(Head(joinFifo))
    /\ joinFifo' = Tail(joinFifo)
    /\ srv' = "add"
    /\ UNCHANGED <<client, join_ready, data_ready, i, j, signals, to_server, to_client,
                   procs, log, since, shown>>

\* Faulty: server_add_client does not look whether the array is full.
AddClientUnchecked ==
    /\ srv = "add"
    /\ client' = Append(client, mesg.from)
    /\ since' = [since EXCEPT ![mesg.from] = Len(log)]
    /\ join_ready' = 0
    /\ srv' = "scan"
    /\ i' = 1
    /\ mesg' = NoMesg
    /\ UNCHANGED <<data_ready, j, signals, fifos, procs, log, shown>>

\* Faulty: server_handle_join leaves join_ready set.
AddClientStaysReady ==
    /\ srv = "add"
    /\ n_clients < MaxClients
    /\ client' = Append(client, mesg.from)
    /\ since' = [since EXCEPT ![mesg.from] = Len(log)]
    /\ srv' = "scan"
    /\ i' = 1
    /\ mesg' = NoMesg
    /\ UNCHANGED <<join_ready, data_ready, j, signals, fifos, procs, log, shown>>

\* server_add_client and the rest of server_handle_join, which ignores whether
\* there was room.  The FIFOs exist, so that opening them does not fail.
AddClient ==
    /\ srv = "add"
    /\ IF n_clients = MaxClients
       THEN UNCHANGED <<client, since>>
       ELSE /\ client' = Append(client, mesg.from)
            /\ since' = [since EXCEPT ![mesg.from] = Len(log)]
    /\ join_ready' = 0
    /\ srv' = "scan"
    /\ i' = 1
    /\ mesg' = NoMesg
    /\ UNCHANGED <<data_ready, j, signals, fifos, procs, log, shown>>

\* The slot main's loop comes to next: the first one, from i on, whose flag is set.
NextReady(k) ==
    /\ k \in i..n_clients
    /\ client[k] \in data_ready
    /\ \A l \in i..(k - 1) : client[l] \notin data_ready

\* Faulty: the read is buffered and takes all there is, of which one record is used.
HandleClientDrains ==
    /\ srv = "scan"
    /\ \E k \in 1..n_clients :
        /\ NextReady(k)
        /\ to_server[client[k]] # << >>
        /\ mesg' = Head(to_server[client[k]])
        /\ to_server' = [to_server EXCEPT ![client[k]] = << >>]
        /\ i' = k
    /\ log' = Append(log, mesg')
    /\ srv' = "broadcast"
    /\ j' = 1
    /\ UNCHANGED <<client, join_ready, data_ready, signals, joinFifo, to_client, procs,
                   since, shown>>

\* server_handle_client, up to the call of server_broadcast.  The kinds a
\* client sends are those that are broadcast: no PING reaches it to answer.
HandleClient ==
    /\ srv = "scan"
    /\ \E k \in 1..n_clients :
        /\ NextReady(k)
        /\ to_server[client[k]] # << >>
        /\ mesg' = Head(to_server[client[k]])
        /\ to_server' = [to_server EXCEPT ![client[k]] = Tail(@)]
        /\ i' = k
    /\ log' = Append(log, mesg')
    /\ srv' = "broadcast"
    /\ j' = 1
    /\ UNCHANGED <<client, join_ready, data_ready, signals, joinFifo, to_client, procs,
                   since, shown>>

\* Faulty: the FIFO is written without blocking, and a full one is passed over.
WriteOrDrop ==
    /\ j <= n_clients
    /\ to_client' = IF Len(to_client[client[j]]) < FifoCap
                    THEN [to_client EXCEPT ![client[j]] = Append(@, mesg)]
                    ELSE to_client
    /\ j' = j + 1
    /\ UNCHANGED <<srv, client, join_ready, data_ready, i, mesg, signals, joinFifo, to_server,
                   procs, log, since, shown>>

\* One write of server_broadcast.
Write ==
    /\ j <= n_clients
    /\ Len(to_client[client[j]]) < FifoCap
    /\ to_client' = [to_client EXCEPT ![client[j]] = Append(@, mesg)]
    /\ j' = j + 1
    /\ UNCHANGED <<srv, client, join_ready, data_ready, i, mesg, signals, joinFifo, to_server,
                   procs, log, since, shown>>

Broadcast == srv = "broadcast" /\ Write

\* Faulty: the broadcast may end one slot early.
EndHandleClientEarly ==
    /\ srv = "broadcast"
    /\ j >= n_clients
    /\ data_ready' = data_ready \ {client[i]}
    /\ srv' = "scan"
    /\ i' = i + 1
    /\ j' = 1
    /\ mesg' = NoMesg
    /\ UNCHANGED <<client, join_ready, signals, fifos, procs, log, since, shown>>

\* The rest of server_handle_client.
EndHandleClient ==
    /\ srv = "broadcast"
    /\ j > n_clients
    /\ data_ready' = data_ready \ {client[i]}
    /\ srv' = "scan"
    /\ i' = i + 1
    /\ j' = 1
    /\ mesg' = NoMesg
    /\ UNCHANGED <<client, join_ready, signals, fifos, procs, log, since, shown>>

EndScan ==
    /\ srv = "scan"
    /\ \A k \in i..n_clients : client[k] \notin data_ready
    /\ srv' = "check"
    /\ i' = 1
    /\ UNCHANGED <<client, join_ready, data_ready, j, mesg, signals, fifos, procs,
                   log, since, shown>>

-----------------------------------------------------------------------------
(* bl-server: signal_handler, which never returns to main.  Each of the two *)
(* signals is blocked while its own handler runs and not while the other's  *)
(* does, so that one shutdown can interrupt the other and start again.      *)

\* Faulty: the broadcast of BL_SHUTDOWN goes on at the slot where a broadcast was
\* interrupted.
InterruptResumes(s) ==
    /\ s \notin signals
    /\ srv # "exited"
    /\ signals' = signals \cup {s}
    /\ srv' = "sd_broadcast"
    /\ mesg' = Shutdown
    /\ i' = 1
    /\ UNCHANGED <<client, join_ready, data_ready, j, fifos, procs, log, since, shown>>

\* signal_handler enters server_shutdown: the join FIFO is closed and removed,
\* and the broadcast of BL_SHUTDOWN begins.
Interrupt(s) ==
    /\ s \notin signals
    /\ srv # "exited"
    /\ signals' = signals \cup {s}
    /\ srv' = "sd_broadcast"
    /\ mesg' = Shutdown
    /\ i' = 1
    /\ j' = 1
    /\ UNCHANGED <<client, join_ready, data_ready, fifos, procs, log, since, shown>>

BroadcastShutdown == srv = "sd_broadcast" /\ Write

BeginRemoval ==
    /\ srv = "sd_broadcast"
    /\ j > n_clients
    /\ srv' = "sd_remove"
    /\ j' = 1
    /\ mesg' = NoMesg
    /\ UNCHANGED <<client, join_ready, data_ready, i, signals, fifos, procs,
                   log, since, shown>>

\* One round of server_shutdown's last loop: server_remove_client(server, i)
\* shifts the later slots down, and the loop goes on with the next index.
RemoveClient ==
    /\ srv = "sd_remove"
    /\ i <= n_clients
    /\ client' = RemoveAt(client, i)
    /\ i' = i + 1
    /\ UNCHANGED <<srv, join_ready, data_ready, j, mesg, signals, fifos, procs,
                   log, since, shown>>

Exit ==
    /\ srv = "sd_remove"
    /\ i > n_clients
    /\ srv' = "exited"
    /\ UNCHANGED <<client, join_ready, data_ready, i, j, mesg, signals, fifos, procs,
                   log, since, shown>>

-----------------------------------------------------------------------------
(* bl-client.  Its own FIFOs are made before it opens the join FIFO. *)

\* open(server_fifo_name): without a server to make the FIFO the open fails,
\* main does not look, and the write of the request goes nowhere.
OpenJoin(c) ==
    /\ proc[c] = "setup"
    /\ proc' = [proc EXCEPT ![c] = IF Joinable THEN "request" ELSE "announce"]
    /\ UNCHANGED <<server, signals, fifos, lines, log, since, shown>>

\* The write of the join_t.  It succeeds on a FIFO the server has closed, too.
RequestJoin(c) ==
    /\ proc[c] = "request"
    /\ Len(joinFifo) < JoinCap
    /\ joinFifo' = Append(joinFifo, c)
    /\ proc' = [proc EXCEPT ![c] = "announce"]
    /\ UNCHANGED <<server, signals, to_server, to_client, lines, log, since, shown>>

WriteToServer(c, m) ==
    /\ Len(to_server[c]) < FifoCap
    /\ to_server' = [to_server EXCEPT ![c] = Append(@, m)]
    /\ UNCHANGED <<server, signals, joinFifo, to_client, log, since, shown>>

\* main writes BL_JOINED, then starts the two threads.
Announce(c) ==
    /\ proc[c] = "announce"
    /\ WriteToServer(c, Joined(c))
    /\ proc' = [proc EXCEPT ![c] = "chat"]
    /\ UNCHANGED lines

Typed == {t \in Client \X (1..MaxLines) : t[2] <= lines[t[1]]}

\* client_thread_fn: a line is complete.
TypeLine(c) ==
    /\ proc[c] = "chat"
    /\ lines[c] < MaxLines /\ Cardinality(Typed) < MaxLines
    /\ WriteToServer(c, Line(c, lines[c] + 1))
    /\ lines' = [lines EXCEPT ![c] = @ + 1]
    /\ UNCHANGED proc

\* client_thread_fn: end of input; the server thread is cancelled.
EndOfInput(c) ==
    /\ proc[c] = "chat"
    /\ proc' = [proc EXCEPT ![c] = "quit"]
    /\ UNCHANGED <<server, signals, fifos, lines, log, since, shown>>

\* server_thread_fn: a message is read and displayed.
ShowMesg(c) ==
    /\ proc[c] = "chat"
    /\ to_client[c] # << >>
    /\ Head(to_client[c]) # Shutdown
    /\ shown' = [shown EXCEPT ![c] = Append(@, Head(to_client[c]))]
    /\ to_client' = [to_client EXCEPT ![c] = Tail(@)]
    /\ UNCHANGED <<server, signals, joinFifo, to_server, procs, log, since>>

\* Faulty: BL_SHUTDOWN is displayed and the loop goes on.
ShowShutdownStays(c) ==
    /\ proc[c] = "chat"
    /\ to_client[c] # << >>
    /\ Head(to_client[c]) = Shutdown
    /\ to_client' = [to_client EXCEPT ![c] = Tail(@)]
    /\ UNCHANGED <<server, signals, joinFifo, to_server, procs, log, since, shown>>

\* server_thread_fn: BL_SHUTDOWN is read; the user thread is cancelled.
ShowShutdown(c) ==
    /\ proc[c] = "chat"
    /\ to_client[c] # << >>
    /\ Head(to_client[c]) = Shutdown
    /\ to_client' = [to_client EXCEPT ![c] = Tail(@)]
    /\ proc' = [proc EXCEPT ![c] = "quit"]
    /\ UNCHANGED <<server, signals, joinFifo, to_server, lines, log, since, shown>>

\* main has joined both threads and writes BL_DEPARTED.
Depart(c) ==
    /\ proc[c] = "quit"
    /\ WriteToServer(c, Departed(c))
    /\ proc' = [proc EXCEPT ![c] = "close"]
    /\ UNCHANGED lines

\* The process ends and its file descriptors are closed.  What is in a FIFO
\* that the server does not hold open is lost.
Close(c) ==
    /\ proc' = [proc EXCEPT ![c] = "gone"]
    /\ IF c \in Members
       THEN UNCHANGED <<to_server, to_client>>
       ELSE /\ to_server' = [to_server EXCEPT ![c] = << >>]
            /\ to_client' = [to_client EXCEPT ![c] = << >>]
    /\ UNCHANGED <<server, signals, joinFifo, lines, log, since, shown>>

Leave(c) == proc[c] = "close" /\ Close(c)

\* An interrupt from the terminal ends the client at any point (before it has
\* opened the join FIFO, that is as if it were never started).
Kill(c) == proc[c] \in {"request", "announce", "chat", "quit"} /\ Close(c)

-----------------------------------------------------------------------------

ServerStep ==
    \/ Start \/ CheckSources \/ HandleJoin \/ AddClient \/ HandleClient \/ Broadcast \/ EndHandleClient
    \/ EndScan \/ BroadcastShutdown \/ BeginRemoval \/ RemoveClient \/ Exit

\* What a client does without its user.
ClientStep(c) ==
    \/ OpenJoin(c) \/ RequestJoin(c) \/ Announce(c)
    \/ Depart(c) \/ Leave(c)
ListenStep(c) == ShowMesg(c) \/ ShowShutdown(c)

UserStep(c) == TypeLine(c) \/ EndOfInput(c) \/ Kill(c)

Next ==
    \/ ServerStep
    \/ \E s \in Signal : Interrupt(s)
    \/ \E c \in Client : ClientStep(c) \/ ListenStep(c) \/ UserStep(c)

Spec == Init /\ [][Next]_vars

\* The kernel runs a process that can run.  Users need not type, leave or
\* interrupt anything.
FairSpec ==
    /\ Spec
    /\ WF_vars(ServerStep)
    /\ \A c \in Client : WF_vars(ClientStep(c)) /\ WF_vars(ListenStep(c))

-----------------------------------------------------------------------------
(* Properties *)

Was(c) == since[c] # Outside           \* the server has added c

InFifo(m, q) == \E k \in 1..Len(q) : q[k] = m

\* server_join_ready and data_ready mean what blather.h says, "a mesg_t can be
\* read": neither read of the server's loop is ever started on an empty FIFO,
\* where it would block with select no longer watching anything else.
ReadsFindData ==
    /\ srv = "join" => joinFifo # << >>
    /\ srv = "scan" => \A k \in i..n_clients :
                          NextReady(k) => to_server[client[k]] # << >>

\* What c was shown, followed by what waits in its FIFO, is the conversation
\* from the moment it was added: up to its end, or up to the message that
\* server_broadcast has not yet come to c's slot with.
Behind(c) == IF srv = "broadcast" /\ \E k \in j..n_clients : client[k] = c THEN 1 ELSE 0

DeliveryComplete ==
    ~Dying => \A c \in Members :
        /\ since[c] + Len(shown[c]) + Len(to_client[c]) = Len(log) - Behind(c)
        /\ \A k \in 1..Len(to_client[c]) :
               to_client[c][k] = log[since[c] + Len(shown[c]) + k]

\* server_handle_client swallows nothing: of a client that was still there when
\* the server opened its FIFOs, every line typed was read or waits to be read.
NothingSwallowed ==
    \A c \in Members :
        to_server[c] # << >> \/ Room!Said(Joined(c)) =>
            \A n \in 1..lines[c] :
                Room!Said(Line(c, n)) \/ InFifo(Line(c, n), to_server[c])

\* Wherever the signals struck, once the server has ended every client it had
\* added, and that still listens, has a BL_SHUTDOWN to read.
ShutdownReachesMembers ==
    srv = "exited" => \A c \in Client :
        Was(c) /\ proc[c] \in {"request", "announce", "chat"} => InFifo(Shutdown, to_client[c])

\* The server and its clients implement ChatRoom, in which everybody is shown what
\* anybody says, the sender included: server_broadcast skips nobody, and so say
\* readme.html:910, 971 and 1300.  The comment at server.c:203-204 says otherwise:
\* "Departure and Message types should be broadcast to all other clients".
RoomSpec == Room!Spec

\* Until the server is told to stop, a client whose request it can read is added,
\* unless the array is full; the server always comes back to a member's FIFO and
\* empties it, though the client may have gone in the meantime; and a member that
\* stays is shown the whole conversation, whoever else has departed or been killed.
CaughtUp(c) == since[c] + Len(shown[c]) = Len(log)

EverybodyIsHeard ==
    \A c \in Client :
        /\ InFifo(c, joinFifo) ~> Was(c) \/ n_clients = MaxClients \/ signals # {}
        /\ Was(c) ~> to_server[c] = << >> \/ signals # {}
        /\ Was(c) ~> CaughtUp(c) \/ proc[c] \in {"quit", "close", "gone"} \/ signals # {}

\* A signal ends the server, and with it the client processes it had added.
ShutdownEndsAll ==
    /\ signals # {} ~> srv = "exited"
    /\ \A c \in Client : Was(c) /\ signals # {} ~> proc[c] = "gone"

\* What readme.html promises of a departure: the server "will remove its FIFOs
\* and shift all elements in its clients array".
DepartedIsRemoved ==
    srv = "check" => \A c \in Members : ~Room!Said(Departed(c))

\* server.c:49: "Send a BL_SHUTDOWN message to all clients and proceed to remove
\* all clients in any order".
ShutdownRemovesAll == srv = "exited" => client = << >>

=============================================================================
