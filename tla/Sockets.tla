------------------------------- MODULE Sockets -------------------------------
(***************************************************************************)
(* notes/13-sockets-code: simple-server.c greets each client that connects *)
(* and hangs up; pause-server.c says nothing until MAX_CLIENTS have come,  *)
(* then tells each of them that it shuts down, and does.  Clients are      *)
(* simple-client.c.  All servers want the same port.                       *)
(*                                                                         *)
(* Users start each server and each client at any time and may kill it at  *)
(* any time; what a killed process had open is closed by the kernel.       *)
(* Addresses, and the text that is printed of them, are left out.          *)
(*                                                                         *)
(* Bound: MaxKills processes are killed.                                   *)
(***************************************************************************)
EXTENDS Naturals, Sequences, SequencesExt, FiniteSets

CONSTANTS Server,        \* server processes
          Client,        \* client processes
          MAX_CLIENTS,   \* how many clients pause-server waits for
          BACKLOG,       \* one less than the connections that can wait for accept
          MaxKills       \* how many processes are killed

ASSUME SocketsAssumption ==
    MAX_CLIENTS \in Nat \ {0} /\ BACKLOG \in Nat /\ MaxKills \in Nat

VARIABLES
    program,      \* the program that the servers run
    srv,          \* where each server is
    listening,    \* the servers whose listen has succeeded and that are alive
    backlog,      \* the connections that wait for each server's accept
    client_fds,   \* the connections each server has accepted and not closed
    cli,          \* where each client is
    host,         \* the server each client has connected to
    accepted,     \* the clients whose connection has been accepted
    written,      \* those to whom something has been written,
    closed,       \* those whose connection the server's side has closed,
    reset         \* and those whose connection has been reset

netVars == <<program, srv, listening, backlog, client_fds, cli, host, accepted, written, closed, reset>>

lines == <<written, closed, reset>>

None == "none"

Killed == {s \in Server : srv[s] = "killed"} \cup {c \in Client : cli[c] = "killed"}

Up(s) == srv[s] \notin {"off", "refused", "aborted", "exited", "killed"}

SocketsTypeOK ==
    /\ program \in {"simple", "pause"}
    /\ srv \in [Server -> {"off", "bind", "listen", "accept", "write", "close",
                           "refused", "aborted", "exited", "killed"}]
    /\ listening \subseteq {s \in Server : Up(s)}
    /\ backlog \in [Server -> Seq(Client)]
    /\ client_fds \in [Server -> Seq(Client)]
    /\ cli \in [Client -> {"off", "read", "answered", "empty", "refused", "reset", "killed"}]
    /\ host \in [Client -> Server \cup {None}]
    /\ \A set \in {accepted, written, closed, reset} : set \subseteq Client

NetInit ==
    /\ program \in {"simple", "pause"}
    /\ srv = [s \in Server |-> "off"]
    /\ listening = {}
    /\ backlog = [s \in Server |-> << >>]
    /\ client_fds = [s \in Server |-> << >>]
    /\ cli = [c \in Client |-> "off"]
    /\ host = [c \in Client |-> None]
    /\ accepted = {} /\ written = {} /\ closed = {} /\ reset = {}

-----------------------------------------------------------------------------
(* Servers *)

Moves(s, from, to) == srv[s] = from /\ srv' = [srv EXCEPT ![s] = to] /\ UNCHANGED program

StartServer(s) ==
    /\ Moves(s, "off", "bind")
    /\ UNCHANGED <<listening, backlog, client_fds, cli, host, accepted, lines>>

\* Faulty: without SO_REUSEADDR, connections closed a short while ago are in the way.
BindNotReusing(s) ==
    /\ Moves(s, "bind", IF listening = {} /\ closed = {} THEN "listen" ELSE "refused")
    /\ UNCHANGED <<listening, backlog, client_fds, cli, host, accepted, lines>>

\* With SO_REUSEADDR only a server that listens is in the way; then exit(1).
Bind(s) ==
    /\ Moves(s, "bind", IF listening = {} THEN "listen" ELSE "refused")
    /\ UNCHANGED <<listening, backlog, client_fds, cli, host, accepted, lines>>

\* Two servers may be here at once.  The second listen fails, which nobody sees.
Listen(s) ==
    /\ Moves(s, "listen", "accept")
    /\ listening' = IF listening = {} THEN {s} ELSE listening
    /\ UNCHANGED <<backlog, client_fds, cli, host, accepted, lines>>

\* accept on a socket that does not listen: the assertion fails.
AcceptFails(s) ==
    /\ s \notin listening
    /\ Moves(s, "accept", "aborted")
    /\ UNCHANGED <<listening, backlog, client_fds, cli, host, accepted, lines>>

\* The connection of a client that has gone is accepted like any other.
Accept(s) ==
    /\ s \in listening /\ backlog[s] # << >>
    /\ Moves(s, "accept", IF program = "pause" /\ Len(client_fds[s]) + 1 < MAX_CLIENTS
                          THEN "accept" ELSE "write")
    /\ client_fds' = [client_fds EXCEPT ![s] = Append(@, Head(backlog[s]))]
    /\ backlog' = [backlog EXCEPT ![s] = Tail(@)]
    /\ accepted' = accepted \cup {Head(backlog[s])}
    /\ UNCHANGED <<listening, cli, host, lines>>

\* A client that has gone has closed its end with nothing unread in it, so that
\* the connection is not reset: getpeername and the first write still succeed,
\* their assertions hold, and there is no second write.
Write(s) ==
    /\ Moves(s, "write", "close")
    /\ written' = written \cup {Head(client_fds[s])}
    /\ UNCHANGED <<listening, backlog, client_fds, cli, host, accepted, closed, reset>>

\* The end of a server: those who wait for accept are reset.
Ends(s) ==
    /\ closed' = closed \cup ToSet(client_fds[s])
    /\ reset' = reset \cup ToSet(backlog[s])
    /\ listening' = listening \ {s}
    /\ client_fds' = [client_fds EXCEPT ![s] = << >>]
    /\ backlog' = [backlog EXCEPT ![s] = << >>]

\* Faulty: the last one in client_fds is not told.
CloseAllButLast(s) ==
    LET rest == Tail(client_fds[s]) IN
    /\ srv[s] = "close"
    /\ IF program = "pause" /\ Len(rest) <= 1
       THEN Moves(s, "close", "exited") /\ Ends(s)
       ELSE /\ Moves(s, "close", IF rest = << >> THEN "accept" ELSE "write")
            /\ client_fds' = [client_fds EXCEPT ![s] = rest]
            /\ closed' = closed \cup {Head(client_fds[s])}
            /\ UNCHANGED <<listening, backlog, reset>>
    /\ UNCHANGED <<cli, host, accepted, written>>

\* pause-server goes on to the next client, and returns behind the last one.
Close(s) ==
    LET rest == Tail(client_fds[s]) IN
    /\ srv[s] = "close"
    /\ IF program = "pause" /\ rest = << >>
       THEN Moves(s, "close", "exited") /\ Ends(s)
       ELSE /\ Moves(s, "close", IF rest = << >> THEN "accept" ELSE "write")
            /\ client_fds' = [client_fds EXCEPT ![s] = rest]
            /\ closed' = closed \cup {Head(client_fds[s])}
            /\ UNCHANGED <<listening, backlog, reset>>
    /\ UNCHANGED <<cli, host, accepted, written>>

KillServer(s) ==
    /\ Up(s) /\ Cardinality(Killed) < MaxKills
    /\ Moves(s, srv[s], "killed")
    /\ Ends(s)
    /\ UNCHANGED <<cli, host, accepted, written>>

-----------------------------------------------------------------------------
(* Clients *)

Proceeds(c, from, to) ==
    /\ cli[c] = from /\ cli' = [cli EXCEPT ![c] = to]
    /\ UNCHANGED <<program, srv, listening, client_fds, accepted, lines>>

\* A client is started and connects, which waits as long as too many others do; with
\* no server the assertion fails.
Connect(c) ==
    \/ \E s \in listening :
        /\ Len(backlog[s]) <= BACKLOG
        /\ Proceeds(c, "off", "read")
        /\ backlog' = [backlog EXCEPT ![s] = Append(@, c)]
        /\ host' = [host EXCEPT ![c] = s]
    \/ listening = {} /\ Proceeds(c, "off", "refused") /\ UNCHANGED <<backlog, host>>

\* read returns what has been written, 0 behind it, or -1: the assertion fails.
Read(c) ==
    /\ \/ c \in written /\ Proceeds(c, "read", "answered")
       \/ c \in closed \ written /\ Proceeds(c, "read", "empty")
       \/ c \in reset /\ Proceeds(c, "read", "reset")
    /\ UNCHANGED <<backlog, host>>

KillClient(c) ==
    /\ Cardinality(Killed) < MaxKills
    /\ Proceeds(c, "read", "killed")
    /\ UNCHANGED <<backlog, host>>

-----------------------------------------------------------------------------

server(s) == Bind(s) \/ Listen(s) \/ AcceptFails(s) \/ Accept(s) \/ Write(s) \/ Close(s)

NetNext ==
    \/ \E s \in Server : StartServer(s) \/ server(s) \/ KillServer(s)
    \/ \E c \in Client : Connect(c) \/ Read(c) \/ KillClient(c)

NetSpec == NetInit /\ [][NetNext]_netVars

-----------------------------------------------------------------------------
(* Properties *)

\* What a client ends with says what has become of its server: whoever is told of
\* a shutdown is one of MAX_CLIENTS, not fewer; whoever reads nothing had a server
\* that was killed, never one that forgot it; and only who was not accepted ahead
\* of the server's end, of either kind, is reset.
FateFitsServer ==
    \A c \in Client : LET s == host[c] IN
        /\ cli[c] = "answered" /\ program = "pause" =>
             Cardinality({d \in accepted : host[d] = s}) = MAX_CLIENTS
        /\ cli[c] = "empty" => srv[s] = "killed" /\ c \in accepted
        /\ cli[c] = "reset" => srv[s] \in {"killed", "exited"} /\ c \notin accepted

Lacking(s) ==
    program = "pause" /\ srv[s] = "accept" /\ Len(client_fds[s]) < MAX_CLIENTS

\* A server that is started comes to serve, be it right behind another one's end or
\* at the same time as another, unless somebody else does or it is killed; and
\* whoever has connected gets an end of it, whoever else is killed, connects or is
\* still in the queue: only a pause-server that lacks clients keeps it waiting.
ClientsAreServed ==
    /\ \A s \in Server : srv[s] = "bind" ~> listening # {} \/ srv[s] = "killed"
    /\ \A c \in Client : cli[c] = "read" ~> cli[c] # "read" \/ Lacking(host[c])

=============================================================================
