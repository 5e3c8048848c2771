---------------------------- MODULE BlatherProofs ----------------------------
(***************************************************************************)
(* Proofs about Blather, for every set of clients, every capacity and any  *)
(* number of lines and signals, in three parts:                            *)
(*                                                                         *)
(*   types      what every variable holds, and who is a member             *)
(*   delivery   every member of the chat is shown the conversation         *)
(*              complete and in order                                      *)
(*   speech     what a client has written reaches the conversation in the  *)
(*              order in which it was written, nothing twice and nothing   *)
(*              passed over: with the delivery, Blather is a ChatRoom      *)
(***************************************************************************)
EXTENDS Blather, SequenceTheorems, TLAPS

-----------------------------------------------------------------------------
(* Lemmas about the operators Blather is built from *)

\* server_remove_client's shift: the array stays an array of clients and is one
\* slot shorter.
LEMMA RemoveAtType ==
    ASSUME NEW S, NEW s \in Seq(S), NEW n \in 1..Len(s)
    PROVE  /\ RemoveAt(s, n) \in Seq(S)
           /\ Len(RemoveAt(s, n)) = Len(s) - 1
<1> DEFINE l == SubSeq(s, 1, n - 1)
           r == SubSeq(s, n + 1, Len(s))
<1>1. l \in Seq(S) /\ Len(l) = n - 1
  OBVIOUS
<1>2. r \in Seq(S) /\ Len(r) = Len(s) - n
  OBVIOUS
<1>3. RemoveAt(s, n) = l \o r
  BY DEF RemoveAt
<1>4. Len(s) \in Nat
  OBVIOUS
<1> HIDE DEF l, r
<1>5. l \o r \in Seq(S) /\ Len(l \o r) = Len(l) + Len(r)
  BY <1>1, <1>2
<1> QED
  BY <1>1, <1>2, <1>3, <1>4, <1>5

\* A read takes a record out of a FIFO, a write puts one in.
LEMMA FifoRead ==
    ASSUME NEW D, NEW S, NEW f \in [D -> Seq(S)], NEW d \in D, f[d] # << >>
    PROVE  /\ Head(f[d]) \in S
           /\ [f EXCEPT ![d] = Tail(@)] \in [D -> Seq(S)]
OBVIOUS

LEMMA FifoWrite ==
    ASSUME NEW D, NEW S, NEW f \in [D -> Seq(S)], NEW d \in D, NEW m \in S
    PROVE  [f EXCEPT ![d] = Append(@, m)] \in [D -> Seq(S)]
OBVIOUS

-----------------------------------------------------------------------------
(* Type correctness *)

USE BlatherAssumption

LEMMA InitType == Init => TypeOK
BY DEF Init, TypeOK, ServerType, MesgType, FifosType, ProcsType, n_clients,
       Room!TypeOK, Outside, Room!Outside, NoMesg

LEMMA MesgInRoom == Mesg = Room!Mesg
BY DEF Mesg

\* One write of a broadcast keeps the types, whoever is the writer.
LEMMA WriteType == ASSUME TypeOK, Write, mesg \in Mesg \cup {Shutdown} PROVE TypeOK'
<1> USE DEF TypeOK
<1>1. client[j] \in Client
  BY DEF Write, ServerType, n_clients
<1>2. to_client' \in [Client -> Seq(Mesg \cup {Shutdown})]
  BY <1>1, FifoWrite DEF Write, FifosType
<1>3. FifosType' /\ ProcsType'
  BY <1>2 DEF Write, FifosType, ProcsType, procs
<1>4. ServerType'
  BY DEF Write, ServerType, n_clients
<1>5. MesgType' /\ Room!TypeOK'
  BY DEF Write, MesgType, Room!TypeOK
<1> QED
  BY <1>3, <1>4, <1>5

LEMMA AddClientType == ASSUME TypeOK, AddClient PROVE TypeOK'
<1> USE DEF TypeOK
<1>1. mesg.from \in Client
  BY DEF AddClient, Requests, MesgType
<1>2. MesgType'
  BY DEF AddClient, MesgType
<1>3. FifosType' /\ ProcsType'
  BY DEF AddClient, FifosType, ProcsType, fifos, procs
<1>4. ServerType' /\ Room!TypeOK'
  <2>1. CASE n_clients = MaxClients
    BY <2>1 DEF AddClient, ServerType, Room!TypeOK, n_clients
  <2>2. CASE n_clients # MaxClients
    <3>1. client' = Append(client, mesg.from) /\ since' = [since EXCEPT ![mesg.from] = Len(log)]
      BY <2>2 DEF AddClient
    <3>2. client' \in Seq(Client) /\ Len(client') <= MaxClients
      BY <1>1, <2>2, <3>1 DEF ServerType, n_clients
    <3>3. Len(log) \in Nat
      BY DEF Room!TypeOK
    <3>4. since' \in [Client -> Nat \cup {Room!Outside}]
      BY <3>1, <3>3 DEF Room!TypeOK
    <3>5. log' = log /\ shown' = shown
      BY DEF AddClient
    <3> QED
      BY <3>2, <3>4, <3>5 DEF AddClient, ServerType, n_clients, Room!TypeOK
  <2> QED
    BY <2>1, <2>2
<1> QED
  BY <1>2, <1>3, <1>4

LEMMA HandleClientType == ASSUME TypeOK, HandleClient PROVE TypeOK'
<1> USE DEF TypeOK
<1>1. PICK k \in 1..n_clients :
        /\ NextReady(k)
        /\ to_server[client[k]] # << >>
        /\ mesg' = Head(to_server[client[k]])
        /\ to_server' = [to_server EXCEPT ![client[k]] = Tail(@)]
        /\ i' = k
  BY DEF HandleClient
<1>2. client[k] \in Client
  BY DEF ServerType, n_clients
<1>3. mesg' \in Mesg /\ to_server' \in [Client -> Seq(Mesg)]
  BY <1>1, <1>2, FifoRead DEF FifosType
<1>4. FifosType' /\ ProcsType'
  BY <1>3 DEF HandleClient, FifosType, ProcsType, procs
<1>5. Room!TypeOK'
  BY <1>3 DEF HandleClient, Room!TypeOK, Mesg
<1>6. ServerType' /\ MesgType'
  BY <1>1, <1>3 DEF HandleClient, ServerType, MesgType, n_clients
<1> QED
  BY <1>4, <1>5, <1>6

\* A client's write to its own FIFO.
LEMMA WriteToServerType ==
    ASSUME TypeOK, NEW c \in Client, NEW m \in Mesg, WriteToServer(c, m), ProcsType'
    PROVE  TypeOK'
<1>1. to_server' \in [Client -> Seq(Mesg)]
  BY FifoWrite DEF WriteToServer, TypeOK, FifosType
<1> QED
  BY <1>1 DEF WriteToServer, TypeOK, FifosType, ServerType, MesgType, Room!TypeOK, server, n_clients

LEMMA ClientMesg ==
    ASSUME NEW c \in Client
    PROVE  /\ Joined(c) \in Mesg
           /\ Departed(c) \in Mesg
           /\ \A n \in 1..MaxLines : Line(c, n) \in Mesg
BY DEF Mesg, Room!Mesg, Joined, Departed, Line, Room!Joined, Room!Departed, Room!Line

LEMMA CloseType == ASSUME TypeOK, NEW c \in Client, Close(c) PROVE TypeOK'
<1> USE DEF TypeOK
<1>1. to_server' \in [Client -> Seq(Mesg)] /\ to_client' \in [Client -> Seq(Mesg \cup {Shutdown})]
  <2>1. CASE c \in Members
    BY <2>1 DEF Close, FifosType
  <2>2. CASE c \notin Members
    <3>1. << >> \in Seq(Mesg) /\ << >> \in Seq(Mesg \cup {Shutdown})
      OBVIOUS
    <3> QED
      BY <2>2, <3>1 DEF Close, FifosType
  <2> QED
    BY <2>1, <2>2
<1> QED
  BY <1>1 DEF Close, FifosType, ProcsType, ServerType, MesgType, Room!TypeOK, server, n_clients

LEMMA NextType == TypeOK /\ [Next]_vars => TypeOK'
<1> SUFFICES ASSUME TypeOK, [Next]_vars PROVE TypeOK'
  OBVIOUS
<1> USE DEF TypeOK
<1>1. CASE Start \/ CheckSources \/ EndHandleClient \/ EndScan \/ BeginRemoval \/ Exit
  <2>1. FifosType' /\ ProcsType' /\ Room!TypeOK' /\ MesgType'
    BY <1>1 DEF Start, CheckSources, EndHandleClient, EndScan, BeginRemoval, Exit, FifosType,
                ProcsType, Room!TypeOK, MesgType, fifos, procs
  <2>2. ServerType'
    BY <1>1 DEF Start, CheckSources, EndHandleClient, EndScan, BeginRemoval, Exit, ServerType,
                n_clients, Members
  <2> QED
    BY <2>1, <2>2
<1>2. CASE HandleJoin
  <2>1. Head(joinFifo) \in Client /\ Tail(joinFifo) \in Seq(Client)
    BY <1>2 DEF HandleJoin, FifosType
  <2>2. mesg' \in Requests /\ joinFifo' \in Seq(Client)
    BY <1>2, <2>1 DEF HandleJoin, Request, Requests
  <2> QED
    BY <1>2, <2>2 DEF HandleJoin, ServerType, MesgType, FifosType, ProcsType, Room!TypeOK,
                      n_clients, procs
<1>3. CASE Broadcast \/ BroadcastShutdown
  <2>1. Write /\ mesg \in Mesg \cup {Shutdown}
    BY <1>3 DEF Broadcast, BroadcastShutdown, MesgType
  <2> QED
    BY <2>1, WriteType
<1>4. CASE RemoveClient
  <2>1. client' \in Seq(Client) /\ Len(client') <= MaxClients
    <3>1. i \in 1..Len(client) /\ client \in Seq(Client)
      BY <1>4 DEF RemoveClient, ServerType, n_clients
    <3>2. RemoveAt(client, i) \in Seq(Client) /\ Len(RemoveAt(client, i)) = Len(client) - 1
      BY <3>1, RemoveAtType
    <3> QED
      BY <1>4, <3>1, <3>2 DEF RemoveClient, ServerType, n_clients
  <2>2. ServerType'
    BY <1>4, <2>1 DEF RemoveClient, ServerType, n_clients
  <2>3. MesgType' /\ FifosType' /\ ProcsType' /\ Room!TypeOK'
    BY <1>4 DEF RemoveClient, MesgType, FifosType, ProcsType, Room!TypeOK, fifos, procs
  <2> QED
    BY <2>2, <2>3
<1>5. ASSUME NEW s \in Signal, Interrupt(s) PROVE TypeOK'
  BY <1>5 DEF Interrupt, ServerType, MesgType, FifosType, ProcsType, Room!TypeOK, n_clients,
              fifos, procs
<1>6. ASSUME NEW c \in Client, OpenJoin(c) \/ EndOfInput(c) PROVE TypeOK'
  BY <1>6 DEF OpenJoin, EndOfInput, ServerType, MesgType, FifosType, ProcsType, Room!TypeOK,
              n_clients, fifos, server
<1>7. ASSUME NEW c \in Client, RequestJoin(c) PROVE TypeOK'
  <2>1. joinFifo' \in Seq(Client)
    BY <1>7 DEF RequestJoin, FifosType
  <2> QED
    BY <1>7, <2>1 DEF RequestJoin, ServerType, MesgType, FifosType, ProcsType, Room!TypeOK,
                      n_clients, server
<1>8. ASSUME NEW c \in Client, Announce(c) PROVE TypeOK'
  BY <1>8, WriteToServerType, ClientMesg DEF Announce, ProcsType
<1>9. ASSUME NEW c \in Client, TypeLine(c) PROVE TypeOK'
  <2>1. lines[c] + 1 \in 1..MaxLines
    BY <1>9 DEF TypeLine, ProcsType
  <2>2. ProcsType'
    BY <1>9, <2>1 DEF TypeLine, ProcsType
  <2> QED
    BY <1>9, <2>1, <2>2, WriteToServerType, ClientMesg DEF TypeLine
<1>10. ASSUME NEW c \in Client, Depart(c) PROVE TypeOK'
  BY <1>10, WriteToServerType, ClientMesg DEF Depart, ProcsType
<1>11. ASSUME NEW c \in Client, ShowMesg(c) PROVE TypeOK'
  <2>1. Head(to_client[c]) \in Mesg
    BY <1>11 DEF ShowMesg, FifosType
  <2>2. shown' \in [Client -> Seq(Room!Mesg)]
    BY <1>11, <2>1 DEF ShowMesg, Mesg, Room!TypeOK
  <2>3. to_client' \in [Client -> Seq(Mesg \cup {Shutdown})]
    BY <1>11 DEF ShowMesg, FifosType
  <2> QED
    BY <1>11, <2>2, <2>3 DEF ShowMesg, ServerType, MesgType, FifosType, ProcsType, Room!TypeOK,
                             n_clients, server, procs
<1>12. ASSUME NEW c \in Client, ShowShutdown(c) PROVE TypeOK'
  <2>1. to_client' \in [Client -> Seq(Mesg \cup {Shutdown})]
    BY <1>12 DEF ShowShutdown, FifosType
  <2> QED
    BY <1>12, <2>1 DEF ShowShutdown, ServerType, MesgType, FifosType, ProcsType, Room!TypeOK,
                       n_clients, server
<1>13. ASSUME NEW c \in Client, Close(c) PROVE TypeOK'
  BY <1>13, CloseType
<1>14. CASE UNCHANGED vars
  BY <1>14 DEF vars, server, fifos, procs, ServerType, MesgType, FifosType, ProcsType,
               Room!TypeOK, n_clients
<1> QED
  BY <1>1, <1>2, <1>3, <1>4, <1>5, <1>6, <1>7, <1>8, <1>9, <1>10, <1>11, <1>12, <1>13, <1>14,
     AddClientType, HandleClientType
     DEF Next, ServerStep, ClientStep, ListenStep, UserStep, Leave, Kill

\* The types, the size of the array among them, hold in every reachable state.
THEOREM TypeCorrect == Spec => []TypeOK
BY InitType, NextType, PTL DEF Spec

-----------------------------------------------------------------------------
(* No read blocks *)

\* join_ready is set only between select and server_handle_join, and a request
\* waits until that is called; a flagged client is a member, and its FIFO is
\* not empty until its turn has come.  Members only come while the server runs,
\* nobody else reads these FIFOs, and the kernel drops their contents only if
\* the server does not hold them open.
FlagsInv ==
    /\ srv \in {"start", "check", "scan", "broadcast"} => join_ready = 0
    /\ srv = "join" => joinFifo # << >>
    /\ srv \in {"join", "add", "scan", "broadcast"} => \A c \in data_ready :
          /\ c \in Members
          /\ to_server[c] = << >> => srv = "broadcast" /\ c = client[i]

LEMMA InitFlags == Init => FlagsInv
BY DEF Init, FlagsInv

\* What a client does to its own to-server FIFO keeps the flags true.
LEMMA WriteToServerFlags ==
    ASSUME TypeOK, FlagsInv, NEW c \in Client, NEW m \in Mesg, WriteToServer(c, m)
    PROVE  FlagsInv'
<1>1. \A d \in Client : to_server[d] # << >> => to_server'[d] # << >>
  BY DEF WriteToServer, TypeOK, FifosType
<1>2. Members' = Members
  BY DEF WriteToServer, server, Members, n_clients
<1> QED
  BY <1>1, <1>2 DEF FlagsInv, WriteToServer, server, TypeOK, ServerType

LEMMA NextFlags == TypeOK /\ FlagsInv /\ [Next]_vars => FlagsInv'
<1> SUFFICES ASSUME TypeOK, FlagsInv, [Next]_vars PROVE FlagsInv'
  OBVIOUS
<1> USE DEF FlagsInv
<1>1. CASE Start
  BY <1>1 DEF Start
<1>2. CASE CheckSources
  BY <1>2 DEF CheckSources, fifos, Members, n_clients, TypeOK, ServerType
<1>3. CASE HandleJoin
  BY <1>3 DEF HandleJoin, Members, n_clients
<1>4. CASE AddClient
  <2>1. Members \subseteq Members'
    <3>1. CASE n_clients = MaxClients
      BY <1>4, <3>1 DEF AddClient, Members, n_clients
    <3>2. CASE n_clients # MaxClients
      BY <1>4, <3>2 DEF AddClient, Members, n_clients, TypeOK, ServerType
    <3> QED
      BY <3>1, <3>2
  <2> QED
    BY <1>4, <2>1 DEF AddClient, fifos
<1>5. CASE HandleClient
  <2>1. PICK k \in 1..n_clients :
          /\ to_server' = [to_server EXCEPT ![client[k]] = Tail(@)]
          /\ i' = k
    BY <1>5 DEF HandleClient
  <2>2. \A c \in Client : c # client[k] => to_server'[c] = to_server[c]
    BY <2>1 DEF TypeOK, FifosType
  <2>3. data_ready' = data_ready /\ Members' = Members /\ client' = client
    BY <1>5 DEF HandleClient, Members, n_clients
  <2> QED
    BY <1>5, <2>1, <2>2, <2>3 DEF HandleClient, TypeOK, ServerType
<1>6. CASE Broadcast \/ BroadcastShutdown
  BY <1>6 DEF Broadcast, BroadcastShutdown, Write, Members, n_clients
<1>7. CASE EndHandleClient
  BY <1>7 DEF EndHandleClient, fifos, Members, n_clients
<1>8. CASE EndScan \/ BeginRemoval \/ Exit
  BY <1>8 DEF EndScan, BeginRemoval, Exit
<1>9. CASE RemoveClient
  BY <1>9 DEF RemoveClient
<1>10. ASSUME NEW s \in Signal, Interrupt(s) PROVE FlagsInv'
  BY <1>10 DEF Interrupt
<1>11. ASSUME NEW c \in Client, OpenJoin(c) \/ EndOfInput(c) \/ ShowMesg(c) \/ ShowShutdown(c)
       PROVE  FlagsInv'
  BY <1>11 DEF OpenJoin, EndOfInput, ShowMesg, ShowShutdown, server, fifos, Members, n_clients
<1>12. ASSUME NEW c \in Client, RequestJoin(c) PROVE FlagsInv'
  <2>1. joinFifo' # << >>
    <3>1. joinFifo \in Seq(Client)
      BY DEF TypeOK, FifosType
    <3>2. joinFifo' = Append(joinFifo, c)
      BY <1>12 DEF RequestJoin
    <3> QED
      BY <3>1, <3>2
  <2> QED
    BY <1>12, <2>1 DEF RequestJoin, server, Members, n_clients
<1>13. ASSUME NEW c \in Client, Announce(c) \/ TypeLine(c) \/ Depart(c) PROVE FlagsInv'
  <2>1. \E m \in Mesg : WriteToServer(c, m)
    <3>1. CASE TypeLine(c)
      <4>1. lines[c] + 1 \in 1..MaxLines
        BY <3>1 DEF TypeLine, TypeOK, ProcsType
      <4> QED
        BY <3>1, <4>1, ClientMesg DEF TypeLine
    <3> QED
      BY <1>13, <3>1, ClientMesg DEF Announce, Depart
  <2> QED
    BY <2>1, WriteToServerFlags
<1>14. ASSUME NEW c \in Client, Close(c) PROVE FlagsInv'
  <2>1. Members' = Members /\ UNCHANGED server /\ joinFifo' = joinFifo
    BY <1>14 DEF Close, server, Members, n_clients
  <2>2. \A d \in Members : to_server'[d] = to_server[d]
    <3>1. CASE c \in Members
      BY <1>14, <3>1 DEF Close
    <3>2. CASE c \notin Members
      <4>1. to_server' = [to_server EXCEPT ![c] = << >>]
        BY <1>14, <3>2 DEF Close
      <4>2. Members \subseteq Client
        BY DEF Members, n_clients, TypeOK, ServerType
      <4> QED
        BY <3>2, <4>1, <4>2 DEF TypeOK, FifosType
    <3> QED
      BY <3>1, <3>2
  <2> QED
    BY <2>1, <2>2 DEF server
<1>15. CASE UNCHANGED vars
  BY <1>15 DEF vars, server, fifos, Members, n_clients
<1> QED
  BY <1>1, <1>2, <1>3, <1>4, <1>5, <1>6, <1>7, <1>8, <1>9, <1>10, <1>11, <1>12, <1>13, <1>14, <1>15
     DEF Next, ServerStep, ClientStep, ListenStep, UserStep, Leave, Kill

\* server_handle_join and server_handle_client are called only when their read
\* finds a record: main's single thread never sleeps anywhere but in select or
\* in a write to a full FIFO.
THEOREM ReadsNeverBlock == Spec => []ReadsFindData
<1>1. TypeOK /\ FlagsInv => ReadsFindData
  BY DEF FlagsInv, ReadsFindData, NextReady, TypeOK, ServerType
<1> QED
  BY <1>1, InitType, NextType, InitFlags, NextFlags, PTL DEF Spec

HIDE BlatherAssumption

-----------------------------------------------------------------------------
(* What a read and a write do to the contents of a FIFO *)

LEMMA WriteElements ==
    ASSUME NEW S, NEW q \in Seq(S), NEW x \in S
    PROVE  /\ Len(Append(q, x)) = Len(q) + 1
           /\ \A k \in 1..Len(q) : Append(q, x)[k] = q[k]
           /\ Append(q, x)[Len(q) + 1] = x
OBVIOUS

LEMMA ReadElements ==
    ASSUME NEW S, NEW q \in Seq(S), q # << >>
    PROVE  /\ Len(q) \in Nat /\ Len(q) >= 1
           /\ Head(q) = q[1]
           /\ Len(Tail(q)) = Len(q) - 1
           /\ \A k \in 1..(Len(q) - 1) : Tail(q)[k] = q[k + 1]
OBVIOUS

LEMMA InWritten ==
    ASSUME NEW S, NEW q \in Seq(S), NEW x \in S, NEW m
    PROVE  InFifo(m, Append(q, x)) <=> InFifo(m, q) \/ m = x
BY WriteElements DEF InFifo

LEMMA InRead ==
    ASSUME NEW S, NEW q \in Seq(S), q # << >>, NEW m
    PROVE  InFifo(m, q) <=> InFifo(m, Tail(q)) \/ m = Head(q)
<1>1. ASSUME InFifo(m, q) PROVE InFifo(m, Tail(q)) \/ m = Head(q)
  <2>1. PICK k \in 1..Len(q) : q[k] = m
    BY <1>1 DEF InFifo
  <2>2. CASE k = 1
    BY <2>1, <2>2, ReadElements
  <2>3. CASE k # 1
    <3>1. k - 1 \in 1..Len(Tail(q)) /\ Tail(q)[k - 1] = q[k]
      BY <2>3, ReadElements
    <3> QED
      BY <2>1, <3>1 DEF InFifo
  <2> QED
    BY <2>2, <2>3
<1>2. ASSUME InFifo(m, Tail(q)) PROVE InFifo(m, q)
  <2>1. PICK k \in 1..Len(Tail(q)) : Tail(q)[k] = m
    BY <1>2 DEF InFifo
  <2>2. k + 1 \in 1..Len(q) /\ q[k + 1] = m
    BY <2>1, ReadElements
  <2> QED
    BY <2>2 DEF InFifo
<1>3. ASSUME m = Head(q) PROVE InFifo(m, q)
  BY <1>3, ReadElements DEF InFifo
<1> QED
  BY <1>1, <1>2, <1>3

-----------------------------------------------------------------------------
(* A client is added once *)

Waiting(c) == InFifo(c, joinFifo) \/ (srv = "add" /\ mesg.from = c)

\* A request is written once and taken out of the join FIFO once, so that a
\* client that waits has not been added, and none waits twice.
WaitInv ==
    /\ \A c \in Client : Waiting(c) => since[c] = Outside
    /\ \A c \in Client : proc[c] \in {"setup", "request"} => since[c] = Outside /\ ~Waiting(c)
    /\ \A k, l \in 1..Len(joinFifo) : joinFifo[k] = joinFifo[l] => k = l
    /\ srv = "add" => ~InFifo(mesg.from, joinFifo)

LEMMA InitWait == Init => WaitInv
BY DEF Init, WaitInv, Waiting, InFifo

LEMMA NextWait == TypeOK /\ WaitInv /\ [Next]_vars => WaitInv'
<1> SUFFICES ASSUME TypeOK, WaitInv, [Next]_vars PROVE WaitInv'
  OBVIOUS
<1> USE DEF WaitInv
<1>1. CASE Start \/ CheckSources \/ HandleClient \/ Broadcast \/ EndHandleClient \/ EndScan
           \/ BroadcastShutdown \/ BeginRemoval \/ RemoveClient \/ Exit
           \/ (\E s \in Signal : Interrupt(s))
  <2>1. srv' # "add" /\ joinFifo' = joinFifo /\ since' = since /\ proc' = proc
    BY <1>1 DEF Start, CheckSources, HandleClient, Broadcast, EndHandleClient, EndScan,
                BroadcastShutdown, BeginRemoval, RemoveClient, Exit, Interrupt, Write, fifos, procs
  <2> QED
    BY <2>1 DEF Waiting, InFifo
<1>2. CASE HandleJoin
  <2> DEFINE h == Head(joinFifo)
  <2>1. joinFifo \in Seq(Client) /\ joinFifo # << >>
    BY <1>2 DEF HandleJoin, TypeOK, FifosType
  <2>2. /\ srv = "join" /\ srv' = "add" /\ since' = since /\ proc' = proc
        /\ joinFifo' = Tail(joinFifo) /\ mesg' = Request(h)
    BY <1>2 DEF HandleJoin, procs
  <2>3. mesg'.from = h
    BY <2>2 DEF Request
  <2>4. \A c : Waiting(c)' <=> InFifo(c, joinFifo)
    <3> SUFFICES ASSUME NEW c PROVE Waiting(c)' <=> InFifo(c, joinFifo)
      OBVIOUS
    <3>1. InFifo(c, joinFifo) <=> InFifo(c, Tail(joinFifo)) \/ c = h
      BY <2>1, InRead
    <3>2. InFifo(c, joinFifo)' <=> InFifo(c, Tail(joinFifo))
      BY <2>2 DEF InFifo
    <3> QED
      BY <2>2, <2>3, <3>1, <3>2 DEF Waiting
  <2>5. \A k, l \in 1..Len(joinFifo') : joinFifo'[k] = joinFifo'[l] => k = l
    BY <2>1, <2>2, ReadElements
  <2>6. ~InFifo(mesg.from, joinFifo)'
    BY <2>1, <2>2, <2>3, ReadElements DEF InFifo
  <2> QED
    BY <2>2, <2>4, <2>5, <2>6 DEF Waiting
<1>3. CASE AddClient
  <2>1. srv = "add" /\ srv' = "scan" /\ joinFifo' = joinFifo /\ proc' = proc
    BY <1>3 DEF AddClient, fifos, procs
  <2>2. \A c \in Client : c # mesg.from => since'[c] = since[c]
    BY <1>3 DEF AddClient, TypeOK, Room!TypeOK
  <2>3. \A c : Waiting(c)' => Waiting(c) /\ c # mesg.from
    BY <2>1 DEF Waiting, InFifo
  <2>4. \A c \in Client : proc[c] \in {"setup", "request"} => c # mesg.from
    BY <2>1 DEF Waiting
  <2> QED
    BY <2>1, <2>2, <2>3, <2>4
<1>4. ASSUME NEW c \in Client, RequestJoin(c) PROVE WaitInv'
  <2>1. /\ joinFifo \in Seq(Client) /\ proc[c] = "request" /\ proc' = [proc EXCEPT ![c] = "announce"]
        /\ joinFifo' = Append(joinFifo, c) /\ since' = since /\ srv' = srv /\ mesg' = mesg
    BY <1>4 DEF RequestJoin, server, TypeOK, FifosType
  <2>2. \A d : InFifo(d, joinFifo)' <=> InFifo(d, joinFifo) \/ d = c
    BY <2>1, InWritten DEF InFifo
  <2>3. \A d : Waiting(d)' <=> Waiting(d) \/ d = c
    BY <2>1, <2>2 DEF Waiting
  <2>4. ~InFifo(c, joinFifo) /\ since[c] = Outside /\ (srv = "add" => mesg.from # c)
    BY <2>1 DEF Waiting
  <2>5. \A k, l \in 1..Len(joinFifo') : joinFifo'[k] = joinFifo'[l] => k = l
    BY <2>1, <2>4, WriteElements DEF InFifo
  <2>6. \A d \in Client : proc'[d] \in {"setup", "request"} => proc[d] \in {"setup", "request"} /\ d # c
    BY <2>1 DEF TypeOK, ProcsType
  <2>7. srv' = "add" => ~InFifo(mesg.from, joinFifo)'
    BY <2>1, <2>2, <2>4
  <2> QED
    BY <2>1, <2>3, <2>4, <2>5, <2>6, <2>7
<1>5. ASSUME NEW c \in Client,
             \/ OpenJoin(c) \/ Announce(c) \/ TypeLine(c) \/ EndOfInput(c) \/ ShowMesg(c)
             \/ ShowShutdown(c) \/ Depart(c) \/ Close(c)
      PROVE  WaitInv'
  <2>1. UNCHANGED server /\ joinFifo' = joinFifo /\ since' = since
    BY <1>5 DEF OpenJoin, Announce, TypeLine, EndOfInput, ShowMesg, ShowShutdown, Depart, Close,
                WriteToServer, fifos
  <2>2. \A d \in Client : proc'[d] \in {"setup", "request"} => proc[d] \in {"setup", "request"}
    BY <1>5 DEF OpenJoin, Announce, TypeLine, EndOfInput, ShowMesg, ShowShutdown, Depart, Close,
                procs, TypeOK, ProcsType
  <2> QED
    BY <2>1, <2>2 DEF Waiting, InFifo, server
<1>6. CASE UNCHANGED vars
  BY <1>6 DEF vars, server, fifos, procs, Waiting, InFifo
<1> QED
  BY <1>1, <1>2, <1>3, <1>4, <1>5, <1>6
     DEF Next, ServerStep, ClientStep, ListenStep, UserStep, Leave, Kill

-----------------------------------------------------------------------------
(* Members *)

\* Nothing is in the to-client FIFO of a client that was never added; the
\* array holds added clients only, and none of them twice.
MemberInv ==
    /\ \A c \in Client : since[c] = Outside => to_client[c] = << >> /\ shown[c] = << >>
    /\ \A k \in 1..n_clients : since[client[k]] # Outside
    /\ ~Dying => \A k, l \in 1..n_clients : client[k] = client[l] => k = l

LEMMA RemoveAtElements ==
    ASSUME NEW S, NEW s \in Seq(S), NEW n \in 1..Len(s), NEW k \in 1..(Len(s) - 1)
    PROVE  RemoveAt(s, n)[k] = IF k < n THEN s[k] ELSE s[k + 1]
<1> DEFINE l == SubSeq(s, 1, n - 1)
           r == SubSeq(s, n + 1, Len(s))
<1>1. RemoveAt(s, n) = l \o r
  BY DEF RemoveAt
<1>2. l \in Seq(S) /\ Len(l) = n - 1 /\ \A x \in 1..(n - 1) : l[x] = s[x]
  OBVIOUS
<1>3. r \in Seq(S) /\ Len(r) = Len(s) - n /\ \A x \in 1..(Len(s) - n) : r[x] = s[x + n]
  OBVIOUS
<1> HIDE DEF l, r
<1>4. CASE k < n
  BY <1>1, <1>2, <1>3, <1>4
<1>5. CASE k >= n
  <2>1. k - (n - 1) \in 1..Len(r) /\ (k - (n - 1)) + n = k + 1
    BY <1>3, <1>5
  <2>2. (l \o r)[k] = r[k - Len(l)]
    BY <1>2, <1>3, <1>5
  <2>3. r[k - (n - 1)] = s[k + 1]
    BY <1>3, <2>1
  <2> QED
    BY <1>1, <1>2, <1>5, <2>2, <2>3
<1> QED
  BY <1>4, <1>5

LEMMA InitMember == Init => MemberInv
BY DEF Init, MemberInv, n_clients

LEMMA NextMember == TypeOK /\ WaitInv /\ MemberInv /\ [Next]_vars => MemberInv'
<1> SUFFICES ASSUME TypeOK, WaitInv, MemberInv, [Next]_vars PROVE MemberInv'
  OBVIOUS
<1> USE DEF MemberInv
<1>1. CASE Start \/ CheckSources \/ HandleJoin \/ HandleClient \/ EndHandleClient \/ EndScan
           \/ BeginRemoval \/ Exit \/ (\E s \in Signal : Interrupt(s))
  <2>1. client' = client /\ since' = since /\ to_client' = to_client /\ shown' = shown
    BY <1>1 DEF Start, CheckSources, HandleJoin, HandleClient, EndHandleClient, EndScan,
                BeginRemoval, Exit, Interrupt, fifos
  <2>2. ~Dying' => ~Dying
    BY <1>1 DEF Start, CheckSources, HandleJoin, HandleClient, EndHandleClient, EndScan,
                BeginRemoval, Exit, Interrupt, Dying
  <2> QED
    BY <2>1, <2>2 DEF n_clients
<1>2. CASE AddClient
  <2>1. CASE n_clients = MaxClients
    BY <1>2, <2>1 DEF AddClient, n_clients, fifos, Dying
  <2>2. CASE n_clients # MaxClients
    <3> DEFINE a == mesg.from
    <3>1. a \in Client /\ since[a] = Outside
      BY <1>2 DEF AddClient, TypeOK, MesgType, Requests, WaitInv, Waiting
    <3>2. /\ client \in Seq(Client) /\ client' = Append(client, a)
          /\ to_client' = to_client /\ shown' = shown /\ ~Dying
      BY <1>2, <2>2 DEF AddClient, TypeOK, ServerType, fifos, Dying
    <3>3. since'[a] # Outside /\ \A c \in Client : c # a => since'[c] = since[c]
      <4>1. since' = [since EXCEPT ![a] = Len(log)] /\ Len(log) \in Nat
        BY <1>2, <2>2 DEF AddClient, TypeOK, Room!TypeOK
      <4> HIDE DEF a
      <4> QED
        BY <3>1, <4>1 DEF TypeOK, Room!TypeOK, Outside, Room!Outside
    <3> HIDE DEF a
    <3>4. \A k \in 1..n_clients : client[k] \in Client /\ client[k] # a
      BY <3>1, <3>2 DEF n_clients
    <3>5. \A k \in 1..Len(client') : \/ k = Len(client) + 1 /\ client'[k] = a
                                     \/ k \in 1..Len(client) /\ client'[k] = client[k]
      BY <3>1, <3>2, WriteElements
    <3>6. \A k \in 1..Len(client') : since'[client'[k]] # Outside
      BY <3>3, <3>4, <3>5 DEF n_clients
    <3>7. \A k, l \in 1..Len(client') : client'[k] = client'[l] => k = l
      BY <3>2, <3>4, <3>5 DEF n_clients
    <3> QED
      BY <3>2, <3>3, <3>6, <3>7 DEF n_clients
  <2> QED
    BY <2>1, <2>2
<1>3. CASE Broadcast \/ BroadcastShutdown
  <2>1. client' = client /\ since' = since /\ shown' = shown /\ srv' = srv
    BY <1>3 DEF Broadcast, BroadcastShutdown, Write
  <2>2. \A c \in Client : since[c] = Outside => to_client'[c] = to_client[c]
    <3>1. j \in 1..n_clients /\ to_client' = [to_client EXCEPT ![client[j]] = Append(@, mesg)]
      BY <1>3 DEF Broadcast, BroadcastShutdown, Write, TypeOK, ServerType, n_clients
    <3>2. client[j] \in Client /\ since[client[j]] # Outside
      BY <3>1 DEF TypeOK, ServerType, n_clients
    <3> QED
      BY <3>1, <3>2 DEF TypeOK, FifosType
  <2> QED
    BY <2>1, <2>2 DEF n_clients, Dying
<1>4. CASE RemoveClient
  <2>1. /\ client \in Seq(Client) /\ i \in 1..Len(client) /\ client' = RemoveAt(client, i) /\ Dying'
        /\ since' = since /\ to_client' = to_client /\ shown' = shown
    BY <1>4 DEF RemoveClient, TypeOK, ServerType, n_clients, fifos, Dying
  <2>2. Len(client') = Len(client) - 1
    BY <2>1, RemoveAtType
  <2>3. \A k \in 1..Len(client') : client'[k] = IF k < i THEN client[k] ELSE client[k + 1]
    BY <2>1, <2>2, RemoveAtElements
  <2>4. \A k \in 1..Len(client') : since'[client'[k]] # Outside
    BY <2>1, <2>2, <2>3 DEF n_clients
  <2> QED
    BY <2>1, <2>4 DEF n_clients
<1>5. ASSUME NEW c \in Client,
             OpenJoin(c) \/ RequestJoin(c) \/ Announce(c) \/ TypeLine(c) \/ EndOfInput(c) \/ Depart(c)
      PROVE  MemberInv'
  BY <1>5 DEF OpenJoin, RequestJoin, Announce, TypeLine, EndOfInput, Depart, WriteToServer, server,
              fifos, n_clients, Dying
<1>6. ASSUME NEW c \in Client, ShowMesg(c) \/ ShowShutdown(c) PROVE MemberInv'
  <2>1. UNCHANGED server /\ since' = since /\ since[c] # Outside
    BY <1>6 DEF ShowMesg, ShowShutdown
  <2>2. \A d \in Client : d # c => to_client'[d] = to_client[d] /\ shown'[d] = shown[d]
    BY <1>6 DEF ShowMesg, ShowShutdown, TypeOK, FifosType, Room!TypeOK
  <2> QED
    BY <2>1, <2>2 DEF server, n_clients, Dying
<1>7. ASSUME NEW c \in Client, Close(c) PROVE MemberInv'
  <2>1. UNCHANGED server /\ since' = since /\ shown' = shown
    BY <1>7 DEF Close
  <2>2. \A d \in Client : to_client'[d] = to_client[d] \/ to_client'[d] = << >>
    BY <1>7 DEF Close, TypeOK, FifosType
  <2> QED
    BY <2>1, <2>2 DEF server, n_clients, Dying
<1>8. CASE UNCHANGED vars
  BY <1>8 DEF vars, server, fifos, n_clients, Dying
<1> QED
  BY <1>1, <1>2, <1>3, <1>4, <1>5, <1>6, <1>7, <1>8
     DEF Next, ServerStep, ClientStep, ListenStep, UserStep, Leave, Kill

-----------------------------------------------------------------------------
(* Delivery *)

Position(c) == since[c] + Len(shown[c])

\* What waits for c is the conversation from c's position on, and after it
\* perhaps notices of the shutdown.
InStep(c) ==
    /\ Position(c) <= Len(log)
    /\ \A k \in 1..Len(to_client[c]) : to_client[c][k] # Shutdown =>
          /\ Position(c) + k <= Len(log)
          /\ to_client[c][k] = log[Position(c) + k]
    /\ \A k, l \in 1..Len(to_client[c]) :
          k < l /\ to_client[c][k] = Shutdown => to_client[c][l] = Shutdown

StreamInv == \A c \in Client : since[c] # Outside => InStep(c)

\* While the server is not being shut down nothing is missing: the stream ends
\* where the conversation ends, but for the message being broadcast.
Complete(c) ==
    /\ Position(c) + Len(to_client[c]) = Len(log) - Behind(c)
    /\ \A k \in 1..Len(to_client[c]) : to_client[c][k] # Shutdown

CompleteInv ==
    /\ srv = "broadcast" => log # << >> /\ mesg = log[Len(log)]
    /\ ~Dying => \A k \in 1..n_clients : Complete(client[k])

LEMMA InitDelivery == Init => StreamInv /\ CompleteInv
BY DEF Init, StreamInv, CompleteInv, n_clients, Room!Outside, Outside

\* A step that leaves the streams alone, and does not move the broadcast.
LEMMA StreamsUnchanged ==
    ASSUME TypeOK, StreamInv, CompleteInv,
           log' = log, since' = since, to_client' = to_client, shown' = shown,
           \/ UNCHANGED server
           \/ client' = client /\ srv' # "broadcast" /\ srv # "broadcast" /\ (~Dying' => ~Dying)
           \/ Dying'
    PROVE  StreamInv' /\ CompleteInv'
<1>1. StreamInv'
  BY DEF StreamInv, InStep, Position
<1>2. CASE UNCHANGED server
  BY <1>1, <1>2 DEF CompleteInv, Complete, Position, Behind, server, n_clients, Dying
<1>3. CASE client' = client /\ srv' # "broadcast" /\ srv # "broadcast" /\ (~Dying' => ~Dying)
  BY <1>1, <1>3 DEF CompleteInv, Complete, Position, Behind, n_clients
<1>4. CASE Dying'
  BY <1>1, <1>4 DEF CompleteInv, Dying
<1> QED
  BY <1>1, <1>2, <1>3, <1>4

LEMMA MesgNotShutdown == ASSUME NEW m \in Mesg PROVE m # Shutdown
BY DEF Mesg, Room!Mesg, Shutdown

LEMMA BehindRange ==
    ASSUME NEW c
    PROVE  Behind(c) \in {0, 1} /\ (srv # "broadcast" => Behind(c) = 0)
BY DEF Behind

LEMMA AddClientDelivery ==
    ASSUME TypeOK, WaitInv, MemberInv, StreamInv, CompleteInv, AddClient
    PROVE  StreamInv' /\ CompleteInv'
<1>1. log' = log /\ to_client' = to_client /\ shown' = shown /\ srv = "add" /\ srv' = "scan"
  BY DEF AddClient, fifos
<1>2. PICK a \in Client : a = mesg.from
  BY <1>1 DEF TypeOK, MesgType, Requests
<1>3. CASE n_clients = MaxClients
  <2>1. client' = client /\ since' = since /\ ~Dying
    BY <1>1, <1>3 DEF AddClient, Dying
  <2> QED
    BY <1>1, <2>1, StreamsUnchanged
<1>4. CASE n_clients # MaxClients
  <2>1. client \in Seq(Client) /\ client' = Append(client, a)
    BY <1>2, <1>4 DEF AddClient, TypeOK, ServerType
  <2>2. since' = [since EXCEPT ![a] = Len(log)] /\ Len(log) \in Nat
    BY <1>2, <1>4 DEF AddClient, TypeOK, Room!TypeOK
  <2>3. since'[a] = Len(log) /\ \A c \in Client : c # a => since'[c] = since[c]
    BY <2>2 DEF TypeOK, Room!TypeOK
  <2>4. since[a] = Outside /\ Len(to_client[a]) = 0 /\ Len(shown[a]) = 0
    BY <1>1, <1>2 DEF WaitInv, Waiting, MemberInv
  <2>5. Position(a)' = Len(log)
    BY <1>1, <2>2, <2>3, <2>4 DEF Position
  <2>6. \A c \in Client : c # a => Position(c)' = Position(c)
    BY <1>1, <2>3 DEF Position
  <2>7. StreamInv'
    <3>1. InStep(a)'
      BY <1>1, <2>2, <2>4, <2>5 DEF InStep
    <3>2. ASSUME NEW c \in Client, c # a, since'[c] # Outside PROVE InStep(c)'
      <4>1. InStep(c)
        BY <2>3, <3>2 DEF StreamInv
      <4> QED
        BY <1>1, <2>6, <3>2, <4>1 DEF InStep
    <3> QED
      BY <3>1, <3>2 DEF StreamInv
  <2>8. \A c \in Client : Behind(c) = 0 /\ Behind(c)' = 0
    BY <1>1 DEF Behind
  <2>9. Complete(a)'
    BY <1>1, <2>2, <2>4, <2>5, <2>8 DEF Complete
  <2>10. ASSUME NEW c \in Client, NEW k \in 1..n_clients, client[k] = c PROVE Complete(c)'
    <3>1. c # a
      BY <2>4, <2>10 DEF MemberInv
    <3>2. Complete(c)
      BY <1>1, <2>10 DEF CompleteInv, Dying
    <3> QED
      BY <1>1, <2>6, <2>8, <3>1, <3>2 DEF Complete
  <2>11. ASSUME NEW k \in 1..Len(client') PROVE Complete(client[k])'
    <3>1. \/ k = Len(client) + 1 /\ client'[k] = a
          \/ k \in 1..Len(client) /\ client'[k] = client[k] /\ client[k] \in Client
      BY <2>1, WriteElements
    <3>2. PICK c \in Client : c = client'[k]
      BY <3>1
    <3>3. Complete(c)'
      BY <2>9, <2>10, <3>1, <3>2 DEF n_clients
    <3> QED
      BY <3>2, <3>3 DEF Complete, Position, Behind
  <2> QED
    BY <1>1, <2>7, <2>11 DEF CompleteInv, n_clients
<1> QED
  BY <1>3, <1>4

LEMMA HandleClientDelivery ==
    ASSUME TypeOK, TypeOK', MemberInv, StreamInv, CompleteInv, HandleClient
    PROVE  StreamInv' /\ CompleteInv'
<1>1. /\ since' = since /\ to_client' = to_client /\ shown' = shown /\ client' = client
      /\ srv = "scan" /\ srv' = "broadcast" /\ j' = 1 /\ log' = Append(log, mesg')
  BY DEF HandleClient
<1>2. log \in Seq(Mesg) /\ mesg' \in Mesg
  BY <1>1 DEF TypeOK, MesgType, Mesg, Room!TypeOK
<1>3. /\ Len(log') = Len(log) + 1 /\ Len(log) \in Nat
      /\ \A k \in 1..Len(log) : log'[k] = log[k]
      /\ log'[Len(log')] = mesg'
  BY <1>1, <1>2, WriteElements
<1>4. \A c \in Client : Position(c)' = Position(c) /\ (since[c] # Outside => Position(c) \in Nat)
  BY <1>1 DEF Position, TypeOK, Room!TypeOK, Outside
<1>5. StreamInv'
  <2>1. ASSUME NEW c \in Client, since[c] # Outside PROVE InStep(c)'
    <3>1. InStep(c) /\ Position(c) \in Nat
      BY <1>4, <2>1 DEF StreamInv
    <3>2. ASSUME NEW k \in 1..Len(to_client[c]), to_client[c][k] # Shutdown
          PROVE  Position(c) + k <= Len(log') /\ to_client[c][k] = log'[Position(c) + k]
      <4>1. Position(c) + k <= Len(log) /\ to_client[c][k] = log[Position(c) + k]
        BY <3>1, <3>2 DEF InStep
      <4>2. Position(c) + k \in 1..Len(log) /\ Position(c) + k <= Len(log')
        BY <1>3, <3>1, <4>1
      <4> QED
        BY <1>3, <4>1, <4>2
    <3> QED
      BY <1>1, <1>3, <1>4, <3>1, <3>2 DEF InStep
  <2> QED
    BY <1>1, <2>1 DEF StreamInv
<1>6. ASSUME NEW k \in 1..n_clients PROVE Complete(client[k])'
  <2>1. PICK c \in Client : c = client[k]
    BY DEF TypeOK, ServerType, n_clients
  <2>2. Complete(c)
    BY <1>1, <2>1 DEF CompleteInv, Dying
  <2>3. Behind(c) = 0 /\ Behind(c)' = 1
    <3>1. k \in (1..n_clients)' /\ client'[k] = c
      BY <1>1, <2>1 DEF n_clients
    <3> QED
      BY <1>1, <3>1 DEF Behind
  <2>4. Complete(c)'
    BY <1>1, <1>3, <1>4, <2>2, <2>3 DEF Complete
  <2> QED
    BY <1>1, <2>1, <2>4 DEF Complete, Position, Behind
<1>7. log' # << >>
  BY <1>1, <1>2
<1> QED
  BY <1>1, <1>3, <1>5, <1>6, <1>7 DEF CompleteInv, n_clients

LEMMA BroadcastDelivery ==
    ASSUME TypeOK, MemberInv, StreamInv, CompleteInv, Broadcast
    PROVE  StreamInv' /\ CompleteInv'
<1>1. /\ since' = since /\ log' = log /\ shown' = shown /\ client' = client /\ srv' = srv
      /\ mesg' = mesg /\ srv = "broadcast" /\ j' = j + 1 /\ ~Dying
  BY DEF Broadcast, Write, Dying
<1>2. j \in 1..n_clients /\ client[j] \in Client
  BY DEF Broadcast, Write, TypeOK, ServerType, n_clients
<1>3. PICK c \in Client : c = client[j]
  BY <1>2
<1>4. PICK q \in Seq(Mesg \cup {Shutdown}) : q = to_client[c]
  BY DEF TypeOK, FifosType
<1>5. since[c] # Outside /\ Complete(c) /\ InStep(c)
  BY <1>1, <1>2, <1>3 DEF MemberInv, CompleteInv, StreamInv
<1>6. mesg \in Mesg /\ mesg # Shutdown /\ mesg = log[Len(log)] /\ log # << >> /\ Len(log) \in Nat
  BY <1>1, MesgNotShutdown DEF CompleteInv, TypeOK, MesgType, Room!TypeOK
<1>7. /\ to_client'[c] = Append(q, mesg)
      /\ \A d \in Client : d # c => to_client'[d] = to_client[d]
  BY <1>3, <1>4 DEF Broadcast, Write, TypeOK, FifosType
<1>8. /\ Len(to_client'[c]) = Len(q) + 1 /\ Len(q) \in Nat
      /\ \A k \in 1..Len(q) : to_client'[c][k] = q[k]
      /\ to_client'[c][Len(q) + 1] = mesg
  BY <1>6, <1>7, WriteElements
<1>9. \A d \in Client : Position(d)' = Position(d)
  BY <1>1 DEF Position
<1>10. Behind(c) = 1 /\ Behind(c)' = 0
  <2>1. \E k \in j..n_clients : client[k] = c
    BY <1>2, <1>3 DEF TypeOK, ServerType, n_clients
  <2>2. ~\E k \in (j + 1)..n_clients : client[k] = c
    BY <1>1, <1>2, <1>3 DEF MemberInv, TypeOK, ServerType, n_clients
  <2>3. ~\E k \in (j..n_clients)' : client'[k] = c
    BY <1>1, <2>2 DEF n_clients
  <2> QED
    BY <1>1, <2>1, <2>3 DEF Behind
<1>11. Position(c) \in Nat /\ Position(c) + Len(q) + 1 = Len(log) /\ \A k \in 1..Len(q) : q[k] # Shutdown
  <2>1. Position(c) \in Nat
    BY <1>5 DEF Position, TypeOK, Room!TypeOK, Outside
  <2> QED
    BY <1>4, <1>5, <1>6, <1>8, <1>10, <2>1 DEF Complete
<1>12. \A k \in 1..Len(to_client'[c]) :
         /\ to_client'[c][k] # Shutdown
         /\ Position(c) + k <= Len(log)
         /\ to_client'[c][k] = log[Position(c) + k]
  <2> SUFFICES ASSUME NEW k \in 1..Len(to_client'[c])
               PROVE  /\ to_client'[c][k] # Shutdown
                      /\ Position(c) + k <= Len(log)
                      /\ to_client'[c][k] = log[Position(c) + k]
    OBVIOUS
  <2>1. CASE k \in 1..Len(q)
    BY <1>4, <1>5, <1>8, <1>11, <2>1 DEF InStep
  <2>2. CASE k = Len(q) + 1
    BY <1>6, <1>8, <1>11, <2>2
  <2> QED
    BY <1>8, <2>1, <2>2
<1>13. InStep(c)'
  BY <1>1, <1>5, <1>9, <1>12 DEF InStep
<1>14. Complete(c)'
  <2>1. Position(c)' + Len(to_client'[c]) = Len(log')
    BY <1>1, <1>6, <1>8, <1>9, <1>11
  <2> QED
    BY <1>1, <1>6, <1>10, <1>12, <2>1 DEF Complete
<1>15. ASSUME NEW d \in Client, d # c, since[d] # Outside PROVE InStep(d)'
  BY <1>1, <1>7, <1>9, <1>15 DEF StreamInv, InStep
<1>16. ASSUME NEW k \in 1..n_clients PROVE Complete(client[k])'
  <2>1. PICK d \in Client : d = client[k]
    BY DEF TypeOK, ServerType, n_clients
  <2>2. Complete(d)'
    <3>1. CASE d = c
      BY <1>14, <3>1
    <3>2. CASE d # c
      <4>1. Complete(d)
        BY <1>1, <2>1 DEF CompleteInv
      <4>2. \A l \in j..n_clients : client[l] = d => l \in (j + 1)..n_clients
        BY <1>2, <1>3, <3>2 DEF TypeOK, ServerType, n_clients
      <4>3. \A l \in (j + 1)..n_clients : l \in j..n_clients
        BY <1>2 DEF TypeOK, ServerType, n_clients
      <4>4. Behind(d)' = Behind(d)
        BY <1>1, <4>2, <4>3 DEF Behind, n_clients
      <4> QED
        BY <1>1, <1>7, <1>9, <3>2, <4>1, <4>4 DEF Complete
    <3> QED
      BY <3>1, <3>2
  <2> QED
    BY <1>1, <2>1, <2>2 DEF Complete, Position, Behind
<1>17. StreamInv'
  BY <1>1, <1>13, <1>15 DEF StreamInv
<1> QED
  BY <1>1, <1>6, <1>16, <1>17 DEF CompleteInv, n_clients

LEMMA BroadcastShutdownDelivery ==
    ASSUME TypeOK, MemberInv, StreamInv, CompleteInv, BroadcastShutdown
    PROVE  StreamInv' /\ CompleteInv'
<1>1. since' = since /\ log' = log /\ shown' = shown /\ srv' = "sd_broadcast" /\ mesg = Shutdown
  BY DEF BroadcastShutdown, Write, TypeOK, MesgType
<1>2. PICK c \in Client : c = client[j] /\ since[c] # Outside
  BY DEF BroadcastShutdown, Write, TypeOK, ServerType, n_clients, MemberInv
<1>3. PICK q \in Seq(Mesg \cup {Shutdown}) : q = to_client[c]
  BY DEF TypeOK, FifosType
<1>4. InStep(c)
  BY <1>2 DEF StreamInv
<1>5. /\ to_client'[c] = Append(q, Shutdown)
      /\ \A d \in Client : d # c => to_client'[d] = to_client[d]
  BY <1>1, <1>2, <1>3 DEF BroadcastShutdown, Write, TypeOK, FifosType
<1>6. /\ Len(to_client'[c]) = Len(q) + 1 /\ Len(q) \in Nat
      /\ \A k \in 1..Len(q) : to_client'[c][k] = q[k]
      /\ to_client'[c][Len(q) + 1] = Shutdown
  BY <1>5, WriteElements
<1>7. \A d \in Client : Position(d)' = Position(d)
  BY <1>1 DEF Position
<1>8. InStep(c)'
  <2>1. \A k \in 1..Len(to_client'[c]) : to_client'[c][k] # Shutdown =>
          k \in 1..Len(q) /\ to_client'[c][k] = q[k]
    BY <1>6
  <2>2. \A k, l \in 1..Len(to_client'[c]) :
          k < l /\ to_client'[c][k] = Shutdown => to_client'[c][l] = Shutdown
    <3>1. \A k, l \in 1..Len(q) : k < l /\ q[k] = Shutdown => q[l] = Shutdown
      BY <1>3, <1>4 DEF InStep
    <3> QED
      BY <1>6, <3>1
  <2> QED
    BY <1>1, <1>3, <1>4, <1>7, <2>1, <2>2 DEF InStep
<1>9. ASSUME NEW d \in Client, d # c, since[d] # Outside PROVE InStep(d)'
  BY <1>1, <1>5, <1>7, <1>9 DEF StreamInv, InStep
<1>10. StreamInv'
  BY <1>1, <1>8, <1>9 DEF StreamInv
<1> QED
  BY <1>1, <1>10 DEF CompleteInv, Dying

LEMMA ShowDelivery ==
    ASSUME TypeOK, MemberInv, StreamInv, CompleteInv,
           NEW c \in Client, ShowMesg(c) \/ ShowShutdown(c)
    PROVE  StreamInv' /\ CompleteInv'
<1> DEFINE q == to_client[c]
<1>1. /\ UNCHANGED server /\ since' = since /\ log' = log
      /\ to_client' = [to_client EXCEPT ![c] = Tail(@)]
      /\ q # << >> /\ q \in Seq(Mesg \cup {Shutdown}) /\ since[c] # Outside
  BY DEF ShowMesg, ShowShutdown, MemberInv, TypeOK, FifosType
<1>2. /\ Len(q) \in Nat /\ Len(q) >= 1 /\ Head(q) = q[1]
      /\ Len(Tail(q)) = Len(q) - 1
      /\ \A k \in 1..(Len(q) - 1) : Tail(q)[k] = q[k + 1]
  BY <1>1, ReadElements
<1> HIDE DEF q
<1>3. to_client'[c] = Tail(q) /\ to_client[c] = q /\ \A d \in Client : d # c => to_client'[d] = to_client[d]
  BY <1>1 DEF TypeOK, FifosType, q
<1>4. InStep(c) /\ Position(c) \in Nat
  BY <1>1 DEF StreamInv, Position, TypeOK, Room!TypeOK, Outside
<1>5. \A d \in Client : d # c => Position(d)' = Position(d)
  BY <1>1 DEF ShowMesg, ShowShutdown, Position, TypeOK, Room!TypeOK
<1>6. ASSUME NEW d \in Client, d # c, since[d] # Outside PROVE InStep(d)'
  BY <1>1, <1>3, <1>5, <1>6 DEF StreamInv, InStep
<1>7. ASSUME NEW d \in Client, d # c, Complete(d) PROVE Complete(d)'
  <2>1. Behind(d)' = Behind(d)
    BY <1>1 DEF Behind, server, n_clients
  <2> QED
    BY <1>1, <1>3, <1>5, <1>7, <2>1 DEF Complete
<1>8. InStep(c)' /\ (Complete(c) => Complete(c)')
  <2>1. CASE ShowMesg(c)
    <3>1. q[1] # Shutdown /\ Position(c) + 1 <= Len(log) /\ Position(c)' = Position(c) + 1
      <4>1. shown' = [shown EXCEPT ![c] = Append(@, Head(q))] /\ q[1] # Shutdown
        BY <1>2, <2>1 DEF ShowMesg, q
      <4>2. Len(shown'[c]) = Len(shown[c]) + 1
        BY <4>1 DEF TypeOK, Room!TypeOK
      <4> QED
        BY <1>1, <1>2, <1>3, <1>4, <4>1, <4>2 DEF InStep, Position, TypeOK, Room!TypeOK, Outside
    <3>2. InStep(c)'
      <4>1. \A k \in 1..Len(to_client'[c]) : k + 1 \in 1..Len(q) /\ to_client'[c][k] = q[k + 1]
        BY <1>2, <1>3
      <4>2. ASSUME NEW k \in 1..Len(to_client'[c]), to_client'[c][k] # Shutdown
            PROVE  Position(c)' + k <= Len(log) /\ to_client'[c][k] = log[Position(c)' + k]
        <5>1. Position(c) + (k + 1) = Position(c)' + k
          BY <1>4, <3>1
        <5> QED
          BY <1>3, <1>4, <4>1, <4>2, <5>1 DEF InStep
      <4> QED
        BY <1>1, <1>3, <1>4, <3>1, <4>1, <4>2 DEF InStep
    <3>3. ASSUME Complete(c) PROVE Complete(c)'
      <4>1. Behind(c)' = Behind(c)
        BY <1>1 DEF Behind, server, n_clients
      <4> QED
        BY <1>1, <1>2, <1>3, <1>4, <3>1, <3>3, <4>1 DEF Complete, Behind
    <3> QED
      BY <3>2, <3>3
  <2>2. CASE ShowShutdown(c)
    <3>1. q[1] = Shutdown /\ Position(c)' = Position(c)
      BY <1>1, <1>2, <2>2 DEF ShowShutdown, Position, q
    <3>2. ~Complete(c)
      BY <1>2, <1>3, <3>1 DEF Complete
    <3>3. ASSUME NEW k \in 1..Len(to_client'[c]) PROVE to_client'[c][k] = Shutdown
      <4>1. k + 1 \in 1..Len(q) /\ 1 \in 1..Len(q) /\ 1 < k + 1 /\ to_client'[c][k] = q[k + 1]
        BY <1>2, <1>3, <3>3
      <4> QED
        BY <1>3, <1>4, <3>1, <4>1 DEF InStep
    <3> QED
      BY <1>1, <1>4, <3>1, <3>2, <3>3 DEF InStep
  <2> QED
    BY <2>1, <2>2
<1>9. StreamInv'
  BY <1>1, <1>6, <1>8 DEF StreamInv
<1>10. ASSUME ~Dying, NEW k \in 1..n_clients PROVE Complete(client[k])'
  <2>1. PICK d \in Client : d = client[k] /\ Complete(d)
    BY <1>10 DEF CompleteInv, TypeOK, ServerType, n_clients
  <2>2. Complete(d)'
    BY <1>7, <1>8, <2>1
  <2> QED
    BY <1>1, <2>1, <2>2 DEF server, Complete, Position, Behind
<1> QED
  BY <1>1, <1>9, <1>10 DEF CompleteInv, server, n_clients, Dying

LEMMA CloseDelivery ==
    ASSUME TypeOK, MemberInv, StreamInv, CompleteInv, NEW c \in Client, Close(c)
    PROVE  StreamInv' /\ CompleteInv'
<1>1. UNCHANGED server /\ since' = since /\ log' = log /\ shown' = shown
  BY DEF Close
<1>2. CASE c \in Members
  BY <1>1, <1>2, StreamsUnchanged DEF Close
<1>3. CASE c \notin Members
  <2>1. to_client'[c] = << >> /\ \A d \in Client : d # c => to_client'[d] = to_client[d]
    BY <1>3 DEF Close, TypeOK, FifosType
  <2>2. \A d \in Client : Position(d)' = Position(d)
    BY <1>1 DEF Position
  <2>3. ASSUME NEW d \in Client, since[d] # Outside PROVE InStep(d)'
    <3>1. CASE d = c
      BY <1>1, <2>1, <2>2, <2>3, <3>1 DEF StreamInv, InStep
    <3>2. CASE d # c
      BY <1>1, <2>1, <2>2, <2>3, <3>2 DEF StreamInv, InStep
    <3> QED
      BY <3>1, <3>2
  <2>4. ASSUME ~Dying, NEW k \in 1..n_clients PROVE Complete(client[k])'
    <3>1. PICK d \in Client : d = client[k] /\ d # c /\ Complete(d)
      BY <1>3, <2>4 DEF Members, CompleteInv, TypeOK, ServerType, n_clients
    <3>2. Behind(d)' = Behind(d)
      BY <1>1 DEF Behind, server, n_clients
    <3>3. Complete(d)'
      BY <1>1, <2>1, <2>2, <3>1, <3>2 DEF Complete
    <3> QED
      BY <1>1, <3>1, <3>3 DEF server, Complete, Position, Behind
  <2> QED
    BY <1>1, <2>3, <2>4 DEF StreamInv, CompleteInv, server, n_clients, Dying
<1> QED
  BY <1>2, <1>3

LEMMA NextDelivery ==
    ASSUME TypeOK, TypeOK', WaitInv, MemberInv, StreamInv, CompleteInv, [Next]_vars
    PROVE  StreamInv' /\ CompleteInv'
<1>1. CASE Start \/ CheckSources \/ HandleJoin \/ EndScan \/ BeginRemoval \/ Exit
           \/ RemoveClient \/ (\E s \in Signal : Interrupt(s))
  <2>1. log' = log /\ since' = since /\ to_client' = to_client /\ shown' = shown
    BY <1>1 DEF Start, CheckSources, HandleJoin, EndScan, BeginRemoval, Exit, RemoveClient,
                Interrupt, fifos
  <2>2. \/ client' = client /\ srv' # "broadcast" /\ srv # "broadcast" /\ (~Dying' => ~Dying)
        \/ Dying'
    BY <1>1 DEF Start, CheckSources, HandleJoin, EndScan, BeginRemoval, Exit, RemoveClient,
                Interrupt, Dying
  <2> QED
    BY <2>1, <2>2, StreamsUnchanged
<1>2. CASE EndHandleClient
  <2>1. /\ log' = log /\ since' = since /\ to_client' = to_client /\ shown' = shown
        /\ client' = client /\ srv = "broadcast" /\ srv' = "scan" /\ j > n_clients
    BY <1>2 DEF EndHandleClient, fifos
  <2>2. StreamInv'
    BY <2>1 DEF StreamInv, InStep, Position
  <2>3. ASSUME NEW c PROVE Behind(c) = 0 /\ Behind(c)' = 0
    BY <2>1 DEF Behind, TypeOK, ServerType, n_clients
  <2>4. ASSUME NEW k \in 1..n_clients PROVE Complete(client[k])'
    <3>1. Complete(client[k])
      BY <2>1 DEF CompleteInv, Dying
    <3>2. Position(client[k])' = Position(client[k])
      BY <2>1 DEF Position
    <3> QED
      BY <2>1, <2>3, <3>1, <3>2 DEF Complete
  <2> QED
    BY <2>1, <2>2, <2>4 DEF CompleteInv, n_clients
<1>3. ASSUME NEW c \in Client,
             \/ OpenJoin(c) \/ RequestJoin(c) \/ Announce(c) \/ TypeLine(c) \/ EndOfInput(c)
             \/ Depart(c)
      PROVE  StreamInv' /\ CompleteInv'
  <2>1. UNCHANGED server /\ log' = log /\ since' = since /\ to_client' = to_client /\ shown' = shown
    BY <1>3 DEF OpenJoin, RequestJoin, Announce, TypeLine, EndOfInput, Depart, WriteToServer, fifos
  <2> QED
    BY <2>1, StreamsUnchanged
<1>4. CASE UNCHANGED vars
  BY <1>4, StreamsUnchanged DEF vars, fifos
<1> QED
  BY <1>1, <1>2, <1>3, <1>4, AddClientDelivery, HandleClientDelivery, BroadcastDelivery,
     BroadcastShutdownDelivery, ShowDelivery, CloseDelivery
     DEF Next, ServerStep, ClientStep, ListenStep, UserStep, Leave, Kill

\* The invariant of the proof, in its parts.
IInv == TypeOK /\ WaitInv /\ MemberInv /\ StreamInv /\ CompleteInv

LEMMA Invariance == Spec => []IInv
<1>1. Init => IInv
  BY InitType, InitWait, InitMember, InitDelivery DEF IInv
<1>2. IInv /\ [Next]_vars => IInv'
  BY NextType, NextWait, NextMember, NextDelivery DEF IInv
<1> QED
  BY <1>1, <1>2, PTL DEF Spec

\* Nothing is lost, repeated or put out of order between the server's read and
\* a member's terminal, however the processes interleave, whoever is killed and
\* however often the server has to wait for a full FIFO.
THEOREM NothingIsMissing == Spec => []DeliveryComplete
<1>1. IInv => DeliveryComplete
  <2> SUFFICES ASSUME IInv, ~Dying, NEW c \in Members
               PROVE  /\ since[c] + Len(shown[c]) + Len(to_client[c]) = Len(log) - Behind(c)
                      /\ \A k \in 1..Len(to_client[c]) :
                            to_client[c][k] = log[since[c] + Len(shown[c]) + k]
    BY DEF DeliveryComplete
  <2>1. PICK k \in 1..n_clients : client[k] = c
    BY DEF Members
  <2>2. c \in Client /\ since[c] # Outside /\ Complete(c)
    BY <2>1 DEF IInv, TypeOK, ServerType, n_clients, MemberInv, CompleteInv
  <2>3. InStep(c)
    BY <2>2 DEF IInv, StreamInv
  <2> QED
    BY <2>2, <2>3 DEF Complete, InStep, Position
<1> QED
  BY <1>1, Invariance, PTL

-----------------------------------------------------------------------------
(* The shutdown *)

Listens(c) == Was(c) /\ proc[c] \in {"request", "announce", "chat"}
Told(c)    == InFifo(Shutdown, to_client[c])

\* Who has been added and listens is a member until the array is taken apart, and
\* by then has been told: at each point of the broadcast of BL_SHUTDOWN who has not
\* been told is in a slot that is still to come.  A second signal starts that
\* broadcast again with the members that are left, and who is not among them has
\* been told by the first one.
ToldInv ==
    \A c \in Client : Listens(c) =>
        /\ ~Dying => c \in Members
        /\ srv = "sd_broadcast" => Told(c) \/ \E k \in j..n_clients : client[k] = c
        /\ srv \in {"sd_remove", "exited"} => Told(c)

\* A step of a client, or none: nobody starts to listen, and who goes on to has
\* what it had.
LEMMA ToldUnchanged ==
    ASSUME ToldInv, UNCHANGED <<srv, client, j>>,
           \A c \in Client : Listens(c)' => Listens(c) /\ (Told(c) => Told(c)')
    PROVE  ToldInv'
BY DEF ToldInv, Dying, Members, n_clients

LEMMA BroadcastShutdownTold ==
    ASSUME TypeOK, MemberInv, ToldInv, BroadcastShutdown
    PROVE  ToldInv'
<1>1. /\ srv = "sd_broadcast" /\ srv' = srv /\ client' = client /\ since' = since /\ proc' = proc
      /\ mesg = Shutdown /\ j \in 1..n_clients /\ j' = j + 1
      /\ to_client' = [to_client EXCEPT ![client[j]] = Append(@, mesg)]
  BY DEF BroadcastShutdown, Write, procs, TypeOK, ServerType, MesgType
<1>2. PICK d \in Client : d = client[j]
  BY <1>1 DEF TypeOK, ServerType, n_clients
<1>3. Told(d)'
  <2>1. to_client'[d] = Append(to_client[d], Shutdown) /\ to_client[d] \in Seq(Mesg \cup {Shutdown})
    BY <1>1, <1>2 DEF TypeOK, FifosType
  <2>2. InFifo(Shutdown, Append(to_client[d], Shutdown))
    BY <2>1, InWritten
  <2> QED
    BY <2>1, <2>2 DEF Told, InFifo
<1>4. ASSUME NEW c \in Client, c # d, Listens(c)
      PROVE  Told(c)' \/ \E k \in (j + 1)..n_clients : client[k] = c
  <2>1. Told(c)' <=> Told(c)
    BY <1>1, <1>2, <1>4 DEF Told, InFifo, TypeOK, FifosType
  <2>2. Told(c) \/ \E k \in j..n_clients : client[k] = c
    BY <1>1, <1>4 DEF ToldInv
  <2>3. \A k \in j..n_clients : k = j \/ k \in (j + 1)..n_clients
    BY <1>1 DEF n_clients
  <2> QED
    BY <1>2, <1>4, <2>1, <2>2, <2>3
<1>5. \A c \in Client : Listens(c)' => Listens(c)
  BY <1>1 DEF Listens, Was
<1>6. n_clients' = n_clients
  BY <1>1 DEF n_clients
<1> QED
  BY <1>1, <1>3, <1>4, <1>5, <1>6 DEF ToldInv, Dying

LEMMA InitTold == Init => ToldInv
BY DEF Init, ToldInv, Listens, Was

LEMMA NextTold ==
    ASSUME TypeOK, WaitInv, MemberInv, ToldInv, [Next]_vars
    PROVE  ToldInv'
<1>1. CASE Start \/ CheckSources \/ HandleJoin \/ HandleClient \/ Broadcast \/ EndHandleClient \/ EndScan
  <2>1. ~Dying /\ ~Dying' /\ client' = client /\ since' = since /\ proc' = proc
    BY <1>1 DEF Start, CheckSources, HandleJoin, HandleClient, Broadcast, EndHandleClient, EndScan,
                Write, Dying, procs
  <2> QED
    BY <2>1 DEF ToldInv, Listens, Was, Members, n_clients, Dying
<1>2. CASE AddClient
  <2>1. ~Dying /\ ~Dying' /\ proc' = proc
    BY <1>2 DEF AddClient, Dying, procs
  <2>2. CASE n_clients = MaxClients
    BY <1>2, <2>1, <2>2 DEF AddClient, ToldInv, Listens, Was, Members, n_clients, Dying
  <2>3. CASE n_clients # MaxClients
    <3>1. PICK a \in Client : a = mesg.from
      BY <1>2 DEF AddClient, TypeOK, MesgType, Requests
    <3>2. client \in Seq(Client) /\ client' = Append(client, a)
      BY <1>2, <2>3, <3>1 DEF AddClient, TypeOK, ServerType
    <3>3. \A c \in Client : c # a => since'[c] = since[c]
      BY <1>2, <2>3, <3>1 DEF AddClient, TypeOK, Room!TypeOK
    <3>4. Members \subseteq Members' /\ a \in Members'
      BY <3>2, WriteElements DEF Members, n_clients
    <3> QED
      BY <2>1, <3>3, <3>4 DEF ToldInv, Listens, Was, Dying
  <2> QED
    BY <2>2, <2>3
<1>3. ASSUME NEW s \in Signal, Interrupt(s) PROVE ToldInv'
  <2>1. /\ srv' = "sd_broadcast" /\ srv # "exited" /\ j' = 1 /\ client' = client
        /\ UNCHANGED <<to_client, since, proc>>
    BY <1>3 DEF Interrupt, fifos, procs
  <2>2. \A c \in Client : /\ Listens(c)' <=> Listens(c)
                          /\ Told(c)' <=> Told(c)
    BY <2>1 DEF Listens, Was, Told, InFifo
  <2>3. ASSUME NEW c \in Client, Listens(c) PROVE Told(c) \/ \E k \in 1..n_clients : client[k] = c
    <3>1. CASE ~Dying
      BY <2>3, <3>1 DEF ToldInv, Members
    <3>2. CASE srv = "sd_broadcast"
      <4>1. \A k \in j..n_clients : k \in 1..n_clients
        BY DEF TypeOK, ServerType, n_clients
      <4> QED
        BY <2>3, <3>2, <4>1 DEF ToldInv
    <3>3. CASE srv = "sd_remove"
      BY <2>3, <3>3 DEF ToldInv
    <3> QED
      BY <2>1, <3>1, <3>2, <3>3 DEF Dying
  <2> QED
    BY <2>1, <2>2, <2>3 DEF ToldInv, Dying, n_clients
<1>4. CASE BroadcastShutdown
  BY <1>4, BroadcastShutdownTold
<1>5. CASE BeginRemoval
  <2>1. ~\E k \in j..n_clients : TRUE
    BY <1>5 DEF BeginRemoval, TypeOK, ServerType, n_clients
  <2>2. /\ srv = "sd_broadcast" /\ srv' = "sd_remove"
        /\ \A c \in Client : (Listens(c)' <=> Listens(c)) /\ (Told(c)' <=> Told(c))
    BY <1>5 DEF BeginRemoval, Listens, Was, Told, InFifo, fifos, procs
  <2> QED
    BY <2>1, <2>2 DEF ToldInv, Dying
<1>6. CASE RemoveClient \/ Exit
  <2>1. /\ srv = "sd_remove" /\ srv' \in {"sd_remove", "exited"}
        /\ \A c \in Client : (Listens(c)' <=> Listens(c)) /\ (Told(c)' <=> Told(c))
    BY <1>6 DEF RemoveClient, Exit, Listens, Was, Told, InFifo, fifos, procs
  <2> QED
    BY <2>1 DEF ToldInv, Dying
<1>7. ASSUME NEW c \in Client,
             \/ OpenJoin(c) \/ RequestJoin(c) \/ Announce(c) \/ TypeLine(c) \/ EndOfInput(c)
             \/ Depart(c)
      PROVE  ToldInv'
  <2>1. UNCHANGED <<srv, client, j, since, to_client>>
    BY <1>7 DEF OpenJoin, RequestJoin, Announce, TypeLine, EndOfInput, Depart, WriteToServer, server,
                fifos
  <2>2. \A d \in Client : proc'[d] \in {"request", "announce", "chat"} =>
                             proc[d] \in {"setup", "request", "announce", "chat"}
    BY <1>7 DEF OpenJoin, RequestJoin, Announce, TypeLine, EndOfInput, Depart, TypeOK, ProcsType
  <2>3. \A d \in Client : Listens(d)' => Listens(d) /\ (Told(d) => Told(d)')
    BY <2>1, <2>2 DEF Listens, Was, Told, InFifo, WaitInv
  <2> QED
    BY <2>1, <2>3, ToldUnchanged
<1>8. ASSUME NEW c \in Client, ShowMesg(c) \/ ShowShutdown(c) PROVE ToldInv'
  <2>1. UNCHANGED <<srv, client, j, since>> /\ to_client' = [to_client EXCEPT ![c] = Tail(@)]
    BY <1>8 DEF ShowMesg, ShowShutdown, server
  <2>2. \A d \in Client : d # c => to_client'[d] = to_client[d] /\ proc'[d] = proc[d]
    BY <1>8 DEF ShowMesg, ShowShutdown, procs, TypeOK, FifosType, ProcsType
  <2>3. Listens(c)' => Listens(c) /\ (Told(c) => Told(c)')
    <3>1. CASE ShowShutdown(c)
      BY <3>1 DEF ShowShutdown, Listens, TypeOK, ProcsType
    <3>2. CASE ShowMesg(c)
      <4>1. PICK q \in Seq(Mesg \cup {Shutdown}) :
              q = to_client[c] /\ q # << >> /\ Head(q) # Shutdown /\ to_client'[c] = Tail(q)
        BY <2>1, <3>2 DEF ShowMesg, TypeOK, FifosType
      <4>2. InFifo(Shutdown, q) => InFifo(Shutdown, Tail(q))
        BY <4>1, InRead
      <4>3. Told(c) => Told(c)'
        BY <4>1, <4>2 DEF Told, InFifo
      <4> QED
        BY <2>1, <3>2, <4>3 DEF ShowMesg, Listens, Was, procs
    <3> QED
      BY <1>8, <3>1, <3>2
  <2>4. \A d \in Client : d # c => (Listens(d)' => Listens(d) /\ (Told(d) => Told(d)'))
    BY <2>1, <2>2 DEF Listens, Was, Told, InFifo
  <2> QED
    BY <2>1, <2>3, <2>4, ToldUnchanged
<1>9. ASSUME NEW c \in Client, Close(c) PROVE ToldInv'
  <2>1. UNCHANGED <<srv, client, j, since>> /\ proc' = [proc EXCEPT ![c] = "gone"]
    BY <1>9 DEF Close, server
  <2>2. \A d \in Client : d # c => to_client'[d] = to_client[d]
    BY <1>9 DEF Close, TypeOK, FifosType
  <2>3. \A d \in Client : Listens(d)' => Listens(d) /\ (Told(d) => Told(d)')
    BY <2>1, <2>2 DEF Listens, Was, Told, InFifo, TypeOK, ProcsType
  <2> QED
    BY <2>1, <2>3, ToldUnchanged
<1>10. CASE UNCHANGED vars
  <2>1. UNCHANGED <<srv, client, j, since, to_client, proc>>
    BY <1>10 DEF vars, server, fifos, procs
  <2>2. \A d \in Client : Listens(d)' => Listens(d) /\ (Told(d) => Told(d)')
    BY <2>1 DEF Listens, Was, Told, InFifo
  <2> QED
    BY <2>1, <2>2, ToldUnchanged
<1> QED
  BY <1>1, <1>2, <1>3, <1>4, <1>5, <1>6, <1>7, <1>8, <1>9, <1>10
     DEF Next, ServerStep, ClientStep, ListenStep, UserStep, Leave, Kill

\* However many signals strike, wherever they do, and be it that one handler
\* interrupts the other while it takes the array apart, no client that listens is
\* left without its BL_SHUTDOWN.
THEOREM ShutdownReaches == Spec => []ShutdownReachesMembers
<1>1. Init => ToldInv
  BY InitTold
<1>2. IInv /\ ToldInv /\ [Next]_vars => ToldInv'
  BY NextTold DEF IInv
<1>3. ToldInv => ShutdownReachesMembers
  BY DEF ToldInv, ShutdownReachesMembers, Listens, Told
<1> QED
  BY <1>1, <1>2, <1>3, Invariance, PTL DEF Spec

-----------------------------------------------------------------------------
(* What a client says *)

\* The n-th message of a client whose user typed l lines: BL_JOINED, the lines,
\* BL_DEPARTED.
Speech(c, l, n) ==
    IF n = 1 THEN Joined(c) ELSE IF n <= l + 1 THEN Line(c, n - 1) ELSE Departed(c)

\* How many of them a client has written, if it was not killed before the last.
Spoken(c) ==
    IF proc[c] \in {"setup", "request", "announce"} THEN 0
    ELSE IF proc[c] \in {"chat", "quit"} THEN lines[c] + 1 ELSE lines[c] + 2

\* The first h of c's messages are in the conversation, and those that wait in
\* its FIFO are the ones that follow.
Heard(c, h) ==
    /\ \A m \in Mesg : m.from = c => (Room!Said(m) <=> \E n \in 1..h : m = Speech(c, lines[c], n))
    /\ \A k \in 1..Len(to_server[c]) : to_server[c][k] = Speech(c, lines[c], h + k)
    /\ h + Len(to_server[c]) <= Spoken(c)
    /\ proc[c] \notin {"close", "gone"} => h + Len(to_server[c]) = Spoken(c)

SpeechInv == \A c \in Client :
    /\ proc[c] \in {"setup", "request", "announce"} => lines[c] = 0
    /\ \E h \in Nat : Heard(c, h)

LEMMA SpeechType ==
    ASSUME NEW c \in Client, NEW l \in 0..MaxLines, NEW n \in 1..(l + 2)
    PROVE  Speech(c, l, n) \in Mesg /\ Speech(c, l, n).from = c
<1>1. l \in Nat /\ l <= MaxLines /\ n \in Nat /\ n >= 1
  BY BlatherAssumption
<1>2. CASE n = 1
  BY <1>1, <1>2, BlatherAssumption DEF Speech, Joined, Room!Joined, Mesg, Room!Mesg
<1>3. CASE n # 1 /\ n <= l + 1
  BY <1>1, <1>3, BlatherAssumption DEF Speech, Line, Room!Line, Mesg, Room!Mesg
<1>4. CASE n # 1 /\ ~(n <= l + 1)
  BY <1>1, <1>4, BlatherAssumption DEF Speech, Departed, Room!Departed, Mesg, Room!Mesg
<1> QED
  BY <1>2, <1>3, <1>4

\* A client never says the same thing twice.
LEMMA SpeechDistinct ==
    ASSUME NEW c \in Client, NEW l \in Nat, NEW m \in 1..(l + 2), NEW n \in 1..(l + 2),
           Speech(c, l, m) = Speech(c, l, n)
    PROVE  m = n
<1>1. \A k \in 1..(l + 2) :
         /\ Speech(c, l, k).kind = "JOINED" <=> k = 1
         /\ Speech(c, l, k).kind = "DEPARTED" <=> k = l + 2
         /\ k # 1 /\ k # l + 2 => Speech(c, l, k).body = k - 1
  BY DEF Speech, Joined, Room!Joined, Line, Room!Line, Departed, Room!Departed
<1>2. CASE m = 1 \/ m = l + 2
  BY <1>1, <1>2
<1>3. CASE m # 1 /\ m # l + 2
  BY <1>1, <1>3
<1> QED
  BY <1>2, <1>3

\* What a client says next, after the first h of its messages, is in order.
LEMMA SpeechInOrder ==
    ASSUME TypeOK, NEW c \in Client, NEW h \in Nat, Heard(c, h), h + 1 <= lines[c] + 2
    PROVE  Room!SaidInOrder(Speech(c, lines[c], h + 1))
<1> DEFINE m == Speech(c, lines[c], h + 1)
<1>1. PICK l \in 0..MaxLines : l = lines[c]
  BY DEF TypeOK, ProcsType
<1>2. l \in Nat /\ h + 1 \in 1..(l + 2)
  BY <1>1, BlatherAssumption
<1>3. m \in Mesg /\ m.from = c
  BY <1>1, <1>2, SpeechType
<1>4. \A k \in 1..(l + 2) : Room!Said(Speech(c, l, k)) <=> k \in 1..h
  <2> SUFFICES ASSUME NEW k \in 1..(l + 2) PROVE Room!Said(Speech(c, l, k)) <=> k \in 1..h
    OBVIOUS
  <2>1. Speech(c, l, k) \in Mesg /\ Speech(c, l, k).from = c
    BY SpeechType
  <2>2. Room!Said(Speech(c, l, k)) <=> \E n \in 1..h : Speech(c, l, k) = Speech(c, l, n)
    BY <1>1, <2>1 DEF Heard
  <2>3. \A n \in 1..h : n \in 1..(l + 2)
    BY <1>2
  <2>4. \A n \in 1..h : Speech(c, l, k) = Speech(c, l, n) => k = n
    BY <1>2, <2>3, SpeechDistinct
  <2> QED
    BY <2>2, <2>4
<1>5. ~Room!Said(m)
  BY <1>1, <1>2, <1>4
<1>6. Speech(c, l, l + 2) = Departed(c) /\ Speech(c, l, 1) = Joined(c)
  BY <1>2 DEF Speech
<1>7. ~Room!Said(Departed(c))
  BY <1>2, <1>4, <1>6
<1>8. m.kind # "JOINED" => Room!Said(Joined(c))
  <2>1. h = 0 => m.kind = "JOINED"
    BY DEF Speech, Joined, Room!Joined
  <2>2. h # 0 => 1 \in 1..h /\ 1 \in 1..(l + 2)
    BY <1>2
  <2> QED
    BY <1>4, <1>6, <2>1, <2>2
<1>9. ASSUME m.kind = "MESG", NEW n \in 1..MaxLines PROVE n < m.body <=> Room!Said(Line(c, n))
  <2>1. h # 0 /\ h <= l /\ m = Line(c, h)
    BY <1>1, <1>2, <1>9 DEF Speech, Joined, Room!Joined, Line, Room!Line, Departed, Room!Departed
  <2>2. m.body = h
    BY <2>1 DEF Line, Room!Line
  <2>3. CASE n <= l
    <3>1. n + 1 \in 1..(l + 2) /\ Speech(c, l, n + 1) = Line(c, n)
      BY <1>2, <2>3 DEF Speech
    <3>2. Room!Said(Line(c, n)) <=> n + 1 \in 1..h
      BY <1>4, <3>1
    <3> HIDE DEF m
    <3> QED
      BY <2>2, <3>2
  <2>4. CASE n > l
    <3>1. Line(c, n) \in Mesg /\ Line(c, n).from = c /\ Line(c, n).body = n /\ Line(c, n).kind = "MESG"
      BY BlatherAssumption DEF Line, Room!Line, Mesg, Room!Mesg
    <3>2. \A k \in 1..h : Speech(c, l, k) # Line(c, n)
      <4> SUFFICES ASSUME NEW k \in 1..h, Speech(c, l, k) = Line(c, n) PROVE FALSE
        OBVIOUS
      <4>1. k # 1 /\ k <= l + 1 /\ Speech(c, l, k).body = k - 1
        BY <1>2, <3>1 DEF Speech, Joined, Room!Joined, Line, Room!Line, Departed, Room!Departed
      <4> QED
        BY <1>2, <2>4, <3>1, <4>1
    <3>3. ~Room!Said(Line(c, n))
      BY <1>1, <3>1, <3>2 DEF Heard
    <3> HIDE DEF m
    <3> QED
      BY <1>2, <2>1, <2>2, <2>4, <3>3
  <2> QED
    BY <1>2, <2>3, <2>4
<1> HIDE DEF m
<1> QED
  BY <1>3, <1>5, <1>7, <1>8, <1>9
     DEF m, Room!SaidInOrder, Departed, Joined, Line
-----------------------------------------------------------------------------
(* Every step keeps the order *)

LEMMA InitSpeech == Init => SpeechInv
<1> SUFFICES ASSUME Init, NEW c \in Client PROVE lines[c] = 0 /\ Heard(c, 0)
  BY DEF SpeechInv
<1>1. lines[c] = 0 /\ Spoken(c) = 0 /\ Len(to_server[c]) = 0
  BY DEF Init, Spoken
<1>2. \A m : ~Room!Said(m)
  BY DEF Init, Room!Said
<1> QED
  BY <1>1, <1>2 DEF Heard

\* A step that leaves what c has written and what was read of it alone.
LEMMA HeardUnchanged ==
    ASSUME NEW c \in Client, NEW h, Heard(c, h),
           to_server'[c] = to_server[c], lines'[c] = lines[c], Spoken(c)' = Spoken(c),
           proc'[c] \notin {"close", "gone"} => proc[c] \notin {"close", "gone"},
           \A m \in Mesg : m.from = c => (Room!Said(m)' <=> Room!Said(m))
    PROVE  Heard(c, h)'
BY DEF Heard

\* c writes the next of its messages.
LEMMA SpeechWritten ==
    ASSUME TypeOK, SpeechInv, log' = log, NEW c \in Client, NEW m \in Mesg,
           WriteToServer(c, m), proc[c] \notin {"close", "gone"},
           \A d \in Client \ {c} : proc'[d] = proc[d] /\ lines'[d] = lines[d],
           lines'[c] \in Nat,
           proc'[c] \notin {"setup", "request", "announce"},
           Spoken(c)' = Spoken(c) + 1,
           m = Speech(c, lines'[c], Spoken(c) + 1),
           \A n \in 1..Spoken(c) : Speech(c, lines'[c], n) = Speech(c, lines[c], n)
    PROVE  SpeechInv'
<1>1. \A x : Room!Said(x)' <=> Room!Said(x)
  BY DEF Room!Said
<1>2. ASSUME NEW d \in Client, d # c
      PROVE  /\ proc'[d] \in {"setup", "request", "announce"} => lines'[d] = 0
             /\ \E h \in Nat : Heard(d, h)'
  <2>1. PICK h \in Nat : Heard(d, h)
    BY DEF SpeechInv
  <2>2. to_server'[d] = to_server[d] /\ proc'[d] = proc[d] /\ lines'[d] = lines[d]
    BY <1>2 DEF WriteToServer, TypeOK, FifosType
  <2>3. Spoken(d)' = Spoken(d)
    BY <2>2 DEF Spoken
  <2>4. Heard(d, h)'
    BY <1>1, <2>1, <2>2, <2>3, HeardUnchanged
  <2> QED
    BY <2>2, <2>4 DEF SpeechInv
<1>3. \E h \in Nat : Heard(c, h)'
  <2>1. PICK h \in Nat : Heard(c, h)
    BY DEF SpeechInv
  <2>2. PICK q \in Seq(Mesg) : q = to_server[c]
    BY DEF TypeOK, FifosType
  <2>3. to_server'[c] = Append(q, m)
    BY <2>2 DEF WriteToServer, TypeOK, FifosType
  <2>4. /\ Len(to_server'[c]) = Len(q) + 1 /\ Len(q) \in Nat
        /\ \A k \in 1..Len(q) : to_server'[c][k] = q[k]
        /\ to_server'[c][Len(q) + 1] = m
    BY <2>3, WriteElements
  <2>5. h + Len(q) = Spoken(c)
    BY <2>1, <2>2 DEF Heard
  <2>6. \A x \in Mesg : x.from = c =>
           (Room!Said(x)' <=> \E n \in 1..h : x = Speech(c, lines'[c], n))
    <3>1. \A n \in 1..h : Speech(c, lines'[c], n) = Speech(c, lines[c], n)
      BY <2>4, <2>5
    <3> QED
      BY <1>1, <2>1, <3>1 DEF Heard
  <2>7. ASSUME NEW k \in 1..Len(to_server'[c])
        PROVE  to_server'[c][k] = Speech(c, lines'[c], h + k)
    <3>1. CASE k = Len(q) + 1
      <4>1. h + k = Spoken(c) + 1
        BY <2>4, <2>5, <3>1
      <4> QED
        BY <2>4, <3>1, <4>1
    <3>2. CASE k \in 1..Len(q)
      <4>1. h + k \in 1..Spoken(c)
        BY <2>4, <2>5, <3>2
      <4>2. q[k] = Speech(c, lines[c], h + k)
        BY <2>1, <2>2, <3>2 DEF Heard
      <4> QED
        BY <2>4, <3>2, <4>1, <4>2
    <3> QED
      BY <2>4, <3>1, <3>2
  <2>8. h + Len(to_server'[c]) = Spoken(c)'
    BY <2>4, <2>5
  <2>9. Spoken(c)' \in Nat
    BY DEF Spoken
  <2>10. Heard(c, h)'
    <3>1. h + Len(to_server'[c]) <= Spoken(c)'
      BY <2>8, <2>9
    <3> QED
      BY <2>6, <2>7, <2>8, <3>1 DEF Heard
  <2> QED
    BY <2>10
<1> QED
  BY <1>2, <1>3 DEF SpeechInv

\* Nobody's messages go to the server or are read by it.
LEMMA SpeechUnchanged ==
    ASSUME TypeOK, SpeechInv, log' = log, to_server' = to_server, lines' = lines,
           \A c \in Client : \/ proc'[c] = proc[c]
                             \/ /\ proc[c] \in {"setup", "request"}
                                /\ proc'[c] \in {"request", "announce"}
                             \/ proc[c] = "chat" /\ proc'[c] = "quit"
    PROVE  SpeechInv'
<1> SUFFICES ASSUME NEW c \in Client
             PROVE  /\ proc'[c] \in {"setup", "request", "announce"} => lines'[c] = 0
                    /\ \E h \in Nat : Heard(c, h)'
  BY DEF SpeechInv
<1>1. proc'[c] \in {"setup", "request", "announce"} => lines'[c] = 0
  BY DEF SpeechInv
<1>2. PICK h \in Nat : Heard(c, h)
  BY DEF SpeechInv
<1>3. Spoken(c)' = Spoken(c)
  BY DEF Spoken
<1>4. \A x : Room!Said(x)' <=> Room!Said(x)
  BY DEF Room!Said
<1>5. proc'[c] \notin {"close", "gone"} => proc[c] \notin {"close", "gone"}
  OBVIOUS
<1> QED
  BY <1>1, <1>2, <1>3, <1>4, <1>5, HeardUnchanged

\* The server reads the first message that waits, which is the next in order.
LEMMA SpeechRead ==
    ASSUME TypeOK, SpeechInv, HandleClient
    PROVE  SpeechInv' /\ Room!SaidInOrder(mesg') /\ mesg' \in Mesg
<1>1. PICK k \in 1..n_clients :
         /\ to_server[client[k]] # << >>
         /\ mesg' = Head(to_server[client[k]])
         /\ to_server' = [to_server EXCEPT ![client[k]] = Tail(@)]
  BY DEF HandleClient
<1>2. PICK c \in Client : c = client[k]
  BY DEF TypeOK, ServerType, n_clients
<1>3. PICK q \in Seq(Mesg) : q = to_server[c]
  BY DEF TypeOK, FifosType
<1>4. /\ q # << >> /\ mesg' = Head(q) /\ to_server'[c] = Tail(q)
      /\ \A d \in Client : d # c => to_server'[d] = to_server[d]
  BY <1>1, <1>2, <1>3 DEF TypeOK, FifosType
<1>5. /\ Len(q) \in Nat /\ Len(q) >= 1 /\ Head(q) = q[1] /\ Head(q) \in Mesg
      /\ Len(Tail(q)) = Len(q) - 1
      /\ \A n \in 1..(Len(q) - 1) : Tail(q)[n] = q[n + 1]
  BY <1>4, ReadElements
<1>6. PICK h \in Nat : Heard(c, h)
  BY DEF SpeechInv
<1>7. mesg' = Speech(c, lines[c], h + 1)
  BY <1>3, <1>4, <1>5, <1>6 DEF Heard
<1>8. h + 1 <= lines[c] + 2 /\ lines[c] \in Nat
  <2>1. lines[c] \in Nat
    BY BlatherAssumption DEF TypeOK, ProcsType
  <2>2. Spoken(c) \in Nat /\ Spoken(c) <= lines[c] + 2
    BY <2>1 DEF Spoken
  <2>3. h + Len(q) <= Spoken(c)
    BY <1>3, <1>6 DEF Heard
  <2> QED
    BY <1>5, <2>1, <2>2, <2>3
<1>9. Room!SaidInOrder(mesg')
  BY <1>5, <1>6, <1>7, <1>8, SpeechInOrder
<1>10. log' = Append(log, mesg') /\ proc' = proc /\ lines' = lines
  BY DEF HandleClient, procs
<1>11. \A x : Room!Said(x)' <=> Room!Said(x) \/ x = mesg'
  <2>1. log \in Seq(Mesg) /\ mesg' \in Mesg
    BY <1>4, <1>5 DEF TypeOK, Room!TypeOK, Mesg
  <2> QED
    BY <1>10, <2>1, WriteElements DEF Room!Said
<1>12. mesg'.from = c
  <2>1. PICK l \in 0..MaxLines : l = lines[c]
    BY DEF TypeOK, ProcsType
  <2>2. h + 1 \in 1..(l + 2)
    BY <1>5, <1>8, <2>1
  <2> QED
    BY <1>7, <2>1, <2>2, SpeechType
<1>13. ASSUME NEW d \in Client, d # c PROVE \E g \in Nat : Heard(d, g)'
  <2>1. PICK g \in Nat : Heard(d, g)
    BY DEF SpeechInv
  <2>2. \A x \in Mesg : x.from = d => (Room!Said(x)' <=> Room!Said(x))
    BY <1>11, <1>12, <1>13
  <2>3. Spoken(d)' = Spoken(d)
    BY <1>10 DEF Spoken
  <2>4. Heard(d, g)'
    BY <1>4, <1>10, <1>13, <2>1, <2>2, <2>3, HeardUnchanged
  <2> QED
    BY <2>4
<1>14. Heard(c, h + 1)'
  <2>1. Spoken(c)' = Spoken(c)
    BY <1>10 DEF Spoken
  <2>2. \A x \in Mesg : x.from = c =>
           (Room!Said(x)' <=> \E n \in 1..(h + 1) : x = Speech(c, lines[c], n))
    <3>1. \A n : n \in 1..(h + 1) <=> n \in 1..h \/ n = h + 1
      OBVIOUS
    <3> QED
      BY <1>6, <1>7, <1>11, <3>1 DEF Heard
  <2>3. ASSUME NEW n \in 1..Len(to_server'[c])
        PROVE  to_server'[c][n] = Speech(c, lines[c], (h + 1) + n)
    <3>1. n + 1 \in 1..Len(q) /\ to_server'[c][n] = q[n + 1] /\ h + (n + 1) = (h + 1) + n
      BY <1>4, <1>5
    <3> QED
      BY <1>3, <1>6, <3>1 DEF Heard
  <2>4. (h + 1) + Len(to_server'[c]) = h + Len(q)
    BY <1>4, <1>5
  <2> QED
    BY <1>3, <1>6, <1>10, <2>1, <2>2, <2>3, <2>4 DEF Heard
<1>15. SpeechInv'
  <2>1. \A d \in Client : proc'[d] \in {"setup", "request", "announce"} => lines'[d] = 0
    BY <1>10 DEF SpeechInv
  <2>2. \A d \in Client : \E g \in Nat : Heard(d, g)'
    BY <1>13, <1>14
  <2> QED
    BY <2>1, <2>2 DEF SpeechInv
<1> QED
  BY <1>4, <1>5, <1>9, <1>15

LEMMA SpeechClosed ==
    ASSUME TypeOK, SpeechInv, NEW c \in Client, Close(c), proc[c] \notin {"setup", "gone"}
    PROVE  SpeechInv'
<1>1. log' = log /\ lines' = lines /\ proc' = [proc EXCEPT ![c] = "gone"]
  BY DEF Close
<1>2. \A x : Room!Said(x)' <=> Room!Said(x)
  BY <1>1 DEF Room!Said
<1>3. proc'[c] = "gone" /\ \A d \in Client : d # c => proc'[d] = proc[d] /\ to_server'[d] = to_server[d]
  BY <1>1 DEF Close, TypeOK, ProcsType, FifosType
<1>4. \A d \in Client : proc'[d] \in {"setup", "request", "announce"} => lines'[d] = 0
  BY <1>1, <1>3 DEF SpeechInv
<1>5. ASSUME NEW d \in Client, d # c PROVE \E h \in Nat : Heard(d, h)'
  <2>1. PICK h \in Nat : Heard(d, h)
    BY DEF SpeechInv
  <2>2. Spoken(d)' = Spoken(d)
    BY <1>1, <1>3, <1>5 DEF Spoken
  <2>3. Heard(d, h)'
    BY <1>1, <1>2, <1>3, <1>5, <2>1, <2>2, HeardUnchanged
  <2> QED
    BY <2>3
<1>6. \E h \in Nat : Heard(c, h)'
  <2>1. PICK h \in Nat : Heard(c, h)
    BY DEF SpeechInv
  <2>2. to_server'[c] = to_server[c] \/ to_server'[c] = << >>
    BY DEF Close, TypeOK, FifosType
  <2>3. Spoken(c) \in Nat /\ Spoken(c)' \in Nat /\ Spoken(c) <= Spoken(c)'
    <3>1. lines[c] \in Nat
      BY BlatherAssumption DEF TypeOK, ProcsType
    <3> QED
      BY <1>1, <1>3, <3>1 DEF Spoken
  <2>4. /\ Len(to_server[c]) \in Nat /\ Len(to_server'[c]) \in Nat
        /\ Len(to_server'[c]) <= Len(to_server[c])
        /\ \A k \in 1..Len(to_server'[c]) : k \in 1..Len(to_server[c]) /\ to_server'[c][k] = to_server[c][k]
    <3>1. PICK q \in Seq(Mesg) : q = to_server[c]
      BY DEF TypeOK, FifosType
    <3>2. Len(q) \in Nat /\ Len(<< >>) = 0
      BY <3>1
    <3> QED
      BY <2>2, <3>1, <3>2
  <2>5. h + Len(to_server'[c]) <= Spoken(c)'
    <3>1. h + Len(to_server[c]) <= Spoken(c)
      BY <2>1 DEF Heard
    <3> QED
      BY <2>3, <2>4, <3>1
  <2>6. Heard(c, h)'
    BY <1>1, <1>2, <1>3, <2>1, <2>4, <2>5 DEF Heard
  <2> QED
    BY <2>6
<1>7. \A d \in Client : \E h \in Nat : Heard(d, h)'
  BY <1>5, <1>6
<1> QED
  BY <1>4, <1>7 DEF SpeechInv

LEMMA NextSpeech == TypeOK /\ SpeechInv /\ [Next]_vars => SpeechInv'
<1> SUFFICES ASSUME TypeOK, SpeechInv, [Next]_vars PROVE SpeechInv'
  OBVIOUS
<1>1. CASE Start \/ CheckSources \/ HandleJoin \/ AddClient \/ Broadcast \/ EndHandleClient \/ EndScan
           \/ BroadcastShutdown \/ BeginRemoval \/ RemoveClient \/ Exit
           \/ (\E s \in Signal : Interrupt(s))
  <2>1. log' = log /\ to_server' = to_server /\ lines' = lines /\ proc' = proc
    BY <1>1 DEF Start, CheckSources, HandleJoin, AddClient, Broadcast, EndHandleClient, EndScan,
                BroadcastShutdown, BeginRemoval, RemoveClient, Exit, Interrupt, Write, fifos, procs
  <2> QED
    BY <2>1, SpeechUnchanged
<1>2. CASE HandleClient
  BY <1>2, SpeechRead
<1>3. ASSUME NEW c \in Client,
             OpenJoin(c) \/ RequestJoin(c) \/ EndOfInput(c) \/ ShowMesg(c) \/ ShowShutdown(c)
      PROVE  SpeechInv'
  <2>1. log' = log /\ to_server' = to_server /\ lines' = lines
    BY <1>3 DEF OpenJoin, RequestJoin, EndOfInput, ShowMesg, ShowShutdown, fifos, procs
  <2>2. \A d \in Client : \/ proc'[d] = proc[d]
                          \/ /\ proc[d] \in {"setup", "request"}
                             /\ proc'[d] \in {"request", "announce"}
                          \/ proc[d] = "chat" /\ proc'[d] = "quit"
    BY <1>3 DEF OpenJoin, RequestJoin, EndOfInput, ShowMesg, ShowShutdown, procs, TypeOK, ProcsType
  <2> QED
    BY <2>1, <2>2, SpeechUnchanged
<1>4. ASSUME NEW c \in Client, Announce(c) PROVE SpeechInv'
  <2>1. /\ proc[c] = "announce" /\ WriteToServer(c, Joined(c)) /\ log' = log
        /\ proc' = [proc EXCEPT ![c] = "chat"] /\ lines' = lines /\ lines[c] = 0
    BY <1>4 DEF Announce, WriteToServer, SpeechInv
  <2>2. proc'[c] = "chat" /\ \A d \in Client \ {c} : proc'[d] = proc[d]
    BY <2>1 DEF TypeOK, ProcsType
  <2>3. Spoken(c) = 0 /\ Spoken(c)' = 1 /\ Joined(c) = Speech(c, 0, 1)
    BY <2>1, <2>2 DEF Spoken, Speech
  <2>4. Joined(c) \in Mesg
    BY <2>3, BlatherAssumption, SpeechType
  <2> QED
    BY <2>1, <2>2, <2>3, <2>4, SpeechWritten
<1>5. ASSUME NEW c \in Client, TypeLine(c) PROVE SpeechInv'
  <2>1. /\ proc[c] = "chat" /\ WriteToServer(c, Line(c, lines[c] + 1)) /\ log' = log
        /\ lines' = [lines EXCEPT ![c] = @ + 1] /\ proc' = proc /\ lines[c] < MaxLines
    BY <1>5 DEF TypeLine, WriteToServer
  <2>2. /\ lines[c] \in Nat /\ lines'[c] = lines[c] + 1 /\ lines[c] + 1 \in 0..MaxLines
        /\ \A d \in Client \ {c} : lines'[d] = lines[d]
    BY <2>1, BlatherAssumption DEF TypeOK, ProcsType
  <2>3. Spoken(c) = lines[c] + 1 /\ Spoken(c)' = lines[c] + 2
    BY <2>1, <2>2 DEF Spoken
  <2>4. Line(c, lines[c] + 1) = Speech(c, lines[c] + 1, lines[c] + 2)
    BY <2>2 DEF Speech
  <2>5. Line(c, lines[c] + 1) \in Mesg
    BY <2>2, <2>4, SpeechType
  <2>6. \A n \in 1..(lines[c] + 1) : Speech(c, lines[c] + 1, n) = Speech(c, lines[c], n)
    BY <2>2 DEF Speech
  <2> QED
    BY <2>1, <2>2, <2>3, <2>4, <2>5, <2>6, SpeechWritten
<1>6. ASSUME NEW c \in Client, Depart(c) PROVE SpeechInv'
  <2>1. /\ proc[c] = "quit" /\ WriteToServer(c, Departed(c)) /\ log' = log
        /\ proc' = [proc EXCEPT ![c] = "close"] /\ lines' = lines
    BY <1>6 DEF Depart, WriteToServer
  <2>2. /\ proc'[c] = "close" /\ \A d \in Client \ {c} : proc'[d] = proc[d]
        /\ lines[c] \in 0..MaxLines /\ lines[c] \in Nat
    BY <2>1, BlatherAssumption DEF TypeOK, ProcsType
  <2>3. Spoken(c) = lines[c] + 1 /\ Spoken(c)' = lines[c] + 2
    BY <2>1, <2>2 DEF Spoken
  <2>4. Departed(c) = Speech(c, lines[c], lines[c] + 2)
    BY <2>2 DEF Speech
  <2>5. Departed(c) \in Mesg
    BY <2>2, <2>4, SpeechType
  <2> QED
    BY <2>1, <2>2, <2>3, <2>4, <2>5, SpeechWritten
<1>7. ASSUME NEW c \in Client, Leave(c) \/ Kill(c) PROVE SpeechInv'
  BY <1>7, SpeechClosed DEF Leave, Kill
<1>8. CASE UNCHANGED vars
  BY <1>8, SpeechUnchanged DEF vars, fifos, procs
<1> QED
  BY <1>1, <1>2, <1>3, <1>4, <1>5, <1>6, <1>7, <1>8
     DEF Next, ServerStep, ClientStep, ListenStep, UserStep

-----------------------------------------------------------------------------
(* The refinement *)

LEMMA StepRefines ==
    ASSUME IInv, SpeechInv, [Next]_vars
    PROVE  [Room!Next]_(Room!roomVars)
<1>1. CASE Start \/ CheckSources \/ HandleJoin \/ Broadcast \/ EndHandleClient \/ EndScan
           \/ BroadcastShutdown \/ BeginRemoval \/ RemoveClient \/ Exit
           \/ (\E s \in Signal : Interrupt(s))
  BY <1>1 DEF Start, CheckSources, HandleJoin, Broadcast, EndHandleClient, EndScan, BroadcastShutdown,
              BeginRemoval, RemoveClient, Exit, Interrupt, Write, Room!roomVars
<1>2. CASE AddClient
  <2>1. CASE n_clients = MaxClients
    BY <1>2, <2>1 DEF AddClient, Room!roomVars
  <2>2. CASE n_clients # MaxClients
    <3>1. PICK a \in Client : a = mesg.from /\ since[a] = Outside
      BY <1>2 DEF AddClient, IInv, TypeOK, MesgType, Requests, WaitInv, Waiting
    <3>2. since' = [since EXCEPT ![a] = Len(log)] /\ UNCHANGED <<log, shown>>
      BY <1>2, <2>2, <3>1 DEF AddClient
    <3>3. Room!Enter(a)
      BY <3>1, <3>2 DEF Room!Enter, Outside
    <3> QED
      BY <3>3 DEF Room!Next
  <2> QED
    BY <2>1, <2>2
<1>3. CASE HandleClient
  <2>1. mesg' \in Mesg /\ Room!SaidInOrder(mesg')
    BY <1>3, SpeechRead DEF IInv
  <2>2. log' = Append(log, mesg') /\ UNCHANGED <<since, shown>>
    BY <1>3 DEF HandleClient
  <2>3. PICK m \in Room!Mesg : m = mesg'
    BY <2>1 DEF Mesg
  <2>4. Room!Post(m)
    BY <2>1, <2>2, <2>3 DEF Room!Post
  <2> QED
    BY <2>4 DEF Room!Next
<1>4. ASSUME NEW c \in Client, ShowMesg(c) PROVE Room!Show(c)
  <2>1. PICK q \in Seq(Mesg \cup {Shutdown}) : q = to_client[c]
    BY DEF IInv, TypeOK, FifosType
  <2>2. /\ q # << >> /\ Head(q) # Shutdown /\ UNCHANGED <<log, since>>
        /\ shown' = [shown EXCEPT ![c] = Append(@, Head(q))]
    BY <1>4, <2>1 DEF ShowMesg
  <2>3. since[c] # Outside /\ InStep(c)
    BY <2>1, <2>2 DEF IInv, MemberInv, StreamInv
  <2>4. Len(q) \in Nat /\ 1 \in 1..Len(q) /\ Head(q) = q[1]
    BY <2>2, ReadElements
  <2>5. Position(c) + 1 <= Len(log) /\ Head(q) = log[Position(c) + 1]
    BY <2>1, <2>2, <2>3, <2>4 DEF InStep
  <2>6. Position(c) \in Nat /\ Len(log) \in Nat
    BY <2>3 DEF IInv, TypeOK, Room!TypeOK, Position, Outside
  <2>7. since[c] + Len(shown[c]) < Len(log)
    BY <2>5, <2>6 DEF Position
  <2> QED
    BY <2>2, <2>3, <2>5, <2>7 DEF Room!Show, Position, Outside
<1>5. ASSUME NEW c \in Client,
             \/ OpenJoin(c) \/ RequestJoin(c) \/ Announce(c) \/ TypeLine(c) \/ EndOfInput(c)
             \/ ShowShutdown(c) \/ Depart(c) \/ Close(c)
      PROVE  UNCHANGED Room!roomVars
  BY <1>5 DEF OpenJoin, RequestJoin, Announce, TypeLine, EndOfInput, ShowShutdown, Depart, Close,
              WriteToServer, Room!roomVars
<1>6. CASE UNCHANGED vars
  BY <1>6 DEF vars, Room!roomVars
<1> QED
  BY <1>1, <1>2, <1>3, <1>4, <1>5, <1>6
     DEF Next, ServerStep, ClientStep, ListenStep, UserStep, Leave, Kill, Room!Next

\* The chat keeps ChatRoom's promise for any number of clients, slots, lines
\* and signals and any size of the FIFOs: one conversation, in which everyone's
\* messages stand in the order in which they were written, and of which every
\* terminal shows a gapless part from the point where its client was added.
THEOREM ChatIsRoom == Spec => RoomSpec
<1>1. Init => Room!Init
  BY DEF Init, Room!Init, Outside
<1>2. Init => SpeechInv
  BY InitSpeech
<1>3. IInv /\ SpeechInv /\ [Next]_vars => SpeechInv'
  BY NextSpeech DEF IInv
<1>4. IInv /\ SpeechInv /\ [Next]_vars => [Room!Next]_(Room!roomVars)
  BY StepRefines
<1> QED
  BY <1>1, <1>2, <1>3, <1>4, Invariance, PTL DEF Spec, RoomSpec, Room!Spec

-----------------------------------------------------------------------------
(* What was typed is kept *)

Keeps(c) == \A n \in 1..lines[c] : Room!Said(Line(c, n)) \/ InFifo(Line(c, n), to_server[c])

\* The kernel drops a FIFO as a whole, that of a client that ends before the
\* server has opened it, and then nothing of it has been read, nor will be.
Kept(c) ==
    /\ since[c] = Outside => ~Room!Said(Joined(c))
    /\ c \in Members \/ since[c] = Outside =>
          (to_server[c] # << >> \/ Room!Said(Joined(c)) => Keeps(c))

KeptInv == \A c \in Client : Kept(c)

LEMMA KeptUnchanged ==
    ASSUME NEW c \in Client, Kept(c), log' = log, to_server'[c] = to_server[c], lines'[c] = lines[c],
           c \in Members' => c \in Members \/ since[c] = Outside,
           since'[c] = Outside => since[c] = Outside
    PROVE  Kept(c)'
BY DEF Kept, Keeps, InFifo, Room!Said

\* Who has written anything has written BL_JOINED first, and it is still there.
LEMMA WriterHeard ==
    ASSUME TypeOK, SpeechInv, NEW c \in Client, proc[c] \in {"chat", "quit"}
    PROVE  to_server[c] # << >> \/ Room!Said(Joined(c))
<1>1. PICK h \in Nat : Heard(c, h)
  BY DEF SpeechInv
<1>2. PICK q \in Seq(Mesg) : q = to_server[c]
  BY DEF TypeOK, FifosType
<1>3. h + Len(q) = lines[c] + 1 /\ lines[c] \in Nat
  BY <1>1, <1>2, BlatherAssumption DEF Heard, Spoken, TypeOK, ProcsType
<1>4. CASE h = 0
  BY <1>2, <1>3, <1>4
<1>5. CASE h # 0
  <2>1. Joined(c) = Speech(c, lines[c], 1) /\ 1 \in 1..h
    BY <1>5 DEF Speech
  <2>2. Joined(c) \in Mesg /\ Joined(c).from = c
    BY ClientMesg DEF Joined, Room!Joined
  <2>3. \E n \in 1..h : Joined(c) = Speech(c, lines[c], n)
    BY <2>1
  <2> QED
    BY <1>1, <2>2, <2>3 DEF Heard
<1> QED
  BY <1>4, <1>5

\* c writes to its FIFO, be it a line that is new.
LEMMA KeptWritten ==
    ASSUME TypeOK, SpeechInv, KeptInv, NEW c \in Client, NEW m \in Mesg, WriteToServer(c, m),
           \A d \in Client \ {c} : lines'[d] = lines[d],
           \/ proc[c] = "announce" /\ lines'[c] = 0
           \/ proc[c] = "quit" /\ lines'[c] = lines[c]
           \/ /\ proc[c] = "chat" /\ lines'[c] = lines[c] + 1
              /\ m = Line(c, lines[c] + 1)
    PROVE  KeptInv'
<1>1. log' = log /\ UNCHANGED server /\ since' = since /\ Members' = Members
  BY DEF WriteToServer, server, Members, n_clients
<1>2. \A d \in Client : d # c => to_server'[d] = to_server[d]
  BY DEF WriteToServer, TypeOK, FifosType
<1>3. ASSUME NEW d \in Client, d # c PROVE Kept(d)'
  BY <1>1, <1>2, <1>3, KeptUnchanged DEF KeptInv
<1>4. PICK q \in Seq(Mesg) : q = to_server[c] /\ to_server'[c] = Append(q, m)
  BY DEF WriteToServer, TypeOK, FifosType
<1>5. \A x : InFifo(x, to_server[c])' <=> InFifo(x, to_server[c]) \/ x = m
  BY <1>4, InWritten DEF InFifo
<1>6. \A x : Room!Said(x)' <=> Room!Said(x)
  BY <1>1 DEF Room!Said
<1>7. Kept(c)'
  <2>1. since'[c] = Outside => ~Room!Said(Joined(c))'
    BY <1>1, <1>6 DEF KeptInv, Kept
  <2>2. ASSUME c \in Members \/ since[c] = Outside, NEW n \in 1..lines'[c]
        PROVE  Room!Said(Line(c, n))' \/ InFifo(Line(c, n), to_server[c])'
    <3>1. CASE proc[c] = "announce"
      BY <2>2, <3>1
    <3>2. CASE proc[c] # "announce" /\ n \in 1..lines[c]
      <4>1. Keeps(c)
        BY <2>2, <3>2, WriterHeard DEF KeptInv, Kept
      <4> QED
        BY <1>5, <1>6, <3>2, <4>1 DEF Keeps
    <3>3. CASE proc[c] # "announce" /\ n \notin 1..lines[c]
      <4>1. lines[c] \in Nat
        BY BlatherAssumption DEF TypeOK, ProcsType
      <4>2. m = Line(c, n)
        BY <2>2, <3>3, <4>1
      <4> QED
        BY <1>5, <4>2
    <3> QED
      BY <3>1, <3>2, <3>3
  <2> QED
    BY <1>1, <2>1, <2>2 DEF Kept, Keeps
<1> QED
  BY <1>3, <1>7 DEF KeptInv

\* The server reads the first message that waits in a member's FIFO.
LEMMA KeptRead ==
    ASSUME TypeOK, SpeechInv, MemberInv, KeptInv, HandleClient
    PROVE  KeptInv'
<1>1. PICK k \in 1..n_clients :
         /\ to_server[client[k]] # << >>
         /\ mesg' = Head(to_server[client[k]])
         /\ to_server' = [to_server EXCEPT ![client[k]] = Tail(@)]
  BY DEF HandleClient
<1>2. PICK c \in Client : c = client[k] /\ since[c] # Outside
  BY DEF TypeOK, ServerType, n_clients, MemberInv
<1>3. PICK q \in Seq(Mesg) : q = to_server[c]
  BY DEF TypeOK, FifosType
<1>4. /\ q # << >> /\ mesg' = Head(q) /\ to_server'[c] = Tail(q)
      /\ \A d \in Client : d # c => to_server'[d] = to_server[d]
  BY <1>1, <1>2, <1>3 DEF TypeOK, FifosType
<1>5. /\ log' = Append(log, mesg') /\ lines' = lines /\ since' = since /\ Members' = Members
      /\ mesg' \in Mesg /\ log \in Seq(Mesg)
  <2>1. mesg' \in Mesg /\ log \in Seq(Mesg)
    BY SpeechRead DEF TypeOK, Room!TypeOK, Mesg
  <2>2. log' = Append(log, mesg') /\ UNCHANGED <<lines, since, client>>
    BY DEF HandleClient, procs
  <2> QED
    BY <2>1, <2>2 DEF Members, n_clients
<1>6. \A x : Room!Said(x)' <=> Room!Said(x) \/ x = mesg'
  BY <1>5, WriteElements DEF Room!Said
<1>7. \A x : InFifo(x, to_server[c]) <=> InFifo(x, to_server[c])' \/ x = mesg'
  <2>1. \A x : InFifo(x, q) <=> InFifo(x, Tail(q)) \/ x = Head(q)
    BY <1>4, InRead
  <2>2. \A x : InFifo(x, to_server[c])' <=> InFifo(x, Tail(q))
    BY <1>4 DEF InFifo
  <2> QED
    BY <1>3, <1>4, <2>1, <2>2
<1>8. mesg'.from = c
  <2>1. PICK h \in Nat : Heard(c, h)
    BY DEF SpeechInv
  <2>2. PICK l \in 0..MaxLines : l = lines[c]
    BY DEF TypeOK, ProcsType
  <2>3. Len(q) \in Nat /\ 1 \in 1..Len(q) /\ mesg' = q[1]
    BY <1>4, ReadElements
  <2>4. mesg' = Speech(c, l, h + 1)
    BY <1>3, <2>1, <2>2, <2>3 DEF Heard
  <2>5. h + 1 \in 1..(l + 2)
    <3>1. l \in Nat
      BY BlatherAssumption
    <3>2. Spoken(c) \in Nat /\ Spoken(c) <= l + 2
      BY <2>2, <3>1 DEF Spoken
    <3>3. h + Len(q) <= Spoken(c)
      BY <1>3, <2>1 DEF Heard
    <3> QED
      BY <2>3, <3>1, <3>2, <3>3
  <2> QED
    BY <2>4, <2>5, SpeechType
<1>9. ASSUME NEW d \in Client, d # c PROVE Kept(d)'
  <2>1. \A x : x.from = d => (Room!Said(x)' <=> Room!Said(x))
    BY <1>6, <1>8, <1>9
  <2>2. Joined(d).from = d /\ \A n : Line(d, n).from = d
    BY DEF Joined, Room!Joined, Line, Room!Line
  <2>3. Room!Said(Joined(d))' <=> Room!Said(Joined(d))
    BY <2>1, <2>2
  <2>4. Keeps(d) => Keeps(d)'
    BY <1>4, <1>5, <1>9, <2>1, <2>2 DEF Keeps, InFifo
  <2> QED
    BY <1>4, <1>5, <1>9, <2>3, <2>4 DEF KeptInv, Kept
<1>10. Kept(c)'
  <2>1. c \in Members
    BY <1>2 DEF Members
  <2>2. Keeps(c)
    BY <1>3, <1>4, <2>1 DEF KeptInv, Kept
  <2>3. Keeps(c)'
    BY <1>5, <1>6, <1>7, <2>2 DEF Keeps
  <2> QED
    BY <1>2, <1>5, <2>3 DEF Kept
<1> QED
  BY <1>9, <1>10 DEF KeptInv

LEMMA InitKept == Init => KeptInv
BY DEF Init, KeptInv, Kept, Members, n_clients, Room!Said

LEMMA NextKept ==
    ASSUME TypeOK, WaitInv, MemberInv, SpeechInv, KeptInv, [Next]_vars
    PROVE  KeptInv'
<1>1. CASE Start \/ CheckSources \/ HandleJoin \/ Broadcast \/ EndHandleClient \/ EndScan
           \/ BroadcastShutdown \/ BeginRemoval \/ Exit \/ (\E s \in Signal : Interrupt(s))
  <2>1. UNCHANGED <<log, to_server, lines, client, since>>
    BY <1>1 DEF Start, CheckSources, HandleJoin, Broadcast, EndHandleClient, EndScan,
                BroadcastShutdown, BeginRemoval, Exit, Interrupt, Write, fifos, procs
  <2>2. Members' = Members
    BY <2>1 DEF Members, n_clients
  <2> QED
    BY <2>1, <2>2, KeptUnchanged DEF KeptInv
<1>2. CASE RemoveClient
  <2>1. UNCHANGED <<log, to_server, lines, since>>
    BY <1>2 DEF RemoveClient, fifos, procs
  <2>2. Members' \subseteq Members
    <3>1. client \in Seq(Client) /\ i \in 1..Len(client) /\ client' = RemoveAt(client, i)
      BY <1>2 DEF RemoveClient, TypeOK, ServerType, n_clients
    <3>2. Len(client') = Len(client) - 1
      BY <3>1, RemoveAtType
    <3>3. \A k \in 1..Len(client') : client'[k] = IF k < i THEN client[k] ELSE client[k + 1]
      BY <3>1, <3>2, RemoveAtElements
    <3>4. \A k \in 1..Len(client') : \E l \in 1..Len(client) : client'[k] = client[l]
      BY <3>1, <3>2, <3>3
    <3> QED
      BY <3>4 DEF Members, n_clients
  <2> QED
    BY <2>1, <2>2, KeptUnchanged DEF KeptInv
<1>3. CASE AddClient
  <2>1. UNCHANGED <<log, to_server, lines>>
    BY <1>3 DEF AddClient, fifos, procs
  <2>2. PICK a \in Client : a = mesg.from /\ since[a] = Outside
    BY <1>3 DEF AddClient, TypeOK, MesgType, Requests, WaitInv, Waiting
  <2>3. \A c \in Members' : c \in Members \/ since[c] = Outside
    <3>1. CASE n_clients = MaxClients
      BY <1>3, <3>1 DEF AddClient, Members, n_clients
    <3>2. CASE n_clients # MaxClients
      <4>1. client \in Seq(Client) /\ client' = Append(client, a)
        BY <1>3, <2>2, <3>2 DEF AddClient, TypeOK, ServerType
      <4>2. Members' \subseteq Members \cup {a}
        BY <4>1 DEF Members, n_clients
      <4> QED
        BY <2>2, <4>2
    <3> QED
      BY <3>1, <3>2
  <2>4. \A c \in Client : since'[c] = Outside => since[c] = Outside
    BY <1>3, <2>2 DEF AddClient, TypeOK, Room!TypeOK
  <2> QED
    BY <2>1, <2>3, <2>4, KeptUnchanged DEF KeptInv
<1>4. CASE HandleClient
  BY <1>4, KeptRead
<1>5. ASSUME NEW c \in Client,
             OpenJoin(c) \/ RequestJoin(c) \/ EndOfInput(c) \/ ShowMesg(c) \/ ShowShutdown(c)
      PROVE  KeptInv'
  <2>1. UNCHANGED <<log, to_server, lines, client, since>>
    BY <1>5 DEF OpenJoin, RequestJoin, EndOfInput, ShowMesg, ShowShutdown, fifos, procs, server
  <2>2. Members' = Members
    BY <2>1 DEF Members, n_clients
  <2> QED
    BY <2>1, <2>2, KeptUnchanged DEF KeptInv
<1>6. ASSUME NEW c \in Client, Announce(c) PROVE KeptInv'
  <2>1. lines' = lines /\ lines[c] = 0 /\ proc[c] = "announce" /\ WriteToServer(c, Joined(c))
    BY <1>6 DEF Announce, SpeechInv
  <2>2. lines'[c] = 0 /\ \A d \in Client \ {c} : lines'[d] = lines[d]
    BY <2>1
  <2> QED
    BY <2>1, <2>2, ClientMesg, KeptWritten
<1>7. ASSUME NEW c \in Client, Depart(c) PROVE KeptInv'
  <2>1. lines' = lines /\ proc[c] = "quit" /\ WriteToServer(c, Departed(c))
    BY <1>7 DEF Depart
  <2>2. lines'[c] = lines[c] /\ \A d \in Client \ {c} : lines'[d] = lines[d]
    BY <2>1
  <2> QED
    BY <2>1, <2>2, ClientMesg, KeptWritten
<1>8. ASSUME NEW c \in Client, TypeLine(c) PROVE KeptInv'
  <2>1. /\ proc[c] = "chat" /\ WriteToServer(c, Line(c, lines[c] + 1))
        /\ lines' = [lines EXCEPT ![c] = @ + 1] /\ lines[c] + 1 \in 1..MaxLines
    BY <1>8, BlatherAssumption DEF TypeLine, TypeOK, ProcsType
  <2>2. lines'[c] = lines[c] + 1 /\ \A d \in Client \ {c} : lines'[d] = lines[d]
    BY <2>1 DEF TypeOK, ProcsType
  <2>3. Line(c, lines[c] + 1) \in Mesg
    BY <2>1, ClientMesg
  <2> QED
    BY <2>1, <2>2, <2>3, KeptWritten
<1>9. ASSUME NEW c \in Client, Close(c) PROVE KeptInv'
  <2>1. UNCHANGED <<log, lines, since, client>>
    BY <1>9 DEF Close, server
  <2>2. Members' = Members /\ \A x : Room!Said(x)' <=> Room!Said(x)
    BY <2>1 DEF Members, n_clients, Room!Said
  <2>3. \A d \in Client : \/ to_server'[d] = to_server[d]
                          \/ d \notin Members /\ to_server'[d] = << >>
    BY <1>9 DEF Close, TypeOK, FifosType
  <2>4. ASSUME NEW d \in Client PROVE Kept(d)'
    <3>1. CASE to_server'[d] = to_server[d]
      BY <2>1, <2>2, <3>1, KeptUnchanged DEF KeptInv
    <3>2. CASE d \notin Members /\ to_server'[d] = << >>
      BY <2>1, <2>2, <3>2 DEF KeptInv, Kept
    <3> QED
      BY <2>3, <3>1, <3>2
  <2> QED
    BY <2>4 DEF KeptInv
<1>10. CASE UNCHANGED vars
  <2>1. UNCHANGED <<log, to_server, lines, client, since>>
    BY <1>10 DEF vars, fifos, procs, server
  <2>2. Members' = Members
    BY <2>1 DEF Members, n_clients
  <2> QED
    BY <2>1, <2>2, KeptUnchanged DEF KeptInv
<1> QED
  BY <1>1, <1>2, <1>3, <1>4, <1>5, <1>6, <1>7, <1>8, <1>9, <1>10
     DEF Next, ServerStep, ClientStep, ListenStep, UserStep, Leave, Kill

\* Of what a client that was still there when the server opened its FIFOs has
\* typed, no line is lost between its terminal and the conversation, whenever it
\* is killed after that and whenever the server is told to stop.
THEOREM NothingIsSwallowed == Spec => []NothingSwallowed
<1>1. Init => SpeechInv /\ KeptInv
  BY InitSpeech, InitKept
<1>2. IInv /\ SpeechInv /\ KeptInv /\ [Next]_vars => SpeechInv' /\ KeptInv'
  BY NextSpeech, NextKept DEF IInv
<1>3. IInv /\ KeptInv => NothingSwallowed
  <2> SUFFICES ASSUME IInv, KeptInv, NEW c \in Members,
                      to_server[c] # << >> \/ Room!Said(Joined(c))
               PROVE  Keeps(c)
    BY DEF NothingSwallowed, Keeps
  <2>1. c \in Client
    BY DEF Members, IInv, TypeOK, ServerType, n_clients
  <2> QED
    BY <2>1 DEF KeptInv, Kept
<1> QED
  BY <1>1, <1>2, <1>3, Invariance, PTL DEF Spec

=============================================================================
