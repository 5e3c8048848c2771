------------------------------- MODULE EmailProofs -------------------------------
(***************************************************************************)
(* Proofs about Email, for any clients, names, room and number of times    *)
(* that users continue their clients: what is read from data and the       *)
(* queues is the reader's own answer unless there was trouble, and a       *)
(* server that is told to stop answers one more query at most.             *)
(***************************************************************************)
EXTENDS Email, FiniteSetTheorems, TLAPS

-----------------------------------------------------------------------------
(* Sequences *)

LEMMA WriteElements ==
    ASSUME NEW S, NEW q \in Seq(S), NEW x \in S
    PROVE  /\ Append(q, x) \in Seq(S) /\ Len(Append(q, x)) = Len(q) + 1 /\ Len(q) \in Nat
           /\ \A k \in 1..Len(q) : Append(q, x)[k] = q[k]
           /\ Append(q, x)[Len(q) + 1] = x
OBVIOUS

LEMMA ReadElements ==
    ASSUME NEW S, NEW q \in Seq(S), q # << >>
    PROVE  /\ Tail(q) \in Seq(S) /\ Len(Tail(q)) = Len(q) - 1 /\ Len(q) \in Nat \ {0}
           /\ Head(q) = q[1] /\ q[1] \in S
           /\ \A k \in 1..(Len(q) - 1) : Tail(q)[k] = q[k + 1]
OBVIOUS

LEMMA OneWritten ==
    ASSUME NEW x PROVE Append(<< >>, x) = <<x>> /\ Head(<<x>>) = x /\ Tail(<<x>>) = << >>
OBVIOUS

LEMMA EmptyType == ASSUME NEW S PROVE << >> \in Seq(S) /\ Len(<< >>) = 0
OBVIOUS

LEMMA RemoveAtType ==
    ASSUME NEW S, NEW q \in Seq(S), NEW k \in 1..Len(q)
    PROVE  RemoveAt(q, k) \in Seq(S) /\ Len(RemoveAt(q, k)) = Len(q) - 1
<1> DEFINE l == SubSeq(q, 1, k - 1)
           r == SubSeq(q, k + 1, Len(q))
<1>1. l \in Seq(S) /\ Len(l) = k - 1
    OBVIOUS
<1>2. r \in Seq(S) /\ Len(r) = Len(q) - k
    OBVIOUS
<1>3. RemoveAt(q, k) = l \o r /\ Len(q) \in Nat
    BY DEF RemoveAt
<1> HIDE DEF l, r
<1>4. l \o r \in Seq(S) /\ Len(l \o r) = Len(l) + Len(r)
    BY <1>1, <1>2
<1> QED
    BY <1>1, <1>2, <1>3, <1>4

-----------------------------------------------------------------------------
(* Queries and answers *)

OwnQueries == {Query(c) : c \in Client}
OwnAnswers == {Answer(q) : q \in OwnQueries}

LEMMA QueryFacts ==
    ASSUME NEW c \in Client
    PROVE  Query(c) \in OwnQueries /\ Query(c).pid = c
BY DEF OwnQueries, Query

LEMMA OwnQueryFacts ==
    ASSUME NEW q \in OwnQueries
    PROVE  /\ q.pid \in Client /\ q = Query(q.pid) /\ q # Garbage
           /\ Answer(q) \in OwnAnswers /\ Answer(q).pid = q.pid
<1>1. PICK c \in Client : q = Query(c)
    BY DEF OwnQueries
<1>2. q.pid = c
    BY <1>1 DEF Query
<1>3. Garbage.pid = Nobody
    BY DEF Garbage
<1>4. Answer(q).pid = q.pid /\ Answer(q) \in OwnAnswers
    BY DEF Answer, OwnAnswers
<1> QED
    BY <1>1, <1>2, <1>3, <1>4, EmailAssumption

LEMMA OwnAnswerFacts ==
    ASSUME NEW r \in OwnAnswers
    PROVE  r.pid \in Client /\ r = Answer(Query(r.pid))
BY OwnQueryFacts DEF OwnAnswers

LEMMA OwnTypes ==
    ASSUME asks \in [Client -> Name]
    PROVE  OwnQueries \subseteq Queries /\ OwnAnswers \subseteq Answers
<1>1. \A c \in Client : Query(c) \in Queries
    BY DEF Query, Queries
<1> QED
    BY <1>1 DEF OwnQueries, OwnAnswers, Answers

LEMMA OwnSame ==
    ASSUME asks' = asks
    PROVE  /\ OwnQueries' = OwnQueries /\ OwnAnswers' = OwnAnswers
           /\ \A c \in Client : Query(c)' = Query(c)
BY DEF OwnQueries, OwnAnswers, Query

LEMMA GarbagePid == Garbage.pid = Nobody /\ Nobody \notin Client
BY EmailAssumption DEF Garbage

-----------------------------------------------------------------------------
(* Types *)

\* Every query is its asker's, and every answer is that to its asker's query.
OwnInv ==
    /\ requests \in Seq(OwnQueries)
    /\ request \in OwnQueries \cup {Garbage}
    /\ data \in Seq(OwnAnswers \cup {Garbage})
    /\ response \in [Client -> OwnAnswers \cup {Garbage}]
    /\ \A c \in Client : cli[c] \in {"complete", "done"} => response[c].pid = c

\* Where the server of each program can be.
ServerInv ==
    /\ program = "fifo" => srv \in {"make", "read", "fill", "kill", "await"}
    /\ program = "mq" => srv \in {"test", "read", "fill", "exited"}
    /\ program = "fifo" /\ srv \in {"fill", "kill", "await"} => request \in OwnQueries
    /\ srv = "make" => made \in {{}, {"requests"}, {"requests", "completions"}}

TypeInv == TypeOK /\ OwnInv /\ ServerInv

LEMMA FifosFacts ==
    /\ ToSet(Fifos) = {"requests", "completions", "data"}
    /\ Fifos[1] = "requests" /\ Fifos[2] = "completions" /\ Fifos[3] = "data"
BY DEF ToSet, Fifos

LEMMA NextFifo ==
    ASSUME made \in {{}, {"requests"}, {"requests", "completions"}}
    PROVE  LET n == Cardinality(made)
               m == made \cup {Fifos[n + 1]}
           IN  /\ m \subseteq ToSet(Fifos)
               /\ n # 2 => m \in {{"requests"}, {"requests", "completions"}}
<1>1. CASE made = {}
    BY <1>1, FS_EmptySet, FifosFacts
<1>2. CASE made = {"requests"}
    <2>1. Cardinality({"requests"}) = 1
        BY FS_Singleton
    <2> QED
        BY <1>2, <2>1, FifosFacts
<1>3. CASE made = {"requests", "completions"}
    <2>1. Cardinality({"requests"}) = 1 /\ IsFiniteSet({"requests"})
        BY FS_Singleton
    <2>2. {"requests", "completions"} = {"requests"} \cup {"completions"} /\ "completions" \notin {"requests"}
        OBVIOUS
    <2>3. Cardinality({"requests", "completions"}) = 2
        BY <2>1, <2>2, FS_AddElement
    <2> QED
        BY <1>3, <2>3, FifosFacts
<1> QED
    BY <1>1, <1>2, <1>3

LEMMA InitTypes == Init => TypeInv
<1> SUFFICES ASSUME Init PROVE TypeInv
    OBVIOUS
<1>1. OwnInv
    BY DEF Init, OwnInv
<1>2. ServerInv
    BY DEF Init, ServerInv
<1>3. TypeOK
    BY EmailAssumption DEF Init, TypeOK
<1> QED
    BY <1>1, <1>2, <1>3 DEF TypeInv

CliState == {"open1", "open2", "open3", "write", "poll", "wait", "read",
             "check", "complete", "done", "failed"}

LEMMA ClientMoves ==
    ASSUME TypeOK, NEW c \in Client, NEW from, NEW to \in CliState, Go(c, from, to)
    PROVE  /\ cli[c] = from /\ cli' \in [Client -> CliState] /\ cli'[c] = to
           /\ \A d \in Client : d # c => cli'[d] = cli[d]
<1>1. cli \in [Client -> CliState] /\ cli[c] = from /\ cli' = [cli EXCEPT ![c] = to]
    BY DEF TypeOK, CliState, Go
<1> QED
    BY <1>1

\* All actions of a program leave the choices of Init alone.
LEMMA ChoicesKept == Next => program' = program /\ asks' = asks
BY DEF Next, ServerStep, ClientStep, MakeFifo, ReadRequest, WriteAnswer, SignalClient, ReadCompletion,
       TestFlag, ReceiveQuery, SendAnswer, Terminate, OpenFifo, WriteRequest, Sleep, SeeSignal,
       ReadAnswer, Check, WriteCompletion, SendQuery, ReceiveAnswer, Continue, Fifo, Mq

\* The server's steps.
LEMMA ServerTypes == TypeInv /\ (ServerStep \/ Terminate) => TypeInv'
<1> SUFFICES ASSUME TypeInv, ServerStep \/ Terminate PROVE TypeInv'
    OBVIOUS
<1> USE DEF files, server, procs
<1>1. TypeOK /\ OwnInv /\ ServerInv /\ program' = program /\ asks' = asks
    BY ChoicesKept DEF TypeInv, Next
<1>2. /\ OwnQueries' = OwnQueries /\ OwnAnswers' = OwnAnswers
      /\ OwnQueries \subseteq Queries /\ OwnAnswers \subseteq Answers
    BY <1>1, OwnSame, OwnTypes DEF TypeOK
<1>3. CASE MakeFifo
    <2>1. /\ program = "fifo" /\ srv = "make"
          /\ made' = made \cup {Fifos[Cardinality(made) + 1]}
          /\ srv' = IF Cardinality(made) = 2 THEN "read" ELSE "make"
          /\ UNCHANGED <<procs, signalled, request, requests, data, completions, continued>>
        BY <1>3 DEF MakeFifo, Fifo
    <2>2. made' \subseteq ToSet(Fifos)
          /\ (srv' = "make" => made' \in {{"requests"}, {"requests", "completions"}})
        BY <1>1, <2>1, NextFifo DEF ServerInv
    <2>3. TypeOK'
        BY <1>1, <2>1, <2>2 DEF TypeOK
    <2>4. OwnInv'
        BY <1>1, <1>2, <2>1 DEF OwnInv
    <2>5. ServerInv'
        BY <1>1, <2>1, <2>2 DEF ServerInv
    <2> QED
        BY <2>3, <2>4, <2>5 DEF TypeInv
<1>4. CASE ReadRequest \/ ReceiveQuery
    <2>1. /\ requests # << >> /\ request' = Head(requests) /\ requests' = Tail(requests) /\ srv' = "fill"
          /\ UNCHANGED <<cli, fds, response, signalled, made, data, completions, continued>>
          /\ program \in {"fifo", "mq"}
        BY <1>4 DEF ReadRequest, ReceiveQuery, Fifo, Mq
    <2>2. request' \in OwnQueries /\ requests' \in Seq(OwnQueries) /\ Len(requests') = Len(requests) - 1
          /\ Len(requests) \in Nat
        BY <1>1, <2>1, ReadElements DEF OwnInv
    <2>3. requests' \in Seq(Queries) /\ request' \in Queries
        BY <1>2, <2>2
    <2>4. Room \in Nat /\ Len(requests) <= Room
        BY <1>1, EmailAssumption DEF TypeOK
    <2>5. TypeOK'
        BY <1>1, <2>1, <2>2, <2>3, <2>4 DEF TypeOK
    <2>6. OwnInv'
        BY <1>1, <1>2, <2>1, <2>2 DEF OwnInv
    <2>7. ServerInv'
        BY <1>1, <1>2, <2>1, <2>2 DEF ServerInv
    <2> QED
        BY <2>5, <2>6, <2>7 DEF TypeInv
<1>5. CASE WriteAnswer \/ SendAnswer
    <2>1. /\ srv = "fill" /\ srv' = (IF program = "fifo" THEN "kill" ELSE "test")
          /\ UNCHANGED <<cli, fds, response, signalled, request, made, requests, completions, continued>>
        BY <1>5 DEF WriteAnswer, SendAnswer, Fifo, Mq
    <2>2. \/ UNCHANGED data
          \/ /\ Len(data) < Room
             /\ data' = Append(data, Garbage) \/ (request # Garbage /\ data' = Append(data, Answer(request)))
        <3>1. CASE WriteAnswer
            <4>1. program = "fifo" /\ srv = "fill"
                BY <3>1 DEF WriteAnswer, Fifo
            <4>2. request # Garbage
                BY <1>1, <4>1, OwnQueryFacts DEF ServerInv
            <4> QED
                BY <3>1, <4>2 DEF WriteAnswer
        <3>2. CASE SendAnswer
            BY <3>2 DEF SendAnswer
        <3> QED
            BY <1>5, <3>1, <3>2
    <2>3. data \in Seq(OwnAnswers \cup {Garbage}) /\ Len(data) <= Room /\ Room \in Nat
        BY <1>1, EmailAssumption DEF OwnInv, TypeOK
    <2>4. request # Garbage => Answer(request) \in OwnAnswers
        BY <1>1, OwnQueryFacts DEF OwnInv
    <2>5. data' \in Seq(OwnAnswers \cup {Garbage}) /\ Len(data') <= Room
        BY <2>2, <2>3, <2>4, WriteElements
    <2>6. data' \in Seq(Answers \cup {Garbage})
        BY <1>2, <2>5
    <2>7. TypeOK'
        BY <1>1, <2>1, <2>5, <2>6 DEF TypeOK
    <2>8. OwnInv'
        BY <1>1, <1>2, <2>1, <2>5 DEF OwnInv
    <2>9. ServerInv'
        BY <1>1, <1>2, <2>1 DEF ServerInv, TypeOK
    <2> QED
        BY <2>7, <2>8, <2>9 DEF TypeInv
<1>6. CASE SignalClient
    <2>1. /\ program = "fifo" /\ srv = "kill" /\ srv' = "await"
          /\ signalled' = signalled \cup {request.pid}
          /\ UNCHANGED <<procs, request, files, continued>>
        BY <1>6 DEF SignalClient, Fifo
    <2>2. request.pid \in Client
        BY <1>1, <2>1, OwnQueryFacts DEF ServerInv
    <2>3. TypeOK'
        BY <1>1, <2>1, <2>2 DEF TypeOK
    <2>4. OwnInv'
        BY <1>1, <1>2, <2>1 DEF OwnInv
    <2>5. ServerInv'
        BY <1>1, <1>2, <2>1 DEF ServerInv
    <2> QED
        BY <2>3, <2>4, <2>5 DEF TypeInv
<1>7. CASE ReadCompletion
    <2>1. /\ program = "fifo" /\ srv' = "read" /\ completions # << >> /\ completions' = Tail(completions)
          /\ UNCHANGED <<procs, signalled, request, made, requests, data, continued>>
        BY <1>7 DEF ReadCompletion, Fifo
    <2>2. completions \in Seq(Client) /\ Len(completions) <= Room /\ Room \in Nat
        BY <1>1, EmailAssumption DEF TypeOK
    <2>3. completions' \in Seq(Client) /\ Len(completions') <= Room
        BY <2>1, <2>2, ReadElements
    <2>4. TypeOK'
        BY <1>1, <2>1, <2>3 DEF TypeOK
    <2>5. OwnInv'
        BY <1>1, <1>2, <2>1 DEF OwnInv
    <2>6. ServerInv'
        BY <1>1, <1>2, <2>1 DEF ServerInv
    <2> QED
        BY <2>4, <2>5, <2>6 DEF TypeInv
<1>8. CASE TestFlag \/ Terminate
    <2>1. /\ program = "mq" /\ srv' \in {"test", "read", "fill", "exited"}
          /\ signalled' \in {signalled, signalled \cup {Server}}
          /\ requests' \in {requests, << >>} /\ data' \in {data, << >>}
          /\ UNCHANGED <<cli, fds, response, request, made, completions, continued>>
        <3>1. CASE TestFlag
            BY <3>1 DEF TestFlag, Mq
        <3>2. CASE Terminate
            <4>1. program = "mq" /\ srv' \in {srv, "fill", "test"}
                BY <3>2 DEF Terminate, Mq
            <4>2. srv \in {"test", "read", "fill", "exited"}
                BY <1>1, <4>1 DEF ServerInv
            <4> QED
                BY <3>2, <4>1, <4>2 DEF Terminate, Mq
        <3> QED
            BY <1>8, <3>1, <3>2
    <2>2. Room \in Nat
        BY EmailAssumption
    <2>3. /\ requests \in Seq(OwnQueries) /\ data \in Seq(OwnAnswers \cup {Garbage})
          /\ Len(requests) <= Room /\ Len(data) <= Room
        BY <1>1 DEF OwnInv, TypeOK
    <2>4. /\ requests' \in Seq(OwnQueries) /\ data' \in Seq(OwnAnswers \cup {Garbage})
          /\ Len(requests') <= Room /\ Len(data') <= Room
        <3>1. << >> \in Seq(OwnQueries) /\ << >> \in Seq(OwnAnswers \cup {Garbage}) /\ Len(<< >>) <= Room
            BY <2>2, EmptyType
        <3>2. requests' \in Seq(OwnQueries) /\ Len(requests') <= Room
            BY <2>1, <2>3, <3>1
        <3>3. data' \in Seq(OwnAnswers \cup {Garbage}) /\ Len(data') <= Room
            BY <2>1, <2>3, <3>1
        <3> QED
            BY <3>2, <3>3
    <2>5. requests' \in Seq(Queries) /\ data' \in Seq(Answers \cup {Garbage})
        BY <1>2, <2>4
    <2>6. signalled' \subseteq Client \cup {Server}
        BY <1>1, <2>1 DEF TypeOK
    <2>7. TypeOK'
        BY <1>1, <2>1, <2>4, <2>5, <2>6 DEF TypeOK
    <2>8. OwnInv'
        BY <1>1, <1>2, <2>1, <2>4 DEF OwnInv
    <2>9. ServerInv'
        BY <1>1, <1>2, <2>1 DEF ServerInv
    <2> QED
        BY <2>7, <2>8, <2>9 DEF TypeInv
<1> QED
    BY <1>3, <1>4, <1>5, <1>6, <1>7, <1>8 DEF ServerStep

\* The clients' steps.
LEMMA ClientTypes == ASSUME TypeInv, NEW c \in Client, ClientStep(c) \/ Continue(c) PROVE TypeInv'
<1> USE DEF files, server, procs
<1>1. TypeOK /\ OwnInv /\ ServerInv /\ program' = program /\ asks' = asks
    BY ChoicesKept DEF TypeInv, Next
<1>2. /\ OwnQueries' = OwnQueries /\ OwnAnswers' = OwnAnswers /\ Query(c) \in OwnQueries
      /\ OwnQueries \subseteq Queries /\ OwnAnswers \subseteq Answers
    BY <1>1, OwnSame, OwnTypes, QueryFacts DEF TypeOK
<1>3. ASSUME UNCHANGED server, made' = made PROVE ServerInv'
    BY <1>1, <1>2, <1>3 DEF ServerInv
<1>4. /\ requests \in Seq(OwnQueries) /\ data \in Seq(OwnAnswers \cup {Garbage}) /\ completions \in Seq(Client)
      /\ Len(requests) <= Room /\ Len(data) <= Room /\ Len(completions) <= Room /\ Room \in Nat
      /\ response \in [Client -> OwnAnswers \cup {Garbage}]
    BY <1>1, EmailAssumption DEF OwnInv, TypeOK
\* A step of the client alone.
<1>5. ASSUME NEW from, NEW to \in CliState, Go(c, from, to),
             to \in {"complete", "done"} => response[c].pid = c,
             fds' \in [Client -> SUBSET ToSet(Fifos)],
             UNCHANGED <<signalled, response, server, files, continued>>
      PROVE  TypeInv'
    <2>1. /\ cli' \in [Client -> CliState] /\ cli'[c] = to
          /\ \A d \in Client : d # c => cli'[d] = cli[d]
        BY <1>1, <1>5, ClientMoves
    <2>2. TypeOK'
        BY <1>1, <1>5, <2>1 DEF TypeOK, CliState
    <2>3. OwnInv'
        BY <1>1, <1>2, <1>5, <2>1 DEF OwnInv
    <2> QED
        BY <1>3, <1>5, <2>2, <2>3 DEF TypeInv
<1>6. CASE OpenFifo(c)
    <2>1. PICK k \in 1..3 :
             /\ Go(c, Opening[k], Opening[k + 1])
             /\ fds' = [fds EXCEPT ![c] = fds[c] \cup (made \cap {Fifos[k]})]
        BY <1>6 DEF OpenFifo
    <2>2. Opening[k + 1] \in CliState \ {"complete", "done"}
        BY DEF Opening, CliState
    <2>3. fds' \in [Client -> SUBSET ToSet(Fifos)]
        BY <1>1, <2>1 DEF TypeOK
    <2> QED
        BY <1>5, <1>6, <2>1, <2>2, <2>3 DEF OpenFifo
<1>7. CASE Sleep(c) \/ SeeSignal(c)
    <2>1. PICK from \in {"poll", "wait"}, to \in {"wait", "read"} : Go(c, from, to)
        BY <1>7 DEF Sleep, SeeSignal
    <2>2. to \in CliState
        BY DEF CliState
    <2>3. fds' \in [Client -> SUBSET ToSet(Fifos)]
        BY <1>1, <1>7 DEF TypeOK, Sleep, SeeSignal
    <2> QED
        BY <1>5, <1>7, <2>1, <2>2, <2>3 DEF Sleep, SeeSignal
<1>8. CASE Check(c)
    <2> DEFINE to == IF response[c].pid # c THEN "failed" ELSE IF program = "fifo" THEN "complete" ELSE "done"
    <2>1. Go(c, "check", to) /\ to \in CliState
        BY <1>8 DEF Check, CliState
    <2>2. to \in {"complete", "done"} => response[c].pid = c
        OBVIOUS
    <2>3. fds' \in [Client -> SUBSET ToSet(Fifos)]
        BY <1>1, <1>8 DEF TypeOK, Check
    <2>4. UNCHANGED <<signalled, response, server, files, continued>>
        BY <1>8 DEF Check
    <2> HIDE DEF to
    <2> QED
        BY <1>5, <2>1, <2>2, <2>3, <2>4
<1>9. CASE WriteRequest(c) \/ SendQuery(c)
    <2>1. /\ \E to \in {"poll", "read"} : Go(c, "write", to)
          /\ UNCHANGED requests \/ (Len(requests) < Room /\ requests' = Append(requests, Query(c)))
          /\ UNCHANGED <<fds, signalled, response, server, made, data, completions, continued>>
        BY <1>9 DEF WriteRequest, SendQuery, Fifo, Mq
    <2>2. PICK to \in {"poll", "read"} : Go(c, "write", to)
        BY <2>1
    <2>3. /\ cli' \in [Client -> CliState] /\ cli'[c] \notin {"complete", "done"}
          /\ \A d \in Client : d # c => cli'[d] = cli[d]
        <3>1. to \in CliState
            BY DEF CliState
        <3> QED
            BY <1>1, <2>2, <3>1, ClientMoves
    <2>4. requests' \in Seq(OwnQueries) /\ Len(requests') <= Room
        <3>1. CASE UNCHANGED requests
            BY <1>4, <3>1
        <3>2. CASE Len(requests) < Room /\ requests' = Append(requests, Query(c))
            <4>1. Query(c) \in OwnQueries
                BY <1>2
            <4>2. requests \in Seq(OwnQueries)
                BY <1>4
            <4> HIDE DEF OwnQueries
            <4>3. requests' \in Seq(OwnQueries) /\ Len(requests') = Len(requests) + 1
                BY <3>2, <4>1, <4>2
            <4> QED
                BY <1>4, <3>2, <4>2, <4>3
        <3> QED
            BY <2>1, <3>1, <3>2
    <2>5. requests' \in Seq(Queries)
        BY <1>2, <2>4
    <2>6. TypeOK'
        BY <1>1, <2>1, <2>3, <2>4, <2>5 DEF TypeOK, CliState
    <2>7. OwnInv'
        BY <1>1, <1>2, <2>1, <2>3, <2>4 DEF OwnInv
    <2> QED
        BY <1>3, <2>1, <2>6, <2>7 DEF TypeInv
<1>10. CASE ReadAnswer(c) \/ ReceiveAnswer(c)
    <2>1. /\ Go(c, "read", "check")
          /\ UNCHANGED <<fds, signalled, server, made, requests, completions, continued>>
          /\ \/ UNCHANGED <<response, data>>
             \/ data # << >> /\ response' = [response EXCEPT ![c] = Head(data)] /\ data' = Tail(data)
             \/ \E k \in 1..Len(data) :
                   response' = [response EXCEPT ![c] = data[k]] /\ data' = RemoveAt(data, k)
        BY <1>10 DEF ReadAnswer, ReceiveAnswer, Fifo, Mq
    <2>2. /\ cli' \in [Client -> CliState] /\ cli'[c] = "check"
          /\ \A d \in Client : d # c => cli'[d] = cli[d]
        <3>1. "check" \in CliState
            BY DEF CliState
        <3> QED
            BY <1>1, <2>1, <3>1, ClientMoves
    <2>3. /\ data' \in Seq(OwnAnswers \cup {Garbage}) /\ Len(data') <= Room
          /\ response' \in [Client -> OwnAnswers \cup {Garbage}]
          /\ \A d \in Client : d # c => response'[d] = response[d]
        <3>1. CASE UNCHANGED <<response, data>>
            BY <1>4, <3>1
        <3>2. CASE data # << >> /\ response' = [response EXCEPT ![c] = Head(data)] /\ data' = Tail(data)
            <4>1. Head(data) \in OwnAnswers \cup {Garbage} /\ data' \in Seq(OwnAnswers \cup {Garbage})
                  /\ Len(data') = Len(data) - 1 /\ Len(data) \in Nat
                BY <1>4, <3>2, ReadElements
            <4> QED
                BY <1>4, <3>2, <4>1
        <3>3. ASSUME NEW k \in 1..Len(data),
                     response' = [response EXCEPT ![c] = data[k]], data' = RemoveAt(data, k)
              PROVE  /\ data' \in Seq(OwnAnswers \cup {Garbage}) /\ Len(data') <= Room
                     /\ response' \in [Client -> OwnAnswers \cup {Garbage}]
                     /\ \A d \in Client : d # c => response'[d] = response[d]
            <4>1. data[k] \in OwnAnswers \cup {Garbage} /\ Len(data) \in Nat
                BY <1>4
            <4>2. data' \in Seq(OwnAnswers \cup {Garbage}) /\ Len(data') = Len(data) - 1
                BY <1>4, <3>3, RemoveAtType
            <4> QED
                BY <1>4, <3>3, <4>1, <4>2
        <3> QED
            BY <2>1, <3>1, <3>2, <3>3
    <2>4. /\ data' \in Seq(Answers \cup {Garbage})
          /\ response' \in [Client -> Answers \cup {Garbage}]
        BY <1>2, <2>3
    <2>5. TypeOK'
        BY <1>1, <2>1, <2>2, <2>3, <2>4 DEF TypeOK, CliState
    <2>6. OwnInv'
        BY <1>1, <1>2, <2>1, <2>2, <2>3 DEF OwnInv
    <2> QED
        BY <1>3, <2>1, <2>5, <2>6 DEF TypeInv
<1>11. CASE WriteCompletion(c)
    <2>1. /\ Go(c, "complete", "done")
          /\ UNCHANGED completions \/ (Len(completions) < Room /\ completions' = Append(completions, c))
          /\ UNCHANGED <<fds, signalled, response, server, made, requests, data, continued>>
        BY <1>11 DEF WriteCompletion
    <2>2. /\ cli' \in [Client -> CliState] /\ cli[c] = "complete" /\ cli'[c] = "done"
          /\ \A d \in Client : d # c => cli'[d] = cli[d]
        <3>1. "done" \in CliState
            BY DEF CliState
        <3> QED
            BY <1>1, <2>1, <3>1, ClientMoves
    <2>3. completions' \in Seq(Client) /\ Len(completions') <= Room
        <3>1. CASE Len(completions) < Room /\ completions' = Append(completions, c)
            <4>1. Append(completions, c) \in Seq(Client) /\ Len(Append(completions, c)) = Len(completions) + 1
                  /\ Len(completions) \in Nat
                BY <1>4, WriteElements
            <4> QED
                BY <1>4, <3>1, <4>1
        <3>2. CASE completions' = completions
            BY <1>4, <3>2
        <3> QED
            BY <2>1, <3>1, <3>2
    <2>4. TypeOK'
        BY <1>1, <2>1, <2>2, <2>3 DEF TypeOK, CliState
    <2>5. OwnInv'
        BY <1>1, <1>2, <2>1, <2>2 DEF OwnInv
    <2> QED
        BY <1>3, <2>1, <2>4, <2>5 DEF TypeInv
<1>12. CASE Continue(c)
    <2>1. /\ continued < Continues /\ continued' = continued + 1 /\ signalled' = signalled \cup {c}
          /\ UNCHANGED <<procs, server, files>>
        BY <1>12 DEF Continue
    <2>2. continued' \in 0..Continues
        BY <1>1, <2>1, EmailAssumption DEF TypeOK
    <2>3. TypeOK'
        BY <1>1, <2>1, <2>2 DEF TypeOK
    <2>4. OwnInv'
        BY <1>1, <1>2, <2>1 DEF OwnInv
    <2> QED
        BY <1>3, <2>1, <2>3, <2>4 DEF TypeInv
<1> QED
    BY <1>6, <1>7, <1>8, <1>9, <1>10, <1>11, <1>12 DEF ClientStep

LEMMA StutterTypes == TypeInv /\ UNCHANGED vars => TypeInv'
<1> SUFFICES ASSUME TypeInv, UNCHANGED vars PROVE TypeInv'
    OBVIOUS
<1>1. OwnQueries' = OwnQueries /\ OwnAnswers' = OwnAnswers
    BY OwnSame DEF vars
<1>2. TypeOK'
    BY DEF TypeInv, TypeOK, vars, files, server, procs
<1>3. OwnInv' /\ ServerInv'
    BY <1>1 DEF TypeInv, OwnInv, ServerInv, vars, files, server, procs
<1> QED
    BY <1>2, <1>3 DEF TypeInv

LEMMA NextTypes == TypeInv /\ [Next]_vars => TypeInv'
BY ServerTypes, ClientTypes, StutterTypes DEF Next

\* Type correctness: what every process reads, stores and writes stays within its
\* range, the contents of the FIFOs and queues within Room.
THEOREM TypeCorrect == Spec => []TypeOK
<1>1. TypeInv => TypeOK
    BY DEF TypeInv
<1> QED
    BY <1>1, InitTypes, NextTypes, PTL DEF Spec

-----------------------------------------------------------------------------
(* The server that is told to stop *)

\* Only the removal of the queues has a client of theirs go on without its answer.
StopInv ==
    /\ late \in {0, 1}
    /\ late = 1 => program = "mq" /\ Server \in signalled /\ srv \in {"test", "exited"}
    /\ srv = "exited" => program = "mq" /\ Server \in signalled
    /\ program = "mq" => \A c \in Client :
         /\ cli[c] = "check" => response[c].pid = c \/ srv = "exited"
         /\ cli[c] = "failed" => srv = "exited"

LEMMA NextStop == TypeInv /\ StopInv /\ [Next]_vars => StopInv'
<1> SUFFICES ASSUME TypeInv, StopInv, [Next]_vars PROVE StopInv'
    OBVIOUS
<1> USE DEF StopInv, files, server, procs
<1>1. TypeOK /\ OwnInv /\ ServerInv
    BY DEF TypeInv
<1>2. CASE MakeFifo \/ ReadRequest \/ WriteAnswer \/ SignalClient \/ ReadCompletion
    <2>1. program = "fifo" /\ program' = program /\ srv' # "exited" /\ late' = late
        BY <1>2 DEF MakeFifo, ReadRequest, WriteAnswer, SignalClient, ReadCompletion, Fifo
    <2> QED
        BY <2>1
<1>3. CASE TestFlag
    BY <1>3 DEF TestFlag, Mq
<1>4. CASE ReceiveQuery \/ SendAnswer
    BY <1>4 DEF ReceiveQuery, SendAnswer, Mq
<1>5. CASE Terminate
    <2>1. /\ program = "mq" /\ srv # "exited" /\ signalled' = signalled \cup {Server}
          /\ UNCHANGED <<program, cli, response, late>>
        BY <1>5 DEF Terminate, Mq
    <2>2. srv' = srv \/ srv \in {"read", "fill"}
        BY <1>5 DEF Terminate
    <2>3. late = 1 => srv' = srv
        BY <2>2
    <2>4. srv' # "exited"
        BY <1>5, <2>1 DEF Terminate
    <2> QED
        BY <2>1, <2>3, <2>4
<1>6. ASSUME NEW c \in Client, OpenFifo(c) \/ WriteRequest(c) \/ Sleep(c) \/ SeeSignal(c) \/ ReadAnswer(c)
                               \/ WriteCompletion(c) \/ Continue(c)
      PROVE  StopInv'
    <2>1. program = "fifo" /\ program' = program /\ srv' = srv /\ late' = late
        BY <1>6 DEF OpenFifo, WriteRequest, Sleep, SeeSignal, ReadAnswer, WriteCompletion, Continue, Fifo
    <2> QED
        BY <2>1
<1>7. ASSUME NEW c \in Client, SendQuery(c) PROVE StopInv'
    <2>1. /\ UNCHANGED <<program, srv, late, response, signalled>> /\ Go(c, "write", "read")
        BY <1>7 DEF SendQuery, Mq
    <2>2. cli'[c] = "read" /\ \A d \in Client : d # c => cli'[d] = cli[d]
        BY <1>1, <2>1, ClientMoves DEF CliState
    <2> QED
        BY <2>1, <2>2
<1>8. ASSUME NEW c \in Client, ReceiveAnswer(c) PROVE StopInv'
    <2>1. /\ UNCHANGED <<program, srv, late, signalled>> /\ Go(c, "read", "check")
        BY <1>8 DEF ReceiveAnswer, Mq
    <2>2. cli'[c] = "check" /\ \A d \in Client : d # c => cli'[d] = cli[d]
        BY <1>1, <2>1, ClientMoves DEF CliState
    <2>3. /\ response'[c].pid = c \/ srv = "exited"
          /\ \A d \in Client : d # c => response'[d] = response[d]
        BY <1>1, <1>8 DEF ReceiveAnswer, OwnInv
    <2> QED
        BY <2>1, <2>2, <2>3
<1>9. ASSUME NEW c \in Client, Check(c) PROVE StopInv'
    <2>1. /\ UNCHANGED <<program, srv, late, signalled, response>>
          /\ Go(c, "check", IF response[c].pid # c THEN "failed"
                            ELSE IF program = "fifo" THEN "complete" ELSE "done")
        BY <1>9 DEF Check
    <2>2. /\ cli[c] = "check" /\ cli'[c] # "check" /\ (cli'[c] = "failed" => response[c].pid # c)
          /\ \A d \in Client : d # c => cli'[d] = cli[d]
        BY <1>1, <2>1, ClientMoves DEF CliState
    <2> QED
        BY <2>1, <2>2
<1>10. CASE UNCHANGED vars
    BY <1>10 DEF vars
<1> QED
    BY <1>2, <1>3, <1>4, <1>5, <1>6, <1>7, <1>8, <1>9, <1>10 DEF Next, ServerStep, ClientStep

\* For any number of clients and any traffic: em_server_mq answers one more query
\* at most after the signal that tells it to stop.
THEOREM StopsAfterOne == Spec => []StopsSoon
<1>1. Init => StopInv
    BY DEF Init, StopInv
<1>2. StopInv => StopsSoon
    BY DEF StopInv, StopsSoon
<1> QED
    BY <1>1, <1>2, InitTypes, NextTypes, NextStop, PTL DEF Spec

-----------------------------------------------------------------------------
(* The service over FIFOs as long as there is no trouble *)

Calm == program = "fifo" /\ continued = 0 /\ \A c \in Client : ~Early(c)

Queued(c)  == \E k \in 1..Len(requests) : requests[k].pid = c
Serving(c) == srv \in {"fill", "kill"} /\ request.pid = c
Pending    == srv = "kill" \/ (srv = "await" /\ cli[request.pid] \in {"poll", "wait", "read"})
Completed  == srv = "await" /\ cli[request.pid] = "done"

\* A client that has asked waits until it is told.
AskedInv ==
    /\ \A k, l \in 1..Len(requests) : requests[k].pid = requests[l].pid => k = l
    /\ \A c \in Client : Queued(c) \/ Serving(c) => cli[c] \in {"poll", "wait"} /\ c \notin signalled
    /\ \A c \in Client : ~(Queued(c) /\ Serving(c))

\* Only the client that the server waits for has been told and is not done.
ToldInv ==
    /\ \A c \in Client : c \in signalled =>
          \/ cli[c] = "done"
          \/ srv = "await" /\ request.pid = c /\ cli[c] \in {"poll", "wait", "read", "check", "complete"}
    /\ \A c \in Client : cli[c] \in {"read", "check", "complete", "done", "failed"} => c \in signalled
    /\ \A c \in Client : cli[c] = "check" => response[c].pid = c
    /\ srv = "await" => request.pid \in signalled

\* data holds that client's answer until it is read, completions its word that it is done.
HandedInv ==
    /\ data = IF Pending THEN <<Answer(request)>> ELSE << >>
    /\ completions = IF Completed THEN <<request.pid>> ELSE << >>

CalmInv == AskedInv /\ ToldInv /\ HandedInv

\* Trouble does not go away.
LEMMA CalmBefore == TypeInv /\ [Next]_vars /\ Calm' => Calm
<1> SUFFICES ASSUME TypeInv, [Next]_vars, Calm' PROVE Calm
    OBVIOUS
<1> USE DEF files, server, procs
<1>1. TypeOK
    BY DEF TypeInv
<1>2. CASE ServerStep \/ Terminate \/ UNCHANGED vars
    <2>1. UNCHANGED <<program, cli, fds, continued>>
        BY <1>2 DEF ServerStep, MakeFifo, ReadRequest, WriteAnswer, SignalClient, ReadCompletion,
                    TestFlag, ReceiveQuery, SendAnswer, Terminate, Fifo, Mq, vars
    <2> QED
        BY <2>1 DEF Calm, Early
<1>3. ASSUME NEW c \in Client, Continue(c) PROVE FALSE
    BY <1>1, <1>3 DEF Continue, Calm, TypeOK
<1>4. ASSUME NEW c \in Client, ClientStep(c) PROVE Calm
    <2>1. UNCHANGED <<program, continued>>
        BY <1>4 DEF ClientStep, OpenFifo, WriteRequest, Sleep, SeeSignal, ReadAnswer, Check, WriteCompletion,
                    SendQuery, ReceiveAnswer, Fifo, Mq
    <2>2. \A d \in Client : Early(d) => Early(d)'
        <3>1. ASSUME OpenFifo(c) PROVE \A d \in Client : Early(d) => Early(d)'
            <4>1. PICK k \in 1..3 :
                     /\ Go(c, Opening[k], Opening[k + 1])
                     /\ fds' = [fds EXCEPT ![c] = fds[c] \cup (made \cap {Fifos[k]})]
                BY <3>1 DEF OpenFifo
            <4>2. Opening[k] \in {"open1", "open2", "open3"} /\ Opening[k + 1] \in CliState
                BY DEF Opening, CliState
            <4>3. cli[c] \in {"open1", "open2", "open3"} /\ \A d \in Client : d # c => cli'[d] = cli[d]
                BY <1>1, <4>1, <4>2, ClientMoves
            <4>4. \A d \in Client : d # c => fds'[d] = fds[d]
                BY <1>1, <4>1 DEF TypeOK
            <4> QED
                BY <4>3, <4>4 DEF Early
        <3>2. ASSUME NEW from, NEW to \in CliState \ {"open1", "open2", "open3"}, Go(c, from, to), fds' = fds
              PROVE  \A d \in Client : Early(d) => Early(d)'
            <4>1. cli'[c] = to /\ \A d \in Client : d # c => cli'[d] = cli[d]
                BY <1>1, <3>2, ClientMoves
            <4> QED
                BY <3>2, <4>1 DEF Early
        <3>3. fds' = fds \/ OpenFifo(c)
            BY <1>4 DEF ClientStep, WriteRequest, Sleep, SeeSignal, ReadAnswer, Check, WriteCompletion,
                        SendQuery, ReceiveAnswer, Mq
        <3>4. OpenFifo(c) \/ \E from, to \in CliState \ {"open1", "open2", "open3"} : Go(c, from, to)
            BY <1>4 DEF ClientStep, WriteRequest, Sleep, SeeSignal, ReadAnswer, Check, WriteCompletion,
                        SendQuery, ReceiveAnswer, CliState
        <3> QED
            BY <3>1, <3>2, <3>3, <3>4
    <2> QED
        BY <2>1, <2>2 DEF Calm
<1> QED
    BY <1>2, <1>3, <1>4 DEF Next

LEMMA AwaitedIsClient ==
    TypeInv /\ program = "fifo" /\ srv \in {"fill", "kill", "await"} =>
        request \in OwnQueries /\ request.pid \in Client
BY OwnQueryFacts DEF TypeInv, ServerInv

\* The server reads, answers, tells and waits for one client at a time.
LEMMA ServerCalm == ASSUME TypeInv, CalmInv, program = "fifo", ServerStep PROVE CalmInv'
<1> USE DEF files, server, procs
<1>1. TypeOK /\ OwnInv /\ AskedInv /\ ToldInv /\ HandedInv
    BY DEF TypeInv, CalmInv
<1>2. CASE MakeFifo
    <2>1. /\ srv = "make" /\ srv' \in {"make", "read"}
          /\ UNCHANGED <<cli, signalled, response, request, requests, data, completions>>
        BY <1>2 DEF MakeFifo, Fifo
    <2>2. AskedInv'
        BY <1>1, <2>1 DEF AskedInv, Queued, Serving
    <2>3. ToldInv'
        BY <1>1, <2>1 DEF ToldInv
    <2>4. HandedInv'
        BY <1>1, <2>1 DEF HandedInv, Pending, Completed
    <2> QED
        BY <2>2, <2>3, <2>4 DEF CalmInv
<1>3. CASE ReadRequest
    <2>1. /\ srv = "read" /\ srv' = "fill" /\ requests # << >>
          /\ request' = Head(requests) /\ requests' = Tail(requests)
          /\ UNCHANGED <<cli, signalled, response, data, completions>>
        BY <1>3 DEF ReadRequest, Fifo
    <2>2. requests \in Seq(OwnQueries)
        BY <1>1 DEF OwnInv
    <2>3. /\ Len(requests') = Len(requests) - 1 /\ Len(requests) \in Nat \ {0} /\ request' = requests[1]
          /\ \A k \in 1..(Len(requests) - 1) : requests'[k] = requests[k + 1]
        BY <2>1, <2>2, ReadElements
    <2>4. \A c \in Client : Queued(c)' => Queued(c)
        <3>1. ASSUME NEW c \in Client, Queued(c)' PROVE Queued(c)
            <4>1. PICK k \in 1..Len(requests') : requests'[k].pid = c
                BY <3>1 DEF Queued
            <4>2. k + 1 \in 1..Len(requests) /\ requests[k + 1].pid = c
                BY <2>3, <4>1
            <4> QED
                BY <4>2 DEF Queued
        <3> QED
            BY <3>1
    <2>5. \A c \in Client : Serving(c)' => Queued(c)
        BY <2>3 DEF Serving, Queued
    <2>6. \A k, l \in 1..Len(requests') : requests'[k].pid = requests'[l].pid => k = l
        <3>1. ASSUME NEW k \in 1..Len(requests'), NEW l \in 1..Len(requests'), requests'[k].pid = requests'[l].pid
              PROVE  k = l
            <4>1. /\ k + 1 \in 1..Len(requests) /\ l + 1 \in 1..Len(requests)
                  /\ requests[k + 1].pid = requests[l + 1].pid
                BY <2>3, <3>1
            <4>2. k + 1 = l + 1
                BY <1>1, <4>1 DEF AskedInv
            <4> QED
                BY <2>3, <4>2
        <3> QED
            BY <3>1
    <2>7. \A c \in Client : ~(Queued(c)' /\ Serving(c)')
        <3>1. ASSUME NEW c \in Client, Queued(c)', Serving(c)' PROVE FALSE
            <4>1. PICK k \in 1..Len(requests') : requests'[k].pid = c
                BY <3>1 DEF Queued
            <4>2. k + 1 \in 1..Len(requests) /\ requests[k + 1].pid = c
                BY <2>3, <4>1
            <4>3. 1 \in 1..Len(requests) /\ requests[1].pid = c
                BY <2>3, <3>1 DEF Serving
            <4>4. k + 1 = 1
                BY <1>1, <4>2, <4>3 DEF AskedInv
            <4> QED
                BY <2>3, <4>4
        <3> QED
            BY <3>1
    <2>8. AskedInv'
        BY <1>1, <2>1, <2>4, <2>5, <2>6, <2>7 DEF AskedInv
    <2>9. ToldInv'
        BY <1>1, <2>1 DEF ToldInv
    <2>10. HandedInv'
        BY <1>1, <2>1 DEF HandedInv, Pending, Completed
    <2> QED
        BY <2>8, <2>9, <2>10 DEF CalmInv
<1>4. CASE WriteAnswer
    <2>1. /\ srv = "fill" /\ srv' = "kill" /\ data' = Append(data, Answer(request))
          /\ UNCHANGED <<cli, signalled, response, request, requests, completions>>
        BY <1>4 DEF WriteAnswer, Fifo
    <2>2. AskedInv'
        BY <1>1, <2>1 DEF AskedInv, Queued, Serving
    <2>3. ToldInv'
        BY <1>1, <2>1 DEF ToldInv
    <2>4. HandedInv'
        <3>1. data = << >> /\ completions = << >>
            BY <1>1, <2>1 DEF HandedInv, Pending, Completed
        <3>2. data' = <<Answer(request)>>
            BY <2>1, <3>1, OneWritten
        <3> QED
            BY <2>1, <3>1, <3>2 DEF HandedInv, Pending, Completed
    <2> QED
        BY <2>2, <2>3, <2>4 DEF CalmInv
<1>5. CASE SignalClient
    <2>1. /\ srv = "kill" /\ srv' = "await" /\ signalled' = signalled \cup {request.pid}
          /\ UNCHANGED <<cli, response, request, requests, data, completions>>
        BY <1>5 DEF SignalClient, Fifo
    <2>2. request.pid \in Client /\ Serving(request.pid)
        BY <2>1, AwaitedIsClient DEF Serving
    <2>3. cli[request.pid] \in {"poll", "wait"} /\ ~Queued(request.pid)
        BY <1>1, <2>2 DEF AskedInv
    <2>4. AskedInv'
        BY <1>1, <2>1, <2>3 DEF AskedInv, Queued, Serving
    <2>5. ToldInv'
        BY <1>1, <2>1, <2>3 DEF ToldInv
    <2>6. HandedInv'
        BY <1>1, <2>1, <2>3 DEF HandedInv, Pending, Completed
    <2> QED
        BY <2>4, <2>5, <2>6 DEF CalmInv
<1>6. CASE ReadCompletion
    <2>1. /\ srv = "await" /\ srv' = "read" /\ completions # << >> /\ completions' = Tail(completions)
          /\ UNCHANGED <<cli, signalled, response, request, requests, data>>
        BY <1>6 DEF ReadCompletion, Fifo
    <2>2. cli[request.pid] = "done" /\ completions = <<request.pid>> /\ data = << >>
        BY <1>1, <2>1 DEF HandedInv, Pending, Completed
    <2>3. completions' = << >>
        BY <2>1, <2>2, OneWritten
    <2>4. AskedInv'
        BY <1>1, <2>1 DEF AskedInv, Queued, Serving
    <2>5. ToldInv'
        BY <1>1, <2>1, <2>2 DEF ToldInv
    <2>6. HandedInv'
        BY <2>1, <2>2, <2>3 DEF HandedInv, Pending, Completed
    <2> QED
        BY <2>4, <2>5, <2>6 DEF CalmInv
<1> QED
    BY <1>2, <1>3, <1>4, <1>5, <1>6 DEF ServerStep, TestFlag, ReceiveQuery, SendAnswer, Mq

\* The clients ask, wait, read and say that they are done.
LEMMA ClientCalm == ASSUME TypeInv, Calm, CalmInv, NEW c \in Client, ClientStep(c) PROVE CalmInv'
<1> USE DEF files, server, procs
<1>1. TypeOK /\ OwnInv /\ AskedInv /\ ToldInv /\ HandedInv /\ program = "fifo" /\ ~Early(c)
    BY DEF TypeInv, CalmInv, Calm
<1>2. cli[c] \notin {"open1", "open2", "open3"} => fds[c] = {"requests", "completions", "data"}
    BY <1>1, FifosFacts DEF Early
<1>3. srv = "await" => request.pid \in signalled /\ request.pid \in Client
    BY <1>1, AwaitedIsClient DEF ToldInv
<1>4. ~Mq
    BY <1>1 DEF Mq
\* A step of the client alone, which leaves it as it is for the server.
<1>5. ASSUME NEW from, NEW to \in CliState, Go(c, from, to),
             UNCHANGED <<signalled, response, srv, request, requests, data, completions>>,
             \/ from \notin {"poll", "wait", "read", "check", "complete", "done", "failed"} /\ to \in {"open2", "open3", "write"}
             \/ from = "poll" /\ to = "wait"
             \/ from \in {"poll", "wait"} /\ to = "read" /\ c \in signalled
             \/ from = "check" /\ to = "complete"
      PROVE  CalmInv'
    <2>1. cli[c] = from /\ cli'[c] = to /\ \A d \in Client : d # c => cli'[d] = cli[d]
        BY <1>1, <1>5, ClientMoves
    <2>2. \A d \in Client : Queued(d)' = Queued(d) /\ Serving(d)' = Serving(d)
        BY <1>5 DEF Queued, Serving
    <2>3. AskedInv'
        BY <1>1, <1>5, <2>1, <2>2 DEF AskedInv
    <2>4. ToldInv'
        <3>1. /\ c \in signalled => (srv = "await" /\ request.pid = c) \/ cli[c] = "done"
              /\ cli[c] \in {"read", "check", "complete", "done", "failed"} => c \in signalled
            BY <1>1 DEF ToldInv
        <3> QED
            BY <1>1, <1>5, <2>1, <3>1 DEF ToldInv
    <2>5. Pending' = Pending /\ Completed' = Completed
        <3>1. CASE srv = "await" /\ request.pid = c
            BY <1>3, <1>5, <2>1, <3>1 DEF Pending, Completed
        <3>2. CASE ~(srv = "await" /\ request.pid = c)
            BY <1>3, <1>5, <2>1, <3>2 DEF Pending, Completed
        <3> QED
            BY <3>1, <3>2
    <2>6. HandedInv'
        BY <1>1, <1>5, <2>5 DEF HandedInv
    <2> QED
        BY <2>3, <2>4, <2>6 DEF CalmInv
<1>6. CASE OpenFifo(c)
    <2>1. PICK k \in 1..3 : Go(c, Opening[k], Opening[k + 1])
        BY <1>6 DEF OpenFifo
    <2>2. /\ Opening[k] \in {"open1", "open2", "open3"} /\ Opening[k + 1] \in {"open2", "open3", "write"}
          /\ Opening[k + 1] \in CliState
        BY DEF Opening, CliState
    <2>3. Opening[k] \notin {"poll", "wait", "read", "check", "complete", "done", "failed"}
        BY <2>2
    <2> QED
        BY <1>5, <1>6, <2>1, <2>2, <2>3 DEF OpenFifo
<1>7. CASE Sleep(c)
    BY <1>5, <1>7 DEF Sleep, CliState
<1>8. CASE SeeSignal(c)
    BY <1>5, <1>8 DEF SeeSignal, CliState
<1>9. CASE Check(c)
    <2>1. cli[c] = "check" /\ response[c].pid = c
        BY <1>1, <1>9 DEF Check, Go, ToldInv
    <2>2. Go(c, "check", "complete")
        BY <1>1, <1>9, <2>1 DEF Check
    <2> QED
        BY <1>5, <1>9, <2>2 DEF Check, CliState
<1>10. CASE WriteRequest(c)
    <2>1. /\ Go(c, "write", "poll") /\ cli[c] = "write"
          /\ UNCHANGED <<signalled, response, srv, request, data, completions>>
        BY <1>10 DEF WriteRequest, Go
    <2>2. cli'[c] = "poll" /\ \A d \in Client : d # c => cli'[d] = cli[d]
        BY <1>1, <2>1, ClientMoves DEF CliState
    <2>3. requests' = Append(requests, Query(c))
        BY <1>2, <1>10, <2>1 DEF WriteRequest
    <2>4. requests \in Seq(OwnQueries) /\ Query(c) \in OwnQueries /\ Query(c).pid = c
        BY <1>1, QueryFacts DEF OwnInv
    <2>5. /\ Len(requests') = Len(requests) + 1 /\ Len(requests) \in Nat
          /\ \A k \in 1..Len(requests) : requests'[k] = requests[k]
          /\ requests'[Len(requests) + 1].pid = c
        BY <2>3, <2>4, WriteElements
    <2>6. c \notin signalled /\ ~Queued(c) /\ ~Serving(c)
        BY <1>1, <2>1 DEF AskedInv, ToldInv
    <2>7. \A d \in Client : Queued(d)' => Queued(d) \/ d = c
        <3>1. ASSUME NEW d \in Client, Queued(d)' PROVE Queued(d) \/ d = c
            <4>1. PICK k \in 1..Len(requests') : requests'[k].pid = d
                BY <3>1 DEF Queued
            <4>2. k \in 1..Len(requests) \/ k = Len(requests) + 1
                BY <2>5
            <4> QED
                BY <2>5, <4>1, <4>2 DEF Queued
        <3> QED
            BY <3>1
    <2>8. \A k, l \in 1..Len(requests') : requests'[k].pid = requests'[l].pid => k = l
        <3>1. \A k \in 1..Len(requests) : requests[k].pid # c
            BY <2>6 DEF Queued
        <3>2. ASSUME NEW k \in 1..Len(requests'), NEW l \in 1..Len(requests'), requests'[k].pid = requests'[l].pid
              PROVE  k = l
            <4>1. /\ k \in 1..Len(requests) \/ k = Len(requests) + 1
                  /\ l \in 1..Len(requests) \/ l = Len(requests) + 1
                BY <2>5
            <4>2. CASE k \in 1..Len(requests) /\ l \in 1..Len(requests)
                BY <1>1, <2>5, <3>2, <4>2 DEF AskedInv
            <4> QED
                BY <2>5, <3>1, <3>2, <4>1, <4>2
        <3> QED
            BY <3>2
    <2>9. \A d \in Client : Serving(d)' = Serving(d)
        BY <2>1 DEF Serving
    <2>10. AskedInv'
        BY <1>1, <2>1, <2>2, <2>6, <2>7, <2>8, <2>9 DEF AskedInv
    <2>11. ToldInv'
        BY <1>1, <2>1, <2>2, <2>6 DEF ToldInv
    <2>12. Pending' = Pending /\ Completed' = Completed
        BY <1>3, <2>1, <2>2, <2>6 DEF Pending, Completed
    <2>13. HandedInv'
        BY <1>1, <2>1, <2>12 DEF HandedInv
    <2> QED
        BY <2>10, <2>11, <2>13 DEF CalmInv
<1>11. CASE ReadAnswer(c)
    <2>1. /\ Go(c, "read", "check") /\ cli[c] = "read"
          /\ UNCHANGED <<signalled, srv, request, requests, completions>>
        BY <1>11 DEF ReadAnswer, Go
    <2>2. cli'[c] = "check" /\ \A d \in Client : d # c => cli'[d] = cli[d]
        BY <1>1, <2>1, ClientMoves DEF CliState
    <2>3. response' = [response EXCEPT ![c] = Head(data)] /\ data' = Tail(data)
        BY <1>2, <1>11, <2>1 DEF ReadAnswer
    <2>4. c \in signalled /\ srv = "await" /\ request.pid = c
        BY <1>1, <2>1 DEF ToldInv
    <2>5. data = <<Answer(request)>> /\ completions = << >>
        BY <1>1, <2>1, <2>4 DEF HandedInv, Pending, Completed
    <2>6. data' = << >> /\ Head(data) = Answer(request)
        BY <2>3, <2>5, OneWritten
    <2>7. Answer(request).pid = c
        BY <1>1, <2>4, AwaitedIsClient, OwnQueryFacts
    <2>8. response'[c].pid = c /\ \A d \in Client : d # c => response'[d] = response[d]
        BY <1>1, <2>3, <2>6, <2>7 DEF OwnInv
    <2>9. \A d \in Client : Queued(d)' = Queued(d) /\ Serving(d)' = Serving(d)
        BY <2>1 DEF Queued, Serving
    <2>10. AskedInv'
        BY <1>1, <2>1, <2>2, <2>4, <2>9 DEF AskedInv
    <2>11. ToldInv'
        BY <1>1, <2>1, <2>2, <2>4, <2>8 DEF ToldInv
    <2>12. HandedInv'
        BY <2>1, <2>2, <2>4, <2>5, <2>6 DEF HandedInv, Pending, Completed
    <2> QED
        BY <2>10, <2>11, <2>12 DEF CalmInv
<1>12. CASE WriteCompletion(c)
    <2>1. /\ Go(c, "complete", "done") /\ cli[c] = "complete"
          /\ UNCHANGED <<signalled, response, srv, request, requests, data>>
        BY <1>12 DEF WriteCompletion, Go
    <2>2. cli'[c] = "done" /\ \A d \in Client : d # c => cli'[d] = cli[d]
        BY <1>1, <2>1, ClientMoves DEF CliState
    <2>3. completions' = Append(completions, c)
        BY <1>2, <1>12, <2>1 DEF WriteCompletion
    <2>4. c \in signalled /\ srv = "await" /\ request.pid = c
        BY <1>1, <2>1 DEF ToldInv
    <2>5. data = << >> /\ completions = << >>
        BY <1>1, <2>1, <2>4 DEF HandedInv, Pending, Completed
    <2>6. completions' = <<c>>
        BY <2>3, <2>5, OneWritten
    <2>7. \A d \in Client : Queued(d)' = Queued(d) /\ Serving(d)' = Serving(d)
        BY <2>1 DEF Queued, Serving
    <2>8. AskedInv'
        BY <1>1, <2>1, <2>2, <2>4, <2>7 DEF AskedInv
    <2>9. ToldInv'
        BY <1>1, <2>1, <2>2, <2>4 DEF ToldInv
    <2>10. HandedInv'
        BY <2>1, <2>2, <2>4, <2>5, <2>6 DEF HandedInv, Pending, Completed
    <2> QED
        BY <2>8, <2>9, <2>10 DEF CalmInv
<1> QED
    BY <1>4, <1>6, <1>7, <1>8, <1>9, <1>10, <1>11, <1>12 DEF ClientStep, SendQuery, ReceiveAnswer

LEMMA NextCalm == TypeInv /\ (Calm => CalmInv) /\ [Next]_vars => (Calm => CalmInv)'
<1> SUFFICES ASSUME TypeInv, Calm => CalmInv, [Next]_vars, Calm' PROVE CalmInv'
    OBVIOUS
<1>1. Calm /\ CalmInv
    BY CalmBefore
<1>2. CASE UNCHANGED vars
    BY <1>1, <1>2 DEF vars, files, server, procs, CalmInv, AskedInv, ToldInv, HandedInv, Queued, Serving,
                      Pending, Completed
<1>3. CASE ServerStep
    BY <1>1, <1>3, ServerCalm DEF Calm
<1>4. ASSUME NEW c \in Client, ClientStep(c) PROVE CalmInv'
    BY <1>1, <1>4, ClientCalm
<1>5. CASE Terminate
    BY <1>1, <1>5 DEF Calm, Terminate, Mq
<1>6. ASSUME NEW c \in Client, Continue(c) PROVE CalmInv'
    <2>1. continued \in Nat /\ continued' = continued + 1 /\ continued' = 0
        BY <1>6 DEF Continue, Calm, TypeInv, TypeOK
    <2> QED
        BY <2>1
<1> QED
    BY <1>2, <1>3, <1>4, <1>5, <1>6 DEF Next

LEMMA InitCalm == Init => CalmInv
<1> SUFFICES ASSUME Init PROVE CalmInv
    OBVIOUS
<1>1. AskedInv
    BY DEF Init, AskedInv, Queued, Serving
<1>2. ToldInv
    BY DEF Init, ToldInv
<1>3. HandedInv
    BY DEF Init, HandedInv, Pending, Completed
<1> QED
    BY <1>1, <1>2, <1>3 DEF CalmInv

\* For any number of clients, whatever they ask and however they interleave: who
\* ends well has the answer to its own query; without a client that was early, one
\* that went on unasked, or a server that was stopped, nobody reads another's
\* answer, though all of them read from the same FIFO; and with the queues only
\* their removal leaves a client without its answer.
THEOREM OwnAnswerRead == Spec => []AnswersReachAskers
<1>1. TypeInv /\ StopInv /\ (Calm => CalmInv) => AnswersReachAskers
    <2> SUFFICES ASSUME TypeInv, StopInv, Calm => CalmInv, NEW c \in Client
                 PROVE  /\ cli[c] \in {"complete", "done"} => response[c] = Answer(Query(c))
                        /\ cli[c] = "failed" => Trouble /\ (program = "mq" => srv = "exited")
        BY DEF AnswersReachAskers
    <2>1. cli[c] \in {"complete", "done"} => response[c] = Answer(Query(c))
        <3>1. response[c] \in OwnAnswers \cup {Garbage}
            BY DEF TypeInv, OwnInv
        <3>2. cli[c] \in {"complete", "done"} => response[c].pid = c
            BY DEF TypeInv, OwnInv
        <3> QED
            BY <3>1, <3>2, OwnAnswerFacts, GarbagePid
    <2>2. CASE program = "fifo"
        <3>1. ASSUME cli[c] = "failed", ~Trouble PROVE FALSE
            <4>1. continued = 0
                BY <2>2, <3>1 DEF Trouble, TypeInv, TypeOK
            <4>2. Calm
                BY <2>2, <3>1, <4>1 DEF Trouble, Calm
            <4> QED
                BY <3>1, <4>2 DEF CalmInv, ToldInv
        <3> QED
            BY <2>1, <2>2, <3>1
    <2>3. CASE program = "mq"
        BY <2>1, <2>3 DEF StopInv, Trouble
    <2> QED
        BY <2>2, <2>3 DEF TypeInv, TypeOK
<1>2. Init => StopInv
    BY DEF Init, StopInv
<1> QED
    BY <1>1, <1>2, InitTypes, InitCalm, NextTypes, NextStop, NextCalm, PTL DEF Spec

=============================================================================
