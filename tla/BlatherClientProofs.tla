------------------------- MODULE BlatherClientProofs -------------------------
(***************************************************************************)
(* What one bl-client process keeps whatever its threads do between each   *)
(* other's steps, for every line length and any number of keys and         *)
(* records.                                                                *)
(***************************************************************************)
EXTENDS BlatherClient, TLAPS

\* The last byte of buf is never stored into but with a NUL.
BufferInv == buf[MaxLine - 1] = Nul

-----------------------------------------------------------------------------
(* The types, and the end of buf *)

LEMMA InitType == Init => TypeOK /\ BufferInv
<1> SUFFICES ASSUME Init PROVE TypeOK /\ BufferInv
    OBVIOUS
<1>1. 0 \in Index /\ MaxLine - 1 \in Index /\ 0 \in 0..FifoCap /\ 0 \in 0..MaxMesgs /\ 0 \in 0..MaxKeys
    BY ClientAssumption DEF Index
<1> QED
    BY <1>1 DEF Init, TypeOK, BufferInv

LEMMA WriteType ==
    ASSUME TypeOK, NEW kind, Write(kind) PROVE unread' \in 0..FifoCap /\ UNCHANGED <<serving, received>>
BY ClientAssumption DEF TypeOK, Write

LEMMA MainType == ASSUME TypeOK, BufferInv, main PROVE TypeOK' /\ BufferInv'
<1> USE DEF simpio, fifos, keys, Main
<1>1. UNCHANGED <<buf, pos, line_ready, end_of_input, payload, cancelled, pressed>> /\ at' \in {"create", "create2", "join", "join2", "depart", "gone"}
    BY DEF main, Announce, CreateClientThread, CreateServerThread, JoinThreads, Depart
<1>2. user' \in {user, "reset"} /\ listener' \in {listener, "read"}
    BY DEF main, Announce, CreateClientThread, CreateServerThread, JoinThreads, Depart
<1>3. unread' \in 0..FifoCap /\ UNCHANGED <<serving, received>>
    BY WriteType DEF main, Announce, CreateClientThread, CreateServerThread, JoinThreads, Depart, TypeOK
<1> QED
    BY <1>1, <1>2, <1>3 DEF TypeOK, BufferInv

LEMMA GetType == ASSUME TypeOK, BufferInv, Get PROVE TypeOK' /\ BufferInv'
<1> USE DEF simpio, fifos, keys
<1>1. PICK k \in Key : GetEnd(k) \/ GetErase(k) \/ GetChar(k)
    BY DEF Get
<1>2. /\ Press(k) /\ UNCHANGED <<at, listener, payload, cancelled, serving, unread, received>>
      /\ user' \in {"send", "cancel", "get", "erase", "store"}
    BY <1>1 DEF GetEnd, GetErase, GetChar, User, Press, AfterKey
<1>3. pressed' \in 0..MaxKeys
    BY <1>2, ClientAssumption DEF Press, TypeOK
<1>4. pos \in 0..(MaxLine - 1) /\ MaxLine - 1 \in Index /\ MaxLine \in Nat
    BY ClientAssumption DEF TypeOK, Index
<1>5. /\ pos' \in Index /\ line_ready' \in BOOLEAN /\ end_of_input' \in BOOLEAN
      /\ buf' \in [Index -> Char \cup {Nul}] /\ buf'[MaxLine - 1] = Nul
    <2>1. CASE GetEnd(k)
        BY <1>4, <2>1 DEF GetEnd, TypeOK, BufferInv
    <2>2. CASE GetErase(k)
        <3>1. pos - 1 \in Index
            BY <1>4, <2>2 DEF GetErase, Index
        <3> QED
            BY <2>2, <3>1 DEF GetErase, TypeOK, BufferInv
    <2>3. CASE GetChar(k)
        <3>1. pos + 1 \in Index /\ pos # MaxLine - 1
            BY <1>4, <2>3 DEF GetChar, Index
        <3> QED
            BY <1>4, <2>3, <3>1 DEF GetChar, TypeOK, BufferInv
    <2> QED
        BY <1>1, <2>1, <2>2, <2>3
<1> QED
    BY <1>2, <1>3, <1>5 DEF TypeOK, BufferInv

LEMMA ClientThreadType == ASSUME TypeOK, BufferInv, client_thread_fn PROVE TypeOK' /\ BufferInv'
<1> USE DEF simpio, fifos, keys
<1>1. UNCHANGED <<listener, payload, serving, received, pressed>>
    BY DEF client_thread_fn, Reset, ShowPrompt, StoreNul, Echo, SendLine, EndOfInput, CancelClient, User, Write
<1>2. at' \in {at, "crashed"} /\ cancelled' \subseteq cancelled \cup {"server_thread"}
    BY DEF client_thread_fn, Reset, ShowPrompt, StoreNul, Echo, SendLine, EndOfInput, CancelClient, User
<1>3. user' \in {"prompt", "print", "get", "echo", "cancel", "reset", "done"}
    BY DEF client_thread_fn, Reset, ShowPrompt, StoreNul, Echo, SendLine, EndOfInput, CancelClient, User
<1>4. unread' \in 0..FifoCap
    BY WriteType DEF client_thread_fn, Reset, ShowPrompt, StoreNul, Echo, SendLine, EndOfInput, CancelClient, TypeOK
<1>5. 0 \in Index /\ MaxLine - 1 \in Index
    BY ClientAssumption DEF Index
<1>6. /\ pos' \in Index /\ line_ready' \in BOOLEAN /\ end_of_input' \in BOOLEAN
      /\ buf' \in [Index -> Char \cup {Nul}] /\ buf'[MaxLine - 1] = Nul
    <2>1. CASE Reset
        BY <1>5, <2>1 DEF Reset, TypeOK, BufferInv
    <2>2. CASE StoreNul
        BY <1>5, <2>2 DEF StoreNul, TypeOK, BufferInv
    <2>3. CASE ShowPrompt \/ Echo \/ SendLine \/ EndOfInput \/ CancelClient
        BY <2>3 DEF ShowPrompt, Echo, SendLine, EndOfInput, CancelClient, TypeOK, BufferInv
    <2> QED
        BY <2>1, <2>2, <2>3 DEF client_thread_fn
<1> QED
    BY <1>1, <1>2, <1>3, <1>4, <1>6 DEF TypeOK, BufferInv

LEMMA ServerThreadType ==
    ASSUME TypeOK, BufferInv, server_thread_fn \/ \E kind \in Kind : Read(kind) PROVE TypeOK' /\ BufferInv'
<1> USE DEF simpio, fifos, keys, Listen
<1>1. UNCHANGED <<user, buf, pos, line_ready, end_of_input, pressed, serving>>
    BY DEF server_thread_fn, Pong, ShowMessage, EndOfServer, CancelServer, Read, Write
<1>2. at' \in {at, "crashed"} /\ cancelled' \subseteq cancelled \cup {"client_thread"}
    BY DEF server_thread_fn, Pong, ShowMessage, EndOfServer, CancelServer, Read
<1>3. listener' \in {"read", "show", "print", "pong", "cancel", "done"} /\ payload' \in Kind \cup {payload}
    BY DEF server_thread_fn, Pong, ShowMessage, EndOfServer, CancelServer, Read
<1>4. unread' \in 0..FifoCap
    BY WriteType DEF server_thread_fn, Pong, ShowMessage, EndOfServer, CancelServer, Read, TypeOK
<1>5. received' \in 0..MaxMesgs
    <2>1. CASE server_thread_fn
        BY <2>1, WriteType DEF server_thread_fn, Pong, ShowMessage, EndOfServer, CancelServer, TypeOK
    <2>2. ASSUME NEW kind \in Kind, Read(kind) PROVE received' \in 0..MaxMesgs
        BY <2>2, ClientAssumption DEF Read, TypeOK
    <2> QED
        BY <2>1, <2>2
<1> QED
    BY <1>1, <1>2, <1>3, <1>4, <1>5 DEF TypeOK, BufferInv

LEMMA NextType == TypeOK /\ BufferInv /\ [Next]_vars => TypeOK' /\ BufferInv'
<1> SUFFICES ASSUME TypeOK, BufferInv, [Next]_vars PROVE TypeOK' /\ BufferInv'
    OBVIOUS
<1>1. CASE UNCHANGED vars
    BY <1>1 DEF vars, simpio, fifos, keys, TypeOK, BufferInv
<1>2. CASE ServerReads
    <2>1. unread' \in 0..FifoCap
        BY <1>2, ClientAssumption DEF ServerReads, TypeOK
    <2> QED
        BY <1>2, <2>1 DEF ServerReads, simpio, keys, TypeOK, BufferInv
<1>3. CASE ServerStops
    <2>1. serving' \in BOOLEAN
        BY <1>3 DEF ServerStops
    <2>2. UNCHANGED <<at, user, listener, cancelled, buf, pos, line_ready, end_of_input,
                      payload, unread, received, pressed>>
        BY <1>3 DEF ServerStops, simpio, keys
    <2> QED
        BY <2>1, <2>2 DEF TypeOK, BufferInv
<1> QED
    BY <1>1, <1>2, <1>3, MainType, GetType, ClientThreadType, ServerThreadType DEF Next

\* Every store of simpio_get_char and simpio_reset is inside buf, and none of the
\* counters leaves its bounds.
THEOREM TypeCorrect == Spec => []TypeOK
BY InitType, NextType, PTL DEF Spec

\* Between any two stores of the one thread the other finds an end of the string.
THEOREM BufferIsString == Spec => []BufferEnds
<1>1. BufferInv => BufferEnds
    BY ClientAssumption DEF BufferInv, BufferEnds, Terminated, Index
<1> QED
    BY <1>1, InitType, NextType, PTL DEF Spec

-----------------------------------------------------------------------------
(* The last record *)

\* main goes no further than its threads let it.
JoinedInv ==
    /\ at \in {"announce", "create"} => user = "off"
    /\ at \in {"announce", "create", "create2"} => listener = "off"
    /\ at \in {"join2", "depart", "gone"} => user = "done"
    /\ at \in {"depart", "gone"} => listener = "done"

\* BL_DEPARTED is written at main's very end only.
DepartedInv ==
    /\ sent \in Seq({"JOINED", "MESG", "PING", "DEPARTED"})
    /\ \A n \in 1..Len(sent) : sent[n] = "DEPARTED" => at = "gone" /\ n = Len(sent)

LEMMA WrittenLast ==
    ASSUME sent \in Seq({"JOINED", "MESG", "PING", "DEPARTED"}),
           NEW kind \in {"JOINED", "MESG", "PING", "DEPARTED"}, Write(kind)
    PROVE  /\ sent' \in Seq({"JOINED", "MESG", "PING", "DEPARTED"})
           /\ Len(sent) \in Nat /\ Len(sent') = Len(sent) + 1 /\ sent'[Len(sent) + 1] = kind
           /\ \A n \in 1..Len(sent') : n = Len(sent') \/ (n \in 1..Len(sent) /\ sent'[n] = sent[n])
BY DEF Write

LEMMA NextJoined == JoinedInv /\ [Next]_vars => JoinedInv'
<1> SUFFICES ASSUME JoinedInv, [Next]_vars PROVE JoinedInv'
    OBVIOUS
<1> USE DEF JoinedInv
<1>1. CASE UNCHANGED vars \/ ServerReads \/ ServerStops
    BY <1>1 DEF vars, ServerReads, ServerStops
<1>2. CASE main
    BY <1>2 DEF main, Announce, CreateClientThread, CreateServerThread, JoinThreads, Depart, Main
<1>3. CASE Get
    BY <1>3 DEF Get, GetEnd, GetErase, GetChar, User, Running
<1>4. CASE client_thread_fn
    BY <1>4 DEF client_thread_fn, Reset, ShowPrompt, StoreNul, Echo, SendLine, EndOfInput,
        CancelClient, User, Running
<1>5. CASE server_thread_fn \/ \E kind \in Kind : Read(kind)
    BY <1>5 DEF server_thread_fn, Pong, ShowMessage, EndOfServer, CancelServer, Read, Listen, Running
<1> QED
    BY <1>1, <1>2, <1>3, <1>4, <1>5 DEF Next

LEMMA NextDeparted == JoinedInv /\ DepartedInv /\ [Next]_vars => DepartedInv'
<1> SUFFICES ASSUME JoinedInv, DepartedInv, [Next]_vars PROVE DepartedInv'
    OBVIOUS
<1> USE DEF simpio, fifos, keys
<1>1. ASSUME UNCHANGED sent, at' = at \/ at # "gone" PROVE DepartedInv'
    BY <1>1 DEF DepartedInv
<1>2. ASSUME NEW kind \in {"JOINED", "MESG", "PING"}, Write(kind), Running PROVE DepartedInv'
    BY <1>2, WrittenLast DEF DepartedInv, Running
<1>3. CASE UNCHANGED vars \/ ServerReads \/ ServerStops
    BY <1>1, <1>3 DEF vars, ServerReads, ServerStops
<1>4. CASE main
    <2>1. CASE Announce
        BY <1>2, <2>1 DEF Announce, Main, Running
    <2>2. CASE Depart
        <3>1. at' = "gone" /\ at # "gone" /\ Write("DEPARTED")
            BY <2>2 DEF Depart, Main
        <3> QED
            BY <3>1, WrittenLast DEF DepartedInv
    <2>3. CASE CreateClientThread \/ CreateServerThread \/ JoinThreads
        BY <1>1, <2>3 DEF CreateClientThread, CreateServerThread, JoinThreads, Main
    <2> QED
        BY <1>4, <2>1, <2>2, <2>3 DEF main
<1>5. CASE Get
    BY <1>1, <1>5 DEF Get, GetEnd, GetErase, GetChar, User, Press
<1>6. CASE client_thread_fn
    <2>1. CASE SendLine
        BY <1>2, <2>1 DEF SendLine, User
    <2>2. CASE Reset \/ ShowPrompt \/ StoreNul \/ Echo \/ EndOfInput \/ CancelClient
        BY <1>1, <2>2 DEF Reset, ShowPrompt, StoreNul, Echo, EndOfInput, CancelClient, User, Running
    <2> QED
        BY <1>6, <2>1, <2>2 DEF client_thread_fn
<1>7. CASE server_thread_fn \/ \E kind \in Kind : Read(kind)
    <2>1. CASE Pong
        BY <1>2, <2>1 DEF Pong, Listen
    <2>2. CASE ShowMessage \/ EndOfServer \/ CancelServer \/ \E kind \in Kind : Read(kind)
        BY <1>1, <2>2 DEF ShowMessage, EndOfServer, CancelServer, Read, Listen, Running
    <2> QED
        BY <1>7, <2>1, <2>2 DEF server_thread_fn
<1> QED
    BY <1>3, <1>4, <1>5, <1>6, <1>7 DEF Next

\* However the threads cancel each other, no line and no answer to a ping is
\* written behind BL_DEPARTED, and it is written once.
THEOREM NothingAfterDeparted == Spec => []DepartedIsLast
<1>1. Init => JoinedInv /\ DepartedInv
    BY DEF Init, JoinedInv, DepartedInv
<1>2. JoinedInv /\ DepartedInv => DepartedIsLast
    BY DEF JoinedInv, DepartedInv, DepartedIsLast
<1> QED
    BY <1>1, <1>2, NextJoined, NextDeparted, PTL DEF Spec

-----------------------------------------------------------------------------
(* The lines that are sent *)

\* buf holds the line that the user has edited so far.
HoldsLine ==
    /\ Len(edited.line) = pos
    /\ \A k \in 1..pos : buf[k - 1] = edited.line[k]

\* Where client_thread stands between what has been typed and what has been sent.
TypedInv ==
    /\ edited \in [done : Seq(Seq(Char)), line : Seq(Char)]
    /\ said \in Seq(Seq(Char))
    /\ user \in {"off", "reset"} => edited.line = << >> /\ edited.done = said
    /\ user \in {"prompt", "print", "get", "echo", "erase"} =>
          HoldsLine /\ buf[pos] = Nul /\ edited.done = said
    /\ user = "store" => HoldsLine /\ edited.done = said
    /\ user = "send" =>
          edited.line = << >> /\ CString \in Seq(Char) /\ edited.done = Append(said, CString)
    /\ user \in {"cancel", "done"} => IsPrefix(said, edited.done)

LEMMA PrefixOfItself == ASSUME NEW S, NEW s \in Seq(S) PROVE IsPrefix(s, s)
BY DEF IsPrefix

LEMMA PrefixOfLonger == ASSUME NEW S, NEW s \in Seq(S), NEW x \in S PROVE IsPrefix(s, Append(s, x))
BY DEF IsPrefix

LEMMA SentIsPrefix == ASSUME TypeOK, TypedInv PROVE IsPrefix(said, edited.done)
<1>1. edited.done \in Seq(Seq(Char)) /\ said \in Seq(Seq(Char))
    BY DEF TypedInv
<1>2. CASE user = "send"
    <2>1. CString \in Seq(Char) /\ edited.done = Append(said, CString)
        BY <1>2 DEF TypedInv
    <2> QED
        BY <1>1, <2>1, PrefixOfLonger
<1>3. CASE user \in {"cancel", "done"}
    BY <1>3 DEF TypedInv
<1>4. CASE user \notin {"send", "cancel", "done"}
    <2>1. edited.done = said
        BY <1>4 DEF TypedInv, TypeOK
    <2> QED
        BY <1>1, <2>1, PrefixOfItself
<1> QED
    BY <1>2, <1>3, <1>4

\* What a reader of the string makes of buf when pos is its first NUL.
LEMMA StringIsLine ==
    ASSUME TypeOK, edited.line \in Seq(Char), HoldsLine, buf[pos] = Nul
    PROVE  CString = edited.line
<1>1. Nul \notin Char /\ pos \in Nat /\ pos \in Index
    BY ClientAssumption DEF TypeOK, Index
<1>2. \A k \in 0..(pos - 1) : k \in Index /\ k + 1 \in 1..pos /\ k = (k + 1) - 1
    BY <1>1, ClientAssumption DEF Index
<1>3. \A k \in 0..(pos - 1) : buf[k] \in Char
    BY <1>2 DEF HoldsLine
<1>4. \A l \in 0..(pos - 1) : buf[l] # Nul
    BY <1>1, <1>3
<1>5. ASSUME NEW k \in Index, buf[k] = Nul, \A l \in 0..(k - 1) : buf[l] # Nul PROVE k = pos
    <2>1. ~(k < pos)
        BY <1>1, <1>4, <1>5, ClientAssumption DEF Index
    <2>2. ~(pos < k)
        BY <1>1, <1>5, ClientAssumption DEF Index
    <2> QED
        BY <1>1, <2>1, <2>2, ClientAssumption DEF Index
<1>6. Length = pos
    BY <1>1, <1>4, <1>5 DEF Length
<1>7. CString = [k \in 1..pos |-> buf[k - 1]]
    BY <1>6 DEF CString
<1>8. CString = [k \in 1..pos |-> edited.line[k]]
    BY <1>7 DEF HoldsLine
<1> QED
    BY <1>8 DEF HoldsLine

\* The keys that a line editor heeds, by what they do.
LEMMA EditByKey ==
    ASSUME NEW e \in [done : Seq(Seq(Char)), line : Seq(Char)], NEW k \in Key
    PROVE  /\ k \in Char /\ Len(e.line) < MaxLine - 1 =>
                Edit(e, k) = [done |-> e.done, line |-> Append(e.line, k)]
           /\ k \in Char /\ ~(Len(e.line) < MaxLine - 1) => Edit(e, k) = e
           /\ k = Erase /\ e.line # << >> => Edit(e, k) = [done |-> e.done, line |-> Front(e.line)]
           /\ k = Eof \/ (k \notin Char /\ e.line = << >>) => Edit(e, k) = e
           /\ k \in {Enter, Eot} /\ e.line # << >> =>
                Edit(e, k) = [done |-> Append(e.done, e.line), line |-> << >>]
<1>1. /\ Enter \notin Char /\ Erase \notin Char /\ Eot \notin Char /\ Eof \notin Char
      /\ Enter # Erase /\ Enter # Eof /\ Erase # Eof /\ Eot # Erase /\ Eot # Eof
    BY ClientAssumption DEF Enter, Erase, Eot, Eof, Nul
<1>2. k \in Char \/ k = Enter \/ k = Erase \/ k = Eot \/ k = Eof
    BY DEF Key
<1>3. CASE k \in Char
    BY <1>1, <1>3 DEF Edit
<1>4. CASE k = Erase
    BY <1>1, <1>4 DEF Edit
<1>5. CASE k = Eof
    BY <1>1, <1>5 DEF Edit
<1>6. CASE k \in {Enter, Eot}
    BY <1>1, <1>6 DEF Edit
<1> QED
    BY <1>2, <1>3, <1>4, <1>5, <1>6

LEMMA GetEndTyped == ASSUME TypeOK, TypedInv, NEW k \in Key, GetEnd(k) PROVE TypedInv'
<1> USE DEF simpio, fifos, keys
<1>1. /\ user = "get" /\ HoldsLine /\ buf[pos] = Nul /\ edited.done = said
      /\ edited \in [done : Seq(Seq(Char)), line : Seq(Char)] /\ said \in Seq(Seq(Char))
    BY DEF GetEnd, User, TypedInv
<1>2. /\ edited' = Edit(edited, k) /\ said' = said /\ pos' = pos /\ buf' = buf
      /\ line_ready' = (k \in {Enter, Eot} /\ pos > 0)
      /\ user' = IF line_ready' THEN "send" ELSE IF end_of_input' THEN "cancel" ELSE "get"
    BY <1>1 DEF GetEnd, Press, User, AfterKey, TypeOK
<1>3. pos \in Nat /\ edited.line \in Seq(Char) /\ Len(edited.line) = pos
    BY <1>1, ClientAssumption DEF TypeOK, Index, HoldsLine
<1>4. CString = edited.line /\ CString' = CString
    BY <1>1, <1>2, <1>3, StringIsLine DEF CString, Length
<1>5. CASE line_ready'
    <2>1. edited' = [done |-> Append(edited.done, edited.line), line |-> << >>]
        <3>1. k \in {Enter, Eot} /\ pos > 0
            BY <1>2, <1>5
        <3>2. edited.line # << >>
            BY <1>3, <3>1
        <3> QED
            BY <1>1, <1>2, <3>1, <3>2, EditByKey
    <2>2. /\ edited' \in [done : Seq(Seq(Char)), line : Seq(Char)]
          /\ edited'.line = << >> /\ edited'.done = Append(edited.done, edited.line)
        BY <1>1, <1>3, <2>1
    <2> QED
        BY <1>1, <1>2, <1>3, <1>4, <1>5, <2>2 DEF TypedInv
<1>6. CASE ~line_ready'
    <2>1. edited' = edited
        <3>1. CASE k \in Char
            BY <1>1, <1>2, <1>3, <3>1, EditByKey, ClientAssumption DEF GetEnd, Enter, Eot, Eof, Erase
        <3>2. CASE k = Eof
            BY <1>1, <1>2, <3>2, EditByKey
        <3>3. CASE k \notin Char /\ k # Eof
            <4>1. ~(k \in {Enter, Eot} /\ pos > 0)
                BY <1>2, <1>6
            <4>2. pos = 0
                BY <1>3, <3>3, <4>1 DEF GetEnd, Key, Enter, Eot, Eof, Erase
            <4> QED
                BY <1>1, <1>2, <1>3, <3>3, <4>2, EditByKey
        <3> QED
            BY <3>1, <3>2, <3>3
    <2>2. IsPrefix(said, edited.done)
        BY <1>1, PrefixOfItself
    <2>3. HoldsLine'
        BY <1>1, <1>2, <2>1 DEF HoldsLine
    <2>4. user' \in {"cancel", "get"}
        BY <1>2, <1>6
    <2> QED
        BY <1>1, <1>2, <2>1, <2>2, <2>3, <2>4 DEF TypedInv
<1> QED
    BY <1>5, <1>6

LEMMA GetEraseTyped == ASSUME TypeOK, TypedInv, NEW k \in Key, GetErase(k) PROVE TypedInv'
<1> USE DEF simpio, fifos, keys
<1>1. /\ user = "get" /\ HoldsLine /\ edited.done = said
      /\ edited \in [done : Seq(Seq(Char)), line : Seq(Char)] /\ said \in Seq(Seq(Char))
    BY DEF GetErase, User, TypedInv
<1>2. /\ edited' = Edit(edited, k) /\ said' = said /\ user' = "erase"
      /\ k = Erase /\ pos > 0 /\ pos' = pos - 1 /\ buf' = [buf EXCEPT ![pos - 1] = Nul]
    BY DEF GetErase, Press, User
<1>3. pos \in Nat /\ edited.line \in Seq(Char) /\ Len(edited.line) = pos /\ pos - 1 \in Index
    BY <1>1, <1>2, ClientAssumption DEF TypeOK, Index, HoldsLine
<1>4. edited' = [done |-> edited.done, line |-> Front(edited.line)]
    BY <1>1, <1>2, <1>3, EditByKey
<1>5. /\ Front(edited.line) \in Seq(Char) /\ Len(Front(edited.line)) = pos - 1
      /\ \A n \in 1..(pos - 1) : Front(edited.line)[n] = edited.line[n]
    BY <1>2, <1>3 DEF Front
<1>6. \A n \in 1..(pos - 1) : buf'[n - 1] = buf[n - 1]
    <2>1. \A n \in 1..(pos - 1) : n - 1 # pos - 1 /\ n - 1 \in Index
        BY <1>3, ClientAssumption DEF Index
    <2> QED
        BY <1>2, <2>1 DEF TypeOK
<1>7. buf'[pos'] = Nul
    BY <1>2, <1>3 DEF TypeOK
<1>8. \A n \in 1..(pos - 1) : buf[n - 1] = edited.line[n]
    BY <1>1, <1>3 DEF HoldsLine
<1>9. HoldsLine'
    BY <1>2, <1>4, <1>5, <1>6, <1>8 DEF HoldsLine
<1> QED
    BY <1>1, <1>2, <1>4, <1>5, <1>7, <1>9 DEF TypedInv

LEMMA GetCharTyped == ASSUME TypeOK, TypedInv, NEW k \in Key, GetChar(k) PROVE TypedInv'
<1> USE DEF simpio, fifos, keys
<1>1. /\ user = "get" /\ HoldsLine /\ edited.done = said
      /\ edited \in [done : Seq(Seq(Char)), line : Seq(Char)] /\ said \in Seq(Seq(Char))
    BY DEF GetChar, User, TypedInv
<1>2. /\ edited' = Edit(edited, k) /\ said' = said /\ user' = "store"
      /\ k \in Char /\ pos < MaxLine - 1 /\ pos' = pos + 1 /\ buf' = [buf EXCEPT ![pos] = k]
    BY DEF GetChar, Press, User
<1>3. pos \in Nat /\ edited.line \in Seq(Char) /\ Len(edited.line) = pos /\ pos \in Index
    BY <1>1, ClientAssumption DEF TypeOK, Index, HoldsLine
<1>4. edited' = [done |-> edited.done, line |-> Append(edited.line, k)]
    BY <1>1, <1>2, <1>3, EditByKey
<1>5. /\ Append(edited.line, k) \in Seq(Char) /\ Len(Append(edited.line, k)) = pos + 1
      /\ Append(edited.line, k)[pos + 1] = k
      /\ \A n \in 1..pos : Append(edited.line, k)[n] = edited.line[n]
    BY <1>2, <1>3
<1>6. \A n \in 1..pos : buf'[n - 1] = buf[n - 1]
    <2>1. \A n \in 1..pos : n - 1 # pos /\ n - 1 \in Index
        BY <1>3, ClientAssumption DEF Index
    <2> QED
        BY <1>2, <2>1 DEF TypeOK
<1>7. buf'[pos] = k
    BY <1>2, <1>3 DEF TypeOK
<1>8. \A n \in 1..(pos + 1) : n \in 1..pos \/ (n = pos + 1 /\ n - 1 = pos)
    BY <1>3
<1>9. \A n \in 1..(pos + 1) : buf'[n - 1] = Append(edited.line, k)[n]
    BY <1>1, <1>5, <1>6, <1>7, <1>8 DEF HoldsLine
<1>10. HoldsLine'
    BY <1>2, <1>4, <1>5, <1>9 DEF HoldsLine
<1> QED
    BY <1>1, <1>2, <1>4, <1>5, <1>10 DEF TypedInv

LEMMA ClientThreadTyped == ASSUME TypeOK, TypedInv, client_thread_fn PROVE TypedInv'
<1> USE DEF simpio, fifos, keys
<1>1. /\ edited \in [done : Seq(Seq(Char)), line : Seq(Char)] /\ said \in Seq(Seq(Char))
      /\ edited' = edited
    BY DEF TypedInv, client_thread_fn, Reset, ShowPrompt, StoreNul, Echo, SendLine, EndOfInput, CancelClient
<1>2. 0 \in Index /\ pos \in Index /\ \A n \in 1..pos : n - 1 \in Index /\ n - 1 # pos
    BY ClientAssumption DEF TypeOK, Index
<1>3. CASE Reset
    <2>1. pos' = 0 /\ buf'[0] = Nul /\ user' = "prompt" /\ user = "reset" /\ said' = said
        BY <1>2, <1>3 DEF Reset, User, TypeOK
    <2>2. edited.line = << >> /\ edited.done = said
        BY <2>1 DEF TypedInv
    <2>3. HoldsLine'
        BY <1>1, <2>1, <2>2 DEF HoldsLine
    <2> QED
        BY <1>1, <2>1, <2>2, <2>3 DEF TypedInv
<1>4. CASE StoreNul
    <2>1. /\ user = "store" /\ user' = "echo" /\ said' = said /\ pos' = pos
          /\ buf'[pos] = Nul /\ \A n \in 1..pos : buf'[n - 1] = buf[n - 1]
        BY <1>2, <1>4 DEF StoreNul, User, TypeOK
    <2>2. HoldsLine /\ edited.done = said
        BY <2>1 DEF TypedInv
    <2>3. HoldsLine'
        BY <1>1, <2>1, <2>2 DEF HoldsLine
    <2> QED
        BY <1>1, <2>1, <2>2, <2>3 DEF TypedInv
<1>5. CASE ShowPrompt \/ Echo
    <2>1. /\ user \in {"prompt", "print", "echo", "erase"} /\ user' \in {"print", "get"}
          /\ UNCHANGED <<said, pos, buf>>
        BY <1>5 DEF ShowPrompt, Echo, User
    <2> QED
        BY <1>1, <2>1 DEF TypedInv, HoldsLine
<1>6. CASE SendLine
    <2>1. /\ user = "send" /\ user' \in {"cancel", "reset"} /\ said' = Append(said, CString)
        BY <1>6 DEF SendLine, User, Write
    <2>2. edited.line = << >> /\ CString \in Seq(Char) /\ edited.done = Append(said, CString)
        BY <2>1 DEF TypedInv
    <2>3. said' \in Seq(Seq(Char)) /\ edited.done = said'
        BY <1>1, <2>1, <2>2
    <2>4. IsPrefix(said', edited.done)
        BY <2>3, PrefixOfItself
    <2> QED
        BY <1>1, <2>1, <2>2, <2>3, <2>4 DEF TypedInv
<1>7. CASE EndOfInput \/ CancelClient
    <2>1. /\ user \in {"cancel", "print", "get", "echo", "erase", "send"} /\ user' = "done"
          /\ said' = said
        BY <1>7 DEF EndOfInput, CancelClient, User
    <2>3. IsPrefix(said, edited.done)
        BY SentIsPrefix
    <2> QED
        BY <1>1, <2>1, <2>3 DEF TypedInv
<1> QED
    BY <1>3, <1>4, <1>5, <1>6, <1>7 DEF client_thread_fn

LEMMA NextTyped == TypeOK /\ JoinedInv /\ TypedInv /\ [Next]_vars => TypedInv'
<1> SUFFICES ASSUME TypeOK, JoinedInv, TypedInv, [Next]_vars PROVE TypedInv'
    OBVIOUS
<1> USE DEF simpio, fifos, keys
<1>1. ASSUME UNCHANGED <<user, edited, said, buf, pos>> PROVE TypedInv'
    <2>1. CString' = CString /\ HoldsLine' = HoldsLine
        BY <1>1 DEF CString, Length, HoldsLine
    <2> QED
        BY <1>1, <2>1 DEF TypedInv
<1>2. CASE UNCHANGED vars \/ ServerReads \/ ServerStops
    BY <1>1, <1>2 DEF vars, ServerReads, ServerStops
<1>3. CASE main
    <2>1. CASE CreateClientThread
        <3>1. user = "off" /\ user' = "reset" /\ UNCHANGED <<edited, said>>
            BY <2>1 DEF CreateClientThread, Main, JoinedInv
        <3> QED
            BY <3>1 DEF TypedInv
    <2>2. CASE Announce \/ CreateServerThread \/ JoinThreads \/ Depart
        BY <1>1, <2>2 DEF Announce, CreateServerThread, JoinThreads, Depart, Write
    <2> QED
        BY <1>3, <2>1, <2>2 DEF main
<1>4. CASE Get
    BY <1>4, GetEndTyped, GetEraseTyped, GetCharTyped DEF Get
<1>5. CASE client_thread_fn
    BY <1>5, ClientThreadTyped
<1>6. CASE server_thread_fn \/ \E kind \in Kind : Read(kind)
    BY <1>1, <1>6 DEF server_thread_fn, Pong, ShowMessage, EndOfServer, CancelServer, Read, Listen, Write
<1> QED
    BY <1>2, <1>3, <1>4, <1>5, <1>6 DEF Next

\* For lines of every length, and however the listener's redrawing and the
\* cancellations fall between the stores: what reaches the server is what the user
\* has edited, whole and in order.
THEOREM LinesReachServer == Spec => []LinesAsTyped
<1>1. Init => JoinedInv /\ TypedInv
    BY PrefixOfItself DEF Init, JoinedInv, TypedInv
<1>2. TypeOK /\ TypedInv => LinesAsTyped
    <2> SUFFICES ASSUME TypeOK, TypedInv PROVE LinesAsTyped
        OBVIOUS
    <2>1. /\ edited.done \in Seq(Seq(Char)) /\ edited.line \in Seq(Char)
          /\ said \in Seq(Seq(Char))
        BY DEF TypedInv
    <2>3. IsPrefix(said, edited.done)
        BY SentIsPrefix
    <2>4. user = "get" => said = edited.done /\ CString = edited.line
        BY <2>1, StringIsLine DEF TypedInv
    <2> QED
        BY <2>3, <2>4 DEF LinesAsTyped
<1> QED
    BY <1>1, <1>2, InitType, NextType, NextJoined, NextTyped, PTL DEF Spec

=============================================================================
