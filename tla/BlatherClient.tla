----------------------------- MODULE BlatherClient -----------------------------
(***************************************************************************)
(* One bl-client process of the blather chat (p2-code): main, the thread   *)
(* that reads the user's keys with simpio and the thread that listens to   *)
(* the server.  The threads share simpio's line buffer and the terminal    *)
(* with no lock, and each cancels the other when it ends.                  *)
(*                                                                         *)
(* A store into the buffer that iprintf of the other thread can come       *)
(* between, a system call and a read of the buffer by iprintf are steps.   *)
(* Cancellation is deferred: a cancelled thread ends at its next read or   *)
(* write.  The model starts when main is about to write BL_JOINED, with    *)
(* the request to join already written (see Blather for that).             *)
(*                                                                         *)
(* Bounds: MaxKeys keys are pressed, MaxMesgs records come from the        *)
(* server, FifoCap records fit in the FIFO to the server.  Nobody types a  *)
(* NUL.                                                                    *)
(***************************************************************************)
EXTENDS Integers, Sequences, SequencesExt

CONSTANTS Char,        \* the characters that can be typed
          MaxLine,     \* MAXLINE, the size of simpio->buf
          FifoCap,
          MaxKeys,
          MaxMesgs

Nul    == "nul"
Prompt == "prompt"
Enter  == "enter"
Erase  == "erase"      \* '\b' or DEL
Eot    == "eot"        \* control-D
Eof    == "eof"        \* fgetc has no more input

ASSUME ClientAssumption ==
    /\ Char \cap {Nul, Enter, Erase, Eot, Eof} = {}
    /\ MaxLine \in Nat /\ MaxLine >= 2
    /\ FifoCap \in Nat \ {0}
    /\ MaxKeys \in Nat /\ MaxMesgs \in Nat

VARIABLES
    at,            \* where main is
    user,          \* where client_thread is
    listener,      \* where server_thread is
    cancelled,     \* the threads with a cancellation pending
    buf, pos, line_ready, end_of_input,      \* simpio's fields
    payload,       \* server_thread_fn: the kind of the record in hand
    output,        \* output[t]: what thread t's iprintf is about to write
    screen,        \* the last line of the terminal
    serving,       \* bl-server still reads what this client writes
    unread,        \* records in the FIFO to the server
    received,      \* records read from the server
    sent,          \* history: the kinds of the records written to the server,
    said,          \* the texts of those that are lines,
    pressed,       \* the keys read by simpio_get_char,
    edited         \* and what they come to, if a line editor heeds them

simpio == <<buf, pos, line_ready, end_of_input>>
fifos  == <<serving, unread, received, sent, said>>
keys   == <<pressed, edited>>
vars   == <<at, user, listener, cancelled, simpio, payload, output, screen, fifos, keys>>

-----------------------------------------------------------------------------
(* Data *)

Key   == Char \cup {Enter, Erase, Eot, Eof}
Kind  == {"display", "PING", "SHUTDOWN"}    \* a display is a MESG, JOINED, DEPARTED or DISCONNECTED
Index == 0..(MaxLine - 1)

\* The string in buf: what is ahead of the first NUL.
Terminated == \E k \in Index : buf[k] = Nul
Length     == CHOOSE k \in Index : buf[k] = Nul /\ \A l \in 0..(k - 1) : buf[l] # Nul
CString    == [k \in 1..Length |-> buf[k - 1]]

\* What a user of a line editor expects of these keys.
Edit(e, k) ==
    CASE k \in Char -> IF Len(e.line) < MaxLine - 1 THEN [e EXCEPT !.line = Append(@, k)] ELSE e
      [] k = Erase  -> IF e.line = << >> THEN e ELSE [e EXCEPT !.line = Front(@)]
      [] k = Eof    -> e
      [] OTHER      -> IF e.line = << >> THEN e
                       ELSE [done |-> Append(e.done, e.line), line |-> << >>]

TypeOK ==
    /\ at \in {"announce", "create", "create2", "join", "join2", "depart", "gone", "crashed"}
    /\ user \in {"off", "reset", "prompt", "print", "get", "store", "echo", "erase",
                 "send", "cancel", "done"}
    /\ listener \in {"off", "read", "show", "print", "pong", "cancel", "done"}
    /\ cancelled \subseteq {"client_thread", "server_thread"}
    /\ buf \in [Index -> Char \cup {Nul}]
    /\ pos \in Index
    /\ line_ready \in BOOLEAN /\ end_of_input \in BOOLEAN
    /\ payload \in Kind \cup {"none"}
    /\ serving \in BOOLEAN
    /\ unread \in 0..FifoCap
    /\ received \in 0..MaxMesgs
    /\ pressed \in 0..MaxKeys

Init ==
    /\ at = "announce"
    /\ user = "off" /\ listener = "off"
    /\ cancelled = {}
    /\ buf = [k \in Index |-> Nul]
    /\ pos = 0 /\ line_ready = FALSE /\ end_of_input = FALSE
    /\ payload = "none"
    /\ output = [client_thread |-> << >>, server_thread |-> << >>]
    /\ screen = << >>
    /\ serving = TRUE /\ unread = 0 /\ received = 0
    /\ sent = << >> /\ said = << >>
    /\ pressed = 0 /\ edited = [done |-> << >>, line |-> << >>]

Running == at \notin {"gone", "crashed"}

\* The text of a line is what buf holds.
Write(kind) ==
    /\ unread < FifoCap
    /\ unread' = unread + 1
    /\ sent' = Append(sent, kind)
    /\ said' = IF kind = "MESG" THEN Append(said, CString) ELSE said
    /\ UNCHANGED <<serving, received>>

\* iprintf: snprintf reads the prompt and the line buffer, then one write erases
\* the terminal's line, shows the message and leaves the rest on a new line.
Format(t) == output' = [output EXCEPT ![t] = <<Prompt>> \o CString]
Redraw(t) == screen' = output[t]

-----------------------------------------------------------------------------
(* main *)

Main(from, to) == at = from /\ at' = to

Announce ==
    /\ Main("announce", "create")
    /\ Write("JOINED")
    /\ UNCHANGED <<user, listener, cancelled, simpio, payload, output, screen, keys>>

\* simpio_reset has nothing to clear yet.
CreateClientThread ==
    /\ Main("create", "create2")
    /\ user' = "reset"
    /\ UNCHANGED <<listener, cancelled, simpio, payload, output, screen, fifos, keys>>

CreateServerThread ==
    /\ Main("create2", "join")
    /\ listener' = "read"
    /\ UNCHANGED <<user, cancelled, simpio, payload, output, screen, fifos, keys>>

\* Faulty: main waits for one thread only.
JoinEither ==
    /\ \/ Main("join", "join2") /\ "done" \in {user, listener}
       \/ Main("join2", "depart")
    /\ UNCHANGED <<user, listener, cancelled, simpio, payload, output, screen, fifos, keys>>

JoinThreads ==
    /\ \/ Main("join", "join2") /\ user = "done"
       \/ Main("join2", "depart") /\ listener = "done"
    /\ UNCHANGED <<user, listener, cancelled, simpio, payload, output, screen, fifos, keys>>

\* The terminal's mode is restored after this.
Depart ==
    /\ Main("depart", "gone")
    /\ Write("DEPARTED")
    /\ UNCHANGED <<user, listener, cancelled, simpio, payload, output, screen, keys>>

-----------------------------------------------------------------------------
(* client_thread_fn *)

User(from, to) == Running /\ user = from /\ user' = to /\ UNCHANGED <<at, listener, payload>>

\* A write, or a read that has to wait, ends a thread that has been cancelled.
Alive(t) == t \notin cancelled

\* Faulty: simpio_reset leaves pos.
ResetKeepsPos ==
    /\ User("reset", "prompt")
    /\ buf' = [buf EXCEPT ![0] = Nul]
    /\ line_ready' = FALSE /\ end_of_input' = FALSE
    /\ UNCHANGED <<pos, cancelled, output, screen, fifos, keys>>

\* simpio_reset: all of buf behind its first NUL stays.
Reset ==
    /\ User("reset", "prompt")
    /\ pos' = 0
    /\ buf' = [buf EXCEPT ![0] = Nul]
    /\ line_ready' = FALSE /\ end_of_input' = FALSE
    /\ UNCHANGED <<cancelled, output, screen, fifos, keys>>

ShowPrompt ==
    /\ \/ User("prompt", "print") /\ Format("client_thread") /\ UNCHANGED screen
       \/ User("print", "get") /\ Alive("client_thread") /\ Redraw("client_thread") /\ UNCHANGED output
    /\ UNCHANGED <<cancelled, simpio, fifos, keys>>

\* fgetc.  A key that stdin has buffered is read by a cancelled thread, too.
Press(k) ==
    /\ pressed < MaxKeys
    /\ pressed' = pressed + 1
    /\ edited' = Edit(edited, k)
    /\ UNCHANGED <<cancelled, output, fifos>>

\* Where client_thread_fn goes after simpio_get_char.
AfterKey == IF line_ready' THEN "send" ELSE IF end_of_input' THEN "cancel" ELSE "get"

\* The end of a line, the end of input, and the keys that do nothing.
GetEnd(k) ==
    /\ \/ k \in {Enter, Eot, Eof}
       \/ k = Erase /\ pos = 0
       \/ k \in Char /\ pos = MaxLine - 1
    /\ Press(k)
    /\ line_ready' = (k \in {Enter, Eot} /\ pos > 0)
    /\ buf' = IF line_ready' THEN [buf EXCEPT ![pos] = Nul] ELSE buf
    /\ end_of_input' = (k \in {Eot, Eof})
    /\ User("get", AfterKey)
    /\ UNCHANGED <<pos, screen>>

GetErase(k) ==
    /\ k = Erase /\ pos > 0
    /\ Press(k)
    /\ pos' = pos - 1
    /\ buf' = [buf EXCEPT ![pos - 1] = Nul]
    /\ User("get", "erase")
    /\ UNCHANGED <<line_ready, end_of_input, screen>>

\* Faulty: off by one at the end of buf.
GetCharOffByOne(k) ==
    /\ k \in Char /\ pos < MaxLine
    /\ Press(k)
    /\ buf' = [buf EXCEPT ![pos] = k]
    /\ pos' = pos + 1
    /\ User("get", "store")
    /\ UNCHANGED <<line_ready, end_of_input, screen>>

\* A character is added, its NUL stored and its echo written: three steps.
GetChar(k) ==
    /\ k \in Char /\ pos < MaxLine - 1
    /\ Press(k)
    /\ buf' = [buf EXCEPT ![pos] = k]
    /\ pos' = pos + 1
    /\ User("get", "store")
    /\ UNCHANGED <<line_ready, end_of_input, screen>>

StoreNul ==
    /\ User("store", "echo")
    /\ buf' = [buf EXCEPT ![pos] = Nul]
    /\ UNCHANGED <<pos, line_ready, end_of_input, cancelled, output, screen, fifos, keys>>

\* fputc, or the write that blanks the last column.
Echo ==
    /\ Alive("client_thread")
    /\ \/ User("echo", "get") /\ screen' = Append(screen, buf[pos - 1])
       \/ User("erase", "get") /\ screen' = IF screen = << >> THEN screen ELSE Front(screen)
    /\ UNCHANGED <<cancelled, simpio, output, fifos, keys>>

SendLine ==
    /\ Alive("client_thread")
    /\ User("send", IF end_of_input THEN "cancel" ELSE "reset")
    /\ Write("MESG")
    /\ UNCHANGED <<cancelled, simpio, output, screen, keys>>

\* Faulty: the thread returns without a word to the other.
EndOfInputAlone ==
    /\ User("cancel", "done")
    /\ UNCHANGED <<cancelled, simpio, output, screen, fifos, keys>>

\* pthread_cancel(server_thread).  If main has not created that thread yet the
\* variable holds 0, and glibc follows the null pointer.
EndOfInput ==
    /\ Running /\ user = "cancel"
    /\ user' = "done"
    /\ IF listener = "off"
       THEN at' = "crashed" /\ UNCHANGED cancelled
       ELSE cancelled' = cancelled \cup {"server_thread"} /\ UNCHANGED at
    /\ UNCHANGED <<listener, simpio, payload, output, screen, fifos, keys>>

-----------------------------------------------------------------------------
(* server_thread_fn *)

Listen(from, to) == Running /\ listener = from /\ listener' = to /\ UNCHANGED <<user, simpio, keys>>

\* BL_SHUTDOWN is written by bl-server's signal handler, after which it reads no
\* more; what it has written before it stopped can be read later.
Read(kind) ==
    /\ Alive("server_thread")
    /\ kind = "SHUTDOWN" => ~serving
    /\ received < MaxMesgs
    /\ received' = received + 1
    /\ payload' = kind
    /\ Listen("read", IF kind = "PING" THEN "pong" ELSE "show")
    /\ UNCHANGED <<at, cancelled, output, screen, serving, unread, sent, said>>

\* The response's name is never set: whatever the stack holds is sent.
Pong ==
    /\ Alive("server_thread")
    /\ Listen("pong", "read")
    /\ Write("PING")
    /\ UNCHANGED <<at, cancelled, payload, output, screen>>

ShowMessage ==
    /\ \/ Listen("show", "print") /\ Format("server_thread") /\ UNCHANGED screen
       \/ /\ Listen("print", IF payload = "SHUTDOWN" THEN "cancel" ELSE "read")
          /\ Alive("server_thread") /\ Redraw("server_thread") /\ UNCHANGED output
    /\ UNCHANGED <<at, cancelled, payload, fifos>>

\* pthread_cancel(client_thread).  That thread may have ended, which does no
\* harm, unless main has joined it: its memory may then be gone.
EndOfServer ==
    /\ Listen("cancel", "done")
    /\ cancelled' = cancelled \cup {"client_thread"}
    /\ at' = at \/ (at \in {"join2", "depart"} /\ at' = "crashed")
    /\ UNCHANGED <<payload, output, screen, fifos>>

-----------------------------------------------------------------------------

\* A cancelled thread ends where it reads or writes.
CancelClient ==
    /\ ~Alive("client_thread")
    /\ user \in {"print", "get", "echo", "erase", "send"} /\ User(user, "done")
    /\ UNCHANGED <<cancelled, simpio, output, screen, fifos, keys>>

CancelServer ==
    /\ ~Alive("server_thread")
    /\ listener \in {"read", "print", "pong"} /\ Listen(listener, "done")
    /\ UNCHANGED <<at, cancelled, payload, output, screen, fifos>>

\* bl-server reads a record: external.
ServerReads ==
    /\ serving
    /\ unread > 0
    /\ unread' = unread - 1
    /\ UNCHANGED <<at, user, listener, cancelled, simpio, payload, output, screen, serving, received, sent, said, keys>>

\* bl-server is shut down or killed, or waits for ever for another client: external.
ServerStops ==
    /\ serving /\ serving' = FALSE
    /\ UNCHANGED <<at, user, listener, cancelled, simpio, payload, output, screen, unread, received, sent, said, keys>>

main == Announce \/ CreateClientThread \/ CreateServerThread \/ JoinThreads \/ Depart

Get == \E k \in Key : GetEnd(k) \/ GetErase(k) \/ GetChar(k)

client_thread_fn == Reset \/ ShowPrompt \/ StoreNul \/ Echo \/ SendLine \/ EndOfInput \/ CancelClient

server_thread_fn == Pong \/ ShowMessage \/ EndOfServer \/ CancelServer

Next ==
    \/ main \/ Get \/ client_thread_fn \/ server_thread_fn
    \/ \E kind \in Kind : Read(kind)
    \/ ServerReads \/ ServerStops

Spec == Init /\ [][Next]_vars

\* Every thread that can run does, and bl-server reads what it is sent as long as
\* it serves.  Nobody has to press a key, and bl-server has to send nothing.
FairSpec ==
    /\ Spec
    /\ WF_vars(main) /\ WF_vars(client_thread_fn) /\ WF_vars(server_thread_fn)
    /\ WF_vars(ServerReads)

-----------------------------------------------------------------------------
(* Properties *)

\* iprintf's "%s" always finds a NUL in buf, between any two stores of the
\* other thread: the last byte of buf is never anything else.
BufferEnds == Terminated

\* The lines that reach the server are those the user has edited, in order and
\* whole, whatever the listener prints in between.
LinesAsTyped ==
    /\ IsPrefix(said, edited.done)
    /\ user = "get" => said = edited.done /\ CString = edited.line

\* BL_DEPARTED is the last record of this client, written once both threads
\* have ended: no late line or answer to a ping follows it.
DepartedIsLast ==
    \A n \in 1..Len(sent) :
        sent[n] = "DEPARTED" => n = Len(sent) /\ user = "done" /\ listener = "done"

\* Whatever the other thread is doing, the end of input and a BL_SHUTDOWN end
\* the process: no cancellation is lost and main's joins come back.  Only a write to
\* a full FIFO that bl-server has stopped to read can hold it up: main's last one,
\* or that of the line ahead of the end of input.  readme.html:1680-1681 makes no such
\* exception: "the server is shutting down. This means the client should exit as well".
Unheard == ~serving /\ unread = FifoCap
QuitEnds ==
    /\ end_of_input ~> ~Running \/ (Unheard /\ (user = "send" \/ at = "depart"))
    /\ payload = "SHUTDOWN" ~> ~Running \/ (Unheard /\ at = "depart")

=============================================================================
