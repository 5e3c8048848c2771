------------------------------- MODULE Writers -------------------------------
(***************************************************************************)
(* multiple_writes.c of notes/09-pipes-fifos-code: a process and its child *)
(* write their lines to one file or FIFO, which is opened ahead of the     *)
(* fork and shared, or by each of them for itself.                         *)
(*                                                                         *)
(* The lines are all as long as each other and below PIPE_BUF, and a write *)
(* is one step.  Two descriptors that come from one open have one position *)
(* in the file.  A FIFO's open waits for the other side; who waits counts  *)
(* as a writer already.  The reader is a user's cat, which ends when the   *)
(* FIFO is empty and has no writer, may be started again, and may be       *)
(* killed.                                                                 *)
(*                                                                         *)
(* Bounds: iters lines each; PipeCap lines fit in the FIFO; a reader that  *)
(* was killed is not started again.                                        *)
(***************************************************************************)
EXTENDS Naturals, Sequences

CONSTANTS iters,     \* lines each process writes
          PipeCap    \* lines in the FIFO at which a write waits

ASSUME WritersAssumption == iters \in Nat /\ PipeCap \in Nat \ {0}

VARIABLES
    prefork,      \* whether the file is opened ahead of the fork
    use_fifo,     \* whether it is a FIFO
    place,        \* where each process is
    line,         \* how many lines each has written
    position,     \* the position of each descriptor
    file,         \* what is in the file, or in the FIFO
    reader,       \* where the reader is
    got           \* what has been read from the FIFO

writerVars == <<prefork, use_fifo, place, line, position, file, reader, got>>

Parent == "PPPP"
Child  == "CCCC"
Writer == {Parent, Child}

WritersTypeOK ==
    /\ prefork \in BOOLEAN /\ use_fifo \in BOOLEAN
    /\ place \in [Writer -> {"unborn", "open", "opening", "fork", "write", "closed", "killed"}]
    /\ line \in [Writer -> 0..iters]
    /\ position \in [Writer -> 0..2 * iters]
    /\ file \in Seq(Writer \X Nat) /\ got \in Seq(Writer \X Nat)
    /\ reader \in {"none", "opening", "reading", "eof", "killed"}

WritersInit ==
    /\ prefork \in BOOLEAN /\ use_fifo \in BOOLEAN
    /\ place = [w \in Writer |->
                  IF w = Child THEN "unborn" ELSE IF prefork THEN "open" ELSE "fork"]
    /\ line = [w \in Writer |-> 0]
    /\ position = [w \in Writer |-> 0]
    /\ file = << >> /\ got = << >>
    /\ reader = "none"

-----------------------------------------------------------------------------
(* open *)

\* What a process does next with the file open.
AfterOpen == IF prefork THEN "fork" ELSE "write"

HasOpen(w) == place[w] \in {"opening", "write"} \/ (place[w] = "fork" /\ prefork)

\* A FIFO's open returns when there is a reader, one that waits for a writer included.
Open(w) ==
    /\ place[w] = "open"
    /\ IF use_fifo /\ reader \notin {"opening", "reading"}
       THEN place' = [place EXCEPT ![w] = "opening"] /\ UNCHANGED reader
       ELSE place' = [place EXCEPT ![w] = AfterOpen]
            /\ reader' = IF use_fifo THEN "reading" ELSE reader
    /\ UNCHANGED <<prefork, use_fifo, line, position, file, got>>

\* A user starts to read, and everybody who waits for that goes on.
StartReader ==
    /\ use_fifo /\ reader \in {"none", "eof"}
    /\ reader' = IF \E w \in Writer : HasOpen(w) THEN "reading" ELSE "opening"
    /\ place' = [w \in Writer |-> IF place[w] = "opening" THEN AfterOpen ELSE place[w]]
    /\ UNCHANGED <<prefork, use_fifo, line, position, file, got>>

\* fork, which may fail: the process goes on alone.
Fork ==
    /\ place[Parent] = "fork"
    /\ \E child \in {"unborn", "born"} :
          LET next == IF prefork THEN "write" ELSE "open" IN
          place' = [place EXCEPT ![Parent] = next,
                                 ![Child] = IF child = "born" THEN next ELSE "unborn"]
    /\ UNCHANGED <<prefork, use_fifo, line, position, file, reader, got>>

-----------------------------------------------------------------------------
(* write and close *)

\* Faulty: the child's descriptor has a position of its own.
OpenerSelf(w) == w

\* Whose open a process's descriptor comes from.
Opener(w) == IF prefork THEN Parent ELSE w

\* At the position, over what is there.
WriteFile(w) ==
    LET k    == position[Opener(w)] + 1
        mine == <<w, line[w] + 1>>
    IN  /\ ~use_fifo
        /\ file' = IF k <= Len(file) THEN [file EXCEPT ![k] = mine] ELSE Append(file, mine)
        /\ position' = [position EXCEPT ![Opener(w)] = k]

WriteFifo(w) ==
    /\ use_fifo
    /\ reader = "reading" /\ Len(file) < PipeCap
    /\ file' = Append(file, <<w, line[w] + 1>>)
    /\ UNCHANGED position

WriteLine(w) ==
    /\ place[w] = "write" /\ line[w] < iters
    /\ WriteFile(w) \/ WriteFifo(w)
    /\ line' = [line EXCEPT ![w] = @ + 1]
    /\ UNCHANGED <<prefork, use_fifo, place, reader, got>>

\* A write to a FIFO without a reader: SIGPIPE.
BreakPipe(w) ==
    /\ place[w] = "write" /\ line[w] < iters
    /\ use_fifo /\ reader = "killed"
    /\ place' = [place EXCEPT ![w] = "killed"]
    /\ UNCHANGED <<prefork, use_fifo, line, position, file, reader, got>>

CloseFile(w) ==
    /\ place[w] = "write" /\ line[w] = iters
    /\ place' = [place EXCEPT ![w] = "closed"]
    /\ UNCHANGED <<prefork, use_fifo, line, position, file, reader, got>>

-----------------------------------------------------------------------------
(* The reader *)

ReadFifo ==
    /\ reader = "reading" /\ file # << >>
    /\ got' = Append(got, Head(file)) /\ file' = Tail(file)
    /\ UNCHANGED <<prefork, use_fifo, place, line, position, reader>>

EndOfFile ==
    /\ reader = "reading" /\ file = << >> /\ \A w \in Writer : ~HasOpen(w)
    /\ reader' = "eof"
    /\ UNCHANGED <<prefork, use_fifo, place, line, position, file, got>>

KillReader ==
    /\ reader = "reading"
    /\ reader' = "killed"
    /\ UNCHANGED <<prefork, use_fifo, place, line, position, file, got>>

-----------------------------------------------------------------------------

WritersNext ==
    \/ Fork \/ StartReader \/ ReadFifo \/ EndOfFile \/ KillReader
    \/ \E w \in Writer : Open(w) \/ WriteLine(w) \/ BreakPipe(w) \/ CloseFile(w)

WritersSpec == WritersInit /\ [][WritersNext]_writerVars

-----------------------------------------------------------------------------
(* Properties *)

\* Each of w's first n lines is in seq, once, they are in order, and no others are.
HasLines(w, n, seq) ==
    /\ \A i \in 1..Len(seq) : seq[i][1] = w => seq[i][2] \in 1..n
    /\ \A k \in 1..n : \E i \in 1..Len(seq) : seq[i] = <<w, k>>
    /\ \A i, j \in 1..Len(seq) :
          i < j /\ seq[i][1] = w /\ seq[j][1] = w => seq[i][2] < seq[j][2]

\* "all data is present": with a FIFO, or a shared position, each process's lines
\* are there once and in order, however the writes mix, and a reader that has come
\* to the end of a FIFO opened ahead of the fork has had all of them.  With
\* positions of their own each line of the one is over the other's same line.
AllDataIsPresent ==
    /\ prefork \/ use_fifo => \A w \in Writer : HasLines(w, line[w], got \o file)
    /\ ~prefork /\ ~use_fifo =>
        \A k \in 1..Len(file) : \E w \in Writer : file[k] = <<w, k>> /\ k <= line[w]
    /\ prefork /\ reader = "eof" => \A w \in Writer : place[w] \in {"closed", "unborn"}

=============================================================================
