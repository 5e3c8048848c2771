------------------------------- MODULE Signals -------------------------------
(***************************************************************************)
(* non-reentrant.c and protected-reentrant.c of notes/08-signals-code:     *)
(* main asks getpwnam for one user again and again, and a handler that the *)
(* alarm runs every second asks it for another.  getpwnam has one record,  *)
(* which it fills under a lock of its own; the second program blocks the   *)
(* signal while it uses the record.                                        *)
(*                                                                         *)
(* The kernel blocks SIGALRM while its handler runs, so that what the      *)
(* second program's handler does with the mask changes nothing: `mask' is  *)
(* main's.  There are no other signals.                                    *)
(***************************************************************************)

VARIABLES
    protected,   \* whether the program is protected-reentrant.c
    known,       \* whether there is a user USERNAME
    main,        \* where main is
    handler,     \* where alarm_handler is
    mask,        \* whether main has blocked SIGALRM
    timer,       \* the alarm: "set", "pending" when it has rung, or "off"
    lock,        \* who is inside getpwnam
    record       \* whose record getpwnam has filled in

sigVars == <<protected, known, main, handler, mask, timer, lock, record>>

USERNAME == "kauffman"

SignalsTypeOK ==
    /\ protected \in BOOLEAN /\ known \in BOOLEAN /\ mask \in BOOLEAN
    /\ main \in {"block", "getpwnam", "inside", "strcmp", "unblock", "exit"}
    /\ handler \in {"off", "getpwnam", "inside", "alarm"}
    /\ timer \in {"set", "pending", "off"}
    /\ lock \in {"free", "main", "handler"}
    /\ record \in {USERNAME, "root", "none"}

LoopTop == IF protected THEN "block" ELSE "getpwnam"

SigInit ==
    /\ protected \in BOOLEAN /\ known \in BOOLEAN
    /\ main = LoopTop
    /\ handler = "off"
    /\ mask = FALSE
    /\ timer = "set"
    /\ lock = "free"
    /\ record = "none"

-----------------------------------------------------------------------------
(* The alarm *)

Ring == timer = "set" /\ timer' = "pending"
        /\ UNCHANGED <<protected, known, main, handler, mask, lock, record>>

\* The kernel runs the handler ahead of main's next instruction.
Due == timer = "pending" /\ ~mask /\ handler = "off" /\ main # "exit"

Deliver ==
    /\ Due
    /\ handler' = "getpwnam" /\ timer' = "off"
    /\ UNCHANGED <<protected, known, main, mask, lock, record>>

-----------------------------------------------------------------------------
(* getpwnam *)

\* It waits for its lock, and its caller may be the one who has it.
Enter(who, pc) ==
    /\ pc = "getpwnam" /\ lock = "free"
    /\ lock' = who
    /\ UNCHANGED <<protected, known, mask, timer, record>>

Fill(who, pc, name) ==
    /\ pc = "inside"
    /\ lock' = "free"
    /\ record' = name
    /\ UNCHANGED <<protected, known, timer>>

HandlerAsks ==
    /\ Enter("handler", handler) /\ handler' = "inside" /\ UNCHANGED main

HandlerHasAnswer ==
    /\ \E name \in {"root", record} : Fill("handler", handler, name)   \* there may be no root
    /\ handler' = "alarm"
    /\ UNCHANGED <<main, mask>>

\* alarm(1), and the handler returns.
HandlerReturns ==
    /\ handler = "alarm"
    /\ handler' = "off" /\ timer' = "set"
    /\ UNCHANGED <<protected, known, main, mask, lock, record>>

-----------------------------------------------------------------------------
(* main, which does nothing while the handler runs or is about to *)

Runs(from) == main = from /\ handler = "off" /\ ~Due

Block ==
    /\ Runs("block")
    /\ main' = "getpwnam" /\ mask' = TRUE
    /\ UNCHANGED <<protected, known, handler, timer, lock, record>>

MainAsks ==
    /\ Runs("getpwnam")
    /\ Enter("main", main)
    /\ main' = "inside"
    /\ UNCHANGED handler

\* Faulty: signals are unblocked here, at the place that the code calls incorrect.
MainUnblocksEarly ==
    /\ Runs("inside")
    /\ Fill("main", main, IF known THEN USERNAME ELSE record)
    /\ main' = "strcmp" /\ mask' = FALSE
    /\ UNCHANGED handler

\* For a user that there is not it leaves the record alone and returns NULL.
MainHasAnswer ==
    /\ Runs("inside")
    /\ Fill("main", main, IF known THEN USERNAME ELSE record)
    /\ main' = "strcmp"
    /\ UNCHANGED <<handler, mask>>

\* exit(1) if there is no user, or the record is not the one that was asked for.
Compare ==
    /\ Runs("strcmp")
    /\ main' = IF ~known \/ record # USERNAME THEN "exit"
               ELSE IF protected THEN "unblock" ELSE LoopTop
    /\ UNCHANGED <<protected, known, handler, mask, timer, lock, record>>

Unblock ==
    /\ Runs("unblock")
    /\ main' = "block" /\ mask' = FALSE
    /\ UNCHANGED <<protected, known, handler, timer, lock, record>>

-----------------------------------------------------------------------------

SigNext ==
    \/ Ring \/ Deliver
    \/ HandlerAsks \/ HandlerHasAnswer \/ HandlerReturns
    \/ Block \/ MainAsks \/ MainHasAnswer \/ Compare \/ Unblock

SigSpec == SigInit /\ [][SigNext]_sigVars

-----------------------------------------------------------------------------
(* Properties *)

\* The handler waits for a lock that main, which waits for the handler, has.
Stalled == handler = "getpwnam" /\ lock = "main"

\* The protected program reads the record it has asked for and never stalls,
\* wherever the alarm rings; non-reentrant.c promises neither.
RecordIsOwn == protected => ~Stalled /\ (main = "exit" => ~known)

=============================================================================
