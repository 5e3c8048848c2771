------------------------------ MODULE ChatRoom ------------------------------
(***************************************************************************)
(* What the blather chat server (p2-code) promises its users, with nothing *)
(* of how it keeps the promise: one conversation, a sequence of messages   *)
(* in a single order.  Whoever enters the room is shown every message of   *)
(* the conversation from that point on, in that order, without a gap and   *)
(* without a repetition; and each person's messages stand in the           *)
(* conversation in the order in which they were said: JOINED first, then   *)
(* the lines, DEPARTED last.                                               *)
(*                                                                         *)
(* Blather implements this module.                                         *)
(***************************************************************************)
EXTENDS Integers, Sequences, FiniteSets

CONSTANTS Client,        \* client processes (bl-client)
          MaxLines       \* lines the users type between them

VARIABLES log,           \* the conversation
          since,         \* since[c]: length of the conversation when c entered
          shown          \* shown[c]: what c's terminal has displayed

roomVars == <<log, since, shown>>

-----------------------------------------------------------------------------

Outside == -1            \* since[c] before c enters

Mesg == [kind : {"JOINED", "MESG", "DEPARTED"}, from : Client, body : 0..MaxLines]

Joined(c)   == [kind |-> "JOINED",   from |-> c, body |-> 0]
Line(c, n)  == [kind |-> "MESG",     from |-> c, body |-> n]
Departed(c) == [kind |-> "DEPARTED", from |-> c, body |-> 0]

Said(m) == \E k \in 1..Len(log) : log[k] = m

\* m is what its sender may say next, given what it has already said.
SaidInOrder(m) ==
    /\ ~Said(m)
    /\ ~Said(Departed(m.from))
    /\ m.kind # "JOINED" => Said(Joined(m.from))
    /\ m.kind = "MESG" => \A n \in 1..MaxLines : n < m.body <=> Said(Line(m.from, n))

TypeOK ==
    /\ log \in Seq(Mesg)
    /\ since \in [Client -> Nat \cup {Outside}]
    /\ shown \in [Client -> Seq(Mesg)]

-----------------------------------------------------------------------------

Init ==
    /\ log = << >>
    /\ since = [c \in Client |-> Outside]
    /\ shown = [c \in Client |-> << >>]

Enter(c) ==
    /\ since[c] = Outside
    /\ since' = [since EXCEPT ![c] = Len(log)]
    /\ UNCHANGED <<log, shown>>

Post(m) ==
    /\ SaidInOrder(m)
    /\ log' = Append(log, m)
    /\ UNCHANGED <<since, shown>>

\* The next message c has not been shown yet.
Show(c) ==
    /\ since[c] # Outside
    /\ since[c] + Len(shown[c]) < Len(log)
    /\ shown' = [shown EXCEPT ![c] = Append(@, log[since[c] + Len(@) + 1])]
    /\ UNCHANGED <<log, since>>

Next ==
    \/ \E c \in Client : Enter(c) \/ Show(c)
    \/ \E m \in Mesg : Post(m)

Spec == Init /\ [][Next]_roomVars

=============================================================================
