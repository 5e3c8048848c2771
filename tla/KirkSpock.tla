------------------------------ MODULE KirkSpock ------------------------------
(***************************************************************************)
(* kirk.c and spock.c of notes/10-ipc-code: processes that talk over one   *)
(* System V message queue.  A kirk sends a line and waits for an           *)
(* acknowledgement; a spock waits for a message and acknowledges it.  All  *)
(* messages have the type 1 and everybody takes what comes first, so that  *)
(* a kirk may get its own line back, and a spock its own acknowledgement:  *)
(* the model counts messages and does not tell them apart.                 *)
(*                                                                         *)
(* A kirk whose user types control-D removes the queue for everybody; what *)
(* has the old id fails from then on, and msgget makes a new queue for     *)
(* those who come later.  Any process may be killed.                       *)
(*                                                                         *)
(* Bounds: QueueCap messages fit in the queue (the code's kernel limit is  *)
(* in bytes), MaxQueues queues are made one after the other.               *)
(***************************************************************************)
EXTENDS Integers, FiniteSets

CONSTANTS Kirk, Spock,   \* the processes that run kirk and spock
          QueueCap,      \* messages in the queue at which msgsnd blocks
          MaxQueues      \* queues made

ASSUME KirkSpockAssumption ==
    /\ IsFiniteSet(Kirk) /\ IsFiniteSet(Spock) /\ Kirk \cap Spock = {}
    /\ QueueCap \in Nat \ {0}
    /\ MaxQueues \in Nat

VARIABLES
    made,       \* the ids given to queues so far are 1..made
    queue,      \* the id of the queue that exists, or 0
    msgs,       \* the number of messages in it
    at,         \* where each process is
    msqid,      \* the id each process has, 0 before msgget
    unclaimed   \* history: messages whose kirk was killed less those lost with a spock

msgVars == <<made, queue, msgs, at, msqid, unclaimed>>

Crew == Kirk \cup Spock

MsgTypeOK ==
    /\ made \in Nat
    /\ queue \in 0..made
    /\ msgs \in Nat
    /\ at \in [Crew -> {"msgget", "fgets", "msgsnd", "msgrcv", "gone"}]
    /\ msqid \in [Crew -> 0..made]
    /\ unclaimed \in Int

MsgInit ==
    /\ made = 0 /\ queue = 0 /\ msgs = 0
    /\ at = [p \in Crew |-> "msgget"]
    /\ msqid = [p \in Crew |-> 0]
    /\ unclaimed = 0

Goes(p, from, to) == at[p] = from /\ at' = [at EXCEPT ![p] = to]

\* Otherwise msgsnd and msgrcv fail.
Connected(p) == msqid[p] = queue

-----------------------------------------------------------------------------

\* msgget with IPC_CREAT
Msgget(p) ==
    /\ Goes(p, "msgget", IF p \in Kirk THEN "fgets" ELSE "msgrcv")
    /\ \/ queue # 0 /\ UNCHANGED <<made, queue>>
       \/ queue = 0 /\ made < MaxQueues /\ made' = made + 1 /\ queue' = made + 1
    /\ msqid' = [msqid EXCEPT ![p] = queue']
    /\ UNCHANGED <<msgs, unclaimed>>

TypeLine(k) ==
    /\ Goes(k, "fgets", "msgsnd")
    /\ UNCHANGED <<made, queue, msgs, msqid, unclaimed>>

\* A failing msgsnd is reported and otherwise ignored.
Send(p) ==
    /\ Goes(p, "msgsnd", "msgrcv")
    /\ \/ Connected(p) /\ msgs < QueueCap /\ msgs' = msgs + 1
       \/ ~Connected(p) /\ UNCHANGED msgs
    /\ UNCHANGED <<made, queue, msqid, unclaimed>>

\* Faulty: a spock does not acknowledge.
ReceiveOnly(p) ==
    /\ Connected(p)
    /\ msgs > 0
    /\ Goes(p, "msgrcv", IF p \in Kirk THEN "fgets" ELSE "msgrcv")
    /\ msgs' = msgs - 1
    /\ UNCHANGED <<made, queue, msqid, unclaimed>>

\* msgrcv with the type 0: the first message, whoever sent it.
Receive(p) ==
    /\ Connected(p)
    /\ msgs > 0
    /\ Goes(p, "msgrcv", IF p \in Kirk THEN "fgets" ELSE "msgsnd")
    /\ msgs' = msgs - 1
    /\ UNCHANGED <<made, queue, msqid, unclaimed>>

\* Faulty: the process reports the failure and tries again.
ReceiveAgain(p) ==
    /\ ~Connected(p)
    /\ Goes(p, "msgrcv", "msgrcv")
    /\ UNCHANGED <<made, queue, msgs, msqid, unclaimed>>

\* msgrcv fails, be it that it was waiting when the queue was removed: exit(1).
ReceiveFails(p) ==
    /\ ~Connected(p)
    /\ Goes(p, "msgrcv", "gone")
    /\ UNCHANGED <<made, queue, msgs, msqid, unclaimed>>

\* Control-D: msgctl with IPC_RMID, which fails if another kirk was first.
Quit(k) ==
    /\ Goes(k, "fgets", "gone")
    /\ IF Connected(k)
       THEN queue' = 0 /\ msgs' = 0 /\ unclaimed' = 0
       ELSE UNCHANGED <<queue, msgs, unclaimed>>
    /\ UNCHANGED <<made, msqid>>

-----------------------------------------------------------------------------

\* Whose message is in the queue or in a spock's hands, and who has one in hand.
Waiting == {k \in Kirk : Connected(k) /\ at[k] = "msgrcv"}
Replying == {s \in Spock : Connected(s) /\ at[s] = "msgsnd"}

KillCrew(p) ==
    /\ at[p] # "gone"
    /\ at' = [at EXCEPT ![p] = "gone"]
    /\ unclaimed' = IF p \in Waiting THEN unclaimed + 1
                    ELSE IF p \in Replying THEN unclaimed - 1 ELSE unclaimed
    /\ UNCHANGED <<made, queue, msgs, msqid>>

\* What a process does without its user.
crew(p) == Msgget(p) \/ Send(p) \/ Receive(p) \/ ReceiveFails(p)

MsgNext ==
    \/ \E p \in Crew : crew(p) \/ KillCrew(p)
    \/ \E k \in Kirk : TypeLine(k) \/ Quit(k)

MsgSpec == MsgInit /\ [][MsgNext]_msgVars

-----------------------------------------------------------------------------
(* Properties *)

\* For each kirk that waits there is one message, in the queue or in the hands of
\* a spock who is about to send another for it, whoever has taken whose; a killed
\* kirk leaves one behind, a killed spock may take one with it.
OneMessagePerWaiter ==
    queue # 0 => msgs + Cardinality(Replying) = Cardinality(Waiting) + unclaimed

\* While none of them is killed in the middle of an exchange, every kirk that has
\* typed a line gets something back, or finds the queue removed: nobody takes what
\* another waits for without sending a message in its place.
KirkHearsBack ==
    [](unclaimed = 0) =>
        \A k \in Kirk : at[k] \in {"msgsnd", "msgrcv"} ~> at[k] \in {"fgets", "gone"}

\* Once a kirk has removed the queue, whoever is using it ends, unless its user
\* does not type: nobody is left asleep on a queue that is gone.
RemovalEndsCrew ==
    \A p \in Crew : ~Connected(p) /\ at[p] \in {"msgsnd", "msgrcv"} ~> at[p] = "gone"

=============================================================================
