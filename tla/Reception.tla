----------------------------- MODULE Reception -----------------------------
(***************************************************************************)
(* What the phases of asciiclient rely on when they call recvMessage       *)
(* (assignment4/src/assignment4.c:184-205), without any bytes: netstrings  *)
(* are whole, and a call takes some of them off the queue of those that    *)
(* were sent and not yet handed out, none skipped and none invented.       *)
(*                                                                         *)
(* NetstringReader, where a read may end anywhere, implements this, and    *)
(* AsciiClient reads with these steps: so the one stands for the other.    *)
(***************************************************************************)
EXTENDS Integers, Sequences

CONSTANT Queues  \* what may be sent

VARIABLES
    queue,    \* the strings not yet handed out
    strings,  \* what recvMessage stored for its caller
    nets,     \* what it returned
    state     \* "reading": in recvMessage; "returned"; "gone": the client
              \* has ended, or nothing is promised any more

vars == <<queue, strings, nets, state>>

Init ==
    /\ queue \in Queues
    /\ strings = <<>> /\ nets = 0
    /\ state = "reading"

\* Some strings, and the last of them once more.
Receive ==
    /\ state = "reading"
    /\ \E k \in 1..Len(queue) :
         /\ strings' = Append(SubSeq(queue, 1, k), queue[k])
         /\ nets' = k
         /\ queue' = SubSeq(queue, k + 1, Len(queue))
    /\ state' = "returned"

\* The end of the stream, only behind all strings, or an error.
ReceiveNothing ==
    /\ state = "reading"
    /\ strings' = <<>>
    /\ \/ queue = <<>> /\ nets' = 0
       \/ nets' = -1
    /\ state' = "returned"
    /\ UNCHANGED queue

\* The caller has looked at the strings and reads again.
Resume ==
    /\ state = "returned"
    /\ nets > 0
    /\ strings' = <<>> /\ nets' = 0
    /\ state' = "reading"
    /\ UNCHANGED queue

\* The client refuses what it reads; what was under way does not matter.
Leave ==
    /\ state = "reading"
    /\ state' = "gone"
    /\ queue' = <<>>
    /\ UNCHANGED <<strings, nets>>

Next == Receive \/ ReceiveNothing \/ Resume \/ Leave

Spec == Init /\ [][Next]_vars
=============================================================================
