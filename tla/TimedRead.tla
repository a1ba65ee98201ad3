----------------------------- MODULE TimedRead -----------------------------
(***************************************************************************)
(* What grnvs_read promises to a caller that sets *timeout once and calls  *)
(* it until the time is used up: one step per call, nothing about clocks,  *)
(* signals or system calls.                                                *)
(*                                                                         *)
(* A call returns a frame, which costs at least one whole millisecond of   *)
(* *timeout; or it returns 0, and then nothing is left; or it ends the     *)
(* process.  A signal may make it return Junk, which means nothing, at the *)
(* same price as a frame.  The prices hold as long as the process has      *)
(* always got the processor in time; once it has not, *timeout may be      *)
(* anything.                                                               *)
(*                                                                         *)
(* RawReadCaller shows that RawRead implements this, and Trace6 reads with *)
(* these steps.                                                            *)
(***************************************************************************)
EXTENDS Integers

CONSTANTS
    Budget,   \* what the caller puts into *timeout
    Modulus,  \* the range of *timeout
    Lengths,  \* lengths of frames
    Junk      \* what an interrupted call may return

VARIABLES
    timeout,  \* *timeout, as the caller finds it
    result,   \* what the last call returned
    late      \* the process has got the processor too late

vars == <<timeout, result, late>>

NoCall == -1
Exited == -2

Init ==
    /\ timeout = Budget
    /\ result = NoCall
    /\ late = FALSE

\* The process may get the processor too late in any call, also in one that
\* has not returned yet.
Delay == late' \in {late, TRUE}

\* What a call that used some time may leave.
Left == {t \in 0..(Modulus - 1) : late' \/ t < timeout}

Frame ==
    /\ timeout > 0
    /\ result' \in Lengths
    /\ timeout' \in Left

Interrupt ==
    /\ timeout > 0
    /\ result' \in Junk
    /\ timeout' \in Left

Silence == result' = 0 /\ timeout' = 0

Exit == result' = Exited /\ timeout' \in Left \cup {timeout}

Next ==
    /\ result # Exited
    /\ Delay
    /\ Frame \/ Interrupt \/ Silence \/ Exit \/ UNCHANGED <<timeout, result>>

Spec == Init /\ [][Next]_vars
=============================================================================
