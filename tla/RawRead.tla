------------------------------ MODULE RawRead ------------------------------
(***************************************************************************)
(* grnvs_read (assignment2/libraw/src/raw.c:154-219, the same file as in   *)
(* assignment3/deps/libraw) and the budget of time its caller keeps in     *)
(* *timeout: the caller sets it once, every call takes the time it waited  *)
(* off it, and a call that finds 0 there gives up.                         *)
(*                                                                         *)
(* Time is counted in ticks of the monotonic clock, TicksPerMs to the      *)
(* millisecond; *timeout is an unsigned number of milliseconds.  Kernel    *)
(* and clock are external: how long pselect takes, what it returns and     *)
(* what read returns are free, within what the constants say.  A NULL      *)
(* timeout is left out, no caller passes one.                              *)
(***************************************************************************)
EXTENDS Integers

CONSTANTS
    TicksPerMs, \* 1000000
    Budget,     \* what the caller puts into *timeout, in milliseconds
    Modulus,    \* 2^32, the range of unsigned int
    MinWait,    \* ticks that pass at least between the two clock readings
    Late,       \* ticks that pselect may take longer than it was told
    Signals,    \* whether signals interrupt system calls
    Garbage,    \* what len may hold before it is assigned
    Lengths,    \* lengths of frames
    MaxCalls    \* bound on the calls

ASSUME TimeAssumption ==
    /\ TicksPerMs \in Nat \ {0} /\ MinWait \in Nat /\ Late \in Nat
    /\ Modulus \in Nat /\ Budget \in Nat /\ Budget < Modulus
ASSUME OutcomeAssumption ==
    /\ Signals \in BOOLEAN
    /\ Lengths \subseteq Nat \ {0} /\ Garbage \subseteq Int /\ Garbage # {}
    /\ MaxCalls \in Nat

VARIABLES
    ifindex,  \* "open" or "closed": ifindex < 0
    pc,       \* "idle", "select", "read", "returned" or "exit"
    timeout,  \* *timeout
    time,     \* what is left of it in this call, in ticks
    len,      \* len, and once the call returned what it returned
    frame,    \* length of the frame that this call has put into buf, or 0
    elapsed,  \* the ticks all calls have waited
    late,     \* the ticks by which some pselect has kept the process too long
    frames,   \* how many calls have returned a frame
    calls     \* how many calls there were

vars == <<ifindex, pc, timeout, time, len, frame, elapsed, late, frames, calls>>

None == 0

-----------------------------------------------------------------------------
Init ==
    /\ ifindex = "open"
    /\ pc = "idle"
    /\ timeout = Budget
    /\ time = 0 /\ len = None /\ frame = None
    /\ elapsed = 0 /\ late = 0 /\ frames = 0 /\ calls = 0

\* grnvs_close.
Close ==
    /\ ifindex = "open"
    /\ pc \in {"idle", "returned"}
    /\ ifindex' = "closed"
    /\ UNCHANGED <<pc, timeout, time, len, frame, elapsed, late, frames, calls>>

\* The call and its checks, up to the loop.
Call ==
    /\ pc \in {"idle", "returned"}
    /\ calls < MaxCalls
    /\ calls' = calls + 1
    /\ frame' = None
    /\ \/ ifindex = "closed" /\ pc' = "exit" /\ UNCHANGED <<len, time>>
       \/ /\ ifindex = "open" /\ timeout = 0
          /\ pc' = "returned" /\ len' = 0 /\ UNCHANGED time
       \/ /\ ifindex = "open" /\ timeout > 0
          /\ pc' = "select"
          /\ len' \in Garbage
          /\ time' = timeout * TicksPerMs
    /\ UNCHANGED <<ifindex, timeout, elapsed, late, frames>>

\* Variants: a signed number, and one that is rounded up.
MillisecondsSigned(ticks) == ticks \div TicksPerMs
MillisecondsUp(ticks) == ((ticks + TicksPerMs - 1) \div TicksPerMs) % Modulus

\* What tv_sec*1000 + tv_nsec/1000000 is as an unsigned int.
Milliseconds(ticks) == (ticks \div TicksPerMs) % Modulus

\* The process has waited.
Wakes(ticks) ==
    /\ elapsed' = elapsed + ticks
    /\ late' = IF ticks - time > late THEN ticks - time ELSE late

\* Variants: the time is not taken off, and the clock readings are swapped.
PassForgets(ticks) == Wakes(ticks) /\ time' = time /\ timeout' = Milliseconds(time)
PassBackwards(ticks) ==
    Wakes(ticks) /\ time' = time + ticks /\ timeout' = Milliseconds(time + ticks)

\* The time between the two clock readings is taken off time and *timeout.
Pass(ticks) ==
    Wakes(ticks) /\ time' = time - ticks /\ timeout' = Milliseconds(time - ticks)

\* pselect: a frame is there.  It returns in time, but the process may get the
\* processor late.
Ready ==
    /\ pc = "select" /\ time >= 0
    /\ \E ticks \in MinWait..(time + Late) : Pass(ticks)
    /\ pc' = "read"
    /\ UNCHANGED <<ifindex, len, frame, frames, calls>>

\* Variant: *timeout stays.
GivesUpOnce == len' = 0 /\ UNCHANGED timeout

\* *timeout = 0; return 0;
GivesUp == len' = 0 /\ timeout' = 0

\* pselect: nothing came.
Expired ==
    /\ pc = "select" /\ time >= 0
    /\ \E ticks \in time..(time + Late) : Wakes(ticks) /\ time' = time - ticks
    /\ GivesUp
    /\ pc' = "returned"
    /\ UNCHANGED <<ifindex, frame, frames, calls>>

\* pselect: EINTR.  continue goes to the loop condition, which reads len.
Interrupted ==
    /\ pc = "select" /\ time >= 0 /\ Signals
    /\ \E ticks \in MinWait..(time + Late) : Pass(ticks)
    /\ pc' = IF len < 0 THEN "select" ELSE "returned"
    /\ UNCHANGED <<ifindex, len, frame, frames, calls>>

\* Variant: every error of pselect is retried.
SelectRetries ==
    /\ pc = "select"
    /\ UNCHANGED vars

\* pselect: any other error; it always refuses a negative time.  The process
\* ends, and nobody looks at *timeout any more.
SelectFails ==
    /\ pc = "select"
    /\ pc' = "exit"
    /\ UNCHANGED <<ifindex, timeout, time, len, frame, elapsed, late, frames, calls>>

\* read: the frame.
ReadFrame ==
    /\ pc = "read"
    /\ len' \in Lengths
    /\ frame' = len'
    /\ frames' = frames + 1
    /\ pc' = "returned"
    /\ UNCHANGED <<ifindex, timeout, time, elapsed, late, calls>>

\* read: EINTR, the loop goes on with the time that is left.
ReadInterrupted ==
    /\ pc = "read" /\ Signals
    /\ len' = -1
    /\ pc' = "select"
    /\ UNCHANGED <<ifindex, timeout, time, frame, elapsed, late, frames, calls>>

\* read: any other error, or the interface went down.
ReadFails ==
    /\ pc = "read"
    /\ pc' = "exit"
    /\ UNCHANGED <<ifindex, timeout, time, len, frame, elapsed, late, frames, calls>>

Loop ==
    \/ Ready \/ Expired \/ Interrupted \/ SelectFails
    \/ ReadFrame \/ ReadInterrupted \/ ReadFails

Next == Close \/ Call \/ Loop

Spec == Init /\ [][Next]_vars
FairSpec == Spec /\ WF_vars(Loop)

-----------------------------------------------------------------------------
(* Properties.                                                             *)

\* Every variable stays in its range; *timeout is an unsigned int.
TypeOK ==
    /\ ifindex \in {"open", "closed"}
    /\ pc \in {"idle", "select", "read", "returned", "exit"}
    /\ timeout \in 0..(Modulus - 1)
    /\ time \in Int /\ len \in Int
    /\ frame \in Lengths \cup {None}
    /\ elapsed \in Nat /\ late \in 0..Late /\ frames \in Nat /\ calls \in 0..MaxCalls

\* However the time is spread over calls, interruptions and repeated system
\* calls, the caller is never made to wait longer than what it put into
\* *timeout: what has passed and what is left never exceed it (raw.h:28-31),
\* as long as pselect returns in time.
WithinBudget == late = 0 => elapsed + timeout * TicksPerMs <= Budget * TicksPerMs

\* A call never gives its caller more time than it had, unless a negative rest
\* has wrapped around.
NeverGrows == [][late' = 0 => timeout' <= timeout]_vars

\* Each frame costs its caller at least one whole millisecond, however fast it
\* came, since what is left is rounded down every time: a caller who sets
\* *timeout once gets at most Budget frames.
FrameLimit == late = 0 => frames + timeout <= Budget

\* A call that waits comes to an end, even when signals keep interrupting it.
CallEnds == pc \in {"select", "read"} ~> pc \in {"returned", "exit"}
=============================================================================
