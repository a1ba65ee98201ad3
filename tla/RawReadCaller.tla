--------------------------- MODULE RawReadCaller ---------------------------
(***************************************************************************)
(* grnvs_read as its caller sees it: the caller is blocked while the call  *)
(* runs and looks at *timeout and at the result when it has returned.      *)
(* `seen` is a history variable that keeps just that; through it RawRead   *)
(* implements TimedRead.  `assigned` is another one: whether this call has *)
(* given len a value, or returned before it needed one.                    *)
(***************************************************************************)
EXTENDS RawRead

VARIABLES
    seen,     \* *timeout and the result after the last call
    assigned

callerVars == <<vars, seen, assigned>>

\* What a call may return that a signal got out of its loop.
Junk == IF Signals THEN {g \in Garbage : g >= 0} ELSE {}

T == INSTANCE TimedRead WITH
       timeout <- seen.timeout, result <- seen.result, late <- (late > 0)

\* The caller cannot look while the call runs.
Look ==
    seen' = CASE pc' \in {"idle", "select", "read"} -> seen
              [] pc' = "returned" -> [timeout |-> timeout', result |-> len']
              [] pc' = "exit" -> [timeout |-> timeout', result |-> T!Exited]

CallerInit ==
    /\ Init
    /\ seen = [timeout |-> Budget, result |-> T!NoCall]
    /\ assigned = FALSE

CallerNext ==
    /\ \/ Call /\ assigned' = (pc' = "returned")
       \/ (Expired \/ ReadFrame \/ ReadInterrupted) /\ assigned' = TRUE
       \/ (Close \/ Ready \/ Interrupted \/ SelectFails \/ ReadFails) /\ UNCHANGED assigned
    /\ Look

CallerSpec == CallerInit /\ [][CallerNext]_callerVars
FairCallerSpec == CallerSpec /\ WF_vars(Loop)

-----------------------------------------------------------------------------
(* Properties.                                                             *)

\* What a call returns is what happened in it: a positive number is the length
\* of the frame it has put into buf, and 0 means that the time is used up.  The
\* one exception is a call whose first pselect a signal interrupts: the loop
\* condition then reads a len that was never assigned (raw.c:199), and the
\* caller may be told of a frame, or of a timeout, while nothing was read.
ReturnIsReal ==
    pc = "returned" =>
        IF assigned THEN len = frame /\ (len = 0 => timeout = 0)
        ELSE len \in Junk /\ frame = None

\* Whatever clock, signals and system calls do during a call, what its caller
\* sees is one step of TimedRead: a frame for at least a millisecond, or 0 with
\* nothing left, or the end of the process (raw.h:23-35), or what a signal made
\* of it.
ReadIsTimedRead == T!Spec
=============================================================================
