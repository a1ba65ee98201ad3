------------------------------ MODULE Collatz ------------------------------
(***************************************************************************)
(* collatz (assignment1): main parses the arguments and calls assignment1, *)
(* a loop over one long.  3*start + 1 may leave the range of a long, which *)
(* is undefined; what the compilers make of it here is the number modulo   *)
(* 2^64.                                                                   *)
(***************************************************************************)
EXTENDS Arguments

CONSTANT LongMod  \* 2^64

ASSUME LongAssumption == LongMod \in Nat /\ LongMod > 0 /\ LongMod % 2 = 0

VARIABLES
    start,   \* of assignment1
    wrapped  \* it has left the range of a long

vars == <<argVars, start, wrapped>>

Long(n) == ((n + (LongMod \div 2)) % LongMod) - (LongMod \div 2)

Init == ArgInit /\ start = 0 /\ wrapped = FALSE

Parse == ArgNext /\ UNCHANGED <<start, wrapped>>

\* assignment1(args.start)
Call ==
    /\ at = "run" /\ prog = "collatz"
    /\ start' = args.start
    /\ at' = "loop"
    /\ UNCHANGED <<prog, argv, next, rest, argNum, args, wrapped>>

\* Variant: the loop stops below 1 too.
GoesOnAboveOne == start > 1

GoesOn == start # 1

Halve ==
    /\ at = "loop" /\ GoesOn /\ start % 2 = 0
    /\ start' = start \div 2
    /\ UNCHANGED <<argVars, wrapped>>

\* Variant: one less instead of one more.
LessThanTriple(n) == 3 * n - 1

Triple(n) == 3 * n + 1

TripleAndOne ==
    /\ at = "loop" /\ GoesOn /\ start % 2 # 0
    /\ start' = Long(Triple(start))
    /\ wrapped' = (wrapped \/ start' # Triple(start))
    /\ UNCHANGED argVars

Return ==
    /\ at = "loop" /\ ~GoesOn
    /\ at' = "done"
    /\ UNCHANGED <<prog, argv, next, rest, argNum, args, start, wrapped>>

Next == Parse \/ Call \/ Halve \/ TripleAndOne \/ Return

Spec == Init /\ [][Next]_vars

\* One process without any blocking call.
FairSpec == Spec /\ WF_vars(Next)

-----------------------------------------------------------------------------
(* Properties.                                                             *)

OnlyFromPositive == at = "done" => args.start > 0 \/ wrapped

\* The loop ends from each positive number of the run, unless it overflows,
\* which may do anything, and from no other: 0 and the negative ones, which a
\* command line can give behind "--", keep it going (assignment1.c:11-19).
EndsFromPositive ==
    /\ at = "loop" /\ start > 0 ~> at = "done" \/ wrapped
    /\ []OnlyFromPositive
=============================================================================
