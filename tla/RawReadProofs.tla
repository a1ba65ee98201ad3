--------------------------- MODULE RawReadProofs ---------------------------
(***************************************************************************)
(* Proofs about RawRead, for every resolution of the clock, every budget,  *)
(* every set of frame lengths and any number of calls; and that, as its    *)
(* caller sees it (RawReadCaller), it implements TimedRead.                *)
(*                                                                         *)
(* *timeout alone is not inductive: within a call it lags behind time, and *)
(* both are rounded.  InCall relates time, *timeout and what has passed    *)
(* while a call is under way, and FrameInCall does so for the frames.      *)
(***************************************************************************)
EXTENDS RawReadCaller, TLAPS

-----------------------------------------------------------------------------
(* Arithmetic.                                                             *)

LEMMA DivBelow ==
    ASSUME NEW k \in Nat \ {0}, NEW x \in Nat
    PROVE  x \div k \in Nat /\ (x \div k) * k <= x
  OBVIOUS

LEMMA DivInt ==
    ASSUME NEW k \in Nat \ {0}, NEW x \in Int
    PROVE  x \div k \in Int
  OBVIOUS

LEMMA ModBelow ==
    ASSUME NEW m \in Nat \ {0}, NEW x \in Nat
    PROVE  x % m \in Nat /\ x % m <= x
  OBVIOUS

LEMMA ModRange ==
    ASSUME NEW m \in Nat \ {0}, NEW x \in Int
    PROVE  x % m \in 0..(m - 1)
  OBVIOUS

LEMMA TimesUp ==
    ASSUME NEW k \in Nat \ {0}, NEW a \in Int, NEW b \in Int, a <= b
    PROVE  a * k <= b * k
  OBVIOUS

LEMMA TimesDown ==
    ASSUME NEW k \in Nat \ {0}, NEW a \in Int, NEW b \in Int, a * k < b * k
    PROVE  a < b
  OBVIOUS

LEMMA TimesInt ==
    ASSUME NEW k \in Nat \ {0}, NEW a \in Int
    PROVE  a * k \in Int /\ (a >= 0 => a * k >= 0)
  OBVIOUS

\* What is left in milliseconds is below every bound of what is left in ticks.
LEMMA LeftBelow ==
    ASSUME NEW t \in Int, NEW x \in Int, NEW b \in Int,
           t * TicksPerMs <= x, x < b * TicksPerMs
    PROVE  t < b
<1> DEFINE tt == t * TicksPerMs
           bb == b * TicksPerMs
<1>1. tt \in Int /\ bb \in Int
  BY TimesInt, TimeAssumption
<1>2. tt <= x /\ x < bb
  OBVIOUS
<1> HIDE DEF tt, bb
<1>3. tt < bb
  BY <1>1, <1>2
<1> QED
  BY <1>3, TimesDown, TimeAssumption DEF tt, bb

LEMMA SumBelow ==
    ASSUME NEW a \in Nat, NEW b \in Nat, NEW c \in Int, a + b <= c
    PROVE  b <= c
  OBVIOUS

LEMMA SumUp ==
    ASSUME NEW a \in Int, NEW b \in Int, NEW c \in Int, a < c - b
    PROVE  b + a <= c
  OBVIOUS

\* What the conversion to milliseconds does with a time that is not negative.
LEMMA MillisecondsBelow ==
    ASSUME NEW x \in Nat
    PROVE  Milliseconds(x) * TicksPerMs <= x
<1> DEFINE q == x \div TicksPerMs
           r == q % Modulus
<1>1. TicksPerMs \in Nat \ {0} /\ Modulus \in Nat \ {0}
  BY TimeAssumption
<1>2. q \in Nat /\ q * TicksPerMs <= x
  BY <1>1, DivBelow
<1>3. r \in Nat /\ r <= q
  BY <1>1, <1>2, ModBelow
<1>4. r * TicksPerMs <= q * TicksPerMs
  BY <1>1, <1>2, <1>3, TimesUp
<1>5. Milliseconds(x) = r
  BY DEF Milliseconds
<1> HIDE DEF q, r
<1>6. r * TicksPerMs \in Int /\ q * TicksPerMs \in Int
  BY <1>1, <1>2, <1>3, TimesInt
<1> QED
  BY <1>2, <1>4, <1>5, <1>6

LEMMA MillisecondsRange ==
    ASSUME NEW x \in Int
    PROVE  Milliseconds(x) \in 0..(Modulus - 1)
<1>1. TicksPerMs \in Nat \ {0} /\ Modulus \in Nat \ {0}
  BY TimeAssumption
<1>2. x \div TicksPerMs \in Int
  BY <1>1, DivInt
<1> QED
  BY <1>1, <1>2, ModRange DEF Milliseconds

-----------------------------------------------------------------------------
(* Type correctness.                                                       *)

LEMMA InitTypeOK == Init => TypeOK
  BY TimeAssumption, OutcomeAssumption DEF Init, TypeOK, None

LEMMA WakeTypes ==
    ASSUME TypeOK, NEW ticks \in Nat, ticks <= time + Late, Wakes(ticks)
    PROVE  elapsed' \in Nat /\ late' \in 0..Late
  BY TimeAssumption DEF TypeOK, Wakes

LEMMA PassTypes ==
    ASSUME TypeOK, NEW ticks \in Nat, ticks <= time + Late, Pass(ticks)
    PROVE  /\ elapsed' \in Nat /\ late' \in 0..Late
           /\ time' \in Int /\ timeout' \in 0..(Modulus - 1)
  BY WakeTypes, MillisecondsRange DEF TypeOK, Pass

LEMMA NextTypeOK == TypeOK /\ [Next]_vars => TypeOK'
<1> SUFFICES ASSUME TypeOK, [Next]_vars PROVE TypeOK'
  OBVIOUS
<1> USE TimeAssumption, OutcomeAssumption
<1>1. CASE Close
  BY <1>1 DEF Close, TypeOK
<1>2. CASE Call
  <2>1. time' \in Int /\ len' \in Int
    <3> DEFINE ticks == timeout * TicksPerMs
    <3>1. ticks \in Int
      BY TimesInt DEF TypeOK
    <3>2. time' \in {time, ticks}
      BY <1>2 DEF Call
    <3>3. len' \in {0, len} \cup Garbage
      BY <1>2 DEF Call
    <3> HIDE DEF ticks
    <3> QED
      BY <3>1, <3>2, <3>3 DEF TypeOK
  <2> QED
    BY <1>2, <2>1 DEF Call, TypeOK, None
<1>3. CASE Ready
  <2>1. PICK ticks \in MinWait..(time + Late) : Pass(ticks)
    BY <1>3 DEF Ready
  <2>2. ticks \in Nat /\ ticks <= time + Late
    BY <2>1 DEF TypeOK
  <2>3. /\ elapsed' \in Nat /\ late' \in 0..Late
        /\ time' \in Int /\ timeout' \in 0..(Modulus - 1)
    BY <2>1, <2>2, PassTypes
  <2> QED
    BY <1>3, <2>3 DEF Ready, TypeOK
<1>4. CASE Expired
  <2>1. PICK ticks \in time..(time + Late) : Wakes(ticks) /\ time' = time - ticks
    BY <1>4 DEF Expired
  <2>2. ticks \in Nat /\ ticks <= time + Late /\ time' \in Int
    BY <1>4, <2>1 DEF Expired, TypeOK
  <2>3. elapsed' \in Nat /\ late' \in 0..Late
    BY <2>1, <2>2, WakeTypes
  <2> QED
    BY <1>4, <2>2, <2>3 DEF Expired, GivesUp, TypeOK
<1>5. CASE Interrupted
  <2>1. PICK ticks \in MinWait..(time + Late) : Pass(ticks)
    BY <1>5 DEF Interrupted
  <2>2. ticks \in Nat /\ ticks <= time + Late
    BY <2>1 DEF TypeOK
  <2>3. /\ elapsed' \in Nat /\ late' \in 0..Late
        /\ time' \in Int /\ timeout' \in 0..(Modulus - 1)
    BY <2>1, <2>2, PassTypes
  <2> QED
    BY <1>5, <2>3 DEF Interrupted, TypeOK
<1>6. CASE SelectFails
  BY <1>6 DEF SelectFails, TypeOK
<1>7. CASE ReadFrame
  BY <1>7 DEF ReadFrame, TypeOK
<1>8. CASE ReadInterrupted
  BY <1>8 DEF ReadInterrupted, TypeOK
<1>9. CASE ReadFails
  BY <1>9 DEF ReadFails, TypeOK
<1>10. CASE UNCHANGED vars
  BY <1>10 DEF vars, TypeOK
<1> QED
  BY <1>1, <1>2, <1>3, <1>4, <1>5, <1>6, <1>7, <1>8, <1>9, <1>10 DEF Next, Loop

\* Every variable keeps its range: *timeout stays an unsigned int, also when
\* the process is late and time becomes negative.
THEOREM TypeCorrect == Spec => []TypeOK
  BY InitTypeOK, NextTypeOK, PTL DEF Spec

-----------------------------------------------------------------------------
(* The budget of time, as long as the process wakes up in time: a late     *)
(* wake-up makes time negative, and *timeout wraps around.                 *)

\* A wait that leaves late at 0 was not longer than what was left.
LEMMA OnTime ==
    ASSUME TypeOK, NEW ticks \in Nat, Wakes(ticks), late' = 0
    PROVE  late = 0 /\ ticks <= time
  BY TimeAssumption DEF TypeOK, Wakes

\* What was late stays late.
LEMMA LateStays ==
    ASSUME TypeOK, [Next]_vars, late' = 0
    PROVE  late = 0
<1>1. CASE Ready \/ Interrupted
  <2>1. PICK ticks \in MinWait..(time + Late) : Wakes(ticks)
    BY <1>1 DEF Ready, Interrupted, Pass
  <2>2. ticks \in Nat
    BY <2>1, TimeAssumption DEF TypeOK
  <2> QED
    BY <2>1, <2>2, OnTime
<1>2. CASE Expired
  <2>1. PICK ticks \in time..(time + Late) : Wakes(ticks)
    BY <1>2 DEF Expired
  <2>2. ticks \in Nat
    BY <1>2, <2>1, TimeAssumption DEF Expired, TypeOK
  <2> QED
    BY <2>1, <2>2, OnTime
<1>3. CASE UNCHANGED late
  BY <1>3
<1> QED
  BY <1>1, <1>2, <1>3 DEF Next, Loop, Close, Call, SelectFails, ReadFrame,
     ReadInterrupted, ReadFails, vars

InCall ==
    late = 0 /\ pc \in {"select", "read"} =>
        /\ time >= 0
        /\ elapsed + time <= Budget * TicksPerMs
        /\ timeout * TicksPerMs <= time

BudgetInv == TypeOK /\ WithinBudget /\ InCall

LEMMA InitBudget == Init => BudgetInv
<1> SUFFICES ASSUME Init PROVE BudgetInv
  OBVIOUS
<1>1. Budget * TicksPerMs \in Int
  BY TimesInt, TimeAssumption
<1>2. WithinBudget
  BY <1>1 DEF Init, WithinBudget
<1>3. InCall
  BY DEF Init, InCall
<1> QED
  BY <1>2, <1>3, InitTypeOK DEF BudgetInv

\* What one wait in time does, whatever pselect returns after it.
LEMMA PassKeepsBudget ==
    ASSUME TypeOK, InCall, pc \in {"select", "read"},
           NEW ticks \in Nat, ticks <= time + Late, Pass(ticks), late' = 0
    PROVE  /\ WithinBudget'
           /\ time' \in Nat
           /\ elapsed' + time' <= Budget * TicksPerMs
           /\ timeout' * TicksPerMs <= time'
<1> DEFINE all == Budget * TicksPerMs
           left == timeout' * TicksPerMs
<1>0. late = 0 /\ ticks <= time
  BY OnTime DEF Pass
<1>1. time' \in Nat /\ time' = time - ticks /\ elapsed' = elapsed + ticks
  BY <1>0 DEF Pass, Wakes, TypeOK
<1>2. timeout' \in 0..(Modulus - 1)
  BY PassTypes
<1>3. left <= time'
  BY <1>1, MillisecondsBelow DEF Pass
<1>4. all \in Int /\ left \in Int
  BY <1>2, TimesInt, TimeAssumption
<1>5. elapsed + time <= all
  BY <1>0 DEF InCall
<1>6. elapsed \in Nat /\ time \in Int
  BY DEF TypeOK
<1> HIDE DEF all, left
<1>7. elapsed' + time' <= all
  BY <1>1, <1>4, <1>5, <1>6
<1>8. elapsed' + left <= all
  BY <1>1, <1>3, <1>4, <1>6, <1>7
<1> QED
  BY <1>1, <1>3, <1>7, <1>8 DEF all, left, WithinBudget

LEMMA NextBudget == BudgetInv /\ [Next]_vars => BudgetInv'
<1> SUFFICES ASSUME BudgetInv, [Next]_vars, late' = 0 PROVE WithinBudget' /\ InCall'
  BY NextTypeOK DEF BudgetInv, WithinBudget, InCall
<1> USE DEF BudgetInv
<1>0. TimeAssumption /\ late = 0
  BY TimeAssumption, LateStays
<1>1. CASE Close
  BY <1>0, <1>1 DEF Close, WithinBudget, InCall
<1>2. CASE Call
  <2>1. WithinBudget'
    BY <1>0, <1>2 DEF Call, WithinBudget
  <2>2. InCall'
    <3> DEFINE ticks == timeout * TicksPerMs
    <3> SUFFICES ASSUME pc' = "select"
                 PROVE  time' >= 0 /\ elapsed + time' <= Budget * TicksPerMs /\ ticks <= time'
      BY <1>0, <1>2 DEF Call, InCall
    <3>1. time' = ticks
      BY <1>2 DEF Call
    <3>2. ticks \in Int /\ ticks >= 0
      BY TimesInt, TimeAssumption DEF TypeOK
    <3>3. elapsed + ticks <= Budget * TicksPerMs
      BY <1>0 DEF WithinBudget
    <3> HIDE DEF ticks
    <3> QED
      BY <3>1, <3>2, <3>3
  <2> QED
    BY <2>1, <2>2
<1>3. CASE Ready
  <2>1. PICK ticks \in MinWait..(time + Late) : Pass(ticks)
    BY <1>3 DEF Ready
  <2>2. ticks \in Nat /\ ticks <= time + Late
    BY <2>1, TimeAssumption DEF TypeOK
  <2>3. pc = "select"
    BY <1>3 DEF Ready
  <2> QED
    BY <2>1, <2>2, <2>3, PassKeepsBudget DEF InCall
<1>4. CASE Expired
  <2>1. pc = "select" /\ pc' = "returned" /\ timeout' = 0
    BY <1>4 DEF Expired, GivesUp
  <2>2. PICK ticks \in time..(time + Late) : Wakes(ticks)
    BY <1>4 DEF Expired
  <2>3. elapsed' = elapsed + time
    <3>1. ticks \in Nat /\ ticks >= time
      BY <1>0, <1>4, <2>2 DEF Expired, TypeOK
    <3>2. ticks <= time
      BY <2>2, <3>1, OnTime
    <3> QED
      BY <2>2, <3>1, <3>2 DEF Wakes, TypeOK
  <2>4. elapsed' + 0 <= Budget * TicksPerMs
    BY <1>0, <2>1, <2>3 DEF InCall, TypeOK
  <2>5. timeout' * TicksPerMs = 0
    BY <2>1, TimeAssumption
  <2> QED
    BY <2>1, <2>4, <2>5 DEF WithinBudget, InCall
<1>5. CASE Interrupted
  <2>1. PICK ticks \in MinWait..(time + Late) : Pass(ticks)
    BY <1>5 DEF Interrupted
  <2>2. ticks \in Nat /\ ticks <= time + Late
    BY <2>1, TimeAssumption DEF TypeOK
  <2>3. pc = "select"
    BY <1>5 DEF Interrupted
  <2> QED
    BY <2>1, <2>2, <2>3, PassKeepsBudget DEF InCall
<1>6. CASE SelectFails
  BY <1>0, <1>6 DEF SelectFails, WithinBudget, InCall
<1>7. CASE ReadFrame
  BY <1>0, <1>7 DEF ReadFrame, WithinBudget, InCall
<1>8. CASE ReadInterrupted
  BY <1>0, <1>8 DEF ReadInterrupted, WithinBudget, InCall
<1>9. CASE ReadFails
  BY <1>0, <1>9 DEF ReadFails, WithinBudget, InCall
<1>10. CASE UNCHANGED vars
  BY <1>0, <1>10 DEF vars, WithinBudget, InCall
<1> QED
  BY <1>1, <1>2, <1>3, <1>4, <1>5, <1>6, <1>7, <1>8, <1>9, <1>10 DEF Next, Loop

\* What has been waited and what is left never exceed what the caller put into
\* *timeout, however many calls, signals and interrupted reads there were, as
\* long as the process wakes up in time.
THEOREM BudgetKept == Spec => []WithinBudget
<1>1. Init => BudgetInv
  BY InitBudget
<1>2. BudgetInv /\ [Next]_vars => BudgetInv'
  BY NextBudget
<1>3. BudgetInv => WithinBudget
  BY DEF BudgetInv
<1> QED
  BY <1>1, <1>2, <1>3, PTL DEF Spec

-----------------------------------------------------------------------------
(* *timeout as a step changes it.                                          *)

\* Within a call *timeout is what is left, rounded down.
Rounded == late = 0 /\ pc \in {"select", "read"} => time < (timeout + 1) * TicksPerMs

LEMMA DivAbove ==
    ASSUME NEW k \in Nat \ {0}, NEW x \in Nat
    PROVE  x < (x \div k + 1) * k
  OBVIOUS

LEMMA ModSmall ==
    ASSUME NEW m \in Nat \ {0}, NEW x \in Nat, x < m
    PROVE  x % m = x
  OBVIOUS

\* A time within the budget does not wrap around.
LEMMA MillisecondsAbove ==
    ASSUME NEW x \in Nat, x <= Budget * TicksPerMs
    PROVE  x < (Milliseconds(x) + 1) * TicksPerMs
<1> DEFINE q == x \div TicksPerMs
<1>1. TicksPerMs \in Nat \ {0} /\ Modulus \in Nat \ {0}
  BY TimeAssumption
<1>2. q \in Nat /\ q * TicksPerMs <= x /\ x < (q + 1) * TicksPerMs
  BY <1>1, DivBelow, DivAbove
<1>3. q < Modulus
  <2>1. q * TicksPerMs < (Budget + 1) * TicksPerMs
    BY <1>1, <1>2, TimeAssumption
  <2>2. q < Budget + 1
    BY <1>1, <1>2, <2>1, TimesDown, TimeAssumption
  <2> HIDE DEF q
  <2> QED
    BY <1>2, <2>2, TimeAssumption
<1>4. Milliseconds(x) = q
  BY <1>1, <1>2, <1>3, ModSmall DEF Milliseconds
<1> QED
  BY <1>2, <1>4

LEMMA NextRounded ==
    BudgetInv /\ Rounded /\ [Next]_vars => Rounded' /\ [late' = 0 => timeout' <= timeout]_vars
<1> SUFFICES ASSUME BudgetInv, Rounded, [Next]_vars, late' = 0
             PROVE  Rounded' /\ timeout' <= timeout
  BY DEF Rounded
<1> USE DEF BudgetInv
<1>0. timeout \in Nat /\ TimeAssumption /\ late = 0
  BY TimeAssumption, LateStays DEF TypeOK
<1>1. ASSUME NEW ticks \in MinWait..(time + Late), Pass(ticks), pc = "select"
      PROVE  time' < (timeout' + 1) * TicksPerMs /\ timeout' <= timeout
  <2>1. ticks \in Nat /\ ticks <= time + Late
    BY <1>0, <1>1 DEF TypeOK
  <2>2. /\ time' \in Nat /\ time' <= time
        /\ timeout' * TicksPerMs <= time'
        /\ elapsed' + time' <= Budget * TicksPerMs
    BY <1>1, <2>1, PassKeepsBudget DEF Pass, TypeOK
  <2>3. elapsed' \in Nat /\ timeout' \in Nat
    BY <1>1, <2>1, PassTypes
  <2>4. time' <= Budget * TicksPerMs
    <3> DEFINE all == Budget * TicksPerMs
    <3>1. all \in Int /\ elapsed' + time' <= all /\ time' \in Nat
      BY <2>2, TimesInt, TimeAssumption
    <3> HIDE DEF all
    <3>2. time' <= all
      BY <2>3, <3>1, SumBelow
    <3> QED
      BY <3>2 DEF all
  <2>5. time' < (timeout' + 1) * TicksPerMs
    BY <1>1, <2>2, <2>4, MillisecondsAbove DEF Pass
  <2>6. time < (timeout + 1) * TicksPerMs
    BY <1>0, <1>1 DEF Rounded
  <2>7. time \in Int /\ time' < (timeout + 1) * TicksPerMs
    <3> DEFINE old == (timeout + 1) * TicksPerMs
    <3>1. old \in Int /\ time < old
      BY <1>0, <2>6, TimesInt, TimeAssumption
    <3>2. time' <= time /\ time' \in Nat /\ time \in Int
      BY <2>2 DEF TypeOK
    <3> HIDE DEF old
    <3>3. time' < old
      BY <3>1, <3>2
    <3> QED
      BY <3>2, <3>3 DEF old
  <2>8. timeout + 1 \in Int /\ timeout' \in Int /\ time' \in Int
    BY <1>0, <2>2, <2>3
  <2>9. timeout' < timeout + 1
    BY <2>2, <2>7, <2>8, LeftBelow
  <2> QED
    BY <1>0, <2>3, <2>5, <2>9
<1>2. CASE Close
  BY <1>0, <1>2 DEF Close, Rounded
<1>3. CASE Call
  <2>1. timeout' = timeout
    BY <1>3 DEF Call
  <2>2. ASSUME pc' = "select" PROVE time' < (timeout' + 1) * TicksPerMs
    <3>1. time' = timeout * TicksPerMs
      BY <1>3, <2>2 DEF Call
    <3>2. timeout * TicksPerMs < (timeout + 1) * TicksPerMs
      BY <1>0
    <3> QED
      BY <2>1, <3>1, <3>2
  <2>3. pc' # "read"
    BY <1>3 DEF Call
  <2> QED
    BY <1>0, <2>1, <2>2, <2>3 DEF Rounded
<1>4. CASE Ready
  BY <1>1, <1>4 DEF Ready, Rounded
<1>5. CASE Expired
  BY <1>0, <1>5 DEF Expired, GivesUp, Rounded
<1>6. CASE Interrupted
  BY <1>1, <1>6 DEF Interrupted, Rounded
<1>7. CASE SelectFails
  BY <1>0, <1>7 DEF SelectFails, Rounded
<1>8. CASE ReadFrame
  BY <1>0, <1>8 DEF ReadFrame, Rounded
<1>9. CASE ReadInterrupted
  BY <1>0, <1>9 DEF ReadInterrupted, Rounded
<1>10. CASE ReadFails
  BY <1>0, <1>10 DEF ReadFails, Rounded
<1>11. CASE UNCHANGED vars
  BY <1>0, <1>11 DEF vars, Rounded
<1> QED
  BY <1>2, <1>3, <1>4, <1>5, <1>6, <1>7, <1>8, <1>9, <1>10, <1>11 DEF Next, Loop

\* No call leaves its caller more time than it had, until a wake-up is late and
\* the negative rest wraps around.
THEOREM TimeoutNeverGrows == Spec => NeverGrows
<1>1. Init => BudgetInv /\ Rounded
  BY InitBudget DEF Init, Rounded
<1>2. BudgetInv /\ Rounded /\ [Next]_vars => (BudgetInv /\ Rounded)'
  BY NextBudget, NextRounded
<1>3. BudgetInv /\ Rounded /\ [Next]_vars => [late' = 0 => timeout' <= timeout]_vars
  BY NextRounded
<1> QED
  BY <1>1, <1>2, <1>3, PTL DEF Spec, NeverGrows

-----------------------------------------------------------------------------
(* The number of frames.                                                   *)

FrameInCall ==
    /\ late = 0 /\ pc = "select" => time <= (Budget - frames) * TicksPerMs
    /\ late = 0 /\ pc = "read" => time < (Budget - frames) * TicksPerMs

FrameInv == BudgetInv /\ FrameLimit /\ FrameInCall

LEMMA NextFrames ==
    ASSUME MinWait > 0
    PROVE  FrameInv /\ [Next]_vars => FrameInv'
<1> SUFFICES ASSUME FrameInv, [Next]_vars, late' = 0 PROVE FrameLimit' /\ FrameInCall'
  BY NextBudget DEF FrameInv, FrameLimit, FrameInCall
<1> USE DEF FrameInv, BudgetInv
<1>0. timeout \in Nat /\ frames \in Nat /\ TimeAssumption /\ late = 0
  BY TimeAssumption, LateStays DEF TypeOK
<1> DEFINE rest == (Budget - frames) * TicksPerMs
<1>00. rest \in Int
  BY <1>0, TimesInt
<1>1. ASSUME NEW ticks \in MinWait..(time + Late), Pass(ticks), pc = "select",
             frames' = frames
      PROVE  /\ time' < (Budget - frames') * TicksPerMs
             /\ time' <= (Budget - frames') * TicksPerMs
             /\ frames' + timeout' <= Budget
  <2>1. ticks \in Nat /\ ticks > 0 /\ ticks <= time + Late
    BY <1>0, <1>1 DEF TypeOK
  <2>2. time' \in Nat /\ time' < time /\ timeout' * TicksPerMs <= time'
    BY <1>0, <1>1, <2>1, PassKeepsBudget DEF Pass, TypeOK
  <2>3. timeout' \in Nat
    BY <1>1, <2>1, PassTypes
  <2>4. time <= rest /\ time \in Int
    BY <1>0, <1>1 DEF FrameInCall, TypeOK
  <2>5. time' < rest
    <3> HIDE DEF rest
    <3> QED
      BY <1>00, <2>2, <2>4
  <2>6. timeout' < Budget - frames
    <3>1. Budget - frames \in Int /\ time' \in Int /\ timeout' \in Int
      BY <1>0, <2>2, <2>3, TimeAssumption
    <3> QED
      BY <2>2, <2>5, <3>1, LeftBelow
  <2>7. frames' + timeout' <= Budget
    <3>1. Budget \in Int /\ frames \in Int /\ timeout' \in Int
      BY <1>0, <2>3, TimeAssumption
    <3> QED
      BY <1>1, <2>6, <3>1, SumUp
  <2>8. time' <= rest
    <3> HIDE DEF rest
    <3> QED
      BY <1>00, <2>2, <2>5
  <2> QED
    BY <1>1, <2>5, <2>7, <2>8
<1>2. CASE Close
  BY <1>0, <1>2 DEF Close, FrameLimit, FrameInCall
<1>3. CASE Call
  <2>1. timeout' = timeout /\ frames' = frames /\ pc' # "read"
    BY <1>3 DEF Call
  <2>2. ASSUME pc' = "select" PROVE time' <= rest
    <3>1. time' = timeout * TicksPerMs
      BY <1>3, <2>2 DEF Call
    <3>2. timeout <= Budget - frames
      BY <1>0 DEF FrameLimit
    <3>3. timeout * TicksPerMs <= rest
      BY <1>0, <3>2, TimesUp
    <3> QED
      BY <3>1, <3>3
  <2> QED
    BY <1>0, <2>1, <2>2 DEF FrameLimit, FrameInCall
<1>4. CASE Ready
  BY <1>0, <1>1, <1>4 DEF Ready, FrameLimit, FrameInCall
<1>5. CASE Expired
  <2>1. timeout' = 0 /\ frames' = frames /\ pc' = "returned"
    BY <1>5 DEF Expired, GivesUp
  <2>2. frames + 0 <= Budget
    BY <1>0 DEF FrameLimit
  <2> QED
    BY <1>0, <2>1, <2>2 DEF FrameLimit, FrameInCall
<1>6. CASE Interrupted
  BY <1>0, <1>1, <1>6 DEF Interrupted, FrameLimit, FrameInCall
<1>7. CASE SelectFails
  BY <1>0, <1>7 DEF SelectFails, FrameLimit, FrameInCall
<1>8. CASE ReadFrame
  <2>1. pc = "read" /\ pc' = "returned" /\ frames' = frames + 1 /\ timeout' = timeout
    BY <1>8 DEF ReadFrame
  <2>2. timeout * TicksPerMs <= time /\ time < rest /\ time \in Int
    BY <1>0, <2>1 DEF InCall, FrameInCall, TypeOK
  <2>3. timeout < Budget - frames
    BY <1>0, <2>2, LeftBelow
  <2>4. frames' + timeout' <= Budget
    BY <1>0, <2>1, <2>3
  <2> QED
    BY <1>0, <2>1, <2>4 DEF FrameLimit, FrameInCall
<1>9. CASE ReadInterrupted
  <2>1. pc = "read" /\ pc' = "select" /\ UNCHANGED <<frames, timeout, time>>
    BY <1>9 DEF ReadInterrupted
  <2>2. time <= rest
    <3>1. time < rest /\ time \in Int
      BY <1>0, <2>1 DEF FrameInCall, TypeOK
    <3> HIDE DEF rest
    <3> QED
      BY <1>00, <3>1
  <2> QED
    BY <1>0, <2>1, <2>2 DEF FrameLimit, FrameInCall
<1>10. CASE ReadFails
  BY <1>0, <1>10 DEF ReadFails, FrameLimit, FrameInCall
<1>11. CASE UNCHANGED vars
  BY <1>0, <1>11 DEF vars, FrameLimit, FrameInCall
<1> QED
  BY <1>2, <1>3, <1>4, <1>5, <1>6, <1>7, <1>8, <1>9, <1>10, <1>11 DEF Next, Loop

\* If any time at all passes in pselect, a caller that sets *timeout once gets
\* at most as many frames as it put milliseconds there (ethstats: 10000), while
\* wake-ups are in time.
THEOREM FramesBounded == ASSUME MinWait > 0 PROVE Spec => []FrameLimit
<1>1. Init => FrameInv
  BY InitBudget, TimeAssumption DEF Init, FrameInv, FrameLimit, FrameInCall
<1>2. FrameInv /\ [Next]_vars => FrameInv'
  BY NextFrames
<1>3. FrameInv => FrameLimit
  BY DEF FrameInv
<1> QED
  BY <1>1, <1>2, <1>3, PTL DEF Spec

-----------------------------------------------------------------------------
(* What a call returns.                                                    *)

\* While a call runs nothing is in buf; a len that was assigned is negative, so
\* that the loop goes on after EINTR.
Pending ==
    /\ assigned \in BOOLEAN
    /\ pc \in {"select", "read"} =>
        /\ frame = None
        /\ IF assigned THEN len < 0 ELSE len \in Garbage

LEMMA NextReturn ==
    TypeOK /\ Pending /\ ReturnIsReal /\ [CallerNext]_callerVars => Pending' /\ ReturnIsReal'
<1> SUFFICES ASSUME TypeOK, Pending, ReturnIsReal, [CallerNext]_callerVars
             PROVE  Pending' /\ ReturnIsReal'
  OBVIOUS
<1> USE DEF Pending, ReturnIsReal
<1>1. CASE Call /\ assigned' = (pc' = "returned")
  <2>1. CASE pc' = "returned"
    <3>1. assigned' = TRUE
      BY <1>1, <2>1, Zenon
    <3>2. len' = 0 /\ timeout' = 0 /\ frame' = 0
      BY <1>1, <2>1 DEF Call, None
    <3> QED
      BY <2>1, <3>1, <3>2
  <2>2. CASE pc' # "returned"
    <3>1. assigned' = FALSE
      BY <1>1, <2>2, Zenon
    <3>2. pc' \in {"exit", "select"} /\ frame' = None /\ (pc' = "select" => len' \in Garbage)
      BY <1>1, <2>2 DEF Call
    <3> QED
      BY <3>1, <3>2
  <2> QED
    BY <2>1, <2>2
<1>2. CASE Expired /\ assigned' = TRUE
  <2>1. pc = "select" /\ pc' = "returned" /\ len' = 0 /\ timeout' = 0 /\ frame' = frame
    BY <1>2 DEF Expired, GivesUp
  <2> QED
    BY <1>2, <2>1 DEF None
<1>3. CASE ReadFrame /\ assigned' = TRUE
  <2>1. pc' = "returned" /\ len' \in Lengths /\ frame' = len'
    BY <1>3 DEF ReadFrame
  <2> QED
    BY <1>3, <2>1, OutcomeAssumption
<1>4. CASE ReadInterrupted /\ assigned' = TRUE
  <2>1. pc = "read" /\ pc' = "select" /\ len' = -1 /\ frame' = frame
    BY <1>4 DEF ReadInterrupted
  <2> QED
    BY <1>4, <2>1
<1>5. CASE Close /\ UNCHANGED assigned
  BY <1>5 DEF Close, Junk
<1>6. CASE Ready /\ UNCHANGED assigned
  BY <1>6 DEF Ready
<1>7. CASE Interrupted /\ UNCHANGED assigned
  <2>1. /\ pc = "select" /\ Signals /\ UNCHANGED <<len, frame>>
        /\ pc' = IF len < 0 THEN "select" ELSE "returned"
    BY <1>7 DEF Interrupted
  <2>2. CASE len < 0
    BY <1>7, <2>1, <2>2
  <2>3. CASE ~(len < 0)
    <3>1. pc' = "returned" /\ ~assigned /\ ~assigned' /\ frame' = None
      BY <1>7, <2>1, <2>3
    <3>2. len' \in Garbage /\ len' >= 0 /\ Signals
      BY <2>1, <2>3, <3>1 DEF TypeOK
    <3>3. len' \in Junk
      BY <3>2 DEF Junk
    <3> QED
      BY <3>1, <3>3, <1>7 DEF Junk
  <2> QED
    BY <2>2, <2>3
<1>8. CASE (SelectFails \/ ReadFails) /\ UNCHANGED assigned
  BY <1>8 DEF SelectFails, ReadFails
<1>9. CASE UNCHANGED callerVars
  BY <1>9 DEF callerVars, vars, Junk
<1> QED
  BY <1>1, <1>2, <1>3, <1>4, <1>5, <1>6, <1>7, <1>8, <1>9 DEF CallerNext

LEMMA CallerSteps == CallerNext => Next /\ Look
  BY DEF CallerNext, Next, Loop

\* A call reports what happened in it, and only a signal in its first pselect
\* makes it report something else, whatever len holds by chance; late wake-ups
\* do no harm here.
THEOREM ReturnsWhatHappened == CallerSpec => []ReturnIsReal
<1>1. CallerInit => TypeOK /\ Pending /\ ReturnIsReal
  BY InitTypeOK DEF CallerInit, Init, Pending, ReturnIsReal
<1>2. TypeOK /\ Pending /\ ReturnIsReal /\ [CallerNext]_callerVars
        => (TypeOK /\ Pending /\ ReturnIsReal)'
  <2>1. [CallerNext]_callerVars => [Next]_vars
    BY CallerSteps DEF callerVars
  <2> QED
    BY <2>1, NextTypeOK, NextReturn
<1> QED
  BY <1>1, <1>2, PTL DEF CallerSpec

-----------------------------------------------------------------------------
(* RawRead implements TimedRead.  A step of TimedRead is a whole call, so  *)
(* the invariant carries what the caller put in through the steps of the   *)
(* call: SeenInCall relates what is left to the *timeout that was seen     *)
(* before the call.                                                        *)

SeenType == seen \in [timeout : 0..(Modulus - 1), result : Int]

\* Between calls the caller has seen what there is; the end is final.
SeenBetween ==
    /\ pc \in {"idle", "returned"} => seen.timeout = timeout
    /\ pc = "returned" => seen.result = len
    /\ pc # "exit" => seen.result # T!Exited

\* In a call there was time to begin with, and a wait costs some of it.
SeenInCall ==
    /\ pc \in {"select", "read"} => seen.timeout > 0
    /\ late = 0 /\ pc = "select" => /\ time <= seen.timeout * TicksPerMs
                                    /\ timeout <= seen.timeout
    /\ late = 0 /\ pc = "read" => /\ time < seen.timeout * TicksPerMs
                                  /\ timeout < seen.timeout

CallerInv ==
    /\ BudgetInv /\ Pending /\ ReturnIsReal
    /\ SeenType /\ SeenBetween /\ SeenInCall

LEMMA Looks ==
    ASSUME Look
    PROVE  /\ pc' \in {"idle", "select", "read"} => seen' = seen
           /\ pc' = "returned" => seen' = [timeout |-> timeout', result |-> len']
           /\ pc' = "exit" => seen' = [timeout |-> timeout', result |-> T!Exited]
  BY DEF Look

\* A wait in time costs the caller at least a millisecond of what it had.
LEMMA WaitCosts ==
    ASSUME MinWait > 0, CallerInv, pc = "select",
           NEW ticks \in MinWait..(time + Late), Pass(ticks), late' = 0
    PROVE  time' < seen.timeout * TicksPerMs /\ timeout' < seen.timeout
<1> DEFINE had == seen.timeout * TicksPerMs
<1> USE DEF CallerInv, BudgetInv
<1>0. TimeAssumption
  BY TimeAssumption
<1>1. ticks \in Nat /\ ticks > 0 /\ ticks <= time + Late
  BY <1>0 DEF TypeOK
<1>2. seen.timeout \in Nat
  BY DEF SeenType
<1>3. had \in Int
  BY <1>0, <1>2, TimesInt
<1>4. /\ late = 0 /\ time' \in Nat /\ time' < time
      /\ timeout' * TicksPerMs <= time'
  BY <1>1, OnTime, PassKeepsBudget DEF Pass, TypeOK
<1>5. time <= had /\ time \in Int
  BY <1>4 DEF SeenInCall, TypeOK
<1>6. time' < had
  <2> HIDE DEF had
  <2> QED
    BY <1>3, <1>4, <1>5
<1>7. timeout' \in Int
  BY <1>1, PassTypes
<1>8. timeout' < seen.timeout
  BY <1>2, <1>4, <1>6, <1>7, LeftBelow
<1> QED
  BY <1>6, <1>8

LEMMA InitCaller == CallerInit => CallerInv
<1> SUFFICES ASSUME CallerInit PROVE CallerInv
  OBVIOUS
<1>1. BudgetInv /\ Pending /\ ReturnIsReal
  BY InitBudget DEF CallerInit, Init, Pending, ReturnIsReal
<1>2. SeenType /\ SeenBetween /\ SeenInCall
  BY TimeAssumption DEF CallerInit, Init, SeenType, SeenBetween, SeenInCall,
     T!NoCall, T!Exited
<1> QED
  BY <1>1, <1>2 DEF CallerInv

LEMMA NextSeen ==
    ASSUME MinWait > 0, CallerInv, CallerNext,
           BudgetInv', Pending', ReturnIsReal'
    PROVE  SeenType' /\ SeenBetween' /\ SeenInCall'
<1> USE DEF CallerInv, BudgetInv, T!Exited
<1>0. TimeAssumption
  BY TimeAssumption
<1>1. /\ pc' \in {"idle", "select", "read"} => seen' = seen
      /\ pc' = "returned" => seen' = [timeout |-> timeout', result |-> len']
      /\ pc' = "exit" => seen' = [timeout |-> timeout', result |-> T!Exited]
  BY Looks DEF CallerNext
<1>2. pc' \in {"idle", "select", "read", "returned", "exit"}
  BY DEF TypeOK
<1>3. SeenType'
  BY <1>1, <1>2 DEF TypeOK, SeenType
<1>4. late' = 0 => late = 0
  BY LateStays, CallerSteps
<1>5. pc' = "returned" => len' # T!Exited
  BY OutcomeAssumption DEF ReturnIsReal, TypeOK, None, Junk
<1>6. SeenBetween' /\ SeenInCall'
  <2>1. CASE Close
    BY <1>1, <1>4, <2>1 DEF Close, SeenBetween, SeenInCall
  <2>2. CASE Call
    <3>1. pc' \in {"exit", "returned", "select"} /\ timeout' = timeout /\ late' = late
      BY <2>2 DEF Call
    <3>2. pc' = "select" => timeout > 0 /\ time' = timeout * TicksPerMs
      BY <2>2 DEF Call
    <3>3. seen.timeout = timeout /\ seen.timeout \in Nat /\ seen.result # T!Exited
      BY <2>2 DEF Call, SeenBetween, SeenType
    <3>4. timeout * TicksPerMs \in Int
      BY <1>0, <3>3, TimesInt
    <3>5. SeenBetween'
      BY <1>1, <1>5, <3>1, <3>3 DEF SeenBetween
    <3>6. SeenInCall'
      BY <1>1, <3>1, <3>2, <3>3, <3>4 DEF SeenInCall
    <3> QED
      BY <3>5, <3>6
  <2>3. CASE Ready
    <3>1. PICK ticks \in MinWait..(time + Late) : Pass(ticks)
      BY <2>3 DEF Ready
    <3>2. pc = "select" /\ pc' = "read" /\ seen' = seen
      BY <1>1, <2>3 DEF Ready
    <3>3. late' = 0 => time' < seen.timeout * TicksPerMs /\ timeout' < seen.timeout
      BY <3>1, <3>2, WaitCosts
    <3> QED
      BY <3>2, <3>3 DEF SeenBetween, SeenInCall
  <2>4. CASE Expired
    BY <1>1, <1>5, <2>4 DEF Expired, GivesUp, SeenBetween, SeenInCall
  <2>5. CASE Interrupted
    <3>1. PICK ticks \in MinWait..(time + Late) : Pass(ticks)
      BY <2>5 DEF Interrupted
    <3>2. pc = "select" /\ pc' \in {"select", "returned"} /\ seen.timeout > 0
      BY <2>5 DEF Interrupted, SeenInCall
    <3>3. late' = 0 => time' < seen.timeout * TicksPerMs /\ timeout' < seen.timeout
      BY <3>1, <3>2, WaitCosts
    <3>6. seen.timeout \in Int /\ timeout' \in Int
      BY DEF SeenType, TypeOK
    <3>4. seen.timeout * TicksPerMs \in Int /\ time' \in Int
      BY <1>0, TimesInt DEF SeenType, TypeOK
    <3>5. late' = 0 => time' <= seen.timeout * TicksPerMs
      BY <3>3, <3>4
    <3>7. CASE pc' = "select"
      BY <1>1, <3>2, <3>3, <3>5, <3>6, <3>7 DEF SeenBetween, SeenInCall
    <3>8. CASE pc' = "returned"
      BY <1>1, <1>5, <3>8 DEF SeenBetween, SeenInCall
    <3> QED
      BY <3>2, <3>7, <3>8
  <2>6. CASE SelectFails
    BY <1>1, <2>6 DEF SelectFails, SeenBetween, SeenInCall
  <2>7. CASE ReadFrame
    BY <1>1, <1>5, <2>7 DEF ReadFrame, SeenBetween, SeenInCall
  <2>8. CASE ReadInterrupted
    <3>1. pc = "read" /\ pc' = "select" /\ seen' = seen /\ UNCHANGED <<time, timeout, late>>
      BY <1>1, <2>8 DEF ReadInterrupted
    <3>4. seen.timeout \in Int /\ timeout \in Int
      BY DEF SeenType, TypeOK
    <3>2. seen.timeout * TicksPerMs \in Int /\ time \in Int
      BY <1>0, TimesInt DEF SeenType, TypeOK
    <3>3. late = 0 => time <= seen.timeout * TicksPerMs
      BY <3>1, <3>2 DEF SeenInCall
    <3> QED
      BY <3>1, <3>3, <3>4 DEF SeenBetween, SeenInCall
  <2>9. CASE ReadFails
    BY <1>1, <2>9 DEF ReadFails, SeenBetween, SeenInCall
  <2> QED
    BY <2>1, <2>2, <2>3, <2>4, <2>5, <2>6, <2>7, <2>8, <2>9 DEF CallerNext, Next, Loop
<1> QED
  BY <1>3, <1>6

LEMMA NextCaller ==
    ASSUME MinWait > 0
    PROVE  CallerInv /\ [CallerNext]_callerVars => CallerInv'
<1> SUFFICES ASSUME CallerInv, [CallerNext]_callerVars PROVE CallerInv'
  OBVIOUS
<1>1. [Next]_vars
  BY CallerSteps DEF callerVars
<1>2. BudgetInv' /\ Pending' /\ ReturnIsReal'
  BY <1>1, NextBudget, NextReturn DEF CallerInv, BudgetInv
<1>3. CASE CallerNext
  BY <1>2, <1>3, NextSeen DEF CallerInv
<1>4. CASE UNCHANGED callerVars
  BY <1>2, <1>4 DEF CallerInv, callerVars, vars, SeenType, SeenBetween, SeenInCall
<1> QED
  BY <1>3, <1>4

\* A call that ends has used up time, or the process was late.
LEMMA Cost ==
    ASSUME CallerInv, pc = "read"
    PROVE  timeout \in {t \in 0..(Modulus - 1) : late > 0 \/ t < seen.timeout}
  BY TimeAssumption DEF CallerInv, BudgetInv, TypeOK, SeenInCall

LEMMA StepImplements ==
    ASSUME MinWait > 0, CallerInv, CallerNext, CallerInv'
    PROVE  [T!Next]_(T!vars)
<1> USE DEF CallerInv, BudgetInv
<1>1. /\ pc' \in {"idle", "select", "read"} => seen' = seen
      /\ pc' = "returned" => seen' = [timeout |-> timeout', result |-> len']
      /\ pc' = "exit" => seen' = [timeout |-> timeout', result |-> T!Exited]
  BY Looks DEF CallerNext
<1>2. T!Delay
  <2>1. late > 0 => late' > 0
    <3>1. late \in Nat /\ late' \in Nat /\ (late' = 0 => late = 0)
      BY LateStays, CallerSteps, TimeAssumption DEF TypeOK
    <3> QED
      BY <3>1
  <2> DEFINE was == late > 0
             is == late' > 0
  <2>2. was \in BOOLEAN /\ is \in BOOLEAN /\ (was => is)
    BY <2>1
  <2>3. T!Delay <=> is \in {was, TRUE}
    BY DEF T!Delay
  <2> HIDE DEF was, is
  <2> QED
    BY <2>2, <2>3, Zenon
<1>3. pc # "exit"
  BY DEF CallerNext, Next, Loop, Close, Call, Ready, Expired, Interrupted, SelectFails,
     ReadFrame, ReadInterrupted, ReadFails
<1>4. seen.result # T!Exited
  BY <1>3 DEF SeenBetween
<1> SUFFICES \/ T!Frame \/ T!Interrupt \/ T!Silence \/ T!Exit
             \/ UNCHANGED <<seen.timeout, seen.result>>
  BY <1>2, <1>4 DEF T!Next
<1>5. CASE pc' \in {"idle", "select", "read"}
  BY <1>1, <1>5
<1>6. CASE Close
  <2>1. pc' \in {"idle", "returned"} /\ UNCHANGED <<pc, timeout, len>>
    BY <1>6 DEF Close
  <2> QED
    BY <1>1, <2>1 DEF SeenBetween, SeenType
<1>7. CASE Call
  <2>1. timeout' = timeout /\ seen.timeout = timeout
    BY <1>7 DEF Call, SeenBetween
  <2>2. CASE pc' = "exit"
    BY <1>1, <2>1, <2>2 DEF T!Exit, T!Exited
  <2>3. CASE pc' = "returned"
    BY <1>1, <1>7, <2>1, <2>3 DEF Call, T!Silence
  <2> QED
    BY <1>5, <1>7, <2>2, <2>3 DEF Call
<1>8. CASE Expired
  BY <1>1, <1>8 DEF Expired, GivesUp, T!Silence
<1>9. CASE Interrupted
  <2>1. CASE pc' = "select"
    BY <1>5, <2>1
  <2>2. CASE pc' = "returned"
    <3>1. PICK ticks \in MinWait..(time + Late) : Pass(ticks)
      BY <1>9 DEF Interrupted
    <3>2. pc = "select" /\ ~(len < 0) /\ len' = len /\ Signals
      BY <1>9, <2>2 DEF Interrupted
    <3>3. seen.timeout > 0 /\ len' \in Junk
      BY <3>2 DEF SeenInCall, Pending, Junk, TypeOK
    <3>4. late' = 0 => timeout' < seen.timeout
      BY <3>1, <3>2, WaitCosts
    <3>5. timeout' \in 0..(Modulus - 1) /\ late' \in Nat
      BY TimeAssumption DEF TypeOK
    <3>6. timeout' \in {t \in 0..(Modulus - 1) : late' > 0 \/ t < seen.timeout}
      BY <3>4, <3>5
    <3> QED
      BY <1>1, <2>2, <3>3, <3>6 DEF T!Interrupt, T!Left
  <2> QED
    BY <1>9, <2>1, <2>2 DEF Interrupted
<1>10. CASE SelectFails
  <2>1. pc = "select" /\ pc' = "exit" /\ UNCHANGED <<timeout, late>>
    BY <1>10 DEF SelectFails
  <2>2. timeout \in 0..(Modulus - 1) /\ late \in Nat /\ seen.timeout \in Nat
    BY TimeAssumption DEF TypeOK, SeenType
  <2>3. late = 0 => timeout <= seen.timeout
    BY <2>1 DEF SeenInCall
  <2>4. timeout \in {t \in 0..(Modulus - 1) : late > 0 \/ t < seen.timeout} \cup {seen.timeout}
    BY <2>2, <2>3
  <2> QED
    BY <1>1, <2>1, <2>4 DEF T!Exit, T!Left, T!Exited
<1>11. CASE ReadFrame
  <2>1. /\ pc = "read" /\ pc' = "returned" /\ len' \in Lengths
        /\ UNCHANGED <<timeout, late>>
    BY <1>11 DEF ReadFrame
  <2>2. seen.timeout > 0
    BY <2>1 DEF SeenInCall
  <2> QED
    BY <1>1, <2>1, <2>2, Cost DEF T!Frame, T!Left
<1>12. CASE ReadFails
  <2>1. pc = "read" /\ pc' = "exit" /\ UNCHANGED <<timeout, late>>
    BY <1>12 DEF ReadFails
  <2> QED
    BY <1>1, <2>1, Cost DEF T!Exit, T!Left, T!Exited
<1> QED
  BY <1>5, <1>6, <1>7, <1>8, <1>9, <1>10, <1>11, <1>12 DEF CallerNext, Next, Loop, Ready,
     ReadInterrupted

\* Whatever the clock, the signals and the system calls do within a call, its
\* caller sees a frame that costs a millisecond, or silence with nothing left,
\* or the end (raw.h:23-35), or what a signal in the first pselect made of it.
\* As before, some time passes in pselect.
THEOREM ImplementsTimedRead ==
    ASSUME MinWait > 0
    PROVE  CallerSpec => ReadIsTimedRead
<1>1. CallerInit => CallerInv /\ T!Init
  BY InitCaller DEF CallerInit, Init, T!Init
<1>2. CallerInv /\ [CallerNext]_callerVars => CallerInv'
  BY NextCaller
<1>3. CallerInv /\ CallerInv' /\ [CallerNext]_callerVars => [T!Next]_(T!vars)
  <2> SUFFICES ASSUME CallerInv, CallerInv', [CallerNext]_callerVars
               PROVE  [T!Next]_(T!vars)
    OBVIOUS
  <2>1. CASE CallerNext
    BY <2>1, StepImplements DEF CallerInv, BudgetInv
  <2>2. CASE UNCHANGED callerVars
    BY <2>2 DEF callerVars, vars, T!vars
  <2> QED
    BY <2>1, <2>2
<1> QED
  BY <1>1, <1>2, <1>3, PTL DEF CallerSpec, ReadIsTimedRead, T!Spec

-----------------------------------------------------------------------------
(* The end of a call.                                                      *)

Running == pc \in {"select", "read"}

\* What is left of the time, which may be negative once, and of a pass.
Rest == 2 * (time + Late) + (IF pc = "read" THEN 1 ELSE 0)

RestIsNatural == Running => Rest \in Nat

\* A call that goes on has less to go.
GetsOn == Running /\ Running' => Rest' < Rest

LEMMA RunStep ==
    ASSUME MinWait > 0, TypeOK, RestIsNatural, Next
    PROVE  RestIsNatural' /\ GetsOn
<1>1. /\ MinWait \in Nat /\ Late \in Nat /\ TicksPerMs \in Nat
      /\ time \in Int /\ timeout \in Nat
  BY TimeAssumption DEF TypeOK
<1>2. CASE Close \/ Expired \/ SelectFails \/ ReadFrame \/ ReadFails
  BY <1>2 DEF Close, Expired, SelectFails, ReadFrame, ReadFails, Running, RestIsNatural, GetsOn
<1>3. CASE Call
  <2>1. ~Running
    BY <1>3 DEF Call, Running
  <2>2. CASE pc' = "select"
    <3>1. time' = timeout * TicksPerMs
      BY <1>3, <2>2 DEF Call
    <3>2. timeout * TicksPerMs \in Nat
      BY <1>1
    <3>3. Rest' \in Nat
      BY <1>1, <2>2, <3>1, <3>2 DEF Rest
    <3> QED
      BY <2>1, <3>3 DEF RestIsNatural, GetsOn
  <2>3. CASE pc' # "select"
    <3>1. ~Running'
      BY <1>3, <2>3 DEF Call, Running
    <3> QED
      BY <3>1 DEF RestIsNatural, GetsOn
  <2> QED
    BY <2>2, <2>3
<1>4. CASE Ready \/ Interrupted
  <2>1. PICK ticks \in MinWait..(time + Late) : time' = time - ticks
    BY <1>4 DEF Ready, Interrupted, Pass
  <2>2. pc = "select" /\ ticks > 0 /\ ticks <= time + Late /\ ticks \in Int
    BY <1>1, <1>4, <2>1 DEF Ready, Interrupted
  <2>3. Rest' \in Nat /\ Rest' < Rest
    BY <1>1, <2>1, <2>2 DEF Rest
  <2> QED
    BY <2>3 DEF RestIsNatural, GetsOn
<1>5. CASE ReadInterrupted
  <2>1. pc = "read" /\ pc' = "select" /\ time' = time
    BY <1>5 DEF ReadInterrupted
  <2>2. Rest' = Rest - 1 /\ Rest \in Nat /\ time + Late \in Int
    BY <1>1, <2>1 DEF Rest, RestIsNatural, Running
  <2>3. Rest' \in Nat /\ Rest' < Rest
    BY <1>1, <2>1, <2>2 DEF Rest
  <2> QED
    BY <2>3 DEF RestIsNatural, GetsOn
<1> QED
  BY <1>2, <1>3, <1>4, <1>5 DEF Next, Loop

\* A call does not go on for ever, however often signals interrupt pselect and
\* read: whatever keeps it in its loop takes something of a number, as long as
\* some time passes in each pselect.
THEOREM CallsGetOn ==
    ASSUME MinWait > 0
    PROVE  Spec => []RestIsNatural /\ [][GetsOn]_vars
<1>1. Init => RestIsNatural
  BY DEF Init, RestIsNatural, Running
<1>2. TypeOK /\ RestIsNatural /\ [Next]_vars => RestIsNatural' /\ [GetsOn]_vars
  <2>1. ASSUME UNCHANGED vars, RestIsNatural PROVE RestIsNatural'
    BY <2>1 DEF vars, RestIsNatural, Rest, Running
  <2> QED
    BY <2>1, RunStep
<1> QED
  BY <1>1, <1>2, TypeCorrect, PTL DEF Spec
=============================================================================
