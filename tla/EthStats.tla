----------------------------- MODULE EthStats ------------------------------
(***************************************************************************)
(* ethstats (assignment2/src/assignment2.c): the receive loop, its list of *)
(* counters per EtherType, and the summary.  Every frame comes out of      *)
(* grnvs_read, whose steps RawRead defines; all reads share one *timeout.  *)
(*                                                                         *)
(* A frame is what the loop looks at: its EtherType, whether its           *)
(* destination is the own address, a multicast address or another one, and *)
(* its length.  Parsing the arguments, opening the socket and printing the *)
(* rates are left out.                                                     *)
(***************************************************************************)
EXTENDS Integers, Sequences, FiniteSets, SequencesExt

CONSTANTS
    Frames,     \* the frames on the wire, see FramesAssumption
    Num,        \* the argument NUM
    CounterMod, \* 2^32, the range of the counters
    TicksPerMs, Budget, Modulus, MinWait, Late, Signals, Garbage

ASSUME FramesAssumption ==
    /\ \A f \in Frames : /\ DOMAIN f = {"type", "dst", "len"}
                         /\ f.dst \in {"me", "multicast", "other"}
                         /\ f.type \in Nat /\ f.len \in 1..(CounterMod - 1)
    /\ Num \in Nat /\ CounterMod \in Nat \ {0}

\* As in RawRead; what an interrupted read leaves behind is its business.
ASSUME ReadAssumption ==
    /\ TicksPerMs \in Nat \ {0} /\ MinWait \in Nat /\ Late \in Nat
    /\ Modulus \in Nat /\ Budget \in Nat /\ Budget < Modulus
    /\ Signals \in BOOLEAN /\ Garbage \subseteq Int /\ Garbage # {}
ASSUME InterruptAssumption == \A g \in Garbage : g < 0

VARIABLES
    ifindex, pc, timeout, time, len, frame, elapsed, late, frames, calls, \* of RawRead
    at,              \* "loop", "read", "print", "close" or "closed"
    infoList,        \* the counters, in the order in which types came up
    myFrames,
    multiCastFrames,
    totalByte,
    printed,         \* the lines of the summary, in order
    received         \* every frame that was received

rawVars == <<ifindex, pc, timeout, time, len, frame, elapsed, late, frames, calls>>
counters == <<infoList, myFrames, multiCastFrames, totalByte>>
vars == <<rawVars, at, counters, printed, received>>

R == INSTANCE RawRead WITH Lengths <- {f.len : f \in Frames}, MaxCalls <- Num

-----------------------------------------------------------------------------
(* The list of counters.                                                   *)

newInfo(type, bytes) == [ethType |-> type, frameCounter |-> 1, byteCounter |-> bytes]

\* 0 for NULL.
getInfoByType(type, list) ==
    LET found == {k \in DOMAIN list : list[k].ethType = type}
    IN IF found = {} THEN 0 ELSE Min(found)

insertInfo(new, list) == Append(list, new)

\* Variant: what follows the removed entry is lost.
removeCutsOff(type, list) ==
    LET k == getInfoByType(type, list)
    IN IF k = 0 THEN list ELSE SubSeq(list, 1, k - 1)

removeByType(type, list) ==
    LET k == getInfoByType(type, list)
    IN IF k = 0 THEN list ELSE RemoveAt(list, k)

\* Variant: every entry is compared with the first one.
minOfHead(list) ==
    LET smaller == {k \in DOMAIN list : list[k].ethType < list[1].ethType}
    IN IF smaller = {} THEN 1 ELSE Max(smaller)

min(list) ==
    CHOOSE k \in DOMAIN list : \A j \in DOMAIN list : list[k].ethType <= list[j].ethType

macsEqual(f) == f.dst = "me"

\* Variant: the own address counts as well.
isForUs(f) == f.dst # "other"

isMulticast(f) == f.dst = "multicast"

\* += on a counter.
Plus(counter, n) == (counter + n) % CounterMod

\* The list after a frame.
Counted(f, list) ==
    LET k == getInfoByType(f.type, list)
    IN IF k = 0 THEN insertInfo(newInfo(f.type, f.len), list)
       ELSE [list EXCEPT ![k].frameCounter = Plus(@, 1), ![k].byteCounter = Plus(@, f.len)]

-----------------------------------------------------------------------------
Init ==
    /\ R!Init
    /\ at = "loop"
    /\ infoList = <<>> /\ myFrames = 0 /\ multiCastFrames = 0 /\ totalByte = 0
    /\ printed = <<>> /\ received = <<>>

\* The head of the loop: i is the number of calls.
NextRead ==
    /\ at = "loop"
    /\ R!Call
    /\ at' = "read"
    /\ UNCHANGED <<counters, printed, received>>

LoopEnds ==
    /\ at = "loop"
    /\ calls >= Num
    /\ at' = "print"
    /\ UNCHANGED <<rawVars, counters, printed, received>>

\* grnvs_read is running.
Reading ==
    /\ at = "read"
    /\ R!Loop
    /\ UNCHANGED <<at, counters, printed, received>>

\* Variant: the loop goes on waiting.
TimedOutIgnored ==
    /\ at = "read" /\ pc = "returned" /\ len = 0
    /\ UNCHANGED vars

\* ret == 0: break.
TimedOut ==
    /\ at = "read" /\ pc = "returned" /\ len = 0
    /\ at' = "print"
    /\ UNCHANGED <<rawVars, counters, printed, received>>

\* The body of the loop, for a frame of the length that was returned.
CountFrame ==
    /\ at = "read" /\ pc = "returned" /\ len > 0
    /\ \E f \in Frames :
         /\ f.len = len
         /\ infoList' = Counted(f, infoList)
         /\ myFrames' = IF macsEqual(f) THEN Plus(myFrames, 1) ELSE myFrames
         /\ multiCastFrames' =
              IF isMulticast(f) THEN Plus(multiCastFrames, 1) ELSE multiCastFrames
         /\ totalByte' = Plus(totalByte, f.len)
         /\ received' = Append(received, f)
    /\ at' = "loop"
    /\ UNCHANGED <<rawVars, printed>>

\* One line of the summary.
PrintMin ==
    /\ at = "print"
    /\ infoList # <<>>
    /\ LET least == infoList[min(infoList)]
       IN /\ printed' = Append(printed, least)
          /\ infoList' = removeByType(least.ethType, infoList)
    /\ UNCHANGED <<rawVars, at, myFrames, multiCastFrames, totalByte, received>>

\* The other lines.
PrintRest ==
    /\ at = "print"
    /\ infoList = <<>>
    /\ at' = "close"
    /\ UNCHANGED <<rawVars, counters, printed, received>>

\* main closes the socket.
Finish ==
    /\ at = "close"
    /\ R!Close
    /\ at' = "closed"
    /\ UNCHANGED <<counters, printed, received>>

Next ==
    \/ NextRead \/ LoopEnds \/ Reading \/ TimedOut
    \/ CountFrame \/ PrintMin \/ PrintRest \/ Finish

Spec == Init /\ [][Next]_vars
FairSpec == Spec /\ WF_vars(Next)

-----------------------------------------------------------------------------
(* Properties.                                                             *)

Sum(f, S) == FoldSet(LAMBDA k, sum : sum + f[k], 0, S)
Of(type) == {k \in DOMAIN received : received[k].type = type}
Bytes(K) == Sum([k \in DOMAIN received |-> received[k].len], K)
Types == {received[k].type : k \in DOMAIN received}

\* At any time, in the list or already printed, every EtherType that was seen
\* has one entry, with the number and the bytes of its frames (up to the range
\* of the counters), whatever order they came in.
CountsAgree ==
    LET infos == printed \o infoList
    IN /\ {infos[k].ethType : k \in DOMAIN infos} = Types
       /\ Len(infos) = Cardinality(Types)
       /\ \A k \in DOMAIN infos :
            /\ infos[k].frameCounter = Cardinality(Of(infos[k].ethType)) % CounterMod
            /\ infos[k].byteCounter = Bytes(Of(infos[k].ethType)) % CounterMod

\* The summary lists the types in ascending order.
Ascending ==
    \A j, k \in DOMAIN printed : j < k => printed[j].ethType < printed[k].ethType

\* The totals agree with the lines above them.
TotalsAgree ==
    at = "closed" =>
        /\ totalByte =
             Sum([k \in DOMAIN printed |-> printed[k].byteCounter], DOMAIN printed) % CounterMod
        /\ (myFrames + multiCastFrames) % CounterMod =
              Cardinality({k \in DOMAIN received : received[k].dst # "other"}) % CounterMod

\* A summary is printed in the end, also when nothing is ever received, unless
\* grnvs_read gives up on an error.
Ends == <>(at = "closed" \/ pc = "exit")
=============================================================================
