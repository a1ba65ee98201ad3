------------------------------- MODULE Trace6 ------------------------------
(***************************************************************************)
(* trace6 (assignment3/src/Assignment3.java): echo requests with a growing *)
(* hop limit, Attempts for each, and the reads that wait for an answer     *)
(* among everything else the host receives.                                *)
(*                                                                         *)
(* A read (GRNVS_RAW.read over grnvs_read) is a step of TimedRead, which   *)
(* RawRead implements.  The network is external: the routers and the       *)
(* destination answer a probe or do not, answers come in any order, as     *)
(* late as they like and perhaps twice, and Foreign frames come any time.  *)
(***************************************************************************)
EXTENDS Integers, Sequences, FiniteSets, Checksum

CONSTANTS
    Attempts,   \* args.attempts
    HopLimit,   \* args.hoplimit
    Timeout,    \* args.timeout, in milliseconds
    HopMod,     \* 256, the hop limit is a byte
    SeqMod,     \* 65536, the sequence number a char
    Modulus,    \* 2^32, the timeout is an unsigned int
    MayBeLate,  \* the process may get the processor too late
    Address,    \* the bytes of a host's address
    icmpEchoRequ, icmpEchoRep, icmpTimeEx, icmpDestUnreach, icmpID,
    Distances,  \* the hops at which the destination may be
    Foreign     \* frames that are no answers to a probe

VARIABLES
    at,             \* "open", "line", "probe", "wait", "closed" or "exit"
    hops,
    attempt,
    stopProbes,
    sequenceNumber,
    to,             \* what is left of the timeout
    ret,            \* what read returned
    late,           \* the process has got the processor too late
    distance,       \* the hop that is the destination
    output,         \* the results printed, see Result
    answers,        \* answers under way
    onTime          \* the destination's answers were echo replies that came
                    \* before the timeout of their attempt, and no other
                    \* trace's reply came

vars == <<at, hops, attempt, stopProbes, sequenceNumber, to, ret, late, distance, output,
          answers, onTime>>

FrameLengths == {48}  \* the length is not looked at

R == INSTANCE TimedRead WITH
       timeout <- to, result <- ret, Budget <- Timeout, Lengths <- FrameLengths,
       Junk <- {}

-----------------------------------------------------------------------------
(* Frames: the sender, the ICMPv6 message in it and its quirks, which are  *)
(* what else checkMessage may find: "class" (the first byte is not 0x60),  *)
(* "other" (not to this host), "udp" (another protocol), "extension" (an   *)
(* extension header in front) and "endless" (one whose length byte is -1   *)
(* in Java and that announces another one).                                *)

Bytes == 0..(Byte - 1)
Messages == {m \in Seq(Bytes) : Len(m) >= 8 /\ Len(m) < WordMod}
Frame ==
    [ src : DOMAIN Address, icmp : Messages,
      quirks : SUBSET {"class", "other", "udp", "extension", "endless"} ]

ASSUME ArgumentsAssumption ==
    /\ Attempts \in Nat /\ HopLimit \in Nat /\ Timeout \in Nat
    /\ HopMod \in Nat \ {0} /\ SeqMod \in 1..WordMod /\ Modulus \in Nat /\ Timeout < Modulus
    /\ MayBeLate \in BOOLEAN /\ Distances \subseteq Nat \ {0}
ASSUME TypesAssumption ==
    /\ {icmpEchoRequ, icmpEchoRep, icmpTimeEx, icmpDestUnreach, icmpID} \cup 0..4 \subseteq Bytes
    /\ icmpEchoRep \notin {icmpTimeEx, icmpDestUnreach} /\ icmpTimeEx # icmpDestUnreach
ASSUME AddressAssumption ==
    /\ {"me", "dst", "router"} \subseteq DOMAIN Address /\ "*" \notin DOMAIN Address
    /\ \A host \in DOMAIN Address :
         Address[host] \in Seq(Bytes) /\ Len(Address[host]) % 2 = 0

\* Addresses of a message to this host, and of a probe.
From(host) == Address[host] \o Address["me"]
Outbound == Address["me"] \o Address["dst"]

TypeOf(f) == f.icmp[1]
Code(f) == f.icmp[2]
Id(f) == <<f.icmp[5], f.icmp[6]>>
SeqOf(f) == Byte * f.icmp[7] + f.icmp[8]

ASSUME ForeignAssumption == Foreign \subseteq Frame

Intact(f) == Verifies(From(f.src), f.icmp)

\* A reply to another trace on this host: all of them have the same identifier.
OfTwin(f) ==
    /\ f \in Foreign /\ f.quirks = {} /\ Intact(f)
    /\ TypeOf(f) = icmpEchoRep /\ Id(f) = <<icmpID, 0>>

\* What the code compares the code with: no code is 0 and 1.
handleIcmpTimeEx(f) == ~(Code(f) # 0 \/ Code(f) # 1)
handleIcmpDestUnreach(f) == ~(Code(f) # 0 \/ Code(f) # 3 \/ Code(f) # 4)

\* Variant: the identifier is not looked at.
handleAnyEchoRep(f) == Code(f) = 0

\* The sequence number is not looked at.
handleIcmpEchoRep(f) == Code(f) = 0 /\ Id(f) = <<icmpID, 0>>

\* checkMessage gets to the extension headers.
IsForMe(f) == f.quirks \cap {"class", "other"} = {}

\* The walk over the extension headers stays where it is.
Spins(f) == IsForMe(f) /\ "endless" \in f.quirks

\* The length for the checksum counts from byte 40, the payload starts behind
\* the extension headers: GRNVS_RAW.checksum throws, and main exits.
Throws(f) == IsForMe(f) /\ f.quirks \cap {"udp", "extension"} = {"extension"}

\* The checksum is computed anew, with zeros in its place.
checkIcmpProperties(f) ==
    icmp6_checksum(From(f.src), [f.icmp EXCEPT ![3] = 0, ![4] = 0]) = <<f.icmp[3], f.icmp[4]>>

checkMessage(f) ==
    /\ IsForMe(f) /\ "udp" \notin f.quirks
    /\ checkIcmpProperties(f)
    /\ \/ TypeOf(f) = icmpTimeEx /\ handleIcmpTimeEx(f)
       \/ TypeOf(f) = icmpDestUnreach /\ handleIcmpDestUnreach(f)
       \/ TypeOf(f) = icmpEchoRep /\ handleIcmpEchoRep(f)

LastSeq == (sequenceNumber + SeqMod - 1) % SeqMod

Probing(cksum) ==
    <<icmpEchoRequ, 0, cksum[1], cksum[2], icmpID, 0, LastSeq \div Byte, LastSeq % Byte>>

\* Variant: the checksum is stored like the other numbers, in network order.
ProbeMessageSwapped ==
    LET cksum == icmp6_checksum(Outbound, Probing(<<0, 0>>)) IN Probing(<<cksum[2], cksum[1]>>)

\* The message of the probe that was sent last.
ProbeMessage == Probing(icmp6_checksum(Outbound, Probing(<<0, 0>>)))

\* What a probe may bring about, in an intact frame: the destination or the
\* host before it may also refuse.
AnswersTo(hopLimit, seq) ==
    LET answer(host, type, code, rest) ==
          [src |-> host, quirks |-> {},
           icmp |-> WithSum(From(host), <<type, code, 0, 0>> \o rest)]
        zeros == <<0, 0, 0, 0>>
    IN IF hopLimit < distance THEN {answer("router", icmpTimeEx, 0, zeros)}
       ELSE { answer("dst", icmpEchoRep, 0, <<icmpID, 0, seq \div Byte, seq % Byte>>),
              answer("dst", icmpDestUnreach, 4, zeros) }

-----------------------------------------------------------------------------
Init ==
    /\ at = "open"
    /\ hops = 1 /\ attempt = 1
    /\ stopProbes = FALSE /\ sequenceNumber = 0
    /\ to = Timeout /\ ret = R!NoCall /\ late = FALSE
    /\ distance \in Distances
    /\ output = <<>> /\ answers = {} /\ onTime = TRUE

\* main opens the socket; a wrong address or interface ends it.
Open ==
    /\ at = "open"
    /\ at' \in {"line", "exit"}
    /\ UNCHANGED <<hops, attempt, stopProbes, sequenceNumber, to, ret, late, distance, output, answers, onTime>>

\* Variant: a hop is begun whatever the last one has found.
MoreHopsAnyway == hops <= HopLimit

\* Variant: one line too many.
MoreHopsPastLimit == ~stopProbes /\ hops <= HopLimit + 1

MoreHops == ~stopProbes /\ hops <= HopLimit

\* while (!stopProbes && hops <= hopLimit), and for (attempt = 1; ...).
StartLine ==
    /\ at = "line"
    /\ MoreHops
    /\ attempt' = 1
    /\ at' = IF Attempts > 0 THEN "probe" ELSE "line"
    /\ hops' = IF Attempts > 0 THEN hops ELSE hops + 1
    /\ UNCHANGED <<stopProbes, sequenceNumber, to, ret, late, distance, output, answers, onTime>>

Close ==
    /\ at = "line"
    /\ ~MoreHops
    /\ at' = "closed"
    /\ UNCHANGED <<hops, attempt, stopProbes, sequenceNumber, to, ret, late, distance, output, answers, onTime>>

Probe ==
    /\ at = "probe"
    /\ to' = Timeout /\ ret' = R!NoCall
    /\ sequenceNumber' = (sequenceNumber + 1) % SeqMod
    /\ \/ answers' = answers /\ onTime' = (onTime /\ hops % HopMod < distance)
       \/ \E f \in AnswersTo(hops % HopMod, sequenceNumber) :
            /\ answers' = answers \cup {f}
            /\ onTime' = (onTime /\ TypeOf(f) # icmpDestUnreach)
    /\ at' = "wait"
    /\ UNCHANGED <<hops, attempt, stopProbes, late, distance, output>>

\* What a handler prints: the host alone, the host with "!X", or the host of a
\* router.
Kind(f) ==
    CASE TypeOf(f) = icmpEchoRep -> "reply"
      [] TypeOf(f) = icmpDestUnreach -> "refused"
      [] OTHER -> "exceeded"

Result(host, seq, kind) ==
    [line |-> hops, host |-> host, kind |-> kind, seq |-> seq, of |-> LastSeq]

\* Variant: the next hop comes at once when the destination has answered.
FinishAttemptEarly(result, stop) ==
    /\ output' = Append(output, result)
    /\ stopProbes' = (stopProbes \/ stop)
    /\ attempt' = attempt + 1
    /\ at' = IF attempt < Attempts /\ ~stop THEN "probe" ELSE "line"
    /\ hops' = IF at' = "line" THEN hops + 1 ELSE hops

\* A result is printed, and the loops go on.
FinishAttempt(result, stop) ==
    /\ output' = Append(output, result)
    /\ stopProbes' = (stopProbes \/ stop)
    /\ attempt' = attempt + 1
    /\ at' = IF attempt < Attempts THEN "probe" ELSE "line"
    /\ hops' = IF at' = "line" THEN hops + 1 ELSE hops

\* Variant: the timeout is set before each read.
ReadTakesAnew == to' \in 0..(Timeout - 1) /\ ret' \in FrameLengths

\* A frame comes before the timeout, which it shortens.
ReadTakes == R!Frame

\* read: a frame.
Receive ==
    /\ at = "wait"
    /\ R!Delay /\ (late' => MayBeLate)
    /\ ReadTakes
    /\ \E f \in answers \cup Foreign :
         /\ answers' \in {answers, answers \ {f}}
         /\ onTime' = (onTime /\ ~OfTwin(f))
         /\ \/ /\ Spins(f) \/ Throws(f)
               /\ at' = IF Spins(f) THEN "spins" ELSE "exit"
               /\ UNCHANGED <<hops, attempt, stopProbes, output>>
            \/ /\ ~Spins(f) /\ ~Throws(f) /\ checkMessage(f)
               /\ FinishAttempt(Result(f.src, SeqOf(f), Kind(f)),
                                TypeOf(f) \in {icmpEchoRep, icmpDestUnreach})
            \/ /\ ~Spins(f) /\ ~Throws(f) /\ ~checkMessage(f)
               /\ UNCHANGED <<at, hops, attempt, stopProbes, output>>
    /\ UNCHANGED <<sequenceNumber, distance>>

\* read: 0.
TimesOut ==
    /\ at = "wait"
    /\ R!Delay /\ (late' => MayBeLate)
    /\ R!Silence
    /\ onTime' = (onTime /\ hops % HopMod < distance)
    /\ FinishAttempt(Result("*", LastSeq, "silence"), FALSE)
    /\ UNCHANGED <<sequenceNumber, distance, answers>>

\* grnvs_write and grnvs_read exit on an error of the system.
SocketFails ==
    /\ at \in {"probe", "wait"}
    /\ at' = "exit"
    /\ UNCHANGED <<hops, attempt, stopProbes, sequenceNumber, to, ret, late, distance, output, answers, onTime>>

Next == Open \/ StartLine \/ Close \/ Probe \/ Receive \/ TimesOut \/ SocketFails

Spec == Init /\ [][Next]_vars

\* One process that the system schedules; its reads wait at most the timeout.
FairSpec == Spec /\ WF_vars(Next)

-----------------------------------------------------------------------------
(* Properties.                                                             *)

Hosts == {k \in DOMAIN output : output[k].host # "*"}

\* A reply or a refusal: the destination is reached, or cannot be.
Ending == {k \in DOMAIN output : output[k].kind \in {"reply", "refused"}}
Lines == {output[k].line : k \in DOMAIN output}

\* Every variable stays in its range.
TypeOK ==
    /\ at \in {"open", "line", "probe", "wait", "closed", "exit", "spins"}
    /\ hops \in 1..(HopLimit + 1) /\ attempt \in 1..(Attempts + 1)
    /\ stopProbes \in BOOLEAN /\ sequenceNumber \in 0..(SeqMod - 1)
    /\ to \in 0..(Modulus - 1) /\ ret \in FrameLengths \cup {R!NoCall, 0}
    /\ late \in BOOLEAN /\ (late => MayBeLate) /\ distance \in Distances
    /\ output \in Seq([line : 1..HopLimit, host : DOMAIN Address \cup {"*"},
                       kind : {"reply", "refused", "exceeded", "silence"},
                       seq : 0..(WordMod - 1), of : 0..(SeqMod - 1)])
    /\ onTime \in BOOLEAN
    /\ \A f \in answers : f \in Frame

\* Whatever is read between them, each probe has one result, in the order of
\* the probes and in the line of its hop, and each line that was finished has
\* Attempts of them (test.log:14: "stops after correct tries"), also when the
\* sequence numbers start over.
OneResultPerProbe ==
    /\ \A k \in DOMAIN output :
         /\ output[k].of = (k - 1) % SeqMod
         /\ output[k].line = ((k - 1) \div Attempts) + 1
    /\ at = "closed" => Len(output) = Attempts * Cardinality(Lines)

\* The trace stops with the line of the first reply or refusal that is printed
\* (test.log:26-27: "does not hop after reply"), and a trace that is over before
\* the hop limit has printed one.
StopsAtReply ==
    /\ \A k \in Ending : output[k].line = output[Len(output)].line
    /\ at = "closed" => hops > HopLimit \/ Ending # {}

\* Frames of others, duplicates and late answers do not change the result, as
\* long as no other trace runs on the host: when the replies of the destination
\* come in time, the trace ends with the line of the destination and names it
\* in each attempt, and a line before has routers or nobody.  Whether it names
\* the routers is the question of NamesRouters.  A destination that is further
\* away than a byte can count is never found.
FindsDestination ==
    at = "closed" /\ onTime /\ Attempts > 0 =>
        IF distance > HopLimit \/ distance >= HopMod THEN Ending = {}
        ELSE /\ Lines = 1..distance
             /\ \A k \in DOMAIN output :
                  output[k].host \in IF output[k].line = distance THEN {"dst"}
                                     ELSE {"router", "*"}

\* An intact time exceeded message that is read gives the result of its probe
\* (test.log:16: "Testee prints exceeded correctly").  What is read for the
\* first probe answers no other.
NamesRouters ==
    [][ \A f \in answers \ answers' :
          TypeOf(f) = icmpTimeEx /\ output = <<>> => output' # output ]_vars

\* A probe passes the check at its destination.
ProbesVerify == at = "wait" => Verifies(Outbound, ProbeMessage)

\* The checksum is the other way to write 0, which no sum gives.
AllOnes(f) == f.icmp[3] = Byte - 1 /\ f.icmp[4] = Byte - 1

\* What another host sends, of any length, passes the check of trace6 just if
\* it is intact and its checksum is not all ones; and no answer that was changed
\* in one byte under way does.
OnlyIntactPass ==
    /\ \A f \in answers \cup Foreign : checkIcmpProperties(f) <=> Intact(f) /\ ~AllOnes(f)
    /\ \A f \in answers : ~AllOnes(f)
    /\ \A f \in answers : \A k \in DOMAIN f.icmp, b \in 0..(Byte - 1) :
         b # f.icmp[k] => ~checkIcmpProperties([f EXCEPT !.icmp[k] = b])

\* A trace comes to its end, also when frames keep coming: each shortens the
\* timeout of the attempt.  That may be undone once the process is late, and an
\* endless extension header keeps it for ever.
Ends == <>(at \in {"closed", "exit"} \/ late \/ at = "spins")

\* A host is printed for the probe it answered (test.log:42: "tests the echo
\* reply sequence field").
AnswersThisProbe == \A k \in Hosts : output[k].seq = output[k].of
=============================================================================
