-------------------------- MODULE NetstringReader --------------------------
(***************************************************************************)
(* recvMessage and readNet (assignment4/src/assignment4.c:119-205), byte   *)
(* by byte: how asciiclient cuts what the reads return into netstrings,    *)
(* and how it completes a netstring of which only a part arrived.          *)
(*                                                                         *)
(* recvMessage reads into buf, and readNet works in the same buf: it       *)
(* appends to it (strcat), writes the payload over its beginning (strncpy) *)
(* and returns a pointer behind the netstring, from where recvMessage      *)
(* moves the rest to the front (strcpy).  So buf is modelled as memory: a  *)
(* sequence of bytes in which a string ends at the first Nul and what is   *)
(* behind it stays there.  Copies go forward, as strcpy and strncpy do in  *)
(* practice when source and destination overlap.                           *)
(*                                                                         *)
(* The peer is external: it sends one of Streams, and TCP delivers it in   *)
(* pieces of any size.                                                     *)
(***************************************************************************)
EXTENDS NetstringWriter, FiniteSets

CONSTANTS
    Bytes,      \* what a byte may be
    Streams,    \* what the peer may send, see StreamsAssumption
    BufSize,    \* BUFSIZE
    MayClose,   \* the peer may close the connection behind the last byte
    Fds         \* the connections it may be: only reads on "sdD" time out

\* strchr, counted from 1; 0 for none.
StrChr(s, c) == SelectInSeq(s, LAMBDA b : b = c)

\* What a run of digits says.
Value(s) == FoldLeft(LAMBDA acc, b : 10 * acc + StrChr(Digits, b) - 1, 0, s)

\* atol: the digits up to the first byte that is none.
Atol(s) ==
    LET num == CHOOSE n \in 0..Len(s) :
                 /\ \A i \in 1..n : s[i] \in ToSet(Digits)
                 /\ n < Len(s) => s[n + 1] \notin ToSet(Digits)
    IN Value(SubSeq(s, 1, num))

\* The length without leading zeros, the payload and the comma.
Netstring(bytes, payload) ==
    \E n \in 1..Len(bytes) :
        /\ bytes = SubSeq(bytes, 1, n) \o <<":">> \o payload \o <<Comma>>
        /\ ToSet(SubSeq(bytes, 1, n)) \subseteq ToSet(Digits) /\ bytes[1] # "0"
        /\ Atol(bytes) = Len(payload)

\* What the client can tell from the start of a netstring.
Malformed(bytes) ==
    \/ bytes = <<>>
    \/ bytes[1] = "0"
    \/ 0 \in {StrChr(bytes, ":"), StrChr(bytes, Comma)}
    \/ StrChr(bytes, Comma) < StrChr(bytes, ":")

\* A stream is a number of netstrings and perhaps something malformed behind
\* them: its bytes, the payloads, and where the netstrings end.  An empty
\* payload counts as malformed, as readNet refuses each length that begins
\* with 0.  A byte E at the start of a malformed netstring would lead readNet
\* into an undefined subtraction of pointers and is left out, and so is a 0 byte
\* that is not behind what writeNet refused.
ASSUME StreamsAssumption ==
    \A s \in Streams :
        /\ DOMAIN s = {"bytes", "payloads", "ends"}
        /\ s.bytes \in Seq(Bytes) /\ s.bytes # <<>> /\ "E" \notin ToSet(s.bytes)
        /\ Nul \in ToSet(s.bytes) => s.bytes[1] = "0"
        /\ s.payloads \in Seq(Seq(Bytes) \ {<<>>})
        /\ s.ends \in [0..Len(s.payloads) -> 0..Len(s.bytes)] /\ s.ends[0] = 0
        /\ \A i \in DOMAIN s.payloads :
             /\ s.ends[i - 1] < s.ends[i]
             /\ Netstring(SubSeq(s.bytes, s.ends[i - 1] + 1, s.ends[i]), s.payloads[i])
        /\ Malformed(SubSeq(s.bytes, s.ends[Len(s.payloads)] + 1, Len(s.bytes)))
ASSUME BytesAssumption == ToSet(Digits) \cup {":", Comma, Nul} \subseteq Bytes
ASSUME ConnectionAssumption == MayClose \in BOOLEAN /\ Fds \subseteq {"sdC", "sdD"}
ASSUME BufSizeAssumption == BufSize \in Nat \ {0}

VARIABLES
    fd,        \* the connection
    sent,      \* the peer's stream
    closed,    \* the peer has closed
    incoming,  \* the bytes of it that the client has not read
    pc,        \* "read", "next", "fill", "convert": in recvMessage;
               \* "returned"; "exit": refused; "crash": memory overrun
    buf,       \* buf of recvMessage, which is src and dest of readNet
    digits,    \* readNet's digits
    strLength, \* and strLength; both 0 outside of readNet
    frag,      \* the string in readNet's own buf, of the last fragment read
    respDst,   \* the strings stored for the caller
    nets,      \* the result of recvMessage
    got,       \* the payloads of the earlier calls
    cut,       \* some read ended inside a netstring
    patched    \* some netstring took more than one further read

vars == <<fd, sent, closed, incoming, pc, buf, digits, strLength, frag, respDst, nets, got, cut, patched>>

-----------------------------------------------------------------------------
(* Strings in memory.                                                      *)

Zeros == [i \in 1..BufSize |-> Nul]

\* The string that starts behind the first `from` bytes of memory.
StringAt(mem, from) ==
    LET ends == {i \in from..(Len(mem) - 1) : mem[i + 1] = Nul}
    IN SubSeq(mem, from + 1, IF ends = {} THEN Len(mem) ELSE Min(ends))

\* Memory with bytes written behind the first `at` ones.
Put(mem, at, bytes) ==
    SubSeq(mem, 1, at) \o bytes \o SubSeq(mem, at + Len(bytes) + 1, Len(mem))

-----------------------------------------------------------------------------
(* readNet's view of src.                                                  *)

src == StringAt(buf, 0)

\* The two checks of the format; the first can do without the comma.
FormatOnEntry ==
    /\ StrChr(src, ":") # 0
    /\ StrChr(src, Comma) # 0 => StrChr(src, ":") < StrChr(src, Comma)

\* Variant: the comma need not have arrived.
FormatNotChecked == StrChr(src, ":") # 0

FormatOnFull ==
    /\ StrChr(src, ":") # 0 /\ StrChr(src, Comma) # 0
    /\ StrChr(src, ":") < StrChr(src, Comma)

\* Variant: the next netstring starts at the terminator.
NextAtTerminator == digits + strLength + 1

\* Where readNet says the next netstring starts: that follows from the digits,
\* not from where the comma is.
next == digits + strLength + 2

Received == Len(sent.bytes) - Len(incoming)

\* n bytes leave the stream.
Take(n) ==
    /\ incoming' = SubSeq(incoming, n + 1, Len(incoming))
    /\ cut' = (cut \/ Received + n \notin Range(sent.ends))

\* Behind the end of the stream a read returns 0 at once.
AtEof == incoming = <<>> /\ closed
CanTimeOut == fd = "sdD" /\ ~AtEof

AtMost(limit) == 1..(IF limit < Len(incoming) THEN limit ELSE Len(incoming))

\* At most the first n bytes.
First(s, n) == SubSeq(s, 1, IF n < Len(s) THEN n ELSE Len(s))

\* Variant: both copies of a string count.
MessageLengthTwice(payloads) == FoldLeft(LAMBDA acc, p : acc + 2 * (Len(p) + 1), 0, payloads)

MessageLength(payloads) == FoldLeft(LAMBDA acc, p : acc + Len(p) + 1, 0, payloads)

-----------------------------------------------------------------------------
Init ==
    /\ fd \in Fds
    /\ sent \in Streams
    /\ closed = FALSE
    /\ incoming = sent.bytes
    /\ pc = "read"
    /\ buf = Zeros /\ digits = 0 /\ strLength = 0 /\ frag = <<>>
    /\ respDst = <<>> /\ nets = 0
    /\ got = <<>> /\ cut = FALSE /\ patched = FALSE

\* ret = read(fd, buf, BUFSIZE) returned bytes.  If they fill buf, its string
\* goes on in whatever memory is behind it.
FirstRead ==
    /\ pc = "read"
    /\ \E n \in AtMost(BufSize) :
         /\ Take(n)
         /\ buf' = Put(Zeros, 0, SubSeq(incoming, 1, n))
         /\ pc' \in {"next"} \cup (IF n = BufSize THEN {"crash"} ELSE {})
    /\ UNCHANGED <<fd, sent, closed, frag, respDst, nets, got, patched, digits, strLength>>

\* It returned 0, and the loop finds an empty buf, or -1.
FirstReadFails ==
    /\ pc = "read"
    /\ \/ AtEof /\ nets' = 0
       \/ CanTimeOut /\ nets' = -1
    /\ pc' = "returned"
    /\ UNCHANGED <<fd, sent, closed, incoming, buf, frag, respDst, got, cut, patched, digits, strLength>>

\* while (*next != 0): the checks at the head of readNet, each of which ends
\* the client (checkMessage).
NextNetstring ==
    /\ pc = "next"
    /\ pc' = IF src = <<>> THEN "returned"
             ELSE IF ~FormatOnEntry \/ Head(src) = "0" THEN "exit" ELSE "fill"
    /\ digits' = IF pc' = "fill" THEN StrChr(src, ":") - 1 ELSE 0
    /\ strLength' = Atol(SubSeq(src, 1, digits'))
    /\ frag' = <<>>
    /\ UNCHANGED <<fd, sent, closed, incoming, buf, respDst, nets, got, cut, patched>>

\* The loop over the fragments ends; the digits and the ':' count for it.
FillEnds ==
    /\ pc = "fill"
    /\ strLength <= Len(src)
    /\ pc' = "convert"
    /\ UNCHANGED <<fd, sent, closed, incoming, buf, frag, respDst, nets, got, cut, patched, digits, strLength>>

\* strcat(src, buf), past the end of which there is other memory.
Append2Src(fragment) ==
    IF Len(src) + Len(fragment) < BufSize
    THEN /\ buf' = Put(buf, Len(src), Append(fragment, Nul))
         /\ UNCHANGED pc
    ELSE /\ pc' = "crash"
         /\ UNCHANGED buf

\* A fragment is read over the one before, whose end stays when it is longer.
FillRead ==
    /\ pc = "fill"
    /\ strLength > Len(src)
    /\ \E n \in AtMost(strLength - Len(frag)) :
         /\ Take(n)
         /\ frag' = SubSeq(incoming, 1, n) \o SubSeq(frag, n + 1, Len(frag))
    /\ Append2Src(frag')
    /\ patched' = (patched \/ frag # <<>>)
    /\ UNCHANGED <<fd, sent, closed, respDst, nets, got, digits, strLength>>

\* read returned 0, which the loop takes for a fragment: the last one is
\* appended again.  Without a last one this is a busy loop.
FillEof ==
    /\ pc = "fill"
    /\ strLength > Len(src)
    /\ AtEof
    /\ Append2Src(frag)
    /\ patched' = (patched \/ frag # <<>>)
    /\ UNCHANGED <<fd, sent, closed, incoming, frag, respDst, nets, got, cut, digits, strLength>>

\* Variant: the loop goes on after -1.
FillTimeoutRetries ==
    /\ pc = "fill"
    /\ strLength > Len(src)
    /\ CanTimeOut
    /\ UNCHANGED vars

\* read returned -1.
FillTimeout ==
    /\ pc = "fill"
    /\ strLength > Len(src)
    /\ CanTimeOut
    /\ pc' = "convert"
    /\ UNCHANGED <<fd, sent, closed, incoming, buf, frag, respDst, nets, got, cut, patched, digits, strLength>>

\* The format is wrong: the client says so and exits.
Refuse ==
    /\ pc = "convert"
    /\ ~FormatOnFull
    /\ pc' = "exit"
    /\ UNCHANGED <<fd, sent, closed, incoming, buf, frag, respDst, nets, got, cut, patched, digits, strLength>>

\* Variant: the last string is stored once.
StoredOnce(payload) == Append(SubSeq(respDst, 1, nets), payload)

\* sprintf, message_length += strlen(buf) + 1, sprintf.
Stored(payload) == SubSeq(respDst, 1, nets) \o <<payload, payload>>

\* What both copies of a payload, each with its 0 byte, fill of recvbuf.
Fills(payload) == MessageLength(SubSeq(respDst, 1, nets)) + 2 * (Len(payload) + 1)

\* The end of readNet and of the loop body of recvMessage.  A length that does
\* not fit makes readNet return -1 for a pointer; that there is room for two
\* copies in recvbuf is not looked at.
Convert ==
    /\ pc = "convert"
    /\ FormatOnFull
    /\ LET payload == First(StringAt(buf, digits + 1), strLength)
           padding == [i \in 1..(strLength + 1 - Len(payload)) |-> Nul]
       IN IF \/ strLength + MessageLength(SubSeq(respDst, 1, nets)) > BufSize
             \/ next >= BufSize
             \/ Fills(payload) > BufSize
          THEN /\ pc' = "crash"
               /\ UNCHANGED <<buf, respDst, nets>>
          ELSE /\ respDst' = Stored(payload)
               /\ nets' = nets + 1
               /\ buf' = Put(Put(buf, 0, payload \o padding), 0, Append(StringAt(buf, next), Nul))
               /\ pc' = "next"
    /\ digits' = 0 /\ strLength' = 0
    /\ UNCHANGED <<fd, sent, closed, incoming, frag, got, cut, patched>>

\* The caller took the strings and calls recvMessage again.
CallAgain ==
    /\ pc = "returned"
    /\ nets > 0
    /\ got' = got \o SubSeq(respDst, 1, nets)
    /\ respDst' = <<>> /\ nets' = 0
    /\ buf' = Zeros
    /\ pc' = "read"
    /\ UNCHANGED <<fd, sent, closed, incoming, frag, cut, patched, digits, strLength>>

\* External: the end of the connection arrives.
PeerCloses ==
    /\ MayClose /\ ~closed
    /\ closed' = TRUE
    /\ UNCHANGED <<fd, sent, incoming, pc, buf, frag, respDst, nets, got, cut, patched, digits, strLength>>

Step ==
    \/ FirstRead \/ FirstReadFails \/ NextNetstring
    \/ FillEnds \/ FillRead \/ FillEof \/ FillTimeout
    \/ Refuse \/ Convert \/ CallAgain

\* The client is gone, or its caller will refuse the empty answer.
Gone ==
    \/ pc \in {"exit", "crash"}
    \/ pc = "returned" /\ nets <= 0

\* A read that waits for a peer that neither sends nor closes.
Waiting ==
    /\ pc \in {"read", "fill"}
    /\ incoming = <<>> /\ ~closed /\ fd = "sdC"
    /\ pc = "fill" => strLength > Len(src)

\* Then it stays as it is.
Stays == (Gone \/ Waiting) /\ UNCHANGED vars

Next == Step \/ PeerCloses \/ Stays

Spec == Init /\ [][Next]_vars

\* The client runs, and a read that waits without end times out if it can: all
\* of it is one process that the system schedules and that only reads block.
FairSpec == Spec /\ WF_vars(Step)

-----------------------------------------------------------------------------
(* Properties.                                                             *)

\* However the stream is cut into reads, the strings handed to the caller are
\* the payloads that were sent, in order, and nothing behind the first
\* malformed netstring is handed out (readNet).
DeliversPayloads ==
    nets >= 0 => IsPrefix(got \o SubSeq(respDst, 1, nets), sent.payloads)

\* The same as far as the code keeps it: as long as no netstring needed more
\* than one further read (assignment4.c:140-149), and none that was cut has a
\* comma of its own, which would pass for the terminator (line 152).
HasComma == \E payload \in ToSet(sent.payloads) : Comma \in ToSet(payload)

InStep == ~patched /\ ~(HasComma /\ cut)

DeliversUnlessPatched == InStep => DeliversPayloads

\* What AsciiClient relies on: a call that returns n netstrings leaves their
\* payloads and the last one once more.
LastIsTwice ==
    pc = "returned" /\ nets >= 1 /\ InStep =>
        LET batch == SubSeq(sent.payloads, Len(got) + 1, Len(got) + nets)
        IN respDst = Append(batch, batch[nets])

\* To its caller the reception is one of whole netstrings, however they were
\* cut: each call hands out the next ones, and reports the end of the stream
\* only behind the last (recvMessage).  That is promised until the client ends
\* or is no longer in step.
abstractState ==
    IF ~InStep \/ pc \in {"exit", "crash"} THEN "gone"
    ELSE IF pc = "returned" THEN "returned" ELSE "reading"
abstractStrings == IF abstractState = "returned" THEN respDst ELSE <<>>
abstractNets == IF abstractState = "returned" THEN nets ELSE 0
handedOut == Len(got) + (IF abstractNets > 0 THEN abstractNets ELSE 0)
abstractQueue ==
    IF abstractState = "gone" THEN <<>>
    ELSE SubSeq(sent.payloads, handedOut + 1, Len(sent.payloads))

Rec == INSTANCE Reception WITH
       Queues <- {s.payloads : s \in Streams}, queue <- abstractQueue,
       strings <- abstractStrings, nets <- abstractNets, state <- abstractState

ReadsWholeNetstrings == Rec!Spec

\* As long as every read ends with a netstring and there is room, none is
\* refused or lost, whatever is in them.
Complete == sent.ends[Len(sent.payloads)] = Len(sent.bytes)

\* Room for all the bytes and, as recvMessage stores the last payload of a read
\* twice (line 199), for one more copy of any of them.  Without the copy it would
\* not do: recvbuf overruns for one payload of BUFSIZE / 2 bytes.
HasRoom ==
    \A payload \in ToSet(sent.payloads) \cup {<<>>} :
        Len(sent.bytes) + Len(payload) < BufSize

WholeReadsSucceed ==
    Complete /\ ~cut /\ HasRoom =>
        /\ pc \notin {"exit", "crash"}
        /\ pc = "returned" /\ nets >= 1 => sent.ends[Len(got) + nets] = Received

\* Netstrings that all fit into the buffers, one of them twice, never overrun
\* them, however they are cut and gathered: neither the appended fragments nor
\* the payloads and copies that gather in respDst (lines 144-165, 196-203).
NoOverrun == HasRoom /\ InStep => pc # "crash"

\* What sendMessage writes for a message that has room is its netstring and
\* nothing else: the comma that the + 1 of line 172 is there for is the last
\* byte, and there is no 0 byte.
SendsNetstrings ==
    \A payload \in ToSet(sent.payloads) :
        Len(Decimal(Len(payload))) + Len(payload) < BufSize =>
            Netstring(sendMessage(BufSize, payload), payload)

\* The peer has closed inside a netstring and nothing of it is in readNet's own
\* buf: read returns 0 and strcat appends nothing, again and again.
Spinning == pc = "fill" /\ AtEof /\ frag = <<>> /\ strLength > Len(src)

\* When the peer falls silent anywhere, also inside a netstring, the timeout
\* of the data connection ends the call, and on both connections the end of the
\* stream does, but for that one loop (lines 142-149, 187).
Returns ==
    (fd = "sdD" \/ closed) /\ pc = "read"
        ~> pc \in {"returned", "exit", "crash"} \/ Spinning
=============================================================================
