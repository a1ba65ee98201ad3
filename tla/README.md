# Specifications of grnvs

TLA+ specifications, TLC configurations and TLAPS proofs for the four network
programs of this repository and the library two of them share. All paths below
are relative to the repository's root, without the leading `src/` that
`PROJECT.json` uses. `assignment2/libraw` and `assignment3/deps/libraw` hold
the same library, line by line; the first copy is cited for both.

## 1. The system

| Part | State it keeps | Operations | Talks to |
|---|---|---|---|
| **asciiclient**, protocol run (`assignment4/src/assignment4.c:207-423`) | two connections and a listening socket; `recvbuf`, the pointer `startOfNetstring` and the count `netStringsInBuf`; `token` | connect, seven rounds of receive / check / send, listen, accept, close | a server over a control connection (`sdC`) and a data connection (`sdD`) that the server opens |
| **asciiclient**, netstrings (`assignment4.c:80-205`) | a buffer on the stack that is source and destination at once | `writeNet`, `readNet`, `sendMessage`, `recvMessage` | the sockets |
| **libraw** `grnvs_read` (`assignment2/libraw/src/raw.c:157-219`) | `*timeout`, which belongs to the caller, and `ifindex` | read one frame within what is left of the timeout | kernel: `pselect`, `read`, clock, signals |
| **libraw**, the socket (`raw.c:42-152`, `221-302`) | static: interface, addresses, two write sockets; descriptors of the process | open, write, close, getters, finalization in Java | kernel, the rest of the process |
| **libraw**, pure functions (`checksum.c`, `crc.c`, `hexdump.c`) | none | ICMPv6 checksum, CRC, dump | |
| **ethstats** (`assignment2/src/assignment2.c`) | linked list of counters per EtherType, totals | receive loop, summary | libraw |
| **trace6** (`assignment3/src/Assignment3.java`) | hop, attempt, `stopProbes`, `sequenceNumber`, `Timeout` | send a probe, read until an answer or the timeout, print | libraw through JNI (`GRNVS_RAW.java`, `deps/GRNVS_RAW.c`); routers and destination |
| **collatz** (`assignment1/src/assignment1.c`) | one integer | the loop | |
| **arguments** of each program (`arguments.c` of assignments 1, 2 and 4, `Arguments.java`), and `main` of asciiclient | defaults and what was read so far | parse a word, read a file | user, argp |

The programs start no threads. What is hard is the order and the time in which the
outside acts:

* TCP cuts the server's netstrings into reads as it likes. `recvMessage` stores
  a whole batch, and its last string twice; `updateNets`, the count and the
  `if (netStringsInBuf == 0)` in front of each receive have to keep in step
  with that, over two connections that share one buffer.
* A netstring can be cut anywhere, the peer can fall silent or close anywhere,
  and only the data connection has timeouts.
* `grnvs_read` spreads one budget of milliseconds over loops, signals and
  calls, with rounding and an unsigned result.
* `trace6` reads whatever the host receives, with answers of earlier probes
  among it.
* The server may send errors or nonsense, be slow, or crash.
* Frames are damaged, have extension headers, or answer another trace.
* Lengths, sums and numbers have edges: a digit more, a second carry, an int.
* The library holds numbers of descriptors, and other threads of a Java process
  open and close files all the time.

What makes the parts correct:

* **asciiclient**: each answer is taken for the phase it belongs to; only a
  correct answer lets the client go on; a normal return means the server has
  acknowledged the text; nothing waits for an answer that is there already; the
  run ends.
* **netstrings**: what is written for a message is its netstring; the strings
  handed out are the payloads sent, in order, whatever the cuts; what fits
  overruns nothing; a silent peer does not block the data connection for ever.
* **grnvs_read**: never more waiting than the caller asked for; the result
  tells what happened; the call ends; to the caller it is one step.
* **the socket**: nothing but the library's own sockets is read, written or
  closed; a packet leaves through the socket for it, a frame comes from the
  device; the addresses are the device's.
* **ethstats**: list, totals and summary agree with the frames received.
* **trace6**: one result per probe in the right line; no further hop after a
  reply; the destination is found at its distance; probes pass the check of
  their receiver, and only intact answers pass trace6's; the trace ends.
* **arguments**: a program runs with what its command line says and refuses
  what says nothing. **collatz**: the loop ends from positive numbers.

## 2. The modules

| Module | Models | Uses |
|---|---|---|
| `Handoff` | abstract: one text goes to a server and is acknowledged, or the client fails | |
| `Reception` | abstract: `recvMessage` hands out whole netstrings | |
| `AsciiClient`, `MCAsciiClient` | the protocol run, with the server as an external process | `Handoff` through a refinement mapping |
| `AsciiClientProofs` | theorems about `AsciiClient` | the steps of `Reception`, by `INSTANCE`; `Induction` |
| `NetstringWriter` | `countDigits`, `writeNet`, `sendMessage`, as operators | |
| `NetstringReader`, `MCNetstring` | `recvMessage` and `readNet`, byte by byte | the digits of `NetstringWriter`; `Reception` through a refinement mapping |
| `NetstringReaderProofs` | theorems about `NetstringReader` and `NetstringWriter` | `Induction` |
| `TimedRead` | abstract: reads within one timeout, a step each | |
| `RawRead`, `MCRawRead` | `grnvs_read` and `grnvs_close` | |
| `RawReadCaller` | `RawRead` and what its caller sees of it | `TimedRead` through a refinement mapping |
| `RawReadProofs` | theorems about `RawRead` and `RawReadCaller` | |
| `EthStats`, `MCEthStats` | ethstats | the actions of `RawRead`, by `INSTANCE` |
| `EthStatsProofs` | theorems about `EthStats` | `Induction` |
| `Checksum` | `icmp6_checksum`, as operators, and the sum of RFC 1071 | |
| `Trace6`, `MCTrace6` | trace6 and its checks of frames | the actions of `TimedRead`, by `INSTANCE`; `Checksum` |
| `Trace6Proofs` | theorems about `Checksum` and `Trace6` | `Induction` |
| `RawSocket`, `MCRawSocket` | open, write, close, getters, finalization | |
| `RawSocketProofs` | theorems about `RawSocket` | `Induction` |
| `Arguments` | the command lines of the four programs | |
| `Collatz`, `MCCollatz` | collatz | the actions of `Arguments` |
| `ArgumentsProofs` | theorems about `Arguments` and `Collatz` | `Induction` |
| `Induction` | lemmas about sets of numbers, finite sets, recursive functions, folds, sums and lists that get smaller, and nothing of the programs | |

A definition next to a comment that begins with "Variant" is not part of any
specification. It is a plausible slip in the definition that follows, and
`PROJECT.json` ("mutants") says which property notices it.

### AsciiClient

The client waits for seven answers (`phase`); the table at the head of the
module lists them with their connections. `pc` says at which blocking call the
client is: `recv`, `check`, `listen`, `accept`. An answer is one record
(context letter, body, and the ghost `n`: the answer it was sent as). The
body is a version, a token, a length and so on, since all the client does with
a text is to compare it or to echo it.

| Code | Definition |
|---|---|
| `recvMessage` (180-205), one read takes any non-empty prefix of what has arrived | `RecvMessage`, `RecvNothing` (`HungUp`, `TimedOut`) |
| `readNet` (119-155) with a piece of a netstring that nothing follows | `RecvTorn`, `Spin` |
| `checkMessage` (207-229) | `Passes`, `Reject` |
| `updateNets` (231-241) and `netStringsInBuf--` | `UpdateNets`, `Advance` |
| `if (netStringsInBuf == 0)` in front of a receive | `NextPc` |
| lines 297-417, per phase | `CheckAndSend`, `TakeToken`, `TakeDataToken`, `CheckAck` |
| socket set-up (314-365) | `Connect`, `LocalFailure`, `Listen`, `Accept`, `AcceptTimeout` |
| `SIGPIPE` when the server is gone | `BrokenPipe` |

The server is external: `ServerRead`, `ServerConnect` and `ServerAnswer` do
what the client and the recorded test run (`result/assignment4/test.log:4-17`)
expect; `ServerMisbehaves`, `ServerError` and `ServerCrash` are switched on by
`Faults`. `Eager` names the answers that it may send before it has the client's
message, so that they can share a read with the one before. A server that goes
down may leave a piece of a netstring at the end of a connection (`torn`); the
client refuses it or, when bytes of the payload are missing, reads on for ever
(`pc = "spins"`). `MCAsciiClient`
adds a history variable, `disturbed`: a fault or a timeout has come, and nothing
is promised about success any more.

### NetstringWriter and NetstringReader

`sendMessage` is the sequence of bytes that the code writes for a message: the
string `writeNet` leaves in the buffer, for as many bytes as its result plus
one, with the zeros or the unknown memory behind it when those are more.
`SendsNetstrings` says that this is the message's netstring; the streams of
`MCNetstring` are made of netstrings.

The buffer is memory: a sequence of bytes in which a string ends at the first
0 byte and old bytes stay behind it. That is what makes the overwriting in
`readNet` visible: the payload is copied over the front of the buffer that the
rest of the netstrings is still in, and a further fragment is read over the one
before without clearing it. `FirstRead`, `NextNetstring`, `FillRead`, `FillEof`,
`FillTimeout`, `FillEnds`, `Refuse` and `Convert` follow lines 119-205 in order;
`CallAgain` is the caller coming back. `Convert` ends in the state crash when a
length does not fit, and also when the two copies of a payload that lines
197-199 store do not (`Fills`), which the code does not ask: a netstring with a
payload of half the buffer is enough. `HasRoom` is therefore about the bytes of
the stream and one payload more. `cut` (some read ended inside a
netstring) and `patched` (some netstring took a second further read) are
history that the properties speak about: the reader is `InStep` with its stream
as long as nothing is `patched` and, when a payload has a comma (`HasComma`),
nothing was `cut`.

What the peer may send is `StreamsAssumption`: a record of the bytes, the
payloads, and the place where each netstring ends, with anything malformed
behind the last. TLC evaluates it for the streams of the runs; the proofs
assume it for any set of them.

`Reception` is where `AsciiClient` and `NetstringReader` meet: a call takes some
netstrings off a queue and leaves them and the last one again, or finds the end
behind all of them, or fails. `NetstringReader` implements it
(`ReadsWholeNetstrings`); the queue is what is left of the payloads, a call is one
step, and where the promise ends (the client exits, or is no longer `InStep`) is
the state "gone". `RecvMessage` and `RecvNothing` of `AsciiClient` are steps of it
on the connection of the phase (`ReadsAsReception`). So the netstrings that arrive
whole in `AsciiClient` stand for bytes that arrive in any pieces.

### RawSocket

`grnvs_open` is one action per system call (`OpenSix`, `OpenFour`, `OpenPacket`,
`Bind`), since the rest of the process (`OthersOpen`, `OthersClose`) and the
network (`FrameArrives`) act in between. `files` is the process's table of
descriptors; the kernel gives out the lowest free number, and standard input may
be closed at the start. `visit` is one pass of the loop over the interface's
addresses. `Close` and `Finalize` are two ways into `grnvs_close`; a C program
never finalizes. There is one object and one `grnvs_open`, as
`libraw/include/raw.h:9` asks. `io`, `early` and `lost` are history: the last
transfer, the devices of the frames that came before `bind`, the files of
others that the library closed. A system call that a signal interrupts is
repeated by the code; here it is one step.

### RawRead, EthStats, Trace6

`RawRead` counts ticks of the monotonic clock, `TicksPerMs` to the millisecond.
`Ready`, `Expired`, `Interrupted` and `SelectFails` are what `pselect` can
return, each with the subtraction of the time and the conversion to unsigned
milliseconds (`Pass`, `Milliseconds`); `ReadFrame`, `ReadInterrupted` and
`ReadFails` are what `read` can return. `Late` is how long the process may get
the processor after `pselect` is done; the variable `late` records that it
happened. `Garbage` is what the uninitialised
`len` can hold when `continue` takes the loop to its condition (line 199): the
call goes on if it is negative and returns it if not, and a run has both.

`EthStats` runs these actions for its reads and adds the loop, the list
(`insertInfo`, `removeByType`, `min`) and the counters, which wrap. The summary
prints one entry per step. `MCEthStats.cfg` lets wake-ups be late and signals
come.

`RawReadCaller` adds `seen`, what `*timeout` and the result were when the last
call returned (a caller is blocked while it runs), and `assigned`, whether the call
has given `len` a value. Through `seen`, `RawRead`
implements `TimedRead` (`ReadIsTimedRead`): whatever happens inside, a call is one
step that returns a frame for at least a millisecond, or 0 with nothing left, or
what an interrupted call found in `len` (`Junk`), or ends the process, at prices
that hold while no wake-up was late. `ReturnIsReal` says that the last but one is
the only result that is not what happened.

`Trace6` reads with these steps (`R!Frame`, `R!Silence`, `R!Delay`), without signals. A frame is
its sender, its ICMPv6 message byte by byte, and its "quirks", what else
`checkMessage` may find in it: another first byte, receiver or protocol, an
extension header, an endless one. The checksums of probes and answers are
computed, ours by `icmp6_checksum`, those of others by the sum of RFC 1071.
`handleIcmpTimeEx` and `handleIcmpDestUnreach` are as in the code, where their
condition never holds. A result has a `kind`: what ends a trace is a reply or a
refusal (`Ending`), while a router that is printed in front of the destination
would be what trace6 is for, so `StopsAtReply` and `FindsDestination` allow it, and
`NamesRouters` asks for it. `distance`, `late` and `onTime` are for the properties:
where the destination is, whether the process was late, and whether its replies
came in time and no other trace's did.

### Arguments and Collatz

A command line is a sequence of words. `argp` is external: options first, then
the other words (`TakeOption`, `EndOfOptions`, `UnknownOption`, `TakeArg`);
trace6 has one loop for both. `Store` is `parse_opt`, or a branch of trace6's
`switch`; `Complete` is what is asked for in the end; `ReadFile` is in asciiclient's
`main`. `Meaning` and `WellFormed` say the same without any order: which words
are options (`OptionAt`), which of the others stand for themselves (`Free`) and in
which place each stands (`Place`), what each field's last value is. `WellFormed` follows
what the programs' documentation asks for, not what they check: collatz needs a
START, and `collatz --`, which has none and runs all the same, is the exception that
`RefusesMalformed` names (`StartIsMissing`). `Collatz`
calls the loop with the result; the type `long` wraps.

## 3. The runs

| Run | Bounds | Shows |
|---|---|---|
| `handoff` | 2 tokens; answers 2 and 4 may be early; local failures, slow, crashing and misbehaving server, ends inside a netstring; fair client | types, `OnlyGoodAnswersPass`, `DtokenEchoed`, that the client implements `Handoff`, that the timeouts alone end the data phase but for an end inside a netstring (`DataPhaseEnds`), and that a fair server which nothing disturbs gets the text, whatever the batching (`Delivers`) |
| `ends` | answers 2, 4, 5 early, every fault, fair client and server | the client ends or is in the one loop it cannot leave (`Ends`); with errors and early data tokens, too, `AnswersMatchPhases` |
| `reader` | 10 well-formed and 6 malformed streams, every cut, end of file anywhere, timeouts on `sdD` | `DeliversUnlessPatched`, that the reader implements `Reception` (`ReadsWholeNetstrings`), `WholeReadsSucceed`, `NoOverrun`, `SendsNetstrings`, `Returns` |
| `raw_read` | 4 ms of 3 ticks, modulus 16, 5 calls, signals at every call, -1, 0 or 2 in the uninitialised `len`, wake-ups up to one tick late | `WithinBudget`, `NeverGrows`, `FrameLimit`, `ReturnIsReal`, `CallEnds`, and that `RawRead` implements `TimedRead` |
| `ethstats` | 4 kinds of frames of 3 types, 3 frames, counters modulo 8, late wake-ups, signals | `CountsAgree`, `Ascending`, `TotalsAgree`, `Ends` |
| `trace6` | 2 attempts, 3 hops, destination at 2, 3 or 4, 3 ms, hop limits modulo 3, sequence numbers modulo 4, bytes modulo 6, 15 foreign frames, late wake-ups | `OneResultPerProbe`, `StopsAtReply`, `FindsDestination`, `ProbesVerify`, `OnlyIntactPass`, `Ends` |
| `raw_socket` | 6 descriptors, 0 to 2 open or not, 2 devices, 3 lists of addresses | `OnlyOwnFiles`, `LeavesThroughItsSocket`, `ReadsItsDevice`, `AddressesMatch`, `OthersKeepTheirFiles` |
| `arguments` | command lines of up to 3 (collatz), 4 (ethstats, trace6), 5 and 6 (asciiclient) of 5 to 9 words; `int` modulo 4096, `long` modulo 256 | `RunsAsMeant`, `RefusesMalformed`, `EndsFromPositive` |

Why these bounds are enough for the cases that matter:

* Two tokens let the token and the data token differ or agree. All seven
  answers occur, so all batchings of the early ones do; longer batches than two
  need a server that ignores the protocol.
* The streams have one and two digit lengths, 9 and 10 among them, a `:` and a `,`
  in a payload, one to three netstrings, payloads long enough that completing one
  takes more reads than one, the longest that fits and the longest that fits twice,
  one that fits but for its second copy, two netstrings that just have room with a
  copy, and three that fit without it only. The malformed parts are a leading 0, a
  comma before the colon, no colon, a netstring that never completes, a length that
  does not fit, and what is sent for a message that is too long. `BufSize` 34 stands
  for 4096.
* Three ticks per millisecond make rounding visible; five calls exceed the four
  milliseconds, so that the budget runs out by rounding alone.
* Counters modulo 8 wrap with two frames of four or more bytes. Three frames give
  a list whose first, middle and last entries are removed.
* Two attempts and three hops put a late answer into the same line and into a
  later one, and leave a hop that must not be tried after the reply. Hop limits
  modulo 3 send the third hop's probes out with 0, so that a destination there is
  never found; sequence numbers modulo 4 start over in the third line.
* Bytes modulo 6 make words modulo 36. The foreign messages have every length
  from 8 to 11 and sums that carry not at all, once and twice; every byte of an
  answer is replaced by every other one. One answer carries a checksum of ones,
  which means the same as zero: RFC 1071 accepts it, the code does not, and
  `OnlyIntactPass` names that exception.
* -1, 0 and 2 in the uninitialised `len` are the three that differ: the loop goes
  on, the caller is told of a timeout, or of a frame.
* Six descriptors hold the three sockets beside three files of others, or leave
  the lowest to the library; others can take a number that the library has given
  back. The lists have link-local addresses first and last, none, two global
  ones, and addresses of the other device.

* Six words hold both words and two options of asciiclient with their arguments,
  or one option given twice. Among the words are an empty one, one that is no number,
  a negative one (an unknown option to argp, a number behind an option or `--`),
  and a number beyond `int`. 15 leaves a `long` modulo 256, 7 does not.

Fairness. `WF` of the whole client, the whole reader, the whole loop: each is
one process that the system schedules and that only its blocking calls stop. A
read that can time out is enabled by that, a read on the control connection is
not (`Waiting`). `ends`, and `Delivers` in its premise, ask in addition that a
server which is up reads, connects and answers; nothing in the code can force it to, since
the control connection has no timeout. `Ends` of `EthStats` and `Trace6` ask
nothing of the network: frames may come for ever or never. `EndsFromPositive` asks
that the loop runs.

The type invariants that the runs check are those where a range can really be
left: the pointer and the count of `AsciiClient`, the unsigned timeout of
`RawRead`, the counters of `Trace6`.

Deadlock is checked for `AsciiClient` and `NetstringReader`, where the ends of a
run are steps of their own (`Terminated`, `Stays`). It is not checked for the
other modules: their programs stop, and their models stop with them.

### Where the code does not do what it says

Four runs show a property that a comment or a recorded test states, and that
the code does not have:

* `server_error`: `checkMessage` returns after a server error, and the client
  goes on (`assignment4.c:209`). With an error in place of `S ACK` it returns
  normally.
* `two_fragments`: a netstring that needs two further reads is put together
  wrongly when the second is shorter (`assignment4.c:148`).
* `stale_reply`: trace6 takes a late echo reply for the answer to a later
  probe (`Assignment3.java:216`; `result/assignment3/test.log:42`).
* `routers`: trace6 reads a time exceeded message and does not print its router
  (`Assignment3.java:198`; `test.log:16, 18`). The run looks at the first probe
  only, of which every answer under way is its own.

The models show more that no run is spent on:

* `recvbuf + 2` instead of `startOfNetstring + 2` (`assignment4.c:395`) echoes
  the wrong string when token and data token share a read: `DtokenEchoed` with
  5 in `Eager`.
* `readNet` never leaves its loop when the peer closes before a first further
  fragment: `Returns`, `Ends` and `DataPhaseEnds` without `Spinning`. No timeout
  helps there, since `read` returns 0 at once (`assignment4.c:142-149`).
* `recvbuf` overruns for one payload of half its size, which passes the check of
  line 158, since line 199 stores the payload twice: `NoOverrun` with
  `Len(sent.bytes) < BufSize` for `HasRoom`.
* All reads of ethstats share one timeout of 10000 ms, of which each takes at least
  one by rounding, so it reports "nothing to receive" after 10000 frames at the
  latest, whatever `NUM` is (`assignment2.c:177`): `FrameLimit`, for every clock
  `FramesBounded`.
* `readNet` refuses good netstrings, depending on the cut: before the colon, or
  when the bytes so far reach the payload's length and the terminator is not
  there (lines 122, 142), though `result/assignment4/test.log:22` says
  "Client supports fragmented Netstrings".
* `readNet` takes any comma behind the colon for the terminator (152), also one
  in the payload or in the next netstring: `DeliversUnlessPatched` without
  `HasComma`. With the payload `,,99:a`, cut behind its first comma, and a
  timeout, what is left of it passes for a netstring of 99 bytes, and the client
  goes over the end of its buffer: `NoOverrun` with `~patched` in place of
  `InStep`.
* `writeNet` accepts messages that take one or two bytes more than its buffer
  has, counting the 0 byte (102); for longer ones `sendMessage` sends `0:` and as
  many bytes of zeros and other memory as the message would have had.
* An extension header with length byte -1 keeps trace6 in the loop that skips
  them (`Assignment3.java:157`): `Ends` without `at = "spins"`.
* All traces on a host have one identifier (`Assignment3.java:29`), so that one
  stops at another's reply: `FindsDestination` without the last part of `onTime`.
* `ethstats` and `asciiclient` take an empty word for the number 0 and cut a
  longer number to an `int`; `collatz -- 0` never ends, nor does `collatz --`, which
  has no START and runs with 0 (`assignment1/src/arguments.c:65`): `RefusesMalformed`
  without `StartIsMissing`.
* A late wake-up of `grnvs_read` turns the rest of the time into almost 2^32 ms:
  `NeverGrows` and `WithinBudget` without `late = 0`.
* A signal in the first `pselect` returns an uninitialised `len` unless it
  happens to be negative (`raw.c:199`): `ReturnIsReal` without `assigned`.
* The packet socket takes frames of all devices between `socket` and `bind`
  (`raw.c:116-145`), though `raw.h:12` speaks of the device "the socket should
  read/write on": `ReadsItsDevice` without `early`.
* `finalize` after `close` closes the same number again (`GRNVS_RAW.java:108`),
  which may be another file by then: `lost = {}` does not hold.
* `write_six > 0` takes descriptor 0 for "no socket" (`raw.c:232, 244`):
  `LeavesThroughItsSocket` without `write_six # 0`. And `send` on `write_four`
  names no destination on a socket that was never connected, which the model
  lets succeed or fail; Linux refuses it.
* trace6 never prints a hop from an unreachable message either
  (`Assignment3.java:208`; `test.log:17, 28-29`), and exits on an
  ICMPv6 message behind an extension header (189; `test.log:64-68`).

## 4. The proofs

Each theorem holds for every value of the constants that the named assumptions of
its module allow; a theorem that needs more says so in its hypotheses. Every
safety invariant that the runs check is a theorem, and so are the action property
`NeverGrows` and the three refinements. An invariant is seldom inductive as it stands; what
follows says for each module what had to be added and why.

**`AsciiClientProofs`**: `TypeCorrect`, `AnswersInOrder`, `GoodAnswersOnly`,
`DtokenIsEchoed` and `ClientIsHandoff`. `AnswersMatchPhases`
is not inductive: that the string at `startOfNetstring` is the awaited answer
depends on what is in the buffer behind it, what is under way behind that, and
what the server has still to send. The inductive invariant `IInv` says that the
strings under way and in the buffer are numbered without gaps (`Order`,
`Flow`), how many of them there are (`Count`), and that `recvbuf` ends in the
copy of its last string exactly behind the strings still counted (`Batch`).
A second one, `CInv`, under the assumption that there are no server errors,
adds what the strings contain (`Contents`), that the client's token is the
server's (`TokenKnown`), and that only good answers were passed (`OnlyGood`),
and, without early data tokens, `Dtoken`. The refinement follows from `CInv`:
each step of the client is a step of `Handoff` or leaves its two variables
alone; the acknowledgement needs `OnlyGood`. `server_error` is why the
assumption is needed. `ReadsAsReception` says that the two actions that read are
exactly the steps of `Reception` that the peer and the timeouts permit
(`NothingToRead`), with what a read sets besides (`Around`), and that reading a piece
of a netstring leaves it.

**`NetstringReaderProofs`**: `Sends`, `Delivers`, `LastTwice`, `WholeReads`,
`NeverOverruns` and `ReaderIsReception`, for every size of the buffer, every stream
and every cut. The first is about the writer: `countDigits` is the number of
characters that `%ld` writes, by induction over the length, so that what
`sendMessage` sends is a netstring; that `atol` reads the length back (`AtolIs`) is
the other half. The others follow from one invariant, `Inv`. As long as the client
is `InStep`, what is in `buf` up to its first 0 byte is the stream from the end of
the last netstring done to the last byte read (`Text`, `Rest`; `AtPlace`), the
strings gathered and handed out are the payloads up to there (`InOrder`), and
`message_length` has not passed that place. Since payload, rest and fragments are
copied over each other in the same memory, that has to be shown byte by byte (`Put`,
`StringAt`; `ConvertKeeps`, `FillReadKeeps`). `ConvertWhole` is the heart of it: a
format that seems complete is complete. When nothing was cut, because a read ended
with a netstring; when something was, because without commas in payloads the first
comma of the stream is the end (`CommaCompletes`). `Safe` adds that a stream with
room refuses and overruns nothing; what has been gathered and two copies of the
payload at hand are never more than the stream and one payload (`RoomIs`). Streams
that begin with a 0, which is what an overlong message becomes, are a case of their
own (`Refused`). The refinement needs two facts more: a call that has read something
does not return without a string (`Started`), and the end of the stream is behind
all payloads when a call finds it (`EndIsLast`).

**`RawReadProofs`**: `TypeCorrect`, `BudgetKept`, `TimeoutNeverGrows` and
`ReturnsWhatHappened` from the assumptions of `RawRead` alone, whatever the
uninitialised `len` holds, and `FramesBounded` if every wait takes some time. The
history variable `late` tells by how much some wake-up has been late so far: the
budget and the bound on frames are claimed while it is 0, and it never goes back
(`LateStays`). `WithinBudget` is strengthened by what holds inside a call, where the
rest of the time is kept in ticks and `*timeout` only follows at the end of a pass
(`InCall`, `Rounded`); the bound on the frames needs that a call which has a frame
to read has already paid its millisecond (`FrameInCall`). `ImplementsTimedRead` is
the refinement `ReadIsTimedRead`, under the hypothesis of the last: `RawReadCaller`
starts as `TimedRead` does, and each step is one of `TimedRead` or changes none of
its variables; the invariant relates what the caller has seen to where the call is
(`SeenInCall`).

**`RawSocketProofs`**: `OnlyOwnFilesUsed`, `PacketsLeaveThroughTheirSocket`,
`ReadsFromDevice`, `OthersLoseOneFile` and `GettersMatch`, for any number of
descriptors and whatever other threads do with them. The properties speak of the last
transfer; inductive is what ties the numbers that the library holds to the
process's table (`Sockets`), which numbers it holds at which point (`Layers`),
what may wait in the packet socket (`Frames`) and how files of others get lost
(`Losses`). `GettersMatch` needs that the loop over the interface's addresses
leaves the last of each family, by induction over the list (`Known`).

**`Trace6Proofs`**: `Trace6Types`, `EachProbeHasItsResult`, `RepliesInLastLine`,
`DestinationIsFound`, `ProbesAreIntact` and `ChecksTellIntact`, for every number of attempts
and hops, every modulus, and any frames of others. The invariant ties the
number of results to hop, attempt and sequence number (`Position`), each
result to its line (`InOrder`), a printed host to a reply (`RepliesOnly`) and to the
end of the probes (`Stopping`), the answers under way to the hop limit that has reached their
sender (`AnswersFit`), and the hops to the distance while the answers come in
time (`Approaching`). The last two theorems rest on what the checksums are: modulo
the largest word, the sum of `icmp6_checksum` and
that of RFC 1071 are the same number up to a factor, the size of a byte, which
is its own inverse. So a message passes the code's check just if it verifies and
its checksum is not all ones (`PassesIs`), what the code makes of a message with
checksum 0 verifies (`WithSumIs`), and of two messages that differ in one byte
at most one verifies (`OneByteOff`), for any size of a byte and any length.

**`EthStatsProofs`**: `CountersAgree`, `SummaryAscends`, `SummaryAddsUp` and
`ReadsAreLibrary`, for any frames shorter than the range of the counters and
any number of them. The invariant says of each entry, printed or not, that it
counts the frames of its type modulo the range (`Entries`), that no type has two
and the printed ones come first (`Sorted`), and that the totals are the sums of
the entries (`Totals`); an entry that is inserted, raised or removed changes a
sum over a sequence in one place. `ReadsAreLibrary` shows that the reads of
ethstats are runs of `RawRead`, so that the theorems about it hold for them.

**`ArgumentsProofs`**: `EachRunsAsMeant`, `MalformedAreRefused` and
`NoEndFromOthers`, for any command lines, words and numbers and every width of an
`int` and a `long`. `Meaning` and `WellFormed` look at a whole line at once, the
programs read one word after the other; the invariant `ArgInv` says how far they
agree, on what the programs check (`Accepted`), from which `WellFormed` differs by
the one line of collatz without a START (`NoStart`). In front of the next word
nothing is malformed, no argument of an option is left, and the words that are no
options are those of `rest`, each at its `Place` (`Scanned`, `Collected`); each
option's field is what its last value so far says (`FitsOptions`), each other field
what the words taken so far say (`FitsWords`). `OptionAt` is the set that its
definition asks for, by induction over the line (`OptionAtIs`), and `--` makes all
that follows free words (`ScanMarker`). `NoEndFromOthers` is the half of
`EndsFromPositive` that is not about liveness (`OnlyFromPositive`): from a number
that is not positive the loop stays there until a number leaves the range
(`LoopInv`).

**`Induction`** is what these proofs share. The induction theorems of the library take
an operator as a parameter, which the provers cannot instantiate; here induction
is over sets instead (`LeastNatural`, `NumbersByInduction`, `SubsetInduction`),
recursive functions and folds are shown to exist and to be unique
(`RecursionExists`, `SubsetRecursion`, `LeftFoldExists`), and the sums over finite
sets follow from that (`SumRemove`, `SumChange`, `SumReindex`).

**The ends.** That something must happen is liveness and stays with TLC; that
nothing can happen for ever is not, and is proved for the instances of every size.
Each of `AsciiClientProofs`, `NetstringReaderProofs`, `EthStatsProofs` and
`Trace6Proofs` defines a list of five natural numbers, `Rank`, and shows that every
step makes it smaller at the first place where it changes it (`ComesToAnEnd`, with
`Shrinks` of `Induction`). `NoEndlessShrinking` says of such lists that no sequence
of them gets smaller for ever. So a run that does not end is one that waits, or is
in the loop that the table names.

| Theorem | What gets smaller | Where it does not hold |
|---|---|---|
| `RunShrinks` | the client's calls and phases, the server, its answers, its connection, the messages under way | the busy loop `Spin`, and only with the server gone and the connection ended inside a netstring (`Spinning`, proved with it); any faults, any early answers |
| `ReaderShrinks` | the connection, the bytes and the netstrings to come, those gathered, the loops of a call; while the client is `InStep` | the busy loop of `FillEof`, which section 3 describes |
| `TraceShrinks` | the parts of the program, the hops, the tries of a hop, the probe, the timeout | a read whose wake-up is late, which gives the timeout new time |
| `StatsShrink` | the parts of the program, the reads to come, the part of a read, its time, the entries to print | nowhere, if some time passes in `pselect`; signals and late wake-ups included |
| `CallsGetOn` | a single call of `grnvs_read`: what is left of its time (`Rest`, one number) | as before |

The assumptions of the theorems that the code does not guarantee are those about its
surroundings: that `len` is negative when it is read uninitialised, which is the
outcome the code counts on (an assumption of `EthStats`; the theorems about
`RawRead` do without); that some time passes in `pselect` (`FramesBounded`,
`ImplementsTimedRead`, `CallsGetOn`, `StatsShrink`); that there are no server errors
(`GoodAnswersOnly` and what follows from it), no early data token
(`DtokenIsEchoed`), and an address that parses (`ClientIsHandoff`).

Only model-checked:

* everything about liveness (`Delivers` of `MCAsciiClient`, `DataPhaseEnds`,
  the three `Ends`, `Returns`, `CallEnds`, the first half of `EndsFromPositive`),
  since neither fairness nor `ENABLED` is in the provers' reach. What the proofs
  say of it is above, under "The ends": what is missing from there to `Ends` is
  that a step is possible as long as the end is not reached;
* the four properties that runs show to be violated, which no theorem can state.

## 5. What is not modelled

* Addresses that parse, printing, floating point rates, the hex dump, the CRC
  (no caller), the help texts.
* The copying between Java and C arrays; a second `grnvs_open`; `getIPv6` after
  `close`, where the binding passes on a null pointer.
* Frames shorter than their headers. Signals in the reads of trace6.
* A first byte `E` in a malformed netstring, which leads `readNet` into
  arithmetic with a null pointer; a 0 byte inside a stream except behind `0:`;
  writes that the kernel takes in part; a NULL timeout.
* Numbers beyond a `long`, which `strtol` cuts; abbreviated and joined options,
  which argp accepts. That collatz ends for every positive start is an open
  problem.

## 6. Open work

1. Lemmas about sequences that `NetstringReaderProofs`, `EthStatsProofs` and
   `ArgumentsProofs` each state for themselves, in one module.
2. The composition of `Trace6` with `RawRead` in one specification; today
   `ImplementsTimedRead` and the `INSTANCE` of `TimedRead` in `Trace6` meet in
   the actions of `TimedRead`.
