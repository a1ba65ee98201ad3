---------------------------- MODULE AsciiClient ----------------------------
(***************************************************************************)
(* The protocol run of asciiclient (assignment4/src/assignment4.c) between *)
(* one client and one server.  The server is not in the repository; it is  *)
(* modelled from what the client expects of it and from the order in which *)
(* the recorded test run (result/assignment4/test.log) saw the messages.   *)
(*                                                                         *)
(* The client waits for seven answers, its "phases":                       *)
(*                                                                         *)
(*    1  S <version>  on sdC    answers  1  C <version>                    *)
(*    2  S <token>    on sdC    answers  2  C <nick>                       *)
(*    3  T <version>  on sdD    answers  3  C <port>, after it connected   *)
(*    4  T <token>    on sdD    answers  4  D <nick>                       *)
(*    5  T <dtoken>   on sdD    answers  5  D <msg>                        *)
(*    6  S <length>   on sdC    answers  5  D <msg>                        *)
(*    7  S ACK        on sdC    answers  6  C <dtoken>                     *)
(*                                                                         *)
(* A netstring is one record: its context letter, its body and n, the      *)
(* number of the answer it was sent as.  The client never looks at n.      *)
(* Netstrings arrive whole here, but for the last one before the end of a  *)
(* connection; their bytes are the business of NetstringReader.            *)
(***************************************************************************)
EXTENDS Integers, Sequences

CONSTANTS
    Tokens,  \* the tokens the server can hand out
    Eager,   \* answers the server may send right behind the one before,
             \* without waiting for the client's message
    Faults   \* what may go wrong

KnownFaults ==
    { "address",  \* the user gave an address that parse_ip refuses
      "local",    \* connect, socket, bind or listen fails
      "slow",     \* the server needs more than the 2 s of the timeouts
      "crash",    \* the server goes down or hangs up anywhere, also inside a
                  \* netstring, and answers under way are lost
      "bad",      \* the server sends a wrong context or a wrong body
      "error" }   \* the server sends an error and hangs up

ASSUME TokensAssumption == Tokens # {} /\ "junk" \notin Tokens
ASSUME EagerAssumption == Eager \subseteq {2, 4, 5}
ASSUME FaultsAssumption == Faults \subseteq KnownFaults

VARIABLES
    pc,                \* where the client is, in terms of its blocking calls
    phase,             \* the answer it wants next (8: none)
    recvbuf,           \* the strings recvMessage stored
    startOfNetstring,  \* index into recvbuf
    netStringsInBuf,   \* what the client believes is left in recvbuf
    token,             \* token[]: first the token, later the dtoken
    toClient,          \* netstrings under way, per socket
    toServer,
    srvUp,             \* the server keeps its connections open
    conn,              \* the server opened the data connection
    torn,              \* the connections that ended inside a netstring
    seen,              \* client messages the server accepted
    replied,           \* answers the server sent
    good,              \* those of them that were correct
    srvToken,          \* the token and the dtoken the server handed out
    srvDToken

clientVars == <<pc, phase, recvbuf, startOfNetstring, netStringsInBuf, token>>
serverVars == <<srvUp, conn, torn, seen, replied, good, srvToken, srvDToken>>
vars == <<clientVars, toClient, toServer, serverVars>>

-----------------------------------------------------------------------------
(* The protocol's texts.                                                   *)

Fds == {"sdC", "sdD"}
None == "none"       \* a token[] that was never written

\* The socket on which the client reads in a phase, and on which it sends.
FdOf(p) == IF p \in 3..5 THEN "sdD" ELSE "sdC"
SendFd(m) == IF m \in 4..5 THEN "sdD" ELSE "sdC"

\* The context letter of an answer and the last client message it waits for.
Context(p) == IF p \in 3..5 THEN "T" ELSE "S"
Need(p) == IF p <= 5 THEN p ELSE p - 1

\* The client's messages; the sixth echoes what is in token[].
ClientText(m, tok) ==
    [ctx |-> SendFd(m),
     body |-> CASE m = 1 -> "version" [] m = 2 -> "nick" [] m = 3 -> "port"
                [] m = 4 -> "nick"    [] m = 5 -> "msg"  [] OTHER -> tok]

ErrorText == [ctx |-> "E", body |-> "expected"]

\* The text the client compares with; in phases 2 and 5 it takes any body.
Expected(p) ==
    CASE p \in {1, 3} -> "version" [] p = 4 -> token
      [] p = 6 -> "length"         [] OTHER -> "ACK"

\* The check reduced to the context letter.
PassesByContext(p, m) == m.ctx \in {"E", Context(p)}

\* The check of the data connection's token left out.
PassesAnyToken(p, m) ==
    \/ m.ctx = "E"
    \/ m.ctx = Context(p) /\ (p \in {2, 4, 5} \/ m.body = Expected(p))

\* checkMessage lets a text pass that is an error, and in phases 2 and 5 the
\* client calls it only for a text without the right context.
Passes(p, m) ==
    \/ m.ctx = "E"
    \/ /\ m.ctx = Context(p)
       /\ p \in {2, 5} \/ m.body = Expected(p)

-----------------------------------------------------------------------------
(* The client.                                                             *)

Init ==
    /\ pc = "connect" /\ phase = 1
    /\ recvbuf = <<>> /\ startOfNetstring = 1 /\ netStringsInBuf = 0
    /\ token = None
    /\ toClient = [fd \in Fds |-> <<>>]
    /\ toServer = [fd \in Fds |-> <<>>]
    /\ srvUp = TRUE /\ conn = FALSE /\ torn = {}
    /\ seen = 0 /\ replied = 0 /\ good = {}
    /\ srvToken = None /\ srvDToken = None

\* sendMessage: the result of write is ignored.
Send(m, tok) ==
    toServer' = [toServer EXCEPT ![SendFd(m)] = Append(@, ClientText(m, tok))]

\* assignment4 gives up without an exit status, and main returns 0.
BadAddress ==
    /\ "address" \in Faults
    /\ pc = "connect"
    /\ pc' = "done"
    /\ UNCHANGED <<phase, recvbuf, startOfNetstring, netStringsInBuf, token,
                   toClient, toServer, serverVars>>

Connect ==
    /\ pc = "connect"
    /\ pc' = "recv"
    /\ Send(1, token)
    /\ UNCHANGED <<phase, recvbuf, startOfNetstring, netStringsInBuf, token,
                   toClient, serverVars>>

\* socket, connect, bind or listen reports an error: exit(1).
LocalFailure ==
    /\ "local" \in Faults
    /\ pc \in {"connect", "listen"}
    /\ pc' = "exit"
    /\ UNCHANGED <<phase, recvbuf, startOfNetstring, netStringsInBuf, token,
                   toClient, toServer, serverVars>>

\* Phase 3 sets startOfNetstring before it reads; elsewhere updateNets did.
StartOfRead == IF phase = 3 THEN 1 ELSE startOfNetstring

\* recvMessage: one read returns k netstrings.  Each payload is written at
\* message_length, which is then advanced, and once more behind itself, so
\* the last one ends up in recvbuf twice.
RecvMessage ==
    /\ pc = "recv"
    /\ LET fd == FdOf(phase)
           queue == toClient[fd]
       IN \E k \in 1..Len(queue) :
            /\ recvbuf' = Append(SubSeq(queue, 1, k), queue[k])
            /\ netStringsInBuf' = k
            /\ toClient' = [toClient EXCEPT ![fd] = SubSeq(queue, k + 1, Len(queue))]
    /\ startOfNetstring' = StartOfRead
    /\ pc' = "check"
    /\ UNCHANGED <<phase, token, toServer, serverVars>>

\* The server's end of the stream, seen only on the data connection.
HungUpOnData ==
    ~srvUp /\ FdOf(phase) = "sdD" /\ toClient["sdD"] = <<>> /\ "sdD" \notin torn

\* The server closed its end, and everything before that is read.
HungUp == ~srvUp /\ toClient[FdOf(phase)] = <<>> /\ FdOf(phase) \notin torn

\* The timeout set on the wrong socket.
TimedOutOnControl == "slow" \in Faults /\ FdOf(phase) = "sdC"

\* The two seconds of set_socket_options are over: only sdD has that timeout.
TimedOut == "slow" \in Faults /\ FdOf(phase) = "sdD"

\* recvMessage cleared recvbuf and read nothing: the end of the stream (0, or
\* -1 after a reset) or the timeout (-1).
RecvNothing ==
    /\ pc = "recv"
    /\ \/ HungUp /\ netStringsInBuf' \in {0, -1}
       \/ TimedOut /\ netStringsInBuf' = -1
    /\ recvbuf' = <<>>
    /\ startOfNetstring' = StartOfRead
    /\ pc' = "check"
    /\ UNCHANGED <<phase, token, toClient, toServer, serverVars>>

\* A read gets to the piece of a netstring at the end of a torn stream.  If the
\* bytes of the payload are missing, readNet reads on: 0 means nothing to it, so
\* that it never stops.  It refuses the piece if there is no colon or only the
\* comma is missing, and after a reset (-1).
RecvTorn ==
    /\ pc = "recv"
    /\ FdOf(phase) \in torn
    /\ \/ pc' = "spins" /\ UNCHANGED toServer
       \/ /\ pc' = "exit"
          /\ toServer' = [toServer EXCEPT ![FdOf(phase)] = Append(@, ErrorText)]
    /\ toClient' = [toClient EXCEPT ![FdOf(phase)] = <<>>]
    /\ UNCHANGED <<phase, recvbuf, startOfNetstring, netStringsInBuf, token, serverVars>>

\* The string the client looks at next; past the strings there are only zeros.
Current ==
    IF startOfNetstring \in DOMAIN recvbuf
    THEN recvbuf[startOfNetstring]
    ELSE [ctx |-> "", body |-> "", n |-> 0]

CurrentPasses == pc = "check" /\ Passes(phase, Current)

\* The pointer one string too early, and the pointer left where it is.
UpdateNetsEarly(num, cur) == IF num = 0 THEN 0 ELSE cur + 1
UpdateNetsStays(num, cur) == IF num = 0 THEN 1 ELSE cur

\* updateNets(num, cur, buf)
UpdateNets(num, cur) == IF num = 0 THEN 1 ELSE cur + 1

\* Every answer read anew, the count ignored.
NextPcAlwaysReads(p, num) ==
    CASE p = 2 -> "listen" [] p = 7 -> "done" [] OTHER -> "recv"

\* A new read happens only when the count says that nothing is left.
NextPc(p, num) ==
    CASE p = 2 -> "listen"
      [] p = 7 -> "done"
      [] OTHER -> IF num = 0 THEN "recv" ELSE "check"

\* What follows every accepted answer: the count, the pointer, the next phase.
Advance ==
    /\ netStringsInBuf' = netStringsInBuf - 1
    /\ startOfNetstring' = UpdateNets(netStringsInBuf - 1, startOfNetstring)
    /\ phase' = phase + 1
    /\ pc' = NextPc(phase, netStringsInBuf - 1)
    /\ UNCHANGED recvbuf

\* Versions, token on the data connection, length: checked, then the next
\* message goes out.
CheckAndSend ==
    /\ phase \in {1, 3, 4, 6}
    /\ CurrentPasses
    /\ Advance
    /\ Send(IF phase = 6 THEN 6 ELSE phase + 1, token)
    /\ UNCHANGED <<token, toClient, serverVars>>

\* strcpy(token, startOfNetstring + 2)
TakeToken ==
    /\ phase = 2
    /\ CurrentPasses
    /\ Advance
    /\ token' = Current.body
    /\ UNCHANGED <<toClient, toServer, serverVars>>

\* The copy forgotten.
DataTokenStale == token

\* recvbuf + 2: the first string of the buffer, wherever startOfNetstring points.
DataToken == recvbuf[1].body

\* strcpy(token, recvbuf + 2), then the data connection is closed.
TakeDataToken ==
    /\ phase = 5
    /\ CurrentPasses
    /\ Advance
    /\ token' = DataToken
    /\ toClient' = [toClient EXCEPT !["sdD"] = <<>>]
    /\ UNCHANGED <<toServer, serverVars>>

CheckAck ==
    /\ phase = 7
    /\ CurrentPasses
    /\ Advance
    /\ UNCHANGED <<token, toClient, toServer, serverVars>>

\* checkMessage tells the server what it expected: exit(-1).
Reject ==
    /\ pc = "check"
    /\ ~CurrentPasses
    /\ pc' = "exit"
    /\ toServer' = [toServer EXCEPT ![FdOf(phase)] = Append(@, ErrorText)]
    /\ UNCHANGED <<phase, recvbuf, startOfNetstring, netStringsInBuf, token,
                   toClient, serverVars>>

\* SIGPIPE, which a second write to a connection the server closed raises.
BrokenPipe ==
    /\ ~srvUp
    /\ \/ pc = "listen"
       \/ CurrentPasses /\ phase \in {1, 3, 4, 6}
    /\ pc' = "exit"
    /\ UNCHANGED <<phase, recvbuf, startOfNetstring, netStringsInBuf, token,
                   toClient, toServer, serverVars>>

\* The listening socket exists; the server is told its port.
Listen ==
    /\ pc = "listen"
    /\ pc' = "accept"
    /\ Send(3, token)
    /\ UNCHANGED <<phase, recvbuf, startOfNetstring, netStringsInBuf, token,
                   toClient, serverVars>>

Accept ==
    /\ pc = "accept"
    /\ conn
    /\ pc' = "recv"
    /\ UNCHANGED <<phase, recvbuf, startOfNetstring, netStringsInBuf, token,
                   toClient, toServer, serverVars>>

\* The timeout of sdL, which a server that died leaves as the only way out.
AcceptTimeout ==
    /\ pc = "accept"
    /\ ~conn
    /\ ~srvUp \/ "slow" \in Faults
    /\ pc' = "exit"
    /\ UNCHANGED <<phase, recvbuf, startOfNetstring, netStringsInBuf, token,
                   toClient, toServer, serverVars>>

Client ==
    \/ BadAddress \/ Connect \/ LocalFailure
    \/ RecvMessage \/ RecvNothing \/ RecvTorn
    \/ CheckAndSend \/ TakeToken \/ TakeDataToken \/ CheckAck
    \/ Reject \/ BrokenPipe
    \/ Listen \/ Accept \/ AcceptTimeout

-----------------------------------------------------------------------------
(* The server.                                                             *)

\* It reads the message it waits for and hangs up on anything else.  The port
\* is followed by the connection to it.
ServerRead ==
    /\ srvUp
    /\ \E fd \in Fds :
         /\ toServer[fd] # <<>>
         /\ toServer' = [toServer EXCEPT ![fd] = Tail(@)]
         /\ IF /\ seen < 6
               /\ fd = SendFd(seen + 1)
               /\ Head(toServer[fd]) = ClientText(seen + 1, srvDToken)
            THEN /\ seen' = seen + 1
                 /\ UNCHANGED srvUp
            ELSE /\ srvUp' = FALSE
                 /\ UNCHANGED seen
    /\ UNCHANGED <<clientVars, toClient, conn, torn, replied, good, srvToken, srvDToken>>

ServerConnect ==
    /\ srvUp
    /\ seen >= 3
    /\ ~conn
    /\ pc = "accept"
    /\ conn' = TRUE
    /\ UNCHANGED <<clientVars, toClient, toServer, srvUp, torn, seen, replied, good,
                   srvToken, srvDToken>>

\* Answer p is due.
MayAnswer(p) ==
    /\ srvUp
    /\ replied = p - 1
    /\ p \in Eager \/ seen >= Need(p)
    /\ FdOf(p) = "sdD" => conn

Emit(p, ctx, body) ==
    /\ replied' = p
    /\ toClient' = [toClient EXCEPT ![FdOf(p)] =
                      Append(@, [ctx |-> ctx, body |-> body, n |-> p])]

\* The bodies a correct server may send as answer p.
RightBodies(p) ==
    CASE p \in {1, 3} -> {"version"} [] p \in {2, 5} -> Tokens
      [] p = 4 -> {srvToken}         [] p = 6 -> {"length"} [] OTHER -> {"ACK"}

ServerAnswer ==
    \E p \in 1..7 :
        /\ MayAnswer(p)
        /\ \E body \in RightBodies(p) :
             /\ Emit(p, Context(p), body)
             /\ srvToken' = IF p = 2 THEN body ELSE srvToken
             /\ srvDToken' = IF p = 5 THEN body ELSE srvDToken
        /\ good' = good \cup {p}
        /\ UNCHANGED <<clientVars, toServer, srvUp, conn, torn, seen>>

\* A wrong context, or a wrong body where the client knows the right one.
ServerMisbehaves ==
    /\ "bad" \in Faults
    /\ \E p \in 1..7 :
        /\ MayAnswer(p)
        /\ \/ \E body \in RightBodies(p) : Emit(p, "C", body)
           \/ p \notin {2, 5} /\ Emit(p, Context(p), "junk")
    /\ UNCHANGED <<clientVars, toServer, srvUp, conn, torn, seen, good, srvToken, srvDToken>>

ServerError ==
    /\ "error" \in Faults
    /\ \E p \in 1..7 : MayAnswer(p) /\ Emit(p, "E", "reason")
    /\ srvUp' = FALSE
    /\ UNCHANGED <<clientVars, toServer, conn, torn, seen, good, srvToken, srvDToken>>

\* Behind the first n netstrings of a connection there is another one, under
\* way or due, of which the client may get a piece.
MayTear(fd, n) ==
    \/ n < Len(toClient[fd])
    \/ \E p \in 1..7 : MayAnswer(p) /\ FdOf(p) = fd

\* What was still under way may be lost, from any byte on.
ServerCrash ==
    /\ "crash" \in Faults
    /\ srvUp
    /\ srvUp' = FALSE
    /\ \E c \in 0..Len(toClient["sdC"]), d \in 0..Len(toClient["sdD"]) :
         /\ toClient' = [fd \in Fds |->
                           SubSeq(toClient[fd], 1, IF fd = "sdC" THEN c ELSE d)]
         /\ torn' \in SUBSET {fd \in Fds : MayTear(fd, IF fd = "sdC" THEN c ELSE d)}
    /\ UNCHANGED <<clientVars, toServer, conn, seen, replied, good, srvToken, srvDToken>>

Server ==
    \/ ServerRead \/ ServerConnect \/ ServerAnswer
    \/ ServerMisbehaves \/ ServerError \/ ServerCrash

\* The client process is gone; its end is the end of the run.
Terminated ==
    /\ pc \in {"done", "exit"}
    /\ UNCHANGED vars

\* read returns 0 again and again, and strlen(src) stays as it is.
Spin ==
    /\ pc = "spins"
    /\ UNCHANGED vars

Next == Client \/ Server \/ Spin \/ Terminated

Spec == Init /\ [][Next]_vars

\* The client's process is scheduled and its blocking calls return; nothing is
\* asked of the server.
ClientFairSpec == Spec /\ WF_vars(Client)

\* The server, too, reads, connects and answers as long as it is up.
ServerFairness == WF_vars(ServerRead \/ ServerConnect \/ ServerAnswer)
FairSpec == ClientFairSpec /\ ServerFairness

-----------------------------------------------------------------------------
(* Properties.                                                             *)

\* Every variable stays in its range; in particular the pointer into recvbuf
\* and the count of netstrings stay within what one read can deliver.
Bodies ==
    {"version", "nick", "port", "msg", "expected", "length", "ACK", "junk", "reason",
     "", None} \cup Tokens

Strings == [ctx : {"S", "T", "C", "E"}, body : Bodies, n : 1..7]
Messages == [ctx : Fds \cup {"E"}, body : Bodies]

TypeOK ==
    /\ pc \in {"connect", "recv", "check", "listen", "accept", "done", "exit", "spins"}
    /\ phase \in 1..8
    /\ recvbuf \in Seq(Strings)
    /\ startOfNetstring \in Nat \ {0}
    /\ netStringsInBuf \in -1..4
    /\ token \in Bodies
    /\ toClient \in [Fds -> Seq(Strings)]
    /\ toServer \in [Fds -> Seq(Messages)]
    /\ srvUp \in BOOLEAN /\ conn \in BOOLEAN /\ torn \in SUBSET Fds
    /\ seen \in 0..6
    /\ replied \in 0..7
    /\ good \in SUBSET (1..7)
    /\ srvToken \in Tokens \cup {None}
    /\ srvDToken \in Tokens \cup {None}

\* However the netstrings are batched by the reads, the string at
\* startOfNetstring is the answer the client is waiting for: the duplicated
\* last payload is never taken for another answer, and no answer is skipped or
\* overwritten by a read that came too early (recvMessage, updateNets).
AnswersMatchPhases ==
    pc = "check" /\ netStringsInBuf >= 1 => Current.n = phase

\* The client is past a phase only if the server answered that phase
\* correctly: checkMessage reaches its "all good" for nothing else.
OnlyGoodAnswersPass == pc # "exit" => 1..(phase - 1) \subseteq good

\* Once the data connection is over, token[] is the data token of the server,
\* which the client echoes on the control connection (line 395).
DtokenEchoed == phase >= 6 /\ pc # "exit" => token = srvDToken

\* A normal return means that the server has the text and confirmed it.
abstractText ==
    IF 7 \in good THEN "acknowledged" ELSE IF seen >= 5 THEN "server" ELSE "client"
abstractOutcome ==
    CASE pc = "done" -> "ok" [] pc = "exit" -> "failed" [] OTHER -> "running"

H == INSTANCE Handoff WITH text <- abstractText, outcome <- abstractOutcome

HandoffSpec == H!Spec

\* The busy loop of readNet (assignment4.c:142-149): the server is gone, and the
\* connection that the client reads ended inside a netstring.
Spinning == pc = "spins" /\ ~srvUp /\ FdOf(phase) \in torn

\* A server that reads and answers as long as it is up, rightly or not, and may
\* go down at any time, gets the client to its end: an answer, a hang-up behind
\* a netstring or a timeout takes it out of every read.  The one way to stay is
\* a hang-up inside a netstring, after which readNet may read for ever.
Ends == <>(pc \in {"done", "exit"} \/ Spinning)

\* The data connection needs no help from the server for that: the timeouts of
\* sdL and sdD end it (set_socket_options), unless the server goes down inside
\* a netstring on it, where read returns 0 at once and no timeout comes.
DataPhaseEnds ==
    phase \in 3..5 /\ pc # "listen" ~> phase \notin 3..5 \/ pc = "exit" \/ Spinning
=============================================================================
