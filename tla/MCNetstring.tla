---------------------------- MODULE MCNetstring ----------------------------
(* Streams for NetstringReader: one and two digit lengths, one to three    *)
(* netstrings, the longest that fits once and twice, and what has no room  *)
(* for its second copy, commas, and what a peer may get wrong about them.  *)
EXTENDS NetstringReader

Stream(payloads, rest) ==
    LET net(p) == Decimal(Len(p)) \o <<":">> \o p \o <<Comma>>
        wire == [i \in DOMAIN payloads |-> net(payloads[i])]
    IN [bytes |-> FlattenSeq(wire) \o rest,
        payloads |-> payloads,
        ends |-> [i \in 0..Len(payloads) |-> Len(FlattenSeq(SubSeq(wire, 1, i)))]]

abc == <<"a", "b", "c">>
nine == <<"a", "b", "c", "d", "e", "f", "g", "h", "i">>
ten == <<"a", "b", "c", "d", "e", "f", "g", "h", "i", "a">>
Hs(n) == [k \in 1..n |-> "h"]
long == Hs(BufSize - 5)
half == Hs(BufSize \div 2)
longestTwice == Hs(BufSize \div 2 - 3)

WellFormed ==
    { Stream(<<nine>>, <<>>), Stream(<<ten, abc>>, <<>>),
      Stream(<<abc, <<"d", ":">>, <<"e">> >>, <<>>) }

AtTheLimits ==
    { Stream(<<long>>, <<>>), Stream(<<half>>, <<>>), Stream(<<longestTwice>>, <<>>),
      Stream(<<nine, nine>>, <<>>), Stream(<<ten, ten, abc>>, <<>>),
      Stream(<< <<"a", ",", "b">>, <<",">> >>, <<>>),
      Stream(<< <<",", ",", "9", "9", ":", "a">> >>, <<>>) }

\* A leading zero, a colon behind the comma or missing, a netstring that is
\* not complete, a length that does not fit the buffer, and what becomes of a
\* message that is too long.
Broken ==
    { Stream(<<>>, sendMessage(BufSize, long \o abc)),
      Stream(<<abc>>, <<"0", "3", ":", "a", "b", "c", ",">>),
      Stream(<<abc>>, <<"2", ",", ":", "a">>),
      Stream(<<>>, <<"a", "b">>),
      Stream(<<>>, <<"7", ":", "a", "b">>),
      Stream(<<abc>>, <<"9", "9", ":", "a">>) }

AllBytes ==
    ToSet(Digits) \cup {"a", "b", "c", "d", "e", "f", "g", "h", "i", ":", ",", Nul, Unknown}

AllStreams == WellFormed \cup AtTheLimits \cup Broken
=============================================================================
