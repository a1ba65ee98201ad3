------------------------------ MODULE MCTrace6 -----------------------------
(* Frames that reach the host besides the answers: one for each thing that *)
(* checkMessage looks at, and messages of every length from 8 to 11 bytes  *)
(* whose sums carry not at all, once and twice.                            *)
EXTENDS Trace6

Addresses ==
    [ me |-> <<1, 5>>, dst |-> <<5, 5>>, router |-> <<0, 2>>, stranger |-> <<5, 4>> ]

Message(type, id, rest) == <<type, 0, 0, 0, id, 0, 0, 0>> \o rest

Other(message, quirks) ==
    [src |-> "stranger", icmp |-> WithSum(From("stranger"), message), quirks |-> quirks]

Reply == Message(icmpEchoRep, icmpID, <<>>)

Strangers ==
    { Other(Reply, {}), Other(Message(icmpEchoRep, 1, <<>>), {}),
      [Other(Reply, {}) EXCEPT !.icmp[3] = (@ + 1) % Byte],
      Other(Reply, {"other"}), Other(Reply, {"class"}), Other(Reply, {"udp"}),
      Other(Message(icmpTimeEx, 0, <<>>), {"extension"}),
      Other(Message(icmpTimeEx, 0, <<>>), {"endless"}) }

Lengths ==
    { Other(Message(icmpDestUnreach, 0, rest), {}) :
        rest \in { <<>>, <<5>>, <<5, 5>>, <<5, 5, 5>>, <<0, 5, 3>>, <<1, 0, 5>> } }

\* Its checksum is 0, which the RFC lets the sender write as all ones.
WrittenAsOnes ==
    [Other(Message(icmpDestUnreach, 0, <<0, 5>>), {}) EXCEPT !.icmp[3] = Byte - 1, !.icmp[4] = Byte - 1]

Frames == Strangers \cup Lengths \cup {WrittenAsOnes}
=============================================================================
