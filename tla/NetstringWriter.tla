-------------------------- MODULE NetstringWriter --------------------------
(***************************************************************************)
(* countDigits, writeNet and sendMessage (assignment4/src/assignment4.c:   *)
(* 80-113, 167-173): the bytes that go out for a message.                  *)
(*                                                                         *)
(* writeNet reads len in the same expression that assigns it, so the       *)
(* digits it leaves room for are those of bufSize or those of the length;  *)
(* both are 4 where it matters.  The longest messages that it accepts take *)
(* one or two bytes more than dest has, counting the 0 byte at their end.  *)
(***************************************************************************)
EXTENDS Integers, Sequences, SequencesExt

Nul == "NUL"
Comma == ","
Unknown == "?"  \* what the memory behind a buffer holds
Digits == <<"0", "1", "2", "3", "4", "5", "6", "7", "8", "9">>

\* Variant: the zeroth digit is not counted.
countFurtherDigits(c) ==
    LET count[n \in Nat] == IF n < 10 THEN 0 ELSE 1 + count[n \div 10] IN count[c]

countDigits(c) ==
    LET count[n \in Nat] == IF n < 10 THEN 1 ELSE 1 + count[n \div 10] IN count[c]

\* "%ld"
Decimal(c) ==
    LET text[n \in Nat] ==
          IF n < 10 THEN <<Digits[n + 1]>> ELSE Append(text[n \div 10], Digits[(n % 10) + 1])
    IN text[c]

Accepted(bufSize, len) == len < bufSize - countDigits(len)

\* The string in dest, and the result.
writeNet(bufSize, src) ==
    [ dest |-> IF Accepted(bufSize, Len(src))
               THEN Decimal(Len(src)) \o <<":">> \o src \o <<Comma>>
               ELSE <<"0", ":">>,
      result |-> Len(src) + countDigits(Len(src)) + 1 ]

\* The bytes that are written: a string in a buffer of zeros, and perhaps
\* what is behind it.
sendMessage(bufSize, m) ==
    LET net == writeNet(bufSize, m)
        byte(k) == IF k <= Len(net.dest) THEN net.dest[k]
                   ELSE IF k <= bufSize THEN Nul ELSE Unknown
    IN [k \in 1..(net.result + 1) |-> byte(k)]
=============================================================================
