------------------------------ MODULE Checksum -----------------------------
(***************************************************************************)
(* icmp6_checksum (assignment2/libraw/src/checksum.c), and what it is to   *)
(* agree with: the sum of RFC 1071, with which the other end verifies what *)
(* trace6 sends and computes what trace6 checks.                           *)
(*                                                                         *)
(* The code adds words as a little-endian host loads them and lets carries *)
(* gather in a long; the RFC adds big-endian words and brings each carry   *)
(* around at once.  A byte is a number below Byte, 256 in the program.     *)
(***************************************************************************)
EXTENDS Integers, Sequences, FiniteSetsExt

CONSTANTS
    Byte,
    NextHeader  \* of ICMPv6: 58

ASSUME ByteAssumption == Byte \in Nat /\ Byte > 1 /\ NextHeader \in 0..(Byte - 1)

WordMod == Byte * Byte

\* Addresses, length, and the next header.
pseudo_hdr(addresses, len) ==
    addresses \o <<0, 0, len \div Byte, len % Byte, 0, 0, 0, NextHeader>>

Words(bytes) ==
    FoldSet(LAMBDA k, sum : sum + bytes[2 * k + 1] + Byte * bytes[2 * k + 2],
            0, 0..((Len(bytes) \div 2) - 1))

\* Variant: the last byte of an uneven length is left out.
OddLeftOut(bytes) == 0

Odd(bytes) == IF Len(bytes) % 2 = 1 THEN bytes[Len(bytes)] ELSE 0

\* Variant: the carry of the carry is lost.
CarryOnce(sum) == ((sum \div WordMod) + (sum % WordMod)) % WordMod

\* while (sum >> 16)
Carry(sum) ==
    LET fold[s \in Nat] ==
          IF s < WordMod THEN s ELSE fold[(s \div WordMod) + (s % WordMod)]
    IN fold[sum]

\* The two bytes of the result as they lie in memory.
icmp6_checksum(addresses, payload) ==
    LET sum == Carry(Words(pseudo_hdr(addresses, Len(payload))) + Words(payload) + Odd(payload))
        inverted == WordMod - 1 - sum
    IN <<inverted % Byte, inverted \div Byte>>

-----------------------------------------------------------------------------
(* RFC 1071.                                                               *)

OnesPlus(a, b) == ((a + b) % WordMod) + ((a + b) \div WordMod)

OnesSum(bytes) ==
    LET big(k) == Byte * bytes[2 * k + 1]
                    + (IF 2 * k + 2 <= Len(bytes) THEN bytes[2 * k + 2] ELSE 0)
    IN FoldSet(LAMBDA k, sum : OnesPlus(sum, big(k)), 0, 0..(((Len(bytes) + 1) \div 2) - 1))

\* What a receiver asks of a message with its checksum.
Verifies(addresses, message) ==
    OnesSum(pseudo_hdr(addresses, Len(message)) \o message) = WordMod - 1

\* A message with its checksum put into the third and fourth byte.
WithSum(addresses, message) ==
    LET sum == WordMod - 1 - OnesSum(pseudo_hdr(addresses, Len(message)) \o message)
    IN [message EXCEPT ![3] = sum \div Byte, ![4] = sum % Byte]
=============================================================================
