------------------------- MODULE AsciiClientProofs -------------------------
(***************************************************************************)
(* Proofs about AsciiClient, for every set of tokens, every set of answers *)
(* the server may send early and every set of faults.                      *)
(*                                                                         *)
(* The argument counts.  What the client took from a connection and what   *)
(* is under way on it never exceeds what the server answered there (Flow), *)
(* the server answers nothing it was not asked for (Order), and the client *)
(* asked only for what its phase implies (Count).  So a read can return    *)
(* more netstrings than one only where the server may answer early, and    *)
(* the strings in recvbuf carry the numbers of the client's next phases    *)
(* (Batch).                                                                *)
(***************************************************************************)
EXTENDS AsciiClient, SequenceTheorems, Induction, TLAPS

-----------------------------------------------------------------------------
(* The inductive invariant.                                                *)

\* Netstrings in recvbuf that the client has not looked at.
Unchecked == IF pc = "check" /\ netStringsInBuf > 0 THEN netStringsInBuf ELSE 0

\* How many netstrings the client read on each connection, by its phase.
ReadC ==
    IF phase <= 2 THEN phase - 1 + Unchecked
    ELSE IF phase <= 5 THEN 2 ELSE phase - 4 + Unchecked
ReadD ==
    IF phase <= 2 THEN 0
    ELSE IF phase <= 5 THEN phase - 3 + Unchecked ELSE 3

\* How many answers the server sent on each.
AnsweredC == IF replied <= 2 THEN replied ELSE IF replied <= 5 THEN 2 ELSE replied - 3
AnsweredD == IF replied <= 2 THEN 0 ELSE IF replied <= 5 THEN replied - 2 ELSE 3

\* The number of the k-th answer on the control connection; on the data
\* connection it is k + 2.
NthC(k) == IF k <= 2 THEN k ELSE k + 3

Flow ==
    pc # "exit" =>
        /\ ReadC + Len(toClient["sdC"]) <= AnsweredC
        /\ ReadD + Len(toClient["sdD"]) <= AnsweredD
        /\ srvUp => /\ ReadC + Len(toClient["sdC"]) = AnsweredC
                    /\ ReadD + Len(toClient["sdD"]) = AnsweredD
        /\ \A i \in 1..Len(toClient["sdC"]) : toClient["sdC"][i].n = NthC(ReadC + i)
        /\ \A i \in 1..Len(toClient["sdD"]) : toClient["sdD"][i].n = ReadD + i + 2

\* The client's messages, as many as its phase implies.
Sent ==
    IF pc = "connect" THEN 0
    ELSE IF pc = "listen" THEN 2
    ELSE IF phase <= 5 THEN phase ELSE IF phase = 6 THEN 5 ELSE 6

Count ==
    pc # "exit" => seen + Len(toServer["sdC"]) + Len(toServer["sdD"]) <= Sent

Order ==
    /\ conn => seen >= 3
    /\ replied >= 3 => conn
    /\ replied >= 1 => seen >= 1
    /\ replied >= 6 => seen >= 5
    /\ replied >= 7 => seen >= 6
    /\ replied >= 5 /\ 5 \notin Eager => seen >= 5
    /\ good \subseteq 1..replied
    /\ torn # {} => ~srvUp

Batch ==
    /\ pc \in {"connect", "recv"} /\ phase # 3 => startOfNetstring = 1
    /\ pc = "connect" => phase = 1
    /\ pc \in {"listen", "accept"} => phase = 3
    /\ pc \in {"recv", "check"} => phase <= 7
    /\ pc = "check" =>
         /\ netStringsInBuf <= 0 => recvbuf = <<>>
         /\ netStringsInBuf >= 1 =>
              /\ startOfNetstring + netStringsInBuf = Len(recvbuf)
              /\ \A j \in 0..(netStringsInBuf - 1) :
                    recvbuf[startOfNetstring + j].n = phase + j
    /\ pc = "done" => phase = 8 \/ "address" \in Faults
    /\ pc = "check" /\ phase = 5 /\ 5 \notin Eager => startOfNetstring = 1

IInv == TypeOK /\ Order /\ Count /\ Flow /\ Batch

\* What the server sent is correct, or the client will refuse it.
Honest(m) ==
    /\ m.n \in good
    /\ m.n \in {2, 5} => m.body \in Tokens
    /\ m.n = 5 => m.body = srvDToken

Refused(m) == m.ctx = "C" \/ (m.ctx # "E" /\ m.n \notin {2, 5} /\ m.body = "junk")

Fit(m) == m.n <= replied /\ (Honest(m) \/ Refused(m))

Contents ==
    /\ \A fd \in Fds : \A i \in 1..Len(toClient[fd]) : Fit(toClient[fd][i])
    /\ \A i \in 1..Len(recvbuf) : Fit(recvbuf[i])

TokenKnown == phase \in 3..5 /\ pc # "exit" => token \in Tokens

CInv ==
    /\ Contents
    /\ TokenKnown
    /\ OnlyGoodAnswersPass
    /\ 5 \notin Eager => DtokenEchoed

-----------------------------------------------------------------------------
(* Lemmas about the channels and the texts.                                *)

\* One more message under way, one more message sent.
LEMMA CountStep ==
  ASSUME NEW s \in Nat, NEW a \in Nat, NEW b \in Nat, NEW aa \in Nat, NEW bb \in Nat,
         NEW limit \in Nat, aa + bb = a + b + 1, s + a + b <= limit
  PROVE  s + aa + bb <= limit + 1
  OBVIOUS

\* A message under way is taken, or the counts stay below a larger limit.
LEMMA TakeStep ==
  ASSUME NEW r \in Int, NEW k \in Int, NEW l \in Int
  PROVE  (r + k) + (l - k) = r + l
  OBVIOUS

LEMMA CountBelow ==
  ASSUME NEW s \in Nat, NEW a \in Nat, NEW b \in Nat, NEW limit \in Nat,
         NEW limit2 \in Nat, s + a + b <= limit, limit <= limit2
  PROVE  s + a + b <= limit2
  OBVIOUS

LEMMA ClientTextType ==
  ASSUME NEW m \in 1..6, NEW tok \in Bodies
  PROVE  ClientText(m, tok) \in Messages /\ ErrorText \in Messages
  BY DEF ClientText, ErrorText, Messages, Bodies, Fds, SendFd

LEMMA SendType ==
  ASSUME TypeOK, NEW fd \in Fds, NEW x \in Messages,
         toServer' = [toServer EXCEPT ![fd] = Append(@, x)]
  PROVE  /\ toServer' \in [Fds -> Seq(Messages)]
         /\ Len(toServer'["sdC"]) \in Nat /\ Len(toServer'["sdD"]) \in Nat
         /\ Len(toServer'["sdC"]) + Len(toServer'["sdD"])
              = Len(toServer["sdC"]) + Len(toServer["sdD"]) + 1
  <1>1. /\ toServer[fd] \in Seq(Messages)
        /\ "sdC" \in Fds /\ "sdD" \in Fds
        /\ fd = "sdC" \/ fd = "sdD"
    BY DEF TypeOK, Fds
  <1>2. /\ Append(toServer[fd], x) \in Seq(Messages)
        /\ Len(Append(toServer[fd], x)) = Len(toServer[fd]) + 1
    BY <1>1, AppendProperties
  <1>3. toServer["sdC"] \in Seq(Messages) /\ toServer["sdD"] \in Seq(Messages)
    BY <1>1 DEF TypeOK
  <1>4. Len(toServer["sdC"]) \in Nat /\ Len(toServer["sdD"]) \in Nat
    BY <1>3, LenProperties
  <1>5. CASE fd = "sdC"
    <2>1. /\ toServer'["sdC"] = Append(toServer["sdC"], x)
          /\ toServer'["sdD"] = toServer["sdD"]
      BY <1>1, <1>5 DEF TypeOK
    <2> QED
      BY <1>1, <1>2, <1>4, <1>5, <2>1 DEF TypeOK
  <1>6. CASE fd = "sdD"
    <2>1. /\ toServer'["sdD"] = Append(toServer["sdD"], x)
          /\ toServer'["sdC"] = toServer["sdC"]
      BY <1>1, <1>6 DEF TypeOK
    <2> QED
      BY <1>1, <1>2, <1>4, <1>6, <2>1 DEF TypeOK
  <1> QED
    BY <1>1, <1>5, <1>6

\* What Emit does to the channel it writes to.
LEMMA EmitType ==
  ASSUME TypeOK, NEW p \in 1..7, NEW ctx \in {"S", "T", "C", "E"},
         NEW body \in Bodies, Emit(p, ctx, body)
  PROVE  LET fd == FdOf(p)
             m == [ctx |-> ctx, body |-> body, n |-> p]
         IN /\ toClient' \in [Fds -> Seq(Strings)]
            /\ Len(toClient'[fd]) = Len(toClient[fd]) + 1
            /\ \A i \in 1..Len(toClient[fd]) : toClient'[fd][i] = toClient[fd][i]
            /\ toClient'[fd][Len(toClient[fd]) + 1] = m
            /\ \A other \in Fds \ {fd} : toClient'[other] = toClient[other]
            /\ Len(toClient["sdC"]) \in Nat /\ Len(toClient["sdD"]) \in Nat
  <1> DEFINE fd == FdOf(p)
             m == [ctx |-> ctx, body |-> body, n |-> p]
  <1>1. m \in Strings /\ fd \in Fds
    BY DEF Strings, FdOf, Fds
  <1>2. toClient \in [Fds -> Seq(Strings)] /\ toClient[fd] \in Seq(Strings)
    BY <1>1 DEF TypeOK
  <1>3. toClient' = [toClient EXCEPT ![fd] = Append(toClient[fd], m)]
    BY DEF Emit
  <1> HIDE DEF fd, m
  <1>4. /\ Append(toClient[fd], m) \in Seq(Strings)
        /\ Len(Append(toClient[fd], m)) = Len(toClient[fd]) + 1
        /\ \A i \in 1..Len(toClient[fd]) : Append(toClient[fd], m)[i] = toClient[fd][i]
        /\ Append(toClient[fd], m)[Len(toClient[fd]) + 1] = m
    BY <1>1, <1>2, AppendProperties
  <1>5. toClient["sdC"] \in Seq(Strings) /\ toClient["sdD"] \in Seq(Strings)
    BY <1>2 DEF Fds
  <1>6. Len(toClient["sdC"]) \in Nat /\ Len(toClient["sdD"]) \in Nat
    BY <1>5, LenProperties
  <1>7. /\ toClient' \in [Fds -> Seq(Strings)]
        /\ toClient'[fd] = Append(toClient[fd], m)
        /\ \A other \in Fds \ {fd} : toClient'[other] = toClient[other]
    BY <1>1, <1>2, <1>3, <1>4
  <1> QED
    BY <1>4, <1>6, <1>7 DEF fd, m

\* A prefix and a suffix of a channel.
LEMMA Cut ==
  ASSUME NEW q \in Seq(Strings), NEW k \in 0..Len(q)
  PROVE  /\ SubSeq(q, 1, k) \in Seq(Strings)
         /\ Len(SubSeq(q, 1, k)) = k
         /\ \A i \in 1..k : SubSeq(q, 1, k)[i] = q[i]
         /\ SubSeq(q, k + 1, Len(q)) \in Seq(Strings)
         /\ Len(SubSeq(q, k + 1, Len(q))) = Len(q) - k
         /\ \A i \in 1..(Len(q) - k) : SubSeq(q, k + 1, Len(q))[i] = q[k + i]
  <1>1. Len(q) \in Nat /\ \A i \in 1..Len(q) : q[i] \in Strings
    BY LenProperties, ElementOfSeq
  <1>2. /\ SubSeq(q, 1, k) \in Seq(Strings)
        /\ Len(SubSeq(q, 1, k)) = k
        /\ \A i \in 1..k : SubSeq(q, 1, k)[i] = q[i]
    <2>1. 1 \in Int /\ k \in Int /\ \A i \in 1..k : q[i] \in Strings
      BY <1>1
    <2>2. /\ SubSeq(q, 1, k) \in Seq(Strings)
          /\ Len(SubSeq(q, 1, k)) = IF 1 <= k THEN k - 1 + 1 ELSE 0
          /\ \A i \in 1..(k - 1 + 1) : SubSeq(q, 1, k)[i] = q[1 + i - 1]
      BY <2>1, SubSeqProperties
    <2> QED
      BY <1>1, <2>2
  <1>3. /\ SubSeq(q, k + 1, Len(q)) \in Seq(Strings)
        /\ Len(SubSeq(q, k + 1, Len(q))) = Len(q) - k
        /\ \A i \in 1..(Len(q) - k) : SubSeq(q, k + 1, Len(q))[i] = q[k + i]
    <2>1. k + 1 \in Int /\ Len(q) \in Int /\ \A i \in (k + 1)..Len(q) : q[i] \in Strings
      BY <1>1
    <2>2. /\ SubSeq(q, k + 1, Len(q)) \in Seq(Strings)
          /\ Len(SubSeq(q, k + 1, Len(q)))
               = IF k + 1 <= Len(q) THEN Len(q) - (k + 1) + 1 ELSE 0
          /\ \A i \in 1..(Len(q) - (k + 1) + 1) :
                SubSeq(q, k + 1, Len(q))[i] = q[k + 1 + i - 1]
      BY <2>1, SubSeqProperties
    <2> QED
      BY <1>1, <2>2
  <1> QED
    BY <1>2, <1>3

-----------------------------------------------------------------------------
(* Counting: IInv is an invariant.                                         *)

LEMMA InitIInv == Init => IInv
  <1> SUFFICES ASSUME Init PROVE IInv
    OBVIOUS
  <1>1. TypeOK
    <2>1. <<>> \in Seq(Strings) /\ <<>> \in Seq(Messages)
      BY EmptySeq
    <2>2. /\ toClient \in [Fds -> Seq(Strings)]
          /\ toServer \in [Fds -> Seq(Messages)]
      BY <2>1 DEF Init
    <2>3. recvbuf \in Seq(Strings)
      BY <2>1 DEF Init
    <2>4. None \in Bodies
      BY DEF Bodies
    <2>5. /\ pc \in {"connect", "recv", "check", "listen", "accept", "done", "exit"}
          /\ phase \in 1..8
          /\ startOfNetstring \in Nat \ {0}
          /\ netStringsInBuf \in -1..4
          /\ token \in Bodies
      BY <2>4 DEF Init
    <2>6. srvUp \in BOOLEAN /\ conn \in BOOLEAN
      BY Zenon DEF Init
    <2>9. torn \in SUBSET Fds
      BY DEF Init
    <2>8. seen \in 0..6 /\ replied \in 0..7
      BY DEF Init
    <2>7. /\ good \in SUBSET (1..7)
          /\ srvToken \in Tokens \cup {None}
          /\ srvDToken \in Tokens \cup {None}
      BY DEF Init
    <2> QED
      BY <2>2, <2>3, <2>5, <2>6, <2>7, <2>8, <2>9 DEF TypeOK
  <1>2. Order /\ Count /\ Flow /\ Batch
    BY DEF Init, Order, Count, Flow, Batch, ReadC, ReadD, Unchecked, AnsweredC,
           AnsweredD, Sent, Fds
  <1> QED
    BY <1>1, <1>2 DEF IInv

\* The parts of the invariant that the arithmetic below uses.
LEMMA Numbers ==
  ASSUME IInv
  PROVE  /\ phase \in 1..8 /\ seen \in 0..6 /\ replied \in 0..7
         /\ netStringsInBuf \in -1..4 /\ startOfNetstring \in Nat \ {0}
         /\ Len(toClient["sdC"]) \in Nat /\ Len(toClient["sdD"]) \in Nat
         /\ Len(toServer["sdC"]) \in Nat /\ Len(toServer["sdD"]) \in Nat
         /\ toClient["sdC"] \in Seq(Strings) /\ toClient["sdD"] \in Seq(Strings)
         /\ recvbuf \in Seq(Strings) /\ Len(recvbuf) \in Nat
  <1>1. /\ toServer["sdC"] \in Seq(Messages) /\ toServer["sdD"] \in Seq(Messages)
        /\ toClient["sdC"] \in Seq(Strings) /\ toClient["sdD"] \in Seq(Strings)
        /\ recvbuf \in Seq(Strings)
    BY DEF IInv, TypeOK, Fds
  <1>2. /\ phase \in 1..8 /\ seen \in 0..6 /\ replied \in 0..7
        /\ netStringsInBuf \in -1..4 /\ startOfNetstring \in Nat \ {0}
    BY DEF IInv, TypeOK
  <1> QED
    BY <1>1, <1>2, LenProperties

LEMMA CountsAreInts ==
  ASSUME IInv
  PROVE  ReadC \in Int /\ ReadD \in Int /\ AnsweredC \in Int /\ AnsweredD \in Int
  <1>. phase \in Int /\ netStringsInBuf \in Int /\ replied \in Int
    BY Numbers
  <1>1. Unchecked \in Int
    BY DEF Unchecked
  <1>2. ReadC \in Int
    BY <1>1 DEF ReadC
  <1>3. ReadD \in Int
    BY <1>1 DEF ReadD
  <1>4. AnsweredC \in Int /\ AnsweredD \in Int
    BY DEF AnsweredC, AnsweredD
  <1> QED
    BY <1>2, <1>3, <1>4

\* The server cannot be ahead of what the client asked for.
LEMMA NotAhead ==
  ASSUME IInv, pc # "exit"
  PROVE  /\ seen <= Sent
         /\ phase <= 2 => replied <= 2
         /\ phase <= 4 => replied <= 5
         /\ phase <= 4 /\ 5 \notin Eager => replied <= 4
         /\ phase <= 6 => replied <= 6
  <1>1. seen <= Sent
    <2>1. Sent \in Nat
      BY Numbers DEF Sent
    <2>2. seen + Len(toServer["sdC"]) + Len(toServer["sdD"]) <= Sent
      BY DEF IInv, Count
    <2>3. seen \in Nat /\ Len(toServer["sdC"]) \in Nat /\ Len(toServer["sdD"]) \in Nat
      BY Numbers
    <2> HIDE DEF Sent
    <2> DEFINE a == Len(toServer["sdC"])
    <2> DEFINE b == Len(toServer["sdD"])
    <2>4. a \in Nat /\ b \in Nat /\ seen \in Nat /\ seen + a + b <= Sent
      BY <2>2, <2>3
    <2> HIDE DEF a, b
    <2> QED
      BY <2>1, <2>4
  <1>2. /\ phase \in 1..8 /\ seen \in 0..6 /\ replied \in 0..7
        /\ Order /\ Batch /\ seen <= Sent
    BY <1>1, Numbers DEF IInv
  <1> QED
    BY <1>2 DEF Order, Sent, Batch

\* The string the client accepts is a real one, and the answer it waits for.
LEMMA CheckedString ==
  ASSUME IInv, CurrentPasses
  PROVE  /\ phase \in 1..7
         /\ netStringsInBuf \in 1..4
         /\ startOfNetstring \in 1..Len(recvbuf)
         /\ Current = recvbuf[startOfNetstring]
         /\ Current \in Strings
         /\ Current.n = phase
         /\ recvbuf[1] \in Strings
         /\ startOfNetstring + netStringsInBuf = Len(recvbuf)
         /\ \A j \in 0..(netStringsInBuf - 1) :
                recvbuf[startOfNetstring + j].n = phase + j
  <1>1. pc = "check" /\ phase \in 1..7
    BY DEF CurrentPasses, IInv, TypeOK, Batch
  <1>2. /\ recvbuf \in Seq(Strings)
        /\ Len(recvbuf) \in Nat
        /\ DOMAIN recvbuf = 1..Len(recvbuf)
    BY LenProperties DEF IInv, TypeOK
  <1>3. netStringsInBuf \in 1..4
    <2>1. recvbuf # <<>>
      <3> SUFFICES ASSUME recvbuf = <<>> PROVE FALSE
        OBVIOUS
      <3>1. startOfNetstring \notin DOMAIN recvbuf
        OBVIOUS
      <3>2. Current.ctx = ""
        BY <3>1 DEF Current
      <3> QED
        BY <3>2 DEF CurrentPasses, Passes, Context
    <2> QED
      BY <1>1, <2>1, Numbers DEF IInv, Batch
  <1>4. /\ netStringsInBuf \in 1..4
        /\ startOfNetstring \in Nat \ {0}
        /\ startOfNetstring + netStringsInBuf = Len(recvbuf)
        /\ \A j \in 0..(netStringsInBuf - 1) :
              recvbuf[startOfNetstring + j].n = phase + j
    BY <1>1, <1>3, Numbers DEF IInv, Batch
  <1>5. startOfNetstring \in 1..Len(recvbuf) /\ 1 \in 1..Len(recvbuf)
    BY <1>2, <1>4
  <1>6. recvbuf[startOfNetstring] \in Strings /\ recvbuf[1] \in Strings
    BY <1>2, <1>5, ElementOfSeq
  <1>7. Current = recvbuf[startOfNetstring]
    BY <1>2, <1>5 DEF Current
  <1>8. recvbuf[startOfNetstring].n = phase
    <2>1. 0 \in 0..(netStringsInBuf - 1) /\ startOfNetstring + 0 = startOfNetstring
      BY <1>4
    <2>2. recvbuf[startOfNetstring + 0].n = phase + 0
      BY <1>4, <2>1
    <2> QED
      BY <1>1, <2>1, <2>2
  <1> QED
    BY <1>1, <1>4, <1>5, <1>6, <1>7, <1>8

\* The netstrings left in the buffer are those of the connection that the next
\* phase reads: advancing loses none and takes none for another.
LEMMA AdvanceReads ==
  ASSUME IInv, CurrentPasses, Advance
  PROVE  /\ ReadC' = ReadC /\ ReadD' = ReadD
         /\ phase \in {2, 5, 7} => netStringsInBuf = 1
         /\ Batch'
         /\ phase' \in 1..8
         /\ pc' \in {"recv", "check", "listen", "done"}
         /\ startOfNetstring' \in Nat \ {0}
         /\ netStringsInBuf' \in -1..4
  <1>1. /\ phase \in 1..7 /\ pc = "check" /\ netStringsInBuf \in 1..4
        /\ startOfNetstring \in Nat \ {0}
        /\ startOfNetstring + netStringsInBuf = Len(recvbuf)
        /\ \A j \in 0..(netStringsInBuf - 1) :
              recvbuf[startOfNetstring + j].n = phase + j
    BY CheckedString DEF CurrentPasses, IInv, TypeOK
  <1>2. /\ ReadC <= AnsweredC /\ ReadD <= AnsweredD
    <2>1. ReadC \in Int /\ ReadD \in Int /\ AnsweredC \in Int /\ AnsweredD \in Int
      BY CountsAreInts
    <2>2. /\ ReadC + Len(toClient["sdC"]) <= AnsweredC
          /\ ReadD + Len(toClient["sdD"]) <= AnsweredD
      BY <1>1 DEF IInv, Flow
    <2>3. Len(toClient["sdC"]) \in Nat /\ Len(toClient["sdD"]) \in Nat
      BY Numbers
    <2> QED
      BY <2>1, <2>2, <2>3
  <1>3. /\ phase <= 2 => replied <= 2
        /\ phase <= 4 /\ 5 \notin Eager => replied <= 4
        /\ replied \in 0..7
    BY <1>1, NotAhead DEF IInv, TypeOK
  <1>4. phase \in {2, 5, 7} => netStringsInBuf = 1
    BY <1>1, <1>2, <1>3 DEF ReadC, ReadD, Unchecked, AnsweredC, AnsweredD
  <1>5. /\ phase' = phase + 1 /\ netStringsInBuf' = netStringsInBuf - 1
        /\ recvbuf' = recvbuf
        /\ startOfNetstring' = IF netStringsInBuf = 1 THEN 1 ELSE startOfNetstring + 1
        /\ phase = 2 => pc' = "listen"
        /\ phase = 7 => pc' = "done"
        /\ phase \notin {2, 7} => pc' = IF netStringsInBuf = 1 THEN "recv" ELSE "check"
    BY <1>1 DEF Advance, NextPc, UpdateNets
  <1>6. ReadC' = ReadC /\ ReadD' = ReadD
    BY <1>1, <1>4, <1>5 DEF ReadC, ReadD, Unchecked
  <1>7. phase = 4 /\ 5 \notin Eager => netStringsInBuf = 1
    BY <1>1, <1>2, <1>3 DEF ReadD, Unchecked, AnsweredD
  <1>8. Batch'
    <2>1. \A j \in 0..(netStringsInBuf' - 1) :
             netStringsInBuf # 1 =>
                recvbuf'[startOfNetstring' + j].n = phase' + j
      <3> SUFFICES ASSUME NEW j \in 0..(netStringsInBuf' - 1), netStringsInBuf # 1
                   PROVE  recvbuf'[startOfNetstring' + j].n = phase' + j
        OBVIOUS
      <3>1. j + 1 \in 0..(netStringsInBuf - 1)
        BY <1>1, <1>5
      <3>2. recvbuf[startOfNetstring + (j + 1)].n = phase + (j + 1)
        BY <1>1, <3>1
      <3>3. /\ startOfNetstring' + j = startOfNetstring + (j + 1)
            /\ phase' + j = phase + (j + 1)
        BY <1>1, <1>5
      <3> QED
        BY <1>5, <3>2, <3>3
    <2>2. CASE netStringsInBuf = 1
      BY <1>1, <1>5, <2>2 DEF Batch
    <2>3. CASE netStringsInBuf # 1
      BY <1>1, <1>4, <1>5, <1>7, <2>1, <2>3 DEF Batch
    <2> QED
      BY <2>2, <2>3
  <1> QED
    BY <1>1, <1>4, <1>5, <1>6, <1>8

\* Steps that only move the client, or move nothing.
LEMMA QuietIInv ==
  ASSUME IInv,
         \/ BadAddress \/ LocalFailure \/ BrokenPipe \/ Accept \/ AcceptTimeout
         \/ Spin \/ Terminated \/ UNCHANGED vars
  PROVE  IInv'
  <1> USE DEF IInv
  <1>1. CASE BadAddress
    <2>1. TypeOK'
      BY <1>1 DEF BadAddress, TypeOK, serverVars
    <2>2. Order' /\ Count'
      <3>1. Sent = 0 /\ Sent' \in Nat /\ pc # "exit"
        BY <1>1, Numbers DEF BadAddress, Sent
      <3>2. seen + Len(toServer["sdC"]) + Len(toServer["sdD"]) <= 0
        BY <3>1 DEF Count
      <3>3. seen + Len(toServer["sdC"]) + Len(toServer["sdD"]) <= Sent'
        <4>1. seen \in Nat /\ Len(toServer["sdC"]) \in Nat /\ Len(toServer["sdD"]) \in Nat
          BY Numbers
        <4>2. 0 \in Nat /\ 0 <= Sent'
          BY <3>1
        <4> QED
          BY <3>1, <3>2, <4>1, <4>2, CountBelow
      <3> QED
        BY <1>1, <3>3 DEF BadAddress, Order, Count, serverVars
    <2>3. Flow'
      BY <1>1, Numbers DEF BadAddress, Flow, ReadC, ReadD, Unchecked, AnsweredC, AnsweredD,
                             serverVars
    <2>4. Batch'
      BY <1>1 DEF BadAddress, Batch, serverVars
    <2> QED
      BY <2>1, <2>2, <2>3, <2>4
  <1>2. CASE LocalFailure
    BY <1>2 DEF LocalFailure, TypeOK, Order, Count, Flow, Batch, serverVars
  <1>3. CASE BrokenPipe
    BY <1>3 DEF BrokenPipe, TypeOK, Order, Count, Flow, Batch, serverVars
  <1>4. CASE Accept
    <2>1. TypeOK'
      BY <1>4 DEF Accept, TypeOK, serverVars
    <2>2. Order' /\ Count'
      BY <1>4, Numbers DEF Accept, Order, Count, Sent, Batch, serverVars
    <2>3. Flow'
      BY <1>4, Numbers DEF Accept, Flow, ReadC, ReadD, Unchecked, AnsweredC, AnsweredD,
                             serverVars
    <2>4. Batch'
      BY <1>4 DEF Accept, Batch, serverVars
    <2> QED
      BY <2>1, <2>2, <2>3, <2>4
  <1>5. CASE AcceptTimeout
    BY <1>5 DEF AcceptTimeout, TypeOK, Order, Count, Flow, Batch, serverVars
  <1>6. CASE UNCHANGED vars
    <2>1. TypeOK'
      BY <1>6 DEF TypeOK, vars, clientVars, serverVars
    <2>2. Order' /\ Count'
      BY <1>6, Numbers DEF Order, Count, Sent, Batch, vars, clientVars, serverVars
    <2>3. Flow'
      BY <1>6, Numbers DEF Flow, ReadC, ReadD, Unchecked, AnsweredC, AnsweredD,
                             vars, clientVars, serverVars
    <2>4. Batch'
      BY <1>6 DEF Batch, vars, clientVars, serverVars
    <2> QED
      BY <2>1, <2>2, <2>3, <2>4
  <1> QED
    BY <1>1, <1>2, <1>3, <1>4, <1>5, <1>6 DEF Spin, Terminated

\* What a step of the client that leaves the server alone keeps.
LEMMA ClientStepTypes ==
  ASSUME TypeOK, UNCHANGED serverVars,
         pc' \in {"connect", "recv", "check", "listen", "accept", "done", "exit", "spins"},
         phase' \in 1..8, recvbuf' \in Seq(Strings), startOfNetstring' \in Nat \ {0},
         netStringsInBuf' \in -1..4, token' \in Bodies,
         toClient' \in [Fds -> Seq(Strings)], toServer' \in [Fds -> Seq(Messages)]
  PROVE  TypeOK'
  <1>1. /\ srvUp' \in BOOLEAN /\ conn' \in BOOLEAN /\ torn' \in SUBSET Fds
        /\ seen' \in 0..6 /\ replied' \in 0..7
        /\ good' \in SUBSET (1..7)
        /\ srvToken' \in Tokens \cup {None}
        /\ srvDToken' \in Tokens \cup {None}
    BY DEF TypeOK, serverVars
  <1> QED
    BY <1>1 DEF TypeOK

LEMMA ConnectIInv == IInv /\ Connect => IInv'
  <1> SUFFICES ASSUME IInv, Connect PROVE IInv'
    OBVIOUS
  <1>1. /\ toServer' \in [Fds -> Seq(Messages)]
        /\ Len(toServer'["sdC"]) \in Nat /\ Len(toServer'["sdD"]) \in Nat
        /\ Len(toServer'["sdC"]) + Len(toServer'["sdD"])
              = Len(toServer["sdC"]) + Len(toServer["sdD"]) + 1
    <2>1. token \in Bodies /\ TypeOK
      BY DEF IInv, TypeOK
    <2>2. ClientText(1, token) \in Messages /\ SendFd(1) \in Fds
      BY <2>1, ClientTextType DEF SendFd, Fds
    <2> QED
      BY <2>1, <2>2, SendType DEF Connect, Send
  <1>2. TypeOK'
    BY <1>1, ClientStepTypes DEF IInv, TypeOK, Connect
  <1>3. Order' /\ Flow' /\ Batch'
    BY Numbers DEF IInv, Connect, Order, Flow, Batch, ReadC, ReadD, Unchecked,
                   AnsweredC, AnsweredD, serverVars
  <1>4. Count'
    <2>1. seen \in Nat /\ seen + Len(toServer["sdC"]) + Len(toServer["sdD"]) <= 0
      <3>1. Sent = 0 /\ pc # "exit"
        BY DEF IInv, Connect, Sent, Batch
      <3> QED
        BY <3>1, Numbers DEF IInv, Count
    <2>2. seen + Len(toServer'["sdC"]) + Len(toServer'["sdD"]) <= 0 + 1
      BY <1>1, <2>1, Numbers, CountStep
    <2>3. Sent' = 0 + 1 /\ seen' = seen
      BY DEF IInv, Connect, Sent, Batch, serverVars
    <2> QED
      BY <2>2, <2>3 DEF Count
  <1> QED
    BY <1>2, <1>3, <1>4 DEF IInv

LEMMA ListenIInv == IInv /\ Listen => IInv'
  <1> SUFFICES ASSUME IInv, Listen PROVE IInv'
    OBVIOUS
  <1>1. /\ toServer' \in [Fds -> Seq(Messages)]
        /\ Len(toServer'["sdC"]) \in Nat /\ Len(toServer'["sdD"]) \in Nat
        /\ Len(toServer'["sdC"]) + Len(toServer'["sdD"])
              = Len(toServer["sdC"]) + Len(toServer["sdD"]) + 1
    <2>1. token \in Bodies /\ TypeOK
      BY DEF IInv, TypeOK
    <2>2. ClientText(3, token) \in Messages /\ SendFd(3) \in Fds
      BY <2>1, ClientTextType DEF SendFd, Fds
    <2> QED
      BY <2>1, <2>2, SendType DEF Listen, Send
  <1>2. TypeOK'
    BY <1>1, ClientStepTypes DEF IInv, TypeOK, Listen
  <1>3. Order' /\ Flow' /\ Batch'
    BY Numbers DEF IInv, Listen, Order, Flow, Batch, ReadC, ReadD, Unchecked,
                   AnsweredC, AnsweredD, serverVars
  <1>4. Count'
    <2>1. seen \in Nat /\ seen + Len(toServer["sdC"]) + Len(toServer["sdD"]) <= 2
      <3>1. Sent = 2 /\ pc # "exit"
        BY DEF IInv, Listen, Sent, Batch
      <3> QED
        BY <3>1, Numbers DEF IInv, Count
    <2>2. seen + Len(toServer'["sdC"]) + Len(toServer'["sdD"]) <= 2 + 1
      BY <1>1, <2>1, Numbers, CountStep
    <2>3. Sent' = 2 + 1 /\ seen' = seen
      BY DEF IInv, Listen, Sent, Batch, serverVars
    <2> QED
      BY <2>2, <2>3 DEF Count
  <1> QED
    BY <1>2, <1>3, <1>4 DEF IInv

LEMMA RejectIInv == IInv /\ Reject => IInv'
  <1> SUFFICES ASSUME IInv, Reject PROVE IInv'
    OBVIOUS
  <1>1. toServer' \in [Fds -> Seq(Messages)]
    <2>1. token \in Bodies /\ TypeOK /\ FdOf(phase) \in Fds
      BY DEF IInv, TypeOK, FdOf, Fds
    <2>2. ErrorText \in Messages
      BY <2>1, ClientTextType
    <2> QED
      BY <2>1, <2>2, SendType DEF Reject
  <1>2. TypeOK'
    BY <1>1, ClientStepTypes DEF IInv, TypeOK, Reject
  <1> QED
    BY <1>2 DEF IInv, Reject, Order, Count, Flow, Batch, serverVars

\* A read that gets to the end of a torn stream leaves nothing behind.
LEMMA RecvTornIInv == IInv /\ RecvTorn => IInv'
  <1> SUFFICES ASSUME IInv, RecvTorn PROVE IInv'
    OBVIOUS
  <1> DEFINE fd == FdOf(phase)
  <1>1. /\ pc = "recv" /\ fd \in torn
        /\ toClient' = [toClient EXCEPT ![fd] = <<>>]
        /\ UNCHANGED <<phase, recvbuf, startOfNetstring, netStringsInBuf, token, serverVars>>
    BY DEF RecvTorn
  <1>2. TypeOK /\ fd \in {"sdC", "sdD"} /\ Fds = {"sdC", "sdD"}
    BY DEF IInv, FdOf, Fds
  <1>3. /\ toClient \in [Fds -> Seq(Strings)]
        /\ Len(toClient["sdC"]) \in Nat /\ Len(toClient["sdD"]) \in Nat
    BY Numbers DEF IInv, TypeOK
  <1>4. toClient' \in [Fds -> Seq(Strings)] /\ Len(<<>>) = 0
    BY <1>1, <1>2, <1>3
  <1>5. toServer' \in [Fds -> Seq(Messages)]
    <2>1. token \in Bodies
      BY <1>2 DEF TypeOK
    <2>2. ErrorText \in Messages
      BY <2>1, ClientTextType
    <2> QED
      BY <1>2, <2>2, SendType DEF RecvTorn, TypeOK
  <1>6. TypeOK'
    BY <1>1, <1>2, <1>4, <1>5, ClientStepTypes DEF TypeOK, RecvTorn
  <1>7. CASE pc' = "exit"
    BY <1>1, <1>6, <1>7 DEF IInv, Order, Count, Flow, Batch, serverVars
  <1>8. CASE pc' = "spins" /\ UNCHANGED toServer
    <2>1. Order' /\ Batch'
      BY <1>1, <1>8 DEF IInv, Order, Batch, serverVars
    <2>2. Count'
      BY <1>1, <1>8, Numbers DEF IInv, Count, Sent, serverVars
    <2>3. Flow'
      <3>1. ~srvUp'
        BY <1>1 DEF IInv, Order, serverVars
      <3>2. /\ ReadC' = ReadC /\ ReadD' = ReadD
            /\ AnsweredC' = AnsweredC /\ AnsweredD' = AnsweredD
        BY <1>1, <1>8 DEF ReadC, ReadD, Unchecked, AnsweredC, AnsweredD, serverVars
      <3>3. /\ ReadC + Len(toClient["sdC"]) <= AnsweredC
            /\ ReadD + Len(toClient["sdD"]) <= AnsweredD
            /\ \A i \in 1..Len(toClient["sdC"]) : toClient["sdC"][i].n = NthC(ReadC + i)
            /\ \A i \in 1..Len(toClient["sdD"]) : toClient["sdD"][i].n = ReadD + i + 2
        BY <1>1 DEF IInv, Flow
      <3>4. ReadC \in Int /\ ReadD \in Int /\ AnsweredC \in Int /\ AnsweredD \in Int
        BY CountsAreInts
      <3>5. \A g \in Fds : toClient'[g] = IF g = fd THEN <<>> ELSE toClient[g]
        BY <1>1, <1>2, <1>3
      <3>6. ReadC + 0 <= AnsweredC /\ ReadD + 0 <= AnsweredD
        BY <1>3, <3>3, <3>4
      <3>7. /\ ReadC + Len(toClient'["sdC"]) <= AnsweredC
            /\ \A i \in 1..Len(toClient'["sdC"]) : toClient'["sdC"][i].n = NthC(ReadC + i)
        BY <1>2, <1>4, <3>3, <3>5, <3>6
      <3>8. /\ ReadD + Len(toClient'["sdD"]) <= AnsweredD
            /\ \A i \in 1..Len(toClient'["sdD"]) : toClient'["sdD"][i].n = ReadD + i + 2
        BY <1>2, <1>4, <3>3, <3>5, <3>6
      <3> QED
        BY <3>1, <3>2, <3>7, <3>8 DEF Flow
    <2> QED
      BY <1>6, <2>1, <2>2, <2>3 DEF IInv
  <1> QED
    BY <1>7, <1>8 DEF RecvTorn

\* A read returns k netstrings of the connection the phase is about.
LEMMA RecvMessageIInv == IInv /\ RecvMessage => IInv'
  <1> SUFFICES ASSUME IInv, RecvMessage PROVE IInv'
    OBVIOUS
  <1> DEFINE fd == FdOf(phase)
             queue == toClient[fd]
  <1>1. /\ queue \in Seq(Strings) /\ Len(queue) \in Nat /\ fd \in Fds
        /\ pc = "recv" /\ pc' = "check" /\ phase \in 1..7
        /\ startOfNetstring = 1 \/ phase = 3
    BY Numbers DEF IInv, Batch, RecvMessage, FdOf, Fds
  <1>2. PICK k \in 1..Len(queue) :
           /\ recvbuf' = Append(SubSeq(queue, 1, k), queue[k])
           /\ netStringsInBuf' = k
           /\ toClient' = [toClient EXCEPT ![fd] = SubSeq(queue, k + 1, Len(queue))]
    BY DEF RecvMessage
  <1>3. startOfNetstring' = 1 /\ UNCHANGED <<phase, token, toServer, serverVars>>
    BY <1>1 DEF RecvMessage, StartOfRead
  <1>4. queue[k] \in Strings
    BY <1>1, ElementOfSeq
  <1>5. /\ SubSeq(queue, 1, k) \in Seq(Strings)
        /\ Len(SubSeq(queue, 1, k)) = k
        /\ \A i \in 1..k : SubSeq(queue, 1, k)[i] = queue[i]
        /\ SubSeq(queue, k + 1, Len(queue)) \in Seq(Strings)
        /\ Len(SubSeq(queue, k + 1, Len(queue))) = Len(queue) - k
        /\ \A i \in 1..(Len(queue) - k) :
              SubSeq(queue, k + 1, Len(queue))[i] = queue[k + i]
    <2>1. k \in 0..Len(queue)
      BY <1>1
    <2> QED
      BY <1>1, <2>1, Cut
  <1>6. /\ recvbuf' \in Seq(Strings)
        /\ Len(recvbuf') = k + 1
        /\ \A i \in 1..k : recvbuf'[i] = queue[i]
    BY <1>2, <1>4, <1>5, AppendProperties
  <1>7. /\ toClient' \in [Fds -> Seq(Strings)]
        /\ toClient'[fd] = SubSeq(queue, k + 1, Len(queue))
        /\ \A other \in Fds \ {fd} : toClient'[other] = toClient[other]
    BY <1>1, <1>2, <1>5 DEF IInv, TypeOK
  <1>8. /\ phase \in 3..5 => ReadD = phase - 3
        /\ phase \notin 3..5 => ReadC = IF phase <= 2 THEN phase - 1 ELSE phase - 4
        /\ phase \in 3..5 => fd = "sdD"
        /\ phase \notin 3..5 => fd = "sdC"
    BY <1>1 DEF ReadC, ReadD, Unchecked, FdOf
  <1>9. /\ phase \in 3..5 => ReadD' = ReadD + k /\ ReadC' = ReadC
        /\ phase \notin 3..5 => ReadC' = ReadC + k /\ ReadD' = ReadD
    BY <1>1, <1>2, <1>3 DEF ReadC, ReadD, Unchecked
  <1>10. /\ k \in 1..4
         /\ \A i \in 1..Len(queue) : i <= k => queue[i].n = phase + i - 1
    <2>1. CASE phase \in 3..5
      <3>1. /\ ReadD + Len(queue) <= AnsweredD
            /\ \A i \in 1..Len(queue) : queue[i].n = ReadD + i + 2
        BY <1>1, <1>8, <2>1 DEF IInv, Flow
      <3>2. AnsweredD \in 0..3 /\ ReadD = phase - 3 /\ phase \in 3..5 /\ k <= Len(queue)
        BY <1>1, <1>8, <2>1, Numbers DEF AnsweredD
      <3>3. k \in 1..4
        BY <1>1, <3>1, <3>2
      <3>4. \A i \in 1..Len(queue) : queue[i].n = phase + i - 1
        BY <3>1, <3>2
      <3> QED
        BY <3>3, <3>4
    <2>2. CASE phase \in {1, 2, 6, 7}
      <3>1. /\ ReadC + Len(queue) <= AnsweredC
            /\ \A i \in 1..Len(queue) : queue[i].n = NthC(ReadC + i)
        BY <1>1, <1>8, <2>2 DEF IInv, Flow
      <3>2. AnsweredC \in 0..4 /\ (phase <= 2 => AnsweredC <= 2)
        BY <1>1, Numbers, NotAhead DEF AnsweredC
      <3>3. k \in 1..4
        BY <1>1, <1>8, <2>2, <3>1, <3>2
      <3>4. ASSUME NEW i \in 1..Len(queue), i <= k
            PROVE  NthC(ReadC + i) = phase + i - 1
        BY <1>1, <1>8, <2>2, <3>1, <3>2, <3>4 DEF NthC
      <3> QED
        BY <1>1, <3>1, <3>3, <3>4
    <2> QED
      BY <1>1, <2>1, <2>2
  <1>11. TypeOK'
    <2>1. /\ pc' \in {"connect", "recv", "check", "listen", "accept", "done", "exit"}
          /\ startOfNetstring' \in Nat \ {0} /\ netStringsInBuf' \in -1..4
      BY <1>1, <1>2, <1>3, <1>10
    <2>2. /\ phase' \in 1..8 /\ token' \in Bodies
          /\ toServer' \in [Fds -> Seq(Messages)]
      BY <1>3 DEF IInv, TypeOK
    <2>3. TypeOK /\ UNCHANGED serverVars
      BY <1>3 DEF IInv
    <2> QED
      BY <1>6, <1>7, <2>1, <2>2, <2>3, ClientStepTypes
  <1>12. Order' /\ Count'
    BY <1>1, <1>3 DEF IInv, Order, Count, Sent, serverVars
  <1>13. Batch'
    <2>1. \A j \in 0..(k - 1) : recvbuf'[1 + j].n = phase + j
      <3> SUFFICES ASSUME NEW j \in 0..(k - 1) PROVE recvbuf'[1 + j].n = phase + j
        OBVIOUS
      <3>1. 1 + j \in 1..k /\ 1 + j \in 1..Len(queue) /\ phase + (1 + j) - 1 = phase + j
        BY <1>1
      <3> QED
        BY <1>6, <1>10, <3>1
    <2>2. /\ pc' = "check" /\ netStringsInBuf' = k /\ phase' = phase
          /\ startOfNetstring' = 1
      BY <1>1, <1>2, <1>3
    <2>3. k >= 1 /\ ~(k <= 0) /\ phase <= 7
      BY <1>1, <1>10
    <2>4. 1 + k = Len(recvbuf')
      BY <1>6, <1>10
    <2> QED
      BY <2>1, <2>2, <2>3, <2>4 DEF Batch
  <1>14. Flow'
    <2>1. AnsweredC' = AnsweredC /\ AnsweredD' = AnsweredD /\ srvUp' = srvUp
      BY <1>3 DEF AnsweredC, AnsweredD, serverVars
    <2>2. /\ AnsweredC \in Int /\ AnsweredD \in Int /\ ReadC \in Int /\ ReadD \in Int
      BY CountsAreInts
    <2>3. CASE phase \in 3..5
      <3>1. /\ toClient'["sdC"] = toClient["sdC"]
            /\ ReadC' = ReadC /\ ReadD' = ReadD + k
            /\ Len(toClient'["sdD"]) = Len(toClient["sdD"]) - k
        BY <1>1, <1>5, <1>7, <1>8, <1>9, <2>3 DEF Fds
      <3>2. \A i \in 1..Len(toClient'["sdD"]) : toClient'["sdD"][i].n = ReadD' + i + 2
        <4> SUFFICES ASSUME NEW i \in 1..Len(toClient'["sdD"])
                     PROVE  toClient'["sdD"][i].n = ReadD' + i + 2
          OBVIOUS
        <4>1. i \in 1..(Len(queue) - k) /\ k + i \in 1..Len(queue) /\ queue = toClient["sdD"]
          BY <1>1, <1>8, <2>3, <3>1
        <4>2. toClient'["sdD"][i] = toClient["sdD"][k + i]
          BY <1>5, <1>7, <1>8, <2>3, <4>1
        <4>3. toClient["sdD"][k + i].n = ReadD + (k + i) + 2
          BY <1>1, <4>1 DEF IInv, Flow
        <4> QED
          BY <1>1, <2>2, <3>1, <4>1, <4>2, <4>3
      <3>3. /\ Len(toClient'["sdC"]) = Len(toClient["sdC"])
            /\ ReadD' + Len(toClient'["sdD"]) = ReadD + Len(toClient["sdD"])
        <4>1. Len(toClient["sdD"]) \in Int /\ k \in Int /\ ReadD \in Int
          BY <1>10, <2>2, Numbers
        <4>2. (ReadD + k) + (Len(toClient["sdD"]) - k) = ReadD + Len(toClient["sdD"])
          BY <4>1, TakeStep
        <4> QED
          BY <3>1, <4>2
      <3>4. \A i \in 1..Len(toClient["sdC"]) : toClient["sdC"][i].n = NthC(ReadC + i)
        BY <1>1 DEF IInv, Flow
      <3> QED
        BY <1>1, <2>1, <3>1, <3>2, <3>3, <3>4 DEF IInv, Flow
    <2>4. CASE phase \notin 3..5
      <3>1. /\ toClient'["sdD"] = toClient["sdD"]
            /\ ReadD' = ReadD /\ ReadC' = ReadC + k
            /\ Len(toClient'["sdC"]) = Len(toClient["sdC"]) - k
        BY <1>1, <1>5, <1>7, <1>8, <1>9, <2>4 DEF Fds
      <3>2. \A i \in 1..Len(toClient'["sdC"]) : toClient'["sdC"][i].n = NthC(ReadC' + i)
        <4> SUFFICES ASSUME NEW i \in 1..Len(toClient'["sdC"])
                     PROVE  toClient'["sdC"][i].n = NthC(ReadC' + i)
          OBVIOUS
        <4>1. i \in 1..(Len(queue) - k) /\ k + i \in 1..Len(queue) /\ queue = toClient["sdC"]
          BY <1>1, <1>8, <2>4, <3>1
        <4>2. toClient'["sdC"][i] = toClient["sdC"][k + i]
          BY <1>5, <1>7, <1>8, <2>4, <4>1
        <4>3. toClient["sdC"][k + i].n = NthC(ReadC + (k + i))
          BY <1>1, <4>1 DEF IInv, Flow
        <4>4. ReadC + (k + i) = ReadC' + i
          BY <1>1, <2>2, <3>1, <4>1
        <4> QED
          BY <4>2, <4>3, <4>4
      <3>3. /\ Len(toClient'["sdD"]) = Len(toClient["sdD"])
            /\ ReadC' + Len(toClient'["sdC"]) = ReadC + Len(toClient["sdC"])
        <4>1. Len(toClient["sdC"]) \in Int /\ k \in Int /\ ReadC \in Int
          BY <1>10, <2>2, Numbers
        <4>2. (ReadC + k) + (Len(toClient["sdC"]) - k) = ReadC + Len(toClient["sdC"])
          BY <4>1, TakeStep
        <4> QED
          BY <3>1, <4>2
      <3>4. \A i \in 1..Len(toClient["sdD"]) : toClient["sdD"][i].n = ReadD + i + 2
        BY <1>1 DEF IInv, Flow
      <3> QED
        BY <1>1, <2>1, <3>1, <3>2, <3>3, <3>4 DEF IInv, Flow
    <2> QED
      BY <2>3, <2>4
  <1> QED
    BY <1>11, <1>12, <1>13, <1>14 DEF IInv

\* The channels and the server stay as they are, and the counts agree.
LEMMA FlowKept ==
  ASSUME IInv, pc # "exit", ReadC' = ReadC, ReadD' = ReadD, UNCHANGED serverVars,
         toClient'["sdC"] = toClient["sdC"], toClient'["sdD"] = toClient["sdD"]
  PROVE  Order' /\ Flow'
  BY DEF IInv, Order, Flow, AnsweredC, AnsweredD, serverVars

\* Nothing was read: the buffer is empty, and the check will refuse it.
LEMMA RecvNothingIInv == IInv /\ RecvNothing => IInv'
  <1> SUFFICES ASSUME IInv, RecvNothing PROVE IInv'
    OBVIOUS
  <1>1. /\ pc = "recv" /\ pc' = "check" /\ phase \in 1..7 /\ recvbuf' = <<>>
        /\ startOfNetstring' = 1
        /\ UNCHANGED <<phase, token, toClient, toServer, serverVars>>
    BY Numbers DEF IInv, Batch, RecvNothing, StartOfRead
  <1>2. netStringsInBuf' \in {0, -1}
    BY DEF RecvNothing
  <1>3. TypeOK'
    <2>1. recvbuf' \in Seq(Strings)
      BY <1>1, EmptySeq
    <2>2. /\ toClient' \in [Fds -> Seq(Strings)] /\ toServer' \in [Fds -> Seq(Messages)]
          /\ token' \in Bodies /\ phase' \in 1..8 /\ TypeOK
      BY <1>1 DEF IInv, TypeOK
    <2> QED
      BY <1>1, <1>2, <2>1, <2>2, ClientStepTypes
  <1>4. Order' /\ Flow'
    <2>1. ReadC' = ReadC /\ ReadD' = ReadD
      <3>1. ~(netStringsInBuf' > 0)
        BY <1>2
      <3>2. Unchecked = 0 /\ Unchecked' = 0
        BY <1>1, <3>1 DEF Unchecked
      <3> QED
        BY <1>1, <3>2 DEF ReadC, ReadD
    <2> QED
      BY <1>1, <2>1, FlowKept
  <1>5. Count'
    BY <1>1 DEF IInv, Count, Sent, serverVars
  <1>6. Batch'
    <2>1. ~(netStringsInBuf' >= 1)
      BY <1>2
    <2> QED
      BY <1>1, <2>1 DEF Batch
  <1> QED
    BY <1>3, <1>4, <1>5, <1>6 DEF IInv

LEMMA CheckAndSendIInv == IInv /\ CheckAndSend => IInv'
  <1> SUFFICES ASSUME IInv, CheckAndSend PROVE IInv'
    OBVIOUS
  <1> DEFINE m == IF phase = 6 THEN 6 ELSE phase + 1
  <1>1. /\ CurrentPasses /\ Advance /\ phase \in {1, 3, 4, 6} /\ pc = "check"
        /\ Send(m, token) /\ UNCHANGED <<token, toClient, serverVars>>
    BY DEF CheckAndSend, CurrentPasses
  <1>2. /\ toServer' \in [Fds -> Seq(Messages)]
        /\ Len(toServer'["sdC"]) \in Nat /\ Len(toServer'["sdD"]) \in Nat
        /\ Len(toServer'["sdC"]) + Len(toServer'["sdD"])
              = Len(toServer["sdC"]) + Len(toServer["sdD"]) + 1
    <2>1. token \in Bodies /\ TypeOK /\ m \in 1..6
      BY <1>1 DEF IInv, TypeOK
    <2>2. ClientText(m, token) \in Messages /\ SendFd(m) \in Fds
      BY <2>1, ClientTextType DEF SendFd, Fds
    <2> QED
      BY <1>1, <2>1, <2>2, SendType DEF Send
  <1>3. TypeOK'
    <2>1. /\ toClient' \in [Fds -> Seq(Strings)] /\ token' \in Bodies /\ TypeOK
          /\ recvbuf' \in Seq(Strings)
      BY <1>1 DEF IInv, TypeOK, Advance, NextPc
    <2> QED
      BY <1>1, <1>2, <2>1, AdvanceReads, ClientStepTypes
  <1>4. Order' /\ Flow' /\ Batch'
    BY <1>1, AdvanceReads, FlowKept
  <1>5. Count'
    <2>1. Sent \in Nat /\ Sent' = Sent + 1
      <3>1. phase' = phase + 1 /\ pc' \in {"recv", "check"}
        BY <1>1 DEF Advance, NextPc
      <3> QED
        BY <1>1, <3>1 DEF Sent
    <2>2. seen + Len(toServer["sdC"]) + Len(toServer["sdD"]) <= Sent
      BY <1>1 DEF IInv, Count
    <2>3. seen + Len(toServer'["sdC"]) + Len(toServer'["sdD"]) <= Sent + 1
      <3>1. seen \in Nat /\ Len(toServer["sdC"]) \in Nat /\ Len(toServer["sdD"]) \in Nat
        BY Numbers
      <3> QED
        BY <1>2, <2>1, <2>2, <3>1, CountStep
    <2> QED
      BY <1>1, <2>1, <2>3 DEF Count, serverVars
  <1> QED
    BY <1>3, <1>4, <1>5 DEF IInv

\* The three checks that send nothing.
LEMMA TakeIInv == IInv /\ (TakeToken \/ TakeDataToken \/ CheckAck) => IInv'
  <1> SUFFICES ASSUME IInv, TakeToken \/ TakeDataToken \/ CheckAck PROVE IInv'
    OBVIOUS
  <1>1. /\ CurrentPasses /\ Advance /\ phase \in {2, 5, 7} /\ pc = "check"
        /\ UNCHANGED <<toServer, serverVars>>
        /\ token' \in {token, Current.body, recvbuf[1].body}
    BY DEF TakeToken, TakeDataToken, DataToken, CheckAck, CurrentPasses
  <1>2. toClient' \in [Fds -> Seq(Strings)]
        /\ toClient'["sdC"] = toClient["sdC"] /\ toClient'["sdD"] = toClient["sdD"]
    <2>1. CASE TakeDataToken
      <3>1. /\ phase = 5 /\ toClient' = [toClient EXCEPT !["sdD"] = <<>>]
            /\ toClient \in [Fds -> Seq(Strings)] /\ <<>> \in Seq(Strings)
        BY <2>1, EmptySeq DEF TakeDataToken, IInv, TypeOK
      <3>2. ReadD = 3
        BY <1>1, <3>1, AdvanceReads DEF ReadD, Unchecked
      <3>3. Len(toClient["sdD"]) = 0
        <4>1. AnsweredD \in 0..3 /\ Len(toClient["sdD"]) \in Nat
          BY Numbers DEF AnsweredD
        <4>2. 3 + Len(toClient["sdD"]) <= AnsweredD
          BY <1>1, <3>2 DEF IInv, Flow
        <4> QED
          BY <4>1, <4>2
      <3>4. toClient["sdD"] = <<>>
        BY <3>3, Numbers, EmptySeq
      <3> QED
        BY <3>1, <3>4 DEF Fds
    <2>2. CASE TakeToken \/ CheckAck
      BY <2>2 DEF TakeToken, CheckAck, IInv, TypeOK
    <2> QED
      BY <2>1, <2>2
  <1>3. TypeOK'
    <2>1. /\ toServer' \in [Fds -> Seq(Messages)] /\ TypeOK
          /\ recvbuf' \in Seq(Strings)
      BY <1>1 DEF IInv, TypeOK, Advance, NextPc
    <2>2. token' \in Bodies
      BY <1>1, CheckedString DEF IInv, TypeOK, Strings
    <2> QED
      BY <1>1, <1>2, <2>1, <2>2, AdvanceReads, ClientStepTypes
  <1>4. Order' /\ Flow' /\ Batch'
    BY <1>1, <1>2, AdvanceReads, FlowKept
  <1>5. Count'
    <2>1. Sent' = Sent /\ Sent \in Nat
      <3>1. /\ phase' = phase + 1 /\ pc' \in {"recv", "check", "listen", "done"}
            /\ phase = 2 <=> pc' = "listen"
        BY <1>1 DEF Advance, NextPc
      <3> QED
        BY <1>1, <3>1 DEF Sent
    <2>2. seen + Len(toServer["sdC"]) + Len(toServer["sdD"]) <= Sent
      BY <1>1 DEF IInv, Count
    <2> QED
      BY <1>1, <2>1, <2>2 DEF Count, serverVars
  <1> QED
    BY <1>3, <1>4, <1>5 DEF IInv

\* A step of the server that writes to no channel of the client leaves what
\* the client knows alone.
LEMMA ServerReadIInv == IInv /\ ServerRead => IInv'
  <1> SUFFICES ASSUME IInv, ServerRead PROVE IInv'
    OBVIOUS
  <1>1. PICK fd \in Fds :
           /\ toServer[fd] # <<>>
           /\ toServer' = [toServer EXCEPT ![fd] = Tail(toServer[fd])]
           /\ \/ seen < 6 /\ seen' = seen + 1 /\ srvUp' = srvUp
              \/ srvUp' = FALSE /\ seen' = seen
    BY DEF ServerRead
  <1>2. UNCHANGED <<clientVars, toClient, conn, torn, replied, good, srvToken, srvDToken>>
    BY DEF ServerRead
  <1>3. /\ toServer \in [Fds -> Seq(Messages)] /\ toServer[fd] \in Seq(Messages)
        /\ fd = "sdC" \/ fd = "sdD"
    BY <1>1 DEF IInv, TypeOK, Fds
  <1>4. /\ Tail(toServer[fd]) \in Seq(Messages)
        /\ Len(Tail(toServer[fd])) = Len(toServer[fd]) - 1
    BY <1>1, <1>3, HeadTailProperties
  <1>5. /\ toServer' \in [Fds -> Seq(Messages)]
        /\ toServer'[fd] = Tail(toServer[fd])
        /\ \A other \in Fds \ {fd} : toServer'[other] = toServer[other]
    BY <1>1, <1>3, <1>4
  <1>6. seen' \in 0..6 /\ seen' >= seen
    BY <1>1, Numbers
  <1>7. srvUp' \in BOOLEAN /\ (srvUp' => srvUp)
    BY <1>1 DEF IInv, TypeOK, ServerRead
  <1>12. srvUp
    BY DEF ServerRead
  <1>8. TypeOK'
    BY <1>2, <1>5, <1>6, <1>7 DEF IInv, TypeOK, clientVars
  <1>9. Order'
    BY <1>2, <1>6, <1>7, <1>12, Numbers DEF IInv, Order
  <1>10. Count'
    <2> SUFFICES ASSUME pc' # "exit" PROVE Count'
      BY DEF Count
    <2> DEFINE a == Len(toServer["sdC"])
               b == Len(toServer["sdD"])
               aa == Len(toServer'["sdC"])
               bb == Len(toServer'["sdD"])
               limit == Sent
    <2>1. /\ a \in Nat /\ b \in Nat /\ seen \in Nat /\ seen' \in Nat /\ limit \in Nat
          /\ seen' <= seen + 1
      BY <1>1, <1>6, Numbers DEF Sent
    <2>2. seen + a + b <= limit /\ Sent' = limit
      BY <1>2, Numbers DEF IInv, Count, Sent, clientVars
    <2>3. (aa = a - 1 /\ bb = b) \/ (aa = a /\ bb = b - 1)
      BY <1>3, <1>4, <1>5 DEF Fds
    <2>4. seen' + aa + bb <= limit
      <3> HIDE DEF a, b, aa, bb, limit
      <3> QED
        BY <2>1, <2>2, <2>3
    <2> QED
      BY <2>2, <2>4 DEF Count
  <1>11. Flow' /\ Batch'
    BY <1>2, <1>7 DEF IInv, Flow, Batch, ReadC, ReadD, Unchecked, AnsweredC, AnsweredD,
                      clientVars
  <1> QED
    BY <1>8, <1>9, <1>10, <1>11 DEF IInv

LEMMA ServerConnectIInv == IInv /\ ServerConnect => IInv'
  <1> SUFFICES ASSUME IInv, ServerConnect PROVE IInv'
    OBVIOUS
  <1>1. TypeOK'
    BY DEF IInv, TypeOK, ServerConnect, clientVars
  <1>2. Order' /\ Count' /\ Batch'
    BY DEF IInv, Order, Count, Batch, Sent, ServerConnect, clientVars
  <1>3. Flow'
    BY DEF IInv, Flow, ReadC, ReadD, Unchecked, AnsweredC, AnsweredD, ServerConnect, clientVars
  <1> QED
    BY <1>1, <1>2, <1>3 DEF IInv

\* Any answer, right or wrong, is the next one on its connection.
LEMMA EmitIInv ==
  ASSUME IInv, NEW p \in 1..7, MayAnswer(p), NEW ctx \in {"S", "T", "C", "E"},
         NEW body \in Bodies, Emit(p, ctx, body),
         UNCHANGED <<clientVars, toServer, conn, torn, seen>>,
         srvUp' \in BOOLEAN, good' \in {good, good \cup {p}},
         srvToken' \in Tokens \cup {None}, srvDToken' \in Tokens \cup {None}
  PROVE  IInv'
  <1> DEFINE fd == FdOf(p)
             m == [ctx |-> ctx, body |-> body, n |-> p]
  <1>1. /\ toClient' \in [Fds -> Seq(Strings)]
        /\ Len(toClient'[fd]) = Len(toClient[fd]) + 1
        /\ \A i \in 1..Len(toClient[fd]) : toClient'[fd][i] = toClient[fd][i]
        /\ toClient'[fd][Len(toClient[fd]) + 1] = m
        /\ \A other \in Fds \ {fd} : toClient'[other] = toClient[other]
        /\ Len(toClient["sdC"]) \in Nat /\ Len(toClient["sdD"]) \in Nat
    BY EmitType DEF IInv
  <1>2. /\ srvUp /\ replied = p - 1 /\ replied' = p
        /\ p \in Eager \/ seen >= Need(p)
        /\ p \in 3..5 => conn
    BY DEF MayAnswer, Emit, FdOf
  <1>3. TypeOK'
    <2>1. good' \in SUBSET (1..7)
      BY DEF IInv, TypeOK
    <2>2. /\ pc' = pc /\ phase' = phase /\ recvbuf' = recvbuf
          /\ startOfNetstring' = startOfNetstring /\ netStringsInBuf' = netStringsInBuf
          /\ token' = token /\ toServer' = toServer /\ conn' = conn /\ torn' = torn
          /\ seen' = seen
      BY DEF clientVars
    <2>3. replied' \in 0..7
      BY <1>2
    <2>4. /\ srvUp' \in BOOLEAN /\ srvToken' \in Tokens \cup {None}
          /\ srvDToken' \in Tokens \cup {None}
      OBVIOUS
    <2>5. TypeOK
      BY DEF IInv
    <2> QED
      BY <1>1, <2>1, <2>2, <2>3, <2>4, <2>5 DEF TypeOK
  <1>4. Order'
    <2>1. good' \subseteq 1..p
      BY <1>2 DEF IInv, Order
    <2>2. /\ p >= 3 => conn
          /\ p >= 1 => seen >= 1
          /\ p >= 6 => seen >= 5
          /\ p >= 7 => seen >= 6
          /\ p >= 5 /\ 5 \notin Eager => seen >= 5
      BY <1>2, EagerAssumption, Numbers DEF IInv, Order, Need
    <2> QED
      BY <1>2, <2>1, <2>2, Numbers DEF IInv, Order
  <1>5. Count' /\ Batch'
    BY DEF IInv, Count, Sent, Batch, clientVars
  <1>6. Flow'
    <2> SUFFICES ASSUME pc # "exit" PROVE Flow'
      BY DEF Flow, clientVars
    <2>1. /\ ReadC' = ReadC /\ ReadD' = ReadD /\ ReadC \in Int /\ ReadD \in Int
      <3>1. ReadC' = ReadC /\ ReadD' = ReadD
        BY DEF ReadC, ReadD, Unchecked, clientVars
      <3> QED
        BY <3>1, CountsAreInts
    <2>2. /\ ReadC + Len(toClient["sdC"]) = AnsweredC
          /\ ReadD + Len(toClient["sdD"]) = AnsweredD
          /\ \A i \in 1..Len(toClient["sdC"]) : toClient["sdC"][i].n = NthC(ReadC + i)
          /\ \A i \in 1..Len(toClient["sdD"]) : toClient["sdD"][i].n = ReadD + i + 2
      BY <1>2 DEF IInv, Flow
    <2>3. CASE p \in 3..5
      <3>1. /\ fd = "sdD" /\ toClient'["sdC"] = toClient["sdC"]
            /\ AnsweredC' = AnsweredC /\ AnsweredD = p - 3 /\ AnsweredD' = p - 2
        <4>1. fd = "sdD" /\ toClient'["sdC"] = toClient["sdC"]
          BY <1>1, <2>3 DEF FdOf, Fds
        <4>2. replied = p - 1 /\ replied' = p
          BY <1>2
        <4>3. AnsweredC' = AnsweredC /\ AnsweredD = p - 3 /\ AnsweredD' = p - 2
          BY <2>3, <4>2 DEF AnsweredC, AnsweredD
        <4> QED
          BY <4>1, <4>3
      <3>2. ReadD' + Len(toClient'["sdD"]) = AnsweredD'
        BY <1>1, <2>1, <2>2, <2>3, <3>1
      <3>3. \A i \in 1..Len(toClient'["sdD"]) : toClient'["sdD"][i].n = ReadD' + i + 2
        <4> SUFFICES ASSUME NEW i \in 1..Len(toClient'["sdD"])
                     PROVE  toClient'["sdD"][i].n = ReadD' + i + 2
          OBVIOUS
        <4>1. CASE i = Len(toClient["sdD"]) + 1
          <5>1. toClient'["sdD"][i].n = p
            BY <1>1, <3>1, <4>1
          <5>2. ReadD + Len(toClient["sdD"]) = p - 3
            BY <2>2, <3>1
          <5>3. Len(toClient["sdD"]) \in Nat
            BY <1>1
          <5>4. ReadD' + i + 2 = p
            BY <2>1, <4>1, <5>2, <5>3
          <5> QED
            BY <5>1, <5>4
        <4>2. CASE i \in 1..Len(toClient["sdD"])
          <5>1. toClient'["sdD"][i] = toClient["sdD"][i]
            BY <1>1, <3>1, <4>2
          <5>2. toClient["sdD"][i].n = ReadD + i + 2
            BY <2>2, <4>2
          <5> QED
            BY <2>1, <5>1, <5>2
        <4> QED
          BY <1>1, <3>1, <4>1, <4>2
      <3>4. /\ ReadC' + Len(toClient'["sdC"]) = AnsweredC'
            /\ AnsweredC' \in Int /\ AnsweredD' \in Int
        <4>1. replied' \in 0..7
          BY <1>2
        <4> QED
          BY <2>1, <2>2, <3>1, <4>1 DEF AnsweredC, AnsweredD
      <3>5. \A i \in 1..Len(toClient'["sdC"]) : toClient'["sdC"][i].n = NthC(ReadC' + i)
        BY <2>1, <2>2, <3>1
      <3>6. /\ ReadC' + Len(toClient'["sdC"]) <= AnsweredC'
            /\ ReadD' + Len(toClient'["sdD"]) <= AnsweredD'
        BY <3>2, <3>4
      <3> QED
        BY <3>2, <3>3, <3>4, <3>5, <3>6 DEF Flow
    <2>4. CASE p \notin 3..5
      <3>1. /\ fd = "sdC" /\ toClient'["sdD"] = toClient["sdD"]
            /\ AnsweredD' = AnsweredD /\ AnsweredC \in 0..4 /\ AnsweredC' = AnsweredC + 1
            /\ p = NthC(AnsweredC + 1)
        <4>1. fd = "sdC" /\ toClient'["sdD"] = toClient["sdD"]
          BY <1>1, <2>4 DEF FdOf, Fds
        <4>2. replied = p - 1 /\ replied' = p
          BY <1>2
        <4>3. AnsweredC \in 0..4 /\ AnsweredC' = AnsweredC + 1 /\ p = NthC(AnsweredC + 1)
          BY <2>4, <4>2 DEF AnsweredC, NthC
        <4>4. AnsweredD' = AnsweredD
          BY <2>4, <4>2 DEF AnsweredD
        <4> QED
          BY <4>1, <4>3, <4>4
      <3>7. Len(toClient'["sdC"]) = Len(toClient["sdC"]) + 1 /\ Len(toClient["sdC"]) \in Nat
        BY <1>1, <3>1
      <3>2. ReadC' + Len(toClient'["sdC"]) = AnsweredC'
        BY <2>1, <2>2, <3>1, <3>7
      <3>3. \A i \in 1..Len(toClient'["sdC"]) : toClient'["sdC"][i].n = NthC(ReadC' + i)
        <4> SUFFICES ASSUME NEW i \in 1..Len(toClient'["sdC"])
                     PROVE  toClient'["sdC"][i].n = NthC(ReadC' + i)
          OBVIOUS
        <4>1. CASE i = Len(toClient["sdC"]) + 1
          <5>1. ReadC' + i = AnsweredC + 1
            BY <2>1, <2>2, <3>1, <3>7, <4>1
          <5>2. toClient'["sdC"][i].n = p
            BY <1>1, <3>1, <4>1
          <5> QED
            BY <3>1, <5>1, <5>2
        <4>2. CASE i \in 1..Len(toClient["sdC"])
          <5>1. toClient'["sdC"][i] = toClient["sdC"][i]
            BY <1>1, <3>1, <4>2
          <5>2. toClient["sdC"][i].n = NthC(ReadC + i)
            BY <2>2, <4>2
          <5> QED
            BY <2>1, <5>1, <5>2
        <4> QED
          BY <1>1, <3>1, <4>1, <4>2
      <3>4. /\ ReadD' + Len(toClient'["sdD"]) = AnsweredD'
            /\ AnsweredC' \in Int /\ AnsweredD' \in Int
        <4>1. replied' \in 0..7
          BY <1>2
        <4> QED
          BY <2>1, <2>2, <3>1, <4>1 DEF AnsweredC, AnsweredD
      <3>5. \A i \in 1..Len(toClient'["sdD"]) : toClient'["sdD"][i].n = ReadD' + i + 2
        BY <2>1, <2>2, <3>1
      <3>6. /\ ReadC' + Len(toClient'["sdC"]) <= AnsweredC'
            /\ ReadD' + Len(toClient'["sdD"]) <= AnsweredD'
        BY <3>2, <3>4
      <3> QED
        BY <3>2, <3>3, <3>4, <3>5, <3>6 DEF Flow
    <2> QED
      BY <2>3, <2>4
  <1> QED
    BY <1>3, <1>4, <1>5, <1>6 DEF IInv

LEMMA ServerAnswerIInv == IInv /\ (ServerAnswer \/ ServerMisbehaves \/ ServerError) => IInv'
  <1> SUFFICES ASSUME IInv PROVE ServerAnswer \/ ServerMisbehaves \/ ServerError => IInv'
    OBVIOUS
  <1>1. /\ srvUp \in BOOLEAN
        /\ srvToken \in Tokens \cup {None} /\ srvDToken \in Tokens \cup {None}
    BY DEF IInv, TypeOK
  <1>2. ASSUME NEW p \in 1..7
        PROVE  Context(p) \in {"S", "T"} /\ RightBodies(p) \subseteq Bodies
    BY <1>1 DEF Context, RightBodies, Bodies
  <1>3. ASSUME ServerAnswer PROVE IInv'
    <2>1. PICK p \in 1..7 :
            /\ MayAnswer(p)
            /\ \E body \in RightBodies(p) :
                 /\ Emit(p, Context(p), body)
                 /\ srvToken' = IF p = 2 THEN body ELSE srvToken
                 /\ srvDToken' = IF p = 5 THEN body ELSE srvDToken
            /\ good' = good \cup {p}
            /\ UNCHANGED <<clientVars, toServer, srvUp, conn, torn, seen>>
      BY <1>3 DEF ServerAnswer
    <2>2. PICK body \in RightBodies(p) :
            /\ Emit(p, Context(p), body)
            /\ srvToken' = IF p = 2 THEN body ELSE srvToken
            /\ srvDToken' = IF p = 5 THEN body ELSE srvDToken
      BY <2>1
    <2>3. p \in {2, 5} => body \in Tokens
      BY <2>2 DEF RightBodies
    <2>4. srvToken' \in Tokens \cup {None} /\ srvDToken' \in Tokens \cup {None}
      BY <1>1, <2>2, <2>3
    <2>5. srvUp' \in BOOLEAN /\ body \in Bodies /\ Context(p) \in {"S", "T", "C", "E"}
      BY <1>1, <1>2, <2>1, <2>2
    <2>6. UNCHANGED <<clientVars, toServer, conn, torn, seen>>
      BY <2>1
    <2> QED
      BY <2>1, <2>2, <2>4, <2>5, <2>6, EmitIInv
  <1>4. ASSUME ServerMisbehaves PROVE IInv'
    <2>1. PICK p \in 1..7 :
            /\ MayAnswer(p)
            /\ \/ \E body \in RightBodies(p) : Emit(p, "C", body)
               \/ p \notin {2, 5} /\ Emit(p, Context(p), "junk")
      BY <1>4 DEF ServerMisbehaves
    <2>2. PICK ctx \in {"S", "T", "C", "E"}, body \in Bodies : Emit(p, ctx, body)
      BY <1>2, <2>1 DEF Bodies
    <2>3. /\ UNCHANGED <<clientVars, toServer, conn, torn, seen>> /\ srvUp' \in BOOLEAN
          /\ good' = good /\ srvToken' = srvToken /\ srvDToken' = srvDToken
      BY <1>1, <1>4 DEF ServerMisbehaves
    <2> QED
      BY <1>1, <2>1, <2>2, <2>3, EmitIInv
  <1>5. ASSUME ServerError PROVE IInv'
    <2>1. PICK p \in 1..7 : MayAnswer(p) /\ Emit(p, "E", "reason")
      BY <1>5 DEF ServerError
    <2>2. /\ UNCHANGED <<clientVars, toServer, conn, torn, seen>> /\ srvUp' \in BOOLEAN
          /\ good' = good /\ srvToken' = srvToken /\ srvDToken' = srvDToken
      BY <1>1, <1>5 DEF ServerError
    <2>3. "reason" \in Bodies
      BY DEF Bodies
    <2> QED
      BY <1>1, <2>1, <2>2, <2>3, EmitIInv
  <1> QED
    BY <1>3, <1>4, <1>5

LEMMA ServerCrashIInv == IInv /\ ServerCrash => IInv'
  <1> SUFFICES ASSUME IInv, ServerCrash PROVE IInv'
    OBVIOUS
  <1>1. PICK c \in 0..Len(toClient["sdC"]), d \in 0..Len(toClient["sdD"]) :
           toClient' = [fd \in Fds |->
                          SubSeq(toClient[fd], 1, IF fd = "sdC" THEN c ELSE d)]
    BY DEF ServerCrash
  <1>2. /\ UNCHANGED <<clientVars, toServer, conn, seen, replied, good, srvToken, srvDToken>>
        /\ srvUp' = FALSE
    BY DEF ServerCrash
  <1>3. /\ toClient'["sdC"] = SubSeq(toClient["sdC"], 1, c)
        /\ toClient'["sdD"] = SubSeq(toClient["sdD"], 1, d)
    BY <1>1 DEF Fds
  <1>4. /\ toClient'["sdC"] \in Seq(Strings) /\ Len(toClient'["sdC"]) = c
        /\ \A i \in 1..c : toClient'["sdC"][i] = toClient["sdC"][i]
        /\ toClient'["sdD"] \in Seq(Strings) /\ Len(toClient'["sdD"]) = d
        /\ \A i \in 1..d : toClient'["sdD"][i] = toClient["sdD"][i]
    BY <1>3, Numbers, Cut
  <1>5. toClient' \in [Fds -> Seq(Strings)]
    BY <1>1, <1>3, <1>4 DEF Fds
  <1>6. TypeOK'
    BY <1>2, <1>5 DEF IInv, TypeOK, clientVars, ServerCrash
  <1>7. Order' /\ Count' /\ Batch'
    BY <1>2 DEF IInv, Order, Count, Sent, Batch, clientVars
  <1>8. Flow'
    <2> SUFFICES ASSUME pc # "exit" PROVE Flow'
      BY <1>2 DEF Flow, clientVars
    <2>1. /\ ReadC' = ReadC /\ ReadD' = ReadD /\ AnsweredC' = AnsweredC
          /\ AnsweredD' = AnsweredD
      BY <1>2 DEF ReadC, ReadD, Unchecked, AnsweredC, AnsweredD, clientVars
    <2>4. ReadC \in Int /\ ReadD \in Int /\ AnsweredC \in Int /\ AnsweredD \in Int
      BY CountsAreInts
    <2>2. /\ ReadC + Len(toClient["sdC"]) <= AnsweredC
          /\ ReadD + Len(toClient["sdD"]) <= AnsweredD
          /\ \A i \in 1..Len(toClient["sdC"]) : toClient["sdC"][i].n = NthC(ReadC + i)
          /\ \A i \in 1..Len(toClient["sdD"]) : toClient["sdD"][i].n = ReadD + i + 2
      BY DEF IInv, Flow
    <2>3. /\ ReadC + c <= AnsweredC /\ ReadD + d <= AnsweredD
          /\ \A i \in 1..c : i \in 1..Len(toClient["sdC"])
          /\ \A i \in 1..d : i \in 1..Len(toClient["sdD"])
      <3>1. Len(toClient["sdC"]) \in Nat /\ Len(toClient["sdD"]) \in Nat
        BY Numbers
      <3> QED
        BY <2>2, <2>4, <3>1
    <2>5. /\ ReadC' + Len(toClient'["sdC"]) <= AnsweredC'
          /\ ReadD' + Len(toClient'["sdD"]) <= AnsweredD'
          /\ ~srvUp'
      BY <1>2, <1>4, <2>1, <2>3
    <2>6. /\ \A i \in 1..Len(toClient'["sdC"]) :
                toClient'["sdC"][i].n = NthC(ReadC' + i)
          /\ \A i \in 1..Len(toClient'["sdD"]) :
                toClient'["sdD"][i].n = ReadD' + i + 2
      BY <1>4, <2>1, <2>2, <2>3
    <2> QED
      BY <2>5, <2>6 DEF Flow
  <1> QED
    BY <1>6, <1>7, <1>8 DEF IInv

LEMMA NextIInv == IInv /\ [Next]_vars => IInv'
  BY QuietIInv, ConnectIInv, ListenIInv, RejectIInv, RecvMessageIInv, RecvNothingIInv,
     RecvTornIInv, CheckAndSendIInv, TakeIInv, ServerReadIInv, ServerConnectIInv, ServerAnswerIInv,
     ServerCrashIInv
     DEF Next, Client, Server

THEOREM Counting == Spec => []IInv
  BY InitIInv, NextIInv, PTL DEF Spec

\* Every variable stays in its range, whatever the server does: in particular
\* the pointer into recvbuf and the count of netstrings.
THEOREM TypeCorrect == Spec => []TypeOK
  BY Counting, PTL DEF IInv

\* However the netstrings are batched, the string that the client checks is the
\* answer it waits for (recvMessage, updateNets), whatever the server does.
THEOREM AnswersInOrder == Spec => []AnswersMatchPhases
  <1>1. IInv => AnswersMatchPhases
    <2> SUFFICES ASSUME IInv, pc = "check", netStringsInBuf >= 1
                 PROVE  Current.n = phase
      BY DEF AnswersMatchPhases
    <2>1. /\ startOfNetstring + netStringsInBuf = Len(recvbuf)
          /\ \A j \in 0..(netStringsInBuf - 1) :
                recvbuf[startOfNetstring + j].n = phase + j
      BY DEF IInv, Batch
    <2>2. startOfNetstring \in 1..Len(recvbuf) /\ DOMAIN recvbuf = 1..Len(recvbuf)
      BY <2>1, Numbers, LenProperties
    <2>3. recvbuf[startOfNetstring + 0].n = phase + 0
      BY <2>1, Numbers
    <2> QED
      BY <2>2, <2>3, Numbers DEF Current
  <1> QED
    BY <1>1, Counting, PTL

-----------------------------------------------------------------------------
(* Contents: without server errors, only correct answers pass.             *)

\* What fits goes on to fit while the server only adds to what it sent.
LEMMA FitStays ==
  ASSUME IInv, UNCHANGED <<replied, good, srvDToken>>
  PROVE  \A x : Fit(x) => Fit(x)'
  BY DEF Fit, Honest, Refused

LEMMA CInvKept ==
  ASSUME CInv, UNCHANGED <<phase, recvbuf, token, toClient, replied, good, srvDToken>>,
         pc' # "exit" => pc # "exit"
  PROVE  CInv'
  BY DEF CInv, Contents, Fit, Honest, Refused, TokenKnown, OnlyGoodAnswersPass, DtokenEchoed

LEMMA InitCInv == Init => CInv
  <1> SUFFICES ASSUME Init PROVE CInv
    OBVIOUS
  <1>1. Contents
    BY DEF Init, Contents, Fds
  <1>2. TokenKnown /\ OnlyGoodAnswersPass /\ DtokenEchoed
    BY DEF Init, TokenKnown, OnlyGoodAnswersPass, DtokenEchoed
  <1> QED
    BY <1>1, <1>2 DEF CInv

\* A read moves strings from the connection to the buffer.
LEMMA RecvCInv == IInv /\ CInv /\ (RecvMessage \/ RecvNothing) => CInv'
  <1> SUFFICES ASSUME IInv, CInv, RecvMessage \/ RecvNothing PROVE CInv'
    OBVIOUS
  <1>1. /\ UNCHANGED <<phase, token, replied, good, srvDToken>>
        /\ pc = "recv"
    BY DEF RecvMessage, RecvNothing, serverVars
  <1>2. TokenKnown' /\ OnlyGoodAnswersPass' /\ (5 \notin Eager => DtokenEchoed')
    BY <1>1 DEF CInv, TokenKnown, OnlyGoodAnswersPass, DtokenEchoed
  <1>3. \A x : Fit(x) => Fit(x)'
    BY <1>1, FitStays
  <1>4. CASE RecvNothing
    <2>1. toClient' = toClient /\ recvbuf' = <<>>
      BY <1>4 DEF RecvNothing
    <2> QED
      BY <1>2, <1>3, <2>1 DEF CInv, Contents, Fit, Honest, Refused
  <1>5. CASE RecvMessage
    <2> DEFINE fd == FdOf(phase)
               queue == toClient[fd]
    <2>1. /\ fd \in Fds /\ queue \in Seq(Strings) /\ Len(queue) \in Nat
          /\ toClient \in [Fds -> Seq(Strings)]
      BY Numbers DEF IInv, TypeOK, FdOf, Fds
    <2>2. PICK k \in 1..Len(queue) :
             /\ recvbuf' = Append(SubSeq(queue, 1, k), queue[k])
             /\ toClient' = [toClient EXCEPT ![fd] = SubSeq(queue, k + 1, Len(queue))]
      BY <1>5 DEF RecvMessage
    <2>3. /\ SubSeq(queue, 1, k) \in Seq(Strings)
          /\ Len(SubSeq(queue, 1, k)) = k
          /\ \A i \in 1..k : SubSeq(queue, 1, k)[i] = queue[i]
          /\ Len(SubSeq(queue, k + 1, Len(queue))) = Len(queue) - k
          /\ \A i \in 1..(Len(queue) - k) :
                SubSeq(queue, k + 1, Len(queue))[i] = queue[k + i]
      <3>1. k \in 0..Len(queue)
        BY <2>1
      <3> QED
        BY <2>1, <3>1, Cut
    <2>4. queue[k] \in Strings
      BY <2>1, ElementOfSeq
    <2>5. /\ Len(recvbuf') = k + 1
          /\ \A i \in 1..k : recvbuf'[i] = queue[i]
          /\ recvbuf'[k + 1] = queue[k]
      BY <2>2, <2>3, <2>4, AppendProperties
    <2>6. \A i \in 1..Len(queue) : Fit(queue[i])
      BY <2>1 DEF CInv, Contents
    <2>7. ASSUME NEW i \in 1..Len(recvbuf') PROVE Fit(recvbuf[i])'
      <3>1. CASE i \in 1..k
        <4>1. i \in 1..Len(queue) /\ recvbuf'[i] = queue[i]
          BY <2>1, <2>5, <3>1
        <4> QED
          BY <1>3, <2>6, <4>1 DEF Fit, Honest, Refused
      <3>2. CASE i = k + 1
        BY <1>3, <2>5, <2>6, <3>2 DEF Fit, Honest, Refused
      <3> QED
        BY <2>5, <3>1, <3>2
    <2>8. ASSUME NEW other \in Fds, NEW i \in 1..Len(toClient'[other])
          PROVE  Fit(toClient[other][i])'
      <3>1. CASE other = fd
        <4>1. toClient'[fd] = SubSeq(queue, k + 1, Len(queue))
          BY <2>1, <2>2
        <4>2. i \in 1..(Len(queue) - k) /\ k + i \in 1..Len(queue)
          BY <2>1, <2>3, <3>1, <4>1
        <4>3. toClient'[other][i] = queue[k + i]
          BY <2>3, <3>1, <4>1, <4>2
        <4> QED
          BY <1>3, <2>6, <4>2, <4>3 DEF Fit, Honest, Refused
      <3>2. CASE other # fd
        <4>1. toClient'[other] = toClient[other]
          BY <2>1, <2>2, <3>2
        <4>2. Fit(toClient[other][i])
          BY <4>1 DEF CInv, Contents
        <4> QED
          BY <1>3, <4>1, <4>2 DEF Fit, Honest, Refused
      <3> QED
        BY <3>1, <3>2
    <2>9. Contents'
      BY <2>7, <2>8 DEF Contents
    <2> QED
      BY <1>2, <2>9 DEF CInv
  <1> QED
    BY <1>4, <1>5

LEMMA RecvTornCInv == IInv /\ CInv /\ RecvTorn => CInv'
  <1> SUFFICES ASSUME IInv, CInv, RecvTorn PROVE CInv'
    OBVIOUS
  <1>1. /\ UNCHANGED <<phase, recvbuf, token, replied, good, srvDToken>> /\ pc = "recv"
        /\ toClient' = [toClient EXCEPT ![FdOf(phase)] = <<>>]
    BY DEF RecvTorn, serverVars
  <1>2. TokenKnown' /\ OnlyGoodAnswersPass' /\ (5 \notin Eager => DtokenEchoed')
    BY <1>1 DEF CInv, TokenKnown, OnlyGoodAnswersPass, DtokenEchoed
  <1>3. \A x : Fit(x) => Fit(x)'
    BY <1>1, FitStays
  <1>4. ASSUME NEW other \in Fds, NEW i \in 1..Len(toClient'[other])
        PROVE  toClient'[other] = toClient[other]
    BY <1>1, <1>4 DEF IInv, TypeOK
  <1>5. Contents'
    BY <1>1, <1>3, <1>4 DEF CInv, Contents, Fit, Honest, Refused
  <1> QED
    BY <1>2, <1>5 DEF CInv

\* A string that passes is an answer the server gave correctly.
LEMMA PassedIsHonest ==
  ASSUME IInv, CInv, CurrentPasses
  PROVE  Honest(Current) /\ Current.n = phase
  <1>1. /\ startOfNetstring \in 1..Len(recvbuf) /\ Current = recvbuf[startOfNetstring]
        /\ Current.n = phase /\ phase \in 1..7
    BY CheckedString
  <1>2. Honest(Current) \/ Refused(Current)
    BY <1>1 DEF CInv, Contents, Fit
  <1>3. ~Refused(Current)
    <2> SUFFICES ASSUME Refused(Current) PROVE FALSE
      OBVIOUS
    <2>1. pc = "check" /\ Passes(phase, Current)
      BY DEF CurrentPasses
    <2>2. Context(phase) \in {"S", "T"}
      BY DEF Context
    <2>3. /\ Current.ctx = Context(phase) /\ phase \notin {2, 5}
          /\ Current.body = "junk" /\ Expected(phase) = "junk"
      BY <1>1, <2>1, <2>2 DEF Passes, Refused
    <2>4. phase = 4 => token \in Tokens
      BY <2>1 DEF CInv, TokenKnown
    <2> QED
      BY <1>1, <2>3, <2>4, TokensAssumption DEF Expected
  <1> QED
    BY <1>1, <1>2, <1>3

LEMMA CheckCInv ==
  IInv /\ CInv /\ (CheckAndSend \/ TakeToken \/ TakeDataToken \/ CheckAck) => CInv'
  <1> SUFFICES ASSUME IInv, CInv, CheckAndSend \/ TakeToken \/ TakeDataToken \/ CheckAck
               PROVE  CInv'
    OBVIOUS
  <1>1. /\ CurrentPasses /\ Advance /\ pc = "check" /\ phase \in 1..7
        /\ UNCHANGED <<recvbuf, replied, good, srvDToken>> /\ phase' = phase + 1
    BY DEF CheckAndSend, TakeToken, TakeDataToken, DataToken, CheckAck, CurrentPasses, Advance, NextPc, serverVars
  <1>2. Honest(Current) /\ Current.n = phase
    BY <1>1, PassedIsHonest
  <1>3. \A x : Fit(x) => Fit(x)'
    BY <1>1, FitStays
  <1>4. Contents'
    <2>1. \A fd \in Fds : toClient'[fd] = toClient[fd] \/ toClient'[fd] = <<>>
      BY DEF CheckAndSend, TakeToken, TakeDataToken, DataToken, CheckAck, IInv, TypeOK
    <2>2. ASSUME NEW fd \in Fds, NEW i \in 1..Len(toClient'[fd])
          PROVE  Fit(toClient[fd][i])'
      <3>1. toClient'[fd] = toClient[fd]
        BY <2>1
      <3>2. Fit(toClient[fd][i])
        BY <3>1 DEF CInv, Contents
      <3> QED
        BY <1>3, <3>1, <3>2 DEF Fit, Honest, Refused
    <2>3. ASSUME NEW i \in 1..Len(recvbuf') PROVE Fit(recvbuf[i])'
      <3>1. Fit(recvbuf[i]) /\ recvbuf' = recvbuf
        BY <1>1 DEF CInv, Contents
      <3> QED
        BY <1>3, <3>1 DEF Fit, Honest, Refused
    <2> QED
      BY <2>2, <2>3 DEF Contents
  <1>5. OnlyGoodAnswersPass'
    <2>1. 1..(phase - 1) \subseteq good /\ phase \in good
      BY <1>1, <1>2 DEF CInv, OnlyGoodAnswersPass, Honest
    <2>2. 1..(phase' - 1) \subseteq good'
      BY <1>1, <2>1
    <2> QED
      BY <2>2 DEF OnlyGoodAnswersPass
  <1>6. TokenKnown'
    <2>1. CASE TakeToken
      <3>1. token' = Current.body /\ phase = 2
        BY <2>1 DEF TakeToken
      <3> QED
        BY <1>2, <3>1 DEF TokenKnown, Honest
    <2>2. CASE TakeDataToken \/ CheckAck
      BY <1>1, <2>2 DEF TokenKnown, TakeDataToken, DataToken, CheckAck
    <2>3. CASE CheckAndSend
      BY <1>1, <2>3 DEF TokenKnown, CheckAndSend, CInv
    <2> QED
      BY <2>1, <2>2, <2>3
  <1>7. 5 \notin Eager => DtokenEchoed'
    <2> SUFFICES ASSUME 5 \notin Eager PROVE DtokenEchoed'
      OBVIOUS
    <2>1. CASE TakeDataToken
      <3>1. token' = recvbuf[1].body /\ phase = 5
        BY <2>1 DEF TakeDataToken, DataToken
      <3>2. startOfNetstring = 1 /\ Current = recvbuf[startOfNetstring]
        BY <1>1, <3>1, CheckedString DEF IInv, Batch
      <3>3. token' = srvDToken
        BY <1>2, <3>1, <3>2 DEF Honest
      <3> QED
        BY <1>1, <3>3 DEF DtokenEchoed
    <2>2. CASE TakeToken
      BY <1>1, <2>2 DEF DtokenEchoed, TakeToken
    <2>3. CASE CheckAndSend \/ CheckAck
      BY <1>1, <2>3 DEF DtokenEchoed, CheckAndSend, CheckAck, CInv
    <2> QED
      BY <2>1, <2>2, <2>3
  <1> QED
    BY <1>4, <1>5, <1>6, <1>7 DEF CInv

\* A new answer fits, and those before it go on to fit.
LEMMA EmitCInv ==
  ASSUME IInv, CInv, NEW p \in 1..7, MayAnswer(p), NEW ctx \in {"S", "T", "C", "E"},
         NEW body \in Bodies, Emit(p, ctx, body), UNCHANGED clientVars,
         good' \in {good, good \cup {p}}, p # 5 => srvDToken' = srvDToken,
         Fit([ctx |-> ctx, body |-> body, n |-> p])'
  PROVE  CInv'
  <1> DEFINE fd == FdOf(p)
             m == [ctx |-> ctx, body |-> body, n |-> p]
  <1>1. /\ Len(toClient'[fd]) = Len(toClient[fd]) + 1
        /\ \A i \in 1..Len(toClient[fd]) : toClient'[fd][i] = toClient[fd][i]
        /\ toClient'[fd][Len(toClient[fd]) + 1] = m
        /\ \A other \in Fds \ {fd} : toClient'[other] = toClient[other]
        /\ Len(toClient["sdC"]) \in Nat /\ Len(toClient["sdD"]) \in Nat
        /\ fd \in Fds
    BY EmitType DEF IInv, FdOf, Fds
  <1>2. replied = p - 1 /\ replied' = p
    BY DEF MayAnswer, Emit
  <1>3. \A x \in Strings : Fit(x) => Fit(x)'
    BY <1>2 DEF Fit, Honest, Refused, Strings
  <1>4. /\ toClient \in [Fds -> Seq(Strings)] /\ recvbuf \in Seq(Strings)
        /\ Len(toClient[fd]) \in Nat
    BY <1>1, Numbers DEF IInv, TypeOK, Fds
  <1>5. ASSUME NEW other \in Fds, NEW i \in 1..Len(toClient'[other])
        PROVE  Fit(toClient[other][i])'
    <2>1. CASE other = fd /\ i = Len(toClient[fd]) + 1
      BY <1>1, <2>1 DEF Fit, Honest, Refused
    <2>2. CASE ~(other = fd /\ i = Len(toClient[fd]) + 1)
      <3>1. i \in 1..Len(toClient[other]) /\ toClient'[other][i] = toClient[other][i]
        BY <1>1, <1>4, <2>2
      <3>2. toClient[other] \in Seq(Strings)
        BY <1>4
      <3>3. toClient[other][i] \in Strings /\ Fit(toClient[other][i])
        BY <3>1, <3>2, ElementOfSeq DEF CInv, Contents
      <3> QED
        BY <1>3, <3>1, <3>3 DEF Fit, Honest, Refused
    <2> QED
      BY <2>1, <2>2
  <1>6. ASSUME NEW i \in 1..Len(recvbuf') PROVE Fit(recvbuf[i])'
    <2>1. recvbuf' = recvbuf /\ Fit(recvbuf[i]) /\ recvbuf[i] \in Strings
      BY <1>4, ElementOfSeq DEF clientVars, CInv, Contents
    <2> QED
      BY <1>3, <2>1 DEF Fit, Honest, Refused
  <1>7. Contents'
    BY <1>5, <1>6 DEF Contents
  <1>8. TokenKnown' /\ OnlyGoodAnswersPass'
    BY DEF CInv, TokenKnown, OnlyGoodAnswersPass, clientVars
  <1>9. 5 \notin Eager => DtokenEchoed'
    <2> SUFFICES ASSUME 5 \notin Eager, phase >= 6, pc # "exit" PROVE token' = srvDToken'
      BY DEF DtokenEchoed, clientVars
    <2>1. ReadD = 3 /\ ReadD + Len(toClient["sdD"]) <= AnsweredD
      <3>1. ReadD + Len(toClient["sdD"]) <= AnsweredD
        BY DEF IInv, Flow
      <3>2. ReadD = 3
        BY Numbers DEF ReadD
      <3> QED
        BY <3>1, <3>2
    <2>2. replied >= 5
      <3>1. replied \in 0..7 /\ AnsweredD \in Int /\ Len(toClient["sdD"]) \in Nat
        BY Numbers, CountsAreInts
      <3>2. AnsweredD >= 3
        BY <2>1, <3>1
      <3> QED
        BY <3>1, <3>2 DEF AnsweredD
    <2> QED
      BY <1>2, <2>2 DEF CInv, DtokenEchoed, clientVars
  <1> QED
    BY <1>7, <1>8, <1>9 DEF CInv

LEMMA ServerAnswerCInv ==
  IInv /\ CInv /\ (ServerAnswer \/ ServerMisbehaves) => CInv'
  <1> SUFFICES ASSUME IInv, CInv PROVE ServerAnswer \/ ServerMisbehaves => CInv'
    OBVIOUS
  <1>1. ASSUME NEW p \in 1..7
        PROVE  Context(p) \in {"S", "T"} /\ RightBodies(p) \subseteq Bodies
    BY DEF Context, RightBodies, Bodies, IInv, TypeOK
  <1>2. ASSUME ServerAnswer PROVE CInv'
    <2>1. PICK p \in 1..7 :
            /\ MayAnswer(p)
            /\ \E body \in RightBodies(p) :
                 /\ Emit(p, Context(p), body)
                 /\ srvDToken' = IF p = 5 THEN body ELSE srvDToken
            /\ good' = good \cup {p}
            /\ UNCHANGED clientVars
      BY <1>2 DEF ServerAnswer
    <2>2. PICK body \in RightBodies(p) :
            /\ Emit(p, Context(p), body)
            /\ srvDToken' = IF p = 5 THEN body ELSE srvDToken
      BY <2>1
    <2>3. p \in {2, 5} => body \in Tokens
      BY <2>2 DEF RightBodies
    <2>4. Fit([ctx |-> Context(p), body |-> body, n |-> p])'
      <3>1. replied' = p
        BY <2>2 DEF Emit
      <3> QED
        BY <2>1, <2>2, <2>3, <3>1 DEF Fit, Honest
    <2>5. Context(p) \in {"S", "T", "C", "E"} /\ body \in Bodies
      BY <1>1, <2>2
    <2> QED
      BY <2>1, <2>2, <2>4, <2>5, EmitCInv
  <1>3. ASSUME ServerMisbehaves PROVE CInv'
    <2>1. PICK p \in 1..7 :
            /\ MayAnswer(p)
            /\ \/ \E body \in RightBodies(p) : Emit(p, "C", body)
               \/ p \notin {2, 5} /\ Emit(p, Context(p), "junk")
      BY <1>3 DEF ServerMisbehaves
    <2>2. PICK ctx \in {"S", "T", "C", "E"}, body \in Bodies :
            /\ Emit(p, ctx, body)
            /\ ctx = "C" \/ (ctx # "E" /\ p \notin {2, 5} /\ body = "junk")
      BY <1>1, <2>1 DEF Bodies
    <2>3. Fit([ctx |-> ctx, body |-> body, n |-> p])'
      <3>1. replied' = p
        BY <2>2 DEF Emit
      <3> QED
        BY <2>2, <3>1 DEF Fit, Refused
    <2>4. UNCHANGED clientVars /\ good' = good /\ srvDToken' = srvDToken
      BY <1>3 DEF ServerMisbehaves
    <2> QED
      BY <2>1, <2>2, <2>3, <2>4, EmitCInv
  <1> QED
    BY <1>2, <1>3

LEMMA ServerCrashCInv == IInv /\ CInv /\ ServerCrash => CInv'
  <1> SUFFICES ASSUME IInv, CInv, ServerCrash PROVE CInv'
    OBVIOUS
  <1>1. PICK c \in 0..Len(toClient["sdC"]), d \in 0..Len(toClient["sdD"]) :
           toClient' = [fd \in Fds |->
                          SubSeq(toClient[fd], 1, IF fd = "sdC" THEN c ELSE d)]
    BY DEF ServerCrash
  <1>2. UNCHANGED <<clientVars, replied, good, srvDToken>>
    BY DEF ServerCrash
  <1>3. \A x : Fit(x) => Fit(x)'
    BY <1>2, FitStays
  <1>4. ASSUME NEW fd \in Fds, NEW i \in 1..Len(toClient'[fd])
        PROVE  Fit(toClient[fd][i])'
    <2>1. PICK k \in 0..Len(toClient[fd]) : toClient'[fd] = SubSeq(toClient[fd], 1, k)
      BY <1>1 DEF Fds
    <2>2. toClient[fd] \in Seq(Strings) /\ Len(toClient[fd]) \in Nat
      BY Numbers DEF Fds
    <2>3. /\ Len(toClient'[fd]) = k
          /\ \A j \in 1..k : toClient'[fd][j] = toClient[fd][j]
      BY <2>1, <2>2, Cut
    <2>4. i \in 1..Len(toClient[fd]) /\ toClient'[fd][i] = toClient[fd][i]
      BY <2>2, <2>3
    <2>5. Fit(toClient[fd][i])
      BY <2>4 DEF CInv, Contents
    <2> QED
      BY <1>3, <2>4, <2>5 DEF Fit, Honest, Refused
  <1>5. ASSUME NEW i \in 1..Len(recvbuf') PROVE Fit(recvbuf[i])'
    <2>1. recvbuf' = recvbuf /\ Fit(recvbuf[i])
      BY <1>2 DEF clientVars, CInv, Contents
    <2> QED
      BY <1>3, <2>1 DEF Fit, Honest, Refused
  <1>6. Contents'
    BY <1>4, <1>5 DEF Contents
  <1>7. TokenKnown' /\ OnlyGoodAnswersPass' /\ (5 \notin Eager => DtokenEchoed')
    BY <1>2 DEF CInv, TokenKnown, OnlyGoodAnswersPass, DtokenEchoed, clientVars
  <1> QED
    BY <1>6, <1>7 DEF CInv

LEMMA NextCInv ==
  ASSUME "error" \notin Faults
  PROVE  IInv /\ CInv /\ [Next]_vars => CInv'
  <1> SUFFICES ASSUME IInv, CInv, [Next]_vars PROVE CInv'
    OBVIOUS
  <1>1. CASE \/ BadAddress \/ LocalFailure \/ BrokenPipe \/ Accept \/ AcceptTimeout
             \/ Connect \/ Listen \/ Reject
    BY <1>1, CInvKept DEF BadAddress, LocalFailure, BrokenPipe, Accept, AcceptTimeout,
                          Connect, Listen, Reject, serverVars
  <1>2. CASE ServerRead \/ ServerConnect \/ Spin \/ Terminated \/ UNCHANGED vars
    BY <1>2, CInvKept DEF ServerRead, ServerConnect, Spin, Terminated, vars, clientVars, serverVars
  <1>3. ~ServerError
    BY DEF ServerError
  <1> QED
    BY <1>1, <1>2, <1>3, RecvCInv, RecvTornCInv, CheckCInv, ServerAnswerCInv, ServerCrashCInv
       DEF Next, Client, Server

THEOREM ContentsInvariant ==
  ASSUME "error" \notin Faults
  PROVE  Spec => [](IInv /\ CInv)
  <1>1. Init => CInv
    BY InitCInv
  <1>2. IInv /\ CInv /\ [Next]_vars => CInv'
    BY NextCInv
  <1> QED
    BY <1>1, <1>2, Counting, PTL DEF Spec

\* If the server sends no errors, the client gets past a phase only after the
\* server answered it correctly (checkMessage).
THEOREM GoodAnswersOnly ==
  ASSUME "error" \notin Faults
  PROVE  Spec => []OnlyGoodAnswersPass
  BY ContentsInvariant, PTL DEF CInv

\* If moreover the server keeps its data token until it has the text, the token
\* that the client echoes is that data token (line 395).
THEOREM DtokenIsEchoed ==
  ASSUME "error" \notin Faults, 5 \notin Eager
  PROVE  Spec => []DtokenEchoed
  <1>1. CInv => DtokenEchoed
    BY DEF CInv
  <1> QED
    BY <1>1, ContentsInvariant, PTL

-----------------------------------------------------------------------------
(* The hand-off.                                                           *)

LEMMA InitHandoff == Init => H!Init
  BY DEF Init, H!Init, abstractText, abstractOutcome

LEMMA NextHandoff ==
  ASSUME "address" \notin Faults, IInv, IInv', CInv, CInv', [Next]_vars
  PROVE  [H!Next]_(H!vars)
  <1> USE DEF H!vars
  <1>1. CASE LocalFailure \/ Reject \/ BrokenPipe \/ AcceptTimeout
    <2>1. /\ UNCHANGED <<good, seen>> /\ pc' = "exit" /\ pc \notin {"done", "exit"}
      BY <1>1 DEF LocalFailure, Reject, BrokenPipe, AcceptTimeout, CurrentPasses, serverVars
    <2> QED
      BY <2>1 DEF H!Next, H!Fail, abstractText, abstractOutcome
  <1>2. CASE \/ Connect \/ RecvMessage \/ RecvNothing \/ CheckAndSend \/ TakeToken
             \/ TakeDataToken \/ Listen \/ Accept
    <2>1. /\ UNCHANGED <<good, seen>> /\ pc' \notin {"done", "exit"}
          /\ pc \notin {"done", "exit"}
      BY <1>2 DEF Connect, RecvMessage, RecvNothing, CheckAndSend, TakeToken, TakeDataToken,
                  Listen, Accept, Advance, NextPc, CurrentPasses, serverVars
    <2> QED
      BY <2>1 DEF abstractText, abstractOutcome
  <1>3. CASE CheckAck
    <2>1. UNCHANGED <<good, seen>> /\ pc = "check" /\ pc' = "done" /\ phase' = 8
      BY <1>3 DEF CheckAck, Advance, NextPc, CurrentPasses, serverVars
    <2>2. 7 \in good
      BY <2>1 DEF CInv, OnlyGoodAnswersPass
    <2> QED
      BY <2>1, <2>2 DEF H!Next, H!Succeed, abstractText, abstractOutcome
  <1>4. CASE ServerRead
    <2>1. UNCHANGED <<pc, good>> /\ (seen' = seen \/ seen' = seen + 1)
      BY <1>4 DEF ServerRead, clientVars
    <2> QED
      BY <2>1, Numbers DEF H!Next, H!Deliver, abstractText, abstractOutcome
  <1>5. CASE ServerAnswer
    <2>1. PICK p \in 1..7 : /\ MayAnswer(p) /\ good' = good \cup {p}
                            /\ UNCHANGED <<clientVars, seen>>
      BY <1>5 DEF ServerAnswer
    <2>2. p = 7 => seen >= 6 /\ 7 \notin good
      BY <2>1, EagerAssumption, Numbers DEF MayAnswer, Need, IInv, Order
    <2>3. UNCHANGED <<pc, seen>>
      BY <2>1 DEF clientVars
    <2>4. CASE p = 7
      BY <2>1, <2>2, <2>3, <2>4, Numbers
         DEF H!Next, H!Acknowledge, abstractText, abstractOutcome
    <2>5. CASE p # 7
      BY <2>1, <2>3, <2>5 DEF abstractText, abstractOutcome
    <2> QED
      BY <2>4, <2>5
  <1>6. CASE \/ ServerConnect \/ ServerMisbehaves \/ ServerError \/ ServerCrash
             \/ Spin \/ Terminated \/ UNCHANGED vars
    <2>1. UNCHANGED <<pc, good, seen>>
      BY <1>6 DEF ServerConnect, ServerMisbehaves, ServerError, ServerCrash, Spin, Terminated,
                  vars, clientVars, serverVars
    <2> QED
      BY <2>1 DEF abstractText, abstractOutcome
  <1>7. ~BadAddress
    BY DEF BadAddress
  <1>8. CASE RecvTorn
    <2>1. UNCHANGED <<good, seen>> /\ pc = "recv" /\ pc' \in {"exit", "spins"}
      BY <1>8 DEF RecvTorn, serverVars
    <2> QED
      BY <2>1 DEF H!Next, H!Fail, abstractText, abstractOutcome
  <1> QED
    BY <1>1, <1>2, <1>3, <1>4, <1>5, <1>6, <1>7, <1>8 DEF Next, Client, Server

\* If the address is good and the server sends no errors, the client is a
\* hand-off: its normal return means an acknowledged text.
THEOREM ClientIsHandoff ==
  ASSUME "error" \notin Faults, "address" \notin Faults
  PROVE  Spec => HandoffSpec
  <1>1. Init => H!Init
    BY InitHandoff
  <1>2. IInv /\ CInv /\ (IInv /\ CInv)' /\ [Next]_vars => [H!Next]_(H!vars)
    BY NextHandoff
  <1> QED
    BY <1>1, <1>2, ContentsInvariant, PTL DEF Spec, HandoffSpec, H!Spec

-----------------------------------------------------------------------------
(* The reads.  NetstringReader implements Reception; these are its steps.  *)

\* The connection the client reads in its phase, as Reception sees it.
Reads == INSTANCE Reception WITH
             Queues <- Seq(Strings), queue <- toClient[FdOf(phase)],
             strings <- recvbuf, nets <- netStringsInBuf,
             state <- CASE pc = "recv" -> "reading"
                        [] pc \in {"exit", "spins"} -> "gone"
                        [] OTHER -> "returned"

\* What a read does besides: startOfNetstring is set, the answer is checked
\* next, and the other connection is not touched.
Around ==
    /\ startOfNetstring' = StartOfRead
    /\ pc' = "check"
    /\ \E queue \in Seq(Strings) :
         toClient' = [toClient EXCEPT ![FdOf(phase)] = queue]
    /\ UNCHANGED <<phase, token, toServer, serverVars>>

LEMMA ReadIsReceive == TypeOK => (RecvMessage <=> Reads!Receive /\ Around)
  <1> SUFFICES ASSUME TypeOK PROVE RecvMessage <=> Reads!Receive /\ Around
    OBVIOUS
  <1> DEFINE queue == toClient[FdOf(phase)]
  <1>1. queue \in Seq(Strings) /\ FdOf(phase) \in Fds
    BY DEF TypeOK, FdOf, Fds
  <1>2. ASSUME RecvMessage PROVE Reads!Receive /\ Around
    <2>1. PICK k \in 1..Len(queue) :
             /\ recvbuf' = Append(SubSeq(queue, 1, k), queue[k])
             /\ netStringsInBuf' = k
             /\ toClient' = [toClient EXCEPT ![FdOf(phase)] =
                               SubSeq(queue, k + 1, Len(queue))]
      BY <1>2 DEF RecvMessage
    <2>2. /\ pc = "recv" /\ pc' = "check" /\ startOfNetstring' = StartOfRead
          /\ phase' = phase /\ UNCHANGED <<phase, token, toServer, serverVars>>
      BY <1>2 DEF RecvMessage
    <2>3. SubSeq(queue, k + 1, Len(queue)) \in Seq(Strings)
      BY <1>1, <2>1
    <2>4. toClient'[FdOf(phase')] = SubSeq(queue, k + 1, Len(queue))
      BY <1>1, <2>1, <2>2 DEF TypeOK
    <2>5. Reads!Receive
      BY <2>1, <2>2, <2>4 DEF Reads!Receive
    <2> QED
      BY <2>1, <2>2, <2>3, <2>5 DEF Around
  <1>3. ASSUME Reads!Receive, Around PROVE RecvMessage
    <2>1. pc = "recv" /\ phase' = phase
      BY <1>3 DEF Reads!Receive, Around
    <2>2. PICK k \in 1..Len(queue) :
             /\ recvbuf' = Append(SubSeq(queue, 1, k), queue[k])
             /\ netStringsInBuf' = k
             /\ toClient'[FdOf(phase')] = SubSeq(queue, k + 1, Len(queue))
      BY <1>3 DEF Reads!Receive
    <2>3. PICK q \in Seq(Strings) : toClient' = [toClient EXCEPT ![FdOf(phase)] = q]
      BY <1>3 DEF Around
    <2>4. q = SubSeq(queue, k + 1, Len(queue))
      BY <1>1, <2>1, <2>2, <2>3 DEF TypeOK
    <2> QED
      BY <1>3, <2>1, <2>2, <2>3, <2>4 DEF Around, RecvMessage
  <1> QED
    BY <1>2, <1>3

\* The end of the stream or the timeout, and what Reception allows of each.
NothingToRead == HungUp \/ (TimedOut /\ netStringsInBuf' = -1)

LEMMA NothingIsReceived ==
    TypeOK => (RecvNothing <=> Reads!ReceiveNothing /\ NothingToRead /\ Around)
  <1> SUFFICES ASSUME TypeOK
               PROVE  RecvNothing <=> Reads!ReceiveNothing /\ NothingToRead /\ Around
    OBVIOUS
  <1> DEFINE queue == toClient[FdOf(phase)]
  <1>1. queue \in Seq(Strings) /\ FdOf(phase) \in Fds
    BY DEF TypeOK, FdOf, Fds
  <1>2. ASSUME RecvNothing PROVE Reads!ReceiveNothing /\ NothingToRead /\ Around
    <2>1. /\ pc = "recv" /\ pc' = "check" /\ startOfNetstring' = StartOfRead
          /\ phase' = phase /\ toClient' = toClient /\ recvbuf' = <<>>
          /\ UNCHANGED <<phase, token, toServer, serverVars>>
      BY <1>2 DEF RecvNothing
    <2>2. \/ HungUp /\ netStringsInBuf' \in {0, -1}
          \/ TimedOut /\ netStringsInBuf' = -1
      BY <1>2 DEF RecvNothing
    <2>3. (queue = <<>> /\ netStringsInBuf' = 0) \/ netStringsInBuf' = -1
      BY <2>2 DEF HungUp
    <2>4. toClient' = [toClient EXCEPT ![FdOf(phase)] = queue]
      BY <1>1, <2>1 DEF TypeOK
    <2>5. Reads!ReceiveNothing
      BY <2>1, <2>3 DEF Reads!ReceiveNothing
    <2>6. Around
      BY <1>1, <2>1, <2>4 DEF Around
    <2> QED
      BY <2>2, <2>5, <2>6 DEF NothingToRead
  <1>3. ASSUME Reads!ReceiveNothing, NothingToRead, Around PROVE RecvNothing
    <2>1. pc = "recv" /\ phase' = phase /\ recvbuf' = <<>>
      BY <1>3 DEF Reads!ReceiveNothing, Around
    <2>2. toClient'[FdOf(phase')] = queue /\ netStringsInBuf' \in {0, -1}
      BY <1>3 DEF Reads!ReceiveNothing
    <2>3. PICK q \in Seq(Strings) : toClient' = [toClient EXCEPT ![FdOf(phase)] = q]
      BY <1>3 DEF Around
    <2>4. q = queue
      BY <1>1, <2>1, <2>2, <2>3 DEF TypeOK
    <2>5. toClient' = toClient
      BY <1>1, <2>3, <2>4 DEF TypeOK
    <2> QED
      BY <1>3, <2>1, <2>2, <2>5 DEF Around, NothingToRead, RecvNothing
  <1> QED
    BY <1>2, <1>3

LEMMA TornIsLeft == TypeOK => (RecvTorn => Reads!Leave /\ FdOf(phase) \in torn)
  <1> SUFFICES ASSUME TypeOK, RecvTorn PROVE Reads!Leave /\ FdOf(phase) \in torn
    OBVIOUS
  <1>1. /\ pc = "recv" /\ pc' \in {"exit", "spins"} /\ FdOf(phase) \in torn
        /\ toClient' = [toClient EXCEPT ![FdOf(phase)] = <<>>]
        /\ UNCHANGED <<phase, recvbuf, netStringsInBuf>>
    BY DEF RecvTorn
  <1>2. FdOf(phase) \in Fds /\ toClient \in [Fds -> Seq(Strings)]
    BY DEF TypeOK, FdOf, Fds
  <1>3. toClient'[FdOf(phase')] = <<>>
    BY <1>1, <1>2
  <1> QED
    BY <1>1, <1>3 DEF Reads!Leave

\* The client reads exactly as Reception says that recvMessage does: a step
\* from "recv" is a step of Reception, and each of those that the peer and the
\* timeouts permit is one of the client's.  It leaves a read without a result
\* only at a piece of a netstring, where the stream is torn.
THEOREM ReadsAsReception ==
    Spec => [][ /\ RecvMessage <=> Reads!Receive /\ Around
                /\ RecvNothing <=> Reads!ReceiveNothing /\ NothingToRead /\ Around
                /\ RecvTorn => Reads!Leave /\ FdOf(phase) \in torn ]_vars
  <1>1. TypeOK => /\ RecvMessage <=> Reads!Receive /\ Around
                  /\ RecvNothing <=> Reads!ReceiveNothing /\ NothingToRead /\ Around
                  /\ RecvTorn => Reads!Leave /\ FdOf(phase) \in torn
    BY ReadIsReceive, NothingIsReceived, TornIsLeft
  <1> QED
    BY <1>1, TypeCorrect, PTL

-----------------------------------------------------------------------------
(* The end of the run.  Each step of the client or of the server makes a   *)
(* list of five numbers smaller: what is left of the client's phases,      *)
(* whether the server is up, the answers to come, whether it has still to  *)
(* connect, and the client's messages under way.                           *)

\* The calls the client still has before it in its phase, and in all phases.
CallsLeft ==
    CASE pc = "connect" -> 5 [] pc = "listen" -> 4 [] pc = "accept" -> 3
      [] pc = "recv" -> 2    [] OTHER -> 1
Over == {"done", "exit", "spins"}
ClientLeft == IF pc \in Over THEN 0 ELSE 5 * (8 - phase) + CallsLeft

One(b) == IF b THEN 1 ELSE 0
UnderWay == Len(toServer["sdC"]) + Len(toServer["sdD"])

Rank == <<ClientLeft, One(srvUp), 7 - replied, One(~conn), UnderWay>>

Ranked == Rank \in [1..5 -> Nat]
ComesToAnEnd == Shrinks(Rank', Rank)

LEMMA RankType == TypeOK => Ranked
  <1> SUFFICES ASSUME TypeOK PROVE Rank \in [1..5 -> Nat]
    BY DEF Ranked
  <1>1. ClientLeft \in Nat
    <2>1. phase \in 1..8 /\ CallsLeft \in 1..5
      BY DEF TypeOK, CallsLeft
    <2> QED
      BY <2>1 DEF ClientLeft
  <1>2. 7 - replied \in Nat /\ One(srvUp) \in Nat /\ One(~conn) \in Nat
    BY DEF TypeOK, One
  <1>3. UnderWay \in Nat
    <2>1. toServer["sdC"] \in Seq(Messages) /\ toServer["sdD"] \in Seq(Messages)
      BY DEF TypeOK, Fds
    <2>2. Len(toServer["sdC"]) \in Nat /\ Len(toServer["sdD"]) \in Nat
      BY <2>1
    <2>3. PICK c \in Nat, d \in Nat : c = Len(toServer["sdC"]) /\ d = Len(toServer["sdD"])
      BY <2>2
    <2>4. UnderWay = c + d
      BY <2>3 DEF UnderWay
    <2> QED
      BY <2>4
  <1> QED
    BY <1>1, <1>2, <1>3 DEF Rank

\* The client never goes back: to a call it has made, or to a phase it is past.
LEMMA ClientGoesOn == ASSUME TypeOK, Client PROVE ClientLeft' < ClientLeft
  <1>1. phase \in 1..8 /\ CallsLeft \in 1..5 /\ CallsLeft' \in 1..5
    BY DEF TypeOK, CallsLeft
  <1>2. CASE pc \notin Over /\ pc' \in Over
    <2>1. ClientLeft' = 0 /\ ClientLeft = 5 * (8 - phase) + CallsLeft
      BY <1>2 DEF ClientLeft
    <2> QED
      BY <1>1, <2>1
  <1>3. CASE /\ pc \notin Over /\ pc' \notin Over
             /\ phase' = phase /\ CallsLeft' < CallsLeft
    <2>1. ClientLeft' = 5 * (8 - phase) + CallsLeft' /\ ClientLeft = 5 * (8 - phase) + CallsLeft
      BY <1>3 DEF ClientLeft
    <2>2. PICK p \in 1..8, a \in 1..5, b \in 1..5 : p = phase /\ a = CallsLeft /\ b = CallsLeft'
      BY <1>1
    <2>3. ClientLeft' = 5 * (8 - p) + b /\ ClientLeft = 5 * (8 - p) + a /\ b < a
      BY <1>3, <2>1, <2>2
    <2>4. 5 * (8 - p) + b < 5 * (8 - p) + a
      BY <2>3
    <2> QED
      BY <2>3, <2>4
  <1>4. CASE /\ pc = "check" /\ pc' \in {"recv", "check", "listen"}
             /\ phase' = phase + 1
    <2>1. CallsLeft = 1 /\ CallsLeft' <= 4
      BY <1>4 DEF CallsLeft
    <2>2. ClientLeft' = 5 * (8 - (phase + 1)) + CallsLeft' /\ ClientLeft = 5 * (8 - phase) + 1
      BY <1>4, <2>1 DEF ClientLeft, Over
    <2>3. PICK p \in 1..8, b \in 1..5 : p = phase /\ b = CallsLeft'
      BY <1>1
    <2>4. ClientLeft' = 5 * (8 - (p + 1)) + b /\ ClientLeft = 5 * (8 - p) + 1 /\ b <= 4
      BY <2>1, <2>2, <2>3
    <2>5. 5 * (8 - (p + 1)) + b < 5 * (8 - p) + 1
      BY <2>4
    <2> QED
      BY <2>4, <2>5
  <1>5. CASE \/ BadAddress \/ LocalFailure \/ Reject \/ BrokenPipe \/ AcceptTimeout
             \/ RecvTorn
    <2>1. pc \notin Over /\ pc' \in Over
      BY <1>5 DEF BadAddress, LocalFailure, Reject, BrokenPipe, AcceptTimeout, RecvTorn,
                  CurrentPasses, Over
    <2> QED
      BY <1>2, <2>1
  <1>6. CASE Connect \/ RecvMessage \/ RecvNothing \/ Listen \/ Accept
    <2>1. /\ pc \notin Over /\ pc' \notin Over /\ phase' = phase
          /\ \/ pc = "connect" /\ pc' = "recv"
             \/ pc = "recv" /\ pc' = "check"
             \/ pc = "listen" /\ pc' = "accept"
             \/ pc = "accept" /\ pc' = "recv"
      BY <1>6 DEF Connect, RecvMessage, RecvNothing, Listen, Accept, Over
    <2>2. CallsLeft' < CallsLeft
      BY <2>1 DEF CallsLeft
    <2> QED
      BY <1>3, <2>1, <2>2
  <1>7. CASE CheckAndSend \/ TakeToken \/ TakeDataToken \/ CheckAck
    <2>1. pc = "check" /\ Advance
      BY <1>7 DEF CheckAndSend, TakeToken, TakeDataToken, CheckAck, CurrentPasses
    <2>2. pc' \in {"recv", "check", "listen", "done"} /\ phase' = phase + 1
      BY <2>1 DEF Advance, NextPc
    <2> QED
      BY <1>2, <1>4, <2>1, <2>2 DEF Over
  <1> QED
    BY <1>5, <1>6, <1>7 DEF Client

LEMMA StepShrinks == ASSUME TypeOK, Ranked, Ranked', Client \/ Server PROVE ComesToAnEnd
  <1>1. Rank \in [1..5 -> Nat] /\ Rank' \in [1..5 -> Nat]
    BY DEF Ranked
  <1>2. /\ Rank[1] = ClientLeft /\ Rank[2] = One(srvUp) /\ Rank[3] = 7 - replied
        /\ Rank[4] = One(~conn) /\ Rank[5] = UnderWay
        /\ Rank'[1] = ClientLeft' /\ Rank'[2] = One(srvUp') /\ Rank'[3] = 7 - replied'
        /\ Rank'[4] = One(~conn') /\ Rank'[5] = UnderWay'
    BY DEF Rank, One
  <1>3. CASE Client
    <2>1. ClientLeft' < ClientLeft
      BY <1>3, ClientGoesOn
    <2> QED
      BY <1>1, <1>2, <2>1, ShrinksAt DEF ComesToAnEnd
  <1>4. Server => ClientLeft' = ClientLeft
    <2>1. Server => pc' = pc /\ phase' = phase
      BY DEF Server, ServerRead, ServerConnect, ServerAnswer, ServerMisbehaves, ServerError,
             ServerCrash, clientVars
    <2> QED
      BY <2>1 DEF ClientLeft, CallsLeft
  <1>5. srvUp \in BOOLEAN /\ conn \in BOOLEAN /\ replied \in 0..7
    BY DEF TypeOK
  <1>6. CASE ServerError \/ ServerCrash
    <2>1. srvUp /\ ~srvUp'
      BY <1>6 DEF ServerError, ServerCrash, MayAnswer
    <2>2. One(srvUp') < One(srvUp)
      BY <2>1 DEF One
    <2>3. Server
      BY <1>6 DEF Server
    <2> QED
      BY <1>1, <1>2, <1>4, <2>2, <2>3, ShrinksAt DEF ComesToAnEnd
  <1>7. CASE ServerAnswer \/ ServerMisbehaves
    <2>1. srvUp' = srvUp /\ \E p \in 1..7 : replied = p - 1 /\ replied' = p
      BY <1>7 DEF ServerAnswer, ServerMisbehaves, MayAnswer, Emit
    <2>2. 7 - replied' < 7 - replied
      BY <1>5, <2>1
    <2>3. Server /\ One(srvUp') = One(srvUp)
      BY <1>7, <2>1 DEF Server
    <2> QED
      BY <1>1, <1>2, <1>4, <2>2, <2>3, ShrinksAt DEF ComesToAnEnd
  <1>8. CASE ServerConnect
    <2>1. ~conn /\ conn' /\ srvUp' = srvUp /\ replied' = replied
      BY <1>8 DEF ServerConnect
    <2>2. One(~conn') < One(~conn) /\ One(srvUp') = One(srvUp) /\ 7 - replied' = 7 - replied
      BY <2>1 DEF One
    <2>3. Server
      BY <1>8 DEF Server
    <2> QED
      BY <1>1, <1>2, <1>4, <2>2, <2>3, ShrinksAt DEF ComesToAnEnd
  <1>9. CASE ServerRead
    <2>1. PICK fd \in Fds : toServer[fd] # <<>> /\ toServer' = [toServer EXCEPT ![fd] = Tail(@)]
      BY <1>9 DEF ServerRead
    <2>2. /\ srvUp' = srvUp \/ (srvUp /\ ~srvUp')
          /\ conn' = conn /\ replied' = replied
      BY <1>9 DEF ServerRead
    <2>3. Server
      BY <1>9 DEF Server
    <2>4. CASE srvUp /\ ~srvUp'
      <3>1. One(srvUp') < One(srvUp)
        BY <2>4 DEF One
      <3> QED
        BY <1>1, <1>2, <1>4, <2>3, <3>1, ShrinksAt DEF ComesToAnEnd
    <2>5. CASE srvUp' = srvUp
      <3>1. UnderWay' < UnderWay
        <4>1. /\ toServer \in [Fds -> Seq(Messages)] /\ fd \in {"sdC", "sdD"}
              /\ "sdC" \in Fds /\ "sdD" \in Fds
          BY DEF TypeOK, Fds
        <4>2. Len(toServer["sdC"]) \in Nat /\ Len(toServer["sdD"]) \in Nat
          BY <4>1
        <4>3. Len(Tail(toServer[fd])) = Len(toServer[fd]) - 1
          BY <2>1, <4>1
        <4>4. PICK c \in Nat, d \in Nat : c = Len(toServer["sdC"]) /\ d = Len(toServer["sdD"])
          BY <4>2
        <4>5. UnderWay = c + d /\ UnderWay' = Len(toServer'["sdC"]) + Len(toServer'["sdD"])
          BY <4>4 DEF UnderWay
        <4>6. CASE fd = "sdC"
          <5>1. /\ toServer'["sdC"] = Tail(toServer[fd])
                /\ toServer'["sdD"] = toServer["sdD"]
            BY <2>1, <4>1, <4>6
          <5>2. UnderWay' = (c - 1) + d
            BY <4>3, <4>4, <4>5, <4>6, <5>1
          <5>3. (c - 1) + d < c + d
            OBVIOUS
          <5> QED
            BY <4>5, <5>2, <5>3
        <4>7. CASE fd = "sdD"
          <5>1. /\ toServer'["sdD"] = Tail(toServer[fd])
                /\ toServer'["sdC"] = toServer["sdC"]
            BY <2>1, <4>1, <4>7
          <5>2. UnderWay' = c + (d - 1)
            BY <4>3, <4>4, <4>5, <4>7, <5>1
          <5>3. c + (d - 1) < c + d
            OBVIOUS
          <5> QED
            BY <4>5, <5>2, <5>3
        <4> QED
          BY <4>1, <4>6, <4>7
      <3>2. One(srvUp') = One(srvUp) /\ 7 - replied' = 7 - replied /\ One(~conn') = One(~conn)
        BY <2>2, <2>5
      <3> QED
        BY <1>1, <1>2, <1>4, <2>3, <3>1, <3>2, ShrinksAt DEF ComesToAnEnd
    <2> QED
      BY <2>2, <2>4, <2>5
  <1> QED
    BY <1>3, <1>6, <1>7, <1>8, <1>9 DEF Server

\* The busy loop is entered only at the end of a torn stream, and never left.
LEMMA SpinsAtTheEnd ==
  ASSUME IInv, pc = "spins" => Spinning, [Next]_vars
  PROVE  (pc = "spins" => Spinning)'
  <1>1. CASE Client
    <2>1. CASE RecvTorn
      <3>1. FdOf(phase) \in torn /\ UNCHANGED <<phase, srvUp, torn>>
        BY <2>1 DEF RecvTorn, serverVars
      <3>2. ~srvUp
        BY <3>1 DEF IInv, Order
      <3> QED
        BY <3>1, <3>2 DEF Spinning, FdOf
    <2>2. ~RecvTorn => pc' # "spins"
      BY <1>1 DEF Client, BadAddress, Connect, LocalFailure, RecvMessage, RecvNothing,
                  CheckAndSend, TakeToken, TakeDataToken, CheckAck, Advance, NextPc, Reject,
                  BrokenPipe, Listen, Accept, AcceptTimeout
    <2> QED
      BY <2>1, <2>2
  <1>2. CASE Server
    <2>1. srvUp /\ pc' = pc
      BY <1>2 DEF Server, ServerRead, ServerConnect, ServerAnswer, ServerMisbehaves,
                  ServerError, ServerCrash, MayAnswer, clientVars
    <2> QED
      BY <2>1 DEF Spinning
  <1>3. CASE UNCHANGED vars
    BY <1>3 DEF vars, clientVars, serverVars, Spinning, FdOf
  <1> QED
    BY <1>1, <1>2, <1>3 DEF Next, Spin, Terminated

\* Whatever the server does and whatever fails, every step of the client and of
\* the server brings the run nearer to its end: no phase is entered twice and no
\* loop of messages keeps it going (assignment4.c:207-423).  So a run that does
\* not end comes to a place where nothing changes any more (NoEndlessShrinking):
\* it waits, or it is in the busy loop of readNet (142-149), and that only if the
\* server went down inside a netstring on the connection that the client reads.
THEOREM RunShrinks ==
    Spec => /\ []Ranked /\ [][ComesToAnEnd]_vars
            /\ [](pc = "spins" => Spinning)
  <1>1. TypeOK => Ranked
    BY RankType
  <1>2. TypeOK /\ Ranked /\ Ranked' /\ [Next]_vars => [ComesToAnEnd]_vars
    BY StepShrinks DEF Next, Spin, Terminated
  <1>3. Init => (pc = "spins" => Spinning)
    BY DEF Init
  <1>4. IInv /\ (pc = "spins" => Spinning) /\ [Next]_vars => (pc = "spins" => Spinning)'
    BY SpinsAtTheEnd
  <1> QED
    BY <1>1, <1>2, <1>3, <1>4, TypeCorrect, Counting, PTL DEF Spec
=============================================================================
