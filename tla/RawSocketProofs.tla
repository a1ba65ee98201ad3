-------------------------- MODULE RawSocketProofs --------------------------
(***************************************************************************)
(* Proofs about RawSocket, for any number of descriptors, whatever the     *)
(* rest of the process does with them, and any list of addresses.          *)
(*                                                                         *)
(* What the library may touch depends on the table of descriptors, which   *)
(* is not its own.  Sockets is the invariant that ties the numbers it has  *)
(* kept to the entries of that table, Layers says which numbers there are, *)
(* and Frames what may wait in the packet socket.                          *)
(***************************************************************************)
EXTENDS RawSocket, Induction

Addr == Addresses \cup Addresses4
Entry == [name : Devices, family : {"inet"}, addr : Addresses4]
           \cup [name : Devices, family : {"inet6", "none"}, addr : Addresses]
Found == [ip : Addr, ip6 : Addr]

-----------------------------------------------------------------------------
(* The lowest free descriptor.                                             *)

LEMMA LowestIsFree == ASSUME Free # {} PROVE Lowest \in Free /\ Lowest \in Fds
<1>1. Free \in SUBSET Nat /\ Free \subseteq Fds
  BY DescriptorsAssumption DEF Free, Fds
<1> HIDE DEF Free
<1>2. \E d \in Free : \A e \in Free : d <= e
  BY <1>1, LeastNatural
<1> QED
  BY <1>1, <1>2 DEF Lowest

-----------------------------------------------------------------------------
(* The inductive invariant.                                                *)

Kinds == {"free", "other", "six", "four", "packet"}

TypeOK ==
    /\ at \in {"new", "six", "four", "packet", "bind", "use", "closed", "gone", "exit"}
    /\ layer \in {"dgram", "raw", "neither"}
    /\ ifindex \in {-1, Ifname} /\ mac \in {-1, Ifname}
    /\ write_six \in Fds \cup {-1} /\ write_four \in Fds \cup {-1} /\ fd \in Fds \cup {-1}
    /\ ip \in Addr /\ ip6 \in Addr
    /\ files \in [Fds -> Kinds]
    /\ bound \in BOOLEAN /\ queue \subseteq Devices /\ listed \in Seq(Entry)
    /\ io \in [op : {"none", "read", "write"}, version : {"none", "4", "6", "unknown"},
               file : Kinds \cup {"none"}, device : Devices \cup {0}]
    /\ early \subseteq Devices /\ lost \subseteq Fds

\* The number of a socket that is open is the socket, and no other number is.
Sockets ==
    /\ write_six # -1 => files[write_six] = "six"
    /\ write_four # -1 => files[write_four] = "four"
    /\ at \in {"bind", "use"} => fd # -1 /\ files[fd] = "packet"
    /\ fd # -1 => files[fd] \notin {"six", "four"}
    /\ \A d \in Fds : files[d] = "packet" => at \in {"bind", "use", "exit"} /\ d = fd

\* The state of the library that belongs to each point.
Layers ==
    /\ at \in {"new", "six", "four"} => write_four = -1
    /\ at \in {"new", "six"} => write_six = -1
    /\ at \in {"six", "four"} => layer = "dgram"
    /\ at = "four" => write_six # -1
    /\ at \in {"packet", "bind", "use", "closed", "gone"} =>
         \/ layer = "dgram" /\ write_six # -1 /\ write_four # -1
         \/ layer = "raw" /\ write_six = -1 /\ write_four = -1
    /\ at \in {"new", "six", "four", "packet", "bind", "closed", "gone"} => ifindex = -1
    /\ at \in {"closed", "gone"} => fd # -1
    /\ at \in {"new", "six", "four", "packet"} => fd = -1
    /\ at = "use" => bound
    /\ at \in {"new", "six", "four", "packet", "bind"} => io.op = "none"

\* Only frames of other devices that came early wait in the packet socket.
Frames == queue \subseteq {Ifname} \cup early

-----------------------------------------------------------------------------
(* Type correctness.                                                       *)

\* What came of the fold over a list of addresses: one record for each prefix
\* of the list.
Folded(ifa, s) ==
    /\ s \in [0..Len(ifa) -> Found]
    /\ s[0] = [ip |-> ip, ip6 |-> ip6]
    /\ \A k \in 1..Len(ifa) : s[k] = visit(s[k - 1], ifa[k])

LEMMA VisitType ==
    ASSUME NEW found \in Found, NEW ifc \in Entry
    PROVE  visit(found, ifc) \in Found
<1>1. ifc.addr \in Addr
  BY DEF Entry, Addr
<1>2. found.ip \in Addr /\ found.ip6 \in Addr
  BY DEF Found
<1> QED
  BY <1>1, <1>2 DEF Found, visit

\* grnvs_get_addresses visits the entries in their order.
LEMMA AddressesAreFolded ==
    ASSUME NEW ifa \in Seq(Entry), ip \in Addr, ip6 \in Addr
    PROVE  \E s : Folded(ifa, s) /\ grnvs_get_addresses(ifa) = s[Len(ifa)]
<1> DEFINE D == 1..Len(ifa)
           base == [ip |-> ip, ip6 |-> ip6]
           h == [p \in D \X Found |-> visit(p[2], ifa[p[1]])]
           c == [T \in SUBSET D |-> Max(T)]
           Visits(f) == f = [T \in SUBSET D |->
                              IF T = {} THEN base ELSE visit(f[T \ {Max(T)}], ifa[Max(T)])]
           iter == CHOOSE f : Visits(f)
<1>1. Len(ifa) \in Nat /\ DOMAIN ifa = D /\ \A i \in D : ifa[i] \in Entry
  OBVIOUS
<1>2. IsFiniteSet(D)
  BY <1>1, FS_Interval
<1>3. base \in Found
  BY DEF Found
<1>4. h \in [D \X Found -> Found]
  BY <1>1, VisitType
<1>5. \A T \in (SUBSET D) \ {{}} : c[T] = Max(T) /\ c[T] \in T
  BY <1>1, GreatestOfSome
<1>6. PICK f \in [SUBSET D -> Found] : FoldsOver(f, D, base, h, c)
  <2> HIDE DEF D, h, c, base
  <2> QED
    BY <1>2, <1>3, <1>4, <1>5, SubsetRecursion DEF Chooses
<1>7. Visits(f)
  <2>1. ASSUME NEW T \in SUBSET D, T # {}
        PROVE  h[<<c[T], f[T \ {c[T]}]>>] = visit(f[T \ {Max(T)}], ifa[Max(T)])
    <3>1. c[T] = Max(T) /\ Max(T) \in D /\ f[T \ {Max(T)}] \in Found
      BY <1>5, <1>6, <2>1
    <3> QED
      BY <3>1
  <2> HIDE DEF h, c, base, D
  <2> QED
    BY <1>6, <2>1 DEF FoldsOver
<1>8. Visits(iter)
  BY <1>7
<1>9. grnvs_get_addresses(ifa) = iter[D]
  BY <1>1 DEF grnvs_get_addresses, FoldLeft, MapThenFoldSet
<1> DEFINE s == [k \in 0..Len(ifa) |-> iter[1..k]]
<1>10. s[0] = base
  <2>1. 1..0 = {} /\ 1..0 \in SUBSET D
    OBVIOUS
  <2> HIDE DEF iter, D, base
  <2> QED
    BY <1>1, <1>8, <2>1
<1>11. ASSUME NEW k \in 1..Len(ifa)
       PROVE  s[k] = visit(s[k - 1], ifa[k])
  <2>1. /\ 1..k \in SUBSET D /\ 1..k # {}
        /\ Max(1..k) = k /\ (1..k) \ {k} = 1..(k - 1)
    BY <1>1, GreatestOfAll
  <2>2. k \in 0..Len(ifa) /\ k - 1 \in 0..Len(ifa)
    BY <1>1
  <2> HIDE DEF iter, D, base
  <2>3. iter[1..k] = visit(iter[1..(k - 1)], ifa[k])
    BY <1>8, <2>1
  <2> QED
    BY <2>2, <2>3
<1>12. \A k \in 0..Len(ifa) : s[k] \in Found
  <2> HIDE DEF s, base
  <2> DEFINE Good == {k \in Nat : k <= Len(ifa) => s[k] \in Found}
  <2>1. 0 \in Good
    BY <1>3, <1>10
  <2>2. ASSUME NEW k \in Good PROVE k + 1 \in Good
    <3> SUFFICES ASSUME k + 1 <= Len(ifa) PROVE s[k + 1] \in Found
      OBVIOUS
    <3>1. k + 1 \in 1..Len(ifa) /\ (k + 1) - 1 = k /\ s[k] \in Found
      BY <1>1
    <3>2. s[k + 1] = visit(s[k], ifa[k + 1])
      BY <1>11, <3>1
    <3> QED
      BY <1>1, <3>1, <3>2, VisitType
  <2>3. Good \in SUBSET Nat
    OBVIOUS
  <2>4. Good = Nat
    <3> HIDE DEF Good
    <3> QED
      BY <2>1, <2>2, <2>3, NumbersByInduction
  <2> QED
    BY <1>1, <2>4
<1>13. Folded(ifa, s)
  <2>1. s \in [0..Len(ifa) -> Found]
    BY <1>12
  <2> HIDE DEF s
  <2> QED
    BY <1>10, <1>11, <2>1 DEF Folded
<1>14. s[Len(ifa)] = iter[D]
  BY <1>1
<1> HIDE DEF s, iter, D
<1> QED
  BY <1>9, <1>13, <1>14

LEMMA AddressesType ==
    ASSUME NEW ifa \in Lists, ip \in Addr, ip6 \in Addr
    PROVE  /\ ifa \in Seq(Entry)
           /\ grnvs_get_addresses(ifa).ip \in Addr /\ grnvs_get_addresses(ifa).ip6 \in Addr
<1>1. ifa \in Seq(Entry)
  BY ListsAssumption DEF Entry
<1>2. PICK s : Folded(ifa, s) /\ grnvs_get_addresses(ifa) = s[Len(ifa)]
  BY <1>1, AddressesAreFolded
<1>3. grnvs_get_addresses(ifa) \in Found
  BY <1>1, <1>2 DEF Folded
<1> QED
  BY <1>1, <1>3 DEF Found

LEMMA InitTypeOK == Init => TypeOK
<1> SUFFICES ASSUME Init PROVE TypeOK
  OBVIOUS
<1>1. Zero \in Addr
  BY DEF Zero, Addr, Addresses
<1>2. files \in [Fds -> Kinds]
  BY DEF Init, Kinds
<1>3. <<>> \in Seq(Entry)
  OBVIOUS
<1>4. io \in [op : {"none", "read", "write"}, version : {"none", "4", "6", "unknown"},
              file : Kinds \cup {"none"}, device : Devices \cup {0}]
  BY DEF Init
<1> QED
  BY <1>1, <1>2, <1>3, <1>4 DEF Init, TypeOK

LEMMA AllocateType ==
    ASSUME TypeOK, NEW kind \in Kinds, Allocate(kind)
    PROVE  /\ files' \in [Fds -> Kinds]
           /\ Lowest \in Fds /\ files[Lowest] = "free"
           /\ files' = [files EXCEPT ![Lowest] = kind]
  BY LowestIsFree DEF Allocate, TypeOK, Free

\* Reads and writes that are not refused have a descriptor.
LEMMA UseTypes ==
    ASSUME TypeOK, Layers, Sockets, at \in {"use", "closed"}, Usable
    PROVE  at = "use" /\ fd \in Fds /\ \A version : Route(version) \subseteq Fds
<1>1. at = "use"
  BY DEF Layers, Usable
<1> QED
  BY <1>1 DEF TypeOK, Layers, Sockets, Route

LEMMA CloseType ==
    ASSUME TypeOK, fd \in Fds, grnvs_close
    PROVE  /\ ifindex' = -1 /\ mac' = -1 /\ ip' \in Addr /\ ip6' \in Addr
           /\ files' \in [Fds -> Kinds] /\ bound' \in BOOLEAN
           /\ queue' \subseteq Devices /\ lost' \subseteq Fds
<1>1. Zero \in Addr
  BY DEF Zero, Addr, Addresses
<1>2. files' \in [Fds -> Kinds]
  BY DEF grnvs_close, TypeOK, Kinds
<1>3. lost' \subseteq Fds
  BY DEF grnvs_close, TypeOK, Released
<1> QED
  BY <1>1, <1>2, <1>3 DEF grnvs_close, TypeOK

LEMMA NextTypeOK ==
    ASSUME TypeOK, Layers, Sockets, [Next]_vars
    PROVE  TypeOK'
<1> USE DEF library, kernel, history
<1>1. CASE OthersOpen
  BY <1>1, AllocateType DEF OthersOpen, TypeOK, Kinds
<1>2. CASE OthersClose
  <2>1. files' \in [Fds -> Kinds]
    BY <1>2 DEF OthersClose, TypeOK, Kinds
  <2> QED
    BY <1>2, <2>1 DEF OthersClose, TypeOK
<1>3. CASE FrameArrives
  <2>1. queue' \subseteq Devices /\ early' \subseteq Devices
    BY <1>3 DEF FrameArrives, TypeOK
  <2> QED
    BY <1>3, <2>1 DEF FrameArrives, TypeOK
<1>4. CASE Open
  <2>1. Zero \in Addr
    BY DEF Zero, Addr, Addresses
  <2>2. at' \in {"six", "packet", "exit"}
    BY <1>4 DEF Open
  <2> QED
    BY <1>4, <2>1, <2>2 DEF Open, TypeOK
<1>5. CASE OpenSix
  BY <1>5, AllocateType DEF OpenSix, TypeOK, Kinds
<1>6. CASE OpenFour
  BY <1>6, AllocateType DEF OpenFour, TypeOK, Kinds
<1>7. CASE OpenPacket
  BY <1>7, AllocateType DEF OpenPacket, TypeOK, Kinds
<1>8. CASE Bind
  <2>1. listed' \in Seq(Entry) /\ ip' \in Addr /\ ip6' \in Addr
    BY <1>8, AddressesType DEF Bind, TypeOK
  <2> QED
    BY <1>8, <2>1 DEF Bind, Binds, TypeOK
<1>9. CASE OpenFails
  BY <1>9 DEF OpenFails, TypeOK
<1>10. CASE grnvs_write
  <2>1. PICK version \in {"4", "6", "unknown"} : \E d \in Route(version) :
           /\ files[d] # "free"
           /\ io' = [op |-> "write", version |-> version, file |-> files[d], device |-> 0]
    BY <1>10 DEF grnvs_write
  <2>2. PICK d \in Route(version) :
           /\ files[d] # "free"
           /\ io' = [op |-> "write", version |-> version, file |-> files[d], device |-> 0]
    BY <2>1
  <2>3. d \in Fds /\ files[d] \in Kinds
    BY <1>10, <2>2, UseTypes DEF grnvs_write, TypeOK
  <2>4. io' \in [op : {"none", "read", "write"}, version : {"none", "4", "6", "unknown"},
                 file : Kinds \cup {"none"}, device : Devices \cup {0}]
    BY <2>2, <2>3
  <2> QED
    BY <1>10, <2>4 DEF grnvs_write, TypeOK
<1>11. CASE grnvs_read
  <2>1. fd \in Fds /\ files[fd] \in Kinds
    BY <1>11, UseTypes DEF grnvs_read, TypeOK
  <2>2. PICK device \in queue :
           /\ queue' \in {queue, queue \ {device}}
           /\ io' = [op |-> "read", version |-> "none", file |-> files[fd], device |-> device]
    BY <1>11 DEF grnvs_read
  <2>3. io' \in [op : {"none", "read", "write"}, version : {"none", "4", "6", "unknown"},
                 file : Kinds \cup {"none"}, device : Devices \cup {0}]
    BY <2>1, <2>2 DEF TypeOK
  <2> QED
    BY <1>11, <2>2, <2>3 DEF grnvs_read, TypeOK
<1>12. CASE UseFails
  BY <1>12 DEF UseFails, TypeOK
<1>13. CASE Close
  <2>1. fd \in Fds
    BY <1>13 DEF Close, Sockets, TypeOK
  <2> QED
    BY <1>13, <2>1, CloseType DEF Close, grnvs_close, TypeOK
<1>14. CASE Finalize
  <2>1. fd \in Fds
    BY <1>14 DEF Finalize, Sockets, Layers, TypeOK
  <2> QED
    BY <1>14, <2>1, CloseType DEF Finalize, grnvs_close, TypeOK
<1>15. CASE UNCHANGED vars
  BY <1>15 DEF vars, TypeOK
<1> QED
  BY <1>1, <1>2, <1>3, <1>4, <1>5, <1>6, <1>7, <1>8, <1>9, <1>10, <1>11, <1>12, <1>13,
     <1>14, <1>15 DEF Next
-----------------------------------------------------------------------------
(* The table of descriptors and the state of the library.                  *)

LEMMA InitSockets == Init => Sockets /\ Layers /\ Frames
  BY DEF Init, Sockets, Layers, Frames, Fds

\* While a socket is open the rest of the process leaves its number alone.
LEMMA NextSockets ==
    ASSUME TypeOK, Layers, Sockets, [Next]_vars
    PROVE  Sockets'
<1> USE DEF library, kernel, history
<1>0. Fds \subseteq Int /\ -1 \notin Fds
  BY DescriptorsAssumption DEF Fds
<1>1. CASE OthersOpen
  <2>1. /\ Lowest \in Fds /\ files[Lowest] = "free"
        /\ files' = [files EXCEPT ![Lowest] = "other"]
    BY <1>1, AllocateType DEF OthersOpen, Kinds
  <2> QED
    BY <1>1, <2>1 DEF OthersOpen, TypeOK, Sockets
<1>2. CASE OthersClose
  <2>1. PICK d \in Fds : files[d] = "other" /\ files' = [files EXCEPT ![d] = "free"]
    BY <1>2 DEF OthersClose
  <2> QED
    BY <1>2, <2>1 DEF OthersClose, TypeOK, Sockets
<1>3. CASE FrameArrives
  BY <1>3 DEF FrameArrives, Sockets
<1>4. CASE Open
  BY <1>4 DEF Open, Sockets
<1>5. CASE OpenSix
  <2>1. /\ Lowest \in Fds /\ files[Lowest] = "free"
        /\ files' = [files EXCEPT ![Lowest] = "six"]
    BY <1>5, AllocateType DEF OpenSix, Kinds
  <2> QED
    BY <1>5, <2>1 DEF OpenSix, TypeOK, Sockets, Layers
<1>6. CASE OpenFour
  <2>1. /\ Lowest \in Fds /\ files[Lowest] = "free"
        /\ files' = [files EXCEPT ![Lowest] = "four"]
    BY <1>6, AllocateType DEF OpenFour, Kinds
  <2> QED
    BY <1>6, <2>1 DEF OpenFour, TypeOK, Sockets, Layers
<1>7. CASE OpenPacket
  <2>1. /\ Lowest \in Fds /\ files[Lowest] = "free"
        /\ files' = [files EXCEPT ![Lowest] = "packet"]
    BY <1>7, AllocateType DEF OpenPacket, Kinds
  <2> QED
    BY <1>0, <1>7, <2>1 DEF OpenPacket, TypeOK, Sockets
<1>8. CASE Bind
  BY <1>8 DEF Bind, Sockets
<1>9. CASE OpenFails
  BY <1>9 DEF OpenFails, Sockets
<1>10. CASE grnvs_write
  BY <1>10 DEF grnvs_write, Sockets
<1>11. CASE grnvs_read
  BY <1>11 DEF grnvs_read, Sockets
<1>12. CASE UseFails
  BY <1>12 DEF UseFails, Sockets
<1>13. CASE Close \/ Finalize
  <2>1. /\ files' = [d \in Fds |-> IF d = fd THEN "free" ELSE files[d]]
        /\ at' \in {"closed", "gone"} /\ UNCHANGED <<write_six, write_four, fd>>
    BY <1>13 DEF Close, Finalize, grnvs_close, Released
  <2>2. fd \in Fds /\ files[fd] \notin {"six", "four"}
    <3>1. CASE at = "use"
      BY <3>1 DEF Sockets, TypeOK
    <3>2. CASE at = "closed"
      BY <3>2 DEF Sockets, Layers, TypeOK
    <3> QED
      BY <1>13, <3>1, <3>2 DEF Close, Finalize
  <2> QED
    BY <1>0, <2>1, <2>2 DEF TypeOK, Sockets
<1>14. CASE UNCHANGED vars
  BY <1>14 DEF vars, Sockets
<1> QED
  BY <1>1, <1>2, <1>3, <1>4, <1>5, <1>6, <1>7, <1>8, <1>9, <1>10, <1>11, <1>12, <1>13,
     <1>14 DEF Next

\* The points of the library come in their order.
LEMMA NextLayers ==
    ASSUME TypeOK, Layers, Sockets, [Next]_vars
    PROVE  Layers'
<1> USE DEF library, kernel, history
<1>0. -1 \notin Fds /\ Ifname # -1
  BY DescriptorsAssumption, DevicesAssumption DEF Fds
<1>1. CASE OthersOpen \/ OthersClose \/ FrameArrives
  BY <1>1 DEF OthersOpen, OthersClose, FrameArrives, Layers
<1>2. CASE Open
  BY <1>2 DEF Open, Layers, TypeOK
<1>3. CASE OpenSix
  <2>1. write_six' # -1
    BY <1>0, <1>3, AllocateType DEF OpenSix, Kinds
  <2> QED
    BY <1>3, <2>1 DEF OpenSix, Layers
<1>4. CASE OpenFour
  <2>1. write_four' # -1 /\ write_six # -1
    <3>1. write_four' # -1
      BY <1>0, <1>4, AllocateType DEF OpenFour, Kinds
    <3> QED
      BY <1>4, <3>1 DEF OpenFour, Layers
  <2> QED
    BY <1>4, <2>1 DEF OpenFour, Layers
<1>5. CASE OpenPacket
  BY <1>5 DEF OpenPacket, Layers
<1>6. CASE Bind
  BY <1>6 DEF Bind, Binds, Layers
<1>7. CASE OpenFails \/ UseFails
  BY <1>7 DEF OpenFails, UseFails, Layers
<1>8. CASE grnvs_write \/ grnvs_read
  BY <1>8 DEF grnvs_write, grnvs_read, Layers
<1>9. CASE Close \/ Finalize
  BY <1>9 DEF Close, Finalize, grnvs_close, Layers, Sockets
<1>10. CASE UNCHANGED vars
  BY <1>10 DEF vars, Layers
<1> QED
  BY <1>1, <1>2, <1>3, <1>4, <1>5, <1>6, <1>7, <1>8, <1>9, <1>10 DEF Next

LEMMA NextFrames ==
    ASSUME TypeOK, Layers, Sockets, Frames, [Next]_vars
    PROVE  Frames' /\ early \subseteq early'
<1> USE DEF library, kernel, history
<1>1. CASE FrameArrives
  <2>1. PICK device \in Devices :
           /\ bound => device = Ifname
           /\ queue' = queue \cup {device}
           /\ early' = IF at = "bind" THEN early \cup {device} ELSE early
    BY <1>1 DEF FrameArrives
  <2>2. at \in {"bind", "use"}
    BY <1>1 DEF FrameArrives, Sockets
  <2>3. at = "use" => device = Ifname
    BY <2>1 DEF Layers
  <2> QED
    BY <2>1, <2>2, <2>3 DEF Frames
<1>2. CASE grnvs_read
  BY <1>2 DEF grnvs_read, Frames
<1>3. CASE Close \/ Finalize
  BY <1>3 DEF Close, Finalize, grnvs_close, Frames
<1>4. CASE UNCHANGED <<queue, early>>
  BY <1>4 DEF Frames
<1> QED
  BY <1>1, <1>2, <1>3, <1>4 DEF Next, vars, OthersOpen, OthersClose, Open, OpenSix, OpenFour,
     OpenPacket, Bind, OpenFails, grnvs_write, UseFails

-----------------------------------------------------------------------------
(* What is read, written and closed.                                       *)

LEMMA NextTransfers ==
    ASSUME TypeOK, Layers, Sockets, Frames, Frames', early \subseteq early',
           OnlyOwnFiles, LeavesThroughItsSocket, ReadsItsDevice, [Next]_vars
    PROVE  OnlyOwnFiles' /\ LeavesThroughItsSocket' /\ ReadsItsDevice'
<1> USE DEF library, kernel, history
<1>1. CASE grnvs_write
  <2>1. /\ at = "use" /\ UNCHANGED <<layer, write_six>>
    BY <1>1, UseTypes DEF grnvs_write
  <2>2. PICK version \in {"4", "6", "unknown"} : \E d \in Route(version) :
           io' = [op |-> "write", version |-> version, file |-> files[d], device |-> 0]
    BY <1>1 DEF grnvs_write
  <2>3. PICK d \in Route(version) :
           io' = [op |-> "write", version |-> version, file |-> files[d], device |-> 0]
    BY <2>2
  <2>4. \/ ~(write_six > 0) /\ files[d] = "packet"
        \/ write_six > 0 /\ version = "6" /\ files[d] = "six"
        \/ write_six > 0 /\ version = "4" /\ files[d] = "four"
    BY <2>1, <2>3 DEF Route, Sockets, Layers
  <2>5. write_six \in Nat \cup {-1}
    BY DescriptorsAssumption DEF TypeOK, Fds
  <2>6. /\ write_six > 0 \/ write_six = 0 => layer = "dgram"
        /\ write_six = -1 => layer = "raw"
    BY <2>1, <2>5 DEF Layers
  <2>7. io'.op = "write" /\ io'.version = version /\ io'.file = files[d]
    BY <2>3
  <2> QED
    BY <2>1, <2>4, <2>5, <2>6, <2>7 DEF OnlyOwnFiles, LeavesThroughItsSocket, ReadsItsDevice
<1>2. CASE grnvs_read
  <2>1. at = "use" /\ early' = early
    BY <1>2, UseTypes DEF grnvs_read
  <2>2. PICK device \in queue :
           io' = [op |-> "read", version |-> "none", file |-> files[fd], device |-> device]
    BY <1>2 DEF grnvs_read
  <2>3. io'.op = "read" /\ io'.file = files[fd] /\ io'.device = device
    BY <2>2
  <2>4. files[fd] = "packet"
    BY <2>1 DEF Sockets
  <2> QED
    BY <2>1, <2>2, <2>3, <2>4 DEF OnlyOwnFiles, LeavesThroughItsSocket, ReadsItsDevice, Frames
<1>3. CASE UNCHANGED io
  <2>1. io.op = "write" => UNCHANGED <<layer, write_six>>
    BY DEF Layers, Next, vars, OthersOpen, OthersClose, FrameArrives, Open, OpenSix, OpenFour,
       OpenPacket, Bind, OpenFails, grnvs_write, grnvs_read, UseFails, Close, Finalize,
       grnvs_close
  <2> QED
    BY <1>3, <2>1 DEF OnlyOwnFiles, LeavesThroughItsSocket, ReadsItsDevice
<1> QED
  BY <1>1, <1>2, <1>3 DEF Next, vars, OthersOpen, OthersClose, FrameArrives, Open, OpenSix,
     OpenFour, OpenPacket, Bind, OpenFails, UseFails, Close, Finalize, grnvs_close

\* Nothing of others is lost while the object is in use.
Losses == (at \notin {"gone", "exit"} => lost = {}) /\ lost \subseteq {fd}

LEMMA NextLosses ==
    ASSUME TypeOK, Layers, Sockets, Losses, [Next]_vars
    PROVE  Losses'
<1> USE DEF library, kernel, history
<1>1. CASE OpenPacket
  BY <1>1 DEF OpenPacket, Losses
<1>2. CASE Close
  <2>1. files[fd] = "packet"
    BY <1>2 DEF Close, Sockets
  <2> QED
    BY <1>2, <2>1 DEF Close, grnvs_close, Released, Losses
<1>3. CASE Finalize
  BY <1>3 DEF Finalize, grnvs_close, Released, Losses
<1>4. CASE UNCHANGED <<fd, lost>>
  BY <1>4 DEF Losses, Next, vars, OthersOpen, OthersClose, FrameArrives, Open, OpenSix,
     OpenFour, OpenPacket, Bind, OpenFails, grnvs_write, grnvs_read, UseFails, Close, Finalize,
     grnvs_close
<1> QED
  BY <1>1, <1>2, <1>3, <1>4 DEF Next, vars, OthersOpen, OthersClose, FrameArrives, Open,
     OpenSix, OpenFour, Bind, OpenFails, grnvs_write, grnvs_read, UseFails

SocketInv ==
    /\ TypeOK /\ Sockets /\ Layers /\ Frames /\ Losses
    /\ OnlyOwnFiles /\ LeavesThroughItsSocket /\ ReadsItsDevice

LEMMA InitSocketInv == Init => SocketInv
  BY InitTypeOK, InitSockets DEF Init, SocketInv, Losses, OnlyOwnFiles, LeavesThroughItsSocket,
     ReadsItsDevice

LEMMA NextSocketInv == SocketInv /\ [Next]_vars => SocketInv'
  BY NextTypeOK, NextSockets, NextLayers, NextFrames, NextLosses, NextTransfers DEF SocketInv

LEMMA SocketInvariant == Spec => []SocketInv
  BY InitSocketInv, NextSocketInv, PTL DEF Spec

\* Whatever other threads open and close meanwhile, the library reads from and
\* writes to sockets that it has opened itself.
THEOREM OnlyOwnFilesUsed == Spec => []OnlyOwnFiles
<1>1. SocketInv => OnlyOwnFiles
  BY DEF SocketInv
<1> QED
  BY <1>1, SocketInvariant, PTL

\* A packet leaves through the socket for its layer and version, whatever
\* numbers the sockets have got, 0 for the IPv6 socket excepted.
THEOREM PacketsLeaveThroughTheirSocket == Spec => []LeavesThroughItsSocket
<1>1. SocketInv => LeavesThroughItsSocket
  BY DEF SocketInv
<1> QED
  BY <1>1, SocketInvariant, PTL

\* A frame of another device is read only if it came before bind.
THEOREM ReadsFromDevice == Spec => []ReadsItsDevice
<1>1. SocketInv => ReadsItsDevice
  BY DEF SocketInv
<1> QED
  BY <1>1, SocketInvariant, PTL

\* The library closes at most one file of others, and only as it finalizes an
\* object that was closed before.
THEOREM OthersLoseOneFile == Spec => []OthersKeepTheirFiles
<1>1. SocketInv => OthersKeepTheirFiles
  BY DEF SocketInv, Losses, OthersKeepTheirFiles
<1> QED
  BY <1>1, SocketInvariant, PTL

-----------------------------------------------------------------------------
(* The addresses: what the fold has found after each prefix of the list.   *)

Matches(ifa, i, family) ==
    /\ ifa[i].name = Ifname /\ ifa[i].family = family
    /\ family = "inet6" /\ layer = "dgram" => ifa[i].addr.net # "link"

LastUpto(ifa, n, family, addr) ==
    \/ (\A i \in 1..n : ~Matches(ifa, i, family)) /\ addr = Zero
    \/ \E i \in 1..n :
         /\ Matches(ifa, i, family) /\ ifa[i].addr = addr
         /\ \A j \in 1..n : Matches(ifa, j, family) => j <= i

\* One more entry: it is the last one, or nothing changes.
LEMMA OneMore ==
    ASSUME NEW ifa, NEW n \in Nat, NEW family, NEW old, NEW new,
           LastUpto(ifa, n, family, old),
           new = IF Matches(ifa, n + 1, family) THEN ifa[n + 1].addr ELSE old
    PROVE  LastUpto(ifa, n + 1, family, new)
<1>0. \A i : i \in 1..(n + 1) <=> i \in 1..n \/ i = n + 1
  OBVIOUS
<1>1. CASE Matches(ifa, n + 1, family)
  <2>1. n + 1 \in 1..(n + 1) /\ \A j \in 1..(n + 1) : j <= n + 1
    OBVIOUS
  <2> QED
    BY <1>1, <2>1 DEF LastUpto
<1>2. CASE ~Matches(ifa, n + 1, family)
  BY <1>0, <1>2 DEF LastUpto
<1> QED
  BY <1>1, <1>2

LEMMA FoldFindsLast ==
    ASSUME NEW ifa \in Seq(Entry), NEW s, Folded(ifa, s), ip = Zero, ip6 = Zero,
           NEW n \in 0..Len(ifa)
    PROVE  LastUpto(ifa, n, "inet", s[n].ip) /\ LastUpto(ifa, n, "inet6", s[n].ip6)
<1> DEFINE Right(k) == LastUpto(ifa, k, "inet", s[k].ip) /\ LastUpto(ifa, k, "inet6", s[k].ip6)
           Good == {k \in Nat : k <= Len(ifa) => Right(k)}
<1>1. 0 \in Good
  <2>1. s[0].ip = Zero /\ s[0].ip6 = Zero
    BY DEF Folded
  <2> QED
    BY <2>1 DEF LastUpto
<1>2. ASSUME NEW k \in Good PROVE k + 1 \in Good
  <2> SUFFICES ASSUME k + 1 <= Len(ifa) PROVE Right(k + 1)
    OBVIOUS
  <2>1. k \in Nat /\ k + 1 \in 1..Len(ifa) /\ (k + 1) - 1 = k /\ Right(k)
    OBVIOUS
  <2>2. s[k + 1] = visit(s[k], ifa[k + 1])
    BY <2>1 DEF Folded
  <2>3. s[k + 1].ip = IF Matches(ifa, k + 1, "inet") THEN ifa[k + 1].addr ELSE s[k].ip
    BY <2>2 DEF visit, Matches
  <2>4. s[k + 1].ip6 = IF Matches(ifa, k + 1, "inet6") THEN ifa[k + 1].addr ELSE s[k].ip6
    BY <2>2 DEF visit, Matches, is_global
  <2> QED
    BY <2>1, <2>3, <2>4, OneMore
<1>3. Good \in SUBSET Nat
  OBVIOUS
<1>4. Good = Nat
  <2> HIDE DEF Good
  <2> QED
    BY <1>1, <1>2, <1>3, NumbersByInduction
<1> QED
  BY <1>4

\* What the library knows about its device at each point.
Known ==
    /\ at \in {"new", "six", "four", "packet", "bind"} => ip = Zero /\ ip6 = Zero
    /\ at = "use" => /\ ifindex = Ifname /\ mac = Ifname
                     /\ LastUpto(listed, Len(listed), "inet", ip)
                     /\ LastUpto(listed, Len(listed), "inet6", ip6)
    /\ at \in {"closed", "gone"} => ifindex = -1 /\ ip = Zero /\ ip6 = Zero

LEMMA KnownMatches == TypeOK /\ Known => AddressesMatch
<1> SUFFICES ASSUME TypeOK, Known PROVE AddressesMatch
  OBVIOUS
<1>0. DOMAIN listed = 1..Len(listed) /\ Ifname # -1
  BY DevicesAssumption DEF TypeOK
<1> QED
  BY <1>0 DEF AddressesMatch, Known, LastUpto, Matches, grnvs_get_hwaddr, grnvs_get_ip6addr

LEMMA NextKnown ==
    ASSUME TypeOK, Known, [Next]_vars
    PROVE  Known'
<1> USE DEF library, kernel, history
<1>1. CASE Open
  BY <1>1 DEF Open, Known
<1>2. CASE Bind
  <2>1. PICK ifa \in Lists :
           /\ listed' = ifa
           /\ ip' = grnvs_get_addresses(ifa).ip /\ ip6' = grnvs_get_addresses(ifa).ip6
    BY <1>2 DEF Bind
  <2>2. ip = Zero /\ ip6 = Zero
    BY <1>2 DEF Bind, Known
  <2>3. ifa \in Seq(Entry)
    BY AddressesType DEF TypeOK
  <2>4. PICK s : Folded(ifa, s) /\ grnvs_get_addresses(ifa) = s[Len(ifa)]
    BY <2>3, AddressesAreFolded DEF TypeOK
  <2>5. Len(ifa) \in 0..Len(ifa)
    BY <2>3
  <2>6. LastUpto(ifa, Len(ifa), "inet", ip') /\ LastUpto(ifa, Len(ifa), "inet6", ip6')
    BY <2>1, <2>2, <2>3, <2>4, <2>5, FoldFindsLast
  <2>7. layer' = layer /\ at' = "use" /\ ifindex' = Ifname /\ mac' = Ifname
    BY <1>2 DEF Bind
  <2> QED
    BY <2>1, <2>6, <2>7 DEF Known, LastUpto, Matches
<1>3. CASE Close \/ Finalize
  BY <1>3 DEF Close, Finalize, grnvs_close, Known
<1>4. CASE OpenSix \/ OpenFour \/ OpenPacket
  BY <1>4 DEF OpenSix, OpenFour, OpenPacket, Known
<1>5. CASE OpenFails \/ UseFails
  BY <1>5 DEF OpenFails, UseFails, Known
<1>6. CASE UNCHANGED <<at, layer, library, listed>>
  BY <1>6 DEF Known, LastUpto, Matches
<1> QED
  BY <1>1, <1>2, <1>3, <1>4, <1>5, <1>6 DEF Next, vars, OthersOpen, OthersClose, FrameArrives,
     grnvs_write, grnvs_read

\* The getters give the device's address, and the last address of each family
\* that getifaddrs has listed for the device, link-local ones on layer 3 left
\* out; nothing once the socket is closed.
THEOREM GettersMatch == Spec => []AddressesMatch
<1>1. Init => Known
  BY DEF Init, Known
<1>2. SocketInv /\ Known /\ [Next]_vars => Known'
  BY NextKnown DEF SocketInv
<1>3. SocketInv /\ Known => AddressesMatch
  BY KnownMatches DEF SocketInv
<1> QED
  BY <1>1, <1>2, <1>3, SocketInvariant, PTL DEF Spec
=============================================================================
