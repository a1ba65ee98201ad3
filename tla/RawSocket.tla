------------------------------ MODULE RawSocket -----------------------------
(***************************************************************************)
(* The socket of libraw (raw.c: grnvs_open, grnvs_write, grnvs_close, the  *)
(* getters; grnvs_read as far as it concerns the descriptor) and its Java  *)
(* binding.  raw.h says that grnvs_open is called once.                    *)
(*                                                                         *)
(* The library keeps its state in static variables and its sockets in the  *)
(* process's table of descriptors, which it shares with the rest of the    *)
(* process: other threads of the Java machine open and close files between *)
(* any two of its steps, and the kernel gives out the lowest free number.  *)
(* A program that uses the C functions is one that never finalizes.        *)
(***************************************************************************)
EXTENDS Integers, Sequences, SequencesExt

CONSTANTS
    Ifname,       \* the device the socket is opened on
    Devices,      \* by their indices
    Lists,        \* what getifaddrs may return
    Descriptors   \* how many descriptors the process may have

Zero == [net |-> "zero", id |-> 0]
Addresses == [net : {"zero", "link", "global"}, id : 0..9]
Addresses4 == [net : {"zero", "inet"}, id : 0..9]
Fds == 0..(Descriptors - 1)

ASSUME DevicesAssumption == Ifname \in Devices /\ Devices \subseteq Nat \ {0}
ASSUME DescriptorsAssumption == Descriptors \in Nat /\ Descriptors >= 3
ASSUME ListsAssumption ==
    Lists \subseteq Seq([name : Devices, family : {"inet"}, addr : Addresses4]
                        \cup [name : Devices, family : {"inet6", "none"}, addr : Addresses])

VARIABLES
    at,          \* the next system call of grnvs_open ("new", "six", "four",
                 \* "packet", "bind"), or "use", "closed", "gone", "exit"
    layer,       \* the argument of grnvs_open
    ifindex, write_six, write_four, mac, ip, ip6,
    fd,          \* what grnvs_open returned: handle in Java
    files,       \* the table of descriptors: "free", "other" or a socket
    bound,       \* the packet socket only takes frames of Ifname
    queue,       \* devices of the frames that wait in the packet socket
    listed,      \* what getifaddrs returned
    io,          \* history: the last transfer
    early,       \* history: devices of frames that came before bind
    lost         \* history: descriptors of others that the library closed

library == <<ifindex, write_six, write_four, mac, ip, ip6>>
kernel == <<files, bound, queue>>
history == <<io, early, lost>>
vars == <<at, layer, library, fd, kernel, listed, history>>

-----------------------------------------------------------------------------
(* The table of descriptors, and the rest of the process.                  *)

Free == {d \in Fds : files[d] = "free"}
Lowest == CHOOSE d \in Free : \A e \in Free : d <= e

\* open or socket in some thread.
Allocate(kind) == Free # {} /\ files' = [files EXCEPT ![Lowest] = kind]

OthersOpen ==
    /\ at # "exit"
    /\ Allocate("other")
    /\ UNCHANGED <<at, layer, library, fd, bound, queue, listed, history>>

OthersClose ==
    /\ at # "exit"
    /\ \E d \in Fds : files[d] = "other" /\ files' = [files EXCEPT ![d] = "free"]
    /\ UNCHANGED <<at, layer, library, fd, bound, queue, listed, history>>

\* A packet socket takes the frames of all devices until it is bound to one.
FrameArrives ==
    /\ at # "exit"
    /\ \E d \in Fds : files[d] = "packet"
    /\ \E device \in Devices :
         /\ bound => device = Ifname
         /\ queue' = queue \cup {device}
         /\ early' = IF at = "bind" THEN early \cup {device} ELSE early
    /\ UNCHANGED <<at, layer, library, fd, files, bound, listed, io, lost>>

-----------------------------------------------------------------------------
(* The library.                                                            *)

\* Any of 0, 1 and 2 may be closed when the program starts.
Init ==
    /\ at = "new" /\ layer \in {"dgram", "raw", "neither"}
    /\ ifindex = -1 /\ write_six = -1 /\ write_four = -1
    /\ mac = -1 /\ ip = Zero /\ ip6 = Zero
    /\ fd = -1
    /\ files \in {f \in [Fds -> {"free", "other"}] : \A d \in Fds : d > 2 => f[d] = "free"}
    /\ bound = FALSE /\ queue = {} /\ listed = <<>>
    /\ io = [op |-> "none", version |-> "none", file |-> "none", device |-> 0]
    /\ early = {} /\ lost = {}

\* The layer is checked.
Open ==
    /\ at = "new"
    /\ ip6' = Zero
    /\ at' = CASE layer = "dgram" -> "six" [] layer = "raw" -> "packet" [] OTHER -> "exit"
    /\ UNCHANGED <<layer, ifindex, write_six, write_four, mac, ip, fd, kernel, listed, history>>

\* socket(AF_INET6, SOCK_RAW, IPPROTO_RAW)
OpenSix ==
    /\ at = "six"
    /\ Allocate("six")
    /\ write_six' = Lowest
    /\ at' = "four"
    /\ UNCHANGED <<layer, ifindex, write_four, mac, ip, ip6, fd, bound, queue, listed, history>>

\* socket(AF_INET, SOCK_RAW, IPPROTO_RAW)
OpenFour ==
    /\ at = "four"
    /\ Allocate("four")
    /\ write_four' = Lowest
    /\ at' = "packet"
    /\ UNCHANGED <<layer, ifindex, write_six, mac, ip, ip6, fd, bound, queue, listed, history>>

\* socket(AF_PACKET, layer, htons(ETH_P_ALL))
OpenPacket ==
    /\ at = "packet"
    /\ Allocate("packet")
    /\ fd' = Lowest
    /\ at' = "bind"
    /\ UNCHANGED <<layer, library, bound, queue, listed, history>>

is_global(addr) == addr.net # "link"

\* Variant: a link-local address is taken if no other was found before it.
visitUnlessFound(found, ifc) ==
    [ ip |-> IF ifc.name = Ifname /\ ifc.family = "inet" THEN ifc.addr ELSE found.ip,
      ip6 |-> IF /\ ifc.name = Ifname /\ ifc.family = "inet6"
                 /\ is_global(ifc.addr) \/ found.ip6 = Zero
              THEN ifc.addr ELSE found.ip6 ]

\* One pass of the loop of grnvs_get_addresses; family "none" is any other
\* family, or no address.
visit(found, ifc) ==
    [ ip |-> IF ifc.name = Ifname /\ ifc.family = "inet" THEN ifc.addr ELSE found.ip,
      ip6 |-> IF /\ ifc.name = Ifname /\ ifc.family = "inet6"
                 /\ ~(layer = "dgram" /\ ~is_global(ifc.addr))
              THEN ifc.addr ELSE found.ip6 ]

grnvs_get_addresses(ifa) == FoldLeft(visit, [ip |-> ip, ip6 |-> ip6], ifa)

\* Variant: sll_ifindex is not set.
BindsNothing == FALSE

\* sa.sll_ifindex = ifindex
Binds == TRUE

\* The ioctls, the addresses and bind.
Bind ==
    /\ at = "bind"
    /\ ifindex' = Ifname /\ mac' = Ifname
    /\ \E ifa \in Lists :
         /\ listed' = ifa
         /\ ip' = grnvs_get_addresses(ifa).ip /\ ip6' = grnvs_get_addresses(ifa).ip6
    /\ bound' = Binds
    /\ at' = "use"
    /\ UNCHANGED <<layer, write_six, write_four, fd, files, queue, history>>

\* Any of the calls may fail, and the descriptors may run out.
OpenFails ==
    /\ at \in {"six", "four", "packet", "bind"}
    /\ at' = "exit"
    /\ UNCHANGED <<layer, library, fd, kernel, listed, history>>

-----------------------------------------------------------------------------
\* Variant: the descriptor is trusted.
UsableAlways == TRUE

\* ifindex < 0: "tried to write on closed socket, aborting".
Usable == ifindex # -1

\* Variant: the versions are mixed up.
RouteSwapped(version) ==
    IF write_six > 0
    THEN IF version = "4" THEN {write_six} ELSE IF version = "6" THEN {write_four} ELSE {}
    ELSE {fd}

\* The descriptor that a packet is written to, none for -EINVAL.
Route(version) ==
    IF write_six > 0
    THEN IF version = "6" THEN {write_six} ELSE IF version = "4" THEN {write_four} ELSE {}
    ELSE {fd}

grnvs_write ==
    /\ at \in {"use", "closed"}
    /\ Usable
    /\ \E version \in {"4", "6", "unknown"} : \E d \in Route(version) :
         /\ files[d] # "free"
         /\ io' = [op |-> "write", version |-> version, file |-> files[d], device |-> 0]
    /\ UNCHANGED <<at, layer, library, fd, kernel, listed, early, lost>>

\* A frame, if there is one; otherwise the read times out.
grnvs_read ==
    /\ at \in {"use", "closed"}
    /\ Usable
    /\ files[fd] # "free"
    /\ \E device \in queue :
         /\ queue' \in {queue, queue \ {device}}
         /\ io' = [op |-> "read", version |-> "none", file |-> files[fd], device |-> device]
    /\ UNCHANGED <<at, layer, library, fd, files, bound, listed, early, lost>>

\* An error of the system, or a use of a closed socket: exit(-1).
UseFails ==
    /\ at \in {"use", "closed"}
    /\ at' = "exit"
    /\ UNCHANGED <<layer, library, fd, kernel, listed, history>>

grnvs_get_hwaddr == IF ifindex = -1 THEN -1 ELSE mac

grnvs_get_ip6addr == IF ifindex = -1 THEN Zero ELSE ip6

\* Variant: the sockets for writing are closed too, and their numbers kept.
ReleasedAll == {fd, write_six, write_four} \ {-1}

\* What grnvs_close closes.
Released == {fd}

grnvs_close ==
    /\ ifindex' = -1 /\ mac' = -1 /\ ip6' = Zero /\ ip' = Zero
    /\ files' = [d \in Fds |-> IF d \in Released THEN "free" ELSE files[d]]
    /\ lost' = lost \cup {d \in Released : files[d] = "other"}
    /\ bound' = (bound /\ files[fd] # "packet")
    /\ queue' = IF files[fd] = "packet" THEN {} ELSE queue
    /\ UNCHANGED <<layer, write_six, write_four, fd, listed, io, early>>

\* The program closes its socket.
Close == at = "use" /\ at' = "closed" /\ grnvs_close

\* The program has dropped the object, closed or not, and it is finalized.
Finalize == at \in {"use", "closed"} /\ at' = "gone" /\ grnvs_close

Next ==
    \/ OthersOpen \/ OthersClose \/ FrameArrives
    \/ Open \/ OpenSix \/ OpenFour \/ OpenPacket \/ Bind \/ OpenFails
    \/ grnvs_write \/ grnvs_read \/ UseFails
    \/ Close \/ Finalize

Spec == Init /\ [][Next]_vars

-----------------------------------------------------------------------------
(* Properties.                                                             *)

\* The library reads and writes its own sockets only: once the socket is
\* closed its number may belong to any other file, and ifindex keeps reads and
\* writes from it.
OnlyOwnFiles ==
    io.op # "none" => io.file \in {"six", "four", "packet"} /\ (io.op = "read" => io.file = "packet")

\* A packet leaves through the socket for its layer and version (the comment on
\* grnvs_write), unless the socket for IPv6 has the number 0, which the
\* library takes for none.
LeavesThroughItsSocket ==
    io.op = "write" /\ write_six # 0 =>
        \/ layer = "raw" /\ io.file = "packet"
        \/ layer = "dgram" /\ io.version = "6" /\ io.file = "six"
        \/ layer = "dgram" /\ io.version = "4" /\ io.file = "four"

\* Only frames that came in between the calls of socket and bind can be of
\* another device than the one the socket was opened on.
ReadsItsDevice == io.op = "read" => io.device \in {Ifname} \cup early

\* While the socket is open the getters give addresses of its device, on layer 3
\* never a link-local one, each the last of its kind; afterwards none.
AddressesMatch ==
    LET Of(family) ==
          {i \in DOMAIN listed :
             /\ listed[i].name = Ifname /\ listed[i].family = family
             /\ family = "inet6" /\ layer = "dgram" => listed[i].addr.net # "link"}
        LastOf(addr, S) ==
          IF S = {} THEN addr = Zero
          ELSE \E i \in S : listed[i].addr = addr /\ \A j \in S : j <= i
    IN /\ at = "use" => /\ grnvs_get_hwaddr = Ifname
                        /\ LastOf(ip, Of("inet")) /\ LastOf(grnvs_get_ip6addr, Of("inet6"))
       /\ at \in {"closed", "gone"} => grnvs_get_hwaddr = -1 /\ ip = Zero /\ ip6 = Zero

\* Files of others are safe from the library except for one: when an object is
\* finalized that was closed before, the file that has its number by then.
OthersKeepTheirFiles == lost \subseteq {fd} /\ (lost # {} => at = "gone" \/ at = "exit")
=============================================================================
