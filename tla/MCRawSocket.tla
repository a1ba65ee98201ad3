----------------------------- MODULE MCRawSocket ----------------------------
(* Lists of addresses: link-local ones before and after global ones, more  *)
(* than one global one, addresses of another device, none at all.          *)
EXTENDS RawSocket

Inet(device, id) == [name |-> device, family |-> "inet", addr |-> [net |-> "inet", id |-> id]]
Inet6(device, net, id) ==
    [name |-> device, family |-> "inet6", addr |-> [net |-> net, id |-> id]]
NoInet(device) == [name |-> device, family |-> "none", addr |-> Zero]

InterfaceLists ==
    { << NoInet(1), Inet(1, 1), Inet6(1, "global", 2), Inet6(1, "link", 3),
         Inet6(2, "global", 4) >>,
      << Inet(2, 1), Inet6(1, "link", 2), Inet6(1, "global", 3),
         Inet6(1, "global", 4), Inet(1, 5), NoInet(1) >>,
      << NoInet(1), Inet6(1, "link", 1), Inet6(2, "link", 2) >> }
=============================================================================
