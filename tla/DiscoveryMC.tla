---------------------------- MODULE DiscoveryMC -----------------------------
(* Instances of Discovery: port p1 is asked by every pass, port p2 only by a full one. *)
EXTENDS Discovery

TwoPorts == <<"p1", "p2">>
AllOrNot == {Address, {}}
SomeKinds == {{}, {"arp", "icmp"}, {"arp", "p1"}, {"p2"}}
=============================================================================
