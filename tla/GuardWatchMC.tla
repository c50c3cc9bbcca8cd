----------------------------- MODULE GuardWatchMC ----------------------------
(* Instances of GuardWatch for TLC: a gateway and another address. *)
EXTENDS GuardWatch

Addresses == {"gw", "pc"}
TwoMacs == {"router", "laptop"}

Table(gw, pc) == [i \in Addresses |-> IF i = "gw" THEN gw ELSE pc]

\* Nobody answers, a router and a laptop, and a laptop that answers for both
\* addresses: a baseline of the last makes the router a new device.
ThreeTables == {Table(NoMac, NoMac), Table("router", "laptop"), Table("laptop", "laptop")}
==============================================================================
