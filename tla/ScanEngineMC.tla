----------------------------- MODULE ScanEngineMC ----------------------------
(* Instances of ScanEngine for TLC. *)
EXTENDS ScanEngine

TwoHosts == <<"h1", "h2">>
OneHost  == <<"h1">>
OneTcp   == <<"tcp80">>
OneUdp   == <<"udp53">>
NoPorts  == <<>>
==============================================================================
