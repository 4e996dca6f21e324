------------------------------- MODULE MCRudp -------------------------------
(* Instances of Rudp for TLC. Hdr is 2, so that the lengths 0, 1 and 2      *)
(* cover an empty payload (the name of a user without one), a payload that  *)
(* is smaller than a header and one that is as long as a header.            *)
EXTENDS Rudp

SendsOneWay == [client |-> 3, server |-> 0]
SendsTwoAndOne == [client |-> 2, server |-> 1]
SendsTwoAndNone == [client |-> 2, server |-> 0]

BothPeers == {"client", "server"}
OnlyClient == {"client"}
OnlyServer == {"server"}
Nobody == {}
NoFaults == {}
LossFaults == {"drop"}
DuplexFaults == {"drop", "dup", "late"}
=============================================================================
