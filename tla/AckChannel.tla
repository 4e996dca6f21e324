----------------------------- MODULE AckChannel -----------------------------
(***************************************************************************)
(* What an acknowledged channel between two peers promises its callers,    *)
(* without sequence numbers, datagrams or timeouts.  Each peer numbers the *)
(* messages it hands to the channel 1, 2, 3, ...  A message may be         *)
(* delivered any number of times, in any order, or never; but a call that  *)
(* returns success for message k has the right to conclude that those of   *)
(* 1..k that are not empty have all reached the application at the other   *)
(* end.                                                                    *)
(***************************************************************************)
EXTENDS Naturals, Sequences, SequencesExt

Peers == {"client", "server"}

Other(p) == IF p = "client" THEN "server" ELSE "client"

CONSTANT Lengths  \* the lengths that a message can have

VARIABLES
    sent,       \* sent[p]: the lengths of the messages that p has handed over
    delivered,  \* delivered[q]: the numbers handed to q's caller, in order
    acked       \* acked[p]: the messages whose send returned success at p

vars == <<sent, delivered, acked>>

Init ==
    /\ sent = [p \in Peers |-> <<>>]
    /\ delivered = [p \in Peers |-> <<>>]
    /\ acked = [p \in Peers |-> {}]

Send(p) ==
    /\ \E len \in Lengths : sent' = [sent EXCEPT ![p] = Append(@, len)]
    /\ UNCHANGED <<delivered, acked>>

\* A message may only come out if it was put in by the other peer.
Deliver(q) ==
    /\ \E k \in 1..Len(sent[Other(q)]) :
          delivered' = [delivered EXCEPT ![q] = Append(@, k)]
    /\ UNCHANGED <<sent, acked>>

\* Success for k is a statement about every message up to k, but for those
\* that say nothing.
Acknowledge(p) ==
    /\ \E k \in 1..Len(sent[p]) :
          /\ {j \in 1..k : sent[p][j] > 0} \subseteq ToSet(delivered[Other(p)])
          /\ acked' = [acked EXCEPT ![p] = @ \cup {k}]
    /\ UNCHANGED <<sent, delivered>>

Next == \E p \in Peers : Send(p) \/ Deliver(p) \/ Acknowledge(p)

Spec == Init /\ [][Next]_vars
=============================================================================
