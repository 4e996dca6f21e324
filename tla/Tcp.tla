-------------------------------- MODULE Tcp --------------------------------
(***************************************************************************)
(* A TCP connection between a client and a server, as the code of both     *)
(* sees it (external): what is on its way is delivered in order and in any *)
(* portions, a FIN follows it, a reset overtakes or destroys any part.     *)
(***************************************************************************)
EXTENDS Integers, Sequences

VARIABLES
    wire,   \* wire[p]: what is on its way to p or waits to be read there
    fin,    \* fin[p]: the other end's FIN follows
    rst     \* rst[p]: a reset of the connection on its way to p

tcp == <<wire, fin, rst>>

Ends == {"client", "server"}
Other(p) == IF p = "client" THEN "server" ELSE "client"

TcpInit ==
    /\ wire = [p \in Ends |-> <<>>]
    /\ fin = [p \in Ends |-> FALSE]
    /\ rst = [p \in Ends |-> "no"]

\* p closes its socket.  Data that was or will be left unread there is
\* answered with a reset, with or without a FIN before it.
Shut(p, unread, peerClosed) ==
    LET q == Other(p)
    IN  IF rst[p] = "arrived" \/ peerClosed
        THEN UNCHANGED <<fin, rst>>
        ELSE IF unread
             THEN /\ rst' = [rst EXCEPT ![q] = "sent"]
                  /\ \E f \in {fin[q], TRUE} : fin' = [fin EXCEPT ![q] = f]
             ELSE /\ fin' = [fin EXCEPT ![q] = TRUE]
                  /\ UNCHANGED rst

\* What is sent to a closed socket comes back to its sender as a reset.
Returned(p, peerClosed) ==
    rst' = IF peerClosed /\ rst[p] = "no" THEN [rst EXCEPT ![p] = "sent"] ELSE rst

\* The reset overtakes or destroys any part of what was on its way.
Destroyed(p) ==
    /\ rst[p] = "sent"
    /\ rst' = [rst EXCEPT ![p] = "arrived"]
    /\ \E n \in 0..Len(wire[p]) :
          wire' = [wire EXCEPT ![p] = SubSeq(@, 1, n)]

Broken(p) == rst[p] = "arrived"
=============================================================================
