-------------------------------- MODULE Rudp --------------------------------
(***************************************************************************)
(* An established association of src/src/rudp/rudp.c over UDP: two peers,  *)
(* each a single thread that is inside at most one of rudp_send,           *)
(* rudp_recv and rudp_close at a time, and a network that may lose,        *)
(* duplicate, reorder or delay datagrams.  The connection has been set up  *)
(* (rudp_connect against rudp_accept): both controls hold Hdr, Hdr.        *)
(* The application is the most general one: each peer calls what it likes  *)
(* whenever no call of its own is in progress.                             *)
(***************************************************************************)
EXTENDS Integers, Sequences, FiniteSets, SequencesExt

CONSTANTS
    N_ATTEMPT,   \* tries of each loop (3 in rudp.h)
    Hdr,         \* sizeof(struct rudp_header) (24 on the targets; MAX_ANSWER)
    Lengths,     \* the payload lengths the callers send (0: no user name)
    Readers,     \* the peers whose application receives
    Closers,     \* the peers whose application closes
    MaxSends,    \* bound: messages each peer sends
    FaultKinds,  \* which faults may happen
    MaxFaults    \* bound: how many of them in one behaviour

AllFaults ==
    {"drop", "dup", "reorder", "late", "eintr", "sendfail", "ackfail"}

ASSUME RudpAssumption ==
    /\ N_ATTEMPT \in Nat \ {0}
    /\ Hdr \in Nat \ {0}
    /\ Lengths \subseteq Nat
    /\ MaxSends \in [{"client", "server"} -> Nat]
    /\ MaxFaults \in Nat
    /\ FaultKinds \subseteq AllFaults

Peers == {"client", "server"}

Other(p) == IF p = "client" THEN "server" ELSE "client"

VARIABLES
    ctl,        \* ctl[p]: p's struct rudp_header control (seq, ack)
    net,        \* net[p]: the datagrams on their way to p's socket
    call,       \* call[p]: the rudp call p is in, and where it is
    ret,        \* ret[p]: what p's last call returned ("none" during a call)
    errno,      \* errno[p]: "EAGAIN", or "other" (any other value)
    timeo,      \* timeo[p]: SO_RCVTIMEO of p's socket
    finished,   \* finished[p]: p's application has called rudp_close 1 or 2
    sent,       \* history: sequence number and length of p's messages
    delivered,  \* history: messages of the other peer that p's caller got
    acked,      \* history: messages of p whose rudp_send succeeded
    failed,     \* history: some rudp_send or rudp_close of p failed
    faults      \* faults used so far

vars == <<ctl, net, call, ret, errno, timeo, finished,
          sent, delivered, acked, failed, faults>>

history == <<sent, delivered, acked>>

-----------------------------------------------------------------------------
(* Datagrams and the state of a call.                                      *)

Header == [seq : Nat, ack : Nat]

\* msg identifies the payload (its number at the sender), 0 if there is none.
Datagram == [flag : {"DATA", "ACK", "FIN"}, seq : Nat, ack : Nat,
             len : Nat, msg : Nat]

Timeout == {"standard", "ack"}

\* What a call returns: a length sent or received, 0, RUDP_CLOSE_CONNECTION,
\* RUDP_EXCEEDED_N_ATTEMPTS.
Result == {"none", "sent", "data", "zero", "closed", "exceeded"}

CallState ==
    [op : {"idle", "closed"}]
    \cup [op : {"recv"}, i : 0..(N_ATTEMPT - 1), fin : BOOLEAN]
    \cup [op : {"send", "close"}, at : {"sendto", "recvfrom"},
          i : 0..(N_ATTEMPT - 1), pkt : Datagram, saved : Timeout]

Idle == [op |-> "idle"]

Sending(o, d, t) ==
    [op |-> o, at |-> "sendto", i |-> 0, pkt |-> d, saved |-> t]

Receiving == [op |-> "recv", i |-> 0, fin |-> FALSE]

IsIdle(p) == call[p].op = "idle"
InSend(p) == call[p].op \in {"send", "close"}
InRecv(p) == call[p].op = "recv"
AtSendto(p) == InSend(p) /\ call[p].at = "sendto"
AtAnswer(p) == InSend(p) /\ call[p].at = "recvfrom"

DataPacket(p, len) ==
    [flag |-> "DATA", seq |-> ctl[p].seq, ack |-> ctl[p].ack,
     len |-> len, msg |-> Len(sent[p]) + 1]

FinPacket(p) ==
    [flag |-> "FIN", seq |-> ctl[p].seq, ack |-> ctl[p].ack,
     len |-> 0, msg |-> 0]

AckPacket(c) ==
    [flag |-> "ACK", seq |-> c.seq, ack |-> c.ack, len |-> 0, msg |-> 0]

\* A datagram to a socket that is gone is dropped by its host.
Put(n, q, d) ==
    IF call[q].op = "closed" THEN n ELSE [n EXCEPT ![q] = Append(@, d)]

-----------------------------------------------------------------------------
(* Faults: each kind is allowed or not, and together they have a budget.   *)

Fault(kind) ==
    /\ kind \in FaultKinds
    /\ faults < MaxFaults
    /\ faults' = faults + 1

\* SO_RCVTIMEO may expire when nothing is on its way in either direction;
\* "late" lets it expire first whenever the socket's queue is empty.
MayTimeout(p) ==
    /\ net[p] = <<>>
    /\ \/ "late" \in FaultKinds
       \/ net[Other(p)] = <<>> /\ ~AtSendto(Other(p))

-----------------------------------------------------------------------------
(* rudp_send and rudp_close, steps 1 and 2.                                *)

\* Mutant of Begin: the timeout is saved after it was shortened.
BeginSavesLate(p, o, d) ==
    /\ ctl' = [ctl EXCEPT ![p].seq = @ + d.len + Hdr]
    /\ call' = [call EXCEPT ![p] = Sending(o, d, "ack")]
    /\ timeo' = [timeo EXCEPT ![p] = "ack"]
    /\ ret' = [ret EXCEPT ![p] = "none"]

\* The number is consumed and the timeout shortened before the first sendto.
Begin(p, o, d) ==
    /\ ctl' = [ctl EXCEPT ![p].seq = @ + d.len + Hdr]
    /\ call' = [call EXCEPT ![p] = Sending(o, d, timeo[p])]
    /\ timeo' = [timeo EXCEPT ![p] = "ack"]
    /\ ret' = [ret EXCEPT ![p] = "none"]

SendCall(p) ==
    /\ IsIdle(p)
    /\ ~finished[p]
    /\ Len(sent[p]) < MaxSends[p]
    /\ \E len \in Lengths :
          /\ Begin(p, "send", DataPacket(p, len))
          /\ sent' = [sent EXCEPT
                        ![p] = Append(@, [seq |-> ctl[p].seq, len |-> len])]
    /\ UNCHANGED <<net, errno, finished, delivered, acked, failed, faults>>

CloseCall(p) ==
    /\ IsIdle(p)
    /\ p \in Closers
    /\ ~finished[p]
    /\ finished' = [finished EXCEPT ![p] = TRUE]
    /\ Begin(p, "close", FinPacket(p))
    /\ UNCHANGED <<net, errno, sent, delivered, acked, failed, faults>>

Return(p, r) ==
    /\ call' = [call EXCEPT ![p] = Idle]
    /\ ret' = [ret EXCEPT ![p] = r]

\* Every failing return leaves the shortened timeout on the socket.
Fail(p, r) ==
    /\ Return(p, r)
    /\ failed' = [failed EXCEPT ![p] = TRUE]

\* Mutants of Retry: one try too many; tries that are not counted.
RetryOnceMore(p) ==
    IF call[p].i + 1 <= N_ATTEMPT
    THEN /\ call' = [call EXCEPT ![p].i = @ + 1, ![p].at = "sendto"]
         /\ UNCHANGED <<ret, failed>>
    ELSE Fail(p, "exceeded")

RetryUncounted(p) ==
    /\ call' = [call EXCEPT ![p].at = "sendto"]
    /\ UNCHANGED <<ret, failed>>

Retry(p) ==
    IF call[p].i + 1 < N_ATTEMPT
    THEN /\ call' = [call EXCEPT ![p].i = @ + 1, ![p].at = "sendto"]
         /\ UNCHANGED <<ret, failed>>
    ELSE Fail(p, "exceeded")

\* The test after sendto is "n_sent == -1 || errno == EAGAIN": with an EAGAIN
\* left by an earlier call the datagram leaves and the call fails.
Transmit(p) ==
    /\ AtSendto(p)
    /\ net' = Put(net, Other(p), call[p].pkt)
    /\ IF errno[p] = "EAGAIN"
       THEN Fail(p, "closed")
       ELSE /\ call' = [call EXCEPT ![p].at = "recvfrom"]
            /\ UNCHANGED <<ret, failed>>
    /\ UNCHANGED <<ctl, errno, timeo, finished, history, faults>>

SendtoFails(p) ==
    /\ AtSendto(p)
    /\ Fault("sendfail")
    /\ Fail(p, "closed")
    /\ errno' = [errno EXCEPT ![p] = "other"]
    /\ UNCHANGED <<ctl, net, timeo, finished, history>>

\* Mutants of Answers: any ACK will do; the number before the packet.
AnyAckAnswers(p, d) == d.flag = "ACK"
AnswersOldNumber(p, d) == d.flag = "ACK" /\ d.ack = call[p].pkt.seq

\* The answer that ends the wait (both ends of the association are fixed, so
\* the comparison of addresses always holds).
Answers(p, d) == d.flag = "ACK" /\ d.ack = ctl[p].seq

Succeed(p) ==
    /\ Return(p, "sent")
    /\ timeo' = [timeo EXCEPT ![p] = call[p].saved]
    /\ acked' = IF call[p].op = "send"
                THEN [acked EXCEPT ![p] = @ \cup {call[p].pkt.msg}]
                ELSE acked
    /\ UNCHANGED failed

\* Whatever arrives while a sender waits is consumed, data included.
Answer(p) ==
    /\ AtAnswer(p)
    /\ net[p] # <<>>
    /\ net' = [net EXCEPT ![p] = Tail(@)]
    /\ IF Answers(p, Head(net[p]))
       THEN Succeed(p)
       ELSE Retry(p) /\ UNCHANGED <<timeo, acked>>
    /\ UNCHANGED <<ctl, errno, finished, sent, delivered, faults>>

\* No retransmission: the first timeout ends the call.
SendTimeout(p) ==
    /\ AtAnswer(p)
    /\ MayTimeout(p)
    /\ errno' = [errno EXCEPT ![p] = "EAGAIN"]
    /\ Fail(p, "closed")
    /\ UNCHANGED <<ctl, net, timeo, finished, history, faults>>

SendInterrupted(p) ==
    /\ AtAnswer(p)
    /\ Fault("eintr")
    /\ errno' = [errno EXCEPT ![p] = "other"]
    /\ Retry(p)
    /\ UNCHANGED <<ctl, net, timeo, finished, history>>

-----------------------------------------------------------------------------
(* rudp_recv.                                                              *)

RecvCall(p) ==
    /\ IsIdle(p)
    /\ p \in Readers
    /\ call' = [call EXCEPT ![p] = Receiving]
    /\ ret' = [ret EXCEPT ![p] = "none"]
    /\ UNCHANGED <<ctl, net, errno, timeo, finished, history, failed, faults>>

\* Mutants of Advance: by the payload alone; over a gap; on any number.
AdvanceByPayload(ack, d) == IF d.seq = ack THEN ack + d.len ELSE ack
AdvanceOverGap(ack, d) == IF d.seq >= ack THEN d.seq + d.len + Hdr ELSE ack
AdvanceUnchecked(ack, d) == ack + d.len + Hdr

\* The acknowledgement moves only on the expected number, and then by the
\* size of whatever carried it: data, FIN, or a stray ACK.
Advance(ack, d) == IF d.seq = ack THEN ack + d.len + Hdr ELSE ack

SeenFin(p, d) == call[p].fin \/ d.flag = "FIN"

\* The payload goes to the caller whether or not its number was expected; a
\* control packet makes the call return 0, as the end of the session does,
\* and so does an empty payload.
RecvDatagram(p) ==
    /\ InRecv(p)
    /\ net[p] # <<>>
    /\ LET d == Head(net[p])
           c == [ctl[p] EXCEPT !.ack = Advance(@, d)]
           data == d.flag = "DATA" /\ ~SeenFin(p, d)
       IN  /\ ctl' = [ctl EXCEPT ![p] = c]
           /\ net' = Put([net EXCEPT ![p] = Tail(@)], Other(p), AckPacket(c))
           /\ Return(p, IF data /\ d.len > 0 THEN "data" ELSE "zero")
           /\ delivered' = IF data
                           THEN [delivered EXCEPT ![p] = Append(@, d.msg)]
                           ELSE delivered
    /\ UNCHANGED <<errno, timeo, finished, sent, acked, failed, faults>>

RecvAgain(p, f) ==
    IF call[p].i + 1 < N_ATTEMPT
    THEN /\ call' = [call EXCEPT ![p].i = @ + 1, ![p].fin = f]
         /\ UNCHANGED ret
    ELSE Return(p, "exceeded")

\* The datagram is acknowledged in the control, then lost to the caller.
RecvAckFails(p) ==
    /\ InRecv(p)
    /\ net[p] # <<>>
    /\ Fault("ackfail")
    /\ ctl' = [ctl EXCEPT ![p].ack = Advance(@, Head(net[p]))]
    /\ net' = [net EXCEPT ![p] = Tail(@)]
    /\ errno' = [errno EXCEPT ![p] = "other"]
    /\ RecvAgain(p, SeenFin(p, Head(net[p])))
    /\ UNCHANGED <<timeo, finished, history, failed>>

RecvTimeout(p) ==
    /\ InRecv(p)
    /\ MayTimeout(p)
    /\ errno' = [errno EXCEPT ![p] = "EAGAIN"]
    /\ Return(p, "closed")
    /\ UNCHANGED <<ctl, net, timeo, finished, history, failed, faults>>

RecvInterrupted(p) ==
    /\ InRecv(p)
    /\ Fault("eintr")
    /\ errno' = [errno EXCEPT ![p] = "other"]
    /\ RecvAgain(p, call[p].fin)
    /\ UNCHANGED <<ctl, net, timeo, finished, history, failed>>

-----------------------------------------------------------------------------
(* What surrounds the calls.                                               *)

\* rudp_close step 3, or the exit of the process.
CloseSocket(p) ==
    /\ IsIdle(p)
    /\ p \in Closers
    /\ call' = [call EXCEPT ![p] = [op |-> "closed"]]
    /\ net' = [net EXCEPT ![p] = <<>>]
    /\ UNCHANGED <<ctl, ret, errno, timeo, finished, history, failed, faults>>

\* A signal interrupts the poll() of the caller's loop.
PollInterrupted(p) ==
    /\ IsIdle(p)
    /\ errno[p] = "EAGAIN"
    /\ Fault("eintr")
    /\ errno' = [errno EXCEPT ![p] = "other"]
    /\ UNCHANGED <<ctl, net, call, ret, timeo, finished, history, failed>>

Drop(p) ==
    /\ Fault("drop")
    /\ \E i \in DOMAIN net[p] : net' = [net EXCEPT ![p] = RemoveAt(@, i)]
    /\ UNCHANGED <<ctl, call, ret, errno, timeo, finished, history, failed>>

Duplicate(p) ==
    /\ Fault("dup")
    /\ \E i \in DOMAIN net[p] : net' = [net EXCEPT ![p] = Append(@, @[i])]
    /\ UNCHANGED <<ctl, call, ret, errno, timeo, finished, history, failed>>

\* The first datagram is overtaken by all that follow it.
Reorder(p) ==
    /\ Fault("reorder")
    /\ Len(net[p]) > 1
    /\ net' = [net EXCEPT ![p] = Append(Tail(@), Head(@))]
    /\ UNCHANGED <<ctl, call, ret, errno, timeo, finished, history, failed>>

-----------------------------------------------------------------------------

Init ==
    /\ ctl = [p \in Peers |-> [seq |-> Hdr, ack |-> Hdr]]
    /\ net = [p \in Peers |-> <<>>]
    /\ call = [p \in Peers |-> Idle]
    /\ ret = [p \in Peers |-> "none"]
    /\ errno = [p \in Peers |-> "other"]
    /\ timeo = [p \in Peers |-> "standard"]
    /\ finished = [p \in Peers |-> FALSE]
    /\ sent = [p \in Peers |-> <<>>]
    /\ delivered = [p \in Peers |-> <<>>]
    /\ acked = [p \in Peers |-> {}]
    /\ failed = [p \in Peers |-> FALSE]
    /\ faults = 0

\* What p does once it is inside a call, faults aside.
Step(p) ==
    \/ Transmit(p) \/ Answer(p) \/ SendTimeout(p)
    \/ RecvDatagram(p) \/ RecvTimeout(p)

Application(p) ==
    \/ SendCall(p) \/ CloseCall(p) \/ RecvCall(p) \/ CloseSocket(p)

Environment(p) ==
    \/ SendtoFails(p) \/ SendInterrupted(p)
    \/ RecvAckFails(p) \/ RecvInterrupted(p) \/ PollInterrupted(p)
    \/ Drop(p) \/ Duplicate(p) \/ Reorder(p)

Next == \E p \in Peers : Step(p) \/ Application(p) \/ Environment(p)

Spec == Init /\ [][Next]_vars

\* A process inside a call runs: the kernel schedules it and its timeout.
FairSpec == Spec /\ \A p \in Peers : WF_vars(Step(p))

\* And the readers' loops come back to rudp_recv.
ReadingSpec == FairSpec /\ \A p \in Peers : WF_vars(RecvCall(p))

-----------------------------------------------------------------------------
(* Properties.                                                             *)

\* Every variable stays in its type: a try counter never passes N_ATTEMPT, a
\* call is at one of its two system calls, numbers are naturals.
TypeOK ==
    /\ ctl \in [Peers -> Header]
    /\ net \in [Peers -> Seq(Datagram)]
    /\ call \in [Peers -> CallState]
    /\ ret \in [Peers -> Result]
    /\ errno \in [Peers -> {"EAGAIN", "other"}]
    /\ timeo \in [Peers -> Timeout]
    /\ finished \in [Peers -> BOOLEAN]
    /\ sent \in [Peers -> Seq([seq : Nat, len : Nat])]
    /\ delivered \in [Peers -> Seq(Nat)]
    /\ acked \in [Peers -> SUBSET Nat]
    /\ failed \in [Peers -> BOOLEAN]
    /\ faults \in Nat

\* The messages of p up to k that have a payload.  An empty one is as long as
\* a header, and a stray ACK can stand for it.
Filled(p, k) == {j \in 1..k : sent[p][j].len > 0}

\* A rudp_send that returns success for message k proves that every message
\* up to k that has a payload, the ones whose own calls failed included,
\* reached the caller of rudp_recv at the other end.
AckIsCumulative ==
    \A p \in Peers : \A k \in acked[p] :
        Filled(p, k) \subseteq ToSet(delivered[Other(p)])

\* A receiver may acknowledge more than was sent, because a stray ACK with the
\* expected number counts as data, but never by more than one header.
AckAheadByAtMostAHeader ==
    \A p \in Peers : ctl[Other(p)].ack <= ctl[p].seq + Hdr

\* The receiver is behind the sender and nothing that could move it is left:
\* no datagram with the number it expects is in flight or being sent.
Desynced(p) ==
    LET want == ctl[Other(p)].ack
    IN  /\ want < ctl[p].seq
        /\ \A d \in ToSet(net[Other(p)]) : d.seq # want
        /\ InSend(p) => call[p].pkt.seq # want

\* Once that is so it stays so: the association transmits and delivers, but
\* no send or close of p can ever be acknowledged again.
DesyncIsPermanent ==
    [][\A p \in Peers : Desynced(p) =>
          /\ Desynced(p)'
          /\ ctl'[Other(p)].ack = ctl[Other(p)].ack
          /\ acked'[p] = acked[p]]_vars

\* The same message reaches the caller once per transmission at most, and a
\* call transmits at most N_ATTEMPT times.
CopiesBounded ==
    \A p \in Peers : \A k \in ToSet(delivered[p]) :
        Cardinality({i \in DOMAIN delivered[p] : delivered[p][i] = k})
            <= N_ATTEMPT + faults

\* Between calls SO_RCVTIMEO is the standard one exactly as long as no
\* rudp_send or rudp_close has failed: a failed call leaks its 5 seconds to
\* every later rudp_recv, and later successful calls do not give them back.
TimeoutLeaksFromFailures ==
    \A p \in Peers : IsIdle(p) => (failed[p] <=> timeo[p] = "ack")

\* Every call returns, whatever the network and the other peer do.
CallsReturn ==
    \A p \in Peers : InSend(p) \/ InRecv(p) ~> IsIdle(p)

\* In one direction, without faults, no call fails ...
NoFailure == \A p \in Peers : ~failed[p]

\* ... the other end gets each message once and in order ...
ExactlyOnceInOrder ==
    \A p \in Peers : \A i \in DOMAIN delivered[p] : delivered[p][i] = i

\* ... and every message handed to rudp_send is acknowledged.
EverySendIsAcked ==
    \A p \in Peers : \A k \in 1..MaxSends[p] :
        Len(sent[p]) >= k ~> k \in acked[p]

\* Three tries should outlast the loss of fewer than three datagrams.
SurvivesLoss == faults < N_ATTEMPT => NoFailure

\* The channel the callers may rely on, and the association as one.
Channel == INSTANCE AckChannel
    WITH sent <- [p \in Peers |-> [k \in DOMAIN sent[p] |-> sent[p][k].len]]

\* rudp_send, rudp_recv and the ACK together are the channel AckChannel: a
\* message is vouched for only after it and all before it were handed over,
\* but for empty ones.
ImplementsChannel == Channel!Spec

-----------------------------------------------------------------------------
(* Why AckIsCumulative holds: the inductive invariant behind it.           *)

\* The number that follows the k-th of the messages s; the first has Hdr.
EndOf(s, k) == IF k = 0 THEN Hdr ELSE s[k].seq + s[k].len + Hdr

\* Messages follow each other without gaps, a header apart at least.
SentContiguous ==
    \A p \in Peers : \A k \in 1..Len(sent[p]) :
        /\ sent[p][k].seq = EndOf(sent[p], k - 1)
        /\ \A j \in 0..(k - 1) :
              EndOf(sent[p], j) + Hdr <= EndOf(sent[p], k)

\* The control's number ends the last message, and the FIN if there was one.
SeqAtEnd ==
    \A p \in Peers :
        ctl[p].seq = EndOf(sent[p], Len(sent[p]))
                       + (IF finished[p] THEN Hdr ELSE 0)

\* Everything p has put on the wire carries the number of one of its
\* messages, or a number between two of them.
Genuine(p, d) ==
    IF d.flag = "DATA"
    THEN /\ d.msg \in 1..Len(sent[p])
         /\ d.seq = sent[p][d.msg].seq
         /\ d.len = sent[p][d.msg].len
    ELSE /\ d.len = 0
         /\ \/ \E k \in 0..Len(sent[p]) : d.seq = EndOf(sent[p], k)
            \/ finished[p] /\ d.seq = ctl[p].seq

DatagramsGenuine ==
    \A p \in Peers :
        /\ \A d \in ToSet(net[Other(p)]) : Genuine(p, d)
        /\ InSend(p) => Genuine(p, call[p].pkt)

\* A pending rudp_send is about p's last message.
PendingIsLast ==
    \A p \in Peers : InSend(p) =>
        /\ call[p].pkt.flag # "ACK"
        /\ call[p].op = "send" =>
              /\ ~finished[p]
              /\ call[p].pkt.flag = "DATA"
              /\ call[p].pkt.msg = Len(sent[p])

\* An acknowledgement in flight is at most the receiver's present one.
AcksTrail ==
    \A p \in Peers : \A d \in ToSet(net[p]) :
        d.flag = "ACK" => d.ack <= ctl[Other(p)].ack

\* An acknowledgement number that reaches the end of message k covers
\* those of messages 1..k that are not empty; those in flight are smaller.
Covers(p, a) ==
    \A k \in 0..Len(sent[p]) :
        EndOf(sent[p], k) <= a => Filled(p, k) \subseteq ToSet(delivered[Other(p)])

AcksCover == \A p \in Peers : Covers(p, ctl[Other(p)].ack)

\* Only a failed acknowledgement leaves rudp_recv with a FIN seen.
NoFinPending == \A p \in Peers : InRecv(p) => ~call[p].fin

\* Only what was handed to rudp_send can be acknowledged.
AckedWereSent == \A p \in Peers : acked[p] \subseteq 1..Len(sent[p])

\* What rudp_send and rudp_recv keep about the numbers they stamp, expect and
\* acknowledge: the inductive invariant that AckIsCumulative follows from.
IInv ==
    /\ SentContiguous
    /\ SeqAtEnd
    /\ DatagramsGenuine
    /\ PendingIsLast
    /\ AcksTrail
    /\ AckAheadByAtMostAHeader
    /\ AcksCover
    /\ NoFinPending
    /\ AckedWereSent
    /\ AckIsCumulative

-----------------------------------------------------------------------------
(* Why TimeoutLeaksFromFailures holds.                                     *)

\* While p is in rudp_send or rudp_close the shortened timeout is on the
\* socket and the call keeps the one to restore; else the socket tells.
TimeoutKept ==
    \A p \in Peers :
        IF InSend(p)
        THEN timeo[p] = "ack" /\ (failed[p] <=> call[p].saved = "ack")
        ELSE failed[p] <=> timeo[p] = "ack"

-----------------------------------------------------------------------------
(* Why CopiesBounded holds: every copy of a message, handed over or on its *)
(* way, has been paid for by a try of its call or by a fault.              *)

Carrying(s, k) == {i \in DOMAIN s : s[i].flag = "DATA" /\ s[i].msg = k}
Handed(s, k) == {i \in DOMAIN s : s[i] = k}

Copies(p, k) ==
    Cardinality(Handed(delivered[Other(p)], k))
        + Cardinality(Carrying(net[Other(p)], k))

Pending(p, k) == InSend(p) /\ call[p].op = "send" /\ k = Len(sent[p])

\* How often the call for message k has transmitted, at most.
Tries(p, k) ==
    IF Pending(p, k)
    THEN call[p].i + (IF call[p].at = "recvfrom" THEN 1 ELSE 0)
    ELSE N_ATTEMPT

CopiesPaid ==
    \A p \in Peers : \A k \in Nat :
        Copies(p, k) <= (IF k \in 1..Len(sent[p]) THEN Tries(p, k) + faults ELSE 0)

\* What a call sends is the last message, or a FIN.
CallSendsLast ==
    \A p \in Peers : InSend(p) =>
        IF call[p].op = "send"
        THEN /\ call[p].pkt.flag = "DATA"
             /\ call[p].pkt.msg = Len(sent[p])
             /\ Len(sent[p]) > 0
        ELSE call[p].pkt.flag = "FIN"

-----------------------------------------------------------------------------
(* Why NoFailure and ExactlyOnceInOrder hold in one direction: at any time *)
(* at most one datagram is on its way.                                     *)

\* Only p sends, only the other peer receives, nobody closes, and there are
\* no faults.
OneWayFrom(p) ==
    /\ FaultKinds = {}
    /\ Closers = {}
    /\ p \notin Readers
    /\ MaxSends[Other(p)] = 0

OneWay == \E p \in Peers : OneWayFrom(p)

\* p's last message has been handed over and its number been acknowledged in
\* the other's control.
InStep(p) ==
    /\ ctl[Other(p)].ack = ctl[p].seq
    /\ Len(delivered[Other(p)]) = Len(sent[p])

\* The other peer waits for the message of p's call.
OneBehind(p) ==
    LET d == call[p].pkt
    IN  /\ d.flag = "DATA"
        /\ d.msg = Len(sent[p])
        /\ ctl[Other(p)].ack = d.seq
        /\ ctl[p].seq = d.seq + d.len + Hdr
        /\ Len(delivered[Other(p)]) = Len(sent[p]) - 1

NothingOnItsWay == \A p \in Peers : net[p] = <<>>

Alternating(p) ==
    /\ NoFailure
    /\ ExactlyOnceInOrder
    /\ errno[p] = "other"
    /\ call[p].op \in {"idle", "send"}
    /\ call[Other(p)].op \in {"idle", "recv"}
    /\ InRecv(Other(p)) => ~call[Other(p)].fin
    /\ delivered[p] = <<>>
    /\ IsIdle(p) => NothingOnItsWay /\ InStep(p)
    /\ AtSendto(p) => NothingOnItsWay /\ OneBehind(p)
    /\ AtAnswer(p) =>
          \/ /\ net[p] = <<>> /\ net[Other(p)] = <<call[p].pkt>>
             /\ OneBehind(p)
          \/ /\ net[Other(p)] = <<>> /\ Len(net[p]) = 1
             /\ Answers(p, Head(net[p]))
             /\ InStep(p)
=============================================================================
