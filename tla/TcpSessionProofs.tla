-------------------------- MODULE TcpSessionProofs --------------------------
(* The key streams of a TCP session: type correctness, and that the two     *)
(* keys are apart by what is on the wire and realign when it is empty.      *)
EXTENDS TcpSession, TLAPS

-----------------------------------------------------------------------------
(* Ends and streams.                                                        *)

LEMMA EndsFacts ==
    /\ "client" \in Ends /\ "server" \in Ends
    /\ Other("client") = "server" /\ Other("server") = "client"
    /\ \A p \in Ends : /\ Other(p) \in Ends
                       /\ Other(p) # p
                       /\ Other(Other(p)) = p
                       /\ Ends = {p, Other(p)}
  BY DEF Ends, Other

LEMMA StreamType ==
    ASSUME NEW from \in Nat, NEW n \in Nat
    PROVE  /\ Stream(from, n) \in Seq(Nat)
           /\ Len(Stream(from, n)) = n
           /\ \A i \in 1..n : Stream(from, n)[i] = from + i
  BY DEF Stream

\* What remains behind the first n elements.
LEMMA Behind ==
    ASSUME NEW s \in Seq(Nat), NEW n \in 0..Len(s)
    PROVE  /\ SubSeq(s, n + 1, Len(s)) \in Seq(Nat)
           /\ Len(SubSeq(s, n + 1, Len(s))) = Len(s) - n
           /\ \A i \in 1..(Len(s) - n) : SubSeq(s, n + 1, Len(s))[i] = s[n + i]
  OBVIOUS

LEMMA FirstPart ==
    ASSUME NEW s \in Seq(Nat), NEW n \in 0..Len(s)
    PROVE  /\ SubSeq(s, 1, n) \in Seq(Nat)
           /\ Len(SubSeq(s, 1, n)) = n
           /\ \A i \in 1..n : SubSeq(s, 1, n)[i] = s[i]
  OBVIOUS

LEMMA Joined ==
    ASSUME NEW s \in Seq(Nat), NEW t \in Seq(Nat)
    PROVE  /\ s \o t \in Seq(Nat)
           /\ Len(s \o t) = Len(s) + Len(t)
           /\ \A i \in 1..Len(s) : (s \o t)[i] = s[i]
           /\ \A i \in (Len(s) + 1)..(Len(s) + Len(t)) : (s \o t)[i] = t[i - Len(s)]
  OBVIOUS

-----------------------------------------------------------------------------
(* Types.                                                                   *)

Reset == {"no", "sent", "arrived"}

LEMMA BounceType ==
    ASSUME TypeOK, NEW p \in Ends, Bounce(p)
    PROVE  rst' \in [Ends -> Reset]
  BY DEF TypeOK, Bounce, Returned, Reset

LEMMA HangUpType ==
    ASSUME TypeOK, NEW p \in Ends, NEW u, HangUp(p, u)
    PROVE  fin' \in [Ends -> BOOLEAN] /\ rst' \in [Ends -> Reset]
<1>1. fin \in [Ends -> BOOLEAN] /\ rst \in [Ends -> Reset]
  BY DEF TypeOK, Reset
<1>2. CASE UNCHANGED <<fin, rst>>
  BY <1>1, <1>2
<1>3. CASE /\ rst' = [rst EXCEPT ![Other(p)] = "sent"]
           /\ \E f \in {fin[Other(p)], TRUE} : fin' = [fin EXCEPT ![Other(p)] = f]
  <2>1. fin[Other(p)] \in BOOLEAN
    BY <1>1, EndsFacts
  <2>2. PICK f \in {fin[Other(p)], TRUE} : fin' = [fin EXCEPT ![Other(p)] = f]
    BY <1>3
  <2>3. f \in BOOLEAN
    BY <2>1, <2>2
  <2> QED BY <1>1, <1>3, <2>2, <2>3 DEF Reset
<1>4. CASE fin' = [fin EXCEPT ![Other(p)] = TRUE] /\ UNCHANGED rst
  BY <1>1, <1>4
<1> QED BY <1>2, <1>3, <1>4 DEF HangUp, Shut

LEMMA DiscardType ==
    ASSUME TypeOK, NEW p \in Ends, NEW u, Discard(p, u)
    PROVE  /\ keys' \in [Ends -> 0..KeyLen]
           /\ wire' \in [Ends -> Seq(Nat)]
           /\ fin' \in [Ends -> BOOLEAN]
           /\ rst' \in [Ends -> Reset]
<1>1. fin' \in [Ends -> BOOLEAN] /\ rst' \in [Ends -> Reset]
  BY HangUpType DEF Discard
<1>2. <<>> \in Seq(Nat) /\ 0 \in 0..KeyLen
  BY SessionAssumption
<1> QED BY <1>1, <1>2 DEF TypeOK, Discard

LEMMA EncryptType ==
    ASSUME TypeOK, NEW p \in Ends, NEW n \in Nat, Encrypt(p, n)
    PROVE  /\ pos' \in [Ends -> Nat]
           /\ crossed' \in BOOLEAN /\ garbled' \in BOOLEAN
           /\ wire' \in [Ends -> Seq(Nat)]
           /\ rst' \in [Ends -> Reset]
<1>1. rst' \in [Ends -> Reset]
  BY BounceType DEF Encrypt
<1>2. pos' \in [Ends -> Nat]
  BY DEF TypeOK, Encrypt
<1>3. crossed' \in BOOLEAN /\ garbled' \in BOOLEAN
  BY Zenon DEF TypeOK, Encrypt
<1>4. wire' \in [Ends -> Seq(Nat)]
  <2>1. wire[Other(p)] \o Stream(pos[p], n) \in Seq(Nat)
    BY StreamType, Joined, EndsFacts DEF TypeOK
  <2> QED BY <2>1 DEF TypeOK, Encrypt
<1> QED BY <1>1, <1>2, <1>3, <1>4

LEMMA DecryptType ==
    ASSUME TypeOK, NEW p \in Ends, NEW n \in 0..Len(wire[p]), Decrypt(p, n)
    PROVE  /\ pos' \in [Ends -> Nat]
           /\ crossed' \in BOOLEAN /\ garbled' \in BOOLEAN
           /\ wire' \in [Ends -> Seq(Nat)]
<1>1. pos' \in [Ends -> Nat]
  BY DEF TypeOK, Decrypt
<1>2. crossed' \in BOOLEAN /\ garbled' \in BOOLEAN
  BY Zenon DEF TypeOK, Decrypt
<1>3. wire' \in [Ends -> Seq(Nat)]
  <2>1. SubSeq(wire[p], n + 1, Len(wire[p])) \in Seq(Nat)
    BY Behind DEF TypeOK
  <2> QED BY <2>1 DEF TypeOK, Decrypt
<1> QED BY <1>1, <1>2, <1>3

LEMMA TypeInit == Init => TypeOK
<1>1. <<>> \in Seq(Nat) /\ <<>> \in Seq({"key", "ctrl-D"})
  OBVIOUS
<1>2. 0 \in 0..KeyLen
  BY SessionAssumption
<1> SUFFICES ASSUME Init PROVE TypeOK
  OBVIOUS
<1>3. /\ keys \in [Ends -> 0..KeyLen]
      /\ wire \in [Ends -> Seq(Nat)]
  BY <1>1, <1>2 DEF Init, TcpInit
<1>4. /\ fin \in [Ends -> BOOLEAN]
      /\ rst \in [Ends -> {"no", "sent", "arrived"}]
      /\ pos \in [Ends -> Nat]
      /\ todo \in [Ends -> SUBSET {"socket", "tty", "pty"}]
  BY DEF Init, TcpInit
<1>5. crossed \in BOOLEAN /\ garbled \in BOOLEAN
  BY DEF Init, TcpInit
<1> QED BY <1>1, <1>3, <1>4, <1>5 DEF Init, TcpInit, TypeOK

LEMMA ReleaseType ==
    ASSUME TypeOK, NEW hs, NEW u, Release(hs, u)
    PROVE  /\ holders' \subseteq {"server", "shell", "job"}
           /\ keys' \in [Ends -> 0..KeyLen]
           /\ wire' \in [Ends -> Seq(Nat)]
           /\ fin' \in [Ends -> BOOLEAN]
           /\ rst' \in [Ends -> Reset]
<1>1. holders' \subseteq {"server", "shell", "job"}
  BY DEF TypeOK, Release
<1>2. CASE holders \subseteq hs
  BY <1>1, <1>2, DiscardType, EndsFacts DEF Release
<1>3. CASE ~(holders \subseteq hs)
  BY <1>1, <1>3 DEF Release, TypeOK, conn, Reset
<1> QED BY <1>2, <1>3

LEMMA ClientExitType ==
    ASSUME TypeOK, NEW u, ClientExit(u)
    PROVE  /\ client' = "gone"
           /\ todo' \in [Ends -> SUBSET {"socket", "tty", "pty"}]
           /\ keys' \in [Ends -> 0..KeyLen]
           /\ wire' \in [Ends -> Seq(Nat)]
           /\ fin' \in [Ends -> BOOLEAN]
           /\ rst' \in [Ends -> Reset]
<1>1. todo' \in [Ends -> SUBSET {"socket", "tty", "pty"}]
  BY DEF TypeOK, ClientExit
<1> QED BY <1>1, DiscardType, EndsFacts DEF ClientExit

LEMMA ServerExitType ==
    ASSUME TypeOK, NEW hs, NEW u, ServerExit(hs, u)
    PROVE  /\ server' = "gone"
           /\ todo' \in [Ends -> SUBSET {"socket", "tty", "pty"}]
           /\ holders' \subseteq {"server", "shell", "job"}
           /\ keys' \in [Ends -> 0..KeyLen]
           /\ wire' \in [Ends -> Seq(Nat)]
           /\ fin' \in [Ends -> BOOLEAN]
           /\ rst' \in [Ends -> Reset]
<1>1. todo' \in [Ends -> SUBSET {"socket", "tty", "pty"}]
  BY DEF TypeOK, ServerExit
<1> QED BY <1>1, ReleaseType DEF ServerExit

LEMMA ClientExitsType ==
    ASSUME TypeOK, NEW u, ClientExits(u) PROVE TypeOK'
  BY ClientExitType DEF ClientExits, TypeOK, Reset, pty, user, cipher

LEMMA ServerExitsType ==
    ASSUME TypeOK, NEW u, ServerExits(u) PROVE TypeOK'
  BY ServerExitType DEF ServerExits, TypeOK, Reset, pty, user, cipher

LEMMA ServedType ==
    ASSUME TypeOK, NEW p \in Ends, NEW d, Served(p, d)
    PROVE  todo' \in [Ends -> SUBSET {"socket", "tty", "pty"}]
  BY DEF TypeOK, Served

LEMMA ClientType == TypeOK /\ (ClientStep \/ KeyFails \/ ReplyTimeout) => TypeOK'
<1> SUFFICES ASSUME TypeOK, ClientStep \/ KeyFails \/ ReplyTimeout PROVE TypeOK'
  OBVIOUS
<1> USE EndsFacts
<1>1. CASE SendHeader
  <2>1. rst' \in [Ends -> Reset]
    BY <1>1, BounceType DEF SendHeader
  <2>2. keys' \in [Ends -> 0..KeyLen]
    BY <1>1, SessionAssumption DEF SendHeader, TypeOK
  <2> QED BY <1>1, <2>1, <2>2 DEF SendHeader, TypeOK, Reset, pty, user, cipher
<1>2. CASE RecvReply
  <2>1. /\ pos' \in [Ends -> Nat] /\ crossed' \in BOOLEAN
        /\ garbled' \in BOOLEAN /\ wire' \in [Ends -> Seq(Nat)]
        /\ rst' \in [Ends -> Reset]
    BY <1>2, EncryptType, SessionAssumption DEF RecvReply
  <2>2. keys' \in [Ends -> 0..KeyLen]
    BY <1>2, SessionAssumption DEF RecvReply, TypeOK
  <2> QED BY <1>2, <2>1, <2>2 DEF RecvReply, TypeOK, Reset, pty, user
<1>3. CASE RecvReplyFails
  BY <1>3, ClientExitsType DEF RecvReplyFails
<1>4. CASE ClientPoll
  <2>1. todo' \in [Ends -> SUBSET {"socket", "tty", "pty"}]
    BY <1>4 DEF ClientPoll, TypeOK
  <2> QED BY <1>4, <2>1 DEF ClientPoll, TypeOK, pty, user, conn, cipher
<1>5. CASE ClientRecv
  <2>1. PICK n \in 1..Len(wire["client"]) : Decrypt("client", n)
    BY <1>5 DEF ClientRecv
  <2>2. Len(wire["client"]) \in Nat /\ n \in 0..Len(wire["client"])
    BY <2>1 DEF TypeOK
  <2>3. /\ pos' \in [Ends -> Nat] /\ crossed' \in BOOLEAN
        /\ garbled' \in BOOLEAN /\ wire' \in [Ends -> Seq(Nat)]
    BY <2>1, <2>2, DecryptType
  <2>4. todo' \in [Ends -> SUBSET {"socket", "tty", "pty"}]
    BY <1>5, ServedType DEF ClientRecv
  <2> QED BY <1>5, <2>3, <2>4 DEF ClientRecv, TypeOK, pty, user
<1>6. CASE ClientEof
  BY <1>6, ClientExitsType DEF ClientEof
<1>7. CASE ClientKeys
  <2>1. Len(tty) \in Nat /\ tty' \in Seq({"key", "ctrl-D"})
    BY <1>7 DEF TypeOK, ClientKeys
  <2>2. /\ pos' \in [Ends -> Nat] /\ crossed' \in BOOLEAN
        /\ garbled' \in BOOLEAN /\ wire' \in [Ends -> Seq(Nat)]
        /\ rst' \in [Ends -> Reset]
    BY <1>7, <2>1, EncryptType DEF ClientKeys
  <2>3. todo' \in [Ends -> SUBSET {"socket", "tty", "pty"}]
    BY <1>7, ServedType DEF ClientKeys
  <2> QED BY <1>7, <2>1, <2>2, <2>3 DEF ClientKeys, TypeOK, Reset, pty
<1>8. CASE ClientLeaves
  <2>1. tty' \in Seq({"key", "ctrl-D"})
    BY <1>8 DEF ClientLeaves
  <2> QED BY <1>8, <2>1, ClientExitType DEF ClientLeaves, TypeOK, Reset, pty, cipher
<1>9. CASE ClientPipe
  BY <1>9, ClientExitsType DEF ClientPipe
<1>10. CASE KeyFails
  BY <1>10, ClientExitsType DEF KeyFails
<1>11. CASE ReplyTimeout
  BY <1>11, ClientExitsType DEF ReplyTimeout
<1> QED BY <1>1, <1>2, <1>3, <1>4, <1>5, <1>6, <1>7, <1>8, <1>9, <1>10, <1>11
        DEF ClientStep

LEMMA ServerType == TypeOK /\ (ServerStep \/ ServerTimeout) => TypeOK'
<1> SUFFICES ASSUME TypeOK, ServerStep \/ ServerTimeout PROVE TypeOK'
  OBVIOUS
<1> USE EndsFacts
<1>1. CASE RecvHeader
  <2>1. rst' \in [Ends -> Reset]
    BY <1>1, BounceType DEF RecvHeader
  <2>2. keys' \in [Ends -> 0..KeyLen]
    BY <1>1, SessionAssumption DEF RecvHeader
  <2> QED BY <1>1, <2>1, <2>2 DEF RecvHeader, TypeOK, Reset, pty, user, cipher
<1>2. CASE RecvHeaderFails
  BY <1>2, ServerExitsType DEF RecvHeaderFails
<1>3. CASE RecvName
  <2>1. PICK n \in 0..Len(wire["server"]) : Decrypt("server", n)
    BY <1>3 DEF RecvName
  <2>2. /\ pos' \in [Ends -> Nat] /\ crossed' \in BOOLEAN
        /\ garbled' \in BOOLEAN /\ wire' \in [Ends -> Seq(Nat)]
    BY <2>1, DecryptType
  <2> QED BY <1>3, <2>2 DEF RecvName, TypeOK, user
<1>4. CASE RecvNameFails
  BY <1>4, ServerExitsType DEF RecvNameFails
<1>5. CASE ServerLeaves
  BY <1>5, ServerExitsType DEF ServerLeaves
<1>6. CASE ServerPoll
  <2>1. todo' \in [Ends -> SUBSET {"socket", "tty", "pty"}]
    BY <1>6 DEF ServerPoll, TypeOK
  <2> QED BY <1>6, <2>1 DEF ServerPoll, TypeOK, pty, user, conn, cipher
<1>7. CASE ServerOutput
  <2>1. /\ pos' \in [Ends -> Nat] /\ crossed' \in BOOLEAN
        /\ garbled' \in BOOLEAN /\ wire' \in [Ends -> Seq(Nat)]
        /\ rst' \in [Ends -> Reset]
    BY <1>7, EncryptType DEF ServerOutput, TypeOK
  <2>2. todo' \in [Ends -> SUBSET {"socket", "tty", "pty"}]
    BY <1>7, ServedType DEF ServerOutput
  <2> QED BY <1>7, <2>1, <2>2 DEF ServerOutput, TypeOK, Reset, user
<1>8. CASE ServerPipe
  BY <1>8, ServerExitsType DEF ServerPipe
<1>9. CASE ServerRecv
  <2>1. PICK n \in 1..Len(wire["server"]) : Decrypt("server", n)
    BY <1>9 DEF ServerRecv
  <2>2. Len(wire["server"]) \in Nat /\ n \in 0..Len(wire["server"])
    BY <2>1 DEF TypeOK
  <2>3. /\ pos' \in [Ends -> Nat] /\ crossed' \in BOOLEAN
        /\ garbled' \in BOOLEAN /\ wire' \in [Ends -> Seq(Nat)]
    BY <2>1, <2>2, DecryptType
  <2>4. todo' \in [Ends -> SUBSET {"socket", "tty", "pty"}]
    BY <1>9, ServedType DEF ServerRecv
  <2> QED BY <1>9, <2>3, <2>4 DEF ServerRecv, TypeOK, pty, user
<1>10. CASE ServerRecvLate
  BY <1>10, ServerExitsType DEF ServerRecvLate
<1>11. CASE ServerEof
  BY <1>11, ServerExitType DEF ServerEof, TypeOK, Reset, user, cipher
<1>12. CASE ServerCrash
  BY <1>12, ServerExitsType DEF ServerCrash
<1>13. CASE ServerTimeout
  BY <1>13, ServerExitsType DEF ServerTimeout
<1> QED BY <1>1, <1>2, <1>3, <1>4, <1>5, <1>6, <1>7, <1>8, <1>9, <1>10,
           <1>11, <1>12, <1>13 DEF ServerStep

LEMMA OtherType ==
    ASSUME TypeOK,
           \/ LoginSucceeds \/ ShellWrites \/ ShellExits \/ ShellStops
           \/ JobStarts \/ JobEnds \/ UserTypes \/ Network
    PROVE  TypeOK'
<1>1. CASE LoginSucceeds
  BY <1>1 DEF LoginSucceeds, TypeOK, user, conn, cipher
<1>2. CASE ShellWrites
  BY <1>2 DEF ShellWrites, TypeOK, user, conn, cipher
<1>3. CASE ShellExits
  BY <1>3, ReleaseType DEF ShellExits, TypeOK, Reset, user, cipher
<1>4. CASE JobStarts
  BY <1>4 DEF JobStarts, TypeOK, pty, user, conn, cipher
<1>5. CASE JobEnds
  BY <1>5, ReleaseType DEF JobEnds, TypeOK, Reset, pty, user, cipher
<1>6. CASE UserTypes
  <2>1. tty' \in Seq({"key", "ctrl-D"})
    BY <1>6 DEF UserTypes, TypeOK
  <2> QED BY <1>6, <2>1 DEF UserTypes, TypeOK, pty, conn, cipher
<1>7. CASE Network
  <2>1. PICK p \in Ends : RstArrives(p)
    BY <1>7 DEF Network
  <2>2. PICK n \in 0..Len(wire[p]) : wire' = [wire EXCEPT ![p] = SubSeq(@, 1, n)]
    BY <2>1 DEF RstArrives, Destroyed
  <2>3. wire' \in [Ends -> Seq(Nat)]
    BY <2>2, FirstPart DEF TypeOK
  <2>4. rst' \in [Ends -> Reset]
    BY <2>1 DEF RstArrives, Destroyed, TypeOK, Reset
  <2> QED BY <2>1, <2>3, <2>4 DEF RstArrives, Destroyed, TypeOK, Reset, pty, user, cipher
<1>8. CASE ShellStops
  BY <1>8 DEF ShellStops, TypeOK, user, conn, cipher
<1> QED BY <1>1, <1>2, <1>3, <1>4, <1>5, <1>6, <1>7, <1>8

\* The session never leaves its types, whatever the user, the shell and the
\* network do to ssh_client and ssh_server.
THEOREM TypeCorrect == Spec => []TypeOK
<1>1. TypeOK /\ [Next]_vars => TypeOK'
  <2> SUFFICES ASSUME TypeOK, [Next]_vars PROVE TypeOK'
    OBVIOUS
  <2>1. CASE Next
    BY <2>1, ClientType, ServerType, OtherType DEF Next, Surroundings
  <2>2. CASE UNCHANGED vars
    BY <2>2 DEF vars, TypeOK, pty, user, conn, cipher
  <2> QED BY <2>1, <2>2
<1> QED BY <1>1, TypeInit, PTL DEF Spec

-----------------------------------------------------------------------------
(* What a step does to the streams.                                         *)

\* Who has closed stays closed.
StaysClosed == \A q \in Ends : Closed(q) => Closed(q)'

Drops(p) ==
    /\ wire' = [wire EXCEPT ![p] = <<>>]
    /\ UNCHANGED rst \/ rst' = [rst EXCEPT ![Other(p)] = "sent"]
    /\ Closed(p)'

\* The six ways in which a step can touch what is encrypted or on its way.
Kind ==
    \/ UNCHANGED <<wire, pos, crossed, rst>>
    \/ \E p \in Ends : Bounce(p) /\ UNCHANGED <<wire, pos, crossed>>
    \/ \E p \in Ends : \E n \in Nat : ~Closed(p) /\ Encrypt(p, n)
    \/ \E p \in Ends : \E n \in 0..Len(wire[p]) : Decrypt(p, n) /\ UNCHANGED rst
    \/ \E p \in Ends : Drops(p) /\ UNCHANGED <<pos, crossed>>
    \/ \E p \in Ends : RstArrives(p)

LEMMA ClientExitKind ==
    ASSUME NEW u, ClientExit(u), UNCHANGED <<holders, pos, crossed>>
    PROVE  StaysClosed /\ Kind
<1>1. Drops("client")
  BY EndsFacts DEF ClientExit, Discard, HangUp, Shut, Drops, Closed
<1> QED BY <1>1, EndsFacts DEF ClientExit, StaysClosed, Kind, Closed, Ends

LEMMA ReleaseKind ==
    ASSUME NEW hs, NEW u, Release(hs, u), UNCHANGED <<client, pos, crossed>>
    PROVE  StaysClosed /\ Kind
<1>1. StaysClosed
  BY DEF StaysClosed, Closed, Release, Ends
<1>2. CASE holders \subseteq hs
  <2>1. Drops("server")
    BY <1>2, EndsFacts DEF Release, Discard, HangUp, Shut, Drops, Closed
  <2> QED BY <1>1, <2>1, EndsFacts DEF Kind
<1>3. CASE ~(holders \subseteq hs)
  BY <1>1, <1>3 DEF Release, conn, Kind
<1> QED BY <1>2, <1>3

LEMMA ClientExitsKind ==
    ASSUME NEW u, ClientExits(u) PROVE StaysClosed /\ Kind
  BY ClientExitKind DEF ClientExits, cipher

LEMMA ServerExitsKind ==
    ASSUME NEW u, ServerExits(u) PROVE StaysClosed /\ Kind
  BY ReleaseKind DEF ServerExits, ServerExit, cipher

LEMMA ClientKind ==
    ASSUME TypeOK, RunnersHold, ClientStep \/ KeyFails \/ ReplyTimeout
    PROVE  StaysClosed /\ Kind
<1> USE EndsFacts
<1>1. CASE SendHeader
  <2>1. StaysClosed
    BY <1>1 DEF SendHeader, StaysClosed, Closed, Ends
  <2> QED BY <1>1, <2>1 DEF SendHeader, Kind, cipher
<1>2. CASE RecvReply
  <2>1. StaysClosed
    BY <1>2 DEF RecvReply, StaysClosed, Closed, Ends
  <2>2. ~Closed("client") /\ Encrypt("client", NameLen) /\ NameLen \in Nat
    BY <1>2, SessionAssumption DEF RecvReply, Closed
  <2> QED BY <2>1, <2>2 DEF Kind
<1>3. CASE RecvReplyFails
  BY <1>3, ClientExitsKind DEF RecvReplyFails
<1>4. CASE ClientPoll
  BY <1>4 DEF ClientPoll, StaysClosed, Closed, Kind, conn, cipher
<1>5. CASE ClientRecv
  <2>1. PICK n \in 1..Len(wire["client"]) : Decrypt("client", n)
    BY <1>5 DEF ClientRecv
  <2>2. Len(wire["client"]) \in Nat /\ n \in 0..Len(wire["client"])
    BY <2>1 DEF TypeOK
  <2>3. StaysClosed
    BY <1>5 DEF ClientRecv, StaysClosed, Closed
  <2> QED BY <1>5, <2>1, <2>2, <2>3 DEF ClientRecv, Kind
<1>6. CASE ClientEof
  BY <1>6, ClientExitsKind DEF ClientEof
<1>7. CASE ClientKeys
  <2>1. StaysClosed
    BY <1>7 DEF ClientKeys, StaysClosed, Closed
  <2>2. ~Closed("client")
    BY <1>7 DEF ClientKeys, RunnersHold, Closed
  <2>3. Len(tty) \in Nat
    BY DEF TypeOK
  <2> QED BY <1>7, <2>1, <2>2, <2>3 DEF ClientKeys, Kind
<1>8. CASE ClientLeaves
  BY <1>8, ClientExitKind DEF ClientLeaves, cipher
<1>9. CASE ClientPipe
  BY <1>9, ClientExitsKind DEF ClientPipe
<1>10. CASE KeyFails
  BY <1>10, ClientExitsKind DEF KeyFails
<1>11. CASE ReplyTimeout
  BY <1>11, ClientExitsKind DEF ReplyTimeout
<1> QED BY <1>1, <1>2, <1>3, <1>4, <1>5, <1>6, <1>7, <1>8, <1>9, <1>10, <1>11
        DEF ClientStep

LEMMA ServerKind ==
    ASSUME TypeOK, RunnersHold, ServerStep \/ ServerTimeout
    PROVE  StaysClosed /\ Kind
<1> USE EndsFacts
<1>1. CASE RecvHeader
  <2>1. StaysClosed
    BY <1>1 DEF RecvHeader, StaysClosed, Closed
  <2> QED BY <1>1, <2>1 DEF RecvHeader, Kind, cipher
<1>2. CASE RecvHeaderFails
  BY <1>2, ServerExitsKind DEF RecvHeaderFails
<1>3. CASE RecvName
  <2>1. PICK n \in 0..Len(wire["server"]) : Decrypt("server", n)
    BY <1>3 DEF RecvName
  <2>2. StaysClosed
    BY <1>3 DEF RecvName, StaysClosed, Closed, RunnersHold
  <2> QED BY <1>3, <2>1, <2>2 DEF RecvName, Kind
<1>4. CASE RecvNameFails
  BY <1>4, ServerExitsKind DEF RecvNameFails
<1>5. CASE ServerLeaves
  BY <1>5, ServerExitsKind DEF ServerLeaves
<1>6. CASE ServerPoll
  BY <1>6 DEF ServerPoll, StaysClosed, Closed, Kind, conn, cipher
<1>7. CASE ServerOutput
  <2>1. StaysClosed
    BY <1>7 DEF ServerOutput, StaysClosed, Closed
  <2>2. ~Closed("server")
    BY <1>7 DEF ServerOutput, RunnersHold, Closed
  <2>3. out \in Nat
    BY DEF TypeOK
  <2> QED BY <1>7, <2>1, <2>2, <2>3 DEF ServerOutput, Kind
<1>8. CASE ServerPipe
  BY <1>8, ServerExitsKind DEF ServerPipe
<1>9. CASE ServerRecv
  <2>1. PICK n \in 1..Len(wire["server"]) : Decrypt("server", n)
    BY <1>9 DEF ServerRecv
  <2>2. Len(wire["server"]) \in Nat /\ n \in 0..Len(wire["server"])
    BY <2>1 DEF TypeOK
  <2>3. StaysClosed
    BY <1>9 DEF ServerRecv, StaysClosed, Closed
  <2> QED BY <1>9, <2>1, <2>2, <2>3 DEF ServerRecv, Kind
<1>10. CASE ServerRecvLate
  BY <1>10, ServerExitsKind DEF ServerRecvLate
<1>11. CASE ServerEof
  BY <1>11, ReleaseKind DEF ServerEof, ServerExit, cipher
<1>12. CASE ServerCrash
  BY <1>12, ServerExitsKind DEF ServerCrash
<1>13. CASE ServerTimeout
  BY <1>13, ServerExitsKind DEF ServerTimeout
<1> QED BY <1>1, <1>2, <1>3, <1>4, <1>5, <1>6, <1>7, <1>8, <1>9, <1>10,
           <1>11, <1>12, <1>13 DEF ServerStep

LEMMA OtherKind ==
    ASSUME TypeOK, RunnersHold,
           \/ LoginSucceeds \/ ShellWrites \/ ShellExits \/ ShellStops
           \/ JobStarts \/ JobEnds \/ UserTypes \/ Network
    PROVE  StaysClosed /\ Kind
<1>1. CASE LoginSucceeds \/ ShellWrites \/ ShellStops \/ UserTypes
  BY <1>1 DEF LoginSucceeds, ShellWrites, ShellStops, UserTypes, StaysClosed,
              Closed, Kind, conn, cipher
<1>2. CASE ShellExits
  BY <1>2, ReleaseKind DEF ShellExits, cipher
<1>3. CASE JobStarts
  BY <1>3 DEF JobStarts, StaysClosed, Closed, Kind, RunnersHold, Alive, conn, cipher
<1>4. CASE JobEnds
  BY <1>4, ReleaseKind DEF JobEnds, cipher
<1>5. CASE Network
  BY <1>5 DEF Network, RstArrives, StaysClosed, Closed, Kind
<1> QED BY <1>1, <1>2, <1>3, <1>4, <1>5

LEMMA StepKind ==
    ASSUME TypeOK, RunnersHold, [Next]_vars PROVE StaysClosed /\ Kind
<1>1. CASE Next
  BY <1>1, ClientKind, ServerKind, OtherKind DEF Next, Surroundings
<1>2. CASE UNCHANGED vars
  BY <1>2 DEF vars, StaysClosed, Closed, Kind, conn, cipher
<1> QED BY <1>1, <1>2

-----------------------------------------------------------------------------
(* Who runs holds its end.                                                  *)

LEMMA ClientRuns ==
    ASSUME TypeOK, RunnersHold, ClientStep \/ KeyFails \/ ReplyTimeout
    PROVE  RunnersHold'
<1>1. CASE SendHeader
  BY <1>1 DEF SendHeader, RunnersHold, Alive, pty
<1>2. CASE RecvReply
  BY <1>2 DEF RecvReply, RunnersHold, Alive, pty
<1>3. CASE ClientPoll
  BY <1>3 DEF ClientPoll, RunnersHold, Alive, pty, TypeOK, Ends
<1>4. CASE ClientRecv
  BY <1>4 DEF ClientRecv, Served, RunnersHold, Alive, pty, TypeOK, Ends
<1>5. CASE ClientKeys
  BY <1>5 DEF ClientKeys, Served, RunnersHold, Alive, pty, TypeOK, Ends
<1>6. ASSUME NEW u, ClientExit(u), UNCHANGED <<server, shell, holders>>
      PROVE  RunnersHold'
  BY <1>6 DEF ClientExit, RunnersHold, Alive, TypeOK, Ends
<1>7. CASE ClientLeaves
  BY <1>6, <1>7 DEF ClientLeaves, pty
<1>8. ASSUME NEW u, ClientExits(u) PROVE RunnersHold'
  BY <1>6, <1>8 DEF ClientExits, pty
<1>9. CASE RecvReplyFails \/ ClientEof \/ ClientPipe \/ KeyFails \/ ReplyTimeout
  BY <1>8, <1>9 DEF RecvReplyFails, ClientEof, ClientPipe, KeyFails, ReplyTimeout
<1> QED BY <1>1, <1>2, <1>3, <1>4, <1>5, <1>7, <1>9 DEF ClientStep

LEMMA ServerRuns ==
    ASSUME TypeOK, RunnersHold, ServerStep \/ ServerTimeout
    PROVE  RunnersHold'
<1>1. CASE RecvHeader
  BY <1>1 DEF RecvHeader, RunnersHold, Alive, pty
<1>2. CASE RecvName
  BY <1>2 DEF RecvName, RunnersHold, Alive
<1>3. CASE ServerPoll
  BY <1>3 DEF ServerPoll, RunnersHold, Alive, pty, TypeOK, Ends
<1>4. CASE ServerOutput
  BY <1>4 DEF ServerOutput, Served, RunnersHold, Alive, TypeOK, Ends
<1>5. CASE ServerRecv
  BY <1>5 DEF ServerRecv, Served, RunnersHold, Alive, pty, TypeOK, Ends
<1>6. CASE ServerEof
  BY <1>6 DEF ServerEof, ServerExit, Release, RunnersHold, Alive, TypeOK, Ends
<1>7. ASSUME NEW u, ServerExits(u) PROVE RunnersHold'
  BY <1>7 DEF ServerExits, ServerExit, Release, RunnersHold, Alive, pty, TypeOK, Ends
<1>8. CASE RecvHeaderFails \/ RecvNameFails \/ ServerLeaves \/ ServerPipe
  BY <1>7, <1>8 DEF RecvHeaderFails, RecvNameFails, ServerLeaves, ServerPipe
<1>9. CASE ServerRecvLate \/ ServerCrash \/ ServerTimeout
  BY <1>7, <1>9 DEF ServerRecvLate, ServerCrash, ServerTimeout
<1> QED BY <1>1, <1>2, <1>3, <1>4, <1>5, <1>6, <1>8, <1>9 DEF ServerStep

LEMMA OtherRuns ==
    ASSUME TypeOK, RunnersHold,
           \/ LoginSucceeds \/ ShellWrites \/ ShellExits \/ ShellStops
           \/ JobStarts \/ JobEnds \/ UserTypes \/ Network
    PROVE  RunnersHold'
<1>1. CASE LoginSucceeds \/ ShellWrites \/ ShellStops
  BY <1>1 DEF LoginSucceeds, ShellWrites, ShellStops, RunnersHold, Alive
<1>2. CASE ShellExits
  BY <1>2 DEF ShellExits, Release, RunnersHold, Alive
<1>3. CASE JobStarts
  BY <1>3 DEF JobStarts, RunnersHold, Alive, pty
<1>4. CASE JobEnds
  BY <1>4 DEF JobEnds, Release, RunnersHold, Alive, pty
<1>5. CASE UserTypes
  BY <1>5 DEF UserTypes, RunnersHold, Alive, pty
<1>6. CASE Network
  BY <1>6 DEF Network, RstArrives, RunnersHold, Alive, pty
<1> QED BY <1>1, <1>2, <1>3, <1>4, <1>5, <1>6

LEMMA RunnersStep ==
    ASSUME TypeOK, RunnersHold, [Next]_vars PROVE RunnersHold'
<1>1. CASE Next
  BY <1>1, ClientRuns, ServerRuns, OtherRuns DEF Next, Surroundings
<1>2. CASE UNCHANGED vars
  BY <1>2 DEF vars, RunnersHold, Alive, pty
<1> QED BY <1>1, <1>2

-----------------------------------------------------------------------------
(* Resets, keys and positions under each kind of step.                      *)

LEMMA ResetStep ==
    ASSUME TypeOK, ResetAfterClose, StaysClosed, Kind
    PROVE  ResetAfterClose'
<1> SUFFICES ASSUME NEW q \in Ends, rst'[q] # "no" PROVE Closed(Other(q))'
  BY EndsFacts DEF ResetAfterClose, Closed
<1> USE EndsFacts
<1>1. rst[q] # "no" => Closed(Other(q))'
  BY DEF ResetAfterClose, StaysClosed
<1>2. ASSUME NEW p \in Ends, Bounce(p) PROVE Closed(Other(q))'
  BY <1>1, <1>2 DEF Bounce, Returned, StaysClosed, TypeOK
<1>3. ASSUME NEW p \in Ends, Drops(p) PROVE Closed(Other(q))'
  BY <1>1, <1>3 DEF Drops, TypeOK
<1>4. ASSUME NEW p \in Ends, RstArrives(p) PROVE Closed(Other(q))'
  BY <1>1, <1>4 DEF RstArrives, Destroyed, TypeOK
<1>5. CASE UNCHANGED rst
  BY <1>1, <1>5
<1> QED BY <1>2, <1>3, <1>4, <1>5 DEF Kind, Encrypt

\* The sums of both ends are equal whichever end is named first.
LEMMA ApartEither ==
    ASSUME TypeOK, NEW p \in Ends
    PROVE  Apart <=> pos[p] + Len(wire[p])
                        = pos[Other(p)] + Len(wire[Other(p)])
<1>1. \A q \in Ends : pos[q] \in Nat /\ Len(wire[q]) \in Nat
  BY DEF TypeOK
<1> QED BY <1>1, EndsFacts DEF Apart, Ends

LEMMA ApartStep ==
    ASSUME TypeOK, TypeOK', ResetAfterClose, KeysApartByTheWire,
           StaysClosed, Kind
    PROVE  KeysApartByTheWire'
<1> SUFFICES ASSUME ~Closed("client")', ~Closed("server")' PROVE Apart'
  BY DEF KeysApartByTheWire, Closed, Apart
<1> USE EndsFacts
<1>1. \A q \in Ends : ~Closed(q) /\ ~Closed(q)'
  BY DEF StaysClosed, Ends
<1>2. Apart
  BY <1>1 DEF KeysApartByTheWire
<1>0. \A x \in Ends : pos[x] \in Nat /\ wire[x] \in Seq(Nat)
  BY DEF TypeOK
<1>3. CASE UNCHANGED <<wire, pos>>
  BY <1>2, <1>3 DEF Apart
<1>4. ASSUME NEW p \in Ends, NEW q \in Ends, q = Other(p), NEW n \in Nat,
             Encrypt(p, n)
      PROVE  Apart'
  <2>0. p # q /\ Ends = {p, q}
    BY <1>4, EndsFacts
  <2>1. pos'[p] = pos[p] + n /\ pos'[q] = pos[q]
    BY <1>4, <2>0 DEF Encrypt, TypeOK
  <2>2. wire'[p] = wire[p] /\ wire'[q] = wire[q] \o Stream(pos[p], n)
    <3>1. wire' = [wire EXCEPT ![q] = wire[q] \o Stream(pos[p], n)]
      BY <1>1, <1>4 DEF Encrypt
    <3> QED BY <2>0, <3>1 DEF TypeOK
  <2>3. Len(wire'[q]) = Len(wire[q]) + n
    <3>1. Stream(pos[p], n) \in Seq(Nat) /\ Len(Stream(pos[p], n)) = n
      BY <1>0, StreamType
    <3>2. Len(wire[q] \o Stream(pos[p], n)) = Len(wire[q]) + Len(Stream(pos[p], n))
      BY <1>0, <3>1, Joined
    <3> QED BY <2>2, <3>1, <3>2
  <2>4. pos[p] + Len(wire[p]) = pos[q] + Len(wire[q])
    BY <1>2, <1>4, ApartEither
  <2>5. /\ pos[p] \in Nat /\ Len(wire[p]) \in Nat
        /\ pos[q] \in Nat /\ Len(wire[q]) \in Nat
    BY <1>0
  <2>6. pos'[p] + Len(wire'[p]) = pos'[q] + Len(wire'[q])
    <3>1. Len(wire'[p]) = Len(wire[p])
      BY <2>2
    <3>2. (pos[p] + n) + Len(wire[p]) = pos[q] + (Len(wire[q]) + n)
      <4>1. n \in Nat
        BY <1>4
      <4>2. (pos[p] + n) + Len(wire[p]) = (pos[p] + Len(wire[p])) + n
        BY <2>5, <4>1
      <4>3. pos[q] + (Len(wire[q]) + n) = (pos[q] + Len(wire[q])) + n
        BY <2>5, <4>1
      <4> QED BY <2>4, <4>2, <4>3
    <3> QED BY <2>1, <2>3, <3>1, <3>2
  <2>7. p = "client" \/ p = "server"
    BY DEF Ends
  <2> QED BY <1>4, <2>6, <2>7 DEF Apart
<1>5. ASSUME NEW p \in Ends, NEW q \in Ends, q = Other(p),
             NEW n \in 0..Len(wire[p]), Decrypt(p, n)
      PROVE  Apart'
  <2>0. p # q /\ Ends = {p, q}
    BY <1>5, EndsFacts
  <2>1. pos'[p] = pos[p] + n /\ pos'[q] = pos[q]
    BY <1>5, <2>0 DEF Decrypt, TypeOK
  <2>2. wire'[q] = wire[q] /\ wire'[p] = SubSeq(wire[p], n + 1, Len(wire[p]))
    BY <1>5, <2>0 DEF Decrypt, TypeOK
  <2>3. Len(wire'[p]) = Len(wire[p]) - n
    BY <1>0, <2>2, Behind
  <2>4. pos[p] + Len(wire[p]) = pos[q] + Len(wire[q])
    BY <1>2, <1>5, ApartEither
  <2>5. /\ pos[p] \in Nat /\ Len(wire[p]) \in Nat
        /\ pos[q] \in Nat /\ Len(wire[q]) \in Nat
    BY <1>0
  <2>6. pos'[p] + Len(wire'[p]) = pos'[q] + Len(wire'[q])
    <3>1. Len(wire'[q]) = Len(wire[q])
      BY <2>2
    <3>2. n \in Nat /\ n <= Len(wire[p])
      BY <2>5
    <3>3. pos[p] + n + (Len(wire[p]) - n) = pos[p] + Len(wire[p])
      BY <2>5, <3>2
    <3> QED BY <2>1, <2>3, <2>4, <3>1, <3>3
  <2>7. p = "client" \/ p = "server"
    BY DEF Ends
  <2> QED BY <1>5, <2>6, <2>7 DEF Apart
<1>6. ASSUME NEW p \in Ends, Drops(p) PROVE FALSE
  BY <1>1, <1>6 DEF Drops, Closed
<1>7. ASSUME NEW p \in Ends, RstArrives(p) PROVE FALSE
  BY <1>1, <1>7, EndsFacts DEF RstArrives, Destroyed, ResetAfterClose
<1> QED BY <1>3, <1>4, <1>5, <1>6, <1>7 DEF Kind

LEMMA AlignedStep ==
    ASSUME TypeOK, TypeOK', KeysApartByTheWire, GarbleIsTransient,
           StaysClosed, Kind
    PROVE  GarbleIsTransient'
<1> SUFFICES ASSUME ~crossed', NEW r \in Ends, NEW i \in 1..Len(wire'[r])
             PROVE  wire'[r][i] = pos'[r] + i
  BY DEF GarbleIsTransient, Aligned
<1> USE EndsFacts
<1>1. ASSUME ~crossed, NEW j \in 1..Len(wire[r]) PROVE wire[r][j] = pos[r] + j
  BY <1>1 DEF GarbleIsTransient, Aligned
<1>2. wire[r] \in Seq(Nat) /\ pos[r] \in Nat
  BY DEF TypeOK
<1>0. \A x \in Ends : pos[x] \in Nat /\ wire[x] \in Seq(Nat)
  BY DEF TypeOK
<1>3. CASE UNCHANGED <<wire, pos, crossed>>
  BY <1>1, <1>3
<1>4. ASSUME NEW p \in Ends, NEW n \in Nat, ~Closed(p), Encrypt(p, n)
      PROVE  wire'[r][i] = pos'[r] + i
  <2> DEFINE q == Other(p)
  <2>1. ~crossed /\ wire[p] = <<>>
    BY <1>4 DEF Encrypt
  <2>2. CASE r = p
    <3>1. wire'[p] = <<>>
      BY <1>4, <2>1 DEF Encrypt, TypeOK
    <3> QED BY <2>2, <3>1
  <2>3. CASE r = q /\ Closed(q)
    <3>1. wire'[r] = wire[r] /\ pos'[r] = pos[r]
      BY <1>4, <2>3 DEF Encrypt, TypeOK
    <3> QED BY <1>1, <2>1, <3>1
  <2>4. CASE r = q /\ ~Closed(q)
    <3>1. wire'[r] = wire[r] \o Stream(pos[p], n) /\ pos'[r] = pos[r]
      BY <1>4, <2>4 DEF Encrypt, TypeOK
    <3>2. Apart
      BY <1>4, <2>4 DEF KeysApartByTheWire, Ends
    <3>3. pos[p] = pos[r] + Len(wire[r])
      <4>1. pos[p] + Len(wire[p]) = pos[r] + Len(wire[r])
        BY <2>4, <3>2, ApartEither
      <4>2. Len(wire[p]) = 0
        BY <2>1
      <4>3. pos[p] \in Nat
        BY DEF TypeOK
      <4> QED BY <4>1, <4>2, <4>3
    <3>4. /\ Stream(pos[p], n) \in Seq(Nat)
          /\ Len(Stream(pos[p], n)) = n
          /\ \A j \in 1..n : Stream(pos[p], n)[j] = pos[p] + j
      BY <1>0, StreamType
    <3>5. CASE i \in 1..Len(wire[r])
      <4>1. wire'[r][i] = wire[r][i]
        BY <1>2, <3>1, <3>4, <3>5, Joined
      <4> QED BY <1>1, <2>1, <3>1, <3>5, <4>1
    <3>6. CASE i \notin 1..Len(wire[r])
      <4>1. /\ i \in (Len(wire[r]) + 1)..(Len(wire[r]) + n)
            /\ i - Len(wire[r]) \in 1..n
        <5>1. Len(wire'[r]) = Len(wire[r]) + n
          <6>1. Len(wire[r] \o Stream(pos[p], n))
                  = Len(wire[r]) + Len(Stream(pos[p], n))
            BY <1>2, <3>4, Joined
          <6> QED BY <3>1, <3>4, <6>1
        <5>2. Len(wire[r]) \in Nat
          BY <1>2
        <5> QED BY <3>6, <5>1, <5>2
      <4>2. wire'[r][i] = Stream(pos[p], n)[i - Len(wire[r])]
        BY <1>2, <3>1, <3>4, <4>1, Joined
      <4>3. wire'[r][i] = pos[p] + (i - Len(wire[r]))
        BY <3>4, <4>1, <4>2
      <4>4. Len(wire[r]) \in Nat
        BY <1>2
      <4> QED BY <1>2, <3>1, <3>3, <4>3, <4>4
    <3> QED BY <3>5, <3>6
  <2> QED BY <2>2, <2>3, <2>4
<1>5. ASSUME NEW p \in Ends, NEW n \in 0..Len(wire[p]), Decrypt(p, n)
      PROVE  wire'[r][i] = pos'[r] + i
  <2>1. wire'[r] # <<>>
    OBVIOUS
  <2>2. ~crossed
    BY <1>5, <2>1 DEF Decrypt
  <2>3. CASE r # p
    <3>1. wire'[r] = wire[r] /\ pos'[r] = pos[r]
      BY <1>5, <2>3 DEF Decrypt, TypeOK
    <3> QED BY <1>1, <2>2, <3>1
  <2>4. CASE r = p
    <3>1. wire'[r] = SubSeq(wire[r], n + 1, Len(wire[r])) /\ pos'[r] = pos[r] + n
      BY <1>5, <2>4 DEF Decrypt, TypeOK
    <3>2. i \in 1..(Len(wire[r]) - n) /\ wire'[r][i] = wire[r][n + i]
      <4>1. n \in 0..Len(wire[r])
        BY <2>4
      <4>2. /\ Len(wire'[r]) = Len(wire[r]) - n
            /\ \A j \in 1..(Len(wire[r]) - n) : wire'[r][j] = wire[r][n + j]
        BY <1>2, <3>1, <4>1, Behind
      <4> QED BY <4>2
    <3>3. n + i \in 1..Len(wire[r])
      BY <1>2, <2>4, <3>2
    <3>4. wire[r][n + i] = pos[r] + (n + i)
      BY <1>1, <2>2, <3>3
    <3> QED BY <1>2, <3>1, <3>2, <3>4
  <2> QED BY <2>3, <2>4
<1>6. ASSUME NEW p \in Ends, Drops(p), UNCHANGED <<pos, crossed>>
      PROVE  wire'[r][i] = pos'[r] + i
  <2>1. r # p /\ wire'[r] = wire[r]
    BY <1>6 DEF Drops, TypeOK
  <2> QED BY <1>1, <1>6, <2>1
<1>7. ASSUME NEW p \in Ends, RstArrives(p)
      PROVE  wire'[r][i] = pos'[r] + i
  <2>1. PICK n \in 0..Len(wire[p]) : wire' = [wire EXCEPT ![p] = SubSeq(@, 1, n)]
    BY <1>7 DEF RstArrives, Destroyed
  <2>2. UNCHANGED <<pos, crossed>>
    BY <1>7 DEF RstArrives, cipher
  <2>3. CASE r # p
    BY <1>1, <2>1, <2>2, <2>3 DEF TypeOK
  <2>4. CASE r = p
    <3>1. wire'[r] = SubSeq(wire[r], 1, n)
      BY <2>1, <2>4 DEF TypeOK
    <3>2. i \in 1..n /\ wire'[r][i] = wire[r][i]
      BY <1>2, <2>4, <3>1, FirstPart
    <3> QED BY <1>1, <1>2, <2>2, <2>4, <3>2
  <2> QED BY <2>3, <2>4
<1> QED BY <1>3, <1>4, <1>5, <1>6, <1>7 DEF Kind

-----------------------------------------------------------------------------

LEMMA IInvInit == Init => IInv
  BY EndsFacts DEF Init, TcpInit, IInv, RunnersHold, ResetAfterClose, KeysApartByTheWire,
                   GarbleIsTransient, Apart, Aligned, Alive

LEMMA IInvStep ==
    ASSUME TypeOK, TypeOK', IInv, [Next]_vars PROVE IInv'
<1>1. RunnersHold' /\ StaysClosed /\ Kind
  BY RunnersStep, StepKind DEF IInv
<1>2. ResetAfterClose' /\ KeysApartByTheWire' /\ GarbleIsTransient'
  BY <1>1, ResetStep, ApartStep, AlignedStep DEF IInv
<1> QED BY <1>1, <1>2 DEF IInv

\* The keys, the wire and the ends of the connection fit together always.
THEOREM IInvAlways == Spec => []IInv
<1>1. TypeOK /\ TypeOK' /\ IInv /\ [Next]_vars => IInv'
  BY IInvStep
<1> QED BY <1>1, IInvInit, TypeCorrect, PTL DEF Spec

\* While the connection stands the two RC4 keys are apart by exactly what is
\* on the wire, for every length of the name and however long the session is.
THEOREM KeysApart == Spec => []KeysApartByTheWire
<1>1. IInv => KeysApartByTheWire
  BY DEF IInv
<1> QED BY <1>1, IInvAlways, PTL

\* What is garbled by texts that crossed is over when both wires are empty.
THEOREM GarbleTransient == Spec => []GarbleIsTransient
<1>1. IInv => GarbleIsTransient
  BY DEF IInv
<1> QED BY <1>1, IInvAlways, PTL

-----------------------------------------------------------------------------
(* A shell keeps its server.                                                *)

\* A reset stays, and so does what poll may have found readable, unless the
\* server has nothing left to serve on its socket.
Steady ==
    /\ Broken("server") => Broken("server")'
    /\ \/ wire["server"] # <<>> \/ fin["server"] \/ Broken("server")
             => (wire["server"] # <<>> \/ fin["server"] \/ Broken("server"))'
       \/ "socket" \notin todo'["server"]

\* Nothing takes back that a SIGCHLD has come.
LEMMA FlagStays == ASSUME TypeOK, [Next]_vars PROVE exitLoop => exitLoop'
<1>1. CASE ClientStep \/ KeyFails \/ ReplyTimeout
  BY <1>1 DEF ClientStep, SendHeader, RecvReply, RecvReplyFails, ClientPoll,
              ClientRecv, ClientEof, ClientKeys, ClientLeaves, ClientPipe, KeyFails,
              ReplyTimeout, ClientExits, pty
<1>2. CASE ServerStep \/ ServerTimeout
  BY <1>2 DEF ServerStep, RecvHeader, RecvHeaderFails, RecvName, RecvNameFails,
              ServerLeaves, ServerPoll, ServerOutput, ServerPipe, ServerRecv,
              ServerRecvLate, ServerEof, ServerCrash, ServerTimeout, ServerExits, pty
<1>3. CASE ShellExits \/ ShellStops
  BY <1>3 DEF ShellExits, ShellStops
<1>4. CASE LoginSucceeds \/ ShellWrites \/ JobStarts \/ JobEnds \/ UserTypes
  BY <1>4 DEF LoginSucceeds, ShellWrites, JobStarts, JobEnds, UserTypes, pty
<1>5. CASE Network
  BY <1>5 DEF Network, RstArrives, pty
<1>6. CASE UNCHANGED vars
  BY <1>6 DEF vars, pty
<1> QED BY <1>1, <1>2, <1>3, <1>4, <1>5, <1>6 DEF Next, Surroundings

LEMMA ClientExitSteady ==
    ASSUME TypeOK, ResetAfterClose, client # "gone", NEW u, ClientExit(u)
    PROVE  Steady /\ todo'["server"] = todo["server"]
<1> USE EndsFacts
<1>1. rst["server"] = "no"
  BY DEF ResetAfterClose, Closed
<1>2. wire'["server"] = wire["server"] /\ todo'["server"] = todo["server"]
  BY DEF ClientExit, Discard, TypeOK
<1>3. fin["server"] => fin'["server"]
  BY DEF ClientExit, Discard, HangUp, Shut, TypeOK
<1> QED BY <1>1, <1>2, <1>3 DEF Steady, Broken

LEMMA BounceSteady ==
    ASSUME TypeOK, NEW p \in Ends, Bounce(p), UNCHANGED fin,
           wire["server"] # <<>> => wire'["server"] # <<>>
    PROVE  Steady
<1>1. rst["server"] = "arrived" => rst'["server"] = "arrived"
  BY EndsFacts DEF Bounce, Returned, TypeOK
<1> QED BY <1>1 DEF Steady, Broken

LEMMA EncryptGrows ==
    ASSUME TypeOK, NEW p \in Ends, NEW n \in Nat, Encrypt(p, n)
    PROVE  wire["server"] # <<>> => wire'["server"] # <<>>
<1> USE EndsFacts
<1>0. wire[Other(p)] \in Seq(Nat) /\ pos[p] \in Nat
  BY DEF TypeOK
<1>1. CASE Closed(Other(p)) \/ p = "server"
  BY <1>1 DEF Encrypt, TypeOK
<1>2. CASE ~Closed(Other(p)) /\ p # "server"
  <2>1. Other(p) = "server"
    BY <1>2 DEF Ends
  <2>2. wire'["server"] = wire["server"] \o Stream(pos[p], n)
    BY <1>2, <2>1 DEF Encrypt, TypeOK
  <2>3. Len(wire'["server"]) = Len(wire["server"]) + n
    <3>1. /\ Stream(pos[p], n) \in Seq(Nat) /\ Len(Stream(pos[p], n)) = n
          /\ wire["server"] \in Seq(Nat)
      BY <1>0, <2>1, StreamType
    <3>2. Len(wire["server"] \o Stream(pos[p], n))
              = Len(wire["server"]) + Len(Stream(pos[p], n))
      BY <3>1, Joined
    <3> QED BY <2>2, <3>1, <3>2
  <2>4. wire["server"] \in Seq(Nat) /\ wire'["server"] \in Seq(Nat)
    BY EncryptType DEF TypeOK
  <2> QED BY <2>3, <2>4
<1> QED BY <1>1, <1>2

LEMMA ReleaseSteady ==
    ASSUME TypeOK, NEW hs, NEW u, Release(hs, u)
    PROVE  /\ Broken("server") => Broken("server")'
           /\ ~(holders \subseteq hs) => UNCHANGED conn
<1>1. CASE ~(holders \subseteq hs)
  BY <1>1 DEF Release, conn, Broken
<1>2. CASE holders \subseteq hs
  <2>1. rst' = rst \/ rst' = [rst EXCEPT !["client"] = "sent"]
    BY <1>2, EndsFacts DEF Release, Discard, HangUp, Shut
  <2> QED BY <1>2, <2>1 DEF Broken, TypeOK, Ends
<1> QED BY <1>1, <1>2

\* What the client does leaves the server and its shell alone.
LEMMA ClientSteady ==
    ASSUME TypeOK, RunnersHold, ResetAfterClose,
           ClientStep \/ KeyFails \/ ReplyTimeout
    PROVE  Steady /\ UNCHANGED <<server, shell>> /\ todo'["server"] = todo["server"]
<1> USE EndsFacts
<1>1. CASE SendHeader
  <2>1. Steady
    BY <1>1, BounceSteady DEF SendHeader
  <2> QED BY <1>1, <2>1 DEF SendHeader, pty
<1>2. CASE RecvReply
  <2>1. Encrypt("client", NameLen) /\ Bounce("client") /\ UNCHANGED fin
    BY <1>2 DEF RecvReply, Encrypt
  <2>2. Steady
    BY <2>1, EncryptGrows, BounceSteady, SessionAssumption
  <2> QED BY <1>2, <2>2 DEF RecvReply, pty
<1>3. CASE ClientPoll
  BY <1>3 DEF ClientPoll, Steady, Broken, conn, pty, TypeOK
<1>4. CASE ClientRecv
  <2>1. UNCHANGED <<fin, rst, server, pty>> /\ todo'["server"] = todo["server"]
    BY <1>4 DEF ClientRecv, Served, TypeOK
  <2>2. wire'["server"] = wire["server"]
    BY <1>4 DEF ClientRecv, Decrypt, TypeOK
  <2> QED BY <2>1, <2>2 DEF Steady, Broken, pty
<1>5. CASE ClientKeys
  <2>1. Encrypt("client", Len(tty)) /\ Bounce("client") /\ UNCHANGED fin
    BY <1>5 DEF ClientKeys, Encrypt
  <2>2. Steady
    BY <2>1, EncryptGrows, BounceSteady DEF TypeOK
  <2> QED BY <1>5, <2>2 DEF ClientKeys, Served, pty, TypeOK
<1>6. ASSUME NEW u, client # "gone", ClientExits(u)
      PROVE  Steady /\ UNCHANGED <<server, shell>> /\ todo'["server"] = todo["server"]
  BY <1>6, ClientExitSteady DEF ClientExits, pty
<1>7. todo["client"] # {} => client # "gone"
  BY DEF RunnersHold
<1>8. CASE ClientLeaves
  BY <1>7, <1>8, ClientExitSteady DEF ClientLeaves, pty
<1>9. CASE RecvReplyFails \/ ClientEof \/ ClientPipe \/ KeyFails \/ ReplyTimeout
  BY <1>6, <1>7, <1>9
     DEF RecvReplyFails, ClientEof, ClientPipe, KeyFails, ReplyTimeout
<1> QED BY <1>1, <1>2, <1>3, <1>4, <1>5, <1>8, <1>9 DEF ClientStep

\* The three parts of ShellInv that RunnersStep and ResetStep do not give.
Kept == SocketStaysReady /\ ShellAfterName /\ ShellHasServer

\* A server that ends leaves no living shell behind, or a reset, or a SIGCHLD
\* has come to it.
LEMMA ServerExitKept ==
    ASSUME TypeOK, ShellHasServer, NEW hs, NEW u, ServerExit(hs, u),
           Alive' => Broken("server") \/ exitLoop'
    PROVE  Kept'
<1>1. server' = "gone" /\ "socket" \notin todo'["server"]
  BY DEF ServerExit, TypeOK, Ends
<1>2. Broken("server") => Broken("server")'
  BY ReleaseSteady DEF ServerExit
<1> QED BY <1>1, <1>2 DEF Kept, SocketStaysReady, ShellAfterName, ShellHasServer

LEMMA ServerKept ==
    ASSUME TypeOK, ShellInv, ServerStep \/ ServerTimeout, exitLoop => exitLoop'
    PROVE  Kept'
<1> USE EndsFacts
<1>1. CASE RecvHeader
  <2>1. Steady
    BY <1>1, BounceSteady DEF RecvHeader
  <2>2. server' = "name" /\ shell' = "none" /\ todo' = todo
    BY <1>1 DEF RecvHeader, ShellInv, ShellAfterName, pty
  <2> QED BY <2>1, <2>2 DEF Steady, Kept, ShellInv, SocketStaysReady,
                            ShellAfterName, ShellHasServer
<1>2. CASE RecvName
  <2>1. server' = "loop" /\ todo'["server"] = {}
    BY <1>2 DEF RecvName, ShellInv, RunnersHold
  <2> QED BY <2>1 DEF Kept, SocketStaysReady, ShellAfterName, ShellHasServer
<1>3. CASE ServerPoll
  <2>1. server' = "loop" /\ UNCHANGED <<shell, wire, fin, rst>>
    BY <1>3 DEF ServerPoll, pty, conn
  <2>2. "socket" \in todo'["server"] => Readable("server")
    BY <1>3 DEF ServerPoll, TypeOK
  <2> QED BY <2>1, <2>2 DEF Readable, Kept, SocketStaysReady, ShellAfterName,
                            ShellHasServer, Broken
<1>4. CASE ServerOutput
  <2>1. Encrypt("server", out) /\ Bounce("server") /\ UNCHANGED fin
    BY <1>4 DEF ServerOutput, Encrypt
  <2>2. Steady
    BY <2>1, EncryptGrows, BounceSteady DEF TypeOK
  <2>3. server' = "loop" /\ todo'["server"] \subseteq todo["server"]
    BY <1>4 DEF ServerOutput, Served, TypeOK, ShellInv, RunnersHold
  <2> QED BY <2>2, <2>3 DEF Steady, Kept, ShellInv, SocketStaysReady,
                            ShellAfterName, ShellHasServer
<1>5. CASE ServerRecv
  <2>1. server' = "loop" /\ "socket" \notin todo'["server"]
    BY <1>5 DEF ServerRecv, Served, TypeOK, ShellInv, RunnersHold
  <2> QED BY <2>1 DEF Kept, SocketStaysReady, ShellAfterName, ShellHasServer
<1>6. CASE ServerEof
  <2>1. ServerExit({"server", "shell"}, FALSE) /\ ~Alive'
    BY <1>6 DEF ServerEof, Alive
  <2> QED BY <2>1, ServerExitKept DEF ShellInv
<1>7. ASSUME NEW u, ServerExits(u), Alive => Broken("server") \/ exitLoop
      PROVE  Kept'
  <2>1. ServerExit({"server"}, u) /\ (Alive' <=> Alive)
    BY <1>7 DEF ServerExits, Alive, pty
  <2> QED BY <1>7, <2>1, ServerExitKept DEF ShellInv
<1>8. CASE RecvHeaderFails \/ RecvNameFails \/ ServerTimeout
  <2>1. ~Alive
    BY <1>8 DEF RecvHeaderFails, RecvNameFails, ServerTimeout, ShellInv,
                ShellAfterName, Alive
  <2> QED BY <1>7, <1>8, <2>1 DEF RecvHeaderFails, RecvNameFails, ServerTimeout
<1>9. CASE ServerLeaves \/ ServerRecvLate
  BY <1>7, <1>9 DEF ServerLeaves, ServerRecvLate
<1>10. CASE ServerPipe
  BY <1>7, <1>10 DEF ServerPipe
<1>11. CASE ServerCrash
  <2>1. Broken("server")
    BY <1>11 DEF ServerCrash, ShellInv, SocketStaysReady
  <2> QED BY <1>7, <1>11, <2>1 DEF ServerCrash
<1> QED BY <1>1, <1>2, <1>3, <1>4, <1>5, <1>6, <1>8, <1>9, <1>10, <1>11
        DEF ServerStep

LEMMA OtherKept ==
    ASSUME TypeOK, ShellInv,
           \/ LoginSucceeds \/ ShellWrites \/ ShellExits \/ ShellStops
           \/ JobStarts \/ JobEnds \/ UserTypes \/ Network,
           exitLoop => exitLoop'
    PROVE  Kept'
<1> USE EndsFacts DEF Kept, ShellInv, SocketStaysReady, ShellAfterName, ShellHasServer
<1>1. CASE LoginSucceeds \/ ShellWrites \/ ShellStops \/ JobStarts \/ UserTypes
  <2>1. UNCHANGED <<server, todo, wire, fin, rst>> /\ (Alive' <=> Alive)
    BY <1>1 DEF LoginSucceeds, ShellWrites, ShellStops, JobStarts, UserTypes,
                conn, pty, Alive
  <2>2. shell = "none" => shell' = "none"
    BY <1>1 DEF LoginSucceeds, ShellWrites, ShellStops, JobStarts, UserTypes,
                pty, Alive
  <2> QED BY <2>1, <2>2 DEF Broken
<1>2. ASSUME NEW hs, NEW u, Release(hs, u), "server" \notin hs,
             UNCHANGED <<server, todo>>, Alive' => Alive,
             shell = "none" => shell' = "none"
      PROVE  Kept'
  <2>1. Broken("server") => Broken("server")'
    BY <1>2, ReleaseSteady
  <2>2. SocketStaysReady'
    <3>1. CASE holders \subseteq hs
      <4>1. todo'["server"] = {}
        BY <1>2, <3>1 DEF RunnersHold
      <4> QED BY <4>1
    <3>2. CASE ~(holders \subseteq hs)
      BY <1>2, <3>2 DEF Release, conn, Broken
    <3> QED BY <3>1, <3>2
  <2> QED BY <1>2, <2>1, <2>2
<1>3. CASE ShellExits
  <2>1. ~Alive' /\ shell # "none"
    BY <1>3 DEF ShellExits, Alive
  <2> QED BY <1>2, <1>3, <2>1 DEF ShellExits
<1>4. CASE JobEnds
  BY <1>2, <1>4 DEF JobEnds, pty, Alive
<1>5. CASE Network
  <2>1. PICK p \in Ends : RstArrives(p)
    BY <1>5 DEF Network
  <2>2. UNCHANGED <<server, todo, shell, fin>>
    BY <2>1 DEF RstArrives, pty
  <2>3. \/ Broken("server")'
        \/ wire'["server"] = wire["server"] /\ (Broken("server")' <=> Broken("server"))
    BY <2>1 DEF RstArrives, Destroyed, Broken, TypeOK
  <2> QED BY <2>2, <2>3 DEF Alive
<1> QED BY <1>1, <1>3, <1>4, <1>5

LEMMA ShellInvStep ==
    ASSUME TypeOK, ShellInv, [Next]_vars PROVE ShellInv'
<1>0. exitLoop => exitLoop'
  BY FlagStays
<1>1. RunnersHold' /\ ResetAfterClose'
  BY RunnersStep, StepKind, ResetStep DEF ShellInv
<1>2. Kept'
  <2>1. CASE ClientStep \/ KeyFails \/ ReplyTimeout
    <3>1. Steady /\ UNCHANGED <<server, shell>> /\ todo'["server"] = todo["server"]
      BY <2>1, ClientSteady DEF ShellInv
    <3> QED BY <1>0, <3>1 DEF Steady, ShellInv, Kept, SocketStaysReady,
                              ShellAfterName, ShellHasServer, Alive
  <2>2. CASE UNCHANGED vars
    BY <2>2 DEF vars, pty, conn, ShellInv, Kept, SocketStaysReady, ShellAfterName,
                ShellHasServer, Alive, Broken
  <2> QED BY <1>0, <2>1, <2>2, ServerKept, OtherKept DEF Next, Surroundings
<1> QED BY <1>1, <1>2 DEF ShellInv, Kept

\* However the two processes, the shell and its jobs come to their ends, a
\* shell that lives longer than its server is the work of a reset, or of a
\* SIGCHLD that was not its end.
THEOREM ShellKeepsServer == Spec => []ShellHasServer
<1>1. Init => ShellInv
  BY EndsFacts DEF Init, TcpInit, ShellInv, RunnersHold, ResetAfterClose,
                   SocketStaysReady, ShellAfterName, ShellHasServer, Alive
<1>2. TypeOK /\ ShellInv /\ [Next]_vars => ShellInv'
  BY ShellInvStep
<1>3. ShellInv => ShellHasServer
  BY DEF ShellInv
<1> QED BY <1>1, <1>2, <1>3, TypeCorrect, PTL DEF Spec

=============================================================================
