------------------------- MODULE CopyTransferProofs -------------------------
(* Two processes that read one connection: type correctness of the copy,    *)
(* and that neither takes what is meant for the other.                      *)
EXTENDS CopyTransfer, FiniteSetTheorems, TLAPS

Items == {"head", "key", "byte", "out", "go"}

Reset == {"no", "sent", "arrived"}

Files == {"socket", "tty", "pty"}

-----------------------------------------------------------------------------
(* Ends and sequences.                                                      *)

LEMMA EndsFacts ==
    /\ "client" \in Ends /\ "server" \in Ends
    /\ Other("client") = "server" /\ Other("server") = "client"
    /\ \A p \in Ends : Other(p) \in Ends /\ Other(p) # p
  BY DEF Ends, Other

LEMMA RepeatFacts ==
    ASSUME NEW x \in Items, NEW n \in Nat
    PROVE  /\ Repeat(x, n) \in Seq(Items)
           /\ Len(Repeat(x, n)) = n
           /\ \A i \in 1..n : Repeat(x, n)[i] = x
  BY DEF Repeat

LEMMA Behind ==
    ASSUME NEW s \in Seq(Items), NEW n \in 0..Len(s)
    PROVE  /\ SubSeq(s, n + 1, Len(s)) \in Seq(Items)
           /\ Len(SubSeq(s, n + 1, Len(s))) = Len(s) - n
           /\ \A i \in 1..(Len(s) - n) : SubSeq(s, n + 1, Len(s))[i] = s[n + i]
  OBVIOUS

LEMMA FirstPart ==
    ASSUME NEW s \in Seq(Items), NEW n \in 0..Len(s)
    PROVE  /\ SubSeq(s, 1, n) \in Seq(Items)
           /\ Len(SubSeq(s, 1, n)) = n
           /\ \A i \in 1..n : SubSeq(s, 1, n)[i] = s[i]
  OBVIOUS

LEMMA Joined ==
    ASSUME NEW s \in Seq(Items), NEW t \in Seq(Items)
    PROVE  /\ s \o t \in Seq(Items)
           /\ Len(s \o t) = Len(s) + Len(t)
           /\ \A i \in 1..Len(s) : (s \o t)[i] = s[i]
           /\ \A i \in (Len(s) + 1)..(Len(s) + Len(t)) : (s \o t)[i] = t[i - Len(s)]
  OBVIOUS

-----------------------------------------------------------------------------
(* Types.                                                                   *)

WireType ==
    /\ wire \in [Ends -> Seq(Items)]
    /\ fin \in [Ends -> BOOLEAN]
    /\ rst \in [Ends -> Reset]

LEMMA TypeParts ==
    TypeOK => /\ WireType
              /\ todo \in [Ends -> SUBSET Files]
  BY DEF TypeOK, WireType, Items, Reset, Files

LEMMA RestType ==
    ASSUME WireType, NEW p \in Ends, NEW n \in 0..Len(wire[p])
    PROVE  Rest(p, n) \in Seq(Items)
  BY Behind DEF WireType, Rest

LEMMA SendType ==
    ASSUME WireType, NEW p \in Ends, NEW s \in Seq(Items), Send(p, s)
    PROVE  WireType'
<1>1. wire[Other(p)] \o s \in Seq(Items)
  BY EndsFacts, Joined DEF WireType
<1>2. wire' \in [Ends -> Seq(Items)]
  BY <1>1 DEF WireType, Send
<1>3. rst' \in [Ends -> Reset]
  BY DEF WireType, Send, Returned, Reset
<1> QED BY <1>2, <1>3 DEF WireType, Send

LEMMA ShutType ==
    ASSUME WireType, NEW p \in Ends, NEW u, NEW c, Shut(p, u, c)
    PROVE  fin' \in [Ends -> BOOLEAN] /\ rst' \in [Ends -> Reset]
<1>1. CASE UNCHANGED <<fin, rst>>
  BY <1>1 DEF WireType
<1>2. CASE /\ rst' = [rst EXCEPT ![Other(p)] = "sent"]
           /\ \E f \in {fin[Other(p)], TRUE} : fin' = [fin EXCEPT ![Other(p)] = f]
  <2>1. fin[Other(p)] \in BOOLEAN
    BY EndsFacts DEF WireType
  <2>2. PICK f \in {fin[Other(p)], TRUE} : fin' = [fin EXCEPT ![Other(p)] = f]
    BY <1>2
  <2>3. f \in BOOLEAN
    BY <2>1, <2>2
  <2> QED BY <1>2, <2>2, <2>3 DEF WireType, Reset
<1>3. CASE fin' = [fin EXCEPT ![Other(p)] = TRUE] /\ UNCHANGED rst
  BY <1>3 DEF WireType
<1> QED BY <1>1, <1>2, <1>3 DEF Shut

LEMMA LeaveType ==
    ASSUME WireType, NEW p \in Ends, NEW rest \in Seq(Items), NEW last,
           Leave(p, rest, last)
    PROVE  WireType'
<1>1. <<>> \in Seq(Items)
  OBVIOUS
<1>2. wire' \in [Ends -> Seq(Items)]
  BY <1>1 DEF WireType, Leave
<1>3. fin' \in [Ends -> BOOLEAN] /\ rst' \in [Ends -> Reset]
  <2>1. CASE last
    BY <2>1, ShutType DEF Leave
  <2>2. CASE ~last
    BY <2>2 DEF Leave, WireType
  <2> QED BY <2>1, <2>2
<1> QED BY <1>2, <1>3 DEF WireType

LEMMA TypeInit == Init => TypeOK
<1> SUFFICES ASSUME Init PROVE TypeOK
  OBVIOUS
<1>1. <<>> \in Seq(Items) /\ <<>> \in Seq({"key", "ctrl-D"})
  OBVIOUS
<1>2. WireType
  BY <1>1 DEF Init, TcpInit, WireType, Reset
<1>3. todo \in [Ends -> SUBSET Files]
  BY DEF Init
<1>4. sent \in 0..FileLen
  BY CopyAssumption DEF Init
<1> QED BY <1>1, <1>2, <1>3, <1>4 DEF Init, TypeOK, WireType, Items, Reset, Files

\* What most actions leave alone.
LEMMA TypeFrom ==
    ASSUME TypeOK, WireType', todo' \in [Ends -> SUBSET Files],
           client' \in {"start", "loop", "file", "sent", "ok", "failed"},
           parent' \in {"header", "loop", "waits", "gone"},
           kid' \in {"none", "login", "open", "spin", "receive"} \cup Ended,
           flag' \in BOOLEAN, go' \in BOOLEAN, whole' \in BOOLEAN,
           tty' \in Seq({"key", "ctrl-D"}),
           typed' \in Nat, out' \in Nat, made' \in Nat,
           sent' \in 0..FileLen, taken' \in Nat, strays' \in Nat
    PROVE  TypeOK'
  BY DEF TypeOK, WireType, Items, Reset, Files

LEMMA ClientFailsType ==
    ASSUME TypeOK, ClientFails, tty' \in Seq({"key", "ctrl-D"})
    PROVE  TypeOK'
<1>1. WireType'
  BY TypeParts, LeaveType, EndsFacts DEF ClientFails, WireType
<1>2. todo' \in [Ends -> SUBSET Files]
  BY TypeParts DEF ClientFails
<1> QED BY <1>1, <1>2, TypeFrom DEF ClientFails, TypeOK, login, file

LEMMA ParentExitsType ==
    ASSUME TypeOK, NEW rest \in Seq(Items), ParentExits(rest)
    PROVE  TypeOK'
<1>1. WireType'
  BY TypeParts, LeaveType, EndsFacts DEF ParentExits
<1>2. todo' \in [Ends -> SUBSET Files]
  BY TypeParts DEF ParentExits
<1> QED BY <1>1, <1>2, TypeFrom DEF ParentExits, TypeOK, user, login, file

LEMMA KidExitsType ==
    ASSUME TypeOK, NEW how \in Ended, NEW rest \in Seq(Items),
           KidExits(how, rest), taken' \in Nat, strays' \in Nat
    PROVE  TypeOK'
<1>1. WireType'
  BY TypeParts, LeaveType, EndsFacts DEF KidExits
<1>2. todo' \in [Ends -> SUBSET Files]
  BY TypeParts DEF KidExits, loops
<1> QED BY <1>1, <1>2, TypeFrom DEF KidExits, TypeOK, loops, user, login

-----------------------------------------------------------------------------
(* Every action keeps the types.                                            *)

LEMMA SameWire ==
    ASSUME TypeOK, UNCHANGED tcp
    PROVE  WireType'
  BY TypeParts DEF tcp, WireType

LEMMA SameTodo ==
    ASSUME TypeOK, UNCHANGED todo
    PROVE  todo' \in [Ends -> SUBSET Files]
  BY TypeParts

LEMMA LessTodo ==
    ASSUME TypeOK, NEW p \in Ends, NEW d, Served(p, d)
    PROVE  todo' \in [Ends -> SUBSET Files]
  BY TypeParts DEF Served

LEMMA NothingType == <<>> \in Seq(Items)
  OBVIOUS

\* What a read takes away.
LEMMA ReadType ==
    ASSUME TypeOK, NEW p \in Ends, NEW n \in 0..Len(wire[p]),
           wire' = [wire EXCEPT ![p] = Rest(p, n)], UNCHANGED <<fin, rst>>
    PROVE  WireType'
<1>1. WireType
  BY TypeParts
<1>2. Rest(p, n) \in Seq(Items)
  BY <1>1, RestType
<1> QED BY <1>1, <1>2 DEF WireType

LEMMA WireIsSeq ==
    ASSUME TypeOK, NEW p \in Ends
    PROVE  /\ wire[p] \in Seq(Items)
           /\ Len(wire[p]) \in Nat
  BY TypeParts DEF WireType

LEMMA ClientTypes ==
    ASSUME TypeOK, ClientStep
    PROVE  TypeOK'
<1> USE EndsFacts
<1>1. CASE SendHeader
  <2>1. Repeat("head", HeadLen) \in Seq(Items)
    BY RepeatFacts, CopyAssumption DEF Items
  <2>2. WireType'
    BY <1>1, <2>1, TypeParts, SendType DEF SendHeader
  <2> QED BY <1>1, <2>2, SameTodo, TypeFrom DEF SendHeader, TypeOK, loops, user, login, file
<1>2. CASE ClientPoll
  <2>1. todo' \in [Ends -> SUBSET Files]
    <3>1. ((IF Readable("client") THEN {"socket"} ELSE {})
              \cup (IF tty # <<>> THEN {"tty"} ELSE {})) \in SUBSET Files
      BY DEF Files
    <3> QED BY <1>2, <3>1, TypeParts DEF ClientPoll
  <2> QED BY <1>2, <2>1, SameWire, TypeFrom DEF ClientPoll, TypeOK, user, login, file
<1>3. CASE ClientRecv
  <2>1. PICK n \in 1..Len(wire["client"]) :
            /\ wire' = [wire EXCEPT !["client"] = Rest("client", n)]
            /\ IF IsGo(SubSeq(wire["client"], 1, n))
               THEN /\ client' = "file"
                    /\ todo' = [todo EXCEPT !["client"] = {}]
               ELSE /\ Served("client", "socket")
                    /\ UNCHANGED client
    BY <1>3 DEF ClientRecv
  <2>2. n \in 0..Len(wire["client"])
    BY WireIsSeq
  <2>3. WireType'
    BY <1>3, <2>1, <2>2, ReadType DEF ClientRecv
  <2>4. todo' \in [Ends -> SUBSET Files]
    BY <2>1, TypeParts, LessTodo
  <2>5. client' \in {"start", "loop", "file", "sent", "ok", "failed"}
    BY <2>1 DEF TypeOK
  <2>6. UNCHANGED <<parent, kid, flag, go, whole, user, login, file>>
    BY <1>3 DEF ClientRecv
  <2> QED BY <2>3, <2>4, <2>5, <2>6, TypeFrom DEF TypeOK, user, login, file
<1>4. CASE ClientEof
  BY <1>4, ClientFailsType DEF ClientEof, TypeOK
<1>5. CASE ClientKeys
  <2>1. Repeat("key", Len(tty)) \in Seq(Items)
    BY RepeatFacts DEF Items, TypeOK
  <2>2. WireType'
    BY <1>5, <2>1, TypeParts, SendType DEF ClientKeys
  <2>3. todo' \in [Ends -> SUBSET Files]
    BY <1>5, LessTodo DEF ClientKeys
  <2>4. tty' \in Seq({"key", "ctrl-D"})
    BY <1>5 DEF ClientKeys
  <2> QED BY <1>5, <2>2, <2>3, <2>4, TypeFrom DEF ClientKeys, TypeOK, login, file
<1>6. CASE ClientLeaves
  <2>1. tty' \in Seq({"key", "ctrl-D"})
    BY <1>6 DEF ClientLeaves
  <2> QED BY <1>6, <2>1, ClientFailsType DEF ClientLeaves
<1>7. CASE ClientPipe
  BY <1>7, ClientFailsType DEF ClientPipe, TypeOK
<1>8. CASE ClientSends
  <2>1. NextChunk \in Nat /\ sent + NextChunk \in 0..FileLen
    BY CopyAssumption DEF NextChunk, TypeOK
  <2>2. Repeat("byte", NextChunk) \in Seq(Items)
    BY <2>1, RepeatFacts DEF Items
  <2>3. WireType'
    BY <1>8, <2>2, TypeParts, SendType DEF ClientSends
  <2>4. sent' \in 0..FileLen /\ client' \in {"file", "sent"}
    BY <1>8, <2>1 DEF ClientSends
  <2>5. UNCHANGED todo
    BY <1>8 DEF ClientSends, loops
  <2> QED BY <1>8, <2>3, <2>4, <2>5, SameTodo, TypeFrom DEF ClientSends, TypeOK, loops, user, login
<1>9. CASE ClientSendFails
  BY <1>9, ClientFailsType DEF ClientSendFails, TypeOK
<1>10. CASE ClientDone
  <2>1. WireType'
    BY <1>10, TypeParts, WireIsSeq, LeaveType DEF ClientDone
  <2> QED BY <1>10, <2>1, SameTodo, TypeFrom DEF ClientDone, TypeOK, loops, user, login, file
<1> QED BY <1>1, <1>2, <1>3, <1>4, <1>5, <1>6, <1>7, <1>8, <1>9, <1>10 DEF ClientStep

LEMMA ParentTypes ==
    ASSUME TypeOK, ParentStep
    PROVE  TypeOK'
<1> USE EndsFacts, NothingType
<1>1. CASE RecvHeader
  <2>1. PICK n \in 0..HeadLen :
            /\ n <= Len(wire["server"])
            /\ whole' = (n = HeadLen)
            /\ wire' = [wire EXCEPT !["server"] = Rest("server", n)]
    BY <1>1 DEF RecvHeader
  <2>2. n \in 0..Len(wire["server"])
    BY <2>1, WireIsSeq, CopyAssumption
  <2>3. WireType'
    BY <1>1, <2>1, <2>2, ReadType DEF RecvHeader
  <2>4. whole' \in BOOLEAN
    BY <2>1
  <2>5. UNCHANGED todo
    BY <1>1 DEF RecvHeader
  <2>6. /\ UNCHANGED <<client, flag, go, user, login, file>>
        /\ parent' = "loop" /\ kid' = "login"
    BY <1>1 DEF RecvHeader
  <2> QED BY <2>3, <2>4, <2>5, <2>6, SameTodo, TypeFrom DEF TypeOK, user, login, file
<1>2. CASE RecvHeaderFails
  BY <1>2, ParentExitsType DEF RecvHeaderFails
<1>3. CASE ParentPoll
  <2>1. todo' \in [Ends -> SUBSET Files]
    <3>1. ((IF Readable("server") THEN {"socket"} ELSE {})
              \cup (IF out > 0 /\ kid \notin Ended THEN {"pty"} ELSE {})) \in SUBSET Files
      BY DEF Files
    <3> QED BY <1>3, <3>1, TypeParts DEF ParentPoll
  <2> QED BY <1>3, <2>1, SameWire, TypeFrom DEF ParentPoll, TypeOK, user, login, file
<1>4. CASE ParentOutput
  <2>1. Repeat("out", out) \in Seq(Items)
    BY RepeatFacts DEF Items, TypeOK
  <2>2. WireType'
    BY <1>4, <2>1, TypeParts, SendType DEF ParentOutput
  <2>3. todo' \in [Ends -> SUBSET Files]
    BY <1>4, LessTodo DEF ParentOutput
  <2> QED BY <1>4, <2>2, <2>3, TypeFrom DEF ParentOutput, TypeOK, user, file
<1>5. CASE ParentPipe
  BY <1>5, WireIsSeq, ParentExitsType DEF ParentPipe
<1>6. CASE ParentRecv
  <2>1. PICK n \in 1..Len(wire["server"]) :
            wire' = [wire EXCEPT !["server"] = Rest("server", n)]
    BY <1>6 DEF ParentRecv
  <2>2. n \in 0..Len(wire["server"])
    BY WireIsSeq
  <2>3. WireType'
    BY <1>6, <2>1, <2>2, ReadType DEF ParentRecv
  <2>4. todo' \in [Ends -> SUBSET Files]
    BY <1>6, LessTodo DEF ParentRecv
  <2>5. UNCHANGED <<client, parent, kid, flag, go, whole, user, login, file>>
    BY <1>6 DEF ParentRecv
  <2> QED BY <2>3, <2>4, <2>5, TypeFrom DEF TypeOK, user, login, file
<1>7. CASE ParentRecvLate
  <2>1. PICK n \in 1..Len(wire["server"]) : ParentExits(Rest("server", n))
    BY <1>7 DEF ParentRecvLate
  <2>2. n \in 0..Len(wire["server"])
    BY WireIsSeq
  <2>3. Rest("server", n) \in Seq(Items)
    BY <2>2, TypeParts, RestType
  <2> QED BY <2>1, <2>3, ParentExitsType
<1>8. CASE ParentEof
  <2>1. WireType'
    BY <1>8, TypeParts, LeaveType DEF ParentEof
  <2>2. todo' \in [Ends -> SUBSET Files]
    BY <1>8, TypeParts DEF ParentEof
  <2>3. kid' \in {"none", "login", "open", "spin", "receive"} \cup Ended
    BY <1>8 DEF ParentEof, TypeOK, Ended
  <2> QED BY <1>8, <2>1, <2>2, <2>3, TypeFrom DEF ParentEof, TypeOK, user, login, file
<1>9. CASE ParentCrash
  BY <1>9, ParentExitsType DEF ParentCrash
<1>10. CASE ParentLeaves
  <2>1. UNCHANGED todo
    BY <1>10 DEF ParentLeaves
  <2> QED BY <1>10, <2>1, SameTodo, SameWire, TypeFrom DEF ParentLeaves, TypeOK, user, login, file
<1>11. CASE ParentEnds
  BY <1>11, WireIsSeq, ParentExitsType DEF ParentEnds
<1> QED BY <1>1, <1>2, <1>3, <1>4, <1>5, <1>6, <1>7, <1>8, <1>9, <1>10, <1>11 DEF ParentStep

LEMMA KidTypes ==
    ASSUME TypeOK, KidStep
    PROVE  TypeOK'
<1> USE EndsFacts, NothingType
<1>0. "done" \in Ended /\ "cut" \in Ended /\ "failed" \in Ended
  BY DEF Ended
<1>1. CASE OpenFile
  <2>1. UNCHANGED todo
    BY <1>1 DEF OpenFile, loops
  <2> QED BY <1>1, <2>1, SameTodo, SameWire, TypeFrom DEF OpenFile, TypeOK, loops, user, login, file
<1>2. CASE OpenFails
  <2>1. UNCHANGED <<taken, strays>> /\ KidExits("failed", wire["server"])
    BY <1>2 DEF OpenFails
  <2> QED BY <2>1, <1>0, WireIsSeq, KidExitsType DEF TypeOK
<1>3. CASE StartReceiving
  <2>1. Repeat("go", HeadLen) \in Seq(Items)
    BY RepeatFacts, CopyAssumption DEF Items
  <2>2. WireType'
    BY <1>3, <2>1, TypeParts, SendType DEF StartReceiving
  <2>3. UNCHANGED todo
    BY <1>3 DEF StartReceiving, loops
  <2> QED BY <1>3, <2>2, <2>3, SameTodo, TypeFrom DEF StartReceiving, TypeOK, loops, user, login, file
<1>4. CASE StartPipe
  <2>1. UNCHANGED <<taken, strays>> /\ KidExits("failed", wire["server"])
    BY <1>4 DEF StartPipe
  <2> QED BY <2>1, <1>0, WireIsSeq, KidExitsType DEF TypeOK
<1>5. CASE RecvFile
  <2>1. PICK n \in 1..Len(wire["server"]), full \in BOOLEAN :
          /\ taken' = taken + Cardinality({i \in 1..n : wire["server"][i] = "byte"})
          /\ strays' = strays + (n - Cardinality({i \in 1..n : wire["server"][i] = "byte"}))
          /\ IF full THEN KidExits("done", Rest("server", n))
             ELSE /\ wire' = [wire EXCEPT !["server"] = Rest("server", n)]
                  /\ UNCHANGED <<client, parent, kid, loops, user, login, sent, fin, rst>>
    BY <1>5 DEF RecvFile
  <2>2. n \in Nat /\ n \in 0..Len(wire["server"])
    BY WireIsSeq
  <2>3. Cardinality({i \in 1..n : wire["server"][i] = "byte"}) \in 0..n
    <3>1. IsFiniteSet(1..n) /\ Cardinality(1..n) = n
      BY <2>2, FS_Interval
    <3>2. {i \in 1..n : wire["server"][i] = "byte"} \in SUBSET (1..n)
      OBVIOUS
    <3>3. /\ IsFiniteSet({i \in 1..n : wire["server"][i] = "byte"})
          /\ Cardinality({i \in 1..n : wire["server"][i] = "byte"}) <= Cardinality(1..n)
      BY <3>1, <3>2, FS_Subset
    <3>4. Cardinality({i \in 1..n : wire["server"][i] = "byte"}) \in Nat
      BY <3>3, FS_CardinalityType
    <3> QED BY <2>2, <3>1, <3>3, <3>4
  <2>4. taken' \in Nat /\ strays' \in Nat
    <3>1. taken \in Nat /\ strays \in Nat
      BY DEF TypeOK
    <3> QED BY <2>1, <2>2, <2>3, <3>1
  <2>5. Rest("server", n) \in Seq(Items)
    BY <2>2, TypeParts, RestType
  <2>6. CASE full
    BY <2>1, <2>4, <2>5, <2>6, <1>0, KidExitsType
  <2>7. CASE ~full
    <3>1. WireType'
      BY <2>1, <2>2, <2>7, ReadType
    <3>2. UNCHANGED todo
      BY <2>1, <2>7 DEF loops
    <3> QED BY <2>1, <2>4, <2>7, <3>1, <3>2, SameTodo, TypeFrom DEF TypeOK, loops, user, login
  <2> QED BY <2>6, <2>7
<1>6. CASE WriteFails
  <2>1. PICK n \in 1..Len(wire["server"]) : KidExits("failed", Rest("server", n))
    BY <1>6 DEF WriteFails
  <2>2. n \in 0..Len(wire["server"])
    BY WireIsSeq
  <2>3. Rest("server", n) \in Seq(Items)
    BY <2>2, TypeParts, RestType
  <2>4. taken' \in Nat /\ strays' \in Nat
    BY <1>6 DEF WriteFails, TypeOK
  <2> QED BY <2>1, <2>3, <2>4, <1>0, KidExitsType
<1>7. CASE RecvFileEof
  <2>1. UNCHANGED <<taken, strays>> /\ KidExits("cut", <<>>)
    BY <1>7 DEF RecvFileEof
  <2> QED BY <2>1, <1>0, KidExitsType DEF TypeOK
<1>8. CASE RecvFileFails
  <2>1. UNCHANGED <<taken, strays>> /\ KidExits("failed", <<>>)
    BY <1>8 DEF RecvFileFails
  <2> QED BY <2>1, <1>0, KidExitsType DEF TypeOK
<1> QED BY <1>1, <1>2, <1>3, <1>4, <1>5, <1>6, <1>7, <1>8 DEF KidStep

LEMMA OtherTypes ==
    ASSUME TypeOK, Surroundings \/ Network \/ UNCHANGED vars
    PROVE  TypeOK'
<1>1. CASE LoginWrites
  <2>1. UNCHANGED todo
    BY <1>1 DEF LoginWrites, loops
  <2>2. made' \in Nat /\ out' \in Nat
    BY <1>1 DEF LoginWrites, TypeOK
  <2> QED BY <1>1, <2>1, <2>2, SameTodo, SameWire, TypeFrom DEF LoginWrites, TypeOK, loops, user, file
<1>2. CASE LoginSucceeds
  <2>1. UNCHANGED todo
    BY <1>2 DEF LoginSucceeds
  <2> QED BY <1>2, <2>1, SameTodo, SameWire, TypeFrom DEF LoginSucceeds, TypeOK, user, login, file
<1>3. CASE LoginFails
  <2>1. UNCHANGED <<taken, strays>> /\ KidExits("failed", wire["server"])
    BY <1>3 DEF LoginFails
  <2>2. "failed" \in Ended
    BY DEF Ended
  <2> QED BY <2>1, <2>2, EndsFacts, WireIsSeq, KidExitsType DEF TypeOK
<1>4. CASE UserTypes
  <2>1. UNCHANGED todo
    BY <1>4 DEF UserTypes, loops
  <2>2. PICK k \in {"key", "ctrl-D"} : tty' = Append(tty, k)
    BY <1>4 DEF UserTypes
  <2>3. tty' \in Seq({"key", "ctrl-D"}) /\ typed' \in Nat
    BY <1>4, <2>2 DEF UserTypes, TypeOK
  <2> QED BY <1>4, <2>1, <2>3, SameTodo, SameWire, TypeFrom DEF UserTypes, TypeOK, loops, login, file
<1>5. CASE Network
  <2>1. PICK p \in Ends : RstArrives(p)
    BY <1>5 DEF Network
  <2>2. PICK n \in 0..Len(wire[p]) : wire' = [wire EXCEPT ![p] = SubSeq(@, 1, n)]
    BY <2>1 DEF RstArrives, Destroyed
  <2>3. SubSeq(wire[p], 1, n) \in Seq(Items)
    BY WireIsSeq, FirstPart
  <2>4. wire' \in [Ends -> Seq(Items)]
    BY <2>2, <2>3, TypeParts DEF WireType
  <2>5. fin' \in [Ends -> BOOLEAN] /\ rst' \in [Ends -> Reset]
    BY <2>1, TypeParts DEF RstArrives, Destroyed, WireType, Reset
  <2>6. WireType'
    BY <2>4, <2>5 DEF WireType
  <2>7. UNCHANGED todo
    BY <2>1 DEF RstArrives, loops
  <2> QED BY <2>1, <2>6, <2>7, SameTodo, TypeFrom DEF RstArrives, TypeOK, loops, user, login, file
<1>6. CASE UNCHANGED vars
  <2>1. UNCHANGED todo
    BY <1>6 DEF vars, loops
  <2> QED BY <1>6, <2>1, SameTodo, SameWire, TypeFrom DEF vars, TypeOK, loops, user, login, file
<1> QED BY <1>1, <1>2, <1>3, <1>4, <1>5, <1>6 DEF Surroundings

LEMMA TypeStep == TypeOK /\ [Next]_vars => TypeOK'
  BY ClientTypes, ParentTypes, KidTypes, OtherTypes DEF Next

\* Every variable keeps its type through ssh_copy_file, copy_server and the
\* process it forks, however long the file and the header are.
THEOREM TypeCorrect == Spec => []TypeOK
  BY TypeInit, TypeStep, PTL DEF Spec

-----------------------------------------------------------------------------
(* Steps that put nothing on the wires keep what the invariant says of them. *)

PartOf(t, s) ==
    \E k \in 0..Len(s) :
        /\ Len(t) <= Len(s) - k
        /\ \A i \in 1..Len(t) : t[i] = s[k + i]

NothingNew == \A q \in Ends : PartOf(wire'[q], wire[q])

LEMMA WholeIsPart ==
    ASSUME NEW s \in Seq(Items)
    PROVE  PartOf(s, s)
<1>1. 0 \in 0..Len(s) /\ Len(s) <= Len(s) - 0
  OBVIOUS
<1>2. \A i \in 1..Len(s) : s[i] = s[0 + i]
  OBVIOUS
<1> QED BY <1>1, <1>2 DEF PartOf

LEMMA NothingIsPart ==
    ASSUME NEW s \in Seq(Items)
    PROVE  PartOf(<<>>, s)
<1>1. 0 \in 0..Len(s) /\ Len(<<>>) <= Len(s) - 0
  OBVIOUS
<1>2. \A i \in 1..Len(<<>>) : <<>>[i] = s[0 + i]
  OBVIOUS
<1> QED BY <1>1, <1>2 DEF PartOf

LEMMA RestIsPart ==
    ASSUME TypeOK, NEW p \in Ends, NEW n \in 0..Len(wire[p])
    PROVE  PartOf(Rest(p, n), wire[p])
<1>1. wire[p] \in Seq(Items)
  BY WireIsSeq
<1>2. /\ Len(Rest(p, n)) = Len(wire[p]) - n
      /\ \A i \in 1..(Len(wire[p]) - n) : Rest(p, n)[i] = wire[p][n + i]
  BY <1>1, Behind DEF Rest
<1>3. Len(Rest(p, n)) <= Len(wire[p]) - n
  BY <1>1, <1>2
<1> QED BY <1>2, <1>3 DEF PartOf

LEMMA FirstIsPart ==
    ASSUME NEW s \in Seq(Items), NEW n \in 0..Len(s)
    PROVE  PartOf(SubSeq(s, 1, n), s)
<1>1. /\ Len(SubSeq(s, 1, n)) <= Len(s) - 0
      /\ \A i \in 1..Len(SubSeq(s, 1, n)) : SubSeq(s, 1, n)[i] = s[0 + i]
  BY FirstPart
<1>2. 0 \in 0..Len(s)
  OBVIOUS
<1> QED BY <1>1, <1>2 DEF PartOf

LEMMA SameAdds ==
    ASSUME TypeOK, UNCHANGED wire
    PROVE  NothingNew
  BY WireIsSeq, WholeIsPart DEF NothingNew

LEMMA LessAdds ==
    ASSUME TypeOK, NEW p \in Ends, NEW t, PartOf(t, wire[p]),
           wire' = [wire EXCEPT ![p] = t]
    PROVE  NothingNew
<1> SUFFICES ASSUME NEW q \in Ends PROVE PartOf(wire'[q], wire[q])
  BY DEF NothingNew
<1>1. wire \in [Ends -> Seq(Items)]
  BY TypeParts DEF WireType
<1>2. CASE q = p
  BY <1>1, <1>2
<1>3. CASE q # p
  BY <1>1, <1>3, WholeIsPart
<1> QED BY <1>2, <1>3

LEMMA LeaveAdds ==
    ASSUME TypeOK, NEW p \in Ends, NEW rest, PartOf(rest, wire[p]), NEW last,
           Leave(p, rest, last)
    PROVE  NothingNew
<1>1. PartOf(<<>>, wire[p])
  BY WireIsSeq, NothingIsPart
<1> QED BY <1>1, LessAdds DEF Leave

LEMMA StillOnWire ==
    ASSUME TypeOK, NothingNew, NEW q \in Ends, NEW x, OnWire(q, x)'
    PROVE  OnWire(q, x)
<1>1. PICK k \in 0..Len(wire[q]) :
          /\ Len(wire'[q]) <= Len(wire[q]) - k
          /\ \A i \in 1..Len(wire'[q]) : wire'[q][i] = wire[q][k + i]
  BY DEF NothingNew, PartOf
<1>2. PICK i \in 1..Len(wire'[q]) : wire'[q][i] = x
  BY DEF OnWire
<1>3. wire[q][k + i] = x
  BY <1>1, <1>2
<1>4. k + i \in 1..Len(wire[q])
  BY <1>1, <1>2, WireIsSeq
<1> QED BY <1>3, <1>4 DEF OnWire

LEMMA StillLast ==
    ASSUME TypeOK, TypeOK', NothingNew, GoIsLast
    PROVE  GoIsLast'
<1>1. PICK k \in 0..Len(wire["client"]) :
          /\ Len(wire'["client"]) <= Len(wire["client"]) - k
          /\ \A i \in 1..Len(wire'["client"]) : wire'["client"][i] = wire["client"][k + i]
  BY EndsFacts DEF NothingNew, PartOf
<1>2. Len(wire["client"]) \in Nat /\ Len(wire'["client"]) \in Nat
  BY WireIsSeq, EndsFacts, TypeParts DEF TypeOK
<1> SUFFICES ASSUME NEW i \in 1..(Len(wire'["client"]) - 1),
                    wire'["client"][i] = "go"
             PROVE  wire'["client"][i + 1] = "go"
  BY DEF GoIsLast
<1>3. i \in 1..Len(wire'["client"]) /\ i + 1 \in 1..Len(wire'["client"])
  BY <1>2
<1>4. k + i \in 1..(Len(wire["client"]) - 1)
  BY <1>1, <1>2
<1>5. wire[ "client"][k + i] = "go"
  BY <1>1, <1>3
<1>6. wire["client"][(k + i) + 1] = "go"
  BY <1>4, <1>5 DEF GoIsLast
<1>7. (k + i) + 1 = k + (i + 1)
  BY <1>1, <1>2
<1> QED BY <1>1, <1>3, <1>6, <1>7

\* A step that puts nothing on the wires.
LEMMA IInvFrom ==
    ASSUME TypeOK, TypeOK', IInv, NothingNew,
           todo'["server"] # {} => parent' = "loop",
           go' => parent' \in {"waits", "gone"},
           go => go',
           client' \in {"file", "sent", "ok"} =>
               client \in {"file", "sent", "ok"} \/ go
    PROVE  IInv'
<1>1. ServesInLoop'
  BY DEF ServesInLoop
<1>2. ToldWhenLeft'
  BY DEF ToldWhenLeft
<1>3. GoWhenTold'
  <2>1. OnWire("client", "go")' => OnWire("client", "go")
    BY EndsFacts, StillOnWire
  <2>2. OnWire("server", "byte")' => OnWire("server", "byte")
    BY EndsFacts, StillOnWire
  <2> QED BY <2>1, <2>2 DEF IInv, GoWhenTold
<1>4. GoIsLast'
  BY StillLast DEF IInv
<1> QED BY <1>1, <1>2, <1>3, <1>4 DEF IInv

-----------------------------------------------------------------------------
(* Steps that send.                                                         *)

LEMMA SentOnWire ==
    ASSUME TypeOK, NEW p \in Ends, NEW x \in Items, NEW n \in Nat,
           Send(p, Repeat(x, n)),
           NEW q \in Ends, NEW y, OnWire(q, y)'
    PROVE  OnWire(q, y) \/ (q = Other(p) /\ y = x)
<1>1. CASE wire'[q] = wire[q]
  BY <1>1 DEF OnWire
<1>2. CASE wire'[q] # wire[q]
  <2>1. wire \in [Ends -> Seq(Items)]
    BY TypeParts DEF WireType
  <2>2. q = Other(p) /\ wire'[q] = wire[q] \o Repeat(x, n)
    BY <1>2, <2>1, EndsFacts DEF Send
  <2>3. PICK i \in 1..Len(wire'[q]) : wire'[q][i] = y
    BY DEF OnWire
  <2>4. CASE i <= Len(wire[q])
    <3>1. i \in 1..Len(wire[q])
      BY <2>3, <2>4, WireIsSeq
    <3>2. wire[q][i] = y
      BY <2>1, <2>2, <2>3, <3>1, RepeatFacts, Joined
    <3> QED BY <3>1, <3>2 DEF OnWire
  <2>5. CASE ~(i <= Len(wire[q]))
    <3>1. wire[q] \in Seq(Items) /\ Repeat(x, n) \in Seq(Items) /\ Len(Repeat(x, n)) = n
      BY <2>1, RepeatFacts
    <3>2. Len(wire'[q]) = Len(wire[q]) + n
      <4>1. Len(wire[q] \o Repeat(x, n)) = Len(wire[q]) + Len(Repeat(x, n))
        BY <3>1, Joined
      <4> QED BY <2>2, <3>1, <4>1
    <3>3. i \in (Len(wire[q]) + 1)..(Len(wire[q]) + n)
      BY <2>3, <2>5, <3>1, <3>2
    <3>4. i - Len(wire[q]) \in 1..n
      BY <3>1, <3>3
    <3>5. wire'[q][i] = Repeat(x, n)[i - Len(wire[q])]
      BY <2>2, <3>1, <3>3, Joined
    <3>6. wire'[q][i] = x
      BY <3>4, <3>5, RepeatFacts
    <3> QED BY <2>2, <2>3, <3>6
  <2> QED BY <2>4, <2>5
<1> QED BY <1>1, <1>2

\* What is appended may be the go signal, or the login's text while no go
\* signal is on its way.
LEMMA SentLast ==
    ASSUME TypeOK, GoIsLast, NEW p \in Ends, NEW x \in Items, NEW n \in Nat,
           Send(p, Repeat(x, n)),
           p = "server" => x = "go" \/ ~OnWire("client", "go")
    PROVE  GoIsLast'
<1>1. CASE wire'["client"] = wire["client"]
  BY <1>1 DEF GoIsLast
<1>2. CASE wire'["client"] # wire["client"]
  <2>1. wire \in [Ends -> Seq(Items)] /\ wire["client"] \in Seq(Items)
    BY TypeParts, EndsFacts DEF WireType
  <2>2. p = "server" /\ wire'["client"] = wire["client"] \o Repeat(x, n)
    BY <1>2, <2>1, EndsFacts DEF Send, Ends
  <2>3. Repeat(x, n) \in Seq(Items) /\ Len(Repeat(x, n)) = n
    BY RepeatFacts
  <2>4. Len(wire'["client"]) = Len(wire["client"]) + n
    <3>1. Len(wire["client"] \o Repeat(x, n)) = Len(wire["client"]) + Len(Repeat(x, n))
      BY <2>1, <2>3, Joined
    <3> QED BY <2>2, <2>3, <3>1
  <2> SUFFICES ASSUME NEW i \in 1..(Len(wire'["client"]) - 1),
                      wire'["client"][i] = "go"
               PROVE  wire'["client"][i + 1] = "go"
    BY DEF GoIsLast
  <2>5. Len(wire["client"]) \in Nat
    BY <2>1
  <2>6. \A j \in 1..Len(wire["client"]) : wire'["client"][j] = wire["client"][j]
    BY <2>1, <2>2, <2>3, Joined
  <2>7. \A j \in (Len(wire["client"]) + 1)..(Len(wire["client"]) + n) :
            wire'["client"][j] = x
    <3> SUFFICES ASSUME NEW j \in (Len(wire["client"]) + 1)..(Len(wire["client"]) + n)
                 PROVE  wire'["client"][j] = x
      OBVIOUS
    <3>1. j - Len(wire["client"]) \in 1..n
      BY <2>5
    <3>2. wire'["client"][j] = Repeat(x, n)[j - Len(wire["client"])]
      BY <2>1, <2>2, <2>3, Joined
    <3> QED BY <3>1, <3>2, RepeatFacts
  <2>8. CASE i + 1 <= Len(wire["client"])
    <3>1. i \in 1..(Len(wire["client"]) - 1) /\ i \in 1..Len(wire["client"])
      BY <2>4, <2>5, <2>8
    <3>2. i + 1 \in 1..Len(wire["client"])
      BY <2>4, <2>5, <2>8
    <3>3. wire["client"][i] = "go"
      BY <2>6, <3>1
    <3>4. wire["client"][i + 1] = "go"
      BY <3>1, <3>3 DEF GoIsLast
    <3> QED BY <2>6, <3>2, <3>4
  <2>9. CASE ~(i + 1 <= Len(wire["client"]))
    <3>1. i + 1 \in (Len(wire["client"]) + 1)..(Len(wire["client"]) + n)
      BY <2>4, <2>5, <2>9
    <3>2. wire'["client"][i + 1] = x
      BY <2>7, <3>1
    <3>3. CASE i = Len(wire["client"])
      <4>1. i \in 1..Len(wire["client"])
        BY <2>5, <3>3
      <4>2. wire["client"][i] = "go"
        BY <2>6, <4>1
      <4>3. OnWire("client", "go")
        BY <4>1, <4>2 DEF OnWire
      <4> QED BY <2>2, <3>2, <4>3
    <3>4. CASE i # Len(wire["client"])
      <4>1. i \in (Len(wire["client"]) + 1)..(Len(wire["client"]) + n)
        BY <2>4, <2>5, <2>9, <3>4
      <4> QED BY <2>7, <3>2, <4>1
    <3> QED BY <3>3, <3>4
  <2> QED BY <2>8, <2>9
<1> QED BY <1>1, <1>2

-----------------------------------------------------------------------------
(* The invariant.                                                           *)

LEMMA IInvInit == Init => IInv
  BY EndsFacts DEF Init, TcpInit, IInv, ServesInLoop, ToldWhenLeft, GoWhenTold, GoIsLast, OnWire

LEMMA ClientFailsKeeps ==
    ASSUME TypeOK, TypeOK', IInv, ClientFails
    PROVE  IInv'
<1>1. NothingNew
  BY EndsFacts, WireIsSeq, WholeIsPart, LeaveAdds DEF ClientFails
<1>2. todo'["server"] = todo["server"]
  BY EndsFacts, TypeParts DEF ClientFails
<1> QED BY <1>1, <1>2, IInvFrom DEF ClientFails, IInv, ServesInLoop, ToldWhenLeft

LEMMA ParentExitsKeeps ==
    ASSUME TypeOK, TypeOK', IInv, NEW rest, PartOf(rest, wire["server"]),
           ParentExits(rest)
    PROVE  IInv'
<1>1. NothingNew
  BY EndsFacts, LeaveAdds DEF ParentExits
<1>2. todo'["server"] = {}
  BY EndsFacts, TypeParts DEF ParentExits
<1> QED BY <1>1, <1>2, IInvFrom DEF ParentExits

LEMMA KidExitsKeeps ==
    ASSUME TypeOK, TypeOK', IInv, NEW how, NEW rest, PartOf(rest, wire["server"]),
           KidExits(how, rest)
    PROVE  IInv'
<1>1. NothingNew
  BY EndsFacts, LeaveAdds DEF KidExits
<1> QED BY <1>1, IInvFrom DEF KidExits, loops, IInv, ServesInLoop, ToldWhenLeft

\* Nothing but todo is known to be less.
LEMMA LessToServe ==
    ASSUME TypeOK, NEW p \in Ends, NEW d, Served(p, d), todo'["server"] # {}
    PROVE  todo["server"] # {}
  BY EndsFacts, TypeParts DEF Served

\* What the client takes for the go signal was sent as one.
LEMMA GoWasSent ==
    ASSUME TypeOK, NEW n \in 1..Len(wire["client"]),
           IsGo(SubSeq(wire["client"], 1, n))
    PROVE  OnWire("client", "go")
<1>1. wire["client"] \in Seq(Items) /\ n \in 0..Len(wire["client"])
  BY EndsFacts, WireIsSeq
<1>2. 1 \in 1..n /\ 1 \in 1..Len(wire["client"])
  BY <1>1
<1>3. SubSeq(wire["client"], 1, n)[1] = wire["client"][1]
  BY <1>1, <1>2, FirstPart
<1>4. SubSeq(wire["client"], 1, n)[1] = "go"
  <2>1. SubSeq(wire["client"], 1, n) = Repeat("go", HeadLen)
    BY DEF IsGo
  <2>2. 1 \in 1..HeadLen
    BY CopyAssumption
  <2> QED BY <2>1, <2>2 DEF Repeat
<1> QED BY <1>2, <1>3, <1>4 DEF OnWire

LEMMA ClientKeeps ==
    ASSUME TypeOK, TypeOK', IInv, ClientStep
    PROVE  IInv'
<1> USE EndsFacts
<1>1. CASE SendHeader
  <2>1. Send("client", Repeat("head", HeadLen)) /\ "head" \in Items /\ HeadLen \in Nat
    BY <1>1, CopyAssumption DEF SendHeader, Items
  <2>2. GoIsLast'
    BY <2>1, SentLast DEF IInv
  <2>3. OnWire("client", "go")' => OnWire("client", "go")
    BY <2>1, SentOnWire
  <2>4. OnWire("server", "byte")' => OnWire("server", "byte")
    BY <2>1, SentOnWire
  <2>5. ServesInLoop' /\ ToldWhenLeft'
    BY <1>1 DEF SendHeader, loops, IInv, ServesInLoop, ToldWhenLeft
  <2>6. GoWhenTold'
    BY <1>1, <2>3, <2>4 DEF SendHeader, loops, IInv, GoWhenTold
  <2> QED BY <2>2, <2>5, <2>6 DEF IInv
<1>2. CASE ClientPoll
  <2>1. NothingNew
    BY <1>2, SameAdds DEF ClientPoll, tcp
  <2>2. todo'["server"] = todo["server"]
    BY <1>2, TypeParts DEF ClientPoll
  <2> QED BY <1>2, <2>1, <2>2, IInvFrom DEF ClientPoll, IInv, ServesInLoop, ToldWhenLeft
<1>3. CASE ClientRecv
  <2>1. PICK n \in 1..Len(wire["client"]) :
            /\ wire' = [wire EXCEPT !["client"] = Rest("client", n)]
            /\ IF IsGo(SubSeq(wire["client"], 1, n))
               THEN /\ client' = "file"
                    /\ todo' = [todo EXCEPT !["client"] = {}]
               ELSE /\ Served("client", "socket")
                    /\ UNCHANGED client
    BY <1>3 DEF ClientRecv
  <2>2. NothingNew
    <3>1. n \in 0..Len(wire["client"])
      BY WireIsSeq
    <3>2. PartOf(Rest("client", n), wire["client"])
      BY <3>1, RestIsPart
    <3> QED BY <2>1, <3>2, LessAdds
  <2>3. todo'["server"] = todo["server"]
    BY <2>1, TypeParts DEF Served
  <2>4. client' \in {"file", "sent", "ok"} => client \in {"file", "sent", "ok"} \/ go
    <3>1. CASE IsGo(SubSeq(wire["client"], 1, n))
      BY <3>1, GoWasSent DEF IInv, GoWhenTold
    <3>2. CASE ~IsGo(SubSeq(wire["client"], 1, n))
      BY <2>1, <3>2
    <3> QED BY <3>1, <3>2
  <2> QED BY <1>3, <2>2, <2>3, <2>4, IInvFrom DEF ClientRecv, IInv, ServesInLoop, ToldWhenLeft
<1>4. CASE ClientEof
  BY <1>4, ClientFailsKeeps DEF ClientEof
<1>5. CASE ClientKeys
  <2>1. Send("client", Repeat("key", Len(tty))) /\ "key" \in Items /\ Len(tty) \in Nat
    BY <1>5 DEF ClientKeys, Items, TypeOK
  <2>2. GoIsLast'
    BY <2>1, SentLast DEF IInv
  <2>3. OnWire("client", "go")' => OnWire("client", "go")
    BY <2>1, SentOnWire
  <2>4. OnWire("server", "byte")' => OnWire("server", "byte")
    BY <2>1, SentOnWire
  <2>5. todo'["server"] = todo["server"]
    BY <1>5, TypeParts DEF ClientKeys, Served
  <2>6. ServesInLoop' /\ ToldWhenLeft'
    BY <1>5, <2>5 DEF ClientKeys, IInv, ServesInLoop, ToldWhenLeft
  <2>7. GoWhenTold'
    BY <1>5, <2>3, <2>4 DEF ClientKeys, IInv, GoWhenTold
  <2> QED BY <2>2, <2>6, <2>7 DEF IInv
<1>6. CASE ClientLeaves
  BY <1>6, ClientFailsKeeps DEF ClientLeaves
<1>7. CASE ClientPipe
  BY <1>7, ClientFailsKeeps DEF ClientPipe
<1>8. CASE ClientSends
  <2>1. Send("client", Repeat("byte", NextChunk)) /\ "byte" \in Items /\ NextChunk \in Nat
    BY <1>8, CopyAssumption DEF ClientSends, Items, NextChunk, TypeOK
  <2>2. go /\ go'
    BY <1>8 DEF ClientSends, IInv, GoWhenTold, loops
  <2>3. GoIsLast'
    BY <2>1, SentLast DEF IInv
  <2>4. ServesInLoop' /\ ToldWhenLeft'
    BY <1>8 DEF ClientSends, loops, IInv, ServesInLoop, ToldWhenLeft
  <2> QED BY <2>2, <2>3, <2>4 DEF IInv, GoWhenTold
<1>9. CASE ClientSendFails
  BY <1>9, ClientFailsKeeps DEF ClientSendFails
<1>10. CASE ClientDone
  <2>1. NothingNew
    BY <1>10, WireIsSeq, WholeIsPart, LeaveAdds DEF ClientDone
  <2> QED BY <1>10, <2>1, IInvFrom DEF ClientDone, loops, IInv, ServesInLoop, ToldWhenLeft
<1> QED BY <1>1, <1>2, <1>3, <1>4, <1>5, <1>6, <1>7, <1>8, <1>9, <1>10 DEF ClientStep

LEMMA ParentKeeps ==
    ASSUME TypeOK, TypeOK', IInv, ParentStep
    PROVE  IInv'
<1> USE EndsFacts
<1>1. CASE RecvHeader
  <2>1. PICK n \in 0..HeadLen :
            /\ n <= Len(wire["server"])
            /\ wire' = [wire EXCEPT !["server"] = Rest("server", n)]
    BY <1>1 DEF RecvHeader
  <2>2. n \in 0..Len(wire["server"])
    BY <2>1, WireIsSeq, CopyAssumption
  <2>3. NothingNew
    BY <2>1, <2>2, RestIsPart, LessAdds
  <2>4. ~go /\ ~go' /\ todo'["server"] = {}
    BY <1>1 DEF RecvHeader, IInv, ServesInLoop, ToldWhenLeft
  <2> QED BY <1>1, <2>3, <2>4, IInvFrom DEF RecvHeader
<1>2. CASE RecvHeaderFails
  <2>1. PartOf(<<>>, wire["server"])
    BY WireIsSeq, NothingIsPart
  <2> QED BY <1>2, <2>1, ParentExitsKeeps DEF RecvHeaderFails
<1>3. CASE ParentPoll
  <2>1. NothingNew
    BY <1>3, SameAdds DEF ParentPoll, tcp
  <2> QED BY <1>3, <2>1, IInvFrom DEF ParentPoll, IInv, ToldWhenLeft
<1>4. CASE ParentOutput
  <2>1. Send("server", Repeat("out", out)) /\ "out" \in Items /\ out \in Nat
    BY <1>4 DEF ParentOutput, Items, TypeOK
  <2>2. parent = "loop" /\ parent' = "loop" /\ ~go /\ ~go'
    BY <1>4 DEF ParentOutput, IInv, ServesInLoop, ToldWhenLeft
  <2>3. ~OnWire("client", "go") /\ ~OnWire("server", "byte")
        /\ client \notin {"file", "sent", "ok"}
    BY <2>2 DEF IInv, GoWhenTold
  <2>4. GoIsLast'
    BY <2>1, <2>3, SentLast DEF IInv
  <2>5. ~OnWire("client", "go")'
    BY <2>1, <2>3, SentOnWire
  <2>6. ~OnWire("server", "byte")'
    BY <2>1, <2>3, SentOnWire
  <2>7. ServesInLoop' /\ ToldWhenLeft'
    BY <2>2 DEF ServesInLoop, ToldWhenLeft
  <2>8. GoWhenTold'
    BY <1>4, <2>3, <2>5, <2>6 DEF ParentOutput, GoWhenTold
  <2> QED BY <2>4, <2>7, <2>8 DEF IInv
<1>5. CASE ParentPipe
  BY <1>5, WireIsSeq, WholeIsPart, ParentExitsKeeps DEF ParentPipe
<1>6. CASE ParentRecv
  <2>1. PICK n \in 1..Len(wire["server"]) :
            wire' = [wire EXCEPT !["server"] = Rest("server", n)]
    BY <1>6 DEF ParentRecv
  <2>2. n \in 0..Len(wire["server"])
    BY WireIsSeq
  <2>3. NothingNew
    BY <2>1, <2>2, RestIsPart, LessAdds
  <2>4. todo'["server"] # {} => todo["server"] # {}
    BY <1>6, LessToServe DEF ParentRecv
  <2> QED BY <1>6, <2>3, <2>4, IInvFrom DEF ParentRecv, IInv, ServesInLoop, ToldWhenLeft
<1>7. CASE ParentRecvLate
  <2>1. PICK n \in 1..Len(wire["server"]) : ParentExits(Rest("server", n))
    BY <1>7 DEF ParentRecvLate
  <2>2. n \in 0..Len(wire["server"])
    BY WireIsSeq
  <2>3. PartOf(Rest("server", n), wire["server"])
    BY <2>2, RestIsPart
  <2> QED BY <2>1, <2>3, ParentExitsKeeps
<1>8. CASE ParentEof
  <2>1. PartOf(<<>>, wire["server"])
    BY WireIsSeq, NothingIsPart
  <2>2. NothingNew
    BY <1>8, <2>1, LeaveAdds DEF ParentEof
  <2>3. todo'["server"] = {}
    BY <1>8, TypeParts DEF ParentEof
  <2> QED BY <1>8, <2>2, <2>3, IInvFrom DEF ParentEof
<1>9. CASE ParentCrash
  <2>1. PartOf(<<>>, wire["server"])
    BY WireIsSeq, NothingIsPart
  <2> QED BY <1>9, <2>1, ParentExitsKeeps DEF ParentCrash
<1>10. CASE ParentLeaves
  <2>1. NothingNew
    BY <1>10, SameAdds DEF ParentLeaves, tcp
  <2> QED BY <1>10, <2>1, IInvFrom DEF ParentLeaves
<1>11. CASE ParentEnds
  BY <1>11, WireIsSeq, WholeIsPart, ParentExitsKeeps DEF ParentEnds
<1> QED BY <1>1, <1>2, <1>3, <1>4, <1>5, <1>6, <1>7, <1>8, <1>9, <1>10, <1>11 DEF ParentStep

LEMMA KidKeeps ==
    ASSUME TypeOK, TypeOK', IInv, KidStep
    PROVE  IInv'
<1> USE EndsFacts
<1>0. PartOf(wire["server"], wire["server"]) /\ PartOf(<<>>, wire["server"])
  BY WireIsSeq, WholeIsPart, NothingIsPart
<1>r. ASSUME NEW n \in 1..Len(wire["server"])
      PROVE  PartOf(Rest("server", n), wire["server"])
  <2>1. n \in 0..Len(wire["server"])
    BY <1>r, WireIsSeq
  <2> QED BY <2>1, RestIsPart
<1>1. CASE OpenFile
  <2>1. NothingNew
    BY <1>1, SameAdds DEF OpenFile, tcp
  <2> QED BY <1>1, <2>1, IInvFrom DEF OpenFile, loops, IInv, ServesInLoop, ToldWhenLeft
<1>2. CASE OpenFails
  BY <1>2, <1>0, KidExitsKeeps DEF OpenFails
<1>3. CASE StartReceiving
  <2>1. Send("server", Repeat("go", HeadLen)) /\ "go" \in Items /\ HeadLen \in Nat
    BY <1>3, CopyAssumption DEF StartReceiving, Items
  <2>2. GoIsLast'
    BY <2>1, SentLast DEF IInv
  <2>3. ServesInLoop' /\ ToldWhenLeft' /\ GoWhenTold'
    BY <1>3 DEF StartReceiving, loops, IInv, ServesInLoop, ToldWhenLeft, GoWhenTold
  <2> QED BY <2>2, <2>3 DEF IInv
<1>4. CASE StartPipe
  BY <1>4, <1>0, KidExitsKeeps DEF StartPipe
<1>5. CASE RecvFile
  <2>1. PICK n \in 1..Len(wire["server"]), full \in BOOLEAN :
          IF full THEN KidExits("done", Rest("server", n))
          ELSE /\ wire' = [wire EXCEPT !["server"] = Rest("server", n)]
               /\ UNCHANGED <<client, parent, kid, loops, user, login, sent, fin, rst>>
    BY <1>5 DEF RecvFile
  <2>2. PartOf(Rest("server", n), wire["server"])
    BY <1>r
  <2>3. CASE full
    BY <2>1, <2>2, <2>3, KidExitsKeeps
  <2>4. CASE ~full
    <3>1. NothingNew
      BY <2>1, <2>2, <2>4, LessAdds
    <3> QED BY <2>1, <2>4, <3>1, IInvFrom DEF loops, IInv, ServesInLoop, ToldWhenLeft
  <2> QED BY <2>3, <2>4
<1>6. CASE WriteFails
  <2>1. PICK n \in 1..Len(wire["server"]) : KidExits("failed", Rest("server", n))
    BY <1>6 DEF WriteFails
  <2> QED BY <2>1, <1>r, KidExitsKeeps
<1>7. CASE RecvFileEof
  BY <1>7, <1>0, KidExitsKeeps DEF RecvFileEof
<1>8. CASE RecvFileFails
  BY <1>8, <1>0, KidExitsKeeps DEF RecvFileFails
<1> QED BY <1>1, <1>2, <1>3, <1>4, <1>5, <1>6, <1>7, <1>8 DEF KidStep

LEMMA OthersKeep ==
    ASSUME TypeOK, TypeOK', IInv, Surroundings \/ Network \/ UNCHANGED vars
    PROVE  IInv'
<1> USE EndsFacts
<1>1. CASE LoginWrites
  <2>1. NothingNew
    BY <1>1, SameAdds DEF LoginWrites, tcp
  <2> QED BY <1>1, <2>1, IInvFrom DEF LoginWrites, loops, IInv, ServesInLoop, ToldWhenLeft
<1>2. CASE LoginSucceeds
  <2>1. NothingNew
    BY <1>2, SameAdds DEF LoginSucceeds, tcp
  <2> QED BY <1>2, <2>1, IInvFrom DEF LoginSucceeds, IInv, ServesInLoop, ToldWhenLeft
<1>3. CASE LoginFails
  BY <1>3, WireIsSeq, WholeIsPart, KidExitsKeeps DEF LoginFails
<1>4. CASE UserTypes
  <2>1. NothingNew
    BY <1>4, SameAdds DEF UserTypes, tcp
  <2> QED BY <1>4, <2>1, IInvFrom DEF UserTypes, loops, IInv, ServesInLoop, ToldWhenLeft
<1>5. CASE Network
  <2>1. PICK p \in Ends : RstArrives(p)
    BY <1>5 DEF Network
  <2>2. PICK n \in 0..Len(wire[p]) : wire' = [wire EXCEPT ![p] = SubSeq(wire[p], 1, n)]
    BY <2>1 DEF RstArrives, Destroyed
  <2>3. NothingNew
    BY <2>2, WireIsSeq, FirstIsPart, LessAdds
  <2> QED BY <2>1, <2>3, IInvFrom DEF RstArrives, loops, IInv, ServesInLoop, ToldWhenLeft
<1>6. CASE UNCHANGED vars
  <2>1. NothingNew
    BY <1>6, SameAdds DEF vars, tcp
  <2> QED BY <1>6, <2>1, IInvFrom DEF vars, loops, IInv, ServesInLoop, ToldWhenLeft
<1> QED BY <1>1, <1>2, <1>3, <1>4, <1>5, <1>6 DEF Surroundings

LEMMA IInvStep == TypeOK /\ IInv /\ [Next]_vars => IInv'
<1> SUFFICES ASSUME TypeOK, IInv, [Next]_vars PROVE IInv'
  OBVIOUS
<1>1. TypeOK'
  BY TypeStep
<1> QED BY <1>1, ClientKeeps, ParentKeeps, KidKeeps, OthersKeep DEF Next

\* Who serves descriptors is in its loop, the kid is told only once the parent
\* has left it, and before that no go signal and no byte of the file exist.
THEOREM IInvAlways == Spec => []IInv
  BY TypeInit, TypeStep, IInvInit, IInvStep, PTL DEF Spec

\* copy_server's parent, which would type it into the login, never finds a
\* byte of the file on the connection that it shares with its child.
THEOREM FileSpared == Spec => []ParentSeesNoFile
<1>1. IInv => ParentSeesNoFile
  BY DEF IInv, ToldWhenLeft, GoWhenTold, ParentSeesNoFile
<1> QED BY <1>1, IInvAlways, PTL

\* The parent sends nothing more once its child has sent the go signal, so the
\* client leaves nothing unread that would reset the connection when it is done.
THEOREM GoEnds == Spec => []GoIsLast
<1>1. IInv => GoIsLast
  BY DEF IInv
<1> QED BY <1>1, IInvAlways, PTL

-----------------------------------------------------------------------------
(* A kid that waits is told: how the connection ends and is reset.          *)

StaysClosed == \A q \in Ends : Closed(q) => Closed(q)'

\* The four ways in which a step can touch the resets.
ResetKind ==
    \/ UNCHANGED rst
    \/ \E p \in Ends, c \in BOOLEAN : (c => Closed(Other(p))) /\ Returned(p, c)
    \/ \E p \in Ends : /\ ~Closed(p) /\ Closed(p)'
                       /\ rst' = [rst EXCEPT ![Other(p)] = "sent"]
    \/ \E p \in Ends : RstArrives(p)

Steady ==
    /\ StaysClosed
    /\ ResetKind
    /\ fin["server"] => fin'["server"]

LEMMA SteadyResets ==
    ASSUME TypeOK, ResetAfterClose, Steady
    PROVE  /\ ResetAfterClose'
           /\ Broken("server") => Broken("server")'
<1> USE EndsFacts DEF Broken
<1>0. rst \in [Ends -> Reset]
  BY TypeParts DEF WireType
<1>s. \A q \in Ends : rst[q] # "no" => Closed(Other(q))'
  BY DEF Steady, StaysClosed, ResetAfterClose
<1>f. ASSUME NEW q \in Ends, rst'[q] # "no" => Closed(Other(q))'
      PROVE  (rst[q] # "no" => Closed(Other(q)))'
  BY <1>f DEF Closed
<1>1. CASE UNCHANGED rst
  BY <1>s, <1>1, <1>f DEF ResetAfterClose
<1>2. ASSUME NEW p \in Ends, NEW c \in BOOLEAN,
             c => Closed(Other(p)), Returned(p, c)
      PROVE  /\ ResetAfterClose'
             /\ Broken("server") => Broken("server")'
  <2>1. rst' = rst \/ (rst' = [rst EXCEPT ![p] = "sent"] /\ Closed(Other(p)) /\ rst[p] = "no")
    BY <1>2 DEF Returned
  <2>2. Closed(Other(p)) => Closed(Other(p))'
    BY DEF Steady, StaysClosed
  <2>3. \A q \in Ends : rst'[q] # "no" => Closed(Other(q))'
    BY <1>0, <1>s, <2>1, <2>2
  <2> QED BY <1>0, <1>f, <2>1, <2>3 DEF ResetAfterClose
<1>3. ASSUME NEW p \in Ends, ~Closed(p), Closed(p)',
             rst' = [rst EXCEPT ![Other(p)] = "sent"]
      PROVE  /\ ResetAfterClose'
             /\ Broken("server") => Broken("server")'
  <2>1. Other(Other(p)) = p
    BY DEF Ends, Other
  <2>2. \A q \in Ends : rst'[q] # "no" => Closed(Other(q))'
    BY <1>0, <1>s, <1>3, <2>1
  <2>3. rst[Other(p)] = "no"
    BY <1>3, <2>1 DEF ResetAfterClose
  <2> QED BY <1>0, <1>3, <1>f, <2>2, <2>3 DEF ResetAfterClose
<1>4. ASSUME NEW p \in Ends, RstArrives(p)
      PROVE  /\ ResetAfterClose'
             /\ Broken("server") => Broken("server")'
  <2>1. rst' = [rst EXCEPT ![p] = "arrived"] /\ rst[p] = "sent"
    BY <1>4 DEF RstArrives, Destroyed
  <2>2. \A q \in Ends : rst'[q] # "no" => Closed(Other(q))'
    BY <1>0, <1>s, <2>1
  <2> QED BY <1>0, <1>f, <2>1, <2>2 DEF ResetAfterClose
<1> QED BY <1>1, <1>2, <1>3, <1>4 DEF Steady, ResetKind

\* An end that is left for good, or that one of two processes leaves.
LEMMA LeaveSteady ==
    ASSUME TypeOK, NEW p \in Ends, NEW rest, NEW last, Leave(p, rest, last),
           StaysClosed, ~Closed(p), last => Closed(p)'
    PROVE  Steady
<1> USE EndsFacts
<1>1. CASE ~last
  BY <1>1 DEF Leave, Steady, ResetKind
<1>2. CASE last
  <2>1. rst' = rst \/ rst' = [rst EXCEPT ![Other(p)] = "sent"]
    BY <1>2 DEF Leave, Shut
  <2>2. fin["server"] => fin'["server"]
    BY <1>2, TypeParts DEF Leave, Shut, WireType
  <2> QED BY <1>2, <2>1, <2>2 DEF Steady, ResetKind
<1> QED BY <1>1, <1>2

LEMMA SendSteady ==
    ASSUME NEW p \in Ends, NEW s, Send(p, s), StaysClosed
    PROVE  Steady
<1>1. Returned(p, Closed(Other(p)) /\ s # <<>>)
  BY DEF Send
<1>2. (Closed(Other(p)) /\ s # <<>>) \in BOOLEAN
  OBVIOUS
<1>3. ResetKind
  BY <1>1, <1>2 DEF ResetKind
<1> QED BY <1>3 DEF Steady, Send

LEMMA TcpSteady ==
    ASSUME UNCHANGED <<fin, rst>>, StaysClosed
    PROVE  Steady
  BY DEF Steady, ResetKind

LEMMA SendKeeps ==
    ASSUME TypeOK, NEW p \in Ends, NEW s \in Seq(Items), Send(p, s),
           wire["server"] # <<>>
    PROVE  wire'["server"] # <<>>
<1>0. wire["server"] \in Seq(Items) /\ wire \in [Ends -> Seq(Items)]
  BY EndsFacts, TypeParts DEF WireType
<1>1. CASE wire'["server"] = wire["server"]
  BY <1>1
<1>2. CASE wire'["server"] = wire["server"] \o s
  <2>1. Len(wire["server"] \o s) = Len(wire["server"]) + Len(s)
    BY <1>0, Joined
  <2>2. Len(wire["server"]) # 0 /\ Len(wire["server"]) \in Nat /\ Len(s) \in Nat
    BY <1>0
  <2> QED BY <1>2, <2>1, <2>2
<1> QED BY <1>0, <1>1, <1>2, EndsFacts DEF Send

-----------------------------------------------------------------------------
(* The steps.                                                               *)

\* What the client does leaves the server's processes alone.
Apart ==
    /\ Steady
    /\ UNCHANGED <<parent, kid, flag, go>>
    /\ todo'["server"] = todo["server"]
    /\ wire["server"] # <<>> => wire'["server"] # <<>>

LEMMA ClientFailsApart ==
    ASSUME TypeOK, client \notin {"ok", "failed"}, ClientFails
    PROVE  Apart /\ todo'["client"] = {}
<1> USE EndsFacts
<1>1. ~Closed("client") /\ Closed("client")' /\ (Closed("server") => Closed("server")')
  BY DEF ClientFails, Closed
<1>2. StaysClosed
  BY <1>1 DEF StaysClosed, Ends
<1>3. Leave("client", wire["client"], TRUE)
  BY DEF ClientFails
<1>4. Steady
  BY <1>1, <1>2, <1>3, LeaveSteady
<1>5. wire'["server"] = wire["server"]
  BY <1>3, TypeParts DEF Leave, WireType
<1>6. todo'["server"] = todo["server"] /\ todo'["client"] = {}
  BY TypeParts DEF ClientFails
<1> QED BY <1>4, <1>5, <1>6 DEF Apart, ClientFails

LEMMA ClientApart ==
    ASSUME TypeOK, ClientServesInLoop, ClientStep
    PROVE  Apart /\ ClientServesInLoop'
<1> USE EndsFacts
<1>t. todo \in [Ends -> SUBSET Files] /\ WireType
  BY TypeParts
<1>c. ASSUME client \notin {"ok", "failed"} \/ client' = client,
             UNCHANGED <<parent, kid>>
      PROVE  StaysClosed
  BY <1>c DEF StaysClosed, Closed, Ends
<1>1. CASE SendHeader
  <2>1. StaysClosed /\ Send("client", Repeat("head", HeadLen))
    BY <1>1, <1>c DEF SendHeader
  <2>2. Repeat("head", HeadLen) \in Seq(Items)
    BY RepeatFacts, CopyAssumption DEF Items
  <2>3. Steady /\ (wire["server"] # <<>> => wire'["server"] # <<>>)
    BY <2>1, <2>2, SendSteady, SendKeeps
  <2> QED BY <1>1, <2>3 DEF SendHeader, loops, Apart, ClientServesInLoop
<1>2. CASE ClientPoll
  <2>1. StaysClosed /\ UNCHANGED <<fin, rst, wire>>
    BY <1>2, <1>c DEF ClientPoll, tcp
  <2> QED BY <1>2, <1>t, <2>1, TcpSteady DEF ClientPoll, Apart, ClientServesInLoop
<1>3. CASE ClientRecv
  <2>1. client = "loop"
    BY <1>3 DEF ClientRecv, ClientServesInLoop
  <2>2. Steady
    BY <1>3, <1>c, <2>1, TcpSteady DEF ClientRecv
  <2>3. todo'["server"] = todo["server"] /\ (client' = "loop" \/ todo'["client"] = {})
    BY <1>3, <1>t, <2>1 DEF ClientRecv, Served
  <2>4. wire'["server"] = wire["server"]
    BY <1>3, <1>t DEF ClientRecv, WireType
  <2> QED BY <1>3, <2>2, <2>3, <2>4 DEF ClientRecv, Apart, ClientServesInLoop
<1>4. CASE ClientKeys
  <2>1. client = "loop"
    BY <1>4 DEF ClientKeys, ClientServesInLoop
  <2>2. StaysClosed /\ Send("client", Repeat("key", Len(tty)))
    BY <1>4, <1>c, <2>1 DEF ClientKeys
  <2>3. Repeat("key", Len(tty)) \in Seq(Items)
    BY RepeatFacts DEF Items, TypeOK
  <2>4. Steady /\ (wire["server"] # <<>> => wire'["server"] # <<>>)
    BY <2>2, <2>3, SendSteady, SendKeeps
  <2>5. todo'["server"] = todo["server"] /\ client' = "loop"
    BY <1>4, <1>t, <2>1 DEF ClientKeys, Served
  <2> QED BY <1>4, <2>4, <2>5 DEF ClientKeys, Apart, ClientServesInLoop
<1>5. CASE ClientSends
  <2>1. StaysClosed /\ Send("client", Repeat("byte", NextChunk))
    BY <1>5, <1>c DEF ClientSends
  <2>2. NextChunk \in Nat
    BY CopyAssumption DEF NextChunk, TypeOK
  <2>3. Repeat("byte", NextChunk) \in Seq(Items)
    BY <2>2, RepeatFacts DEF Items
  <2>4. Steady /\ (wire["server"] # <<>> => wire'["server"] # <<>>)
    BY <2>1, <2>3, SendSteady, SendKeeps
  <2> QED BY <1>5, <2>4 DEF ClientSends, loops, Apart, ClientServesInLoop
<1>6. CASE ClientDone
  <2>1. ~Closed("client") /\ Closed("client")' /\ StaysClosed
    BY <1>6, <1>c DEF ClientDone, Closed
  <2>2. Leave("client", wire["client"], TRUE)
    BY <1>6 DEF ClientDone
  <2>3. Steady
    BY <2>1, <2>2, LeaveSteady
  <2>4. wire'["server"] = wire["server"]
    BY <2>2, <1>t DEF Leave, WireType
  <2> QED BY <1>6, <2>3, <2>4 DEF ClientDone, loops, Apart, ClientServesInLoop
<1>7. CASE ClientEof \/ ClientLeaves \/ ClientPipe \/ ClientSendFails
  <2>1. ClientFails /\ client \notin {"ok", "failed"}
    BY <1>7 DEF ClientEof, ClientLeaves, ClientPipe, ClientSendFails, ClientServesInLoop
  <2> QED BY <2>1, ClientFailsApart DEF ClientServesInLoop
<1> QED BY <1>1, <1>2, <1>3, <1>4, <1>5, <1>6, <1>7 DEF ClientStep

\* The parts of TellInv about the server's processes.
Told == SocketStaysReady /\ TellsLater /\ WaitsWhenTold /\ StagesInOrder

LEMMA ApartTells ==
    ASSUME TypeOK, TellInv, Apart
    PROVE  Told'
<1>1. Broken("server") => Broken("server")'
  BY SteadyResets DEF Apart, TellInv
<1>2. fin["server"] => fin'["server"]
  BY DEF Apart, Steady
<1> QED BY <1>1, <1>2 DEF Apart, Told, TellInv, SocketStaysReady, TellsLater,
                          WaitsWhenTold, StagesInOrder

\* A step of the server leaves the client alone.
ServerSide == UNCHANGED client /\ todo'["client"] = todo["client"]

LEMMA ServerCloses ==
    ASSUME ServerSide, Closed("server") => Closed("server")'
    PROVE  StaysClosed
  BY DEF ServerSide, StaysClosed, Closed, Ends

LEMMA ParentExitsTells ==
    ASSUME TypeOK, IInv, TellInv, parent # "gone",
           NEW rest \in Seq(Items), ParentExits(rest),
           kid \in {"login", "open", "spin"} /\ ~go => Broken("server")
    PROVE  Steady /\ ServerSide /\ Told'
<1> USE EndsFacts
<1>1. ServerSide /\ todo'["server"] = {} /\ parent' = "gone" /\ UNCHANGED <<kid, flag, go>>
  BY TypeParts DEF ParentExits, ServerSide
<1>2. ~Closed("server") /\ (kid \in {"none"} \cup Ended => Closed("server")')
  BY <1>1 DEF Closed
<1>3. Steady
  <2>1. Leave("server", rest, kid \in {"none"} \cup Ended)
    BY DEF ParentExits
  <2> QED BY <1>1, <1>2, <2>1, ServerCloses, LeaveSteady
<1>4. Broken("server") => Broken("server")'
  BY <1>3, SteadyResets DEF TellInv
<1> QED BY <1>1, <1>3, <1>4 DEF Told, TellInv, SocketStaysReady, TellsLater,
                                WaitsWhenTold, StagesInOrder

LEMMA ParentTells ==
    ASSUME TypeOK, IInv, TellInv, ParentStep
    PROVE  Steady /\ ServerSide /\ Told'
<1> USE EndsFacts
<1>t. todo \in [Ends -> SUBSET Files] /\ WireType
  BY TypeParts
<1>p. todo["server"] # {} => parent = "loop"
  BY DEF IInv, ServesInLoop
<1>b. Steady => (Broken("server") => Broken("server")')
  BY SteadyResets DEF TellInv
<1>w. wire["server"] \in Seq(Items)
  BY WireIsSeq
<1>1. CASE RecvHeader
  <2>1. /\ parent = "header" /\ parent' = "loop" /\ kid' = "login"
        /\ UNCHANGED <<client, todo, flag, go, fin, rst>>
    BY <1>1 DEF RecvHeader
  <2>2. ServerSide /\ Steady
    BY <2>1, TcpSteady, ServerCloses DEF ServerSide, Closed
  <2>3. todo["server"] = {} /\ ~flag
    BY <1>p, <2>1 DEF TellInv, StagesInOrder
  <2> QED BY <2>1, <2>2, <2>3 DEF Told, TellInv, SocketStaysReady, TellsLater,
                                  WaitsWhenTold, StagesInOrder, Ended
<1>2. CASE RecvHeaderFails
  <2>1. kid = "none" /\ ParentExits(<<>>) /\ parent # "gone"
    BY <1>2 DEF RecvHeaderFails, TellInv, StagesInOrder
  <2> QED BY <2>1, NothingType, ParentExitsTells
<1>3. CASE ParentPoll
  <2>1. UNCHANGED <<client, parent, kid, flag, go, wire, fin, rst>>
    BY <1>3 DEF ParentPoll, tcp
  <2>2. todo'["client"] = todo["client"]
    BY <1>3, <1>t DEF ParentPoll
  <2>3. "socket" \in todo'["server"] => Readable("server")
    BY <1>3, <1>t DEF ParentPoll
  <2>4. ServerSide /\ Steady
    BY <2>1, <2>2, TcpSteady, ServerCloses DEF ServerSide, Closed
  <2> QED BY <2>1, <2>3, <2>4 DEF Readable, Told, TellInv, SocketStaysReady,
                       TellsLater, WaitsWhenTold, StagesInOrder, Broken
<1>4. CASE ParentOutput
  <2>1. UNCHANGED <<client, parent, kid, flag, go>> /\ Send("server", Repeat("out", out))
    BY <1>4 DEF ParentOutput
  <2>2. todo'["client"] = todo["client"] /\ todo'["server"] \subseteq todo["server"]
    BY <1>4, <1>t DEF ParentOutput, Served
  <2>3. ServerSide /\ Steady
    BY <2>1, <2>2, SendSteady, ServerCloses DEF ServerSide, Closed
  <2>4. Repeat("out", out) \in Seq(Items)
    BY RepeatFacts DEF Items, TypeOK
  <2>5. wire["server"] # <<>> => wire'["server"] # <<>>
    BY <2>1, <2>4, SendKeeps
  <2> QED BY <1>b, <2>1, <2>2, <2>3, <2>5 DEF Steady, Told, TellInv,
              SocketStaysReady, TellsLater, WaitsWhenTold, StagesInOrder
<1>5. CASE ParentRecv
  <2>1. UNCHANGED <<client, parent, kid, flag, go, fin, rst>>
    BY <1>5 DEF ParentRecv
  <2>2. todo'["client"] = todo["client"] /\ "socket" \notin todo'["server"]
    BY <1>5, <1>t DEF ParentRecv, Served
  <2>3. ServerSide /\ Steady
    BY <2>1, <2>2, TcpSteady, ServerCloses DEF ServerSide, Closed
  <2> QED BY <1>b, <2>1, <2>2, <2>3 DEF Told, TellInv,
              SocketStaysReady, TellsLater, WaitsWhenTold, StagesInOrder
<1>6. CASE ParentPipe
  <2>1. parent # "gone" /\ ParentExits(wire["server"]) /\ Broken("server")
    BY <1>6, <1>p DEF ParentPipe
  <2> QED BY <1>w, <2>1, ParentExitsTells
<1>7. CASE ParentRecvLate
  <2>1. PICK n \in 1..Len(wire["server"]) : ParentExits(Rest("server", n))
    BY <1>7 DEF ParentRecvLate
  <2>2. n \in 0..Len(wire["server"])
    BY WireIsSeq
  <2>3. Rest("server", n) \in Seq(Items)
    BY <1>t, <2>2, RestType
  <2>4. parent # "gone" /\ kid \notin {"login", "open", "spin"}
    BY <1>7, <1>p DEF ParentRecvLate, Ended
  <2> QED BY <2>1, <2>3, <2>4, ParentExitsTells
<1>8. CASE ParentEof
  <2>1. /\ parent = "loop" /\ parent' = "gone" /\ kid' \in Ended
        /\ UNCHANGED <<client, flag, go>> /\ Leave("server", <<>>, TRUE)
    BY <1>8, <1>p DEF ParentEof, Ended
  <2>2. todo'["server"] = {} /\ ServerSide
    BY <1>8, <1>t DEF ParentEof, ServerSide
  <2>3. ~Closed("server") /\ Closed("server")'
    BY <2>1 DEF Closed
  <2>4. Steady
    BY <2>1, <2>2, <2>3, ServerCloses, LeaveSteady
  <2>5. kid' \notin {"none", "login", "open", "spin", "receive"}
    BY <2>1 DEF Ended
  <2> QED BY <2>1, <2>2, <2>4, <2>5 DEF Told, SocketStaysReady, TellsLater,
                                  WaitsWhenTold, StagesInOrder
<1>9. CASE ParentCrash
  <2>1. parent # "gone" /\ ParentExits(<<>>) /\ Broken("server")
    BY <1>9, <1>p DEF ParentCrash, TellInv, SocketStaysReady
  <2> QED BY <2>1, NothingType, ParentExitsTells
<1>10. CASE ParentLeaves
  <2>1. /\ parent = "loop" /\ parent' = "waits" /\ go' /\ todo["server"] = {}
        /\ UNCHANGED <<client, kid, todo, flag, wire, fin, rst>>
    BY <1>10 DEF ParentLeaves, tcp
  <2>2. ServerSide /\ Steady
    BY <2>1, TcpSteady, ServerCloses DEF ServerSide, Closed
  <2> QED BY <2>1, <2>2 DEF Told, TellInv, SocketStaysReady, TellsLater,
                            WaitsWhenTold, StagesInOrder
<1>11. CASE ParentEnds
  <2>1. parent # "gone" /\ ParentExits(wire["server"])
        /\ kid \notin {"login", "open", "spin"}
    BY <1>11 DEF ParentEnds, Ended
  <2> QED BY <1>w, <2>1, ParentExitsTells
<1> QED BY <1>1, <1>2, <1>3, <1>4, <1>5, <1>6, <1>7, <1>8, <1>9, <1>10, <1>11
        DEF ParentStep

LEMMA KidExitsTells ==
    ASSUME TypeOK, IInv, TellInv, kid \notin {"none"} \cup Ended,
           NEW how \in Ended, NEW rest \in Seq(Items), KidExits(how, rest),
           rest = wire["server"] \/ kid = "receive"
    PROVE  Steady /\ ServerSide /\ Told'
<1> USE EndsFacts
<1>1. ServerSide /\ kid' = how /\ UNCHANGED <<parent, todo, flag, go>>
  BY DEF KidExits, loops, ServerSide
<1>2. ~Closed("server") /\ (parent = "gone" => Closed("server")')
  BY <1>1 DEF Closed
<1>3. Leave("server", rest, parent = "gone")
  BY DEF KidExits
<1>4. Steady
  BY <1>1, <1>2, <1>3, ServerCloses, LeaveSteady
<1>5. Broken("server") => Broken("server")'
  BY <1>4, SteadyResets DEF TellInv
<1>6. SocketStaysReady'
  <2>1. SUFFICES ASSUME "socket" \in todo["server"]
                 PROVE  wire'["server"] = wire["server"]
    BY <1>1, <1>4, <1>5 DEF Steady, TellInv, SocketStaysReady
  <2>2. parent = "loop"
    BY <2>1 DEF IInv, ServesInLoop
  <2>3. kid # "receive"
    BY <2>2 DEF IInv, ToldWhenLeft, TellInv, StagesInOrder
  <2> QED BY <1>3, <2>2, <2>3, TypeParts DEF Leave, WireType
<1>7. kid' \notin {"none", "login", "open", "spin", "receive"}
  BY <1>1 DEF Ended
<1>8. parent # "header"
  BY DEF TellInv, StagesInOrder
<1> QED BY <1>1, <1>4, <1>6, <1>7, <1>8 DEF Told, TellInv, TellsLater,
                                            WaitsWhenTold, StagesInOrder

\* What the kid's reads leave is of no concern to a parent that has left.
LEMMA KidReadTells ==
    ASSUME TypeOK, IInv, TellInv, kid = "receive",
           UNCHANGED <<client, parent, kid, loops, fin, rst>>
    PROVE  Steady /\ ServerSide /\ Told'
<1>1. UNCHANGED <<todo, flag, go>>
  BY DEF loops
<1>2. ServerSide /\ Steady
  BY <1>1, TcpSteady, ServerCloses DEF ServerSide, Closed
<1>3. todo["server"] = {}
  BY DEF IInv, ToldWhenLeft, ServesInLoop, TellInv, StagesInOrder
<1> QED BY <1>1, <1>2, <1>3 DEF Told, TellInv, SocketStaysReady, TellsLater,
                                WaitsWhenTold, StagesInOrder

LEMMA KidTells ==
    ASSUME TypeOK, IInv, TellInv, KidStep
    PROVE  Steady /\ ServerSide /\ Told'
<1> USE EndsFacts
<1>e. "done" \in Ended /\ "cut" \in Ended /\ "failed" \in Ended
      /\ Ended \cap {"none", "login", "open", "spin", "receive"} = {}
  BY DEF Ended
<1>w. wire["server"] \in Seq(Items)
  BY WireIsSeq
<1>r. ASSUME NEW n \in 1..Len(wire["server"])
      PROVE  Rest("server", n) \in Seq(Items)
  <2>1. n \in 0..Len(wire["server"])
    BY <1>r, WireIsSeq
  <2> QED BY <2>1, TypeParts, RestType
<1>1. CASE OpenFile
  <2>1. /\ kid = "open" /\ kid' = "spin"
        /\ UNCHANGED <<client, parent, todo, flag, go, wire, fin, rst>>
    BY <1>1 DEF OpenFile, loops, tcp
  <2>2. ServerSide /\ Steady
    BY <2>1, <1>e, TcpSteady, ServerCloses DEF ServerSide, Closed
  <2> QED BY <2>1, <2>2 DEF Told, TellInv, SocketStaysReady, TellsLater,
                            WaitsWhenTold, StagesInOrder, Broken
<1>2. CASE StartReceiving
  <2>1. /\ kid = "spin" /\ kid' = "receive" /\ go
        /\ UNCHANGED <<client, parent, todo, flag, go>>
        /\ Send("server", Repeat("go", HeadLen))
    BY <1>2 DEF StartReceiving, loops
  <2>2. ServerSide /\ Steady
    BY <2>1, <1>e, SendSteady, ServerCloses DEF ServerSide, Closed
  <2>3. todo["server"] = {}
    BY <2>1 DEF IInv, ToldWhenLeft, ServesInLoop
  <2> QED BY <2>1, <2>2, <2>3 DEF Told, TellInv, SocketStaysReady, TellsLater,
                                  WaitsWhenTold, StagesInOrder
<1>3. CASE OpenFails \/ StartPipe
  <2>1. KidExits("failed", wire["server"]) /\ kid \notin {"none"} \cup Ended
    BY <1>3, <1>e DEF OpenFails, StartPipe
  <2> QED BY <1>e, <1>w, <2>1, KidExitsTells
<1>4. CASE RecvFile
  <2>1. PICK n \in 1..Len(wire["server"]), full \in BOOLEAN :
            IF full THEN KidExits("done", Rest("server", n))
            ELSE /\ wire' = [wire EXCEPT !["server"] = Rest("server", n)]
                 /\ UNCHANGED <<client, parent, kid, loops, user, login, sent, fin, rst>>
    BY <1>4 DEF RecvFile
  <2>2. kid = "receive" /\ kid \notin {"none"} \cup Ended
    BY <1>4, <1>e DEF RecvFile
  <2>3. CASE full
    BY <1>e, <1>r, <2>1, <2>2, <2>3, KidExitsTells
  <2>4. CASE ~full
    BY <2>1, <2>2, <2>4, KidReadTells
  <2> QED BY <2>3, <2>4
<1>5. CASE WriteFails
  <2>1. PICK n \in 1..Len(wire["server"]) : KidExits("failed", Rest("server", n))
    BY <1>5 DEF WriteFails
  <2>2. kid = "receive" /\ kid \notin {"none"} \cup Ended
    BY <1>5, <1>e DEF WriteFails
  <2> QED BY <1>e, <1>r, <2>1, <2>2, KidExitsTells
<1>6. CASE RecvFileEof \/ RecvFileFails
  <2>1. PICK how \in Ended : KidExits(how, <<>>)
    BY <1>6, <1>e DEF RecvFileEof, RecvFileFails
  <2>2. kid = "receive" /\ kid \notin {"none"} \cup Ended
    BY <1>6, <1>e DEF RecvFileEof, RecvFileFails
  <2> QED BY <2>1, <2>2, NothingType, KidExitsTells
<1> QED BY <1>1, <1>2, <1>3, <1>4, <1>5, <1>6 DEF KidStep

LEMMA OthersTell ==
    ASSUME TypeOK, IInv, TellInv, Surroundings \/ Network \/ UNCHANGED vars
    PROVE  Steady /\ Told' /\ ClientServesInLoop'
<1> USE EndsFacts
<1>c. ClientServesInLoop
  BY DEF TellInv
<1>1. CASE LoginFails
  <2>1. KidExits("failed", wire["server"]) /\ kid = "login"
    BY <1>1 DEF LoginFails
  <2>2. "failed" \in Ended /\ kid \notin {"none"} \cup Ended
    BY <2>1 DEF Ended
  <2>3. wire["server"] \in Seq(Items)
    BY WireIsSeq
  <2>4. Steady /\ ServerSide /\ Told'
    BY <2>1, <2>2, <2>3, KidExitsTells
  <2> QED BY <1>c, <2>4 DEF ServerSide, ClientServesInLoop
<1>2. CASE LoginSucceeds
  <2>1. /\ kid = "login" /\ kid' = "open" /\ flag'
        /\ UNCHANGED <<client, parent, todo, go, wire, fin, rst>>
    BY <1>2 DEF LoginSucceeds, tcp
  <2>2. ServerSide /\ Steady
    BY <2>1, TcpSteady, ServerCloses DEF ServerSide, Closed, Ended
  <2>3. Told'
    BY <2>1 DEF Told, TellInv, SocketStaysReady, TellsLater,
                WaitsWhenTold, StagesInOrder, Broken
  <2> QED BY <1>c, <2>2, <2>3 DEF ServerSide, ClientServesInLoop
<1>3. CASE LoginWrites \/ UserTypes \/ UNCHANGED vars
  <2>1. UNCHANGED <<client, parent, kid, todo, flag, go, wire, fin, rst>>
    BY <1>3 DEF LoginWrites, UserTypes, vars, loops, tcp
  <2>2. Steady
    BY <2>1, TcpSteady DEF StaysClosed, Closed
  <2>3. Told'
    BY <2>1 DEF Told, TellInv, SocketStaysReady, TellsLater,
                WaitsWhenTold, StagesInOrder, Broken
  <2> QED BY <1>c, <2>1, <2>2, <2>3 DEF ClientServesInLoop
<1>4. CASE Network
  <2>1. PICK p \in Ends : RstArrives(p)
    BY <1>4 DEF Network
  <2>2. UNCHANGED <<client, parent, kid, todo, flag, go, fin>>
    BY <2>1 DEF RstArrives, loops
  <2>3. Steady
    BY <2>1, <2>2 DEF Steady, StaysClosed, Closed, ResetKind
  <2>4. \/ Broken("server")'
        \/ wire'["server"] = wire["server"] /\ (Broken("server")' <=> Broken("server"))
    BY <2>1, TypeParts DEF RstArrives, Destroyed, Broken, WireType, Ends
  <2>5. Told'
    BY <2>2, <2>4 DEF Told, TellInv, SocketStaysReady, TellsLater,
                      WaitsWhenTold, StagesInOrder
  <2> QED BY <1>c, <2>2, <2>3, <2>5 DEF ClientServesInLoop
<1> QED BY <1>1, <1>2, <1>3, <1>4 DEF Surroundings

LEMMA TellStep ==
    ASSUME TypeOK, IInv, TellInv, [Next]_vars
    PROVE  TellInv'
<1>1. Steady /\ Told' /\ ClientServesInLoop'
  <2>1. CASE ClientStep
    BY <2>1, ClientApart, ApartTells DEF TellInv, Apart
  <2>2. CASE ParentStep \/ KidStep
    BY <2>2, ParentTells, KidTells DEF ServerSide, TellInv, ClientServesInLoop
  <2>3. CASE Surroundings \/ Network \/ UNCHANGED vars
    BY <2>3, OthersTell
  <2> QED BY <2>1, <2>2, <2>3 DEF Next
<1>2. ResetAfterClose'
  BY <1>1, SteadyResets DEF TellInv
<1> QED BY <1>1, <1>2 DEF TellInv, Told

\* In whatever order the login, the signals and the two processes' reads of
\* the connection come: a kid that waits for its signal has a parent that is
\* about to send it, or the connection was reset.
THEOREM KidIsTold == Spec => []SpinHasParent
<1>1. Init => TellInv
  BY EndsFacts DEF Init, TcpInit, TellInv, ClientServesInLoop, ResetAfterClose,
         SocketStaysReady, TellsLater, WaitsWhenTold, StagesInOrder
<1>2. TypeOK /\ IInv /\ TellInv /\ [Next]_vars => TellInv'
  BY TellStep
<1>3. TellInv => SpinHasParent
  BY DEF TellInv, TellsLater, SpinHasParent
<1> QED BY <1>1, <1>2, <1>3, TypeCorrect, IInvAlways, PTL DEF Spec

=============================================================================
