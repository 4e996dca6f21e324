---------------------------- MODULE CopyTransfer ----------------------------
(***************************************************************************)
(* One file copied over TCP: ssh_copy_file against the process of          *)
(* copy_server that accepted the connection (the parent) and the process   *)
(* it forks on a pseudo terminal (the kid), which logs the user in and     *)
(* then receives the file from the same connection.  SIGUSR1 passes from   *)
(* the kid to the parent, which stops reading the connection, and back to  *)
(* the kid, which then echoes the client's header as the go signal.        *)
(***************************************************************************)
EXTENDS Tcp, FiniteSets

CONSTANTS
    HeadLen,   \* pieces of struct file_copy_header that a read may separate
    Size,      \* header.size: what stat said of the file
    FileLen,   \* what reading the file returns in all
    Chunk,     \* what one read of the file returns at most
    MaxTyped,  \* bound: key strokes of the user
    MaxOut     \* bound: pieces of text that the login writes

ASSUME CopyAssumption ==
    /\ HeadLen \in Nat \ {0}
    /\ Size \in Nat
    /\ FileLen \in Nat
    /\ Chunk \in Nat \ {0}
    /\ MaxTyped \in Nat
    /\ MaxOut \in Nat

VARIABLES
    client,   \* where ssh_copy_file is
    parent,   \* where the process of copy_server is
    kid,      \* where the process it forked is
    todo,     \* todo[p]: the descriptors p's poll found ready, not yet served
    flag,     \* exit_master_read_loop of the parent
    go,       \* exit_master_read_loop of the kid
    whole,    \* the server has read the whole header at once
    tty,      \* what the user has typed and the client has not read
    typed,    \* how much the user has typed in all
    out,      \* what the login has written and the parent has not read
    made,     \* how much the login has written in all
    sent,     \* how much of the file the client has sent
    taken,    \* how much of the file the kid has written
    strays    \* what else the kid has written to the file

loops == <<todo, flag, go, whole>>
user == <<tty, typed>>
login == <<out, made>>
file == <<sent, taken, strays>>

vars == <<client, parent, kid, loops, user, login, file, tcp>>

Ended == {"done", "cut", "failed"}

Closed(p) ==
    IF p = "client" THEN client \in {"ok", "failed"}
    ELSE parent = "gone" /\ kid \in {"none"} \cup Ended

-----------------------------------------------------------------------------
(* The connection.                                                         *)

Repeat(x, n) == [i \in 1..n |-> x]

Rest(p, n) == SubSeq(wire[p], n + 1, Len(wire[p]))

Send(p, s) ==
    /\ wire' = IF Closed(Other(p)) THEN wire
               ELSE [wire EXCEPT ![Other(p)] = @ \o s]
    /\ Returned(p, Closed(Other(p)) /\ s # <<>>)
    /\ UNCHANGED fin

\* A process closes p's end and leaves the rest unread; last if no other
\* process holds that end.
Leave(p, rest, last) ==
    IF last
    THEN /\ wire' = [wire EXCEPT ![p] = <<>>]
         /\ Shut(p, rest # <<>>, Closed(Other(p)))
    ELSE /\ wire' = [wire EXCEPT ![p] = rest]
         /\ UNCHANGED <<fin, rst>>

\* As in every poll loop of the program, an end that a reset has reached
\* reports more than POLL_IN and is passed over.
Readable(p) == ~Broken(p) /\ (wire[p] # <<>> \/ fin[p])

Served(p, d) == todo' = [todo EXCEPT ![p] = @ \ {d}]

-----------------------------------------------------------------------------
(* The client.                                                             *)

SendHeader ==
    /\ client = "start"
    /\ client' = "loop"
    /\ Send("client", Repeat("head", HeadLen))
    /\ UNCHANGED <<parent, kid, loops, user, login, file>>

ClientPoll ==
    /\ client = "loop"
    /\ todo["client"] = {}
    /\ LET ready == (IF Readable("client") THEN {"socket"} ELSE {})
                        \cup (IF tty # <<>> THEN {"tty"} ELSE {})
       IN  /\ ready # {}
           /\ todo' = [todo EXCEPT !["client"] = ready]
    /\ UNCHANGED <<client, parent, kid, flag, go, whole, user, login, file, tcp>>

\* The go signal is a read that returns the header, all of it and no more.
IsGo(s) == whole /\ s = Repeat("go", HeadLen)

ClientRecv ==
    /\ "socket" \in todo["client"]
    /\ \E n \in 1..Len(wire["client"]) :
          /\ wire' = [wire EXCEPT !["client"] = Rest("client", n)]
          /\ IF IsGo(SubSeq(wire["client"], 1, n))
             THEN /\ client' = "file"
                  /\ todo' = [todo EXCEPT !["client"] = {}]
             ELSE /\ Served("client", "socket")
                  /\ UNCHANGED client
    /\ UNCHANGED <<parent, kid, flag, go, whole, user, login, file, fin, rst>>

\* Whoever has closed the socket still goes on to the loop that sends the
\* file; its first send fails, and the user is told to try again.
ClientFails ==
    /\ client' = "failed"
    /\ todo' = [todo EXCEPT !["client"] = {}]
    /\ Leave("client", wire["client"], TRUE)
    /\ UNCHANGED <<parent, kid, flag, go, whole, typed, login, file>>

\* End of file, or the code of an error, which is taken for a length.
ClientEof ==
    /\ "socket" \in todo["client"]
    /\ wire["client"] = <<>>
    /\ ClientFails
    /\ UNCHANGED tty

\* ctrl-D counts only as the first byte of a read.
ClientKeys ==
    /\ todo["client"] = {"tty"}
    /\ Head(tty) = "key"
    /\ Served("client", "tty")
    /\ tty' = <<>>
    /\ Send("client", Repeat("key", Len(tty)))
    /\ UNCHANGED <<client, parent, kid, flag, go, whole, typed, login, file>>

ClientLeaves ==
    /\ todo["client"] = {"tty"}
    /\ Head(tty) = "ctrl-D"
    /\ tty' = <<>>
    /\ ClientFails

\* A write on a broken connection may raise SIGPIPE.
ClientPipe ==
    /\ todo["client"] = {"tty"}
    /\ Head(tty) = "key"
    /\ Broken("client")
    /\ ClientFails
    /\ UNCHANGED tty

NextChunk == IF FileLen - sent < Chunk THEN FileLen - sent ELSE Chunk

\* At the end of the file a read returns 0 and the loop goes on: it ends
\* only when as much has been sent as stat said.
ClientSends ==
    /\ client = "file"
    /\ ~Broken("client")
    /\ sent' = sent + NextChunk
    /\ client' = IF sent' = Size THEN "sent" ELSE "file"
    /\ Send("client", Repeat("byte", NextChunk))
    /\ UNCHANGED <<parent, kid, loops, user, login, taken, strays>>

ClientSendFails ==
    /\ client = "file"
    /\ Broken("client")
    /\ ClientFails
    /\ UNCHANGED tty

ClientDone ==
    /\ client = "sent"
    /\ client' = "ok"
    /\ Leave("client", wire["client"], TRUE)
    /\ UNCHANGED <<parent, kid, loops, user, login, file>>

-----------------------------------------------------------------------------
(* The parent.                                                             *)

ParentExits(rest) ==
    /\ parent' = "gone"
    /\ todo' = [todo EXCEPT !["server"] = {}]
    /\ Leave("server", rest, kid \in {"none"} \cup Ended)
    /\ UNCHANGED <<client, kid, flag, go, whole, user, login, file>>

\* What one read returns is the header: a part of it, or nothing at the end
\* of file.  Then the kid is forked; it inherits the connection.
RecvHeader ==
    /\ parent = "header"
    /\ parent' = "loop"
    /\ kid' = "login"
    /\ \E n \in 0..HeadLen :
          /\ n <= Len(wire["server"])
          /\ n = 0 => wire["server"] = <<>> /\ fin["server"]
          /\ whole' = (n = HeadLen)
          /\ wire' = [wire EXCEPT !["server"] = Rest("server", n)]
    /\ UNCHANGED <<client, todo, flag, go, user, login, file, fin, rst>>

\* A reset, or nothing for STANTARD_TIME.
RecvHeaderFails ==
    /\ parent = "header"
    /\ wire["server"] = <<>>
    /\ ~fin["server"]
    /\ ParentExits(<<>>)

\* When the kid is gone the terminal reports a hangup, and is passed over.
ParentPoll ==
    /\ parent = "loop"
    /\ todo["server"] = {}
    /\ ~flag
    /\ LET ready == (IF Readable("server") THEN {"socket"} ELSE {})
                        \cup (IF out > 0 /\ kid \notin Ended THEN {"pty"} ELSE {})
       IN  /\ ready # {}
           /\ todo' = [todo EXCEPT !["server"] = ready]
    /\ UNCHANGED <<client, parent, kid, flag, go, whole, user, login, file, tcp>>

ParentOutput ==
    /\ "pty" \in todo["server"]
    /\ Served("server", "pty")
    /\ out' = 0
    /\ Send("server", Repeat("out", out))
    /\ UNCHANGED <<client, parent, kid, flag, go, whole, user, made, file>>

ParentPipe ==
    /\ "pty" \in todo["server"]
    /\ Broken("server")
    /\ ParentExits(wire["server"])

\* What the client sends is typed into the login.
ParentRecv ==
    /\ todo["server"] = {"socket"}
    /\ Served("server", "socket")
    /\ \E n \in 1..Len(wire["server"]) :
          wire' = [wire EXCEPT !["server"] = Rest("server", n)]
    /\ UNCHANGED <<client, parent, kid, flag, go, whole, user, login, file, fin, rst>>

\* The write to a pseudo terminal that nobody has open may fail.
ParentRecvLate ==
    /\ todo["server"] = {"socket"}
    /\ kid \in Ended
    /\ \E n \in 1..Len(wire["server"]) : ParentExits(Rest("server", n))

\* Mutant of ParentEof: the kid is not killed.
ParentEofSpares ==
    /\ todo["server"] = {"socket"}
    /\ wire["server"] = <<>>
    /\ fin["server"]
    /\ ParentExits(<<>>)

\* The client has left, and the kid is killed.
ParentEof ==
    /\ todo["server"] = {"socket"}
    /\ wire["server"] = <<>>
    /\ fin["server"]
    /\ parent' = "gone"
    /\ kid' = IF kid \in Ended THEN kid ELSE "failed"
    /\ todo' = [todo EXCEPT !["server"] = {}]
    /\ Leave("server", <<>>, TRUE)
    /\ UNCHANGED <<client, flag, go, whole, user, login, file>>

\* A reset came after the poll; its code is taken for a length.
ParentCrash ==
    /\ todo["server"] = {"socket"}
    /\ wire["server"] = <<>>
    /\ ~fin["server"]
    /\ ParentExits(<<>>)

\* Mutant of ParentLeaves: the kid is not told.
ParentLeavesQuietly ==
    /\ parent = "loop"
    /\ todo["server"] = {}
    /\ flag
    /\ parent' = "waits"
    /\ UNCHANGED <<client, kid, loops, user, login, file, tcp>>

\* The flag is looked at once in every round.
ParentLeaves ==
    /\ parent = "loop"
    /\ todo["server"] = {}
    /\ flag
    /\ parent' = "waits"
    /\ go' = TRUE
    /\ UNCHANGED <<client, kid, todo, flag, whole, user, login, file, tcp>>

\* waitpid returns.
ParentEnds ==
    /\ parent = "waits"
    /\ kid \in Ended
    /\ ParentExits(wire["server"])

-----------------------------------------------------------------------------
(* The kid.                                                                *)

KidExits(how, rest) ==
    /\ kid' = how
    /\ Leave("server", rest, parent = "gone")
    /\ UNCHANGED <<client, parent, loops, user, login, sent>>

LoginWrites ==
    /\ kid = "login"
    /\ made < MaxOut
    /\ made' = made + 1
    /\ out' = out + 1
    /\ UNCHANGED <<client, parent, kid, loops, user, file, tcp>>

\* PAM lets the user in, and SIGUSR1 goes to the parent.
LoginSucceeds ==
    /\ kid = "login"
    /\ kid' = "open"
    /\ flag' = TRUE
    /\ UNCHANGED <<client, parent, todo, go, whole, user, login, file, tcp>>

LoginFails ==
    /\ kid = "login"
    /\ KidExits("failed", wire["server"])
    /\ UNCHANGED <<taken, strays>>

OpenFile ==
    /\ kid = "open"
    /\ kid' = "spin"
    /\ UNCHANGED <<client, parent, loops, user, login, file, tcp>>

\* No such user, or the file cannot be opened.
OpenFails ==
    /\ kid = "open"
    /\ KidExits("failed", wire["server"])
    /\ UNCHANGED <<taken, strays>>

\* Mutant of StartReceiving: the kid does not wait for the parent.
StartAtOnce ==
    /\ kid = "spin"
    /\ kid' = "receive"
    /\ Send("server", Repeat("go", HeadLen))
    /\ UNCHANGED <<client, parent, loops, user, login, file>>

StartReceiving ==
    /\ kid = "spin"
    /\ go
    /\ kid' = "receive"
    /\ Send("server", Repeat("go", HeadLen))
    /\ UNCHANGED <<client, parent, loops, user, login, file>>

\* The write on a broken connection may raise SIGPIPE.
StartPipe ==
    /\ kid = "spin"
    /\ go
    /\ Broken("server")
    /\ KidExits("failed", wire["server"])
    /\ UNCHANGED <<taken, strays>>

\* Mutant of Complete: one byte early.
CompleteEarly(n) == n + 1 = Size

Complete(n) == n = Size

\* Everything that comes is written to the file.  Without the whole header
\* the kid may not know the size.
RecvFile ==
    /\ kid = "receive"
    /\ \E n \in 1..Len(wire["server"]), full \in BOOLEAN :
          /\ LET bytes == Cardinality({i \in 1..n : wire["server"][i] = "byte"})
             IN  /\ taken' = taken + bytes
                 /\ strays' = strays + (n - bytes)
          /\ whole => full = Complete(taken' + strays')
          /\ IF full THEN KidExits("done", Rest("server", n))
             ELSE /\ wire' = [wire EXCEPT !["server"] = Rest("server", n)]
                  /\ UNCHANGED <<client, parent, kid, loops, user, login, sent, fin, rst>>

\* The disk is full.
WriteFails ==
    /\ kid = "receive"
    /\ \E n \in 1..Len(wire["server"]) : KidExits("failed", Rest("server", n))
    /\ UNCHANGED <<taken, strays>>

RecvFileEof ==
    /\ kid = "receive"
    /\ wire["server"] = <<>>
    /\ fin["server"]
    /\ KidExits("cut", <<>>)
    /\ UNCHANGED <<taken, strays>>

\* Mutant of RecvFileFails: the receive never times out.
RecvFileWaits ==
    /\ kid = "receive"
    /\ wire["server"] = <<>>
    /\ ~fin["server"] /\ Broken("server")
    /\ KidExits("failed", <<>>)
    /\ UNCHANGED <<taken, strays>>

\* A reset, or nothing for STANTARD_TIME: the code of the error is taken for
\* a length, and the write fails.
RecvFileFails ==
    /\ kid = "receive"
    /\ wire["server"] = <<>>
    /\ ~fin["server"]
    /\ KidExits("failed", <<>>)
    /\ UNCHANGED <<taken, strays>>

-----------------------------------------------------------------------------

UserTypes ==
    /\ client \in {"start", "loop"}
    /\ typed < MaxTyped
    /\ typed' = typed + 1
    /\ \E k \in {"key", "ctrl-D"} : tty' = Append(tty, k)
    /\ UNCHANGED <<client, parent, kid, loops, login, file, tcp>>

RstArrives(p) ==
    /\ ~Closed(p)
    /\ Destroyed(p)
    /\ UNCHANGED <<client, parent, kid, loops, user, login, file, fin>>

Init ==
    /\ client = "start"
    /\ parent = "header"
    /\ kid = "none"
    /\ todo = [p \in Ends |-> {}]
    /\ flag = FALSE
    /\ go = FALSE
    /\ whole = FALSE
    /\ tty = <<>>
    /\ typed = 0
    /\ out = 0
    /\ made = 0
    /\ sent = 0
    /\ taken = 0
    /\ strays = 0
    /\ TcpInit

ClientStep ==
    \/ SendHeader \/ ClientPoll \/ ClientRecv \/ ClientEof \/ ClientKeys
    \/ ClientLeaves \/ ClientPipe \/ ClientSends \/ ClientSendFails \/ ClientDone

ParentStep ==
    \/ RecvHeader \/ RecvHeaderFails \/ ParentPoll \/ ParentOutput \/ ParentPipe
    \/ ParentRecv \/ ParentRecvLate \/ ParentEof \/ ParentCrash \/ ParentLeaves
    \/ ParentEnds

KidStep ==
    \/ OpenFile \/ OpenFails \/ StartReceiving \/ StartPipe
    \/ RecvFile \/ WriteFails \/ RecvFileEof \/ RecvFileFails

Surroundings == LoginWrites \/ LoginSucceeds \/ LoginFails \/ UserTypes

Network == \E p \in Ends : RstArrives(p)

Next == ClientStep \/ ParentStep \/ KidStep \/ Surroundings \/ Network

Spec == Init /\ [][Next]_vars

\* The three processes run when they can, a receive times out in the end, and
\* TCP delivers.  Nothing is assumed of the user and of PAM.
FairSpec ==
    /\ Spec
    /\ WF_vars(ClientStep)
    /\ WF_vars(ParentStep)
    /\ WF_vars(KidStep)
    /\ WF_vars(Network)

-----------------------------------------------------------------------------
(* Properties.                                                             *)

\* Every variable has its type.
TypeOK ==
    /\ client \in {"start", "loop", "file", "sent", "ok", "failed"}
    /\ parent \in {"header", "loop", "waits", "gone"}
    /\ kid \in {"none", "login", "open", "spin", "receive"} \cup Ended
    /\ todo \in [Ends -> SUBSET {"socket", "tty", "pty"}]
    /\ flag \in BOOLEAN /\ go \in BOOLEAN /\ whole \in BOOLEAN
    /\ tty \in Seq({"key", "ctrl-D"})
    /\ typed \in Nat /\ out \in Nat /\ made \in Nat
    /\ sent \in 0..FileLen /\ taken \in Nat /\ strays \in Nat
    /\ wire \in [Ends -> Seq({"head", "key", "byte", "out", "go"})]
    /\ fin \in [Ends -> BOOLEAN]
    /\ rst \in [Ends -> {"no", "sent", "arrived"}]

OnWire(p, x) == \E i \in 1..Len(wire[p]) : wire[p][i] = x

\* Parent and kid read the same connection; the parent, which would type it
\* into the login, never finds a byte of the file there.
ParentSeesNoFile == parent = "loop" => ~OnWire("server", "byte")

\* Nothing of the login follows the go signal: the client, which stops
\* reading there, leaves nothing unread that would turn its end into a reset.
GoIsLast ==
    \A i \in 1..(Len(wire["client"]) - 1) :
        wire["client"][i] = "go" => wire["client"][i + 1] = "go"

\* A kid that waits to be told has a parent that will tell it, unless a reset
\* has ended the parent in between.
SpinHasParent ==
    kid \in {"open", "spin"} /\ ~go =>
        (parent = "loop" /\ flag) \/ Broken("server")

\* After a login the client's command ends, also when the go signal is not
\* recognised or the file cannot be opened, unless the connection is reset.
CopyEnds ==
    kid = "open" ~> client \in {"ok", "failed"} \/ rst["client"] # "no"

\* A client that leaves takes both processes along, unless it leaves a reset.
LeavingEndsCopy ==
    client \in {"ok", "failed"} ~>
        Closed("server") \/ rst["server"] # "no"

\* What the client reports as done arrives whole, if nothing else was typed
\* into the file and the kid did not fail.
DoneArrives == client = "ok" ~> taken = Size \/ strays > 0 \/ kid = "failed"

-----------------------------------------------------------------------------
(* Why nobody takes what is the other's: what a step relies on.            *)

\* Who has descriptors to serve is in its loop.
ServesInLoop == todo["server"] # {} => parent = "loop"

\* The kid is told when the parent has left its loop, and only then the go
\* signal and the file can be on their way.
ToldWhenLeft == go => parent \in {"waits", "gone"}

GoWhenTold ==
    \/ OnWire("client", "go")
    \/ OnWire("server", "byte")
    \/ client \in {"file", "sent", "ok"}
    => go

IInv == ServesInLoop /\ ToldWhenLeft /\ GoWhenTold /\ GoIsLast

\* A reset is the answer of an end that has closed, and what poll found
\* readable on the parent's socket stays so, or is reset.
ResetAfterClose == \A p \in Ends : rst[p] # "no" => Closed(Other(p))

SocketStaysReady ==
    "socket" \in todo["server"] =>
        wire["server"] # <<>> \/ fin["server"] \/ Broken("server")

\* A kid that has not been told has a parent that reads on, and that knows of
\* the login as soon as there was one; or the connection was reset.
TellsLater ==
    kid \in {"login", "open", "spin"} /\ ~go =>
        (parent = "loop" /\ (kid # "login" => flag)) \/ Broken("server")

WaitsWhenTold == parent = "waits" => go

\* Before the header there is no kid, and before the login no signal; who
\* receives has been told.
StagesInOrder ==
    /\ parent = "header" => kid = "none"
    /\ kid \in {"none", "login"} => ~flag
    /\ kid = "receive" => go

ClientServesInLoop == todo["client"] # {} => client = "loop"

\* With IInv, the invariant behind SpinHasParent.
TellInv ==
    /\ ClientServesInLoop
    /\ ResetAfterClose
    /\ SocketStaysReady
    /\ TellsLater
    /\ WaitsWhenTold
    /\ StagesInOrder
=============================================================================
