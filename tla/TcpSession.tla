----------------------------- MODULE TcpSession -----------------------------
(***************************************************************************)
(* One remote shell over TCP: ssh_client against the child of ssh_server   *)
(* that serves it, from the accepted connection to the end of both.  The   *)
(* ends exchange a key (security_get_secret), the client sends the user    *)
(* name, the server forks the shell on a pseudo terminal, and then each    *)
(* copies between terminal and socket in a poll loop.  Each process has    *)
(* one RC4_KEY, which encrypts what it sends and decrypts what it receives.*)
(* A byte of text is the position of the key stream it was encrypted at.   *)
(***************************************************************************)
EXTENDS Tcp

CONSTANTS
    KeyLen,    \* pieces of a DH header that a read may separate
    NameLen,   \* length of the user name
    MaxTyped,  \* bound: key strokes of the user
    MaxMade    \* bound: pieces of output of the shell

ASSUME SessionAssumption ==
    /\ KeyLen \in Nat \ {0}
    /\ NameLen \in Nat
    /\ MaxTyped \in Nat
    /\ MaxMade \in Nat

VARIABLES
    client,   \* where ssh_client is
    server,   \* where the server's child is
    todo,     \* todo[p]: the descriptors p's poll found ready, not yet served
    shell,    \* the process on the pseudo terminal
    exitLoop, \* exit_master_read_loop: a SIGCHLD has come to the server
    holders,  \* the processes that hold the server's end of the connection
    tty,      \* what the user has typed and the client has not read
    typed,    \* how much the user has typed in all
    out,      \* output in the pseudo terminal that the server has not read
    made,     \* how much output there was in all
    keys,     \* keys[p]: pieces of a DH header on their way to p, before wire[p]
    pos,      \* pos[p]: how much of the key stream p has used
    crossed,  \* history: texts of both ends crossed, and still do
    garbled   \* history: some byte was decrypted with another position

conn == <<keys, wire, fin, rst>>
cipher == <<pos, crossed, garbled>>
user == <<tty, typed>>
pty == <<shell, exitLoop, out, made>>

vars == <<client, server, todo, pty, holders, user, conn, cipher>>

Closed(p) == IF p = "client" THEN client = "gone" ELSE holders = {}

-----------------------------------------------------------------------------
(* The connection.                                                         *)

HangUp(p, unread) == Shut(p, unread, Closed(Other(p)))

Discard(p, unread) ==
    /\ keys' = [keys EXCEPT ![p] = 0]
    /\ wire' = [wire EXCEPT ![p] = <<>>]
    /\ HangUp(p, unread)

Unread(p) == keys[p] > 0 \/ wire[p] # <<>>

Bounce(p) == Returned(p, Closed(Other(p)))

RstArrives(p) ==
    /\ ~Closed(p)
    /\ Destroyed(p)
    /\ UNCHANGED <<client, server, todo, pty, holders, user, keys, fin, cipher>>

-----------------------------------------------------------------------------
(* One key for both directions.                                            *)

\* Mutant of Stream: one position late.
StreamLate(from, n) == [i \in 1..n |-> from + i - 1]

Stream(from, n) == [i \in 1..n |-> from + i]

Encrypt(p, n) ==
    /\ pos' = [pos EXCEPT ![p] = @ + n]
    /\ crossed' = (crossed \/ wire[p] # <<>>)
    /\ UNCHANGED garbled
    /\ wire' = IF Closed(Other(p)) THEN wire
               ELSE [wire EXCEPT ![Other(p)] = @ \o Stream(pos[p], n)]
    /\ Bounce(p)

\* Mutant of Decrypt: the terminating zero is decrypted, too.
DecryptString(p, n) ==
    /\ pos' = [pos EXCEPT ![p] = @ + n + 1]
    /\ garbled' = (garbled \/ \E i \in 1..n : wire[p][i] # pos[p] + i)
    /\ wire' = [wire EXCEPT ![p] = SubSeq(@, n + 1, Len(@))]
    /\ crossed' = (crossed /\ \E q \in Ends : wire'[q] # <<>>)

\* TCP hands out any part of what has come, in order.
Decrypt(p, n) ==
    /\ pos' = [pos EXCEPT ![p] = @ + n]
    /\ garbled' = (garbled \/ \E i \in 1..n : wire[p][i] # pos[p] + i)
    /\ wire' = [wire EXCEPT ![p] = SubSeq(@, n + 1, Len(@))]
    /\ crossed' = (crossed /\ \E q \in Ends : wire'[q] # <<>>)

-----------------------------------------------------------------------------
(* The client.                                                             *)

ClientExit(unread) ==
    /\ client' = "gone"
    /\ todo' = [todo EXCEPT !["client"] = {}]
    /\ Discard("client", unread)

ClientExits(unread) ==
    /\ ClientExit(unread)
    /\ UNCHANGED <<server, pty, holders, user, cipher>>

SendHeader ==
    /\ client = "start"
    /\ client' = "reply"
    /\ keys' = IF Closed("server") THEN keys
               ELSE [keys EXCEPT !["server"] = KeyLen]
    /\ Bounce("client")
    /\ UNCHANGED <<server, todo, pty, holders, user, wire, fin, cipher>>

\* No key file, no parameters, or nothing to send them to.
KeyFails ==
    /\ client = "start"
    /\ ClientExits(Unread("client"))

\* The whole header gives the secret, and the name follows at once.
RecvReply ==
    /\ client = "reply"
    /\ keys["client"] = KeyLen
    /\ ~Broken("client")
    /\ client' = "loop"
    /\ keys' = [keys EXCEPT !["client"] = 0]
    /\ Encrypt("client", NameLen)
    /\ UNCHANGED <<server, todo, pty, holders, user, fin>>

\* A part of it decrypts to nothing, and RSA or DH may fail on all of it; on a
\* broken connection the name fails.
RecvReplyFails ==
    /\ client = "reply"
    /\ \/ \E n \in 1..keys["client"] : ClientExits(n < keys["client"])
       \/ /\ keys["client"] = 0
          /\ fin["client"] \/ Broken("client")
          /\ ClientExits(FALSE)

ReplyTimeout ==
    /\ client = "reply"
    /\ keys["client"] = 0
    /\ ClientExits(FALSE)

\* poll reports a descriptor only if revents is POLL_IN and nothing else:
\* with an error or a hangup in it the loop passes the descriptor over.
Readable(p) == ~Broken(p) /\ (wire[p] # <<>> \/ fin[p])

ClientPoll ==
    /\ client = "loop"
    /\ todo["client"] = {}
    /\ LET ready == (IF Readable("client") THEN {"socket"} ELSE {})
                        \cup (IF tty # <<>> THEN {"tty"} ELSE {})
       IN  /\ ready # {}
           /\ todo' = [todo EXCEPT !["client"] = ready]
    /\ UNCHANGED <<client, server, pty, holders, user, conn, cipher>>

Served(p, d) == todo' = [todo EXCEPT ![p] = @ \ {d}]

ClientRecv ==
    /\ "socket" \in todo["client"]
    /\ Served("client", "socket")
    /\ \E n \in 1..Len(wire["client"]) : Decrypt("client", n)
    /\ UNCHANGED <<client, server, pty, holders, user, keys, fin, rst>>

\* End of file; or an error, if the reset came after the poll: its code is
\* taken for a length and the process dies.
ClientEof ==
    /\ "socket" \in todo["client"]
    /\ wire["client"] = <<>>
    /\ ClientExits(FALSE)

\* ctrl-D counts only as the first byte of a read.
ClientKeys ==
    /\ todo["client"] = {"tty"}
    /\ Head(tty) = "key"
    /\ Served("client", "tty")
    /\ tty' = <<>>
    /\ Encrypt("client", Len(tty))
    /\ UNCHANGED <<client, server, pty, holders, typed, keys, fin>>

ClientLeaves ==
    /\ todo["client"] = {"tty"}
    /\ Head(tty) = "ctrl-D"
    /\ tty' = <<>>
    /\ ClientExit(Unread("client"))
    /\ UNCHANGED <<server, pty, holders, typed, cipher>>

\* A write on a broken connection may raise SIGPIPE.
ClientPipe ==
    /\ todo["client"] = {"tty"}
    /\ Head(tty) = "key"
    /\ Broken("client")
    /\ ClientExits(Unread("client"))

-----------------------------------------------------------------------------
(* The server's child.                                                     *)

\* Mutant of Release: nobody closes the connection.
ReleaseKept(hs, unread) == holders' = holders \ hs /\ UNCHANGED conn

\* hs close the server's end; the connection ends with its last holder.
Release(hs, unread) ==
    /\ holders' = holders \ hs
    /\ IF holders \subseteq hs
       THEN Discard("server", unread)
       ELSE UNCHANGED conn

ServerExit(hs, unread) ==
    /\ server' = "gone"
    /\ todo' = [todo EXCEPT !["server"] = {}]
    /\ Release(hs, unread)

ServerExits(unread) ==
    /\ ServerExit({"server"}, unread)
    /\ UNCHANGED <<client, pty, user, cipher>>

RecvHeader ==
    /\ server = "key"
    /\ keys["server"] = KeyLen
    /\ ~Broken("server")
    /\ server' = "name"
    /\ keys' = [p \in Ends |->
                  IF p = "client" /\ ~Closed("client") THEN KeyLen ELSE 0]
    /\ Bounce("server")
    /\ UNCHANGED <<client, todo, pty, holders, user, wire, fin, cipher>>

RecvHeaderFails ==
    /\ server = "key"
    /\ \/ \E n \in 1..keys["server"] : ServerExits(n < keys["server"])
       \/ /\ keys["server"] = 0
          /\ fin["server"] \/ Broken("server")
          /\ ServerExits(FALSE)

\* The name is what one read returns: a part of it, or more than it, or
\* nothing at the end of file.  Then the shell's process is forked; it
\* inherits the connection.
RecvName ==
    /\ server = "name"
    /\ server' = "loop"
    /\ shell' = "login"
    /\ holders' = holders \cup {"shell"}
    /\ \E n \in 0..Len(wire["server"]) :
          /\ n = 0 => wire["server"] = <<>> /\ fin["server"]
          /\ Decrypt("server", n)
    /\ UNCHANGED <<client, todo, exitLoop, out, made, user, keys, fin, rst>>

RecvNameFails ==
    /\ server = "name"
    /\ wire["server"] = <<>>
    /\ ~fin["server"]
    /\ Broken("server")
    /\ ServerExits(Unread("server"))

ServerTimeout ==
    /\ server \in {"key", "name"}
    /\ keys["server"] = 0
    /\ wire["server"] = <<>>
    /\ ServerExits(Unread("server"))

\* SIGCHLD has set exit_master_read_loop, or interrupted the poll.  Whether
\* the shell has ended or was only stopped is not asked: there is no waitpid.
ServerLeaves ==
    /\ server = "loop"
    /\ todo["server"] = {}
    /\ exitLoop
    /\ ServerExits(Unread("server"))

ServerPoll ==
    /\ server = "loop"
    /\ todo["server"] = {}
    /\ ~exitLoop
    /\ LET ready == (IF Readable("server") THEN {"socket"} ELSE {})
                        \cup (IF out > 0 THEN {"pty"} ELSE {})
       IN  /\ ready # {}
           /\ todo' = [todo EXCEPT !["server"] = ready]
    /\ UNCHANGED <<client, server, pty, holders, user, conn, cipher>>

ServerOutput ==
    /\ "pty" \in todo["server"]
    /\ Served("server", "pty")
    /\ out' = 0
    /\ Encrypt("server", out)
    /\ UNCHANGED <<client, server, shell, exitLoop, made, holders, user, keys,
                   fin>>

ServerPipe ==
    /\ "pty" \in todo["server"]
    /\ Broken("server")
    /\ ServerExits(Unread("server"))

ServerRecv ==
    /\ todo["server"] = {"socket"}
    /\ Served("server", "socket")
    /\ \E n \in 1..Len(wire["server"]) : Decrypt("server", n)
    /\ UNCHANGED <<client, server, pty, holders, user, keys, fin, rst>>

\* The write to a pseudo terminal whose shell has just gone may fail, and
\* SIGCHLD may interrupt it.
ServerRecvLate ==
    /\ todo["server"] = {"socket"}
    /\ exitLoop
    /\ \E n \in 1..Len(wire["server"]) : ServerExits(n < Len(wire["server"]))

\* Mutant of ServerEof: the shell is not killed.
ServerEofSpares ==
    /\ todo["server"] = {"socket"}
    /\ wire["server"] = <<>>
    /\ fin["server"]
    /\ ServerExit({"server"}, FALSE)
    /\ UNCHANGED <<client, pty, user, cipher>>

\* End of file: the client has left, and the shell is killed.
ServerEof ==
    /\ todo["server"] = {"socket"}
    /\ wire["server"] = <<>>
    /\ fin["server"]
    /\ shell' = "exited"
    /\ ServerExit({"server", "shell"}, FALSE)
    /\ UNCHANGED <<client, exitLoop, out, made, user, cipher>>

\* The reset came after the poll: as in ClientEof.
ServerCrash ==
    /\ todo["server"] = {"socket"}
    /\ wire["server"] = <<>>
    /\ ~fin["server"]
    /\ ServerExits(Unread("server"))

-----------------------------------------------------------------------------
(* The pseudo terminal and the user.                                       *)

Alive == shell \in {"login", "running"}

LoginSucceeds ==
    /\ shell = "login"
    /\ shell' = "running"
    /\ UNCHANGED <<client, server, todo, exitLoop, out, made, holders, user, conn,
                   cipher>>

\* A prompt, an echo or the output of a program.
ShellWrites ==
    /\ Alive
    /\ server = "loop"
    /\ made < MaxMade
    /\ made' = made + 1
    /\ out' = out + 1
    /\ UNCHANGED <<client, server, todo, shell, exitLoop, holders, user, conn,
                   cipher>>

\* A failed login, an exit, or a hangup; SIGCHLD goes to the server.
ShellExits ==
    /\ Alive
    /\ shell' = "exited"
    /\ exitLoop' = TRUE
    /\ Release({"shell"}, Unread("server"))
    /\ UNCHANGED <<client, server, todo, out, made, user, cipher>>

\* sigaction is called without SA_NOCLDSTOP: a shell that a signal stops, or
\* sets going again, makes a SIGCHLD, too.
ShellStops ==
    /\ Alive
    /\ server = "loop"
    /\ exitLoop' = TRUE
    /\ UNCHANGED <<client, server, todo, shell, out, made, holders, user, conn,
                   cipher>>

\* A program that runs on in the background holds what the shell held.
JobStarts ==
    /\ shell = "running"
    /\ holders' = holders \cup {"job"}
    /\ UNCHANGED <<client, server, todo, pty, user, conn, cipher>>

JobEnds ==
    /\ "job" \in holders
    /\ Release({"job"}, Unread("server"))
    /\ UNCHANGED <<client, server, todo, pty, user, cipher>>

UserTypes ==
    /\ client # "gone"
    /\ typed < MaxTyped
    /\ typed' = typed + 1
    /\ \E k \in {"key", "ctrl-D"} : tty' = Append(tty, k)
    /\ UNCHANGED <<client, server, todo, pty, holders, conn, cipher>>

-----------------------------------------------------------------------------

Init ==
    /\ client = "start"
    /\ server = "key"
    /\ todo = [p \in Ends |-> {}]
    /\ shell = "none"
    /\ exitLoop = FALSE
    /\ holders = {"server"}
    /\ tty = <<>>
    /\ typed = 0
    /\ out = 0
    /\ made = 0
    /\ keys = [p \in Ends |-> 0]
    /\ TcpInit
    /\ pos = [p \in Ends |-> 0]
    /\ crossed = FALSE
    /\ garbled = FALSE

ClientStep ==
    \/ SendHeader \/ RecvReply \/ RecvReplyFails \/ ClientPoll
    \/ ClientRecv \/ ClientEof \/ ClientKeys \/ ClientLeaves \/ ClientPipe

ServerStep ==
    \/ RecvHeader \/ RecvHeaderFails \/ RecvName \/ RecvNameFails
    \/ ServerLeaves \/ ServerPoll \/ ServerOutput \/ ServerPipe
    \/ ServerRecv \/ ServerRecvLate \/ ServerEof \/ ServerCrash

Surroundings ==
    \/ KeyFails \/ ReplyTimeout \/ ServerTimeout
    \/ LoginSucceeds \/ ShellWrites \/ ShellExits \/ ShellStops
    \/ JobStarts \/ JobEnds \/ UserTypes

Network == \E p \in Ends : RstArrives(p)

Next == ClientStep \/ ServerStep \/ Surroundings \/ Network

Spec == Init /\ [][Next]_vars

\* Both processes run when they can, and TCP delivers.  Nothing is assumed
\* of the user, the shell or its jobs.
FairSpec ==
    Spec /\ WF_vars(ClientStep) /\ WF_vars(ServerStep) /\ WF_vars(Network)

-----------------------------------------------------------------------------
(* Properties.                                                             *)

\* Every variable has its type.
TypeOK ==
    /\ client \in {"start", "reply", "loop", "gone"}
    /\ server \in {"key", "name", "loop", "gone"}
    /\ todo \in [Ends -> SUBSET {"socket", "tty", "pty"}]
    /\ shell \in {"none", "login", "running", "exited"}
    /\ exitLoop \in BOOLEAN
    /\ holders \subseteq {"server", "shell", "job"}
    /\ tty \in Seq({"key", "ctrl-D"})
    /\ typed \in Nat /\ out \in Nat /\ made \in Nat
    /\ keys \in [Ends -> 0..KeyLen]
    /\ wire \in [Ends -> Seq(Nat)]
    /\ fin \in [Ends -> BOOLEAN]
    /\ rst \in [Ends -> {"no", "sent", "arrived"}]
    /\ pos \in [Ends -> Nat]
    /\ crossed \in BOOLEAN /\ garbled \in BOOLEAN

\* The two keys are apart by what is on the wire, and every byte there is at
\* the position at which it will be decrypted.
Apart ==
    pos["client"] + Len(wire["client"]) = pos["server"] + Len(wire["server"])

Aligned ==
    \A p \in Ends : \A i \in 1..Len(wire[p]) : wire[p][i] = pos[p] + i

\* While the connection stands the two keys are apart by exactly what is on
\* the wire: however the name and the text are cut into reads, no byte is
\* counted twice or skipped, and when nothing is on its way the keys agree.
KeysApartByTheWire == ~Closed("client") /\ ~Closed("server") => Apart

\* Text of both ends that crosses is garbled, but only until both wires are
\* empty again: from then on everything on its way will be decrypted at the
\* positions it was encrypted at, until texts cross once more.
GarbleIsTransient == ~crossed => Aligned

\* Both ends encrypt: what one sends the other should be able to read.
NothingGarbled == ~garbled

\* The exchange of keys ends, however the headers are cut and whoever leaves.
KeyExchangeEnds == client \in {"start", "reply"} ~> client \in {"loop", "gone"}

\* A client that leaves takes its shell along, unless the connection is reset:
\* then the server's loop passes the socket over and the shell may stay; or
\* the shell was stopped before, and the server has left or will leave it.
LeavingEndsShell ==
    client = "gone" ~>
        shell \in {"none", "exited"} \/ rst["server"] # "no" \/ exitLoop

\* The end of the shell ends the client, unless the connection is reset or a
\* program in the background still holds it.
ShellExitEndsClient ==
    shell = "exited" ~>
        client = "gone" \/ rst["client"] # "no" \/ "job" \in holders

\* A shell outlives the server's process only after a reset, or after a
\* SIGCHLD that was not its end: it was stopped once.
ShellHasServer ==
    Alive /\ server = "gone" => Broken("server") \/ exitLoop

-----------------------------------------------------------------------------
(* Why the keys stay apart by the wire: what a step relies on.             *)

\* Who runs holds its end; who has descriptors to serve is in its loop.
RunnersHold ==
    /\ server # "gone" => "server" \in holders
    /\ Alive => "shell" \in holders
    /\ todo["client"] # {} => client = "loop"
    /\ todo["server"] # {} => server = "loop"

\* A reset is the answer of an end that has closed.
ResetAfterClose == \A p \in Ends : rst[p] # "no" => Closed(Other(p))

\* The invariant that the two sides keep while they encrypt, decrypt and
\* close: the keys, the wire and the ends of the connection fit together.
IInv ==
    /\ RunnersHold
    /\ ResetAfterClose
    /\ KeysApartByTheWire
    /\ GarbleIsTransient

\* What keeps a shell with its server: no shell before the server's loop, and
\* a socket that poll found readable stays so, or is reset.
SocketStaysReady ==
    "socket" \in todo["server"] =>
        wire["server"] # <<>> \/ fin["server"] \/ Broken("server")

ShellAfterName == server \in {"key", "name"} => shell = "none"

\* The invariant behind ShellHasServer.
ShellInv ==
    /\ RunnersHold
    /\ ResetAfterClose
    /\ SocketStaysReady
    /\ ShellAfterName
    /\ ShellHasServer
=============================================================================
