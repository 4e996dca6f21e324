------------------------------ MODULE Discovery ------------------------------
(***************************************************************************)
(* The search for servers by broadcast and its history file: the broadcast *)
(* services answer a request, each search (ssh_client -b) is a process     *)
(* that asks once, rewrites the history file and adds a line per answer    *)
(* until its alarm rings, and readers (ssh_client --history) print that    *)
(* file.  Several users may do so at once; there is one file.              *)
(* The file is a sequence of lines: a line is written by one write, and    *)
(* its text is who wrote it and what it says.  Requests and answers may be *)
(* lost; the local network does not duplicate them.                        *)
(***************************************************************************)
EXTENDS Integers, Sequences

CONSTANTS
    Services,  \* the processes that run broadcast_server_udp_interface
    Searches,  \* the processes that run broadcast_client_interface
    Readers    \* the processes that run print_ssh_history

VARIABLES
    serving,  \* the services that have bound their sockets and not returned
    asked,    \* the requests on their way: search and service
    answers,  \* the answers on their way
    at,       \* at[c]: where the search c is
    found,    \* found[c]: who answered c; its length is number_servers
    file,     \* the history file
    pos,      \* pos[c]: c's offset in it
    reader,   \* reader[r]: where the reader r is
    size,     \* size[r]: what fstat told it
    printed,  \* printed[r]: what it printed
    last,     \* history: the searches that truncated the file, the last only
    overlap   \* history: one truncated it while another had it open

network == <<asked, answers>>
search == <<at, found>>
history == <<file, pos, last, overlap>>
readers == <<reader, size, printed>>

vars == <<serving, network, search, history, readers>>

\* The places in which a search holds the file open, and all of them.
Writing == {"truncated", "search", "deaf", "ending"}
Places == {"idle", "bound", "asked", "over", "failed"} \cup Writing

Goto(c, p) == at' = [at EXCEPT ![c] = p]

-----------------------------------------------------------------------------
(* The service.                                                            *)

Serve(s) ==
    /\ s \notin serving
    /\ serving' = serving \cup {s}
    /\ UNCHANGED <<network, search, history, readers>>

\* Only a call that fails ends its loop; or the daemon is ended.
ServiceReturns(s) ==
    /\ serving' = serving \ {s}
    /\ asked' = {a \in asked : a[2] # s}
    /\ UNCHANGED <<answers, search, history, readers>>

\* The answer goes to the address the request came from.
Answer(s, c) ==
    /\ s \in serving
    /\ <<c, s>> \in asked
    /\ asked' = asked \ {<<c, s>>}
    /\ answers' = answers \cup {<<c, s>>}
    /\ UNCHANGED <<serving, search, history, readers>>

-----------------------------------------------------------------------------
(* The search.                                                             *)

Configure(c) ==
    /\ at[c] = "idle"
    /\ Goto(c, "bound")
    /\ UNCHANGED <<serving, network, found, history, readers>>

\* One request, once, for whoever serves and hears it.
Ask(c) ==
    /\ at[c] = "bound"
    /\ Goto(c, "asked")
    /\ \E ss \in SUBSET serving : asked' = asked \cup ({c} \X ss)
    /\ UNCHANGED <<serving, answers, found, history, readers>>

\* ssh_history_setup: O_TRUNC empties the file, whoever else is writing it.
Truncate(c) ==
    /\ at[c] = "asked"
    /\ Goto(c, "truncated")
    /\ file' = <<>>
    /\ last' = c
    /\ overlap' = (overlap \/ \E d \in Searches : at[d] \in Writing)
    /\ UNCHANGED <<serving, network, found, pos, readers>>

Hole == [kind |-> "hole"]

\* write at the offset of c's own descriptor: over what is there, and beyond
\* the end of a file that was truncated meanwhile.
Write(c, line) ==
    LET n == IF pos[c] < Len(file) THEN Len(file) ELSE pos[c] + 1
    IN  /\ pos' = [pos EXCEPT ![c] = @ + 1]
        /\ file' = [i \in 1..n |-> IF i = pos[c] + 1 THEN line
                                   ELSE IF i <= Len(file) THEN file[i] ELSE Hole]
        /\ UNCHANGED <<last, overlap>>

HeaderLine(c) == [kind |-> "header", by |-> c]
ServerLine(c, n, s) == [kind |-> "server", by |-> c, n |-> n, of |-> s]
NotFoundLine(c) == [kind |-> "none", by |-> c]

WriteHeader(c) ==
    /\ at[c] = "truncated"
    /\ Goto(c, "search")
    /\ Write(c, HeaderLine(c))
    /\ UNCHANGED <<serving, network, found, readers>>

Collects(c, s) ==
    /\ at[c] = "search"
    /\ <<c, s>> \in answers
    /\ answers' = answers \ {<<c, s>>}
    /\ found' = [found EXCEPT ![c] = Append(@, s)]

Collect(c, s) ==
    /\ Collects(c, s)
    /\ Write(c, ServerLine(c, Len(found[c]) + 1, s))
    /\ UNCHANGED <<serving, asked, at, readers>>

\* The write fails: the server has been counted, and the search returns.
CollectFails(c, s) ==
    /\ Collects(c, s)
    /\ Goto(c, "failed")
    /\ UNCHANGED <<serving, asked, history, readers>>

\* An error of recvfrom closes the socket, not the loop: until the alarm
\* every further call fails.
SocketFails(c) ==
    /\ at[c] = "search"
    /\ Goto(c, "deaf")
    /\ UNCHANGED <<serving, network, found, history, readers>>

\* The alarm: what is still in the socket is not read.
Alarm(c) ==
    /\ at[c] \in {"search", "deaf"}
    /\ Goto(c, "ending")
    /\ UNCHANGED <<serving, network, found, history, readers>>

\* ssh_history_no_server, and the end of the search.
EndWithout(c) ==
    /\ at[c] = "ending"
    /\ found[c] = <<>>
    /\ Goto(c, "over")
    /\ Write(c, NotFoundLine(c))
    /\ UNCHANGED <<serving, network, found, readers>>

EndWith(c) ==
    /\ at[c] = "ending"
    /\ found[c] # <<>>
    /\ Goto(c, "over")
    /\ UNCHANGED <<serving, network, found, history, readers>>

\* A call before the loop fails, the write of the last line does, or the
\* process is killed.
SearchFails(c) ==
    /\ at[c] \notin {"idle", "over", "failed"}
    /\ Goto(c, "failed")
    /\ UNCHANGED <<serving, network, found, history, readers>>

-----------------------------------------------------------------------------
(* print_ssh_history.                                                      *)

ReadSize(r) ==
    /\ reader[r] = "idle"
    /\ size' = [size EXCEPT ![r] = Len(file)]
    /\ reader' = [reader EXCEPT ![r] = IF file = <<>> THEN "failed" ELSE "stated"]
    /\ UNCHANGED <<serving, network, search, history, printed>>

\* The file may have been truncated, or have grown, since fstat.
ReadAndPrint(r) ==
    /\ reader[r] = "stated"
    /\ IF Len(file) < size[r]
       THEN /\ reader' = [reader EXCEPT ![r] = "failed"]
            /\ UNCHANGED printed
       ELSE /\ reader' = [reader EXCEPT ![r] = "over"]
            /\ printed' = [printed EXCEPT ![r] = [i \in 1..size[r] |-> file[i]]]
    /\ UNCHANGED <<serving, network, search, history, size>>

\* open, calloc or read fails.
ReadFails(r) ==
    /\ reader[r] \in {"idle", "stated"}
    /\ reader' = [reader EXCEPT ![r] = "failed"]
    /\ UNCHANGED <<serving, network, search, history, size, printed>>

-----------------------------------------------------------------------------
(* The network.                                                            *)

Lose ==
    /\ \/ \E a \in asked : asked' = asked \ {a} /\ UNCHANGED answers
       \/ \E a \in answers : answers' = answers \ {a} /\ UNCHANGED asked
    /\ UNCHANGED <<serving, search, history, readers>>

-----------------------------------------------------------------------------

Init ==
    /\ serving = {}
    /\ asked = {} /\ answers = {}
    /\ at = [c \in Searches |-> "idle"]
    /\ found = [c \in Searches |-> <<>>]
    /\ file = <<>>
    /\ pos = [c \in Searches |-> 0]
    /\ reader = [r \in Readers |-> "idle"]
    /\ size = [r \in Readers |-> 0]
    /\ printed = [r \in Readers |-> <<>>]
    /\ last \in Searches
    /\ overlap = FALSE

ServiceStep(s) ==
    Serve(s) \/ ServiceReturns(s) \/ \E c \in Searches : Answer(s, c)

SearchStep(c) ==
    \/ Configure(c) \/ Ask(c) \/ Truncate(c) \/ WriteHeader(c)
    \/ \E s \in Services : Collect(c, s) \/ CollectFails(c, s)
    \/ SocketFails(c) \/ Alarm(c) \/ EndWithout(c) \/ EndWith(c)
    \/ SearchFails(c)

ReaderStep(r) == ReadSize(r) \/ ReadAndPrint(r) \/ ReadFails(r)

Next ==
    \/ \E s \in Services : ServiceStep(s)
    \/ \E c \in Searches : SearchStep(c)
    \/ \E r \in Readers : ReaderStep(r)
    \/ Lose

Spec == Init /\ [][Next]_vars

-----------------------------------------------------------------------------
(* Properties.                                                             *)

Lines ==
    [kind : {"header", "none"}, by : Searches]
       \cup [kind : {"server"}, by : Searches, n : Nat, of : Services]
       \cup {Hole}

\* Every variable has its type.
TypeOK ==
    /\ serving \subseteq Services
    /\ asked \subseteq Searches \X Services
    /\ answers \subseteq Searches \X Services
    /\ at \in [Searches -> Places]
    /\ found \in [Searches -> Seq(Services)]
    /\ file \in Seq(Lines)
    /\ pos \in [Searches -> Nat]
    /\ reader \in [Readers -> {"idle", "stated", "over", "failed"}]
    /\ size \in [Readers -> Nat]
    /\ printed \in [Readers -> Seq(Lines)]
    /\ last \in Searches
    /\ overlap \in BOOLEAN

\* The i-th line of the list that search c makes.
LineOf(c, i) ==
    IF i = 1 THEN HeaderLine(c)
    ELSE IF i - 1 <= Len(found[c]) THEN ServerLine(c, i - 1, found[c][i - 1])
    ELSE NotFoundLine(c)

ListOf(c, n) == [i \in 1..n |-> LineOf(c, i)]

\* A search lists a service once, although it does not remember who has
\* answered and every answer looks the same: it asks once, from a port that
\* no earlier search has used, and a service answers a request once.
EachServiceOnce ==
    \A c \in Searches : \A i, j \in 1..Len(found[c]) :
        found[c][i] = found[c][j] => i = j

\* While no search empties the file under another, the file is what the last
\* one has made of it, without a line of an earlier one, and when that search
\* is over all it has found is there, or the line that there was nothing.
HistoryIsLastSearch ==
    ~overlap =>
        /\ file = ListOf(last, pos[last])
        /\ at[last] = "over" =>
              pos[last] = IF found[last] = <<>> THEN 2 ELSE Len(found[last]) + 1

\* What a reader prints is then the beginning of the list of one search,
\* although the file may be emptied and written again between its fstat and
\* its read.
PrintedIsOneList ==
    ~overlap =>
        \A r \in Readers : reader[r] = "over" =>
            \E c \in Searches : printed[r] = ListOf(c, size[r])

-----------------------------------------------------------------------------
(* Why: what a step relies on.                                             *)

\* A service that c has found has no request and no answer of c's left, nor
\* has one whose answer is under way a request; before c asks there is none.
Pairs ==
    \A c \in Searches, s \in Services :
        /\ <<c, s>> \in answers => <<c, s>> \notin asked
        /\ \A i \in 1..Len(found[c]) :
              found[c][i] = s => <<c, s>> \notin asked \cup answers
        /\ at[c] \in {"idle", "bound"} => <<c, s>> \notin asked \cup answers

\* A search's offset is what it has written.
Offsets ==
    \A c \in Searches :
        /\ at[c] \in {"idle", "bound", "asked", "truncated"} =>
              pos[c] = 0 /\ found[c] = <<>>
        /\ at[c] \in {"search", "deaf", "ending"} => pos[c] = Len(found[c]) + 1

\* Nobody else writes what the last search does.
Alone == ~overlap => \A c \in Searches : at[c] \in Writing => c = last

\* The list that a reader has printed from was at least that long.
PrintedOnce ==
    ~overlap =>
        \A r \in Readers : reader[r] = "over" =>
            \E c \in Searches :
                size[r] <= pos[c] /\ printed[r] = ListOf(c, size[r])

IInv == Pairs /\ EachServiceOnce /\ Offsets /\ Alone /\ HistoryIsLastSearch
          /\ PrintedOnce
=============================================================================
