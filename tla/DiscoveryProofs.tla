--------------------------- MODULE DiscoveryProofs ---------------------------
(* What the search for servers leaves in its history file, for any number   *)
(* of services, searches and readers.                                       *)
EXTENDS Discovery, TLAPS

-----------------------------------------------------------------------------
(* The file.                                                               *)

LEMMA LinesAreLines ==
    ASSUME NEW c \in Searches, NEW s \in Services, NEW n \in Nat
    PROVE  /\ HeaderLine(c) \in Lines
           /\ ServerLine(c, n, s) \in Lines
           /\ NotFoundLine(c) \in Lines
  BY DEF HeaderLine, ServerLine, NotFoundLine, Lines

\* A write moves the offset by one and leaves a file of lines.
LEMMA WriteTypes ==
    ASSUME TypeOK, NEW c \in Searches, NEW line \in Lines, Write(c, line)
    PROVE  /\ pos' = [pos EXCEPT ![c] = @ + 1]
           /\ file' \in Seq(Lines)
           /\ last' = last /\ overlap' = overlap
  <1>1. pos[c] \in Nat /\ Len(file) \in Nat /\ file \in Seq(Lines)
    BY DEF TypeOK
  <1>2. Hole \in Lines
    BY DEF Lines, Hole
  <1>3. PICK n \in Nat :
          file' = [i \in 1..n |-> IF i = pos[c] + 1 THEN line
                                  ELSE IF i <= Len(file) THEN file[i] ELSE Hole]
    BY <1>1 DEF Write
  <1>4. \A i \in 1..n : (IF i = pos[c] + 1 THEN line
                         ELSE IF i <= Len(file) THEN file[i] ELSE Hole) \in Lines
    BY <1>1, <1>2
  <1>5. file' \in Seq(Lines)
    BY <1>3, <1>4
  <1> QED
    BY <1>5 DEF Write

\* At the end of the file it appends.
LEMMA WriteAppends ==
    ASSUME TypeOK, NEW c \in Searches, NEW line, Write(c, line),
           Len(file) = pos[c]
    PROVE  file' = [i \in 1..(pos[c] + 1) |->
                      IF i = pos[c] + 1 THEN line ELSE file[i]]
  <1>1. pos[c] \in Nat /\ Len(file) \in Nat
    BY DEF TypeOK
  <1>2. file' = [i \in 1..(pos[c] + 1) |->
                   IF i = pos[c] + 1 THEN line
                   ELSE IF i <= Len(file) THEN file[i] ELSE Hole]
    BY <1>1 DEF Write
  <1>3. \A i \in 1..(pos[c] + 1) : i # pos[c] + 1 => i <= Len(file)
    BY <1>1
  <1> QED
    BY <1>2, <1>3

-----------------------------------------------------------------------------
(* Types.                                                                  *)

LEMMA GotoTypes ==
    ASSUME TypeOK, NEW c \in Searches, NEW p \in Places, Goto(c, p)
    PROVE  at' \in [Searches -> Places]
  BY DEF TypeOK, Goto

LEMMA CollectsTypes ==
    ASSUME TypeOK, NEW c \in Searches, NEW s \in Services, Collects(c, s)
    PROVE  /\ answers' \subseteq Searches \X Services
           /\ found' \in [Searches -> Seq(Services)]
  BY DEF TypeOK, Collects

LEMMA InitTypes == Init => TypeOK
  <1> SUFFICES ASSUME Init PROVE TypeOK
    OBVIOUS
  <1>1. <<>> \in Seq(Services) /\ <<>> \in Seq(Lines)
    OBVIOUS
  <1> QED
    BY <1>1 DEF Init, TypeOK, Places

LEMMA ServiceTypes ==
    ASSUME TypeOK, NEW s \in Services, ServiceStep(s)
    PROVE  TypeOK'
  <1>1. CASE Serve(s)
    BY <1>1 DEF Serve, network, search, history, readers, TypeOK
  <1>2. CASE ServiceReturns(s)
    BY <1>2 DEF ServiceReturns, search, history, readers, TypeOK
  <1>3. CASE \E c \in Searches : Answer(s, c)
    BY <1>3 DEF Answer, search, history, readers, TypeOK
  <1> QED
    BY <1>1, <1>2, <1>3 DEF ServiceStep

LEMMA SearchTypes ==
    ASSUME TypeOK, NEW c \in Searches, SearchStep(c)
    PROVE  TypeOK'
  <1>0. pos[c] \in Nat /\ found[c] \in Seq(Services) /\ Len(found[c]) \in Nat
    BY DEF TypeOK
  <1>1. CASE Configure(c)
    BY <1>1, GotoTypes DEF Configure, network, history, readers, TypeOK, Places
  <1>2. CASE Ask(c)
    <2>1. at' \in [Searches -> Places]
      BY <1>2, GotoTypes DEF Ask, Places
    <2>2. asked' \subseteq Searches \X Services
      BY <1>2 DEF Ask, TypeOK
    <2> QED
      BY <1>2, <2>1, <2>2 DEF Ask, history, readers, TypeOK
  <1>3. CASE Truncate(c)
    <2>1. at' \in [Searches -> Places]
      BY <1>3, GotoTypes DEF Truncate, Places, Writing
    <2>2. file' \in Seq(Lines) /\ last' \in Searches /\ overlap' \in BOOLEAN
      BY <1>3 DEF Truncate, TypeOK
    <2> QED
      BY <1>3, <2>1, <2>2 DEF Truncate, network, readers, TypeOK
  <1>4. CASE WriteHeader(c)
    <2>1. at' \in [Searches -> Places]
      BY <1>4, GotoTypes DEF WriteHeader, Places, Writing
    <2>2. /\ pos' = [pos EXCEPT ![c] = @ + 1]
          /\ file' \in Seq(Lines)
          /\ last' = last /\ overlap' = overlap
      <3>1. HeaderLine(c) \in Lines
        BY DEF HeaderLine, Lines
      <3> QED
        BY <1>4, <3>1, WriteTypes DEF WriteHeader
    <2>3. pos' \in [Searches -> Nat]
      BY <1>0, <2>2 DEF TypeOK
    <2> QED
      BY <1>4, <2>1, <2>2, <2>3 DEF WriteHeader, network, readers, TypeOK
  <1>5. ASSUME NEW s \in Services, Collect(c, s)
        PROVE  TypeOK'
    <2>1. /\ answers' \subseteq Searches \X Services
          /\ found' \in [Searches -> Seq(Services)]
      BY <1>5, CollectsTypes DEF Collect
    <2>2. /\ pos' = [pos EXCEPT ![c] = @ + 1]
          /\ file' \in Seq(Lines)
          /\ last' = last /\ overlap' = overlap
      <3>1. ServerLine(c, Len(found[c]) + 1, s) \in Lines
        BY <1>0, <1>5, LinesAreLines
      <3> QED
        BY <1>5, <3>1, WriteTypes DEF Collect
    <2>3. pos' \in [Searches -> Nat]
      BY <1>0, <2>2 DEF TypeOK
    <2> QED
      BY <1>5, <2>1, <2>2, <2>3 DEF Collect, readers, TypeOK
  <1>6. ASSUME NEW s \in Services, CollectFails(c, s)
        PROVE  TypeOK'
    <2>1. /\ answers' \subseteq Searches \X Services
          /\ found' \in [Searches -> Seq(Services)]
      BY <1>6, CollectsTypes DEF CollectFails
    <2>2. at' \in [Searches -> Places]
      BY <1>6, GotoTypes DEF CollectFails, Places
    <2> QED
      BY <1>6, <2>1, <2>2 DEF CollectFails, history, readers, TypeOK
  <1>7. CASE SocketFails(c)
    <2>1. at' \in [Searches -> Places]
      BY <1>7, GotoTypes DEF SocketFails, Places, Writing
    <2> QED
      BY <1>7, <2>1 DEF SocketFails, network, history, readers, TypeOK
  <1>8. CASE Alarm(c)
    <2>1. at' \in [Searches -> Places]
      BY <1>8, GotoTypes DEF Alarm, Places, Writing
    <2> QED
      BY <1>8, <2>1 DEF Alarm, network, history, readers, TypeOK
  <1>9. CASE EndWithout(c)
    <2>1. at' \in [Searches -> Places]
      BY <1>9, GotoTypes DEF EndWithout, Places
    <2>2. /\ pos' = [pos EXCEPT ![c] = @ + 1]
          /\ file' \in Seq(Lines)
          /\ last' = last /\ overlap' = overlap
      <3>1. NotFoundLine(c) \in Lines
        BY DEF NotFoundLine, Lines
      <3> QED
        BY <1>9, <3>1, WriteTypes DEF EndWithout
    <2>3. pos' \in [Searches -> Nat]
      BY <1>0, <2>2 DEF TypeOK
    <2> QED
      BY <1>9, <2>1, <2>2, <2>3 DEF EndWithout, network, readers, TypeOK
  <1>10. CASE EndWith(c)
    BY <1>10, GotoTypes DEF EndWith, network, history, readers, TypeOK, Places
  <1>11. CASE SearchFails(c)
    BY <1>11, GotoTypes DEF SearchFails, network, history, readers, TypeOK, Places
  <1> QED
    BY <1>1, <1>2, <1>3, <1>4, <1>5, <1>6, <1>7, <1>8, <1>9, <1>10, <1>11
       DEF SearchStep

LEMMA ReaderTypes ==
    ASSUME TypeOK, NEW r \in Readers, ReaderStep(r)
    PROVE  TypeOK'
  <1>0. Len(file) \in Nat /\ file \in Seq(Lines) /\ size[r] \in Nat
    BY DEF TypeOK
  <1>1. CASE ReadSize(r)
    BY <1>0, <1>1 DEF ReadSize, network, search, history, TypeOK
  <1>2. CASE ReadAndPrint(r)
    <2>1. reader' \in [Readers -> {"idle", "stated", "over", "failed"}]
      BY <1>2 DEF ReadAndPrint, TypeOK
    <2>2. printed' \in [Readers -> Seq(Lines)]
      <3>1. CASE Len(file) < size[r]
        BY <1>2, <3>1 DEF ReadAndPrint, TypeOK
      <3>2. CASE ~(Len(file) < size[r])
        <4>1. \A i \in 1..size[r] : file[i] \in Lines
          BY <1>0, <3>2
        <4>2. [i \in 1..size[r] |-> file[i]] \in Seq(Lines)
          BY <1>0, <4>1
        <4>3. printed' = [printed EXCEPT ![r] = [i \in 1..size[r] |-> file[i]]]
          BY <1>2, <3>2 DEF ReadAndPrint
        <4> QED
          BY <4>2, <4>3 DEF TypeOK
      <3> QED
        BY <3>1, <3>2
    <2> QED
      BY <1>2, <2>1, <2>2 DEF ReadAndPrint, network, search, history, TypeOK
  <1>3. CASE ReadFails(r)
    BY <1>3 DEF ReadFails, network, search, history, TypeOK
  <1> QED
    BY <1>1, <1>2, <1>3 DEF ReaderStep

LEMMA LoseTypes ==
    ASSUME TypeOK, Lose
    PROVE  TypeOK'
  BY DEF Lose, search, history, readers, TypeOK

\* A step keeps the types.
LEMMA NextTypes == TypeOK /\ [Next]_vars => TypeOK'
  <1>1. ASSUME TypeOK, UNCHANGED vars
        PROVE  TypeOK'
    BY <1>1 DEF vars, network, search, history, readers, TypeOK
  <1> QED
    BY <1>1, ServiceTypes, SearchTypes, ReaderTypes, LoseTypes DEF Next

\* Every variable has its type.
THEOREM TypeCorrect == Spec => []TypeOK
  BY InitTypes, NextTypes, PTL DEF Spec

-----------------------------------------------------------------------------
(* Who is found.                                                           *)

\* Where requests and answers only get fewer and nobody is found or goes back
\* all stays as it is.
LEMMA PairsShrink ==
    ASSUME Pairs, EachServiceOnce,
           asked' \subseteq asked, answers' \subseteq answers, found' = found,
           \A c \in Searches :
               at'[c] \in {"idle", "bound"} => at[c] \in {"idle", "bound"}
    PROVE  Pairs' /\ EachServiceOnce'
  <1>1. Pairs'
    BY DEF Pairs
  <1>2. EachServiceOnce'
    BY DEF EachServiceOnce
  <1> QED
    BY <1>1, <1>2

\* The one who is found had not been found before, and will not be again.
LEMMA PairsCollect ==
    ASSUME TypeOK, Pairs, EachServiceOnce,
           NEW c \in Searches, NEW s \in Services, Collects(c, s),
           UNCHANGED asked,
           \A d \in Searches :
               at'[d] \in {"idle", "bound"} => at[d] \in {"idle", "bound"}
    PROVE  Pairs' /\ EachServiceOnce'
  <1>1. /\ found[c] \in Seq(Services) /\ Len(found[c]) \in Nat
        /\ found'[c] = Append(found[c], s)
        /\ \A d \in Searches : d # c => found'[d] = found[d]
    BY DEF TypeOK, Collects
  <1>2. /\ Len(found'[c]) = Len(found[c]) + 1
        /\ found'[c][Len(found[c]) + 1] = s
        /\ \A i \in 1..Len(found[c]) : found'[c][i] = found[c][i]
    BY <1>1
  <1>3. \A i \in 1..Len(found[c]) : found[c][i] # s
    BY DEF Pairs, Collects
  <1>4. <<c, s>> \notin asked /\ <<c, s>> \notin answers'
    BY DEF Pairs, Collects
  <1>5. answers' \subseteq answers
    BY DEF Collects
  <1>6. EachServiceOnce'
    <2> SUFFICES ASSUME NEW d \in Searches,
                        NEW i \in 1..Len(found'[d]), NEW j \in 1..Len(found'[d]),
                        found'[d][i] = found'[d][j]
                 PROVE  i = j
      BY DEF EachServiceOnce
    <2>1. CASE d # c
      BY <1>1, <2>1 DEF EachServiceOnce
    <2>2. CASE d = c
      <3>1. \A k \in 1..Len(found'[c]) :
              k = Len(found[c]) + 1 \/ k \in 1..Len(found[c])
        BY <1>1, <1>2
      <3>2. CASE i \in 1..Len(found[c]) /\ j \in 1..Len(found[c])
        BY <1>2, <2>2, <3>2 DEF EachServiceOnce
      <3>3. CASE i = Len(found[c]) + 1 /\ j \in 1..Len(found[c])
        BY <1>2, <1>3, <2>2, <3>3
      <3>4. CASE j = Len(found[c]) + 1 /\ i \in 1..Len(found[c])
        BY <1>2, <1>3, <2>2, <3>4
      <3> QED
        BY <2>2, <3>1, <3>2, <3>3, <3>4
    <2> QED
      BY <2>1, <2>2
  <1>7. Pairs'
    <2> SUFFICES ASSUME NEW d \in Searches, NEW t \in Services
                 PROVE  /\ <<d, t>> \in answers' => <<d, t>> \notin asked'
                        /\ \A i \in 1..Len(found'[d]) :
                              found'[d][i] = t => <<d, t>> \notin asked' \cup answers'
                        /\ at'[d] \in {"idle", "bound"} =>
                              <<d, t>> \notin asked' \cup answers'
      BY DEF Pairs
    <2>1. <<d, t>> \in answers' => <<d, t>> \notin asked'
      BY <1>5 DEF Pairs
    <2>2. ASSUME NEW i \in 1..Len(found'[d]), found'[d][i] = t
          PROVE  <<d, t>> \notin asked' \cup answers'
      <3>1. CASE d # c
        BY <1>1, <1>5, <2>2, <3>1 DEF Pairs
      <3>2. CASE d = c /\ i \in 1..Len(found[c])
        BY <1>2, <1>5, <2>2, <3>2 DEF Pairs
      <3>3. CASE d = c /\ i = Len(found[c]) + 1
        BY <1>2, <1>4, <2>2, <3>3
      <3> QED
        BY <1>1, <1>2, <2>2, <3>1, <3>2, <3>3
    <2>3. at'[d] \in {"idle", "bound"} => <<d, t>> \notin asked' \cup answers'
      BY <1>5 DEF Pairs
    <2> QED
      BY <2>1, <2>2, <2>3
  <1> QED
    BY <1>6, <1>7

LEMMA PairsAnswer ==
    ASSUME TypeOK, Pairs, EachServiceOnce,
           NEW c \in Searches, NEW s \in Services, Answer(s, c)
    PROVE  Pairs' /\ EachServiceOnce'
  <1>1. EachServiceOnce'
    BY DEF Answer, search, EachServiceOnce
  <1>2. /\ asked' = asked \ {<<c, s>>} /\ answers' = answers \cup {<<c, s>>}
        /\ <<c, s>> \in asked /\ found' = found /\ at' = at
    BY DEF Answer, search
  <1>3. Pairs'
    BY <1>2 DEF Pairs
  <1> QED
    BY <1>1, <1>3

LEMMA PairsAsk ==
    ASSUME TypeOK, Pairs, EachServiceOnce, Offsets, NEW c \in Searches, Ask(c)
    PROVE  Pairs' /\ EachServiceOnce'
  <1>1. EachServiceOnce'
    BY DEF Ask, EachServiceOnce
  <1>2. PICK ss \in SUBSET serving : asked' = asked \cup ({c} \X ss)
    BY DEF Ask
  <1>3. /\ answers' = answers /\ found' = found
        /\ at[c] = "bound" /\ at'[c] = "asked"
        /\ \A d \in Searches : d # c => at'[d] = at[d]
    BY DEF Ask, Goto, TypeOK
  <1>4. found[c] = <<>> /\ \A s \in Services : <<c, s>> \notin answers
    BY <1>3 DEF Offsets, Pairs
  <1>5. \A d \in Searches, s \in Services :
          d # c => (<<d, s>> \in asked' <=> <<d, s>> \in asked)
    BY <1>2
  <1>6. Pairs'
    <2> SUFFICES ASSUME NEW d \in Searches, NEW t \in Services
                 PROVE  /\ <<d, t>> \in answers' => <<d, t>> \notin asked'
                        /\ \A i \in 1..Len(found'[d]) :
                              found'[d][i] = t => <<d, t>> \notin asked' \cup answers'
                        /\ at'[d] \in {"idle", "bound"} =>
                              <<d, t>> \notin asked' \cup answers'
      BY DEF Pairs
    <2>1. CASE d # c
      BY <1>3, <1>5, <2>1 DEF Pairs
    <2>2. CASE d = c
      BY <1>3, <1>4, <2>2
    <2> QED
      BY <2>1, <2>2
  <1> QED
    BY <1>1, <1>6

-----------------------------------------------------------------------------
(* What is in the file.                                                    *)

\* A list does not change where it has been written.
LEMMA ListKept ==
    ASSUME TypeOK, NEW c \in Searches, NEW s \in Services, Collects(c, s),
           NEW d \in Searches, NEW n \in Nat,
           d = c => n <= Len(found[c]) + 1
    PROVE  ListOf(d, n)' = ListOf(d, n)
  <1>1. /\ found[c] \in Seq(Services) /\ Len(found[c]) \in Nat
        /\ found'[c] = Append(found[c], s)
        /\ d # c => found'[d] = found[d]
    BY DEF TypeOK, Collects
  <1>2. CASE d # c
    BY <1>1, <1>2 DEF ListOf, LineOf, HeaderLine, ServerLine, NotFoundLine
  <1>3. CASE d = c
    <2>1. \A i \in 1..n : i = 1 \/ i - 1 \in 1..Len(found[c])
      BY <1>1, <1>3
    <2>2. \A k \in 1..Len(found[c]) :
             k <= Len(found'[c]) /\ found'[c][k] = found[c][k] /\ k <= Len(found[c])
      BY <1>1
    <2>3. \A i \in 1..n : LineOf(d, i)' = LineOf(d, i)
      BY <1>3, <2>1, <2>2 DEF LineOf, HeaderLine, ServerLine, NotFoundLine
    <2> QED
      BY <2>3 DEF ListOf
  <1> QED
    BY <1>2, <1>3

\* Where found is unchanged every list is.
LEMMA ListSame ==
    ASSUME found' = found, NEW d, NEW n
    PROVE  ListOf(d, n)' = ListOf(d, n)
  BY DEF ListOf, LineOf, HeaderLine, ServerLine, NotFoundLine

\* The last search appends the next line of its list.
LEMMA ListGrows ==
    ASSUME TypeOK, NEW c \in Searches, NEW line, Write(c, line),
           NEW n \in Nat, n = pos[c] + 1,
           file = ListOf(c, pos[c]),
           \A i \in 1..pos[c] : LineOf(c, i)' = LineOf(c, i),
           line = LineOf(c, n)'
    PROVE  file' = ListOf(c, pos[c])'
  <1>1. pos[c] \in Nat /\ pos'[c] = n
    BY DEF TypeOK, Write
  <1>2. Len(file) = pos[c] /\ \A i \in 1..pos[c] : file[i] = LineOf(c, i)
    BY <1>1 DEF ListOf
  <1>3. file' = [i \in 1..n |-> IF i = n THEN line ELSE file[i]]
    BY <1>2, WriteAppends
  <1>4. \A i \in 1..n : i = n \/ i \in 1..pos[c]
    BY <1>1
  <1>5. \A i \in 1..n : (IF i = n THEN line ELSE file[i]) = LineOf(c, i)'
    BY <1>2, <1>4
  <1>6. ListOf(c, pos[c])' = [i \in 1..n |-> LineOf(c, i)']
    BY <1>1 DEF ListOf
  <1> QED
    BY <1>3, <1>5, <1>6

-----------------------------------------------------------------------------
(* Offsets.                                                                *)

\* What a search relies on only its own steps change.
LEMMA OffsetsKept ==
    ASSUME Offsets, NEW c \in Searches,
           \A d \in Searches \ {c} :
               at'[d] = at[d] /\ pos'[d] = pos[d] /\ found'[d] = found[d],
           at'[c] \in {"idle", "bound", "asked", "truncated"} =>
               pos'[c] = 0 /\ found'[c] = <<>>,
           at'[c] \in {"search", "deaf", "ending"} =>
               pos'[c] = Len(found'[c]) + 1
    PROVE  Offsets'
  BY DEF Offsets

LEMMA SearchOffsets ==
    ASSUME TypeOK, Offsets, NEW c \in Searches, SearchStep(c)
    PROVE  Offsets'
  <1>0. pos[c] \in Nat /\ found[c] \in Seq(Services) /\ Len(found[c]) \in Nat
    BY DEF TypeOK
  <1>a. ASSUME NEW p \in Places, Goto(c, p)
        PROVE  at'[c] = p /\ \A d \in Searches \ {c} : at'[d] = at[d]
    BY <1>a DEF Goto, TypeOK
  <1>b. ASSUME NEW line, Write(c, line)
        PROVE  pos'[c] = pos[c] + 1 /\ \A d \in Searches \ {c} : pos'[d] = pos[d]
    BY <1>b DEF Write, TypeOK
  <1>c. ASSUME NEW s \in Services, Collects(c, s)
        PROVE  /\ Len(found'[c]) = Len(found[c]) + 1
               /\ \A d \in Searches \ {c} : found'[d] = found[d]
    BY <1>0, <1>c DEF Collects, TypeOK
  <1>1. CASE Configure(c)
    BY <1>1, <1>a, OffsetsKept DEF Configure, history, Places, Offsets
  <1>2. CASE Ask(c)
    BY <1>2, <1>a, OffsetsKept DEF Ask, history, Places, Offsets
  <1>3. CASE Truncate(c)
    BY <1>3, <1>a, OffsetsKept DEF Truncate, Places, Writing, Offsets
  <1>4. CASE WriteHeader(c)
    <2>1. at'[c] = "search" /\ \A d \in Searches \ {c} : at'[d] = at[d]
      BY <1>4, <1>a DEF WriteHeader, Places, Writing
    <2>2. pos'[c] = pos[c] + 1 /\ \A d \in Searches \ {c} : pos'[d] = pos[d]
      BY <1>4, <1>b DEF WriteHeader
    <2>3. pos'[c] = Len(found'[c]) + 1
      BY <1>4, <2>2 DEF WriteHeader, Offsets
    <2> QED
      BY <1>4, <2>1, <2>2, <2>3, OffsetsKept DEF WriteHeader
  <1>5. ASSUME NEW s \in Services, Collect(c, s)
        PROVE  Offsets'
    <2>1. pos'[c] = pos[c] + 1 /\ \A d \in Searches \ {c} : pos'[d] = pos[d]
      BY <1>5, <1>b DEF Collect
    <2>2. /\ Len(found'[c]) = Len(found[c]) + 1
          /\ \A d \in Searches \ {c} : found'[d] = found[d]
      BY <1>5, <1>c DEF Collect
    <2>3. at' = at /\ at[c] = "search" /\ pos[c] = Len(found[c]) + 1
      BY <1>5 DEF Collect, Collects, Offsets
    <2> QED
      BY <2>1, <2>2, <2>3, OffsetsKept
  <1>6. ASSUME NEW s \in Services, CollectFails(c, s)
        PROVE  Offsets'
    <2>1. at'[c] = "failed" /\ \A d \in Searches \ {c} : at'[d] = at[d]
      BY <1>6, <1>a DEF CollectFails, Places
    <2>2. pos' = pos /\ \A d \in Searches \ {c} : found'[d] = found[d]
      BY <1>6, <1>c DEF CollectFails, history
    <2> QED
      BY <2>1, <2>2, OffsetsKept
  <1>7. CASE SocketFails(c)
    BY <1>7, <1>a, OffsetsKept DEF SocketFails, history, Places, Writing, Offsets
  <1>8. CASE Alarm(c)
    BY <1>8, <1>a, OffsetsKept DEF Alarm, history, Places, Writing, Offsets
  <1>9. CASE EndWithout(c)
    BY <1>9, <1>a, <1>b, OffsetsKept DEF EndWithout, Places
  <1>10. CASE EndWith(c)
    BY <1>10, <1>a, OffsetsKept DEF EndWith, history, Places
  <1>11. CASE SearchFails(c)
    BY <1>11, <1>a, OffsetsKept DEF SearchFails, history, Places
  <1> QED
    BY <1>1, <1>2, <1>3, <1>4, <1>5, <1>6, <1>7, <1>8, <1>9, <1>10, <1>11
       DEF SearchStep

LEMMA SearchPairs ==
    ASSUME TypeOK, Pairs, EachServiceOnce, Offsets, NEW c \in Searches,
           SearchStep(c)
    PROVE  Pairs' /\ EachServiceOnce'
  <1>a. ASSUME NEW p \in Places \ {"idle", "bound"}, Goto(c, p)
        PROVE  \A d \in Searches :
                   at'[d] \in {"idle", "bound"} => at[d] \in {"idle", "bound"}
    BY <1>a DEF Goto, TypeOK
  <1>1. CASE Configure(c)
    <2>1. \A d \in Searches :
             at'[d] \in {"idle", "bound"} => at[d] \in {"idle", "bound"}
      BY <1>1 DEF Configure, Goto, TypeOK
    <2> QED
      BY <1>1, <2>1, PairsShrink DEF Configure, network
  <1>2. CASE Ask(c)
    BY <1>2, PairsAsk
  <1>3. CASE Truncate(c)
    BY <1>3, <1>a, PairsShrink DEF Truncate, network, Places, Writing
  <1>4. CASE WriteHeader(c)
    BY <1>4, <1>a, PairsShrink DEF WriteHeader, network, Places, Writing
  <1>5. ASSUME NEW s \in Services, Collect(c, s)
        PROVE  Pairs' /\ EachServiceOnce'
    BY <1>5, PairsCollect DEF Collect
  <1>6. ASSUME NEW s \in Services, CollectFails(c, s)
        PROVE  Pairs' /\ EachServiceOnce'
    BY <1>6, <1>a, PairsCollect DEF CollectFails, Places
  <1>7. CASE SocketFails(c)
    BY <1>7, <1>a, PairsShrink DEF SocketFails, network, Places, Writing
  <1>8. CASE Alarm(c)
    BY <1>8, <1>a, PairsShrink DEF Alarm, network, Places, Writing
  <1>9. CASE EndWithout(c)
    BY <1>9, <1>a, PairsShrink DEF EndWithout, network, Places
  <1>10. CASE EndWith(c)
    BY <1>10, <1>a, PairsShrink DEF EndWith, network, Places
  <1>11. CASE SearchFails(c)
    BY <1>11, <1>a, PairsShrink DEF SearchFails, network, Places
  <1> QED
    BY <1>1, <1>2, <1>3, <1>4, <1>5, <1>6, <1>7, <1>8, <1>9, <1>10, <1>11
       DEF SearchStep

-----------------------------------------------------------------------------
(* The last search and the readers.                                        *)

FileInv == Alone /\ HistoryIsLastSearch /\ PrintedOnce

\* A reader keeps what it printed while lists and offsets only grow.
LEMMA PrintedKept ==
    ASSUME PrintedOnce, overlap' = overlap, UNCHANGED readers,
           \A d \in Searches : \A r \in Readers :
               size[r] <= pos[d] =>
                   /\ size[r] <= pos'[d]
                   /\ ListOf(d, size[r])' = ListOf(d, size[r])
    PROVE  PrintedOnce'
  <1> SUFFICES ASSUME ~overlap, NEW r \in Readers, reader[r] = "over"
               PROVE  \E d \in Searches :
                         size[r] <= pos'[d] /\ printed[r] = ListOf(d, size[r])'
    BY DEF PrintedOnce, readers
  <1>1. PICK d \in Searches : size[r] <= pos[d] /\ printed[r] = ListOf(d, size[r])
    BY DEF PrintedOnce
  <1> QED
    BY <1>1

\* A step that writes nothing and finds nobody.
LEMMA FileKept ==
    ASSUME FileInv, TypeOK, UNCHANGED <<found, history>>, UNCHANGED readers,
           NEW c \in Searches,
           at'[c] \in Writing => at[c] \in Writing,
           at'[c] = "over" => at[c] = "over" \/
               pos[c] = IF found[c] = <<>> THEN 2 ELSE Len(found[c]) + 1,
           \A d \in Searches \ {c} : at'[d] = at[d]
    PROVE  FileInv'
  <1>1. /\ found' = found /\ pos' = pos /\ last' = last /\ overlap' = overlap
        /\ file' = file /\ last \in Searches
    BY DEF history, TypeOK
  <1>2. Alone'
    BY <1>1 DEF FileInv, Alone
  <1>3. HistoryIsLastSearch'
    <2>1. ListOf(last, pos[last])' = ListOf(last, pos[last])
      BY <1>1 DEF ListOf, LineOf, HeaderLine, ServerLine, NotFoundLine
    <2>2. at'[last] = "over" => at[last] = "over" \/
             pos[last] = IF found[last] = <<>> THEN 2 ELSE Len(found[last]) + 1
      BY <1>1
    <2> QED
      BY <1>1, <2>1, <2>2 DEF FileInv, HistoryIsLastSearch
  <1>4. PrintedOnce'
    <2>1. \A d \in Searches : \A r \in Readers :
             ListOf(d, size[r])' = ListOf(d, size[r])
      BY <1>1 DEF ListOf, LineOf, HeaderLine, ServerLine, NotFoundLine, readers
    <2> QED
      BY <1>1, <2>1, PrintedKept DEF FileInv
  <1> QED
    BY <1>2, <1>3, <1>4 DEF FileInv

LEMMA FileTruncate ==
    ASSUME FileInv, TypeOK, Offsets, NEW c \in Searches, Truncate(c)
    PROVE  FileInv'
  <1>1. /\ at[c] = "asked" /\ at'[c] = "truncated" /\ pos[c] = 0
        /\ \A d \in Searches \ {c} : at'[d] = at[d]
        /\ found' = found /\ pos' = pos /\ file' = <<>> /\ last' = c
        /\ readers' = readers
    BY DEF Truncate, Goto, TypeOK, Offsets
  <1>2. overlap' = (overlap \/ \E d \in Searches : at[d] \in Writing)
    BY DEF Truncate
  <1>3. Alone'
    BY <1>1, <1>2 DEF Alone
  <1>4. HistoryIsLastSearch'
    <2>1. ListOf(last, pos[last])' = <<>>
      BY <1>1 DEF ListOf
    <2> QED
      BY <1>1, <2>1 DEF HistoryIsLastSearch
  <1>5. PrintedOnce'
    <2>1. \A d \in Searches : \A r \in Readers :
             ListOf(d, size[r])' = ListOf(d, size[r])
      BY <1>1 DEF ListOf, LineOf, HeaderLine, ServerLine, NotFoundLine, readers
    <2>2. CASE overlap' = overlap
      BY <1>1, <2>1, <2>2, PrintedKept DEF FileInv
    <2>3. CASE overlap'
      BY <2>3 DEF PrintedOnce
    <2> QED
      BY <1>2, <2>2, <2>3 DEF TypeOK
  <1> QED
    BY <1>3, <1>4, <1>5 DEF FileInv

\* A search writes the next line of its list.
LEMMA FileWrite ==
    ASSUME FileInv, TypeOK, NEW c \in Searches, NEW line, Write(c, line),
           at[c] \in Writing, UNCHANGED readers,
           at'[c] \in Writing \cup {"over"},
           \A d \in Searches \ {c} : at'[d] = at[d],
           NEW n \in Nat, n = pos[c] + 1, line = LineOf(c, n)',
           at'[c] = "over" =>
               n = IF found'[c] = <<>> THEN 2 ELSE Len(found'[c]) + 1,
           \A d \in Searches, m \in Nat :
               (d = c => m <= pos[c]) => ListOf(d, m)' = ListOf(d, m)
    PROVE  FileInv'
  <1>1. /\ pos[c] \in Nat /\ pos' = [pos EXCEPT ![c] = n]
        /\ last' = last /\ overlap' = overlap /\ last \in Searches
        /\ \A d \in Searches : pos[d] \in Nat
    BY DEF Write, TypeOK
  <1>2. pos'[c] = n /\ \A d \in Searches \ {c} : pos'[d] = pos[d]
    BY <1>1 DEF TypeOK
  <1>3. Alone'
    BY <1>1 DEF FileInv, Alone, Writing
  <1>4. HistoryIsLastSearch'
    <2> SUFFICES ASSUME ~overlap
                 PROVE  /\ file' = ListOf(last, pos[last])'
                        /\ at'[last] = "over" =>
                              pos'[last] = IF found'[last] = <<>> THEN 2
                                           ELSE Len(found'[last]) + 1
      BY <1>1 DEF HistoryIsLastSearch
    <2>1. c = last
      BY DEF FileInv, Alone
    <2>2. file = ListOf(c, pos[c])
      BY <2>1 DEF FileInv, HistoryIsLastSearch
    <2>3. \A i \in 1..pos[c] : LineOf(c, i)' = LineOf(c, i)
      <3>1. ASSUME NEW m \in Nat, m = pos[c]
            PROVE  \A i \in 1..m : LineOf(c, i)' = LineOf(c, i)
        <4>1. ListOf(c, m)' = ListOf(c, m)
          BY <3>1
        <4>2. [i \in 1..m |-> LineOf(c, i)'] = [i \in 1..m |-> LineOf(c, i)]
          BY <4>1 DEF ListOf
        <4> QED
          BY <4>2
      <3> QED
        BY <1>1, <3>1
    <2>4. file' = ListOf(c, pos[c])'
      BY <2>2, <2>3, ListGrows
    <2> QED
      BY <1>1, <1>2, <2>1, <2>4
  <1>5. PrintedOnce'
    <2>1. \A d \in Searches : \A r \in Readers :
             size[r] <= pos[d] =>
                 /\ size[r] <= pos'[d]
                 /\ ListOf(d, size[r])' = ListOf(d, size[r])
      <3> SUFFICES ASSUME NEW d \in Searches, NEW r \in Readers, size[r] <= pos[d]
                   PROVE  /\ size[r] <= pos'[d]
                          /\ ListOf(d, size[r])' = ListOf(d, size[r])
        OBVIOUS
      <3>1. size[r] \in Nat /\ size'[r] = size[r]
        BY DEF TypeOK, readers
      <3>2. size[r] <= pos'[d]
        BY <1>1, <1>2, <3>1
      <3>3. ASSUME NEW m \in Nat, m = size[r]
            PROVE  ListOf(d, m)' = ListOf(d, m)
        BY <3>3
      <3> QED
        BY <3>1, <3>2, <3>3 DEF ListOf
    <2> QED
      BY <1>1, <2>1, PrintedKept DEF FileInv
  <1> QED
    BY <1>3, <1>4, <1>5 DEF FileInv

LEMMA FileCollectFails ==
    ASSUME FileInv, TypeOK, Offsets, NEW c \in Searches, NEW s \in Services,
           CollectFails(c, s)
    PROVE  FileInv'
  <1>1. /\ at[c] = "search" /\ at'[c] = "failed"
        /\ \A d \in Searches \ {c} : at'[d] = at[d]
        /\ pos' = pos /\ last' = last /\ overlap' = overlap /\ file' = file
        /\ readers' = readers /\ last \in Searches
    BY DEF CollectFails, Collects, Goto, TypeOK, history
  <1>2. pos[c] = Len(found[c]) + 1 /\ \A d \in Searches : pos[d] \in Nat
    BY <1>1 DEF Offsets, TypeOK
  <1>3. ASSUME NEW d \in Searches, NEW m \in Nat, m <= pos[d]
        PROVE  ListOf(d, m)' = ListOf(d, m)
    BY <1>2, <1>3, ListKept DEF CollectFails
  <1>4. Alone'
    BY <1>1 DEF FileInv, Alone, Writing
  <1>5. HistoryIsLastSearch'
    <2> SUFFICES ASSUME ~overlap
                 PROVE  /\ file = ListOf(last, pos[last])'
                        /\ at'[last] # "over"
      BY <1>1 DEF HistoryIsLastSearch
    <2>1. c = last
      BY <1>1 DEF FileInv, Alone, Writing
    <2>2. file = ListOf(last, pos[last])
      BY DEF FileInv, HistoryIsLastSearch
    <2>3. ASSUME NEW m \in Nat, m = pos[last]
          PROVE  ListOf(last, m)' = ListOf(last, m)
      BY <1>1, <1>2, <1>3, <2>3
    <2>4. ListOf(last, pos[last])' = ListOf(last, pos[last])
      BY <1>1, <1>2, <2>3 DEF ListOf
    <2> QED
      BY <1>1, <2>1, <2>2, <2>4
  <1>6. PrintedOnce'
    <2>1. \A d \in Searches : \A r \in Readers :
             size[r] <= pos[d] =>
                 /\ size[r] <= pos'[d]
                 /\ ListOf(d, size[r])' = ListOf(d, size[r])
      <3> SUFFICES ASSUME NEW d \in Searches, NEW r \in Readers, size[r] <= pos[d]
                   PROVE  ListOf(d, size[r])' = ListOf(d, size[r])
        BY <1>1
      <3>1. size[r] \in Nat /\ size'[r] = size[r]
        BY <1>1 DEF TypeOK, readers
      <3>2. ASSUME NEW m \in Nat, m = size[r]
            PROVE  ListOf(d, m)' = ListOf(d, m)
        BY <1>3, <3>2
      <3> QED
        BY <3>1, <3>2 DEF ListOf
    <2> QED
      BY <1>1, <2>1, PrintedKept DEF FileInv
  <1> QED
    BY <1>4, <1>5, <1>6 DEF FileInv

LEMMA SearchFile ==
    ASSUME FileInv, TypeOK, Offsets, NEW c \in Searches, SearchStep(c)
    PROVE  FileInv'
  <1>0. pos[c] \in Nat /\ found[c] \in Seq(Services) /\ Len(found[c]) \in Nat
    BY DEF TypeOK
  <1>a. ASSUME NEW p \in Places, Goto(c, p)
        PROVE  at'[c] = p /\ \A d \in Searches \ {c} : at'[d] = at[d]
    BY <1>a DEF Goto, TypeOK
  <1>1. CASE Configure(c)
    BY <1>1, <1>a, FileKept DEF Configure, Places, Writing
  <1>2. CASE Ask(c)
    BY <1>2, <1>a, FileKept DEF Ask, Places, Writing
  <1>3. CASE Truncate(c)
    BY <1>3, FileTruncate
  <1>4. CASE WriteHeader(c)
    <2>1. /\ at[c] = "truncated" /\ at'[c] = "search" /\ pos[c] = 0
          /\ \A d \in Searches \ {c} : at'[d] = at[d]
          /\ found' = found /\ readers' = readers /\ Write(c, HeaderLine(c))
      BY <1>4, <1>a DEF WriteHeader, Offsets, Places, Writing
    <2>2. \A d \in Searches, m \in Nat : ListOf(d, m)' = ListOf(d, m)
      BY <2>1 DEF ListOf, LineOf, HeaderLine, ServerLine, NotFoundLine
    <2>3. HeaderLine(c) = LineOf(c, 1)'
      BY DEF LineOf, HeaderLine
    <2>4. 1 \in Nat /\ 1 = pos[c] + 1
      BY <2>1
    <2> QED
      BY <2>1, <2>2, <2>3, <2>4, FileWrite DEF Writing
  <1>5. ASSUME NEW s \in Services, Collect(c, s)
        PROVE  FileInv'
    <2>1. /\ at[c] = "search" /\ at' = at /\ readers' = readers
          /\ Collects(c, s) /\ Write(c, ServerLine(c, Len(found[c]) + 1, s))
      BY <1>5 DEF Collect, Collects
    <2>2. pos[c] = Len(found[c]) + 1
      BY <2>1 DEF Offsets
    <2>3. \A d \in Searches, m \in Nat :
             (d = c => m <= pos[c]) => ListOf(d, m)' = ListOf(d, m)
      BY <2>1, <2>2, ListKept
    <2>4. /\ Len(found'[c]) = Len(found[c]) + 1
          /\ found'[c][Len(found[c]) + 1] = s
      BY <1>0, <2>1 DEF Collects, TypeOK
    <2>5. ASSUME NEW n \in Nat, n = pos[c] + 1
          PROVE  FileInv'
      <3>1. n # 1 /\ n - 1 = Len(found[c]) + 1 /\ n - 1 <= Len(found'[c])
        BY <1>0, <2>2, <2>4, <2>5
      <3>2. ServerLine(c, Len(found[c]) + 1, s) = LineOf(c, n)'
        BY <2>4, <3>1 DEF LineOf, ServerLine
      <3> QED
        BY <2>1, <2>3, <2>5, <3>2, FileWrite DEF Writing
    <2> QED
      BY <1>0, <2>5
  <1>6. ASSUME NEW s \in Services, CollectFails(c, s)
        PROVE  FileInv'
    BY <1>6, FileCollectFails
  <1>7. CASE SocketFails(c)
    BY <1>7, <1>a, FileKept DEF SocketFails, Places, Writing
  <1>8. CASE Alarm(c)
    BY <1>8, <1>a, FileKept DEF Alarm, Places, Writing
  <1>9. CASE EndWithout(c)
    <2>1. /\ at[c] = "ending" /\ at'[c] = "over" /\ found[c] = <<>>
          /\ \A d \in Searches \ {c} : at'[d] = at[d]
          /\ found' = found /\ readers' = readers /\ Write(c, NotFoundLine(c))
      BY <1>9, <1>a DEF EndWithout, Places
    <2>2. \A d \in Searches, m \in Nat : ListOf(d, m)' = ListOf(d, m)
      BY <2>1 DEF ListOf, LineOf, HeaderLine, ServerLine, NotFoundLine
    <2>3. NotFoundLine(c) = LineOf(c, 2)'
      BY <2>1 DEF LineOf, NotFoundLine
    <2>4. 2 \in Nat /\ 2 = pos[c] + 1
      BY <2>1 DEF Offsets
    <2> QED
      BY <2>1, <2>2, <2>3, <2>4, FileWrite DEF Writing
  <1>10. CASE EndWith(c)
    <2>1. pos[c] = IF found[c] = <<>> THEN 2 ELSE Len(found[c]) + 1
      BY <1>10 DEF EndWith, Offsets
    <2> QED
      BY <1>10, <2>1, <1>a, FileKept DEF EndWith, Places, Writing
  <1>11. CASE SearchFails(c)
    BY <1>11, <1>a, FileKept DEF SearchFails, Places, Writing
  <1> QED
    BY <1>1, <1>2, <1>3, <1>4, <1>5, <1>6, <1>7, <1>8, <1>9, <1>10, <1>11
       DEF SearchStep

LEMMA ReaderFile ==
    ASSUME FileInv, TypeOK, NEW q \in Readers, ReaderStep(q)
    PROVE  FileInv'
  <1>1. UNCHANGED <<search, history>>
    BY DEF ReaderStep, ReadSize, ReadAndPrint, ReadFails
  <1>2. /\ at' = at /\ found' = found /\ file' = file /\ pos' = pos
        /\ last' = last /\ overlap' = overlap
    BY <1>1 DEF search, history
  <1>3. Alone'
    BY <1>2 DEF FileInv, Alone
  <1>4. HistoryIsLastSearch'
    <2>1. ListOf(last, pos[last])' = ListOf(last, pos[last])
      BY <1>2 DEF ListOf, LineOf, HeaderLine, ServerLine, NotFoundLine
    <2> QED
      BY <1>2, <2>1 DEF FileInv, HistoryIsLastSearch
  <1>5. PrintedOnce'
    <2> SUFFICES ASSUME ~overlap, NEW r \in Readers, reader'[r] = "over"
                 PROVE  \E d \in Searches :
                           size'[r] <= pos[d] /\ printed'[r] = ListOf(d, size[r])'
      BY <1>2 DEF PrintedOnce
    <2>1. \A d \in Searches : ListOf(d, size[r])' = ListOf(d, size'[r])
      BY <1>2 DEF ListOf, LineOf, HeaderLine, ServerLine, NotFoundLine
    <2>2. CASE r # q \/ reader[r] = "over"
      <3>1. reader[r] = "over" /\ size'[r] = size[r] /\ printed'[r] = printed[r]
        <4>1. CASE ReadSize(q)
          BY <2>2, <4>1 DEF ReadSize, TypeOK
        <4>2. CASE ReadAndPrint(q)
          BY <2>2, <4>2 DEF ReadAndPrint, TypeOK
        <4>3. CASE ReadFails(q)
          BY <2>2, <4>3 DEF ReadFails, TypeOK
        <4> QED
          BY <4>1, <4>2, <4>3 DEF ReaderStep
      <3> QED
        BY <2>1, <3>1 DEF FileInv, PrintedOnce
    <2>3. CASE r = q /\ reader[r] # "over"
      <3>1. ReadAndPrint(q) /\ ~(Len(file) < size[q])
        BY <2>3 DEF ReaderStep, ReadSize, ReadAndPrint, ReadFails, TypeOK
      <3>2. size' = size /\ printed'[q] = [i \in 1..size[q] |-> file[i]]
        BY <3>1 DEF ReadAndPrint, TypeOK
      <3>3. file = ListOf(last, pos[last]) /\ last \in Searches
            /\ pos[last] \in Nat /\ size[q] \in Nat
        BY DEF FileInv, HistoryIsLastSearch, TypeOK
      <3>4. Len(file) = pos[last] /\ size[q] <= pos[last]
        BY <3>1, <3>3 DEF ListOf
      <3>5. \A i \in 1..size[q] : file[i] = LineOf(last, i)
        BY <3>3, <3>4 DEF ListOf
      <3>6. printed'[q] = ListOf(last, size[q])
        BY <3>2, <3>5 DEF ListOf
      <3> QED
        BY <2>1, <2>3, <3>2, <3>3, <3>4, <3>6
    <2> QED
      BY <2>2, <2>3
  <1> QED
    BY <1>3, <1>4, <1>5 DEF FileInv

-----------------------------------------------------------------------------
(* Together.                                                               *)

PairsInv == Pairs /\ EachServiceOnce /\ Offsets

LEMMA InvIs == IInv <=> PairsInv /\ FileInv
  BY DEF IInv, PairsInv, FileInv

LEMMA InitInv == Init => IInv
  <1> SUFFICES ASSUME Init PROVE IInv
    OBVIOUS
  <1>1. Pairs /\ EachServiceOnce /\ Offsets /\ Alone
    BY DEF Init, Pairs, EachServiceOnce, Offsets, Alone, Writing
  <1>2. HistoryIsLastSearch /\ PrintedOnce
    BY DEF Init, HistoryIsLastSearch, PrintedOnce, ListOf
  <1> QED
    BY <1>1, <1>2 DEF IInv

\* Where the searches, the file and the readers stay, the file's part stays.
LEMMA FileIdle ==
    ASSUME FileInv, UNCHANGED <<search, history, readers>>
    PROVE  FileInv'
  <1>1. Alone' /\ HistoryIsLastSearch'
    BY DEF search, history, FileInv, Alone, HistoryIsLastSearch, ListOf, LineOf,
           HeaderLine, ServerLine, NotFoundLine
  <1>2. PrintedOnce'
    BY DEF search, history, readers, FileInv, PrintedOnce, ListOf, LineOf,
           HeaderLine, ServerLine, NotFoundLine
  <1> QED
    BY <1>1, <1>2 DEF FileInv

LEMMA NextInv == TypeOK /\ IInv /\ [Next]_vars => IInv'
  <1> SUFFICES ASSUME TypeOK, PairsInv, FileInv, [Next]_vars
               PROVE  PairsInv' /\ FileInv'
    BY InvIs DEF IInv, PairsInv, FileInv
  <1>a. Pairs /\ EachServiceOnce /\ Offsets
    BY DEF PairsInv
  <1>b. ASSUME UNCHANGED <<search, history>> PROVE Offsets'
    BY <1>a, <1>b DEF Offsets, search, history
  <1>1. ASSUME NEW s \in Services, ServiceStep(s)
        PROVE  PairsInv' /\ FileInv'
    <2>1. UNCHANGED <<search, history, readers>>
      BY <1>1 DEF ServiceStep, Serve, ServiceReturns, Answer
    <2>2. Pairs' /\ EachServiceOnce'
      <3>1. CASE Serve(s)
        BY <1>a, <3>1, PairsShrink DEF Serve, network, search
      <3>2. CASE ServiceReturns(s)
        BY <1>a, <3>2, PairsShrink DEF ServiceReturns, search
      <3>3. CASE \E c \in Searches : Answer(s, c)
        BY <1>a, <3>3, PairsAnswer
      <3> QED
        BY <1>1, <3>1, <3>2, <3>3 DEF ServiceStep
    <2> QED
      BY <1>b, <2>1, <2>2, FileIdle DEF PairsInv
  <1>2. ASSUME NEW c \in Searches, SearchStep(c)
        PROVE  PairsInv' /\ FileInv'
    BY <1>a, <1>2, SearchPairs, SearchOffsets, SearchFile DEF PairsInv
  <1>3. ASSUME NEW r \in Readers, ReaderStep(r)
        PROVE  PairsInv' /\ FileInv'
    <2>1. UNCHANGED <<network, search, history>>
      BY <1>3 DEF ReaderStep, ReadSize, ReadAndPrint, ReadFails
    <2>2. Pairs' /\ EachServiceOnce'
      BY <1>a, <2>1, PairsShrink DEF network, search
    <2> QED
      BY <1>3, <1>b, <2>1, <2>2, ReaderFile DEF PairsInv
  <1>4. CASE Lose
    <2>1. UNCHANGED <<search, history, readers>>
      BY <1>4 DEF Lose
    <2>2. Pairs' /\ EachServiceOnce'
      BY <1>a, <1>4, PairsShrink DEF Lose, search
    <2> QED
      BY <1>b, <2>1, <2>2, FileIdle DEF PairsInv
  <1>5. CASE UNCHANGED vars
    <2>1. UNCHANGED <<network, search, history, readers>>
      BY <1>5 DEF vars
    <2>2. Pairs' /\ EachServiceOnce'
      BY <1>a, <2>1, PairsShrink DEF network, search
    <2> QED
      BY <1>b, <2>1, <2>2, FileIdle DEF PairsInv
  <1> QED
    BY <1>1, <1>2, <1>3, <1>4, <1>5 DEF Next

\* The invariant holds of every behaviour.
THEOREM IInvAlways == Spec => []IInv
  BY InitTypes, NextTypes, InitInv, NextInv, PTL DEF Spec

\* A search lists a service at most once: a request is broadcast once, from
\* a port of its own, and answered once (broadcast_client_interface).
THEOREM OncePerSearch == Spec => []EachServiceOnce
  <1>1. IInv => EachServiceOnce
    BY DEF IInv
  <1> QED
    BY <1>1, IInvAlways, PTL

\* The history file is the list of the last search, whole when that is over,
\* unless one search emptied it under another (ssh_history_setup).
THEOREM HistoryRight == Spec => []HistoryIsLastSearch
  <1>1. IInv => HistoryIsLastSearch
    BY DEF IInv
  <1> QED
    BY <1>1, IInvAlways, PTL

\* And print_ssh_history prints the beginning of one search's list, although
\* the file may change between its fstat and its read.
THEOREM PrintRight == Spec => []PrintedIsOneList
  <1>1. IInv => PrintedIsOneList
    BY DEF IInv, PrintedOnce, PrintedIsOneList
  <1> QED
    BY <1>1, IInvAlways, PTL

=============================================================================
