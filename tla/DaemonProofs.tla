---------------------------- MODULE DaemonProofs ----------------------------
(* The daemon, its lock and its services, for any services, any number of   *)
(* starts and any number of runs of the controller.                         *)
EXTENDS Daemon, TLAPS

Places == {"none"} \cup Bare \cup Masked \cup Over

Pendings == SUBSET {"USR1", "TERM"}

Phases == {"none", "starting", "serving", "dying", "ended"}

Sessions == {"none", "new", "going"}

-----------------------------------------------------------------------------
(* The parts of the type that steps change together.                        *)

DaemonType ==
    /\ at \in [Starts -> Places]
    /\ pending \in [Starts -> Pendings]
    /\ lock \in Starts \cup {Nobody}

ServiceType ==
    /\ svc \in [Starts -> [Kinds -> Phases]]
    /\ sess \in [Starts -> [Kinds -> Sessions]]

ControllerType ==
    /\ ctl \in {"none", "probe", "menu"}
    /\ target \in Starts \cup {Nobody}
    /\ visits \in 0..MaxVisits

FileType == pidfile \in Starts \cup {Nobody}

LEMMA TypeParts ==
    TypeOK <=> DaemonType /\ ServiceType /\ ControllerType /\ FileType
  BY DEF TypeOK, DaemonType, ServiceType, ControllerType, FileType, Places, Pendings, Phases, Sessions

LEMMA TypeWhole ==
    ASSUME DaemonType', ServiceType', ControllerType', FileType'
    PROVE  TypeOK'
  BY DEF TypeOK, DaemonType, ServiceType, ControllerType, FileType, Places, Pendings, Phases, Sessions

LEMMA DaemonTypeKept ==
    ASSUME DaemonType, UNCHANGED daemon
    PROVE  DaemonType'
  BY DEF DaemonType, daemon

LEMMA ServiceTypeKept ==
    ASSUME ServiceType, UNCHANGED services
    PROVE  ServiceType'
  BY DEF ServiceType, services

LEMMA ControllerTypeKept ==
    ASSUME ControllerType, UNCHANGED controller
    PROVE  ControllerType'
  BY DEF ControllerType, controller

LEMMA EndsType ==
    ASSUME DaemonType, NEW d \in Starts, NEW how \in Over, Ends(d, how)
    PROVE  DaemonType'
  BY DEF DaemonType, Ends, Places, Nobody

LEMMA GoesType ==
    ASSUME DaemonType, NEW d \in Starts, NEW from, NEW to \in Places, Goes(d, from, to)
    PROVE  at' \in [Starts -> Places]
  BY DEF DaemonType, Goes

LEMMA SignalType ==
    ASSUME DaemonType, NEW d \in Starts, NEW s \in {"USR1", "TERM"}, Signal(d, s)
    PROVE  DaemonType'
<1>1. CASE Ends(d, "stopped")
  BY <1>1, EndsType DEF Over
<1>2. CASE /\ pending' = [pending EXCEPT ![d] = @ \cup {s}]
           /\ UNCHANGED <<at, lock>>
  BY <1>2 DEF DaemonType, Pendings
<1> QED BY <1>1, <1>2 DEF Signal

LEMMA SvcType ==
    ASSUME ServiceType, NEW d \in Starts, NEW k \in Kinds, NEW x \in Phases,
           svc' = [svc EXCEPT ![d][k] = x], UNCHANGED sess
    PROVE  ServiceType'
  BY DEF ServiceType

LEMMA SessType ==
    ASSUME ServiceType, NEW d \in Starts, NEW k \in Kinds, NEW x \in Sessions,
           sess' = [sess EXCEPT ![d][k] = x], UNCHANGED svc
    PROVE  ServiceType'
  BY DEF ServiceType

LEMMA TypeInit == Init => TypeOK
<1> SUFFICES ASSUME Init PROVE TypeOK
  OBVIOUS
<1>1. DaemonType /\ FileType
  BY DEF Init, DaemonType, FileType, Places, Pendings
<1>2. ServiceType
  BY DEF Init, ServiceType, Phases, Sessions
<1>3. ControllerType
  BY DaemonAssumption DEF Init, ControllerType
<1> QED BY <1>1, <1>2, <1>3, TypeParts

-----------------------------------------------------------------------------
(* Every action keeps the types.                                            *)

LEMMA KindOf == \A i \in 1..Len(Services) : Services[i] \in Kinds
  BY DEF Kinds

LEMMA DaemonTypes ==
    ASSUME TypeOK, NEW d \in Starts, Start(d) \/ DaemonStep(d) \/ Crash(d)
    PROVE  TypeOK'
<1> USE TypeParts, TypeWhole
<1>1. CASE Start(d)
  <2>1. at' \in [Starts -> Places]
    BY <1>1, GoesType DEF Start, Places, Bare
  <2> QED BY <1>1, <2>1, ServiceTypeKept, ControllerTypeKept DEF Start, DaemonType, FileType
<1>2. CASE LockPidFile(d)
  <2>1. at' \in [Starts -> Places]
    BY <1>2, GoesType DEF LockPidFile, Places, Bare
  <2> QED BY <1>2, <2>1, ServiceTypeKept, ControllerTypeKept DEF LockPidFile, DaemonType, FileType
<1>3. CASE LockFails(d)
  <2>1. DaemonType'
    BY <1>3, EndsType DEF LockFails, Over
  <2> QED BY <1>3, <2>1, ServiceTypeKept, ControllerTypeKept DEF LockFails, FileType
<1>4. CASE WritePid(d)
  <2>1. at' \in [Starts -> Places]
    BY <1>4, GoesType DEF WritePid, Places, Bare
  <2> QED BY <1>4, <2>1, ServiceTypeKept, ControllerTypeKept DEF WritePid, DaemonType, FileType
<1>5. CASE SetUpFails(d)
  <2>1. DaemonType'
    BY <1>5, EndsType DEF SetUpFails, Over
  <2> QED BY <1>5, <2>1, ServiceTypeKept, ControllerTypeKept DEF SetUpFails, FileType
<1>6. CASE BlockSignals(d)
  <2>1. at' \in [Starts -> Places]
    BY <1>6, GoesType DEF BlockSignals, Places, Masked
  <2> QED BY <1>6, <2>1, ServiceTypeKept, ControllerTypeKept DEF BlockSignals, DaemonType, FileType
<1>7. CASE Forks(d)
  <2>1. PICK i \in 1..Len(Services) :
            /\ svc' = [svc EXCEPT ![d][Services[i]] = "starting"]
            /\ at' = IF i = Len(Services) THEN [at EXCEPT ![d] = "wait"] ELSE at
    BY <1>7 DEF Forks
  <2>2. ServiceType'
    <3>1. "starting" \in Phases /\ UNCHANGED sess /\ Services[i] \in Kinds
      BY <1>7, KindOf DEF Forks, Phases
    <3> QED BY <2>1, <3>1, SvcType
  <2>3. at' \in [Starts -> Places]
    BY <2>1 DEF DaemonType, Places, Masked
  <2> QED BY <1>7, <2>2, <2>3, ControllerTypeKept DEF Forks, DaemonType, FileType
<1>8. CASE ForkFails(d)
  <2>1. DaemonType'
    BY <1>8, EndsType DEF ForkFails, Over
  <2> QED BY <1>8, <2>1, ServiceTypeKept, ControllerTypeKept DEF ForkFails, FileType
<1>9. CASE TakeProbe(d)
  <2>1. DaemonType'
    BY <1>9 DEF TakeProbe, DaemonType, Pendings
  <2> QED BY <1>9, <2>1, ServiceTypeKept, ControllerTypeKept DEF TakeProbe, FileType
<1>10. CASE TakeTerm(d)
  <2>1. at' \in [Starts -> Places]
    BY <1>10, GoesType DEF TakeTerm, Places, Masked
  <2>2. pending' \in [Starts -> Pendings]
    BY <1>10 DEF TakeTerm, DaemonType, Pendings
  <2>3. [k \in Kinds |-> Killed(k, svc[d][k])] \in [Kinds -> Phases]
    BY DEF Killed, Phases
  <2>4. ServiceType'
    BY <1>10, <2>3 DEF TakeTerm, ServiceType
  <2> QED BY <1>10, <2>1, <2>2, <2>4, ControllerTypeKept DEF TakeTerm, DaemonType, FileType
<1>11. CASE Shutdown(d)
  <2>1. DaemonType'
    BY <1>11, EndsType DEF Shutdown, Over
  <2> QED BY <1>11, <2>1, ServiceTypeKept, ControllerTypeKept DEF Shutdown, FileType
<1>12. CASE Crash(d)
  <2>1. DaemonType'
    BY <1>12, EndsType DEF Crash, Over
  <2> QED BY <1>12, <2>1, ServiceTypeKept, ControllerTypeKept DEF Crash, FileType
<1> QED BY <1>1, <1>2, <1>3, <1>4, <1>5, <1>6, <1>7, <1>8, <1>9, <1>10, <1>11, <1>12 DEF DaemonStep

LEMMA ServiceTypes ==
    ASSUME TypeOK, NEW d \in Starts, NEW k \in Kinds,
           ServiceStep(d, k) \/ Happens(d, k)
    PROVE  TypeOK'
<1> USE TypeParts, TypeWhole
<1>1. ServiceType'
  <2>1. CASE Bind(d, k)
    <3>1. (IF PortTaken(k) THEN "ended" ELSE "serving") \in Phases
      BY DEF Phases
    <3> QED BY <2>1, <3>1, SvcType DEF Bind
  <2>2. CASE ServiceGone(d, k)
    BY <2>2, SvcType DEF ServiceGone, Phases
  <2>3. CASE ServiceReturns(d, k)
    BY <2>3, SvcType DEF ServiceReturns, Phases
  <2>4. CASE SessionCloses(d, k)
    BY <2>4, SessType DEF SessionCloses, Sessions
  <2>5. CASE Accept(d, k)
    BY <2>5, SessType DEF Accept, Sessions
  <2>6. CASE SessionEnds(d, k)
    BY <2>6, SessType DEF SessionEnds, Sessions
  <2> QED BY <2>1, <2>2, <2>3, <2>4, <2>5, <2>6 DEF ServiceStep, Happens
<1>2. UNCHANGED <<daemon, pidfile, controller>>
  BY DEF ServiceStep, Happens, Bind, ServiceGone, ServiceReturns, SessionCloses, Accept, SessionEnds
<1> QED BY <1>1, <1>2, DaemonTypeKept, ControllerTypeKept DEF FileType

LEMMA TargetKnown ==
    ASSUME TypeOK, NEW s \in {"USR1", "TERM"}, Signal(target, s)
    PROVE  DaemonType'
<1> USE TypeParts, TypeWhole
<1>1. CASE target \in Starts
  BY <1>1, SignalType
<1>2. CASE target \notin Starts
  <2>1. target = Nobody /\ Nobody \notin Starts
    BY <1>2 DEF ControllerType, Nobody, Starts
  <2>2. [at EXCEPT ![target] = "stopped"] = at
    BY <2>1 DEF DaemonType
  <2>3. [pending EXCEPT ![target] = @ \cup {s}] = pending
    BY <2>1 DEF DaemonType
  <2>4. at' = at /\ pending' = pending
    BY <2>2, <2>3 DEF Signal, Ends
  <2>5. lock' \in Starts \cup {Nobody}
    BY DEF Signal, Ends, DaemonType
  <2> QED BY <2>4, <2>5 DEF DaemonType
<1> QED BY <1>1, <1>2

LEMMA ControllerTypes ==
    ASSUME TypeOK, ControllerStep
    PROVE  TypeOK'
<1> USE TypeParts, TypeWhole
<1>1. CASE ReadPid
  <2>1. visits' \in 0..MaxVisits
    BY <1>1, DaemonAssumption DEF ReadPid, ControllerType
  <2> QED BY <1>1, <2>1, DaemonTypeKept, ServiceTypeKept DEF ReadPid, ControllerType, FileType
<1>2. CASE Probe
  <2>1. DaemonType'
    BY <1>2, TargetKnown, DaemonTypeKept DEF Probe
  <2>2. ctl' \in {"none", "probe", "menu"}
    BY <1>2 DEF Probe
  <2> QED BY <1>2, <2>1, <2>2, ServiceTypeKept DEF Probe, ControllerType, FileType
<1>3. CASE ChooseKill
  <2>1. DaemonType'
    BY <1>3, TargetKnown, DaemonTypeKept DEF ChooseKill
  <2> QED BY <1>3, <2>1, ServiceTypeKept DEF ChooseKill, ControllerType, FileType
<1>4. CASE ChooseExit
  BY <1>4, DaemonTypeKept, ServiceTypeKept DEF ChooseExit, ControllerType, FileType
<1> QED BY <1>1, <1>2, <1>3, <1>4 DEF ControllerStep

LEMMA TypeStep == TypeOK /\ [Next]_vars => TypeOK'
<1> SUFFICES ASSUME TypeOK, [Next]_vars PROVE TypeOK'
  OBVIOUS
<1>1. CASE UNCHANGED vars
  BY <1>1, TypeParts, TypeWhole, DaemonTypeKept, ServiceTypeKept, ControllerTypeKept DEF vars, FileType
<1> QED BY <1>1, DaemonTypes, ServiceTypes, ControllerTypes DEF Next

\* Every variable keeps its type through starts, services and controller.
THEOREM TypeCorrect == Spec => []TypeOK
  BY TypeInit, TypeStep, PTL DEF Spec

-----------------------------------------------------------------------------
(* The invariant.                                                           *)

LEMMA IInvInit == Init => IInv
  BY DEF Init, IInv, LockHeld, ServicesWhile, PidFileNamesDaemon, Masked

LEMMA EndsKeeps ==
    ASSUME TypeOK, IInv, NEW d \in Starts, NEW how \in Over, Ends(d, how),
           UNCHANGED <<pidfile, svc>>,
           how \in {"unforked", "crashed"} \/ at[d] \in Bare \cup {"closing"}
    PROVE  IInv'
<1>1. at \in [Starts -> Places]
  BY TypeParts DEF DaemonType
<1>2. at'[d] = how /\ \A e \in Starts : e # d => at'[e] = at[e]
  BY <1>1 DEF Ends
<1>3. how \notin {"locked", "written"} \cup Masked
  BY DEF Over, Masked
<1>4. LockHeld'
  BY <1>2, <1>3 DEF IInv, LockHeld, Ends
<1>5. ServicesWhile'
  BY <1>2 DEF IInv, ServicesWhile, Bare
<1>6. PidFileNamesDaemon'
  BY <1>2, <1>3 DEF IInv, PidFileNamesDaemon
<1> QED BY <1>4, <1>5, <1>6 DEF IInv

LEMMA DaemonKeeps ==
    ASSUME TypeOK, IInv, NEW d \in Starts, Start(d) \/ DaemonStep(d) \/ Crash(d)
    PROVE  IInv'
<1>0. at \in [Starts -> Places] /\ svc \in [Starts -> [Kinds -> Phases]]
  BY TypeParts DEF DaemonType, ServiceType
<1>g. ASSUME NEW from, NEW to, Goes(d, from, to)
      PROVE  at[d] = from /\ at'[d] = to /\ \A e \in Starts : e # d => at'[e] = at[e]
  BY <1>0, <1>g DEF Goes
<1>n. Nobody \notin Starts
  BY DEF Nobody, Starts
<1>1. CASE Start(d)
  <2>1. at'[d] = "born" /\ at[d] = "none" /\ \A e \in Starts : e # d => at'[e] = at[e]
    BY <1>1, <1>g DEF Start
  <2> QED BY <1>1, <2>1 DEF Start, services, IInv, LockHeld, ServicesWhile, PidFileNamesDaemon, Masked
<1>2. CASE LockPidFile(d)
  <2>1. at'[d] = "locked" /\ at[d] = "born" /\ \A e \in Starts : e # d => at'[e] = at[e]
    BY <1>2, <1>g DEF LockPidFile
  <2> QED BY <1>2, <1>n, <2>1 DEF LockPidFile, services, IInv, LockHeld, ServicesWhile, PidFileNamesDaemon, Masked
<1>3. CASE LockFails(d)
  BY <1>3, EndsKeeps DEF LockFails, services, Over, Bare
<1>4. CASE WritePid(d)
  <2>1. at'[d] = "written" /\ at[d] = "locked" /\ \A e \in Starts : e # d => at'[e] = at[e]
    BY <1>4, <1>g DEF WritePid
  <2> QED BY <1>4, <2>1 DEF WritePid, services, IInv, LockHeld, ServicesWhile, PidFileNamesDaemon, Masked
<1>5. CASE SetUpFails(d)
  BY <1>5, EndsKeeps DEF SetUpFails, services, Over, Bare
<1>6. CASE BlockSignals(d)
  <2>1. at'[d] = "fork" /\ at[d] = "written" /\ \A e \in Starts : e # d => at'[e] = at[e]
    BY <1>6, <1>g DEF BlockSignals
  <2> QED BY <1>6, <2>1 DEF BlockSignals, services, IInv, LockHeld, ServicesWhile, PidFileNamesDaemon, Masked
<1>7. CASE Forks(d)
  <2>1. at[d] = "fork" /\ at'[d] \in {"fork", "wait"} /\ \A e \in Starts : e # d => at'[e] = at[e]
    BY <1>0, <1>7 DEF Forks
  <2>2. \A e \in Starts : e # d => svc'[e] = svc[e]
    BY <1>0, <1>7 DEF Forks
  <2>3. LockHeld' /\ PidFileNamesDaemon'
    BY <1>7, <2>1 DEF Forks, IInv, LockHeld, PidFileNamesDaemon, Masked
  <2>4. ServicesWhile'
    BY <2>1, <2>2 DEF IInv, ServicesWhile
  <2> QED BY <2>3, <2>4 DEF IInv
<1>8. CASE ForkFails(d)
  BY <1>8, EndsKeeps DEF ForkFails, services, Over
<1>9. CASE TakeProbe(d)
  BY <1>9 DEF TakeProbe, services, IInv, LockHeld, ServicesWhile, PidFileNamesDaemon
<1>10. CASE TakeTerm(d)
  <2>1. at'[d] = "closing" /\ at[d] = "wait" /\ \A e \in Starts : e # d => at'[e] = at[e]
    BY <1>10, <1>g DEF TakeTerm
  <2>2. /\ svc'[d] = [k \in Kinds |-> Killed(k, svc[d][k])]
        /\ \A e \in Starts : e # d => svc'[e] = svc[e]
    BY <1>0, <1>10 DEF TakeTerm
  <2>3. \A k \in Kinds : svc'[d][k] \in {"dying", "ended"}
    BY <2>2 DEF Killed
  <2>4. ServicesWhile'
    BY <2>1, <2>2, <2>3 DEF IInv, ServicesWhile
  <2>5. LockHeld' /\ PidFileNamesDaemon'
    BY <1>10, <2>1 DEF TakeTerm, IInv, LockHeld, PidFileNamesDaemon, Masked
  <2> QED BY <2>4, <2>5 DEF IInv
<1>11. CASE Shutdown(d)
  BY <1>11, EndsKeeps DEF Shutdown, services, Over
<1>12. CASE Crash(d)
  BY <1>12, EndsKeeps DEF Crash, services, Over
<1> QED BY <1>1, <1>2, <1>3, <1>4, <1>5, <1>6, <1>7, <1>8, <1>9, <1>10, <1>11, <1>12 DEF DaemonStep

LEMMA ServiceKeeps ==
    ASSUME TypeOK, IInv, NEW d \in Starts, NEW k \in Kinds,
           ServiceStep(d, k) \/ Happens(d, k)
    PROVE  IInv'
<1>1. svc \in [Starts -> [Kinds -> Phases]]
  BY TypeParts DEF ServiceType
<1>2. \A e \in Starts, j \in Kinds :
          svc'[e][j] \in {"starting", "serving"} => svc[e][j] \in {"starting", "serving"}
  <2>1. CASE Bind(d, k)
    BY <1>1, <2>1 DEF Bind
  <2>2. CASE ServiceGone(d, k)
    BY <1>1, <2>2 DEF ServiceGone
  <2>3. CASE ServiceReturns(d, k)
    BY <1>1, <2>3 DEF ServiceReturns
  <2>4. CASE UNCHANGED svc
    BY <2>4
  <2> QED BY <2>1, <2>2, <2>3, <2>4 DEF ServiceStep, Happens, SessionCloses, Accept, SessionEnds
<1>3. UNCHANGED <<daemon, pidfile>>
  BY DEF ServiceStep, Happens, Bind, ServiceGone, ServiceReturns, SessionCloses, Accept, SessionEnds
<1> QED BY <1>2, <1>3 DEF daemon, IInv, LockHeld, ServicesWhile, PidFileNamesDaemon

LEMMA SignalKeeps ==
    ASSUME TypeOK, IInv, NEW d \in Starts, NEW s, Signal(d, s), UNCHANGED <<pidfile, svc>>
    PROVE  IInv'
<1>1. CASE at[d] \in Bare /\ Ends(d, "stopped")
  BY <1>1, EndsKeeps DEF Over
<1>2. CASE UNCHANGED <<at, lock>>
  BY <1>2 DEF IInv, LockHeld, ServicesWhile, PidFileNamesDaemon
<1> QED BY <1>1, <1>2 DEF Signal

LEMMA ControllerKeeps ==
    ASSUME TypeOK, IInv, ControllerStep
    PROVE  IInv'
<1>1. UNCHANGED <<pidfile, svc>>
  BY DEF ControllerStep, ReadPid, Probe, ChooseKill, ChooseExit, services
<1>2. CASE UNCHANGED daemon
  BY <1>1, <1>2 DEF daemon, IInv, LockHeld, ServicesWhile, PidFileNamesDaemon
<1>3. ASSUME NEW s \in {"USR1", "TERM"}, Signal(target, s)
      PROVE  IInv'
  <2>1. CASE target \in Starts
    BY <1>1, <1>3, <2>1, SignalKeeps
  <2>2. CASE target \notin Starts
    <3>1. at \in [Starts -> Places] /\ lock \in Starts \cup {Nobody} /\ target = Nobody
      BY <2>2, TypeParts DEF DaemonType, ControllerType
    <3>2. at' = at
      BY <1>3, <2>2, <3>1 DEF Signal, Ends
    <3>3. lock' = lock
      BY <1>3, <3>1 DEF Signal, Ends
    <3> QED BY <1>1, <3>2, <3>3 DEF IInv, LockHeld, ServicesWhile, PidFileNamesDaemon
  <2> QED BY <2>1, <2>2
<1> QED BY <1>2, <1>3 DEF ControllerStep, ReadPid, Probe, ChooseKill, ChooseExit

LEMMA IInvStep == TypeOK /\ IInv /\ [Next]_vars => IInv'
<1> SUFFICES ASSUME TypeOK, IInv, [Next]_vars PROVE IInv'
  OBVIOUS
<1>1. CASE UNCHANGED vars
  BY <1>1 DEF vars, daemon, services, IInv, LockHeld, ServicesWhile, PidFileNamesDaemon
<1> QED BY <1>1, DaemonKeeps, ServiceKeeps, ControllerKeeps DEF Next

\* A daemon holds the lock from its grant to its end, services live only while
\* it forks or waits, or after it failed to fork or was killed outright.
THEOREM IInvAlways == Spec => []IInv
  BY TypeInit, TypeStep, IInvInit, IInvStep, PTL DEF Spec

\* Neither the controller's signals, however early they come, nor the end of
\* the loop leave a service of main without the daemon that can end it.
THEOREM ServicesKept == Spec => []ServicesHaveDaemon
<1>1. IInv => ServicesHaveDaemon
  BY DEF IInv, LockHeld, ServicesWhile, ServicesHaveDaemon, Masked
<1> QED BY <1>1, IInvAlways, PTL

\* However often the program is started, the pid file that the controller reads
\* names the daemon that runs the services, as long as it runs them.
THEOREM PidFileRight == Spec => []PidFileNamesDaemon
<1>1. IInv => PidFileNamesDaemon
  BY DEF IInv
<1> QED BY <1>1, IInvAlways, PTL
=============================================================================
