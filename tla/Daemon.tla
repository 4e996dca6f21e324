------------------------------- MODULE Daemon -------------------------------
(***************************************************************************)
(* The daemon POWER from its start to its end: the pid file and its lock,  *)
(* the services it forks, the signals it waits for, the sessions that the  *)
(* services fork, and the controller that finds it by the pid file.  A     *)
(* start of the program stands for the process it makes: a pid is not      *)
(* given to another process.                                               *)
(***************************************************************************)
EXTENDS Integers, Sequences

CONSTANTS
    Services,   \* what main forks, in this order
    MaxStarts,  \* bound: starts of the program
    MaxVisits   \* bound: runs of the controller

Known == {"broadcast", "tcp", "udp", "copy"}

ASSUME DaemonAssumption ==
    /\ Services \in Seq(Known)
    /\ Services # <<>>
    /\ \A i, j \in 1..Len(Services) : Services[i] = Services[j] => i = j
    /\ MaxStarts \in Nat
    /\ MaxVisits \in Nat

Starts == 1..MaxStarts
Nobody == 0
Kinds == {Services[i] : i \in 1..Len(Services)}

VARIABLES
    at,       \* at[d]: where the daemon d is
    pending,  \* pending[d]: blocked signals that d has not taken
    lock,     \* who holds the lock on the pid file
    pidfile,  \* whose pid is in the file
    svc,      \* svc[d][k]: where the service k that d forked is
    sess,     \* sess[d][k]: where the session that this service forked is
    ctl,      \* where the controller is
    target,   \* whose pid the controller has read
    visits    \* how often the controller was run

daemon == <<at, pending, lock>>
services == <<svc, sess>>
controller == <<ctl, target, visits>>

vars == <<daemon, pidfile, services, controller>>

\* Signals do what they do by default until they are blocked.
Bare == {"born", "locked", "written"}
Masked == {"fork", "wait", "closing"}
Over == {"stopped", "quit", "unforked", "crashed"}

-----------------------------------------------------------------------------
(* Starting.                                                               *)

\* A process that ends gives up its lock; the services do not inherit it.
Ends(d, how) ==
    /\ at' = [at EXCEPT ![d] = how]
    /\ lock' = IF lock = d THEN Nobody ELSE lock
    /\ UNCHANGED pending

Goes(d, from, to) ==
    /\ at[d] = from
    /\ at' = [at EXCEPT ![d] = to]

Start(d) ==
    /\ Goes(d, "none", "born")
    /\ \A e \in Starts : e < d => at[e] # "none"
    /\ UNCHANGED <<pending, lock, pidfile, services, controller>>

\* Mutant of LockPidFile: nobody looks whether the lock was granted.
LockIgnored(d) ==
    /\ Goes(d, "born", "locked")
    /\ lock' = IF lock = Nobody THEN d ELSE lock
    /\ UNCHANGED <<pending, pidfile, services, controller>>

LockPidFile(d) ==
    /\ lock = Nobody
    /\ Goes(d, "born", "locked")
    /\ lock' = d
    /\ UNCHANGED <<pending, pidfile, services, controller>>

\* Another daemon holds the lock, or the file cannot be opened or locked.
LockFails(d) ==
    /\ at[d] = "born"
    /\ Ends(d, "stopped")
    /\ UNCHANGED <<pidfile, services, controller>>

WritePid(d) ==
    /\ Goes(d, "locked", "written")
    /\ pidfile' = d
    /\ UNCHANGED <<pending, lock, services, controller>>

\* The write, the fifo, chdir or one of the standard streams fails.
SetUpFails(d) ==
    /\ at[d] \in {"locked", "written"}
    /\ Ends(d, "stopped")
    /\ UNCHANGED <<pidfile, services, controller>>

BlockSignals(d) ==
    /\ Goes(d, "written", "fork")
    /\ UNCHANGED <<pending, lock, pidfile, services, controller>>

\* Mutant of Forks: the signals are not blocked yet.
ForksBare(d) ==
    /\ at[d] = "written"
    /\ \E i \in 1..Len(Services) :
          /\ svc[d][Services[i]] = "none"
          /\ \A j \in 1..(i - 1) : svc[d][Services[j]] # "none"
          /\ svc' = [svc EXCEPT ![d][Services[i]] = "starting"]
          /\ at' = IF i = Len(Services) THEN [at EXCEPT ![d] = "wait"] ELSE at
    /\ UNCHANGED <<pending, lock, pidfile, sess, controller>>

Forks(d) ==
    /\ at[d] = "fork"
    /\ \E i \in 1..Len(Services) :
          /\ svc[d][Services[i]] = "none"
          /\ \A j \in 1..(i - 1) : svc[d][Services[j]] # "none"
          /\ svc' = [svc EXCEPT ![d][Services[i]] = "starting"]
          /\ at' = IF i = Len(Services) THEN [at EXCEPT ![d] = "wait"] ELSE at
    /\ UNCHANGED <<pending, lock, pidfile, sess, controller>>

\* main returns, and the services it has forked stay.
ForkFails(d) ==
    /\ at[d] = "fork"
    /\ Ends(d, "unforked")
    /\ UNCHANGED <<pidfile, services, controller>>

-----------------------------------------------------------------------------
(* The loop.                                                               *)

\* The lower number first: SIGUSR1 before SIGTERM.
TakeProbe(d) ==
    /\ at[d] = "wait"
    /\ "USR1" \in pending[d]
    /\ pending' = [pending EXCEPT ![d] = @ \ {"USR1"}]
    /\ UNCHANGED <<at, lock, pidfile, services, controller>>

\* Mutant of Killed: one service is forgotten.
KilledButLast(k, s) ==
    IF k = Services[Len(Services)] THEN s
    ELSE IF s \in {"serving", "dying"} THEN "dying" ELSE "ended"

\* What SIGKILL makes of a service: its sockets are closed a little later.
Killed(k, s) == IF s \in {"serving", "dying"} THEN "dying" ELSE "ended"

TakeTerm(d) ==
    /\ "TERM" \in pending[d]
    /\ "USR1" \notin pending[d]
    /\ Goes(d, "wait", "closing")
    /\ pending' = [pending EXCEPT ![d] = @ \ {"TERM"}]
    /\ svc' = [svc EXCEPT ![d] = [k \in Kinds |-> Killed(k, svc[d][k])]]
    /\ UNCHANGED <<lock, pidfile, sess, controller>>

\* The pid file stays.
Shutdown(d) ==
    /\ at[d] = "closing"
    /\ Ends(d, "quit")
    /\ UNCHANGED <<pidfile, services, controller>>

\* Killed by a signal that cannot be blocked (external).
Crash(d) ==
    /\ at[d] \in Bare \cup Masked
    /\ Ends(d, "crashed")
    /\ UNCHANGED <<pidfile, services, controller>>

-----------------------------------------------------------------------------
(* The services and their sessions.                                        *)

\* Two services share a UDP port, not a TCP port.
Exclusive == {"tcp", "copy"}

Holds(d, k) == svc[d][k] \in {"serving", "dying"} \/ sess[d][k] = "new"

PortTaken(k) == k \in Exclusive /\ \E e \in Starts : Holds(e, k)

Bind(d, k) ==
    /\ svc[d][k] = "starting"
    /\ svc' = [svc EXCEPT ![d][k] = IF PortTaken(k) THEN "ended" ELSE "serving"]
    /\ UNCHANGED <<daemon, pidfile, sess, controller>>

\* A call fails, or nothing came for STANTARD_TIME; SIGCHLD is ignored, so
\* the daemon does not learn of it.
ServiceReturns(d, k) ==
    /\ svc[d][k] = "serving"
    /\ svc' = [svc EXCEPT ![d][k] = "ended"]
    /\ UNCHANGED <<daemon, pidfile, sess, controller>>

ServiceGone(d, k) ==
    /\ svc[d][k] = "dying"
    /\ svc' = [svc EXCEPT ![d][k] = "ended"]
    /\ UNCHANGED <<daemon, pidfile, sess, controller>>

\* The fork of rudp_accept; broadcast has none.
Accept(d, k) ==
    /\ k # "broadcast"
    /\ svc[d][k] = "serving"
    /\ sess[d][k] = "none"
    /\ sess' = [sess EXCEPT ![d][k] = "new"]
    /\ UNCHANGED <<daemon, pidfile, svc, controller>>

\* Mutant of SessionCloses: the session keeps the socket of its service.
SessionKeeps(d, k) ==
    /\ sess[d][k] = "new"
    /\ UNCHANGED <<daemon, pidfile, services, controller>>

\* The child of rudp_accept closes the socket of its service.
SessionCloses(d, k) ==
    /\ sess[d][k] = "new"
    /\ sess' = [sess EXCEPT ![d][k] = "going"]
    /\ UNCHANGED <<daemon, pidfile, svc, controller>>

SessionEnds(d, k) ==
    /\ sess[d][k] = "going"
    /\ sess' = [sess EXCEPT ![d][k] = "none"]
    /\ UNCHANGED <<daemon, pidfile, svc, controller>>

-----------------------------------------------------------------------------
(* The controller.                                                         *)

ReadPid ==
    /\ ctl = "none"
    /\ visits < MaxVisits
    /\ visits' = visits + 1
    /\ pidfile # Nobody
    /\ ctl' = "probe"
    /\ target' = pidfile
    /\ UNCHANGED <<daemon, pidfile, services>>

Signal(d, s) ==
    \/ /\ at[d] \in Bare
       /\ Ends(d, "stopped")
    \/ /\ at[d] \in Masked
       /\ pending' = [pending EXCEPT ![d] = @ \cup {s}]
       /\ UNCHANGED <<at, lock>>

\* SIGUSR1 shows whether the process exists.
Probe ==
    /\ ctl = "probe"
    /\ IF at[target] \in Over
       THEN /\ ctl' = "none"
            /\ UNCHANGED daemon
       ELSE /\ ctl' = "menu"
            /\ Signal(target, "USR1")
    /\ UNCHANGED <<pidfile, services, target, visits>>

ChooseKill ==
    /\ ctl = "menu"
    /\ ctl' = "none"
    /\ IF at[target] \in Over THEN UNCHANGED daemon ELSE Signal(target, "TERM")
    /\ UNCHANGED <<pidfile, services, target, visits>>

ChooseExit ==
    /\ ctl = "menu"
    /\ ctl' = "none"
    /\ UNCHANGED <<daemon, pidfile, services, target, visits>>

-----------------------------------------------------------------------------

Init ==
    /\ at = [d \in Starts |-> "none"]
    /\ pending = [d \in Starts |-> {}]
    /\ lock = Nobody
    /\ pidfile = Nobody
    /\ svc = [d \in Starts |-> [k \in Kinds |-> "none"]]
    /\ sess = [d \in Starts |-> [k \in Kinds |-> "none"]]
    /\ ctl = "none"
    /\ target = Nobody
    /\ visits = 0

DaemonStep(d) ==
    \/ LockPidFile(d) \/ LockFails(d) \/ WritePid(d) \/ SetUpFails(d)
    \/ BlockSignals(d) \/ Forks(d) \/ ForkFails(d)
    \/ TakeProbe(d) \/ TakeTerm(d) \/ Shutdown(d)

ServiceStep(d, k) == Bind(d, k) \/ ServiceGone(d, k) \/ SessionCloses(d, k)

\* What clients, time and users may bring about.
Happens(d, k) == ServiceReturns(d, k) \/ Accept(d, k) \/ SessionEnds(d, k)

ControllerStep == ReadPid \/ Probe \/ ChooseKill \/ ChooseExit

Next ==
    \/ \E d \in Starts : Start(d) \/ DaemonStep(d) \/ Crash(d)
    \/ \E d \in Starts, k \in Kinds : ServiceStep(d, k) \/ Happens(d, k)
    \/ ControllerStep

Spec == Init /\ [][Next]_vars

\* Processes that can run do, and the kernel ends what was killed.
FairSpec ==
    /\ Spec
    /\ \A d \in Starts : WF_vars(DaemonStep(d))
    /\ \A d \in Starts, k \in Kinds : WF_vars(ServiceStep(d, k))

-----------------------------------------------------------------------------
(* Properties.                                                             *)

\* Every variable has its type.
TypeOK ==
    /\ at \in [Starts -> {"none"} \cup Bare \cup Masked \cup Over]
    /\ pending \in [Starts -> SUBSET {"USR1", "TERM"}]
    /\ lock \in Starts \cup {Nobody}
    /\ pidfile \in Starts \cup {Nobody}
    /\ svc \in [Starts -> [Kinds -> {"none", "starting", "serving", "dying", "ended"}]]
    /\ sess \in [Starts -> [Kinds -> {"none", "new", "going"}]]
    /\ ctl \in {"none", "probe", "menu"}
    /\ target \in Starts \cup {Nobody}
    /\ visits \in 0..MaxVisits

\* A service that lives has a daemon that holds the lock and can end it; only
\* a daemon that was killed outright, or could not fork, leaves one behind.
ServicesHaveDaemon ==
    \A d \in Starts, k \in Kinds :
        svc[d][k] \in {"starting", "serving"} =>
            lock = d \/ at[d] \in {"unforked", "crashed"}

\* From its first service to its end a daemon is the one the pid file names,
\* whatever other starts and their failures do.
PidFileNamesDaemon ==
    \A d \in Starts : at[d] \in {"written"} \cup Masked => pidfile = d

\* The controller's SIGTERM ends the daemon and all its services.
KillWorks ==
    \A d \in Starts :
        at[d] \in Masked /\ "TERM" \in pending[d] ~>
            \/ at[d] \in {"unforked", "crashed"}
            \/ at[d] = "quit" /\ \A k \in Kinds : svc[d][k] = "ended"

\* The ports of a daemon that has quit come free, although its sessions go
\* on for as long as their users like.
PortsComeBack ==
    \A d \in Starts : at[d] = "quit" ~> \A k \in Kinds : ~Holds(d, k)

-----------------------------------------------------------------------------
(* Why: what a step relies on.                                             *)

\* Who has passed the lock and is not over holds it.
LockHeld == \A d \in Starts : at[d] \in {"locked", "written"} \cup Masked => lock = d

\* Services are forked and go on only in these places of their daemon.
ServicesWhile ==
    \A d \in Starts, k \in Kinds :
        svc[d][k] \in {"starting", "serving"} =>
            at[d] \in {"fork", "wait", "unforked", "crashed"}

IInv == LockHeld /\ ServicesWhile /\ PidFileNamesDaemon
=============================================================================
