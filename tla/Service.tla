------------------------------ MODULE Service ------------------------------
(***************************************************************************)
(* The daemon as others meet it: its start and its end, the requests it    *)
(* answers over a local socket (PING, STOP and the three intervals), the   *)
(* tools that send them and enigmatic_start, which looks for a daemon and  *)
(* launches one.  A request is sent at most once, and given up after a     *)
(* second; what was sent may be handled all the same.  enigmatic -s falls  *)
(* back to a signal when its STOP fails, waits for the process to be gone  *)
(* and removes the pid file.                                               *)
(*                                                                         *)
(* The lock and the pid file are taken and left in one step each: what     *)
(* happens between their steps is the subject of DaemonLock.               *)
(***************************************************************************)
EXTENDS Naturals

CONSTANTS
  Old, New,        \* the daemon that may be there, the one that is launched
  Tools,           \* processes that send a request
  Starter,         \* enigmatic_start
  NoDaemon,
  Intervals,       \* the requests that set an interval
  Period,          \* Period[i]: polls between broadcasts at interval i
  Normal,          \* the interval a daemon begins with
  BlockEvery,      \* polls from one block to the next
  WaitTries,       \* bound: looks at an old daemon (20 in the code)
  StartTries       \* bound: looks at the new one (60)

Instances == {Old, New}
Clients   == Tools \cup {Starter}
Commands  == {"PING", "STOP"} \cup Intervals

ASSUME NamesAssumption ==
  /\ Old # New /\ Starter \notin Tools /\ NoDaemon \notin Instances
  /\ Normal \in Intervals /\ "PING" \notin Intervals /\ "STOP" \notin Intervals
ASSUME PeriodsAssumption ==
  /\ Period \in [Intervals -> Nat \ {0}] /\ BlockEvery \in Nat \ {0}
  /\ WaitTries \in Nat /\ StartTries \in Nat

VARIABLES
  phase,           \* where each daemon is
  lock_holder,     \* the daemon that has the lock
  pid_named,       \* the daemon that the pid file names
  socket,          \* the daemon that listens
  config,          \* the configuration file
  pending,         \* requests the daemon has not handled
  interval,        \* enigmatic->interval
  interval_update, \* enigmatic->interval_update
  header,          \* the interval in the last BROADCAST of the log
  broadcast,       \* enigmatic->broadcast
  poll_count,      \* enigmatic->poll_count
  polling,         \* the logger is inside a poll
  query,           \* where each client's request is
  start,           \* where enigmatic_start is
  tries,           \* how often it has looked
  terminate,       \* where each tool is in enigmatic_terminate, and its pid
  sigterm          \* daemons with a SIGTERM that waits for their main loop

files       == <<lock_holder, pid_named, socket, config>>
poller      == <<interval, interval_update, header, broadcast, poll_count,
                 polling>>
starter     == <<start, tries>>
stopper     == <<terminate, sigterm>>
serviceVars == <<phase, files, pending, poller, query, starter, stopper>>

-----------------------------------------------------------------------------
Fresh == [state |-> "idle", cmd |-> "PING", to |-> NoDaemon]

(* There is a daemon that has been running and has a configuration, or     *)
(* there has been none.                                                    *)
ServiceInit ==
  /\ \E up \in BOOLEAN :
       /\ phase = [d \in Instances |-> IF d = Old /\ up THEN "up" ELSE "off"]
       /\ lock_holder = IF up THEN Old ELSE NoDaemon
       /\ pid_named = lock_holder /\ socket = lock_holder
       /\ config \in {"loadable", "corrupt"} \cup (IF up THEN {} ELSE {"none"})
  /\ pending = {}
  /\ interval = Normal /\ interval_update = Normal /\ header = Normal
  /\ broadcast = TRUE /\ poll_count = 0 /\ polling = FALSE
  /\ query = [c \in Clients |-> Fresh]
  /\ start = "off" /\ tries = 0
  /\ terminate = [c \in Tools |-> [state |-> "idle", pid |-> NoDaemon]]
  /\ sigterm = {}

Runs(d) == phase[d] \notin {"off", "gone"}

Moves(d, from, to) ==
  phase[d] = from /\ phase' = [phase EXCEPT ![d] = to]

(* Deliberately wrong: the lock is taken for one's own. *)
TakeLockUnheeded(d) ==
  /\ Moves(d, "launched", "locked")
  /\ lock_holder' = IF lock_holder = NoDaemon THEN d ELSE lock_holder
  /\ UNCHANGED <<pid_named, socket, config, pending, poller, query, starter,
                 stopper>>

(* A second daemon finds the lock taken and leaves. *)
TakeLock(d) ==
  /\ \/ /\ lock_holder = NoDaemon /\ lock_holder' = d
        /\ Moves(d, "launched", "locked")
     \/ /\ lock_holder # NoDaemon /\ lock_holder' = lock_holder
        /\ Moves(d, "launched", "gone")
  /\ UNCHANGED <<pid_named, socket, config, pending, poller, query, starter,
                 stopper>>

CreatePidfile(d) ==
  /\ Moves(d, "locked", "named")
  /\ pid_named' = d
  /\ UNCHANGED <<lock_holder, socket, config, pending, poller, query, starter,
                 stopper>>

(* A missing configuration is made and saved, one of another minor version *)
(* is replaced in memory only and counts as loadable.                      *)
LoadConfig(d) ==
  /\ config # "corrupt"
  /\ Moves(d, "named", "configured")
  /\ config' = IF config = "none" THEN "loadable" ELSE config
  /\ UNCHANGED <<lock_holder, pid_named, socket, pending, poller, query,
                 starter, stopper>>

(* A signal that came before the main loop is the first thing it takes up. *)
Listen(d) ==
  /\ Moves(d, "configured", IF d \in sigterm THEN "stopping" ELSE "up")
  /\ socket' = d /\ sigterm' = sigterm \ {d}
  /\ UNCHANGED <<lock_holder, pid_named, config, pending, poller, query,
                 starter, terminate>>

(* The end of a process: the lock, the socket and its memory go, the pid   *)
(* file and the log stay.                                                  *)
Ends(d) ==
  /\ phase' = [phase EXCEPT ![d] = "gone"]
  /\ lock_holder' = IF lock_holder = d THEN NoDaemon ELSE lock_holder
  /\ socket' = IF socket = d THEN NoDaemon ELSE socket
  /\ pending' = IF socket = d THEN {} ELSE pending
  /\ interval' = Normal /\ interval_update' = Normal
  /\ broadcast' = TRUE /\ poll_count' = 0 /\ polling' = FALSE
  /\ sigterm' = sigterm \ {d}
  /\ UNCHANGED <<pid_named, config, header, query, starter, terminate>>

(* A configuration that cannot be read, a socket that cannot be made. *)
StartFails(d) ==
  /\ \/ phase[d] = "named" /\ config = "corrupt"
     \/ phase[d] = "configured"
  /\ Ends(d)

Killed(d) == phase[d] \in {"up", "stopping", "closing", "hung"} /\ Ends(d)

-----------------------------------------------------------------------------
(* The logger thread: the header of a poll, then its end.                  *)
BeginPoll ==
  /\ socket # NoDaemon /\ phase[socket] \in {"up", "stopping"} /\ ~polling
  /\ polling' = TRUE
  /\ header' = IF broadcast THEN interval ELSE header
  /\ UNCHANGED <<phase, files, pending, interval, interval_update, broadcast,
                 poll_count, query, starter, stopper>>

(* The counter only matters modulo all periods, and in being 0 once. *)
NextPollCount ==
  LET round == BlockEvery * Period[Normal] IN
  IF poll_count = round THEN 1 ELSE poll_count + 1

(* Deliberately wrong: nothing asks for a broadcast again. *)
EndPollQuiet ==
  /\ socket # NoDaemon /\ phase[socket] \in {"up", "stopping"} /\ polling
  /\ polling' = FALSE
  /\ interval' = IF broadcast \/ poll_count % BlockEvery = 0
                 THEN interval_update ELSE interval
  /\ broadcast' = FALSE
  /\ poll_count' = NextPollCount
  /\ UNCHANGED <<phase, files, pending, interval_update, header, query,
                 starter, stopper>>

EndPoll ==
  /\ socket # NoDaemon /\ phase[socket] \in {"up", "stopping"} /\ polling
  /\ polling' = FALSE
  /\ interval' = IF broadcast \/ poll_count % BlockEvery = 0
                 THEN interval_update ELSE interval
  /\ broadcast' = (poll_count # 0 /\ poll_count % Period[interval'] = 0)
  /\ poll_count' = NextPollCount
  /\ UNCHANGED <<phase, files, pending, interval_update, header, query,
                 starter, stopper>>

-----------------------------------------------------------------------------
(* The reply goes to a client that may have given up. *)
Reply(c) ==
  query' = IF query[c].state = "sent" THEN [query EXCEPT ![c].state = "replied"]
           ELSE query

Handling(d, r) ==
  /\ socket = d /\ phase[d] \in {"up", "stopping"}
  /\ r \in pending
  /\ pending' = pending \ {r}
  /\ Reply(r.client)

HandlePing(d) ==
  \E r \in pending :
    /\ r.cmd = "PING" /\ Handling(d, r)
    /\ UNCHANGED <<phase, files, poller, starter, stopper>>

HandleInterval(d) ==
  \E r \in pending :
    /\ r.cmd \in Intervals /\ Handling(d, r)
    /\ interval_update' = r.cmd
    /\ UNCHANGED <<phase, files, interval, header, broadcast, poll_count,
                   polling, starter, stopper>>

(* Deliberately wrong: the answer is all there is. *)
HandleStopNoRaise(d) ==
  \E r \in pending :
    /\ r.cmd = "STOP" /\ Handling(d, r)
    /\ UNCHANGED <<phase, files, poller, starter, stopper>>

(* The daemon raises SIGTERM, which its main loop takes up a little later. *)
HandleStop(d) ==
  \E r \in pending :
    /\ r.cmd = "STOP" /\ Handling(d, r)
    /\ phase' = [phase EXCEPT ![d] = "stopping"]
    /\ UNCHANGED <<files, poller, starter, stopper>>

(* cb_shutdown waits for the threads; the main loop answers nobody. *)
BeginClose(d) ==
  /\ Moves(d, "stopping", "closing")
  /\ UNCHANGED <<files, pending, poller, query, starter, stopper>>

(* A monitor's thread that hangs in the system with its lock: the main     *)
(* loop waits for that lock for good.                                      *)
Hang(d) ==
  /\ Moves(d, "closing", "hung")
  /\ UNCHANGED <<files, pending, poller, query, starter, stopper>>

(* The server is deleted with what it had not handled.                     *)
ServerShutdown(d) ==
  /\ Moves(d, "closing", "saving")
  /\ socket' = NoDaemon /\ pending' = {}
  /\ UNCHANGED <<lock_holder, pid_named, config, poller, query, starter,
                 stopper>>

SaveConfig(d) ==
  /\ Moves(d, "saving", "leaving")
  /\ config' = "loadable" /\ pid_named' = NoDaemon
  /\ UNCHANGED <<lock_holder, socket, pending, poller, query, starter,
                 stopper>>

Leave(d) == phase[d] = "leaving" /\ Ends(d)

-----------------------------------------------------------------------------
SetQuery(c, state) == query' = [query EXCEPT ![c].state = state]

(* A connection that is refused is the end of a query. *)
Ask(c, cmd) ==
  IF socket = NoDaemon
  THEN /\ query' = [query EXCEPT ![c] =
                      [state |-> "failed", cmd |-> cmd, to |-> NoDaemon]]
       /\ pending' = pending
  ELSE /\ query' = [query EXCEPT ![c] =
                      [state |-> "sent", cmd |-> cmd, to |-> socket]]
       /\ pending' = pending \cup {[client |-> c, cmd |-> cmd]}

Receive(c) ==
  /\ query[c].state = "replied" /\ SetQuery(c, "ok")
  /\ UNCHANGED <<phase, files, pending, poller, starter, stopper>>

(* A second after the connection, an answer that is on its way or not. *)
Timeout(c) ==
  /\ query[c].state \in {"sent", "replied"} /\ SetQuery(c, "failed")
  /\ UNCHANGED <<phase, files, pending, poller, starter, stopper>>

Disconnected(c) ==
  /\ query[c].state = "sent" /\ socket # query[c].to /\ SetQuery(c, "failed")
  /\ UNCHANGED <<phase, files, pending, poller, starter, stopper>>

Send(c) ==
  /\ c \in Tools /\ query[c].state = "idle"
  /\ \E cmd \in Commands : Ask(c, cmd)
  /\ UNCHANGED <<phase, files, poller, starter, stopper>>

-----------------------------------------------------------------------------
Ended == {"ok", "failed"}

(* The pid file names a process that runs and is an enigmatic. *)
_pidfile_proc_alive == pid_named # NoDaemon /\ Runs(pid_named)

(* enigmatic_terminate, the way out of an enigmatic -s that had no answer. *)
Terminating(c) ==
  /\ query[c].state = "failed" /\ query[c].cmd = "STOP"
  /\ terminate[c].state \notin {"ended", "removed"}

At(c, state) == Terminating(c) /\ terminate[c].state = state

GoesTo(c, state, d) ==
  terminate' = [terminate EXCEPT ![c] = [state |-> state, pid |-> d]]

TerminateRead(c) ==
  /\ At(c, "idle")
  /\ \/ _pidfile_proc_alive /\ GoesTo(c, "found", pid_named)
     \/ ~_pidfile_proc_alive /\ GoesTo(c, "ended", NoDaemon)
  /\ UNCHANGED <<phase, files, pending, poller, query, starter, sigterm>>

(* A daemon that has not come to its main loop takes the signal up there,  *)
(* one that is on its way out has no use for it.                           *)
TerminateKill(c) ==
  LET d == terminate[c].pid IN
  /\ At(c, "found")
  /\ \/ /\ phase[d] \in {"named", "configured"} /\ GoesTo(c, "waiting", d)
        /\ sigterm' = sigterm \cup {d} /\ phase' = phase
     \/ /\ Moves(d, "up", "stopping") /\ GoesTo(c, "waiting", d)
        /\ sigterm' = sigterm
     \/ /\ phase[d] \in {"stopping", "closing", "hung", "saving", "leaving"}
        /\ GoesTo(c, "waiting", d) /\ UNCHANGED <<phase, sigterm>>
     \/ /\ ~Runs(d) /\ GoesTo(c, "remove", NoDaemon)
        /\ UNCHANGED <<phase, sigterm>>
  /\ UNCHANGED <<files, pending, poller, query, starter>>

TerminateSawGone(c) ==
  /\ At(c, "waiting") /\ ~Runs(terminate[c].pid)
  /\ GoesTo(c, "remove", NoDaemon)
  /\ UNCHANGED <<phase, files, pending, poller, query, starter, sigterm>>

(* After five seconds it gives up. *)
TerminateGiveUp(c) ==
  /\ At(c, "waiting") /\ GoesTo(c, "ended", NoDaemon)
  /\ UNCHANGED <<phase, files, pending, poller, query, starter, sigterm>>

(* The pid file goes, whatever it says by now.                             *)
TerminateRemove(c) ==
  /\ At(c, "remove") /\ GoesTo(c, "removed", pid_named)
  /\ pid_named' = NoDaemon
  /\ UNCHANGED <<phase, lock_holder, socket, config, pending, poller, query,
                 starter, sigterm>>

-----------------------------------------------------------------------------
Begin ==
  /\ start = "off" /\ start' = "first"
  /\ UNCHANGED <<phase, files, pending, poller, query, tries, stopper>>

Looking == {"first", "wait", "check"}

(* _daemon_ready with a process to ask: enigmatic -p is run. *)
Ping ==
  /\ start \in Looking /\ query[Starter].state = "idle"
  /\ _pidfile_proc_alive
  /\ Ask(Starter, "PING")
  /\ UNCHANGED <<phase, files, poller, starter, stopper>>

(* What waitpid leaves in the status of enigmatic -p.  SIGCHLD is ignored, *)
(* so waitpid fails once the process is gone and the status stays 0.       *)
ExitStatus(outcome) == 0

(* Deliberately wrong: looks at the new daemon are not counted. *)
NotReadyUncounted ==
  \/ start = "first" /\ start' = "wait" /\ tries' = tries
  \/ start = "wait" /\ start' = "alive" /\ tries' = tries
  \/ start = "check" /\ start' = start /\ tries' = tries

NotReady ==
  \/ start = "first" /\ start' = "wait" /\ tries' = tries
  \/ start = "wait" /\ start' = "alive" /\ tries' = tries
  \/ start = "check" /\ tries < StartTries
     /\ start' = start /\ tries' = tries + 1
  \/ start = "check" /\ tries = StartTries
     /\ start' = "missing" /\ tries' = tries

Pinged ==
  /\ start \in Looking /\ query[Starter].state \in Ended
  /\ query' = [query EXCEPT ![Starter] = Fresh]
  /\ IF ExitStatus(query[Starter].state) = 0
     THEN start' = "running" /\ tries' = tries ELSE NotReady
  /\ UNCHANGED <<phase, files, pending, poller, stopper>>

(* _daemon_ready without a process to ask. *)
NobodyThere ==
  /\ start \in Looking /\ query[Starter].state = "idle"
  /\ ~_pidfile_proc_alive
  /\ NotReady
  /\ UNCHANGED <<phase, files, pending, poller, query, stopper>>

(* Before a launch: is there a process that does not answer? *)
StillAlive ==
  /\ start = "alive"
  /\ IF _pidfile_proc_alive /\ tries < WaitTries
     THEN start' = "wait" /\ tries' = tries + 1
     ELSE start' = "launch" /\ tries' = 0
  /\ UNCHANGED <<phase, files, pending, poller, query, stopper>>

Launch ==
  /\ start = "launch" /\ start' = "check"
  /\ Moves(New, "off", "launched")
  /\ UNCHANGED <<files, pending, poller, query, tries, stopper>>

-----------------------------------------------------------------------------
Poll      == BeginPoll \/ EndPoll
Starts(d) == TakeLock(d) \/ CreatePidfile(d) \/ LoadConfig(d) \/ Listen(d)
             \/ StartFails(d)
Handle(d) == HandlePing(d) \/ HandleInterval(d) \/ HandleStop(d)
Stops(d)  == BeginClose(d) \/ ServerShutdown(d) \/ SaveConfig(d) \/ Leave(d)

Query(c)  == Receive(c) \/ Timeout(c) \/ Disconnected(c)
StarterSteps == Ping \/ Pinged \/ NobodyThere \/ StillAlive \/ Launch

Terminates(c) ==
  \/ TerminateRead(c) \/ TerminateKill(c) \/ TerminateSawGone(c)
  \/ TerminateGiveUp(c) \/ TerminateRemove(c)

ServiceNext ==
  \/ Poll \/ Begin \/ StarterSteps
  \/ \E d \in Instances : Starts(d) \/ Handle(d) \/ Stops(d) \/ Hang(d)
                       \/ Killed(d)
  \/ \E c \in Clients : Send(c) \/ Query(c)
  \/ \E c \in Tools : Terminates(c)

ServiceSpec == ServiceInit /\ [][ServiceNext]_serviceVars

(* Threads and main loops go on; nobody is obliged to send, to begin or to *)
(* crash.                                                                  *)
Fairness ==
  /\ WF_serviceVars(Poll) /\ WF_serviceVars(StarterSteps)
  /\ \A d \in Instances :
       /\ WF_serviceVars(Starts(d)) /\ WF_serviceVars(Handle(d))
       /\ WF_serviceVars(Stops(d))
  /\ \A c \in Clients : WF_serviceVars(Query(c))
  /\ \A c \in Tools : WF_serviceVars(Terminates(c))

FairSpec == ServiceSpec /\ Fairness

-----------------------------------------------------------------------------
(* Every variable has the type its comment gives it. *)
ServiceTypeOK ==
  /\ phase \in [Instances -> {"off", "launched", "locked", "named", "configured",
        "up", "stopping", "closing", "hung", "saving", "leaving", "gone"}]
  /\ {lock_holder, pid_named, socket} \subseteq Instances \cup {NoDaemon}
  /\ config \in {"none", "loadable", "corrupt"}
  /\ pending \subseteq [client : Clients, cmd : Commands]
  /\ {interval, interval_update, header} \subseteq Intervals
  /\ broadcast \in BOOLEAN /\ poll_count \in Nat /\ polling \in BOOLEAN
  /\ query \in [Clients -> [state : {"idle", "sent", "replied"} \cup Ended,
                            cmd : Commands, to : Instances \cup {NoDaemon}]]
  /\ start \in {"off", "first", "wait", "alive", "launch", "check", "running",
                "missing"}
  /\ tries \in Nat
  /\ terminate \in [Tools ->
       [state : {"idle", "found", "waiting", "remove", "ended", "removed"},
        pid : Instances \cup {NoDaemon}]]
  /\ sigterm \subseteq Instances

(* Whoever answers has the lock, and can be found by the pid file: a       *)
(* daemon that is on its way out, or that came second, never answers for   *)
(* the one whose name is there.  The one way to lose the name is           *)
(* enigmatic -s, that has waited for an earlier daemon to be gone and      *)
(* removes the pid file without another look at whose it is                *)
(* (enigmatic_util.c:225); the file is then missing, never another's.      *)
Unnamed(d) == \E c \in Tools : terminate[c] = [state |-> "removed", pid |-> d]

ServerIsHolder ==
  socket # NoDaemon =>
    /\ lock_holder = socket
    /\ pid_named = socket \/ (pid_named = NoDaemon /\ Unnamed(socket))

(* A STOP that was answered is the end of the daemon that answered it, and *)
(* of its lock, unless a monitor's thread keeps it for good.               *)
StopTakesEffect ==
  \A c \in Tools : \A d \in Instances :
    query[c].state = "ok" /\ query[c].cmd = "STOP" /\ query[c].to = d
      ~> phase[d] = "hung" \/ (phase[d] = "gone" /\ lock_holder # d)

(* The interval a request has set is in time the one that is polled at and *)
(* the one the log tells its readers, unless another request comes or the  *)
(* daemon is stopped; the period of the broadcasts changes with it.        *)
IntervalTakesEffect ==
  \A d \in Instances : \A i \in Intervals :
    phase[d] = "up" /\ interval_update = i
      ~> \/ interval = i /\ header = i
         \/ interval_update # i \/ phase[d] # "up"

(* Nobody waits for good: every request has its answer, is refused, loses  *)
(* its connection or runs into the timer, whatever becomes of the daemon,  *)
(* an enigmatic -s ends with the process gone or given up, and             *)
(* enigmatic_start ends with the daemon it looked for, with one it         *)
(* launched, or without.                                                   *)
Waits(c) == query[c].state \in {"sent", "replied"}
WaitsEnd ==
  /\ \A c \in Clients : Waits(c) ~> ~Waits(c)
  /\ \A c \in Tools : Terminating(c) ~> ~Terminating(c)
  /\ start # "off" ~> start \in {"running", "missing"}
=============================================================================
