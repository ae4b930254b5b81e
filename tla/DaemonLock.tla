----------------------------- MODULE DaemonLock -----------------------------
(***************************************************************************)
(* Starting and stopping the daemon: the lock file that keeps a second one *)
(* out, the pid file that says which one runs, and enigmatic -s, which     *)
(* falls back to a signal and then waits for the process to be gone.       *)
(*                                                                         *)
(* A lock is on a file, not on its name: a process that has the file open  *)
(* can lock it when the name is gone, and the next process to open the     *)
(* name makes another file.  Every process here runs once.                 *)
(***************************************************************************)
EXTENDS Integers

CONSTANTS
  Daemons,         \* processes that run main() to the end
  NoFile,          \* there is no file of that name
  Empty,           \* a pid file that has been opened and not yet written
  NoOne,           \* nobody holds the lock of a file
  Stopper          \* whether enigmatic -s is run at all

ASSUME DistinctAssumption ==
  /\ {NoFile, Empty, NoOne} \cap Daemons = {}
  /\ NoFile # Empty /\ Stopper \in BOOLEAN

(* Every process opens the lock file once, so it makes at most one. *)
Files == Daemons

VARIABLES
  pc,              \* where each process is
  lock_path,       \* the file under the lock file's name (by its maker)
  lock_fd,         \* the file each process has open
  holder,          \* who holds the lock of each file
  pidfile,         \* what the pid file says
  pid_open,        \* processes whose open pid file is the one of that name
  signalled,       \* processes that have been sent SIGTERM
  tpc, target      \* enigmatic_terminate and the process it is after

lock == <<lock_path, lock_fd, holder>>
pid  == <<pidfile, pid_open>>
stop == <<tpc, target>>
vars == <<pc, lock, pid, signalled, stop>>

Phases == {"new", "opened", "locked", "writing_pid", "starting", "up",
           "closing", "exiting", "unlocked", "gone"}

(* Past enigmatic_log_lock and before the lock is given back. *)
Inside == {"locked", "writing_pid", "starting", "up", "closing", "exiting"}

Alive(d) == pc[d] \notin {"new", "gone"}

GoTo(d, where) == pc' = [pc EXCEPT ![d] = where]

-----------------------------------------------------------------------------
Init ==
  /\ pc = [d \in Daemons |-> "new"]
  /\ lock_path = NoFile /\ lock_fd = [d \in Daemons |-> NoFile]
  /\ holder = [f \in Files |-> NoOne]
  /\ pidfile = NoFile /\ pid_open = {} /\ signalled = {}
  /\ tpc = "idle" /\ target = NoOne

Take(d) == holder' = [holder EXCEPT ![lock_fd[d]] = d]

(* What a process lets go of when it ends. *)
Release(d) == holder' = [f \in Files |-> IF holder[f] = d THEN NoOne ELSE holder[f]]

OpenLock(d) ==
  /\ pc[d] = "new" /\ GoTo(d, "opened")
  /\ lock_path' = IF lock_path = NoFile THEN d ELSE lock_path
  /\ lock_fd' = [lock_fd EXCEPT ![d] = lock_path']
  /\ UNCHANGED <<holder, pid, signalled, stop>>

(* Deliberately wrong: the answer of flock is not looked at. *)
TryLockUnheeded(d) ==
  /\ pc[d] = "opened" /\ Take(d) /\ GoTo(d, "locked")
  /\ UNCHANGED <<lock_path, lock_fd, pid, signalled, stop>>

(* enigmatic_log_lock: a lock that is held ends the program at once. *)
TryLock(d) ==
  /\ pc[d] = "opened"
  /\ \/ holder[lock_fd[d]] = NoOne /\ Take(d) /\ GoTo(d, "locked")
     \/ holder[lock_fd[d]] # NoOne /\ UNCHANGED holder /\ GoTo(d, "gone")
  /\ UNCHANGED <<lock_path, lock_fd, pid, signalled, stop>>

OpenPidfile(d) ==
  /\ pc[d] = "locked" /\ GoTo(d, "writing_pid")
  /\ pidfile' = Empty /\ pid_open' = pid_open \cup {d}
  /\ UNCHANGED <<lock, signalled, stop>>

WritePidfile(d) ==
  /\ pc[d] = "writing_pid" /\ GoTo(d, "starting")
  /\ pidfile' = IF d \in pid_open THEN d ELSE pidfile
  /\ pid_open' = pid_open \ {d}
  /\ UNCHANGED <<lock, signalled, stop>>

(* The rest of enigmatic_init: server, log, monitors, main loop. *)
Start(d) ==
  /\ pc[d] = "starting" /\ GoTo(d, "up")
  /\ UNCHANGED <<lock, pid, signalled, stop>>

(* ERROR(): exit(1), with the handler that gives the lock back and nothing *)
(* else; the pid file stays.                                               *)
Fail(d) ==
  /\ pc[d] \in {"starting", "up"} /\ GoTo(d, "exiting")
  /\ UNCHANGED <<lock, pid, signalled, stop>>

(* A STOP request: the daemon signals itself. *)
AskStop(d) ==
  /\ pc[d] = "up" /\ signalled' = signalled \cup {d}
  /\ UNCHANGED <<pc, lock, pid, stop>>

(* Deliberately wrong: the lock is given back while the shutdown still has *)
(* the pid file to delete.                                                 *)
ShutdownUnlocks(d) ==
  /\ pc[d] = "up" /\ d \in signalled /\ GoTo(d, "closing") /\ Release(d)
  /\ UNCHANGED <<lock_path, lock_fd, pid, signalled, stop>>

(* A signal that comes before the main loop runs is kept for it, and one   *)
(* that comes before there is a handler is a Crash.                        *)
Shutdown(d) ==
  /\ pc[d] = "up" /\ d \in signalled /\ GoTo(d, "closing")
  /\ UNCHANGED <<lock, pid, signalled, stop>>

RemovePidfile == pidfile' = NoFile /\ pid_open' = {}

DeletePidfile(d) ==
  /\ pc[d] = "closing" /\ RemovePidfile /\ GoTo(d, "exiting")
  /\ UNCHANGED <<lock, signalled, stop>>

(* Deliberately wrong: the name goes and the lock stays. *)
UnlockNot(d) ==
  /\ pc[d] = "exiting" /\ GoTo(d, "unlocked")
  /\ UNCHANGED <<lock, pid, signalled, stop>>

Unlock(d) ==
  /\ pc[d] = "exiting" /\ GoTo(d, "unlocked") /\ Release(d)
  /\ UNCHANGED <<lock_path, lock_fd, pid, signalled, stop>>

(* Whatever file has the name by now loses it. *)
Unlink(d) ==
  /\ pc[d] = "unlocked" /\ GoTo(d, "gone") /\ lock_path' = NoFile
  /\ UNCHANGED <<lock_fd, holder, pid, signalled, stop>>

Crash(d) ==
  /\ Alive(d) /\ GoTo(d, "gone") /\ Release(d)
  /\ pid_open' = pid_open \ {d}
  /\ UNCHANGED <<lock_path, lock_fd, pidfile, signalled, stop>>

-----------------------------------------------------------------------------
(* enigmatic_terminate: no pid, or that of a process that is not a daemon, *)
(* ends it.                                                                *)
TermRead ==
  /\ Stopper /\ tpc = "idle" /\ pidfile \in Daemons /\ Alive(pidfile)
  /\ target' = pidfile /\ tpc' = "found"
  /\ UNCHANGED <<pc, lock, pid, signalled>>

TermKill ==
  /\ tpc = "found"
  /\ \/ /\ Alive(target)
        /\ signalled' = signalled \cup {target} /\ tpc' = "waiting"
     \/ /\ ~Alive(target)
        /\ tpc' = "remove" /\ UNCHANGED signalled
  /\ UNCHANGED <<pc, lock, pid, target>>

TermSawGone ==
  /\ tpc = "waiting" /\ ~Alive(target) /\ tpc' = "remove"
  /\ UNCHANGED <<pc, lock, pid, signalled, target>>

(* After five seconds it gives up. *)
TermGiveUp ==
  /\ tpc = "waiting" /\ tpc' = "idle" /\ target' = NoOne
  /\ UNCHANGED <<pc, lock, pid, signalled>>

TermRemove ==
  /\ tpc = "remove" /\ RemovePidfile /\ tpc' = "idle" /\ target' = NoOne
  /\ UNCHANGED <<pc, lock, signalled>>

Terminate == TermRead \/ TermKill \/ TermSawGone \/ TermGiveUp \/ TermRemove

DaemonNext(d) ==
  \/ OpenLock(d) \/ TryLock(d) \/ OpenPidfile(d) \/ WritePidfile(d) \/ Start(d)
  \/ Fail(d) \/ AskStop(d) \/ Shutdown(d) \/ DeletePidfile(d) \/ Unlock(d)
  \/ Unlink(d) \/ Crash(d)

Next == Terminate \/ \E d \in Daemons : DaemonNext(d)

Spec == Init /\ [][Next]_vars

-----------------------------------------------------------------------------
(* Every variable has the type its comment gives it. *)
TypeOK ==
  /\ pc \in [Daemons -> Phases]
  /\ lock_path \in Files \cup {NoFile} /\ lock_fd \in [Daemons -> Files \cup {NoFile}]
  /\ \A d \in Daemons : pc[d] # "new" => lock_fd[d] \in Files
  /\ holder \in [Files -> Daemons \cup {NoOne}]
  /\ pidfile \in Daemons \cup {NoFile, Empty} /\ pid_open \subseteq Daemons
  /\ signalled \subseteq Daemons
  /\ tpc \in {"idle", "found", "waiting", "remove"} /\ target \in Daemons \cup {NoOne}
  /\ tpc # "idle" => target \in Daemons

(* Two processes that opened the same lock file are never both inside,     *)
(* however their steps mix and whichever of them stop, fail or crash: this *)
(* is what enigmatic_log_lock is there for.                                *)
SameFileKeepsOut ==
  \A c, d \in Daemons :
    pc[c] \in Inside /\ pc[d] \in Inside /\ lock_fd[c] = lock_fd[d] => c = d

(* No two daemons are inside at once: they would truncate one log and      *)
(* write to it together.  It fails with a third process: the second locks  *)
(* the file between the first one's unlock and its unlink, and the third   *)
(* makes a new file and locks that.                                        *)
OneDaemon == \A c, d \in Daemons : pc[c] \in Inside /\ pc[d] \in Inside => c = d

(* A process about to lock finds the lock free when nobody is inside: no   *)
(* way of ending, at any point, leaves it taken.                           *)
LockNotStuck ==
  (\A c \in Daemons : pc[c] \notin Inside) =>
    \A d \in Daemons : pc[d] = "opened" => holder[lock_fd[d]] = NoOne

(* A daemon that has written the pid file is the one it names for as long  *)
(* as it is up, whoever was there before and however it ended; the one     *)
(* step that may take the file from it is the removal by enigmatic -s of   *)
(* the pid file of an earlier daemon (enigmatic_util.c:225 does not look   *)
(* again at whose it is).  It holds when one daemon follows another, not   *)
(* when two of them are up (OneDaemon).                                    *)
PidfileKept ==
  [][\A d \in Daemons :
       /\ pidfile = d /\ pc[d] \in {"starting", "up"} /\ pc'[d] \in {"starting", "up"}
       => pidfile' = d \/ TermRemove]_vars
=============================================================================
