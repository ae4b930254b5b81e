--------------------------- MODULE DaemonThreads ---------------------------
(***************************************************************************)
(* The threads of the daemon and their end.  The logger polls; batteries,  *)
(* sensors and the power supply have a thread each that probes the system  *)
(* with a lock taken, which the logger only tries.  When the daemon is     *)
(* told to stop, the main loop cancels the logger, then the others, gives  *)
(* each of them half a second, and then closes and frees what they used.   *)
(* A wait can only run out on a thread that takes its time: a logger that  *)
(* sleeps through a long interval (or polls slowly), a probe that hangs.   *)
(***************************************************************************)
EXTENDS Naturals, Sequences

CONSTANTS
  Monitors,      \* the monitors with a thread
  AtStart,       \* those whose thread is there from the start: power
  Visits,        \* the order the logger visits them in
  Shutdowns,     \* the order they are waited for and shut down in
  SlowProbes,    \* monitors whose probe may last for good
  LongSleeps,    \* the slow interval: half a second from poll to poll
  SlowPolls,     \* polls that may last longer than half a second
  Nobody, Logger

Enumerates(s) ==
  /\ s \in Seq(Monitors) /\ Len(s) > 0
  /\ \A m \in Monitors : \E i \in 1 .. Len(s) : s[i] = m
  /\ \A i, j \in 1 .. Len(s) : s[i] = s[j] => i = j

ASSUME OrdersAssumption == Enumerates(Visits) /\ Enumerates(Shutdowns)
ASSUME ThreadsAssumption ==
  /\ AtStart \subseteq Monitors /\ SlowProbes \subseteq Monitors
  /\ Nobody \notin Monitors /\ Logger \notin Monitors /\ Nobody # Logger
  /\ "log" \notin Monitors /\ "ids" \notin Monitors
  /\ LongSleeps \in BOOLEAN /\ SlowPolls \in BOOLEAN

VARIABLES
  main, step,    \* where the main loop is, and at which monitor
  logger, visit, \* where the logger is, and at which monitor
  thread,        \* where each monitor's thread is
  lock,          \* who has each monitor's lock
  cancelled,     \* the threads that ecore_thread_check tells to end
  freed          \* what is no longer there: the log, the ids, locks

vars == <<main, step, logger, visit, thread, lock, cancelled, freed>>

Threads == Monitors \cup {Logger}
Polling == {"begin", "visit", "inside", "write"}

Init ==
  /\ main = "running" /\ step = 1
  /\ logger = "check" /\ visit = 1
  /\ thread = [m \in Monitors |-> IF m \in AtStart THEN "check" ELSE "none"]
  /\ lock = [m \in Monitors |-> Nobody]
  /\ cancelled = {} /\ freed = {}

-----------------------------------------------------------------------------
(* The logger. *)
LoggerGoes(from, to) == logger = from /\ logger' = to

Check ==
  /\ LoggerGoes("check", IF Logger \in cancelled THEN "ended" ELSE "begin")
  /\ UNCHANGED <<main, step, visit, thread, lock, cancelled, freed>>

Begin ==
  /\ LoggerGoes("begin", "visit") /\ visit' = 1
  /\ UNCHANGED <<main, step, thread, lock, cancelled, freed>>

NextVisit ==
  IF visit = Len(Visits) THEN logger' = "write" /\ visit' = 1
  ELSE logger' = "visit" /\ visit' = visit + 1

(* The first visit starts the thread. *)
Enter(m) ==
  /\ logger' = "inside" /\ visit' = visit
  /\ lock' = [lock EXCEPT ![m] = Logger]
  /\ thread' = IF thread[m] = "none" THEN [thread EXCEPT ![m] = "check"]
               ELSE thread

(* Deliberately wrong: the logger waits for the lock. *)
VisitWaits ==
  /\ logger = "visit" /\ lock[Visits[visit]] = Nobody
  /\ Enter(Visits[visit])
  /\ UNCHANGED <<main, step, cancelled, freed>>

(* Deliberately wrong: the result of eina_lock_take_try is not looked at. *)
VisitUnlocked ==
  /\ logger = "visit" /\ Enter(Visits[visit])
  /\ UNCHANGED <<main, step, cancelled, freed>>

(* eina_lock_take_try: a monitor whose thread is at work is left out. *)
Visit ==
  /\ logger = "visit"
  /\ IF lock[Visits[visit]] = Nobody THEN Enter(Visits[visit])
     ELSE NextVisit /\ UNCHANGED <<thread, lock>>
  /\ UNCHANGED <<main, step, cancelled, freed>>

(* Deliberately wrong: a visit that ends without giving the lock back. *)
EndVisitKeepsLock ==
  /\ logger = "inside" /\ NextVisit
  /\ UNCHANGED <<main, step, thread, lock, cancelled, freed>>

EndVisit ==
  /\ logger = "inside" /\ NextVisit
  /\ lock' = [lock EXCEPT ![Visits[visit]] = Nobody]
  /\ UNCHANGED <<main, step, thread, cancelled, freed>>

Write ==
  /\ LoggerGoes("write", "sleep")
  /\ UNCHANGED <<main, step, visit, thread, lock, cancelled, freed>>

Wake ==
  /\ LoggerGoes("sleep", "check")
  /\ UNCHANGED <<main, step, visit, thread, lock, cancelled, freed>>

-----------------------------------------------------------------------------
(* The thread of a monitor. *)
Goes(m, from, to) == thread[m] = from /\ thread' = [thread EXCEPT ![m] = to]

ThreadCheck(m) ==
  /\ Goes(m, "check", IF m \in cancelled THEN "freeing" ELSE "taking")
  /\ UNCHANGED <<main, step, logger, visit, lock, cancelled, freed>>

Take(m) ==
  /\ Goes(m, "taking", "probe")
  /\ lock[m] = Nobody /\ lock' = [lock EXCEPT ![m] = m]
  /\ UNCHANGED <<main, step, logger, visit, cancelled, freed>>

(* The list is read anew, or freed and made anew. *)
EndProbe(m) ==
  /\ Goes(m, "probe", "nap")
  /\ lock' = [lock EXCEPT ![m] = Nobody]
  /\ UNCHANGED <<main, step, logger, visit, cancelled, freed>>

EndNap(m) ==
  /\ Goes(m, "nap", "check")
  /\ UNCHANGED <<main, step, logger, visit, lock, cancelled, freed>>

(* The list is freed, without the lock. *)
EndThread(m) ==
  /\ Goes(m, "freeing", "ended")
  /\ UNCHANGED <<main, step, logger, visit, lock, cancelled, freed>>

-----------------------------------------------------------------------------
(* The main loop: cb_shutdown, then enigmatic_shutdown. *)
MainGoes(from, to) == main = from /\ main' = to

Cancel ==
  /\ MainGoes("running", "wait_logger")
  /\ cancelled' = cancelled \cup {Logger}
  /\ UNCHANGED <<step, logger, visit, thread, lock, freed>>

(* ecore_thread_wait: the thread has ended, or half a second has. *)
LoggerOverdue ==
  \/ LongSleeps /\ logger = "sleep"
  \/ SlowPolls /\ logger \in Polling

(* Deliberately wrong: the logger is cancelled and not waited for. *)
WaitLoggerNot ==
  /\ MainGoes("wait_logger", "cancel")
  /\ UNCHANGED <<step, logger, visit, thread, lock, cancelled, freed>>

WaitLogger ==
  /\ MainGoes("wait_logger", "cancel")
  /\ logger = "ended" \/ LoggerOverdue
  /\ UNCHANGED <<step, logger, visit, thread, lock, cancelled, freed>>

(* A thread that was never started has no handle to cancel. *)
CancelMonitors ==
  /\ MainGoes("cancel", "wait")
  /\ cancelled' = cancelled \cup {m \in Monitors : thread[m] # "none"}
  /\ UNCHANGED <<step, logger, visit, thread, lock, freed>>

Over(m) ==
  thread[m] \in {"none", "ended"} \/ (m \in SlowProbes /\ thread[m] = "probe")

(* On to the next monitor, or with the first to what comes after. *)
NextStep(next) ==
  IF step = Len(Shutdowns) THEN main' = next /\ step' = 1
  ELSE main' = main /\ step' = step + 1

Wait ==
  /\ main = "wait" /\ Over(Shutdowns[step])
  /\ NextStep("close")
  /\ UNCHANGED <<logger, visit, thread, lock, cancelled, freed>>

(* The last record is written and the log freed; the ids are freed. *)
Close ==
  /\ MainGoes("close", "shutdown")
  /\ freed' = freed \cup {"log", "ids"}
  /\ UNCHANGED <<step, logger, visit, thread, lock, cancelled>>

(* The lock is taken, given back and freed. *)
Shutdown ==
  /\ main = "shutdown" /\ lock[Shutdowns[step]] = Nobody
  /\ freed' = freed \cup {Shutdowns[step]}
  /\ NextStep("leave")
  /\ UNCHANGED <<logger, visit, thread, lock, cancelled>>

(* The server, the configuration and the pid file; all threads end. *)
Leave ==
  /\ MainGoes("leave", "exited")
  /\ logger' = "ended"
  /\ thread' = [m \in Monitors |-> "ended"]
  /\ UNCHANGED <<step, visit, lock, cancelled, freed>>

-----------------------------------------------------------------------------
Poll      == Check \/ Begin \/ Visit \/ EndVisit \/ Write \/ Wake
Naps(m)   == ThreadCheck(m) \/ Take(m) \/ EndNap(m) \/ EndThread(m)
Stop      == WaitLogger \/ CancelMonitors \/ Wait \/ Close \/ Shutdown \/ Leave

Next ==
  \/ Cancel \/ Stop \/ Poll
  \/ \E m \in Monitors : Naps(m) \/ EndProbe(m)

Spec == Init /\ [][Next]_vars

(* The system runs every thread; a slow probe need not come back.          *)
Fairness ==
  /\ WF_vars(Poll) /\ WF_vars(Stop)
  /\ \A m \in Monitors : WF_vars(Naps(m))
  /\ \A m \in Monitors \ SlowProbes : WF_vars(EndProbe(m))

FairSpec == Spec /\ Fairness

-----------------------------------------------------------------------------
(* Every variable has the type its comment gives it. *)
TypeOK ==
  /\ main \in {"running", "wait_logger", "cancel", "wait", "close", "shutdown",
               "leave", "exited"}
  /\ step \in 1 .. Len(Shutdowns)
  /\ logger \in Polling \cup {"check", "sleep", "ended"}
  /\ visit \in 1 .. Len(Visits)
  /\ thread \in [Monitors -> {"none", "check", "taking", "probe", "nap",
                              "freeing", "ended"}]
  /\ lock \in [Monitors -> Threads \cup {Nobody}]
  /\ cancelled \subseteq Threads
  /\ freed \subseteq {"log", "ids"} \cup Monitors

(* Nothing is used once it has been freed: no poll writes to the closed    *)
(* log or takes an id of the freed list, no thread takes or holds a freed  *)
(* lock.  It holds if a poll ends within its half second; sleeps and       *)
(* probes may last as long as they like.                                   *)
NothingAfterFree ==
  /\ freed # {} => logger \notin Polling
  /\ \A m \in Monitors : m \in freed => thread[m] \notin {"taking", "probe"}

Inside(m) == logger = "inside" /\ Visits[visit] = m

(* The list of a monitor is never read by the logger while its thread      *)
(* makes it anew or, in its end, frees it without the lock.                *)
ListsGuarded ==
  \A m \in Monitors : Inside(m) => thread[m] \notin {"probe", "freeing"}

(* The polls go on, even when a probe never comes back with its lock.      *)
PollsGoOn == []<>(logger = "write" \/ main # "running")

(* A daemon that is told to stop ends, unless it waits for the lock of a   *)
(* probe that never comes back.                                            *)
Stuck == main = "shutdown" /\ lock[Shutdowns[step]] \in SlowProbes

ShutdownEnds == main # "running" ~> main = "exited" \/ Stuck
=============================================================================
