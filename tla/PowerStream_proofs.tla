-------------------------- MODULE PowerStream_proofs --------------------------
(***************************************************************************)
(* What the end of the daemon frees is no longer used, for any number of   *)
(* monitors with a thread, visited and shut down in any order, if a poll   *)
(* ends within the half second the main loop waits for it; what a client   *)
(* is told of the power supply; and that the power supply leaves the       *)
(* threads of the daemon to themselves.                                    *)
(*                                                                         *)
(* The argument for the end: a thread in its probe has the lock of its     *)
(* monitor, and so has the logger that looks at the list.  The monitors    *)
(* are cancelled only when the logger has ended or sleeps, and then it     *)
(* never polls again.  A monitor that has been waited for is cancelled, so *)
(* that its thread never comes to take the lock again; and it is freed     *)
(* only when the lock shows that the thread is not in its probe.           *)
(***************************************************************************)
EXTENDS PowerStream, TLAPS

(* Whom a lock belongs to. *)
LockInv ==
  \A m \in Monitors :
    /\ lock[m] = m <=> thread[m] = "probe"
    /\ lock[m] = Logger <=> Inside(m)

Ending == main \notin {"running", "wait_logger"}
Waiting == main \notin {"running", "wait_logger", "cancel"}

(* The logger has been told to end, and once it has been waited for it     *)
(* does not poll any more.                                                 *)
LoggerInv ==
  /\ main # "running" => Logger \in cancelled
  /\ Ending => logger \notin Polling

(* A monitor is cancelled behind the wait for the logger, and only then    *)
(* frees its list.                                                         *)
CancelInv ==
  \A m \in Monitors :
    /\ m \in cancelled \/ thread[m] \in {"freeing", "ended"} => Waiting
    /\ Waiting /\ thread[m] \notin {"none", "ended"} => m \in cancelled

Waited(m) ==
  \/ main \in {"close", "shutdown", "leave", "exited"}
  \/ main = "wait" /\ \E i \in 1 .. step - 1 : Shutdowns[i] = m

WaitInv == \A m \in Monitors : Waited(m) => thread[m] # "taking"

FreeInv ==
  /\ main \notin {"wait", "shutdown"} => step = 1
  /\ freed # {} => main \in {"shutdown", "leave", "exited"}
  /\ main = "shutdown" => \A i \in 1 .. step - 1 : Shutdowns[i] \in freed
  /\ main \in {"leave", "exited"} => Monitors \subseteq freed
  /\ \A m \in Monitors : m \in freed => thread[m] # "probe"

IInv == TypeOK /\ LockInv /\ LoggerInv /\ CancelInv /\ WaitInv /\ FreeInv

(* The places of the two orders are monitors. *)
LEMMA Places ==
  /\ Len(Visits) \in Nat \ {0} /\ \A i \in 1 .. Len(Visits) : Visits[i] \in Monitors
  /\ Len(Shutdowns) \in Nat \ {0}
  /\ \A i \in 1 .. Len(Shutdowns) : Shutdowns[i] \in Monitors
<1>1. Visits \in Seq(Monitors) /\ Shutdowns \in Seq(Monitors)
       /\ Len(Visits) > 0 /\ Len(Shutdowns) > 0
  BY OrdersAssumption DEF Enumerates
<1> QED BY <1>1

(* The daemon starts with nobody in a probe and nothing freed. *)
LEMMA InitHolds == Init => IInv
<1> SUFFICES ASSUME Init PROVE IInv OBVIOUS
<1>1. TypeOK BY Places, ThreadsAssumption DEF Init, TypeOK, Polling, Threads
<1>2. LockInv BY ThreadsAssumption DEF Init, LockInv, Inside
<1>3. LoggerInv /\ CancelInv /\ WaitInv /\ FreeInv
  BY DEF Init, LoggerInv, CancelInv, WaitInv, FreeInv, Ending, Waiting, Waited, Threads
<1> QED BY <1>1, <1>2, <1>3 DEF IInv

(* What the lemmas on steps have of a state and of the constants. *)
Known ==
  /\ IInv /\ ThreadsAssumption
  /\ Len(Visits) \in Nat \ {0} /\ \A i \in 1 .. Len(Visits) : Visits[i] \in Monitors
  /\ Len(Shutdowns) \in Nat \ {0}
  /\ \A i \in 1 .. Len(Shutdowns) : Shutdowns[i] \in Monitors

(* Every step keeps the types. *)
LEMMA StepTyped ==
  ASSUME IInv, Next PROVE TypeOK'
<1>k. Known BY Places, ThreadsAssumption DEF Known
<1>t. TypeOK BY <1>k DEF Known, IInv
<1> USE DEF Polling, Threads
<1>1. CASE Cancel \/ WaitLogger \/ CancelMonitors \/ Close
  BY <1>1, <1>t DEF TypeOK, Cancel, WaitLogger, CancelMonitors, Close, MainGoes
<1>2. CASE Wait \/ Shutdown
  <2>1. step' \in 1 .. Len(Shutdowns) /\ main' \in {main, "close", "leave"}
    BY <1>2, <1>t, <1>k DEF Known, TypeOK, Wait, Shutdown, NextStep
  <2>2. freed' \subseteq {"log", "ids"} \cup Monitors
    BY <1>2, <1>t, <1>k DEF Known, TypeOK, Wait, Shutdown
  <2>3. /\ main \in {"wait", "shutdown"}
        /\ logger' = logger /\ visit' = visit /\ thread' = thread /\ lock' = lock
        /\ cancelled' = cancelled
    BY <1>2 DEF Wait, Shutdown
  <2>4. main' \in {"wait", "shutdown", "close", "leave"}
    BY <2>1, <2>3
  <2>5. main' \in {"running", "wait_logger", "cancel", "wait", "close", "shutdown",
                   "leave", "exited"}
    BY <2>4
  <2> HIDE DEF Polling, Threads
  <2> QED BY <2>1, <2>2, <2>3, <2>5, <1>t, Zenon DEF TypeOK
<1>3. CASE Leave
  BY <1>3, <1>t DEF TypeOK, Leave, MainGoes
<1>4. CASE Check \/ Begin \/ Write \/ Wake
  <2>1. logger' \in {"begin", "visit", "sleep", "check", "ended"}
    BY <1>4 DEF Check, Begin, Write, Wake, LoggerGoes
  <2>2. visit' \in 1 .. Len(Visits)
    BY <1>4, <1>t, <1>k DEF Known, TypeOK, Check, Begin, Write, Wake
  <2>3. UNCHANGED <<main, step, thread, lock, cancelled, freed>>
    BY <1>4 DEF Check, Begin, Write, Wake
  <2> QED BY <2>1, <2>2, <2>3, <1>t DEF TypeOK
<1>5. CASE Visit \/ EndVisit
  <2>1. visit' \in 1 .. Len(Visits) /\ logger' \in {"write", "visit", "inside"}
    BY <1>5, <1>t, <1>k DEF Known, TypeOK, Visit, EndVisit, NextVisit, Enter
  <2>2. lock' \in [Monitors -> Threads \cup {Nobody}]
    BY <1>5, <1>t, <1>k DEF Known, TypeOK, Visit, EndVisit, NextVisit, Enter
  <2>3. thread' = thread \/ thread' = [thread EXCEPT ![Visits[visit]] = "check"]
    BY <1>5 DEF Visit, EndVisit, Enter
  <2> QED BY <1>5, <2>1, <2>2, <2>3, <1>t DEF TypeOK, Visit, EndVisit
<1>6. CASE \E m \in Monitors : Naps(m) \/ EndProbe(m)
  <2> PICK m \in Monitors : Naps(m) \/ EndProbe(m) BY <1>6
  <2>1. \E to \in {"check", "taking", "probe", "nap", "freeing", "ended"} :
          thread' = [thread EXCEPT ![m] = to]
    BY DEF Naps, ThreadCheck, Take, EndProbe, EndNap, EndThread, Goes
  <2>2. lock' \in [Monitors -> Threads \cup {Nobody}]
    BY <1>t DEF TypeOK, Naps, ThreadCheck, Take, EndProbe, EndNap, EndThread
  <2> QED BY <2>1, <2>2, <1>t
      DEF TypeOK, Naps, ThreadCheck, Take, EndProbe, EndNap, EndThread
<1> QED BY <1>1, <1>2, <1>3, <1>4, <1>5, <1>6 DEF Next, Stop, Poll

(* Every step leaves the locks with those who are inside. *)
LEMMA StepGuarded ==
  ASSUME IInv, Next PROVE LockInv'
<1>k. Known BY Places, ThreadsAssumption DEF Known
<1>n. \A m \in Monitors : m # Nobody /\ m # Logger /\ Logger # Nobody
  BY ThreadsAssumption
<1> USE DEF LockInv, Inside
<1>1. CASE Cancel \/ WaitLogger \/ CancelMonitors \/ Wait \/ Close \/ Shutdown
  BY <1>1, <1>k DEF Known, IInv, Cancel, WaitLogger, CancelMonitors, Wait, Close,
     Shutdown
<1>2. CASE Leave
  BY <1>2, <1>k, <1>n DEF Known, IInv, Leave, MainGoes, LoggerInv, Ending, Polling, FreeInv
<1>3. CASE Check \/ Begin \/ Write \/ Wake
  BY <1>3, <1>k DEF Known, IInv, Check, Begin, Write, Wake, LoggerGoes
<1>4. CASE Visit
  <2>1. visit \in 1 .. Len(Visits) /\ Visits[visit] \in Monitors
        /\ lock \in [Monitors -> Threads \cup {Nobody}]
    BY <1>k DEF Known, IInv, TypeOK
  <2>2. CASE lock[Visits[visit]] = Nobody
    BY <1>4, <2>1, <2>2, <1>k, <1>n DEF Known, IInv, Visit, Enter, TypeOK
  <2>3. CASE lock[Visits[visit]] # Nobody
    BY <1>4, <2>1, <2>3, <1>k, <1>n DEF Known, IInv, Visit, NextVisit
  <2> QED BY <2>2, <2>3
<1>5. CASE EndVisit
  <2>1. visit \in 1 .. Len(Visits) /\ Visits[visit] \in Monitors
        /\ lock \in [Monitors -> Threads \cup {Nobody}]
    BY <1>k DEF Known, IInv, TypeOK
  <2> QED BY <1>5, <2>1, <1>k, <1>n DEF Known, IInv, EndVisit, NextVisit
<1>6. CASE \E m \in Monitors : Naps(m) \/ EndProbe(m)
  <2> PICK m \in Monitors : Naps(m) \/ EndProbe(m) BY <1>6
  <2>1. thread \in [Monitors -> {"none", "check", "taking", "probe", "nap", "freeing",
                                  "ended"}]
        /\ lock \in [Monitors -> Threads \cup {Nobody}]
    BY <1>k DEF Known, IInv, TypeOK
  <2> QED BY <2>1, <1>k, <1>n DEF Known, IInv, Naps, ThreadCheck, Take, EndProbe, EndNap,
          EndThread, Goes
<1> QED BY <1>1, <1>2, <1>3, <1>4, <1>5, <1>6 DEF Next, Stop, Poll

(* Once it has been waited for the logger never polls again, because a     *)
(* poll does not outlast the wait.                                         *)
LEMMA StepPolled ==
  ASSUME ~SlowPolls, IInv, Next PROVE LoggerInv'
<1>k. Known BY Places, ThreadsAssumption DEF Known
<1> USE DEF LoggerInv, Ending, Polling
<1>1. CASE Cancel \/ Stop
  BY <1>1, <1>k DEF Known, IInv, Cancel, Stop, WaitLogger, LoggerOverdue, CancelMonitors,
     Wait, Close, Shutdown, Leave, MainGoes, NextStep
<1>2. CASE Poll
  BY <1>2, <1>k DEF Known, IInv, Poll, Check, Begin, Visit, EndVisit, Write, Wake,
     LoggerGoes, NextVisit, Enter
<1>3. CASE \E m \in Monitors : Naps(m) \/ EndProbe(m)
  BY <1>3, <1>k DEF Known, IInv, Naps, ThreadCheck, Take, EndProbe, EndNap, EndThread
<1> QED BY <1>1, <1>2, <1>3 DEF Next

(* Every step cancels, and frees lists, behind the wait for the logger. *)
LEMMA StepCancelled ==
  ASSUME IInv, Next PROVE CancelInv'
<1>k. Known BY Places, ThreadsAssumption DEF Known
<1>t. thread \in [Monitors -> {"none", "check", "taking", "probe", "nap", "freeing",
                                "ended"}]
  BY <1>k DEF Known, IInv, TypeOK
<1>n. Logger \notin Monitors BY ThreadsAssumption
<1> USE DEF CancelInv, Waiting
<1>1. CASE Cancel \/ WaitLogger \/ CancelMonitors \/ Wait \/ Close \/ Shutdown
  BY <1>1, <1>k, <1>n DEF Known, IInv, Cancel, WaitLogger, CancelMonitors, Wait, Close,
     Shutdown, MainGoes, NextStep
<1>2. CASE Leave
  BY <1>2, <1>k DEF Known, IInv, Leave, MainGoes
<1>3. CASE Poll
  <2>1. CASE Visit
    BY <2>1, <1>k, <1>t DEF Known, IInv, Visit, Enter, NextVisit, LoggerInv, Ending, Polling
  <2>2. CASE Check \/ Begin \/ EndVisit \/ Write \/ Wake
    BY <2>2, <1>k DEF Known, IInv, Check, Begin, EndVisit, Write, Wake
  <2> QED BY <1>3, <2>1, <2>2 DEF Poll
<1>4. CASE \E m \in Monitors : Naps(m) \/ EndProbe(m)
  <2> PICK m \in Monitors : Naps(m) \/ EndProbe(m) BY <1>4
  <2> QED BY <1>t, <1>k DEF Known, IInv, Naps, ThreadCheck, Take, EndProbe, EndNap,
          EndThread, Goes
<1> QED BY <1>1, <1>2, <1>3, <1>4 DEF Next, Stop

(* A monitor that has been waited for never comes to take its lock. *)
LEMMA StepWaited ==
  ASSUME IInv, Next PROVE WaitInv'
<1>k. Known BY Places, ThreadsAssumption DEF Known
<1>t. /\ thread \in [Monitors -> {"none", "check", "taking", "probe", "nap",
                                   "freeing", "ended"}]
      /\ step \in 1 .. Len(Shutdowns)
  BY <1>k DEF Known, IInv, TypeOK
<1> USE DEF WaitInv, Waited
<1>1. CASE Cancel \/ WaitLogger \/ CancelMonitors
  <2>1. main' \notin {"close", "shutdown", "leave", "exited"} /\ step' = 1
    BY <1>1, <1>k DEF Known, IInv, FreeInv, Cancel, WaitLogger,
       CancelMonitors, MainGoes
  <2> QED BY <2>1
<1>2. CASE Wait
  <2> SUFFICES ASSUME NEW m \in Monitors, Waited(m)' PROVE thread[m] # "taking"
    BY <1>2 DEF Wait
  <2>1. CASE Shutdowns[step] = m
    BY <1>2, <2>1 DEF Wait, Over
  <2>2. CASE Shutdowns[step] # m
    <3>1. CASE main' = "wait" /\ step' = step + 1
      BY <1>2, <1>t, <1>k, <2>2, <3>1 DEF Known, IInv, Wait
    <3>2. CASE main' = "close" /\ step = Len(Shutdowns)
      <4>1. PICK i \in 1 .. Len(Shutdowns) : Shutdowns[i] = m
        BY OrdersAssumption DEF Enumerates
      <4>2. i \in 1 .. step - 1
        BY <4>1, <3>2, <2>2, <1>k DEF Known
      <4> QED BY <1>2, <1>k, <4>1, <4>2 DEF Known, IInv, Wait
    <3> QED BY <1>2, <3>1, <3>2 DEF Wait, NextStep
  <2> QED BY <2>1, <2>2
<1>3. CASE Close \/ Shutdown
  BY <1>3, <1>k DEF Known, IInv, Close, Shutdown, MainGoes, NextStep
<1>4. CASE Leave
  BY <1>4 DEF Leave
<1>5. CASE Poll
  <2>1. CASE Visit
    BY <2>1, <1>k, <1>t DEF Known, IInv, Visit, Enter, NextVisit
  <2>2. CASE Check \/ Begin \/ EndVisit \/ Write \/ Wake
    BY <2>2, <1>k DEF Known, IInv, Check, Begin, EndVisit, Write, Wake
  <2> QED BY <1>5, <2>1, <2>2 DEF Poll
<1>6. CASE \E m \in Monitors : Naps(m) \/ EndProbe(m)
  <2> PICK m \in Monitors : Naps(m) \/ EndProbe(m) BY <1>6
  <2>1. CASE ThreadCheck(m)
    BY <2>1, <1>t, <1>k DEF Known, IInv, CancelInv, Waiting, ThreadCheck, Goes
  <2>2. CASE Take(m) \/ EndNap(m) \/ EndThread(m) \/ EndProbe(m)
    BY <2>2, <1>t, <1>k DEF Known, IInv, Take, EndNap, EndThread, EndProbe, Goes
  <2> QED BY <2>1, <2>2 DEF Naps
<1> QED BY <1>1, <1>2, <1>3, <1>4, <1>5, <1>6 DEF Next, Stop

(* What is freed is freed in its place, and its thread is not in its probe. *)
LEMMA StepFreed ==
  ASSUME IInv, Next PROVE FreeInv'
<1>k. Known BY Places, ThreadsAssumption DEF Known
<1>t. /\ thread \in [Monitors -> {"none", "check", "taking", "probe", "nap",
                                   "freeing", "ended"}]
      /\ step \in 1 .. Len(Shutdowns)
  BY <1>k DEF Known, IInv, TypeOK
<1>n. \A m \in Monitors : m # Nobody /\ m # "log" /\ m # "ids"
  BY ThreadsAssumption
<1> USE DEF FreeInv
<1>1. CASE Cancel \/ WaitLogger \/ CancelMonitors \/ Wait
  BY <1>1, <1>k DEF Known, IInv, Cancel, WaitLogger, CancelMonitors, Wait,
     MainGoes, NextStep
<1>2. CASE Close
  <2>1. freed = {} /\ freed' = {"log", "ids"} /\ main' = "shutdown"
    BY <1>2, <1>k DEF Known, IInv, Close, MainGoes
  <2>2. step = 1
    BY <1>2, <1>k DEF Known, IInv, Close, MainGoes
  <2> QED BY <1>2, <2>1, <2>2, <1>n DEF Close
<1>3. CASE Shutdown
  <2>1. \A m \in Monitors : m \in freed' => thread[m] # "probe"
    BY <1>3, <1>k, <1>n DEF Known, IInv, LockInv, Shutdown
  <2>2. \A i \in 1 .. step : Shutdowns[i] \in freed'
    BY <1>3, <1>t, <1>k DEF Known, IInv, Shutdown
  <2>3. CASE main' = "shutdown" /\ step' = step + 1
    BY <1>3, <2>1, <2>2, <2>3, <1>t DEF Shutdown
  <2>4. CASE main' = "leave" /\ step = Len(Shutdowns) /\ step' = 1
    <3>1. Monitors \subseteq freed'
      BY <2>2, <2>4, OrdersAssumption DEF Enumerates
    <3> QED BY <1>3, <2>1, <2>4, <3>1 DEF Shutdown
  <2> QED BY <1>3, <2>3, <2>4 DEF Shutdown, NextStep
<1>4. CASE Leave
  BY <1>4, <1>k DEF Known, IInv, Leave, MainGoes
<1>5. CASE Poll
  <2>1. CASE Visit
    BY <2>1, <1>k, <1>t DEF Known, IInv, Visit, Enter, NextVisit
  <2>2. CASE Check \/ Begin \/ EndVisit \/ Write \/ Wake
    BY <2>2, <1>k DEF Known, IInv, Check, Begin, EndVisit, Write, Wake
  <2> QED BY <1>5, <2>1, <2>2 DEF Poll
<1>6. CASE \E m \in Monitors : Naps(m) \/ EndProbe(m)
  <2> PICK m \in Monitors : Naps(m) \/ EndProbe(m) BY <1>6
  <2>1. CASE Take(m)
    <3>1. m \notin freed
      BY <2>1, <1>k DEF Known, IInv, WaitInv, Waited, Take, Goes
    <3>2. \A n \in Monitors : n \in freed => thread'[n] = thread[n]
      BY <2>1, <3>1, <1>t DEF Take, Goes
    <3>3. UNCHANGED <<main, step, freed>>
      BY <2>1 DEF Take
    <3> QED BY <3>2, <3>3, <1>k DEF Known, IInv
  <2>2. CASE ThreadCheck(m) \/ EndNap(m) \/ EndThread(m) \/ EndProbe(m)
    BY <2>2, <1>t, <1>k DEF Known, IInv, ThreadCheck, EndNap, EndThread,
       EndProbe, Goes
  <2> QED BY <2>1, <2>2 DEF Naps
<1> QED BY <1>1, <1>2, <1>3, <1>4, <1>5, <1>6 DEF Next, Stop

(* The invariant is inductive if a poll ends within half a second. *)
LEMMA StepHolds ==
  ASSUME ~SlowPolls, IInv, [Next]_vars PROVE IInv'
<1>1. CASE Next
  BY <1>1, StepTyped, StepGuarded, StepPolled, StepCancelled, StepWaited,
     StepFreed DEF IInv
<1>2. CASE UNCHANGED vars
  BY <1>2 DEF vars, IInv, TypeOK, LockInv, Inside, LoggerInv, Ending, CancelInv,
     Waiting, WaitInv, Waited, FreeInv
<1> QED BY <1>1, <1>2

(* The invariant holds throughout. *)
LEMMA Invariance ==
  ASSUME ~SlowPolls PROVE Spec => []IInv
<1>1. Init => IInv BY InitHolds
<1>2. IInv /\ [Next]_vars => IInv' BY StepHolds
<1> QED BY <1>1, <1>2, PTL DEF Spec

(* Every variable of the daemon's threads keeps its type. *)
THEOREM ThreadsTyped ==
  ASSUME ~SlowPolls PROVE Spec => []TypeOK
<1>1. IInv => TypeOK BY DEF IInv
<1> QED BY <1>1, Invariance, PTL

(* If a poll ends within its half second, no poll finds the log or the ids *)
(* freed, and no thread takes or holds a lock that is freed, however long  *)
(* sleeps and probes last.                                                 *)
THEOREM NothingUsedAfterFree ==
  ASSUME ~SlowPolls PROVE Spec => []NothingAfterFree
<1>1. IInv => NothingAfterFree
  BY DEF IInv, FreeInv, LoggerInv, Ending, WaitInv, Waited, NothingAfterFree
<1> QED BY <1>1, Invariance, PTL

(* If a poll ends within its half second, the logger never looks at a list *)
(* that its thread is making anew or freeing, though the thread frees it   *)
(* without the lock.                                                       *)
THEOREM ListsAreGuarded ==
  ASSUME ~SlowPolls PROVE Spec => []ListsGuarded
<1>1. IInv => ListsGuarded
  <2> SUFFICES ASSUME IInv, NEW m \in Monitors, Inside(m)
               PROVE thread[m] \notin {"probe", "freeing"}
    BY DEF ListsGuarded
  <2>1. lock[m] = Logger /\ Logger # m
    BY ThreadsAssumption DEF IInv, LockInv
  <2>2. thread[m] # "probe"
    BY <2>1 DEF IInv, LockInv
  <2>3. ~Ending
    BY DEF IInv, LoggerInv, Inside, Polling
  <2> QED BY <2>2, <2>3 DEF IInv, CancelInv, Waiting, Ending
<1> QED BY <1>1, Invariance, PTL
-----------------------------------------------------------------------------

(* The logger has been at the power supply in this poll. *)
Past ==
  \/ logger = "write"
  \/ logger \in {"visit", "inside"} /\ \E i \in 1 .. visit - 1 : Visits[i] = power

(* A record, and what comes of it, is of what the logger saw last; it is   *)
(* made when the logger gets to the power supply, and not before.          *)
RecordInv ==
  /\ record # {} => record = {ac_prev}
  /\ record = {} /\ newest # {} => newest = {ac_prev}
  /\ record = {} /\ unread # {} => unread = {ac_prev}
  /\ record # {} => Past \/ logger = "ended"

ToldInv == broadcast /\ Past => record # {} \/ missed

PowerInv ==
  /\ visit \in 1 .. Len(Visits) /\ RecordInv /\ ToldInv /\ PowerAgrees

-----------------------------------------------------------------------------
(* The steps of the threads are those of DaemonThreads. *)
LEMMA StepIsThreads == [PowerNext]_all_vars => [Next]_vars
<1> SUFFICES ASSUME [PowerNext]_all_vars PROVE [Next]_vars OBVIOUS
<1>p. power \in Monitors BY PowerAssumption, ThreadsAssumption
<1>1. CASE SupplyChanges \/ Open \/ Read
  BY <1>1 DEF SupplyChanges, Open, Read
<1>2. CASE ProbePower
  BY <1>2, <1>p DEF ProbePower, Next
<1>3. CASE BeginPoll \/ VisitPower \/ MissPower \/ EndPoll
  BY <1>3 DEF BeginPoll, VisitPower, MissPower, EndPoll, Next, Poll
<1>4. CASE OtherSteps
  BY <1>4 DEF OtherSteps, Next, Poll
<1>5. CASE UNCHANGED all_vars
  BY <1>5 DEF all_vars
<1> QED BY <1>1, <1>2, <1>3, <1>4, <1>5 DEF PowerNext

(* The power supply and its clients are an addition to the threads: what   *)
(* they do is a behaviour of DaemonThreads, stutters aside, so what is     *)
(* proved of the threads holds with a power supply among them.             *)
THEOREM PowerKeepsThreads == PowerSpec => Spec
<1>1. PowerInit => Init BY DEF PowerInit
<1>2. [PowerNext]_all_vars => [Next]_vars BY StepIsThreads
<1> QED BY <1>1, <1>2, PTL DEF PowerSpec, Spec

-----------------------------------------------------------------------------
(* Going on to the next monitor passes the power supply only from there. *)
LEMMA NextPasses ==
  ASSUME visit \in 1 .. Len(Visits), NextVisit,
         logger \in {"visit", "inside"}
  PROVE  /\ visit' \in 1 .. Len(Visits)
         /\ Past' <=> Past \/ Visits[visit] = power
         /\ Visits[visit] = power => ~Past
<1>1. PICK p \in 1 .. Len(Visits) : Visits[p] = power
  BY OrdersAssumption, PowerAssumption, ThreadsAssumption DEF Enumerates
<1>2. \A i \in 1 .. Len(Visits) : Visits[i] = power <=> i = p
  BY <1>1, OrdersAssumption DEF Enumerates
<1>3. Len(Visits) \in Nat \ {0} BY Places
<1>4. Past <=> p < visit
  BY <1>1, <1>2, <1>3 DEF Past
<1>5. CASE visit = Len(Visits)
  <2>1. logger' = "write" /\ visit' = 1
    BY <1>5 DEF NextVisit
  <2> QED BY <1>1, <1>2, <1>3, <1>4, <1>5, <2>1 DEF Past
<1>6. CASE visit # Len(Visits)
  <2>1. logger' = "visit" /\ visit' = visit + 1 /\ visit' \in 1 .. Len(Visits)
    BY <1>6, <1>3 DEF NextVisit
  <2>2. Past' <=> p < visit + 1
    BY <2>1, <1>1, <1>2, <1>3 DEF Past
  <2> QED BY <1>1, <1>2, <1>3, <1>4, <2>1, <2>2
<1> QED BY <1>5, <1>6

(* The invariant holds at the start. *)
LEMMA PowerInitHolds == PowerInit => PowerInv
BY Places DEF PowerInit, Init, PowerInv, RecordInv, ToldInv, PowerAgrees, Past

(* A step that is not the power supply's changes nothing for it. *)
LEMMA OthersKeep ==
  ASSUME PowerInv, OtherSteps PROVE PowerInv'
<1> USE DEF PowerInv, RecordInv, ToldInv, PowerAgrees
<1>p. UNCHANGED <<ac_prev, broadcast, record, newest, missed, unread, shown, told>>
  BY DEF OtherSteps, power_vars, found, log, reader
<1>1. CASE UNCHANGED <<logger, visit>>
  BY <1>1, <1>p DEF Past
<1>2. CASE /\ logger \in {"check", "sleep"} /\ visit' = visit
           /\ logger' \in {"ended", "check", "begin"}
  BY <1>2, <1>p DEF Past
<1>3. CASE Leave
  <2>1. logger' = "ended" /\ visit' = visit /\ ~Past'
    BY <1>3 DEF Leave, Past
  <2> QED BY <1>p, <2>1
<1>4. CASE EndVisit /\ ~Inside(power)
  <2>1. NextVisit /\ logger = "inside" /\ Visits[visit] # power
    BY <1>4 DEF EndVisit, Inside
  <2>2. (Past' <=> Past) /\ visit' \in 1 .. Len(Visits) /\ logger' # "ended"
    BY <2>1, NextPasses DEF NextVisit
  <2> QED BY <1>p, <2>1, <2>2
<1>5. CASE Visit /\ (Visits[visit] # power \/ lock[power] = Nobody)
  <2>1. CASE logger' = "inside" /\ visit' = visit
    BY <1>5, <1>p, <2>1 DEF Visit, Past
  <2>2. CASE NextVisit /\ Visits[visit] # power
    <3>1. (Past' <=> Past) /\ visit' \in 1 .. Len(Visits) /\ logger = "visit"
      BY <1>5, <2>2, NextPasses DEF Visit
    <3> QED BY <1>p, <3>1
  <2> QED BY <1>5, <2>1, <2>2 DEF Visit, Enter
<1>6. CASE Check \/ Wake
  BY <1>6, <1>2 DEF Check, Wake, LoggerGoes, Past
<1>7. CASE Cancel \/ WaitLogger \/ CancelMonitors \/ Wait \/ Close \/ Shutdown
  BY <1>7, <1>1 DEF Cancel, WaitLogger, CancelMonitors, Wait, Close, Shutdown
<1>8. CASE \E m \in Monitors : Naps(m) \/ (m # power /\ EndProbe(m))
  BY <1>8, <1>1 DEF Naps, ThreadCheck, Take, EndNap, EndThread, EndProbe
<1> QED BY <1>3, <1>4, <1>5, <1>6, <1>7, <1>8 DEF OtherSteps, Stop

(* Every step keeps it. *)
LEMMA PowerStepHolds ==
  ASSUME PowerInv, [PowerNext]_all_vars PROVE PowerInv'
<1> USE DEF PowerInv, RecordInv, ToldInv, PowerAgrees
<1>1. CASE SupplyChanges \/ Open \/ Read
  <2>1. UNCHANGED <<logger, visit, ac_prev, broadcast, record, newest, missed>>
    BY <1>1 DEF SupplyChanges, Open, Read, vars, found, log
  <2>2. Past' <=> Past
    BY <2>1 DEF Past
  <2>3. CASE SupplyChanges
    BY <2>1, <2>2, <2>3 DEF SupplyChanges, reader
  <2>4. CASE Open
    BY <2>1, <2>2, <2>4 DEF Open
  <2>5. CASE Read
    BY <2>1, <2>2, <2>5 DEF Read
  <2> QED BY <1>1, <2>3, <2>4, <2>5
<1>2. CASE ProbePower
  BY <1>2 DEF ProbePower, EndProbe, log, reader, Past
<1>3. CASE BeginPoll
  <2>1. ~Past /\ ~Past' /\ visit' \in 1 .. Len(Visits) /\ record = {}
    BY <1>3, Places DEF BeginPoll, Begin, LoggerGoes, Past
  <2> QED BY <1>3, <2>1 DEF BeginPoll, found
<1>4. CASE VisitPower
  <2>1. NextVisit /\ logger = "inside" /\ Visits[visit] = power
    BY <1>4 DEF VisitPower, EndVisit, Inside
  <2>2. ~Past /\ Past' /\ visit' \in 1 .. Len(Visits) /\ record = {}
    BY <2>1, NextPasses
  <2>3. UNCHANGED <<broadcast, newest, missed, unread, shown, told>>
    BY <1>4 DEF VisitPower, reader
  <2>4. CASE record' = {} /\ ac_prev' = ac_prev /\ ~broadcast
    BY <2>2, <2>3, <2>4
  <2>5. CASE record' = {ac_prev'}
    BY <2>2, <2>3, <2>5
  <2> QED BY <1>4, <2>4, <2>5 DEF VisitPower, News, Remembered
<1>5. CASE MissPower
  <2>1. NextVisit /\ logger = "visit" /\ Visits[visit] = power
    BY <1>5 DEF MissPower, Visit
  <2>2. ~Past /\ Past' /\ visit' \in 1 .. Len(Visits) /\ record = {}
    BY <2>1, NextPasses
  <2> QED BY <1>5, <2>2 DEF MissPower, found, reader
<1>6. CASE EndPoll
  <2>1. logger' = "sleep" /\ visit' = visit /\ ~Past'
    BY <1>6 DEF EndPoll, Write, LoggerGoes, Past
  <2> QED BY <1>6, <2>1 DEF EndPoll, Later, found
<1>7. CASE OtherSteps
  BY <1>7, OthersKeep
<1>8. CASE UNCHANGED all_vars
  BY <1>8 DEF all_vars, vars, power_vars, found, log, reader, Past
<1> QED BY <1>1, <1>2, <1>3, <1>4, <1>5, <1>6, <1>7, <1>8 DEF PowerNext

(* The invariant holds throughout. *)
LEMMA PowerInvariance == PowerSpec => []PowerInv
<1>1. PowerInit => PowerInv BY PowerInitHolds
<1>2. PowerInv /\ [PowerNext]_all_vars => PowerInv' BY PowerStepHolds
<1> QED BY <1>1, <1>2, PTL DEF PowerSpec

(* A client that has read all there is, and was told of the power supply   *)
(* since the log or the client began, shows what the logger saw last,      *)
(* however many other monitors there are and however the threads mix.      *)
THEOREM ClientAgreesAboutPower == PowerSpec => []PowerAgrees
<1>1. PowerInv => PowerAgrees BY DEF PowerInv
<1> QED BY <1>1, PowerInvariance, PTL

(* A broadcast, and so the first poll of every log, says whether there is  *)
(* a power supply unless its thread had the lock.                          *)
THEOREM BroadcastsTellOfPower == PowerSpec => []BroadcastTells
<1>1. PowerInv => BroadcastTells
  BY DEF PowerInv, ToldInv, Past, BroadcastTells
<1> QED BY <1>1, PowerInvariance, PTL
=============================================================================
