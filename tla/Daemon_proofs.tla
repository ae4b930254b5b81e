---------------------------- MODULE Daemon_proofs ----------------------------
(* Theorems about DaemonLock, for any number of processes, and about       *)
(* Service, for any tools, intervals and periods.                          *)
EXTENDS DaemonLock, Service, TLAPS

-----------------------------------------------------------------------------
(* DaemonLock: the lock and the pid file, step by step.                    *)

(* A lock is only ever held by a process that is inside, and a process     *)
(* that is inside holds the lock of the file it opened. *)
HeldInside ==
  /\ holder \in [Files -> Daemons \cup {NoOne}]
  /\ \A f \in Files : holder[f] # NoOne => pc[holder[f]] \in Inside
  /\ \A d \in Daemons : pc[d] \in Inside => holder[lock_fd[d]] = d

LockInv == TypeOK /\ HeldInside

LEMMA LockInit == Init => LockInv
BY DistinctAssumption DEF Init, LockInv, TypeOK, HeldInside, Phases, Inside, Files

(* What a step of one process does to the places of the others. *)
LEMMA GoToOthers ==
  ASSUME TypeOK, NEW d \in Daemons, NEW where \in Phases, GoTo(d, where)
  PROVE  /\ pc' \in [Daemons -> Phases] /\ pc'[d] = where
         /\ \A c \in Daemons : c # d => pc'[c] = pc[c]
BY DEF GoTo, TypeOK

(* A process that stays inside keeps what it holds. *)
LEMMA StaysInside ==
  ASSUME LockInv, NEW d \in Daemons, NEW where \in Phases \cap Inside,
         GoTo(d, where), UNCHANGED lock,
         NEW p \in Daemons \cup {NoFile, Empty}, pidfile' = p,
         pid_open' \subseteq Daemons, signalled' = signalled, UNCHANGED stop,
         pc[d] \in Inside
  PROVE  LockInv'
<1>1. /\ pc' \in [Daemons -> Phases] /\ pc'[d] = where
      /\ \A c \in Daemons : c # d => pc'[c] = pc[c]
  BY GoToOthers DEF LockInv
<1>2. TypeOK'
  BY <1>1 DEF LockInv, TypeOK, Inside, lock, stop
<1>3. HeldInside'
  BY <1>1, DistinctAssumption DEF LockInv, TypeOK, HeldInside, lock, Files
<1> QED BY <1>2, <1>3 DEF LockInv

(* A process that lets go of its locks may go anywhere. *)
LEMMA LetsGo ==
  ASSUME LockInv, NEW d \in Daemons,
         NEW where \in (Phases \ {"new"}) \ Inside,
         GoTo(d, where), Release(d), UNCHANGED <<lock_path, lock_fd>>,
         pidfile' = pidfile, pid_open' \subseteq Daemons,
         signalled' = signalled, UNCHANGED stop, pc[d] # "new"
  PROVE  LockInv'
<1>1. /\ pc' \in [Daemons -> Phases] /\ pc'[d] = where
      /\ \A c \in Daemons : c # d => pc'[c] = pc[c]
  BY GoToOthers DEF LockInv
<1>2. /\ holder' \in [Files -> Daemons \cup {NoOne}]
      /\ \A f \in Files : holder'[f] # NoOne => holder'[f] = holder[f] /\ holder[f] # d
      /\ \A f \in Files : holder[f] # d => holder'[f] = holder[f]
  BY DEF Release, LockInv, TypeOK
<1>3. TypeOK'
  BY <1>1, <1>2 DEF LockInv, TypeOK, stop
<1>4. \A c \in Daemons : pc'[c] \in Inside => holder'[lock_fd'[c]] = c
  <2> SUFFICES ASSUME NEW c \in Daemons, pc'[c] \in Inside
               PROVE  holder'[lock_fd'[c]] = c
    OBVIOUS
  <2>1. c # d /\ pc[c] \in Inside
    BY <1>1
  <2>2. lock_fd[c] \in Files /\ holder[lock_fd[c]] = c
    BY <2>1 DEF LockInv, TypeOK, HeldInside, Inside
  <2> QED BY <2>1, <2>2, <1>2
<1>5. \A f \in Files : holder'[f] # NoOne => pc'[holder'[f]] \in Inside
  BY <1>1, <1>2 DEF LockInv, TypeOK, HeldInside
<1> QED BY <1>2, <1>3, <1>4, <1>5 DEF LockInv, HeldInside

(* A process outside holds nothing, and may go anywhere. *)
LEMMA StaysOutside ==
  ASSUME LockInv, NEW d \in Daemons,
         NEW where \in (Phases \ {"new"}) \ Inside,
         GoTo(d, where), pc[d] \notin Inside, holder' = holder,
         lock_path' \in Files \cup {NoFile},
         lock_fd' \in [Daemons -> Files \cup {NoFile}],
         \A c \in Daemons : pc'[c] # "new" => lock_fd'[c] \in Files,
         \A c \in Daemons : c # d => lock_fd'[c] = lock_fd[c],
         UNCHANGED <<pid, signalled, stop>>
  PROVE  LockInv'
<1>1. /\ pc' \in [Daemons -> Phases] /\ pc'[d] = where
      /\ \A c \in Daemons : c # d => pc'[c] = pc[c]
  BY GoToOthers DEF LockInv
<1>2. TypeOK'
  BY <1>1 DEF LockInv, TypeOK, pid, stop
<1>3. HeldInside'
  BY <1>1 DEF LockInv, TypeOK, HeldInside
<1> QED BY <1>2, <1>3 DEF LockInv

LEMMA LockNext == LockInv /\ [Next]_vars => LockInv'
<1> SUFFICES ASSUME LockInv, [Next]_vars PROVE LockInv'
  OBVIOUS
<1>t. TypeOK
  BY DEF LockInv
<1>p. "opened" \in Phases /\ "locked" \in Phases \cap Inside
      /\ {"writing_pid", "starting", "up", "closing", "exiting"} \subseteq Phases \cap Inside
      /\ {"opened", "unlocked", "gone"} \subseteq (Phases \ {"new"}) \ Inside
  BY DEF Phases, Inside
<1>1. ASSUME NEW d \in Daemons, DaemonNext(d) PROVE LockInv'
  <2>1. CASE OpenLock(d)
    <3>1. GoTo(d, "opened") /\ pc[d] = "new" /\ holder' = holder
          /\ lock_path' \in Files
          /\ lock_fd' = [lock_fd EXCEPT ![d] = lock_path']
          /\ UNCHANGED <<pid, signalled, stop>>
      BY <2>1, <1>t DEF OpenLock, TypeOK, Files
    <3>2. \A c \in Daemons : pc'[c] # "new" => lock_fd'[c] \in Files
      BY <3>1, <1>t DEF GoTo, TypeOK
    <3>3. lock_fd' \in [Daemons -> Files \cup {NoFile}] /\ pc[d] \notin Inside
      BY <3>1, <1>t DEF TypeOK, Inside
    <3> QED BY <3>1, <3>2, <3>3, <1>p, StaysOutside
  <2>2. CASE TryLock(d)
    <3>1. pc[d] = "opened" /\ pc[d] \notin Inside /\ lock_fd[d] \in Files
      BY <2>2, <1>t DEF TryLock, TypeOK, Inside
    <3>2. CASE holder[lock_fd[d]] = NoOne /\ Take(d) /\ GoTo(d, "locked")
      <4>1. /\ pc' \in [Daemons -> Phases] /\ pc'[d] = "locked"
            /\ \A c \in Daemons : c # d => pc'[c] = pc[c]
        BY <3>2, <1>t, <1>p, GoToOthers
      <4>2. /\ holder' \in [Files -> Daemons \cup {NoOne}]
            /\ holder'[lock_fd[d]] = d
            /\ \A f \in Files : f # lock_fd[d] => holder'[f] = holder[f]
        BY <3>1, <3>2, <1>t DEF Take, TypeOK
      <4>3. UNCHANGED <<lock_path, lock_fd, pid, signalled, stop>>
        BY <2>2 DEF TryLock
      <4>4. TypeOK'
        BY <3>1, <4>1, <4>2, <4>3, <1>t DEF TypeOK, pid, stop
      <4>5. \A c \in Daemons : pc[c] \in Inside =>
              lock_fd[c] \in Files /\ holder[lock_fd[c]] = c /\ c # NoOne
        BY <1>t, DistinctAssumption DEF LockInv, TypeOK, HeldInside, Inside
      <4>6. \A c \in Daemons : pc'[c] \in Inside => holder'[lock_fd'[c]] = c
        BY <3>2, <4>1, <4>2, <4>3, <4>5
      <4>7. \A f \in Files : holder'[f] # NoOne => pc'[holder'[f]] \in Inside
        BY <3>1, <4>1, <4>2, <1>t, <1>p DEF LockInv, TypeOK, HeldInside
      <4> QED BY <4>2, <4>4, <4>6, <4>7 DEF LockInv, HeldInside
    <3>3. CASE UNCHANGED holder /\ GoTo(d, "gone")
      <4>1. UNCHANGED <<lock_path, lock_fd, pid, signalled, stop>>
        BY <2>2 DEF TryLock
      <4>2. \A c \in Daemons : pc'[c] # "new" => lock_fd'[c] \in Files
        BY <3>1, <3>3, <4>1, <1>t DEF GoTo, TypeOK
      <4> QED BY <3>1, <3>3, <4>1, <4>2, <1>t, <1>p, StaysOutside DEF TypeOK
    <3> QED BY <2>2, <3>2, <3>3 DEF TryLock
  <2>3. CASE OpenPidfile(d) \/ WritePidfile(d) \/ Start(d) \/ Fail(d)
             \/ Shutdown(d) \/ DeletePidfile(d)
    <3>1. PICK where \in {"writing_pid", "starting", "up", "closing", "exiting"} :
            GoTo(d, where)
      BY <2>3 DEF OpenPidfile, WritePidfile, Start, Fail, Shutdown, DeletePidfile
    <3>2. /\ UNCHANGED lock /\ signalled' = signalled /\ UNCHANGED stop
          /\ pidfile' \in Daemons \cup {NoFile, Empty} /\ pid_open' \subseteq Daemons
          /\ pc[d] \in Inside
      BY <2>3, <1>t DEF OpenPidfile, WritePidfile, Start, Fail, Shutdown,
         DeletePidfile, RemovePidfile, TypeOK, pid, Inside
    <3>3. where \in Phases \cap Inside
      BY <3>1, <1>p
    <3> QED BY <3>1, <3>2, <3>3, StaysInside
  <2>4. CASE AskStop(d)
    BY <2>4, <1>t DEF AskStop, LockInv, TypeOK, HeldInside, lock, pid, stop
  <2>5. CASE Unlock(d) \/ Crash(d)
    <3>1. PICK where \in {"unlocked", "gone"} : GoTo(d, where)
      BY <2>5 DEF Unlock, Crash
    <3>2. /\ Release(d) /\ UNCHANGED <<lock_path, lock_fd>> /\ pidfile' = pidfile
          /\ pid_open' \subseteq Daemons /\ signalled' = signalled
          /\ UNCHANGED stop /\ pc[d] # "new"
      BY <2>5, <1>t DEF Unlock, Crash, Alive, TypeOK, pid
    <3>3. where \in (Phases \ {"new"}) \ Inside
      BY <3>1, <1>p
    <3> QED BY <3>1, <3>2, <3>3, LetsGo
  <2>6. CASE Unlink(d)
    <3>1. /\ GoTo(d, "gone") /\ pc[d] \notin Inside /\ pc[d] # "new"
          /\ holder' = holder /\ lock_path' = NoFile /\ lock_fd' = lock_fd
          /\ UNCHANGED <<pid, signalled, stop>>
      BY <2>6 DEF Unlink, Inside
    <3>2. \A c \in Daemons : pc'[c] # "new" => lock_fd'[c] \in Files
      BY <3>1, <1>t DEF GoTo, TypeOK
    <3> QED BY <3>1, <3>2, <1>t, <1>p, StaysOutside DEF TypeOK
  <2> QED BY <1>1, <2>1, <2>2, <2>3, <2>4, <2>5, <2>6 DEF DaemonNext
<1>2. CASE Terminate
  <2>1. UNCHANGED <<pc, lock>>
    BY <1>2 DEF Terminate, TermRead, TermKill, TermSawGone, TermGiveUp, TermRemove
  <2>2. TypeOK'
    <3>1. CASE TermRead
      BY <2>1, <3>1, <1>t DEF TermRead, TypeOK, lock, pid
    <3>2. CASE TermKill
      <4>1. target \in Daemons /\ signalled \cup {target} \subseteq Daemons
        BY <3>2, <1>t DEF TermKill, TypeOK
      <4>2. signalled' \subseteq Daemons
        BY <3>2, <4>1, <1>t DEF TermKill, TypeOK
      <4> QED BY <2>1, <3>2, <4>1, <4>2, <1>t DEF TermKill, TypeOK, lock, pid
    <3>3. CASE TermSawGone
      BY <2>1, <3>3, <1>t DEF TermSawGone, TypeOK, lock, pid
    <3>4. CASE TermGiveUp
      BY <2>1, <3>4, <1>t DEF TermGiveUp, TypeOK, lock, pid
    <3>5. CASE TermRemove
      BY <2>1, <3>5, <1>t DEF TermRemove, RemovePidfile, TypeOK, lock, pid
    <3> QED BY <1>2, <3>1, <3>2, <3>3, <3>4, <3>5 DEF Terminate
  <2> QED BY <2>1, <2>2 DEF LockInv, HeldInside, lock
<1>3. CASE UNCHANGED vars
  BY <1>3 DEF vars, lock, pid, stop, LockInv, TypeOK, HeldInside
<1> QED BY <1>1, <1>2, <1>3 DEF Next

(* Every variable of the processes, the files and enigmatic -s keeps its   *)
(* type, for any number of processes. *)
THEOREM LockTyped == Spec => []TypeOK
<1>1. LockInv => TypeOK
  BY DEF LockInv
<1> QED BY <1>1, LockInit, LockNext, PTL DEF Spec

(* No way of ending, at any point and in any order with any number of      *)
(* other processes, leaves a lock behind that nobody gives back. *)
THEOREM NeverStuck == Spec => []LockNotStuck
<1>1. LockInv => LockNotStuck
  <2> SUFFICES ASSUME LockInv, \A c \in Daemons : pc[c] \notin Inside,
                      NEW d \in Daemons, pc[d] = "opened"
               PROVE  holder[lock_fd[d]] = NoOne
    BY DEF LockNotStuck
  <2>1. lock_fd[d] \in Files
    BY DEF LockInv, TypeOK
  <2> QED BY <2>1 DEF LockInv, HeldInside, Files
<1> QED BY <1>1, LockInit, LockNext, PTL DEF Spec

(* Two processes that are past the lock at once have locked two different  *)
(* files: of the processes that open one file, the lock lets one in. *)
THEOREM OneInsidePerFile == Spec => []SameFileKeepsOut
<1>1. LockInv => SameFileKeepsOut
  BY DEF LockInv, HeldInside, SameFileKeepsOut
<1> QED BY <1>1, LockInit, LockNext, PTL DEF Spec

-----------------------------------------------------------------------------
(* Of two processes, each finds the file of the other under the name: only *)
(* a process that has ended takes the name away. *)
AtMostTwo == \A b, c, d \in Daemons : b = c \/ c = d \/ b = d

Running(d) == pc[d] \notin {"new", "gone"}

OneFile ==
  \A c, d \in Daemons :
    c # d /\ Running(c) =>
      /\ pc[d] = "new" => lock_path = lock_fd[c]
      /\ Running(d) => lock_fd[c] = lock_fd[d]

LEMMA OneFileNext ==
  ASSUME AtMostTwo, LockInv, OneFile, [Next]_vars
  PROVE  OneFile'
<1>t. TypeOK
  BY DEF LockInv
<1>1. ASSUME NEW d \in Daemons, DaemonNext(d) PROVE OneFile'
  <2>1. CASE OpenLock(d)
    <3>1. /\ pc[d] = "new" /\ pc' = [pc EXCEPT ![d] = "opened"]
          /\ lock_path' = IF lock_path = NoFile THEN d ELSE lock_path
          /\ lock_fd' = [lock_fd EXCEPT ![d] = lock_path']
      BY <2>1 DEF OpenLock, GoTo
    <3>2. lock_fd'[d] = lock_path' /\ pc'[d] = "opened"
      BY <3>1, <1>t DEF TypeOK
    <3>3. ASSUME NEW c \in Daemons, c # d
          PROVE  pc'[c] = pc[c] /\ lock_fd'[c] = lock_fd[c]
      BY <3>1, <3>3, <1>t DEF TypeOK
    <3>4. ASSUME NEW c \in Daemons, c # d, Running(c)
          PROVE  lock_path' = lock_fd[c]
      <4>1. lock_path = lock_fd[c] /\ lock_fd[c] \in Files
        BY <3>1, <3>4, <1>t DEF OneFile, TypeOK, Running
      <4>2. lock_path # NoFile
        BY <4>1, DistinctAssumption DEF Files
      <4> QED BY <4>1, <4>2, <3>1
    <3>5. ASSUME NEW b \in Daemons, NEW c \in Daemons, b # c, Running(b)'
          PROVE  /\ pc'[c] = "new" => lock_path' = lock_fd'[b]
                 /\ Running(c)' => lock_fd'[b] = lock_fd'[c]
      <4>1. CASE b = d
        BY <4>1, <3>2, <3>3, <3>4, <3>5 DEF Running
      <4>2. CASE b # d
        <5>1. c = d
          BY <4>2, <3>5 DEF AtMostTwo
        <5>2. lock_path' = lock_fd[b]
          BY <4>2, <3>3, <3>4, <3>5 DEF Running
        <5> QED BY <4>2, <5>1, <5>2, <3>2, <3>3
      <4> QED BY <4>1, <4>2
    <3> QED BY <3>5 DEF OneFile
  <2>2. CASE Unlink(d)
    <3>1. /\ pc' = [pc EXCEPT ![d] = "gone"] /\ lock_fd' = lock_fd
          /\ pc[d] = "unlocked"
      BY <2>2 DEF Unlink, GoTo
    <3>2. pc'[d] = "gone" /\ \A c \in Daemons : c # d => pc'[c] = pc[c]
      BY <3>1, <1>t DEF TypeOK
    <3>3. ASSUME NEW b \in Daemons, NEW c \in Daemons, b # c, Running(b)'
          PROVE  pc'[c] # "new" /\ ~Running(c)'
      <4>1. b # d
        BY <3>2, <3>3 DEF Running
      <4>2. c = d
        BY <4>1, <3>3 DEF AtMostTwo
      <4> QED BY <4>2, <3>2 DEF Running
    <3> QED BY <3>3 DEF OneFile
  <2>3. ASSUME pc[d] # "new", NEW where \in Phases \ {"new"}, GoTo(d, where),
               UNCHANGED <<lock_path, lock_fd>>
        PROVE  OneFile'
    <3>1. pc'[d] = where /\ \A c \in Daemons : c # d => pc'[c] = pc[c]
      BY <2>3, <1>t DEF GoTo, TypeOK
    <3>2. CASE pc[d] = "gone"
      <4>1. CASE where = "gone"
        <5>1. \A c \in Daemons : pc'[c] = pc[c]
          BY <3>1, <3>2, <4>1
        <5> QED BY <5>1, <2>3 DEF OneFile, Running
      <4>2. CASE where # "gone"
        <5>1. FALSE
          BY <1>1, <2>1, <2>2, <3>1, <3>2, <4>2, <1>t
             DEF DaemonNext, OpenLock, TryLock, OpenPidfile, WritePidfile, Start, Fail,
                 AskStop, Shutdown, DeletePidfile, Unlock, Unlink, Crash, Alive
        <5> QED BY <5>1
      <4> QED BY <4>1, <4>2
    <3>3. CASE pc[d] # "gone"
      <4>1. \A c \in Daemons : (Running(c)' => Running(c)) /\ (pc'[c] = "new" <=> pc[c] = "new")
        BY <2>3, <3>1, <3>3 DEF Running
      <4> QED BY <4>1, <2>3 DEF OneFile
    <3> QED BY <3>2, <3>3
  <2>4. CASE AskStop(d)
    BY <2>4 DEF AskStop, OneFile, Running, lock
  <2>5. CASE TryLock(d) \/ OpenPidfile(d) \/ WritePidfile(d) \/ Start(d) \/ Fail(d)
             \/ Shutdown(d) \/ DeletePidfile(d) \/ Unlock(d) \/ Crash(d)
    <3>1. pc[d] # "new" /\ UNCHANGED <<lock_path, lock_fd>>
      BY <2>5 DEF TryLock, OpenPidfile, WritePidfile, Start, Fail, Shutdown,
                  DeletePidfile, Unlock, Crash, Alive, lock
    <3>2. \E where \in {"locked", "gone", "writing_pid", "starting", "up", "closing",
                        "exiting", "unlocked"} : GoTo(d, where)
      BY <2>5 DEF TryLock, OpenPidfile, WritePidfile, Start, Fail, Shutdown,
                  DeletePidfile, Unlock, Crash
    <3>3. \E where \in Phases \ {"new"} : GoTo(d, where)
      BY <3>2 DEF Phases
    <3> QED BY <3>1, <3>3, <2>3
  <2> QED BY <1>1, <2>1, <2>2, <2>4, <2>5 DEF DaemonNext
<1>2. CASE Terminate \/ UNCHANGED vars
  <2>1. UNCHANGED <<pc, lock_path, lock_fd>>
    BY <1>2 DEF Terminate, TermRead, TermKill, TermSawGone, TermGiveUp, TermRemove,
                vars, lock
  <2> QED BY <2>1 DEF OneFile, Running
<1> QED BY <1>1, <1>2 DEF Next

(* No two daemons are inside at once as long as there are only two: it     *)
(* takes a third process, that makes a new file, for enigmatic_log_lock to *)
(* let two of them in. *)
THEOREM TwoKeepOut == ASSUME AtMostTwo PROVE Spec => []OneDaemon
<1>1. Init => OneFile
  BY DEF Init, OneFile, Running
<1>2. OneFile /\ LockInv /\ [Next]_vars => OneFile'
  BY OneFileNext
<1>3. OneFile /\ LockInv => OneDaemon
  <2> SUFFICES ASSUME OneFile, LockInv, NEW c \in Daemons, NEW d \in Daemons,
                      pc[c] \in Inside, pc[d] \in Inside, c # d
               PROVE  FALSE
    BY DEF OneDaemon
  <2>1. Running(c) /\ Running(d)
    BY DEF Running, Inside
  <2>2. lock_fd[c] = lock_fd[d]
    BY <2>1 DEF OneFile
  <2> QED BY <2>2 DEF LockInv, HeldInside
<1> QED BY <1>1, <1>2, <1>3, LockInit, LockNext, PTL DEF Spec

(* While one daemon at most is inside, one that is up keeps the pid file   *)
(* in its name, whatever the others do on their way in and out: only       *)
(* enigmatic -s can take it, with the removal it does not look again for.  *)
THEOREM PidfileStays == Spec /\ []OneDaemon => PidfileKept
<1>1. OneDaemon /\ [Next]_vars =>
        [\A d \in Daemons :
           /\ pidfile = d /\ pc[d] \in {"starting", "up"} /\ pc'[d] \in {"starting", "up"}
           => pidfile' = d \/ TermRemove]_vars
  <2> SUFFICES ASSUME OneDaemon, Next, NEW d \in Daemons, pidfile = d,
                      pc[d] \in {"starting", "up"}, ~TermRemove
               PROVE  pidfile' = d \/ pc'[d] \notin {"starting", "up"}
    OBVIOUS
  <2>1. CASE Terminate
    BY <2>1 DEF Terminate, TermRead, TermKill, TermSawGone, TermGiveUp, pid
  <2>2. ASSUME NEW c \in Daemons, DaemonNext(c)
        PROVE  pidfile' = d \/ pc'[d] \notin {"starting", "up"}
    <3>1. pc[c] \in Inside => c = d
      BY DEF OneDaemon, Inside
    <3>2. CASE OpenPidfile(c) \/ WritePidfile(c) \/ DeletePidfile(c)
      BY <3>1, <3>2 DEF OpenPidfile, WritePidfile, DeletePidfile, Inside
    <3>3. CASE ~ (OpenPidfile(c) \/ WritePidfile(c) \/ DeletePidfile(c))
      BY <2>2, <3>3 DEF DaemonNext, OpenLock, TryLock, Start, Fail, AskStop, Shutdown,
                        Unlock, Unlink, Crash, pid
    <3> QED BY <3>2, <3>3
  <2> QED BY <2>1, <2>2 DEF Next
<1> QED BY <1>1, PTL DEF Spec, PidfileKept

(* So it is when one daemon follows another. *)
THEOREM PidfileStaysOfTwo == ASSUME AtMostTwo PROVE Spec => PidfileKept
BY TwoKeepOut, PidfileStays, PTL

-----------------------------------------------------------------------------
(* Service: the lock, the pid file and the socket, as others meet them.    *)

(* From the lock to the end of the process. *)
Holding == {"locked", "named", "configured", "up", "stopping", "closing", "hung",
            "saving", "leaving"}

(* While the pid file has its name. *)
Named == {"named", "configured", "up", "stopping", "closing", "hung", "saving"}

(* While its socket is there. *)
Serving == {"up", "stopping", "closing", "hung"}

(* The pid file has the name of d, or enigmatic -s has removed it and      *)
(* nobody has written another.                                             *)
NameKept(d) == pid_named = d \/ (pid_named = NoDaemon /\ Unnamed(d))

(* A daemon that is on its way has what it took; the lock is why another   *)
(* one cannot have taken it since.                                         *)
HolderInv ==
  /\ phase \in [Instances -> Holding \cup {"off", "launched", "gone"}]
  /\ socket \in Instances \cup {NoDaemon}
  /\ DOMAIN terminate = Tools /\ terminate = [c \in Tools |-> terminate[c]]
  /\ \A d \in Instances :
       /\ phase[d] \in Holding => lock_holder = d
       /\ phase[d] \in Named => NameKept(d)
       /\ socket = d => phase[d] \in Serving

LEMMA HolderInit == ServiceInit => HolderInv
<1> SUFFICES ASSUME ServiceInit PROVE HolderInv
  OBVIOUS
<1>1. PICK up \in BOOLEAN :
        /\ phase = [d \in Instances |-> IF d = Old /\ up THEN "up" ELSE "off"]
        /\ lock_holder = IF up THEN Old ELSE NoDaemon
        /\ pid_named = lock_holder /\ socket = lock_holder
  BY DEF ServiceInit
<1>2. DOMAIN terminate = Tools /\ terminate = [c \in Tools |-> terminate[c]]
  BY DEF ServiceInit
<1> QED BY <1>1, <1>2, NamesAssumption
        DEF HolderInv, NameKept, Holding, Named, Serving, Instances

(* A step of one daemon leaves the other where it is. *)
LEMMA OthersStay ==
  ASSUME HolderInv, NEW d \in Instances, NEW to \in Holding \cup {"gone"},
         phase' = [phase EXCEPT ![d] = to]
  PROVE  /\ phase' \in [Instances -> Holding \cup {"off", "launched", "gone"}]
         /\ phase'[d] = to
         /\ \A c \in Instances : c # d => phase'[c] = phase[c]
BY DEF HolderInv

(* A daemon that has the lock goes on, with what it took. *)
LEMMA GoesOn ==
  ASSUME HolderInv, NEW d \in Instances, NEW to \in Holding,
         phase[d] \in Holding, phase' = [phase EXCEPT ![d] = to], lock_holder' = lock_holder,
         to \in Named => NameKept(d)', terminate' = terminate,
         socket' \in {socket, d, NoDaemon},
         socket' = d => to \in Serving
  PROVE  HolderInv'
<1>1. /\ phase' \in [Instances -> Holding \cup {"off", "launched", "gone"}]
      /\ phase'[d] = to
      /\ \A c \in Instances : c # d => phase'[c] = phase[c]
  BY OthersStay
<1>2. lock_holder = d
  BY DEF HolderInv
<1>3. ASSUME NEW c \in Instances
      PROVE  /\ phase'[c] \in Holding => lock_holder' = c
             /\ phase'[c] \in Named => NameKept(c)'
             /\ socket' = c => phase'[c] \in Serving
  <2>1. CASE c = d
    BY <2>1, <1>1, <1>2
  <2>2. CASE c # d
    <3>1. phase'[c] = phase[c] /\ phase[c] \notin Holding
      BY <2>2, <1>1, <1>2 DEF HolderInv
    <3>2. socket # c /\ socket' # c
      <4>1. c # NoDaemon
        BY NamesAssumption
      <4> QED BY <4>1, <3>1, <2>2 DEF HolderInv, Serving, Holding
    <3> QED BY <3>1, <3>2 DEF Named, Holding
  <2> QED BY <2>1, <2>2
<1>4. /\ socket' \in Instances \cup {NoDaemon}
      /\ DOMAIN terminate' = Tools /\ terminate' = [c \in Tools |-> terminate'[c]]
  BY DEF HolderInv
<1> QED BY <1>1, <1>3, <1>4 DEF HolderInv

LEMMA EndKeeps ==
  ASSUME HolderInv, NEW d \in Instances, Ends(d)
  PROVE  HolderInv'
<1>0. /\ phase' = [phase EXCEPT ![d] = "gone"]
      /\ lock_holder' = IF lock_holder = d THEN NoDaemon ELSE lock_holder
      /\ socket' = IF socket = d THEN NoDaemon ELSE socket
      /\ pid_named' = pid_named /\ terminate' = terminate
  BY DEF Ends
<1>1. /\ phase' \in [Instances -> Holding \cup {"off", "launched", "gone"}]
      /\ phase'[d] = "gone"
      /\ \A c \in Instances : c # d => phase'[c] = phase[c]
  BY <1>0, OthersStay
<1>2. ASSUME NEW c \in Instances
      PROVE  /\ phase'[c] \in Holding => lock_holder' = c
             /\ phase'[c] \in Named => NameKept(c)'
             /\ socket' = c => phase'[c] \in Serving
  <2>0. c # NoDaemon
    BY NamesAssumption
  <2>1. CASE c = d
    BY <2>0, <2>1, <1>0, <1>1 DEF Holding, Named
  <2>2. CASE c # d
    BY <2>0, <2>2, <1>0, <1>1 DEF HolderInv, NameKept, Unnamed
  <2> QED BY <2>1, <2>2
<1>3. /\ socket' \in Instances \cup {NoDaemon}
      /\ DOMAIN terminate' = Tools /\ terminate' = [c \in Tools |-> terminate'[c]]
  BY <1>0 DEF HolderInv
<1> QED BY <1>1, <1>2, <1>3 DEF HolderInv

(* Who has had his pid file removed stays so.                              *)
LEMMA TerminateKeeps ==
  ASSUME HolderInv, NEW c \in Tools, NEW state, NEW e, GoesTo(c, state, e), Terminating(c)
  PROVE  /\ DOMAIN terminate' = Tools /\ terminate' = [b \in Tools |-> terminate'[b]]
         /\ terminate'[c] = [state |-> state, pid |-> e]
         /\ \A d \in Instances : Unnamed(d) => Unnamed(d)'
<1>1. /\ DOMAIN terminate' = Tools /\ terminate' = [b \in Tools |-> terminate'[b]]
      /\ terminate'[c] = [state |-> state, pid |-> e]
      /\ \A b \in Tools : b # c => terminate'[b] = terminate[b]
  BY DEF HolderInv, GoesTo
<1>2. terminate[c].state # "removed"
  BY DEF Terminating
<1>3. ASSUME NEW d \in Instances, Unnamed(d)
      PROVE  Unnamed(d)'
  <2>1. PICK b \in Tools : terminate[b] = [state |-> "removed", pid |-> d]
    BY <1>3 DEF Unnamed
  <2>2. b # c
    BY <1>2, <2>1
  <2> QED BY <1>1, <2>1, <2>2 DEF Unnamed
<1> QED BY <1>1, <1>3

LEMMA HolderNext ==
  ASSUME HolderInv, [ServiceNext]_serviceVars
  PROVE  HolderInv'
<1>1. ASSUME UNCHANGED <<phase, files, terminate>>
      PROVE  HolderInv'
  BY <1>1 DEF files, HolderInv, NameKept, Unnamed
<1>2. CASE Poll \/ Begin \/ \E c \in Clients : Send(c) \/ Query(c)
  BY <1>2, <1>1 DEF Poll, BeginPoll, EndPoll, Begin, Send, Query, Receive, Timeout,
                    Disconnected, stopper
<1>3. CASE StarterSteps
  <2>1. CASE Launch
    <3>1. /\ New \in Instances /\ phase[New] = "off"
          /\ phase' = [phase EXCEPT ![New] = "launched"]
          /\ UNCHANGED <<lock_holder, pid_named, socket, terminate>>
      BY <2>1 DEF Launch, Moves, files, Instances, stopper
    <3> QED BY <3>1 DEF HolderInv, NameKept, Unnamed, Holding, Named, Serving
  <2> QED BY <2>1, <1>1, <1>3 DEF StarterSteps, Ping, Pinged, NobodyThere, StillAlive,
                                  stopper
<1>4. ASSUME NEW d \in Instances, Starts(d) \/ Handle(d) \/ Stops(d) \/ Hang(d) \/ Killed(d)
      PROVE  HolderInv'
  <2>d. d # NoDaemon
    BY NamesAssumption
  <2>p. /\ phase[d] \in Named => NameKept(d)
        /\ NameKept(d) /\ UNCHANGED <<pid_named, terminate>> => NameKept(d)'
    BY DEF HolderInv, NameKept, Unnamed
  <2>s. socket = d => phase[d] \in Serving
    BY DEF HolderInv
  <2>1. CASE TakeLock(d)
    <3>1. CASE lock_holder = NoDaemon
      <4>1. /\ phase' = [phase EXCEPT ![d] = "locked"] /\ lock_holder' = d
            /\ UNCHANGED <<pid_named, socket, terminate>> /\ phase[d] = "launched"
        BY <2>1, <3>1 DEF TakeLock, Moves, stopper
      <4>2. \A c \in Instances : phase[c] \notin Holding
        BY <3>1, NamesAssumption DEF HolderInv
      <4> QED BY <4>1, <4>2, <2>d DEF HolderInv, NameKept, Unnamed, Holding, Named, Serving
    <3>2. CASE lock_holder # NoDaemon
      <4>1. /\ phase' = [phase EXCEPT ![d] = "gone"] /\ lock_holder' = lock_holder
            /\ UNCHANGED <<pid_named, socket, terminate>> /\ phase[d] = "launched"
        BY <2>1, <3>2 DEF TakeLock, Moves, stopper
      <4> QED BY <4>1 DEF HolderInv, NameKept, Unnamed, Holding, Named, Serving
    <3> QED BY <3>1, <3>2
  <2>2. CASE CreatePidfile(d)
    <3>1. /\ phase[d] = "locked" /\ phase' = [phase EXCEPT ![d] = "named"]
          /\ pid_named' = d /\ UNCHANGED <<lock_holder, socket, terminate>>
      BY <2>2 DEF CreatePidfile, Moves, stopper
    <3>2. NameKept(d)'
      BY <3>1 DEF NameKept
    <3> QED BY <3>1, <3>2, <2>s, GoesOn DEF Holding, Named, Serving
  <2>3. CASE LoadConfig(d)
    <3>1. /\ phase[d] = "named" /\ phase' = [phase EXCEPT ![d] = "configured"]
          /\ UNCHANGED <<lock_holder, pid_named, socket, terminate>>
      BY <2>3 DEF LoadConfig, Moves, stopper
    <3> QED BY <3>1, <2>p, <2>s, GoesOn DEF Holding, Named, Serving
  <2>4. CASE Listen(d)
    <3>1. PICK to \in {"up", "stopping"} :
            /\ phase[d] = "configured" /\ phase' = [phase EXCEPT ![d] = to]
            /\ socket' = d /\ UNCHANGED <<lock_holder, pid_named, terminate>>
      BY <2>4 DEF Listen, Moves
    <3> QED BY <3>1, <2>p, GoesOn DEF Holding, Named, Serving
  <2>5. CASE StartFails(d) \/ Leave(d) \/ Killed(d)
    BY <2>5, EndKeeps DEF StartFails, Leave, Killed
  <2>6. CASE HandlePing(d) \/ HandleInterval(d)
    BY <2>6, <1>1 DEF HandlePing, HandleInterval, stopper
  <2>7. CASE HandleStop(d)
    <3>1. /\ phase[d] \in {"up", "stopping"}
          /\ phase' = [phase EXCEPT ![d] = "stopping"]
          /\ UNCHANGED <<lock_holder, pid_named, socket, terminate>>
      BY <2>7 DEF HandleStop, Handling, files, stopper
    <3> QED BY <3>1, <2>p, GoesOn DEF Holding, Named, Serving
  <2>8. CASE BeginClose(d)
    <3>1. /\ phase[d] = "stopping" /\ phase' = [phase EXCEPT ![d] = "closing"]
          /\ UNCHANGED <<lock_holder, pid_named, socket, terminate>>
      BY <2>8 DEF BeginClose, Moves, files, stopper
    <3> QED BY <3>1, <2>p, GoesOn DEF Holding, Named, Serving
  <2>9. CASE Hang(d)
    <3>1. /\ phase[d] = "closing" /\ phase' = [phase EXCEPT ![d] = "hung"]
          /\ UNCHANGED <<lock_holder, pid_named, socket, terminate>>
      BY <2>9 DEF Hang, Moves, files, stopper
    <3> QED BY <3>1, <2>p, GoesOn DEF Holding, Named, Serving
  <2>10. CASE ServerShutdown(d)
    <3>1. /\ phase[d] = "closing" /\ phase' = [phase EXCEPT ![d] = "saving"]
          /\ socket' = NoDaemon /\ UNCHANGED <<lock_holder, pid_named, terminate>>
      BY <2>10 DEF ServerShutdown, Moves, stopper
    <3> QED BY <3>1, <2>p, <2>d, GoesOn DEF Holding, Named, Serving
  <2>11. CASE SaveConfig(d)
    <3>1. /\ phase[d] = "saving" /\ phase' = [phase EXCEPT ![d] = "leaving"]
          /\ UNCHANGED <<lock_holder, socket, terminate>>
      BY <2>11 DEF SaveConfig, Moves, stopper
    <3> QED BY <3>1, <2>s, GoesOn DEF Holding, Named, Serving
  <2> QED BY <1>4, <2>1, <2>2, <2>3, <2>4, <2>5, <2>6, <2>7, <2>8, <2>9, <2>10, <2>11
          DEF Starts, Handle, Stops
<1>5. ASSUME NEW c \in Tools, TerminateRead(c) \/ TerminateSawGone(c) \/ TerminateGiveUp(c)
      PROVE  HolderInv'
  <2>1. Terminating(c) /\ UNCHANGED <<phase, files>>
    BY <1>5 DEF TerminateRead, TerminateSawGone, TerminateGiveUp, At
  <2>2. \E state, e : GoesTo(c, state, e)
    BY <1>5 DEF TerminateRead, TerminateSawGone, TerminateGiveUp
  <2> QED BY <2>1, <2>2, TerminateKeeps DEF HolderInv, NameKept, files
<1>6. ASSUME NEW c \in Tools, TerminateRemove(c)
      PROVE  HolderInv'
  <2>1. /\ Terminating(c) /\ GoesTo(c, "removed", pid_named) /\ pid_named' = NoDaemon
        /\ UNCHANGED <<phase, lock_holder, socket>>
    BY <1>6 DEF TerminateRemove, At
  <2>2. /\ DOMAIN terminate' = Tools /\ terminate' = [b \in Tools |-> terminate'[b]]
        /\ terminate'[c] = [state |-> "removed", pid |-> pid_named]
        /\ \A d \in Instances : Unnamed(d) => Unnamed(d)'
    BY <2>1, TerminateKeeps
  <2>3. \A d \in Instances : NameKept(d) => NameKept(d)'
    BY <2>1, <2>2 DEF NameKept, Unnamed
  <2> QED BY <2>1, <2>2, <2>3 DEF HolderInv
<1>7. ASSUME NEW c \in Tools, TerminateKill(c)
      PROVE  HolderInv'
  <2> DEFINE d == terminate[c].pid
  <2>1. /\ Terminating(c) /\ UNCHANGED files
        /\ \E state, e : GoesTo(c, state, e)
        /\ \/ phase' = phase
           \/ phase[d] = "up" /\ phase' = [phase EXCEPT ![d] = "stopping"]
    BY <1>7 DEF TerminateKill, At, Moves
  <2>2. /\ DOMAIN terminate' = Tools /\ terminate' = [b \in Tools |-> terminate'[b]]
        /\ \A e \in Instances : Unnamed(e) => Unnamed(e)'
    BY <2>1, TerminateKeeps
  <2>3. /\ phase' \in [Instances -> Holding \cup {"off", "launched", "gone"}]
        /\ \A e \in Instances :
             phase'[e] = phase[e] \/ (phase[e] = "up" /\ phase'[e] = "stopping")
    BY <2>1 DEF HolderInv, Holding
  <2>4. \A e \in Instances : NameKept(e) => NameKept(e)'
    BY <2>1, <2>2 DEF NameKept, files
  <2> HIDE DEF d
  <2>5. ASSUME NEW e \in Instances
        PROVE  /\ phase'[e] \in Holding => lock_holder' = e
               /\ phase'[e] \in Named => NameKept(e)'
               /\ socket' = e => phase'[e] \in Serving
    BY <2>1, <2>3, <2>4 DEF HolderInv, Holding, Named, Serving, files
  <2> QED BY <2>1, <2>2, <2>3, <2>5 DEF HolderInv, files
<1> QED BY <1>1, <1>2, <1>3, <1>4, <1>5, <1>6, <1>7
        DEF ServiceNext, serviceVars, stopper, Terminates

(* Whoever answers on the socket has the lock and the pid file: of two     *)
(* daemons, one on its way in or out never answers for the other, and only *)
(* the removal at the end of enigmatic -s takes the name from one that     *)
(* answers.                                                                *)
THEOREM WhoAnswersHolds == ServiceSpec => []ServerIsHolder
<1>1. ServiceInit => HolderInv
  BY HolderInit
<1>2. HolderInv /\ [ServiceNext]_serviceVars => HolderInv'
  BY HolderNext
<1>3. HolderInv => ServerIsHolder
  BY DEF HolderInv, NameKept, ServerIsHolder, Holding, Named, Serving
<1> QED BY <1>1, <1>2, <1>3, PTL DEF ServiceSpec
=============================================================================
