---------------------------- MODULE ProcessStream ----------------------------
(***************************************************************************)
(* The monitor of processes and the client's list of them.  Processes have *)
(* no identifier from uid.c: they go by their process id, which the system *)
(* gives to another process when the first one has ended, and only the     *)
(* time a process started tells the two apart.                             *)
(*                                                                         *)
(* A MOD record of the model stands for the records that the comparison of *)
(* one process writes one after the other, one a field.  The CPU time      *)
(* stands for every field that is sent as a difference; the usage and the  *)
(* flags was_zero and is_new are computed by the monitor.  How the file is *)
(* emptied and read is as in DeviceStream.                                 *)
(***************************************************************************)
EXTENDS Integers, SequencesExt

CONSTANTS
  Runs,            \* <<process id, time it starts>> of the processes there are
  MaxTime,         \* bound: the CPU time of a process
  Interval,        \* the CPU time that is a usage of one
  MaxUnread        \* bound: no poll starts with more records on their way

ASSUME RunsAssumption == Runs \subseteq Nat \X Nat /\ IsFiniteSet(Runs)
ASSUME BoundsAssumption ==
  MaxTime \in Nat /\ Interval \in Nat \ {0} /\ MaxUnread \in Nat

VARIABLES
  cache_exists,    \* *cache_hash
  cache,           \* the processes the monitor tracks
  broadcast,       \* enigmatic->broadcast
  unread, stale,   \* the file, as in DeviceStream
  cbuf,            \* records the client has read and not yet dispatched
  shown            \* snapshot->processes

daemon == <<cache_exists, cache, broadcast>>
file   == <<unread, stale>>
client == <<cbuf, shown>>
vars   == <<daemon, file, client>>

Pids   == {r[1] : r \in Runs}
Starts == {r[2] : r \in Runs}

Process ==
  {p \in [pid : Pids, start : Starts, cpu_time : 0 .. MaxTime,
          cpu_usage : 0 .. MaxTime, was_zero : BOOLEAN, is_new : BOOLEAN] :
     <<p.pid, p.start>> \in Runs}

(* What the system says of a process; the monitor marks the processes of   *)
(* its first list as new.                                                  *)
Reported ==
  {p \in Process : p.cpu_usage = 0 /\ ~p.was_zero /\ p.is_new = ~cache_exists}

(* Deliberately wrong: a process id is a process. *)
SamePid(p, c) == p.pid = c.pid

SameProcess(p, c) == p.pid = c.pid /\ p.start = c.start

(* A list the system may give next: process ids are unique, and a process  *)
(* it gave before has used no less time.                                   *)
MayReport(list) ==
  /\ \A p, q \in list : p.pid = q.pid => p = q
  /\ \A p \in list, c \in cache :
       p.pid = c.pid /\ p.start = c.start => p.cpu_time >= c.cpu_time

Record(event, items, pid, diff) ==
  [event |-> event, items |-> items, pid |-> pid, diff |-> diff]

NoDiff == [start |-> 0, cpu_time |-> 0, cpu_usage |-> 0, was_zero |-> 0,
           is_new |-> 0]

(* A flag as the number C has for it. *)
Bit(flag) == IF flag THEN 1 ELSE 0

-----------------------------------------------------------------------------
Init ==
  /\ cache_exists = FALSE /\ cache = {} /\ broadcast = TRUE
  /\ unread = <<>> /\ stale = FALSE /\ cbuf = <<>> /\ shown = <<>>

Usage(p, c) == (p.cpu_time - c.cpu_time) \div Interval

(* Deliberately wrong: only the usage of a process that is busy is sent. *)
UsageSentWhenBusy(p, c) == p.cpu_time # c.cpu_time

(* No usage is sent for a process that has been idle twice in a row. *)
UsageSent(p, c) == p.cpu_time # c.cpu_time \/ ~c.was_zero

(* The differences that are written. *)
Diff(p, c) ==
  [start |-> p.start - c.start, cpu_time |-> p.cpu_time - c.cpu_time,
   cpu_usage |-> IF UsageSent(p, c) THEN Usage(p, c) - c.cpu_usage ELSE 0,
   was_zero |-> Bit(Usage(p, c) = 0) - Bit(c.was_zero),
   is_new |-> Bit(p.is_new) - Bit(c.is_new)]

Cached(p, c) == [p EXCEPT !.cpu_usage = Usage(p, c), !.was_zero = (Usage(p, c) = 0)]

(* The whole list, at a broadcast and if there is any. *)
processes_refresh(list) ==
  IF broadcast /\ list # {} THEN <<Record("REFRESH", list, 0, NoDiff)>> ELSE <<>>

(* enigmatic_monitor_processes for the list the system gives.  The first   *)
(* list becomes the cache and is compared with itself.  At a broadcast the *)
(* cache is written as it was before the list was looked at.  Then go the  *)
(* processes that are not in the list, then each process of the list is    *)
(* added or compared, and takes the place of the cached one.               *)
Visit(list) ==
  LET tracked == IF cache_exists THEN cache ELSE list
      gone    == {c \in tracked : \A p \in list : ~SameProcess(p, c)}
      kept    == tracked \ gone
      Old(p)  == CHOOSE c \in kept : c.pid = p.pid
      IsOld(p) == \E c \in kept : c.pid = p.pid
      Del(c)  == Record("DEL", {}, c.pid, NoDiff)
      Told(p) == IF IsOld(p) THEN Record("MOD", {}, p.pid, Diff(p, Old(p)))
                 ELSE Record("ADD", {p}, p.pid, NoDiff)
      Each(Op(_), set) ==
        LET seq == SetToSeq(set) IN [i \in DOMAIN seq |-> Op(seq[i])]
  IN /\ cache' = {IF IsOld(p) THEN Cached(p, Old(p)) ELSE p : p \in list}
     /\ unread' = Append(unread \o processes_refresh(tracked)
                                \o Each(Del, gone) \o Each(Told, list),
                         Record("BLOCK_END", {}, 0, NoDiff))

(* A poll that visits the processes.  Nothing of it is in the file before  *)
(* its end.  The next one may be a broadcast without a new file.           *)
Poll ==
  /\ Len(unread) + Len(cbuf) <= MaxUnread
  /\ \E list \in SUBSET Reported : MayReport(list) /\ Visit(list)
  /\ cache_exists' = TRUE /\ broadcast' \in BOOLEAN
  /\ UNCHANGED <<stale, client>>

Rotate ==
  /\ broadcast' = TRUE /\ unread' = <<>> /\ stale' = TRUE
  /\ UNCHANGED <<cache_exists, cache, client>>

(* The daemon ends and another one starts. *)
Restart ==
  /\ cache_exists' = FALSE /\ cache' = {} /\ broadcast' = TRUE
  /\ unread' = <<>> /\ stale' = TRUE
  /\ UNCHANGED client

-----------------------------------------------------------------------------
ClientRead ==
  /\ cbuf = <<>> /\ unread # <<>>
  /\ cbuf' = unread /\ unread' = <<>> /\ stale' = FALSE
  /\ shown' = IF stale THEN <<>> ELSE shown
  /\ UNCHANGED daemon

(* The places of a process in a list; the handlers stop at the first one. *)
PlacesOf(list, pid) == {i \in DOMAIN list : list[i].pid = pid}

FirstPlace(list, pid) == CHOOSE i \in PlacesOf(list, pid) :
                           \A j \in PlacesOf(list, pid) : i <= j

(* A REFRESH puts its processes into the list, whatever it has: over the   *)
(* first one with the process id, or at the end.                           *)
RefreshList(list, items) ==
  LET place(p) == IF PlacesOf(list, p.pid) = {} THEN 0 ELSE FirstPlace(list, p.pid)
      old(i)   == {p \in items : place(p) = i}
  IN  [i \in DOMAIN list |-> IF old(i) = {} THEN list[i] ELSE CHOOSE p \in old(i) : TRUE]
      \o SetToSeq(old(0))

Modified(p, d) ==
  [p EXCEPT !.start = @ + d.start, !.cpu_time = @ + d.cpu_time,
            !.cpu_usage = @ + d.cpu_usage,
            !.was_zero = Bit(@) + d.was_zero # 0, !.is_new = Bit(@) + d.is_new # 0]

ModList(list, pid, d) ==
  IF PlacesOf(list, pid) = {} THEN list
  ELSE [list EXCEPT ![FirstPlace(list, pid)] = Modified(@, d)]

(* All of them go; the others stay in their order. *)
DelList(list, pid) ==
  LET kept     == DOMAIN list \ PlacesOf(list, pid)
      rank(i)  == Cardinality({j \in kept : j <= i})
      place(n) == CHOOSE i \in kept : rank(i) = n
  IN  [n \in 1 .. Cardinality(kept) |-> list[place(n)]]

ListAfter(r, list) ==
  CASE r.event = "REFRESH" -> RefreshList(list, r.items)
    [] r.event = "ADD"     -> list \o SetToSeq(r.items)
    [] r.event = "MOD"     -> ModList(list, r.pid, r.diff)
    [] r.event = "DEL"     -> DelList(list, r.pid)
    [] OTHER               -> list

ClientDispatch ==
  /\ cbuf # <<>> /\ cbuf' = Tail(cbuf)
  /\ shown' = ListAfter(Head(cbuf), shown)
  /\ UNCHANGED <<daemon, file>>

Next == Poll \/ Rotate \/ Restart \/ ClientRead \/ ClientDispatch

Spec == Init /\ [][Next]_vars

-----------------------------------------------------------------------------
(* Every variable has the type its comment gives it; no usage a client     *)
(* shows is negative or more than a process can use.                       *)
TypeOK ==
  /\ cache \in SUBSET Process
  /\ cache_exists \in BOOLEAN /\ broadcast \in BOOLEAN /\ stale \in BOOLEAN
  /\ \A r \in Range(unread) \cup Range(cbuf) : r.items \in SUBSET Process
  /\ shown \in Seq(Process)

(* A follower that has caught up shows the monitor's processes, each once, *)
(* with the times, the usage and the flags the monitor has: through        *)
(* process ids that are given out again, processes that go quiet and wake, *)
(* broadcasts, new files and new daemons.                                  *)
SameProcesses ==
  ~stale /\ unread = <<>> /\ cbuf = <<>> =>
    Range(shown) = cache /\ Len(shown) = Cardinality(cache)

(* A process a client shows never turns into another one: when its id is   *)
(* given out again it is removed first, and a program that counts arrivals *)
(* and departures is told of both.                                         *)
NeverBecomesAnother ==
  [][\A i \in DOMAIN shown, j \in DOMAIN shown' :
       shown[i].pid = shown'[j].pid => shown[i].start = shown'[j].start]_vars
=============================================================================
