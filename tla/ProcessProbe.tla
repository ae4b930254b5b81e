----------------------------- MODULE ProcessProbe -----------------------------
(***************************************************************************)
(* How the list of processes comes about that ProcessStream takes as one   *)
(* step: proc_info_all_get reads /proc file by file while processes end,   *)
(* start and take over process ids.  The names are listed first; then the  *)
(* files of each name are read one after the other, and whoever has the    *)
(* process id at that moment answers.  A name whose stat file is gone is   *)
(* skipped; any other file that is gone leaves its fields empty, except    *)
(* that a command is then the name in the stat file.                       *)
(*                                                                         *)
(* Two processes with one process id start in different seconds: the time  *)
(* a process starts is in whole seconds in the program.                    *)
(***************************************************************************)
EXTENDS ProcessStream

VARIABLES
  probing,         \* the monitor is reading /proc
  alive,           \* the processes there are, of Runs
  ended,           \* the processes there were
  names,           \* the process ids listed and not yet read
  part,            \* the process that is being read
  list,            \* the processes read so far
  mixed,           \* the process ids in the list with a field of another one
  lasting          \* the processes alive ever since the names were listed

probe     == <<probing, names, part, list, mixed>>
system    == <<alive, ended, lasting>>
probeVars == <<vars, probe, system>>

None == <<>>

(* Whoever has a process id, and what each file says: the process whose    *)
(* fields it has.                                                          *)
Holder(pid) == LET has == {r \in alive : r[1] = pid}
               IN  IF has = {} THEN None ELSE CHOOSE r \in has : TRUE

(* Deliberately wrong: the time a process starts is read after the rest. *)
StatLast == <<"uid", "memory", "command", "stat">>

(* The files of one process in the order they are read. *)
Reads == <<"stat", "uid", "memory", "command">>

UidSays(pid) == Holder(pid)

(* What the open files and the transfers of the network and the disk say,  *)
(* and the memory, which stands for them: zero when nobody has the id.     *)
CountsSay(pid) == Holder(pid)

MemorySays(pid) == CountsSay(pid)

PlaceOf(f) == CHOOSE i \in DOMAIN Reads : Reads[i] = f

(* A command that cannot be read any more is the name in the stat file. *)
CommandSays(pid) ==
  IF Holder(pid) = None /\ PlaceOf("stat") \in DOMAIN part.said
  THEN part.said[PlaceOf("stat")] ELSE Holder(pid)

Answer(f, pid) ==
  CASE f = "stat"    -> Holder(pid)
    [] f = "uid"     -> UidSays(pid)
    [] f = "memory"  -> MemorySays(pid)
    [] f = "command" -> CommandSays(pid)

NoPart == [pid |-> 0, said |-> <<>>]

FirstOf(pids) == CHOOSE pid \in pids : \A other \in pids : pid <= other

-----------------------------------------------------------------------------
ProbeInit ==
  /\ Init /\ probing = FALSE /\ alive = {} /\ ended = {} /\ lasting = {}
  /\ names = {} /\ part = NoPart /\ list = {} /\ mixed = {}

(* Processes end and start, each once, and one at a time has a process id. *)
(* Between two polls nothing but who is left matters.                      *)
Exit ==
  /\ probing
  /\ \E r \in alive :
       /\ alive' = alive \ {r} /\ ended' = ended \cup {r}
       /\ lasting' = lasting \ {r}
  /\ UNCHANGED <<vars, probe>>

Fork ==
  /\ probing
  /\ \E r \in Runs \ (alive \cup ended) :
       Holder(r[1]) = None /\ alive' = alive \cup {r}
  /\ UNCHANGED <<ended, lasting, vars, probe>>

(* Deliberately wrong: the list of the poll before is added to. *)
ListKept(old) == old

ListBegun(old) == {}

(* The names in /proc. *)
ListNames ==
  /\ ~probing /\ Len(unread) + Len(cbuf) <= MaxUnread
  /\ \E now \in SUBSET (Runs \ ended) :
       /\ \A q, r \in now : q[1] = r[1] => q = r
       /\ alive' = now /\ ended' = ended \cup (alive \ now) /\ lasting' = now
       /\ names' = {r[1] : r \in now}
  /\ probing' = TRUE /\ part' = NoPart
  /\ list' = ListBegun(list) /\ mixed' = {}
  /\ UNCHANGED vars

(* Deliberately wrong: the list ends at a process that has gone. *)
AfterGoneNone(left) == {}

AfterGone(left) == left

(* One file of the process that is being read, or the first one of the     *)
(* next name.                                                              *)
ReadFile ==
  LET pid   == IF part = NoPart THEN FirstOf(names) ELSE part.pid
      left  == names \ {pid}
      f     == Reads[Len(part.said) + 1]
      says  == Answer(f, pid)
  IN  /\ probing /\ (part # NoPart \/ names # {})
      /\ Len(part.said) < Len(Reads)
      /\ IF f = "stat" /\ says = None
         THEN part' = NoPart /\ names' = AfterGone(left)
         ELSE part' = [pid |-> pid, said |-> Append(part.said, says)] /\ names' = left
      /\ UNCHANGED <<probing, list, mixed, system, vars>>

(* The process joins the list; its CPU time was read with the stat file,   *)
(* and is no less than when it was read before.                            *)
Whole(said) == \A i \in DOMAIN said : said[i] = said[PlaceOf("stat")]

Listed ==
  /\ part # NoPart /\ Len(part.said) = Len(Reads)
  /\ \E p \in Reported :
       /\ <<p.pid, p.start>> = part.said[PlaceOf("stat")]
       /\ \A c \in cache : SameProcess(p, c) => p.cpu_time >= c.cpu_time
       /\ list' = list \cup {p}
  /\ mixed' = IF Whole(part.said) THEN mixed ELSE mixed \cup {part.pid}
  /\ part' = NoPart
  /\ UNCHANGED <<probing, names, system, vars>>

(* All names are read: the monitor compares the list with the processes it *)
(* tracks, as in Poll.                                                     *)
ProbeEnds ==
  /\ probing /\ names = {} /\ part = NoPart
  /\ Visit(list) /\ cache_exists' = TRUE /\ broadcast' \in BOOLEAN
  /\ probing' = FALSE /\ mixed' = {} /\ lasting' = {}
  /\ UNCHANGED <<stale, client, names, part, list, alive, ended>>

(* The rotation and the end of the daemon are of the thread that polls. *)
Others ==
  /\ ~probing /\ (Rotate \/ Restart \/ ClientRead \/ ClientDispatch)
  /\ UNCHANGED <<probe, system>>

ProbeNext ==
  \/ Exit \/ Fork
  \/ ListNames \/ ReadFile \/ Listed \/ ProbeEnds
  \/ Others

ProbeSpec == ProbeInit /\ [][ProbeNext]_probeVars

-----------------------------------------------------------------------------
(* Whatever happens while /proc is read, the list is one that the system   *)
(* could have given in one step: what ProcessStream says of the records    *)
(* and the client holds of the program that reads file by file.            *)
ImplementsStream == Init /\ [][UNCHANGED vars \/ Next]_vars

(* A process whose fields were read from two processes has ended before    *)
(* the list is complete: the next poll removes it, and no living process   *)
(* is ever shown under the user or the command of another one.             *)
MixedHasEnded ==
  \A p \in list : p.pid \in mixed => <<p.pid, p.start>> \notin alive

(* No process that lives through the reading is missing from the list, so  *)
(* none is reported gone and come back.                                    *)
NoneMissed ==
  [][probing /\ ~probing' =>
       \A r \in lasting : \E c \in cache' : <<c.pid, c.start>> = r]_probeVars
=============================================================================
