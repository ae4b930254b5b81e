------------------------------ MODULE History ------------------------------
(***************************************************************************)
(* The hours that are over.  When the hour changes, the logger copies its  *)
(* log to a file named after the hour, begins a new log and leaves the     *)
(* copy to a thread that compresses it.  A client replays a range of time  *)
(* from the compressed hours and the log.  The daemon may end anywhere,    *)
(* the computer may sleep for a day, and a write may fail, of which some   *)
(* failures are noticed and some are not looked for.                       *)
(*                                                                         *)
(* A file holds blocks; a block is the time it was written at, and those   *)
(* of one moment are not told apart.                                       *)
(***************************************************************************)
EXTENDS Integers

CONSTANTS
  TicksPerHour,    \* moments of an hour a block may be written at
  HoursPerDay,     \* 24
  Jumps,           \* how far the clock moves between two polls
  PollJumps,       \* and during one
  Windows,         \* the ranges of time that may be replayed
  StartTime,       \* when the daemon is first started
  MaxTime,         \* bound: the last moment
  MaxMishaps       \* bound: how often it ends or fails to write

ASSUME ClockAssumption ==
  TicksPerHour \in Nat \ {0} /\ HoursPerDay \in Nat \ {0}
ASSUME BoundsAssumption ==
  /\ Jumps \subseteq Nat /\ PollJumps \subseteq Nat
  /\ MaxTime \in Nat /\ MaxMishaps \in Nat
  /\ StartTime \in 0 .. MaxTime
  /\ Windows \subseteq (0 .. MaxTime) \X (0 .. MaxTime)

Hours == 0 .. HoursPerDay - 1
Times == 0 .. MaxTime
LOG   == HoursPerDay    \* stands for the log among the names of hours
Files == Hours \cup {LOG}

HourIndex(t) == t \div TicksPerHour
HourOf(t)    == HourIndex(t) % HoursPerDay
DayOf(t)     == HourIndex(t) \div HoursPerDay

Content   == SUBSET Times
File      == [state : {"absent", "torn", "whole"}, blocks : Content]
Absent    == [state |-> "absent", blocks |-> {}]
Torn      == [state |-> "torn",   blocks |-> {}]
Whole(bs) == [state |-> "whole",  blocks |-> bs]

VARIABLES
  now,             \* time()
  pc,              \* where the logger thread is
  save_history,    \* config->log.save_history
  mishaps,         \* how often the daemon ended or failed to write
  log, log_hour,   \* the blocks of the log; enigmatic->log.hour
  plain,           \* the copy of each hour, "HH"
  sizes, lz4,      \* "HH.lz4.size" and "HH.lz4"
  day,             \* the day "HH.lz4", or the log, was last written on
  comp,            \* where the compressing thread is
  comp_hour,       \* and the hour it compresses
  saved,           \* history: the log that was last to be saved as each hour
  unnoticed,       \* history: hours of which a write failed since, unnoticed
  reader,          \* where the client is
  window,          \* client->replay
  files,           \* the files it has yet to replay, with their places
  fired            \* the blocks it has called back for, with their file's place

clock  == <<now, mishaps>>
logger == <<pc, save_history, log, log_hour>>
disk   == <<plain, sizes, lz4, saved, unnoticed>>
hours  == <<disk, day, comp, comp_hour>>
replay == <<reader, window, files, fired>>
vars   == <<clock, logger, hours, replay>>

-----------------------------------------------------------------------------
Init ==
  /\ now = StartTime /\ pc = "poll" /\ mishaps = 0 /\ save_history \in BOOLEAN
  /\ log = {} /\ log_hour = HourOf(StartTime)
  /\ plain = [h \in Hours |-> Absent] /\ sizes = [h \in Hours |-> Absent]
  /\ lz4 = [h \in Hours |-> Absent]
  /\ day = [f \in Files |-> DayOf(StartTime)]
  /\ comp = "idle" /\ comp_hour = 0
  /\ saved = [h \in Hours |-> Absent] /\ unnoticed = {}
  /\ reader = "idle" /\ window = <<0, 0>> /\ files = {} /\ fired = {}

(* The clock moves by itself, over a whole day while the computer sleeps.  *)
(* There is a poll at every moment; one that begins in the hour of the log *)
(* may end in a later one.  A rotation, and a replay, end at the moment    *)
(* they began (the logger and the compressing thread go on meanwhile).     *)
Tick ==
  /\ \/ /\ pc = "down" \/ (pc = "sleep" /\ now \in log)
        /\ \E d \in Jumps : now' = now + d
     \/ /\ pc = "poll" /\ log_hour = HourOf(now)
        /\ \E d \in PollJumps : now' = now + d
        /\ HourIndex(now') # HourIndex(now)
  /\ now' <= MaxTime /\ reader = "idle"
  /\ UNCHANGED <<mishaps, logger, hours, replay>>

(* A poll of the hour the log was opened in. *)
SameHour ==
  /\ pc = "sleep" /\ log_hour = HourOf(now)
  /\ pc' = "poll"
  /\ UNCHANGED <<clock, save_history, log, log_hour, hours, replay>>

LogWritten == day' = [day EXCEPT ![LOG] = DayOf(now)]

(* The hour has changed: the log is ended and is to be copied. *)
HourOver == pc = "sleep" /\ log_hour # HourOf(now) /\ save_history

BeginCopy ==
  /\ HourOver /\ pc' = "copying"
  /\ plain' = [plain EXCEPT ![log_hour] = Torn]
  /\ saved' = [saved EXCEPT ![log_hour] = Absent]
  /\ unnoticed' = unnoticed \ {log_hour}
  /\ LogWritten
  /\ UNCHANGED <<clock, save_history, log, log_hour, sizes, lz4, comp,
                 comp_hour, replay>>

Saved == saved' = [saved EXCEPT ![log_hour] = Whole(log)]

EndCopy ==
  /\ pc = "copying" /\ pc' = "open"
  /\ plain' = [plain EXCEPT ![log_hour] = Whole(log)] /\ Saved
  /\ UNCHANGED <<clock, save_history, log, log_hour, sizes, lz4, unnoticed, day,
                 comp, comp_hour, replay>>

Mishap == mishaps < MaxMishaps /\ mishaps' = mishaps + 1

(* Of some blocks, those before a moment. *)
Parts(bs) == {{t \in bs : t < k} : k \in bs}

(* The copy cannot be made, and what had its name stays, or is not made to *)
(* its end.  The log is emptied all the same.                              *)
CopyNotMade ==
  /\ HourOver /\ pc' = "open"
  /\ Mishap /\ Saved /\ unnoticed' = unnoticed \cup {log_hour}
  /\ LogWritten
  /\ UNCHANGED <<now, save_history, log, log_hour, plain, sizes, lz4, comp,
                 comp_hour, replay>>

CopyCut ==
  /\ pc = "copying" /\ pc' = "open"
  /\ Mishap /\ Saved /\ unnoticed' = unnoticed \cup {log_hour}
  /\ \E cut \in {Torn} \cup {Whole(bs) : bs \in Parts(log)} :
       plain' = [plain EXCEPT ![log_hour] = cut]
  /\ UNCHANGED <<now, save_history, log, log_hour, sizes, lz4, day, comp,
                 comp_hour, replay>>

EmptyLog == log' = {} /\ log_hour' = HourOf(now) /\ LogWritten

(* The thread of the hour before is waited for before another is begun. *)
OpenLog ==
  /\ pc = "open" /\ comp = "idle"
  /\ EmptyLog
  /\ comp' = "begin" /\ comp_hour' = log_hour
  /\ pc' = "poll"
  /\ UNCHANGED <<clock, save_history, plain, sizes, lz4, saved, unnoticed, replay>>

(* Without history the log is only begun again. *)
StartOver ==
  /\ pc = "sleep" /\ log_hour # HourOf(now) /\ ~save_history
  /\ EmptyLog
  /\ pc' = "poll"
  /\ UNCHANGED <<clock, save_history, disk, comp, comp_hour, replay>>

(* A poll ends with a block. *)
WriteBlock ==
  /\ pc = "poll"
  /\ log' = log \cup {now} /\ LogWritten
  /\ pc' = "sleep"
  /\ UNCHANGED <<clock, save_history, log_hour, disk, comp, comp_hour, replay>>

(* The daemon ends, however it does, and its threads with it. *)
Stop ==
  /\ pc # "down" /\ Mishap
  /\ pc' = "down" /\ comp' = "idle"
  /\ UNCHANGED <<now, save_history, log, log_hour, disk, day, comp_hour, replay>>

Restart ==
  /\ pc = "down"
  /\ EmptyLog
  /\ pc' = "poll"
  /\ UNCHANGED <<clock, save_history, disk, comp, comp_hour, replay>>

-----------------------------------------------------------------------------
CompGoTo(from, to) == comp = from /\ comp' = to

Unnoticed == Mishap /\ unnoticed' = unnoticed \cup {comp_hour}

(* A copy that is empty cannot be mapped, and the program ends.            *)
MapFails ==
  /\ CompGoTo("begin", "idle") /\ pc' = "down"
  /\ plain[comp_hour].state # "absent" /\ plain[comp_hour].blocks = {}
  /\ UNCHANGED <<clock, save_history, log, log_hour, disk, day, comp_hour,
                 replay>>

(* The sizes: from its first byte on the file fits no old "HH.lz4".  What  *)
(* the writes and the close of it say is not looked at.                    *)
WriteSizes ==
  /\ CompGoTo("begin", "sized")
  /\ plain[comp_hour].state # "absent"
  /\ \/ /\ sizes' = [sizes EXCEPT ![comp_hour] = plain[comp_hour]]
        /\ UNCHANGED <<mishaps, unnoticed>>
     \/ sizes' = [sizes EXCEPT ![comp_hour] = Torn] /\ Unnoticed
  /\ UNCHANGED <<now, logger, plain, lz4, day, comp_hour, saved, replay>>

Lz4Written == day' = [day EXCEPT ![comp_hour] = DayOf(now)]

BeginLz4 ==
  /\ CompGoTo("sized", "packing")
  /\ lz4' = [lz4 EXCEPT ![comp_hour] = Torn] /\ Lz4Written
  /\ UNCHANGED <<clock, logger, plain, sizes, comp_hour, saved, unnoticed,
                 replay>>

(* Nor at what the close says, which writes what fwrite only took over.    *)
EndLz4 ==
  /\ CompGoTo("packing", "packed")
  /\ \/ /\ lz4' = [lz4 EXCEPT ![comp_hour] = plain[comp_hour]] /\ Lz4Written
        /\ UNCHANGED <<mishaps, unnoticed>>
     \/ UNCHANGED <<lz4, day>> /\ Unnoticed
  /\ UNCHANGED <<now, logger, plain, sizes, comp_hour, saved, replay>>

(* Deliberately wrong: what failed is not told apart from what worked. *)
CompressFailsUnnoticed ==
  /\ comp \in {"begin", "sized", "packing"} /\ comp' = "packed"
  /\ \/ Mishap
     \/ comp = "begin" /\ plain[comp_hour].state = "absent" /\ UNCHANGED mishaps
  /\ UNCHANGED <<now, logger, disk, day, comp_hour, replay>>

(* The failures that are noticed: the copy is not there, a file cannot be  *)
(* made, or fwrite cannot write all of the "HH.lz4".                       *)
CompressFails ==
  /\ comp \in {"begin", "sized", "packing"} /\ comp' = "idle"
  /\ \/ Mishap
     \/ comp = "begin" /\ plain[comp_hour].state = "absent" /\ UNCHANGED mishaps
  /\ UNCHANGED <<now, logger, disk, day, comp_hour, replay>>

UnlinkPlain ==
  /\ CompGoTo("packed", "idle")
  /\ plain' = [plain EXCEPT ![comp_hour] = Absent]
  /\ UNCHANGED <<clock, logger, sizes, lz4, day, comp_hour, saved, unnoticed, replay>>

-----------------------------------------------------------------------------
Recent(d) == d \in {DayOf(now), DayOf(now) - 1}

(* The files there are of n hours, each at the place of its hour: the log  *)
(* for the last hour of the range, if that is the hour it is now, and      *)
(* compressed hours for the others.                                        *)
Listed(start, end, n) ==
  LET hour(i)  == HourOf(start + i * TicksPerHour)
      named(i) == IF i > 0 /\ hour(i) = HourOf(end) /\ HourOf(now) = HourOf(end)
                  THEN LOG ELSE hour(i)
      there(f) == (f # LOG => lz4[f].state # "absent") /\ Recent(day[f])
  IN  {<<i, named(i)>> : i \in {k \in 0 .. n - 1 : there(named(k))}}

Span(start, end) == (end - start) \div TicksPerHour

(* Deliberately wrong: the last hour is left out. *)
replay_hoursShort(start, end) ==
  IF start >= end \/ Span(start, end) > HoursPerDay THEN {}
  ELSE Listed(start, end, Span(start, end))

(* Deliberately wrong: the files are put before, not after, the others. *)
replay_hoursPrepended(start, end) ==
  IF start >= end \/ Span(start, end) > HoursPerDay THEN {}
  ELSE {<<0 - f[1], f[2]>> : f \in Listed(start, end, Span(start, end) + 1)}

replay_hours(start, end) ==
  IF start >= end \/ Span(start, end) > HoursPerDay THEN {}
  ELSE Listed(start, end, Span(start, end) + 1)

(* enigmatic_log_decompress: both files, or the program ends. *)
Readable(h) == lz4[h].state = "whole" /\ sizes[h] = lz4[h]

callback_fire(t) == window[1] <= t /\ t <= window[2]

BeginReplay ==
  /\ reader = "idle"
  /\ \E w \in Windows :
       /\ replay_hours(w[1], w[2]) # {}
       /\ window' = w /\ files' = replay_hours(w[1], w[2])
  /\ reader' = "reading"
  /\ UNCHANGED <<clock, logger, hours, fired>>

Blocks(f) == IF f = LOG THEN log ELSE lz4[f].blocks

(* What is read of a file: the log, an hour, or of an hour whose sizes are *)
(* cut the blocks whose sizes are there.                                   *)
Played(f) ==
  IF f = LOG THEN {log}
  ELSE IF Readable(f) THEN {lz4[f].blocks}
  ELSE IF lz4[f].state = "whole" /\ sizes[f].state = "torn"
       THEN Parts(lz4[f].blocks) ELSE {}

First(f) == \A g \in files : f[1] <= g[1]

ReplayFile ==
  /\ reader = "reading"
  /\ \E f \in files : \E bs \in Played(f[2]) :
       /\ First(f)
       /\ fired' = fired \cup {<<f[1], t>> : t \in {b \in bs : callback_fire(b)}}
       /\ files' = files \ {f}
  /\ UNCHANGED <<clock, logger, hours, reader, window>>

(* All files are replayed, or one cannot be read and the program ends. *)
EndReplay ==
  /\ reader = "reading"
  /\ \A f \in files : First(f) => f[2] # LOG /\ ~Readable(f[2])
  /\ reader' = "idle" /\ window' = <<0, 0>> /\ files' = {} /\ fired' = {}
  /\ UNCHANGED <<clock, logger, hours>>

Rotate   == BeginCopy \/ EndCopy \/ CopyNotMade \/ CopyCut \/ OpenLog \/ StartOver
Compress == MapFails \/ WriteSizes \/ BeginLz4 \/ EndLz4 \/ CompressFails
            \/ UnlinkPlain
Replay   == BeginReplay \/ ReplayFile \/ EndReplay

Next ==
  \/ Tick \/ SameHour \/ WriteBlock \/ Rotate \/ Stop \/ Restart
  \/ Compress \/ Replay

Spec == Init /\ [][Next]_vars

-----------------------------------------------------------------------------
(* Every variable has the type its comment gives it. *)
TypeOK ==
  /\ now \in Times
  /\ pc \in {"sleep", "poll", "copying", "open", "down"}
  /\ mishaps \in 0 .. MaxMishaps /\ save_history \in BOOLEAN
  /\ log \in Content /\ log_hour \in Hours
  /\ {plain, sizes, lz4, saved} \subseteq [Hours -> File]
  /\ unnoticed \subseteq Hours /\ day \in [Files -> Nat]
  /\ comp \in {"idle", "begin", "sized", "packing", "packed"}
  /\ comp_hour \in Hours
  /\ reader \in {"idle", "reading"} /\ window \in Times \X Times
  /\ files \subseteq Int \X Files /\ fired \subseteq Int \X Times

(* An hour that was saved stays on the disk until the next hour of that    *)
(* name is: uncompressed, or compressed with the sizes that go with it.    *)
(* That holds between any two writes of the compressing thread, when it    *)
(* finds that it cannot go on, and wherever the daemon dies.  It does not  *)
(* hold of an hour of which a write failed that nobody looked at: of the   *)
(* copy (enigmatic_log.c:509), of the sizes (342, 346) or at the close of  *)
(* the "HH.lz4" (355), after which the copy is removed (465).              *)
HourKept ==
  \A h \in Hours \ unnoticed :
    saved[h].state = "whole" =>
      plain[h] = saved[h] \/ (lz4[h] = saved[h] /\ sizes[h] = saved[h])

(* A poll that goes on into another hour ends in the next, or at those     *)
(* hours of a later day.                                                   *)
NextHour(h) == (h + 1) % HoursPerDay

ShortPolls ==
  \A t \in Times, d \in PollJumps : HourOf(t + d) \in {HourOf(t), NextHour(HourOf(t))}

(* While a client replays a range that does not come back to the hour it   *)
(* began in, time never goes back: not if the log is rotated and hours are *)
(* compressed under its eyes, with files of the day before that have the   *)
(* names of hours to come, and blocks of an hour at the end of the file of *)
(* the hour before.  (The computer may sleep for most of a day during a    *)
(* poll, see ShortPolls: then it can.)                                     *)
InOrder ==
  HourIndex(window[2]) + 1 < HourIndex(window[1]) + HoursPerDay =>
    \A a, b \in fired : a[1] < b[1] => a[2] <= b[2]

(* What can be replayed of a range.  It ends after it begins, and begins a *)
(* day ago at most.  The last hour of a range is only asked for if the     *)
(* range ends later in its hour than it begins; the current hour only if   *)
(* the range began before it; and an hour of yesterday that has the name   *)
(* of the current one is not asked for as the end of a range.              *)
Askable(start, end) ==
  /\ start < end
  /\ HourIndex(now) <= HourIndex(start) + HoursPerDay
  /\ HourIndex(start) + (end - start) \div TicksPerHour = HourIndex(end)
  /\ HourIndex(start) < HourIndex(now)
  /\ HourIndex(end) <= HourIndex(now)
  /\ HourOf(end) = HourOf(now) => HourIndex(end) = HourIndex(now)

Owed(start, end) ==
  {t \in start .. end :
     t \in lz4[HourOf(t)].blocks
       \cup (IF HourIndex(t) = HourIndex(now) THEN log ELSE {})}

(* Of such a range every block that is in the log or in the compressed     *)
(* file of its hour is in a file that is replayed.                         *)
NothingMissed ==
  \A w \in Windows :
    Askable(w[1], w[2]) =>
      Owed(w[1], w[2]) \subseteq
        UNION {Blocks(f[2]) : f \in replay_hours(w[1], w[2])}
=============================================================================
