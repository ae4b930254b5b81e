# A verification development for Enigmatic

Enigmatic records what a machine does.  A daemon samples processors, memory,
sensors, batteries, network interfaces, file systems and processes, compares each
sample with the one before, and appends the *differences* to a compressed log.
Client programs follow the log and rebuild from the differences the state of the
machine (a *snapshot*), live or from the hours that are over.

What can go wrong is that the two sides stop agreeing: a difference is added to
the wrong device, or to a value the daemon never had, or is lost because a file
was emptied, a process ended or a lock was taken at the wrong moment.  There are
no acknowledgements and no sequence numbers; only the order of the records in one
file, and a full list now and then, keep the snapshot right.  Around that stand a
daemon that is one at a time, its threads, its files and the requests it answers.

The modules are TLA+; TLC checks them on small instances and TLAPS checks the
proofs for every instance.  Paths below are relative to `src/src/bin/`, those that
begin with `lz4` to `src/src/lib/lz4/`.

## The system

| part | source | state it keeps | operations |
|---|---|---|---|
| poll loop | `enigmatic_main.c` | `poll_count`, `broadcast`, `interval`, the main thread | init, one poll per tick, shutdown |
| device monitors | `monitor/{cores,sensors,batteries,network_interfaces,file_systems}.c` | one cache per kind; sensors and batteries also a thread with a list behind a lock | visit: refresh, del, add, mod |
| processes monitor | `monitor/processes.c` | a hash from process id to process | visit |
| memory and power | `monitor/{memory,power}.c` | the last reading; power also a thread | visit |
| probes | `system/` | nothing | read `/proc` and the like |
| identifiers | `uid.c` | `enigmatic->unique_ids`, shared by the five device monitors | find, release |
| log writer | `enigmatic_log.c`, `Events.h` | the buffer of a poll, the file | header, diff, crush, open, close |
| hours | `enigmatic_log.c` | hour and day of the log, the files of an hour, the thread that compresses | rotate, compress, decompress |
| lock and pid file | `enigmatic_log.c`, `enigmatic_util.c` | two files | lock, unlock, create, delete, terminate |
| query protocol | `enigmatic_server.c`, `enigmatic_query.c` | a local socket; the interval and STOP | PING, STOP, intervals |
| starter | `enigmatic_start.c` | nothing | look for a daemon, launch one, wait for it |
| configuration | `enigmatic_config.c` | one file | load, save |
| client library | `client/enigmatic_client.c` | file, offset, size, `truncated`, snapshot, callbacks | open, read, dispatch, reset, replay |
| LZ4 | `lz4frame.c`, `lz4.c` (vendored) | a decompression context | compressFrame, decompress |

**How they interact.**  The logger thread calls the monitors one after the other;
each compares, takes and gives back identifiers in the one shared list, and
appends records to the buffer.  At the end of the poll the buffer is compressed
into one LZ4 frame and written with one `write()`.  Threads of the sensors,
batteries and power monitors refresh their lists behind locks that the logger only
*tries*.  The main thread runs the event loop: the query server, the signal handlers
and the orderly shutdown, which cancels the other threads and waits for each of them for
half a second.  At a change of the hour the logger copies the log, begins a
new one and leaves the copy to a thread that compresses it.  Daemon and client
share nothing but the directory: the client is woken by a change to any file in
it, asks for the size and reads.  Two daemons share the lock file and the pid file
with `enigmatic -s`, and with `enigmatic_start`.

**What is hard about it.**  The file is emptied while a client is in the middle of
it (every hour, and by every new daemon).  A list is only written at a broadcast,
and a REFRESH is ignored by a client whose list is not empty, so one mistake stays
for the rest of the hour.  Identifiers and process ids are used again, the latter
while the monitor reads `/proc`.  A visit can be given up.  The daemon may die at
any line, also between the three files of an hour.  A client sees sizes, never
events.  Three processes can meet on one lock file.  Waits run out on threads that go on.
Hours are named by the hour of the day, so a day later the names come back.

**What makes each part correct.**

* identifiers: no two devices share one; one that is given back was taken;
* monitors and log: the records of a poll take the list before it to the list after;
* follower: once it has read everything it shows what the daemon has, through
  rotations, crashes and restarts; it is never told of a device it does not have;
* differences: what the client adds up is what the daemon read;
* probe: what is read file by file could have been read at once;
* reading the file: whole frames, of one file, in order, and all of them;
* frames and blocks: the bytes that come out are the bytes that went in, and no
  buffer is left;
* hours: one that was saved is kept unless a write failed that nobody looked at, and a replay goes forward and misses nothing;
* threads: what a thread uses is not freed while it uses it; polls go on and the
  daemon ends;
* lock: one daemon; whoever ends, and however, another one can start;
* queries and starter: who answers is who has the lock and the name, every request
  and every start comes to an end, STOP and intervals take effect.

## Modules

```
UniqueIds   LogRecords              the data the stream is made of
      \        /
     DeviceStream                   monitors + log + follower       MCDeviceStream
ProcessStream                       the same for processes
 `- ProcessProbe                    + /proc, read file by file      MCProcessProbe
DaemonThreads                       logger, monitor threads, shutdown
 `- PowerStream                     + the power supply and a client MCPowerStream
LogFollow                           size, offset and frames of the file
Differences                         widths, signs, wrapping         MCDifferences
FramePipe                           what frames promise
FrameWriter                         making frames
 `- FrameReader                     + LZ4F_decompress, its callers  MCFrameReader
Lz4Block                            one block, there and back       MCLz4Block
History                             rotation, compression, replay   MCHistory
Service                             queries, start, stop, intervals MCService
DaemonLock                          lock file, pid file, enigmatic -s
*_proofs                            theorems about the module they are named after
                                    (Daemon_proofs: DaemonLock and Service;
                                    Coding_proofs: Differences and Lz4Block)
```

Two of them are compositions in which a detailed module is shown to implement an
abstract one.  `FrameReader` implements `FramePipe` (`ImplementsPipe`, an INSTANCE with
a refinement mapping, checked in run `frames` and proved).  `ProcessProbe` implements the poll of
`ProcessStream` that takes the list of processes as one step (`ImplementsStream`, run
`processes`).  `PowerStream` adds to `DaemonThreads` and leaves its behaviours as they
are, which is a theorem (`PowerKeepsThreads`).

**UniqueIds** (`uid.c`).  The list of identifiers as a sequence of entries with an
`available` flag.  `unique_id_find` returns the first free one, or the length of
the list; `ListAfterFind` is the list it leaves behind.  `unique_id_release` marks an entry; on
an identifier it does not know the program ends with `exit(2)`, which the model
turns into a property (`ReleaseKnowsId`).

**LogRecords** (`Events.h`, `enigmatic_log.c`, the handlers of the client).  Records
and what the client does with each (`Dispatch`).

**DeviceStream**.  The variables are those of the logger thread (`pc`, `mon`,
`sample`), of `struct Enigmatic` (`cache`, `unique_ids`, `broadcast`, `poll_count`,
`buf`), of the file (`unread`, what is after the client's offset; `stale`, it
was emptied since the client last read) and of the client (`cbuf`, `snapshot`).
One action per step the code takes on its shared state:

| action | code |
|---|---|
| `RotateClose`, `RotateOpen` | `enigmatic_log_rotate`: EOF and LAST_RECORD at the end of the old file, then the file emptied and a broadcast asked for |
| `BeginPoll` | BROADCAST at the head of the buffer if one is due |
| `NotDue`, `BeginMonitor` | the `if (block \|\| ...)` of `enigmatic_system_monitor`; the sample is chosen from `Samples` |
| `LockContended` | the `eina_lock_take_try` of sensors and batteries that fails |
| `FillCache` | the first visit of a kind |
| `WriteRefresh`, `LogDel`, `LogAdd`, `LogMod`, `EndMonitor` | the passes of a visit, in the order of the code |
| `EndPoll` | BLOCK_END, `enigmatic_log_crush`, the next `broadcast` and `poll_count` |
| `Shutdown`, `Crash`, `Restart` | the end of the process, orderly or not, and `enigmatic_log_open` of the next one |
| `ClientRead`, `ClientDispatch` | `enigmatic_client_read` and `event_message` |

The five device monitors are one action system with parameters for their
differences: `EveryTick` (cores are visited at every tick under the default
interval), `Skippable` (try lock), `Clamped` (the client replaces negative sums of
sensors by 0), `RefreshUpdates` (network interfaces take values from a REFRESH).
All readings of a device are one number: rounding of floats is not modelled, widths
are the subject of Differences.  Two devices of one kind have different names.  A
kind's list is a set: the order of a list is not seen by any handler.
`poll_count` is kept modulo the two periods, with 0 apart as in the code.  Detection
of an emptied file is taken as given here; what that assumes is the subject of LogFollow.

**ProcessStream** (`monitor/processes.c`, `message_processes`).  Processes have no
identifier from `uid.c`.  A poll's visit is one action: nothing of it is in the file
before the frame is written, so that a crash in it is a crash before it.  One MOD
record stands for the run of MOD records, one a field, that the comparison of a
process writes; `cpu_time` stands for all fields that are sent as differences
(`start` is one too), `cpu_usage`, `was_zero` and `is_new` are computed as in the
code.  The next poll may be a broadcast or not, whatever the count: more behaviours
than the 15 minute period has.  The client's list is a sequence, as the handlers
stop at the first match for MOD and REFRESH and go on for DEL; a REFRESH puts each of its
processes over the first one with its id, or at the end.  In which order a hash is
walked is left to a CHOOSE: nothing depends on it.

**ProcessProbe** (`system/process.c`, Linux).  `proc_info_all_get` lists `/proc`
(`ListNames`), and for every name reads `stat`, the user, the counts and the memory, and
the command, one after the other (`ReadFile`); processes exit and fork between any
two of these, and whoever has the id at that moment answers; `part.said` is who did, file by
file.  A name without a
`stat` file is skipped; every other file that is gone leaves its fields empty.  Two
processes that have one id start in different seconds: nothing in the program could tell
them apart otherwise.

**DaemonThreads** (`enigmatic_main.c`, the threads of batteries, sensors and power).
Where the logger is, where each thread is and who has each lock; `Visit` is the
`take_try`, `Enter` the first visit that starts the thread.  `WaitLogger` and
`Wait` are `ecore_thread_wait(…, 0.5)`: over when the thread has ended, or when it is
somewhere it may stay for half a second (a long sleep, a probe that hangs, and, with
`SlowPolls`, a poll).  `Close` and `Shutdown` free; `Shutdown` takes the lock first.

**PowerStream** (`monitor/power.c`, `message_power`) adds what the thread has found,
what the logger saw last, the record of the poll and of the log only the last
record.  A client begins at the start of the log: see *The broadcast search* below.

**LogFollow** (`enigmatic_log_crush`, `cb_file_modified`, `enigmatic_client_read`).
The file is a sequence of units, the pieces a write or a read moves; a frame has one
or two.  The client's `offset`, `file_size`, `truncated` and what `fstat` said are
separate variables, as are the steps between them, so that the file may grow, be
emptied and grow again in between.  `Torn` lets a frame be seen while it is written,
`Prompt` assumes that the client looks before a new file is as long as what it had
read of the old one; the run has `Torn = FALSE` and `Prompt = TRUE`, and
`NeverFails` and `InOrder` fail without (see below).

**Differences** (`enigmatic_log_diff`, `change_find`, the subtractions of the
monitors and the additions of the client).  `Half8` .. `Half64` are half the number
of values of a width.  The client multiplies pages by 4096 in signed 64 bits, which
overflows when memory shrinks; the builds wrap it, and the model does.

**FrameWriter** (`enigmatic_log_crush`, `LZ4F_compressFrame`).  A file is a sequence of
units; a header has 2, a block header 2, an end mark 2.  A byte of content is its place in
all that was ever written.  A block is stored as it is, or stands for its content in
fewer units.  `room` is what is left of the buffer whose size
`LZ4F_compressFrameBound` gave for the block size that was *asked for*, while the frame is
made with the smallest that fits.

**FrameReader** (`LZ4F_decompress`, `LZ4F_updateDict`, the loop of
`enigmatic_client_read`).  One action per stage of the decoder, with its buffers as
memory and its dictionary as a place in one of them; linked blocks may repeat what the
`Window` bytes before say.  The `client` caller offers all input and a buffer of a
block, the `any` caller, which other programs may be, offers any piece and any
buffer, and is there because most of the moves of the dictionary (`tmpOut`, `flushOut`,
stored pieces) are only reached by such calls or by truncated data.  A file may be
whole or torn.  Checksums, content sizes, skippable frames and `LZ4F_decompress_usingDict`
are left out: the daemon's preferences ask for none.

**Lz4Block** (`LZ4_compress_generic`, `LZ4_decompress_generic`).  Sequences with their
tokens, extended lengths and offsets, the limits at the end of a block, and how far every
copy writes.  `loop` says where the decoder is: in the fast loop, which copies literals and
matches in steps of 16 or 32 bytes (`wildCopy32`) while they are far from the end; in the
shortcut, 16 bytes of literals and then 18 of a match at once; or in the loop that looks at the
end, which copies in steps of 8 (`wildCopy`).  A copy the fast loop refuses leaves it for good, a
match the shortcut refuses is copied with care.  A build without the fast loop
(`LZ4_FAST_DEC_LOOP`) begins in the other one, and `BlockInit` has both.  With `external` the
history is in another buffer, from which nothing is copied too much.  Which earlier places the
hash table knows is left open.  The constants (4, 5, 12, 8, 65535, 15, 15, 16, 64, 255, 16) are
scaled down; how they relate in the code, by its static assertions or by their values, is
`LimitsAssumption`.  How far a copy *reads* too much is not followed.  Left out are partial
decoding, two dictionaries at once, and what a hash table does with positions that wrapped.

**History** (`enigmatic_log_rotate`, `enigmatic_log_compress`,
`enigmatic_client_replay_hours`).  A file holds the times of its blocks.  An hour has
its copy `plain`, its sizes file and its `lz4`, each absent, torn or whole; every
write of the compressing thread is an action, and it may fail or the daemon end before
any.  A failure is noticed where the code looks at a result (`CompressFails`: the files that are opened, the
`fwrite`).  Elsewhere the thread goes on over what was not written and removes the copy: the `fprintf`s
and the `fclose` of the sizes (`WriteSizes`), the `fclose` of the `lz4` (`EndLz4`), the copy of the log
itself (`CopyNotMade`, `CopyCut`).  `unnoticed` keeps the hours this happened to.  An empty copy ends the daemon (`MapFails`).  The names of hours come back after `HoursPerDay`, and `day` is the day in the time
stamp of an `lz4` or of the log, by which a replay tells yesterday's.  The clock moves by
`Jumps` between two polls and by `PollJumps` during one, so that a poll that began in the
hour of the log may write its blocks hours later.  A replay takes its files in the order of
their places (`files`), and `fired` keeps what was called back for with the place of its file.

**Service** (`enigmatic_server.c`, `enigmatic_query.c`, `enigmatic_start.c`,
`enigmatic_config.c`, the interval in `enigmatic_main.c`).  A daemon that may be there and
one that the starter launches, requests that are in the socket, one query a client, and
the poll with its header, interval and period.  The lock and the pid file are one step
each (DaemonLock has the detail).  The starter's look is `_pidfile_proc_alive`, then a PING.
A tool whose STOP has failed goes on to `enigmatic_terminate` (`TerminateRead` to
`TerminateRemove`): it signals the process the pid file names, waits for it to be gone, and removes
the pid file.  `sigterm` is a signal that came before the main loop of a daemon that is
starting; `terminate` keeps whose name a tool has removed.

**DaemonLock** (`enigmatic_log_lock`/`_unlock`, `enigmatic_pidfile_*`,
`enigmatic_terminate`, the signal handlers of `main`).  A lock is on a *file*,
identified by the process that made it, not on the name.  Every process runs once.
`Fail` is `ERROR()`, whose `exit(1)` gives the lock back and leaves the pid file;
`Crash` is anything that runs no handler, a signal before there is one included.
A process id is not given out again.

## What the runs check

All runs together take about ten minutes with two workers; `stream` is the longest.

| run | instance | shows |
|---|---|---|
| `stream` | sensor with try lock (comes and goes) and network (one of two interfaces at a time, which replace each other); every tick a block, every second a broadcast; `MaxUnread` 0; fairness; 860,000 states | `DistinctUids`, `ReleaseKnowsId`, `NoGhosts`, `OneDevicePerUid`, `RecordsFit`, `Converges` |
| `stream_ticks` | cores at every tick, network at every second, readings that change; a broadcast every third tick, between blocks; `MaxUnread` 1; 2.3 million states | `Complete` |
| `processes` | one process id given to two processes, and another process; `/proc` read file by file; 2.5 million states | `SameProcesses`, `NeverBecomesAnother`, `MixedHasEnded`, `NoneMissed`, and the refinement `ImplementsStream` |
| `threads` | batteries, sensors and power, the probes of the first two may hang, long sleeps; a power supply and a client; 690,000 states | `NothingAfterFree`, `ListsGuarded`, `PowerAgrees`, `BroadcastTells`, `PollsGoOn`, `ShutdownEnds` |
| `service` | a daemon that may be there and one to launch, a tool, the starter, two intervals; 92,000 states | `ServerIsHolder`, `StopTakesEffect`, `IntervalTakesEffect`, `WaitsEnd` |
| `history` | days of three hours of two ticks, a clock that steps by a tick or by a day between polls and during one, one crash or failed write, noticed or not; 2.7 million states | `HourKept`, `InOrder`, `NothingMissed` |
| `frames` | contents of 2 and 8 bytes, blocks of 2 and 5, two frames a file, buffers of 1, 3 and 8, whole and torn files; 220,000 states | `RoomIsEnough`, `CopiesInside`, the refinement `ImplementsPipe`, `Finishes` |
| `blocks` | every input of 1, 7, 9 and 13 bytes over two values, without history, with some before the output or elsewhere; buffers of three sizes, with the fast loop and without; 4.9 million states | `RoundTrip`, `StaysInside` |
| `follow` | up to 3 frames a file, emptied twice; fairness | `NeverFails`, `InOrder`, `CatchesUp` |
| `differences` | widths of 2, 3, 4 and 6 bits, pages of 4 | `Exact`, `MemoryLags`, `ProcessRightToThePage` |
| `daemon_lock` | 2 processes and `enigmatic -s` | `SameFileKeepsOut`, `LockNotStuck`, `PidfileKept` |
| `two_daemons` | 3 processes | that `OneDaemon` is violated; see Findings |

Each property has a mutant: a definition marked "Deliberately wrong" that makes the
mistake the property is there for, and that TLC finds.  The type invariants are no
part of the runs: those of DeviceStream, DaemonLock and DaemonThreads are theorems, the
others say what the variables are.

**Bounds, and why they are enough.**

* *DeviceStream.*  Two kinds are the least in which an identifier can pass from one
  kind to another, and two names the least for a device that replaces another of its
  kind.  `MaxUnread` bounds how far a follower may fall behind *at the start of a
  poll*; a poll itself may add any number of records, and a rotation or a restart does
  not wait for it.  With 0 a poll finds a follower that has read everything, or a file that
  was emptied under it; what a follower that is further behind has not read is
  read in the same way, and the theorems hold for any bound.  The periods are scaled
  down (10 ticks a block, 9000 a broadcast in the code) keeping what matters: with 1 and 2
  every poll is a block and every second one a broadcast; with 2 and 3 a broadcast
  also falls between two blocks, which the code's numbers do not do but a rotation does.
* *ProcessStream, ProcessProbe.*  A process may run for one `Interval` or not at all between two
  polls, which gives it every pattern of busy and idle; three processes, two of them
  with one id, so that the id can pass on at any step of the reading, and a process
  stand behind it in the listing.  `MaxUnread` is 0, as above.
* *DaemonThreads, PowerStream.*  Two monitors whose probes may hang and one that naps in
  steps are the kinds of threads there are; that the order of the visits is not the
  order of the shutdown is what the waits can get wrong.  The safety properties are
  proved for any number.
* *Service.*  One look at the old daemon and one at the new one make every outcome
  of a look possible; more repeat it.  The tool sends one request of any kind, beside the
  PINGs of the starter, and may stand anywhere in its wait while one daemon ends and the next begins.  Polls between broadcasts are 4 and 2, so that a change of the interval can come
  with the count beyond the new period.
* *History.*  Two ticks let a poll begin in one hour and end in the next; three hours
  let a file have the name of the hour before, of the current one and of one to come, and a step
  of six ticks is a day.  One crash or failed write between any two writes is what `HourKept` needs.
  All three properties are proved for any hours, clock and number of mishaps.
* *FrameWriter, FrameReader.*  Contents of less than a block, and of several blocks with
  a short one at the end; block sizes further apart than the window, so that both
  branches of every comparison with it occur; buffers smaller than a block, larger than
  a small one, and larger than all.
* *Lz4Block.*  13 bytes hold two matches of `MINMATCH` 4, and literals and matches longer than
  their nibbles (3) and than a full byte of a length (3); at 1 byte the compressor looks for no
  match, 7 is the shortest input at which it does.  All pairs of starting points and candidate
  matches are tried.  A buffer that is 9 bytes larger than the input is one in which the fast loop (10
  bytes from the end) copies whole matches, one that is 3 larger is left by it half way, and in one
  without room to spare it seldom begins: every branch of `LiteralsTouch` and `MatchTouch` occurs.  Both properties
  are proved for any lengths and limits.
* *LogFollow.*  Emptying twice is what it takes to be emptied once before and once
  after the client looked; three frames of at most two units give a new file every
  length relative to the old one.
* *Differences.*  Each width has its largest and its most negative value among the
  differences, and each is crossed from both sides.
* *DaemonLock.*  Two processes are what one daemon after the other takes, and what
  `PidfileKept` holds for; three are what a lock on a nameless file takes
  (`two_daemons`).  The other two are proved for any number, and `PidfileKept`
  for any number of which no two run at once, which with two is always so.

**Fairness.**  `DeviceStream`: the logger thread runs on a timer, weak fairness on
`Poll` (rotations, crashes and shutdowns are not forced).  `ClientDispatch` is a
loop, weakly fair.  `ClientRead` is *strongly* fair: a rotation empties the file and
so disables it, again and again, but rotations are an hour apart and the file is written
many times a second, so a client that is woken does get to read.  `LogFollow`:
weak fairness on the end of a write that was begun and on the client's steps; its
liveness is about a file that rests (`<>[]`), and nothing obliges the daemon.
`DaemonThreads`: every thread and the main loop go on, but a probe that may hang is not
obliged to end, so that `PollsGoOn` says that the logger does not depend on it;
nobody obliges the user to stop the daemon.  `ShutdownEnds` excepts a main loop that
waits for the lock of a hung probe (`Shutdown` takes it without a time limit).
`Service`: daemons, timers and the starter go on; nobody is obliged to send, to
start, to crash or to hang.  `FrameReader`: one thread that runs through.  The other
specifications have safety properties only, and no fairness.

**Deadlock** is checked where the system runs on for ever (`stream`, `stream_ticks`,
`differences`), and switched off where a behaviour really stops: every process ends
(`DaemonLock`, `PowerStream`, `Service`), a file has been read or a block decoded
(`FrameReader`, `Lz4Block`), or the bounds on time and frames stop it (`LogFollow`, `History`).

## Findings

`two_daemons` is a run that expects a violation, with the line of the code it disagrees
with in `PROJECT.json`: `enigmatic_log_unlock` gives the lock back before it removes
the name.  A daemon that locks the file in between keeps a lock on a file without a
name; the next one makes a new file, locks that and runs beside it.

The other disagreements are known from the models.  Each is a hypothesis or an exception of a
property, without which TLC finds the behaviour described.

* *A lost refresh* (`monitor/sensors.c:130`, `batteries.c:117`).  A visit given up at the
  broadcast after a rotation leaves the new file without that list, and the visits
  after it see no difference to log.  Hence the `Skippable` of `Complete`, `RecordsFit` and
  `Converges`, and the `told` of `PowerAgrees`.
* *A frozen reading* (`client/enigmatic_client.c:738`).  A reading that was once below
  zero is shown wrongly from then on: the client clamps the sum, the daemon's
  differences go on from the negative value.  Hence the hypothesis of the theorems about followers.
* *A torn frame* (`client/enigmatic_client.c:1506`).  A client that asks for the size
  during a write ends with "truncated frame" (`Torn = TRUE`).
* *A regrown log* (`client/enigmatic_client.c:1582`).  A new file that has become as long
  as what the client measured of the old one is taken for its continuation (`Prompt = FALSE`).
* *A starter that is easily content* (`enigmatic_start.c:62`).  The status of the PING
  it sends is that of a child whose SIGCHLD the program ignores, so that it counts
  as answered whatever came of it: the wait for an old instance that shuts down, which the
  comment at line 129 is about, ends before it begins.  `WaitsEnd` says that the starter ends, and no property that it
  is right.
* *A slow poll* (`enigmatic_main.c:34`).  A poll that lasts longer than half a second at
  the end of the daemon writes to the closed log (`SlowPolls = TRUE` breaks
  `NothingAfterFree`).
* *An hour that is lost* (`enigmatic_log.c:342`, `346`, `355`, `509`).  README.md:24 has "creating
  a history that can be played back for analysis".  The results of writing the sizes, of closing both files and of
  copying the log are not looked at.  On a full disk the compression returns 1 all the same, line 465
  removes the only whole copy of the hour, and the log was emptied long before: nothing of the hour can be played back.  Hence the
  `unnoticed` of `HourKept`.
* *Holes in a replay* (`client/enigmatic_client.c:1770`).  The hours of a range are named by the
  hour of the day.  The last hour is missed when the range ends earlier in its hour than it
  begins; a range that begins in the current hour asks for the compressed file of that name, not
  for the log; whether the last hour is the current one is decided by the hour of the day
  alone.  A range of more than a day, or that ends before it begins, names hours of another
  day.  `Askable` excludes these, and `InOrder` ranges that come back to the hour they
  began in.  A poll that the computer sleeps through for most of a day puts blocks of one
  hour into the log of another, and a replay of the two goes back: `ShortPolls`
  excludes it.  A daemon that ends while an hour is compressed leaves it uncompressed for good, and a
  replay skips it.  A new sizes file beside the compressed file of the day before, which a
  crash leaves behind, ends the program that replays the hour.  The hour that is repeated when
  clocks go back is not rotated, as nothing but the hour is compared.
* *The pages of memory* (`monitor/memory.c:42`).  `MemoryLags` is as strong as it can be:
  the remainder of each division by the page size is lost and adds up until the next
  broadcast, for readings that are not whole pages (ZFS's ARC, video memory; Linux
  reports kilobytes in page multiples).
* *The pid file* (`enigmatic_util.c:225`).  `PidfileKept` has an exception: `enigmatic -s`,
  when its STOP request fails and it falls back on the pid file, may remove that of a
  daemon that started while it waited for the one before.  That daemon answers, and no tool
  or starter finds it by its pid file: `ServerIsHolder` has the same exception (`Unnamed`), and says that
  this is the only way, and that the file is then missing and never another's.
* *The broadcast search* (`client/enigmatic_client.c:72`).  In a large file the search for the last broadcast
  looks for the bytes of a header in compressed data.  It finds none, unless a block was stored as
  it is, so clients begin at the start of the log, which is how all models have them.
* *The room of an hour* (`enigmatic_log.c:325`).  It is the bound for the hour as a whole, and is
  filled with frames of 16 KB, each with a bound of its own.  Only data that does
  not compress could reach it.
* *The room of a replayed hour* (`enigmatic_log.c:449`).  Each block of the hour is decompressed behind the ones
  before it, and the decoder is told the size of all blocks so far, not of what is left
  behind the place it writes to.  `StaysInside` takes the size the decoder is told.  What comes out of a
  block the daemon wrote fits all the same, but the distances the decoder keeps are then those of a
  place further on, and the bytes that a copy in steps writes too much may lie behind the memory.

## What is proved

TLAPS checks these for every value of the constants that satisfies the assumptions of
the module: any kinds, devices, samples, periods, number of processes and monitors,
widths, hours and days, contents, blocks and buffers.

* `DeviceStream_proofs`.
  - What handing out and giving back do to the list of identifiers (`FindListed`,
    `ReleaseListed`; `LeastExists`, that there is a smallest free one, is by the library's
    well-founded order of the naturals), and what each kind of record does to a snapshot.
  - `TypeCorrect`, `UidsDistinct`, `ReleasesKnown`, from the invariant `Typed`:
    the types, and `IdsFit`, that the taken entries of the list and the devices of
    the caches correspond one to one across all kinds.  `DistinctUids` alone is not
    inductive: the next identifier is only new if every device's entry is marked.
  - `FollowerShowsNoGhosts` (`NoGhosts`), `FollowerShowsAll` (`Complete`),
    `RecordsAlwaysFit` (`RecordsFit`) and `FollowerShowsEachOnce` (`OneDevicePerUid`), from
    `Streamed == Typed /\ ReportsNonNegative /\ Visits /\ StreamInv`.
    `Replays(S, s, U)` says that the records of s, each fitting what it meets, make the
    lists U of the lists S.  `StreamInv`: the records the client has not dispatched, those
    in the file and those in the daemon's buffer are a replay from the snapshot to
    lists that `Tells` compares with the cache: nothing more than it, and all of it for
    a kind that has no try lock and whose list is not `Due`, that is, not still to be
    written into the new file.  A file that was emptied begins its replay with nothing,
    and a rotation, crash or restart cuts it where the rest is still one.  `Visits`
    says which kinds have a list when a broadcast comes by.  The hypothesis is that clamped kinds report no
    negative readings; see the frozen reading above.
* `ProcessProbe_proofs`.
  - `FollowerShowsProcesses` (`SameProcesses`), `NoneBecomesAnother`
    (`NeverBecomesAnother`) and `StreamTyped`, from `StreamInv`: the records the client has
    not handled and those in the file lead, each by a step `Does` of adding, changing
    or removing one process or of a full list that meets nothing or itself, from the
    processes shown to those tracked, or to nothing when the next poll is to write
    the list of an empty file (`Waiting`).  The core is `ModifiedToCached`: the differences bring
    what the client has to what the monitor has, because a usage that is not sent
    is zero on both sides.
  - `MixedOnesHaveEnded` (`MixedHasEnded`), `ReadingIsOneStep` (`ImplementsStream`) and `NoLivingOneMissed`
    (`NoneMissed`), from `ProbeInv`: as long as the process that answered for the first file
    lives it has answered for the others (`PartInv`), and one that has lived since the names
    were listed is still to be read, being read, or read (`LastingInv`).
  - `FollowerOfProbesShowsAll`, `ProbesKeepThemApart`: by the refinement, the first two of the
    program that reads `/proc` file by file.
* `Daemon_proofs`, of DaemonLock.  `LockTyped`, `NeverStuck` (`LockNotStuck`) and `OneInsidePerFile`
  (`SameFileKeepsOut`), from `LockInv`: a lock that is held is held by a process inside that has
  that file open, and a process inside holds the lock of its file.  `TwoKeepOut` (`OneDaemon`, for at
  most two processes): the file under the name is the one the other has open (`OneFile`), as it takes
  a third to make a new one.  `PidfileStays` (`PidfileKept`, where `OneDaemon` holds) and
  `PidfileStaysOfTwo`.
  Of Service.  `WhoAnswersHolds` (`ServerIsHolder`), from `HolderInv`: a daemon on its way has
  what it took, and between the lock and its end the lock is why nobody else took it; a name
  that is gone was removed by a tool, and stays gone until a daemon writes the next one (`NameKept`).
* `PowerStream_proofs`.
  - `ThreadsTyped`, `NothingUsedAfterFree` (`NothingAfterFree`) and
    `ListsAreGuarded` (`ListsGuarded`) of DaemonThreads, under `~SlowPolls`, from `IInv`: a thread in its probe
    has its lock and so has a logger inside a list; the monitors are cancelled only once the
    logger sleeps or has ended, after which it does not poll; a monitor that was waited for
    never comes to take its lock again, unless its probe hangs with it, and then it is not freed.
  - `PowerKeepsThreads`: every behaviour of the composition is
    one of DaemonThreads, whose theorems so hold of it.  `ClientAgreesAboutPower`
    (`PowerAgrees`) and `BroadcastsTellOfPower` (`BroadcastTells`), from `PowerInv`: a record
    under way is of what the logger saw last, and a broadcast that is past the power supply has one
    unless its visit was given up.
* `LogFollow_proofs`.  `ReadsWholeFrames` (`NeverFails`) and `SnapshotInOrder` (`InOrder`), for
  `Torn = FALSE` and `Prompt = TRUE`, from `FollowInv`: the file is a chain of whole frames; an
  offset into the file a client began is the end of one, and what it has measured or read is a piece
  between two such ends; an offset into a file that is no more is never taken for one into the new, because
  the client looks before the new one is as long.
* `Coding_proofs`, of Differences.  `ReadingsExact` (`Exact`): writing in the narrowest
  width and reading with its sign is the identity, and the modular sums meet.
  `MemoryLagsByPages` (`MemoryLags`) and `ProcessRight` (`ProcessRightToThePage`): a difference that does not fit
  its width comes back a whole turn of the 64 bits away (`WrappedReadBack`), which a whole number of
  pages absorbs.
* `History_proofs`.
  - `SavedHoursKept` (`HourKept`), for the hours whose failures were all noticed, from `KeepInv`: the logger waits for the thread before it leaves
    another hour, so the copy the thread works on stays what was saved until the thread removes it, with both of its own
    files behind it.
  - `RangesComplete` (`NothingMissed`), from `HeldInv`: every block on the disk is of the past, every block
    of an hour in its own copy is of an hour that is over, and no time stamp is older than a block of its file.
  - `ReplayInOrder` (`InOrder`), under `ShortPolls`, from `OrderInv`: every file is of one run of
    an hour, with blocks of the next one at its end at most, and those of two places of a
    replay are in the order of their places.

* `FrameReader_proofs`.
  - `RoomEnough` (`RoomIsEnough`), from `RoomInv`: while a frame is made, the room that is left is that
    of the blocks its content still fills, by the whole blocks and the rest of a division
    (`BlocksOf`), and of the end mark.
  - `AlwaysInside` (`CopiesInside`), from `Inv`, that some layout of the file is `Known`.
    `Layout`: a map of the places where a frame or a block begins, with the bytes that
    precede each and the header that rules it, fits the units of the file; the writer
    only adds places (`WrittenKept`).  `PosInv`: where the decoder stands between two of
    them, with the units it holds.  `MemInv`: what is in the buffers.  A linked block may refer to
    a window of what was put out before it, and the decoder keeps that in the buffer of the
    caller, in `tmpOutBuffer`, or nowhere yet if nothing was put out (`Has`); while a block is
    handed out piece by piece it lies in two parts, of which enough must be kept to join
    them when the next call brings another buffer (`HasFlushed`, `ToFlush`).
    `CopiesInside` alone says nothing of sizes: that a copy ends inside follows only from how long the
    history is and from the two windows of slack in the buffer.
  - `AlwaysKnown`, the invariant itself, says more than the copies: the last bytes of the dictionary are those
    the next block refers to (`Recent`), without which content would come out wrong.
  - `FramesPipe` (`ImplementsPipe`): a step of the writer is a write to the pipe, `BeginReading`
    the look at it, a step of the decoder a read or none, and a return of success that of a
    whole file.  The step needs the invariant before it and `OutWithin` after it, that
    no more is out than was sent.
* `Coding_proofs`, of Lz4Block.  `LimitsAssumption` has what the proofs take of the format's constants;
  the code's values satisfy every part of it, and 2 + 1 + 5 >= 8 exactly.
  - `ComesOut` (`RoundTrip`), from `RoundTripInv`.  `EncodeInv`: up to a boundary the output is
    laid out in whole sequences, a map from the place of each token to the place of the input where its
    literals begin (`LaidOut`), each of which `Leads` to the next by bytes that tell its literals and a match
    that holds in the input; behind the boundary there is at most a run of
    literals that waits for its match.  `DecodeInv`: the decoder stands at one of those places or
    behind its literals, and what came out is as much of the input as the map says.  Two lemmas carry it: a length
    told in full bytes and a rest is read back as it was (`LengthBytesAre`), and a match that overlaps
    itself repeats what the input repeats (`Repeats`, by the least place at which it would not).  That a
    reader stops before the end of the input and still tells the last sequence from the others is
    the rule that a match ends `LASTLITERALS` before the end.
  - `WritesInside` (`StaysInside`), from `BlockInv`, which adds two parts to it.  `SpaceInv`: with a limit, the bytes
    that `LiteralsFit` reserved are free until the next check; without, a sequence takes no more
    bytes than it says, but for one in `BYTE_MAX`, which is what `LZ4_compressBound` adds.  `LoopInv`: at a
    token the fast loop has `FASTLOOP_SAFE_DISTANCE` bytes to the end of the buffer, and behind the literals of the shortcut
    there is room for the longest match it copies.  `LiteralsTouchInside` and `MatchTouchInside` go through the
    branches; `StepsEnd` is how far a copy in steps of any width goes.

**Model-checked only:** liveness (`Converges`, `CatchesUp`, `PollsGoOn`,
`ShutdownEnds`, `StopTakesEffect`, `IntervalTakesEffect`, `WaitsEnd`, `Finishes`), which is out of the
prover's reach, as are ENABLED, what a recursive definition computes for all inputs (the library's
induction theorems take an operator as a parameter, which the provers cannot
instantiate) and modules with RECURSIVE operators (there are none here; closed forms, folds and
recursive functions take their place).

## Not modelled

* *Callbacks of client programs*, and with them the report of the power supply that
  arrives through the callback for its removal when no other was set
  (`client/enigmatic_client.c:640`): the models have the snapshot, not who is told.
* *The order of bytes in a record, text fields, floating point.*  Readings are
  integers; a command line is part of a process.
* *Probes of other systems than Linux* (most of `system/process.c`), `machine.c` and
  `file_systems.c`: one reading after another with no state; the models choose what they say.
* *The rest of LZ4*: `lz4hc.c` and `xxhash.c`, dictionaries, checksums and skippable frames, which
  the daemon's preferences do not ask for; the hash table of the compressor, of which `Lz4Block` takes
  any answer, and what the decoder's copies read beyond their source.
* *Failing allocations, command lines, the fields of the configuration* but for the interval,
  and the `tests/` and `examples/`, which are users of the library.

## What could come next

A block as what FrameReader takes for one unit, so that the two theorems about bytes become
one; an abstract replicated table that DeviceStream and ProcessStream both implement; a sensor
with two readings under one name (`monitor/sensors.c:189`).
