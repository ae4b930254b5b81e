---------------------------- MODULE History_proofs ----------------------------
(***************************************************************************)
(* No saved hour is lost but by a failed write that the code does not look *)
(* at, for hours and days of any length, a clock that moves by any steps,  *)
(* and any number of crashes and of failures that are noticed.             *)
(*                                                                         *)
(* The argument: the thread works on an hour the logger has left, because  *)
(* the logger waits for it before it leaves another one; so the copy stays *)
(* what was saved until the thread removes it, and it only does that with  *)
(* both of its own files behind it, as far as it has looked.               *)
(***************************************************************************)
EXTENDS History, TLAPS

(* The variables the hours depend on have their types. *)
HoursTyped ==
  /\ now \in Times /\ log \in Content /\ log_hour \in Hours /\ comp_hour \in Hours
  /\ plain \in [Hours -> File] /\ saved \in [Hours -> File]
  /\ sizes \in [Hours -> File] /\ lz4 \in [Hours -> File]

(* A rotation goes from one hour to another, with history on. *)
CopyInv ==
  /\ pc \in {"copying", "open"} => log_hour # HourOf(now)
  /\ pc = "copying" => saved[log_hour] = Absent
  /\ pc = "open" /\ log_hour \notin unnoticed => plain[log_hour] = saved[log_hour]
  /\ pc \in {"copying", "open"} \/ comp # "idle" => save_history

(* The thread works on an hour of the past, in its order, and ends with    *)
(* the daemon.                                                             *)
CompInv ==
  comp # "idle" =>
    /\ pc # "down"
    /\ comp_hour # log_hour
    /\ comp_hour \notin unnoticed =>
         /\ plain[comp_hour] = saved[comp_hour]
         /\ comp \in {"sized", "packing", "packed"} => sizes[comp_hour] = saved[comp_hour]
         /\ comp = "packed" => lz4[comp_hour] = saved[comp_hour]

KeepInv == HoursTyped /\ CopyInv /\ CompInv /\ HourKept

(* The name of an hour is one of the day's. *)
LEMMA HourOfTyped == ASSUME NEW t \in Times PROVE HourOf(t) \in Hours
<1>1. t \in Nat
  BY BoundsAssumption DEF Times
<1>2. HourIndex(t) \in Int
  BY <1>1, ClockAssumption DEF HourIndex
<1> QED BY <1>2, ClockAssumption DEF HourOf, Hours

LEMMA KeepInit == Init => KeepInv
<1> SUFFICES ASSUME Init PROVE KeepInv OBVIOUS
<1>1. StartTime \in Times /\ HourOf(StartTime) \in Hours /\ 0 \in Hours
  BY HourOfTyped, BoundsAssumption, ClockAssumption DEF Times, Hours
<1>2. Absent \in File /\ Absent.state # "whole"
  BY DEF Absent, File, Content
<1> QED BY <1>1, <1>2 DEF Init, KeepInv, HoursTyped, CopyInv, CompInv, HourKept, Content

(* The steps of the logger. *)
LEMMA LoggerKeeps ==
  ASSUME KeepInv,
         Tick \/ SameHour \/ WriteBlock \/ Rotate \/ Stop \/ Restart
  PROVE  KeepInv'
<1> USE DEF KeepInv, CopyInv, CompInv, HourKept
<1>t. HoursTyped OBVIOUS
<1>h. HourOf(now) \in Hours BY HourOfTyped DEF HoursTyped
<1>1. CASE Tick
  <2>1. now' \in Times
    BY <1>1, <1>t, BoundsAssumption DEF Tick, HoursTyped, Times
  <2>2. UNCHANGED <<pc, save_history, log, log_hour, hours>>
        /\ pc \notin {"copying", "open"}
    BY <1>1 DEF Tick, logger
  <2> QED BY <2>1, <2>2 DEF hours, disk, HoursTyped
<1>2. CASE SameHour \/ WriteBlock \/ Stop
  <2>1. /\ UNCHANGED <<now, save_history, log_hour, plain, sizes, lz4, saved, unnoticed>>
        /\ comp_hour' = comp_hour
        /\ pc' \notin {"copying", "open"}
        /\ comp' = "idle" \/ (comp' = comp /\ pc' # "down")
    BY <1>2 DEF SameHour, WriteBlock, Stop, clock, hours, disk
  <2>2. log' \in Content
    BY <1>2, <1>t DEF SameHour, WriteBlock, Stop, HoursTyped, Content
  <2> QED BY <2>1, <2>2 DEF HoursTyped
<1>3. CASE StartOver \/ Restart
  BY <1>3, <1>h DEF StartOver, Restart, EmptyLog, clock, disk, HoursTyped, Content
<1>4. CASE BeginCopy
  <2>1. Absent \in File /\ Torn \in File /\ Absent.state # "whole"
    BY DEF Absent, Torn, File, Content
  <2>2. /\ plain' \in [Hours -> File] /\ saved' \in [Hours -> File]
        /\ saved'[log_hour] = Absent /\ unnoticed' = unnoticed \ {log_hour}
        /\ \A h \in Hours \ {log_hour} :
             plain'[h] = plain[h] /\ saved'[h] = saved[h]
    BY <1>4, <2>1, <1>t DEF BeginCopy, HoursTyped
  <2> QED BY <1>4, <2>1, <2>2, <1>t DEF BeginCopy, HourOver, HoursTyped, clock
<1>5. CASE EndCopy
  <2>1. Whole(log) \in File
    BY <1>t DEF Whole, File, HoursTyped
  <2>2. /\ plain' \in [Hours -> File] /\ saved' \in [Hours -> File]
        /\ plain'[log_hour] = saved'[log_hour]
        /\ \A h \in Hours \ {log_hour} :
             plain'[h] = plain[h] /\ saved'[h] = saved[h]
    BY <1>5, <2>1, <1>t DEF EndCopy, Saved, HoursTyped
  <2> QED BY <1>5, <2>2, <1>t DEF EndCopy, HoursTyped, clock
<1>7. CASE CopyNotMade \/ CopyCut
  <2>1. Torn \in File /\ \A bs \in SUBSET log : Whole(bs) \in File
    BY <1>t DEF Whole, Torn, File, Content, HoursTyped
  <2>2. /\ saved' = [saved EXCEPT ![log_hour] = Whole(log)]
        /\ unnoticed' = unnoticed \cup {log_hour} /\ pc' = "open"
        /\ UNCHANGED <<now, save_history, log, log_hour, sizes, lz4, comp, comp_hour>>
        /\ save_history /\ log_hour # HourOf(now)
    BY <1>7 DEF CopyNotMade, CopyCut, Saved, HourOver
  <2>3. plain' = plain
        \/ \E cut \in {Torn} \cup {Whole(bs) : bs \in Parts(log)} :
             plain' = [plain EXCEPT ![log_hour] = cut]
    BY <1>7 DEF CopyNotMade, CopyCut
  <2>4. \A cut \in {Torn} \cup {Whole(bs) : bs \in Parts(log)} : cut \in File
    BY <2>1 DEF Parts
  <2>5. /\ plain' \in [Hours -> File] /\ saved' \in [Hours -> File]
        /\ \A h \in Hours \ {log_hour} :
             plain'[h] = plain[h] /\ saved'[h] = saved[h]
    BY <2>1, <2>2, <2>3, <2>4, <1>t DEF HoursTyped
  <2>6. HoursTyped'
    BY <2>2, <2>5, <1>t DEF HoursTyped
  <2>7. comp # "idle" => pc # "down" /\ comp_hour # log_hour /\ comp_hour \in Hours
    BY <1>t DEF HoursTyped
  <2> QED BY <2>2, <2>5, <2>6, <2>7
<1>6. CASE OpenLog
  BY <1>6, <1>h DEF OpenLog, EmptyLog, HoursTyped, clock, Content
<1> QED BY <1>1, <1>2, <1>3, <1>4, <1>5, <1>6, <1>7 DEF Rotate

(* The steps of the compressing thread. *)
LEMMA CompressKeeps ==
  ASSUME KeepInv, Compress PROVE KeepInv'
<1> USE DEF KeepInv, CopyInv, CompInv, HourKept
<1>t. HoursTyped OBVIOUS
<1>a. Absent \in File /\ Torn \in File
  BY DEF Absent, Torn, File, Content
<1>1. CASE WriteSizes
  <2>1. \/ /\ sizes' = [sizes EXCEPT ![comp_hour] = plain[comp_hour]]
           /\ unnoticed' = unnoticed
        \/ /\ sizes' = [sizes EXCEPT ![comp_hour] = Torn]
           /\ unnoticed' = unnoticed \cup {comp_hour}
    BY <1>1 DEF WriteSizes, Unnoticed
  <2>2. /\ sizes' \in [Hours -> File]
        /\ comp_hour \notin unnoticed' => sizes'[comp_hour] = plain[comp_hour]
        /\ \A h \in Hours \ {comp_hour} : sizes'[h] = sizes[h]
    BY <2>1, <1>t, <1>a DEF HoursTyped
  <2>3. unnoticed \subseteq unnoticed'
    BY <2>1
  <2> QED BY <1>1, <2>2, <2>3, <1>t DEF WriteSizes, CompGoTo, HoursTyped, logger
<1>2. CASE BeginLz4 \/ EndLz4
  <2>1. /\ unnoticed \subseteq unnoticed'
        /\ \/ lz4' = [lz4 EXCEPT ![comp_hour] = Torn] /\ BeginLz4
           \/ lz4' = [lz4 EXCEPT ![comp_hour] = plain[comp_hour]] /\ EndLz4
           \/ lz4' = lz4 /\ comp_hour \in unnoticed' /\ EndLz4
    BY <1>2 DEF BeginLz4, EndLz4, Unnoticed
  <2>2. /\ lz4' \in [Hours -> File]
        /\ EndLz4 /\ comp_hour \notin unnoticed' => lz4'[comp_hour] = plain[comp_hour]
        /\ \A h \in Hours \ {comp_hour} : lz4'[h] = lz4[h]
    BY <2>1, <1>t, <1>a DEF HoursTyped, BeginLz4, EndLz4, CompGoTo
  <2> QED BY <1>2, <2>1, <2>2, <1>t
      DEF BeginLz4, EndLz4, CompGoTo, HoursTyped, clock, logger
<1>3. CASE CompressFails \/ MapFails
  BY <1>3 DEF CompressFails, MapFails, CompGoTo, HoursTyped, logger, disk, clock
<1>4. CASE UnlinkPlain
  <2>1. /\ plain' \in [Hours -> File]
        /\ \A h \in Hours \ {comp_hour} : plain'[h] = plain[h]
    BY <1>4, <1>t, <1>a DEF UnlinkPlain, HoursTyped
  <2> QED BY <1>4, <2>1, <1>t
      DEF UnlinkPlain, CompGoTo, HoursTyped, clock, logger
<1> QED BY <1>1, <1>2, <1>3, <1>4 DEF Compress

(* Every step keeps the invariant; a replay only reads. *)
LEMMA KeepNext ==
  ASSUME KeepInv, [Next]_vars PROVE KeepInv'
<1>1. CASE Tick \/ SameHour \/ WriteBlock \/ Rotate \/ Stop \/ Restart
  BY <1>1, LoggerKeeps
<1>2. CASE Compress
  BY <1>2, CompressKeeps
<1>3. CASE Replay \/ UNCHANGED vars
  <2>1. UNCHANGED <<clock, logger, hours>>
    BY <1>3 DEF Replay, BeginReplay, ReplayFile, EndReplay, vars
  <2> QED BY <2>1 DEF clock, logger, hours, disk, KeepInv, HoursTyped, CopyInv, CompInv,
          HourKept
<1> QED BY <1>1, <1>2, <1>3 DEF Next

(* An hour that was saved stays on the disk until the next hour of its     *)
(* name: as a copy, or compressed with the sizes that go with it, wherever *)
(* the daemon dies and whatever it finds that it cannot write; only a      *)
(* failure of the copy, of the sizes or of the close of the compressed     *)
(* file, which it does not look for, can take it.                          *)
THEOREM SavedHoursKept == Spec => []HourKept
<1>1. KeepInv => HourKept BY DEF KeepInv
<1>2. Init => KeepInv BY KeepInit
<1>3. KeepInv /\ [Next]_vars => KeepInv' BY KeepNext
<1> QED BY <1>1, <1>2, <1>3, PTL DEF Spec

-----------------------------------------------------------------------------
(* Division, and the remainders of two numbers that differ by a multiple.  *)
LEMMA DivMod ==
  ASSUME NEW a \in Int, NEW n \in Nat \ {0}
  PROVE  a = n * (a \div n) + (a % n) /\ a \div n \in Int /\ a % n \in 0 .. n - 1
  OBVIOUS

LEMMA DivModIs ==
  ASSUME NEW n \in Nat \ {0}, NEW q \in Int, NEW r \in 0 .. n - 1
  PROVE  (n * q + r) % n = r /\ (n * q + r) \div n = q
  OBVIOUS

LEMMA DivMonotone ==
  ASSUME NEW a \in Int, NEW b \in Int, NEW n \in Nat \ {0}, a <= b
  PROVE  a \div n <= b \div n
<1> DEFINE p == a \div n  r == a % n  q == b \div n  s == b % n
<1>1. a = n * p + r /\ p \in Int /\ r \in 0 .. n - 1
  BY DivMod
<1>2. b = n * q + s /\ q \in Int /\ s \in 0 .. n - 1
  BY DivMod
<1> HIDE DEF p, q, r, s
<1>3. ~(p >= q + 1)
  <2> SUFFICES ASSUME p >= q + 1 PROVE FALSE
    OBVIOUS
  <2>1. n * p >= n * (q + 1)
    BY <1>1, <1>2
  <2>2. n * (q + 1) = n * q + n
    BY <1>2
  <2> QED BY <1>1, <1>2, <2>1, <2>2
<1>4. p <= q
  BY <1>1, <1>2, <1>3
<1> QED BY <1>4 DEF p, q

LEMMA DivShift ==
  ASSUME NEW n \in Nat \ {0}, NEW a \in Int, NEW q \in Int
  PROVE  (a + n * q) \div n = a \div n + q /\ (a + n * q) % n = a % n
<1> DEFINE d == a \div n
           r == a % n
<1>1. a = n * d + r /\ d \in Int /\ r \in 0 .. n - 1
  BY DivMod
<1> HIDE DEF d, r
<1>2. a + n * q = n * (d + q) + r
  BY <1>1
<1>3. (n * (d + q) + r) % n = r /\ (n * (d + q) + r) \div n = d + q
  BY <1>1, DivModIs
<1> QED BY <1>2, <1>3 DEF r, d

(* Numbers of one remainder that are less than n apart are equal.          *)
LEMMA SameRemainder ==
  ASSUME NEW n \in Nat \ {0}, NEW a \in Int, NEW b \in Int,
         a % n = b % n, a - b < n, b - a < n
  PROVE  a = b
<1> DEFINE p == a \div n  r == a % n  q == b \div n  s == b % n
<1>1. a = n * p + r /\ p \in Int /\ r \in 0 .. n - 1
  BY DivMod
<1>2. b = n * q + s /\ q \in Int /\ s \in 0 .. n - 1
  BY DivMod
<1>3. r = s
  OBVIOUS
<1> HIDE DEF p, q, r, s
<1>4. n * (p - q) < n /\ n * (q - p) < n
  <2>1. n * (p - q) = a - b /\ n * (q - p) = b - a
    BY <1>1, <1>2, <1>3
  <2> QED BY <2>1
<1>5. p - q < 1 /\ q - p < 1
  BY <1>1, <1>2, <1>4
<1>6. p = q
  BY <1>1, <1>2, <1>5
<1> QED BY <1>1, <1>2, <1>3, <1>6

(* The remainder of the number that follows.                               *)
LEMMA NextRemainder ==
  ASSUME NEW n \in Nat \ {0}, NEW a \in Int
  PROVE  ((a % n) + 1) % n = (a + 1) % n
<1> DEFINE d == a \div n
           r == a % n
<1>1. a = n * d + r /\ d \in Int /\ r \in 0 .. n - 1
  BY DivMod
<1> HIDE DEF d, r
<1>2. a + 1 = (r + 1) + n * d /\ r + 1 \in Int
  BY <1>1
<1>3. ((r + 1) + n * d) % n = (r + 1) % n
  BY <1>1, <1>2, DivShift
<1> QED BY <1>2, <1>3 DEF r

(* The index of an hour, and the day, of a time.                           *)
LEMMA Indexed ==
  ASSUME NEW t \in Int
  PROVE  /\ HourIndex(t) \in Int /\ HourOf(t) \in Hours /\ DayOf(t) \in Int
         /\ HourIndex(t) = HoursPerDay * DayOf(t) + HourOf(t)
         /\ HourOf(t) = HourIndex(t) % HoursPerDay
         /\ DayOf(t) = HourIndex(t) \div HoursPerDay
<1>1. HourIndex(t) \in Int
  BY DivMod, ClockAssumption DEF HourIndex
<1>2. /\ HourIndex(t) = HoursPerDay * DayOf(t) + HourOf(t)
      /\ DayOf(t) \in Int /\ HourOf(t) \in 0 .. HoursPerDay - 1
  BY <1>1, DivMod, ClockAssumption DEF DayOf, HourOf
<1> QED BY <1>1, <1>2 DEF HourOf, DayOf, Hours

LEMMA Monotone ==
  ASSUME NEW t \in Int, NEW u \in Int, t <= u
  PROVE  HourIndex(t) <= HourIndex(u) /\ DayOf(t) <= DayOf(u)
<1>1. HourIndex(t) \in Int /\ HourIndex(u) \in Int
  BY Indexed
<1>2. HourIndex(t) <= HourIndex(u)
  BY DivMonotone, ClockAssumption DEF HourIndex
<1>3. HourIndex(t) \div HoursPerDay <= HourIndex(u) \div HoursPerDay
  BY <1>1, <1>2, DivMonotone, ClockAssumption
<1> QED BY <1>2, <1>3 DEF DayOf

(* An hour later. *)
LEMMA HoursLater ==
  ASSUME NEW t \in Int, NEW i \in Int
  PROVE  /\ t + i * TicksPerHour \in Int
         /\ HourIndex(t + i * TicksPerHour) = HourIndex(t) + i
         /\ HourOf(t + i * TicksPerHour) = (HourIndex(t) + i) % HoursPerDay
<1>1. t + i * TicksPerHour = t + TicksPerHour * i
  BY ClockAssumption
<1>2. HourIndex(t + TicksPerHour * i) = HourIndex(t) + i
  BY DivShift, ClockAssumption DEF HourIndex
<1>3. t + TicksPerHour * i \in Int
  BY ClockAssumption
<1> QED BY <1>1, <1>2, <1>3 DEF HourOf

-----------------------------------------------------------------------------
(* The blocks there are in files named after an hour, its log included.    *)
Held(g) == plain[g].blocks \cup lz4[g].blocks
             \cup (IF g = log_hour THEN log ELSE {})

(* Blocks are of the past. *)
Past == \A g \in Hours : \A t \in Held(g) : t <= now

(* The hour a copy, or a compressed hour, is named after is over.          *)
Over ==
  \A g \in Hours :
    /\ g # log_hour =>
         \A t \in plain[g].blocks : HourOf(t) = g => HourIndex(t) < HourIndex(now)
    /\ \A t \in lz4[g].blocks : HourOf(t) = g => HourIndex(t) < HourIndex(now)

(* A file that is not there holds nothing. *)
NoneAbsent ==
  \A g \in Hours :
    /\ plain[g].state = "absent" => plain[g].blocks = {}
    /\ lz4[g].state = "absent" => lz4[g].blocks = {}

(* A file is as recent as its blocks. *)
Dated ==
  /\ day \in [Files -> Int] /\ \A f \in Files : day[f] <= DayOf(now)
  /\ \A t \in log : DayOf(t) <= day[LOG]
  /\ \A g \in Hours : \A t \in lz4[g].blocks : DayOf(t) <= day[g]

HeldInv == KeepInv /\ Past /\ Over /\ NoneAbsent /\ Dated

(* What a step may do to the files: the log grows by the present moment or *)
(* is begun again; a copy is of the log or a part of it, and a compressed  *)
(* hour of a copy that is not the log's.                                   *)
Moves ==
  /\ now <= now' /\ (log # log' => now' = now) /\ (log_hour # log_hour' => now' = now)
  /\ \/ log' \in {log, {}}
     \/ /\ log' = log \cup {now} /\ pc = "poll" /\ day'[LOG] = DayOf(now)
        /\ log_hour' = log_hour
  /\ log_hour' = log_hour \/ (log_hour' = HourOf(now) /\ log' = {})
  /\ day' \in [Files -> Int] /\ \A f \in Files : day'[f] \in {day[f], DayOf(now)}
  /\ \A g \in Hours :
       \/ plain'[g] \in {plain[g], Torn, Absent}
       \/ /\ g = log_hour /\ log_hour' = log_hour
          /\ \E bs \in SUBSET log : plain'[g] = Whole(bs)
  /\ \A g \in Hours :
       \/ lz4'[g] \in {lz4[g], Torn}
       \/ g # log_hour /\ lz4'[g] = plain[g] /\ day'[g] = DayOf(now)

LEMMA NowTyped == KeepInv => now \in Int /\ DayOf(now) \in Int
<1> SUFFICES ASSUME KeepInv PROVE now \in Int /\ DayOf(now) \in Int
  OBVIOUS
<1>1. now \in Int
  BY BoundsAssumption DEF KeepInv, HoursTyped, Times
<1> QED BY <1>1, Indexed

LEMMA LogIsAFile == LOG \in Files /\ LOG \notin Hours /\ Hours \subseteq Files
  BY ClockAssumption DEF LOG, Files, Hours

LEMMA StepMoves ==
  ASSUME HeldInv, Next \/ UNCHANGED vars
  PROVE  Moves
<1> USE DEF HeldInv, Dated
<1>n. now \in Int /\ DayOf(now) \in Int
  BY NowTyped
<1>d. /\ LogWritten => /\ day' \in [Files -> Int] /\ day'[LOG] = DayOf(now)
                       /\ \A f \in Files : day'[f] \in {day[f], DayOf(now)}
  BY <1>n, LogIsAFile DEF LogWritten
<1>t. HoursTyped
  BY DEF KeepInv
<1>1. CASE Tick
  <2>1. UNCHANGED <<logger, hours>> /\ now <= now'
    BY <1>1, <1>n, BoundsAssumption DEF Tick
  <2> QED BY <2>1 DEF Moves, logger, hours, disk
<1>2. CASE SameHour \/ Stop \/ CompressFails \/ MapFails \/ Replay \/ UNCHANGED vars
  <2>1. UNCHANGED <<now, log, log_hour, plain, lz4, day>>
    BY <1>2 DEF SameHour, Stop, CompressFails, MapFails, Replay, BeginReplay,
       ReplayFile, EndReplay, clock, logger, hours, disk, vars
  <2> QED BY <2>1, <1>n DEF Moves
<1>3. CASE WriteBlock
  BY <1>3, <1>n, <1>d DEF WriteBlock, clock, disk, Moves
<1>4. CASE StartOver \/ Restart \/ OpenLog
  <2>1. /\ UNCHANGED <<now, plain, lz4>>
        /\ EmptyLog
    BY <1>4 DEF StartOver, Restart, OpenLog, clock, disk
  <2> QED BY <2>1, <1>n, <1>d DEF EmptyLog, Moves
<1>5. CASE BeginCopy \/ EndCopy \/ CopyNotMade \/ CopyCut
  <2>1. /\ UNCHANGED <<now, log, log_hour, lz4>>
        /\ LogWritten \/ UNCHANGED day
    BY <1>5 DEF BeginCopy, EndCopy, CopyNotMade, CopyCut, clock
  <2>2. \/ plain' = plain
        \/ plain' = [plain EXCEPT ![log_hour] = Torn]
        \/ \E bs \in SUBSET log : plain' = [plain EXCEPT ![log_hour] = Whole(bs)]
    BY <1>5 DEF BeginCopy, EndCopy, CopyNotMade, CopyCut, Parts
  <2>3. \A g \in Hours : \/ plain'[g] \in {plain[g], Torn}
                         \/ g = log_hour /\ \E bs \in SUBSET log : plain'[g] = Whole(bs)
    BY <2>2, <1>t DEF HoursTyped
  <2> QED BY <2>1, <2>3, <1>n, <1>d DEF Moves
<1>6. CASE WriteSizes \/ UnlinkPlain
  <2>1. UNCHANGED <<now, log, log_hour, lz4, day>>
    BY <1>6 DEF WriteSizes, UnlinkPlain, clock, logger
  <2>2. \A g \in Hours : plain'[g] \in {plain[g], Absent}
    BY <1>6, <1>t DEF WriteSizes, UnlinkPlain, HoursTyped
  <2> QED BY <2>1, <2>2, <1>n DEF Moves
<1>7. CASE BeginLz4 \/ EndLz4
  <2>1. UNCHANGED <<now, log, log_hour, plain>>
    BY <1>7 DEF BeginLz4, EndLz4, clock, logger
  <2>2. /\ day' \in [Files -> Int]
        /\ lz4' = lz4 \/ day'[comp_hour] = DayOf(now)
        /\ \A f \in Files : day'[f] \in {day[f], DayOf(now)}
    BY <1>7, <1>n, <1>t, LogIsAFile DEF BeginLz4, EndLz4, Lz4Written, HoursTyped
  <2>3. comp_hour # log_hour
    BY <1>7 DEF BeginLz4, EndLz4, CompGoTo, KeepInv, CompInv
  <2>4. \A g \in Hours : \/ lz4'[g] \in {lz4[g], Torn}
                         \/ g = comp_hour /\ lz4'[g] = plain[g] /\ lz4' # lz4
    BY <1>7, <1>t DEF BeginLz4, EndLz4, HoursTyped
  <2> QED BY <2>1, <2>2, <2>3, <2>4, <1>n DEF Moves
<1> QED BY <1>1, <1>2, <1>3, <1>4, <1>5, <1>6, <1>7 DEF Next, Rotate, Compress

(* The blocks have the types of times, and so has the present. *)
LEMMA HeldTyped ==
  ASSUME HoursTyped
  PROVE  /\ now \in Int /\ \A t \in log : t \in Int
         /\ \A g \in Hours : \A t \in plain[g].blocks \cup lz4[g].blocks : t \in Int
<1> QED BY BoundsAssumption DEF HoursTyped, Times, Content, File

(* A block that is new under a name is the log's, of the present.          *)
LEMMA HeldMoves ==
  ASSUME Moves, NEW g \in Hours, NEW t \in Held(g)'
  PROVE  t \in Held(g) \/ (g = log_hour /\ t = now /\ pc = "poll" /\ now' = now
                          /\ log_hour' = log_hour)
<1>0. Absent.blocks = {} /\ Torn.blocks = {} /\ (\A bs : Whole(bs).blocks = bs)
  BY DEF Absent, Torn, Whole
<1>1. CASE t \in plain'[g].blocks
  BY <1>0, <1>1 DEF Moves, Held
<1>2. CASE t \in lz4'[g].blocks
  BY <1>0, <1>2 DEF Moves, Held
<1>3. CASE g = log_hour' /\ t \in log'
  <2>1. log_hour' = log_hour
    BY <1>3 DEF Moves
  <2>2. CASE t \in log
    BY <1>3, <2>1, <2>2 DEF Held
  <2>3. CASE t \notin log
    BY <1>3, <2>1, <2>3 DEF Moves
  <2> QED BY <2>2, <2>3
<1> QED BY <1>1, <1>2, <1>3 DEF Held

LEMMA HeldNext ==
  ASSUME HeldInv, Moves, KeepInv'
  PROVE  HeldInv'
<1> USE DEF HeldInv
<1>t. HoursTyped /\ HoursTyped'
  BY DEF KeepInv
<1>n. now \in Int /\ now' \in Int /\ now <= now'
  BY <1>t, HeldTyped, BoundsAssumption DEF Moves, HoursTyped, Times
<1>i. /\ HourIndex(now) \in Int /\ HourIndex(now') \in Int
      /\ DayOf(now) \in Int /\ DayOf(now') \in Int
      /\ HourIndex(now) <= HourIndex(now') /\ DayOf(now) <= DayOf(now')
  BY <1>n, Indexed, Monotone
<1>h. \A g \in Hours : \A t \in Held(g) : t \in Int
  BY <1>t, HeldTyped DEF Held
<1>0. Absent.blocks = {} /\ Torn.blocks = {} /\ (\A bs : Whole(bs).blocks = bs)
      /\ Torn.state # "absent" /\ \A bs : Whole(bs).state # "absent"
  BY DEF Absent, Torn, Whole
<1>1. Past'
  <2> SUFFICES ASSUME NEW g \in Hours, NEW t \in Held(g)' PROVE t <= now'
    BY DEF Past
  <2>1. t \in Held(g) \/ t = now
    BY HeldMoves
  <2>2. t \in Int /\ t <= now
    BY <2>1, <1>h, <1>n DEF Past
  <2> QED BY <2>2, <1>n
<1>2. Over'
  <2>1. ASSUME NEW g \in Hours, g # log_hour', NEW t \in plain'[g].blocks, HourOf(t) = g
        PROVE  HourIndex(t) < HourIndex(now')
    <3>1. CASE log_hour' = log_hour
      <4>1. t \in plain[g].blocks
        BY <1>0, <2>1, <3>1 DEF Moves
      <4>2. HourIndex(t) < HourIndex(now) /\ HourIndex(t) \in Int
        BY <1>h, <2>1, <3>1, <4>1, Indexed DEF Over, Held
      <4> QED BY <4>2, <1>i
    <3>2. CASE log_hour' # log_hour
      <4>1. log_hour' = HourOf(now)
        BY <3>2 DEF Moves
      <4>2. t \in Held(g)'
        BY <2>1 DEF Held
      <4>3. t \in Held(g)
        BY <3>2, <4>2, HeldMoves
      <4>4. t \in Int /\ t <= now
        BY <4>3, <1>h DEF Past
      <4>5. HourIndex(t) <= HourIndex(now) /\ HourIndex(t) \in Int
        BY <4>4, <1>n, Monotone, Indexed
      <4>6. HourIndex(t) # HourIndex(now)
        BY <2>1, <4>1 DEF HourOf
      <4> QED BY <4>5, <4>6, <1>i
    <3> QED BY <3>1, <3>2
  <2>2. ASSUME NEW g \in Hours, NEW t \in lz4'[g].blocks, HourOf(t) = g
        PROVE  HourIndex(t) < HourIndex(now')
    <3>1. t \in lz4[g].blocks \/ (g # log_hour /\ t \in plain[g].blocks)
      BY <1>0, <2>2 DEF Moves
    <3>2. HourIndex(t) < HourIndex(now) /\ HourIndex(t) \in Int
      BY <1>h, <2>2, <3>1, Indexed DEF Over, Held
    <3> QED BY <3>2, <1>i
  <2> QED BY <2>1, <2>2 DEF Over
<1>3. NoneAbsent'
  BY <1>0 DEF NoneAbsent, Moves
<1>4. Dated'
  <2>1. /\ day \in [Files -> Int] /\ day' \in [Files -> Int]
        /\ \A f \in Files : day[f] <= DayOf(now) /\ day'[f] \in {day[f], DayOf(now)}
    BY DEF Dated, Moves
  <2>2. \A f \in Files : day[f] <= day'[f] /\ day'[f] <= DayOf(now')
    BY <2>1, <1>i
  <2>3. ASSUME NEW t \in log' PROVE DayOf(t) <= day'[LOG]
    <3>1. CASE t \in log
      <4>1. DayOf(t) <= day[LOG] /\ DayOf(t) \in Int
        BY <1>t, <3>1, HeldTyped, Indexed DEF Dated
      <4> QED BY <2>1, <2>2, <4>1, LogIsAFile
    <3>2. CASE t \notin log
      <4>1. t = now /\ day'[LOG] = DayOf(now)
        BY <2>3, <3>2 DEF Moves
      <4> QED BY <4>1, <1>i
    <3> QED BY <3>1, <3>2
  <2>4. ASSUME NEW g \in Hours, NEW t \in lz4'[g].blocks PROVE DayOf(t) <= day'[g]
    <3>0. g \in Files
      BY LogIsAFile
    <3>1. CASE t \in lz4[g].blocks
      <4>1. DayOf(t) <= day[g] /\ DayOf(t) \in Int
        BY <1>t, <3>1, HeldTyped, Indexed DEF Dated
      <4> QED BY <2>1, <2>2, <3>0, <4>1
    <3>2. CASE t \notin lz4[g].blocks
      <4>1. t \in plain[g].blocks /\ day'[g] = DayOf(now)
        BY <1>0, <2>4, <3>2 DEF Moves
      <4>2. t \in Int /\ t <= now
        BY <1>h, <4>1 DEF Past, Held
      <4> QED BY <4>1, <4>2, <1>n, Monotone
    <3> QED BY <3>1, <3>2
  <2> QED BY <2>1, <2>2, <2>3, <2>4 DEF Dated
<1> QED BY <1>1, <1>2, <1>3, <1>4

LEMMA HeldInit == Init => HeldInv
<1> SUFFICES ASSUME Init PROVE HeldInv
  OBVIOUS
<1>1. KeepInv
  BY KeepInit
<1>2. \A g \in Hours : plain[g].blocks = {} /\ lz4[g].blocks = {} /\ Held(g) = {}
  BY DEF Init, Held, Absent
<1>3. DayOf(StartTime) \in Int
  BY BoundsAssumption, Indexed
<1>4. Dated
  BY <1>2, <1>3 DEF Dated, Init
<1> QED BY <1>1, <1>2, <1>4 DEF HeldInv, Past, Over, NoneAbsent

LEMMA HeldStep == HeldInv /\ [Next]_vars => HeldInv'
<1> SUFFICES ASSUME HeldInv, Next \/ UNCHANGED vars PROVE HeldInv'
  OBVIOUS
<1>1. KeepInv'
  BY KeepNext DEF HeldInv
<1> QED BY <1>1, StepMoves, HeldNext

-----------------------------------------------------------------------------
(* The span of a range that ends later in its hour than it begins. *)
LEMMA SpanTyped ==
  ASSUME NEW start \in Int, NEW end \in Int
  PROVE  Span(start, end) \in Int
  BY DivMod, ClockAssumption DEF Span

(* A block of a range that may be asked for, in the compressed file of its *)
(* hour: that file is listed at the place of the hour.                     *)
LEMMA HourListed ==
  ASSUME HeldInv, NEW start \in Times, NEW end \in Times, Askable(start, end),
         NEW t \in Int, start <= t, t <= end, t \in lz4[HourOf(t)].blocks
  PROVE  \E f \in replay_hours(start, end) : t \in Blocks(f[2])
<1> DEFINE i == HourIndex(t) - HourIndex(start)
           n == Span(start, end)
           hour(k) == HourOf(start + k * TicksPerHour)
           named(k) == IF k > 0 /\ hour(k) = HourOf(end) /\ HourOf(now) = HourOf(end)
                       THEN LOG ELSE hour(k)
           there(f) == (f # LOG => lz4[f].state # "absent") /\ Recent(day[f])
<1>1. /\ start \in Int /\ end \in Int /\ now \in Int
      /\ n \in Int
  BY SpanTyped, BoundsAssumption, NowTyped DEF Times, HeldInv
<1>2. /\ HourIndex(start) \in Int /\ HourIndex(end) \in Int
      /\ HourIndex(t) \in Int /\ HourIndex(now) \in Int
      /\ HourIndex(start) <= HourIndex(t) /\ HourIndex(t) <= HourIndex(end)
  BY <1>1, Indexed, Monotone
<1>3. /\ HourIndex(now) <= HourIndex(start) + HoursPerDay
      /\ HourIndex(start) + n = HourIndex(end)
      /\ HourIndex(start) < HourIndex(now) /\ HourIndex(end) <= HourIndex(now)
      /\ HourOf(end) = HourOf(now) => HourIndex(end) = HourIndex(now)
  BY DEF Askable, Span
<1>4. i \in 0 .. n /\ n <= HoursPerDay /\ HourIndex(start) + i = HourIndex(t)
  BY <1>1, <1>2, <1>3, ClockAssumption
<1>5. hour(i) = HourOf(t) /\ HourOf(t) \in Hours
  <2>1. i \in Int
    BY <1>2
  <2>2. hour(i) = (HourIndex(start) + i) % HoursPerDay
    BY <1>1, <2>1, HoursLater
  <2> QED BY <1>4, <2>2, Indexed DEF HourOf
<1>6. HourIndex(t) < HourIndex(now)
  BY <1>5 DEF HeldInv, Over
<1>7. named(i) = HourOf(t)
  <2>1. SUFFICES ASSUME i > 0, hour(i) = HourOf(end), HourOf(now) = HourOf(end)
                 PROVE  FALSE
    BY <1>5
  <2>2. HourIndex(t) % HoursPerDay = HourIndex(now) % HoursPerDay
    BY <1>5, <2>1 DEF HourOf
  <2>3. HourIndex(now) - HourIndex(t) < HoursPerDay
    BY <1>2, <1>3, <1>4, <2>1, ClockAssumption
  <2>4. HourIndex(t) - HourIndex(now) < HoursPerDay
    BY <1>2, <1>6, ClockAssumption
  <2>5. HourIndex(t) = HourIndex(now)
    BY <1>2, <2>2, <2>3, <2>4, SameRemainder, ClockAssumption
  <2> QED BY <1>2, <1>6, <2>5
<1>8. there(HourOf(t))
  <2>1. lz4[HourOf(t)].state # "absent"
    BY <1>5 DEF HeldInv, NoneAbsent
  <2>2. DayOf(t) <= day[HourOf(t)] /\ day[HourOf(t)] <= DayOf(now)
        /\ day[HourOf(t)] \in Int
    BY <1>5, LogIsAFile DEF HeldInv, Dated
  <2>3. DayOf(now) - 1 <= DayOf(t)
    <3>1. HourIndex(now) <= HourIndex(t) + HoursPerDay
      BY <1>2, <1>3, ClockAssumption
    <3>2. HourIndex(now) \div HoursPerDay <= (HourIndex(t) + HoursPerDay) \div HoursPerDay
      <4>1. HourIndex(t) + HoursPerDay \in Int
        BY <1>2, ClockAssumption
      <4>2. HoursPerDay \in Nat \ {0} /\ HourIndex(now) \in Int
        BY <1>2, ClockAssumption
      <4> QED BY <3>1, <4>1, <4>2, DivMonotone
    <3>3. (HourIndex(t) + HoursPerDay * 1) \div HoursPerDay = HourIndex(t) \div HoursPerDay + 1
      BY <1>2, DivShift, ClockAssumption
    <3>4. HourIndex(t) + HoursPerDay * 1 = HourIndex(t) + HoursPerDay
      BY <1>2, ClockAssumption
    <3>5. DayOf(now) <= DayOf(t) + 1
      BY <3>2, <3>3, <3>4 DEF DayOf
    <3> QED BY <1>1, <3>5, Indexed
  <2>4. DayOf(now) \in Int /\ DayOf(t) \in Int
    BY <1>1, Indexed
  <2>5. Recent(day[HourOf(t)])
    BY <2>2, <2>3, <2>4 DEF Recent
  <2> QED BY <2>1, <2>5
<1>9. <<i, named(i)>> \in Listed(start, end, n + 1)
  <2>1. i \in 0 .. (n + 1) - 1
    BY <1>1, <1>4
  <2>2. there(named(i))
    BY <1>7, <1>8
  <2> QED BY <2>1, <2>2 DEF Listed
<1>10. replay_hours(start, end) = Listed(start, end, n + 1)
  <2>1. ~(start >= end)
    BY <1>1 DEF Askable
  <2> QED BY <1>1, <1>4, <2>1, ClockAssumption DEF replay_hours
<1> QED BY <1>5, <1>7, <1>9, <1>10, LogIsAFile DEF Blocks

(* A block of the current hour in the log: the log is listed at the place  *)
(* of the hour. *)
LEMMA LogListed ==
  ASSUME HeldInv, NEW start \in Times, NEW end \in Times, Askable(start, end),
         NEW t \in log, start <= t, t <= end, HourIndex(t) = HourIndex(now)
  PROVE  \E f \in replay_hours(start, end) : t \in Blocks(f[2])
<1> DEFINE n == Span(start, end)
           hour(k) == HourOf(start + k * TicksPerHour)
           named(k) == IF k > 0 /\ hour(k) = HourOf(end) /\ HourOf(now) = HourOf(end)
                       THEN LOG ELSE hour(k)
           there(f) == (f # LOG => lz4[f].state # "absent") /\ Recent(day[f])
<1>1. /\ start \in Int /\ end \in Int /\ now \in Int /\ t \in Int
      /\ n \in Int
  BY SpanTyped, BoundsAssumption, NowTyped, HeldTyped DEF Times, HeldInv, KeepInv
<1>2. /\ HourIndex(start) \in Int /\ HourIndex(end) \in Int
      /\ HourIndex(now) \in Int
      /\ HourIndex(now) <= HourIndex(end)
  BY <1>1, Indexed, Monotone
<1>3. /\ HourIndex(now) <= HourIndex(start) + HoursPerDay
      /\ HourIndex(start) + n = HourIndex(end)
      /\ HourIndex(start) < HourIndex(now) /\ HourIndex(end) <= HourIndex(now)
      /\ ~(start >= end)
  BY <1>1 DEF Askable, Span
<1>4. n > 0 /\ n <= HoursPerDay /\ HourIndex(end) = HourIndex(now)
  BY <1>1, <1>2, <1>3, ClockAssumption
<1>5. named(n) = LOG
  <2>1. hour(n) = (HourIndex(start) + n) % HoursPerDay
    BY <1>1, HoursLater
  <2>2. hour(n) = HourOf(end) /\ HourOf(now) = HourOf(end)
    BY <1>3, <1>4, <2>1 DEF HourOf
  <2> QED BY <1>4, <2>2
<1>6. there(LOG)
  <2>1. DayOf(t) = DayOf(now) /\ DayOf(now) \in Int
    BY <1>1, Indexed DEF DayOf
  <2>2. DayOf(t) <= day[LOG] /\ day[LOG] <= DayOf(now) /\ day[LOG] \in Int
    BY LogIsAFile DEF HeldInv, Dated
  <2>3. day[LOG] = DayOf(now)
    BY <2>1, <2>2
  <2> QED BY <2>3 DEF Recent
<1>7. <<n, named(n)>> \in Listed(start, end, n + 1)
  <2>1. n \in 0 .. (n + 1) - 1
    BY <1>1, <1>4
  <2>2. there(named(n))
    BY <1>5, <1>6
  <2> QED BY <2>1, <2>2 DEF Listed
<1>8. replay_hours(start, end) = Listed(start, end, n + 1)
  BY <1>1, <1>3, <1>4, ClockAssumption DEF replay_hours
<1> QED BY <1>5, <1>7, <1>8 DEF Blocks

(* Of a range that may be asked for, every block that is in the log or in  *)
(* the compressed file of its hour is in a file that is replayed: for      *)
(* hours and days of any length, any ranges and any clock.                 *)
THEOREM RangesComplete == Spec => []NothingMissed
<1>1. HeldInv => NothingMissed
  <2> SUFFICES ASSUME HeldInv, NEW w \in Windows, Askable(w[1], w[2]),
                      NEW t \in Owed(w[1], w[2])
               PROVE  \E f \in replay_hours(w[1], w[2]) : t \in Blocks(f[2])
    BY DEF NothingMissed
  <2>1. w[1] \in Times /\ w[2] \in Times
    BY BoundsAssumption DEF Times
  <2>2. t \in Int /\ w[1] <= t /\ t <= w[2]
    BY <2>1, BoundsAssumption DEF Owed, Times
  <2>3. CASE t \in lz4[HourOf(t)].blocks
    BY <2>1, <2>2, <2>3, HourListed
  <2>4. CASE t \in log /\ HourIndex(t) = HourIndex(now)
    BY <2>1, <2>2, <2>4, LogListed
  <2>5. t \in lz4[HourOf(t)].blocks \/ (t \in log /\ HourIndex(t) = HourIndex(now))
    BY DEF Owed
  <2> QED BY <2>3, <2>4, <2>5
<1>2. Init => HeldInv
  BY HeldInit
<1>3. HeldInv /\ [Next]_vars => HeldInv'
  BY HeldStep
<1> QED BY <1>1, <1>2, <1>3, PTL DEF Spec

-----------------------------------------------------------------------------
(* Why time does not go back in a replay.  A file named after an hour only *)
(* has blocks of that hour and of the next, and in a range of less than a  *)
(* day each of them is one hour; so only blocks of the end of one file and *)
(* of the file that follows can be of one hour, and there the logger left  *)
(* the one before it began the other.                                      *)

(* A block t of the file of hour h is before all blocks of t's own hour.   *)
BeforeOwn(t, h) ==
  \A g \in Hours : \A u \in Held(g) :
    g # h /\ HourOf(u) = g /\ HourIndex(u) = HourIndex(t) => t <= u

(* A block that is not the log's is before the log's. *)
BeforeLog(t) == \A u \in log : t <= u

Near(t, h) == HourOf(t) \in {h, NextHour(h)}

Ordered ==
  /\ \A h \in Hours : \A t \in Held(h) : Near(t, h) /\ BeforeOwn(t, h)
  /\ \A h \in Hours : \A t \in lz4[h].blocks : BeforeLog(t)
  /\ \A h \in Hours : h # log_hour => \A t \in plain[h].blocks : BeforeLog(t)

(* A poll that has begun in the log's hour. *)
PollNear == pc = "poll" => Near(now, log_hour)

(* The range is short of a day; its places; the hour of a place.           *)
Short == HourIndex(window[2]) + 1 < HourIndex(window[1]) + HoursPerDay
Places == 0 .. Span(window[1], window[2])
Hour(i) == HourOf(window[1] + i * TicksPerHour)

(* What a block that was called back for, of the file at place i, is like  *)
(* as long as there are files to come.                                     *)
Placed(t, i) ==
  /\ i \in Places /\ t <= now
  /\ Near(t, Hour(i)) /\ BeforeOwn(t, Hour(i)) /\ BeforeLog(t)

FilesPlaced ==
  /\ \A f \in files :
       /\ f[1] \in Places
       /\ f[2] = Hour(f[1]) \/ (f[2] = LOG /\ Hour(f[1]) = HourOf(window[2]))
  /\ \A f, g \in files : f[1] = g[1] => f = g

FiredPlaced ==
  \A a \in fired :
    /\ a[1] \in Int /\ a[2] \in Int /\ window[1] <= a[2] /\ a[2] <= window[2]
    /\ \A f \in files : a[1] < f[1]
    /\ files = {} \/ Placed(a[2], a[1])

ReadInv ==
  /\ window \in Times \X Times
  /\ reader = "idle" => fired = {} /\ files = {}
  /\ reader # "idle" => reader = "reading"
  /\ reader = "reading" /\ Short => FilesPlaced /\ FiredPlaced

OrderInv == HeldInv /\ Ordered /\ PollNear /\ ReadInv /\ InOrder

LEMMA OrderedNext ==
  ASSUME HeldInv, Ordered, PollNear, Moves
  PROVE  Ordered'
<1> USE DEF HeldInv
<1>t. HoursTyped
  BY DEF KeepInv
<1>n. now \in Int /\ HourIndex(now) \in Int
  BY NowTyped, Indexed
<1>h. \A g \in Hours : \A t \in Held(g) : t \in Int /\ t <= now
  BY <1>t, HeldTyped DEF Held, Past
<1>l. \A t \in log : t \in Int
  BY <1>t, HeldTyped
<1>0. Absent.blocks = {} /\ Torn.blocks = {} /\ (\A bs : Whole(bs).blocks = bs)
  BY DEF Absent, Torn, Whole
<1>1. ASSUME NEW h \in Hours, NEW t \in Held(h)' PROVE Near(t, h)
  <2>1. CASE t \in Held(h)
    BY <2>1 DEF Ordered
  <2>2. CASE h = log_hour /\ t = now /\ pc = "poll"
    BY <2>2 DEF PollNear
  <2> QED BY <2>1, <2>2, HeldMoves
<1>2. ASSUME NEW h \in Hours, NEW t \in Held(h)', NEW g \in Hours, NEW u \in Held(g)',
             g # h, HourOf(u) = g, HourIndex(u) = HourIndex(t)
      PROVE  t <= u
  <2>1. CASE t \in Held(h) /\ u \in Held(g)
    BY <1>2, <2>1 DEF Ordered, BeforeOwn
  <2>2. CASE u = now
    <3>1. t \in Held(h) \/ t = now
      BY HeldMoves
    <3> QED BY <1>h, <1>n, <2>2, <3>1
  <2>3. CASE u \in Held(g) /\ h = log_hour /\ t = now
    <3>1. u \in plain[g].blocks \cup lz4[g].blocks
      BY <1>2, <2>3 DEF Held
    <3>2. HourIndex(u) < HourIndex(now)
      BY <1>2, <2>3, <3>1 DEF Over
    <3> QED BY <1>2, <1>n, <2>3, <3>2
  <2>4. u \in Held(g) \/ u = now
    BY HeldMoves
  <2>5. t \in Held(h) \/ (h = log_hour /\ t = now)
    BY HeldMoves
  <2> QED BY <2>1, <2>2, <2>3, <2>4, <2>5
<1>3. ASSUME NEW t \in Int, t <= now, BeforeLog(t) PROVE BeforeLog(t)'
  BY <1>3, <1>n DEF BeforeLog, Moves
<1>4. ASSUME NEW h \in Hours, NEW t \in lz4'[h].blocks PROVE BeforeLog(t)'
  <2>1. t \in lz4[h].blocks \/ (h # log_hour /\ t \in plain[h].blocks)
    BY <1>0, <1>4 DEF Moves
  <2>2. BeforeLog(t) /\ t \in Held(h)
    BY <2>1 DEF Ordered, Held
  <2> QED BY <1>3, <1>h, <2>2
<1>5. ASSUME NEW h \in Hours, h # log_hour', NEW t \in plain'[h].blocks
      PROVE  BeforeLog(t)'
  <2>1. CASE log_hour' = log_hour
    <3>1. t \in plain[h].blocks
      BY <1>0, <1>5, <2>1 DEF Moves
    <3>2. BeforeLog(t) /\ t \in Held(h)
      BY <1>5, <2>1, <3>1 DEF Ordered, Held
    <3> QED BY <1>3, <1>h, <3>2
  <2>2. CASE log_hour' # log_hour
    BY <2>2 DEF Moves, BeforeLog
  <2> QED BY <2>1, <2>2
<1>6. \A h \in Hours : \A t \in Held(h)' : Near(t, h)'
  BY <1>1 DEF Near
<1>7. \A h \in Hours : \A t \in Held(h)' : BeforeOwn(t, h)'
  BY <1>2 DEF BeforeOwn
<1> QED BY <1>4, <1>5, <1>6, <1>7 DEF Ordered

LEMMA PollNearNext ==
  ASSUME HeldInv, PollNear, ShortPolls, Next \/ UNCHANGED vars
  PROVE  PollNear'
<1>t. now \in Times
  BY DEF HeldInv, KeepInv, HoursTyped
<1>1. CASE Tick
  <2> SUFFICES ASSUME pc' = "poll" PROVE Near(now', log_hour')
    BY DEF PollNear
  <2>1. UNCHANGED <<pc, log_hour>>
    BY <1>1 DEF Tick, logger
  <2>2. log_hour = HourOf(now) /\ \E d \in PollJumps : now' = now + d
    BY <1>1, <2>1 DEF Tick
  <2> QED BY <1>t, <2>1, <2>2 DEF ShortPolls, Near
<1>2. CASE SameHour \/ OpenLog \/ StartOver \/ Restart
  <2>1. now' = now /\ log_hour' = HourOf(now)
    BY <1>2 DEF SameHour, OpenLog, StartOver, Restart, EmptyLog, clock
  <2> QED BY <2>1 DEF PollNear, Near
<1>3. CASE WriteBlock \/ BeginCopy \/ EndCopy \/ CopyNotMade \/ CopyCut \/ Stop \/ MapFails
  BY <1>3 DEF WriteBlock, BeginCopy, EndCopy, CopyNotMade, CopyCut, Stop, MapFails,
     PollNear
<1>4. CASE (Compress /\ ~MapFails) \/ Replay \/ UNCHANGED vars
  <2>1. UNCHANGED <<now, pc, log_hour>>
    BY <1>4 DEF Compress, WriteSizes, BeginLz4, EndLz4, CompressFails, UnlinkPlain,
       Replay, BeginReplay, ReplayFile, EndReplay, vars, clock, logger
  <2> QED BY <2>1 DEF PollNear, Near
<1> QED BY <1>1, <1>2, <1>3, <1>4 DEF Next, Rotate

(* The hours of a short range, and those of the blocks in it, have indices *)
(* that their names tell apart.                                            *)
LEMMA WindowHours ==
  ASSUME window \in Times \X Times, Short
  PROVE  /\ HourIndex(window[1]) \in Int /\ HourIndex(window[2]) \in Int
         /\ HoursPerDay \in Nat \ {0} /\ Places \subseteq Nat
         /\ HourIndex(window[2]) - HourIndex(window[1]) + 1 < HoursPerDay
         /\ \A i \in Places :
              /\ HourIndex(window[1]) + i <= HourIndex(window[2])
              /\ Hour(i) = (HourIndex(window[1]) + i) % HoursPerDay
              /\ Hour(i) \in Hours
<1> DEFINE n == Span(window[1], window[2])
<1>1. window[1] \in Int /\ window[2] \in Int
  BY BoundsAssumption DEF Times
<1>2. /\ HourIndex(window[1]) \in Int /\ HourIndex(window[2]) \in Int
      /\ HoursPerDay \in Nat \ {0} /\ TicksPerHour \in Nat \ {0} /\ n \in Int
  BY <1>1, Indexed, SpanTyped, ClockAssumption
<1>3. HourIndex(window[1]) + n <= HourIndex(window[2])
  <2> DEFINE r == (window[2] - window[1]) % TicksPerHour
             last == window[1] + n * TicksPerHour
  <2>1. window[2] - window[1] \in Int
    BY <1>1
  <2>2. window[2] - window[1] = TicksPerHour * n + r /\ r \in 0 .. TicksPerHour - 1
    BY <1>2, <2>1, DivMod DEF Span
  <2> HIDE DEF n, r
  <2>3. last \in Int /\ last <= window[2]
    BY <1>1, <1>2, <2>2
  <2>4. HourIndex(last) = HourIndex(window[1]) + n
    BY <1>1, <1>2, HoursLater
  <2>5. HourIndex(last) <= HourIndex(window[2])
    BY <1>1, <2>3, Monotone
  <2> QED BY <2>4, <2>5
<1>4. ASSUME NEW i \in Places
      PROVE  /\ HourIndex(window[1]) + i <= HourIndex(window[2])
             /\ Hour(i) = (HourIndex(window[1]) + i) % HoursPerDay
             /\ Hour(i) \in Hours
  <2>1. i \in Int /\ i <= n
    BY <1>2 DEF Places
  <2>2. window[1] + i * TicksPerHour \in Int
        /\ Hour(i) = (HourIndex(window[1]) + i) % HoursPerDay
    BY <1>1, <2>1, HoursLater DEF Hour
  <2>3. Hour(i) \in Hours
    BY <2>2, Indexed DEF Hour
  <2> QED BY <1>2, <1>3, <2>1, <2>2, <2>3
<1>5. HourIndex(window[2]) - HourIndex(window[1]) + 1 < HoursPerDay
  BY <1>2 DEF Short
<1> QED BY <1>2, <1>4, <1>5 DEF Places

(* A block of the range in the file of a place is of that place's hour, or *)
(* of the next.                                                            *)
LEMMA BlockHour ==
  ASSUME window \in Times \X Times, Short, NEW i \in Places, NEW t \in Int,
         window[1] <= t, t <= window[2], Near(t, Hour(i))
  PROVE  /\ HourIndex(t) \in Int
         /\ \/ HourIndex(t) = HourIndex(window[1]) + i /\ HourOf(t) = Hour(i)
            \/ HourIndex(t) = HourIndex(window[1]) + i + 1
<1> DEFINE s == HourIndex(window[1])
           e == HourIndex(window[2])
           x == HourIndex(t)
           k == s + i
<1>1. window[1] \in Int /\ window[2] \in Int
  BY BoundsAssumption DEF Times
<1>2. /\ s \in Int /\ e \in Int /\ i \in Nat /\ e - s + 1 < HoursPerDay
      /\ k <= e /\ Hour(i) = k % HoursPerDay /\ HoursPerDay \in Nat \ {0}
  BY WindowHours
<1>3. x \in Int /\ s <= x /\ x <= e /\ HourOf(t) = x % HoursPerDay
  BY <1>1, Indexed, Monotone
<1> HIDE DEF s, e, x
<1>4. CASE HourOf(t) = Hour(i)
  <2>1. x % HoursPerDay = k % HoursPerDay /\ k \in Int
    BY <1>2, <1>3, <1>4
  <2>2. x - k < HoursPerDay /\ k - x < HoursPerDay
    BY <1>2, <1>3
  <2>3. x = k
    BY <1>2, <1>3, <2>1, <2>2, SameRemainder
  <2> QED BY <1>3, <1>4, <2>3 DEF s, x
<1>5. CASE HourOf(t) = NextHour(Hour(i))
  <2>1. k \in Int /\ k + 1 \in Int
    BY <1>2
  <2>2. ((k % HoursPerDay) + 1) % HoursPerDay = (k + 1) % HoursPerDay
    BY <1>2, <2>1, NextRemainder
  <2>3. x % HoursPerDay = (k + 1) % HoursPerDay
    BY <1>2, <1>3, <1>5, <2>2 DEF NextHour
  <2>4. x - (k + 1) < HoursPerDay /\ (k + 1) - x < HoursPerDay
    BY <1>2, <1>3
  <2>5. x = k + 1
    BY <1>2, <1>3, <2>1, <2>3, <2>4, SameRemainder
  <2> QED BY <1>2, <1>3, <2>5 DEF s, x
<1> QED BY <1>4, <1>5 DEF Near

(* The log is the last file of a short range. *)
LEMMA LogLast ==
  ASSUME window \in Times \X Times, Short, FilesPlaced,
         NEW f \in files, First(f), f[2] = LOG
  PROVE  files = {f}
<1> DEFINE s == HourIndex(window[1])
           e == HourIndex(window[2])
<1>1. /\ s \in Int /\ e \in Int /\ e - s + 1 < HoursPerDay
      /\ HoursPerDay \in Nat \ {0}
      /\ \A g \in files : g[1] \in Nat /\ s + g[1] <= e
      /\ Hour(f[1]) = (s + f[1]) % HoursPerDay /\ Hour(f[1]) \in Hours
  BY WindowHours DEF FilesPlaced
<1>2. Hour(f[1]) = HourOf(window[2])
  BY <1>1, LogIsAFile DEF FilesPlaced
<1>3. (s + f[1]) % HoursPerDay = e % HoursPerDay
  BY <1>1, <1>2 DEF HourOf
<1>4. f[1] \in Nat /\ s + f[1] <= e
  BY <1>1
<1> HIDE DEF s, e
<1>5. s + f[1] = e
  <2> DEFINE k == s + f[1]
  <2>1. k \in Int /\ k - e < HoursPerDay /\ e - k < HoursPerDay
    BY <1>1, <1>4
  <2>2. k % HoursPerDay = e % HoursPerDay
    BY <1>3
  <2> HIDE DEF k
  <2>3. k = e
    BY <1>1, <2>1, <2>2, SameRemainder
  <2> QED BY <2>3 DEF k
<1>6. ASSUME NEW g \in files PROVE g = f
  <2>1. g[1] \in Nat /\ s + g[1] <= e /\ f[1] <= g[1]
    BY <1>1 DEF First
  <2>2. g[1] = f[1]
    BY <1>1, <1>4, <1>5, <2>1
  <2> QED BY <2>2 DEF FilesPlaced
<1> QED BY <1>6

(* A block called back for stays what it is while the others go on. *)
LEMMA PlacedKept ==
  ASSUME HeldInv, HeldInv', Moves, window' = window, NEW t \in Int, NEW i, Placed(t, i)
  PROVE  Placed(t, i)'
<1>1. now \in Int /\ now' \in Int /\ now <= now' /\ t <= now
  <2>1. now \in Int /\ now' \in Int
    BY BoundsAssumption DEF HeldInv, KeepInv, HoursTyped, Times
  <2> QED BY <2>1 DEF Moves, Placed
<1>2. t <= now'
  BY <1>1
<1>3. BeforeLog(t)'
  <2> SUFFICES ASSUME NEW u \in log' PROVE t <= u
    BY DEF BeforeLog
  <2>1. u \in log \/ u = now
    BY DEF Moves
  <2> QED BY <1>1, <2>1 DEF Placed, BeforeLog
<1>4. (i \in Places)' /\ Near(t, Hour(i))' /\ Hour(i)' = Hour(i)
  BY DEF Placed, Places, Hour, Near
<1>5. BeforeOwn(t, Hour(i))'
  <2> SUFFICES ASSUME NEW g \in Hours, NEW u \in Held(g)',
                      g # Hour(i), HourOf(u) = g, HourIndex(u) = HourIndex(t)
               PROVE  t <= u
    BY <1>4 DEF BeforeOwn
  <2>1. CASE u \in Held(g)
    BY <2>1 DEF Placed, BeforeOwn
  <2>2. CASE u = now
    BY <1>1, <2>2
  <2> QED BY <2>1, <2>2, HeldMoves
<1> QED BY <1>2, <1>3, <1>4, <1>5 DEF Placed

LEMMA ReadKept ==
  ASSUME HeldInv, HeldInv', ReadInv, InOrder, Moves, UNCHANGED replay
  PROVE  ReadInv' /\ InOrder'
<1>1. UNCHANGED <<reader, window, files, fired>>
  BY DEF replay
<1>2. InOrder'
  BY <1>1 DEF InOrder
<1>3. ASSUME reader = "reading", Short PROVE FilesPlaced' /\ FiredPlaced'
  <2>1. FilesPlaced /\ FiredPlaced
    BY <1>3 DEF ReadInv
  <2>2. FilesPlaced'
    BY <1>1, <2>1 DEF FilesPlaced, Places, Hour
  <2>3. \A a \in fired : files = {} \/ Placed(a[2], a[1])'
    BY <1>1, <2>1, PlacedKept DEF FiredPlaced
  <2>4. FiredPlaced'
    BY <1>1, <2>1, <2>3 DEF FiredPlaced
  <2> QED BY <2>2, <2>4
<1>4. ReadInv'
  BY <1>1, <1>3 DEF ReadInv, Short
<1> QED BY <1>2, <1>4

(* The steps of the client. *)
LEMMA ReadBegun ==
  ASSUME ReadInv, HeldInv, BeginReplay
  PROVE  ReadInv' /\ InOrder'
<1>1. PICK w \in Windows : window' = w /\ files' = replay_hours(w[1], w[2])
  BY DEF BeginReplay
<1>2. fired' = {} /\ reader' = "reading"
  BY DEF BeginReplay, ReadInv
<1>3. window' \in Times \X Times
  BY <1>1, BoundsAssumption DEF Times
<1>4. FilesPlaced'
  <2> DEFINE n == Span(w[1], w[2])
  <2>1. w[1] \in Int /\ w[2] \in Int /\ n \in Int
    BY <1>1, <1>3, SpanTyped, BoundsAssumption DEF Times
  <2>2. \A f \in replay_hours(w[1], w[2]) : f \in Listed(w[1], w[2], n + 1)
    BY DEF replay_hours
  <2>3. \A f \in Listed(w[1], w[2], n + 1) :
          \E i \in 0 .. n :
            /\ f[1] = i
            /\ f[2] = (IF /\ i > 0
                          /\ HourOf(w[1] + i * TicksPerHour) = HourOf(w[2])
                          /\ HourOf(now) = HourOf(w[2])
                       THEN LOG ELSE HourOf(w[1] + i * TicksPerHour))
            /\ f = <<f[1], f[2]>>
    <3>1. (n + 1) - 1 = n
      BY <2>1
    <3> QED BY <3>1 DEF Listed
  <2>4. ASSUME NEW f \in files'
        PROVE  /\ f[1] \in 0 .. n
               /\ \/ f[2] = HourOf(w[1] + f[1] * TicksPerHour)
                  \/ f[2] = LOG /\ HourOf(w[1] + f[1] * TicksPerHour) = HourOf(w[2])
    BY <1>1, <2>2, <2>3
  <2>5. ASSUME NEW f \in files', NEW g \in files', f[1] = g[1] PROVE f = g
    BY <1>1, <2>2, <2>3, <2>5
  <2> QED BY <1>1, <2>4, <2>5 DEF FilesPlaced, Places, Hour
<1>5. FiredPlaced' /\ InOrder'
  BY <1>2 DEF FiredPlaced, InOrder
<1> QED BY <1>2, <1>3, <1>4, <1>5 DEF ReadInv

LEMMA ReadEnded ==
  ASSUME EndReplay PROVE ReadInv' /\ InOrder'
<1>1. <<0, 0>> \in Times \X Times
  BY BoundsAssumption DEF Times
<1> QED BY <1>1 DEF EndReplay, ReadInv, InOrder

LEMMA FileReplayed ==
  ASSUME HeldInv, Ordered, ReadInv, InOrder, ReplayFile
  PROVE  ReadInv' /\ InOrder'
<1>a. PICK f \in files :
        \E bs \in Played(f[2]) :
          /\ First(f)
          /\ fired' = fired \cup {<<f[1], t>> : t \in {b \in bs : callback_fire(b)}}
          /\ files' = files \ {f}
  BY DEF ReplayFile
<1>1. PICK bs \in Played(f[2]) :
        /\ First(f)
        /\ fired' = fired \cup {<<f[1], t>> : t \in {b \in bs : callback_fire(b)}}
        /\ files' = files \ {f}
  BY <1>a
<1>b. bs \subseteq Blocks(f[2])
  BY DEF Played, Blocks, Parts
<1>2. /\ reader = "reading" /\ reader' = "reading" /\ window' = window
      /\ UNCHANGED <<clock, logger, hours>>
  BY DEF ReplayFile
<1>3. UNCHANGED <<now, log, log_hour, plain, lz4>>
  BY <1>2 DEF clock, logger, hours, disk
<1>4. window' \in Times \X Times
  BY <1>2 DEF ReadInv
<1>5. SUFFICES ASSUME Short
               PROVE  FilesPlaced' /\ FiredPlaced' /\ InOrder'
  BY <1>2, <1>4 DEF ReadInv, InOrder, Short
<1>6. FilesPlaced /\ FiredPlaced /\ window \in Times \X Times
  BY <1>2, <1>5 DEF ReadInv
<1>7. FilesPlaced'
  BY <1>1, <1>2, <1>6 DEF FilesPlaced, Places, Hour
<1> DEFINE k == f[1]
           new == {b \in bs : callback_fire(b)}
<1>8. k \in Nat /\ k \in Places /\ Hour(k) \in Hours
  BY <1>5, <1>6, WindowHours DEF FilesPlaced
<1>9. \A t \in new : t \in Int /\ window[1] <= t /\ t <= window[2]
  <2>1. f[2] = LOG \/ f[2] \in Hours
    BY <1>6, <1>8 DEF FilesPlaced
  <2>2. \A t \in Blocks(f[2]) : t \in Int
    BY <2>1, HeldTyped DEF Blocks, HeldInv, KeepInv
  <2> QED BY <1>b, <2>2 DEF callback_fire
<1> HIDE DEF k, new
<1>10. fired' = fired \cup {<<k, t>> : t \in new} /\ First(f) /\ files' = files \ {f}
  BY <1>1 DEF k, new
<1>11. ASSUME NEW a \in fired
       PROVE  /\ a[1] \in Int /\ a[2] \in Int /\ a[1] < k
              /\ window[1] <= a[2] /\ a[2] <= window[2]
              /\ Placed(a[2], a[1])
  BY <1>6 DEF FiredPlaced, k
<1>12. ASSUME NEW a \in fired, NEW t \in new PROVE a[2] <= t
  <2>1. CASE f[2] = LOG
    <3>1. t \in log
      BY <1>b, <2>1 DEF new, Blocks
    <3> QED BY <1>11, <3>1 DEF Placed, BeforeLog
  <2>2. CASE f[2] # LOG
    <3>1. f[2] = Hour(k) /\ t \in lz4[Hour(k)].blocks
      BY <1>b, <1>6, <2>2 DEF FilesPlaced, new, Blocks, k
    <3>2. t \in Held(Hour(k))
      BY <3>1 DEF Held
    <3>3. Near(t, Hour(k))
      BY <1>8, <3>2 DEF Ordered
    <3>4. /\ HourIndex(t) \in Int
          /\ \/ HourIndex(t) = HourIndex(window[1]) + k /\ HourOf(t) = Hour(k)
             \/ HourIndex(t) = HourIndex(window[1]) + k + 1
      BY <1>5, <1>6, <1>8, <1>9, <3>3, BlockHour
    <3>5. /\ HourIndex(a[2]) \in Int
          /\ \/ HourIndex(a[2]) = HourIndex(window[1]) + a[1] /\ HourOf(a[2]) = Hour(a[1])
             \/ HourIndex(a[2]) = HourIndex(window[1]) + a[1] + 1
      <4>1. /\ a[1] \in Places /\ Near(a[2], Hour(a[1])) /\ a[2] \in Int
            /\ window[1] <= a[2] /\ a[2] <= window[2]
        BY <1>11 DEF Placed
      <4> QED BY <1>5, <1>6, <4>1, BlockHour
    <3>6. HourIndex(window[1]) \in Int /\ a[1] \in Int /\ a[1] < k
      BY <1>5, <1>6, <1>11, WindowHours
    <3>7. CASE HourIndex(a[2]) < HourIndex(t)
      <4>1. ~(t <= a[2])
        <5> SUFFICES ASSUME t <= a[2] PROVE FALSE
          OBVIOUS
        <5>1. HourIndex(t) <= HourIndex(a[2])
          BY <1>9, <1>11, Monotone
        <5> QED BY <3>4, <3>5, <3>7, <5>1
      <4> QED BY <4>1, <1>9, <1>11
    <3>8. CASE ~(HourIndex(a[2]) < HourIndex(t))
      <4>1. /\ HourIndex(a[2]) = HourIndex(t) /\ k = a[1] + 1
            /\ HourOf(t) = Hour(k)
        BY <1>8, <3>4, <3>5, <3>6, <3>8
      <4>2. Hour(k) # Hour(a[1])
        <5> DEFINE s == HourIndex(window[1])
                   p == s + a[1]
                   q == s + k
        <5>1. /\ s \in Int /\ a[1] \in Places /\ HoursPerDay \in Nat \ {0}
              /\ HourIndex(window[2]) \in Int /\ HourIndex(window[2]) - s + 1 < HoursPerDay
              /\ Hour(a[1]) = p % HoursPerDay /\ Hour(k) = q % HoursPerDay
              /\ a[1] \in Nat /\ s + k <= HourIndex(window[2])
          BY <1>5, <1>6, <1>8, <1>11, WindowHours DEF Placed
        <5>2. p \in Int /\ q \in Int /\ q = p + 1 /\ 1 < HoursPerDay
          BY <1>8, <4>1, <5>1
        <5> HIDE DEF p, q
        <5>3. p - q < HoursPerDay /\ q - p < HoursPerDay /\ p # q
          BY <5>1, <5>2
        <5>4. p % HoursPerDay # q % HoursPerDay
          BY <5>1, <5>2, <5>3, SameRemainder
        <5> QED BY <5>1, <5>4
      <4>3. BeforeOwn(a[2], Hour(a[1]))
        BY <1>11 DEF Placed
      <4> QED BY <1>8, <3>2, <4>1, <4>2, <4>3 DEF BeforeOwn
    <3> QED BY <3>7, <3>8
  <2> QED BY <2>1, <2>2
<1>13. InOrder'
  <2> SUFFICES ASSUME NEW a \in fired', NEW b \in fired', a[1] < b[1]
               PROVE  a[2] <= b[2]
    BY DEF InOrder
  <2>1. CASE a \in fired /\ b \in fired
    BY <1>5, <2>1 DEF InOrder, Short
  <2>2. CASE a \in fired /\ b \notin fired
    <3>1. PICK t \in new : b = <<k, t>>
      BY <1>10, <2>2
    <3> QED BY <1>12, <2>2, <3>1
  <2>3. CASE a \notin fired
    <3>1. a[1] = k
      BY <1>10, <2>3
    <3>2. b[1] = k \/ b \in fired
      BY <1>10
    <3>3. b[1] \in Int /\ ~(k < b[1])
      BY <1>8, <1>11, <3>2
    <3> QED BY <3>1, <3>3
  <2> QED BY <2>1, <2>2, <2>3
<1>14. FiredPlaced'
  <2>1. \A t, i : Placed(t, i)' <=> Placed(t, i)
    BY <1>2, <1>3 DEF Placed, Places, Hour, Near, BeforeOwn, BeforeLog, Held
  <2>2. \A g \in files' : g \in files /\ k < g[1]
    <3> SUFFICES ASSUME NEW g \in files' PROVE g \in files /\ k < g[1]
      OBVIOUS
    <3>1. g \in files /\ g # f /\ k <= g[1]
      BY <1>10 DEF First, k
    <3>2. g[1] # k /\ g[1] \in Nat
      BY <1>5, <1>6, <3>1, WindowHours DEF FilesPlaced, k
    <3> QED BY <1>8, <3>1, <3>2
  <2>3. ASSUME NEW t \in new
        PROVE  files' = {} \/ Placed(t, k)
    <3>1. CASE f[2] = LOG
      BY <1>1, <1>5, <1>6, <3>1, LogLast
    <3>2. CASE f[2] # LOG
      <4>1. f[2] = Hour(k) /\ t \in lz4[Hour(k)].blocks
        BY <1>b, <1>6, <3>2 DEF FilesPlaced, new, Blocks, k
      <4>2. t \in Held(Hour(k))
        BY <4>1 DEF Held
      <4>3. t <= now
        BY <1>8, <4>2 DEF HeldInv, Past
      <4>4. Near(t, Hour(k)) /\ BeforeOwn(t, Hour(k)) /\ BeforeLog(t)
        BY <1>8, <4>1, <4>2 DEF Ordered
      <4> QED BY <1>8, <4>3, <4>4 DEF Placed
    <3> QED BY <3>1, <3>2
  <2>4. ASSUME NEW a \in fired'
        PROVE  /\ a[1] \in Int /\ a[2] \in Int
               /\ window[1] <= a[2] /\ a[2] <= window[2]
               /\ \A g \in files' : a[1] < g[1]
               /\ files' = {} \/ Placed(a[2], a[1])
    <3>1. CASE a \in fired
      <4>1. \A g \in files' : a[1] < g[1]
        BY <1>6, <2>2, <3>1 DEF FiredPlaced
      <4> QED BY <1>11, <3>1, <4>1
    <3>2. CASE a \notin fired
      <4>1. PICK t \in new : a = <<k, t>>
        BY <1>10, <3>2
      <4>2. a[1] = k /\ a[2] = t
        BY <4>1
      <4> QED BY <1>8, <1>9, <2>2, <2>3, <4>2
    <3> QED BY <3>1, <3>2
  <2> QED BY <1>2, <2>1, <2>4 DEF FiredPlaced
<1> QED BY <1>7, <1>13, <1>14

LEMMA OrderInit == Init => OrderInv
<1> SUFFICES ASSUME Init PROVE OrderInv
  OBVIOUS
<1>1. HeldInv
  BY HeldInit
<1>2. \A g \in Hours : Held(g) = {} /\ plain[g].blocks = {} /\ lz4[g].blocks = {}
  BY DEF Init, Held, Absent
<1>3. Near(now, log_hour)
  BY DEF Init, Near
<1>4. <<0, 0>> \in Times \X Times
  BY BoundsAssumption DEF Times
<1> QED BY <1>1, <1>2, <1>3, <1>4
        DEF Init, OrderInv, Ordered, PollNear, ReadInv, InOrder

LEMMA OrderNext ==
  ASSUME ShortPolls, OrderInv, [Next]_vars
  PROVE  OrderInv'
<1> USE DEF OrderInv
<1>1. HeldInv'
  BY HeldStep
<1>2. Moves
  BY StepMoves
<1>3. Ordered'
  BY <1>2, OrderedNext
<1>4. PollNear'
  BY PollNearNext
<1>5. ReadInv' /\ InOrder'
  <2>1. CASE UNCHANGED replay
    BY <1>1, <1>2, <2>1, ReadKept
  <2>2. CASE BeginReplay
    BY <2>2, ReadBegun
  <2>3. CASE ReplayFile
    BY <2>3, FileReplayed
  <2>4. CASE EndReplay
    BY <2>4, ReadEnded
  <2>5. UNCHANGED replay \/ BeginReplay \/ ReplayFile \/ EndReplay
    BY DEF Next, Tick, SameHour, WriteBlock, Rotate, BeginCopy, EndCopy, CopyNotMade,
       CopyCut, OpenLog, StartOver, Stop, Restart, Compress, MapFails, WriteSizes,
       BeginLz4, EndLz4, CompressFails, UnlinkPlain, Replay, vars
  <2> QED BY <2>1, <2>2, <2>3, <2>4, <2>5
<1> QED BY <1>1, <1>3, <1>4, <1>5

(* While a client replays less than a day, time never goes back, whatever  *)
(* is rotated and compressed meanwhile: for hours and days of any length,  *)
(* any ranges, crashes and sleep, as long as no poll goes on past the hour *)
(* after the one it began in.                                              *)
THEOREM ReplayInOrder ==
  ASSUME ShortPolls
  PROVE  Spec => []InOrder
<1>1. OrderInv => InOrder
  BY DEF OrderInv
<1>2. Init => OrderInv
  BY OrderInit
<1>3. OrderInv /\ [Next]_vars => OrderInv'
  BY OrderNext
<1> QED BY <1>1, <1>2, <1>3, PTL DEF Spec
=============================================================================
