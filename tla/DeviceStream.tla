---------------------------- MODULE DeviceStream ----------------------------
(***************************************************************************)
(* The device monitors of the daemon, the event log they write and the     *)
(* client that follows it.  The logger thread compares what the system     *)
(* reports with its cache, kind by kind, collects the differences in a     *)
(* private buffer and appends the buffer to the log at the end of a poll.  *)
(* The client reads what was appended since it last looked and replays it  *)
(* on its snapshot.  The log is truncated when it is rotated and when the  *)
(* daemon starts again, whether or not the client has read it to the end.  *)
(***************************************************************************)
EXTENDS LogRecords, UniqueIds

CONSTANTS
  Monitors,        \* the kinds in the order a poll visits them
  EveryTick,       \* kinds visited at every tick, not only at block ends
  Skippable,       \* kinds whose visit is given up when a lock is taken
  Samples,         \* Samples[k]: the device lists the system may report
  BlockEvery,      \* ticks from one block to the next (10 in the code)
  RefreshEvery,    \* ticks from one broadcast to the next
  MaxUnread        \* bound: no poll starts with more unread records

IsReport(s) == DOMAIN s \subseteq Names /\ s \in [DOMAIN s -> Int]

ASSUME MonitorsAssumption == Monitors \in Seq(Kinds)
ASSUME SamplesAssumption  == \A k \in Kinds : \A s \in Samples[k] : IsReport(s)
ASSUME PeriodsAssumption  == BlockEvery \in Nat \ {0} /\ RefreshEvery \in Nat \ {0}
ASSUME BoundAssumption    == MaxUnread \in Nat

VARIABLES
  pc,              \* where the logger thread is
  mon,             \* the position in Monitors of the kind being visited
  sample,          \* the device list just reported for that kind
  inited,          \* kinds that have a cache
  cache,           \* the devices the daemon tracks
  unique_ids,      \* enigmatic->unique_ids
  broadcast,       \* enigmatic->broadcast
  poll_count,      \* enigmatic->poll_count
  buf,             \* log.file->buf, records not yet in the file
  unread,          \* the records in the file after the client's offset
  stale,           \* the file was truncated since the client last read it
  cbuf,            \* records the client has read and not yet dispatched
  snapshot         \* client->snapshot

daemon == <<pc, mon, sample, inited, cache, unique_ids, broadcast,
            poll_count, buf>>
file   == <<unread, stale>>
client == <<cbuf, snapshot>>
vars   == <<daemon, file, client>>

-----------------------------------------------------------------------------
Kind == Monitors[mon]

(* Deliberately wrong, to show that the properties notice: a broadcast     *)
(* does not force a block.                                                 *)
BlockByCountOnly == poll_count % BlockEvery = 0

Block == broadcast \/ poll_count % BlockEvery = 0

CachedNames(k) == {d.name : d \in cache[k]}

SnapshotNames(k) == {d.name : d \in snapshot[k]}

Missing == DOMAIN sample \ CachedNames(Kind)

Gone == {d \in cache[Kind] : d.name \notin DOMAIN sample}

Changed == {d \in cache[Kind] : d.name \in DOMAIN sample
                                /\ d.value # sample[d.name]}

NewDevice(n) == [name |-> n, uid |-> unique_id_find(unique_ids),
                 value |-> sample[n]]

With(d)    == [cache EXCEPT ![Kind] = @ \cup {d}]
Without(d) == [cache EXCEPT ![Kind] = @ \ {d}]
Renewed(d) == [cache EXCEPT ![Kind] =
                 (@ \ {d}) \cup {[d EXCEPT !.value = sample[d.name]]}]

(* The counter only matters modulo the two periods, and in being 0 once. *)
NextPollCount == IF poll_count = BlockEvery * RefreshEvery
                 THEN 1 ELSE poll_count + 1

-----------------------------------------------------------------------------
Init ==
  /\ pc = "top" /\ mon = 1 /\ sample = <<>> /\ inited = {}
  /\ cache = Nothing /\ unique_ids = <<>>
  /\ broadcast = TRUE /\ poll_count = 0 /\ buf = <<>>
  /\ unread = <<>> /\ stale = FALSE
  /\ cbuf = <<>> /\ snapshot = Nothing

(* enigmatic_log_rotate when the hour has changed: the file is closed with *)
(* its last records, then opened again empty.                              *)
RotateClose ==
  /\ pc = "top"
  /\ unread' = unread \o <<HeaderOnly("EOF"), HeaderOnly("LAST_RECORD")>>
  /\ pc' = "reopen"
  /\ UNCHANGED <<mon, sample, inited, cache, unique_ids, broadcast,
                 poll_count, buf, stale, client>>

(* Deliberately wrong: a new file does not ask for a broadcast. *)
RotateOpenQuiet ==
  /\ pc = "reopen"
  /\ unread' = <<>> /\ stale' = TRUE
  /\ pc' = "rotated"
  /\ UNCHANGED <<mon, sample, inited, cache, unique_ids, broadcast,
                 poll_count, buf, client>>

RotateOpen ==
  /\ pc = "reopen"
  /\ unread' = <<>> /\ stale' = TRUE
  /\ broadcast' = TRUE
  /\ pc' = "rotated"
  /\ UNCHANGED <<mon, sample, inited, cache, unique_ids, poll_count, buf,
                 client>>

BeginPoll ==
  /\ pc \in {"top", "rotated"}
  /\ Len(unread) <= MaxUnread
  /\ buf' = IF broadcast THEN <<HeaderOnly("BROADCAST")>> ELSE <<>>
  /\ mon' = 1 /\ pc' = "poll"
  /\ UNCHANGED <<sample, inited, cache, unique_ids, broadcast, poll_count,
                 file, client>>

NotDue ==
  /\ pc = "poll" /\ mon <= Len(Monitors)
  /\ ~Block /\ Kind \notin EveryTick
  /\ mon' = mon + 1
  /\ UNCHANGED <<pc, sample, inited, cache, unique_ids, broadcast,
                 poll_count, buf, file, client>>

(* eina_lock_take_try fails: the kind's own thread holds the lock.  It     *)
(* cannot before the first visit, which starts that thread.                *)
LockContended ==
  /\ pc = "poll" /\ mon <= Len(Monitors)
  /\ Block \/ Kind \in EveryTick
  /\ Kind \in Skippable \cap inited
  /\ mon' = mon + 1
  /\ UNCHANGED <<pc, sample, inited, cache, unique_ids, broadcast,
                 poll_count, buf, file, client>>

BeginMonitor ==
  /\ pc = "poll" /\ mon <= Len(Monitors)
  /\ Block \/ Kind \in EveryTick
  /\ sample' \in Samples[Kind]
  /\ pc' = "refresh"
  /\ UNCHANGED <<mon, inited, cache, unique_ids, broadcast, poll_count, buf,
                 file, client>>

(* First visit of a kind: the cache is filled and nothing is logged. *)
FillCache ==
  /\ pc = "refresh" /\ Kind \notin inited
  /\ \E n \in Missing : cache' = With(NewDevice(n))
  /\ unique_ids' = ListAfterFind(unique_ids)
  /\ UNCHANGED <<pc, mon, sample, inited, broadcast, poll_count, buf, file,
                 client>>

(* The list is written as the cache has it, before this visit's changes. *)
WriteRefresh ==
  /\ pc = "refresh"
  /\ Kind \in inited \/ Missing = {}
  /\ inited' = inited \cup {Kind}
  /\ buf' = IF broadcast /\ cache[Kind] # {}
            THEN Append(buf, REFRESH(Kind, cache)) ELSE buf
  /\ pc' = "diff"
  /\ UNCHANGED <<mon, sample, cache, unique_ids, broadcast, poll_count, file,
                 client>>

(* Deliberately wrong: a device is forgotten and no DEL is logged. *)
LogDelQuiet ==
  /\ pc = "diff"
  /\ \E d \in Gone :
       /\ cache' = Without(d)
       /\ unique_ids' = unique_id_release(unique_ids, d.uid)
  /\ UNCHANGED <<pc, mon, sample, inited, broadcast, poll_count, buf, file,
                 client>>

LogDel ==
  /\ pc = "diff"
  /\ \E d \in Gone :
       /\ cache' = Without(d)
       /\ unique_ids' = unique_id_release(unique_ids, d.uid)
       /\ buf' = Append(buf, DEL(Kind, d.uid))
  /\ UNCHANGED <<pc, mon, sample, inited, broadcast, poll_count, file, client>>

LogAdd ==
  /\ pc = "diff" /\ Gone = {}
  /\ \E n \in Missing :
       /\ cache' = With(NewDevice(n))
       /\ unique_ids' = ListAfterFind(unique_ids)
       /\ buf' = Append(buf, ADD(Kind, NewDevice(n)))
  /\ UNCHANGED <<pc, mon, sample, inited, broadcast, poll_count, file, client>>

LogMod ==
  /\ pc = "diff" /\ Gone = {}
  /\ \E d \in Changed :
       /\ cache' = Renewed(d)
       /\ buf' = Append(buf, MOD(Kind, d.uid, sample[d.name] - d.value))
  /\ UNCHANGED <<pc, mon, sample, inited, unique_ids, broadcast, poll_count,
                 file, client>>

EndMonitor ==
  /\ pc = "diff" /\ Gone = {} /\ Missing = {} /\ Changed = {}
  /\ mon' = mon + 1 /\ sample' = <<>> /\ pc' = "poll"
  /\ UNCHANGED <<inited, cache, unique_ids, broadcast, poll_count, buf, file,
                 client>>

(* BLOCK_END, then enigmatic_log_crush appends the buffer to the file. *)
EndPoll ==
  /\ pc = "poll" /\ mon > Len(Monitors)
  /\ unread' = unread \o (IF Block THEN Append(buf, HeaderOnly("BLOCK_END"))
                          ELSE buf)
  /\ buf' = <<>>
  /\ broadcast' = (poll_count # 0 /\ poll_count % RefreshEvery = 0)
  /\ poll_count' = NextPollCount
  /\ mon' = 1 /\ pc' = "top"
  /\ UNCHANGED <<sample, inited, cache, unique_ids, stale, client>>

(* The process ends, and its memory with it: what the next one starts from. *)
ProcessEnds ==
  /\ pc' = "down"
  /\ mon' = 1 /\ sample' = <<>> /\ inited' = {}
  /\ cache' = Nothing /\ unique_ids' = <<>>
  /\ broadcast' = TRUE /\ poll_count' = 0 /\ buf' = <<>>

(* enigmatic_log_close on the way out. *)
Shutdown ==
  /\ pc = "top"
  /\ unread' = Append(unread, HeaderOnly("LAST_RECORD"))
  /\ ProcessEnds
  /\ UNCHANGED <<stale, client>>

(* The process dies, and with it the records it had not appended. *)
Crash ==
  /\ pc # "down"
  /\ ProcessEnds
  /\ UNCHANGED <<file, client>>

(* enigmatic_log_open truncates the log a new daemon finds. *)
Restart ==
  /\ pc = "down"
  /\ pc' = "top"
  /\ unread' = <<>> /\ stale' = TRUE
  /\ UNCHANGED <<mon, sample, inited, cache, unique_ids, broadcast,
                 poll_count, buf, client>>

-----------------------------------------------------------------------------
(* Deliberately wrong: the snapshot survives a truncation. *)
SnapshotKept == snapshot

SnapshotToUpdate == IF stale THEN Nothing ELSE snapshot

(* Deliberately wrong: the client never looks at a file that shrank. *)
ClientReadGrowthOnly ==
  /\ cbuf = <<>> /\ unread # <<>> /\ ~stale
  /\ cbuf' = unread /\ unread' = <<>>
  /\ snapshot' = snapshot
  /\ UNCHANGED <<daemon, stale>>

(* The client is told that the file changed and takes all that is there.   *)
(* A file that shrank is read again from its start into an empty snapshot; *)
(* an empty file is ignored.                                               *)
ClientRead ==
  /\ cbuf = <<>> /\ unread # <<>>
  /\ cbuf' = unread /\ unread' = <<>>
  /\ stale' = FALSE
  /\ snapshot' = SnapshotToUpdate
  /\ UNCHANGED daemon

ClientDispatch ==
  /\ cbuf # <<>>
  /\ snapshot' = Dispatch(Head(cbuf), snapshot)
  /\ cbuf' = Tail(cbuf)
  /\ UNCHANGED <<daemon, file>>

Poll ==
  \/ BeginPoll \/ NotDue \/ LockContended \/ BeginMonitor
  \/ FillCache \/ WriteRefresh \/ LogDel \/ LogAdd \/ LogMod
  \/ EndMonitor \/ EndPoll \/ RotateOpen

Next ==
  \/ Poll
  \/ RotateClose \/ Shutdown \/ Crash \/ Restart
  \/ ClientRead \/ ClientDispatch

Spec == Init /\ [][Next]_vars

(* The logger keeps polling while the daemon runs, and a follower is woken *)
(* for a file that keeps being written.                                    *)
Fairness == WF_vars(Poll) /\ SF_vars(ClientRead) /\ WF_vars(ClientDispatch)

FairSpec == Spec /\ Fairness

-----------------------------------------------------------------------------
(* Every variable has the type its comment gives it. *)
TypeOK ==
  /\ pc \in {"top", "reopen", "rotated", "poll", "refresh", "diff", "down"}
  /\ mon \in 1 .. Len(Monitors) + 1
  /\ pc \in {"refresh", "diff"} => mon \in 1 .. Len(Monitors)
  /\ IsReport(sample)
  /\ inited \in SUBSET Kinds
  /\ cache \in Contents
  /\ unique_ids \in Seq(UidEntry)
  /\ broadcast \in BOOLEAN /\ poll_count \in Nat
  /\ buf \in Seq(Record) /\ unread \in Seq(Record) /\ stale \in BOOLEAN
  /\ cbuf \in Seq(Record)
  /\ snapshot \in Contents

(* No two devices of the cache, of the same kind or of different kinds,    *)
(* have the same identifier, and no kind has two devices of one name.      *)
DistinctUids ==
  \A j, k \in Kinds : \A d \in cache[j], e \in cache[k] :
    /\ d.uid = e.uid => j = k /\ d = e
    /\ j = k /\ d.name = e.name => d = e

(* The identifiers marked as taken in the list of uid.c are exactly those  *)
(* of the devices in the cache, whatever mix of kinds came and went: none  *)
(* leaks, none is free while its device is there.  In particular           *)
(* unique_id_release is never given an identifier it does not know, which  *)
(* would end the daemon (uid.c:45).                                        *)
ReleaseKnowsId ==
  /\ InUse(unique_ids) = UNION {{d.uid : d \in cache[k]} : k \in Kinds}
  /\ \A i, j \in DOMAIN unique_ids :
       unique_ids[i].id = unique_ids[j].id => i = j

(* The daemon sleeps between two polls and the follower has read it all.   *)
CaughtUp == pc = "top" /\ ~stale /\ unread = <<>> /\ cbuf = <<>>

(* A follower that has caught up shows no device that is gone, none under  *)
(* another's name and none with another value than the daemon's, for every *)
(* kind: through identifiers that changed hands, rotations that cut off    *)
(* what it had not read, crashes and restarts, and visits given up.        *)
NoGhosts == CaughtUp => \A k \in Kinds : snapshot[k] \subseteq cache[k]

(* Of the kinds that are visited without a try lock the follower shows     *)
(* every device.                                                           *)
Complete == CaughtUp => \A k \in Kinds \ Skippable : cache[k] \subseteq snapshot[k]

(* At every record, caught up or not, the follower's list of a kind never  *)
(* has two devices under one identifier: the DEL of the old one always     *)
(* comes before the ADD of the new one.                                    *)
OneDevicePerUid ==
  \A k \in Kinds : \A d, e \in snapshot[k] : d.uid = e.uid => d = e

(* Every record fits the list it meets: a MOD or a DEL of a kind without a *)
(* try lock names a device the follower has (the handlers would drop it    *)
(* without a word), and no ADD brings one it already has (they append      *)
(* without looking, and the list would show it twice).                     *)
Fits(r, S) ==
  /\ r.event \in {"MOD", "DEL"} /\ r.kind \notin Skippable =>
       \E d \in S[r.kind] : d.uid = r.uid
  /\ r.event = "ADD" =>
       \A d \in S[r.kind] : \A e \in r.items : d.name # e.name
RecordsFit == cbuf # <<>> => Fits(Head(cbuf), snapshot)

(* When the daemon keeps running and a device of a kind without a try lock *)
(* no longer comes or goes, the follower again and again shows it if it is *)
(* there, and does not if it is not, whatever the other devices do.        *)
Settles(k, n) ==
  /\ <>[](pc # "down")
  /\ <>[][(n \in CachedNames(k)') <=> (n \in CachedNames(k))]_vars
Converges ==
  \A k \in Kinds \ Skippable : \A n \in Names :
    Settles(k, n) => []<>(n \in SnapshotNames(k) <=> n \in CachedNames(k))
=============================================================================
