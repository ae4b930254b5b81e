------------------------------ MODULE LogFollow ------------------------------
(***************************************************************************)
(* How a client follows the bytes of the log.  The daemon appends a        *)
(* compressed frame at the end of a poll and empties the file when it      *)
(* rotates or starts again.  The client is told when a file of the         *)
(* directory changes, compares the size with the one it last read to, and  *)
(* reads on from its offset, or from the start if the file has shrunk.  It *)
(* can only decode whole frames from a place where one begins, and ends    *)
(* the program otherwise.                                                  *)
(*                                                                         *)
(* The file is a sequence of units, the pieces a write or a read moves;    *)
(* what a frame says is left to DeviceStream.                              *)
(***************************************************************************)
EXTENDS Integers, Sequences

CONSTANTS
  FrameSizes,      \* how many units a frame may have
  Torn,            \* whether a frame may be seen while it is being written
  Prompt,          \* whether the client looks at a new file before it has
                   \* become as long as what the client read of the old one
  MaxFrames,       \* bound: frames in one file
  MaxEpoch         \* bound: times the file is emptied

ASSUME SizesAssumption == FrameSizes \subseteq Nat \ {0}
ASSUME ModesAssumption == Torn \in BOOLEAN /\ Prompt \in BOOLEAN

VARIABLES
  file,            \* the units in the file
  epoch,           \* how often the file has been emptied
  frames,          \* frames begun since then
  writing,         \* units of the frame being written that are still to come
  notified,        \* the client has been told of a change
  pc,              \* what the client is doing
  truncated, offset, file_size,    \* the fields of the client
  want,            \* st_size in enigmatic_client_read
  zbuf,            \* units read and not yet decoded
  decoded,         \* the frames the snapshot was built from
  begun            \* history: the epoch the client began to read in

log    == <<file, epoch, frames, writing>>
client == <<pc, truncated, offset, file_size, want, zbuf, decoded, begun>>
vars   == <<log, notified, client>>

Unit == [epoch : Nat, frame : Nat, unit : Nat, of : FrameSizes]

Frame(e, n, size) ==
  [u \in 1 .. size |-> [epoch |-> e, frame |-> n, unit |-> u, of |-> size]]

-----------------------------------------------------------------------------
Init ==
  /\ file = <<>> /\ epoch = 0 /\ frames = 0 /\ writing = <<>>
  /\ notified = FALSE
  /\ pc = "idle" /\ truncated = FALSE /\ offset = 0 /\ file_size = 0
  /\ want = 0 /\ zbuf = <<>> /\ decoded = <<>> /\ begun = 0

(* What the assumption Prompt says: the client will see that the file is   *)
(* another one when it next looks.                                         *)
WillNotice(length) ==
  Prompt => file_size = 0 \/ begun = epoch \/ length < file_size

(* enigmatic_log_crush. *)
BeginFrame ==
  /\ writing = <<>> /\ frames < MaxFrames
  /\ \E size \in FrameSizes :
       /\ WillNotice(Len(file) + size)
       /\ writing' = Frame(epoch, frames + 1, size)
  /\ frames' = frames + 1
  /\ UNCHANGED <<file, epoch, notified, client>>

(* A write is one call, but the size of the file may grow in several steps *)
(* while another process looks at it.                                      *)
Write ==
  /\ writing # <<>>
  /\ \E n \in IF Torn THEN 1 .. Len(writing) ELSE {Len(writing)} :
       /\ file' = file \o SubSeq(writing, 1, n)
       /\ writing' = SubSeq(writing, n + 1, Len(writing))
       /\ notified' = (notified \/ n = Len(writing))
  /\ UNCHANGED <<epoch, frames, client>>

(* enigmatic_log_open, at a rotation or in a new daemon after a crash. *)
Empty ==
  /\ epoch < MaxEpoch
  /\ file' = <<>> /\ epoch' = epoch + 1 /\ frames' = 0 /\ writing' = <<>>
  /\ notified' = TRUE
  /\ UNCHANGED client

(* The client watches the directory, where other files change too. *)
OtherFile ==
  /\ ~notified /\ notified' = TRUE
  /\ UNCHANGED <<log, client>>

-----------------------------------------------------------------------------
Shrunk == file # <<>> /\ Len(file) < file_size

(* Deliberately wrong: a file that shrank is taken for one that grew. *)
LookBlind ==
  /\ pc = "idle" /\ notified /\ notified' = FALSE
  /\ UNCHANGED truncated
  /\ pc' = IF Shrunk \/ Len(file) > file_size THEN "open" ELSE "idle"
  /\ UNCHANGED <<log, offset, file_size, want, zbuf, decoded, begun>>

(* cb_file_modified: an empty file, or one as long as before, is ignored. *)
Look ==
  /\ pc = "idle" /\ notified /\ notified' = FALSE
  /\ truncated' = (truncated \/ Shrunk)
  /\ pc' = IF Shrunk \/ Len(file) > file_size THEN "open" ELSE "idle"
  /\ UNCHANGED <<log, offset, file_size, want, zbuf, decoded, begun>>

(* Deliberately wrong: the snapshot is kept when the file is read again. *)
ResetOffsetsOnly ==
  /\ offset' = 0 /\ truncated' = FALSE /\ begun' = epoch
  /\ UNCHANGED decoded

(* enigmatic_client_reset. *)
Reset ==
  /\ offset' = 0 /\ truncated' = FALSE /\ begun' = epoch
  /\ decoded' = <<>>

(* The first half of enigmatic_client_read: reopen the file if it was      *)
(* truncated, then ask how long it is.  The size is only remembered when   *)
(* there is something to read.                                             *)
Open ==
  /\ pc = "open"
  /\ \/ truncated /\ Reset
     \/ /\ ~truncated /\ UNCHANGED <<truncated, offset, decoded>>
        /\ begun' = IF file_size = 0 THEN epoch ELSE begun
  /\ want' = Len(file)
  /\ file_size' = IF Len(file) > offset' THEN Len(file)
                  ELSE IF truncated THEN 0 ELSE file_size
  /\ pc' = IF Len(file) > offset' THEN "read" ELSE "idle"
  /\ UNCHANGED <<log, notified, zbuf>>

Read ==
  /\ pc = "read" /\ offset < want /\ offset < Len(file)
  /\ zbuf' = Append(zbuf, file[offset + 1])
  /\ offset' = offset + 1
  /\ UNCHANGED <<log, notified, pc, truncated, file_size, want, decoded, begun>>

(* Deliberately wrong: what was read before the end came is decoded. *)
ReadEndKeeps ==
  /\ pc = "read" /\ offset < want /\ offset >= Len(file)
  /\ want' = offset
  /\ UNCHANGED <<log, notified, pc, truncated, offset, file_size, zbuf, decoded, begun>>

(* read() returns 0, the file was emptied meanwhile: what was read of it   *)
(* is dropped.                                                             *)
ReadEnd ==
  /\ pc = "read" /\ offset < want /\ offset >= Len(file)
  /\ zbuf' = <<>> /\ pc' = "idle"
  /\ UNCHANGED <<log, notified, truncated, offset, file_size, want, decoded, begun>>

IsFirst(u) == u.unit = 1

FirstUnits(units) ==
  LET among[i \in 0 .. Len(units)] ==
        IF i = 0 THEN <<>>
        ELSE IF IsFirst(units[i]) THEN Append(among[i - 1], units[i])
        ELSE among[i - 1]
  IN among[Len(units)]

(* The units are whole frames, one after the other. *)
Decodes(units) ==
  /\ units # <<>> => IsFirst(units[1]) /\ units[Len(units)].unit = units[Len(units)].of
  /\ \A i \in 1 .. Len(units) - 1 :
       IF units[i].unit = units[i].of THEN IsFirst(units[i + 1])
       ELSE units[i + 1] = [units[i] EXCEPT !.unit = @ + 1]

(* The second half of enigmatic_client_read; anything but whole frames     *)
(* ends the program.                                                       *)
Decode ==
  /\ pc = "read" /\ offset = want
  /\ \/ /\ Decodes(zbuf) /\ pc' = "idle"
        /\ decoded' = decoded \o FirstUnits(zbuf)
     \/ /\ ~Decodes(zbuf) /\ pc' = "failed"
        /\ UNCHANGED decoded
  /\ zbuf' = <<>>
  /\ UNCHANGED <<log, notified, truncated, offset, file_size, want, begun>>

Daemon == BeginFrame \/ Write \/ Empty \/ OtherFile

Client == Look \/ Open \/ Read \/ ReadEnd \/ Decode

Next == Daemon \/ Client

Spec == Init /\ [][Next]_vars

(* A write that has begun ends, and a client that was told of a change     *)
(* runs its callback to the end.                                           *)
FairSpec == Spec /\ WF_vars(Write) /\ WF_vars(Client)

-----------------------------------------------------------------------------
(* Every variable has the type its comment gives it, and no more is read   *)
(* than was there when the client asked.                                   *)
TypeOK ==
  /\ file \in Seq(Unit) /\ writing \in Seq(Unit)
  /\ epoch \in 0 .. MaxEpoch /\ frames \in 0 .. MaxFrames
  /\ notified \in BOOLEAN /\ truncated \in BOOLEAN
  /\ pc \in {"idle", "open", "read", "failed"}
  /\ offset \in Nat /\ file_size \in Nat /\ want \in Nat
  /\ pc = "read" => offset <= want /\ Len(zbuf) <= offset /\ want = file_size
  /\ zbuf \in Seq(Unit) /\ decoded \in Seq(Unit) /\ begun \in 0 .. epoch

(* The client is never made to decode anything but whole frames, whenever  *)
(* the file is emptied and grows again between its steps.  It fails when a *)
(* frame can be seen before it has been written to its end.                *)
NeverFails == pc # "failed"

(* A snapshot is built from the frames of one file, from the first one on, *)
(* each once and in the order they were written.  It fails when a new file *)
(* has become as long as the client last measured the old one, before the  *)
(* client looks again or reads to its end: it goes on from its offset, on  *)
(* top of what it had of the old file.                                     *)
InOrder ==
  \A i \in DOMAIN decoded : decoded[i].epoch = decoded[1].epoch /\ decoded[i].frame = i

(* The client has decoded the first n frames of the file of epoch e. *)
HasAll(e, n) ==
  Len(decoded) = n /\ \A i \in DOMAIN decoded : decoded[i].epoch = e

(* When the file is left alone the client comes to have decoded all of it: *)
(* no change is missed between a look and the reading it leads to.         *)
CatchesUp ==
  \A e \in 0 .. MaxEpoch, n \in 1 .. MaxFrames :
    <>[](epoch = e /\ frames = n) => <>[]HasAll(e, n)
=============================================================================
