----------------------------- MODULE FrameWriter -----------------------------
(***************************************************************************)
(* How the daemon puts a poll into the log: enigmatic_log_crush takes the  *)
(* bytes of the poll through LZ4F_compressFrame, which makes a frame of a  *)
(* header, blocks and an end mark.  The blocks are linked, so that one may *)
(* repeat what the ones before it say, unless there is only one.           *)
(*                                                                         *)
(* A byte of content is its place in all that was ever written.  What one  *)
(* block looks like when it is compressed is left open: it is shorter than *)
(* what it stands for, or the block is stored as it is.                    *)
(***************************************************************************)
EXTENDS Integers, Sequences, FiniteSetsExt

CONSTANTS
  BlockSizes,      \* the block sizes of LZ4, up to the one the daemon asks for
  ContentSizes,    \* how much a poll may have to say
  MaxFrames        \* bound: frames in a file

ASSUME BlockSizesAssumption ==
  /\ BlockSizes \in Seq(Nat \ {0}) /\ BlockSizes # <<>>
  /\ \A i \in 1 .. Len(BlockSizes) - 1 : BlockSizes[i] < BlockSizes[i + 1]
ASSUME ContentSizesAssumption == ContentSizes \subseteq Nat \ {0}

VARIABLES
  file,            \* the units in the file
  ends,            \* where frames end: after how many units and bytes
  written,         \* bytes of content the frames begun so far stand for
  size,            \* srcSize of the call that is under way
  left,            \* content of it that is in no block yet
  room,            \* what is left of dstCapacity
  stage            \* what the writer is doing

writerVars == <<file, ends, written, size, left, room, stage>>

(* The lengths of the pieces of a frame, in units. *)
minFHSize == 2
maxFHSize == 3
BHSize    == 2
EndMark   == 2

Asked == BlockSizes[Len(BlockSizes)]

(* LZ4F_optimalBSID: no larger a block than the content needs. *)
OptimalBlockSize(n) ==
  BlockSizes[Min({i \in DOMAIN BlockSizes : n <= BlockSizes[i]} \cup {Len(BlockSizes)})]

(* Deliberately wrong: the last block has no header. *)
compressBoundFullBlocks(n, block) ==
  BHSize * (n \div block) + n + EndMark

(* LZ4F_compressBound_internal, with autoFlush. *)
compressBound(n, block) ==
  BHSize * (n \div block + IF n % block > 0 THEN 1 ELSE 0) + n + EndMark

compressFrameBound(n, block) == maxFHSize + compressBound(n, block)

(* Only one block: nothing to link. *)
IsLinked(n) == n > OptimalBlockSize(n)

(* A unit also knows, as history, how much was written before its frame.   *)
HeaderUnits(n) ==
  [i \in 1 .. minFHSize |->
     [kind |-> "header", part |-> i, max |-> OptimalBlockSize(n), linked |-> IsLinked(n),
      base |-> written]]

BlockHeader(n, stored) ==
  [i \in 1 .. BHSize |-> [kind |-> "block", part |-> i, size |-> n, stored |-> stored]]

StoredUnits(from, n) == [i \in 1 .. n |-> [kind |-> "byte", value |-> from + i - 1]]

(* A compressed block of c units that stands for n bytes. *)
CodeUnits(from, n, c) ==
  [i \in 1 .. c |-> [kind |-> "code", part |-> i, of |-> c, from |-> from, size |-> n]]

-----------------------------------------------------------------------------
WriterInit ==
  /\ file = <<>> /\ ends = {[units |-> 0, bytes |-> 0]} /\ written = 0
  /\ size = 0 /\ left = 0 /\ room = 0 /\ stage = "idle"

(* enigmatic_log_crush and LZ4F_compressFrame: room is made for the block  *)
(* size that was asked for, which need not be the one that is used.        *)
Crush ==
  /\ stage = "idle" /\ Cardinality(ends) <= MaxFrames
  /\ \E n \in ContentSizes :
       /\ size' = n /\ left' = n
       /\ room' = compressFrameBound(n, Asked)
       /\ stage' = IF room' < compressFrameBound(n, OptimalBlockSize(n)) THEN "failed"
                   ELSE "begin"
  /\ UNCHANGED <<file, ends, written>>

(* Where the code returns an error it writes nothing; what the model has   *)
(* written then does not matter, as no step follows.                       *)
CompressBegin ==
  /\ stage = "begin"
  /\ stage' = IF room < maxFHSize THEN "failed" ELSE "update"
  /\ file' = file \o HeaderUnits(size) /\ room' = room - minFHSize
  /\ UNCHANGED <<ends, written, size, left>>

(* LZ4F_compressUpdate looks at the room before it makes the blocks. *)
CompressUpdate ==
  /\ stage = "update"
  /\ stage' = IF room < compressBound(size, OptimalBlockSize(size)) THEN "failed" ELSE "blocks"
  /\ UNCHANGED <<file, ends, written, size, left, room>>

Lesser(m, n) == IF m < n THEN m ELSE n

(* LZ4F_makeBlock: full blocks, and with autoFlush what remains. *)
MakeBlock ==
  /\ stage = "blocks" /\ left > 0
  /\ LET n    == Lesser(left, OptimalBlockSize(size))
         from == written + 1
         c    == Lesser(2, n - 1)
     IN /\ \/ file' = file \o BlockHeader(n, TRUE) \o StoredUnits(from, n)
           \/ c > 0 /\ file' = file \o BlockHeader(c, FALSE) \o CodeUnits(from, n, c)
        /\ left' = left - n
        /\ written' = written + n
  /\ room' = room - (Len(file') - Len(file))
  /\ UNCHANGED <<ends, size, stage>>

(* LZ4F_compressEnd. *)
CompressEnd ==
  /\ stage = "blocks" /\ left = 0
  /\ stage' = IF room < EndMark THEN "failed" ELSE "idle"
  /\ file' = file \o BlockHeader(0, FALSE) /\ room' = room - EndMark
  /\ ends' = ends \cup {[units |-> Len(file'), bytes |-> written]}
  /\ UNCHANGED <<written, size, left>>

WriterNext == Crush \/ CompressBegin \/ CompressUpdate \/ MakeBlock \/ CompressEnd

-----------------------------------------------------------------------------
(* The room the daemon makes for a frame is enough at every step of making *)
(* it, whatever its blocks compress to: enigmatic_log_crush does not look  *)
(* at what LZ4F_compressFrame returns before it writes that many bytes.    *)
RoomIsEnough == stage # "failed" /\ room >= 0
=============================================================================
