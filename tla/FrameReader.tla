----------------------------- MODULE FrameReader -----------------------------
(***************************************************************************)
(* How a client gets the content of the frames back: LZ4F_decompress, the  *)
(* state machine that is called with a piece of the input and a buffer for *)
(* the output until the frame is over, and the loop of                     *)
(* enigmatic_client_read around it.                                        *)
(*                                                                         *)
(* A block may repeat what the last Window bytes before it say.  Where the *)
(* decoder finds those bytes, its dictionary, changes all the time: they   *)
(* are in the buffer of the caller, who takes it back at the end of a      *)
(* call, or have been copied into a buffer of its own.                     *)
(***************************************************************************)
EXTENDS FrameWriter

CONSTANTS
  Window,          \* 64 KB
  Capacities,      \* output buffers a caller may offer
  Offers           \* pieces of input a caller may offer, if not all there is

ASSUME WindowAssumption == Window \in Nat \ {0}
ASSUME CallerAssumption == Capacities \subseteq Nat \ {0} /\ Offers \subseteq Nat \ {0}

VARIABLES
  caller,          \* "client" or "any", and what the caller is doing
  end,             \* the end of the data the caller has
  dStage, info, target, held,      \* dStage, frameInfo, tmpInTarget, tmpIn
  tmpOutBuffer, tmpOut, tmpOutSize, tmpOutStart,
  dict,            \* where the dictionary is, and dictSize
  src, srcEnd,     \* srcPtr and srcEnd, counted from the start of the data
  dst, dstAt,      \* dstBuffer and dstPtr
  before,          \* src when the call began
  out,             \* what the caller has been given
  inside           \* history: every copy was inside its buffers

dctx == <<dStage, info, target, held, tmpOutBuffer, tmpOut, tmpOutSize, tmpOutStart, dict>>
call == <<src, srcEnd, dst, dstAt, before>>
readerVars == <<caller, end, dctx, call, out, inside>>
vars == <<writerVars, readerVars>>

Unwritten == 0                     \* what a buffer holds that nobody wrote
Buffer(n) == [i \in 0 .. n - 1 |-> Unwritten]

NoDict == [in |-> "none", at |-> 0, size |-> 0]

(* A dictionary that begins where tmpOutBuffer does. *)
InTmp(n) == [in |-> "tmp", at |-> 0, size |-> n]

ReaderInit ==
  /\ caller = [kind |-> "none", at |-> "away"]
  /\ end = 0 /\ src = 0 /\ srcEnd = 0 /\ before = 0
  /\ dStage = "getFrameHeader" /\ info = [max |-> 0, linked |-> FALSE, base |-> 0]
  /\ target = 0 /\ held = <<>>
  /\ tmpOutBuffer = <<>> /\ tmpOut = 0 /\ tmpOutSize = 0 /\ tmpOutStart = 0
  /\ dict = NoDict
  /\ dst = <<>> /\ dstAt = 0
  /\ out = <<>> /\ inside = TRUE

Init == WriterInit /\ ReaderInit

-----------------------------------------------------------------------------
(* Memory: n cells of a buffer, from a place, and a copy into it. *)
Fits(buf, at, n) == n = 0 \/ (at \in DOMAIN buf /\ at + n - 1 \in DOMAIN buf)

Cells(buf, at, n) ==
  [i \in 1 .. n |-> IF at + i - 1 \in DOMAIN buf THEN buf[at + i - 1] ELSE Unwritten]

Paste(buf, at, cells) ==
  [i \in DOMAIN buf |-> IF i \in at .. at + Len(cells) - 1 THEN cells[i - at + 1] ELSE buf[i]]

DictBuffer(d, t, o) == IF d.in = "tmp" THEN t ELSE IF d.in = "dst" THEN o ELSE <<>>

(* A copy of n cells into tmpOutBuffer t at a place, out of the dictionary *)
(* d (o is the caller's buffer): what t becomes, and whether it was inside *)
(* both and did not overlap itself.                                        *)
FromDict(t, o, d, at, from, n) ==
  [tmp    |-> Paste(t, at, Cells(DictBuffer(d, t, o), from, n)),
   inside |-> /\ n >= 0 /\ Fits(t, at, n) /\ Fits(DictBuffer(d, t, o), from, n)
              /\ d.in = "tmp" => n = 0 \/ at + n <= from \/ from + n <= at]

(* What must be in front of tmpOut for the rest of it: the bytes before    *)
(* it, as far as there is place.                                           *)
InFrontOfTmpOut(t, o, d) ==
  LET n == Lesser(tmpOut, IF tmpOutSize > Window THEN 0 ELSE Window - tmpOutSize)
  IN FromDict(t, o, d, tmpOut - n, d.at + d.size - tmpOutStart - n, n)

(* LZ4F_updateDict: n bytes have been put into the caller's buffer o, at a *)
(* place; within says that they are in tmpOut too.  Continue the           *)
(* dictionary where it is, or move it to the buffer that has all of it, or *)
(* gather it in tmpOutBuffer.                                              *)
UpdateDict(t, o, at, n, within) ==
  LET d == IF dict.size = 0 THEN [in |-> "dst", at |-> at, size |-> 0] ELSE dict
      Becomes(dd, tt, ok) == [dict |-> dd, tmp |-> tt, inside |-> ok]
      Joined(keep) ==
        LET c == FromDict(t, o, d, 0, d.at + d.size - keep, keep)
        IN Becomes(InTmp(keep + n), Paste(c.tmp, keep, Cells(o, at, n)),
                   c.inside /\ Fits(t, keep, n))
  IN IF d.in = "dst" /\ d.at + d.size = at
     THEN Becomes([d EXCEPT !.size = @ + n], t, TRUE)
     ELSE IF at + n >= Window
     THEN Becomes([in |-> "dst", at |-> 0, size |-> at + n], t, TRUE)
     ELSE IF within /\ d.in = "tmp"
     THEN Becomes([d EXCEPT !.size = @ + n], t, d.size = tmpOut + tmpOutStart)
     ELSE IF within
     THEN LET c == InFrontOfTmpOut(t, o, d)
          IN Becomes(InTmp(tmpOut + tmpOutStart + n), c.tmp, c.inside)
     ELSE IF d.in = "tmp" /\ d.size + n <= Cardinality(DOMAIN t)
     THEN Becomes(InTmp(d.size + n), Paste(t, d.size, Cells(o, at, n)), TRUE)
     ELSE Joined(IF d.in = "tmp" THEN Window - n ELSE Lesser(Window - n, d.size))

-----------------------------------------------------------------------------
(* The caller.  It has what was in the file when it looked, and the        *)
(* client's own loop is one caller; any other may offer the input piece by *)
(* piece and buffers of any size.                                          *)
BeginReading ==
  /\ stage = "idle" /\ file # <<>> /\ caller.kind = "none"
  /\ \/ caller' = [kind |-> "client", at |-> "frame"] /\ end' \in 1 .. Len(file)
     \/ caller' = [kind |-> "any", at |-> "loop"] /\ end' = Len(file)
  /\ UNCHANGED <<writerVars, dctx, call, out, inside>>

DecodedHeader(unit) ==
  /\ info' = [max |-> unit.max, linked |-> unit.linked, base |-> unit.base]
  /\ dStage' = "init"

(* LZ4F_getFrameInfo, in enigmatic_client_read.  A header of which not all *)
(* is there ends the program, by way of this error or, where it reads past *)
(* the end, that of the first LZ4F_decompress.                             *)
GetFrameInfo ==
  /\ caller.at = "frame" /\ src < end
  /\ \/ /\ end - src < minFHSize /\ caller' = [caller EXCEPT !.at = "failed"]
        /\ UNCHANGED <<dStage, info, src>>
     \/ /\ end - src >= minFHSize /\ caller' = [caller EXCEPT !.at = "loop"]
        /\ DecodedHeader(file[src + 1]) /\ src' = src + minFHSize
  /\ UNCHANGED <<writerVars, end, target, held, tmpOutBuffer, tmpOut, tmpOutSize, tmpOutStart,
                 dict, srcEnd, dst, dstAt, before, out, inside>>

(* A truncated frame ends the client program. *)
Truncated ==
  /\ caller = [kind |-> "client", at |-> "loop"] /\ src >= end
  /\ caller' = [caller EXCEPT !.at = "failed"]
  /\ UNCHANGED <<writerVars, end, dctx, call, out, inside>>

(* The client offers all it has and a buffer of one block. *)
Offered ==
  IF caller.kind = "client" THEN {<<end, info.max>>}
  ELSE {<<e, n>> : e \in {end} \cup {i \in src + 1 .. end : i - src \in Offers}, n \in Capacities}

(* LZ4F_decompress begins. *)
Decompress ==
  /\ caller.at = "loop"
  /\ src < end \/ (caller.kind = "any" /\ dStage = "flushOut")
  /\ \E offer \in Offered :
       /\ srcEnd' = offer[1]
       /\ dst' = Buffer(offer[2]) /\ dstAt' = 0
  /\ before' = src
  /\ caller' = [caller EXCEPT !.at = "call"]
  /\ UNCHANGED <<writerVars, end, dctx, src, out, inside>>

(* The stages of LZ4F_decompress; doAnotherStage is 0 when at is "leave".  *)
At(s) == caller.at = "call" /\ dStage = s

Leave == caller' = [caller EXCEPT !.at = "leave"]

TheInput == UNCHANGED <<writerVars, end, srcEnd, before>>

TheTmpOut == UNCHANGED <<tmpOutBuffer, tmpOut, tmpOutSize, tmpOutStart, dict>>

TheOutput == UNCHANGED <<dst, dstAt, out, inside>>

GetFrameHeader ==
  /\ At("getFrameHeader")
  /\ \/ /\ srcEnd - src >= maxFHSize
        /\ DecodedHeader(file[src + 1]) /\ src' = src + minFHSize
        /\ UNCHANGED <<caller, target, held>>
     \/ /\ srcEnd - src < maxFHSize
        /\ held' = <<>> /\ target' = minFHSize /\ dStage' = "storeFrameHeader"
        /\ UNCHANGED <<caller, info, src>>
  /\ TheInput /\ TheTmpOut /\ TheOutput

(* Takes input until there is as much as the stage waits for. *)
Taken(wanted) == SubSeq(file, src + 1, Lesser(srcEnd, src + wanted - Len(held)))

StoreFrameHeader ==
  /\ At("storeFrameHeader")
  /\ LET new == Taken(target)
     IN /\ held' = held \o new /\ src' = src + Len(new)
        /\ \/ Len(held') < target /\ Leave /\ UNCHANGED <<dStage, info>>
           \/ Len(held') = target /\ DecodedHeader(held'[1]) /\ UNCHANGED caller
  /\ UNCHANGED target
  /\ TheInput /\ TheTmpOut /\ TheOutput

(* The buffers are kept from frame to frame while they are large enough.   *)
InitFrame ==
  /\ At("init")
  /\ LET needed == info.max + IF info.linked THEN 2 * Window ELSE 0
     IN tmpOutBuffer' = IF needed > Cardinality(DOMAIN tmpOutBuffer) THEN Buffer(needed)
                        ELSE tmpOutBuffer
  /\ held' = <<>> /\ target' = 0
  /\ tmpOut' = 0 /\ tmpOutStart' = 0 /\ tmpOutSize' = 0
  /\ dStage' = "getBlockHeader"
  /\ UNCHANGED <<caller, info, dict, src>>
  /\ TheInput /\ TheOutput

(* What follows a block header whose first unit is b. *)
NextBlock(b) ==
  /\ target' = IF b.size = 0 THEN target ELSE b.size
  /\ dStage' = IF b.size = 0 THEN "getSuffix" ELSE IF b.stored THEN "copyDirect" ELSE "getCBlock"
  /\ IF dStage' = "getCBlock" /\ (dstAt = Cardinality(DOMAIN dst) \/ src' = srcEnd)
     THEN Leave ELSE UNCHANGED caller

GetBlockHeader ==
  /\ At("getBlockHeader")
  /\ \/ /\ srcEnd - src >= BHSize
        /\ src' = src + BHSize /\ NextBlock(file[src + 1])
        /\ UNCHANGED held
     \/ /\ srcEnd - src < BHSize
        /\ held' = <<>> /\ dStage' = "storeBlockHeader"
        /\ UNCHANGED <<caller, target, src>>
  /\ UNCHANGED info
  /\ TheInput /\ TheTmpOut /\ TheOutput

StoreBlockHeader ==
  /\ At("storeBlockHeader")
  /\ LET new == Taken(BHSize)
     IN /\ held' = held \o new /\ src' = src + Len(new)
        /\ \/ Len(held') < BHSize /\ Leave /\ UNCHANGED <<dStage, target>>
           \/ Len(held') = BHSize /\ NextBlock(held'[1])
  /\ UNCHANGED info
  /\ TheInput /\ TheTmpOut /\ TheOutput

Space == Cardinality(DOMAIN dst) - dstAt

(* n bytes have come into dst: keep the dictionary up, if there is one. *)
Delivered(t, cells, within) ==
  LET o == Paste(dst, dstAt, cells)
      u == UpdateDict(t, o, dstAt, Len(cells), within)
  IN /\ dst' = o /\ dstAt' = dstAt + Len(cells)
     /\ out' = out \o cells
     /\ IF info.linked
        THEN dict' = u.dict /\ tmpOutBuffer' = u.tmp /\ inside' = (inside /\ u.inside)
        ELSE UNCHANGED <<dict, inside>> /\ tmpOutBuffer' = t

CopyDirect ==
  /\ At("copyDirect")
  /\ LET n == Lesser(target, Lesser(srcEnd - src, Space))
     IN /\ Delivered(tmpOutBuffer, [i \in 1 .. n |-> file[src + i].value], FALSE)
        /\ src' = src + n
        /\ \/ n = target /\ dStage' = "getBlockHeader" /\ UNCHANGED <<caller, target>>
           \/ n < target /\ target' = target - n /\ Leave /\ UNCHANGED dStage
  /\ UNCHANGED <<info, held, tmpOut, tmpOutSize, tmpOutStart>>
  /\ TheInput

(* LZ4_decompress_safe_usingDict: a block that refers to anything that     *)
(* went before it in its frame, as far as Window, comes out right if the   *)
(* dictionary says that.                                                   *)
Decoded(units, d, t) ==
  LET b    == units[1]
      past == Cells(DictBuffer(d, t, dst), d.at, d.size)
      back == Lesser(Window, b.from - 1 - info.base)
  IN IF /\ units = CodeUnits(b.from, b.size, b.of)
        /\ info.linked => /\ Len(past) >= back
                          /\ \A i \in 1 .. back : past[Len(past) - i + 1] = b.from - i
     THEN [i \in 1 .. b.size |-> b.from + i - 1]
     ELSE [i \in 1 .. b.size |-> Unwritten]

(* There is place for any block in dst: decode into it. *)
DecodeDirect(units) ==
  /\ Space >= info.max
  /\ Delivered(tmpOutBuffer, Decoded(units, dict, tmpOutBuffer), FALSE)
  /\ dStage' = "getBlockHeader"
  /\ UNCHANGED <<tmpOut, tmpOutSize, tmpOutStart>>

(* Deliberately wrong: the dictionary grows as long as it likes. *)
ShortenedNever == FALSE

(* The dictionary in tmpOutBuffer must leave place for a block behind it. *)
Shortened == dict.in = "tmp" /\ dict.size > 2 * Window

(* n bytes are to be flushed. *)
FlushAll(n) == tmpOutSize' = n /\ tmpOutStart' = 0

(* There is not: decode into tmpOut, behind the dictionary. *)
DecodeToTmp(units) ==
  /\ Space < info.max
  /\ LET move == FromDict(tmpOutBuffer, dst, dict, 0, dict.at + dict.size - Window, Window)
         d    == IF info.linked /\ Shortened THEN InTmp(Window) ELSE dict
         t    == IF info.linked /\ Shortened THEN move.tmp ELSE tmpOutBuffer
         at   == IF ~info.linked THEN tmpOut
                 ELSE IF d.in = "tmp" THEN d.size ELSE Lesser(d.size, Window)
         new  == Decoded(units, d, t)
     IN /\ dict' = d /\ tmpOut' = at
        /\ tmpOutBuffer' = Paste(t, at, new)
        /\ FlushAll(Len(new))
        /\ inside' = (inside /\ Fits(t, at, info.max) /\ (d = dict \/ move.inside))
  /\ dStage' = "flushOut"
  /\ UNCHANGED <<dst, dstAt, out>>

Decode(units) == DecodeDirect(units) \/ DecodeToTmp(units)

GetCBlock ==
  /\ At("getCBlock")
  /\ \/ /\ srcEnd - src < target
        /\ held' = <<>> /\ dStage' = "storeCBlock"
        /\ UNCHANGED src
        /\ TheTmpOut /\ TheOutput
     \/ /\ srcEnd - src >= target
        /\ src' = src + target /\ Decode(SubSeq(file, src + 1, src + target))
        /\ UNCHANGED held
  /\ UNCHANGED <<caller, info, target>>
  /\ TheInput

StoreCBlock ==
  /\ At("storeCBlock")
  /\ LET new == Taken(target)
     IN /\ held' = held \o new /\ src' = src + Len(new)
        /\ \/ Len(held') < target /\ Leave /\ UNCHANGED dStage
              /\ TheTmpOut /\ TheOutput
           \/ Len(held') = target /\ Decode(held') /\ UNCHANGED caller
  /\ UNCHANGED <<info, target>>
  /\ TheInput

FlushOut ==
  /\ At("flushOut")
  /\ LET n == Lesser(tmpOutSize - tmpOutStart, Space)
     IN /\ Delivered(tmpOutBuffer, Cells(tmpOutBuffer, tmpOut + tmpOutStart, n), TRUE)
        /\ tmpOutStart' = tmpOutStart + n
  /\ \/ tmpOutStart' = tmpOutSize /\ dStage' = "getBlockHeader" /\ UNCHANGED caller
     \/ tmpOutStart' < tmpOutSize /\ Leave /\ UNCHANGED dStage
  /\ UNCHANGED <<info, target, held, tmpOut, tmpOutSize, src>>
  /\ TheInput

(* Deliberately wrong: the decoder is not made ready for another frame. *)
ResetDictOnly == dict' = NoDict /\ UNCHANGED dStage

(* LZ4F_resetDecompressionContext. *)
Reset == dict' = NoDict /\ dStage' = "getFrameHeader"

(* No checksum of the content is asked for: the frame is over. *)
GetSuffix ==
  /\ At("getSuffix")
  /\ Reset /\ Leave
  /\ UNCHANGED <<info, target, held, tmpOutBuffer, tmpOut, tmpOutSize, tmpOutStart, src>>
  /\ TheInput /\ TheOutput

(* Deliberately wrong: the history stays in the caller's buffer. *)
KeepHistoryNot == UNCHANGED <<dict, tmpOutBuffer, tmpOut, inside>>

(* The end of LZ4F_decompress keeps the history, as the caller's buffer    *)
(* cannot be relied on; the caller goes on unless the frame is over or     *)
(* nothing has moved.                                                      *)
KeepHistory ==
  IF ~info.linked \/ dict.in = "tmp"
     \/ dStage \in {"getFrameHeader", "storeFrameHeader", "getSuffix"}
  THEN UNCHANGED <<dict, tmpOutBuffer, tmpOut, inside>>
  ELSE LET n == Lesser(dict.size, Window)
           c == IF dStage = "flushOut" THEN InFrontOfTmpOut(tmpOutBuffer, dst, dict)
                ELSE FromDict(tmpOutBuffer, dst, dict, 0, dict.at + dict.size - n, n)
       IN /\ tmpOutBuffer' = c.tmp /\ inside' = (inside /\ c.inside)
          /\ dict' = InTmp(IF dStage = "flushOut" THEN tmpOut + tmpOutStart ELSE n)
          /\ tmpOut' = IF dStage = "flushOut" THEN tmpOut ELSE n

FrameOver == dStage = "getFrameHeader"

Moved == src > before \/ dstAt > 0

Return ==
  /\ caller.at = "leave"
  /\ KeepHistory
  /\ caller' = [caller EXCEPT !.at =
                   IF FrameOver
                   THEN IF src >= end THEN "done"
                        ELSE IF caller.kind = "client" THEN "frame" ELSE "loop"
                   ELSE IF caller.kind = "client" /\ ~Moved THEN "failed" ELSE "loop"]
  /\ dst' = <<>> /\ dstAt' = 0 /\ srcEnd' = 0 /\ before' = 0
  /\ UNCHANGED <<writerVars, end, dStage, info, target, held, tmpOutSize, tmpOutStart, src, out>>

Stages ==
  \/ GetFrameHeader \/ StoreFrameHeader \/ InitFrame
  \/ GetBlockHeader \/ StoreBlockHeader
  \/ CopyDirect \/ GetCBlock \/ StoreCBlock \/ FlushOut \/ GetSuffix

Caller == GetFrameInfo \/ Truncated \/ Decompress \/ Return

Write == caller.kind = "none" /\ WriterNext /\ UNCHANGED readerVars

Next == Write \/ BeginReading \/ Caller \/ Stages

Spec == Init /\ [][Next]_vars

(* The reader is one thread that runs through. *)
FairSpec == Spec /\ WF_vars(Caller \/ Stages)

-----------------------------------------------------------------------------
(* Every variable has the type its comment gives it; the decoder knows     *)
(* where the output of a block is in tmpOutBuffer.                         *)
TypeOK ==
  /\ stage \in {"idle", "begin", "update", "blocks", "failed"}
  /\ size \in Nat /\ left \in 0 .. size /\ written \in Nat /\ room \in Int
  /\ caller.kind \in {"none", "client", "any"}
  /\ caller.at \in {"away", "frame", "loop", "call", "leave", "done", "failed"}
  /\ end \in 0 .. Len(file) /\ src \in 0 .. end
  /\ caller.at = "call" => src <= srcEnd
  /\ dStage \in {"getFrameHeader", "storeFrameHeader", "init", "getBlockHeader",
                 "storeBlockHeader", "copyDirect", "getCBlock", "storeCBlock",
                 "flushOut", "getSuffix"}
  /\ info.max \in Nat /\ info.linked \in BOOLEAN
  /\ target \in Nat /\ Len(held) <= Cardinality(DOMAIN file)
  /\ dict.in \in {"none", "tmp", "dst"} /\ dict.at \in Nat /\ dict.size \in Nat
  /\ tmpOut \in Nat /\ tmpOutStart \in Nat
  /\ dStage = "flushOut" => tmpOutStart < tmpOutSize
  /\ dstAt \in 0 .. Cardinality(DOMAIN dst) /\ inside \in BOOLEAN

(* However the history moves between the caller's buffer and the one of    *)
(* the decoder, a copy never leaves the buffers it is between, never       *)
(* overlaps itself, and the history is as long as the place in it of what  *)
(* is being flushed says (the assertions of LZ4F_updateDict).              *)
CopiesInside == inside

(* A reader comes to an end: no call of the loop moves nothing.            *)
Finishes == (caller.kind # "none") ~> (caller.at \in {"done", "failed"})

(* What all this is for: see FramePipe.  The bytes come out as they were   *)
(* put in, whole files come out as a whole, and torn ones are found out.   *)
Whole == \E e \in ends : e.units = end

phase ==
  IF caller.kind = "none" THEN "writing"
  ELSE IF caller.at \in {"done", "failed"} THEN caller.at
  ELSE IF Whole THEN "whole" ELSE "torn"

sent == IF Whole THEN (CHOOSE e \in ends : e.units = end).bytes ELSE written

Pipe == INSTANCE FramePipe WITH sent <- IF phase = "writing" THEN written ELSE sent, got <- out

ImplementsPipe == Pipe!Spec
=============================================================================
