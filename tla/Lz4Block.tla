------------------------------ MODULE Lz4Block ------------------------------
(***************************************************************************)
(* One block of LZ4: LZ4_compress_generic writes sequences, each a token,  *)
(* literals, and a match with what was said up to DISTANCE_MAX bytes ago;  *)
(* LZ4_decompress_generic reads them.  The two agree on rules for the end  *)
(* of a block: a match starts MFLIMIT bytes before the end at the latest,  *)
(* and the last LASTLITERALS bytes are literals.  The decoder knows the    *)
(* last sequence by them, and both copy more bytes than they were asked to *)
(* because of them: the decoder far more while it is far from the end, in  *)
(* the fast loop and in the shortcut of the other loop.                    *)
(*                                                                         *)
(* Which of the earlier places with the same bytes the hash table knows is *)
(* left open.  Bytes count from the start of past.                         *)
(***************************************************************************)
EXTENDS Integers, Sequences

CONSTANTS
  Letters,         \* the values of a byte of the input
  Lengths,         \* how long an input may be
  Pasts,           \* what may have been said before, in the same frame
  Spares,          \* how much larger than the input the decoder's buffer is
  MINMATCH, LASTLITERALS, MFLIMIT, WILDCOPYLENGTH, DISTANCE_MAX,
  RUN_MASK, ML_MASK,                 \* the largest nibbles of a token
  STRIPE,                            \* 16, what the fast loop copies in
  FASTLOOP_SAFE_DISTANCE,
  BYTE_MAX,                          \* 255
  SLACK                              \* 16, in LZ4_COMPRESSBOUND

ASSUME InputsAssumption ==
  /\ Letters \subseteq 0 .. BYTE_MAX /\ Pasts \subseteq Seq(Letters)
  /\ Lengths \subseteq Nat \ {0} /\ Spares \subseteq Nat

(* The longest literals and match that a token says alone, 14 and 18.      *)
MaxLL == RUN_MASK - 1
MaxML == ML_MASK - 1 + MINMATCH

(* What the code relies on.  A match says more than its token and offset   *)
(* take; a length that is told in a nibble alone takes no byte that a      *)
(* limit was not computed for; what is copied without a look at the end    *)
(* is shorter than the distance from it.                                   *)
ASSUME LimitsAssumption ==
  /\ {MINMATCH, LASTLITERALS, MFLIMIT, WILDCOPYLENGTH, DISTANCE_MAX,
      RUN_MASK, ML_MASK, STRIPE, FASTLOOP_SAFE_DISTANCE, BYTE_MAX,
      SLACK} \subseteq Nat \ {0}
  /\ MFLIMIT >= MINMATCH + LASTLITERALS
  /\ MFLIMIT >= WILDCOPYLENGTH
  /\ 2 + 1 + LASTLITERALS >= WILDCOPYLENGTH
  /\ DISTANCE_MAX < (BYTE_MAX + 1) * (BYTE_MAX + 1)
  /\ 1 + 2 < MINMATCH /\ MINMATCH <= WILDCOPYLENGTH
  /\ 2 <= LASTLITERALS /\ 2 <= SLACK
  /\ RUN_MASK <= BYTE_MAX /\ ML_MASK \in 2 .. BYTE_MAX
  /\ MaxLL <= STRIPE /\ STRIPE <= MaxLL + MaxML
  /\ 2 * STRIPE <= FASTLOOP_SAFE_DISTANCE
  /\ 2 * WILDCOPYLENGTH <= FASTLOOP_SAFE_DISTANCE
  /\ MaxML <= FASTLOOP_SAFE_DISTANCE /\ LASTLITERALS <= FASTLOOP_SAFE_DISTANCE

VARIABLES
  source, past,    \* the input, and what precedes it
  external,        \* past is in another buffer (usingExtDict)
  capacity,        \* maxOutputSize
  ip, anchor,      \* where the compressor is, where the literals began
  match,           \* where the match is
  dest,            \* what the compressor has written
  token,           \* where the token of this sequence is in dest
  pc,              \* what is being done
  outputSize,      \* of the decoder
  seen,            \* how much of dest the decoder has read
  output,          \* what the decoder has written
  loop,            \* in which loop it is, or in the shortcut
  touched          \* how far the two have written, past the end included

input     == <<source, past, external, capacity, outputSize>>
encoder   == <<ip, anchor, match, dest, token>>
decoder   == <<seen, output, loop>>
blockVars == <<input, encoder, pc, decoder, touched>>

all            == past \o source
iend           == Len(all)
mflimitPlusOne == iend - MFLIMIT + 1
matchlimit     == iend - LASTLITERALS

LZ4_compressBound(n) == n + n \div BYTE_MAX + SLACK

(* With room for all there may be, the compressor checks nothing.          *)
limitedOutput == capacity < LZ4_compressBound(Len(source))

Larger(a, b) == IF a < b THEN b ELSE a

(* Where a copy of so many bytes at a time, and at least once, ends.       *)
CopyInSteps(width, from, end) ==
  from + width * (1 + (Larger(end - from, 1) - 1) \div width)

(* LZ4_wildCopy8 and LZ4_wildCopy32. *)
wildCopy(from, end)   == CopyInSteps(WILDCOPYLENGTH, from, end)
wildCopy32(from, end) == CopyInSteps(2 * STRIPE, from, end)

Touch(where, end) == touched' = [touched EXCEPT ![where] = Larger(@, end)]

BlockInit ==
  /\ source \in UNION {[1 .. n -> Letters] : n \in Lengths}
  /\ past \in Pasts /\ external \in {FALSE, past # <<>>}
  /\ capacity \in {LZ4_compressBound(Len(source)), Len(source) - 1}
  /\ outputSize \in {Len(source) + n : n \in Spares}
  /\ ip = Len(past) /\ anchor = Len(past) /\ match = 0
  /\ dest = <<>> /\ token = 0
  /\ pc = "begin"
  /\ seen = 0 /\ output = <<>>
  /\ \/ loop = "safe"       \* the build may have no fast loop
     \/ loop = "fast" /\ outputSize >= FASTLOOP_SAFE_DISTANCE
  /\ touched = [dest |-> 0, out |-> 0]

-----------------------------------------------------------------------------
(* LZ4_compress_generic *)

(* The byte at place p is all[p + 1]. *)
Alike(p, q) == \A i \in 1 .. MINMATCH : all[p + i] = all[q + i]

(* A place the hash table may give: it was passed, and is not too far back. *)
Candidates(p) == {q \in 0 .. p - 1 : p - q <= DISTANCE_MAX /\ Alike(q, p)}

Begin ==
  /\ pc = "begin"
  /\ IF Len(source) < MFLIMIT + 1
     THEN pc' = "last" /\ UNCHANGED ip
     ELSE pc' = "search" /\ ip' = ip + 1
  /\ UNCHANGED <<input, anchor, match, dest, token, decoder, touched>>

(* Deliberately wrong: a match may begin anywhere. *)
LastStartAnywhere == matchlimit - MINMATCH

(* Where a match may begin at the latest. *)
LastStart == mflimitPlusOne - 1

(* The search steps over places without a match, or misses one. *)
FindMatch ==
  /\ pc = "search"
  /\ \E p \in ip .. LastStart : ip' = p /\ match' \in Candidates(p)
  /\ pc' = "catch up"
  /\ UNCHANGED <<input, anchor, dest, token, decoder, touched>>

NoMatch ==
  /\ pc = "search" /\ pc' = "last"
  /\ UNCHANGED <<input, encoder, decoder, touched>>

(* How many bytes before the two places are alike, after the literals and  *)
(* the history began.                                                      *)
AlikeBefore(p, q) ==
  CHOOSE k \in 0 .. Len(all) :
    /\ k <= p - anchor /\ k <= q
    /\ \A i \in 0 .. k - 1 : all[p - i] = all[q - i]
    /\ k = p - anchor \/ k = q \/ all[p - k] # all[q - k]

CatchUp ==
  /\ pc = "catch up" /\ pc' = "literals"
  /\ ip' = ip - AlikeBefore(ip, match)
  /\ match' = match - AlikeBefore(ip, match)
  /\ UNCHANGED <<input, anchor, dest, token, decoder, touched>>

Nibble(n, mask) == IF n < mask THEN n ELSE mask

Token(literals, matched) ==
  Nibble(literals, RUN_MASK) * (ML_MASK + 1) + Nibble(matched, ML_MASK)

(* The length beyond what the nibble says: full bytes and a last one.      *)
Extension(n, mask) ==
  IF n < mask THEN <<>>
  ELSE [i \in 1 .. (n - mask) \div BYTE_MAX + 1 |->
          IF i <= (n - mask) \div BYTE_MAX THEN BYTE_MAX ELSE (n - mask) % BYTE_MAX]

Literals(from, n) == [i \in 1 .. n |-> all[from + i]]

(* Whether the literals, and then an offset and the end of the block, fit. *)
LiteralsFit(n) ==
  Len(dest) + 1 + n + (2 + 1 + LASTLITERALS) + n \div BYTE_MAX <= capacity

EncodeLiterals ==
  /\ pc = "literals"
  /\ LET n     == ip - anchor
         start == Append(dest, Token(n, 0)) \o Extension(n, RUN_MASK)
     IN IF limitedOutput /\ ~LiteralsFit(n)
        THEN pc' = "given up" /\ UNCHANGED <<dest, token, touched>>
        ELSE /\ pc' = "match"
             /\ token' = Len(dest) + 1
             /\ dest' = start \o Literals(anchor, n)
             /\ Touch("dest", wildCopy(Len(start), Len(start) + n))
  /\ UNCHANGED <<input, ip, anchor, match, decoder>>

(* LZ4_count: how many bytes from the two places on are alike.             *)
Count(p, q, limit) ==
  CHOOSE k \in 0 .. limit - p :
    /\ \A i \in 1 .. k : all[p + i] = all[q + i]
    /\ k = limit - p \/ all[p + k + 1] # all[q + k + 1]

(* Deliberately wrong: the match may go on to the end. *)
MatchEndLate == iend

MatchEnd == matchlimit

MatchFits(n, code) ==
  n + (1 + LASTLITERALS) + (code + BYTE_MAX - ML_MASK) \div BYTE_MAX <= capacity

(* Full bytes of a long length are written four at a time.                 *)
FullBytes(code) ==
  IF code < ML_MASK THEN 0 ELSE 4 * (1 + (code - ML_MASK) \div (4 * BYTE_MAX))

EncodeMatch ==
  /\ pc = "match"
  /\ LET code   == Count(ip + MINMATCH, match + MINMATCH, MatchEnd)
         offset == ip - match
         placed == dest \o <<offset % (BYTE_MAX + 1), offset \div (BYTE_MAX + 1)>>
         told   == [placed EXCEPT ![token] = @ + Nibble(code, ML_MASK)]
                     \o Extension(code, ML_MASK)
     IN IF limitedOutput /\ ~MatchFits(Len(placed), code)
        THEN /\ pc' = "given up" /\ dest' = placed
             /\ Touch("dest", Len(placed))
             /\ UNCHANGED <<ip, anchor>>
        ELSE /\ ip' = ip + MINMATCH + code
             /\ anchor' = ip'
             /\ dest' = told
             /\ Touch("dest", Larger(Len(told), Len(placed) + FullBytes(code)))
             /\ pc' = IF ip' >= mflimitPlusOne THEN "last" ELSE "next"
  /\ UNCHANGED <<input, match, token, decoder>>

(* Right behind a match there may be another one, or the search goes on.   *)
TestNext ==
  /\ pc = "next"
  /\ \/ /\ pc' = "match"
        /\ match' \in Candidates(ip)
        /\ token' = Len(dest) + 1 /\ dest' = Append(dest, Token(0, 0))
        /\ Touch("dest", Len(dest) + 1)
        /\ UNCHANGED ip
     \/ /\ pc' = "search" /\ ip' = ip + 1
        /\ UNCHANGED <<match, dest, token, touched>>
  /\ UNCHANGED <<input, anchor, decoder>>

LastFits(n) ==
  Len(dest) + n + 1 + (n + BYTE_MAX - RUN_MASK) \div BYTE_MAX <= capacity

LastLiterals ==
  /\ pc = "last"
  /\ LET n    == iend - anchor
         told == Append(dest, Token(n, 0)) \o Extension(n, RUN_MASK) \o Literals(anchor, n)
     IN IF limitedOutput /\ ~LastFits(n)
        THEN pc' = "given up" /\ UNCHANGED <<dest, touched>>
        ELSE pc' = "token" /\ dest' = told /\ Touch("dest", Len(told))
  /\ UNCHANGED <<input, ip, anchor, match, token, decoder>>

Compress ==
  \/ Begin \/ FindMatch \/ NoMatch \/ CatchUp
  \/ EncodeLiterals \/ EncodeMatch \/ TestNext \/ LastLiterals

-----------------------------------------------------------------------------
(* LZ4_decompress_generic *)

srcSize == Len(dest)

(* read_variable_length: bytes are added up to the first that is not full; *)
(* the reading stops early where no length can be.                         *)
LengthBytes(from, lencheck) ==
  CHOOSE n \in 1 .. srcSize :
    /\ \A i \in 1 .. n - 1 : dest[from + i] = BYTE_MAX /\ from + i < lencheck
    /\ dest[from + n] # BYTE_MAX \/ from + n >= lencheck

(* Their sum: all but the last are full. *)
VariableLength(from, n) == IF n = 0 THEN 0 ELSE (n - 1) * BYTE_MAX + dest[from + n]

(* Deliberately wrong: every error of read_variable_length counts. *)
LiteralsLengthFailsAny(from, n) == from + n >= srcSize - RUN_MASK

(* A length of literals that reaches to the end of the input is fine: they *)
(* may be the last ones.  Only one that cannot be there at all is not.     *)
LiteralsLengthFails(from, n) == from >= srcSize - RUN_MASK

(* Where the parsing rules leave no place for a match behind the literals. *)
IsLast(from, cpy) ==
  cpy > outputSize - MFLIMIT \/ from > srcSize - (2 + 1 + LASTLITERALS)

(* The fast loop copies n literals, told by the bytes up to their end,     *)
(* without a look at the parsing rules, if they are not near the end.      *)
FastLiterals(n, end) ==
  /\ loop = "fast"
  /\ IF n >= RUN_MASK
     THEN Len(output) + n <= outputSize - 2 * STRIPE /\ end <= srcSize - 2 * STRIPE
     ELSE seen + 1 <= srcSize - (STRIPE + 1)

(* So does the shortcut, if the longest short match may follow.            *)
ShortcutLiterals(n) ==
  /\ loop = "safe" /\ n < RUN_MASK
  /\ seen + 1 < srcSize - MaxLL - 2
  /\ Len(output) <= outputSize - MaxLL - MaxML

SafeLiterals(n, end) == ~FastLiterals(n, end) /\ ~ShortcutLiterals(n)

Last(n, end) == SafeLiterals(n, end) /\ IsLast(end, Len(output) + n)

(* How far literals are written. *)
LiteralsTouch(n, end) ==
  LET op == Len(output)
  IN IF Last(n, end) THEN op + n
     ELSE IF SafeLiterals(n, end) THEN wildCopy(op, op + n)
     ELSE IF n >= RUN_MASK THEN wildCopy32(op, op + n)
     ELSE op + STRIPE

ReadLiterals ==
  /\ pc = "token"
  /\ token' = seen + 1
  /\ LET nibble == dest[seen + 1] \div (ML_MASK + 1)
         isLong == nibble = RUN_MASK
         bytes  == IF isLong THEN LengthBytes(seen + 1, srcSize - RUN_MASK) ELSE 0
         length == nibble + VariableLength(seen + 1, bytes)
         end    == seen + 1 + bytes + length
         fails  == \/ isLong /\ LiteralsLengthFails(seen + 1, bytes)
                   \/ Last(length, end) /\ (end # srcSize \/ Len(output) + length > outputSize)
     IN IF fails
        THEN pc' = "failed" /\ UNCHANGED <<decoder, touched>>
        ELSE /\ seen' = end
             /\ output' = output \o SubSeq(dest, end - length + 1, end)
             /\ pc' = IF Last(length, end) THEN "done" ELSE "offset"
             /\ loop' = IF SafeLiterals(length, end) THEN "safe"
                        ELSE IF loop = "fast" THEN "fast" ELSE "shortcut"
             /\ Touch("out", LiteralsTouch(length, end))
  /\ UNCHANGED <<input, ip, anchor, match, dest>>

(* The bytes of a match may be bytes it has just written.                  *)
Copied(said, offset, n) ==
  [i \in 1 .. n |-> said[Len(said) - offset + 1 + ((i - 1) % offset)]]

(* How far the safe loop writes a match: the last part of the buffer with  *)
(* care.                                                                   *)
MatchTouches(op, cpy) ==
  IF cpy > outputSize - (2 * WILDCOPYLENGTH - MINMATCH)
  THEN LET oCopyLimit == outputSize - (WILDCOPYLENGTH - 1)
       IN Larger(cpy, IF op + WILDCOPYLENGTH < oCopyLimit
                      THEN wildCopy(op + WILDCOPYLENGTH, oCopyLimit)
                      ELSE op + WILDCOPYLENGTH)
  ELSE Larger(op + 2 * WILDCOPYLENGTH, wildCopy(op + WILDCOPYLENGTH, cpy))

(* Deliberately wrong: the fast loop goes on to the end. *)
FarFromEndTooLong(n) == Len(output) + n <= outputSize

(* The fast loop copies n bytes of a match only up to this distance.       *)
FarFromEnd(n) == Len(output) + n < outputSize - FASTLOOP_SAFE_DISTANCE

InFastLoop(n) == loop = "fast" /\ FarFromEnd(n)

(* The match begins in the other buffer: nothing is copied too much.       *)
InExternal(offset) == external /\ offset > Len(output)

(* A short match that does not overlap with the words it is copied in.     *)
Simple(offset, n) ==
  n <= MaxML /\ offset >= WILDCOPYLENGTH /\ ~InExternal(offset)

(* Simple ones are copied at once in the fast loop and the shortcut.       *)
AtOnce(offset, n) == Simple(offset, n) /\ (InFastLoop(n) \/ loop = "shortcut")

(* LZ4_memcpy_using_offset: a pattern of few bytes fills whole words, any  *)
(* other overlap is spread by a first word.                                *)
OverlapTouches(offset, op, cpy) ==
  IF offset < WILDCOPYLENGTH /\ WILDCOPYLENGTH % offset = 0
  THEN wildCopy(op, cpy) ELSE wildCopy(op + WILDCOPYLENGTH, cpy)

(* How far a match is written. *)
MatchTouch(offset, n) ==
  LET op == Len(output)
  IN IF InExternal(offset) THEN op + n
     ELSE IF AtOnce(offset, n) THEN op + MaxML
     ELSE IF ~InFastLoop(n) THEN MatchTouches(op, op + n)
     ELSE IF offset < STRIPE THEN OverlapTouches(offset, op, op + n)
     ELSE wildCopy32(op, op + n)

ReadMatch ==
  /\ pc = "offset"
  /\ LET offset == dest[seen + 1] + dest[seen + 2] * (BYTE_MAX + 1)
         nibble == dest[token] % (ML_MASK + 1)
         isLong == nibble = ML_MASK
         limit  == srcSize - LASTLITERALS + 1
         bytes  == IF isLong THEN LengthBytes(seen + 2, limit) ELSE 0
         length == nibble + VariableLength(seen + 2, bytes) + MINMATCH
         fails  == \/ isLong /\ seen + 2 + bytes >= limit
                   \/ offset > Len(past) + Len(output)
                   \/ /\ ~AtOnce(offset, length)
                      /\ Len(output) + length > outputSize - LASTLITERALS
     IN IF fails
        THEN pc' = "failed" /\ UNCHANGED <<decoder, touched>>
        ELSE /\ seen' = seen + 2 + bytes
             /\ output' = output \o Copied(past \o output, offset, length)
             /\ pc' = "token"
             /\ loop' = IF InFastLoop(length) THEN "fast" ELSE "safe"
             /\ Touch("out", MatchTouch(offset, length))
  /\ UNCHANGED <<input, encoder>>

DecompressBlock == ReadLiterals \/ ReadMatch

-----------------------------------------------------------------------------
Ended == pc \in {"given up", "done", "failed"} /\ UNCHANGED blockVars

BlockNext == Compress \/ DecompressBlock \/ Ended

BlockSpec == BlockInit /\ [][BlockNext]_blockVars

-----------------------------------------------------------------------------
(* Every byte is one, every place is inside the input or the output.       *)
BlockTypeOK ==
  /\ pc \in {"begin", "search", "catch up", "literals", "match", "next", "last",
             "given up", "token", "offset", "done", "failed"}
  /\ Len(past) <= anchor /\ anchor <= ip /\ ip <= iend
  /\ 0 <= match /\ match <= ip
  /\ \A i \in DOMAIN dest :
       dest[i] \in Letters \cup 0 .. Larger(BYTE_MAX, (RUN_MASK + 1) * (ML_MASK + 1) - 1)
  /\ token \in 0 .. Len(dest)
  /\ seen \in 0 .. Len(dest)
  /\ \A i \in DOMAIN output : output[i] \in Letters
  /\ external \in BOOLEAN /\ loop \in {"fast", "shortcut", "safe"}
  /\ touched \in [{"dest", "out"} -> Nat]

(* What was compressed is what comes out, whatever matches the compressor  *)
(* found and however large the buffer is: enigmatic_log_decompress and     *)
(* enigmatic_client_replay take any other answer for a fatal error.        *)
RoundTrip == pc \in {"done", "failed"} => pc = "done" /\ output = source

(* Neither side writes past the end of its buffer, with all the bytes that *)
(* its copies write too many: the compressor where it checks, because it   *)
(* has kept a place for the end of the block, and where it does not,       *)
(* because LZ4_compressBound is enough; the decoder in its safe loop       *)
(* because of the rules for the end, and in the fast loop and the shortcut *)
(* because of their distances from it.  The decoder's buffer is as large   *)
(* as it is told (outputSize).                                             *)
StaysInside == touched.dest <= Larger(capacity, 0) /\ touched.out <= outputSize

=============================================================================
