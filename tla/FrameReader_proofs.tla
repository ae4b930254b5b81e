-------------------------- MODULE FrameReader_proofs --------------------------
(* Theorems about FrameWriter and FrameReader, for any block sizes,        *)
(* contents, windows, buffers of the caller and pieces of input: the room  *)
(* for a frame is enough, no copy of the decoder leaves its buffers, and   *)
(* the bytes that come out are those that went in, to the last one of a    *)
(* whole file.                                                             *)
EXTENDS FrameReader, SequenceTheorems, FiniteSetTheorems, WellFoundedInduction, TLAPS

(* Division: how many blocks there are. *)
Blocks(n, block) == n \div block + IF n % block > 0 THEN 1 ELSE 0

(* Division, and what is left over. *)
LEMMA DivModOf ==
  ASSUME NEW a \in Int, NEW n \in Nat \ {0}
  PROVE  a = n * (a \div n) + (a % n) /\ a \div n \in Int /\ a % n \in 0 .. n - 1
OBVIOUS

(* The quotient and the rest are told by their sum. *)
LEMMA DivModAre ==
  ASSUME NEW n \in Nat \ {0}, NEW q \in Int, NEW r \in 0 .. n - 1
  PROVE  (n * q + r) % n = r /\ (n * q + r) \div n = q
OBVIOUS

(* A block less of content is a block less. *)
LEMMA BlocksOf ==
  ASSUME NEW n \in Nat, NEW block \in Nat \ {0}
  PROVE  /\ Blocks(n, block) \in Nat
         /\ Blocks(0, block) = 0
         /\ 0 < n /\ n <= block => Blocks(n, block) = 1
         /\ n > block => Blocks(n, block) = Blocks(n - block, block) + 1
<1> DEFINE q == n \div block
           r == n % block
<1>1. n = block * q + r /\ q \in Int /\ r \in 0 .. block - 1
  BY DivModOf
<1>2. Blocks(n, block) = q + IF r > 0 THEN 1 ELSE 0
  BY DEF Blocks
<1>3. Blocks(0, block) = 0
  <2>1. block * 0 + 0 = 0 /\ 0 \in 0 .. block - 1
    OBVIOUS
  <2>2. 0 % block = 0 /\ 0 \div block = 0
    BY <2>1, DivModAre
  <2> QED BY <2>2 DEF Blocks
<1> HIDE DEF q, r
<1>4. q >= 0
  <2> SUFFICES ASSUME q <= -1 PROVE FALSE
    BY <1>1
  <2>1. block * q <= block * (-1)
    BY <1>1
  <2> QED BY <1>1, <2>1
<1>5. ASSUME 0 < n, n < block PROVE Blocks(n, block) = 1
  <2>1. block * 0 + n = n /\ n \in 0 .. block - 1
    BY <1>5
  <2>2. n % block = n /\ n \div block = 0
    BY <2>1, DivModAre
  <2> QED BY <2>2, <1>5 DEF Blocks
<1>6. ASSUME n = block PROVE Blocks(n, block) = 1
  <2>1. block * 1 + 0 = n /\ 0 \in 0 .. block - 1
    BY <1>6
  <2>2. n % block = 0 /\ n \div block = 1
    BY <2>1, DivModAre
  <2> QED BY <2>2 DEF Blocks
<1>7. ASSUME n > block PROVE Blocks(n, block) = Blocks(n - block, block) + 1
  <2>1. n - block = block * (q - 1) + r
    BY <1>1
  <2>2. (n - block) % block = r /\ (n - block) \div block = q - 1
    BY <2>1, <1>1, DivModAre
  <2> QED BY <2>2, <1>1, <1>2 DEF Blocks
<1> QED BY <1>1, <1>2, <1>3, <1>4, <1>5, <1>6, <1>7

(* A set of naturals has a least one, by the library's order of them. *)
LEMMA LeastExists ==
  ASSUME NEW S \in SUBSET Nat, S # {}
  PROVE  Min(S) \in S /\ \A j \in S : Min(S) <= j
<1>1. PICK x \in S : \A y \in S : ~ (<<y, x>> \in OpToRel(<, Nat))
  BY WFMin, NatLessThanWellFounded, Zenon
<1>2. \A y \in S : ~ (y < x)
  <2>1. SUFFICES ASSUME NEW y \in S, y < x PROVE <<y, x>> \in OpToRel(<, Nat)
    BY <1>1, Zenon
  <2>2. <<y, x>> \in Nat \X Nat /\ <<y, x>>[1] = y /\ <<y, x>>[2] = x
    OBVIOUS
  <2>3. <<y, x>>[1] < <<y, x>>[2]
    BY <2>1, <2>2
  <2> QED BY <2>2, <2>3, Zenon DEF OpToRel
<1>3. \A y \in S : x <= y
  BY <1>2
<1> QED BY <1>3 DEF Min

(* The last block size is the largest. *)
LEMMA AskedIsLargest ==
  ASSUME NEW m \in DOMAIN BlockSizes
  PROVE  BlockSizes[m] \in Nat \ {0} /\ Asked \in Nat \ {0} /\ BlockSizes[m] <= Asked
<1> DEFINE k == Len(BlockSizes)
           S == {j \in m .. k : BlockSizes[j] < BlockSizes[m]}
<1>1. /\ BlockSizes \in Seq(Nat \ {0}) /\ k \in Nat \ {0} /\ DOMAIN BlockSizes = 1 .. k
      /\ \A i \in 1 .. k - 1 : BlockSizes[i] < BlockSizes[i + 1]
  BY BlockSizesAssumption
<1>2. \A i \in 1 .. k : BlockSizes[i] \in Nat \ {0}
  BY <1>1
<1>3. S = {}
  <2> SUFFICES ASSUME S # {} PROVE FALSE
    OBVIOUS
  <2>1. S \in SUBSET Nat
    BY <1>1
  <2>2. PICK j : j \in S /\ \A i \in S : j <= i
    BY <2>1, LeastExists
  <2>3. j \in m .. k /\ BlockSizes[j] < BlockSizes[m] /\ m \in 1 .. k
    BY <2>2, <1>1
  <2>4. j # m
    BY <2>3, <1>2
  <2>5. j - 1 \in m .. k /\ j - 1 \in 1 .. k - 1 /\ j - 1 < j /\ j = (j - 1) + 1 /\ j \in 1 .. k
    BY <2>3, <2>4, <1>1
  <2>6. BlockSizes[j - 1] < BlockSizes[m]
    <3>1. BlockSizes[j - 1] < BlockSizes[j]
      BY <2>5, <1>1
    <3> QED BY <3>1, <2>3, <2>5, <1>1, <1>2
  <2> QED BY <2>2, <2>5, <2>6
<1>4. k \in m .. k /\ m \in 1 .. k /\ k \in 1 .. k
  BY <1>1
<1>5. BlockSizes[m] \in Nat \ {0} /\ BlockSizes[k] \in Nat \ {0}
  BY <1>2, <1>4
<1>6. ~(BlockSizes[k] < BlockSizes[m])
  BY <1>3, <1>4
<1>7. BlockSizes[m] <= BlockSizes[k]
  BY <1>5, <1>6
<1> QED BY <1>5, <1>7 DEF Asked

(* LZ4F_optimalBSID gives one of the sizes, the largest if the content is  *)
(* larger than any.                                                        *)
LEMMA OptimalIs ==
  ASSUME NEW n \in ContentSizes
  PROVE  /\ OptimalBlockSize(n) \in Nat \ {0}
         /\ Asked \in Nat \ {0}
         /\ (n <= OptimalBlockSize(n) /\ n <= Asked) \/ OptimalBlockSize(n) = Asked
<1> DEFINE S == {i \in DOMAIN BlockSizes : n <= BlockSizes[i]} \cup {Len(BlockSizes)}
           m == Min(S)
           k == Len(BlockSizes)
<1>1. BlockSizes \in Seq(Nat \ {0}) /\ k \in Nat \ {0} /\ DOMAIN BlockSizes = 1 .. k
  BY BlockSizesAssumption
<1>2. S \in SUBSET Nat /\ k \in S
  BY <1>1
<1> HIDE DEF S
<1>3. m \in S
  BY <1>2, LeastExists
<1>4. m \in 1 .. k /\ (n <= BlockSizes[m] \/ m = k)
  BY <1>1, <1>3 DEF S
<1>5. OptimalBlockSize(n) = BlockSizes[m] /\ Asked = BlockSizes[k]
  BY DEF OptimalBlockSize, Asked, S
<1> HIDE DEF m, k
<1>6. BlockSizes[m] \in Nat \ {0} /\ Asked \in Nat \ {0} /\ BlockSizes[m] <= Asked
  BY <1>1, <1>4, AskedIsLargest
<1>7. n \in Nat
  BY ContentSizesAssumption
<1> QED BY <1>4, <1>5, <1>6, <1>7

-----------------------------------------------------------------------------
(* What the writer appends. *)
HeaderUnit == [kind : {"header"}, part : Nat, max : Nat, linked : BOOLEAN, base : Nat]
BlockUnit  == [kind : {"block"}, part : Nat, size : Nat, stored : BOOLEAN]
ByteUnit   == [kind : {"byte"}, value : Nat]
CodeUnit   == [kind : {"code"}, part : Nat, of : Nat, from : Nat, size : Nat]
Unit       == HeaderUnit \cup BlockUnit \cup ByteUnit \cup CodeUnit

(* What the header of a frame says. *)
LEMMA HeaderMade ==
  ASSUME NEW n \in ContentSizes, written \in Nat
  PROVE  /\ HeaderUnits(n) \in Seq(Unit) /\ Len(HeaderUnits(n)) = 2
         /\ HeaderUnits(n)[1].max = OptimalBlockSize(n)
         /\ HeaderUnits(n)[1].linked = IsLinked(n) /\ HeaderUnits(n)[1].base = written
<1>1. OptimalBlockSize(n) \in Nat /\ IsLinked(n) \in BOOLEAN
  BY OptimalIs DEF IsLinked
<1>2. \A i \in 1 .. 2 : HeaderUnits(n)[i] \in HeaderUnit
  BY <1>1 DEF HeaderUnits, HeaderUnit, minFHSize
<1>3. HeaderUnits(n) \in Seq(HeaderUnit) /\ Len(HeaderUnits(n)) = 2
  BY <1>1 DEF HeaderUnits, HeaderUnit, minFHSize
<1>4. HeaderUnits(n) \in Seq(Unit)
  BY <1>3 DEF Unit
<1>5. HeaderUnits(n)[1] = [kind |-> "header", part |-> 1, max |-> OptimalBlockSize(n),
                           linked |-> IsLinked(n), base |-> written]
  BY DEF HeaderUnits, minFHSize
<1> QED BY <1>3, <1>4, <1>5

(* What the header of a block says. *)
LEMMA BlockHeaderMade ==
  ASSUME NEW n \in Nat, NEW stored \in BOOLEAN
  PROVE  /\ BlockHeader(n, stored) \in Seq(Unit) /\ Len(BlockHeader(n, stored)) = 2
         /\ BlockHeader(n, stored)[1].size = n /\ BlockHeader(n, stored)[1].stored = stored
<1>1. BlockHeader(n, stored) \in Seq(BlockUnit) /\ Len(BlockHeader(n, stored)) = 2
  BY DEF BlockHeader, BlockUnit, BHSize
<1>2. BlockHeader(n, stored) \in Seq(Unit)
  BY <1>1 DEF Unit
<1>3. BlockHeader(n, stored)[1] = [kind |-> "block", part |-> 1, size |-> n, stored |-> stored]
  BY DEF BlockHeader, BHSize
<1> QED BY <1>1, <1>2, <1>3

(* The units of a block, stored or compressed. *)
LEMMA ContentMade ==
  ASSUME NEW from \in Nat \ {0}, NEW n \in Nat, NEW c \in Nat
  PROVE  /\ StoredUnits(from, n) \in Seq(Unit) /\ Len(StoredUnits(from, n)) = n
         /\ \A i \in 1 .. n : StoredUnits(from, n)[i].value = from + i - 1
         /\ CodeUnits(from, n, c) \in Seq(Unit) /\ Len(CodeUnits(from, n, c)) = c
<1>1. StoredUnits(from, n) \in Seq(ByteUnit) /\ Len(StoredUnits(from, n)) = n
  BY DEF StoredUnits, ByteUnit
<1>2. CodeUnits(from, n, c) \in Seq(CodeUnit) /\ Len(CodeUnits(from, n, c)) = c
  BY DEF CodeUnits, CodeUnit
<1>3. StoredUnits(from, n) \in Seq(Unit) /\ CodeUnits(from, n, c) \in Seq(Unit)
  BY <1>1, <1>2 DEF Unit
<1>4. \A i \in 1 .. n : StoredUnits(from, n)[i] = [kind |-> "byte", value |-> from + i - 1]
  BY DEF StoredUnits
<1> QED BY <1>1, <1>2, <1>3, <1>4

(* A file of units, and more of them. *)
LEMMA Appended ==
  ASSUME NEW f \in Seq(Unit), NEW u \in Seq(Unit)
  PROVE  /\ f \o u \in Seq(Unit) /\ Len(f \o u) = Len(f) + Len(u)
         /\ \A i \in 1 .. Len(f) : (f \o u)[i] = f[i]
         /\ \A i \in 1 .. Len(u) : (f \o u)[Len(f) + i] = u[i]
OBVIOUS

(* What is appended comes after all that was there. *)
LEMMA AppendedTo ==
  ASSUME NEW f \in Seq(Unit), NEW u \in Seq(Unit), Len(u) > 0,
         NEW D, D \subseteq 0 .. Len(f)
  PROVE  /\ Len(f \o u) = Len(f) + Len(u) /\ Len(f \o u) \notin D /\ u # <<>>
         /\ \A i \in 1 .. Len(u) : (f \o u)[Len(f) + i] = u[i]
         /\ (f \o u)[Len(f) + 1] = u[1]
<1>0. /\ Len(f \o u) = Len(f) + Len(u)
      /\ \A i \in 1 .. Len(u) : (f \o u)[Len(f) + i] = u[i]
  BY Appended, Zenon
<1>l. Len(f) \in Nat /\ Len(u) \in Nat \ {0} /\ 1 \in 1 .. Len(u)
  OBVIOUS
<1>2. Len(f \o u) \notin D
  BY <1>0, <1>l
<1>3. u # <<>>
  BY EmptySeq
<1> QED BY <1>0, <1>l, <1>2, <1>3

(* A block is its header, then its content. *)
LEMMA HeadAndTail ==
  ASSUME NEW h \in Seq(Unit), NEW b \in Seq(Unit), Len(h) = 2
  PROVE  (h \o b)[1] = h[1] /\ \A i \in 1 .. Len(b) : (h \o b)[2 + i] = b[i]
<1> HIDE DEF Unit
<1>1. /\ \A i \in 1 .. Len(h) : (h \o b)[i] = h[i]
      /\ \A i \in 1 .. Len(b) : (h \o b)[Len(h) + i] = b[i]
  BY Appended, Zenon
<1>2. /\ \A i \in 1 .. 2 : (h \o b)[i] = h[i]
      /\ \A i \in 1 .. Len(b) : (h \o b)[2 + i] = b[i]
  BY <1>1, Zenon
<1>3. 1 \in 1 .. 2
  OBVIOUS
<1> QED BY <1>2, <1>3, Zenon

(* A header and what follows it, at the end of a file. *)
LEMMA TwoAppended ==
  ASSUME NEW f \in Seq(Unit), NEW h \in Seq(Unit), NEW u \in Seq(Unit)
  PROVE  /\ h \o u \in Seq(Unit) /\ Len(h \o u) = Len(h) + Len(u)
         /\ f \o h \o u = f \o (h \o u)
         /\ Len(f \o h \o u) - Len(f) = Len(h) + Len(u)
<1>1. h \o u \in Seq(Unit) /\ Len(h \o u) = Len(h) + Len(u)
  BY Appended
<1>2. f \o h \o u = f \o (h \o u)
  BY ConcatAssociative
<1> HIDE DEF Unit
<1> QED BY <1>1, <1>2, Appended

-----------------------------------------------------------------------------
(* The room of the writer: there is place for what is to come. *)
BlockSize == OptimalBlockSize(size)

RoomInv ==
  /\ file \in Seq(Unit) /\ written \in Nat
  /\ stage \in {"idle", "begin", "update", "blocks"}
  /\ size \in Nat /\ left \in 0 .. size /\ room \in Nat
  /\ stage # "idle" => size \in ContentSizes
  /\ stage \in {"begin", "update"} => left = size
  /\ stage = "begin" => room = maxFHSize + compressBound(size, BlockSize)
  /\ stage = "update" => room = maxFHSize - minFHSize + compressBound(size, BlockSize)
  /\ stage = "blocks" => room >= BHSize * Blocks(left, BlockSize) + left + EndMark

(* With nothing written the file has nothing to fit. *)
LEMMA RoomBegins == WriterInit => RoomInv
BY DEF WriterInit, RoomInv

(* The block size that is asked for needs no less than the one that is     *)
(* taken.                                                                  *)
LEMMA BoundsAgree ==
  ASSUME NEW n \in ContentSizes
  PROVE  /\ compressBound(n, Asked) = compressBound(n, OptimalBlockSize(n))
         /\ compressBound(n, OptimalBlockSize(n)) \in Nat
         /\ compressBound(n, OptimalBlockSize(n))
              = BHSize * Blocks(n, OptimalBlockSize(n)) + n + EndMark
<1>1. /\ OptimalBlockSize(n) \in Nat \ {0} /\ Asked \in Nat \ {0} /\ n \in Nat \ {0}
      /\ (n <= OptimalBlockSize(n) /\ n <= Asked) \/ OptimalBlockSize(n) = Asked
  BY OptimalIs, ContentSizesAssumption
<1>2. \A b : compressBound(n, b) = BHSize * Blocks(n, b) + n + EndMark
  BY DEF compressBound, Blocks
<1>3. Blocks(n, OptimalBlockSize(n)) = Blocks(n, Asked)
  BY <1>1, BlocksOf
<1>4. Blocks(n, OptimalBlockSize(n)) \in Nat
  BY <1>1, BlocksOf
<1> QED BY <1>1, <1>2, <1>3, <1>4 DEF BHSize, EndMark

(* What MakeBlock makes: n bytes, in a block that takes m units. *)
Makes(n, m, units) ==
  /\ n = Lesser(left, BlockSize) /\ units \in Seq(Unit) /\ Len(units) = 2 + m
  /\ \/ m = n /\ units = BlockHeader(n, TRUE) \o StoredUnits(written + 1, n)
     \/ m \in 1 .. n /\ units = BlockHeader(m, FALSE) \o CodeUnits(written + 1, n, m)
  /\ file' = file \o units /\ left' = left - n /\ written' = written + n
  /\ room' = room - (2 + m)

(* A block of the writer: no more code than content, and a place it        *)
(* begins.                                                                 *)
LEMMA MakeBlockMakes ==
  ASSUME RoomInv, MakeBlock
  PROVE  /\ BlockSize \in Nat \ {0}
         /\ \E n, m \in 1 .. BlockSize, u \in Seq(Unit) : m <= n /\ Makes(n, m, u)
<1>1. /\ BlockSize \in Nat \ {0} /\ left \in Nat \ {0} /\ written \in Nat /\ file \in Seq(Unit)
      /\ room \in Nat
  BY OptimalIs DEF RoomInv, MakeBlock, BlockSize
<1> DEFINE n == Lesser(left, BlockSize)
           c == Lesser(2, n - 1)
           s == BlockHeader(n, TRUE) \o StoredUnits(written + 1, n)
           k == BlockHeader(c, FALSE) \o CodeUnits(written + 1, n, c)
<1>2. n \in 1 .. BlockSize /\ c \in 0 .. n - 1
  BY <1>1 DEF Lesser
<1>3. /\ \/ file' = file \o BlockHeader(n, TRUE) \o StoredUnits(written + 1, n)
         \/ c > 0 /\ file' = file \o BlockHeader(c, FALSE) \o CodeUnits(written + 1, n, c)
      /\ left' = left - n /\ written' = written + n
      /\ room' = room - (Len(file') - Len(file))
  BY DEF MakeBlock, BlockSize
<1>n. n = Lesser(left, BlockSize)
  OBVIOUS
<1> HIDE DEF n, c
<1>4. written + 1 \in Nat \ {0} /\ n \in Nat /\ c \in Nat
  BY <1>1, <1>2
<1>6. CASE file' = file \o BlockHeader(n, TRUE) \o StoredUnits(written + 1, n)
  <2>1. /\ BlockHeader(n, TRUE) \in Seq(Unit) /\ Len(BlockHeader(n, TRUE)) = 2
        /\ StoredUnits(written + 1, n) \in Seq(Unit) /\ Len(StoredUnits(written + 1, n)) = n
    BY <1>4, BlockHeaderMade, ContentMade
  <2>2. /\ s \in Seq(Unit) /\ Len(s) = 2 + n /\ file' = file \o s
        /\ Len(file') - Len(file) = 2 + n
    <3> DEFINE h == BlockHeader(n, TRUE)
               u == StoredUnits(written + 1, n)
    <3>1. h \in Seq(Unit) /\ Len(h) = 2 /\ u \in Seq(Unit) /\ Len(u) = n
      BY <2>1
    <3>2. s = h \o u /\ file' = file \o h \o u
      BY <1>6
    <3> HIDE DEF h, u, s
    <3>3. /\ h \o u \in Seq(Unit) /\ Len(h \o u) = Len(h) + Len(u)
          /\ file \o h \o u = file \o (h \o u)
          /\ Len(file \o h \o u) - Len(file) = Len(h) + Len(u)
      BY <3>1, <1>1, TwoAppended
    <3> HIDE DEF Unit
    <3> QED BY <3>1, <3>2, <3>3, <1>4
  <2>3. Makes(n, n, s)
    BY <2>2, <1>3, <1>n DEF Makes
  <2>4. n \in 1 .. BlockSize /\ n <= n
    BY <1>2
  <2> QED BY <2>2, <2>3, <2>4, <1>1, <1>2
<1>7. CASE c > 0 /\ file' = file \o BlockHeader(c, FALSE) \o CodeUnits(written + 1, n, c)
  <2>1. /\ BlockHeader(c, FALSE) \in Seq(Unit) /\ Len(BlockHeader(c, FALSE)) = 2
        /\ CodeUnits(written + 1, n, c) \in Seq(Unit) /\ Len(CodeUnits(written + 1, n, c)) = c
    BY ZenonT(40), <1>4, BlockHeaderMade, ContentMade
  <2>2. /\ k \in Seq(Unit) /\ Len(k) = 2 + c /\ file' = file \o k
        /\ Len(file') - Len(file) = 2 + c
    <3> DEFINE h == BlockHeader(c, FALSE)
               u == CodeUnits(written + 1, n, c)
    <3>1. h \in Seq(Unit) /\ Len(h) = 2 /\ u \in Seq(Unit) /\ Len(u) = c
      BY <2>1
    <3>2. k = h \o u /\ file' = file \o h \o u
      BY <1>7
    <3> HIDE DEF h, u, k
    <3>3. /\ h \o u \in Seq(Unit) /\ Len(h \o u) = Len(h) + Len(u)
          /\ file \o h \o u = file \o (h \o u)
          /\ Len(file \o h \o u) - Len(file) = Len(h) + Len(u)
      BY <3>1, <1>1, TwoAppended
    <3> HIDE DEF Unit
    <3> QED BY <3>1, <3>2, <3>3, <1>4
  <2>3. c \in 1 .. n /\ c \in 1 .. BlockSize /\ c <= n
    BY <1>1, <1>2, <1>4, <1>7
  <2>4. Makes(n, c, k)
    BY <2>2, <2>3, <1>3, <1>n DEF Makes
  <2> QED BY <2>2, <2>3, <2>4, <1>1, <1>2
<1> QED BY <1>3, <1>6, <1>7

(* Every block fits what the bound of the frame has left for it. *)
LEMMA RoomKept ==
  ASSUME RoomInv, WriterNext
  PROVE  RoomInv'
<1>0. file \in Seq(Unit) /\ written \in Nat /\ room \in Nat /\ size \in Nat /\ left \in 0 .. size
  BY DEF RoomInv
<1>1. CASE Crush
  <2>1. PICK n \in ContentSizes :
          /\ size' = n /\ left' = n
          /\ room' = compressFrameBound(n, Asked)
          /\ stage' = IF room' < compressFrameBound(n, OptimalBlockSize(n)) THEN "failed"
                      ELSE "begin"
          /\ UNCHANGED <<file, ends, written>>
    BY <1>1 DEF Crush
  <2>2. /\ compressBound(n, Asked) = compressBound(n, OptimalBlockSize(n))
        /\ compressBound(n, OptimalBlockSize(n)) \in Nat
    BY BoundsAgree
  <2>3. /\ room' = maxFHSize + compressBound(n, OptimalBlockSize(n)) /\ stage' = "begin"
        /\ room' \in Nat
    BY <2>1, <2>2 DEF compressFrameBound, maxFHSize
  <2>4. n \in Nat /\ n \in 0 .. n
    BY ContentSizesAssumption
  <2> QED BY <2>1, <2>3, <2>4, <1>0 DEF RoomInv, BlockSize
<1>2. CASE CompressBegin
  <2>1. size \in ContentSizes /\ left = size /\ room = maxFHSize + compressBound(size, BlockSize)
    BY <1>2 DEF RoomInv, CompressBegin
  <2>2. compressBound(size, BlockSize) \in Nat
    BY <2>1, BoundsAgree DEF BlockSize
  <2>3. /\ stage' = "update" /\ file' = file \o HeaderUnits(size) /\ room' = room - minFHSize
        /\ UNCHANGED <<ends, written, size, left>>
    BY <2>1, <2>2, <1>2 DEF CompressBegin, maxFHSize
  <2>4. file' \in Seq(Unit)
    BY <2>1, <2>3, <1>0, HeaderMade, Appended
  <2> QED BY <2>1, <2>2, <2>3, <2>4, <1>0 DEF RoomInv, BlockSize, maxFHSize, minFHSize
<1>3. CASE CompressUpdate
  <2>1. /\ size \in ContentSizes /\ left = size
        /\ room = maxFHSize - minFHSize + compressBound(size, BlockSize)
    BY <1>3 DEF RoomInv, CompressUpdate
  <2>2. /\ compressBound(size, BlockSize) \in Nat
        /\ compressBound(size, BlockSize) = BHSize * Blocks(size, BlockSize) + size + EndMark
    BY <2>1, BoundsAgree DEF BlockSize
  <2>3. stage' = "blocks" /\ UNCHANGED <<file, ends, written, size, left, room>>
    BY <2>1, <2>2, <1>3 DEF CompressUpdate, maxFHSize, minFHSize, BlockSize
  <2> QED BY <2>1, <2>2, <2>3, <1>0 DEF RoomInv, BlockSize, maxFHSize, minFHSize
<1>4. CASE MakeBlock
  <2>1. BlockSize \in Nat \ {0}
    BY <1>4, MakeBlockMakes
  <2>2. PICK n, m \in 1 .. BlockSize, u \in Seq(Unit) : m <= n /\ Makes(n, m, u)
    BY <1>4, MakeBlockMakes
  <2>3. /\ n = Lesser(left, BlockSize) /\ left > 0 /\ left \in Nat
        /\ file' = file \o u /\ left' = left - n /\ written' = written + n
        /\ room' = room - (2 + m) /\ size' = size /\ stage' = stage /\ stage = "blocks"
        /\ size \in ContentSizes
        /\ room >= BHSize * Blocks(left, BlockSize) + left + EndMark
    BY <2>2, <1>4, <1>0 DEF Makes, MakeBlock, RoomInv
  <2>4. file' \in Seq(Unit)
    BY <2>3, <1>0, Appended
  <2>5. Blocks(left, BlockSize) = Blocks(left', BlockSize) + 1 /\ Blocks(left', BlockSize) \in Nat
    <3>1. CASE left <= BlockSize
      <4>1. left' = 0
        BY <2>1, <2>3, <3>1 DEF Lesser
      <4> QED BY <4>1, <2>1, <2>3, <3>1, BlocksOf
    <3>2. CASE left > BlockSize
      <4>1. left' = left - BlockSize /\ left' \in Nat
        BY <2>1, <2>3, <3>2 DEF Lesser
      <4> QED BY <4>1, <2>1, <2>3, <3>2, BlocksOf
    <3> QED BY <3>1, <3>2, <2>1, <2>3
  <2>6. left' \in 0 .. size
    BY <2>1, <2>3, <1>0 DEF Lesser
  <2>7. room' >= BHSize * Blocks(left', BlockSize) + left' + EndMark /\ room' \in Nat
    <3> DEFINE b == Blocks(left', BlockSize)
    <3>1. b \in Nat /\ room >= 2 * (b + 1) + left + 2 /\ room' = room - (2 + m)
      BY <2>3, <2>5 DEF BHSize, EndMark
    <3>2. m \in Nat /\ n \in Nat /\ m <= n /\ left' = left - n /\ left' \in Nat /\ left \in Nat
      BY <2>1, <2>2, <2>3, <2>6, <1>0
    <3> HIDE DEF b
    <3>3. room' >= 2 * b + left' + 2 /\ room' \in Nat
      BY <3>1, <3>2, <1>0
    <3> QED BY <3>3 DEF b, BHSize, EndMark
  <2>8. BlockSize' = BlockSize
    BY <2>3 DEF BlockSize
  <2> QED BY SMTT(20), <2>2, <2>3, <2>4, <2>6, <2>7, <2>8, <1>0 DEF RoomInv
<1>5. CASE CompressEnd
  <2>1. /\ left = 0 /\ stage = "blocks"
        /\ room >= BHSize * Blocks(left, BlockSize) + left + EndMark
    BY <1>5 DEF CompressEnd, RoomInv
  <2>2. Blocks(0, BlockSize) = 0
    <3>1. BlockSize \in Nat \ {0}
      BY <2>1, OptimalIs DEF RoomInv, BlockSize
    <3> QED BY <3>1, BlocksOf
  <2>3. room >= EndMark
    BY <2>1, <2>2, <1>0 DEF BHSize, EndMark
  <2>4. /\ stage' = "idle" /\ file' = file \o BlockHeader(0, FALSE) /\ room' = room - EndMark
        /\ UNCHANGED <<written, size, left>>
    BY <2>3, <1>5, <1>0 DEF CompressEnd, EndMark
  <2>5. file' \in Seq(Unit)
    BY <2>4, <1>0, BlockHeaderMade, Appended
  <2>6. room' \in Nat
    BY <2>3, <2>4, <1>0 DEF EndMark
  <2>7. stage' = "idle" /\ written' \in Nat /\ size' \in Nat /\ left' \in 0 .. size'
    BY <2>4, <1>0
  <2> QED BY <2>5, <2>6, <2>7 DEF RoomInv
<1> QED BY <1>1, <1>2, <1>3, <1>4, <1>5 DEF WriterNext

-----------------------------------------------------------------------------
(* What a file says, by its places: where a frame begins or a block, how   *)
(* many bytes stand before it and of what frame it is.                     *)
Infos == [max : Nat \ {0}, linked : BOOLEAN, base : Nat]
Places == [at : {"frame", "block"}, pos : Nat, info : Infos]

InfoOf(unit) == [max |-> unit.max, linked |-> unit.linked, base |-> unit.base]

HeaderSays(L, f, p) ==
  /\ p + 2 \in DOMAIN L /\ p + 1 \notin DOMAIN L
  /\ L[p + 2] = [at |-> "block", pos |-> L[p].pos, info |-> InfoOf(f[p + 1])]
  /\ InfoOf(f[p + 1]).base = L[p].pos

(* s units of content, up to the place q. *)
ContentSays(L, f, p, s, q) ==
  /\ L[q].at = "block" /\ L[q].info = L[p].info
  /\ L[q].pos - L[p].pos \in 1 .. L[p].info.max
  /\ f[p + 1].stored =>
       L[q].pos = L[p].pos + s /\ \A i \in 1 .. s : f[p + 2 + i].value = L[p].pos + i
  /\ ~f[p + 1].stored =>
       \A i \in 1 .. s :
         f[p + 2 + i] = CodeUnits(L[p].pos + 1, L[q].pos - L[p].pos, s)[i]

BlockSays(L, f, p) ==
  \E s \in Nat, q \in DOMAIN L :
    /\ s = f[p + 1].size /\ q = p + 2 + s
    /\ \A r \in p + 1 .. q - 1 : r \notin DOMAIN L
    /\ s = 0 => L[q].at = "frame" /\ L[q].pos = L[p].pos
    /\ s > 0 => ContentSays(L, f, p, s, q)

Says(L, f, p) == IF L[p].at = "frame" THEN HeaderSays(L, f, p) ELSE BlockSays(L, f, p)

Layout(L, f) ==
  /\ L \in [DOMAIN L -> Places]
  /\ DOMAIN L \subseteq 0 .. Len(f) /\ {0, Len(f)} \subseteq DOMAIN L
  /\ L[0].at = "frame" /\ L[0].pos = 0
  /\ \A p, q \in DOMAIN L : p <= q => L[p].pos <= L[q].pos
  /\ \A p \in DOMAIN L : L[p].at = "block" => L[p].info.base <= L[p].pos
  /\ \A p \in DOMAIN L : p < Len(f) => Says(L, f, p)

(* The content of a block stays true where the file and the places do. *)
LEMMA ContentStays ==
  ASSUME NEW f, NEW g, NEW L, NEW M, NEW p, NEW q, NEW s, ContentSays(L, f, p, s, q),
         M[p] = L[p], M[q] = L[q], g[p + 1] = f[p + 1],
         \A i \in 1 .. s : g[p + 2 + i] = f[p + 2 + i]
  PROVE  ContentSays(M, g, p, s, q)
<1>1. /\ M[q].at = "block" /\ M[q].info = M[p].info
      /\ M[q].pos - M[p].pos \in 1 .. M[p].info.max
  BY DEF ContentSays
<1>2. g[p + 1].stored =>
        M[q].pos = M[p].pos + s /\ \A i \in 1 .. s : g[p + 2 + i].value = M[p].pos + i
  BY DEF ContentSays
<1>3. ~g[p + 1].stored =>
        \A i \in 1 .. s :
          g[p + 2 + i] = CodeUnits(M[p].pos + 1, M[q].pos - M[p].pos, s)[i]
  BY DEF ContentSays
<1> QED BY <1>1, <1>2, <1>3 DEF ContentSays

(* Another piece at the end of a file. *)
LEMMA LayoutGrows ==
  ASSUME NEW f \in Seq(Unit), NEW u \in Seq(Unit), u # <<>>,
         NEW g, g = f \o u, NEW L, Layout(L, f),
         NEW new \in Places, L[Len(f)].pos <= new.pos,
         new.at = "block" => new.info.base <= new.pos,
         NEW M, M \in [DOMAIN L \cup {Len(g)} -> Places], M[Len(g)] = new,
         \A p \in DOMAIN L : M[p] = L[p],
         Says(M, g, Len(f))
  PROVE  Layout(M, g)
<1>1. /\ Len(g) = Len(f) + Len(u) /\ Len(u) \in Nat \ {0} /\ Len(f) \in Nat
      /\ \A i \in 1 .. Len(f) : g[i] = f[i]
  <2>1. Len(u) \in Nat \ {0} /\ Len(f) \in Nat
    BY EmptySeq
  <2> QED BY <2>1, Appended
<1>2. /\ L \in [DOMAIN L -> Places]
      /\ DOMAIN L \subseteq 0 .. Len(f) /\ 0 \in DOMAIN L /\ Len(f) \in DOMAIN L
  BY DEF Layout
<1>3. /\ DOMAIN M = DOMAIN L \cup {Len(g)} /\ \A p \in DOMAIN L : M[p] = L[p]
      /\ Len(g) \notin DOMAIN L /\ M[Len(g)] = new
  BY <1>1, <1>2
<1>4. M \in [DOMAIN M -> Places]
  BY <1>2, <1>3
<1>5. DOMAIN M \subseteq 0 .. Len(g) /\ {0, Len(g)} \subseteq DOMAIN M
  BY <1>1, <1>2, <1>3
<1>b. M[0].at = "frame" /\ M[0].pos = 0
  BY <1>2, <1>3 DEF Layout
<1>6. ASSUME NEW p \in DOMAIN M, NEW q \in DOMAIN M, p <= q PROVE M[p].pos <= M[q].pos
  <2>1. \A r \in DOMAIN L : L[r].pos <= L[Len(f)].pos /\ L[r].pos \in Nat
    BY <1>1, <1>2 DEF Layout, Places
  <2>2. new.pos \in Nat
    BY DEF Places
  <2>3. CASE q \in DOMAIN L
    <3>1. p \in DOMAIN L
      BY <1>1, <1>2, <1>3, <1>6, <2>3
    <3> QED BY <3>1, <2>3, <1>3, <1>6 DEF Layout
  <2>4. CASE q = Len(g)
    <3>1. CASE p \in DOMAIN L
      <4>1. M[p].pos = L[p].pos /\ L[p].pos <= L[Len(f)].pos /\ M[q].pos = new.pos
        BY <3>1, <2>1, <2>4, <1>3
      <4>2. L[Len(f)].pos \in Nat /\ L[p].pos \in Nat
        BY <2>1, <3>1, <1>2
      <4> QED BY <4>1, <4>2, <2>2
    <3>2. CASE p = Len(g)
      BY <3>2, <2>2, <2>4, <1>3
    <3> QED BY <3>1, <3>2, <1>3
  <2> QED BY <2>3, <2>4, <1>3
<1>7. ASSUME NEW p \in DOMAIN M, M[p].at = "block" PROVE M[p].info.base <= M[p].pos
  BY <1>3, <1>7 DEF Layout
<1>8. ASSUME NEW p \in DOMAIN L, p < Len(f) PROVE Says(M, g, p)
  <2>1. Says(L, f, p) /\ p \in 0 .. Len(f) /\ M[p] = L[p] /\ g[p + 1] = f[p + 1]
    BY <1>8, <1>1, <1>2, <1>3 DEF Layout
  <2>2. \A r \in 0 .. Len(f) : r \in DOMAIN M <=> r \in DOMAIN L
    BY <1>1, <1>3
  <2>3. CASE L[p].at = "frame"
    <3>1. HeaderSays(L, f, p)
      BY <2>1, <2>3 DEF Says
    <3>2. p + 2 \in DOMAIN L /\ p + 1 \notin DOMAIN L /\ p + 2 \in 0 .. Len(f) /\ p + 1 \in 0 .. Len(f)
      BY <3>1, <2>1, <1>2 DEF HeaderSays
    <3> QED BY <3>1, <3>2, <2>1, <2>2, <2>3, <1>3 DEF Says, HeaderSays
  <2>4. CASE L[p].at # "frame"
    <3>1. PICK s \in Nat, q \in DOMAIN L :
            /\ s = f[p + 1].size /\ q = p + 2 + s
            /\ \A r \in p + 1 .. q - 1 : r \notin DOMAIN L
            /\ s = 0 => L[q].at = "frame" /\ L[q].pos = L[p].pos
            /\ s > 0 => ContentSays(L, f, p, s, q)
      BY <2>1, <2>4 DEF Says, BlockSays
    <3>2. q \in 0 .. Len(f) /\ q \in DOMAIN M /\ M[q] = L[q]
      BY <1>2, <1>3
    <3>3. \A r \in p + 1 .. q - 1 : r \notin DOMAIN M
      <4>1. \A r \in p + 1 .. q - 1 : r \in 0 .. Len(f)
        BY <3>2, <2>1
      <4> QED BY <4>1, <3>1, <2>2
    <3>4. s > 0 => ContentSays(M, g, p, s, q)
      <4> SUFFICES ASSUME s > 0 PROVE ContentSays(M, g, p, s, q)
        OBVIOUS
      <4>1. ContentSays(L, f, p, s, q)
        BY <3>1
      <4>2. \A i \in 1 .. s : g[p + 2 + i] = f[p + 2 + i]
        BY SMTT(20), <3>1, <3>2, <2>1, <1>1
      <4>3. M[p] = L[p] /\ M[q] = L[q] /\ g[p + 1] = f[p + 1]
        BY <3>2, <2>1
      <4> QED BY <4>1, <4>2, <4>3, ContentStays
    <3>5. s = 0 => M[q].at = "frame" /\ M[q].pos = M[p].pos
      BY <3>1, <3>2, <2>1
    <3>6. s = g[p + 1].size /\ q = p + 2 + s
      BY <3>1, <2>1
    <3>7. BlockSays(M, g, p)
      BY <3>2, <3>3, <3>4, <3>5, <3>6 DEF BlockSays
    <3> QED BY <3>7, <2>1, <2>4 DEF Says
  <2> QED BY <2>3, <2>4
<1>9. \A p \in DOMAIN M : p < Len(g) => Says(M, g, p)
  <2> SUFFICES ASSUME NEW p \in DOMAIN M, p < Len(g) PROVE Says(M, g, p)
    OBVIOUS
  <2>1. p \in DOMAIN L /\ (p = Len(f) \/ p < Len(f))
    BY <1>1, <1>2, <1>3
  <2> QED BY <2>1, <1>8
<1> QED BY <1>3, <1>4, <1>5, <1>b, <1>6, <1>7, <1>9 DEF Layout

(* The file says what was written and where the frames end.                *)
Written(L) ==
  /\ Layout(L, file)
  /\ \A e \in ends :
       e.units \in DOMAIN L /\ L[e.units].at = "frame" /\ L[e.units].pos = e.bytes
  /\ \A p \in DOMAIN L : L[p].at = "frame" => \E e \in ends : e.units = p
  /\ L[Len(file)].pos = written
  /\ L[Len(file)].at = IF stage \in {"idle", "begin"} THEN "frame" ELSE "block"
  /\ stage \in {"update", "blocks"} => L[Len(file)].info.max = BlockSize

Continues(M, L) == DOMAIN L \subseteq DOMAIN M /\ \A p \in DOMAIN L : M[p] = L[p]

(* An empty file has its one place, where the first frame will be. *)
LEMMA WrittenBegins ==
  ASSUME WriterInit
  PROVE  \E L : Written(L)
<1> DEFINE i == [max |-> 1, linked |-> FALSE, base |-> 0]
           l == [at |-> "frame", pos |-> 0, info |-> i]
           L == [p \in {0} |-> l]
<1>1. /\ file = <<>> /\ ends = {[units |-> 0, bytes |-> 0]} /\ written = 0 /\ stage = "idle"
      /\ Len(file) = 0
  BY DEF WriterInit
<1>2. i \in Infos /\ l \in Places
  BY DEF Infos, Places
<1>3. DOMAIN L = {0} /\ L[0] = l /\ l.at = "frame" /\ l.pos = 0
  OBVIOUS
<1>4. L \in [DOMAIN L -> Places]
  BY <1>2, <1>3
<1> HIDE DEF L, l
<1>5. Layout(L, file)
  BY <1>1, <1>3, <1>4 DEF Layout
<1>6. Written(L)
  BY <1>1, <1>3, <1>5 DEF Written
<1> QED BY <1>3, <1>6

(* Every step of the writer leaves the places and adds those it makes. *)
LEMMA WrittenKept ==
  ASSUME RoomInv, WriterNext, NEW L, Written(L)
  PROVE  \E M : Written(M)' /\ Continues(M, L)
<1>0. /\ file \in Seq(Unit) /\ written \in Nat /\ size \in Nat /\ Len(file) \in Nat
      /\ Layout(L, file) /\ L \in [DOMAIN L -> Places] /\ Len(file) \in DOMAIN L
      /\ DOMAIN L \subseteq 0 .. Len(file) /\ DOMAIN L \in SUBSET (0 .. Len(file))
  BY DEF RoomInv, Written, Layout
<1> DEFINE end0  == L[Len(file)]
           With(new, g) == [p \in DOMAIN L \cup {Len(g)} |-> IF p \in DOMAIN L THEN L[p] ELSE new]
<1>1. CASE Crush \/ CompressUpdate
  <2>1. UNCHANGED <<file, ends, written>>
    BY <1>1 DEF Crush, CompressUpdate
  <2>2. \/ stage = "idle" /\ stage' \in {"failed", "begin"}
        \/ stage = "update" /\ stage' \in {"failed", "blocks"} /\ size' = size
    BY <1>1 DEF Crush, CompressUpdate
  <2>3. stage' # "failed"
    BY RoomKept DEF RoomInv
  <2>4. Written(L)'
    BY <2>1, <2>2, <2>3 DEF Written, BlockSize
  <2> QED BY <2>4 DEF Continues
<1>2. CASE CompressBegin
  <2> DEFINE u == HeaderUnits(size)
             new == [at |-> "block", pos |-> written, info |-> InfoOf(u[1])]
  <2>1. /\ size \in ContentSizes /\ end0.pos = written /\ end0.at = "frame"
        /\ file' = file \o u /\ UNCHANGED <<ends, written, size>>
        /\ stage' \in {"failed", "update"}
    BY <1>2 DEF CompressBegin, RoomInv, Written
  <2>2. stage' = "update"
    BY <2>1, RoomKept DEF RoomInv
  <2>3. /\ u \in Seq(Unit) /\ Len(u) = 2
        /\ u[1].max = OptimalBlockSize(size) /\ u[1].linked = IsLinked(size) /\ u[1].base = written
    BY <2>1, <1>0, HeaderMade
  <2>4. new \in Places /\ new.at = "block" /\ new.pos = written /\ new.info = InfoOf(u[1])
        /\ new.info.base = written /\ new.info.max = BlockSize
    <3>1. OptimalBlockSize(size) \in Nat \ {0} /\ IsLinked(size) \in BOOLEAN
      BY <2>1, OptimalIs DEF IsLinked
    <3> HIDE DEF u
    <3> QED BY <2>3, <3>1, <1>0 DEF InfoOf, Infos, Places, BlockSize
  <2> HIDE DEF u, new
  <2>5. /\ Len(file') = Len(file) + 2 /\ file'[Len(file) + 1] = u[1]
        /\ Len(file') \notin DOMAIN L /\ u # <<>>
    <3> HIDE DEF Unit
    <3>0. Len(u) > 0
      BY <2>3
    <3>1. /\ Len(file \o u) = Len(file) + Len(u) /\ Len(file \o u) \notin DOMAIN L /\ u # <<>>
          /\ (file \o u)[Len(file) + 1] = u[1]
      BY <3>0, <2>3, <1>0, AppendedTo
    <3> QED BY <3>1, <2>1, <2>3
  <2>m. PICK M : M = With(new, file')
    OBVIOUS
  <2>6. /\ DOMAIN M = DOMAIN L \cup {Len(file')} /\ M[Len(file')] = new
        /\ \A p \in DOMAIN L : M[p] = L[p]
    BY <2>5, <2>m
  <2>7. Says(M, file', Len(file))
    <3>1. Len(file) + 1 \notin DOMAIN M
      BY <2>5, <2>6, <1>0
    <3>2. M[Len(file)] = end0
      BY <2>6, <1>0
    <3>3. new = [at |-> "block", pos |-> end0.pos, info |-> InfoOf(file'[Len(file) + 1])]
      BY <2>1, <2>5 DEF new
    <3>4. InfoOf(file'[Len(file) + 1]).base = end0.pos
      BY <2>1, <2>4, <2>5
    <3> QED BY <3>1, <3>2, <3>3, <3>4, <2>1, <2>5, <2>6 DEF Says, HeaderSays
  <2>8. Layout(M, file')
    <3>1. L[Len(file)].pos <= new.pos /\ new.info.base <= new.pos
      BY <2>1, <2>4, <1>0
    <3>2. M \in [DOMAIN L \cup {Len(file')} -> Places]
      BY <2>m, <2>4, <1>0
    <3>3. u # <<>> /\ u \in Seq(Unit) /\ file' = file \o u
      BY <2>1, <2>3, <2>5
    <3>4. M[Len(file')] = new /\ \A p \in DOMAIN L : M[p] = L[p]
      BY <2>6
    <3> HIDE DEF Layout, Says, Unit
    <3> QED BY <3>1, <3>2, <3>3, <3>4, <2>4, <2>7, <1>0, LayoutGrows
  <2>9. \A p \in DOMAIN M : M[p].at = "frame" => \E e \in ends' : e.units = p
    BY <2>1, <2>4, <2>6 DEF Written
  <2>10. \A e \in ends' :
           e.units \in DOMAIN M /\ M[e.units].at = "frame" /\ M[e.units].pos = e.bytes
    BY <2>1, <2>6 DEF Written
  <2>11. BlockSize' = BlockSize
    BY <2>1 DEF BlockSize
  <2>12. Written(M)'
    BY <2>1, <2>2, <2>4, <2>6, <2>8, <2>9, <2>10, <2>11 DEF Written
  <2>13. Continues(M, L)
    BY <2>6 DEF Continues
  <2> QED BY <2>12, <2>13
<1>3. CASE MakeBlock
  <2>1. PICK n, m \in 1 .. BlockSize, u \in Seq(Unit) : m <= n /\ Makes(n, m, u)
    BY <1>3, MakeBlockMakes
  <2>2. /\ n \in Nat \ {0} /\ m \in Nat \ {0} /\ n <= BlockSize /\ BlockSize \in Nat \ {0}
    BY <2>1, <1>3, MakeBlockMakes
  <2> DEFINE new == [at |-> "block", pos |-> written + n, info |-> end0.info]
  <2>3. /\ end0.pos = written /\ end0.at = "block" /\ end0.info.max = BlockSize
        /\ end0 \in Places
        /\ stage = "blocks" /\ stage' = "blocks" /\ UNCHANGED <<ends, size>>
    BY <1>3, <1>0 DEF MakeBlock, RoomInv, Written
  <2>4. file' = file \o u /\ Len(u) = 2 + m /\ written' = written + n
    BY <2>1 DEF Makes
  <2>5. new \in Places /\ new.at = "block" /\ new.pos = written + n /\ new.info = end0.info
    BY <2>2, <2>3, <1>0 DEF Places
  <2> HIDE DEF new
  <2>q. PICK q : q = Len(file')
    OBVIOUS
  <2>6. /\ q = Len(file) + 2 + m /\ \A i \in 1 .. 2 + m : file'[Len(file) + i] = u[i]
        /\ q \notin DOMAIN L /\ u # <<>>
    <3>1. 2 + m \in Nat \ {0}
      BY <2>2
    <3>2. u \in Seq(Unit)
      BY <2>1
    <3>0. Len(u) > 0
      BY <2>4, <3>1
    <3>3. /\ Len(file \o u) = Len(file) + Len(u) /\ Len(file \o u) \notin DOMAIN L /\ u # <<>>
          /\ \A i \in 1 .. Len(u) : (file \o u)[Len(file) + i] = u[i]
      BY <3>0, <3>2, <1>0, AppendedTo
    <3>4. Len(u) = 2 + m /\ Len(file') = Len(file) + 2 + m
      BY <3>3, <2>2, <2>4, <1>0
    <3>5. \A i \in 1 .. 2 + m : file'[Len(file) + i] = u[i]
      BY <3>3, <3>4, <2>4
    <3> QED BY <3>3, <3>4, <3>5, <2>4, <2>q
  <2>m. PICK M : M = With(new, file')
    OBVIOUS
  <2>7. DOMAIN M = DOMAIN L \cup {q} /\ M[q] = new /\ \A p \in DOMAIN L : M[p] = L[p]
    BY <2>6, <2>m, <2>q
  <2>8. u[1].size = m /\ ContentSays(M, file', Len(file), m, q)
    <3>1. M[q].pos - M[Len(file)].pos = n /\ M[Len(file)].pos = written
          /\ M[Len(file)].info = M[q].info /\ M[Len(file)].info.max = BlockSize
      BY <2>2, <2>3, <2>5, <2>7, <1>0
    <3>2. /\ file'[Len(file) + 1] = u[1]
          /\ \A i \in 1 .. m : file'[Len(file) + 2 + i] = u[2 + i]
      <4>1. \A i \in 1 .. m : 2 + i \in 1 .. 2 + m /\ Len(file) + 2 + i = Len(file) + (2 + i)
        BY <2>2, <1>0
      <4>2. 1 \in 1 .. 2 + m
        BY <2>2
      <4> QED BY <4>1, <4>2, <2>6
    <3>3. n \in 1 .. BlockSize
      BY <2>1
    <3>4. written + 1 \in Nat \ {0}
      BY <1>0
    <3>5. CASE m = n /\ u = BlockHeader(n, TRUE) \o StoredUnits(written + 1, n)
      <4> DEFINE h == BlockHeader(n, TRUE)  b == StoredUnits(written + 1, n)
      <4>1. /\ h \in Seq(Unit) /\ Len(h) = 2 /\ h[1].size = n /\ h[1].stored = TRUE
            /\ b \in Seq(Unit) /\ Len(b) = n
            /\ \A i \in 1 .. n : b[i].value = written + 1 + i - 1
        BY ZenonT(40), <2>2, <3>4, BlockHeaderMade, ContentMade
      <4>u. u = h \o b
        BY <3>5
      <4> HIDE DEF h, b, Unit
      <4>2. u[1] = h[1] /\ \A i \in 1 .. n : u[2 + i] = b[i]
        <5>1. (h \o b)[1] = h[1] /\ \A i \in 1 .. Len(b) : (h \o b)[2 + i] = b[i]
          BY <4>1, HeadAndTail
        <5>2. Len(b) = n
          BY <4>1
        <5> QED BY <5>1, <5>2, <4>u, Zenon
      <4>3. \A i \in 1 .. m : file'[Len(file) + 2 + i].value = written + i
        <5> SUFFICES ASSUME NEW i \in 1 .. m
                     PROVE file'[Len(file) + 2 + i].value = written + i
          OBVIOUS
        <5>1. file'[Len(file) + 2 + i] = b[i] /\ i \in 1 .. n
          BY <4>2, <3>2, <3>5
        <5>2. b[i].value = written + 1 + i - 1 /\ i \in Nat /\ written \in Nat
          BY <4>1, <5>1, <1>0, <2>2
        <5> QED BY <5>1, <5>2
      <4>4. file'[Len(file) + 1].stored /\ u[1].size = m
        BY <4>1, <4>2, <3>2, <3>5
      <4>5. M[q].pos = M[Len(file)].pos + m
        BY <3>1, <3>5, <2>2, <2>5, <2>7, <1>0
      <4> QED BY <4>3, <4>4, <4>5, <3>1, <3>3, <2>5, <2>7 DEF ContentSays
    <3>6. CASE m \in 1 .. n /\ u = BlockHeader(m, FALSE) \o CodeUnits(written + 1, n, m)
      <4> DEFINE h == BlockHeader(m, FALSE)  b == CodeUnits(written + 1, n, m)
      <4>0. m \in Nat /\ n \in Nat /\ FALSE \in BOOLEAN
        BY <2>2
      <4>h. h \in Seq(Unit) /\ Len(h) = 2 /\ h[1].size = m /\ h[1].stored = FALSE
        BY <4>0, BlockHeaderMade
      <4>b. b \in Seq(Unit) /\ Len(b) = m
        BY <4>0, <3>4, ContentMade
      <4>1. /\ h \in Seq(Unit) /\ Len(h) = 2 /\ h[1].size = m /\ h[1].stored = FALSE
            /\ b \in Seq(Unit) /\ Len(b) = m
        BY <4>h, <4>b
      <4>u. u = h \o b
        BY <3>6
      <4> HIDE DEF h, b, Unit
      <4>2. u[1] = h[1] /\ \A i \in 1 .. m : u[2 + i] = b[i]
        <5>1. (h \o b)[1] = h[1] /\ \A i \in 1 .. Len(b) : (h \o b)[2 + i] = b[i]
          BY <4>1, HeadAndTail
        <5>2. Len(b) = m
          BY <4>1
        <5> QED BY <5>1, <5>2, <4>u, Zenon
      <4>3. \A i \in 1 .. m : file'[Len(file) + 2 + i] = b[i]
        BY <4>2, <3>2
      <4>4. ~file'[Len(file) + 1].stored /\ u[1].size = m
        BY <4>1, <4>2, <3>2
      <4>5. b = CodeUnits(M[Len(file)].pos + 1, M[q].pos - M[Len(file)].pos, m)
        BY <3>1 DEF b
      <4> QED BY <4>3, <4>4, <4>5, <3>1, <3>3, <2>5, <2>7 DEF ContentSays
    <3> QED BY <3>5, <3>6, <2>1 DEF Makes
  <2>9. Says(M, file', Len(file))
    <3>1. M[Len(file)] = end0
      BY <2>7, <1>0
    <3>2. \A r \in Len(file) + 1 .. q - 1 : r \notin DOMAIN M
      BY <2>6, <2>7, <1>0
    <3>3. m = file'[Len(file) + 1].size /\ q = Len(file) + 2 + m /\ q \in DOMAIN M
      <4>1. 1 \in 1 .. 2 + m
        BY <2>2
      <4> QED BY <4>1, <2>6, <2>7, <2>8
    <3>4. BlockSays(M, file', Len(file))
      BY <3>2, <3>3, <2>2, <2>8 DEF BlockSays
    <3> QED BY <3>1, <3>4, <2>3 DEF Says
  <2>10. Layout(M, file')
    <3>1. L[Len(file)].pos <= new.pos /\ new.info.base <= new.pos
      <4>1. end0.info.base <= end0.pos /\ end0.info.base \in Nat
        BY <2>3, <1>0 DEF Layout, Places, Infos
      <4> QED BY <4>1, <2>2, <2>3, <2>5, <1>0
    <3>2. M \in [DOMAIN L \cup {Len(file')} -> Places]
      BY <2>m, <2>5, <1>0
    <3>3. u # <<>> /\ u \in Seq(Unit) /\ file' = file \o u
      BY <2>1, <2>4, <2>6
    <3>4. M[Len(file')] = new /\ \A p \in DOMAIN L : M[p] = L[p]
      BY <2>7, <2>q
    <3> HIDE DEF Layout, Says, Unit
    <3> QED BY <3>1, <3>2, <3>3, <3>4, <2>5, <2>9, <1>0, LayoutGrows
  <2>11. \A p \in DOMAIN M : M[p].at = "frame" => \E e \in ends' : e.units = p
    BY <2>3, <2>5, <2>7 DEF Written
  <2>12. \A e \in ends' :
           e.units \in DOMAIN M /\ M[e.units].at = "frame" /\ M[e.units].pos = e.bytes
    BY <2>3, <2>7 DEF Written
  <2>13. BlockSize' = BlockSize
    BY <2>3 DEF BlockSize
  <2>14. Written(M)'
    BY <2>3, <2>4, <2>5, <2>7, <2>10, <2>11, <2>12, <2>13, <2>q DEF Written
  <2>15. Continues(M, L)
    BY <2>7 DEF Continues
  <2> QED BY <2>14, <2>15
<1>4. CASE CompressEnd
  <2> DEFINE u == BlockHeader(0, FALSE)
             new == [at |-> "frame", pos |-> written, info |-> end0.info]
  <2>1. /\ end0.pos = written /\ end0.at = "block" /\ end0 \in Places
        /\ file' = file \o u /\ written' = written
        /\ ends' = ends \cup {[units |-> Len(file'), bytes |-> written]}
        /\ stage' \in {"failed", "idle"}
    BY <1>4, <1>0 DEF CompressEnd, RoomInv, Written
  <2>2. stage' = "idle"
    BY <2>1, RoomKept DEF RoomInv
  <2>3. u \in Seq(Unit) /\ Len(u) = 2 /\ u[1].size = 0
    BY BlockHeaderMade
  <2>4. new \in Places /\ new.at = "frame" /\ new.pos = written
    BY <2>1, <1>0 DEF Places
  <2> HIDE DEF u, new
  <2>5. /\ Len(file') = Len(file) + 2 /\ file'[Len(file) + 1] = u[1]
        /\ Len(file') \notin DOMAIN L /\ u # <<>>
    <3> HIDE DEF Unit
    <3>0. Len(u) > 0
      BY <2>3
    <3>1. /\ Len(file \o u) = Len(file) + Len(u) /\ Len(file \o u) \notin DOMAIN L /\ u # <<>>
          /\ (file \o u)[Len(file) + 1] = u[1]
      BY <3>0, <2>3, <1>0, AppendedTo
    <3> QED BY <3>1, <2>1, <2>3
  <2>m. PICK M : M = With(new, file')
    OBVIOUS
  <2>6. /\ DOMAIN M = DOMAIN L \cup {Len(file')} /\ M[Len(file')] = new
        /\ \A p \in DOMAIN L : M[p] = L[p]
    BY <2>5, <2>m
  <2>7. Says(M, file', Len(file))
    <3>1. \A r \in Len(file) + 1 .. Len(file') - 1 : r \notin DOMAIN M
      BY <2>5, <2>6, <1>0
    <3>2. M[Len(file)] = end0
      BY <2>6, <1>0
    <3>3. 0 \in Nat /\ 0 = file'[Len(file) + 1].size /\ Len(file') = Len(file) + 2 + 0
      BY <2>3, <2>5, <1>0
    <3>4. ~(0 > 0)
      OBVIOUS
    <3>5. BlockSays(M, file', Len(file))
      BY <3>1, <3>2, <3>3, <3>4, <2>1, <2>4, <2>6 DEF BlockSays
    <3> QED BY <3>2, <3>5, <2>1 DEF Says
  <2>8. Layout(M, file')
    <3>1. L[Len(file)].pos <= new.pos
      BY <2>1, <2>4, <1>0
    <3>2. M \in [DOMAIN L \cup {Len(file')} -> Places]
      BY <2>m, <2>4, <1>0
    <3>3. u # <<>> /\ u \in Seq(Unit) /\ file' = file \o u
      BY <2>1, <2>3, <2>5
    <3>4. M[Len(file')] = new /\ \A p \in DOMAIN L : M[p] = L[p]
      BY <2>6
    <3> HIDE DEF Layout, Says, Unit
    <3> QED BY <3>1, <3>2, <3>3, <3>4, <2>4, <2>7, <1>0, LayoutGrows
  <2>9. \A p \in DOMAIN M : M[p].at = "frame" => \E e \in ends' : e.units = p
    <3> SUFFICES ASSUME NEW p \in DOMAIN M, M[p].at = "frame"
                 PROVE \E e \in ends' : e.units = p
      OBVIOUS
    <3>1. CASE p \in DOMAIN L
      <4>1. PICK e \in ends : e.units = p
        BY <3>1, <2>6 DEF Written
      <4> QED BY <4>1, <2>1
    <3>2. CASE p = Len(file')
      <4> DEFINE e == [units |-> Len(file'), bytes |-> written]
      <4>1. e \in ends' /\ e.units = p
        BY <3>2, <2>1
      <4> QED BY <4>1, Zenon
    <3> QED BY <3>1, <3>2, <2>6
  <2>10. \A e \in ends' :
           e.units \in DOMAIN M /\ M[e.units].at = "frame" /\ M[e.units].pos = e.bytes
    BY <2>1, <2>4, <2>6 DEF Written
  <2>11. Written(M)'
    BY <2>1, <2>2, <2>4, <2>6, <2>8, <2>9, <2>10 DEF Written
  <2>12. Continues(M, L)
    BY <2>6 DEF Continues
  <2> QED BY <2>11, <2>12
<1> QED BY <1>1, <1>2, <1>3, <1>4 DEF WriterNext

-----------------------------------------------------------------------------
(* The memory of the decoder.  The n cells of b before its place e hold    *)
(* the last n of v bytes.                                                  *)
Size(b) == Cardinality(DOMAIN b)
IsBuffer(b) == Size(b) \in Nat /\ DOMAIN b = 0 .. Size(b) - 1

Recent(b, e, v, n) ==
  /\ e \in 0 .. Size(b) /\ n \in 0 .. e
  /\ \A i \in 1 .. n : b[e - i] = v + 1 - i

(* The dictionary d has the last n of v bytes, at its end; what the        *)
(* caller's buffer has ends at e.                                          *)
InDst(d, e) == d \in [in : {"dst"}, at : Nat, size : Nat] /\ d.at + d.size = e

Has(d, t, v, n, e) ==
  \/ d = NoDict /\ n = 0
  \/ d = InTmp(d.size) /\ d.size >= n /\ Recent(t, d.size, v, n)
  \/ InDst(d, e) /\ d.size >= n

(* While the s bytes that follow the first b, of which h are of this      *)
(* frame, are flushed from a: start of them are out, and the dictionary is *)
(* in front of them or in the caller's buffer, from where it may have to   *)
(* be brought there.                                                       *)
Reserve(s) == IF s > Window THEN 0 ELSE Window - s

HasFlushed(d, t, b, h, a, s, start, e) ==
  \/ d = NoDict /\ start = 0 /\ a = 0
  \/ d = InTmp(a + start) /\ Recent(t, a, b, Lesser(h, Reserve(s)))
  \/ /\ InDst(d, e) /\ d.size >= Lesser(Window, h + start)
     /\ Lesser(a, Reserve(s)) > 0 => e >= start + Lesser(a, Reserve(s))

ToFlush(t, b, h, a, s) ==
  /\ a \in Nat /\ s \in 1 .. info.max
  /\ info.linked => a >= Lesser(Window, h)
  /\ Recent(t, a + s, b + s, s)

MidFrame ==
  dStage \in {"getBlockHeader", "storeBlockHeader", "copyDirect", "getCBlock", "storeCBlock",
              "flushOut"}

Calling == caller.at \in {"call", "leave"}

DstEnd == IF Calling THEN dstAt ELSE -1

OutKnown == Len(out) \in Nat /\ out = [i \in 1 .. Len(out) |-> i]

DstKnown ==
  Calling => /\ IsBuffer(dst) /\ Size(dst) > 0
             /\ dstAt \in Nat /\ Recent(dst, dstAt, Len(out), dstAt)

InfoKnown ==
  dStage \notin {"getFrameHeader", "storeFrameHeader"} =>
    info \in Infos /\ IF dStage = "init" THEN info.base = Len(out) ELSE info.base <= Len(out)

DictKnown ==
  /\ dStage \in {"getFrameHeader", "storeFrameHeader", "init"} => dict = NoDict
  /\ MidFrame =>
       /\ Size(tmpOutBuffer) >= info.max + IF info.linked THEN 2 * Window ELSE 0
       /\ ~info.linked => dict = NoDict /\ tmpOut = 0
       /\ info.linked /\ dStage # "flushOut" =>
            Has(dict, tmpOutBuffer, Len(out), Lesser(Window, Len(out) - info.base), DstEnd)

FlushKnown ==
  dStage = "flushOut" =>
    /\ tmpOutStart \in 0 .. tmpOutSize - 1 /\ info.base <= Len(out) - tmpOutStart
    /\ ToFlush(tmpOutBuffer, Len(out) - tmpOutStart, Len(out) - tmpOutStart - info.base,
               tmpOut, tmpOutSize)
    /\ info.linked =>
         HasFlushed(dict, tmpOutBuffer, Len(out) - tmpOutStart,
                    Len(out) - tmpOutStart - info.base, tmpOut, tmpOutSize, tmpOutStart, DstEnd)

MemInv ==
  /\ inside = TRUE /\ IsBuffer(tmpOutBuffer)
  /\ OutKnown /\ DstKnown /\ InfoKnown /\ DictKnown /\ FlushKnown

-----------------------------------------------------------------------------
(* Where the reader is in the file f.                                      *)
PlaceOf(L, p, at) == p \in DOMAIN L /\ L[p].at = at

FrameAt(L, p, v) == PlaceOf(L, p, "frame") /\ L[p].pos = v
BlockAt(L, p, v, i) == PlaceOf(L, p, "block") /\ L[p].pos = v /\ L[p].info = i

(* The input that is being gathered, up to p: less than n units of it.     *)
Gathers(h, f, p, n) ==
  /\ Len(h) \in 0 .. n - 1 /\ Len(h) <= p
  /\ h = SubSeq(f, p - Len(h) + 1, p)

(* s units of content follow p, after v bytes. *)
ContentFrom(L, p, s, v, i) ==
  /\ s \in Nat \ {0} /\ p + s \in DOMAIN L
  /\ L[p + s].at = "block" /\ L[p + s].info = i
  /\ \A r \in p .. p + s - 1 : r \notin DOMAIN L

StoredFrom(L, f, p, s, v, i) ==
  /\ ContentFrom(L, p, s, v, i)
  /\ L[p + s].pos = v + s
  /\ \A j \in 1 .. s : f[p + j].value = v + j

CodedFrom(L, f, p, s, v, i) ==
  /\ ContentFrom(L, p, s, v, i)
  /\ L[p + s].pos - v \in 1 .. i.max
  /\ \A j \in 1 .. s : f[p + j] = CodeUnits(v + 1, L[p + s].pos - v, s)[j]

PosInv(L) ==
  /\ end \in 0 .. Len(file) /\ src \in 0 .. end
  /\ dStage \in {"getFrameHeader", "getSuffix"} => FrameAt(L, src, Len(out))
  /\ dStage = "storeFrameHeader" =>
       target = 2 /\ Gathers(held, file, src, 2) /\ FrameAt(L, src - Len(held), Len(out))
  /\ dStage \in {"init", "getBlockHeader"} => BlockAt(L, src, Len(out), info)
  /\ dStage = "storeBlockHeader" =>
       Gathers(held, file, src, 2) /\ BlockAt(L, src - Len(held), Len(out), info)
  /\ dStage = "copyDirect" => StoredFrom(L, file, src, target, Len(out), info)
  /\ dStage = "getCBlock" => CodedFrom(L, file, src, target, Len(out), info)
  /\ dStage = "storeCBlock" =>
       /\ Gathers(held, file, src, target)
       /\ CodedFrom(L, file, src - Len(held), target, Len(out), info)
  /\ dStage = "flushOut" => BlockAt(L, src, Len(out) + tmpOutSize - tmpOutStart, info)

(* What the caller knows. *)
CallInv ==
  /\ caller \in [kind : {"none", "client", "any"},
                 at : {"away", "frame", "loop", "call", "leave", "done", "failed"}]
  /\ caller.kind = "none" => ReaderInit
  /\ caller.kind # "none" => stage = "idle" /\ caller.at # "away"
  /\ MidFrame \/ dStage \in {"getFrameHeader", "storeFrameHeader", "init", "getSuffix"}
  /\ caller.at = "call" => src <= srcEnd /\ srcEnd \in 0 .. end
  /\ caller.at # "call" => dStage # "getSuffix"
  /\ caller.at = "leave" => dStage # "init"
  /\ Calling => before \in 0 .. src
  /\ caller.at = "frame" => dStage = "getFrameHeader" /\ caller.kind = "client"
  /\ caller.kind = "client" =>
       /\ caller.at = "call" => srcEnd = end /\ before < end
       /\ caller.at \in {"loop", "call"} => dStage \notin {"getFrameHeader", "storeFrameHeader"}
       /\ caller.at = "leave" => dStage # "storeFrameHeader" /\ (FrameOver \/ Moved)

-----------------------------------------------------------------------------
(* Copies in memory. *)
LEMMA SizeOf ==
  ASSUME NEW n \in Nat, NEW b, DOMAIN b = 0 .. n - 1
  PROVE  IsBuffer(b) /\ Size(b) = n
<1>1. Cardinality(0 .. n - 1) = n
  BY FS_Interval
<1> QED BY <1>1 DEF IsBuffer, Size

(* What is read from a buffer, if there is room. *)
LEMMA CellsAre ==
  ASSUME NEW b, NEW at \in Int, NEW n \in Nat, IsBuffer(b),
         n = 0 \/ (at \in Nat /\ at + n <= Size(b))
  PROVE  /\ Len(Cells(b, at, n)) = n /\ Fits(b, at, n)
         /\ DOMAIN Cells(b, at, n) = 1 .. n
         /\ \A i \in 1 .. n : Cells(b, at, n)[i] = b[at + i - 1] /\ at + i - 1 \in DOMAIN b
<1> DEFINE c == Cells(b, at, n)
           R == {c[i] : i \in 1 .. n}
<1>1. DOMAIN c = 1 .. n /\ c = [i \in 1 .. n |-> c[i]]
  BY DEF Cells
<1>2. Len(c) = n
  <2> HIDE DEF c
  <2>1. \A i \in 1 .. n : c[i] \in R
    OBVIOUS
  <2> HIDE DEF R
  <2>2. c \in [1 .. n -> R]
    BY <1>1, <2>1
  <2>3. c \in Seq(R)
    BY <2>2
  <2> QED BY <2>3, <1>1
<1>3. \A i \in 1 .. n : at + i - 1 \in DOMAIN b
  BY DEF IsBuffer
<1>4. \A i \in 1 .. n : c[i] = b[at + i - 1]
  BY <1>3 DEF Cells
<1>5. Fits(b, at, n)
  BY DEF Fits, IsBuffer
<1> QED BY <1>1, <1>2, <1>3, <1>4, <1>5

(* p is b, with cells from a place. *)
Pasted(p, b, at, cells, n) ==
  /\ IsBuffer(p) /\ Size(p) = Size(b)
  /\ \A i \in 1 .. n : p[at + i - 1] = cells[i]
  /\ \A j \in DOMAIN b : j < at \/ j >= at + n => p[j] = b[j]

(* What a buffer is when some cells were put into it, inside it. *)
LEMMA PasteIs ==
  ASSUME NEW b, NEW at \in Int, NEW cells, NEW n \in Nat, IsBuffer(b),
         Len(cells) = n, n = 0 \/ (at \in Nat /\ at + n <= Size(b)),
         NEW p, p = Paste(b, at, cells)
  PROVE  Pasted(p, b, at, cells, n)
<1> DEFINE c == Paste(b, at, cells)
<1>1. DOMAIN c = DOMAIN b
  BY DEF Paste
<1>2. IsBuffer(c) /\ Size(c) = Size(b)
  BY <1>1 DEF IsBuffer, Size
<1>3. ASSUME NEW i \in 1 .. n PROVE c[at + i - 1] = cells[i]
  <2>1. at + i - 1 \in DOMAIN b /\ at + i - 1 \in at .. at + n - 1
    BY DEF IsBuffer
  <2>2. (at + i - 1) - at + 1 = i
    OBVIOUS
  <2> QED BY <2>1, <2>2 DEF Paste
<1>4. ASSUME NEW j \in DOMAIN b, j < at \/ j >= at + n PROVE c[j] = b[j]
  <2>1. j \notin at .. at + n - 1
    BY <1>4
  <2> QED BY <2>1 DEF Paste
<1> QED BY <1>2, <1>3, <1>4 DEF Pasted

(* c has, at a place of t, n cells of b from a place. *)
CopyIs(c, t, b, at, from, n) ==
  /\ c.inside = TRUE /\ IsBuffer(c.tmp) /\ Size(c.tmp) = Size(t)
  /\ \A i \in 1 .. n : c.tmp[at + i - 1] = b[from + i - 1]
  /\ \A j \in DOMAIN t : j < at \/ j >= at + n => c.tmp[j] = t[j]

(* What was copied out of the dictionary, if the two do not overlap. *)
LEMMA FromDictIs ==
  ASSUME NEW t, NEW o, NEW d, NEW at \in Int, NEW from \in Int, NEW n \in Nat,
         IsBuffer(t), IsBuffer(DictBuffer(d, t, o)),
         n = 0 \/ (at \in Nat /\ at + n <= Size(t)),
         n = 0 \/ (from \in Nat /\ from + n <= Size(DictBuffer(d, t, o))),
         d.in = "tmp" => n = 0 \/ at + n <= from \/ from + n <= at,
         NEW c, c = FromDict(t, o, d, at, from, n)
  PROVE  CopyIs(c, t, DictBuffer(d, t, o), at, from, n)
<1> DEFINE b == DictBuffer(d, t, o)
           cells == Cells(b, from, n)
<1>1. /\ Len(cells) = n /\ Fits(b, from, n)
      /\ \A i \in 1 .. n : cells[i] = b[from + i - 1]
  <2> HIDE DEF b
  <2>1. IsBuffer(b) /\ (n = 0 \/ (from \in Nat /\ from + n <= Size(b)))
    BY DEF b
  <2> QED BY <2>1, CellsAre
<1>2. Fits(t, at, n)
  BY CellsAre
<1>3. c.tmp = Paste(t, at, cells)
  BY DEF FromDict
<1>4. c.inside = TRUE
  <2>1. c.inside = (/\ n >= 0 /\ Fits(t, at, n) /\ Fits(b, from, n)
                    /\ d.in = "tmp" => n = 0 \/ at + n <= from \/ from + n <= at)
    BY DEF FromDict
  <2>2. n >= 0
    OBVIOUS
  <2> QED BY <2>1, <2>2, <1>1, <1>2
<1> HIDE DEF b, cells
<1>5. /\ IsBuffer(c.tmp) /\ Size(c.tmp) = Size(t)
      /\ \A i \in 1 .. n : c.tmp[at + i - 1] = cells[i]
      /\ \A j \in DOMAIN t : j < at \/ j >= at + n => c.tmp[j] = t[j]
  <2>1. n = 0 \/ (at \in Nat /\ at + n <= Size(t))
    OBVIOUS
  <2>2. Pasted(c.tmp, t, at, cells, n)
    BY <2>1, <1>1, <1>3, PasteIs, Zenon
  <2> QED BY <2>2 DEF Pasted
<1> QED BY <1>1, <1>4, <1>5 DEF b, CopyIs

(* What Recent says is kept by a copy of it, by more of it, and when other *)
(* cells change.                                                           *)
LEMMA RecentStays ==
  ASSUME NEW t, NEW u, NEW e, NEW v \in Int, NEW n, NEW m \in Nat, Recent(t, e, v, n), m <= n,
         e <= Size(u), IsBuffer(t), \A i \in 1 .. m : u[e - i] = t[e - i]
  PROVE  Recent(u, e, v, m)
BY DEF Recent, IsBuffer

(* The newest bytes, copied elsewhere, are the newest there. *)
LEMMA RecentCopied ==
  ASSUME NEW t, NEW u, NEW e \in Nat, NEW f \in Nat, NEW v \in Int, NEW n, NEW m \in Nat,
         Recent(t, e, v, n), m <= n, IsBuffer(t), IsBuffer(u), f <= Size(u), m <= f,
         \A i \in 1 .. m : u[f - m + i - 1] = t[e - m + i - 1]
  PROVE  Recent(u, f, v, m)
<1>1. ASSUME NEW i \in 1 .. m PROVE u[f - i] = v + 1 - i
  <2>1. m - i + 1 \in 1 .. m /\ f - m + (m - i + 1) - 1 = f - i /\ e - m + (m - i + 1) - 1 = e - i
    OBVIOUS
  <2>2. u[f - i] = t[e - i]
    BY <2>1
  <2>3. i \in 1 .. n
    BY DEF Recent, IsBuffer
  <2> QED BY <2>2, <2>3 DEF Recent
<1> QED BY <1>1 DEF IsBuffer, Recent

(* Newest bytes, followed by newer ones. *)
LEMMA RecentMore ==
  ASSUME NEW t, NEW e, NEW v \in Int, NEW n, NEW m \in Nat,
         Recent(t, e, v, n), IsBuffer(t), e + m <= Size(t),
         \A i \in 1 .. m : t[e + i - 1] = v + i
  PROVE  Recent(t, e + m, v + m, n + m)
<1>1. e \in Nat /\ n \in 0 .. e /\ Size(t) \in Nat
  BY DEF Recent, IsBuffer
<1>2. ASSUME NEW i \in 1 .. n + m PROVE t[e + m - i] = (v + m) + 1 - i
  <2>1. CASE i <= m
    <3>1. m - i + 1 \in 1 .. m /\ e + (m - i + 1) - 1 = e + m - i
      BY <2>1, <1>1
    <3>2. t[e + m - i] = v + (m - i + 1)
      BY <3>1
    <3> QED BY <3>2, <1>1
  <2>2. CASE i > m
    <3>1. i - m \in 1 .. n /\ e - (i - m) = e + m - i
      BY <2>2, <1>1
    <3>2. t[e + m - i] = v + 1 - (i - m)
      BY <3>1 DEF Recent
    <3> QED BY <3>2, <1>1
  <2> QED BY <2>1, <2>2, <1>1
<1> QED BY <1>1, <1>2 DEF Recent

-----------------------------------------------------------------------------
Dict0(d, at) == IF d.size = 0 THEN [in |-> "dst", at |-> at, size |-> 0] ELSE d

(* n bytes more, and a dictionary of m of them. *)
Added(u, t, v, m, e) ==
  /\ u.inside = TRUE /\ IsBuffer(u.tmp) /\ Size(u.tmp) = Size(t)
  /\ Has(u.dict, u.tmp, v, m, e)

(* After a block decoded in place, the dictionary has as much of the       *)
(* history as there was, or a window of it.                                *)
LEMMA UpdateDictAdds ==
  ASSUME NEW t, NEW o, NEW at \in Nat, NEW n \in Nat, NEW v \in Nat, NEW k \in Nat,
         IsBuffer(t), IsBuffer(o), at + n <= Size(o), Recent(o, at + n, v + n, at + n),
         Size(t) >= 2 * Window, Has(dict, t, v, k, at),
         NEW u, u = UpdateDict(t, o, at, n, FALSE),
         NEW m \in Nat, m <= k + n, m <= Window
  PROVE  Added(u, t, v + n, m, at + n)
<1>d. PICK d : d = Dict0(dict, at)
  OBVIOUS
<1>e. PICK e : e = u.dict
  OBVIOUS
<1>w. Window \in Nat \ {0} /\ Size(t) \in Nat /\ Size(o) \in Nat
  BY WindowAssumption DEF IsBuffer
<1>o. \A i \in 1 .. n : at + i - 1 \in 0 .. Size(o) - 1 /\ o[at + i - 1] = v + i
  <2> SUFFICES ASSUME NEW i \in 1 .. n
               PROVE  at + i - 1 \in 0 .. Size(o) - 1 /\ o[at + i - 1] = v + i
    OBVIOUS
  <2>1. n + 1 - i \in 1 .. at + n /\ (at + n) - (n + 1 - i) = at + i - 1
    OBVIOUS
  <2>2. o[at + i - 1] = (v + n) + 1 - (n + 1 - i)
    BY <2>1 DEF Recent
  <2>3. (v + n) + 1 - (n + 1 - i) = v + i
    OBVIOUS
  <2>4. at + i - 1 \in 0 .. Size(o) - 1
    BY <1>w
  <2> QED BY <2>2, <2>3, <2>4
<1>c. Len(Cells(o, at, n)) = n /\ \A i \in 1 .. n : Cells(o, at, n)[i] = v + i
  <2>1. Len(Cells(o, at, n)) = n /\ \A i \in 1 .. n : Cells(o, at, n)[i] = o[at + i - 1]
    BY CellsAre
  <2> QED BY <2>1, <1>o
<1>1. \/ InDst(d, at) /\ d.size >= k
      \/ d = InTmp(d.size) /\ d.size >= k /\ Recent(t, d.size, v, k)
  <2>1. CASE dict.size = 0
    <3>1. k = 0
      BY <2>1 DEF Has, InDst
    <3>2. d = [in |-> "dst", at |-> at, size |-> 0]
      BY <2>1, <1>d DEF Dict0
    <3> QED BY <3>1, <3>2 DEF InDst
  <2>2. CASE dict.size # 0
    <3>1. d = dict /\ dict # NoDict
      BY <2>2, <1>d DEF Dict0, NoDict
    <3> QED BY <3>1 DEF Has
  <2> QED BY <2>1, <2>2
<1>2. CASE InDst(d, at) /\ d.size >= k
  <2>1. d.in = "dst" /\ d.at + d.size = at /\ d \in [in : {"dst"}, at : Nat, size : Nat]
    BY <1>2 DEF InDst
  <2>2. e = [d EXCEPT !.size = @ + n] /\ u.tmp = t /\ u.inside = TRUE
    BY <2>1, <1>d, <1>e DEF UpdateDict, Dict0
  <2>3. InDst(e, at + n) /\ e.size = d.size + n
    <3>1. e \in [in : {"dst"}, at : Nat, size : Nat]
      BY <2>1, <2>2
    <3>2. e.size = d.size + n /\ e.at = d.at
      BY <2>1, <2>2
    <3> QED BY <3>1, <3>2, <2>1 DEF InDst
  <2>4. e.size >= m
    BY <2>1, <2>3, <1>2
  <2> QED BY <2>2, <2>3, <2>4, <1>e DEF Has, Added
<1>3. CASE d = InTmp(d.size) /\ d.size >= k /\ Recent(t, d.size, v, k)
  <2>1. /\ d.in = "tmp" /\ d.at = 0 /\ d.size \in Nat /\ d.size <= Size(t)
        /\ k <= d.size /\ DictBuffer(d, t, o) = t
    BY <1>3 DEF InTmp, Recent, DictBuffer, IsBuffer
  <2>2. CASE at + n >= Window
    <3>1. e = [in |-> "dst", at |-> 0, size |-> at + n] /\ u.tmp = t /\ u.inside = TRUE
      BY <2>1, <2>2, <1>d, <1>e DEF UpdateDict, Dict0
    <3>2. InDst(e, at + n)
      BY <3>1 DEF InDst
    <3>3. e.size >= m
      BY <3>1, <2>2, <1>w
    <3> QED BY <3>1, <3>2, <3>3, <1>e DEF Has, Added
  <2>3. CASE ~ (at + n >= Window) /\ d.size + n <= Size(t)
    <3>p. PICK p : p = Paste(t, d.size, Cells(o, at, n))
      OBVIOUS
    <3>1. e = InTmp(d.size + n) /\ u.tmp = p /\ u.inside = TRUE
      BY <2>1, <2>3, <3>p, <1>d, <1>e DEF UpdateDict, Dict0, Size
    <3>2. /\ IsBuffer(p) /\ Size(p) = Size(t)
          /\ \A i \in 1 .. n : p[d.size + i - 1] = v + i
          /\ \A j \in DOMAIN t : j < d.size \/ j >= d.size + n => p[j] = t[j]
      <4>c. PICK cells : cells = Cells(o, at, n)
        OBVIOUS
      <4>1. Len(cells) = n /\ p = Paste(t, d.size, cells)
        BY <4>c, <3>p, <1>c
      <4>2. /\ IsBuffer(p) /\ Size(p) = Size(t)
            /\ \A i \in 1 .. n : p[d.size + i - 1] = cells[i]
            /\ \A j \in DOMAIN t : j < d.size \/ j >= d.size + n => p[j] = t[j]
        <5>1. d.size \in Int /\ (n = 0 \/ (d.size \in Nat /\ d.size + n <= Size(t)))
          BY <2>1, <2>3
        <5>2. Pasted(p, t, d.size, cells, n)
          BY <5>1, <4>1, PasteIs, Zenon
        <5> QED BY <5>2 DEF Pasted
      <4> QED BY <4>2, <4>c, <1>c
    <3>3. \A i \in 1 .. k : p[d.size - i] = t[d.size - i]
      <4>1. \A i \in 1 .. k : d.size - i \in DOMAIN t /\ d.size - i < d.size
        BY SMTT(20), <2>1 DEF IsBuffer
      <4> QED BY <4>1, <3>2
    <3>4. Recent(p, d.size, v, k)
      BY <3>2, <3>3, <2>1, <1>3, RecentStays
    <3>5. Recent(p, d.size + n, v + n, k + n)
      BY <3>2, <3>4, <2>1, <2>3, RecentMore
    <3>6. Recent(p, d.size + n, v + n, m)
      BY <3>2, <3>5, <2>1, <2>3, RecentStays
    <3>7. e.size = d.size + n /\ e = InTmp(e.size)
      BY <3>1 DEF InTmp
    <3>8. e.size >= m
      BY <3>7, <2>1
    <3> QED BY <3>1, <3>2, <3>6, <3>7, <3>8, <1>e DEF Has, Added
  <2>4. CASE ~ (at + n >= Window) /\ ~ (d.size + n <= Size(t))
    <3>k. PICK keep : keep = Window - n
      OBVIOUS
    <3>e. PICK c : c = FromDict(t, o, d, 0, d.at + d.size - keep, keep)
      OBVIOUS
    <3>p. PICK p : p = Paste(c.tmp, keep, Cells(o, at, n))
      OBVIOUS
    <3>1. /\ e = InTmp(keep + n) /\ u.tmp = p
          /\ c.inside = TRUE /\ Fits(t, keep, n) => u.inside = TRUE
      BY <2>1, <2>4, <3>k, <3>e, <3>p, <1>d, <1>e DEF UpdateDict, Dict0, Size
    <3>2. /\ keep \in Nat /\ keep + n = Window /\ keep + keep <= d.size
      BY <2>1, <2>4, <3>k, <1>w
    <3>f. PICK f : f = d.at + d.size - keep
      OBVIOUS
    <3>g. f = d.size - keep /\ f \in Nat /\ f + keep = d.size /\ keep <= f
      BY <3>2, <3>f, <2>1
    <3>d. c = FromDict(t, o, d, 0, f, keep)
      BY <3>f, <3>e
    <3>3. /\ c.inside = TRUE /\ IsBuffer(c.tmp) /\ Size(c.tmp) = Size(t)
          /\ \A i \in 1 .. keep : c.tmp[0 + i - 1] = t[f + i - 1]
      <4>1. /\ IsBuffer(DictBuffer(d, t, o)) /\ f + keep <= Size(DictBuffer(d, t, o))
            /\ f \in Int /\ keep \in Nat /\ IsBuffer(t) /\ keep <= Size(t)
        BY <3>2, <3>g, <2>1, <1>w
      <4>z. PICK z : z = 0
        OBVIOUS
      <4>3. z \in Int /\ z \in Nat /\ z + keep <= Size(t) /\ z + keep <= f
        BY <4>1, <4>z, <3>g
      <4>4. c = FromDict(t, o, d, z, f, keep)
        BY <4>z, <3>d
      <4>2. /\ c.inside = TRUE /\ IsBuffer(c.tmp) /\ Size(c.tmp) = Size(t)
            /\ \A i \in 1 .. keep : c.tmp[z + i - 1] = DictBuffer(d, t, o)[f + i - 1]
        <5>1. /\ keep = 0 \/ (z \in Nat /\ z + keep <= Size(t))
              /\ keep = 0 \/ (f \in Nat /\ f + keep <= Size(DictBuffer(d, t, o)))
              /\ d.in = "tmp" => keep = 0 \/ z + keep <= f \/ f + keep <= z
          BY <4>1, <4>3, <3>g
        <5>2. CopyIs(c, t, DictBuffer(d, t, o), z, f, keep)
          BY <5>1, <4>1, <4>3, <4>4, FromDictIs, Zenon
        <5> QED BY <5>2 DEF CopyIs
      <4> QED BY <4>2, <4>z, <2>1
    <3>4. Fits(t, keep, n)
      <4>1. (keep + n - 1 \in 0 .. Size(t) - 1 /\ keep \in 0 .. Size(t) - 1) \/ n = 0
        BY <3>2, <1>w
      <4> QED BY <4>1 DEF Fits, IsBuffer
    <3>5. /\ IsBuffer(p) /\ Size(p) = Size(t)
          /\ \A i \in 1 .. n : p[keep + i - 1] = v + i
          /\ \A j \in DOMAIN c.tmp : j < keep \/ j >= keep + n => p[j] = c.tmp[j]
      <4>1. keep + n <= Size(c.tmp) /\ keep \in Int
        BY <3>2, <3>3, <1>w
      <4>c. PICK cells : cells = Cells(o, at, n)
        OBVIOUS
      <4>2. Len(cells) = n /\ p = Paste(c.tmp, keep, cells)
        BY <4>c, <3>p, <1>c
      <4>t. PICK b : b = c.tmp
        OBVIOUS
      <4>3. /\ IsBuffer(p) /\ Size(p) = Size(b)
            /\ \A i \in 1 .. n : p[keep + i - 1] = cells[i]
            /\ \A j \in DOMAIN b : j < keep \/ j >= keep + n => p[j] = b[j]
        <5>1. keep \in Int /\ (n = 0 \/ (keep \in Nat /\ keep + n <= Size(b))) /\ IsBuffer(b)
          BY <4>1, <4>t, <3>2, <3>3
        <5>2. p = Paste(b, keep, cells)
          BY <4>2, <4>t
        <5>3. Pasted(p, b, keep, cells, n)
          BY <5>1, <5>2, <4>2, PasteIs, Zenon
        <5> QED BY <5>3 DEF Pasted
      <4> QED BY <4>3, <4>c, <4>t, <3>3, <1>c
    <3>6. PICK a \in Nat : a <= k /\ a <= keep /\ m <= a + n
      <4>1. CASE k <= keep
        BY <4>1
      <4>2. CASE keep <= k
        BY <4>2, <3>2
      <4> QED BY <4>1, <4>2, <3>2
    <3>7. \A i \in 1 .. a : c.tmp[keep - a + i - 1] = t[d.size - a + i - 1]
      <4> SUFFICES ASSUME NEW i \in 1 .. a
                   PROVE c.tmp[keep - a + i - 1] = t[d.size - a + i - 1]
        OBVIOUS
      <4>1. /\ keep - a + i \in 1 .. keep /\ 0 + (keep - a + i) - 1 = keep - a + i - 1
            /\ f + (keep - a + i) - 1 = d.size - a + i - 1
        BY <3>2, <3>6, <3>g, <2>1
      <4> QED BY <4>1, <3>3
    <3>8. Recent(c.tmp, keep, v, a)
      <4>1. keep <= Size(c.tmp) /\ v \in Int
        BY <3>2, <3>3, <1>w
      <4>t. PICK b : b = c.tmp
        OBVIOUS
      <4>2. Recent(b, keep, v, a)
        BY <4>1, <4>t, <3>2, <3>3, <3>6, <3>7, <2>1, <1>3, RecentCopied
      <4> QED BY <4>2, <4>t
    <3>9. Recent(p, keep, v, a)
      <4>1. \A i \in 1 .. a : p[keep - i] = c.tmp[keep - i]
        <5>1. \A i \in 1 .. a : keep - i \in DOMAIN c.tmp /\ keep - i < keep
          BY <3>2, <3>3, <3>6, <1>w DEF IsBuffer
        <5> QED BY <5>1, <3>5
      <4>2. keep <= Size(p)
        BY <3>2, <3>5, <1>w
      <4> QED BY <4>1, <4>2, <3>3, <3>8, <3>6, RecentStays
    <3>10. Recent(p, keep + n, v + n, a + n)
      <4>1. keep + n <= Size(p)
        BY <3>2, <3>5, <1>w
      <4> QED BY <4>1, <3>5, <3>9, <3>6, RecentMore
    <3>11. Recent(p, keep + n, v + n, m)
      <4>1. keep + n <= Size(p)
        BY <3>2, <3>5, <1>w
      <4> QED BY <4>1, <3>5, <3>10, <3>6, RecentStays
    <3>12. e.size = keep + n /\ e = InTmp(e.size)
      BY <3>1 DEF InTmp
    <3>13. e.size >= m
      BY <3>2, <3>12, <1>w
    <3> QED BY <3>1, <3>3, <3>4, <3>5, <3>11, <3>12, <3>13, <1>e DEF Has, Added
  <2> QED BY <2>2, <2>3, <2>4
<1> QED BY <1>1, <1>2, <1>3

-----------------------------------------------------------------------------
Flushed(u, t, b, h, start, e) ==
  /\ u.inside = TRUE /\ u.tmp = t
  /\ HasFlushed(u.dict, t, b, h, tmpOut, tmpOutSize, start, e)

(* While a decoded block is handed out piece by piece, the dictionary      *)
(* keeps what the next one needs.                                          *)
LEMMA UpdateDictFlushes ==
  ASSUME NEW t, NEW o, NEW at \in Nat, NEW n \in Nat, NEW b, NEW h \in Nat,
         tmpOut \in Nat, tmpOutSize \in Nat \ {0}, tmpOutStart \in Nat,
         tmpOutStart + n <= tmpOutSize, tmpOut >= Lesser(Window, h),
         HasFlushed(dict, t, b, h, tmpOut, tmpOutSize, tmpOutStart, at),
         NEW u, u = UpdateDict(t, o, at, n, TRUE)
  PROVE  Flushed(u, t, b, h, tmpOutStart + n, at + n)
<1>d. PICK d : d = Dict0(dict, at)
  OBVIOUS
<1>e. PICK e : e = u.dict
  OBVIOUS
<1>r. PICK r : r = Lesser(tmpOut, Reserve(tmpOutSize))
  OBVIOUS
<1>w. Window \in Nat \ {0} /\ r \in Nat /\ (r > 0 => r + tmpOutSize <= Window)
  BY WindowAssumption, <1>r DEF Lesser, Reserve
<1>1. \/ /\ InDst(d, at) /\ d.size >= Lesser(Window, h + tmpOutStart)
         /\ r > 0 => at >= tmpOutStart + r
      \/ /\ d = InTmp(tmpOut + tmpOutStart) /\ d.size # 0
         /\ Recent(t, tmpOut, b, Lesser(h, Reserve(tmpOutSize)))
  <2>1. CASE dict.size = 0
    <3>1. d = [in |-> "dst", at |-> at, size |-> 0] /\ InDst(d, at) /\ d.size = 0
      BY <2>1, <1>d DEF Dict0, InDst
    <3>2. CASE dict = NoDict /\ tmpOutStart = 0 /\ tmpOut = 0
      <4>1. h = 0 /\ r = 0
        BY <3>2, <1>r, <1>w DEF Lesser, Reserve
      <4> QED BY <4>1, <3>1, <3>2, <1>w DEF Lesser
    <3>3. CASE dict = InTmp(tmpOut + tmpOutStart)
      <4>1. tmpOut = 0 /\ tmpOutStart = 0
        BY <2>1, <3>3 DEF InTmp
      <4>2. h = 0 /\ r = 0
        BY <4>1, <1>r, <1>w DEF Lesser, Reserve
      <4> QED BY <4>1, <4>2, <3>1, <1>w DEF Lesser
    <3>4. CASE InDst(dict, at) /\ dict.size >= Lesser(Window, h + tmpOutStart)
               /\ (r > 0 => at >= tmpOutStart + r)
      BY <3>1, <3>4, <2>1
    <3> QED BY <3>2, <3>3, <3>4, <1>r DEF HasFlushed
  <2>2. CASE dict.size # 0
    <3>1. d = dict /\ dict # NoDict
      BY <2>2, <1>d DEF Dict0, NoDict
    <3> QED BY <3>1, <2>2, <1>r DEF HasFlushed
  <2> QED BY <2>1, <2>2
<1>2. CASE /\ InDst(d, at) /\ d.size >= Lesser(Window, h + tmpOutStart)
           /\ r > 0 => at >= tmpOutStart + r
  <2>1. d.in = "dst" /\ d.at + d.size = at /\ d \in [in : {"dst"}, at : Nat, size : Nat]
    BY <1>2 DEF InDst
  <2>2. e = [d EXCEPT !.size = @ + n] /\ u.tmp = t /\ u.inside = TRUE
    BY <2>1, <1>d, <1>e DEF UpdateDict, Dict0
  <2>3. InDst(e, at + n) /\ e.size = d.size + n
    <3>1. e \in [in : {"dst"}, at : Nat, size : Nat]
      BY <2>1, <2>2
    <3>2. e.size = d.size + n /\ e.at = d.at
      BY <2>1, <2>2
    <3> QED BY <3>1, <3>2, <2>1 DEF InDst
  <2>4. e.size >= Lesser(Window, h + (tmpOutStart + n))
    BY <2>1, <2>3, <1>2, <1>w DEF Lesser
  <2>5. r > 0 => at + n >= (tmpOutStart + n) + r
    BY <1>2, <1>w
  <2> QED BY <2>2, <2>3, <2>4, <2>5, <1>e, <1>r DEF HasFlushed, Flushed
<1>3. CASE /\ d = InTmp(tmpOut + tmpOutStart) /\ d.size # 0
           /\ Recent(t, tmpOut, b, Lesser(h, Reserve(tmpOutSize)))
  <2>1. d.in = "tmp" /\ d.at = 0 /\ d.size = tmpOut + tmpOutStart
    BY <1>3 DEF InTmp
  <2>2. CASE at + n >= Window
    <3>1. e = [in |-> "dst", at |-> 0, size |-> at + n] /\ u.tmp = t /\ u.inside = TRUE
      BY <2>1, <2>2, <1>d, <1>e DEF UpdateDict, Dict0
    <3>2. InDst(e, at + n)
      BY <3>1 DEF InDst
    <3>3. e.size >= Lesser(Window, h + (tmpOutStart + n))
      BY <3>1, <2>2, <1>w DEF Lesser
    <3>4. r > 0 => at + n >= (tmpOutStart + n) + r
      BY <2>2, <1>w
    <3> QED BY <3>1, <3>2, <3>3, <3>4, <1>e, <1>r DEF HasFlushed, Flushed
  <2>3. CASE ~ (at + n >= Window)
    <3>1. /\ e = [d EXCEPT !.size = @ + n] /\ u.tmp = t
          /\ d.size = tmpOut + tmpOutStart => u.inside = TRUE
      BY <2>1, <2>3, <1>d, <1>e DEF UpdateDict, Dict0
    <3>2. e = InTmp(tmpOut + (tmpOutStart + n))
      BY <3>1, <1>3 DEF InTmp
    <3> QED BY <3>1, <3>2, <2>1, <1>3, <1>e DEF HasFlushed, Flushed
  <2> QED BY <2>2, <2>3
<1> QED BY <1>1, <1>2, <1>3

(* All is flushed: the dictionary has it.                                  *)
LEMMA FlushedHas ==
  ASSUME NEW d, NEW t, NEW b \in Nat, NEW h \in Nat, NEW a \in Nat, NEW s \in Nat \ {0}, NEW e,
         IsBuffer(t), HasFlushed(d, t, b, h, a, s, s, e), Recent(t, a + s, b + s, s)
  PROVE  Has(d, t, b + s, Lesser(Window, h + s), e)
<1>w. Window \in Nat \ {0}
  BY WindowAssumption
<1>1. CASE d = InTmp(a + s) /\ Recent(t, a, b, Lesser(h, Reserve(s)))
  <2>1. \A i \in 1 .. s : t[a + i - 1] = b + i
    <3> SUFFICES ASSUME NEW i \in 1 .. s PROVE t[a + i - 1] = b + i
      OBVIOUS
    <3>1. s + 1 - i \in 1 .. s /\ (a + s) - (s + 1 - i) = a + i - 1
      OBVIOUS
    <3>2. t[a + i - 1] = (b + s) + 1 - (s + 1 - i)
      BY <3>1 DEF Recent
    <3> QED BY <3>2
  <2>2. a + s <= Size(t) /\ Size(t) \in Nat
    BY DEF Recent, IsBuffer
  <2>3. PICK n : n = Lesser(h, Reserve(s))
    OBVIOUS
  <2>4. n \in Nat /\ Lesser(Window, h + s) \in Nat /\ Lesser(Window, h + s) <= n + s
        /\ Lesser(Window, h + s) <= a + s
    <3>1. n \in Nat
      BY <2>3, <1>w DEF Lesser, Reserve
    <3>2. Lesser(Window, h + s) \in Nat /\ Lesser(Window, h + s) <= n + s
      BY <2>3, <1>w DEF Lesser, Reserve
    <3>3. n <= a
      BY <2>3, <1>1 DEF Recent
    <3> QED BY <3>1, <3>2, <3>3
  <2>5. Recent(t, a + s, b + s, n + s)
    BY <2>1, <2>2, <2>3, <2>4, <1>1, RecentMore
  <2>6. Recent(t, a + s, b + s, Lesser(Window, h + s))
    BY <2>2, <2>4, <2>5, RecentStays
  <2>7. d.size = a + s /\ d = InTmp(d.size)
    BY <1>1 DEF InTmp
  <2> QED BY <2>4, <2>6, <2>7 DEF Has
<1>2. CASE InDst(d, e) /\ d.size >= Lesser(Window, h + s)
  BY <1>2 DEF Has
<1> QED BY <1>1, <1>2 DEF HasFlushed

(* LZ4F_decompress at its end, while a block is flushed.                   *)
InFront(c, t, b, h, e) ==
  /\ c.inside = TRUE /\ IsBuffer(c.tmp) /\ Size(c.tmp) = Size(t)
  /\ ToFlush(c.tmp, b, h, tmpOut, tmpOutSize)
  /\ HasFlushed(InTmp(tmpOut + tmpOutStart), c.tmp, b, h, tmpOut, tmpOutSize, tmpOutStart, e)

(* Once the block is out, what stands in front of its end in tmpOutBuffer  *)
(* is the history.                                                         *)
LEMMA HistoryInFront ==
  ASSUME NEW t, NEW o, NEW at \in Nat, NEW b \in Nat, NEW h \in Nat,
         IsBuffer(t), IsBuffer(o), at <= Size(o), Recent(o, at, b + tmpOutStart, at),
         tmpOutStart \in Nat, tmpOutStart <= tmpOutSize, info.linked,
         ToFlush(t, b, h, tmpOut, tmpOutSize),
         HasFlushed(dict, t, b, h, tmpOut, tmpOutSize, tmpOutStart, at), dict.in # "tmp",
         NEW c, c = InFrontOfTmpOut(t, o, dict), NEW e
  PROVE  InFront(c, t, b, h, e)
<1>n. PICK n : n = Lesser(tmpOut, Reserve(tmpOutSize))
  OBVIOUS
<1>w. /\ Window \in Nat \ {0} /\ Size(t) \in Nat /\ Size(o) \in Nat
      /\ tmpOut \in Nat /\ tmpOutSize \in Nat \ {0} /\ tmpOut >= Lesser(Window, h)
      /\ Recent(t, tmpOut + tmpOutSize, b + tmpOutSize, tmpOutSize)
  BY WindowAssumption DEF IsBuffer, ToFlush
<1>1. n \in Nat /\ n <= tmpOut /\ Lesser(h, Reserve(tmpOutSize)) \in Nat
      /\ Lesser(h, Reserve(tmpOutSize)) <= n
  BY <1>n, <1>w DEF Lesser, Reserve
<1>2. tmpOut + tmpOutSize <= Size(t)
  BY <1>w DEF Recent
<1>f. PICK f : f = dict.at + dict.size - tmpOutStart - n
  OBVIOUS
<1>c. c = FromDict(t, o, dict, tmpOut - n, f, n)
  BY <1>n, <1>f DEF InFrontOfTmpOut, Reserve
<1>b. PICK d : d = DictBuffer(dict, t, o)
  OBVIOUS
<1>3. \/ f \in Int /\ n = 0 /\ IsBuffer(d)
      \/ f = at - tmpOutStart - n /\ f \in Nat /\ f + n <= Size(d) /\ d = o
  <2>1. CASE dict = NoDict /\ tmpOutStart = 0 /\ tmpOut = 0
    <3>1. d = <<>> /\ f = 0 - n /\ n = 0
      BY <2>1, <1>1, <1>b, <1>f DEF NoDict, DictBuffer
    <3>2. IsBuffer(<<>>)
      <4>1. DOMAIN <<>> = 0 .. 0 - 1
        OBVIOUS
      <4> QED BY <4>1, SizeOf
    <3> QED BY <3>1, <3>2
  <2>2. CASE InDst(dict, at) /\ (n > 0 => at >= tmpOutStart + n)
    <3>1. dict.in = "dst" /\ dict.at + dict.size = at /\ dict.at \in Nat /\ dict.size \in Nat
      BY <2>2 DEF InDst
    <3>2. d = o /\ f = at - tmpOutStart - n
      <4>1. d = o
        BY <3>1, <1>b DEF DictBuffer
      <4>2. f = at - tmpOutStart - n
        <5>1. PICK x, y : x = dict.at /\ y = dict.size
          OBVIOUS
        <5>2. x \in Nat /\ y \in Nat /\ x + y = at
          BY <3>1, <5>1
        <5>3. f = x + y - tmpOutStart - n
          BY <1>f, <5>1
        <5> QED BY <5>2, <5>3, <1>1
      <4> QED BY <4>1, <4>2
    <3>3. n > 0 => f \in Nat /\ f + n <= Size(d)
      BY <3>2, <2>2, <1>1, <1>w
    <3> QED BY <3>2, <3>3, <1>1
  <2>3. dict # InTmp(tmpOut + tmpOutStart)
    BY DEF InTmp
  <2> QED BY <2>1, <2>2, <2>3, <1>n DEF HasFlushed
<1>4. CopyIs(c, t, d, tmpOut - n, f, n)
  <2>1. /\ IsBuffer(d) /\ f \in Int /\ tmpOut - n \in Int
        /\ n = 0 \/ (tmpOut - n \in Nat /\ tmpOut - n + n <= Size(t))
        /\ n = 0 \/ (f \in Nat /\ f + n <= Size(d))
    BY <1>1, <1>2, <1>3, <1>w
  <2>2. dict.in = "tmp" => n = 0 \/ tmpOut - n + n <= f \/ f + n <= tmpOut - n
    OBVIOUS
  <2> QED BY <2>1, <2>2, <1>1, <1>b, <1>c, FromDictIs, Zenon
<1>u. PICK u : u = c.tmp
  OBVIOUS
<1>5. /\ c.inside = TRUE /\ IsBuffer(u) /\ Size(u) = Size(t)
      /\ \A i \in 1 .. n : u[tmpOut - n + i - 1] = d[f + i - 1]
      /\ \A j \in DOMAIN t : j < tmpOut - n \/ j >= tmpOut => u[j] = t[j]
  <2>1. /\ c.inside = TRUE /\ IsBuffer(u) /\ Size(u) = Size(t)
        /\ \A i \in 1 .. n : u[tmpOut - n + i - 1] = d[f + i - 1]
        /\ \A j \in DOMAIN t : j < tmpOut - n \/ j >= tmpOut - n + n => u[j] = t[j]
    BY <1>4, <1>u DEF CopyIs
  <2>2. tmpOut - n + n = tmpOut
    BY <1>1, <1>w
  <2> QED BY <2>1, <2>2
<1>6. ToFlush(u, b, h, tmpOut, tmpOutSize)
  <2>1. \A i \in 1 .. tmpOutSize : u[tmpOut + tmpOutSize - i] = t[tmpOut + tmpOutSize - i]
    <3>1. \A i \in 1 .. tmpOutSize : /\ tmpOut + tmpOutSize - i \in DOMAIN t
                                     /\ tmpOut + tmpOutSize - i >= tmpOut
      BY <1>2, <1>w DEF IsBuffer
    <3> QED BY <3>1, <1>5
  <2>2. Recent(u, tmpOut + tmpOutSize, b + tmpOutSize, tmpOutSize)
    BY <2>1, <1>2, <1>5, <1>w, RecentStays
  <2> QED BY <2>2 DEF ToFlush
<1>7. Recent(u, tmpOut, b, Lesser(h, Reserve(tmpOutSize)))
  <2>m. PICK m : m = Lesser(h, Reserve(tmpOutSize))
    OBVIOUS
  <2>0. m \in Nat /\ m <= n
    BY <1>1, <2>m
  <2>1. CASE n = 0
    <3>1. m = 0 /\ tmpOut <= Size(u)
      BY <2>1, <2>0, <1>1, <1>2, <1>5, <1>w
    <3> QED BY <3>1, <2>m, <1>w, <1>5 DEF Recent, IsBuffer
  <2>2. CASE n # 0
    <3>1. /\ f + n = at - tmpOutStart /\ f \in Nat /\ d = o /\ f + n <= Size(o)
      BY <2>2, <1>1, <1>3
    <3>2. \A i \in 1 .. m : u[tmpOut - m + i - 1] = o[(f + n) - m + i - 1]
      <4> SUFFICES ASSUME NEW i \in 1 .. m
                   PROVE u[tmpOut - m + i - 1] = o[(f + n) - m + i - 1]
        OBVIOUS
      <4>1. /\ n - m + i \in 1 .. n
            /\ tmpOut - n + (n - m + i) - 1 = tmpOut - m + i - 1
            /\ f + (n - m + i) - 1 = (f + n) - m + i - 1
        BY <2>0, <1>1, <1>w, <3>1
      <4> QED BY <4>1, <3>1, <1>5
    <3>3. Recent(o, f + n, b, n)
      <4>1. f + n \in 0 .. Size(o) /\ n \in 0 .. f + n
        BY <3>1, <1>1, <1>w
      <4>2. ASSUME NEW i \in 1 .. n PROVE o[(f + n) - i] = b + 1 - i
        <5>1. tmpOutStart + i \in 1 .. at /\ at - (tmpOutStart + i) = (f + n) - i
          BY <3>1, <1>1
        <5>2. o[(f + n) - i] = (b + tmpOutStart) + 1 - (tmpOutStart + i)
          BY <5>1 DEF Recent
        <5> QED BY <5>2
      <4> QED BY <4>1, <4>2 DEF Recent
    <3>4. Recent(u, tmpOut, b, m)
      <4>1. f + n \in Nat /\ b \in Int /\ tmpOut <= Size(u) /\ m <= tmpOut
        BY <3>1, <2>0, <1>1, <1>2, <1>5, <1>w
      <4> QED BY <4>1, <3>2, <3>3, <2>0, <1>5, <1>w, RecentCopied
    <3> QED BY <3>4, <2>m
  <2> QED BY <2>1, <2>2
<1> QED BY <1>5, <1>6, <1>7, <1>u DEF HasFlushed, InFront

-----------------------------------------------------------------------------
(* The same, in any other stage, and before a block is decoded: the last   *)
(* n bytes of the dictionary go where tmpOutBuffer begins.                 *)
Moves(c, t, n, v, k, e) ==
  /\ c.inside = TRUE /\ IsBuffer(c.tmp) /\ Size(c.tmp) = Size(t)
  /\ Has(InTmp(n), c.tmp, v, k, e)

(* The history brought to the start of tmpOutBuffer. *)
LEMMA HistoryMoved ==
  ASSUME NEW t, NEW o, NEW at, NEW v \in Nat, NEW k \in Nat, NEW n \in Nat,
         IsBuffer(t), IsBuffer(o), at \in Nat => at <= Size(o) /\ Recent(o, at, v, at),
         Has(dict, t, v, k, at), k <= n, n <= dict.size, n <= Size(t),
         dict.in = "tmp" => n + n <= dict.size,
         NEW c, c = FromDict(t, o, dict, 0, dict.at + dict.size - n, n), NEW e
  PROVE  Moves(c, t, n, v, k, e)
<1>b. PICK b : b = DictBuffer(dict, t, o)
  OBVIOUS
<1>f. PICK f : f = dict.at + dict.size - n
  OBVIOUS
<1>z. PICK z : z = 0
  OBVIOUS
<1>c. c = FromDict(t, o, dict, z, f, n)
  BY <1>f, <1>z
<1>1. /\ f \in Nat /\ IsBuffer(b)
      /\ \/ n = 0 /\ k = 0
         \/ f + n <= Size(b) /\ Recent(b, f + n, v, k)
      /\ dict.in = "tmp" => n <= f
  <2>1. CASE dict = NoDict /\ k = 0
    <3>1. n = 0 /\ f = 0 /\ b = <<>>
      BY <2>1, <1>b, <1>f DEF NoDict, DictBuffer
    <3>2. IsBuffer(<<>>)
      <4>1. DOMAIN <<>> = 0 .. 0 - 1
        OBVIOUS
      <4> QED BY <4>1, SizeOf
    <3> QED BY <3>1, <3>2, <2>1
  <2>2. CASE dict = InTmp(dict.size) /\ dict.size >= k /\ Recent(t, dict.size, v, k)
    <3>1. dict.at = 0 /\ dict.in = "tmp" /\ dict.size \in 0 .. Size(t)
      BY <2>2 DEF InTmp, Recent
    <3>2. b = t
      BY <3>1, <1>b DEF DictBuffer
    <3>3. Size(t) \in Nat
      BY DEF IsBuffer
    <3>4. f = dict.size - n /\ f \in Nat /\ f + n = dict.size /\ n <= f /\ f + n <= Size(t)
      BY <3>1, <3>3, <1>f
    <3> QED BY <3>2, <3>4, <2>2
  <2>3. CASE InDst(dict, at) /\ dict.size >= k
    <3>1. dict.in = "dst" /\ dict.at + dict.size = at /\ dict.at \in Nat /\ dict.size \in Nat
      BY <2>3 DEF InDst
    <3>2. b = o
      BY <3>1, <1>b DEF DictBuffer
    <3>3. f = at - n /\ f \in Nat /\ f + n = at /\ at \in Nat
      BY <3>1, <1>f
    <3>4. Recent(o, at, v, k)
      <4>1. k <= at /\ at <= Size(o) /\ Recent(o, at, v, at)
        BY <3>1, <3>3
      <4> QED BY <4>1, RecentStays
    <3> QED BY <3>1, <3>2, <3>3, <3>4
  <2> QED BY <2>1, <2>2, <2>3 DEF Has
<1>2. CopyIs(c, t, b, z, f, n)
  <2>1. /\ z \in Int /\ f \in Int
        /\ n = 0 \/ (z \in Nat /\ z + n <= Size(t))
        /\ n = 0 \/ (f \in Nat /\ f + n <= Size(b))
        /\ dict.in = "tmp" => n = 0 \/ z + n <= f \/ f + n <= z
    BY <1>1, <1>z
  <2> QED BY <2>1, <1>1, <1>b, <1>c, FromDictIs, Zenon
<1>u. PICK u : u = c.tmp
  OBVIOUS
<1>3. /\ c.inside = TRUE /\ IsBuffer(u) /\ Size(u) = Size(t)
      /\ \A i \in 1 .. n : u[i - 1] = b[f + i - 1]
  <2>1. /\ c.inside = TRUE /\ IsBuffer(u) /\ Size(u) = Size(t)
        /\ \A i \in 1 .. n : u[z + i - 1] = b[f + i - 1]
    BY <1>2, <1>u DEF CopyIs
  <2> QED BY <2>1, <1>z
<1>4. Recent(u, n, v, k)
  <2>1. CASE n = 0 /\ k = 0
    BY <2>1, <1>3 DEF Recent, IsBuffer
  <2>2. CASE f + n <= Size(b) /\ Recent(b, f + n, v, k)
    <3>1. \A i \in 1 .. k : u[n - k + i - 1] = b[(f + n) - k + i - 1]
      <4> SUFFICES ASSUME NEW i \in 1 .. k PROVE u[n - k + i - 1] = b[(f + n) - k + i - 1]
        OBVIOUS
      <4>1. n - k + i \in 1 .. n /\ f + (n - k + i) - 1 = (f + n) - k + i - 1
        BY <1>1
      <4> QED BY <4>1, <1>3
    <3>g. PICK g : g = f + n
      OBVIOUS
    <3>2. /\ g \in Nat /\ v \in Int /\ n <= Size(u) /\ k <= k /\ k <= n /\ IsBuffer(b)
          /\ IsBuffer(u) /\ Recent(b, g, v, k)
      BY <1>1, <1>3, <2>2, <3>g
    <3>3. \A i \in 1 .. k : u[n - k + i - 1] = b[g - k + i - 1]
      BY <3>1, <3>g
    <3> QED BY <3>2, <3>3, RecentCopied
  <2> QED BY <2>1, <2>2, <1>1
<1>5. InTmp(n).size = n /\ InTmp(n) = InTmp(InTmp(n).size)
  BY DEF InTmp
<1> QED BY <1>3, <1>4, <1>5, <1>u DEF Has, Moves

(* The n bytes that follow the first v.                                    *)
Bytes(v, n) == [i \in 1 .. n |-> v + i]

(* What LZ4_decompress_safe_usingDict makes of a block.                    *)
LEMMA DecodedIs ==
  ASSUME NEW v \in Nat, NEW n \in Nat \ {0}, NEW m \in Nat \ {0}, NEW d, NEW t,
         IsBuffer(t), IsBuffer(dst), dstAt \in Nat, dstAt <= Size(dst), Recent(dst, dstAt, v, dstAt),
         info.base \in Nat, info.base <= v,
         info.linked => Has(d, t, v, Lesser(Window, v - info.base), dstAt),
         NEW units, units = CodeUnits(v + 1, n, m)
  PROVE  Decoded(units, d, t) = Bytes(v, n)
<1>b. PICK b : b = units[1]
  OBVIOUS
<1>1. b.from = v + 1 /\ b.size = n /\ b.of = m
  <2>1. 1 \in 1 .. m
    OBVIOUS
  <2>2. units[1] = [kind |-> "code", part |-> 1, of |-> m, from |-> v + 1, size |-> n]
    BY <2>1 DEF CodeUnits
  <2> QED BY <2>2, <1>b
<1>p. PICK prev : prev = Cells(DictBuffer(d, t, dst), d.at, d.size)
  OBVIOUS
<1>k. PICK k : k = Lesser(Window, v - info.base)
  OBVIOUS
<1>w. k \in Nat
  BY WindowAssumption, <1>k DEF Lesser
<1>2. ASSUME info.linked
      PROVE  Len(prev) >= k /\ \A i \in 1 .. k : prev[Len(prev) - i + 1] = v + 1 - i
  <2>1. CASE k = 0
    <3>1. Len(prev) \in Nat
      <4>1. CASE d = NoDict
        <5>1. IsBuffer(<<>>)
          <6>1. DOMAIN <<>> = 0 .. 0 - 1
            OBVIOUS
          <6> QED BY <6>1, SizeOf
        <5>2. prev = Cells(<<>>, 0, 0)
          BY <4>1, <1>p DEF NoDict, DictBuffer
        <5> QED BY <5>1, <5>2, CellsAre
      <4>2. CASE d = InTmp(d.size) /\ Recent(t, d.size, v, k)
        <5>1. prev = Cells(t, 0, d.size) /\ d.size \in Nat /\ 0 + d.size <= Size(t)
          BY <4>2, <1>p DEF InTmp, DictBuffer, Recent, IsBuffer
        <5> QED BY <5>1, CellsAre
      <4>3. CASE InDst(d, dstAt)
        <5>1. /\ prev = Cells(dst, d.at, d.size) /\ d.size \in Nat /\ d.at \in Nat
              /\ d.at + d.size = dstAt
          BY <4>3, <1>p DEF InDst, DictBuffer
        <5>2. d.at + d.size <= Size(dst)
          BY <5>1
        <5> QED BY <5>1, <5>2, CellsAre
      <4> QED BY <4>1, <4>2, <4>3, <1>2, <1>k DEF Has
    <3> QED BY <3>1, <2>1
  <2>2. CASE k # 0
    <3>1. PICK c, at, s : /\ prev = Cells(c, at, s) /\ IsBuffer(c) /\ at \in Nat /\ s \in Nat
                          /\ at + s <= Size(c) /\ k <= s /\ Recent(c, at + s, v, k)
      <4>1. CASE d = InTmp(d.size) /\ d.size >= k /\ Recent(t, d.size, v, k)
        <5>1. prev = Cells(t, 0, d.size) /\ d.size \in Nat /\ 0 + d.size <= Size(t)
              /\ 0 + d.size = d.size
          BY <4>1, <1>p DEF InTmp, DictBuffer, Recent, IsBuffer
        <5> QED BY <5>1, <4>1
      <4>2. CASE InDst(d, dstAt) /\ d.size >= k
        <5>1. /\ prev = Cells(dst, d.at, d.size) /\ d.size \in Nat /\ d.at \in Nat
              /\ d.at + d.size = dstAt
          BY <4>2, <1>p DEF InDst, DictBuffer
        <5>2. k <= dstAt
          BY <5>1, <4>2, <1>w
        <5>3. Recent(dst, dstAt, v, k)
          BY <5>2, <1>w, RecentStays
        <5> QED BY <5>1, <5>2, <5>3, <4>2
      <4> QED BY <4>1, <4>2, <2>2, <1>2, <1>k DEF Has
    <3>2. Len(prev) = s /\ \A i \in 1 .. s : prev[i] = c[at + i - 1]
      BY <3>1, CellsAre
    <3>3. ASSUME NEW i \in 1 .. k PROVE prev[Len(prev) - i + 1] = v + 1 - i
      <4>1. s - i + 1 \in 1 .. s /\ at + (s - i + 1) - 1 = (at + s) - i
        BY <3>1, <1>w
      <4>2. prev[s - i + 1] = c[(at + s) - i]
        BY <4>1, <3>2
      <4> QED BY <4>2, <3>1, <3>2 DEF Recent
    <3> QED BY <3>1, <3>2, <3>3
  <2> QED BY <2>1, <2>2
<1>3. b.from - 1 - info.base = v - info.base /\ \A i \in 1 .. k : b.from - i = v + 1 - i
  BY <1>1
<1>4. \A i \in 1 .. n : b.from + i - 1 = v + i
  BY <1>1
<1>5. units = CodeUnits(b.from, b.size, b.of)
  BY <1>1
<1>6. Decoded(units, d, t) = [i \in 1 .. b.size |-> b.from + i - 1]
  <2>1. k = Lesser(Window, b.from - 1 - info.base)
    BY <1>3, <1>k
  <2>2. info.linked => /\ Len(prev) >= k
                       /\ \A i \in 1 .. k : prev[Len(prev) - i + 1] = b.from - i
    BY <1>2, <1>3
  <2> QED BY <2>1, <2>2, <1>5, <1>b, <1>p DEF Decoded
<1> QED BY <1>1, <1>4, <1>6 DEF Bytes

-----------------------------------------------------------------------------
(* Bytes come into the caller's buffer.                                    *)
LEMMA OutDelivered ==
  ASSUME OutKnown, DstKnown, Calling, NEW n \in Nat, n <= Size(dst) - dstAt,
         NEW cells, cells = [i \in 1 .. n |-> Len(out) + i],
         NEW t, NEW within, Delivered(t, cells, within)
  PROVE  /\ Len(cells) = n /\ OutKnown' /\ Len(out') = Len(out) + n /\ dstAt' = dstAt + n
         /\ IsBuffer(dst') /\ Size(dst') = Size(dst) /\ dstAt' <= Size(dst')
         /\ Recent(dst', dstAt', Len(out'), dstAt') /\ DstKnown'
<1>v. PICK v : v = Len(out)
  OBVIOUS
<1>1. /\ v \in Nat /\ out = [i \in 1 .. v |-> i]
      /\ IsBuffer(dst) /\ Size(dst) > 0 /\ dstAt \in Nat /\ Recent(dst, dstAt, v, dstAt)
      /\ cells = [i \in 1 .. n |-> v + i]
  BY <1>v DEF OutKnown, DstKnown
<1>2. cells \in Seq(Nat) /\ Len(cells) = n
  BY <1>1
<1>3. dst' = Paste(dst, dstAt, cells) /\ dstAt' = dstAt + n /\ out' = out \o cells
  BY <1>2 DEF Delivered
<1>o. PICK o : o = Paste(dst, dstAt, cells)
  OBVIOUS
<1>w. Size(dst) \in Nat /\ dstAt + n <= Size(dst)
  BY <1>1 DEF IsBuffer
<1>4. /\ IsBuffer(o) /\ Size(o) = Size(dst)
      /\ \A i \in 1 .. n : o[dstAt + i - 1] = cells[i]
      /\ \A j \in DOMAIN dst : j < dstAt \/ j >= dstAt + n => o[j] = dst[j]
  <2>1. dstAt \in Int /\ (n = 0 \/ (dstAt \in Nat /\ dstAt + n <= Size(dst)))
    BY <1>1, <1>w
  <2>2. Pasted(o, dst, dstAt, cells, n)
    BY <2>1, <1>1, <1>2, <1>o, PasteIs, Zenon
  <2> QED BY <2>2 DEF Pasted
<1>5. Recent(o, dstAt, v, dstAt)
  <2>1. \A i \in 1 .. dstAt : o[dstAt - i] = dst[dstAt - i]
    <3>1. \A i \in 1 .. dstAt : dstAt - i \in DOMAIN dst /\ dstAt - i < dstAt
      BY <1>1, <1>w DEF IsBuffer
    <3> QED BY <3>1, <1>4
  <2>2. dstAt <= Size(o) /\ v \in Int
    BY <1>1, <1>4, <1>w
  <2> QED BY <2>1, <2>2, <1>1, RecentStays
<1>6. Recent(o, dstAt + n, v + n, dstAt + n)
  <2>1. \A i \in 1 .. n : o[dstAt + i - 1] = v + i
    BY <1>1, <1>4
  <2>2. dstAt + n <= Size(o) /\ v \in Int
    BY <1>1, <1>4, <1>w
  <2> QED BY <2>1, <2>2, <1>4, <1>5, RecentMore
<1>7. out' = [i \in 1 .. v + n |-> i] /\ Len(out') = v + n
  <2>1. out \in Seq(Nat) /\ Len(out) = v
    BY <1>1
  <2>2. out \o cells \in Seq(Nat) /\ Len(out \o cells) = v + n
    <3>1. out \o cells \in Seq(Nat) /\ Len(out \o cells) = Len(out) + Len(cells)
      BY <2>1, <1>2, ConcatProperties
    <3> QED BY <3>1, <2>1, <1>2
  <2>3. \A i \in 1 .. v + n : (out \o cells)[i] = i
    <3> SUFFICES ASSUME NEW i \in 1 .. v + n PROVE (out \o cells)[i] = i
      OBVIOUS
    <3>1. CASE i <= v
      BY <3>1, <2>1, <1>1, <1>2
    <3>2. CASE i > v
      <4>1. (out \o cells)[i] = cells[i - v] /\ i - v \in 1 .. n
        BY <3>2, <2>1, <1>1, <1>2
      <4> QED BY <4>1, <1>1
    <3> QED BY <3>1, <3>2, <1>1
  <2>4. [i \in 1 .. v + n |-> i] \in Seq(Nat) /\ Len([i \in 1 .. v + n |-> i]) = v + n
    BY <1>1
  <2>5. out \o cells = [i \in 1 .. v + n |-> i]
    <3>1. DOMAIN (out \o cells) = 1 .. v + n
      BY <2>2
    <3>2. out \o cells = [i \in 1 .. v + n |-> (out \o cells)[i]]
      BY <2>2, <3>1
    <3> QED BY <3>2, <2>3
  <2> QED BY <2>2, <2>5, <1>3
<1>8. OutKnown'
  BY <1>7, <1>1 DEF OutKnown
<1>9. /\ IsBuffer(dst') /\ Size(dst') = Size(dst) /\ dstAt' <= Size(dst') /\ dstAt' \in Nat
      /\ Recent(dst', dstAt', Len(out'), dstAt')
  BY <1>1, <1>3, <1>4, <1>6, <1>7, <1>o, <1>w
<1>10. DstKnown'
  BY <1>1, <1>9 DEF DstKnown
<1> QED BY <1>2, <1>3, <1>7, <1>8, <1>9, <1>10, <1>v

(* A block comes into it that is not in tmpOutBuffer.                      *)
LEMMA DictDelivered ==
  ASSUME OutKnown, DstKnown, Calling, NEW n \in Nat, n <= Size(dst) - dstAt,
         NEW cells, cells = [i \in 1 .. n |-> Len(out) + i],
         Delivered(tmpOutBuffer, cells, FALSE), inside = TRUE, IsBuffer(tmpOutBuffer),
         info \in Infos, info.base <= Len(out),
         Size(tmpOutBuffer) >= info.max + IF info.linked THEN 2 * Window ELSE 0,
         ~info.linked => dict = NoDict,
         info.linked => Has(dict, tmpOutBuffer, Len(out), Lesser(Window, Len(out) - info.base), dstAt)
  PROVE  /\ inside' = TRUE /\ IsBuffer(tmpOutBuffer') /\ Size(tmpOutBuffer') = Size(tmpOutBuffer)
         /\ ~info.linked => dict' = NoDict
         /\ info.linked =>
              Has(dict', tmpOutBuffer', Len(out'), Lesser(Window, Len(out') - info.base), dstAt')
<1>v. PICK v : v = Len(out)
  OBVIOUS
<1>k. PICK k : k = Lesser(Window, v - info.base)
  OBVIOUS
<1>m. PICK m : m = Lesser(Window, (v + n) - info.base)
  OBVIOUS
<1>1. /\ Len(cells) = n /\ Len(out') = v + n /\ dstAt' = dstAt + n
      /\ IsBuffer(dst') /\ Size(dst') = Size(dst) /\ dstAt' <= Size(dst')
      /\ Recent(dst', dstAt', Len(out'), dstAt')
  BY <1>v, OutDelivered
<1>2. /\ v \in Nat /\ dstAt \in Nat /\ info.base \in Nat /\ info.max \in Nat /\ info.linked \in BOOLEAN
      /\ Window \in Nat \ {0} /\ Size(tmpOutBuffer) \in Nat /\ info.base <= v
  BY <1>v, WindowAssumption DEF OutKnown, DstKnown, Infos, IsBuffer
<1>3. k \in Nat /\ m \in Nat /\ m <= k + n /\ m <= Window
  <2>1. PICK c \in Nat, w \in Nat : c = info.base /\ w = Window
    BY <1>2
  <2>2. k = Lesser(w, v - c) /\ m = Lesser(w, (v + n) - c) /\ c <= v /\ v \in Nat
    BY <2>1, <1>2, <1>k, <1>m
  <2>4. PICK x \in Nat : x = v - c
    BY <2>1, <2>2
  <2>5. k = Lesser(w, x) /\ m = Lesser(w, x + n)
    <3>1. (v + n) - c = x + n
      BY <2>1, <2>2, <2>4
    <3> QED BY <3>1, <2>2, <2>4
  <2>3. k \in Nat /\ m \in Nat /\ m <= k + n /\ m <= w
    <3>1. w \in Nat /\ x \in Nat /\ n \in Nat
      BY <2>1, <2>4
    <3> QED BY <3>1, <2>5 DEF Lesser
  <2> QED BY <2>1, <2>3
<1>4. CASE ~info.linked
  BY <1>4 DEF Delivered
<1>5. CASE info.linked
  <2>u. PICK u : u = UpdateDict(tmpOutBuffer, dst', dstAt, n, FALSE)
    OBVIOUS
  <2>1. dst' = Paste(dst, dstAt, cells)
    BY DEF Delivered
  <2>2. dict' = u.dict /\ tmpOutBuffer' = u.tmp /\ inside' = (inside /\ u.inside)
    BY <2>u, <2>1, <1>1, <1>5 DEF Delivered
  <2>o. PICK o : o = dst'
    OBVIOUS
  <2>3. /\ IsBuffer(o) /\ dstAt + n <= Size(o) /\ Recent(o, dstAt + n, v + n, dstAt + n)
        /\ u = UpdateDict(tmpOutBuffer, o, dstAt, n, FALSE)
    BY <2>o, <2>u, <1>1
  <2>4. Size(tmpOutBuffer) >= 2 * Window /\ Has(dict, tmpOutBuffer, v, k, dstAt)
    BY <1>2, <1>5, <1>v, <1>k
  <2>5. /\ u.inside = TRUE /\ IsBuffer(u.tmp) /\ Size(u.tmp) = Size(tmpOutBuffer)
        /\ Has(u.dict, u.tmp, v + n, m, dstAt + n)
    <3>1. Added(u, tmpOutBuffer, v + n, m, dstAt + n)
      BY <2>3, <2>4, <1>2, <1>3, UpdateDictAdds, Zenon
    <3> QED BY <3>1 DEF Added
  <2> QED BY <2>2, <2>5, <1>1, <1>5, <1>m
<1> QED BY <1>2, <1>4, <1>5

(* What is flushed comes into it.                                          *)
LEMMA FlushDelivered ==
  ASSUME OutKnown, DstKnown, Calling, NEW n \in Nat, n <= Size(dst) - dstAt,
         NEW cells, cells = [i \in 1 .. n |-> Len(out) + i],
         Delivered(tmpOutBuffer, cells, TRUE), inside = TRUE, IsBuffer(tmpOutBuffer),
         info \in Infos, tmpOutStart \in Nat, tmpOutStart + n <= tmpOutSize,
         NEW b, NEW h \in Nat, ToFlush(tmpOutBuffer, b, h, tmpOut, tmpOutSize),
         ~info.linked => dict = NoDict,
         info.linked =>
           HasFlushed(dict, tmpOutBuffer, b, h, tmpOut, tmpOutSize, tmpOutStart, dstAt)
  PROVE  /\ inside' = TRUE /\ tmpOutBuffer' = tmpOutBuffer
         /\ ~info.linked => dict' = NoDict
         /\ info.linked =>
              HasFlushed(dict', tmpOutBuffer, b, h, tmpOut, tmpOutSize, tmpOutStart + n, dstAt')
<1>1. Len(cells) = n /\ dstAt' = dstAt + n
  BY OutDelivered
<1>2. /\ dstAt \in Nat /\ info.max \in Nat /\ info.linked \in BOOLEAN
      /\ tmpOut \in Nat /\ tmpOutSize \in Nat \ {0}
  BY DEF DstKnown, Infos, ToFlush
<1>3. CASE ~info.linked
  BY <1>3 DEF Delivered
<1>4. CASE info.linked
  <2>o. PICK o : o = Paste(dst, dstAt, cells)
    OBVIOUS
  <2>u. PICK u : u = UpdateDict(tmpOutBuffer, o, dstAt, n, TRUE)
    OBVIOUS
  <2>1. dict' = u.dict /\ tmpOutBuffer' = u.tmp /\ inside' = (inside /\ u.inside)
    BY <2>u, <2>o, <1>1, <1>4 DEF Delivered
  <2>2. tmpOut >= Lesser(Window, h)
    BY <1>4 DEF ToFlush
  <2>3. /\ u.inside = TRUE /\ u.tmp = tmpOutBuffer
        /\ HasFlushed(u.dict, tmpOutBuffer, b, h, tmpOut, tmpOutSize, tmpOutStart + n, dstAt + n)
    <3>1. Flushed(u, tmpOutBuffer, b, h, tmpOutStart + n, dstAt + n)
      BY <2>2, <2>u, <1>2, <1>4, UpdateDictFlushes, Zenon
    <3> QED BY <3>1 DEF Flushed
  <2> QED BY <2>1, <2>3, <1>1, <1>4
<1> QED BY <1>2, <1>3, <1>4

-----------------------------------------------------------------------------
(* A block is decoded behind the dictionary.                               *)
LEMMA DecodedToTmp ==
  ASSUME OutKnown, DstKnown, Calling, inside = TRUE, IsBuffer(tmpOutBuffer),
         info \in Infos, info.base <= Len(out),
         Size(tmpOutBuffer) >= info.max + IF info.linked THEN 2 * Window ELSE 0,
         ~info.linked => dict = NoDict /\ tmpOut = 0,
         info.linked => Has(dict, tmpOutBuffer, Len(out), Lesser(Window, Len(out) - info.base), dstAt),
         NEW n \in 1 .. info.max, NEW m \in Nat \ {0},
         NEW units, units = CodeUnits(Len(out) + 1, n, m), DecodeToTmp(units),
         NEW h, h = Len(out) - info.base
  PROVE  /\ inside' = TRUE /\ IsBuffer(tmpOutBuffer') /\ Size(tmpOutBuffer') = Size(tmpOutBuffer)
         /\ tmpOutSize' = n /\ tmpOutStart' = 0
         /\ ToFlush(tmpOutBuffer', Len(out), h, tmpOut', n)
         /\ ~info.linked => dict' = NoDict /\ tmpOut' = 0
         /\ info.linked => HasFlushed(dict', tmpOutBuffer', Len(out), h, tmpOut', n, 0, dstAt)
<1>v. PICK v : v = Len(out)
  OBVIOUS
<1>k. PICK k : k = Lesser(Window, h)
  OBVIOUS
<1>w. /\ v \in Nat /\ dstAt \in Nat /\ info.base \in Nat /\ info.max \in Nat /\ info.linked \in BOOLEAN
      /\ Window \in Nat \ {0} /\ Size(tmpOutBuffer) \in Nat /\ h = v - info.base /\ h \in Nat
      /\ n \in Nat \ {0} /\ n <= info.max
      /\ IsBuffer(dst) /\ Recent(dst, dstAt, v, dstAt) /\ dstAt <= Size(dst)
  BY <1>v, WindowAssumption DEF OutKnown, DstKnown, Infos, IsBuffer, Recent
<1>h. k \in Nat /\ k <= Window /\ k <= h
  BY <1>w, <1>k DEF Lesser
<1>l. info.linked => Has(dict, tmpOutBuffer, v, k, dstAt)
  BY <1>w, <1>v, <1>k
<1>s. PICK shortened \in BOOLEAN : shortened <=> (info.linked /\ Shortened)
  BY Zenon
<1>mv. PICK move : move = FromDict(tmpOutBuffer, dst, dict, 0, dict.at + dict.size - Window, Window)
  OBVIOUS
<1>d. PICK d : d = IF shortened THEN InTmp(Window) ELSE dict
  OBVIOUS
<1>t. PICK t : t = IF shortened THEN move.tmp ELSE tmpOutBuffer
  OBVIOUS
<1>a. PICK at : at = IF ~info.linked THEN tmpOut
                     ELSE IF d.in = "tmp" THEN d.size ELSE Lesser(d.size, Window)
  OBVIOUS
<1>c. PICK new : new = Decoded(units, d, t)
  OBVIOUS
<1>1. /\ dict' = d /\ tmpOut' = at /\ tmpOutBuffer' = Paste(t, at, new)
      /\ tmpOutSize' = Len(new) /\ tmpOutStart' = 0
      /\ inside' = (inside /\ Fits(t, at, info.max) /\ (d = dict \/ move.inside))
  BY <1>s, <1>mv, <1>d, <1>t, <1>a, <1>c DEF DecodeToTmp, FlushAll
<1>2. /\ IsBuffer(t) /\ Size(t) = Size(tmpOutBuffer) /\ (d = dict \/ move.inside = TRUE)
      /\ ~info.linked => d = NoDict
      /\ info.linked => Has(d, t, v, k, dstAt)
      /\ info.linked /\ d.in = "tmp" => d.size <= 2 * Window
  <2>1. CASE shortened
    <3>1. info.linked /\ dict.in = "tmp" /\ dict.size > 2 * Window
      BY <2>1, <1>s DEF Shortened
    <3>2. dict.size \in Nat
      BY <3>1, <1>l DEF Has, InDst, NoDict, Recent, IsBuffer
    <3>3. /\ Window <= dict.size /\ Window + Window <= dict.size /\ Window <= Size(tmpOutBuffer)
          /\ Window \in Nat
      BY SMTT(20), <3>1, <3>2, <1>w
    <3>4. dstAt \in Nat => dstAt <= Size(dst) /\ Recent(dst, dstAt, v, dstAt)
      BY <1>w
    <3>5. Moves(move, tmpOutBuffer, Window, v, k, dstAt)
      BY <3>1, <3>3, <3>4, <1>w, <1>h, <1>l, <1>mv, HistoryMoved, Zenon
    <3>6. d = InTmp(Window) /\ t = move.tmp /\ d.size = Window
      BY <2>1, <1>d, <1>t DEF InTmp
    <3>7. d.size <= 2 * Window
      BY <3>6, <1>w
    <3> QED BY <3>1, <3>5, <3>6, <3>7 DEF Moves
  <2>2. CASE ~shortened
    <3>1. d = dict /\ t = tmpOutBuffer
      BY <2>2, <1>d, <1>t
    <3>2. info.linked /\ d.in = "tmp" => d.size <= 2 * Window
      <4> SUFFICES ASSUME info.linked, d.in = "tmp" PROVE d.size <= 2 * Window
        OBVIOUS
      <4>1. ~(d.size > 2 * Window)
        BY <2>2, <3>1, <1>s DEF Shortened
      <4>2. d.size \in Nat
        BY <3>1, <1>l DEF Has, InDst, NoDict, Recent, IsBuffer
      <4> QED BY SMTT(20), <4>1, <4>2, <1>w
    <3> QED BY <3>1, <3>2, <1>l
  <2> QED BY <2>1, <2>2
<1>3. new = [i \in 1 .. n |-> v + i]
  <2>1. info.base <= v /\ units = CodeUnits(v + 1, n, m)
    BY <1>w, <1>v
  <2>3. info.linked => Has(d, t, v, Lesser(Window, v - info.base), dstAt)
    BY <1>2, <1>w, <1>k
  <2>2. Decoded(units, d, t) = Bytes(v, n)
    BY <2>1, <2>3, <1>2, <1>w, DecodedIs
  <2> QED BY <2>2, <1>c DEF Bytes
<1>4. Len(new) = n /\ \A i \in 1 .. n : new[i] = v + i
  BY <1>3, <1>w
<1>5. /\ at \in Nat /\ at + info.max <= Size(t)
      /\ ~info.linked => at = 0
      /\ info.linked => at >= k
      /\ info.linked =>
           \/ d = NoDict /\ at = 0
           \/ d = InTmp(at) /\ Recent(t, at, v, k)
           \/ InDst(d, dstAt) /\ d.size >= k /\ at <= dstAt
  <2>1. CASE ~info.linked
    <3>1. at = 0 /\ info.max <= Size(t)
      BY <2>1, <1>a, <1>2, <1>w
    <3> QED BY <3>1, <2>1, <1>w
  <2>2. CASE info.linked
    <3>0. Size(t) >= info.max + 2 * Window
      BY <2>2, <1>2, <1>w
    <3>1. CASE d = NoDict /\ k = 0
      <4>1. at = Lesser(0, Window)
        BY <3>1, <2>2, <1>a DEF NoDict
      <4>2. at = 0
        BY <4>1, <1>w DEF Lesser
      <4> QED BY <4>2, <3>0, <3>1, <2>2, <1>w, <1>2
    <3>2. CASE d = InTmp(d.size) /\ d.size >= k /\ Recent(t, d.size, v, k)
      <4>1. at = d.size /\ d.in = "tmp"
        BY <3>2, <2>2, <1>a DEF InTmp
      <4>2. at \in Nat /\ at <= 2 * Window /\ at >= k
        BY <4>1, <3>2, <2>2, <1>2 DEF Recent, IsBuffer
      <4>3. at + info.max <= Size(t)
        BY SMTT(20), <4>2, <3>0, <1>w, <1>2
      <4> QED BY <4>1, <4>2, <4>3, <3>2, <2>2
    <3>3. CASE InDst(d, dstAt) /\ d.size >= k
      <4>1. d.in = "dst" /\ d.at \in Nat /\ d.size \in Nat /\ d.at + d.size = dstAt
        BY <3>3 DEF InDst
      <4>2. at = Lesser(d.size, Window)
        BY <4>1, <2>2, <1>a
      <4>3. at \in Nat /\ at <= d.size /\ at <= Window /\ at >= k
        BY SMTT(20), <4>1, <4>2, <3>3, <1>w, <1>h DEF Lesser
      <4>4. at + info.max <= Size(t)
        BY SMTT(20), <4>3, <3>0, <1>w, <1>2
      <4>5. at <= dstAt
        BY <4>1, <4>3
      <4> QED BY <4>3, <4>4, <4>5, <3>3, <2>2
    <3> QED BY <3>1, <3>2, <3>3, <2>2, <1>2 DEF Has
  <2> QED BY <2>1, <2>2
<1>p. PICK p : p = Paste(t, at, new)
  OBVIOUS
<1>6. /\ IsBuffer(p) /\ Size(p) = Size(t)
      /\ \A i \in 1 .. n : p[at + i - 1] = v + i
      /\ \A j \in DOMAIN t : j < at \/ j >= at + n => p[j] = t[j]
  <2>1. at \in Int /\ (n = 0 \/ (at \in Nat /\ at + n <= Size(t)))
    BY <1>5, <1>2, <1>w
  <2>2. Pasted(p, t, at, new, n)
    BY <2>1, <1>2, <1>4, <1>w, <1>p, PasteIs, Zenon
  <2> QED BY <2>2, <1>4 DEF Pasted
<1>7. Recent(p, at + n, v + n, n)
  <2>1. Recent(p, at, v, 0) /\ at + n <= Size(p) /\ v \in Int /\ at \in Nat
    BY <1>2, <1>5, <1>6, <1>w DEF Recent
  <2>2. Recent(p, at + n, v + n, 0 + n)
    BY <2>1, <1>6, <1>w, RecentMore
  <2> QED BY <2>2, <1>w
<1>8. ToFlush(p, v, h, at, n)
  BY <1>7, <1>5, <1>w, <1>k DEF ToFlush
<1>9. ASSUME info.linked PROVE HasFlushed(d, p, v, h, at, n, 0, dstAt)
  <2>1. CASE d = NoDict /\ at = 0
    BY <2>1 DEF HasFlushed
  <2>2. CASE d = InTmp(at) /\ Recent(t, at, v, k)
    <3>m. PICK r : r = Lesser(h, Reserve(n))
      OBVIOUS
    <3>1. r \in Nat /\ r <= k
      BY SMTT(20), <3>m, <1>k, <1>w DEF Lesser, Reserve
    <3>2. \A i \in 1 .. r : p[at - i] = t[at - i]
      <4>1. k \in 0 .. at /\ at <= Size(t)
        BY <2>2 DEF Recent
      <4>2. \A i \in 1 .. r : at - i \in DOMAIN t /\ at - i < at
        BY <4>1, <3>1, <1>5, <1>2, <1>w DEF IsBuffer
      <4> QED BY <4>2, <1>6
    <3>3. at <= Size(p) /\ v \in Int
      BY <1>5, <1>6, <1>2, <1>w
    <3>4. Recent(p, at, v, r)
      BY <3>1, <3>2, <3>3, <2>2, <1>2, RecentStays
    <3>5. d = InTmp(at + 0)
      BY <2>2, <1>5
    <3> QED BY <3>4, <3>5, <3>m DEF HasFlushed
  <2>3. CASE InDst(d, dstAt) /\ d.size >= k /\ at <= dstAt
    <3>1. Lesser(at, Reserve(n)) <= at /\ Lesser(at, Reserve(n)) \in Nat
      BY <1>5, <1>w DEF Lesser, Reserve
    <3>2. h + 0 = h
      BY <1>w
    <3>3. dstAt >= 0 + Lesser(at, Reserve(n))
      BY <3>1, <2>3, <1>5, <1>w
    <3> QED BY <3>2, <3>3, <2>3, <1>k DEF HasFlushed
  <2> QED BY <2>1, <2>2, <2>3, <1>5, <1>9
<1>10. Fits(t, at, info.max)
  <2>1. at + info.max - 1 \in 0 .. Size(t) - 1 /\ at \in 0 .. Size(t) - 1
    BY SMTT(20), <1>5, <1>w, <1>2
  <2> QED BY <2>1, <1>2 DEF Fits, IsBuffer
<1>11. inside' = TRUE
  BY <1>1, <1>2, <1>10
<1> QED BY <1>1, <1>2, <1>4, <1>5, <1>6, <1>8, <1>9, <1>11, <1>p, <1>v

-----------------------------------------------------------------------------
ReaderInv(L) == MemInv /\ PosInv(L) /\ CallInv

Known(L) == RoomInv /\ Written(L) /\ ReaderInv(L)

(* What the places say of the file. *)
LEMMA FileKnown ==
  ASSUME NEW L, RoomInv, Written(L)
  PROVE  /\ file \in Seq(Unit) /\ Len(file) \in Nat /\ Layout(L, file)
         /\ DOMAIN L \subseteq 0 .. Len(file) /\ L \in [DOMAIN L -> Places]
BY DEF RoomInv, Written, Layout

(* What the file says at a place. *)
LEMMA HeaderRead ==
  ASSUME NEW L, NEW f, Layout(L, f), Len(f) \in Nat, NEW p, NEW v, FrameAt(L, p, v), p < Len(f)
  PROVE  /\ BlockAt(L, p + 2, v, InfoOf(f[p + 1])) /\ p + 1 \notin DOMAIN L
         /\ InfoOf(f[p + 1]) \in Infos /\ InfoOf(f[p + 1]).base = v
<1>1. p \in DOMAIN L /\ L[p].at = "frame" /\ L[p].pos = v
  BY DEF FrameAt, PlaceOf
<1>2. HeaderSays(L, f, p)
  BY <1>1 DEF Layout, Says
<1>3. /\ p + 2 \in DOMAIN L /\ p + 1 \notin DOMAIN L
      /\ L[p + 2] = [at |-> "block", pos |-> v, info |-> InfoOf(f[p + 1])]
  BY <1>1, <1>2 DEF HeaderSays
<1>4. L[p + 2].at = "block" /\ L[p + 2].pos = v /\ L[p + 2].info = InfoOf(f[p + 1])
  BY <1>3
<1>5. L[p + 2] \in Places
  BY <1>3, <1>4 DEF Layout
<1>6. InfoOf(f[p + 1]) \in Infos
  BY <1>4, <1>5 DEF Places
<1>7. InfoOf(f[p + 1]).base = v
  BY <1>1, <1>2 DEF HeaderSays
<1> QED BY <1>3, <1>4, <1>6, <1>7 DEF BlockAt, PlaceOf

BlockLeads(L, f, p, v, i) ==
  LET u == f[p + 1] IN
  /\ u.size \in Nat /\ p + 1 \notin DOMAIN L
  /\ u.size = 0 => FrameAt(L, p + 2, v)
  /\ u.size # 0 /\ u.stored => StoredFrom(L, f, p + 2, u.size, v, i)
  /\ u.size # 0 /\ ~u.stored => CodedFrom(L, f, p + 2, u.size, v, i)

(* What comes at a place where a block begins. *)
LEMMA BlockRead ==
  ASSUME NEW L, NEW f, Layout(L, f), Len(f) \in Nat, NEW p, NEW v, NEW i, BlockAt(L, p, v, i),
         p < Len(f)
  PROVE  BlockLeads(L, f, p, v, i) /\ i \in Infos /\ i.base <= v /\ v \in Nat
<1>1. p \in DOMAIN L /\ L[p].at = "block" /\ L[p].pos = v /\ L[p].info = i
  BY DEF BlockAt, PlaceOf
<1>2. BlockSays(L, f, p)
  BY <1>1 DEF Layout, Says
<1>3. PICK s \in Nat, q \in DOMAIN L :
        /\ s = f[p + 1].size /\ q = p + 2 + s
        /\ \A r \in p + 1 .. q - 1 : r \notin DOMAIN L
        /\ s = 0 => L[q].at = "frame" /\ L[q].pos = L[p].pos
        /\ s > 0 => ContentSays(L, f, p, s, q)
  BY <1>2 DEF BlockSays
<1>4. p \in 0 .. Len(f) /\ p \in Nat /\ L[p] \in Places /\ L[p].info.base <= L[p].pos
  BY <1>1 DEF Layout
<1>5. p + 1 \notin DOMAIN L /\ p + 2 + s = (p + 2) + s
  BY <1>3, <1>4
<1>6. s = 0 => FrameAt(L, p + 2, v)
  BY <1>1, <1>3, <1>4 DEF FrameAt, PlaceOf
<1>7. ASSUME s # 0 PROVE ContentFrom(L, p + 2, s, v, i)
  <2>1. L[q].at = "block" /\ L[q].info = i
    BY <1>1, <1>3, <1>7 DEF ContentSays
  <2>2. \A r \in p + 2 .. p + 2 + s - 1 : r \notin DOMAIN L
    BY <1>3, <1>4
  <2> QED BY <2>1, <2>2, <1>3, <1>5, <1>7 DEF ContentFrom
<1>8. ASSUME s # 0, f[p + 1].stored PROVE StoredFrom(L, f, p + 2, s, v, i)
  <2>1. L[q].pos = v + s /\ \A j \in 1 .. s : f[p + 2 + j].value = v + j
    BY <1>1, <1>3, <1>8 DEF ContentSays
  <2> QED BY <2>1, <1>3, <1>5, <1>7, <1>8 DEF StoredFrom
<1>9. ASSUME s # 0, ~f[p + 1].stored PROVE CodedFrom(L, f, p + 2, s, v, i)
  <2>1. /\ L[q].pos - v \in 1 .. i.max
        /\ \A j \in 1 .. s : f[p + 2 + j] = CodeUnits(v + 1, L[q].pos - v, s)[j]
    BY <1>1, <1>3, <1>9 DEF ContentSays
  <2> QED BY <2>1, <1>3, <1>5, <1>7, <1>9 DEF CodedFrom
<1>10. i \in Infos /\ i.base <= v /\ v \in Nat
  BY <1>1, <1>4 DEF Places
<1> QED BY <1>3, <1>5, <1>6, <1>8, <1>9, <1>10 DEF BlockLeads

(* A step of LZ4F_decompress that leaves memory as it is, or starts a      *)
(* block.                                                                  *)
Memory == <<dst, dstAt, out, inside, tmpOutBuffer, tmpOut, tmpOutSize, tmpOutStart, dict>>

(* A stage that only reads headers leaves the memory as it was. *)
LEMMA MemStays ==
  ASSUME MemInv, Calling, Calling', UNCHANGED Memory, UNCHANGED info,
         MidFrame, dStage # "flushOut",
         dStage' = "getSuffix" \/ (MidFrame' /\ dStage' # "flushOut")
  PROVE  MemInv'
<1>1. /\ UNCHANGED <<dst, dstAt, out, inside, tmpOutBuffer, tmpOut, tmpOutSize, tmpOutStart>>
      /\ UNCHANGED <<dict, info>>
  BY DEF Memory
<1>2. dStage \notin {"getFrameHeader", "storeFrameHeader", "init", "getSuffix", "flushOut"}
  BY DEF MidFrame
<1>3. dStage' \notin {"getFrameHeader", "storeFrameHeader", "init", "flushOut"}
  BY DEF MidFrame
<1>4. OutKnown' /\ DstKnown'
  BY <1>1 DEF MemInv, OutKnown, DstKnown
<1>5. InfoKnown' /\ FlushKnown'
  BY <1>1, <1>2, <1>3 DEF MemInv, InfoKnown, FlushKnown
<1>6. DstEnd' = DstEnd
  BY <1>1 DEF DstEnd
<1>7. DictKnown'
  BY <1>1, <1>2, <1>3, <1>6 DEF MemInv, DictKnown
<1>8. inside' = TRUE /\ IsBuffer(tmpOutBuffer')
  BY <1>1 DEF MemInv
<1> QED BY <1>4, <1>5, <1>7, <1>8 DEF MemInv

(* What the caller knows, after a stage.                                   *)
LEMMA StageCall ==
  ASSUME CallInv, caller.at = "call", UNCHANGED <<end, srcEnd, before, stage>>,
         src \in Nat, end \in Nat, src' \in src .. srcEnd,
         MidFrame' \/ dStage' \in {"getFrameHeader", "storeFrameHeader", "init", "getSuffix"},
         \/ caller' = caller /\ (caller.kind = "client" =>
                                   dStage' \notin {"getFrameHeader", "storeFrameHeader"})
         \/ /\ Leave /\ dStage' \notin {"getSuffix", "init"}
            /\ caller.kind = "client" => dStage' # "storeFrameHeader" /\ (FrameOver' \/ Moved')
  PROVE  CallInv' /\ caller.kind # "none" /\ caller'.kind = caller.kind /\ Calling /\ Calling'
<1>1. caller.kind # "none"
  BY DEF CallInv, ReaderInit
<1>2. /\ caller \in [kind : {"none", "client", "any"},
                     at : {"away", "frame", "loop", "call", "leave", "done", "failed"}]
      /\ srcEnd \in 0 .. end /\ before \in 0 .. src /\ stage = "idle"
      /\ caller.kind = "client" => srcEnd = end /\ before < end
  BY <1>1 DEF CallInv, Calling
<1>3. CASE caller' = caller /\ (caller.kind = "client" =>
                                  dStage' \notin {"getFrameHeader", "storeFrameHeader"})
  <2>1. CallInv'
    BY <1>1, <1>2, <1>3 DEF CallInv, Calling
  <2> QED BY <2>1, <1>1, <1>3 DEF Calling
<1>4. CASE /\ Leave /\ dStage' \notin {"getSuffix", "init"}
           /\ caller.kind = "client" => dStage' # "storeFrameHeader" /\ (FrameOver' \/ Moved')
  <2>1. /\ caller' \in [kind : {"none", "client", "any"},
                       at : {"away", "frame", "loop", "call", "leave", "done", "failed"}]
        /\ caller'.kind = caller.kind /\ caller'.at = "leave"
    BY <1>2, <1>4 DEF Leave
  <2>2. before' \in 0 .. src'
    BY <1>2
  <2>3. CallInv'
    BY <1>1, <1>2, <1>4, <2>1, <2>2 DEF CallInv, Calling
  <2> QED BY <2>1, <2>3, <1>1 DEF Calling
<1> QED BY <1>3, <1>4

-----------------------------------------------------------------------------
(* What every step starts from. *)
LEMMA WhereReading ==
  ASSUME NEW L, Known(L)
  PROVE  /\ Len(file) \in Nat /\ Layout(L, file) /\ file \in Seq(Unit)
         /\ end \in 0 .. Len(file) /\ src \in 0 .. end /\ src \in Nat /\ end \in Nat
         /\ Len(out) \in Nat
BY FileKnown DEF Known, ReaderInv, PosInv, MemInv, OutKnown

(* A step of the caller outside a call that leaves memory as it is. *)
LEMMA MemUntouched ==
  ASSUME MemInv, ~Calling, ~Calling', UNCHANGED <<Memory, info, dStage>>
  PROVE  MemInv'
<1>1. /\ UNCHANGED <<dst, dstAt, out, inside, tmpOutBuffer, tmpOut, tmpOutSize, tmpOutStart>>
      /\ UNCHANGED <<dict, info, dStage>>
  BY DEF Memory
<1>2. OutKnown' /\ DstKnown' /\ inside' = TRUE /\ IsBuffer(tmpOutBuffer')
  BY <1>1 DEF MemInv, OutKnown, DstKnown
<1>3. InfoKnown'
  BY <1>1 DEF MemInv, InfoKnown
<1>4. DstEnd' = DstEnd
  BY DEF DstEnd
<1>5. DictKnown'
  BY <1>1, <1>4 DEF MemInv, DictKnown, MidFrame
<1>6. FlushKnown'
  <2>1. FlushKnown
    BY DEF MemInv
  <2> QED BY <2>1, <1>1, <1>4 DEF FlushKnown, ToFlush
<1> QED BY <1>2, <1>3, <1>5, <1>6 DEF MemInv

(* A step of the caller alone stays at the place. *)
LEMMA PosUntouched ==
  ASSUME NEW L, PosInv(L),
         UNCHANGED <<file, end, src, dStage, info, target, held, tmpOutSize, tmpOutStart, out>>
  PROVE  PosInv(L)'
BY DEF PosInv

(* BeginReading: the first bytes of the file are a frame. *)
LEMMA BeginReadingKnown ==
  ASSUME NEW L, Known(L), BeginReading
  PROVE  ReaderInv(L)'
<1>1. /\ stage = "idle" /\ file # <<>> /\ caller.kind = "none" /\ ReaderInit
      /\ UNCHANGED <<file, stage, dStage, info, target, held, tmpOutBuffer, tmpOut, tmpOutSize,
                     tmpOutStart, dict, src, srcEnd, dst, dstAt, before, out, inside>>
  BY DEF BeginReading, Known, ReaderInv, CallInv, writerVars, dctx, call
<1>2. /\ \/ caller' = [kind |-> "client", at |-> "frame"]
         \/ caller' = [kind |-> "any", at |-> "loop"]
      /\ end' \in 0 .. Len(file) /\ Len(file) \in Nat
  BY WhereReading DEF BeginReading
<1>3. ~Calling /\ ~Calling'
  BY <1>1, <1>2 DEF Calling, ReaderInit
<1>4. MemInv'
  BY <1>1, <1>3, MemUntouched DEF Known, ReaderInv, Memory
<1>5. FrameAt(L, 0, 0)
  BY WhereReading DEF Layout, FrameAt, PlaceOf
<1>6. dStage' = "getFrameHeader" /\ src' = 0 /\ out' = <<>> /\ Len(out') = 0
  BY <1>1 DEF ReaderInit
<1>7. PosInv(L)'
  BY <1>1, <1>2, <1>5, <1>6 DEF PosInv
<1>8. CallInv'
  BY <1>1, <1>2, <1>3, <1>6 DEF CallInv
<1> QED BY <1>4, <1>7, <1>8 DEF ReaderInv

(* Truncated: the end of the file cannot be reached in a block. *)
LEMMA TruncatedKnown ==
  ASSUME NEW L, Known(L), Truncated
  PROVE  ReaderInv(L)'
<1>1. /\ caller = [kind |-> "client", at |-> "loop"]
      /\ caller' = [kind |-> "client", at |-> "failed"]
      /\ UNCHANGED <<file, stage, end, dStage, info, target, held, tmpOutBuffer, tmpOut, tmpOutSize,
                     tmpOutStart, dict, src, srcEnd, dst, dstAt, before, out, inside>>
  BY DEF Truncated, writerVars, dctx, call
<1>2. ~Calling /\ ~Calling'
  BY <1>1 DEF Calling
<1>3. MemInv'
  BY <1>1, <1>2, MemUntouched DEF Known, ReaderInv, Memory
<1>4. PosInv(L)'
  BY <1>1, PosUntouched DEF Known, ReaderInv
<1>5. CallInv'
  BY <1>1, <1>2 DEF CallInv, Known, ReaderInv, MidFrame
<1> QED BY <1>3, <1>4, <1>5 DEF ReaderInv

(* A frame header has been read: the decoder is about to begin with it.    *)
LEMMA HeaderDecoded ==
  ASSUME MemInv, dStage \in {"getFrameHeader", "storeFrameHeader"}, dStage' = "init",
         UNCHANGED Memory, Calling' <=> Calling, info' \in Infos, info'.base = Len(out)
  PROVE  MemInv'
<1>1. /\ UNCHANGED <<dst, dstAt, out, inside, tmpOutBuffer, tmpOut, tmpOutSize, tmpOutStart>>
      /\ UNCHANGED dict /\ dict = NoDict
  BY DEF Memory, MemInv, DictKnown
<1>2. OutKnown' /\ DstKnown' /\ inside' = TRUE /\ IsBuffer(tmpOutBuffer')
  BY <1>1 DEF MemInv, OutKnown, DstKnown
<1>3. InfoKnown' /\ FlushKnown'
  BY <1>1 DEF InfoKnown, FlushKnown, MemInv, OutKnown
<1>4. DictKnown'
  BY <1>1 DEF DictKnown, MidFrame
<1> QED BY <1>2, <1>3, <1>4 DEF MemInv

(* GetFrameInfo: the header is taken whole, or there is none. *)
LEMMA GetFrameInfoKnown ==
  ASSUME NEW L, Known(L), GetFrameInfo
  PROVE  ReaderInv(L)'
<1>1. /\ caller.at = "frame" /\ caller.kind = "client" /\ src < end /\ dStage = "getFrameHeader"
      /\ caller \in [kind : {"none", "client", "any"},
                     at : {"away", "frame", "loop", "call", "leave", "done", "failed"}]
      /\ stage = "idle"
  BY DEF GetFrameInfo, Known, ReaderInv, CallInv, ReaderInit
<1>2. /\ UNCHANGED <<file, stage, end, target, held, tmpOutBuffer, tmpOut, tmpOutSize,
                     tmpOutStart, dict, srcEnd, dst, dstAt, before, out, inside>>
  BY DEF GetFrameInfo, writerVars
<1>3. CASE /\ end - src < minFHSize /\ caller' = [caller EXCEPT !.at = "failed"]
           /\ UNCHANGED <<dStage, info, src>>
  <2>1. caller' = [kind |-> "client", at |-> "failed"]
    BY <1>1, <1>3
  <2>2. ~Calling /\ ~Calling'
    BY <1>1, <2>1 DEF Calling
  <2>3. MemInv'
    BY <1>2, <1>3, <2>2, MemUntouched DEF Known, ReaderInv, Memory
  <2>4. PosInv(L)'
    BY <1>2, <1>3, PosUntouched DEF Known, ReaderInv
  <2>5. CallInv'
    BY <1>1, <1>2, <1>3, <2>1, <2>2 DEF CallInv
  <2> QED BY <2>3, <2>4, <2>5 DEF ReaderInv
<1>4. CASE /\ end - src >= minFHSize /\ caller' = [caller EXCEPT !.at = "loop"]
           /\ DecodedHeader(file[src + 1]) /\ src' = src + minFHSize
  <2>1. caller' = [kind |-> "client", at |-> "loop"]
    BY <1>1, <1>4
  <2>2. ~Calling /\ ~Calling'
    BY <1>1, <2>1 DEF Calling
  <2>3. FrameAt(L, src, Len(out)) /\ src < Len(file) /\ Layout(L, file) /\ Len(file) \in Nat
    BY <1>1, WhereReading DEF Known, ReaderInv, PosInv
  <2>4. /\ BlockAt(L, src + 2, Len(out), InfoOf(file[src + 1]))
        /\ InfoOf(file[src + 1]) \in Infos /\ InfoOf(file[src + 1]).base = Len(out)
    BY <2>3, HeaderRead
  <2>5. info' = InfoOf(file[src + 1]) /\ dStage' = "init" /\ src' = src + 2
    BY <1>4 DEF DecodedHeader, InfoOf, minFHSize
  <2>6. MemInv'
    <3>1. UNCHANGED Memory
      BY <1>2 DEF Memory
    <3>2. info' \in Infos /\ info'.base = Len(out)
      BY <2>4, <2>5
    <3> QED BY <3>1, <3>2, <1>1, <2>2, <2>5, HeaderDecoded DEF Known, ReaderInv
  <2>7. end' \in 0 .. Len(file') /\ src' \in 0 .. end'
    BY <1>2, <1>4, <2>5, WhereReading DEF minFHSize
  <2>8. PosInv(L)'
    BY <1>2, <2>4, <2>5, <2>7 DEF PosInv
  <2>9. CallInv'
    BY <1>1, <1>2, <2>1, <2>2, <2>5 DEF CallInv
  <2> QED BY <2>6, <2>8, <2>9 DEF ReaderInv
<1> QED BY <1>3, <1>4 DEF GetFrameInfo

(* Decompress: a call, with the buffer of the caller empty. *)
LEMMA DecompressKnown ==
  ASSUME NEW L, Known(L), Decompress
  PROVE  ReaderInv(L)'
<1>1. /\ caller.at = "loop" /\ stage = "idle" /\ caller.kind # "none"
      /\ caller \in [kind : {"none", "client", "any"},
                     at : {"away", "frame", "loop", "call", "leave", "done", "failed"}]
      /\ MidFrame \/ dStage \in {"getFrameHeader", "storeFrameHeader", "init"}
      /\ caller.kind = "client" => dStage \notin {"getFrameHeader", "storeFrameHeader"}
  BY DEF Decompress, Known, ReaderInv, CallInv, ReaderInit
<1>2. /\ UNCHANGED <<file, stage, end, dStage, info, target, held, tmpOutBuffer, tmpOut, tmpOutSize,
                     tmpOutStart, dict, src, out, inside>>
      /\ before' = src /\ caller'.kind = caller.kind /\ caller'.at = "call" /\ dstAt' = 0
      /\ caller' \in [kind : {"none", "client", "any"},
                      at : {"away", "frame", "loop", "call", "leave", "done", "failed"}]
  BY <1>1 DEF Decompress, writerVars, dctx
<1>3. ~Calling /\ Calling'
  BY <1>1, <1>2 DEF Calling
<1>4. src < end \/ (caller.kind = "any" /\ dStage = "flushOut")
  BY DEF Decompress
<1>5. PICK e, n : <<e, n>> \in Offered /\ srcEnd' = e /\ dst' = Buffer(n)
  <2>1. PICK offer \in Offered : srcEnd' = offer[1] /\ dst' = Buffer(offer[2])
    BY DEF Decompress
  <2>2. offer = <<offer[1], offer[2]>>
    BY DEF Offered
  <2> QED BY <2>1, <2>2
<1>7. e \in 0 .. end /\ src <= e /\ n \in Nat \ {0} /\ (caller.kind = "client" => e = end)
  <2>1. src \in 0 .. end /\ end \in Nat /\ src \in Nat
    BY WhereReading
  <2>2. CASE caller.kind = "client"
    <3>1. <<e, n>> = <<end, info.max>>
      BY <1>5, <2>2 DEF Offered
    <3>2. info \in Infos
      BY <1>1, <2>2 DEF Known, ReaderInv, MemInv, InfoKnown
    <3> QED BY <2>1, <3>1, <3>2 DEF Infos
  <2>3. CASE caller.kind # "client"
    <3>1. e \in {end} \cup {i \in src + 1 .. end : i - src \in Offers} /\ n \in Capacities
      BY <1>5, <2>3 DEF Offered
    <3> QED BY <2>1, <2>3, <3>1, CallerAssumption
  <2> QED BY <2>2, <2>3
<1>8. IsBuffer(dst') /\ Size(dst') = n
  <2>1. DOMAIN dst' = 0 .. n - 1
    BY <1>5 DEF Buffer
  <2>2. n \in Nat
    BY <1>7
  <2> QED BY <2>1, <2>2, SizeOf
<1>9. Len(out) \in Nat
  BY WhereReading
<1>10. OutKnown' /\ DstKnown' /\ inside' = TRUE /\ IsBuffer(tmpOutBuffer')
  <2>1. Recent(dst', 0, Len(out), 0)
    BY <1>7, <1>8, <1>9 DEF Recent
  <2>2. DstKnown'
    BY <2>1, <1>2, <1>7, <1>8 DEF DstKnown
  <2> QED BY <2>2, <1>2 DEF Known, ReaderInv, MemInv, OutKnown
<1>11. InfoKnown'
  BY <1>2 DEF Known, ReaderInv, MemInv, InfoKnown
<1>12. DstEnd = -1 /\ DstEnd' = 0
  BY <1>2, <1>3 DEF DstEnd
<1>13. ASSUME NEW k, Has(dict, tmpOutBuffer, Len(out), k, -1)
       PROVE  Has(dict, tmpOutBuffer, Len(out), k, 0)
  BY <1>13 DEF Has, InDst
<1>14. ASSUME NEW b, NEW h, NEW a, NEW s, NEW st, HasFlushed(dict, tmpOutBuffer, b, h, a, s, st, -1)
       PROVE  HasFlushed(dict, tmpOutBuffer, b, h, a, s, st, 0)
  BY <1>14 DEF HasFlushed, InDst
<1>15. DictKnown'
  <2>1. DictKnown
    BY DEF Known, ReaderInv, MemInv
  <2> QED BY <2>1, <1>2, <1>12, <1>13 DEF DictKnown, MidFrame
<1>16. FlushKnown'
  <2>1. FlushKnown
    BY DEF Known, ReaderInv, MemInv
  <2> QED BY <2>1, <1>2, <1>12, <1>14 DEF FlushKnown, ToFlush
<1>17. MemInv'
  BY <1>10, <1>11, <1>15, <1>16 DEF MemInv
<1>18. PosInv(L)'
  BY <1>2, PosUntouched DEF Known, ReaderInv
<1>19. CallInv'
  <2>1. src \in Nat /\ src \in 0 .. end /\ end \in Nat
    BY WhereReading
  <2> QED BY <2>1, <1>1, <1>2, <1>3, <1>4, <1>5, <1>7 DEF CallInv, MidFrame
<1> QED BY <1>17, <1>18, <1>19 DEF ReaderInv

-----------------------------------------------------------------------------
(* The end of a call: the history is in tmpOutBuffer. *)
LEMMA HistoryKept ==
  ASSUME MemInv, caller.at = "leave", dStage # "init", dStage # "getSuffix", KeepHistory,
         MidFrame \/ dStage \in {"getFrameHeader", "storeFrameHeader"},
         UNCHANGED <<dStage, info, out, tmpOutSize, tmpOutStart>>, caller'.at \notin {"call", "leave"}
  PROVE  MemInv'
<1>1. Calling /\ ~Calling' /\ DstEnd = dstAt /\ DstEnd' = -1
  BY DEF Calling, DstEnd
<1>2. OutKnown' /\ DstKnown' /\ InfoKnown'
  BY <1>1 DEF MemInv, OutKnown, DstKnown, InfoKnown
<1>3. inside = TRUE /\ IsBuffer(tmpOutBuffer) /\ OutKnown /\ DstKnown /\ InfoKnown /\ DictKnown /\ FlushKnown
  BY DEF MemInv
<1>4. Len(out) \in Nat /\ IsBuffer(dst) /\ dstAt \in Nat /\ dstAt <= Size(dst)
      /\ Recent(dst, dstAt, Len(out), dstAt)
  BY <1>1, <1>3 DEF OutKnown, DstKnown, Recent
<1>5. CASE ~MidFrame
  <2>1. dStage \in {"getFrameHeader", "storeFrameHeader"}
    BY <1>5
  <2>2. UNCHANGED <<dict, tmpOutBuffer, tmpOut, inside>>
    BY <2>1 DEF KeepHistory
  <2>3. DictKnown' /\ FlushKnown'
    BY <2>1, <2>2, <1>3 DEF DictKnown, FlushKnown, MidFrame
  <2> QED BY <2>2, <2>3, <1>2, <1>3 DEF MemInv
<1>6. CASE MidFrame
  <2>1. /\ MidFrame' /\ dStage \notin {"getFrameHeader", "storeFrameHeader", "init", "getSuffix"}
        /\ info \in Infos /\ info.base \in Nat /\ info.max \in Nat \ {0} /\ info.linked \in BOOLEAN
        /\ info.base <= Len(out)
        /\ Size(tmpOutBuffer) >= info.max + IF info.linked THEN 2 * Window ELSE 0
        /\ ~info.linked => dict = NoDict /\ tmpOut = 0
    <3>1. MidFrame' /\ dStage \notin {"getFrameHeader", "storeFrameHeader", "init", "getSuffix"}
      BY <1>6 DEF MidFrame
    <3> QED BY <3>1, <1>3, <1>6 DEF InfoKnown, DictKnown, Infos
  <2>2. ASSUME info.linked, dStage # "flushOut"
        PROVE  Has(dict, tmpOutBuffer, Len(out), Lesser(Window, Len(out) - info.base), dstAt)
    BY <2>2, <1>1, <1>3, <1>6 DEF DictKnown
  <2>f. ASSUME dStage = "flushOut"
        PROVE  /\ tmpOutStart \in 0 .. tmpOutSize - 1 /\ info.base <= Len(out) - tmpOutStart
               /\ ToFlush(tmpOutBuffer, Len(out) - tmpOutStart, Len(out) - tmpOutStart - info.base,
                          tmpOut, tmpOutSize)
    BY <2>f, <1>3 DEF FlushKnown
  <2>3. ASSUME info.linked, dStage = "flushOut"
        PROVE  HasFlushed(dict, tmpOutBuffer, Len(out) - tmpOutStart,
                 Len(out) - tmpOutStart - info.base, tmpOut, tmpOutSize, tmpOutStart, dstAt)
    BY <2>3, <1>1, <1>3 DEF FlushKnown
  <2>4. CASE ~info.linked \/ dict.in = "tmp"
    <3>1. UNCHANGED <<dict, tmpOutBuffer, tmpOut, inside>>
      BY <2>4 DEF KeepHistory
    <3>2. ASSUME info.linked, dStage # "flushOut"
          PROVE  Has(dict, tmpOutBuffer, Len(out), Lesser(Window, Len(out) - info.base), -1)
      BY <2>2, <2>4, <3>2 DEF Has, InDst
    <3>3. ASSUME info.linked, dStage = "flushOut"
          PROVE  HasFlushed(dict, tmpOutBuffer, Len(out) - tmpOutStart,
                   Len(out) - tmpOutStart - info.base, tmpOut, tmpOutSize, tmpOutStart, -1)
      BY <2>3, <2>4, <3>3 DEF HasFlushed, InDst
    <3>4. DictKnown'
      BY <3>1, <3>2, <2>1, <1>1 DEF DictKnown
    <3>5. FlushKnown'
      BY <3>1, <3>3, <2>f, <1>1 DEF FlushKnown, ToFlush
    <3> QED BY <3>1, <3>4, <3>5, <1>2, <1>3 DEF MemInv
  <2>5. CASE info.linked /\ dict.in # "tmp" /\ dStage = "flushOut"
    <3>c. PICK c : c = InFrontOfTmpOut(tmpOutBuffer, dst, dict)
      OBVIOUS
    <3>b. PICK b \in Nat : b = Len(out) - tmpOutStart
      BY <2>1, <2>5, <2>f, <1>4
    <3>h. PICK h \in Nat : h = Len(out) - tmpOutStart - info.base
      BY <2>1, <2>5, <2>f, <1>4
    <3>e. PICK e : e = -1
      OBVIOUS
    <3>1. /\ tmpOutBuffer' = c.tmp /\ inside' = (inside /\ c.inside)
          /\ dict' = InTmp(tmpOut + tmpOutStart) /\ tmpOut' = tmpOut
      BY <3>c, <2>1, <2>5 DEF KeepHistory
    <3>2. tmpOutStart \in Nat /\ tmpOutStart <= tmpOutSize /\ Len(out) = b + tmpOutStart
      <4>1. tmpOutSize \in Nat
        BY <2>5, <2>f DEF ToFlush
      <4> QED BY <4>1, <3>b, <2>5, <2>f, <1>4
    <3>3. Recent(dst, dstAt, b + tmpOutStart, dstAt)
      BY <3>2, <1>4
    <3>4. ToFlush(tmpOutBuffer, b, h, tmpOut, tmpOutSize)
      BY <3>b, <3>h, <2>5, <2>f
    <3>5. HasFlushed(dict, tmpOutBuffer, b, h, tmpOut, tmpOutSize, tmpOutStart, dstAt)
      BY <3>b, <3>h, <2>5, <2>3
    <3>6. IsBuffer(tmpOutBuffer) /\ IsBuffer(dst) /\ dstAt <= Size(dst) /\ info.linked /\ dict.in # "tmp"
          /\ dstAt \in Nat
      BY <1>3, <1>4, <2>5
    <3>7. InFront(c, tmpOutBuffer, b, h, e)
      BY <3>c, <3>2, <3>3, <3>4, <3>5, <3>6, HistoryInFront
    <3>8. /\ c.inside = TRUE /\ IsBuffer(c.tmp) /\ Size(c.tmp) = Size(tmpOutBuffer)
          /\ ToFlush(c.tmp, b, h, tmpOut, tmpOutSize)
          /\ HasFlushed(InTmp(tmpOut + tmpOutStart), c.tmp, b, h, tmpOut, tmpOutSize, tmpOutStart, -1)
      BY <3>7, <3>e DEF InFront
    <3>9. inside' = TRUE /\ IsBuffer(tmpOutBuffer') /\ Size(tmpOutBuffer') = Size(tmpOutBuffer)
      BY <3>1, <3>8, <1>3
    <3>10. DictKnown'
      BY <3>9, <2>1, <2>5 DEF DictKnown
    <3>11. FlushKnown'
      BY <3>1, <3>8, <3>b, <3>h, <2>f, <2>5, <1>1 DEF FlushKnown, ToFlush
    <3> QED BY <3>9, <3>10, <3>11, <1>2 DEF MemInv
  <2>6. CASE info.linked /\ dict.in # "tmp" /\ dStage # "flushOut"
    <3>k. PICK k \in Nat : k = Lesser(Window, Len(out) - info.base)
      BY <2>1, <1>4, WindowAssumption DEF Lesser
    <3>1. Has(dict, tmpOutBuffer, Len(out), k, dstAt)
      BY <2>2, <2>6, <3>k
    <3>2. dict.size \in Nat /\ k <= dict.size /\ k <= Window
      <4>1. k <= Window
        BY <3>k, <2>1, <1>4, WindowAssumption DEF Lesser
      <4>2. dict.size \in Nat /\ k <= dict.size
        BY <3>1, <2>6 DEF Has, NoDict, InTmp, InDst
      <4> QED BY <4>1, <4>2
    <3>n. PICK n \in Nat : n = Lesser(dict.size, Window)
      BY <3>2, WindowAssumption DEF Lesser
    <3>3. k <= n /\ n <= dict.size /\ n <= Size(tmpOutBuffer)
      <4>1. n <= Window /\ n <= dict.size /\ k <= n
        BY <3>2, <3>n, WindowAssumption DEF Lesser
      <4>2. Size(tmpOutBuffer) >= 2 * Window /\ Size(tmpOutBuffer) \in Nat
        BY <2>1, <2>6, <1>3, WindowAssumption DEF IsBuffer
      <4> QED BY <4>1, <4>2, WindowAssumption
    <3>c. PICK c : c = FromDict(tmpOutBuffer, dst, dict, 0, dict.at + dict.size - n, n)
      OBVIOUS
    <3>e. PICK e : e = -1
      OBVIOUS
    <3>4. /\ tmpOutBuffer' = c.tmp /\ inside' = (inside /\ c.inside)
          /\ dict' = InTmp(n) /\ tmpOut' = n
      BY <3>c, <3>n, <2>1, <2>6 DEF KeepHistory
    <3>5. /\ IsBuffer(tmpOutBuffer) /\ IsBuffer(dst) /\ Len(out) \in Nat
          /\ dstAt \in Nat => dstAt <= Size(dst) /\ Recent(dst, dstAt, Len(out), dstAt)
          /\ dict.in = "tmp" => n + n <= dict.size
      BY <1>3, <1>4, <2>6
    <3>6. Moves(c, tmpOutBuffer, n, Len(out), k, e)
      BY <3>1, <3>3, <3>5, <3>c, HistoryMoved
    <3>7. /\ c.inside = TRUE /\ IsBuffer(c.tmp) /\ Size(c.tmp) = Size(tmpOutBuffer)
          /\ Has(InTmp(n), c.tmp, Len(out), k, -1)
      BY <3>6, <3>e DEF Moves
    <3>8. inside' = TRUE /\ IsBuffer(tmpOutBuffer') /\ Size(tmpOutBuffer') = Size(tmpOutBuffer)
      BY <3>4, <3>7, <1>3
    <3>9. Has(dict', tmpOutBuffer', Len(out)', Lesser(Window, Len(out') - info'.base), DstEnd')
      BY <3>4, <3>7, <3>k, <1>1
    <3>10. DictKnown'
      BY <3>8, <3>9, <2>1, <2>6 DEF DictKnown
    <3>11. FlushKnown'
      BY <2>6 DEF FlushKnown
    <3> QED BY <3>8, <3>10, <3>11, <1>2 DEF MemInv
  <2> QED BY <2>4, <2>5, <2>6
<1> QED BY <1>5, <1>6

(* Return: the caller takes its buffer back, the history is kept. *)
LEMMA ReturnKnown ==
  ASSUME NEW L, Known(L), Return
  PROVE  ReaderInv(L)'
<1>1. /\ caller.at = "leave" /\ caller.kind # "none" /\ stage = "idle"
      /\ caller \in [kind : {"none", "client", "any"},
                     at : {"away", "frame", "loop", "call", "leave", "done", "failed"}]
      /\ MidFrame \/ dStage \in {"getFrameHeader", "storeFrameHeader"}
      /\ dStage \notin {"init", "getSuffix"}
      /\ caller.kind = "client" => dStage # "storeFrameHeader"
  BY DEF Return, Known, ReaderInv, CallInv, ReaderInit
<1>2. /\ UNCHANGED <<file, stage, end, dStage, info, target, held, tmpOutSize, tmpOutStart, src, out>>
      /\ KeepHistory
  BY DEF Return, writerVars
<1>3. /\ caller'.kind = caller.kind
      /\ caller'.at = IF FrameOver
                      THEN IF src >= end THEN "done"
                           ELSE IF caller.kind = "client" THEN "frame" ELSE "loop"
                      ELSE IF caller.kind = "client" /\ ~Moved THEN "failed" ELSE "loop"
      /\ caller' \in [kind : {"none", "client", "any"},
                      at : {"away", "frame", "loop", "call", "leave", "done", "failed"}]
  BY <1>1 DEF Return
<1>4. caller'.at \notin {"call", "leave", "away"}
  BY <1>3
<1>5. MemInv'
  BY <1>1, <1>2, <1>4, HistoryKept DEF Known, ReaderInv
<1>6. PosInv(L)'
  BY <1>2, PosUntouched DEF Known, ReaderInv
<1>7. CallInv'
  BY <1>1, <1>2, <1>3, <1>4 DEF CallInv, Calling, MidFrame, FrameOver
<1> QED BY <1>5, <1>6, <1>7 DEF ReaderInv

-----------------------------------------------------------------------------
(* Input that is gathered until there is enough. *)
Gathered(g, h, f, p, q, e, n) ==
  /\ q \in p .. e /\ q - Len(g) = p - Len(h) /\ Len(g) \in 0 .. n /\ Len(g) <= q
  /\ g = SubSeq(f, q - Len(g) + 1, q)
  /\ Len(g) < n => q = e /\ Gathers(g, f, q, n)
  /\ Len(g) = n => q > p /\ g[1] = f[p - Len(h) + 1]

(* A piece of a file. *)
LEMMA PieceOf ==
  ASSUME NEW f \in Seq(Unit), NEW m \in Nat, NEW n \in Nat, m <= n, n <= Len(f)
  PROVE  /\ SubSeq(f, m + 1, n) \in Seq(Unit) /\ Len(SubSeq(f, m + 1, n)) = n - m
         /\ \A i \in 1 .. n - m : SubSeq(f, m + 1, n)[i] = f[m + i]
<1>1. m + 1 \in Int /\ n \in Int /\ n - (m + 1) + 1 = n - m
  OBVIOUS
<1>2. \A i \in m + 1 .. n : f[i] \in Unit
  <2> HIDE DEF Unit
  <2> QED OBVIOUS
<1>3. /\ SubSeq(f, m + 1, n) \in Seq(Unit)
      /\ Len(SubSeq(f, m + 1, n)) = IF m + 1 <= n THEN n - (m + 1) + 1 ELSE 0
      /\ \A i \in 1 .. n - (m + 1) + 1 : SubSeq(f, m + 1, n)[i] = f[(m + 1) + i - 1]
  BY <1>1, <1>2, SubSeqProperties
<1>4. \A i \in 1 .. n - m : SubSeq(f, m + 1, n)[i] = f[m + i]
  <2> SUFFICES ASSUME NEW i \in 1 .. n - m PROVE SubSeq(f, m + 1, n)[i] = f[m + i]
    OBVIOUS
  <2>1. i \in 1 .. n - (m + 1) + 1 /\ (m + 1) + i - 1 = m + i
    BY <1>1
  <2> QED BY <2>1, <1>3
<1>5. Len(SubSeq(f, m + 1, n)) = n - m
  BY <1>3
<1> QED BY <1>3, <1>4, <1>5

(* An empty hold holds the start of anything. *)
LEMMA NothingGathered ==
  ASSUME NEW f, NEW p \in Nat, NEW n \in Nat \ {0}
  PROVE  Gathers(<<>>, f, p, n) /\ Len(<<>>) = 0
<1>1. SubSeq(f, p + 1, p) = <<>>
  BY SubSeqEmpty
<1>2. Len(<<>>) = 0 /\ p - 0 + 1 = p + 1
  OBVIOUS
<1> QED BY <1>1, <1>2 DEF Gathers

NextOf(f, p, e, n, h) == SubSeq(f, p + 1, Lesser(e, p + n - Len(h)))

(* What is held, and the next units there are, up to those that were asked *)
(* for.                                                                    *)
LEMMA Gathering ==
  ASSUME NEW f \in Seq(Unit), NEW p \in Nat, NEW e \in Nat, p <= e, e <= Len(f),
         NEW n \in Nat, NEW h, Gathers(h, f, p, n),
         NEW new, new = NextOf(f, p, e, n, h),
         NEW g, g = h \o new, NEW q, q = p + Len(new)
  PROVE  Gathered(g, h, f, p, q, e, n)
<1>s. h = SubSeq(f, p - Len(h) + 1, p)
  BY DEF Gathers
<1>g. Len(h) \in 0 .. n - 1 /\ Len(h) <= p
  BY DEF Gathers
<1>l. PICK l \in Nat : l = Len(h)
  BY <1>g
<1>h. l <= n - 1 /\ l <= p /\ n > 0
  BY <1>l, <1>g
<1>x. PICK x \in Nat : x = p - l
  BY <1>h
<1>y. PICK y \in Nat : y = Lesser(e, p + n - l)
  <2>1. p + n - l \in Nat
    BY <1>h
  <2> QED BY <2>1 DEF Lesser
<1>1. p <= y /\ y <= e /\ y <= Len(f) /\ y <= x + n /\ (y < x + n => y = e) /\ x <= p /\ Len(f) \in Nat
  BY <1>h, <1>x, <1>y DEF Lesser
<1>2. /\ new \in Seq(Unit) /\ Len(new) = y - p
      /\ \A i \in 1 .. y - p : new[i] = f[p + i]
  <2>1. new = SubSeq(f, p + 1, y)
    BY <1>y, <1>l DEF NextOf
  <2> HIDE DEF Unit
  <2> QED BY <2>1, <1>1, PieceOf
<1>3. /\ h \in Seq(Unit) /\ Len(h) = p - x
      /\ \A i \in 1 .. p - x : h[i] = f[x + i]
  <2>1. h = SubSeq(f, x + 1, p)
    BY <1>x, <1>l, <1>s
  <2>2. p <= Len(f)
    BY <1>1
  <2> HIDE DEF Unit
  <2> QED BY <2>1, <2>2, <1>1, PieceOf
<1>4. /\ g \in Seq(Unit) /\ Len(g) = (p - x) + (y - p)
      /\ \A i \in 1 .. p - x : g[i] = h[i]
      /\ \A i \in 1 .. y - p : g[p - x + i] = new[i]
  <2> HIDE DEF Unit
  <2>1. /\ h \o new \in Seq(Unit) /\ Len(h \o new) = Len(h) + Len(new)
        /\ \A i \in 1 .. Len(h) : (h \o new)[i] = h[i]
        /\ \A i \in 1 .. Len(new) : (h \o new)[Len(h) + i] = new[i]
    BY <1>2, <1>3, Appended, Zenon
  <2> QED BY <2>1, <1>2, <1>3
<1>5. Len(g) = y - x /\ q = y /\ q \in p .. e
  BY SMTT(20), <1>1, <1>2, <1>4
<1>6. /\ SubSeq(f, x + 1, y) \in Seq(Unit) /\ Len(SubSeq(f, x + 1, y)) = y - x
      /\ \A i \in 1 .. y - x : SubSeq(f, x + 1, y)[i] = f[x + i]
  <2>1. x <= y
    BY <1>1
  <2> QED BY <2>1, <1>1, PieceOf
<1>7. \A i \in 1 .. y - x : g[i] = f[x + i]
  <2> SUFFICES ASSUME NEW i \in 1 .. y - x PROVE g[i] = f[x + i]
    OBVIOUS
  <2>1. CASE i <= p - x
    BY <2>1, <1>1, <1>3, <1>4
  <2>2. CASE i > p - x
    <3>j. PICK j : j = i - (p - x)
      OBVIOUS
    <3>1. j \in 1 .. y - p /\ i = p - x + j /\ p + j = x + i
      BY <3>j, <2>2, <1>1
    <3>2. g[p - x + j] = new[j]
      BY <3>1, <1>4
    <3>3. new[j] = f[p + j]
      BY <3>1, <1>2
    <3>4. g[i] = g[p - x + j] /\ f[p + j] = f[x + i]
      BY <3>1
    <3> QED BY <3>2, <3>3, <3>4, Zenon
  <2>3. i \in Int /\ p - x \in Int
    OBVIOUS
  <2>4. i <= p - x \/ i > p - x
    BY <2>3
  <2> QED BY <2>1, <2>2, <2>4
<1>8. g = SubSeq(f, x + 1, y)
  <2> HIDE DEF Unit
  <2>1. Len(g) = Len(SubSeq(f, x + 1, y))
        /\ \A i \in 1 .. Len(g) : g[i] = SubSeq(f, x + 1, y)[i]
    BY <1>5, <1>6, <1>7
  <2> QED BY <2>1, <1>4, <1>6, SeqEqual
<1>9. q - Len(g) = x /\ Len(g) \in 0 .. n /\ Len(g) <= q /\ (Len(g) < n => y < x + n)
  <2>1. y - (y - x) = x /\ y - x \in 0 .. n /\ y - x <= y /\ (y - x < n => y < x + n)
    BY <1>1
  <2> QED BY <2>1, <1>5
<1>10. g = SubSeq(f, q - Len(g) + 1, q)
  BY <1>5, <1>8, <1>9
<1>11. ASSUME Len(g) < n PROVE q = e /\ Gathers(g, f, q, n)
  <2>1. q = e /\ Len(g) \in 0 .. n - 1
    BY <1>1, <1>5, <1>9, <1>11
  <2> QED BY <2>1, <1>9, <1>10 DEF Gathers
<1>12. ASSUME Len(g) = n PROVE q > p /\ g[1] = f[x + 1]
  <2>1. q > p /\ 1 \in 1 .. y - x
    BY <1>1, <1>5, <1>h, <1>x, <1>12
  <2> QED BY <2>1, <1>7
<1> QED BY <1>x, <1>l, <1>5, <1>9, <1>10, <1>11, <1>12 DEF Gathered

(* The units of a compressed block, all of them. *)
Codes(f, p, s, w, n) == \A j \in 1 .. s : f[p + j] = CodeUnits(w, n, s)[j]
PieceAt(f, p, s) == SubSeq(f, p + 1, p + s)

(* Units that are all those of a code are that code. *)
LEMMA CodeRead ==
  ASSUME NEW f \in Seq(Unit), NEW p \in Nat, NEW s \in Nat, p + s <= Len(f), NEW w, NEW n,
         Codes(f, p, s, w, n)
  PROVE  PieceAt(f, p, s) = CodeUnits(w, n, s)
<1>1. PICK u : u = PieceAt(f, p, s)
  OBVIOUS
<1>2. /\ u \in Seq(Unit) /\ Len(u) = (p + s) - p
      /\ \A i \in 1 .. (p + s) - p : u[i] = f[p + i]
  <2>1. p + s \in Nat /\ p <= p + s
    OBVIOUS
  <2>2. u = SubSeq(f, p + 1, p + s)
    BY <1>1 DEF PieceAt
  <2> QED BY <2>1, <2>2, PieceOf
<1>3. u \in Seq(Unit) /\ Len(u) = s /\ \A i \in 1 .. s : u[i] = CodeUnits(w, n, s)[i]
  BY <1>2 DEF Codes
<1>4. DOMAIN u = 1 .. s /\ u = [i \in DOMAIN u |-> u[i]]
  <2> HIDE DEF Unit
  <2> QED BY <1>3
<1>5. u = [i \in 1 .. s |-> CodeUnits(w, n, s)[i]]
  BY <1>3, <1>4
<1>6. CodeUnits(w, n, s) = [i \in 1 .. s |-> CodeUnits(w, n, s)[i]]
  BY DEF CodeUnits
<1> QED BY <1>1, <1>5, <1>6

-----------------------------------------------------------------------------
(* Within a call. *)
InCall ==
  /\ caller.at = "call" /\ Calling /\ MemInv /\ CallInv
  /\ src \in Nat /\ srcEnd \in Nat /\ src <= srcEnd /\ srcEnd <= end /\ srcEnd <= Len(file)
  /\ file \in Seq(Unit) /\ Len(file) \in Nat /\ end \in Nat /\ end <= Len(file)
  /\ before \in 0 .. src
  /\ caller.kind = "client" => srcEnd = end /\ before < end

(* What a stage of the decoder starts from. *)
LEMMA InCallIs ==
  ASSUME NEW L, Known(L), caller.at = "call"
  PROVE  InCall /\ PosInv(L) /\ Layout(L, file)
<1>1. /\ Len(file) \in Nat /\ Layout(L, file) /\ file \in Seq(Unit)
      /\ src \in Nat /\ end \in Nat /\ end \in 0 .. Len(file)
  BY WhereReading
<1>2. Calling /\ MemInv /\ CallInv /\ PosInv(L)
  BY DEF Calling, Known, ReaderInv
<1>3. src <= srcEnd /\ srcEnd \in 0 .. end /\ before \in 0 .. src
      /\ (caller.kind = "client" => srcEnd = end /\ before < end)
  BY <1>2 DEF CallInv, Calling
<1>4. srcEnd \in Nat /\ srcEnd <= end /\ srcEnd <= Len(file) /\ end <= Len(file) /\ src <= srcEnd
  BY <1>1, <1>3
<1>5. caller.kind = "client" => srcEnd = end /\ before < end
  BY <1>3
<1> QED BY <1>1, <1>2, <1>3, <1>4, <1>5 DEF InCall

(* The client reads the header of the frame before it decodes. *)
LEMMA AwayFromHeaders ==
  ASSUME InCall, dStage \in {"getFrameHeader", "storeFrameHeader"}
  PROVE  caller.kind # "client"
BY DEF InCall, CallInv

(* Before the header of a frame there is no history to keep. *)
LEMMA MemBeforeHeader ==
  ASSUME MemInv, dStage \in {"getFrameHeader", "storeFrameHeader"},
         dStage' \in {"getFrameHeader", "storeFrameHeader"},
         UNCHANGED Memory, UNCHANGED info, Calling, Calling'
  PROVE  MemInv'
<1>1. /\ UNCHANGED <<dst, dstAt, out, inside, tmpOutBuffer, tmpOut, tmpOutSize, tmpOutStart>>
      /\ UNCHANGED dict
  BY DEF Memory
<1>2. OutKnown' /\ DstKnown' /\ inside' = TRUE /\ IsBuffer(tmpOutBuffer')
  BY <1>1 DEF MemInv, OutKnown, DstKnown
<1>3. InfoKnown' /\ FlushKnown'
  BY <1>1 DEF InfoKnown, FlushKnown
<1>4. DictKnown'
  BY <1>1 DEF MemInv, DictKnown, MidFrame
<1> QED BY <1>2, <1>3, <1>4 DEF MemInv

(* GetFrameHeader: the header of a frame, whole or its first part. *)
LEMMA GetFrameHeaderKnown ==
  ASSUME NEW L, Known(L), GetFrameHeader
  PROVE  ReaderInv(L)'
<1>1. /\ InCall /\ PosInv(L) /\ Layout(L, file) /\ dStage = "getFrameHeader"
      /\ caller.at = "call" /\ caller.kind # "client"
  <2>1. caller.at = "call" /\ dStage = "getFrameHeader"
    BY DEF GetFrameHeader, At
  <2> QED BY <2>1, InCallIs, AwayFromHeaders
<1>2. /\ UNCHANGED <<file, stage, end, srcEnd, before>> /\ UNCHANGED Memory /\ UNCHANGED <<out, tmpOutSize, tmpOutStart>>
  BY DEF GetFrameHeader, TheInput, TheTmpOut, TheOutput, writerVars, Memory
<1>3. FrameAt(L, src, Len(out))
  BY <1>1 DEF PosInv
<1>4. CASE /\ srcEnd - src >= maxFHSize
           /\ DecodedHeader(file[src + 1]) /\ src' = src + minFHSize
           /\ UNCHANGED <<caller, target, held>>
  <2>1. info' = InfoOf(file[src + 1]) /\ dStage' = "init" /\ src' = src + 2
        /\ src + 3 <= srcEnd /\ caller' = caller
    BY <1>1, <1>4 DEF DecodedHeader, InfoOf, minFHSize, maxFHSize, InCall
  <2>2. src < Len(file) /\ Len(file) \in Nat
    BY <1>1, <2>1 DEF InCall
  <2>3. /\ BlockAt(L, src + 2, Len(out), InfoOf(file[src + 1]))
        /\ InfoOf(file[src + 1]) \in Infos /\ InfoOf(file[src + 1]).base = Len(out)
    BY <2>2, <1>1, <1>3, HeaderRead
  <2>4. Calling /\ Calling'
    BY <1>1, <2>1 DEF Calling
  <2>5. MemInv'
    BY <1>1, <1>2, <2>1, <2>3, <2>4, HeaderDecoded DEF InCall
  <2>6. end' \in 0 .. Len(file') /\ src' \in 0 .. end' /\ src' \in src .. srcEnd
    BY <1>1, <1>2, <2>1 DEF InCall
  <2>7. PosInv(L)'
    BY <1>2, <2>1, <2>3, <2>6 DEF PosInv
  <2>8. CallInv'
    BY <1>1, <1>2, <2>1, <2>6, StageCall DEF InCall
  <2> QED BY <2>5, <2>7, <2>8 DEF ReaderInv
<1>5. CASE /\ srcEnd - src < maxFHSize
           /\ held' = <<>> /\ target' = minFHSize /\ dStage' = "storeFrameHeader"
           /\ UNCHANGED <<caller, info, src>>
  <2>1. held' = <<>> /\ target' = 2 /\ dStage' = "storeFrameHeader" /\ UNCHANGED <<caller, info, src>>
    BY <1>5 DEF minFHSize
  <2>2. Calling /\ Calling'
    BY <1>1, <2>1 DEF Calling
  <2>3. MemInv'
    BY <1>1, <1>2, <2>1, <2>2, MemBeforeHeader DEF InCall
  <2>4. Gathers(<<>>, file, src, 2) /\ Len(<<>>) = 0 /\ src - 0 = src
    <3>1. src \in Nat /\ 2 \in Nat \ {0} /\ src - 0 = src
      BY <1>1 DEF InCall
    <3> QED BY <3>1, NothingGathered
  <2>5. end' \in 0 .. Len(file') /\ src' \in 0 .. end' /\ src' \in src .. srcEnd
    BY <1>1, <1>2, <2>1 DEF InCall
  <2>6. PosInv(L)'
    <3>1. Gathers(held', file', src', 2) /\ FrameAt(L, src' - Len(held'), Len(out'))
      BY <2>1, <2>4, <1>2, <1>3
    <3> QED BY <3>1, <2>1, <2>5 DEF PosInv
  <2>7. CallInv'
    BY <1>1, <1>2, <2>1, <2>5, StageCall DEF InCall
  <2> QED BY <2>3, <2>6, <2>7 DEF ReaderInv
<1> QED BY <1>4, <1>5 DEF GetFrameHeader

(* Input is taken, as it is in the three stages that gather it.            *)
LEMMA TakenIs ==
  ASSUME InCall, NEW n \in Nat, Gathers(held, file, src, n),
         NEW new, new = Taken(n), NEW g, g = held \o new, NEW q, q = src + Len(new)
  PROVE  Gathered(g, held, file, src, q, srcEnd, n)
<1>1. new = NextOf(file, src, srcEnd, n, held)
  BY DEF Taken, NextOf
<1>2. file \in Seq(Unit) /\ src \in Nat /\ srcEnd \in Nat /\ src <= srcEnd /\ srcEnd <= Len(file)
  BY DEF InCall
<1> QED BY <1>1, <1>2, Gathering

(* StoreFrameHeader: the rest of the header, as it comes. *)
LEMMA StoreFrameHeaderKnown ==
  ASSUME NEW L, Known(L), StoreFrameHeader
  PROVE  ReaderInv(L)'
<1>1. /\ InCall /\ PosInv(L) /\ Layout(L, file) /\ dStage = "storeFrameHeader"
      /\ caller.at = "call" /\ caller.kind # "client"
  <2>1. caller.at = "call" /\ dStage = "storeFrameHeader"
    BY DEF StoreFrameHeader, At
  <2> QED BY <2>1, InCallIs, AwayFromHeaders
<1>2. /\ UNCHANGED <<file, stage, end, srcEnd, before>> /\ UNCHANGED Memory
      /\ UNCHANGED <<out, tmpOutSize, tmpOutStart, target>>
  BY DEF StoreFrameHeader, TheInput, TheTmpOut, TheOutput, writerVars, Memory
<1>3. target = 2 /\ Gathers(held, file, src, 2) /\ FrameAt(L, src - Len(held), Len(out))
  BY <1>1 DEF PosInv
<1>4. PICK new : new = Taken(2)
  OBVIOUS
<1>5. /\ held' = held \o new /\ src' = src + Len(new)
      /\ \/ Len(held') < 2 /\ Leave /\ UNCHANGED <<dStage, info>>
         \/ Len(held') = 2 /\ DecodedHeader(held'[1]) /\ UNCHANGED caller
  BY <1>3, <1>4 DEF StoreFrameHeader
<1>6. Gathered(held', held, file, src, src', srcEnd, 2)
  BY <1>1, <1>3, <1>4, <1>5, TakenIs
<1>7. end' \in 0 .. Len(file') /\ src' \in 0 .. end' /\ src' \in src .. srcEnd
  BY <1>1, <1>2, <1>6 DEF InCall, Gathered
<1>8. CASE Len(held') < 2 /\ Leave /\ UNCHANGED <<dStage, info>>
  <2>1. caller'.at = "leave"
    BY <1>1, <1>8 DEF Leave, InCall, CallInv
  <2>2. Calling /\ Calling'
    BY <1>1, <2>1 DEF Calling
  <2>3. MemInv'
    BY <1>1, <1>2, <1>8, <2>2, MemBeforeHeader DEF InCall
  <2>4. Gathers(held', file, src', 2) /\ src' - Len(held') = src - Len(held)
    BY <1>6, <1>8 DEF Gathered
  <2>5. PosInv(L)'
    <3>1. Gathers(held', file', src', 2) /\ FrameAt(L, src' - Len(held'), Len(out'))
      BY <2>4, <1>2, <1>3
    <3> QED BY <3>1, <1>1, <1>2, <1>3, <1>7, <1>8 DEF PosInv
  <2>6. CallInv'
    BY <1>1, <1>2, <1>7, <1>8, StageCall DEF InCall
  <2> QED BY <2>3, <2>5, <2>6 DEF ReaderInv
<1>9. CASE Len(held') = 2 /\ DecodedHeader(held'[1]) /\ UNCHANGED caller
  <2>p. PICK p : p = src - Len(held)
    OBVIOUS
  <2>1. src' = p + 2 /\ held'[1] = file[p + 1] /\ p < Len(file) /\ Len(file) \in Nat
    <3>1. src' - 2 = p /\ held'[1] = file[p + 1] /\ src' \in src .. srcEnd
      BY <2>p, <1>6, <1>9 DEF Gathered
    <3> QED BY <3>1, <1>1 DEF InCall
  <2>2. info' = InfoOf(file[p + 1]) /\ dStage' = "init" /\ caller' = caller
    BY <2>1, <1>9 DEF DecodedHeader, InfoOf
  <2>3. /\ BlockAt(L, p + 2, Len(out), InfoOf(file[p + 1]))
        /\ InfoOf(file[p + 1]) \in Infos /\ InfoOf(file[p + 1]).base = Len(out)
    BY <2>p, <2>1, <1>1, <1>3, HeaderRead
  <2>4. Calling /\ Calling'
    BY <1>1, <2>2 DEF Calling
  <2>5. MemInv'
    BY <1>1, <1>2, <2>2, <2>3, <2>4, HeaderDecoded DEF InCall
  <2>6. PosInv(L)'
    BY <1>2, <1>7, <2>1, <2>2, <2>3 DEF PosInv
  <2>7. CallInv'
    BY <1>1, <1>2, <1>7, <2>2, StageCall DEF InCall
  <2> QED BY <2>5, <2>6, <2>7 DEF ReaderInv
<1> QED BY <1>5, <1>8, <1>9

-----------------------------------------------------------------------------
(* InitFrame: room for a block, and for the history twice if blocks are    *)
(* linked.                                                                 *)
LEMMA InitFrameKnown ==
  ASSUME NEW L, Known(L), InitFrame
  PROVE  ReaderInv(L)'
<1>1. /\ InCall /\ PosInv(L) /\ dStage = "init" /\ caller.at = "call"
  <2>1. caller.at = "call" /\ dStage = "init"
    BY DEF InitFrame, At
  <2> QED BY <2>1, InCallIs
<1>2. /\ UNCHANGED <<file, stage, end, srcEnd, before, caller, info, dict, src>>
      /\ UNCHANGED <<dst, dstAt, out, inside>>
      /\ tmpOut' = 0 /\ dStage' = "getBlockHeader"
  BY DEF InitFrame, TheInput, TheOutput, writerVars
<1>3. /\ inside = TRUE /\ IsBuffer(tmpOutBuffer) /\ dict = NoDict
      /\ OutKnown /\ DstKnown /\ Len(out) \in Nat
      /\ info \in Infos /\ info.max \in Nat /\ info.base = Len(out)
  BY <1>1 DEF InCall, MemInv, OutKnown, InfoKnown, DictKnown, Infos
<1>n. PICK n : n = info.max + IF info.linked THEN 2 * Window ELSE 0
  OBVIOUS
<1>4. n \in Nat
  BY <1>3, <1>n, WindowAssumption DEF Infos
<1>5. IsBuffer(tmpOutBuffer') /\ Size(tmpOutBuffer') >= n
  <2>1. tmpOutBuffer' = IF n > Size(tmpOutBuffer) THEN Buffer(n) ELSE tmpOutBuffer
    BY <1>n DEF InitFrame, Size
  <2>2. CASE n > Size(tmpOutBuffer)
    <3>1. tmpOutBuffer' = Buffer(n)
      BY <2>1, <2>2
    <3>2. DOMAIN tmpOutBuffer' = 0 .. n - 1
      BY <3>1 DEF Buffer
    <3> QED BY <3>2, <1>4, SizeOf
  <2>3. CASE ~(n > Size(tmpOutBuffer))
    BY <2>1, <2>3, <1>3, <1>4 DEF IsBuffer
  <2> QED BY <2>2, <2>3
<1>6. OutKnown' /\ DstKnown' /\ InfoKnown' /\ FlushKnown'
  BY <1>2, <1>3 DEF OutKnown, DstKnown, InfoKnown, FlushKnown, Calling
<1>7. DictKnown'
  <2>1. Lesser(Window, Len(out') - info'.base) = 0
    BY <1>2, <1>3, WindowAssumption DEF Lesser
  <2>2. Has(dict', tmpOutBuffer', Len(out'), Lesser(Window, Len(out') - info'.base), DstEnd')
    BY <2>1, <1>2, <1>3 DEF Has
  <2> QED BY <2>2, <1>2, <1>3, <1>5, <1>n DEF DictKnown
<1>8. MemInv'
  BY <1>2, <1>3, <1>5, <1>6, <1>7 DEF MemInv
<1>9. PosInv(L)'
  BY <1>1, <1>2 DEF PosInv
<1>10. CallInv'
  <2>1. src' \in src .. srcEnd /\ caller' = caller /\ MidFrame'
    BY <1>1, <1>2 DEF InCall, MidFrame
  <2> QED BY <2>1, <1>1, <1>2, StageCall DEF InCall
<1> QED BY <1>8, <1>9, <1>10 DEF ReaderInv

(* A block header has been read, at p. *)
LEMMA NextBlockKnown ==
  ASSUME NEW L, InCall, Layout(L, file), dStage \in {"getBlockHeader", "storeBlockHeader"},
         TheInput, TheTmpOut, TheOutput, info' = info,
         NEW p \in Nat, BlockAt(L, p, Len(out), info), src' = p + 2, src' \in src .. srcEnd,
         src' > src, NEW b, b = file[p + 1], NextBlock(b)
  PROVE  ReaderInv(L)'
<1>1. /\ UNCHANGED <<file, stage, end, srcEnd, before>> /\ UNCHANGED Memory
      /\ UNCHANGED <<out, tmpOutSize, tmpOutStart>>
  BY DEF TheInput, TheTmpOut, TheOutput, writerVars, Memory
<1>2. p < Len(file) /\ Len(file) \in Nat
  BY DEF InCall
<1>3. BlockLeads(L, file, p, Len(out), info)
  BY <1>2, BlockRead
<1>4. /\ b.size \in Nat
      /\ b.size = 0 => FrameAt(L, src', Len(out))
      /\ b.size # 0 /\ b.stored => StoredFrom(L, file, src', b.size, Len(out), info)
      /\ b.size # 0 /\ ~b.stored => CodedFrom(L, file, src', b.size, Len(out), info)
  BY <1>3 DEF BlockLeads
<1>5. /\ dStage' = IF b.size = 0 THEN "getSuffix" ELSE IF b.stored THEN "copyDirect" ELSE "getCBlock"
      /\ b.size # 0 => target' = b.size
      /\ (Leave /\ dStage' = "getCBlock") \/ caller' = caller
  BY DEF NextBlock
<1>6. end' \in 0 .. Len(file') /\ src' \in 0 .. end'
  BY <1>1 DEF InCall
<1>7. PosInv(L)'
  BY <1>1, <1>4, <1>5, <1>6 DEF PosInv
<1>8. MidFrame \/ FALSE
  BY DEF MidFrame
<1>9. dStage' = "getSuffix" \/ (MidFrame' /\ dStage' # "flushOut" /\ dStage' # "storeFrameHeader")
  BY <1>5 DEF MidFrame
<1>10. CallInv' /\ Calling /\ Calling'
  <2>1. src' > before /\ before' = before
    BY <1>1 DEF InCall
  <2>2. Moved'
    BY <2>1 DEF Moved
  <2>3. \/ caller' = caller /\ dStage' \notin {"getFrameHeader", "storeFrameHeader"}
        \/ Leave /\ dStage' = "getCBlock"
    BY <1>5
  <2>4. MidFrame' \/ dStage' \in {"getFrameHeader", "storeFrameHeader", "init", "getSuffix"}
    BY <1>9
  <2>5. CallInv /\ caller.at = "call" /\ src \in Nat /\ end \in Nat
    BY DEF InCall
  <2>6. UNCHANGED <<end, srcEnd, before, stage>>
    BY <1>1
  <2> QED BY <2>2, <2>3, <2>4, <2>5, <2>6, StageCall
<1>11. MemInv'
  BY <1>1, <1>8, <1>9, <1>10, MemStays DEF InCall
<1> QED BY <1>7, <1>10, <1>11 DEF ReaderInv

(* GetBlockHeader: the header of a block, or what there is of it. *)
LEMMA GetBlockHeaderKnown ==
  ASSUME NEW L, Known(L), GetBlockHeader
  PROVE  ReaderInv(L)'
<1>1. /\ InCall /\ PosInv(L) /\ Layout(L, file) /\ dStage = "getBlockHeader" /\ caller.at = "call"
  <2>1. caller.at = "call" /\ dStage = "getBlockHeader"
    BY DEF GetBlockHeader, At
  <2> QED BY <2>1, InCallIs
<1>2. TheInput /\ TheTmpOut /\ TheOutput /\ info' = info
  BY DEF GetBlockHeader
<1>3. BlockAt(L, src, Len(out), info) /\ src \in Nat
  BY <1>1 DEF PosInv, InCall
<1>4. CASE /\ srcEnd - src >= BHSize
           /\ src' = src + BHSize /\ NextBlock(file[src + 1])
  <2>1. src' = src + 2 /\ src' \in src .. srcEnd /\ src' > src
    BY <1>1, <1>4 DEF BHSize, InCall
  <2> QED BY <2>1, <1>1, <1>2, <1>3, <1>4, NextBlockKnown
<1>5. CASE /\ srcEnd - src < BHSize
           /\ held' = <<>> /\ dStage' = "storeBlockHeader"
           /\ UNCHANGED <<caller, target, src>>
  <2>1. /\ UNCHANGED <<file, stage, end, srcEnd, before>> /\ UNCHANGED Memory
        /\ UNCHANGED <<out, tmpOutSize, tmpOutStart>>
    BY <1>2 DEF TheInput, TheTmpOut, TheOutput, writerVars, Memory
  <2>2. Gathers(<<>>, file, src, 2) /\ Len(<<>>) = 0 /\ src - 0 = src
    <3>1. src \in Nat /\ 2 \in Nat \ {0} /\ src - 0 = src
      BY <1>1 DEF InCall
    <3> QED BY <3>1, NothingGathered
  <2>3. end' \in 0 .. Len(file') /\ src' \in 0 .. end' /\ src' \in src .. srcEnd
    BY <1>1, <1>5, <2>1 DEF InCall
  <2>4. PosInv(L)'
    <3>1. Gathers(held', file', src', 2) /\ BlockAt(L, src' - Len(held'), Len(out'), info')
      BY <2>1, <2>2, <1>2, <1>3, <1>5
    <3> QED BY <3>1, <1>5, <2>3 DEF PosInv
  <2>5. MidFrame /\ MidFrame'
    BY <1>1, <1>5 DEF MidFrame
  <2>6. CallInv' /\ Calling /\ Calling'
    BY <1>1, <1>5, <2>1, <2>3, <2>5, StageCall DEF InCall
  <2>7. MemInv'
    BY <1>1, <1>2, <1>5, <2>1, <2>5, <2>6, MemStays DEF InCall
  <2> QED BY <2>4, <2>6, <2>7 DEF ReaderInv
<1> QED BY <1>4, <1>5 DEF GetBlockHeader

(* StoreBlockHeader: the rest of it, as it comes. *)
LEMMA StoreBlockHeaderKnown ==
  ASSUME NEW L, Known(L), StoreBlockHeader
  PROVE  ReaderInv(L)'
<1>1. /\ InCall /\ PosInv(L) /\ Layout(L, file) /\ dStage = "storeBlockHeader" /\ caller.at = "call"
  <2>1. caller.at = "call" /\ dStage = "storeBlockHeader"
    BY DEF StoreBlockHeader, At
  <2> QED BY <2>1, InCallIs
<1>2. TheInput /\ TheTmpOut /\ TheOutput /\ info' = info
  BY DEF StoreBlockHeader
<1>3. Gathers(held, file, src, 2) /\ BlockAt(L, src - Len(held), Len(out), info)
  BY <1>1 DEF PosInv
<1>4. PICK new : new = Taken(2)
  OBVIOUS
<1>5. /\ held' = held \o new /\ src' = src + Len(new)
      /\ \/ Len(held') < 2 /\ Leave /\ UNCHANGED <<dStage, target>>
         \/ Len(held') = 2 /\ NextBlock(held'[1])
  BY <1>4 DEF StoreBlockHeader, BHSize
<1>6. Gathered(held', held, file, src, src', srcEnd, 2)
  BY <1>1, <1>3, <1>4, <1>5, TakenIs
<1>7. end' \in 0 .. Len(file') /\ src' \in 0 .. end' /\ src' \in src .. srcEnd
      /\ UNCHANGED <<file, stage, end, srcEnd, before>> /\ UNCHANGED Memory
      /\ UNCHANGED <<out, tmpOutSize, tmpOutStart>>
  <2>1. UNCHANGED <<file, stage, end, srcEnd, before>> /\ UNCHANGED Memory
      /\ UNCHANGED <<out, tmpOutSize, tmpOutStart>>
    BY <1>2 DEF TheInput, TheTmpOut, TheOutput, writerVars, Memory
  <2> QED BY <2>1, <1>1, <1>6 DEF InCall, Gathered
<1>8. CASE Len(held') < 2 /\ Leave /\ UNCHANGED <<dStage, target>>
  <2>1. MidFrame /\ MidFrame' /\ dStage' = "storeBlockHeader"
    BY <1>1, <1>8 DEF MidFrame
  <2>2. Gathers(held', file, src', 2) /\ src' - Len(held') = src - Len(held) /\ src' = srcEnd
    BY <1>6, <1>8 DEF Gathered
  <2>3. PosInv(L)'
    <3>1. Gathers(held', file', src', 2) /\ BlockAt(L, src' - Len(held'), Len(out'), info')
      BY <2>2, <1>2, <1>3, <1>7
    <3> QED BY <3>1, <2>1, <1>7 DEF PosInv
  <2>4. caller.kind = "client" => Moved'
    BY <2>2, <1>1, <1>7 DEF Moved, InCall
  <2>5. CallInv' /\ Calling /\ Calling'
    BY <1>1, <1>7, <1>8, <2>1, <2>4, StageCall DEF InCall
  <2>6. MemInv'
    BY <1>1, <1>2, <1>7, <2>1, <2>5, MemStays DEF InCall
  <2> QED BY <2>3, <2>5, <2>6 DEF ReaderInv
<1>9. CASE Len(held') = 2 /\ NextBlock(held'[1])
  <2>p. PICK p : p = src - Len(held)
    OBVIOUS
  <2>1. src' - 2 = p /\ held'[1] = file[p + 1] /\ src' > src /\ p \in Nat
    <3>1. p \in Nat
      BY <2>p, <1>1, <1>3 DEF Gathers, InCall
    <3> QED BY <3>1, <2>p, <1>6, <1>9 DEF Gathered
  <2>2. src' = p + 2 /\ BlockAt(L, p, Len(out), info)
    BY <2>p, <2>1, <1>3, <1>7
  <2> QED BY <2>1, <2>2, <1>1, <1>2, <1>7, <1>9, NextBlockKnown
<1> QED BY <1>5, <1>8, <1>9

(* GetSuffix: the end of a frame is the place of the next one. *)
LEMMA GetSuffixKnown ==
  ASSUME NEW L, Known(L), GetSuffix
  PROVE  ReaderInv(L)'
<1>1. /\ InCall /\ PosInv(L) /\ dStage = "getSuffix" /\ caller.at = "call"
  <2>1. caller.at = "call" /\ dStage = "getSuffix"
    BY DEF GetSuffix, At
  <2> QED BY <2>1, InCallIs
<1>2. /\ UNCHANGED <<file, stage, end, srcEnd, before, info, target, held, tmpOutBuffer, src>>
      /\ UNCHANGED <<dst, dstAt, out, inside>>
      /\ dict' = NoDict /\ dStage' = "getFrameHeader" /\ Leave
  BY DEF GetSuffix, TheInput, TheOutput, writerVars, Reset
<1>3. CallInv' /\ Calling /\ Calling'
  <2>1. src' \in src .. srcEnd /\ FrameOver'
    BY <1>1, <1>2 DEF InCall, FrameOver
  <2> QED BY <2>1, <1>1, <1>2, StageCall DEF InCall
<1>4. OutKnown' /\ DstKnown' /\ inside' = TRUE /\ IsBuffer(tmpOutBuffer')
  BY <1>1, <1>2, <1>3 DEF InCall, MemInv, OutKnown, DstKnown
<1>5. InfoKnown' /\ FlushKnown' /\ DictKnown'
  BY <1>2 DEF InfoKnown, FlushKnown, DictKnown, MidFrame
<1>6. PosInv(L)'
  BY <1>1, <1>2 DEF PosInv
<1> QED BY <1>3, <1>4, <1>5, <1>6 DEF MemInv, ReaderInv

-----------------------------------------------------------------------------
(* Bytes of a block go straight to the caller. *)
LEMMA MemDelivered ==
  ASSUME MemInv, Calling, Calling', MidFrame, MidFrame', dStage # "flushOut", dStage' # "flushOut",
         NEW n \in Nat, n <= Size(dst) - dstAt,
         NEW cells, cells = [i \in 1 .. n |-> Len(out) + i],
         Delivered(tmpOutBuffer, cells, FALSE), info' = info, tmpOut' = tmpOut
  PROVE  MemInv' /\ Len(out') = Len(out) + n /\ dstAt' = dstAt + n /\ Size(dst') = Size(dst)
<1>1. /\ OutKnown /\ DstKnown /\ inside = TRUE /\ IsBuffer(tmpOutBuffer) /\ Len(out) \in Nat
      /\ DstEnd = dstAt
  BY DEF MemInv, OutKnown, DstEnd
<1>2. /\ dStage \notin {"getFrameHeader", "storeFrameHeader", "init"}
      /\ dStage' \notin {"getFrameHeader", "storeFrameHeader", "init"}
  BY DEF MidFrame
<1>3. info \in Infos /\ info.base <= Len(out) /\ info.base \in Nat
  BY <1>2 DEF MemInv, InfoKnown, Infos
<1>4. /\ Size(tmpOutBuffer) >= info.max + IF info.linked THEN 2 * Window ELSE 0
      /\ ~info.linked => dict = NoDict /\ tmpOut = 0
      /\ info.linked => Has(dict, tmpOutBuffer, Len(out), Lesser(Window, Len(out) - info.base), dstAt)
  BY <1>1 DEF MemInv, DictKnown
<1>5. /\ OutKnown' /\ Len(out') = Len(out) + n /\ dstAt' = dstAt + n
      /\ Size(dst') = Size(dst) /\ DstKnown'
  BY <1>1, OutDelivered
<1>6. /\ inside' = TRUE /\ IsBuffer(tmpOutBuffer') /\ Size(tmpOutBuffer') = Size(tmpOutBuffer)
      /\ ~info.linked => dict' = NoDict
      /\ info.linked =>
           Has(dict', tmpOutBuffer', Len(out'), Lesser(Window, Len(out') - info.base), dstAt')
  BY <1>1, <1>3, <1>4, DictDelivered
<1>7. DstEnd' = dstAt'
  BY DEF DstEnd
<1>8. InfoKnown'
  BY <1>1, <1>2, <1>3, <1>5 DEF InfoKnown
<1>9. DictKnown'
  BY <1>2, <1>4, <1>6, <1>7 DEF DictKnown
<1>10. FlushKnown'
  BY DEF FlushKnown
<1> QED BY <1>5, <1>6, <1>8, <1>9, <1>10 DEF MemInv

(* The place in the caller's buffer. *)
LEMMA SpaceIs ==
  ASSUME InCall
  PROVE  /\ Space = Size(dst) - dstAt /\ Space \in Nat /\ Size(dst) \in Nat /\ Size(dst) > 0
         /\ dstAt \in Nat
<1>1. IsBuffer(dst) /\ Size(dst) > 0 /\ dstAt \in Nat /\ dstAt \in 0 .. Size(dst)
  BY DEF InCall, MemInv, DstKnown, Recent
<1> QED BY <1>1 DEF Space, Size, IsBuffer

(* CopyDirect: stored content goes out as it comes, in order. *)
LEMMA CopyDirectKnown ==
  ASSUME NEW L, Known(L), CopyDirect
  PROVE  ReaderInv(L)' /\ Len(out) <= Len(out')
<1>1. /\ InCall /\ PosInv(L) /\ Layout(L, file) /\ dStage = "copyDirect" /\ caller.at = "call"
  <2>1. caller.at = "call" /\ dStage = "copyDirect"
    BY DEF CopyDirect, At
  <2> QED BY <2>1, InCallIs
<1>2. UNCHANGED <<file, stage, end, srcEnd, before>> /\ UNCHANGED <<info, tmpOut>>
  BY DEF CopyDirect, TheInput, writerVars
<1>3. StoredFrom(L, file, src, target, Len(out), info)
  BY <1>1 DEF PosInv
<1>4. /\ target \in Nat \ {0} /\ src + target \in DOMAIN L
      /\ L[src + target].at = "block" /\ L[src + target].info = info
      /\ L[src + target].pos = Len(out) + target
      /\ \A r \in src .. src + target - 1 : r \notin DOMAIN L
      /\ \A j \in 1 .. target : file[src + j].value = Len(out) + j
  BY <1>3 DEF StoredFrom, ContentFrom
<1>s. src \in Nat /\ srcEnd \in Nat /\ src <= srcEnd /\ Len(out) \in Nat
  BY <1>1 DEF InCall, MemInv, OutKnown
<1>n. PICK n \in Nat : n = Lesser(target, Lesser(srcEnd - src, Space))
  BY <1>1, <1>4, <1>s, SpaceIs DEF Lesser
<1>5. n <= target /\ n <= srcEnd - src /\ n <= Space
      /\ (n < target => n = srcEnd - src \/ n = Space)
  BY <1>1, <1>4, <1>n, <1>s, SpaceIs DEF Lesser
<1>c. PICK cells : cells = [i \in 1 .. n |-> Len(out) + i]
  OBVIOUS
<1>6. [i \in 1 .. n |-> file[src + i].value] = cells
  BY <1>c, <1>4, <1>5
<1>7. /\ Delivered(tmpOutBuffer, cells, FALSE) /\ src' = src + n
      /\ \/ n = target /\ dStage' = "getBlockHeader" /\ UNCHANGED <<caller, target>>
         \/ n < target /\ target' = target - n /\ Leave /\ UNCHANGED dStage
  BY <1>6, <1>n DEF CopyDirect
<1>8. MidFrame /\ MidFrame' /\ dStage # "flushOut" /\ dStage' \in {"getBlockHeader", "copyDirect"}
  BY <1>1, <1>7 DEF MidFrame
<1>9. Calling /\ Calling'
  BY <1>1, <1>7 DEF Calling, Leave, InCall, CallInv
<1>10. MemInv' /\ Len(out') = Len(out) + n /\ dstAt' = dstAt + n /\ Size(dst') = Size(dst)
  <2>1. n <= Size(dst) - dstAt /\ dStage' # "flushOut"
    BY <1>1, <1>5, <1>8, SpaceIs
  <2> QED BY <2>1, <1>1, <1>2, <1>7, <1>8, <1>9, <1>c, MemDelivered DEF InCall
<1>11. end' \in 0 .. Len(file') /\ src' \in 0 .. end' /\ src' \in src .. srcEnd
  BY <1>1, <1>2, <1>5, <1>7 DEF InCall
<1>12. PosInv(L)'
  <2>1. CASE n = target /\ dStage' = "getBlockHeader"
    <3>1. BlockAt(L, src', Len(out'), info')
      BY <2>1, <1>2, <1>4, <1>7, <1>10 DEF BlockAt, PlaceOf
    <3> QED BY <3>1, <2>1, <1>11 DEF PosInv
  <2>2. CASE n < target /\ target' = target - n /\ UNCHANGED dStage
    <3>1. target - n \in Nat \ {0} /\ (src + n) + (target - n) = src + target
          /\ (Len(out) + n) + (target - n) = Len(out) + target
      <4>1. Len(out) \in Nat /\ target \in Nat /\ src \in Nat /\ n \in Nat
        BY <1>4, <1>s
      <4>2. PICK o \in Nat : o = Len(out)
        BY <4>1
      <4> QED BY <2>2, <4>1, <4>2
    <3>2. \A r \in src + n .. (src + n) + (target - n) - 1 : r \notin DOMAIN L
      <4>1. \A r \in src + n .. (src + n) + (target - n) - 1 : r \in src .. src + target - 1
        BY <3>1, <1>4, <1>s
      <4> QED BY <4>1, <1>4
    <3>s. /\ (src + n) + (target - n) \in DOMAIN L
          /\ L[(src + n) + (target - n)].at = "block" /\ L[(src + n) + (target - n)].info = info
      BY <3>1, <1>4
    <3>3. ContentFrom(L, src + n, target - n, Len(out) + n, info)
      <4>1. target - n \in Nat \ {0}
        BY <3>1
      <4> QED BY <4>1, <3>2, <3>s DEF ContentFrom
    <3>4. \A j \in 1 .. target - n : file[(src + n) + j].value = (Len(out) + n) + j
      <4> SUFFICES ASSUME NEW j \in 1 .. target - n
                   PROVE  file[(src + n) + j].value = (Len(out) + n) + j
        OBVIOUS
      <4>k. PICK k : k = n + j
        OBVIOUS
      <4>1. k \in 1 .. target /\ (src + n) + j = src + k /\ (Len(out) + n) + j = Len(out) + k
        BY <4>k, <1>4, <1>s
      <4>2. file[src + k].value = Len(out) + k
        BY <4>1, <1>4
      <4>3. file[(src + n) + j].value = file[src + k].value
        BY <4>1
      <4> QED BY <4>1, <4>2, <4>3, Zenon
    <3>5. StoredFrom(L, file, src + n, target - n, Len(out) + n, info)
      <4>1. L[(src + n) + (target - n)].pos = (Len(out) + n) + (target - n)
        BY <3>1, <1>4
      <4> QED BY <4>1, <3>3, <3>4 DEF StoredFrom
    <3>6. StoredFrom(L, file', src', target', Len(out'), info')
      BY <3>5, <2>2, <1>2, <1>7, <1>10
    <3> QED BY <3>6, <2>2, <1>1, <1>11 DEF PosInv
  <2> QED BY <2>1, <2>2, <1>7
<1>13. CallInv'
  <2>1. ASSUME Leave PROVE caller.kind = "client" => Moved'
    <3>1. n < target
      BY <2>1, <1>1, <1>7 DEF Leave, InCall, CallInv
    <3>2. n = srcEnd - src \/ n = Space
      BY <3>1, <1>5
    <3>3. src' = srcEnd \/ dstAt' = Size(dst)
      BY <3>2, <1>1, <1>7, <1>10, <1>s, SpaceIs
    <3>4. src' > before' \/ dstAt' > 0 \/ caller.kind # "client"
      BY <3>3, <1>1, <1>2, SpaceIs DEF InCall
    <3> QED BY <3>4 DEF Moved
  <2>2. caller' = caller \/ Leave
    BY <1>7
  <2>3. /\ dStage' \notin {"getFrameHeader", "storeFrameHeader", "init", "getSuffix"}
        /\ CallInv /\ UNCHANGED <<end, srcEnd, before, stage>> /\ src \in Nat /\ end \in Nat
    BY <1>1, <1>2, <1>8 DEF InCall
  <2> QED BY <2>1, <2>2, <2>3, <1>1, <1>8, <1>11, StageCall
<1>14. Len(out) <= Len(out')
  BY <1>s, <1>10
<1> QED BY <1>10, <1>12, <1>13, <1>14 DEF ReaderInv

(* A compressed block, all of which there is. *)
LEMMA DecodeKnown ==
  ASSUME NEW L, InCall, Layout(L, file), dStage \in {"getCBlock", "storeCBlock"},
         TheInput, UNCHANGED <<info, caller>>,
         NEW p \in Nat, CodedFrom(L, file, p, target, Len(out), info), src' = p + target,
         src' \in src .. srcEnd, Decode(SubSeq(file, p + 1, p + target))
  PROVE  ReaderInv(L)' /\ Len(out) <= Len(out')
<1>1. /\ UNCHANGED <<file, stage, end, srcEnd, before>> /\ Calling /\ Calling'
      /\ caller' = caller /\ info' = info
  BY DEF TheInput, writerVars, Calling, InCall
<1>n. PICK n : n = L[p + target].pos - Len(out)
  OBVIOUS
<1>2. /\ target \in Nat \ {0} /\ p + target \in DOMAIN L
      /\ L[p + target].at = "block" /\ L[p + target].info = info
      /\ n \in 1 .. info.max
      /\ \A j \in 1 .. target : file[p + j] = CodeUnits(Len(out) + 1, n, target)[j]
  BY <1>n DEF CodedFrom, ContentFrom
<1>3. /\ MemInv /\ OutKnown /\ DstKnown /\ inside = TRUE /\ IsBuffer(tmpOutBuffer)
      /\ Len(out) \in Nat /\ DstEnd = dstAt /\ MidFrame
  BY <1>1 DEF InCall, MemInv, OutKnown, DstEnd, MidFrame
<1>4. info \in Infos /\ info.base <= Len(out) /\ info.base \in Nat /\ info.max \in Nat /\ info.linked \in BOOLEAN
  BY <1>3 DEF MemInv, InfoKnown, Infos
<1>5. /\ Size(tmpOutBuffer) >= info.max + IF info.linked THEN 2 * Window ELSE 0
      /\ ~info.linked => dict = NoDict /\ tmpOut = 0
      /\ info.linked => Has(dict, tmpOutBuffer, Len(out), Lesser(Window, Len(out) - info.base), dstAt)
  BY <1>3 DEF MemInv, DictKnown
<1>6. SubSeq(file, p + 1, p + target) = CodeUnits(Len(out) + 1, n, target)
  <2>w. PICK w : w = Len(out) + 1
    OBVIOUS
  <2>f. file \in Seq(Unit) /\ Len(file) \in Nat
    BY DEF InCall
  <2>t. target \in Nat
    BY <1>2
  <2>1. p + target <= Len(file)
    BY <1>2, <2>f DEF Layout
  <2>2. Codes(file, p, target, w, n)
    BY <1>2, <2>w DEF Codes
  <2>3. PieceAt(file, p, target) = CodeUnits(w, n, target)
    BY <2>f, <2>t, <2>1, <2>2, CodeRead
  <2> QED BY <2>3, <2>w DEF PieceAt
<1>u. PICK units : units = CodeUnits(Len(out) + 1, n, target)
  OBVIOUS
<1>7. Decode(units)
  BY <1>6, <1>u
<1>8. end' \in 0 .. Len(file') /\ src' \in 0 .. end'
  BY <1>1 DEF InCall
<1>p. L[p + target].pos = Len(out) + n
  <2>1. L[p + target].pos - Len(out) \in 1 .. info.max
    BY <1>n, <1>2
  <2>2. L[p + target].pos \in Nat
    BY <1>2 DEF Layout, Places
  <2> QED BY <2>1, <2>2, <1>n, <1>3
<1>9. CASE DecodeDirect(units)
  <2>c. PICK cells : cells = [i \in 1 .. n |-> Len(out) + i]
    OBVIOUS
  <2>1. Decoded(units, dict, tmpOutBuffer) = cells
    <3>1. IsBuffer(dst) /\ dstAt \in Nat /\ dstAt <= Size(dst) /\ Recent(dst, dstAt, Len(out), dstAt)
      BY <1>1, <1>3 DEF DstKnown, Recent
    <3>2. n \in Nat \ {0} /\ target \in Nat \ {0}
      BY <1>2, <1>4
    <3>3. Decoded(units, dict, tmpOutBuffer) = Bytes(Len(out), n)
      BY <3>1, <3>2, <1>u, <1>3, <1>4, <1>5, DecodedIs
    <3> QED BY <3>3, <2>c DEF Bytes
  <2>2. /\ Delivered(tmpOutBuffer, cells, FALSE) /\ dStage' = "getBlockHeader" /\ tmpOut' = tmpOut
        /\ Space >= info.max
    BY <2>1, <1>9 DEF DecodeDirect
  <2>3. n \in Nat /\ n <= Size(dst) - dstAt
    BY <2>2, <1>2, <1>4, SpaceIs
  <2>4. MidFrame' /\ dStage # "flushOut" /\ dStage' # "flushOut"
    BY <2>2 DEF MidFrame
  <2>5. MemInv' /\ Len(out') = Len(out) + n
    BY <2>c, <2>2, <2>3, <2>4, <1>1, <1>3, MemDelivered
  <2>6. BlockAt(L, src', Len(out'), info')
    BY <2>5, <1>1, <1>2, <1>p DEF BlockAt, PlaceOf
  <2>7. PosInv(L)'
    BY <2>2, <2>6, <1>8 DEF PosInv
  <2>8. CallInv'
    BY <2>2, <2>4, <1>1, StageCall DEF InCall
  <2>9. Len(out) <= Len(out')
    BY <2>3, <2>5, <1>3
  <2> QED BY <2>5, <2>7, <2>8, <2>9 DEF ReaderInv
<1>10. CASE DecodeToTmp(units)
  <2>h. PICK h : h = Len(out) - info.base
    OBVIOUS
  <2>1. /\ inside' = TRUE /\ IsBuffer(tmpOutBuffer') /\ Size(tmpOutBuffer') = Size(tmpOutBuffer)
        /\ tmpOutSize' = n /\ tmpOutStart' = 0
        /\ ToFlush(tmpOutBuffer', Len(out), h, tmpOut', n)
        /\ ~info.linked => dict' = NoDict /\ tmpOut' = 0
        /\ info.linked => HasFlushed(dict', tmpOutBuffer', Len(out), h, tmpOut', n, 0, dstAt)
    BY <1>u, <1>10, <2>h, <1>1, <1>2, <1>3, <1>4, <1>5, DecodedToTmp
  <2>2. dStage' = "flushOut" /\ UNCHANGED <<dst, dstAt, out>>
    BY <1>10 DEF DecodeToTmp
  <2>3. MidFrame'
    BY <2>2 DEF MidFrame
  <2>4. OutKnown' /\ DstKnown' /\ InfoKnown' /\ DstEnd' = dstAt
    BY <2>2, <1>1, <1>3, <1>4 DEF OutKnown, DstKnown, InfoKnown, DstEnd
  <2>5. DictKnown'
    BY <2>1, <2>2, <1>1, <1>5 DEF DictKnown
  <2>6. FlushKnown'
    <3>1. tmpOutStart' \in 0 .. tmpOutSize' - 1
      BY <2>1, <1>2, <1>4
    <3>2. Len(out') - tmpOutStart' = Len(out) /\ Len(out') - tmpOutStart' - info'.base = h
      BY <2>1, <2>2, <2>h, <1>1, <1>3, <1>4
    <3>3. info'.base <= Len(out') - tmpOutStart'
      BY <3>2, <1>1, <1>4
    <3>4. ToFlush(tmpOutBuffer, Len(out) - tmpOutStart, Len(out) - tmpOutStart - info.base,
                  tmpOut, tmpOutSize)'
      BY <3>2, <2>1, <1>1 DEF ToFlush
    <3>5. info'.linked =>
            HasFlushed(dict', tmpOutBuffer', Len(out') - tmpOutStart',
                       Len(out') - tmpOutStart' - info'.base, tmpOut', tmpOutSize', tmpOutStart', DstEnd')
      BY <3>2, <2>1, <2>4, <1>1
    <3> QED BY <3>1, <3>3, <3>4, <3>5 DEF FlushKnown
  <2>7. MemInv'
    BY <2>1, <2>4, <2>5, <2>6 DEF MemInv
  <2>8. BlockAt(L, src', Len(out') + tmpOutSize' - tmpOutStart', info')
    <3>1. Len(out') + tmpOutSize' - tmpOutStart' = Len(out) + n
      BY <2>1, <2>2, <1>2, <1>3, <1>4
    <3> QED BY <3>1, <1>1, <1>2, <1>p DEF BlockAt, PlaceOf
  <2>9. PosInv(L)'
    BY <2>2, <2>8, <1>8 DEF PosInv
  <2>10. CallInv'
    BY <2>2, <2>3, <1>1, StageCall DEF InCall
  <2>11. Len(out) <= Len(out')
    BY <2>2, <1>3
  <2> QED BY <2>7, <2>9, <2>10, <2>11 DEF ReaderInv
<1> QED BY <1>7, <1>9, <1>10 DEF Decode

-----------------------------------------------------------------------------
(* GetCBlock: a block that has come whole is decoded where it is. *)
LEMMA GetCBlockKnown ==
  ASSUME NEW L, Known(L), GetCBlock
  PROVE  ReaderInv(L)' /\ Len(out) <= Len(out')
<1>1. /\ InCall /\ PosInv(L) /\ Layout(L, file) /\ dStage = "getCBlock" /\ caller.at = "call"
  <2>1. caller.at = "call" /\ dStage = "getCBlock"
    BY DEF GetCBlock, At
  <2> QED BY <2>1, InCallIs
<1>2. TheInput /\ UNCHANGED <<caller, info, target>>
  BY DEF GetCBlock
<1>3. CodedFrom(L, file, src, target, Len(out), info) /\ target \in Nat \ {0} /\ src \in Nat
  BY <1>1 DEF PosInv, CodedFrom, ContentFrom, InCall
<1>4. CASE /\ srcEnd - src < target
           /\ held' = <<>> /\ dStage' = "storeCBlock"
           /\ UNCHANGED src
           /\ TheTmpOut /\ TheOutput
  <2>1. /\ UNCHANGED <<file, stage, end, srcEnd, before>> /\ UNCHANGED Memory
        /\ UNCHANGED <<out, tmpOutSize, tmpOutStart>>
    BY <1>2, <1>4 DEF TheInput, TheTmpOut, TheOutput, writerVars, Memory
  <2>2. Gathers(<<>>, file, src, target) /\ Len(<<>>) = 0 /\ src - 0 = src
    BY <1>3, NothingGathered
  <2>3. end' \in 0 .. Len(file') /\ src' \in 0 .. end' /\ src' \in src .. srcEnd
    BY <1>1, <1>4, <2>1 DEF InCall
  <2>4. PosInv(L)'
    <3>1. Gathers(held', file', src', target')
          /\ CodedFrom(L, file', src' - Len(held'), target', Len(out'), info')
      BY <2>1, <2>2, <1>2, <1>3, <1>4
    <3> QED BY <3>1, <1>4, <2>3 DEF PosInv
  <2>5. MidFrame /\ MidFrame'
    BY <1>1, <1>4 DEF MidFrame
  <2>6. CallInv' /\ Calling /\ Calling'
    BY <1>1, <1>2, <1>4, <2>1, <2>3, <2>5, StageCall DEF InCall
  <2>7. MemInv'
    BY <1>1, <1>2, <1>4, <2>1, <2>5, <2>6, MemStays DEF InCall
  <2> QED BY <2>1, <2>4, <2>6, <2>7, <1>1 DEF ReaderInv, InCall, MemInv, OutKnown
<1>5. CASE /\ srcEnd - src >= target
           /\ src' = src + target /\ Decode(SubSeq(file, src + 1, src + target))
  <2>1. src' \in src .. srcEnd
    BY <1>1, <1>3, <1>5 DEF InCall
  <2> QED BY <2>1, <1>1, <1>2, <1>3, <1>5, DecodeKnown
<1> QED BY <1>4, <1>5 DEF GetCBlock

(* StoreCBlock: the rest of a block, as it comes, then decoded. *)
LEMMA StoreCBlockKnown ==
  ASSUME NEW L, Known(L), StoreCBlock
  PROVE  ReaderInv(L)' /\ Len(out) <= Len(out')
<1>1. /\ InCall /\ PosInv(L) /\ Layout(L, file) /\ dStage = "storeCBlock" /\ caller.at = "call"
  <2>1. caller.at = "call" /\ dStage = "storeCBlock"
    BY DEF StoreCBlock, At
  <2> QED BY <2>1, InCallIs
<1>2. TheInput /\ UNCHANGED <<info, target>>
  BY DEF StoreCBlock
<1>3. /\ Gathers(held, file, src, target) /\ CodedFrom(L, file, src - Len(held), target, Len(out), info)
      /\ target \in Nat \ {0} /\ target \in Nat
  BY <1>1 DEF PosInv, CodedFrom, ContentFrom
<1>4. PICK new : new = Taken(target)
  OBVIOUS
<1>5. /\ held' = held \o new /\ src' = src + Len(new)
      /\ \/ /\ Len(held') < target /\ Leave /\ UNCHANGED dStage
            /\ TheTmpOut /\ TheOutput
         \/ Len(held') = target /\ Decode(held') /\ UNCHANGED caller
  BY <1>4 DEF StoreCBlock
<1>6. Gathered(held', held, file, src, src', srcEnd, target)
  BY <1>1, <1>3, <1>4, <1>5, TakenIs
<1>7. /\ end' \in 0 .. Len(file') /\ src' \in 0 .. end' /\ src' \in src .. srcEnd
      /\ UNCHANGED <<file, stage, end, srcEnd, before>>
  BY SMTT(20), <1>1, <1>2, <1>6 DEF InCall, Gathered, TheInput, writerVars
<1>8. CASE /\ Len(held') < target /\ Leave /\ UNCHANGED dStage
           /\ TheTmpOut /\ TheOutput
  <2>1. MidFrame /\ MidFrame' /\ dStage' = "storeCBlock"
    BY <1>1, <1>8 DEF MidFrame
  <2>2. UNCHANGED Memory /\ UNCHANGED <<out, tmpOutSize, tmpOutStart>>
    BY <1>8 DEF TheTmpOut, TheOutput, Memory
  <2>3. Gathers(held', file, src', target) /\ src' - Len(held') = src - Len(held) /\ src' = srcEnd
    BY <1>6, <1>8 DEF Gathered
  <2>4. PosInv(L)'
    <3>1. Gathers(held', file', src', target')
          /\ CodedFrom(L, file', src' - Len(held'), target', Len(out'), info')
      BY <2>2, <2>3, <1>2, <1>3, <1>7
    <3> QED BY <3>1, <2>1, <1>7 DEF PosInv
  <2>5. caller.kind = "client" => Moved'
    BY <2>3, <1>1, <1>7 DEF Moved, InCall
  <2>6. CallInv' /\ Calling /\ Calling'
    BY <1>1, <1>7, <1>8, <2>1, <2>5, StageCall DEF InCall
  <2>7. MemInv'
    BY <1>1, <1>2, <2>1, <2>2, <2>6, MemStays DEF InCall
  <2> QED BY <2>2, <2>4, <2>6, <2>7, <1>1 DEF ReaderInv, InCall, MemInv, OutKnown
<1>9. CASE Len(held') = target /\ Decode(held') /\ UNCHANGED caller
  <2>p. PICK p : p = src - Len(held)
    OBVIOUS
  <2>1. /\ src' - target = p /\ p \in Nat /\ held' = SubSeq(file, src' - target + 1, src')
    <3>1. p \in Nat
      BY <2>p, <1>1, <1>3 DEF Gathers, InCall
    <3> QED BY <3>1, <2>p, <1>6, <1>9 DEF Gathered
  <2>2. src' = p + target
    <3>1. src' \in Nat
      BY <1>1, <1>7 DEF InCall
    <3>2. src' - target = p
      BY <2>1
    <3> QED BY <3>1, <3>2, <1>3
  <2>3. held' = SubSeq(file, p + 1, p + target)
    BY <2>1, <2>2
  <2>4. Decode(SubSeq(file, p + 1, p + target)) /\ CodedFrom(L, file, p, target, Len(out), info)
    BY <2>3, <2>p, <1>3, <1>9
  <2> QED BY <2>1, <2>2, <2>4, <1>1, <1>2, <1>7, <1>9, DecodeKnown
<1> QED BY <1>5, <1>8, <1>9

(* FlushOut: what was decoded goes out in order, with no byte twice. *)
LEMMA FlushOutKnown ==
  ASSUME NEW L, Known(L), FlushOut
  PROVE  ReaderInv(L)' /\ Len(out) <= Len(out')
<1>1. /\ InCall /\ PosInv(L) /\ dStage = "flushOut" /\ caller.at = "call"
  <2>1. caller.at = "call" /\ dStage = "flushOut"
    BY DEF FlushOut, At
  <2> QED BY <2>1, InCallIs
<1>2. UNCHANGED <<file, stage, end, srcEnd, before>> /\ UNCHANGED <<info, tmpOut, tmpOutSize, src>>
  BY DEF FlushOut, TheInput, writerVars
<1>3. /\ MemInv /\ OutKnown /\ DstKnown /\ inside = TRUE /\ IsBuffer(tmpOutBuffer)
      /\ Len(out) \in Nat /\ DstEnd = dstAt /\ MidFrame /\ Calling
  BY <1>1 DEF InCall, MemInv, OutKnown, DstEnd, MidFrame
<1>4. info \in Infos /\ info.base <= Len(out) /\ info.base \in Nat /\ info.max \in Nat /\ info.linked \in BOOLEAN
  BY <1>1, <1>3 DEF MemInv, InfoKnown, Infos
<1>5. /\ Size(tmpOutBuffer) >= info.max + IF info.linked THEN 2 * Window ELSE 0
      /\ ~info.linked => dict = NoDict /\ tmpOut = 0
  BY <1>3 DEF MemInv, DictKnown
<1>6. /\ tmpOutStart \in 0 .. tmpOutSize - 1 /\ info.base <= Len(out) - tmpOutStart
      /\ ToFlush(tmpOutBuffer, Len(out) - tmpOutStart, Len(out) - tmpOutStart - info.base,
                 tmpOut, tmpOutSize)
      /\ info.linked =>
           HasFlushed(dict, tmpOutBuffer, Len(out) - tmpOutStart,
                      Len(out) - tmpOutStart - info.base, tmpOut, tmpOutSize, tmpOutStart, dstAt)
  BY <1>1, <1>3 DEF MemInv, FlushKnown
<1>7. tmpOut \in Nat /\ tmpOutSize \in 1 .. info.max /\ tmpOutStart \in Nat /\ tmpOutStart < tmpOutSize
      /\ tmpOutSize \in Nat
  BY <1>4, <1>6 DEF ToFlush
<1>m. info.base <= Len(out) - tmpOutStart /\ Len(out) \in Nat /\ tmpOutStart \in Nat
      /\ info.base \in Nat
  BY <1>3, <1>4, <1>6, <1>7
<1>k. Len(out) - tmpOutStart \in Nat /\ Len(out) - tmpOutStart - info.base \in Nat
  BY <1>m
<1>b. PICK b \in Nat : b = Len(out) - tmpOutStart
  BY <1>k
<1>h. PICK h \in Nat : h = Len(out) - tmpOutStart - info.base
  BY <1>k
<1>8. /\ ToFlush(tmpOutBuffer, b, h, tmpOut, tmpOutSize)
      /\ info.linked => HasFlushed(dict, tmpOutBuffer, b, h, tmpOut, tmpOutSize, tmpOutStart, dstAt)
      /\ Len(out) = b + tmpOutStart /\ b = h + info.base
  <2>1. Len(out) = b + tmpOutStart /\ b = h + info.base
    BY <1>b, <1>h, <1>m
  <2> QED BY <2>1, <1>b, <1>h, <1>6
<1>n. PICK n \in Nat : n = Lesser(tmpOutSize - tmpOutStart, Space)
  BY <1>1, <1>7, SpaceIs DEF Lesser
<1>9. n <= tmpOutSize - tmpOutStart /\ n <= Space /\ (n < tmpOutSize - tmpOutStart => n = Space)
  BY <1>1, <1>7, <1>n, SpaceIs DEF Lesser
<1>c. PICK cells : cells = [i \in 1 .. n |-> Len(out) + i]
  OBVIOUS
<1>10. Cells(tmpOutBuffer, tmpOut + tmpOutStart, n) = cells
  <2>1. Recent(tmpOutBuffer, tmpOut + tmpOutSize, b + tmpOutSize, tmpOutSize)
    BY <1>8 DEF ToFlush
  <2>2. tmpOut + tmpOutSize <= Size(tmpOutBuffer)
        /\ \A i \in 1 .. tmpOutSize : tmpOutBuffer[tmpOut + tmpOutSize - i] = b + tmpOutSize + 1 - i
    <3>e. PICK e : e = tmpOut + tmpOutSize
      OBVIOUS
    <3>v. PICK v : v = b + tmpOutSize
      OBVIOUS
    <3>1. Recent(tmpOutBuffer, e, v, tmpOutSize)
      BY <2>1, <3>e, <3>v
    <3>2. /\ e \in 0 .. Size(tmpOutBuffer)
          /\ \A i \in 1 .. tmpOutSize : tmpOutBuffer[e - i] = v + 1 - i
      BY <3>1 DEF Recent
    <3>3. e <= Size(tmpOutBuffer)
      BY <3>2, <1>3 DEF IsBuffer
    <3>4. ASSUME NEW i \in 1 .. tmpOutSize
          PROVE  tmpOutBuffer[tmpOut + tmpOutSize - i] = b + tmpOutSize + 1 - i
      <4>1. tmpOutBuffer[e - i] = v + 1 - i
        BY <3>2
      <4>2. e - i = tmpOut + tmpOutSize - i /\ v + 1 - i = b + tmpOutSize + 1 - i
        BY <3>e, <3>v, <1>7
      <4> QED BY <4>1, <4>2, Zenon
    <3>5. tmpOut + tmpOutSize <= Size(tmpOutBuffer)
      BY <3>3, <3>e
    <3> QED BY <3>4, <3>5
  <2>3. DOMAIN tmpOutBuffer = 0 .. Size(tmpOutBuffer) - 1 /\ Size(tmpOutBuffer) \in Nat
    BY <1>3 DEF IsBuffer
  <2>4. ASSUME NEW i \in 1 .. n
        PROVE  /\ tmpOut + tmpOutStart + i - 1 \in DOMAIN tmpOutBuffer
               /\ tmpOutBuffer[tmpOut + tmpOutStart + i - 1] = Len(out) + i
    <3>j. PICK j : j = tmpOutSize - tmpOutStart - i + 1
      OBVIOUS
    <3>1. /\ j \in 1 .. tmpOutSize
          /\ tmpOut + tmpOutSize - j = tmpOut + tmpOutStart + i - 1
          /\ b + tmpOutSize + 1 - j = Len(out) + i
      BY <3>j, <1>7, <1>8, <1>9
    <3>2. tmpOutBuffer[tmpOut + tmpOutSize - j] = b + tmpOutSize + 1 - j
      BY <3>1, <2>2
    <3>3. tmpOut + tmpOutStart + i - 1 \in DOMAIN tmpOutBuffer
      BY <2>2, <2>3, <1>7, <1>9
    <3>4. tmpOutBuffer[tmpOut + tmpOutStart + i - 1] = tmpOutBuffer[tmpOut + tmpOutSize - j]
      BY <3>1
    <3> QED BY <3>1, <3>2, <3>3, <3>4
  <2> QED BY <2>4, <1>c DEF Cells
<1>11. /\ Delivered(tmpOutBuffer, cells, TRUE) /\ tmpOutStart' = tmpOutStart + n
       /\ \/ tmpOutStart' = tmpOutSize /\ dStage' = "getBlockHeader" /\ UNCHANGED caller
          \/ tmpOutStart' < tmpOutSize /\ Leave /\ UNCHANGED dStage
  BY <1>2, <1>10, <1>n DEF FlushOut
<1>12. n <= Size(dst) - dstAt
  BY <1>1, <1>9, SpaceIs
<1>13. /\ OutKnown' /\ Len(out') = Len(out) + n /\ dstAt' = dstAt + n
       /\ Size(dst') = Size(dst) /\ DstKnown'
  BY <1>3, <1>11, <1>12, <1>c, OutDelivered
<1>14. /\ inside' = TRUE /\ tmpOutBuffer' = tmpOutBuffer
       /\ ~info.linked => dict' = NoDict
       /\ info.linked =>
            HasFlushed(dict', tmpOutBuffer, b, h, tmpOut, tmpOutSize, tmpOutStart + n, dstAt')
  <2>1. tmpOutStart + n <= tmpOutSize
    BY <1>7, <1>9
  <2> QED BY <2>1, <1>3, <1>4, <1>5, <1>7, <1>8, <1>11, <1>12, <1>c, FlushDelivered
<1>15. Calling' /\ MidFrame' /\ DstEnd' = dstAt' /\ dStage' \in {"getBlockHeader", "flushOut"}
  <2>1. Calling' /\ dStage' \in {"getBlockHeader", "flushOut"}
    BY <1>1, <1>11 DEF Calling, Leave, InCall, CallInv
  <2> QED BY <2>1 DEF DstEnd, MidFrame
<1>16. InfoKnown'
  BY <1>2, <1>3, <1>4, <1>13, <1>15 DEF InfoKnown
<1>17. Len(out') = b + tmpOutStart' /\ Len(out') - tmpOutStart' = b
       /\ Len(out') - tmpOutStart' - info'.base = h /\ Len(out') \in Nat
  <2>1. Len(out') = b + tmpOutStart' /\ tmpOutStart' \in Nat
    BY <1>7, <1>8, <1>11, <1>13
  <2>2. info' = info /\ b = h + info.base /\ info.base \in Nat
    BY <1>2, <1>m, <1>8
  <2> QED BY <2>1, <2>2
<1>18. DictKnown'
  <2>1. ASSUME info.linked, dStage' # "flushOut"
        PROVE  Has(dict', tmpOutBuffer', Len(out'), Lesser(Window, Len(out') - info'.base), DstEnd')
    <3>1. tmpOutStart + n = tmpOutSize /\ tmpOutStart' = tmpOutSize
      BY <2>1, <1>1, <1>11
    <3>2. HasFlushed(dict', tmpOutBuffer, b, h, tmpOut, tmpOutSize, tmpOutSize, dstAt')
      BY <3>1, <2>1, <1>14
    <3>3. Recent(tmpOutBuffer, tmpOut + tmpOutSize, b + tmpOutSize, tmpOutSize)
      BY <1>8 DEF ToFlush
    <3>4. tmpOutSize \in Nat \ {0}
      BY <1>7
    <3>5. Has(dict', tmpOutBuffer, b + tmpOutSize, Lesser(Window, h + tmpOutSize), dstAt')
      <4>d. PICK d : d = dict'
        OBVIOUS
      <4>e. PICK e : e = dstAt'
        OBVIOUS
      <4>1. HasFlushed(d, tmpOutBuffer, b, h, tmpOut, tmpOutSize, tmpOutSize, e)
        BY <4>d, <4>e, <3>2
      <4>2. Has(d, tmpOutBuffer, b + tmpOutSize, Lesser(Window, h + tmpOutSize), e)
        BY <4>1, <3>3, <3>4, <1>3, <1>7, FlushedHas
      <4> QED BY <4>2, <4>d, <4>e
    <3>6. Len(out') = b + tmpOutSize /\ Len(out') - info'.base = h + tmpOutSize
      <4>1. Len(out') = b + tmpOutSize
        BY <3>1, <1>17
      <4>2. info'.base = info.base /\ b = h + info.base /\ info.base \in Nat /\ tmpOutSize \in Nat
        BY <1>2, <1>m, <1>7, <1>8
      <4> QED BY <4>1, <4>2
    <3> QED BY <3>5, <3>6, <1>14, <1>15
  <2> QED BY <2>1, <1>2, <1>5, <1>14, <1>15 DEF DictKnown
<1>19. FlushKnown'
  <2> SUFFICES ASSUME dStage' = "flushOut" PROVE FlushKnown'
    BY DEF FlushKnown
  <2>1. tmpOutStart' \in 0 .. tmpOutSize' - 1 /\ info'.base <= Len(out') - tmpOutStart'
    BY SMTT(20), <1>2, <1>4, <1>7, <1>8, <1>11, <1>17
  <2>2. ToFlush(tmpOutBuffer, Len(out) - tmpOutStart, Len(out) - tmpOutStart - info.base,
                tmpOut, tmpOutSize)'
    BY <1>2, <1>8, <1>14, <1>17 DEF ToFlush
  <2>3. info'.linked =>
          HasFlushed(dict', tmpOutBuffer', Len(out') - tmpOutStart',
                     Len(out') - tmpOutStart' - info'.base, tmpOut', tmpOutSize', tmpOutStart', DstEnd')
    BY <1>2, <1>11, <1>14, <1>15, <1>17
  <2> QED BY <2>1, <2>2, <2>3 DEF FlushKnown
<1>20. MemInv'
  BY <1>3, <1>13, <1>14, <1>16, <1>18, <1>19 DEF MemInv
<1>21. end' \in 0 .. Len(file') /\ src' \in 0 .. end' /\ src' \in src .. srcEnd
  BY <1>1, <1>2 DEF InCall
<1>22. PosInv(L)'
  <2>1. BlockAt(L, src, Len(out) + tmpOutSize - tmpOutStart, info)
    BY <1>1 DEF PosInv
  <2>2. Len(out) + tmpOutSize - tmpOutStart = Len(out') + tmpOutSize' - tmpOutStart'
    BY <1>2, <1>3, <1>7, <1>11, <1>13
  <2>3. BlockAt(L, src', Len(out') + tmpOutSize' - tmpOutStart', info')
    BY <2>1, <2>2, <1>2
  <2>4. dStage' = "getBlockHeader" => Len(out') + tmpOutSize' - tmpOutStart' = Len(out')
    BY <1>1, <1>2, <1>7, <1>11, <1>17
  <2> QED BY <2>3, <2>4, <1>15, <1>21 DEF PosInv
<1>23. CallInv'
  <2>1. ASSUME Leave PROVE caller.kind = "client" => Moved'
    <3>1. tmpOutStart' < tmpOutSize
      BY <2>1, <1>1, <1>11 DEF Leave, InCall, CallInv
    <3>2. n = Space
      BY <3>1, <1>7, <1>9, <1>11
    <3>3. dstAt' > 0
      BY <3>2, <1>1, <1>13, SpaceIs
    <3> QED BY <3>3 DEF Moved
  <2>2. caller' = caller \/ Leave
    BY <1>11
  <2>3. /\ dStage' \notin {"getFrameHeader", "storeFrameHeader", "init", "getSuffix"}
        /\ CallInv /\ UNCHANGED <<end, srcEnd, before, stage>> /\ src \in Nat /\ end \in Nat
    BY <1>1, <1>2, <1>15 DEF InCall
  <2> QED BY <2>1, <2>2, <2>3, <1>1, <1>15, <1>21, StageCall
<1>24. Len(out) <= Len(out')
  BY <1>3, <1>13
<1> QED BY <1>20, <1>22, <1>23, <1>24 DEF ReaderInv

-----------------------------------------------------------------------------
(* Nobody reads yet. *)
LEMMA ReaderBegins ==
  ASSUME NEW L, ReaderInit, Layout(L, file), Len(file) \in Nat
  PROVE  ReaderInv(L)
<1>1. caller.kind = "none" /\ caller.at = "away" /\ dStage = "getFrameHeader" /\ ~Calling /\ ~MidFrame
  BY DEF ReaderInit, Calling, MidFrame
<1>2. Len(out) = 0 /\ OutKnown
  <2>1. out = <<>> /\ Len(<<>>) = 0 /\ <<>> = [i \in 1 .. 0 |-> i]
    BY DEF ReaderInit
  <2> QED BY <2>1 DEF OutKnown
<1>3. IsBuffer(tmpOutBuffer)
  <2>1. tmpOutBuffer = <<>>
    BY DEF ReaderInit
  <2>2. DOMAIN tmpOutBuffer = 0 .. 0 - 1
    BY <2>1
  <2> QED BY <2>2, SizeOf
<1>4. MemInv
  BY <1>1, <1>2, <1>3 DEF MemInv, DstKnown, InfoKnown, DictKnown, FlushKnown, ReaderInit
<1>5. PosInv(L)
  <2>1. FrameAt(L, 0, 0)
    BY DEF Layout, FrameAt, PlaceOf
  <2> QED BY <2>1, <1>1, <1>2 DEF PosInv, ReaderInit
<1>6. CallInv
  <2>1. caller \in [kind : {"none", "client", "any"},
                    at : {"away", "frame", "loop", "call", "leave", "done", "failed"}]
    BY DEF ReaderInit
  <2> QED BY <2>1, <1>1 DEF CallInv
<1> QED BY <1>4, <1>5, <1>6 DEF ReaderInv

(* A step of the writer, while nobody reads. *)
LEMMA WriteKnown ==
  ASSUME NEW L, Known(L), Write
  PROVE  \E M : Known(M)'
<1>1. WriterNext /\ UNCHANGED readerVars /\ ReaderInit
  BY DEF Write, Known, ReaderInv, CallInv
<1>2. RoomInv'
  BY <1>1, RoomKept DEF Known
<1>3. PICK M : Written(M)'
  BY <1>1, WrittenKept DEF Known
<1>4. ReaderInit'
  BY <1>1 DEF ReaderInit, readerVars, dctx, call
<1>5. MemInv'
  <2>1. ~Calling /\ ~Calling' /\ UNCHANGED <<Memory, info, dStage>>
    BY <1>1, <1>4 DEF Calling, ReaderInit, readerVars, dctx, call, Memory
  <2> QED BY <2>1, MemUntouched DEF Known, ReaderInv
<1>6. PosInv(M)'
  <2>1. Layout(M, file') /\ Len(file') \in Nat
    BY <1>2, <1>3 DEF Written, RoomInv
  <2>2. FrameAt(M, 0, 0)
    BY <2>1 DEF Layout, FrameAt, PlaceOf
  <2>3. Len(out') = 0 /\ dStage' = "getFrameHeader" /\ end' = 0 /\ src' = 0
    BY <1>4 DEF ReaderInit
  <2> QED BY <2>1, <2>2, <2>3 DEF PosInv
<1>7. CallInv'
  <2>1. caller' = [kind |-> "none", at |-> "away"] /\ dStage' = "getFrameHeader" /\ ~Calling'
    BY <1>4 DEF ReaderInit, Calling
  <2>2. caller' \in [kind : {"none", "client", "any"},
                     at : {"away", "frame", "loop", "call", "leave", "done", "failed"}]
        /\ caller'.kind = "none" /\ caller'.at = "away"
    BY <2>1
  <2> QED BY <2>1, <2>2, <1>4 DEF CallInv
<1> QED BY <1>2, <1>3, <1>5, <1>6, <1>7 DEF Known, ReaderInv

(* A step of the caller or the decoder; what is out stays out. *)
LEMMA ReaderKnown ==
  ASSUME NEW L, Known(L), BeginReading \/ Caller \/ Stages
  PROVE  Known(L)' /\ Len(out) <= Len(out')
<1>1. UNCHANGED writerVars
  BY DEF BeginReading, Caller, Stages, GetFrameInfo, Truncated, Decompress, Return,
         GetFrameHeader, StoreFrameHeader, InitFrame, GetBlockHeader, StoreBlockHeader,
         CopyDirect, GetCBlock, StoreCBlock, FlushOut, GetSuffix, TheInput
<1>2. RoomInv' /\ Written(L)'
  BY <1>1 DEF Known, RoomInv, Written, writerVars, BlockSize
<1>3. CASE BeginReading \/ Caller
  <2>1. ReaderInv(L)'
    BY <1>3, BeginReadingKnown, GetFrameInfoKnown, TruncatedKnown, DecompressKnown, ReturnKnown
       DEF Caller
  <2>2. out' = out
    BY <1>3 DEF BeginReading, Caller, GetFrameInfo, Truncated, Decompress, Return
  <2> QED BY <2>1, <2>2, <1>2, WhereReading DEF Known
<1>4. CASE GetFrameHeader \/ StoreFrameHeader \/ InitFrame \/ GetBlockHeader \/ StoreBlockHeader
           \/ GetSuffix
  <2>1. ReaderInv(L)'
    BY <1>4, GetFrameHeaderKnown, StoreFrameHeaderKnown, InitFrameKnown, GetBlockHeaderKnown,
       StoreBlockHeaderKnown, GetSuffixKnown
  <2>2. out' = out
    BY <1>4 DEF GetFrameHeader, StoreFrameHeader, InitFrame, GetBlockHeader, StoreBlockHeader,
                GetSuffix, TheOutput
  <2> QED BY <2>1, <2>2, <1>2, WhereReading DEF Known
<1>5. CASE CopyDirect \/ GetCBlock \/ StoreCBlock \/ FlushOut
  <2>1. ReaderInv(L)' /\ Len(out) <= Len(out')
    BY <1>5, CopyDirectKnown, GetCBlockKnown, StoreCBlockKnown, FlushOutKnown
  <2> QED BY <2>1, <1>2 DEF Known
<1> QED BY <1>3, <1>4, <1>5 DEF Stages

(* Without a step all of it stays known. *)
LEMMA KnownStays ==
  ASSUME NEW L, Known(L), UNCHANGED vars
  PROVE  Known(L)'
<1>1. UNCHANGED <<writerVars, readerVars, dctx, call>>
  BY DEF vars, readerVars
<1>2. /\ UNCHANGED <<file, ends, written, size, left, room, stage>>
      /\ UNCHANGED <<caller, end, dStage, info, target, held, tmpOutBuffer, tmpOut, tmpOutSize,
                     tmpOutStart, dict>>
      /\ UNCHANGED <<src, srcEnd, dst, dstAt, before, out, inside>>
  BY <1>1 DEF writerVars, readerVars, dctx, call
<1>3. RoomInv' /\ Written(L)'
  BY <1>2 DEF Known, RoomInv, Written, BlockSize
<1>4. PosInv(L)'
  BY <1>2, PosUntouched DEF Known, ReaderInv
<1>5. CallInv'
  BY <1>2 DEF Known, ReaderInv, CallInv, ReaderInit, MidFrame, Calling, FrameOver, Moved
<1>6. DstEnd' = DstEnd /\ (MidFrame' <=> MidFrame) /\ (Calling' <=> Calling)
  BY <1>2 DEF DstEnd, Calling, MidFrame
<1>7. MemInv
  BY DEF Known, ReaderInv
<1>8. OutKnown' /\ DstKnown' /\ InfoKnown'
  BY <1>2, <1>6, <1>7 DEF MemInv, OutKnown, DstKnown, InfoKnown
<1>9. DictKnown'
  BY <1>2, <1>6, <1>7 DEF MemInv, DictKnown
<1>10. FlushKnown'
  BY <1>2, <1>6, <1>7 DEF MemInv, FlushKnown, ToFlush
<1>11. MemInv'
  BY <1>2, <1>7, <1>8, <1>9, <1>10 DEF MemInv
<1> QED BY <1>3, <1>4, <1>5, <1>11 DEF Known, ReaderInv

(* The decoder always knows where it is in the file, what it has given the *)
(* caller, and where the history is that the next block may need.          *)
Inv == \E L : Known(L)

(* Whatever is written, wherever the file is torn and however the caller   *)
(* reads, the decoder (LZ4F_decompress) is at a place of the file and its  *)
(* dictionary ends with the bytes the next block refers to.                *)
THEOREM AlwaysKnown == Spec => []Inv
<1>1. Init => Inv
  <2> SUFFICES ASSUME Init PROVE Inv
    OBVIOUS
  <2>1. RoomInv /\ ReaderInit
    BY RoomBegins DEF Init
  <2>2. PICK L : Written(L)
    BY WrittenBegins DEF Init
  <2>3. ReaderInv(L)
    BY <2>1, <2>2, ReaderBegins DEF Written, RoomInv
  <2> QED BY <2>1, <2>2, <2>3 DEF Inv, Known
<1>2. Inv /\ [Next]_vars => Inv'
  <2> SUFFICES ASSUME Inv, [Next]_vars PROVE Inv'
    OBVIOUS
  <2>1. PICK L : Known(L)
    BY DEF Inv
  <2>2. CASE Write
    <3>1. \E M : Known(M)'
      BY <2>1, <2>2, WriteKnown
    <3> QED BY <3>1 DEF Inv
  <2>3. CASE BeginReading \/ Caller \/ Stages
    <3>1. Known(L)'
      BY <2>1, <2>3, ReaderKnown
    <3> QED BY <3>1 DEF Inv
  <2>4. CASE UNCHANGED vars
    <3>1. Known(L)'
      BY <2>1, <2>4, KnownStays
    <3> QED BY <3>1 DEF Inv
  <2> QED BY <2>2, <2>3, <2>4 DEF Next
<1> QED BY <1>1, <1>2, PTL DEF Spec

(* What LZ4F_compressFrameBound gives enigmatic_log_crush for the events   *)
(* of a poll is enough for the header, every block and the end mark of     *)
(* their frame, for every size of content and of blocks.                   *)
THEOREM RoomEnough == Spec => []RoomIsEnough
<1>1. Inv => RoomIsEnough
  BY DEF Inv, Known, RoomInv, RoomIsEnough
<1> QED BY <1>1, AlwaysKnown, PTL

(* No copy of LZ4F_decompress, into the buffer of the caller, into         *)
(* tmpOutBuffer or of the dictionary, begins or ends outside its buffer.   *)
THEOREM AlwaysInside == Spec => []CopiesInside
<1>1. Inv => CopiesInside
  BY DEF Inv, Known, ReaderInv, MemInv, CopiesInside
<1> QED BY <1>1, AlwaysKnown, PTL

-----------------------------------------------------------------------------
(* No more is out than stands in front of any place that the reader has    *)
(* not passed.                                                             *)
LEMMA OutBefore ==
  ASSUME NEW L, Known(L), NEW x \in DOMAIN L, src <= x
  PROVE  Len(out) <= L[x].pos
<1>1. /\ Layout(L, file) /\ PosInv(L) /\ MemInv /\ CallInv /\ Len(out) \in Nat /\ src \in Nat
      /\ L \in [DOMAIN L -> Places] /\ DOMAIN L \subseteq 0 .. Len(file) /\ Len(file) \in Nat
  BY WhereReading, FileKnown DEF Known, ReaderInv
<1>x. x \in Nat /\ L[x].pos \in Nat
  BY <1>1 DEF Places
<1>2. ASSUME NEW q \in DOMAIN L, q <= x, Len(out) <= L[q].pos PROVE Len(out) <= L[x].pos
  <2>1. L[q].pos <= L[x].pos
    BY <1>1, <1>2 DEF Layout
  <2>2. L[q].pos \in Nat
    BY <1>1 DEF Places
  <2> QED BY <2>1, <2>2, <1>1, <1>x, <1>2
<1>3. ASSUME NEW p \in Nat, NEW s, NEW i, ContentFrom(L, p, s, Len(out), i), src \in p .. p + s - 1,
             Len(out) <= L[p + s].pos
      PROVE  Len(out) <= L[x].pos
  <2>1. /\ s \in Nat \ {0} /\ p + s \in DOMAIN L
        /\ \A r \in p .. p + s - 1 : r \notin DOMAIN L
    BY <1>3 DEF ContentFrom
  <2>2. p + s <= x
    <3>1. x \notin p .. p + s - 1 /\ src >= p
      BY <2>1, <1>3
    <3> QED BY <3>1, <2>1, <1>x, <1>1
  <2> QED BY <2>1, <2>2, <1>2, <1>3
<1>4. CASE dStage \in {"getFrameHeader", "getSuffix"}
  <2>1. src \in DOMAIN L /\ L[src].pos = Len(out)
    BY <1>1, <1>4 DEF PosInv, FrameAt, PlaceOf
  <2> QED BY <2>1, <1>1, <1>2
<1>5. CASE dStage \in {"init", "getBlockHeader"}
  <2>1. src \in DOMAIN L /\ L[src].pos = Len(out)
    BY <1>1, <1>5 DEF PosInv, BlockAt, PlaceOf
  <2> QED BY <2>1, <1>1, <1>2
<1>6. CASE dStage \in {"storeFrameHeader", "storeBlockHeader"}
  <2>q. PICK q : q = src - Len(held)
    OBVIOUS
  <2>1. Gathers(held, file, src, 2) /\ q \in DOMAIN L /\ L[q].pos = Len(out)
    BY <1>1, <1>6, <2>q DEF PosInv, FrameAt, BlockAt, PlaceOf
  <2>2. q <= x
    <3>1. Len(held) \in 0 .. 2 - 1
      BY <2>1 DEF Gathers
    <3> QED BY <3>1, <2>q, <1>1, <1>x
  <2> QED BY <2>1, <2>2, <1>1, <1>2
<1>7. CASE dStage = "copyDirect"
  <2>1. StoredFrom(L, file, src, target, Len(out), info)
    BY <1>1, <1>7 DEF PosInv
  <2>2. ContentFrom(L, src, target, Len(out), info) /\ L[src + target].pos = Len(out) + target
        /\ target \in Nat \ {0}
    BY <2>1 DEF StoredFrom, ContentFrom
  <2>3. src \in src .. src + target - 1 /\ Len(out) <= L[src + target].pos
    BY <2>2, <1>1
  <2> QED BY <2>2, <2>3, <1>1, <1>3
<1>8. CASE dStage \in {"getCBlock", "storeCBlock"}
  <2>p. PICK p : p = IF dStage = "getCBlock" THEN src ELSE src - Len(held)
    OBVIOUS
  <2>1. CodedFrom(L, file, p, target, Len(out), info)
    BY <1>1, <1>8, <2>p DEF PosInv
  <2>2. /\ ContentFrom(L, p, target, Len(out), info) /\ target \in Nat \ {0}
        /\ p + target \in DOMAIN L /\ L[p + target].pos - Len(out) \in 1 .. info.max
    BY <2>1 DEF CodedFrom, ContentFrom
  <2>3. p \in Nat /\ src \in p .. p + target - 1
    <3>1. CASE dStage = "getCBlock"
      BY <3>1, <2>p, <2>2, <1>1
    <3>2. CASE dStage = "storeCBlock"
      <4>1. Len(held) \in 0 .. target - 1 /\ Len(held) <= src
        BY <3>2, <1>1 DEF PosInv, Gathers
      <4>2. p = src - Len(held)
        BY <3>2, <2>p
      <4> QED BY <4>1, <4>2, <2>2, <1>1
    <3> QED BY <3>1, <3>2, <1>8
  <2>4. Len(out) <= L[p + target].pos
    <3>1. L[p + target].pos \in Nat
      BY <2>2, <1>1 DEF Places
    <3> QED BY <3>1, <2>2, <1>1
  <2> QED BY <2>2, <2>3, <2>4, <1>3
<1>9. CASE dStage = "flushOut"
  <2>1. src \in DOMAIN L /\ L[src].pos = Len(out) + tmpOutSize - tmpOutStart
    BY <1>1, <1>9 DEF PosInv, BlockAt, PlaceOf
  <2>2. tmpOutStart \in 0 .. tmpOutSize - 1 /\ tmpOutSize \in 1 .. info.max
    BY <1>1, <1>9 DEF MemInv, FlushKnown, ToFlush
  <2>3. Len(out) <= L[src].pos
    BY <2>1, <2>2, <1>1
  <2> QED BY <2>1, <2>3, <1>1, <1>2
<1> QED BY <1>1, <1>4, <1>5, <1>6, <1>7, <1>8, <1>9 DEF CallInv, MidFrame

(* Whole files are those that end where a frame does. *)
LEMMA WholeIs ==
  ASSUME NEW L, Known(L)
  PROVE  /\ Whole <=> (end \in DOMAIN L /\ L[end].at = "frame")
         /\ sent = IF Whole THEN L[end].pos ELSE written
         /\ sent \in 0 .. written /\ written \in Nat
<1>1. /\ Written(L) /\ Layout(L, file) /\ Len(file) \in Nat /\ end \in 0 .. Len(file)
      /\ L \in [DOMAIN L -> Places] /\ written \in Nat
  BY WhereReading, FileKnown DEF Known, RoomInv
<1>2. Whole => end \in DOMAIN L /\ L[end].at = "frame"
  BY <1>1 DEF Whole, Written
<1>3. end \in DOMAIN L /\ L[end].at = "frame" => Whole
  BY <1>1 DEF Whole, Written
<1>4. ASSUME Whole PROVE sent = L[end].pos
  <2> DEFINE e == CHOOSE e \in ends : e.units = end
  <2>1. e \in ends /\ e.units = end
    BY <1>4 DEF Whole
  <2>2. e.bytes = L[end].pos
    BY <2>1, <1>1 DEF Written
  <2> QED BY <2>2, <1>4 DEF sent
<1>5. ~Whole => sent = written
  BY DEF sent
<1>6. sent \in 0 .. written
  <2>1. CASE Whole
    <3>1. end \in DOMAIN L /\ Len(file) \in DOMAIN L /\ L[end].pos \in Nat /\ L[Len(file)].pos = written
      BY <2>1, <1>1, <1>2 DEF Written, Layout, Places
    <3>2. L[end].pos <= L[Len(file)].pos
      BY <3>1, <1>1 DEF Layout
    <3> QED BY <3>1, <3>2, <2>1, <1>1, <1>4
  <2>2. CASE ~Whole
    BY <2>2, <1>1, <1>5
  <2> QED BY <2>1, <2>2
<1> QED BY <1>1, <1>2, <1>3, <1>4, <1>5, <1>6

(* What is out was written. *)
LEMMA OutWithin ==
  ASSUME NEW L, Known(L)
  PROVE  Len(out) <= sent
<1>1. /\ Written(L) /\ Layout(L, file) /\ Len(file) \in Nat /\ end \in 0 .. Len(file)
      /\ src \in 0 .. end /\ src <= end /\ src <= Len(file)
  BY WhereReading DEF Known
<1>2. CASE Whole
  <2>1. end \in DOMAIN L /\ sent = L[end].pos
    BY <1>2, WholeIs
  <2> QED BY <2>1, <1>1, OutBefore
<1>3. CASE ~Whole
  <2>1. Len(file) \in DOMAIN L /\ sent = L[Len(file)].pos
    BY <1>1, <1>3, WholeIs DEF Written, Layout
  <2> QED BY <2>1, <1>1, OutBefore
<1> QED BY <1>2, <1>3

(* In the middle of a frame the reader is not where one ends.              *)
LEMMA TornWithin ==
  ASSUME NEW L, Known(L), src = end,
         dStage \notin {"getFrameHeader", "storeFrameHeader", "getSuffix"}
  PROVE  ~Whole
<1>1. /\ Layout(L, file) /\ PosInv(L) /\ CallInv /\ src \in Nat
      /\ DOMAIN L \subseteq 0 .. Len(file) /\ Len(file) \in Nat /\ src <= Len(file)
  BY WhereReading, FileKnown DEF Known, ReaderInv
<1>s. SUFFICES ~(src \in DOMAIN L /\ L[src].at = "frame")
  BY WholeIs
<1>2. CASE dStage \in {"init", "getBlockHeader", "flushOut"}
  <2>1. L[src].at = "block"
    BY <1>1, <1>2 DEF PosInv, BlockAt, PlaceOf
  <2> QED BY <2>1
<1>3. CASE dStage = "storeBlockHeader"
  <2>p. PICK p : p = src - Len(held)
    OBVIOUS
  <2>1. Len(held) \in 0 .. 2 - 1 /\ BlockAt(L, p, Len(out), info)
    BY <1>1, <1>3, <2>p DEF PosInv, Gathers
  <2>2. CASE Len(held) = 0
    <3>1. p = src
      BY <2>p, <2>2, <1>1
    <3> QED BY <3>1, <2>1 DEF BlockAt, PlaceOf
  <2>3. CASE Len(held) = 1
    <3>1. p + 1 = src /\ p < Len(file)
      BY <2>p, <2>3, <1>1
    <3>2. BlockLeads(L, file, p, Len(out), info)
      BY <3>1, <2>1, <1>1, BlockRead
    <3> QED BY <3>1, <3>2 DEF BlockLeads
  <2> QED BY <2>1, <2>2, <2>3
<1>4. CASE dStage = "copyDirect"
  <2>1. ContentFrom(L, src, target, Len(out), info) /\ target \in Nat \ {0}
    BY <1>1, <1>4 DEF PosInv, StoredFrom, ContentFrom
  <2>2. src \in src .. src + target - 1
    BY <2>1, <1>1
  <2> QED BY <2>1, <2>2 DEF ContentFrom
<1>5. CASE dStage = "getCBlock"
  <2>1. ContentFrom(L, src, target, Len(out), info) /\ target \in Nat \ {0}
    BY <1>1, <1>5 DEF PosInv, CodedFrom, ContentFrom
  <2>2. src \in src .. src + target - 1
    BY <2>1, <1>1
  <2> QED BY <2>1, <2>2 DEF ContentFrom
<1>6. CASE dStage = "storeCBlock"
  <2>p. PICK p : p = src - Len(held)
    OBVIOUS
  <2>1. /\ ContentFrom(L, p, target, Len(out), info) /\ target \in Nat \ {0}
        /\ Len(held) \in 0 .. target - 1 /\ Len(held) <= src
    BY <1>1, <1>6, <2>p DEF PosInv, CodedFrom, ContentFrom, Gathers
  <2>2. src \in p .. p + target - 1
    BY <2>p, <2>1, <1>1
  <2> QED BY <2>1, <2>2 DEF ContentFrom
<1> QED BY <1>1, <1>2, <1>3, <1>4, <1>5, <1>6 DEF CallInv, MidFrame

-----------------------------------------------------------------------------
(* The writer never takes back. *)
LEMMA WrittenMore ==
  ASSUME RoomInv, WriterNext
  PROVE  written' \in Nat /\ written <= written'
<1>1. written \in Nat /\ left \in Nat /\ written' \in Nat
  BY RoomKept DEF RoomInv
<1>2. CASE MakeBlock
  <2>1. OptimalBlockSize(size) \in Nat
    BY <1>2, OptimalIs DEF MakeBlock, RoomInv
  <2>k. PICK k : k = Lesser(left, OptimalBlockSize(size))
    OBVIOUS
  <2>2. written' = written + k
    BY <2>k, <1>2 DEF MakeBlock
  <2>3. k \in Nat
    BY <2>k, <2>1, <1>1 DEF Lesser
  <2> QED BY <2>2, <2>3, <1>1
<1>3. CASE ~MakeBlock
  <2>1. written' = written
    BY <1>3 DEF WriterNext, Crush, CompressBegin, CompressUpdate, CompressEnd
  <2> QED BY <2>1, <1>1
<1> QED BY <1>1, <1>2, <1>3

(* Writing and looking at the file. *)
LEMMA WritePipes ==
  ASSUME NEW L, Known(L), Write
  PROVE  [Pipe!Next]_(Pipe!vars)
<1>1. phase = "writing" /\ phase' = "writing" /\ out' = out
  BY DEF Write, readerVars, phase
<1>2. written' \in Nat /\ written <= written' /\ written \in Nat
  BY WrittenMore DEF Write, Known, RoomInv
<1>3. CASE written' = written
  BY <1>1, <1>3 DEF Pipe!vars
<1>4. CASE written' # written
  <2>1. written' > written
    BY <1>2, <1>4
  <2> QED BY <2>1, <1>1 DEF Pipe!Next, Pipe!Write
<1> QED BY <1>3, <1>4

(* BeginReading looks at the file as a reader of the pipe does. *)
LEMMA LookPipes ==
  ASSUME NEW L, Known(L), Known(L)', BeginReading
  PROVE  Pipe!Look
<1>1. caller.kind = "none" /\ caller'.kind # "none" /\ caller'.at \notin {"done", "failed"}
      /\ out' = out /\ written' = written
  BY DEF BeginReading, writerVars
<1>2. phase = "writing" /\ phase' \in {"whole", "torn"} /\ phase' # "writing"
  BY <1>1 DEF phase
<1>3. sent' \in 0 .. written
  <2>1. Written(L)' /\ Layout(L, file)' /\ Len(file') \in Nat /\ end' \in 0 .. Len(file')
        /\ L \in [DOMAIN L -> Places] /\ written' \in Nat
    BY SMTT(20) DEF Known, ReaderInv, PosInv, RoomInv, Written, Layout
  <2>2. CASE Whole'
    <3> DEFINE e == CHOOSE e \in ends' : e.units = end'
    <3>1. e \in ends' /\ e.units = end'
      BY <2>2 DEF Whole
    <3>2. e.bytes = L[end'].pos /\ end' \in DOMAIN L /\ Len(file') \in DOMAIN L
      BY <2>1, <3>1 DEF Written, Layout
    <3>3. sent' = L[end'].pos
      BY <3>2, <2>2 DEF sent
    <3>4. L[end'].pos \in Nat /\ L[Len(file')].pos = written' /\ L[end'].pos <= L[Len(file')].pos
      BY <2>1, <3>2 DEF Written, Layout, Places
    <3> QED BY <3>3, <3>4, <1>1
  <2>3. CASE ~Whole'
    <3>1. sent' = written'
      BY <2>3 DEF sent
    <3> QED BY <3>1, <2>1, <1>1
  <2> QED BY <2>2, <2>3
<1> QED BY <1>1, <1>2, <1>3 DEF Pipe!Look

(* Reading. *)
LEMMA ReadPipes ==
  ASSUME NEW L, Known(L), Known(L)', Len(out) <= Len(out'), Caller \/ Stages,
         Len(out') <= sent'
  PROVE  Pipe!Next
<1>1. /\ caller.kind # "none" /\ caller'.kind = caller.kind
      /\ caller.at \in {"frame", "loop", "call", "leave"}
      /\ caller \in [kind : {"none", "client", "any"},
                     at : {"away", "frame", "loop", "call", "leave", "done", "failed"}]
  <2>1. /\ caller.kind # "none" /\ caller.at \in {"frame", "loop", "call", "leave"}
        /\ caller \in [kind : {"none", "client", "any"},
                       at : {"away", "frame", "loop", "call", "leave", "done", "failed"}]
    <3>1. caller.at \in {"frame", "loop", "call", "leave"}
      <4>1. CASE Caller
        BY <4>1 DEF Caller, GetFrameInfo, Truncated, Decompress, Return
      <4>2. CASE Stages
        BY <4>2 DEF Stages, GetFrameHeader, StoreFrameHeader, InitFrame, GetBlockHeader,
                    StoreBlockHeader, CopyDirect, GetCBlock, StoreCBlock, FlushOut, GetSuffix, At
      <4> QED BY <4>1, <4>2
    <3>2. caller.kind = "none" => caller.at = "away"
      BY DEF Known, ReaderInv, CallInv, ReaderInit
    <3>3. caller \in [kind : {"none", "client", "any"},
                      at : {"away", "frame", "loop", "call", "leave", "done", "failed"}]
      BY DEF Known, ReaderInv, CallInv
    <3> QED BY <3>1, <3>2, <3>3
  <2>2. caller'.kind = caller.kind
    BY <2>1 DEF Caller, Stages, GetFrameInfo, Truncated, Decompress,
           Return, GetFrameHeader, StoreFrameHeader, InitFrame, GetBlockHeader, StoreBlockHeader,
           NextBlock, CopyDirect, GetCBlock, StoreCBlock, FlushOut, GetSuffix, Leave
  <2> QED BY <2>1, <2>2
<1>2. UNCHANGED <<file, ends, written, end>>
  BY DEF Caller, Stages, GetFrameInfo, Truncated, Decompress, Return,
         GetFrameHeader, StoreFrameHeader, InitFrame, GetBlockHeader, StoreBlockHeader,
         CopyDirect, GetCBlock, StoreCBlock, FlushOut, GetSuffix, TheInput, writerVars
<1>3. (Whole' <=> Whole) /\ sent' = sent
  BY <1>2 DEF Whole, sent
<1>4. phase = (IF Whole THEN "whole" ELSE "torn") /\ phase # "writing"
  BY <1>1 DEF phase
<1>5. CASE caller'.at \notin {"done", "failed"}
  <2>1. phase' = phase
    BY <1>1, <1>3, <1>4, <1>5 DEF phase
  <2>2. out' = [i \in 1 .. Len(out') |-> i] /\ Len(out') \in Len(out) .. sent
    <3>1. out' = [i \in 1 .. Len(out') |-> i] /\ Len(out') \in Nat /\ Len(out) \in Nat
      BY DEF Known, ReaderInv, MemInv, OutKnown
    <3>2. sent \in Nat
      BY WholeIs
    <3> QED BY <3>1, <3>2, <1>3
  <2>3. Pipe!Deliver
    BY <2>1, <2>2, <1>3, <1>4 DEF Pipe!Deliver
  <2> QED BY <2>3 DEF Pipe!Next
<1>6. CASE caller'.at = "done"
  <2>1. Return /\ FrameOver /\ src >= end
    BY <1>1, <1>6 DEF Caller, Stages, GetFrameInfo, Truncated, Decompress, Return,
         GetFrameHeader, StoreFrameHeader, InitFrame, GetBlockHeader, StoreBlockHeader,
         NextBlock, CopyDirect, GetCBlock, StoreCBlock, FlushOut, GetSuffix, Leave
  <2>2. src = end /\ FrameAt(L, src, Len(out))
    BY <2>1, WhereReading DEF FrameOver, Known, ReaderInv, PosInv
  <2>3. Whole /\ sent = Len(out)
    BY <2>2, WholeIs DEF FrameAt, PlaceOf
  <2>4. phase' = "done" /\ out' = out
    BY <2>1, <1>1, <1>6 DEF phase, Return
  <2>5. Pipe!Finish
    BY <2>3, <2>4, <1>3, <1>4 DEF Pipe!Finish
  <2> QED BY <2>5 DEF Pipe!Next
<1>7. CASE caller'.at = "failed"
  <2>1. \/ GetFrameInfo /\ end - src < minFHSize
        \/ Truncated
        \/ Return /\ caller.kind = "client" /\ ~Moved /\ ~FrameOver
    BY ZenonT(40), <1>1, <1>7 DEF Caller, Stages, GetFrameInfo, Truncated, Decompress, Return,
         GetFrameHeader, StoreFrameHeader, InitFrame, GetBlockHeader, StoreBlockHeader,
         NextBlock, CopyDirect, GetCBlock, StoreCBlock, FlushOut, GetSuffix, Leave
  <2>2. phase' = "failed" /\ out' = out
    BY <2>1, <1>1, <1>7 DEF phase, Return, GetFrameInfo, Truncated
  <2>3. ~Whole
    <3>1. CASE GetFrameInfo /\ end - src < minFHSize
      <4>1. caller.at = "frame" /\ src < end /\ end - src < 2
        BY <3>1 DEF GetFrameInfo, minFHSize
      <4>2. FrameAt(L, src, Len(out)) /\ src + 1 = end /\ src < Len(file)
            /\ Layout(L, file) /\ Len(file) \in Nat
        BY <4>1, WhereReading DEF Known, ReaderInv, CallInv, PosInv
      <4>3. src + 1 \notin DOMAIN L
        BY <4>2, HeaderRead
      <4> QED BY <4>2, <4>3, WholeIs
    <3>2. CASE Truncated
      <4>1. caller.kind = "client" /\ caller.at = "loop" /\ src >= end
        BY <3>2 DEF Truncated
      <4>2. src = end /\ dStage \notin {"getFrameHeader", "storeFrameHeader", "getSuffix"}
        BY <4>1, WhereReading DEF Known, ReaderInv, CallInv
      <4> QED BY <4>2, TornWithin
    <3>3. CASE Return /\ caller.kind = "client" /\ ~Moved /\ ~FrameOver
      BY <3>3 DEF Return, Known, ReaderInv, CallInv
    <3> QED BY <2>1, <3>1, <3>2, <3>3
  <2>4. Pipe!Fail
    BY <2>2, <2>3, <1>3, <1>4 DEF Pipe!Fail
  <2> QED BY <2>4 DEF Pipe!Next
<1> QED BY <1>5, <1>6, <1>7

(* No more is out than was sent, whatever has been read. *)
OutIn == Len(out) <= sent

(* It is said by the invariant. *)
LEMMA AlwaysOutIn == Inv => OutIn
BY OutWithin DEF Inv, OutIn

(* Frames, blocks, dictionaries and buffers are a pipe to whoever writes   *)
(* and reads: bytes come out in order, none missing, none twice, and an    *)
(* end that is reported is the end of a whole file.                        *)
THEOREM FramesPipe == Spec => ImplementsPipe
<1>1. Init => Pipe!Init
  <2> SUFFICES ASSUME Init PROVE Pipe!Init
    OBVIOUS
  <2>1. written = 0 /\ out = <<>> /\ phase = "writing"
    BY DEF Init, WriterInit, ReaderInit, phase
  <2> QED BY <2>1 DEF Pipe!Init
<1>2. Inv /\ OutIn' /\ [Next]_vars => [Pipe!Next]_(Pipe!vars)
  <2> SUFFICES ASSUME Inv, OutIn', [Next]_vars PROVE [Pipe!Next]_(Pipe!vars)
    OBVIOUS
  <2>1. PICK L : Known(L)
    BY DEF Inv
  <2>2. CASE Write
    BY <2>1, <2>2, WritePipes
  <2>3. CASE BeginReading
    <3>1. Known(L)'
      BY <2>1, <2>3, ReaderKnown
    <3>2. Pipe!Look
      BY <2>1, <2>3, <3>1, LookPipes
    <3> QED BY <3>2 DEF Pipe!Next
  <2>4. CASE Caller \/ Stages
    <3>1. Known(L)' /\ Len(out) <= Len(out')
      BY <2>1, <2>4, ReaderKnown
    <3>2. Pipe!Next
      BY <2>1, <2>4, <3>1, ReadPipes DEF OutIn
    <3> QED BY <3>2
  <2>5. CASE UNCHANGED vars
    <3>1. /\ UNCHANGED <<ends, written, caller, end, out>>
      BY <2>5 DEF vars, writerVars, readerVars
    <3>2. (Whole' <=> Whole) /\ sent' = sent
      BY <3>1 DEF Whole, sent
    <3>3. phase' = phase
      BY <3>1, <3>2 DEF phase
    <3> QED BY <3>1, <3>2, <3>3 DEF Pipe!vars
  <2> QED BY <2>2, <2>3, <2>4, <2>5 DEF Next
<1> QED BY <1>1, <1>2, AlwaysKnown, AlwaysOutIn, PTL DEF Spec, ImplementsPipe, Pipe!Spec
=============================================================================
