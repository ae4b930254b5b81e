--------------------------- MODULE LogFollow_proofs ---------------------------
(***************************************************************************)
(* A client that sees whole frames, and looks at a new file before it is   *)
(* as long as the old one, only ever decodes whole frames, of one file, in *)
(* their order: for frames of any lengths, any number of them, and any     *)
(* number of times the file is emptied.                                    *)
(*                                                                         *)
(* The argument: while the file is the one the client measured, what it    *)
(* reads is the file from the end of one frame to the end of another.      *)
(* When the file is another one it is shorter than what was measured, so   *)
(* the client cannot read to the length it asked for, drops what it read,  *)
(* and starts again when it next looks.                                    *)
(***************************************************************************)
EXTENDS LogFollow, SequenceTheorems, WellFoundedInduction, TLAPS

LEMMA LeastIn ==
  ASSUME NEW S \in SUBSET Nat, S # {}
  PROVE  \E m \in S : \A j \in S : m <= j
<1>1. PICK x \in S : \A y \in S : ~ (<<y, x>> \in OpToRel(<, Nat))
  BY WFMin, NatLessThanWellFounded, Zenon
<1>2. \A y \in S : ~ (y < x)
  <2>1. SUFFICES ASSUME NEW y \in S, y < x PROVE <<y, x>> \in OpToRel(<, Nat)
    BY <1>1, Zenon
  <2>2. <<y, x>> \in Nat \X Nat /\ <<y, x>>[1] = y /\ <<y, x>>[2] = x
    OBVIOUS
  <2>3. <<y, x>>[1] < <<y, x>>[2]
    BY <2>1, <2>2
  <2> QED BY <2>2, <2>3, Zenon DEF OpToRel
<1> QED BY <1>2

-----------------------------------------------------------------------------
(* Unit v comes after unit u in a file. *)
Follows(u, v) ==
  IF u.unit = u.of
  THEN v.epoch = u.epoch /\ v.frame = u.frame + 1 /\ v.unit = 1
  ELSE v = [u EXCEPT !.unit = @ + 1]

FrameAt(s, i) == IF i = 0 THEN 0 ELSE s[i].frame

EndsAt(s, i) == i # 0 => s[i].unit = s[i].of

Whole(s) == EndsAt(s, Len(s))

LastFrame(s) == FrameAt(s, Len(s))

NextIs(s, n) == LastFrame(s) + 1 = n

LastIs(s, n) == LastFrame(s) = n

(* The units s are those of file e that come after its first n frames. *)
Chain(s, e, n) ==
  /\ s \in Seq(Unit)
  /\ \A i \in 1 .. Len(s) : s[i].epoch = e /\ s[i].unit # 0
  /\ s # <<>> => s[1].frame = n + 1 /\ s[1].unit = 1
  /\ \A i \in 1 .. Len(s) - 1 : Follows(s[i], s[i + 1])

LEMMA ChainGrows ==
  ASSUME NEW e, NEW n \in Nat, NEW s, Chain(s, e, n),
         NEW u \in Unit, u.epoch = e, u.unit # 0,
         s = <<>> => u.frame = n + 1 /\ u.unit = 1,
         s # <<>> => Follows(s[Len(s)], u)
  PROVE  Chain(Append(s, u), e, n)
<1> DEFINE t == Append(s, u)
<1>0. s \in Seq(Unit) /\ Len(s) \in Nat
  BY DEF Chain
<1>1. /\ t \in Seq(Unit) /\ Len(t) = Len(s) + 1 /\ t # <<>>
      /\ \A i \in 1 .. Len(s) : t[i] = s[i]
      /\ t[Len(s) + 1] = u
  BY <1>0, AppendProperties
<1> HIDE DEF t
<1>2. \A i \in 1 .. Len(t) : t[i].epoch = e /\ t[i].unit # 0
  BY <1>0, <1>1 DEF Chain
<1>3. t[1].frame = n + 1 /\ t[1].unit = 1
  <2>1. CASE s = <<>>
    BY <2>1, <1>1
  <2>2. CASE s # <<>>
    <3>1. 1 \in 1 .. Len(s)
      BY <2>2, <1>0, EmptySeq
    <3> QED BY <3>1, <2>2, <1>1 DEF Chain
  <2> QED BY <2>1, <2>2
<1>4. ASSUME NEW i \in 1 .. Len(t) - 1
      PROVE  Follows(t[i], t[i + 1])
  <2>1. CASE i = Len(s)
    <3>1. s # <<>> /\ i \in 1 .. Len(s)
      BY <2>1, <1>0
    <3> QED BY <3>1, <2>1, <1>1
  <2>2. CASE i # Len(s)
    <3>1. i \in 1 .. Len(s) - 1 /\ i \in 1 .. Len(s) /\ i + 1 \in 1 .. Len(s)
      BY <2>2, <1>0, <1>1
    <3> QED BY <3>1, <1>1 DEF Chain
  <2> QED BY <2>1, <2>2
<1> QED BY <1>1, <1>2, <1>3, <1>4 DEF Chain, t

LEMMA NextUnit ==
  ASSUME NEW e, NEW f, NEW i \in Nat, NEW size, i # size,
         NEW u, u = [epoch |-> e, frame |-> f, unit |-> i, of |-> size],
         NEW v, v = [epoch |-> e, frame |-> f, unit |-> i + 1, of |-> size]
  PROVE  Follows(u, v)
<1>1. u.unit = i /\ u.of = size
  OBVIOUS
<1>2. v = [u EXCEPT !.unit = i + 1]
  OBVIOUS
<1> QED BY <1>1, <1>2 DEF Follows

(* A whole frame is put behind whole frames. *)
LEMMA FrameAdded ==
  ASSUME NEW e \in Nat, NEW s, Chain(s, e, 0), Whole(s),
         NEW f, NextIs(s, f),
         NEW size \in FrameSizes, NEW w, w = Frame(e, f, size),
         NEW t, t = s \o w
  PROVE  /\ Chain(t, e, 0) /\ Whole(t) /\ Len(t) = Len(s) + Len(w)
         /\ LastIs(t, f)
         /\ \A i \in 1 .. Len(s) : t[i] = s[i]
<1>0. s \in Seq(Unit) /\ Len(s) \in Nat /\ size \in Nat \ {0}
  BY SizesAssumption DEF Chain
<1>1. f \in Nat
  <2>1. CASE s = <<>>
    BY <2>1 DEF FrameAt, LastFrame, NextIs
  <2>2. CASE s # <<>>
    <3>1. s[Len(s)] \in Unit
      BY <2>2, <1>0
    <3> QED BY <3>1, <1>0, <2>2 DEF FrameAt, LastFrame, NextIs, Unit
  <2> QED BY <2>1, <2>2
<1>2. /\ w \in Seq(Unit) /\ Len(w) = size
      /\ \A i \in 1 .. size :
           w[i] = [epoch |-> e, frame |-> f, unit |-> i, of |-> size]
  <2>1. w = [i \in 1 .. size |-> [epoch |-> e, frame |-> f, unit |-> i, of |-> size]]
    BY DEF Frame
  <2>2. \A i \in 1 .. size :
          [epoch |-> e, frame |-> f, unit |-> i, of |-> size] \in Unit
    BY <1>0, <1>1 DEF Unit
  <2> QED BY <2>1, <2>2, <1>0
<1>w. \A i \in 1 .. size :
        w[i].epoch = e /\ w[i].frame = f /\ w[i].unit = i /\ w[i].of = size
  <2> TAKE i \in 1 .. size
  <2>1. w[i] = [epoch |-> e, frame |-> f, unit |-> i, of |-> size]
    BY <1>2
  <2> QED BY <2>1
<1>3. /\ t \in Seq(Unit) /\ Len(t) = Len(s) + size
      /\ \A i \in 1 .. Len(s) : t[i] = s[i]
      /\ \A i \in 1 .. size : t[Len(s) + i] = w[i]
  <2>1. /\ s \o w \in Seq(Unit) /\ Len(s \o w) = Len(s) + Len(w)
        /\ \A i \in 1 .. Len(s) + Len(w) :
             (s \o w)[i] = IF i <= Len(s) THEN s[i] ELSE w[i - Len(s)]
    BY <1>0, <1>2, ConcatProperties
  <2>2. Len(w) = size
    BY <1>2
  <2>3. t \in Seq(Unit) /\ Len(t) = Len(s) + size
    BY <2>1, <2>2
  <2>4. \A i \in 1 .. Len(s) : t[i] = s[i]
    BY <2>1, <2>2, <1>0
  <2>5. ASSUME NEW i \in 1 .. size PROVE t[Len(s) + i] = w[i]
    <3>1. /\ Len(s) + i \in 1 .. Len(s) + size /\ ~ (Len(s) + i <= Len(s))
          /\ (Len(s) + i) - Len(s) = i
      BY <1>0
    <3> QED BY <2>1, <2>2, <3>1
  <2> QED BY <2>3, <2>4, <2>5
<1>4. \A i \in 1 .. Len(t) : t[i].epoch = e /\ t[i].unit # 0
  <2> SUFFICES ASSUME NEW i \in 1 .. Len(t)
               PROVE  t[i].epoch = e /\ t[i].unit # 0
    OBVIOUS
  <2>1. CASE i <= Len(s)
    BY <2>1, <1>0, <1>3 DEF Chain
  <2>2. CASE i > Len(s)
    <3>1. PICK j \in 1 .. size : i = Len(s) + j
      <4>1. i - Len(s) \in 1 .. size /\ i = Len(s) + (i - Len(s))
        BY <2>2, <1>0, <1>3
      <4> QED BY <4>1
    <3>2. t[i] = w[j]
      BY <3>1, <1>3
    <3>3. w[j].epoch = e /\ w[j].unit = j /\ j # 0
      BY <1>w, <1>0
    <3> QED BY <3>2, <3>3
  <2> QED BY <2>1, <2>2, <1>0
<1>5. t[1].frame = 1 /\ t[1].unit = 1
  <2>1. CASE s = <<>>
    <3>1. 1 \in 1 .. size /\ Len(s) + 1 = 1 /\ f = 1
      BY <2>1, <1>0 DEF FrameAt, LastFrame, NextIs
    <3>2. t[1] = w[1]
      BY <3>1, <1>3
    <3> QED BY <3>1, <3>2, <1>w
  <2>2. CASE s # <<>>
    <3>1. 1 \in 1 .. Len(s)
      BY <2>2, <1>0, EmptySeq
    <3> QED BY <3>1, <2>2, <1>3 DEF Chain
  <2> QED BY <2>1, <2>2
<1>6. ASSUME NEW i \in 1 .. Len(t) - 1
      PROVE  Follows(t[i], t[i + 1])
  <2>1. CASE i < Len(s)
    BY <2>1, <1>0, <1>3 DEF Chain
  <2>2. CASE i = Len(s)
    <3>1. i \in 1 .. Len(s) /\ 1 \in 1 .. size /\ i # 0
      BY <2>2, <1>0
    <3>2. t[i] = s[i] /\ t[i + 1] = w[1]
      BY <3>1, <2>2, <1>3
    <3>3. s[i].epoch = e /\ s[i].unit = s[i].of /\ f = s[i].frame + 1
      BY <3>1, <2>2 DEF Chain, EndsAt, Whole, FrameAt, LastFrame, NextIs
    <3>4. w[1].epoch = e /\ w[1].frame = f /\ w[1].unit = 1
      BY <3>1, <1>w
    <3> QED BY <3>2, <3>3, <3>4 DEF Follows
  <2>3. CASE i > Len(s)
    <3> DEFINE j == i - Len(s)
    <3>1. j \in 1 .. size /\ j + 1 \in 1 .. size /\ j # size
      BY <2>3, <1>0, <1>3
    <3>2. i = Len(s) + j /\ i + 1 = Len(s) + (j + 1)
      BY <1>0
    <3> HIDE DEF j
    <3>3. t[i] = w[j] /\ t[i + 1] = w[j + 1]
      BY <3>1, <3>2, <1>3
    <3>4. w[j] = [epoch |-> e, frame |-> f, unit |-> j, of |-> size]
      BY <3>1, <1>2
    <3>5. w[j + 1] = [epoch |-> e, frame |-> f, unit |-> j + 1, of |-> size]
      BY <3>1, <1>2
    <3>6. Follows(w[j], w[j + 1])
      <4>1. j \in Nat /\ j # size
        BY <3>1, <1>0
      <4>2. PICK u, v : u = w[j] /\ v = w[j + 1]
        OBVIOUS
      <4>3. /\ u = [epoch |-> e, frame |-> f, unit |-> j, of |-> size]
            /\ v = [epoch |-> e, frame |-> f, unit |-> j + 1, of |-> size]
        BY <3>4, <3>5, <4>2
      <4>4. Follows(u, v)
        BY <4>1, <4>3, NextUnit
      <4> QED BY <4>2, <4>4
    <3> QED BY <3>3, <3>6
  <2> QED BY <2>1, <2>2, <2>3, <1>0
<1>7. size \in 1 .. size /\ t[Len(t)] = w[size] /\ Len(t) # 0
  BY <1>0, <1>3
<1>8. Whole(t) /\ LastFrame(t) = f
  BY <1>w, <1>7 DEF EndsAt, Whole, FrameAt, LastFrame, NextIs
<1>9. Chain(t, e, 0)
  <2>1. 0 + 1 = 1
    OBVIOUS
  <2>2. t[1].frame = 0 + 1
    BY <1>5, <2>1
  <2> QED BY <2>2, <1>3, <1>4, <1>5, <1>6 DEF Chain
<1> QED BY <1>2, <1>3, <1>8, <1>9 DEF LastIs

(* Whole frames one after the other are what the client can decode. *)
LEMMA WholeDecodes ==
  ASSUME NEW e, NEW n, NEW s, Chain(s, e, n), Whole(s)
  PROVE  Decodes(s)
<1>0. s \in Seq(Unit) /\ Len(s) \in Nat
  BY DEF Chain
<1>1. ASSUME s # <<>>
      PROVE  IsFirst(s[1]) /\ s[Len(s)].unit = s[Len(s)].of
  <2>1. Len(s) # 0
    BY <1>0, <1>1, EmptySeq
  <2> QED BY <2>1, <1>1 DEF Chain, EndsAt, Whole, IsFirst
<1>2. ASSUME NEW i \in 1 .. Len(s) - 1
      PROVE  IF s[i].unit = s[i].of THEN IsFirst(s[i + 1])
             ELSE s[i + 1] = [s[i] EXCEPT !.unit = @ + 1]
  BY DEF Chain, Follows, IsFirst
<1> QED BY <1>1, <1>2 DEF Decodes

-----------------------------------------------------------------------------
(* The first units among the first n units of s. *)
FirstsUpTo(s, n, F) ==
  F = [i \in 0 .. n |->
         IF i = 0 THEN <<>>
         ELSE IF IsFirst(s[i]) THEN Append(F[i - 1], s[i])
         ELSE F[i - 1]]

LEMMA FirstsExist ==
  ASSUME NEW s, NEW n \in Nat
  PROVE  \E F : FirstsUpTo(s, n, F)
<1> DEFINE Bad == {m \in Nat : ~ \E F : FirstsUpTo(s, m, F)}
<1> SUFFICES ASSUME Bad # {} PROVE FALSE
  OBVIOUS
<1>1. PICK m \in Bad : \A j \in Bad : m <= j
  <2>1. Bad \in SUBSET Nat
    OBVIOUS
  <2> HIDE DEF Bad
  <2> QED BY <2>1, LeastIn
<1>2. CASE m = 0
  <2> DEFINE F == [i \in 0 .. 0 |-> <<>>]
  <2>1. FirstsUpTo(s, 0, F)
    BY DEF FirstsUpTo
  <2> QED BY <2>1, <1>2
<1>3. CASE m # 0
  <2>1. m - 1 \in Nat /\ m - 1 \notin Bad
    BY <1>1, <1>3
  <2>2. PICK F : FirstsUpTo(s, m - 1, F)
    BY <2>1
  <2> DEFINE step(i, f) == IF i = 0 THEN <<>>
                           ELSE IF IsFirst(s[i]) THEN Append(f, s[i]) ELSE f
             G == [i \in 0 .. m |-> IF i = m THEN step(m, F[m - 1]) ELSE F[i]]
  <2>3. F = [i \in 0 .. m - 1 |-> step(i, F[i - 1])]
    BY <2>2 DEF FirstsUpTo
  <2> HIDE DEF step
  <2>4. \A i \in 0 .. m : G[i] = step(i, G[i - 1])
    <3> TAKE i \in 0 .. m
    <3>1. CASE i = m
      BY <3>1, <1>3, <2>1
    <3>2. CASE i = 0
      <4>1. F[0] = step(0, F[0 - 1]) /\ G[0] = F[0]
        BY <2>1, <2>3, <1>3
      <4> QED BY <3>2, <4>1 DEF step
    <3>3. CASE i # m /\ i # 0
      <4>1. i \in 0 .. m - 1 /\ i - 1 \in 0 .. m /\ i - 1 # m
        BY <3>3, <2>1
      <4> QED BY <4>1, <3>3, <2>3
    <3> QED BY <3>1, <3>2, <3>3
  <2>5. G = [i \in 0 .. m |-> step(i, G[i - 1])]
    BY <2>4
  <2>6. FirstsUpTo(s, m, G)
    BY <2>5 DEF FirstsUpTo, step
  <2> QED BY <2>6
<1> QED BY <1>2, <1>3

LEMMA FirstUnitsOf ==
  ASSUME NEW s \in Seq(Unit)
  PROVE  \E F : FirstsUpTo(s, Len(s), F) /\ FirstUnits(s) = F[Len(s)]
<1>1. FirstUnits(s) = (CHOOSE F : FirstsUpTo(s, Len(s), F))[Len(s)]
  BY DEF FirstUnits, FirstsUpTo
<1>2. \E F : FirstsUpTo(s, Len(s), F)
  BY FirstsExist
<1> QED BY <1>1, <1>2

(* Frames n + 1, n + 2, ... of file e, up to the one that unit i is of. *)
InTurn(f, s, i, e, n) ==
  /\ f \in Seq(Unit)
  /\ Len(f) = IF i = 0 THEN 0 ELSE s[i].frame - n
  /\ \A j \in 1 .. Len(f) : f[j].epoch = e /\ f[j].frame = n + j

LEMMA ChainFirsts ==
  ASSUME NEW e, NEW n \in Nat, NEW s, Chain(s, e, n)
  PROVE  InTurn(FirstUnits(s), s, Len(s), e, n)
<1>0. s \in Seq(Unit) /\ Len(s) \in Nat
  BY DEF Chain
<1>1. PICK F : FirstsUpTo(s, Len(s), F) /\ FirstUnits(s) = F[Len(s)]
  BY <1>0, FirstUnitsOf
<1> DEFINE Bad == {i \in 0 .. Len(s) : ~InTurn(F[i], s, i, e, n)}
<1> SUFFICES ASSUME Bad # {} PROVE FALSE
  BY <1>0, <1>1
<1>2. PICK i \in Bad : \A j \in Bad : i <= j
  <2>1. Bad \in SUBSET Nat
    BY <1>0
  <2> HIDE DEF Bad
  <2> QED BY <2>1, LeastIn
<1>3. F[0] = <<>>
  BY <1>0, <1>1 DEF FirstsUpTo
<1>4. i # 0
  <2>1. <<>> \in Seq(Unit) /\ Len(<<>>) = 0
    OBVIOUS
  <2>2. InTurn(<<>>, s, 0, e, n)
    BY <2>1 DEF InTurn
  <2> QED BY <2>2, <1>2, <1>3
<1>5. i \in 1 .. Len(s) /\ i - 1 \in 0 .. Len(s) /\ InTurn(F[i - 1], s, i - 1, e, n)
  <2>1. i \in 1 .. Len(s) /\ i - 1 \in 0 .. Len(s) /\ ~ (i <= i - 1)
    BY <1>0, <1>2, <1>4
  <2> QED BY <2>1, <1>2
<1>6. F[i] = IF IsFirst(s[i]) THEN Append(F[i - 1], s[i]) ELSE F[i - 1]
  BY <1>1, <1>4, <1>5 DEF FirstsUpTo
<1>7. s[i] \in Unit /\ s[i].frame \in Nat /\ s[i].unit \in Nat /\ s[i].epoch = e
  <2>1. s[i] \in Unit
    BY <1>0, <1>5, ElementOfSeq
  <2> QED BY <2>1, <1>5 DEF Unit, Chain
<1> DEFINE f == F[i - 1]
<1>f. f \in Seq(Unit) /\ Len(f) \in Nat
  BY <1>5 DEF InTurn
<1>8. ASSUME IsFirst(s[i]), s[i].frame = n + Len(f) + 1
      PROVE  InTurn(F[i], s, i, e, n)
  <2>1. F[i] = Append(f, s[i])
    BY <1>6, <1>8
  <2>2. /\ F[i] \in Seq(Unit) /\ Len(F[i]) = Len(f) + 1
        /\ \A j \in 1 .. Len(f) : F[i][j] = f[j]
        /\ F[i][Len(f) + 1] = s[i]
    BY <2>1, <1>7, <1>f, AppendProperties
  <2>3. \A j \in 1 .. Len(f) : f[j].epoch = e /\ f[j].frame = n + j
    BY <1>5 DEF InTurn
  <2>4. Len(F[i]) = s[i].frame - n
    BY <1>8, <2>2, <1>f, <1>7
  <2> HIDE DEF f
  <2>5. \A j \in 1 .. Len(F[i]) : F[i][j].epoch = e /\ F[i][j].frame = n + j
    <3> TAKE j \in 1 .. Len(F[i])
    <3>1. CASE j = Len(f) + 1
      BY <3>1, <2>2, <1>7, <1>8, <1>f
    <3>2. CASE j # Len(f) + 1
      <4>1. j \in 1 .. Len(f)
        BY <3>2, <2>2, <1>f
      <4> QED BY <4>1, <2>2, <2>3
    <3> QED BY <3>1, <3>2
  <2> QED BY <2>2, <2>4, <2>5, <1>4 DEF InTurn
<1>9. CASE i = 1
  <2>1. s # <<>>
    BY <1>5, <1>0
  <2>2. IsFirst(s[i]) /\ s[i].frame = n + 1 /\ Len(f) = 0
    BY <2>1, <1>3, <1>9 DEF Chain, IsFirst
  <2> QED BY <2>2, <1>2, <1>8
<1>10. CASE i # 1
  <2>1. i - 1 \in 1 .. Len(s) - 1 /\ i - 1 \in 1 .. Len(s) /\ (i - 1) + 1 = i /\ i - 1 # 0
    BY <1>0, <1>5, <1>10
  <2>2. PICK u : u = s[i - 1]
    OBVIOUS
  <2>3. u \in Unit /\ u.unit # 0 /\ Follows(u, s[i]) /\ Len(f) = u.frame - n
    BY <2>1, <2>2, <1>0, <1>5, ElementOfSeq DEF Chain, InTurn
  <2>u. u.frame \in Nat /\ u.unit \in Nat
    BY <2>3 DEF Unit
  <2>4. CASE u.unit = u.of
    <3>1. s[i].frame = u.frame + 1 /\ IsFirst(s[i])
      BY <2>3, <2>4 DEF Follows, IsFirst
    <3> QED BY <3>1, <2>3, <2>u, <1>2, <1>8
  <2>5. CASE u.unit # u.of
    <3>1. s[i] = [u EXCEPT !.unit = @ + 1]
      BY <2>3, <2>5 DEF Follows
    <3>2. s[i].frame = u.frame /\ s[i].unit = u.unit + 1
      BY <3>1, <2>3 DEF Unit
    <3>3. F[i] = f
      BY <3>2, <2>3, <2>u, <1>6 DEF IsFirst
    <3>4. InTurn(F[i], s, i, e, n)
      BY <3>2, <3>3, <2>1, <2>2, <1>4, <1>5 DEF InTurn
    <3> QED BY <3>4, <1>2
  <2> QED BY <2>4, <2>5
<1> QED BY <1>9, <1>10

-----------------------------------------------------------------------------
Typed ==
  /\ epoch \in Nat /\ frames \in Nat /\ begun \in 0 .. epoch
  /\ pc \in {"idle", "open", "read"}
  /\ truncated \in BOOLEAN
  /\ offset \in Nat /\ file_size \in Nat /\ want \in Nat
  /\ zbuf \in Seq(Unit) /\ decoded \in Seq(Unit)

(* The file is made of whole frames, the next one is written at once. *)
WholeFrames ==
  /\ Chain(file, epoch, 0) /\ Whole(file)
  /\ \/ writing = <<>> /\ frames = LastFrame(file)
     \/ /\ frames = LastFrame(file) + 1
        /\ \E size \in FrameSizes : writing = Frame(epoch, frames, size)

(* What the client measured ends with a frame of the file, or is more than *)
(* another file will have before the client looks.                         *)
Measured ==
  /\ begun = epoch => file_size <= Len(file) /\ EndsAt(file, file_size)
  /\ begun # epoch /\ file_size # 0 => Len(file) + Len(writing) < file_size
  /\ file_size = 0 => offset = 0 /\ decoded = <<>> /\ pc # "read"
  /\ truncated => pc = "open" /\ begun # epoch

(* Between two readings the client is where it measured to, unless it gave *)
(* up a reading and has not seen why.                                      *)
Resting ==
  pc # "read" =>
    /\ zbuf = <<>>
    /\ \/ offset = file_size
       \/ begun # epoch /\ file_size # 0 /\ (pc = "idle" \/ truncated)

(* What is read goes on from what is decoded, and ends with a frame. *)
Reading ==
  pc = "read" =>
    /\ want = file_size /\ offset <= want
    /\ begun = epoch \/ offset = want => Chain(zbuf, begun, Len(decoded))
    /\ offset = want => Whole(zbuf)

Decoded ==
  /\ \A i \in 1 .. Len(decoded) : decoded[i].epoch = begun /\ decoded[i].frame = i
  /\ begun = epoch =>
       IF zbuf = <<>>
       THEN EndsAt(file, offset) /\ Len(decoded) = FrameAt(file, offset)
       ELSE offset > 0 /\ zbuf[Len(zbuf)] = file[offset]

FollowInv == Typed /\ WholeFrames /\ Measured /\ Resting /\ Reading /\ Decoded

LEMMA FollowInit == Init => FollowInv
<1> SUFFICES ASSUME Init PROVE FollowInv
  OBVIOUS
<1>1. <<>> \in Seq(Unit) /\ Len(<<>>) = 0
  OBVIOUS
<1>2. Chain(<<>>, 0, 0)
  BY <1>1 DEF Chain
<1>3. Typed
  <2>1. 0 \in 0 .. 0
    OBVIOUS
  <2> QED BY <1>1, <2>1 DEF Init, Typed
<1>4. WholeFrames
  BY <1>1, <1>2 DEF Init, WholeFrames, EndsAt, Whole, FrameAt, LastFrame
<1>5. Measured
  BY <1>1 DEF Init, Measured, EndsAt, Whole
<1>6. Resting /\ Reading
  BY DEF Init, Resting, Reading
<1>7. Decoded
  BY <1>1 DEF Init, Decoded, EndsAt, Whole, FrameAt, LastFrame
<1> QED BY <1>3, <1>4, <1>5, <1>6, <1>7 DEF FollowInv

(* The steps of the daemon. *)
LEMMA DaemonFollows ==
  ASSUME Torn = FALSE, Prompt = TRUE, FollowInv, Daemon
  PROVE  FollowInv'
<1>t. Typed /\ WholeFrames /\ Measured /\ Resting /\ Reading /\ Decoded
  BY DEF FollowInv
<1>f. file \in Seq(Unit) /\ Len(file) \in Nat
  BY <1>t DEF WholeFrames, Chain
<1>o. begun = epoch => offset <= Len(file) /\ file_size <= Len(file)
  <2>1. CASE pc = "read"
    BY <2>1, <1>t, <1>f DEF Reading, Measured, Typed
  <2>2. CASE pc # "read"
    BY <2>2, <1>t, <1>f DEF Resting, Measured, Typed
  <2> QED BY <2>1, <2>2
<1>1. CASE BeginFrame
  <2>1. PICK size \in FrameSizes :
          /\ WillNotice(Len(file) + size)
          /\ writing' = Frame(epoch, frames + 1, size)
    BY <1>1 DEF BeginFrame
  <2>2. /\ writing = <<>> /\ frames' = frames + 1
        /\ UNCHANGED <<file, epoch, pc, truncated, offset, file_size, want, zbuf,
                       decoded, begun>>
    BY <1>1 DEF BeginFrame, client
  <2>3. Len(writing') = size
    BY <2>1, SizesAssumption DEF Frame
  <2>4. WholeFrames'
    <3>1. \/ writing = <<>> /\ frames = LastFrame(file)
          \/ \E n \in FrameSizes : writing = Frame(epoch, frames, n)
      BY <1>t DEF WholeFrames
    <3>2. ASSUME NEW n \in FrameSizes PROVE Frame(epoch, frames, n) # <<>>
      <4>1. Len(Frame(epoch, frames, n)) = n /\ n # 0
        BY SizesAssumption DEF Frame
      <4> QED BY <4>1
    <3>3. frames = LastFrame(file)
      BY <2>2, <3>1, <3>2
    <3> QED BY <3>3, <2>1, <2>2, <1>t DEF WholeFrames
  <2>5. Measured'
    <3>1. begun # epoch /\ file_size # 0 => Len(file) + size < file_size
      BY <2>1 DEF WillNotice
    <3> QED BY <3>1, <2>2, <2>3, <1>t DEF Measured
  <2> QED BY <2>2, <2>4, <2>5, <1>t DEF FollowInv, Typed, Resting, Reading, Decoded
<1>2. CASE Write
  <2>1. /\ writing # <<>>
        /\ UNCHANGED <<epoch, frames, pc, truncated, offset, file_size, want, zbuf,
                       decoded, begun>>
    BY <1>2 DEF Write, client
  <2>2. PICK size \in FrameSizes : /\ frames = LastFrame(file) + 1
                                   /\ writing = Frame(epoch, frames, size)
    BY <2>1, <1>t DEF WholeFrames
  <2>3. writing \in Seq(Unit) /\ Len(writing) \in Nat
    <3>1. writing = [u \in 1 .. size |->
                       [epoch |-> epoch, frame |-> frames, unit |-> u, of |-> size]]
      BY <2>2 DEF Frame
    <3>2. \A u \in 1 .. size :
            [epoch |-> epoch, frame |-> frames, unit |-> u, of |-> size] \in Unit
      BY <1>t, SizesAssumption DEF Unit, Typed
    <3> QED BY <3>1, <3>2, SizesAssumption
  <2>4. file' = file \o writing /\ writing' = <<>>
    <3>1. /\ file' = file \o SubSeq(writing, 1, Len(writing))
          /\ writing' = SubSeq(writing, Len(writing) + 1, Len(writing))
      BY <1>2 DEF Write
    <3> QED BY <3>1, <2>3, SubSeqFull, SubSeqEmpty
  <2>5. /\ Chain(file', epoch, 0) /\ Whole(file')
        /\ Len(file') = Len(file) + Len(writing)
        /\ LastFrame(file') = LastFrame(file) + 1
        /\ \A i \in 1 .. Len(file) : file'[i] = file[i]
    <3>1. epoch \in Nat /\ Chain(file, epoch, 0) /\ Whole(file)
      BY <1>t DEF WholeFrames, Typed
    <3>2. PICK f, w : f = frames /\ w = writing
      OBVIOUS
    <3>4. NextIs(file, f) /\ w = Frame(epoch, f, size)
      BY <3>2, <2>2 DEF NextIs
    <3>3. PICK t : t = file \o w
      OBVIOUS
    <3>5. /\ Chain(t, epoch, 0) /\ Whole(t) /\ Len(t) = Len(file) + Len(w)
          /\ LastIs(t, f)
          /\ \A i \in 1 .. Len(file) : t[i] = file[i]
      <4>1. Chain(t, epoch, 0)
        BY <3>1, <3>3, <3>4, FrameAdded
      <4>2. Whole(t)
        BY <3>1, <3>3, <3>4, FrameAdded
      <4>3. LastIs(t, f)
        BY <3>1, <3>3, <3>4, FrameAdded
      <4>4. Len(t) = Len(file) + Len(w)
        BY <3>1, <3>3, <3>4, FrameAdded
      <4>5. \A i \in 1 .. Len(file) : t[i] = file[i]
        BY <3>1, <3>3, <3>4, FrameAdded
      <4> QED BY <4>1, <4>2, <4>3, <4>4, <4>5
    <3> QED BY <3>2, <3>3, <3>5, <2>2, <2>4 DEF LastIs
  <2>6. WholeFrames'
    BY <2>1, <2>2, <2>4, <2>5 DEF WholeFrames
  <2>7. Measured'
    <3>1. begun = epoch => EndsAt(file', file_size)
      BY <2>5, <1>t, <1>o, <1>f DEF Measured, EndsAt, Whole, Typed
    <3>2. Len(writing') = 0
      BY <2>4
    <3> QED BY <3>1, <3>2, <2>1, <2>3, <2>5, <1>t, <1>o, <1>f DEF Measured, Typed
  <2>8. Decoded'
    <3>1. ASSUME begun = epoch, offset # 0
          PROVE  file'[offset] = file[offset]
      BY <3>1, <2>5, <1>o, <1>f, <1>t DEF Typed
    <3> QED BY <3>1, <2>1, <1>t DEF Decoded, EndsAt, Whole, FrameAt, LastFrame, Typed
  <2> QED BY <2>1, <2>6, <2>7, <2>8, <1>t DEF FollowInv, Typed, Resting, Reading
<1>3. CASE Empty
  <2>1. /\ file' = <<>> /\ epoch' = epoch + 1 /\ frames' = 0 /\ writing' = <<>>
        /\ UNCHANGED <<pc, truncated, offset, file_size, want, zbuf, decoded, begun>>
    BY <1>3 DEF Empty, client
  <2>2. <<>> \in Seq(Unit) /\ Len(<<>>) = 0
    OBVIOUS
  <2>3. begun # epoch' /\ Typed'
    BY <2>1, <1>t DEF Typed
  <2>4. Chain(<<>>, epoch', 0)
    BY <2>2 DEF Chain
  <2>5. WholeFrames'
    BY <2>1, <2>2, <2>4 DEF WholeFrames, EndsAt, Whole, FrameAt, LastFrame
  <2>6. Measured'
    BY <2>1, <2>2, <2>3, <1>t DEF Measured, Typed
  <2>7. Resting' /\ Reading' /\ Decoded'
    BY <2>1, <2>3, <1>t DEF Resting, Reading, Decoded, Measured, Typed
  <2> QED BY <2>3, <2>5, <2>6, <2>7 DEF FollowInv
<1>4. CASE OtherFile
  BY <1>4 DEF OtherFile, log, client, FollowInv, Typed, WholeFrames, Measured, Resting,
              Reading, Decoded
<1> QED BY <1>1, <1>2, <1>3, <1>4 DEF Daemon

(* The steps of the client. *)
LEMMA ClientFollows ==
  ASSUME FollowInv, Client
  PROVE  FollowInv'
<1>t. Typed /\ WholeFrames /\ Measured /\ Resting /\ Reading /\ Decoded
  BY DEF FollowInv
<1>f. file \in Seq(Unit) /\ Len(file) \in Nat /\ Len(writing) \in Nat
  <2>1. writing = <<>> \/ \E size \in FrameSizes : writing = Frame(epoch, frames, size)
    BY <1>t DEF WholeFrames
  <2>2. \A size \in FrameSizes : Len(Frame(epoch, frames, size)) \in Nat
    BY SizesAssumption DEF Frame
  <2> QED BY <2>1, <2>2, <1>t DEF WholeFrames, Chain
<1>0. UNCHANGED <<file, epoch, frames, writing>>
  BY DEF Client, Look, Open, Read, ReadEnd, Decode, log
<1>w. WholeFrames'
  BY <1>0, <1>t DEF WholeFrames
<1>l. begun # epoch /\ file_size # 0 => Len(file) < file_size
  BY <1>t, <1>f DEF Measured, Typed
<1>1. CASE Look
  <2>1. /\ pc = "idle" /\ truncated \in BOOLEAN /\ ~truncated
        /\ truncated' = (truncated \/ Shrunk)
        /\ pc' = IF Shrunk \/ Len(file) > file_size THEN "open" ELSE "idle"
        /\ UNCHANGED <<offset, file_size, want, zbuf, decoded, begun>>
    BY <1>1, <1>t DEF Look, Measured, Typed
  <2>b. truncated' \in BOOLEAN /\ (truncated' <=> Shrunk)
    BY <2>1 DEF Shrunk
  <2>2. Shrunk => Len(file) < file_size /\ begun # epoch
    BY <1>t, <1>f DEF Shrunk, Measured, Typed
  <2>3. Typed' /\ Measured'
    BY <2>1, <2>b, <2>2, <1>0, <1>t DEF Typed, Measured
  <2>4. Resting'
    <3>1. zbuf = <<>> /\ (offset = file_size \/ (begun # epoch /\ file_size # 0))
      BY <2>1, <1>t DEF Resting
    <3>2. begun # epoch /\ file_size # 0 => ~ (Len(file) > file_size)
      BY <1>l, <1>f, <1>t DEF Typed
    <3> QED BY <3>1, <3>2, <2>1, <2>b, <1>0 DEF Resting
  <2>5. Reading' /\ Decoded'
    BY <2>1, <1>0, <1>t DEF Reading, Decoded
  <2> QED BY <2>3, <2>4, <2>5, <1>w DEF FollowInv
<1>2. CASE Open
  <2>0. pc = "open" /\ zbuf = <<>> /\ zbuf' = <<>> /\ want' = Len(file)
    BY <1>2, <1>t DEF Open, Resting
  <2>1. CASE truncated
    <3>1. /\ offset' = 0 /\ truncated' = FALSE /\ begun' = epoch /\ decoded' = <<>>
          /\ file_size' = IF Len(file) > 0 THEN Len(file) ELSE 0
          /\ pc' = IF Len(file) > 0 THEN "read" ELSE "idle"
      BY <1>2, <2>1 DEF Open, Reset
    <3>2. file_size' = Len(file)
      BY <3>1, <1>f
    <3>3. Typed'
      <4>1. <<>> \in Seq(Unit) /\ epoch \in 0 .. epoch
        BY <1>t DEF Typed
      <4> QED BY <4>1, <3>1, <3>2, <2>0, <1>0, <1>f, <1>t DEF Typed
    <3>4. Measured'
      BY <3>1, <3>2, <1>0, <1>f, <1>t DEF Measured, WholeFrames, Whole
    <3>5. Resting'
      BY <3>1, <3>2, <2>0, <1>f DEF Resting
    <3>6. Chain(<<>>, epoch, 0) /\ Len(<<>>) = 0
      BY DEF Chain
    <3>7. Reading'
      BY <3>1, <3>2, <3>6, <2>0, <1>f, <1>0 DEF Reading
    <3>8. Decoded'
      BY <3>1, <3>6, <2>0 DEF Decoded, EndsAt, FrameAt
    <3> QED BY <3>3, <3>4, <3>5, <3>7, <3>8, <1>w DEF FollowInv
  <2>2. CASE ~truncated
    <3>1. /\ UNCHANGED <<truncated, offset, decoded>>
          /\ begun' = IF file_size = 0 THEN epoch ELSE begun
          /\ file_size' = IF Len(file) > offset THEN Len(file) ELSE file_size
          /\ pc' = IF Len(file) > offset THEN "read" ELSE "idle"
      BY <1>2, <2>2 DEF Open
    <3>2. offset = file_size
      BY <2>0, <2>2, <1>t DEF Resting
    <3>3. Len(file) > offset => begun' = epoch
      BY <3>1, <3>2, <1>l, <1>f, <1>t DEF Typed
    <3>4. file_size = 0 => decoded = <<>> /\ Len(decoded) = 0
      BY <1>t DEF Measured
    <3>5. Typed'
      <4>1. begun' \in 0 .. epoch
        BY <3>1, <1>t DEF Typed
      <4> QED BY <4>1, <3>1, <2>0, <1>0, <1>f, <1>t DEF Typed
    <3>6. Measured'
      <4>1. CASE Len(file) > offset
        <5>1. file_size' = Len(file) /\ begun' = epoch /\ Len(file) # 0
          BY <4>1, <3>1, <3>3, <1>f, <1>t DEF Typed
        <5>2. EndsAt(file, file_size') /\ file_size' <= Len(file)
          BY <5>1, <1>f, <1>t DEF WholeFrames, Whole
        <5>3. file_size' # 0 /\ ~truncated'
          BY <5>1, <3>1, <2>2
        <5> QED BY <5>1, <5>2, <5>3, <1>0 DEF Measured
      <4>2. CASE ~ (Len(file) > offset)
        <5>1. file_size' = file_size /\ pc' = "idle"
          BY <4>2, <3>1
        <5>2. file_size = 0 => Len(file) = 0
          BY <4>2, <3>2, <1>f, <1>t DEF Typed
        <5> QED BY <5>1, <5>2, <3>1, <3>2, <2>2, <1>0, <1>f, <1>t DEF Measured, EndsAt
      <4> QED BY <4>1, <4>2
    <3>7. Resting'
      BY <3>1, <3>2, <2>0 DEF Resting
    <3>8. Decoded'
      <4>1. \A i \in 1 .. Len(decoded) : decoded[i].epoch = begun' /\ decoded[i].frame = i
        BY <3>1, <3>4, <1>t DEF Decoded
      <4>2. ASSUME begun' = epoch
            PROVE  EndsAt(file, offset) /\ Len(decoded) = FrameAt(file, offset)
        <5>1. CASE file_size = 0
          BY <5>1, <3>2, <3>4 DEF EndsAt, FrameAt
        <5>2. CASE file_size # 0
          BY <5>2, <4>2, <3>1, <2>0, <1>t DEF Decoded
        <5> QED BY <5>1, <5>2
      <4> QED BY <4>1, <4>2, <3>1, <2>0, <1>0 DEF Decoded
    <3>9. Reading'
      <4> SUFFICES ASSUME pc' = "read" PROVE Reading'
        BY DEF Reading
      <4>1. Len(file) > offset /\ begun' = epoch /\ want' # offset'
        BY <3>1, <3>3, <2>0, <1>f, <1>t DEF Typed
      <4>2. Chain(<<>>, begun', Len(decoded'))
        <5>1. <<>> \in Seq(Unit) /\ Len(<<>>) = 0
          OBVIOUS
        <5> QED BY <5>1 DEF Chain
      <4>3. want' = file_size' /\ offset' <= want'
        BY <4>1, <3>1, <2>0, <1>f, <1>t DEF Typed
      <4> QED BY <4>1, <4>2, <4>3, <2>0 DEF Reading
    <3> QED BY <3>5, <3>6, <3>7, <3>8, <3>9, <1>w DEF FollowInv
  <2> QED BY <2>1, <2>2
<1>3. CASE Read
  <2>1. /\ pc = "read" /\ offset < want /\ offset < Len(file)
        /\ zbuf' = Append(zbuf, file[offset + 1]) /\ offset' = offset + 1
        /\ UNCHANGED <<pc, truncated, file_size, want, decoded, begun>>
    BY <1>3 DEF Read
  <2>2. want = file_size /\ file_size # 0
    BY <2>1, <1>t DEF Reading, Measured
  <2>3. PICK u : u = file[offset + 1]
    OBVIOUS
  <2>4. offset + 1 \in 1 .. Len(file) /\ u \in Unit
    <3>1. offset + 1 \in 1 .. Len(file)
      BY <2>1, <1>f, <1>t DEF Typed
    <3> QED BY <3>1, <2>3, <1>f, ElementOfSeq
  <2>5. /\ zbuf' \in Seq(Unit) /\ zbuf' # <<>> /\ Len(zbuf') = Len(zbuf) + 1
        /\ Len(zbuf) \in Nat /\ zbuf'[Len(zbuf) + 1] = u
    <3>1. zbuf \in Seq(Unit)
      BY <1>t DEF Typed
    <3> QED BY <3>1, <2>1, <2>3, <2>4, AppendProperties
  <2>6. Typed' /\ Measured' /\ Resting'
    BY <2>1, <2>2, <2>5, <1>0, <1>t DEF Typed, Measured, Resting
  <2>7. Decoded'
    <3>1. offset + 1 > 0 /\ zbuf'[Len(zbuf')] = file[offset + 1]
      BY <2>3, <2>5, <1>t DEF Typed
    <3> QED BY <3>1, <2>1, <2>5, <1>0, <1>t DEF Decoded
  <2>8. CASE begun # epoch
    <3>1. offset' <= want /\ offset' # want
      BY <2>1, <2>2, <2>8, <1>l, <1>f, <1>t DEF Typed
    <3>2. Reading'
      BY <3>1, <2>1, <2>2, <2>8, <1>0 DEF Reading
    <3> QED BY <3>2, <2>6, <2>7, <1>w DEF FollowInv
  <2>9. CASE begun = epoch
    <3>1. Chain(zbuf, epoch, Len(decoded)) /\ Len(decoded) \in Nat
      BY <2>1, <2>9, <1>t DEF Reading, Typed
    <3>2. /\ u.epoch = epoch /\ u.unit # 0
          /\ offset # 0 => offset \in 1 .. Len(file) - 1 /\ Follows(file[offset], u)
      <4>1. offset # 0 => offset \in 1 .. Len(file) - 1
        BY <2>1, <1>f, <1>t DEF Typed
      <4> QED BY <4>1, <2>3, <2>4, <1>t DEF WholeFrames, Chain
    <3>3. ASSUME zbuf = <<>>
          PROVE  u.frame = Len(decoded) + 1 /\ u.unit = 1
      <4>1. EndsAt(file, offset) /\ Len(decoded) = FrameAt(file, offset)
        BY <3>3, <2>9, <1>t DEF Decoded
      <4>2. CASE offset = 0
        <5>1. Len(file) # 0 /\ file # <<>> /\ u = file[1] /\ 0 + 1 = 1
          BY <4>2, <2>1, <2>3, <1>f
        <5>2. u.frame = 0 + 1 /\ u.unit = 1
          BY <5>1, <1>t DEF WholeFrames, Chain
        <5> QED BY <5>2, <4>1, <4>2 DEF FrameAt
      <4>3. CASE offset # 0
        BY <4>1, <4>3, <3>2 DEF EndsAt, FrameAt, Follows
      <4> QED BY <4>2, <4>3
    <3>4. ASSUME zbuf # <<>>
          PROVE  Follows(zbuf[Len(zbuf)], u)
      <4>1. offset # 0 /\ zbuf[Len(zbuf)] = file[offset]
        BY <3>4, <2>9, <1>t DEF Decoded
      <4> QED BY <4>1, <3>2
    <3>5. PICK z, n : z = zbuf /\ n = Len(decoded)
      OBVIOUS
    <3>6. Chain(Append(z, u), epoch, n)
      <4>1. n \in Nat /\ Chain(z, epoch, n)
        BY <3>1, <3>5
      <4>2. z = <<>> => u.frame = n + 1 /\ u.unit = 1
        BY <3>3, <3>5
      <4>3. z # <<>> => Follows(z[Len(z)], u)
        BY <3>4, <3>5
      <4> QED BY <4>1, <4>2, <4>3, <3>2, <2>4, ChainGrows
    <3>7. Chain(zbuf', begun', Len(decoded'))
      BY <3>5, <3>6, <2>1, <2>3, <2>9
    <3>8. offset' <= want
      BY <2>1, <1>t DEF Typed
    <3>9. ASSUME offset' = want'
          PROVE  Whole(zbuf')
      <4>1. u = file[file_size]
        BY <3>9, <2>1, <2>2, <2>3
      <4>2. u.unit = u.of
        BY <4>1, <2>2, <2>9, <1>t DEF Measured, EndsAt
      <4> QED BY <4>2, <2>5 DEF Whole, EndsAt
    <3>10. Reading'
      BY <3>7, <3>8, <3>9, <2>1, <2>2 DEF Reading
    <3> QED BY <3>10, <2>6, <2>7, <1>w DEF FollowInv
  <2> QED BY <2>8, <2>9
<1>4. CASE ReadEnd
  <2>1. /\ pc = "read" /\ pc' = "idle" /\ offset < want /\ offset >= Len(file)
        /\ zbuf' = <<>>
        /\ UNCHANGED <<truncated, offset, file_size, want, decoded, begun>>
    BY <1>4 DEF ReadEnd
  <2>2. begun # epoch /\ file_size # 0
    BY <2>1, <1>f, <1>t DEF Reading, Measured, Typed
  <2>3. <<>> \in Seq(Unit)
    OBVIOUS
  <2> QED BY <2>1, <2>2, <2>3, <1>0, <1>t, <1>w DEF FollowInv, Typed, Measured, Resting,
                                                   Reading, Decoded
<1>5. CASE Decode
  <2>1. /\ pc = "read" /\ offset = want /\ zbuf' = <<>>
        /\ UNCHANGED <<truncated, offset, file_size, want, begun>>
    BY <1>5 DEF Decode
  <2>2. /\ want = file_size /\ file_size # 0
        /\ Chain(zbuf, begun, Len(decoded)) /\ Whole(zbuf)
    BY <2>1, <1>t DEF Reading, Measured
  <2>3. Decodes(zbuf)
    BY <2>2, WholeDecodes
  <2>4. pc' = "idle" /\ decoded' = decoded \o FirstUnits(zbuf)
    BY <2>3, <1>5 DEF Decode
  <2>5. PICK f, n : f = FirstUnits(zbuf) /\ n = Len(decoded)
    OBVIOUS
  <2>6. n \in Nat /\ decoded \in Seq(Unit)
    BY <2>5, <1>t DEF Typed
  <2>7. InTurn(f, zbuf, Len(zbuf), begun, n)
    BY <2>2, <2>5, <2>6, ChainFirsts
  <2>8. f \in Seq(Unit) /\ Len(f) \in Nat
    BY <2>7 DEF InTurn
  <2>9. /\ decoded' \in Seq(Unit) /\ Len(decoded') = n + Len(f)
        /\ \A i \in 1 .. n + Len(f) :
             decoded'[i] = IF i <= n THEN decoded[i] ELSE f[i - n]
    <3>1. /\ decoded \o f \in Seq(Unit) /\ Len(decoded \o f) = Len(decoded) + Len(f)
          /\ \A i \in 1 .. Len(decoded) + Len(f) :
               (decoded \o f)[i] = IF i <= Len(decoded) THEN decoded[i]
                                   ELSE f[i - Len(decoded)]
      BY <2>6, <2>8, ConcatProperties
    <3> QED BY <3>1, <2>4, <2>5
  <2>10. \A i \in 1 .. Len(decoded') : decoded'[i].epoch = begun /\ decoded'[i].frame = i
    <3> TAKE i \in 1 .. Len(decoded')
    <3>1. CASE i <= n
      <4>1. i \in 1 .. Len(decoded) /\ decoded'[i] = decoded[i]
        BY <3>1, <2>5, <2>6, <2>8, <2>9
      <4> QED BY <4>1, <1>t DEF Decoded
    <3>2. CASE ~ (i <= n)
      <4>1. PICK j \in 1 .. Len(f) : i = n + j
        <5>1. i - n \in 1 .. Len(f) /\ i = n + (i - n)
          BY <3>2, <2>6, <2>8, <2>9
        <5> QED BY <5>1
      <4>2. decoded'[i] = f[j]
        <5>1. i - n = j
          BY <4>1, <2>6
        <5> QED BY <5>1, <3>2, <2>9
      <4>3. f[j].epoch = begun /\ f[j].frame = n + j
        BY <2>7 DEF InTurn
      <4> QED BY <4>1, <4>2, <4>3
    <3> QED BY <3>1, <3>2
  <2>11. ASSUME begun = epoch
         PROVE  EndsAt(file, offset) /\ Len(decoded') = FrameAt(file, offset)
    <3>1. EndsAt(file, offset) /\ offset # 0
      BY <2>1, <2>2, <2>11, <1>t DEF Measured
    <3>2. CASE zbuf = <<>>
      <4>1. Len(f) = 0
        BY <3>2, <2>7 DEF InTurn
      <4>2. n = FrameAt(file, offset)
        BY <3>2, <2>5, <2>11, <1>t DEF Decoded
      <4> QED BY <4>1, <4>2, <3>1, <2>6, <2>9
    <3>3. CASE zbuf # <<>>
      <4>1. zbuf \in Seq(Unit) /\ Len(zbuf) # 0
        BY <3>3, <1>t, EmptySeq DEF Typed
      <4>2. Len(f) = zbuf[Len(zbuf)].frame - n /\ zbuf[Len(zbuf)] = file[offset]
        BY <4>1, <3>3, <2>7, <2>11, <1>t DEF InTurn, Decoded
      <4>3. zbuf[Len(zbuf)] \in Unit
        BY <4>1
      <4>4. file[offset].frame \in Nat
        BY <4>2, <4>3 DEF Unit
      <4>5. Len(decoded') = file[offset].frame
        BY <4>2, <4>4, <2>6, <2>9
      <4> QED BY <4>5, <3>1 DEF FrameAt
    <3> QED BY <3>2, <3>3
  <2>12. Typed'
    <3>1. <<>> \in Seq(Unit)
      OBVIOUS
    <3> QED BY <3>1, <2>1, <2>4, <2>9, <1>0, <1>t DEF Typed
  <2>13. Measured' /\ Resting' /\ Reading'
    BY <2>1, <2>2, <2>4, <1>0, <1>t DEF Measured, Resting, Reading
  <2>14. Decoded'
    BY <2>1, <2>10, <2>11, <1>0 DEF Decoded
  <2> QED BY <2>12, <2>13, <2>14, <1>w DEF FollowInv
<1> QED BY <1>1, <1>2, <1>3, <1>4, <1>5 DEF Client

LEMMA FollowNext ==
  ASSUME Torn = FALSE, Prompt = TRUE, FollowInv, [Next]_vars
  PROVE  FollowInv'
<1>1. CASE Daemon
  BY <1>1, DaemonFollows
<1>2. CASE Client
  BY <1>2, ClientFollows
<1>3. CASE UNCHANGED vars
  BY <1>3 DEF vars, log, client, FollowInv, Typed, WholeFrames, Measured, Resting,
              Reading, Decoded
<1> QED BY <1>1, <1>2, <1>3 DEF Next

-----------------------------------------------------------------------------
(* Nothing but whole frames is ever handed to the decoder of               *)
(* enigmatic_client_read, which would end the program: for a daemon whose  *)
(* frames are seen whole and a client that looks in time.                  *)
THEOREM ReadsWholeFrames ==
  ASSUME Torn = FALSE, Prompt = TRUE
  PROVE  Spec => []NeverFails
<1>1. Init => FollowInv
  BY FollowInit
<1>2. FollowInv /\ [Next]_vars => FollowInv'
  BY FollowNext
<1>3. FollowInv => NeverFails
  BY DEF FollowInv, Typed, NeverFails
<1> QED BY <1>1, <1>2, <1>3, PTL DEF Spec

(* The snapshot of enigmatic_client_read and enigmatic_client_reset is     *)
(* built from the frames of one file, none left out, none taken twice, in  *)
(* their order.                                                            *)
THEOREM SnapshotInOrder ==
  ASSUME Torn = FALSE, Prompt = TRUE
  PROVE  Spec => []InOrder
<1>1. Init => FollowInv
  BY FollowInit
<1>2. FollowInv /\ [Next]_vars => FollowInv'
  BY FollowNext
<1>3. FollowInv => InOrder
  <2> SUFFICES ASSUME FollowInv, NEW i \in DOMAIN decoded
               PROVE  decoded[i].epoch = decoded[1].epoch /\ decoded[i].frame = i
    BY DEF InOrder
  <2>1. decoded \in Seq(Unit)
    BY DEF FollowInv, Typed
  <2>2. i \in 1 .. Len(decoded) /\ 1 \in 1 .. Len(decoded)
    BY <2>1
  <2> QED BY <2>2 DEF FollowInv, Decoded
<1> QED BY <1>1, <1>2, <1>3, PTL DEF Spec
=============================================================================
