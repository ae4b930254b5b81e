---------------------------- MODULE Coding_proofs ----------------------------
(* Theorems about Differences and Lz4Block: what is written in less bytes  *)
(* is what is read.                                                        *)
(*                                                                         *)
(* Differences, for any widths and any readings: counters and charges are  *)
(* never off, memory by less than a page for each difference, and what a   *)
(* process has is right to the page.                                       *)
(*                                                                         *)
(* Lz4Block, for any input, history, choice of matches and buffer, and any *)
(* limits of the format as they relate in the code: the decoder gives back *)
(* what was compressed, and neither side writes past its buffer.           *)
EXTENDS Differences, Lz4Block, SequenceTheorems, WellFoundedInduction, TLAPS

(* Differences *)

(* The difference a record carries is the one that was written, whichever  *)
(* width it took. *)
LEMMA DifferenceReadBack ==
  ASSUME NEW v \in Int, Fits(v, Half64)
  PROVE  change_find(enigmatic_log_diff(v)) = v
<1> USE WidthsAssumption
<1>1. ASSUME NEW half \in Nat, Fits(v, half)
      PROVE  SignedOf(Bits(v, half), half) = v
  BY <1>1 DEF Fits, SignedOf, Bits
<1>2. CASE Fits(v, Half8)
  BY <1>1, <1>2 DEF enigmatic_log_diff, change_find
<1>3. CASE ~Fits(v, Half8) /\ Fits(v, Half16)
  BY <1>1, <1>3 DEF enigmatic_log_diff, change_find
<1>4. CASE ~Fits(v, Half8) /\ ~Fits(v, Half16) /\ Fits(v, Half32)
  BY <1>1, <1>4 DEF enigmatic_log_diff, change_find
<1>5. CASE ~Fits(v, Half8) /\ ~Fits(v, Half16) /\ ~Fits(v, Half32)
  BY <1>1, <1>5 DEF enigmatic_log_diff, change_find
<1> QED BY <1>2, <1>3, <1>4, <1>5

(* A 64 bit counter goes from any reading to any other. *)
LEMMA CounterStep ==
  ASSUME NEW old \in 0 .. 2 * Half64 - 1, NEW new \in 0 .. 2 * Half64 - 1
  PROVE  Plus(old, change_find(enigmatic_log_diff(CounterDiff(new, old))), Half64)
           = new
<1> DEFINE d == CounterDiff(new, old)
<1>1. d \in Int /\ Fits(d, Half64)
  BY WidthsAssumption DEF CounterDiff, Minus, Bits, SignedOf, Fits
<1>2. change_find(enigmatic_log_diff(d)) = d
  BY <1>1, DifferenceReadBack
<1>3. Plus(old, d, Half64) = new
  BY WidthsAssumption DEF CounterDiff, Minus, Bits, SignedOf, Plus
<1> QED BY <1>2, <1>3

(* So does a 32 bit charge, whose difference is widened without a sign and *)
(* narrowed again by the client. *)
LEMMA ChargeStep ==
  ASSUME NEW old \in 0 .. 2 * Half32 - 1, NEW new \in 0 .. 2 * Half32 - 1
  PROVE  Plus(old, ChargeChange(change_find(enigmatic_log_diff(ChargeDiff(new, old)))),
              Half32) = new
<1> DEFINE d == ChargeDiff(new, old)
<1>1. d \in Int /\ Fits(d, Half64)
  BY WidthsAssumption DEF ChargeDiff, Minus, Bits, Fits
<1>2. change_find(enigmatic_log_diff(d)) = d
  BY <1>1, DifferenceReadBack
<1>3. Plus(old, ChargeChange(d), Half32) = new
  BY WidthsAssumption DEF ChargeDiff, ChargeChange, Minus, Bits, SignedOf, Plus
<1> QED BY <1>2, <1>3

ExactInv == Exact /\ total \in Counters /\ charge \in Charges

(* A client's counters and charges are the daemon's after any number of    *)
(* differences, for any widths. *)
THEOREM ReadingsExact == Spec => []Exact
<1>1. Init => ExactInv
  BY DEF Init, ExactInv, Exact
<1>2. ExactInv /\ [Next]_vars => ExactInv'
  <2> SUFFICES ASSUME ExactInv, [Next]_vars PROVE ExactInv'
    OBVIOUS
  <2> USE DEF ExactInv, Exact
  <2>1. CASE NetworkMod
    <3>1. PICK new \in Counters :
            /\ total' = new
            /\ shown_total' = Plus(shown_total,
                 change_find(enigmatic_log_diff(CounterDiff(new, total))), Half64)
      BY <2>1 DEF NetworkMod
    <3>2. shown_total' = new
      BY <3>1, CounterStep, ReadingsAssumption
    <3> QED BY <2>1, <3>1, <3>2 DEF NetworkMod, charges
  <2>2. CASE BatteryMod
    <3>1. PICK new \in Charges :
            /\ charge' = new
            /\ shown_charge' = Plus(shown_charge, ChargeChange(
                 change_find(enigmatic_log_diff(ChargeDiff(new, charge)))), Half32)
      BY <2>2 DEF BatteryMod
    <3>2. shown_charge' = new
      BY <3>1, ChargeStep, ReadingsAssumption
    <3> QED BY <2>2, <3>1, <3>2 DEF BatteryMod, counters
  <2>3. CASE MemoryMod \/ MemoryRefresh \/ ProcessMod
    BY <2>3 DEF MemoryMod, MemoryRefresh, ProcessMod, counters, charges
  <2>4. CASE UNCHANGED vars
    BY <2>4 DEF vars, counters, charges
  <2> QED BY <2>1, <2>2, <2>3, <2>4 DEF Next
<1>3. ExactInv => Exact
  BY DEF ExactInv
<1> QED BY <1>1, <1>2, <1>3, PTL DEF Spec

-----------------------------------------------------------------------------
(* Division, and the remainders of two numbers that differ by a multiple.  *)
LEMMA DivMod ==
  ASSUME NEW a \in Int, NEW n \in Nat \ {0}
  PROVE  a = n * (a \div n) + (a % n) /\ a \div n \in Int /\ a % n \in 0 .. n - 1
  OBVIOUS

LEMMA DivModIs ==
  ASSUME NEW n \in Nat \ {0}, NEW q \in Int, NEW r \in 0 .. n - 1
  PROVE  (n * q + r) % n = r /\ (n * q + r) \div n = q
  OBVIOUS

LEMMA SmallMod ==
  ASSUME NEW n \in Nat \ {0}, NEW a \in 0 .. n - 1
  PROVE  a % n = a
  OBVIOUS

LEMMA ModShift ==
  ASSUME NEW n \in Nat \ {0}, NEW a \in Int, NEW q \in Int
  PROVE  (a + n * q) % n = a % n
<1> DEFINE d == a \div n
           r == a % n
<1>1. a = n * d + r /\ d \in Int /\ r \in 0 .. n - 1
  BY DivMod
<1> HIDE DEF d, r
<1>2. a + n * q = n * (d + q) + r
  BY <1>1
<1>3. (n * (d + q) + r) % n = r
  BY <1>1, DivModIs
<1> QED BY <1>2, <1>3 DEF r

(* What is left of a natural number is no more than the number. *)
LEMMA ModAtMost ==
  ASSUME NEW n \in Nat \ {0}, NEW a \in Nat, NEW q \in Int
  PROVE  (a + n * q) % n <= a
<1>1. a % n <= a
  <2>1. a = n * (a \div n) + (a % n) /\ a \div n \in Int /\ a % n \in 0 .. n - 1
    BY DivMod
  <2>2. a \div n >= 0
    OBVIOUS
  <2>3. n * (a \div n) >= 0
    BY <2>1, <2>2
  <2> QED BY <2>1, <2>3
<1> QED BY <1>1, ModShift

(* The values of a 64 bit number are a whole number of pages.              *)
LEMMA WholePages ==
  /\ 2 * Half64 \in Nat \ {0} /\ Page \in Nat \ {0}
  /\ 2 * Half64 = Page * ((2 * Half64) \div Page)
  /\ (2 * Half64) \div Page \in Nat \ {0}
<1> USE WidthsAssumption, ReadingsAssumption
<1>1. 2 * Half64 \in Nat \ {0} /\ Page \in Nat \ {0}
  OBVIOUS
<1>2. /\ 2 * Half64 = Page * ((2 * Half64) \div Page) + ((2 * Half64) % Page)
      /\ (2 * Half64) \div Page \in Int
  BY <1>1, DivMod
<1>3. 2 * Half64 = Page * ((2 * Half64) \div Page)
  BY <1>2
<1>4. (2 * Half64) \div Page > 0
  BY <1>1, <1>2, <1>3
<1> QED BY <1>1, <1>2, <1>3, <1>4

(* A difference that 64 bits without a sign hold, or its opposite, comes   *)
(* back as itself or one turn of the 64 bits away: a difference in pages   *)
(* is not in the range of a signed number when a page is one byte.         *)
LEMMA WrappedReadBack ==
  ASSUME NEW v \in Int, 0 - 2 * Half64 < v, v < 2 * Half64
  PROVE  \E turn \in Int : change_find(enigmatic_log_diff(v)) = v + 2 * Half64 * turn
<1> USE WidthsAssumption
<1>1. CASE Fits(v, Half64)
  <2>1. change_find(enigmatic_log_diff(v)) = v + 2 * Half64 * 0
    BY <1>1, DifferenceReadBack
  <2> QED BY <2>1
<1>2. CASE v >= Half64
  <2>1. ~Fits(v, Half8) /\ ~Fits(v, Half16) /\ ~Fits(v, Half32)
    BY <1>2 DEF Fits
  <2>2. enigmatic_log_diff(v) = [change |-> "I64", bits |-> v]
    BY <1>2, <2>1 DEF enigmatic_log_diff, Bits
  <2>3. change_find(enigmatic_log_diff(v)) = v - 2 * Half64
    BY <1>2, <2>2 DEF change_find, SignedOf
  <2>4. change_find(enigmatic_log_diff(v)) = v + 2 * Half64 * (-1)
    BY <2>3
  <2> QED BY <2>4
<1>3. CASE v < 0 - Half64
  <2>1. ~Fits(v, Half8) /\ ~Fits(v, Half16) /\ ~Fits(v, Half32)
    BY <1>3 DEF Fits
  <2>2. enigmatic_log_diff(v) = [change |-> "I64", bits |-> v + 2 * Half64]
    BY <1>3, <2>1 DEF enigmatic_log_diff, Bits
  <2>3. change_find(enigmatic_log_diff(v)) = v + 2 * Half64
    BY <1>3, <2>2 DEF change_find, SignedOf
  <2>4. change_find(enigmatic_log_diff(v)) = v + 2 * Half64 * 1
    BY <2>3
  <2> QED BY <2>4
<1> QED BY <1>1, <1>2, <1>3 DEF Fits

(* So adding pages moves the reading by that many pages, modulo the 64     *)
(* bits, whatever the page.                                                *)
LEMMA PagesAdded ==
  ASSUME NEW value \in Int, NEW pages \in Int,
         0 - 2 * Half64 < pages, pages < 2 * Half64
  PROVE  /\ PlusPages(value, pages) = (value + Page * pages) % (2 * Half64)
         /\ PlusPages(value, pages) \in 0 .. 2 * Half64 - 1
<1> DEFINE M == 2 * Half64
           change == change_find(enigmatic_log_diff(pages))
<1>1. M \in Nat \ {0} /\ Page \in Nat \ {0}
  BY WholePages
<1>2. PICK turn \in Int : change = pages + M * turn
  BY WrappedReadBack
<1>3. PlusPages(value, pages) = (value + Page * change) % M
  BY DEF PlusPages
<1> HIDE DEF M, change
<1>4. value + Page * change = (value + Page * pages) + M * (Page * turn)
  BY <1>1, <1>2
<1>5. value + Page * pages \in Int /\ Page * turn \in Int
  BY <1>1
<1>6. ((value + Page * pages) + M * (Page * turn)) % M = (value + Page * pages) % M
  BY <1>1, <1>5, ModShift
<1>7. (value + Page * pages) % M \in 0 .. M - 1
  BY <1>1, <1>5, DivMod
<1> QED BY <1>3, <1>4, <1>6, <1>7 DEF M

-----------------------------------------------------------------------------
(* A difference of memory leaves the client behind by what it was behind   *)
(* and less than a page more.                                              *)
LEMMA MemoryStep ==
  ASSUME NEW old \in 0 .. 2 * Half64 - 1, NEW new \in 0 .. 2 * Half64 - 1,
         NEW shown \in 0 .. 2 * Half64 - 1, NEW behind \in Nat,
         (old - shown) % (2 * Half64) <= behind
  PROVE  /\ PlusPages(shown, Pages(new, old)) \in 0 .. 2 * Half64 - 1
         /\ (new - PlusPages(shown, Pages(new, old))) % (2 * Half64)
              <= behind + (Page - 1)
<1> DEFINE M == 2 * Half64
           d == Minus(new, old, Half64)
           q == d \div Page
           left == d % Page
           next == PlusPages(shown, q)
           lag == (old - shown) % M
<1>1. M \in Nat \ {0} /\ Page \in Nat \ {0}
  BY WholePages
<1>2. d \in 0 .. M - 1 /\ \E turn \in {0, 1} : d = new - old + M * turn
  <2>1. CASE new < old
    <3>1. d = new - old + M * 1
      BY <2>1, WidthsAssumption DEF Minus, Bits
    <3> QED BY <2>1, <3>1, WidthsAssumption
  <2>2. CASE ~(new < old)
    <3>1. d = new - old + M * 0
      BY <2>2, WidthsAssumption DEF Minus, Bits
    <3> QED BY <2>2, <3>1, WidthsAssumption
  <2> QED BY <2>1, <2>2
<1>3. PICK turn \in Int : d = new - old + M * turn
  BY <1>2
<1>4. old \in Int /\ new \in Int /\ shown \in 0 .. M - 1
  BY <1>1
<1>5. lag <= behind
  OBVIOUS
<1>6. Pages(new, old) = q
  BY DEF Pages
<1> HIDE DEF M, d
<1>7. d = Page * q + left /\ q \in Int /\ left \in 0 .. Page - 1
  <2>1. d \in Int
    BY <1>1, <1>2
  <2> QED BY <1>1, <2>1, DivMod
<1>8. 0 <= q /\ q <= d
  BY <1>1, <1>2, <1>7
<1>9. old - shown = M * ((old - shown) \div M) + lag
      /\ (old - shown) \div M \in Int /\ lag \in 0 .. M - 1
  <2>1. old - shown \in Int
    BY <1>4
  <2> QED BY <1>1, <2>1, DivMod
<1> HIDE DEF q, left, lag
<1>10. next = (shown + Page * q) % M /\ next \in 0 .. M - 1
  <2>1. shown \in Int /\ 0 - M < q /\ q < M
    BY <1>1, <1>2, <1>4, <1>7, <1>8
  <2> QED BY <1>7, <2>1, PagesAdded DEF M
<1>11. shown + Page * q = M * ((shown + Page * q) \div M) + next
       /\ (shown + Page * q) \div M \in Int
  <2>1. shown + Page * q \in Int
    BY <1>1, <1>4, <1>7
  <2> QED BY <1>1, <1>10, <2>1, DivMod
<1>12. PICK k \in Int : old - shown = M * k + lag
  BY <1>9
<1>13. PICK j \in Int : shown + Page * q = M * j + next
  BY <1>11
<1> HIDE DEF next
<1>14. new - next = (left + lag) + M * (k + j - turn)
  <2>1. new - next = (d - M * turn) + (M * k + lag) - Page * q + M * j
    BY <1>1, <1>3, <1>4, <1>7, <1>10, <1>12, <1>13
  <2> QED BY <1>1, <1>7, <1>9, <2>1
<1>15. (new - next) % M <= left + lag
  <2>1. left + lag \in Nat /\ k + j - turn \in Int
    BY <1>1, <1>7, <1>9
  <2>2. ((left + lag) + M * (k + j - turn)) % M <= left + lag
    BY <1>1, <2>1, ModAtMost
  <2> QED BY <1>14, <2>2
<1>16. left + lag <= behind + (Page - 1)
  BY <1>1, <1>5, <1>7, <1>9
<1>17. (new - next) % M <= behind + (Page - 1)
  <2>1. new - next \in Int
    BY <1>4, <1>10
  <2>2. (new - next) % M \in Int
    BY <1>1, <2>1, DivMod
  <2> QED BY <1>1, <1>7, <1>9, <1>15, <1>16, <2>2
<1> QED BY <1>6, <1>10, <1>17 DEF M, next

MemoryInv ==
  /\ used \in Amounts /\ since \in Nat
  /\ shown_used \in 0 .. 2 * Half64 - 1
  /\ MemoryLags

(* A client's memory in use is never above the daemon's, and below it by   *)
(* less than a page for every difference since the last broadcast, for any *)
(* page, any width and any number of differences.                          *)
THEOREM MemoryLagsByPages == Spec => []MemoryLags
<1>0. \A a \in Amounts : a \in 0 .. 2 * Half64 - 1 /\ (a - a) % (2 * Half64) = 0
  <2>1. (0 % (2 * Half64)) = 0
    BY WholePages
  <2> QED BY <2>1, ReadingsAssumption, WholePages
<1>1. Init => MemoryInv
  BY <1>0, ReadingsAssumption DEF Init, MemoryInv, MemoryLags
<1>2. MemoryInv /\ [Next]_vars => MemoryInv'
  <2> SUFFICES ASSUME MemoryInv, [Next]_vars PROVE MemoryInv'
    OBVIOUS
  <2> USE DEF MemoryInv
  <2>1. CASE MemoryMod
    <3>1. PICK new \in Amounts :
            used' = new /\ shown_used' = PlusPages(shown_used, Pages(new, used))
      BY <2>1 DEF MemoryMod
    <3>2. since' = since + 1
      BY <2>1 DEF MemoryMod
    <3>3. since * (Page - 1) \in Nat
      BY WholePages
    <3>4. (used - shown_used) % (2 * Half64) <= since * (Page - 1)
      BY DEF MemoryLags
    <3>5. /\ shown_used' \in 0 .. 2 * Half64 - 1
          /\ (new - shown_used') % (2 * Half64) <= since * (Page - 1) + (Page - 1)
      BY <1>0, <3>1, <3>3, <3>4, MemoryStep
    <3>6. since * (Page - 1) + (Page - 1) = since' * (Page - 1)
      BY <3>2, WholePages
    <3>7. MemoryLags'
      BY <3>1, <3>5, <3>6 DEF MemoryLags
    <3> QED BY <3>1, <3>2, <3>5, <3>7
  <2>2. CASE MemoryRefresh
    BY <1>0, <2>2, WholePages DEF MemoryRefresh, MemoryLags
  <2>3. CASE NetworkMod \/ BatteryMod \/ ProcessMod
    BY <2>3 DEF NetworkMod, BatteryMod, ProcessMod, memory, MemoryLags
  <2>4. CASE UNCHANGED vars
    BY <2>4 DEF vars, memory, MemoryLags
  <2> QED BY <2>1, <2>2, <2>3, <2>4 DEF Next
<1>3. MemoryInv => MemoryLags
  BY DEF MemoryInv
<1> QED BY <1>1, <1>2, <1>3, PTL DEF Spec

-----------------------------------------------------------------------------
(* The page the client's amount lies in is the one the daemon's does.      *)
ProcessInv ==
  /\ rss \in Amounts
  /\ shown_rss \in 0 .. 2 * Half64 - 1
  /\ shown_rss \div Page = rss \div Page

(* A difference of whole pages moves the client's amount from the page of  *)
(* the old reading to the page of the new one, without a turn of the bits. *)
LEMMA ProcessStep ==
  ASSUME NEW old \in 0 .. 2 * Half64 - 1, NEW new \in 0 .. 2 * Half64 - 1,
         NEW shown \in 0 .. 2 * Half64 - 1, shown \div Page = old \div Page
  PROVE  /\ PlusPages(shown, ProcessPages(new, old)) \in 0 .. 2 * Half64 - 1
         /\ PlusPages(shown, ProcessPages(new, old)) \div Page = new \div Page
<1> DEFINE M == 2 * Half64
           last == M \div Page
           q == new \div Page
           r == new % Page
           p == old \div Page
           c == shown % Page
           next == PlusPages(shown, ProcessPages(new, old))
<1>1. /\ M \in Nat \ {0} /\ Page \in Nat \ {0}
      /\ M = Page * last /\ last \in Nat \ {0}
  BY WholePages
<1>0. new \in Int /\ shown \in Int
  BY WidthsAssumption
<1>2. new = Page * q + r /\ q \in Int /\ r \in 0 .. Page - 1
  BY <1>0, <1>1, DivMod
<1>3. shown = Page * p + c /\ p \in Int /\ c \in 0 .. Page - 1
  <2>1. /\ shown = Page * (shown \div Page) + c
        /\ shown \div Page \in Int /\ c \in 0 .. Page - 1
    BY <1>0, <1>1, DivMod
  <2> QED BY <2>1
<1>4. ProcessPages(new, old) = q - p
  BY DEF ProcessPages
<1>5. new \in 0 .. M - 1 /\ shown \in 0 .. M - 1 /\ Half64 \in Int
  BY WidthsAssumption
<1> HIDE DEF M, last, q, r, p, c
<1>6. q >= 0 /\ q <= new /\ p >= 0 /\ p <= shown
  <2>1. q >= 0 /\ p >= 0
    BY <1>1, <1>2, <1>3, <1>5
  <2>2. Page * q >= q /\ Page * p >= p
    BY <1>1, <1>2, <1>3, <2>1
  <2> QED BY <1>1, <1>2, <1>3, <1>5, <2>1, <2>2
<1>7. 0 - M < q - p /\ q - p < M
  BY <1>1, <1>2, <1>3, <1>5, <1>6
<1>8. next = (shown + Page * (q - p)) % M
  BY <1>2, <1>3, <1>4, <1>5, <1>7, PagesAdded DEF M
<1>9. shown + Page * (q - p) = Page * q + c
  BY <1>1, <1>2, <1>3
<1>10. q < last
  BY <1>1, <1>2, <1>5
<1>11. Page * q + c \in 0 .. M - 1
  <2>1. Page * q + Page <= Page * last
    BY <1>1, <1>2, <1>10
  <2>2. Page * q >= 0
    BY <1>1, <1>2, <1>6
  <2> QED BY <1>1, <1>2, <1>3, <2>1, <2>2
<1>12. next = Page * q + c
  <2>1. (Page * q + c) % M = Page * q + c
    BY <1>1, <1>11, SmallMod
  <2> QED BY <1>8, <1>9, <2>1
<1>13. next \div Page = q
  <2>1. Page \in Nat \ {0} /\ q \in Int /\ c \in 0 .. Page - 1
    BY <1>1, <1>2, <1>3
  <2>2. (Page * q + c) \div Page = q
    BY <2>1, DivModIs, Zenon
  <2> QED BY <1>12, <2>2, Zenon
<1> QED BY <1>11, <1>12, <1>13 DEF M, q

(* The memory shown for a process is right to the page, for any page, any  *)
(* width and any number of differences.                                    *)
THEOREM ProcessRight == Spec => []ProcessRightToThePage
<1>1. Init => ProcessInv
  BY ReadingsAssumption DEF Init, ProcessInv
<1>2. ProcessInv /\ [Next]_vars => ProcessInv'
  <2> SUFFICES ASSUME ProcessInv, [Next]_vars PROVE ProcessInv'
    OBVIOUS
  <2> USE DEF ProcessInv
  <2>1. CASE ProcessMod
    <3>1. PICK new \in Amounts :
            /\ rss' = new
            /\ shown_rss' = IF ProcessPages(new, rss) = 0 THEN shown_rss
                            ELSE PlusPages(shown_rss, ProcessPages(new, rss))
      BY <2>1 DEF ProcessMod
    <3>2. rss \in 0 .. 2 * Half64 - 1 /\ new \in 0 .. 2 * Half64 - 1
      BY ReadingsAssumption
    <3>3. CASE ProcessPages(new, rss) = 0
      <4>1. rss \div Page \in Int /\ new \div Page \in Int
        BY <3>2, WholePages, DivMod
      <4>2. rss \div Page = new \div Page
        BY <3>3, <4>1 DEF ProcessPages
      <4> QED BY <3>1, <3>3, <4>2
    <3>4. CASE ProcessPages(new, rss) # 0
      BY <3>1, <3>2, <3>4, ProcessStep
    <3> QED BY <3>3, <3>4
  <2>2. CASE NetworkMod \/ BatteryMod \/ MemoryMod \/ MemoryRefresh
    BY <2>2 DEF NetworkMod, BatteryMod, MemoryMod, MemoryRefresh, process
  <2>3. CASE UNCHANGED vars
    BY <2>3 DEF vars, process
  <2> QED BY <2>1, <2>2, <2>3 DEF Next
<1>3. ProcessInv => ProcessRightToThePage
  <2> SUFFICES ASSUME ProcessInv PROVE ProcessRightToThePage
    OBVIOUS
  <2> DEFINE M == 2 * Half64
             p == rss \div Page
  <2>1. /\ M \in Nat \ {0} /\ Page \in Nat \ {0}
        /\ M = Page * (M \div Page) /\ M \div Page \in Nat \ {0}
    BY WholePages
  <2>2. M >= Page
    BY <2>1
  <2>3. rss \in Nat /\ shown_rss \in Nat
    BY ReadingsAssumption, <2>1 DEF ProcessInv
  <2>4. rss = Page * p + (rss % Page) /\ p \in Int /\ rss % Page \in 0 .. Page - 1
    <3>1. rss \in Int
      BY <2>3
    <3> QED BY <2>1, <3>1, DivMod
  <2>5. shown_rss = Page * p + (shown_rss % Page) /\ shown_rss % Page \in 0 .. Page - 1
    <3>1. shown_rss \in Int
      BY <2>3
    <3>2. /\ shown_rss = Page * (shown_rss \div Page) + (shown_rss % Page)
          /\ shown_rss % Page \in 0 .. Page - 1
      BY <2>1, <3>1, DivMod
    <3> QED BY <3>2 DEF ProcessInv
  <2>6. \A a \in Nat : a < Page => a % M = a
    <3> TAKE a \in Nat
    <3> HAVE a < Page
    <3>1. a \in 0 .. M - 1
      BY <2>1, <2>2
    <3> QED BY <2>1, <3>1, SmallMod
  <2>7. CASE rss >= shown_rss
    <3>1. rss - shown_rss \in Nat /\ rss - shown_rss < Page
      BY <2>1, <2>3, <2>4, <2>5, <2>7
    <3> QED BY <2>6, <3>1 DEF ProcessRightToThePage
  <2>8. CASE rss < shown_rss
    <3>1. shown_rss - rss \in Nat /\ shown_rss - rss < Page
      BY <2>1, <2>3, <2>4, <2>5, <2>8
    <3> QED BY <2>6, <3>1 DEF ProcessRightToThePage
  <2> QED BY <2>3, <2>7, <2>8
<1> QED BY <1>1, <1>2, <1>3, PTL DEF Spec

-----------------------------------------------------------------------------
(* Lz4Block *)

(* Division, and what is left over. *)
LEMMA DivModOf ==
  ASSUME NEW a \in Int, NEW n \in Nat \ {0}
  PROVE  a = n * (a \div n) + (a % n) /\ a \div n \in Int /\ a % n \in 0 .. n - 1
OBVIOUS

(* The quotient and the rest are told by their sum. *)
LEMMA DivModAre ==
  ASSUME NEW n \in Nat \ {0}, NEW q \in Int, NEW r \in 0 .. n - 1
  PROVE  (n * q + r) % n = r /\ (n * q + r) \div n = q
OBVIOUS

(* Some number of a set is the least. *)
LEMMA LeastExists ==
  ASSUME NEW S \in SUBSET Nat, S # {}
  PROVE  \E x \in S : \A j \in S : x <= j
<1>1. PICK x \in S : \A y \in S : ~ (<<y, x>> \in OpToRel(<, Nat))
  BY WFMin, NatLessThanWellFounded, Zenon
<1>2. \A y \in S : ~ (y < x)
  <2>1. SUFFICES ASSUME NEW y \in S, y < x PROVE <<y, x>> \in OpToRel(<, Nat)
    BY <1>1, Zenon
  <2>2. <<y, x>> \in Nat \X Nat /\ <<y, x>>[1] = y /\ <<y, x>>[2] = x
    OBVIOUS
  <2>3. <<y, x>>[1] < <<y, x>>[2]
    BY <2>1, <2>2
  <2> QED BY <2>2, <2>3, Zenon DEF OpToRel
<1>3. \A y \in S : x <= y
  BY <1>2
<1> QED BY <1>3

(* How many bytes tell what the nibble of a length does not.              *)
Extra(n, mask) == IF n < mask THEN 0 ELSE (n - mask) \div BYTE_MAX + 1

(* A number by its quotient and its rest. *)
LEMMA QuotientIs ==
  ASSUME NEW n \in Nat \ {0}, NEW q \in Int, NEW r \in 0 .. n - 1, NEW x, x = n * q + r
  PROVE  x % n = r /\ x \div n = q
OBVIOUS

(* A quotient is the largest factor. *)
LEMMA AtMostQuotient ==
  ASSUME NEW b \in Nat \ {0}, NEW a \in Nat, NEW k \in Int, b * k <= a
  PROVE  k <= a \div b /\ a \div b \in Nat
<1>1. PICK q : q = a \div b
  OBVIOUS
<1>2. q \in Int /\ a < b * q + b /\ a >= b * q
  BY <1>1, DivModOf
<1>3. ASSUME k >= q + 1 PROVE FALSE
  <2>1. b * k >= b * (q + 1) /\ b * (q + 1) = b * q + b
    BY <1>2, <1>3
  <2> QED BY <1>2, <2>1
<1>4. ASSUME q <= -1 PROVE FALSE
  <2>1. b * q <= b * (-1) /\ b * (-1) = -b
    BY <1>2, <1>4
  <2> QED BY <1>2, <2>1
<1> QED BY <1>1, <1>2, <1>3, <1>4

(* The constants, one by one. *)
LEMMA Limits ==
  /\ MINMATCH \in Nat /\ LASTLITERALS \in Nat /\ MFLIMIT \in Nat
  /\ WILDCOPYLENGTH \in Nat \ {0} /\ DISTANCE_MAX \in Nat /\ RUN_MASK \in Nat \ {0}
  /\ ML_MASK \in Nat \ {0} /\ BYTE_MAX \in Nat \ {0} /\ SLACK \in Nat
  /\ MFLIMIT >= MINMATCH + LASTLITERALS /\ MFLIMIT >= WILDCOPYLENGTH
  /\ 3 + LASTLITERALS >= WILDCOPYLENGTH
  /\ 3 < MINMATCH /\ MINMATCH <= WILDCOPYLENGTH /\ 2 <= LASTLITERALS /\ 2 <= SLACK
  /\ RUN_MASK <= BYTE_MAX /\ 2 <= ML_MASK /\ ML_MASK <= BYTE_MAX
BY LimitsAssumption

(* What is copied without a look at the end is shorter than the distance.  *)
LEMMA FastLimits ==
  /\ STRIPE \in Nat \ {0} /\ FASTLOOP_SAFE_DISTANCE \in Nat
  /\ MaxLL = RUN_MASK - 1 /\ MaxLL \in Nat
  /\ MaxML \in Nat /\ MaxLL <= STRIPE /\ STRIPE <= MaxLL + MaxML
  /\ 2 * STRIPE <= FASTLOOP_SAFE_DISTANCE /\ 2 * WILDCOPYLENGTH <= FASTLOOP_SAFE_DISTANCE
  /\ MaxML <= FASTLOOP_SAFE_DISTANCE
BY LimitsAssumption DEF MaxLL, MaxML

(* An extension takes a byte more than the full ones it has. *)
LEMMA ExtraIs ==
  ASSUME NEW n \in Nat, NEW mask \in Nat \ {0}, mask <= BYTE_MAX
  PROVE  /\ Extra(n, mask) \in Nat
         /\ Extra(n, mask) <= n \div BYTE_MAX + 1 /\ n \div BYTE_MAX \in Nat
         /\ Extra(n, mask) = (n + BYTE_MAX - mask) \div BYTE_MAX
         /\ n < mask => Extra(n, mask) = 0
         /\ n >= mask => /\ Extra(n, mask) >= 1
                         /\ BYTE_MAX * (Extra(n, mask) - 1) <= n - mask
                         /\ (Extra(n, mask) - 1) * BYTE_MAX + ((n - mask) % BYTE_MAX) = n - mask
                         /\ (n - mask) % BYTE_MAX \in 0 .. BYTE_MAX - 1
<1>b. BYTE_MAX \in Nat \ {0}
  BY Limits
<1>0. n \div BYTE_MAX \in Nat
  <2>1. BYTE_MAX * 0 <= n
    BY <1>b
  <2> QED BY <2>1, <1>b, AtMostQuotient
<1>1. CASE n < mask
  <2>1. BYTE_MAX * 0 + (n + BYTE_MAX - mask) = n + BYTE_MAX - mask
        /\ n + BYTE_MAX - mask \in 0 .. BYTE_MAX - 1
    BY <1>1, <1>b
  <2>2. (n + BYTE_MAX - mask) \div BYTE_MAX = 0
    BY <2>1, <1>b, DivModAre
  <2>3. Extra(n, mask) = 0
    BY <1>1 DEF Extra
  <2> QED BY <2>2, <2>3, <1>0, <1>1
<1>2. CASE n >= mask
  <2>1. PICK x \in Nat : x = n - mask
    BY <1>2
  <2>2. PICK q \in Int : q = x \div BYTE_MAX
    BY <1>b, <2>1, DivModOf
  <2>3. PICK r \in 0 .. BYTE_MAX - 1 : r = x % BYTE_MAX
    BY <1>b, <2>1, DivModOf
  <2>4. x = BYTE_MAX * q + r
    BY <2>1, <2>2, <2>3, <1>b, DivModOf
  <2>5. BYTE_MAX * q <= x
    BY <2>3, <2>4, <1>b
  <2>6. q \in Nat
    <3>1. BYTE_MAX * 0 <= x
      BY <1>b
    <3> QED BY <3>1, <1>b, <2>2, AtMostQuotient
  <2>7. q <= n \div BYTE_MAX
    <3>1. BYTE_MAX * q <= n
      BY <2>1, <2>5, <2>6, <1>b
    <3> QED BY <3>1, <1>b, <2>6, AtMostQuotient
  <2>8. Extra(n, mask) = q + 1
    BY <1>2, <2>1, <2>2 DEF Extra
  <2>9. (n + BYTE_MAX - mask) \div BYTE_MAX = q + 1
    <3>1. n + BYTE_MAX - mask = x + BYTE_MAX
      BY <2>1, <1>b
    <3>2. x + BYTE_MAX = BYTE_MAX * (q + 1) + r
      BY <2>4, <2>6, <1>b
    <3>3. PICK z : z = n + BYTE_MAX - mask
      OBVIOUS
    <3>4. z = BYTE_MAX * (q + 1) + r /\ q + 1 \in Int
      BY <3>1, <3>2, <3>3, <2>6
    <3>5. z \div BYTE_MAX = q + 1
      BY <3>4, <2>3, <1>b, QuotientIs
    <3> QED BY <3>3, <3>5
  <2>10. q * BYTE_MAX + r = x
    BY <2>4, <2>6, <1>b
  <2>11. Extra(n, mask) - 1 = q /\ Extra(n, mask) >= 1 /\ Extra(n, mask) \in Nat
    BY <2>6, <2>8
  <2>12. Extra(n, mask) <= n \div BYTE_MAX + 1
    BY <2>6, <2>7, <2>8, <1>0
  <2>13. (n - mask) % BYTE_MAX = r /\ n - mask = x
    BY <2>1, <2>3
  <2>14. BYTE_MAX * (Extra(n, mask) - 1) <= n - mask
    BY <2>5, <2>11, <2>13
  <2>15. (Extra(n, mask) - 1) * BYTE_MAX + ((n - mask) % BYTE_MAX) = n - mask
    BY <2>10, <2>11, <2>13
  <2>16. (n - mask) % BYTE_MAX \in 0 .. BYTE_MAX - 1
    BY <2>3, <2>13
  <2>17. Extra(n, mask) = (n + BYTE_MAX - mask) \div BYTE_MAX
    BY <2>8, <2>9
  <2>18. ~(n < mask)
    BY <1>2
  <2> QED BY <1>0, <2>11, <2>12, <2>14, <2>15, <2>16, <2>17, <2>18
<1> QED BY <1>1, <1>2

(* The bytes themselves. *)
LEMMA ExtensionIs ==
  ASSUME NEW n \in Nat, NEW mask \in Nat \ {0}, mask <= BYTE_MAX
  PROVE  /\ Extension(n, mask) \in Seq(Nat) /\ Len(Extension(n, mask)) = Extra(n, mask)
         /\ n >= mask =>
              /\ \A i \in 1 .. Extra(n, mask) - 1 : Extension(n, mask)[i] = BYTE_MAX
              /\ Extension(n, mask)[Extra(n, mask)] = (n - mask) % BYTE_MAX
<1>1. CASE n < mask
  BY <1>1 DEF Extension, Extra
<1>2. CASE n >= mask
  <2>1. PICK q : q = (n - mask) \div BYTE_MAX
    OBVIOUS
  <2>2. PICK r : r = (n - mask) % BYTE_MAX
    OBVIOUS
  <2>3. Extra(n, mask) = q + 1 /\ q \in Nat /\ r \in Nat /\ BYTE_MAX \in Nat
    <3>1. Extra(n, mask) = q + 1
      BY <1>2, <2>1 DEF Extra
    <3>2. q \in Int
      BY <2>1, <1>2, Limits, DivModOf
    <3> QED BY <3>1, <3>2, <1>2, <2>2, ExtraIs, Limits
  <2>4. Extension(n, mask) = [i \in 1 .. q + 1 |-> IF i <= q THEN BYTE_MAX ELSE r]
    BY <1>2, <2>1, <2>2 DEF Extension
  <2> QED BY <1>2, <2>2, <2>3, <2>4
<1> QED BY <1>1, <1>2

(* What the decoder makes of a token. *)
LEMMA TokenIs ==
  ASSUME NEW n \in Nat, NEW c \in Nat
  PROVE  /\ Token(n, c) \in Nat /\ Token(n, 0) + Nibble(c, ML_MASK) = Token(n, c)
         /\ Token(n, c) \div (ML_MASK + 1) = Nibble(n, RUN_MASK)
         /\ Token(n, c) % (ML_MASK + 1) = Nibble(c, ML_MASK)
<1>1. Nibble(n, RUN_MASK) \in Nat /\ Nibble(c, ML_MASK) \in 0 .. ML_MASK /\ Nibble(0, ML_MASK) = 0
  BY Limits DEF Nibble
<1>2. PICK a \in Nat : a = Nibble(n, RUN_MASK)
  BY <1>1
<1>3. PICK b \in 0 .. ML_MASK : b = Nibble(c, ML_MASK)
  BY <1>1
<1>4. PICK m \in Nat \ {0} : m = ML_MASK + 1
  BY Limits
<1>5. Token(n, c) = m * a + b /\ Token(n, 0) = m * a + 0
  <2>1. a * m = m * a
    BY <1>2, <1>4
  <2> QED BY <1>1, <1>2, <1>3, <1>4, <2>1 DEF Token
<1>6. m * a \in Nat
  BY <1>2, <1>4
<1>7. b \in 0 .. m - 1
  BY <1>3, <1>4, Limits
<1>8. PICK x \in Nat : x = m * a + b
  BY <1>6, <1>3
<1>9. x % m = b /\ x \div m = a
  BY <1>8, <1>7, <1>2, <1>4, QuotientIs
<1>10. Token(n, 0) + b = x
  BY <1>5, <1>6, <1>8, <1>3
<1> QED BY <1>2, <1>3, <1>4, <1>5, <1>8, <1>9, <1>10

(* The end of a copy in steps. *)
LEMMA StepsEnd ==
  ASSUME NEW width \in Nat \ {0}, NEW from \in Nat, NEW n \in Nat
  PROVE  /\ CopyInSteps(width, from, from + n) \in Nat
         /\ CopyInSteps(width, from, from + n) <= from + Larger(n, 1) + width - 1
<1>1. PICK x \in Nat : x = Larger(n, 1) - 1
  BY DEF Larger
<1>2. PICK q : q = x \div width
  OBVIOUS
<1>3. width * q <= x /\ q \in Nat
  <2>1. width * 0 <= x
    OBVIOUS
  <2>2. q \in Nat
    BY <2>1, <1>2, AtMostQuotient
  <2> QED BY <2>2, <1>2, DivModOf
<1>4. CopyInSteps(width, from, from + n) = from + width * (1 + q)
  <2>1. (from + n) - from = n
    OBVIOUS
  <2> QED BY <2>1, <1>1, <1>2 DEF CopyInSteps
<1>5. width * (1 + q) = width + width * q /\ width * q \in Nat
  BY <1>3
<1>6. Larger(n, 1) = x + 1
  BY <1>1 DEF Larger
<1> QED BY <1>3, <1>4, <1>5, <1>6

(* The end of a copy of whole words. *)
LEMMA WildCopyEnds ==
  ASSUME NEW from \in Nat, NEW n \in Nat
  PROVE  /\ wildCopy(from, from + n) \in Nat
         /\ wildCopy(from, from + n) <= from + Larger(n, 1) + WILDCOPYLENGTH - 1
BY Limits, StepsEnd DEF wildCopy

(* The full bytes of a length, four at a time, are three too many at most. *)
LEMMA FullBytesAre ==
  ASSUME NEW c \in Nat
  PROVE  /\ FullBytes(c) \in Nat
         /\ FullBytes(c) <= Extra(c, ML_MASK) + 3
         /\ c < ML_MASK => FullBytes(c) = 0
<1>1. CASE c < ML_MASK
  BY <1>1, ExtraIs, Limits DEF FullBytes
<1>2. CASE c >= ML_MASK
  <2>1. PICK x \in Nat : x = c - ML_MASK
    BY <1>2, Limits
  <2>2. PICK m \in Nat \ {0} : m = 4 * BYTE_MAX
    BY Limits
  <2>3. PICK y : y = x \div m
    OBVIOUS
  <2>4. y \in Nat /\ m * y <= x
    <3>1. m * 0 <= x
      BY <2>2
    <3>2. y \in Nat
      BY <3>1, <2>2, <2>3, AtMostQuotient
    <3>a. x \in Int
      BY <2>1
    <3>0. x = m * (x \div m) + (x % m) /\ x % m \in 0 .. m - 1
      BY <3>a, DivModOf
    <3>3. x = m * y + (x % m) /\ x % m \in 0 .. m - 1
      BY <2>3, <3>0
    <3>4. m * y \in Nat
      BY <3>2, <2>2
    <3> QED BY <3>2, <3>3, <3>4, <2>2
  <2>5. BYTE_MAX * (4 * y) <= x
    <3>1. m * y = BYTE_MAX * (4 * y)
      BY <2>2, <2>4, Limits
    <3> QED BY <3>1, <2>4
  <2>6. 4 * y \in Int /\ 4 * y <= x \div BYTE_MAX
    BY <2>4, <2>5, Limits, AtMostQuotient
  <2>7. Extra(c, ML_MASK) = x \div BYTE_MAX + 1 /\ Extra(c, ML_MASK) \in Nat
    BY <1>2, <2>1, ExtraIs, Limits DEF Extra
  <2>8. FullBytes(c) = 4 * (1 + y) /\ ~(c < ML_MASK)
    BY <1>2, <2>1, <2>2, <2>3, Limits DEF FullBytes
  <2>9. x \div BYTE_MAX \in Int
    BY Limits, DivModOf
  <2> QED BY <2>4, <2>6, <2>7, <2>8, <2>9
<1> QED BY <1>1, <1>2, Limits

(* The input, which never changes.                                         *)
Start == Len(past)

InputInv ==
  /\ past \in Seq(Letters) /\ source \in Seq(Letters) /\ Len(source) > 0
  /\ capacity \in {LZ4_compressBound(Len(source)), Len(source) - 1}
  /\ outputSize \in Nat /\ Len(source) <= outputSize

(* What is said at each place. *)
LEMMA AllIs ==
  ASSUME InputInv
  PROVE  /\ Start \in Nat /\ Len(source) \in Nat \ {0} /\ iend = Start + Len(source)
         /\ all \in Seq(Nat) /\ Len(all) = iend /\ iend \in Nat
         /\ past \in Seq(Nat) /\ source \in Seq(Nat)
         /\ \A i \in 1 .. Start : all[i] = past[i]
         /\ \A i \in 1 .. Len(source) : all[Start + i] = source[i]
<1>1. Letters \subseteq Nat
  BY InputsAssumption, Limits
<1>2. past \in Seq(Nat) /\ source \in Seq(Nat)
  BY <1>1, SeqMonotonic DEF InputInv
<1>3. /\ past \o source \in Seq(Nat) /\ Len(past \o source) = Len(past) + Len(source)
      /\ \A i \in 1 .. Len(past) + Len(source) :
           (past \o source)[i] = IF i <= Len(past) THEN past[i] ELSE source[i - Len(past)]
  BY <1>2, ConcatProperties
<1>4. Len(past) \in Nat /\ Len(source) \in Nat
  BY <1>2
<1>5. \A i \in 1 .. Len(past) : (past \o source)[i] = past[i]
  BY <1>3, <1>4
<1>6. \A i \in 1 .. Len(source) : (past \o source)[Len(past) + i] = source[i]
  BY <1>3, <1>4
<1> QED BY <1>2, <1>3, <1>4, <1>5, <1>6 DEF all, iend, Start, InputInv

-----------------------------------------------------------------------------
(* A says all.  A sequence in d: at p a token and n literals, which are    *)
(* what is said from place v on.                                           *)
Run(n)  == Extra(n, RUN_MASK)
Rest(c) == Extra(c, ML_MASK)

(* Where the literals end. *)
AfterRun(p, n) == p + 1 + Run(n) + n

LiteralsAt(A, d, p, v, n, c) ==
  /\ d[p + 1] = Token(n, c)
  /\ \A i \in 1 .. Run(n) : d[p + 1 + i] = Extension(n, RUN_MASK)[i]
  /\ \A i \in 1 .. n : d[p + 1 + Run(n) + i] = A[v + i]

(* At o an offset and the length of a match: what is said from place w on  *)
(* was said from place q on.                                               *)
Matching(A, w, q, n) == q \in Nat /\ w \in Nat /\ q < w /\ \A i \in 1 .. n : A[w + i] = A[q + i]

MatchAt(d, o, w, q, c) ==
  /\ d[o + 1] = (w - q) % (BYTE_MAX + 1) /\ d[o + 2] = (w - q) \div (BYTE_MAX + 1)
  /\ \A i \in 1 .. Rest(c) : d[o + 2 + i] = Extension(c, ML_MASK)[i]

(* L gives, for each place of d where a sequence begins, the place of the  *)
(* input it goes on from; b is the last one.                               *)
Leads(A, L, d, p, n, q, c) ==
  LET o == AfterRun(p, n)
      w == L[p] + n
      r == o + 2 + Rest(c)
  IN /\ n \in Nat /\ c \in Nat
     /\ LiteralsAt(A, d, p, L[p], n, c) /\ MatchAt(d, o, w, q, c)
     /\ Matching(A, w, q, MINMATCH + c)
     /\ w <= Len(A) - MFLIMIT /\ w + MINMATCH + c <= Len(A) - LASTLITERALS
     /\ r \in DOMAIN L /\ L[r] = w + MINMATCH + c

LaidOut(A, s, L, d, b) ==
  /\ DOMAIN L \subseteq 0 .. b /\ b \in DOMAIN L /\ 0 \in DOMAIN L /\ L[0] = s
  /\ \A p \in DOMAIN L : /\ L[p] \in Nat /\ L[p] >= s
                         /\ p > 0 => L[p] <= Len(A) - LASTLITERALS
                         /\ p # b => \E n, q, c : Leads(A, L, d, p, n, q, c)

(* A sequence stays where it is while what comes behind it changes. *)
LEMMA LeadsStay ==
  ASSUME NEW A, NEW L, NEW M, NEW d, NEW e, NEW p \in Nat, NEW b \in Nat, NEW n, NEW q, NEW c,
         Leads(A, L, d, p, n, q, c), DOMAIN L \subseteq 0 .. b,
         \A i \in 1 .. b : e[i] = d[i],
         DOMAIN L \subseteq DOMAIN M, \A i \in DOMAIN L : M[i] = L[i], p \in DOMAIN L
  PROVE  Leads(A, M, e, p, n, q, c)
<1>1. n \in Nat /\ c \in Nat
  BY DEF Leads
<1>2. Run(n) \in Nat /\ Rest(c) \in Nat
  BY <1>1, ExtraIs, Limits DEF Run, Rest
<1>3. PICK o \in Nat : o = AfterRun(p, n) /\ o = p + 1 + Run(n) + n
  BY <1>1, <1>2 DEF AfterRun
<1>4. PICK r \in Nat : r = o + 2 + Rest(c)
  BY <1>2, <1>3
<1>5. /\ LiteralsAt(A, d, p, L[p], n, c) /\ MatchAt(d, o, L[p] + n, q, c)
      /\ r \in DOMAIN L /\ r <= b
      /\ Matching(A, L[p] + n, q, MINMATCH + c)
      /\ L[p] + n <= Len(A) - MFLIMIT /\ L[p] + n + MINMATCH + c <= Len(A) - LASTLITERALS
      /\ L[r] = L[p] + n + MINMATCH + c
  BY <1>3, <1>4 DEF Leads
<1>6. M[p] = L[p] /\ M[r] = L[r] /\ r \in DOMAIN M
  BY <1>5
<1>7. o = p + 1 + Run(n) + n /\ o + 2 + Rest(c) <= b
  BY <1>3, <1>4, <1>5
<1>8. LiteralsAt(A, e, p, L[p], n, c)
  <2>1. e[p + 1] = d[p + 1]
    <3>1. p + 1 \in 1 .. b
      BY <1>1, <1>2, <1>7
    <3> QED BY <3>1
  <2>2. ASSUME NEW i \in 1 .. Run(n) PROVE e[p + 1 + i] = d[p + 1 + i]
    <3>1. p + 1 + i \in 1 .. b
      BY <1>1, <1>2, <1>7
    <3> QED BY <3>1
  <2>3. ASSUME NEW i \in 1 .. n PROVE e[p + 1 + Run(n) + i] = d[p + 1 + Run(n) + i]
    <3>1. p + 1 + Run(n) + i \in 1 .. b
      BY <1>1, <1>2, <1>7
    <3> QED BY <3>1
  <2> QED BY <1>5, <2>1, <2>2, <2>3 DEF LiteralsAt
<1>9. MatchAt(e, o, L[p] + n, q, c)
  <2>1. e[o + 1] = d[o + 1] /\ e[o + 2] = d[o + 2]
    <3>1. o + 1 \in 1 .. b /\ o + 2 \in 1 .. b
      BY <1>2, <1>7
    <3> QED BY <3>1
  <2>2. ASSUME NEW i \in 1 .. Rest(c) PROVE e[o + 2 + i] = d[o + 2 + i]
    <3>1. o + 2 + i \in 1 .. b
      BY <1>2, <1>7
    <3> QED BY <3>1
  <2> QED BY <1>5, <2>1, <2>2 DEF MatchAt
<1> QED BY <1>1, <1>3, <1>4, <1>5, <1>6, <1>8, <1>9 DEF Leads

(* What is appended, or changed behind the last place, changes nothing. *)
LEMMA LaidOutStays ==
  ASSUME NEW A, NEW s, NEW L, NEW d, NEW e, NEW b \in Nat, LaidOut(A, s, L, d, b), \A i \in 1 .. b : e[i] = d[i]
  PROVE  LaidOut(A, s, L, e, b)
<1>1. ASSUME NEW p \in DOMAIN L, p # b
      PROVE  \E n, q, c : Leads(A, L, e, p, n, q, c)
  <2>1. PICK n, q, c : Leads(A, L, d, p, n, q, c)
    BY <1>1 DEF LaidOut
  <2>2. p \in Nat /\ DOMAIN L \subseteq 0 .. b
    BY DEF LaidOut
  <2>3. Leads(A, L, e, p, n, q, c)
    BY <2>1, <2>2, LeadsStay
  <2> QED BY <2>3
<1> QED BY <1>1 DEF LaidOut

(* The place v of the input was reached at b. *)
Laid(A, s, d, b, v) == \E L : LaidOut(A, s, L, d, b) /\ L[b] = v

(* One sequence more. *)
LEMMA LaidGrows ==
  ASSUME NEW A, NEW s \in Nat, Len(A) \in Nat, NEW d, NEW b \in Nat, NEW v, Laid(A, s, d, b, v),
         NEW n \in Nat, NEW q, NEW c \in Nat, NEW w, w = v + n, NEW z, z = w + MINMATCH + c,
         NEW r \in Nat, r = AfterRun(b, n) + 2 + Rest(c),
         LiteralsAt(A, d, b, v, n, c), MatchAt(d, AfterRun(b, n), w, q, c),
         Matching(A, w, q, MINMATCH + c), w <= Len(A) - MFLIMIT, z <= Len(A) - LASTLITERALS
  PROVE  Laid(A, s, d, r, z)
<1>0. PICK L : LaidOut(A, s, L, d, b) /\ L[b] = v
  BY DEF Laid
<1> DEFINE M == [p \in DOMAIN L \cup {r} |-> IF p = r THEN z ELSE L[p]]
<1>1. /\ DOMAIN L \subseteq 0 .. b /\ b \in DOMAIN L /\ 0 \in DOMAIN L /\ L[0] = s
      /\ \A p \in DOMAIN L : /\ L[p] \in Nat /\ L[p] >= s
                             /\ p > 0 => L[p] <= Len(A) - LASTLITERALS
                             /\ p # b => \E k, l, m : Leads(A, L, d, p, k, l, m)
  BY <1>0 DEF LaidOut
<1>2. Run(n) \in Nat /\ Rest(c) \in Nat /\ MINMATCH \in Nat
  BY ExtraIs, Limits DEF Run, Rest
<1>3. r > b /\ r \notin DOMAIN L /\ DOMAIN M = DOMAIN L \cup {r} /\ 0 # r
  <2>1. r > b
    BY SMTT(20), <1>2 DEF AfterRun
  <2>2. r \notin DOMAIN L
    BY <2>1, <1>1
  <2> QED BY <2>1, <2>2
<1>4. M[r] = z /\ \A p \in DOMAIN L : M[p] = L[p]
  BY <1>3
<1> HIDE DEF M
<1>6. ASSUME NEW p \in DOMAIN M
      PROVE  /\ M[p] \in Nat /\ M[p] >= s /\ (p > 0 => M[p] <= Len(A) - LASTLITERALS)
             /\ p # r => \E k, l, m : Leads(A, M, d, p, k, l, m)
  <2>1. CASE p = r
    <3>1. M[p] = v + n + MINMATCH + c /\ v \in Nat /\ v >= s
      BY <2>1, <1>0, <1>1, <1>4
    <3> QED BY <3>1, <2>1, <1>2
  <2>2. CASE p = b
    <3>1. M[b] = L[b]
      BY <1>1, <1>4
    <3>2. Leads(A, M, d, b, n, q, c)
      BY <3>1, <1>0, <1>1, <1>3, <1>4 DEF Leads
    <3> QED BY <3>1, <3>2, <2>2, <1>1
  <2>3. CASE p # r /\ p # b
    <3>1. p \in DOMAIN L /\ M[p] = L[p] /\ p \in Nat
      BY <2>3, <1>1, <1>3, <1>4
    <3>2. PICK k, l, m : Leads(A, L, d, p, k, l, m)
      BY <3>1, <2>3, <1>1
    <3>3. Leads(A, M, d, p, k, l, m)
      BY <3>1, <3>2, <1>1, <1>3, <1>4, LeadsStay
    <3> QED BY <3>1, <3>3, <1>1
  <2> QED BY <2>1, <2>2, <2>3
<1>7. DOMAIN M \subseteq 0 .. r /\ r \in DOMAIN M /\ 0 \in DOMAIN M /\ M[0] = s
  BY <1>1, <1>3, <1>4
<1>8. LaidOut(A, s, M, d, r)
  BY <1>6, <1>7 DEF LaidOut
<1> QED BY <1>4, <1>8 DEF Laid

(* One sequence behind another. *)
Together(e, a, b) ==
  /\ e \in Seq(Nat) /\ Len(e) = Len(a) + Len(b)
  /\ \A i \in 1 .. Len(a) : e[i] = a[i]
  /\ \A i \in 1 .. Len(b) : e[Len(a) + i] = b[i]

(* What two sequences say, one behind the other. *)
LEMMA Joined ==
  ASSUME NEW a \in Seq(Nat), NEW b \in Seq(Nat), NEW e, e = a \o b
  PROVE  Together(e, a, b)
<1>1. PICK m \in Nat : m = Len(a)
  BY LenProperties
<1>2. PICK k \in Nat : k = Len(b)
  BY LenProperties
<1>3. /\ e \in Seq(Nat) /\ Len(e) = m + k
      /\ \A i \in 1 .. m + k : e[i] = IF i <= m THEN a[i] ELSE b[i - m]
  BY <1>1, <1>2, ConcatProperties
<1>4. ASSUME NEW i \in 1 .. m PROVE e[i] = a[i]
  <2>1. i \in 1 .. m + k /\ i <= m
    BY <1>1
  <2> QED BY <2>1, <1>3
<1>5. ASSUME NEW i \in 1 .. k PROVE e[m + i] = b[i]
  <2>1. PICK j : j = m + i
    OBVIOUS
  <2>2. j \in 1 .. m + k /\ ~(j <= m) /\ j - m = i
    BY <2>1, <1>1
  <2> QED BY <2>1, <2>2, <1>3
<1> QED BY <1>1, <1>2, <1>3, <1>4, <1>5 DEF Together

(* A token and literals appended. *)
RunTold(A, d, e, from, n) ==
  /\ e \in Seq(Nat) /\ Len(e) = AfterRun(Len(d), n)
  /\ \A i \in 1 .. Len(d) : e[i] = d[i]
  /\ LiteralsAt(A, e, Len(d), from, n, 0)

(* A token, the length of the literals and the literals, as EncodeLiterals *)
(* and LastLiterals append them, tell the run of literals.                 *)
LEMMA RunAppended ==
  ASSUME InputInv, NEW d \in Seq(Nat), NEW from \in Nat, NEW n \in Nat, from + n <= iend,
         NEW s, s = Append(d, Token(n, 0)) \o Extension(n, RUN_MASK),
         NEW e, e = s \o Literals(from, n)
  PROVE  RunTold(all, d, e, from, n) /\ Len(s) = Len(d) + 1 + Run(n) /\ Run(n) \in Nat
<1>1. PICK t \in Nat : t = Token(n, 0)
  BY TokenIs
<1>2. PICK x : x = Extension(n, RUN_MASK)
  OBVIOUS
<1>3. PICK y : y = Literals(from, n)
  OBVIOUS
<1>4. x \in Seq(Nat) /\ Len(x) = Run(n) /\ Run(n) \in Nat
  BY <1>2, ExtensionIs, ExtraIs, Limits DEF Run
<1>5. y \in Seq(Nat) /\ Len(y) = n /\ \A i \in 1 .. n : y[i] = all[from + i]
  <2>1. \A i \in 1 .. n : all[from + i] \in Nat
    <3>1. all \in Seq(Nat) /\ Len(all) = iend /\ iend \in Nat
      BY AllIs
    <3>2. ASSUME NEW i \in 1 .. n PROVE from + i \in 1 .. Len(all)
      BY <3>1
    <3> QED BY <3>1, <3>2, ElementOfSeq
  <2>2. y = [i \in 1 .. n |-> all[from + i]]
    BY <1>3 DEF Literals
  <2> QED BY <2>1, <2>2
<1>6. PICK m \in Nat : m = Len(d)
  BY LenProperties
<1>7. PICK a : a = Append(d, t)
  OBVIOUS
<1>8. a \in Seq(Nat) /\ Len(a) = m + 1 /\ a[m + 1] = t /\ \A i \in 1 .. m : a[i] = d[i]
  BY <1>1, <1>6, <1>7
<1>9. /\ s \in Seq(Nat) /\ Len(s) = m + 1 + Run(n)
      /\ \A i \in 1 .. m + 1 : s[i] = a[i]
      /\ \A i \in 1 .. Run(n) : s[m + 1 + i] = x[i]
  <2>1. s = a \o x
    BY <1>1, <1>2, <1>7
  <2>2. a \in Seq(Nat) /\ x \in Seq(Nat)
    BY <1>4, <1>8
  <2>3. Together(s, a, x)
    BY <2>1, <2>2, Joined
  <2> QED BY <2>3, <1>4, <1>8 DEF Together
<1>10. PICK k \in Nat : k = m + 1 + Run(n)
  BY <1>4
<1>11. /\ e \in Seq(Nat) /\ Len(e) = k + n
       /\ \A i \in 1 .. k : e[i] = s[i]
       /\ \A i \in 1 .. n : e[k + i] = y[i]
  <2>1. e = s \o y /\ Len(s) = k
    BY <1>3, <1>9, <1>10
  <2>2. s \in Seq(Nat) /\ y \in Seq(Nat)
    BY <1>5, <1>9
  <2>3. Together(e, s, y)
    BY <2>1, <2>2, Joined
  <2> QED BY <2>3, <2>1, <1>5 DEF Together
<1>12. ASSUME NEW i \in 1 .. m PROVE e[i] = d[i]
  <2>1. i \in 1 .. m + 1 /\ i \in 1 .. k
    BY <1>4, <1>10
  <2> QED BY <2>1, <1>8, <1>9, <1>11
<1>13. e[m + 1] = t
  <2>1. m + 1 \in 1 .. m + 1 /\ m + 1 \in 1 .. k
    BY <1>4, <1>10
  <2> QED BY <2>1, <1>8, <1>9, <1>11
<1>14. \A i \in 1 .. Run(n) : e[m + 1 + i] = x[i]
  <2> SUFFICES ASSUME NEW i \in 1 .. Run(n) PROVE e[m + 1 + i] = x[i]
    OBVIOUS
  <2>1. m + 1 + i \in 1 .. k
    BY <1>4, <1>10
  <2> QED BY <2>1, <1>9, <1>11
<1>15. \A i \in 1 .. n : e[m + 1 + Run(n) + i] = all[from + i]
  BY ZenonT(40), <1>5, <1>10, <1>11
<1>16. LiteralsAt(all, e, m, from, n, 0)
  BY <1>1, <1>2, <1>13, <1>14, <1>15 DEF LiteralsAt
<1>17. Len(e) = AfterRun(m, n)
  BY <1>10, <1>11 DEF AfterRun
<1> QED BY <1>4, <1>6, <1>9, <1>11, <1>12, <1>16, <1>17 DEF RunTold

(* An offset and the rest of a length appended, the token corrected. *)
MatchTold(d, p, e, t, x, y, k, c) ==
  /\ p \in Seq(Nat) /\ Len(p) = Len(d) + 2
  /\ e \in Seq(Nat) /\ Len(e) = Len(d) + 2 + Rest(c)
  /\ e[t] = d[t] + k /\ \A i \in 1 .. Len(d) : i # t => e[i] = d[i]
  /\ e[Len(d) + 1] = x /\ e[Len(d) + 2] = y
  /\ \A i \in 1 .. Rest(c) : e[Len(d) + 2 + i] = Extension(c, ML_MASK)[i]

(* The offset, the nibble added to the token and the rest of the length, as*)
(* EncodeMatch appends them, tell the match and leave the other bytes      *)
(* alone.                                                                  *)
LEMMA MatchAppended ==
  ASSUME NEW d \in Seq(Nat), NEW t \in 1 .. Len(d), NEW x \in Nat, NEW y \in Nat,
         NEW k \in Nat, NEW c \in Nat,
         NEW p, p = d \o <<x, y>>,
         NEW e, e = [p EXCEPT ![t] = @ + k] \o Extension(c, ML_MASK)
  PROVE  MatchTold(d, p, e, t, x, y, k, c)
<1>1. PICK z : z = Extension(c, ML_MASK)
  OBVIOUS
<1>2. z \in Seq(Nat) /\ Len(z) = Rest(c) /\ Rest(c) \in Nat
  BY <1>1, ExtensionIs, ExtraIs, Limits DEF Rest
<1>3. PICK m \in Nat : m = Len(d)
  BY LenProperties
<1>4. PICK u : u = <<x, y>>
  OBVIOUS
<1>5. u \in Seq(Nat) /\ Len(u) = 2 /\ u[1] = x /\ u[2] = y
  BY <1>4
<1>6. /\ p \in Seq(Nat) /\ Len(p) = m + 2
      /\ \A i \in 1 .. m : p[i] = d[i]
      /\ \A i \in 1 .. 2 : p[m + i] = u[i]
  <2>1. Together(p, d, u)
    BY <1>4, <1>5, Joined
  <2> QED BY <2>1, <1>3, <1>5 DEF Together
<1>7. t \in 1 .. m /\ t \in 1 .. m + 2 /\ d[t] \in Nat
  BY <1>3, ElementOfSeq
<1>8. p[t] = d[t] /\ p[t] + k \in Nat
  <2>1. p[t] = d[t]
    BY <1>6, <1>7
  <2> QED BY SMTT(20), <2>1, <1>7
<1>9. PICK v \in Nat : v = p[t] + k
  BY <1>8
<1>10. PICK f : f = [p EXCEPT ![t] = v]
  OBVIOUS
<1>11. /\ f \in Seq(Nat) /\ Len(f) = m + 2
       /\ \A j \in 1 .. m + 2 : f[j] = IF j = t THEN v ELSE p[j]
  <2>1. t \in 1 .. Len(p)
    BY <1>6, <1>7
  <2>2. /\ f \in Seq(Nat) /\ Len(f) = Len(p)
        /\ \A j \in 1 .. Len(p) : f[j] = IF j = t THEN v ELSE p[j]
    <3>1. p \in [1 .. m + 2 -> Nat] /\ v \in Nat /\ t \in 1 .. m + 2
      <4>1. p \in [1 .. Len(p) -> Nat] /\ Len(p) = m + 2
        BY <1>6, LenProperties
      <4> QED BY <4>1, <1>7
    <3>2. f \in [1 .. m + 2 -> Nat]
      BY <3>1, <1>10
    <3>3. f \in Seq(Nat) /\ Len(f) = m + 2
      BY SMTT(20), <3>2
    <3>4. \A j \in 1 .. m + 2 : f[j] = IF j = t THEN v ELSE p[j]
      BY <3>1, <1>10
    <3> QED BY <3>3, <3>4, <1>6
  <2> QED BY <2>2, <1>6
<1>12. /\ e \in Seq(Nat) /\ Len(e) = m + 2 + Rest(c)
       /\ \A i \in 1 .. m + 2 : e[i] = f[i]
       /\ \A i \in 1 .. Rest(c) : e[m + 2 + i] = z[i]
  <2>1. e = f \o z
    BY <1>1, <1>9, <1>10
  <2>2. f \in Seq(Nat) /\ z \in Seq(Nat)
    BY <1>2, <1>11
  <2>3. Together(e, f, z)
    BY <2>1, <2>2, Joined
  <2> QED BY <2>3, <1>2, <1>11 DEF Together
<1>13. e[t] = d[t] + k
  BY <1>7, <1>8, <1>9, <1>11, <1>12
<1>14. ASSUME NEW i \in 1 .. m, i # t PROVE e[i] = d[i]
  <2>1. i \in 1 .. m + 2
    OBVIOUS
  <2> QED BY <2>1, <1>6, <1>11, <1>12, <1>14
<1>15. e[m + 1] = x /\ e[m + 2] = y
  <2>1. m + 1 \in 1 .. m + 2 /\ m + 2 \in 1 .. m + 2 /\ m + 1 # t /\ m + 2 # t
    BY <1>7
  <2>2. p[m + 1] = x /\ p[m + 2] = y
    BY <1>5, <1>6
  <2> QED BY <2>1, <2>2, <1>11, <1>12
<1> QED BY <1>1, <1>3, <1>6, <1>12, <1>13, <1>14, <1>15 DEF MatchTold

(* How far two places are alike: the least that stops is where all before  *)
(* is alike.                                                               *)
LEMMA CountIs ==
  ASSUME NEW p \in Nat, NEW q \in Nat, NEW limit \in Nat, p <= limit
  PROVE  /\ Count(p, q, limit) \in Nat /\ p + Count(p, q, limit) <= limit
         /\ \A i \in 1 .. Count(p, q, limit) : all[p + i] = all[q + i]
<1> DEFINE Stops(k) == k = limit - p \/ all[p + k + 1] # all[q + k + 1]
           Good(k) == (\A i \in 1 .. k : all[p + i] = all[q + i]) /\ Stops(k)
           S == {k \in 0 .. limit - p : Stops(k)}
<1>1. limit - p \in S /\ S \in SUBSET Nat
  OBVIOUS
<1>2. PICK k \in S : \A j \in S : k <= j
  <2> HIDE DEF S
  <2>1. S # {}
    BY <1>1
  <2>2. \E k \in S : \A j \in S : k <= j
    BY <1>1, <2>1, LeastExists
  <2> QED BY <2>2
<1>3. k \in 0 .. limit - p /\ k \in Nat
  BY <1>2
<1>4. ASSUME NEW i \in 1 .. k PROVE all[p + i] = all[q + i]
  <2>1. PICK j : j = i - 1
    OBVIOUS
  <2>2. j \in 0 .. limit - p /\ j < k /\ ~(k <= j)
    BY <2>1, <1>3
  <2>3. ~Stops(j)
    BY <2>2, <1>2
  <2>4. all[p + j + 1] = all[q + j + 1]
    BY <2>3
  <2>5. p + j + 1 = p + i /\ q + j + 1 = q + i
    BY <2>1
  <2> QED BY <2>4, <2>5
<1>5. Good(k)
  BY <1>2, <1>4
<1>6. Count(p, q, limit) = CHOOSE m \in 0 .. limit - p : Good(m)
  BY DEF Count
<1>7. Count(p, q, limit) \in 0 .. limit - p /\ Good(Count(p, q, limit))
  <2> HIDE DEF Good
  <2> QED BY <1>3, <1>5, <1>6
<1> QED BY <1>7

(* Catching up goes back over bytes that are alike, and no further than the*)
(* literals and the history go.                                            *)
LEMMA AlikeBeforeIs ==
  ASSUME InputInv, anchor \in Nat, NEW p \in Nat, NEW q \in Nat, anchor <= p, p <= iend, q < p
  PROVE  /\ AlikeBefore(p, q) \in Nat /\ AlikeBefore(p, q) <= p - anchor /\ AlikeBefore(p, q) <= q
         /\ \A i \in 0 .. AlikeBefore(p, q) - 1 : all[p - i] = all[q - i]
<1> DEFINE Stops(k) == k = p - anchor \/ k = q \/ all[p - k] # all[q - k]
           Good(k) == k <= p - anchor /\ k <= q /\ (\A i \in 0 .. k - 1 : all[p - i] = all[q - i])
                        /\ Stops(k)
           m == IF p - anchor <= q THEN p - anchor ELSE q
           S == {k \in 0 .. m : Stops(k)}
<1>1. m \in Nat /\ m <= p - anchor /\ m <= q /\ m \in S /\ S \in SUBSET Nat
  OBVIOUS
<1>2. PICK k \in S : \A j \in S : k <= j
  <2> HIDE DEF S
  <2>1. S # {}
    BY <1>1
  <2>2. \E k \in S : \A j \in S : k <= j
    BY <1>1, <2>1, LeastExists
  <2> QED BY <2>2
<1>3. k \in 0 .. m /\ k \in Nat /\ Stops(k)
  BY <1>2
<1> HIDE DEF m
<1>4. ASSUME NEW i \in 0 .. k - 1 PROVE all[p - i] = all[q - i]
  <2>1. i \in 0 .. m /\ ~(k <= i)
    BY <1>1, <1>3
  <2>2. ~Stops(i)
    BY <2>1, <1>2
  <2> QED BY <2>2
<1>5. Good(k)
  BY <1>1, <1>3, <1>4
<1>6. k \in 0 .. Len(all)
  BY <1>1, <1>3, AllIs
<1>7. AlikeBefore(p, q) = CHOOSE l \in 0 .. Len(all) : Good(l)
  BY Zenon DEF AlikeBefore
<1>8. AlikeBefore(p, q) \in 0 .. Len(all) /\ Good(AlikeBefore(p, q))
  <2> HIDE DEF Good
  <2> QED BY <1>5, <1>6, <1>7
<1>9. PICK l : l = AlikeBefore(p, q)
  OBVIOUS
<1>10. l \in Nat /\ Good(l)
  <2> HIDE DEF Good
  <2>1. Len(all) \in Nat /\ l \in 0 .. Len(all)
    BY <1>8, <1>9, AllIs
  <2> QED BY <2>1, <1>8, <1>9
<1> QED BY <1>9, <1>10

Encoding == pc \in {"begin", "search", "catch up", "literals", "match", "next", "last"}

(* Where the last whole sequence ends. *)
Boundary == IF pc = "match" THEN token - 1 ELSE Len(dest)

EncodeInv ==
  /\ dest \in Seq(Nat) /\ {ip, anchor, match, token} \subseteq Nat
  /\ Encoding =>
       /\ seen = 0 /\ output = <<>>
       /\ Start <= anchor /\ anchor <= ip /\ ip <= iend
       /\ Laid(all, Start, dest, Boundary, anchor)
  /\ pc = "begin" => ip = Start
  /\ pc \in {"catch up", "literals", "match"} =>
       ip <= LastStart /\ Matching(all, ip, match, MINMATCH)
  /\ pc = "match" =>
       /\ token \in 1 .. Len(dest)
       /\ LiteralsAt(all, dest, token - 1, anchor, ip - anchor, 0)
       /\ Len(dest) = AfterRun(token - 1, ip - anchor)
  /\ pc = "next" => ip = anchor /\ ip <= LastStart

(* The ends of a block, as numbers: a match that may begin has room for    *)
(* MINMATCH bytes before the last literals.                                *)
LEMMA LimitsOfMatches ==
  ASSUME InputInv
  PROVE  /\ LastStart = iend - MFLIMIT /\ matchlimit = iend - LASTLITERALS
         /\ MatchEnd = matchlimit /\ mflimitPlusOne = iend - MFLIMIT + 1
         /\ LastStart + MINMATCH <= matchlimit /\ LastStart <= iend
         /\ iend \in Nat /\ LastStart \in Int /\ matchlimit \in Int
<1>1. iend \in Nat
  BY AllIs
<1>2. LastStart = iend - MFLIMIT /\ mflimitPlusOne = iend - MFLIMIT + 1
  BY <1>1, Limits DEF LastStart, mflimitPlusOne
<1>3. MatchEnd = matchlimit /\ matchlimit = iend - LASTLITERALS
  BY DEF MatchEnd, matchlimit
<1> QED BY <1>1, <1>2, <1>3, Limits

(* What is computed from the input alone stays with the input. *)
LEMMA SameInput ==
  ASSUME UNCHANGED input
  PROVE  /\ all' = all /\ Start' = Start /\ iend' = iend /\ LastStart' = LastStart
         /\ matchlimit' = matchlimit
         /\ UNCHANGED <<source, past, capacity, outputSize>>
         /\ limitedOutput' = limitedOutput
<1>1. UNCHANGED <<source, past, capacity, outputSize>>
  BY DEF input
<1>2. all' = all
  BY <1>1 DEF all
<1>3. iend' = iend
  BY <1>2 DEF iend
<1>4. Start' = Start
  BY <1>1 DEF Start
<1>5. LastStart' = LastStart /\ matchlimit' = matchlimit
  BY <1>3 DEF LastStart, matchlimit, mflimitPlusOne
<1>6. limitedOutput' = limitedOutput
  BY <1>1 DEF limitedOutput
<1> QED BY <1>1, <1>2, <1>3, <1>4, <1>5, <1>6

(* Nothing changes the input. *)
LEMMA InputStays ==
  ASSUME InputInv, UNCHANGED input
  PROVE  InputInv'
BY DEF InputInv, input

(* Nothing is laid out yet. *)
LEMMA EncodeBegins ==
  ASSUME BlockInit
  PROVE  InputInv /\ EncodeInv
<1>1. InputInv
  <2>1. PICK n \in Lengths : source \in [1 .. n -> Letters]
    BY Zenon DEF BlockInit
  <2>2. n \in Nat \ {0} /\ source \in Seq(Letters) /\ Len(source) = n
    BY <2>1, InputsAssumption
  <2>3. past \in Seq(Letters)
    BY InputsAssumption DEF BlockInit
  <2>4. outputSize \in Nat /\ Len(source) <= outputSize
    <3>1. PICK k \in Spares : outputSize = Len(source) + k
      BY DEF BlockInit
    <3>2. k \in Nat
      BY InputsAssumption
    <3> QED BY <3>1, <3>2, <2>2
  <2> QED BY <2>2, <2>3, <2>4 DEF InputInv, BlockInit
<1>2. Start \in Nat /\ iend \in Nat /\ Start <= iend
  BY <1>1, AllIs
<1>3. /\ ip = Start /\ anchor = Start /\ match = 0 /\ dest = <<>> /\ token = 0 /\ pc = "begin"
      /\ seen = 0 /\ output = <<>>
  BY DEF BlockInit, Start
<1>4. Len(dest) = 0 /\ dest \in Seq(Nat)
  BY <1>3
<1>5. Laid(all, Start, dest, 0, Start)
  <2> DEFINE L == [p \in {0} |-> Start]
  <2>1. LaidOut(all, Start, L, dest, 0) /\ L[0] = Start
    BY <1>2 DEF LaidOut
  <2> QED BY <2>1 DEF Laid
<1>6. Boundary = 0
  BY <1>3, <1>4 DEF Boundary
<1>7. EncodeInv
  BY <1>2, <1>3, <1>4, <1>5, <1>6 DEF EncodeInv
<1> QED BY <1>1, <1>7

-----------------------------------------------------------------------------
(* Begin writes nothing. *)
LEMMA BeginKeeps ==
  ASSUME InputInv, EncodeInv, Begin
  PROVE  EncodeInv'
<1>1. /\ pc = "begin" /\ UNCHANGED <<anchor, match, dest, token, seen, output>>
      /\ pc' \in {"last", "search"}
      /\ pc' = "last" => ip' = ip
      /\ pc' = "search" => ip' = ip + 1 /\ Len(source) >= MFLIMIT + 1
  BY AllIs, Limits DEF Begin, decoder
<1>2. /\ all' = all /\ Start' = Start /\ iend' = iend
  BY SameInput DEF Begin
<1>3. /\ dest \in Seq(Nat) /\ {ip, anchor, match, token} \subseteq Nat
      /\ seen = 0 /\ output = <<>>
      /\ Start <= anchor /\ anchor <= ip /\ ip <= iend
      /\ Laid(all, Start, dest, Boundary, anchor)
      /\ ip = Start
  BY <1>1 DEF EncodeInv, Encoding
<1>4. Boundary' = Boundary
  BY <1>1 DEF Boundary
<1>5. ip' \in Nat /\ anchor <= ip' /\ ip' <= iend
  BY SMTT(20), <1>1, <1>3, AllIs, Limits
<1> QED BY <1>1, <1>2, <1>3, <1>4, <1>5 DEF EncodeInv

(* FindMatch takes a place whose bytes are alike, in time for the last     *)
(* literals.                                                               *)
LEMMA FindMatchKeeps ==
  ASSUME InputInv, EncodeInv, FindMatch
  PROVE  EncodeInv'
<1>1. /\ pc = "search" /\ UNCHANGED <<anchor, dest, token, seen, output>>
      /\ pc' = "catch up"
  BY DEF FindMatch, decoder
<1>2. /\ all' = all /\ Start' = Start /\ iend' = iend /\ LastStart' = LastStart
  BY SameInput DEF FindMatch
<1>3. /\ dest \in Seq(Nat) /\ {ip, anchor, match, token} \subseteq Nat
      /\ seen = 0 /\ output = <<>>
      /\ Start <= anchor /\ anchor <= ip /\ ip <= iend
      /\ Laid(all, Start, dest, Boundary, anchor)
  BY <1>1 DEF EncodeInv, Encoding
<1>4. Boundary' = Boundary
  BY <1>1 DEF Boundary
<1>5. PICK p \in ip .. LastStart : ip' = p /\ match' \in Candidates(p)
  BY Zenon DEF FindMatch
<1>6. p \in Nat /\ anchor <= p /\ p <= LastStart /\ p <= iend
  BY <1>3, <1>5, LimitsOfMatches
<1>7. match' \in Nat /\ match' < p /\ \A i \in 1 .. MINMATCH : all[match' + i] = all[p + i]
  BY <1>5, <1>6 DEF Candidates, Alike
<1>8. Matching(all, p, match', MINMATCH)
  BY <1>6, <1>7 DEF Matching
<1> QED BY <1>1, <1>2, <1>3, <1>4, <1>5, <1>6, <1>7, <1>8 DEF EncodeInv

(* NoMatch writes nothing. *)
LEMMA NoMatchKeeps ==
  ASSUME InputInv, EncodeInv, NoMatch
  PROVE  EncodeInv'
<1>1. /\ pc = "search" /\ UNCHANGED <<ip, match, anchor, dest, token, seen, output>>
      /\ pc' = "last"
  BY DEF NoMatch, decoder, encoder
<1>2. /\ all' = all /\ Start' = Start /\ iend' = iend
  BY SameInput DEF NoMatch
<1>3. /\ dest \in Seq(Nat) /\ {ip, anchor, match, token} \subseteq Nat
      /\ seen = 0 /\ output = <<>>
      /\ Start <= anchor /\ anchor <= ip /\ ip <= iend
      /\ Laid(all, Start, dest, Boundary, anchor)
  BY <1>1 DEF EncodeInv, Encoding
<1>4. Boundary' = Boundary
  BY <1>1 DEF Boundary
<1> QED BY <1>1, <1>2, <1>3, <1>4 DEF EncodeInv

(* CatchUp moves both places back together: the bytes stay alike. *)
LEMMA CatchUpKeeps ==
  ASSUME InputInv, EncodeInv, CatchUp
  PROVE  EncodeInv'
<1>1. /\ pc = "catch up" /\ UNCHANGED <<anchor, dest, token, seen, output>>
      /\ pc' = "literals"
  BY DEF CatchUp, decoder
<1>2. /\ all' = all /\ Start' = Start /\ iend' = iend /\ LastStart' = LastStart
  BY SameInput DEF CatchUp
<1>3. /\ dest \in Seq(Nat) /\ {ip, anchor, match, token} \subseteq Nat
      /\ seen = 0 /\ output = <<>>
      /\ Start <= anchor /\ anchor <= ip /\ ip <= iend
      /\ Laid(all, Start, dest, Boundary, anchor)
      /\ ip <= LastStart /\ Matching(all, ip, match, MINMATCH)
  BY <1>1 DEF EncodeInv, Encoding
<1>4. Boundary' = Boundary
  BY <1>1 DEF Boundary
<1>5. match < ip /\ \A i \in 1 .. MINMATCH : all[ip + i] = all[match + i]
  BY <1>3 DEF Matching
<1>6. PICK k : k = AlikeBefore(ip, match)
  OBVIOUS
<1>7. /\ k \in Nat /\ k <= ip - anchor /\ k <= match
      /\ \A i \in 0 .. k - 1 : all[ip - i] = all[match - i]
  BY <1>3, <1>5, <1>6, AlikeBeforeIs
<1>8. ip' = ip - k /\ match' = match - k
  BY <1>6 DEF CatchUp
<1>9. /\ ip' \in Nat /\ match' \in Nat /\ anchor <= ip' /\ ip' <= ip /\ match' < ip'
  BY <1>3, <1>5, <1>7, <1>8
<1>10. ip' <= iend /\ ip' <= LastStart
  BY <1>3, <1>9, LimitsOfMatches
<1>11. ASSUME NEW i \in 1 .. MINMATCH PROVE all[ip' + i] = all[match' + i]
  <2>1. CASE i <= k
    <3>1. PICK j : j = k - i
      OBVIOUS
    <3>2. j \in 0 .. k - 1 /\ ip - j = ip' + i /\ match - j = match' + i
      BY <2>1, <3>1, <1>3, <1>7, <1>8
    <3> QED BY <3>2, <1>7
  <2>2. CASE i > k
    <3>1. PICK j : j = i - k
      OBVIOUS
    <3>2. j \in 1 .. MINMATCH /\ ip + j = ip' + i /\ match + j = match' + i
      BY <2>2, <3>1, <1>3, <1>7, <1>8, Limits
    <3> QED BY <3>2, <1>5
  <2> QED BY <2>1, <2>2, <1>7
<1>12. Matching(all, ip', match', MINMATCH)
  BY <1>9, <1>11 DEF Matching
<1> QED BY <1>1, <1>2, <1>3, <1>4, <1>9, <1>10, <1>12 DEF EncodeInv

(* A laid out block stays while what comes behind it changes. *)
LEMMA LaidStays ==
  ASSUME NEW A, NEW s, NEW d, NEW e, NEW b \in Nat, NEW v, Laid(A, s, d, b, v),
         \A i \in 1 .. b : e[i] = d[i]
  PROVE  Laid(A, s, e, b, v)
BY LaidOutStays DEF Laid

(* EncodeLiterals adds a token and the literals behind the boundary. *)
LEMMA EncodeLiteralsKeeps ==
  ASSUME InputInv, EncodeInv, EncodeLiterals
  PROVE  EncodeInv'
<1>1. pc = "literals" /\ UNCHANGED <<ip, anchor, match, seen, output>>
  BY DEF EncodeLiterals, decoder
<1>2. /\ all' = all /\ Start' = Start /\ iend' = iend /\ LastStart' = LastStart
  BY SameInput DEF EncodeLiterals
<1>3. /\ dest \in Seq(Nat) /\ {ip, anchor, match, token} \subseteq Nat
      /\ seen = 0 /\ output = <<>>
      /\ Start <= anchor /\ anchor <= ip /\ ip <= iend
      /\ Laid(all, Start, dest, Boundary, anchor)
      /\ ip <= LastStart /\ Matching(all, ip, match, MINMATCH)
  BY <1>1 DEF EncodeInv, Encoding
<1>4. CASE pc' = "given up" /\ UNCHANGED <<dest, token>>
  BY <1>1, <1>3, <1>4 DEF EncodeInv, Encoding
<1>5. CASE pc' = "match"
  <2>1. PICK n \in Nat : n = ip - anchor
    BY <1>3
  <2>2. PICK s : s = Append(dest, Token(n, 0)) \o Extension(n, RUN_MASK)
    OBVIOUS
  <2>3. token' = Len(dest) + 1 /\ dest' = s \o Literals(anchor, n)
    BY <1>5, <2>1, <2>2 DEF EncodeLiterals
  <2>4. anchor \in Nat /\ anchor + n <= iend /\ dest \in Seq(Nat)
    BY <1>3, <2>1, LimitsOfMatches
  <2>5. PICK m \in Nat : m = Len(dest)
    BY <1>3
  <2>6. /\ dest' \in Seq(Nat) /\ Len(dest') = AfterRun(m, n) /\ Len(s) = m + 1 + Run(n)
        /\ \A i \in 1 .. m : dest'[i] = dest[i]
        /\ LiteralsAt(all, dest', m, anchor, n, 0)
        /\ Run(n) \in Nat
    <3>1. RunTold(all, dest, dest', anchor, n) /\ Len(s) = Len(dest) + 1 + Run(n) /\ Run(n) \in Nat
      BY <2>2, <2>3, <2>4, RunAppended
    <3> QED BY <3>1, <2>5 DEF RunTold
  <2>7. token' \in 1 .. Len(dest') /\ token' \in Nat /\ token' - 1 = m
    BY <2>3, <2>5, <2>6 DEF AfterRun
  <2>8. Boundary = m /\ Boundary' = m
    BY <1>1, <1>5, <2>5, <2>7 DEF Boundary
  <2>9. Laid(all, Start, dest', m, anchor)
    BY <1>3, <2>5, <2>6, <2>8, LaidStays
  <2> QED BY <1>1, <1>2, <1>3, <1>5, <2>1, <2>6, <2>7, <2>8, <2>9 DEF EncodeInv
<1> QED BY <1>4, <1>5 DEF EncodeLiterals

(* What EncodeMatch writes, given its names. *)
LEMMA MatchIsTold ==
  ASSUME InputInv, EncodeInv, EncodeMatch
  PROVE  \E code \in Nat, n \in Nat, placed \in Seq(Nat), told \in Seq(Nat) :
           /\ code = Count(ip + MINMATCH, match + MINMATCH, MatchEnd)
           /\ ip + MINMATCH + code <= matchlimit
           /\ Matching(all, ip, match, MINMATCH + code)
           /\ n = ip - anchor /\ Len(placed) = Len(dest) + 2
           /\ Len(told) = Len(placed) + Rest(code) /\ Rest(code) \in Nat
           /\ \A i \in 1 .. token - 1 : told[i] = dest[i]
           /\ LiteralsAt(all, told, token - 1, anchor, n, code)
           /\ MatchAt(told, Len(dest), ip, match, code)
           /\ IF limitedOutput /\ ~MatchFits(Len(placed), code)
              THEN /\ pc' = "given up" /\ dest' = placed
                   /\ Touch("dest", Len(placed))
                   /\ UNCHANGED <<ip, anchor>>
              ELSE /\ ip' = ip + MINMATCH + code /\ anchor' = ip' /\ dest' = told
                   /\ Touch("dest", Larger(Len(told), Len(placed) + FullBytes(code)))
                   /\ pc' = IF ip' >= mflimitPlusOne THEN "last" ELSE "next"
<1>1. pc = "match"
  BY DEF EncodeMatch
<1>2. /\ dest \in Seq(Nat) /\ ip \in Nat /\ anchor \in Nat /\ match \in Nat /\ token \in Nat
      /\ anchor <= ip /\ ip <= iend
      /\ ip <= LastStart /\ Matching(all, ip, match, MINMATCH)
      /\ token \in 1 .. Len(dest)
      /\ LiteralsAt(all, dest, token - 1, anchor, ip - anchor, 0)
      /\ Len(dest) = AfterRun(token - 1, ip - anchor)
  BY <1>1 DEF EncodeInv, Encoding
<1>3. PICK n \in Nat : n = ip - anchor
  BY <1>2
<1>4. PICK p \in Nat : p = token - 1
  BY <1>2
<1>5. PICK code : code = Count(ip + MINMATCH, match + MINMATCH, MatchEnd)
  OBVIOUS
<1>6. MINMATCH \in Nat /\ match < ip /\ \A i \in 1 .. MINMATCH : all[ip + i] = all[match + i]
  BY <1>2, Limits DEF Matching
<1>7. PICK w \in Nat : w = ip + MINMATCH
  BY <1>2, <1>6
<1>8. PICK q \in Nat : q = match + MINMATCH
  BY <1>2, <1>6
<1>9. matchlimit \in Nat /\ w <= matchlimit /\ MatchEnd = matchlimit
  <2>1. matchlimit \in Int /\ LastStart + MINMATCH <= matchlimit /\ LastStart \in Int /\ MatchEnd = matchlimit
    BY LimitsOfMatches
  <2>2. ip \in Nat /\ ip <= LastStart
    BY <1>2
  <2> QED BY <2>1, <2>2, <1>6, <1>7
<1>10. /\ code \in Nat /\ w + code <= matchlimit
       /\ \A i \in 1 .. code : all[w + i] = all[q + i]
  <2>1. code = Count(w, q, matchlimit)
    BY <1>5, <1>7, <1>8, <1>9
  <2> QED BY <2>1, <1>9, CountIs
<1>11. Matching(all, ip, match, MINMATCH + code)
  <2>1. ASSUME NEW i \in 1 .. MINMATCH + code PROVE all[ip + i] = all[match + i]
    <3>1. CASE i <= MINMATCH
      BY <3>1, <1>6
    <3>2. CASE i > MINMATCH
      <4>1. PICK j : j = i - MINMATCH
        OBVIOUS
      <4>2. j \in 1 .. code /\ w + j = ip + i /\ q + j = match + i
        BY <3>2, <4>1, <1>2, <1>6, <1>7, <1>8, <1>10
      <4> QED BY <4>2, <1>10
    <3> QED BY <3>1, <3>2, <1>6, <1>10
  <2> QED BY <2>1, <1>2, <1>6 DEF Matching
<1>12. ip + MINMATCH + code <= matchlimit
  BY <1>7, <1>10
<1>13. PICK x : x = (ip - match) % (BYTE_MAX + 1)
  OBVIOUS
<1>14. PICK y : y = (ip - match) \div (BYTE_MAX + 1)
  OBVIOUS
<1>15. x \in Nat /\ y \in Nat
  <2>1. PICK u \in Nat : u = ip - match
    BY <1>2, <1>6
  <2>2. PICK v \in Nat \ {0} : v = BYTE_MAX + 1
    BY Limits
  <2>3. x = u % v /\ y = u \div v
    BY <2>1, <2>2, <1>13, <1>14
  <2>4. v * 0 <= u
    BY <2>1, <2>2
  <2>5. u \div v \in Nat
    BY <2>4, AtMostQuotient
  <2> QED BY <2>3, <2>5
<1>16. PICK k : k = Nibble(code, ML_MASK)
  OBVIOUS
<1>17. k \in Nat
  BY <1>10, <1>16, Limits DEF Nibble
<1>18. PICK placed : placed = dest \o <<x, y>>
  OBVIOUS
<1>19. PICK told : told = [placed EXCEPT ![token] = @ + k] \o Extension(code, ML_MASK)
  OBVIOUS
<1>20. MatchTold(dest, placed, told, token, x, y, k, code)
  <2>1. dest \in Seq(Nat) /\ token \in 1 .. Len(dest) /\ code \in Nat
    BY <1>2, <1>10
  <2> QED BY <2>1, <1>15, <1>17, <1>18, <1>19, MatchAppended
<1>21. Rest(code) \in Nat
  BY <1>10, ExtraIs, Limits DEF Rest
<1>22. PICK m \in Nat : m = Len(dest)
  BY <1>2
<1>23. /\ placed \in Seq(Nat) /\ Len(placed) = Len(dest) + 2
       /\ told \in Seq(Nat) /\ Len(told) = m + 2 + Rest(code)
       /\ told[token] = dest[token] + k
       /\ \A i \in 1 .. m : i # token => told[i] = dest[i]
       /\ told[m + 1] = x /\ told[m + 2] = y
       /\ \A i \in 1 .. Rest(code) : told[m + 2 + i] = Extension(code, ML_MASK)[i]
  BY <1>20, <1>22 DEF MatchTold
<1>24. MatchAt(told, m, ip, match, code)
  BY <1>13, <1>14, <1>23 DEF MatchAt
<1>25. Run(n) \in Nat /\ m = p + 1 + Run(n) + n
  <2>1. Run(n) \in Nat
    BY ExtraIs, Limits DEF Run
  <2>2. m = AfterRun(p, n)
    BY <1>2, <1>3, <1>4, <1>22
  <2> QED BY <2>1, <2>2 DEF AfterRun
<1>26. LiteralsAt(all, dest, p, anchor, n, 0)
  BY <1>2, <1>3, <1>4
<1>27. LiteralsAt(all, told, p, anchor, n, code)
  <2>1. told[p + 1] = Token(n, code)
    <3>1. p + 1 = token /\ dest[p + 1] = Token(n, 0)
      BY <1>2, <1>4, <1>26 DEF LiteralsAt
    <3>2. Token(n, 0) + k = Token(n, code)
      BY <1>10, <1>16, TokenIs
    <3> QED BY <3>1, <3>2, <1>23
  <2>2. ASSUME NEW i \in 1 .. Run(n) PROVE told[p + 1 + i] = Extension(n, RUN_MASK)[i]
    <3>1. p + 1 + i \in 1 .. m /\ p + 1 + i # token
      BY <1>2, <1>4, <1>25
    <3>2. dest[p + 1 + i] = Extension(n, RUN_MASK)[i]
      BY <1>26 DEF LiteralsAt
    <3> QED BY <3>1, <3>2, <1>23
  <2>3. ASSUME NEW i \in 1 .. n PROVE told[p + 1 + Run(n) + i] = all[anchor + i]
    <3>1. p + 1 + Run(n) + i \in 1 .. m /\ p + 1 + Run(n) + i # token
      BY SMTT(20), <1>2, <1>4, <1>25
    <3>2. dest[p + 1 + Run(n) + i] = all[anchor + i]
      BY <1>26 DEF LiteralsAt
    <3> QED BY <3>1, <3>2, <1>23
  <2> QED BY <2>1, <2>2, <2>3 DEF LiteralsAt
<1>28. ASSUME NEW i \in 1 .. token - 1 PROVE told[i] = dest[i]
  <2>1. i \in 1 .. m /\ i # token
    BY <1>2, <1>22
  <2> QED BY <2>1, <1>23
<1>29. IF limitedOutput /\ ~MatchFits(Len(placed), code)
       THEN /\ pc' = "given up" /\ dest' = placed
            /\ Touch("dest", Len(placed))
            /\ UNCHANGED <<ip, anchor>>
       ELSE /\ ip' = ip + MINMATCH + code /\ anchor' = ip' /\ dest' = told
            /\ Touch("dest", Larger(Len(told), Len(placed) + FullBytes(code)))
            /\ pc' = IF ip' >= mflimitPlusOne THEN "last" ELSE "next"
  BY <1>5, <1>13, <1>14, <1>16, <1>18, <1>19, Zenon DEF EncodeMatch
<1>30. Len(told) = Len(placed) + Rest(code) /\ Len(placed) = Len(dest) + 2
  BY <1>21, <1>22, <1>23
<1>31. LiteralsAt(all, told, token - 1, anchor, n, code) /\ MatchAt(told, Len(dest), ip, match, code)
  BY <1>4, <1>22, <1>24, <1>27
<1>32. code \in Nat /\ placed \in Seq(Nat) /\ told \in Seq(Nat)
  BY <1>10, <1>23
<1> QED BY <1>3, <1>5, <1>11, <1>12, <1>21, <1>28, <1>29, <1>30, <1>31, <1>32

(* EncodeMatch completes a sequence, and the boundary moves behind it. *)
LEMMA EncodeMatchKeeps ==
  ASSUME InputInv, EncodeInv, EncodeMatch
  PROVE  EncodeInv'
<1>1. pc = "match" /\ UNCHANGED <<match, token, seen, output>>
  BY DEF EncodeMatch, decoder
<1>2. /\ all' = all /\ Start' = Start /\ iend' = iend /\ LastStart' = LastStart
  BY SameInput DEF EncodeMatch
<1>3. /\ dest \in Seq(Nat) /\ {ip, anchor, match, token} \subseteq Nat
      /\ seen = 0 /\ output = <<>>
      /\ Start <= anchor /\ anchor <= ip /\ ip <= iend
      /\ Laid(all, Start, dest, Boundary, anchor)
      /\ ip <= LastStart /\ token \in 1 .. Len(dest)
      /\ Len(dest) = AfterRun(token - 1, ip - anchor)
  BY <1>1 DEF EncodeInv, Encoding
<1>4. PICK code \in Nat, n \in Nat, placed \in Seq(Nat), told \in Seq(Nat) :
           /\ code = Count(ip + MINMATCH, match + MINMATCH, MatchEnd)
           /\ ip + MINMATCH + code <= matchlimit
           /\ Matching(all, ip, match, MINMATCH + code)
           /\ n = ip - anchor /\ Len(placed) = Len(dest) + 2
           /\ Len(told) = Len(placed) + Rest(code) /\ Rest(code) \in Nat
           /\ \A i \in 1 .. token - 1 : told[i] = dest[i]
           /\ LiteralsAt(all, told, token - 1, anchor, n, code)
           /\ MatchAt(told, Len(dest), ip, match, code)
           /\ IF limitedOutput /\ ~MatchFits(Len(placed), code)
              THEN /\ pc' = "given up" /\ dest' = placed
                   /\ Touch("dest", Len(placed))
                   /\ UNCHANGED <<ip, anchor>>
              ELSE /\ ip' = ip + MINMATCH + code /\ anchor' = ip' /\ dest' = told
                   /\ Touch("dest", Larger(Len(told), Len(placed) + FullBytes(code)))
                   /\ pc' = IF ip' >= mflimitPlusOne THEN "last" ELSE "next"
  BY MatchIsTold
<1>5. CASE pc' = "given up"
  <2>1. dest' = placed /\ UNCHANGED <<ip, anchor>>
    BY <1>4, <1>5
  <2> QED BY <2>1, <1>1, <1>3, <1>4, <1>5 DEF EncodeInv, Encoding
<1>6. CASE pc' \in {"last", "next"}
  <2>1. /\ ip' = ip + MINMATCH + code /\ anchor' = ip' /\ dest' = told
        /\ pc' = "next" => ~(ip' >= mflimitPlusOne)
    BY <1>4, <1>6
  <2>2. PICK b \in Nat : b = token - 1
    BY <1>3
  <2>3. Boundary = b /\ Boundary' = Len(told)
    BY <1>1, <1>6, <2>1, <2>2 DEF Boundary
  <2>4. Laid(all, Start, told, b, anchor)
    BY <1>3, <1>4, <2>2, <2>3, LaidStays
  <2>6. PICK r \in Nat : r = Len(told)
    BY LenProperties
  <2>7. AfterRun(b, n) = Len(dest) /\ r = Len(dest) + 2 + Rest(code)
    <3>1. n = ip - anchor /\ Len(placed) = Len(dest) + 2 /\ Len(told) = Len(placed) + Rest(code)
      BY <1>4
    <3> QED BY <3>1, <1>3, <2>2, <2>6
  <2>8. anchor + n = ip
    <3>1. n = ip - anchor /\ ip \in Nat /\ anchor \in Nat
      BY <1>3, <1>4
    <3> QED BY <3>1
  <2>9. ip' \in Nat /\ ip <= ip' /\ ip' <= matchlimit /\ ip' <= iend
    <3>1. ip \in Nat /\ ip + MINMATCH + code <= matchlimit
      BY <1>3, <1>4
    <3>2. matchlimit = iend - LASTLITERALS /\ iend \in Nat
      BY LimitsOfMatches
    <3> QED BY <3>1, <3>2, <2>1, Limits
  <2>10. /\ LiteralsAt(all, told, b, anchor, n, code)
         /\ MatchAt(told, AfterRun(b, n), ip, match, code)
         /\ Matching(all, ip, match, MINMATCH + code)
    BY <1>4, <2>2, <2>7
  <2>11. /\ ip <= Len(all) - MFLIMIT
         /\ ip' <= Len(all) - LASTLITERALS
    BY <1>3, <2>9, LimitsOfMatches DEF iend
  <2>12. Laid(all, Start, told, r, ip')
    <3>1. Start \in Nat /\ Len(all) \in Nat
      BY AllIs
    <3>2. r = AfterRun(b, n) + 2 + Rest(code)
      BY <2>7
    <3>3. ip' = ip + MINMATCH + code
      BY <2>1
    <3> QED BY <3>1, <3>2, <3>3, <2>4, <2>8, <2>10, <2>11, LaidGrows
  <2>13. pc' = "next" => ip' <= LastStart
    BY <2>1, <2>9, LimitsOfMatches
  <2>14. Start <= ip'
    BY <1>3, <2>9, AllIs
  <2>15. dest' \in Seq(Nat) /\ {ip', anchor', match', token'} \subseteq Nat
    BY <1>1, <1>3, <2>1, <2>9
  <2>16. /\ seen' = 0 /\ output' = <<>>
         /\ Start' <= anchor' /\ anchor' <= ip' /\ ip' <= iend'
         /\ Laid(all', Start', dest', Boundary', anchor')
    BY <1>1, <1>2, <1>3, <2>1, <2>3, <2>6, <2>9, <2>12, <2>14
  <2>17. pc' = "next" => ip' = anchor' /\ ip' <= LastStart'
    BY <1>2, <2>1, <2>13
  <2> QED BY <1>6, <2>15, <2>16, <2>17 DEF EncodeInv
<1> QED BY <1>4, <1>5, <1>6

(* TestNext writes the token of a sequence without literals, or goes on. *)
LEMMA TestNextKeeps ==
  ASSUME InputInv, EncodeInv, TestNext
  PROVE  EncodeInv'
<1>1. pc = "next" /\ UNCHANGED <<anchor, seen, output>>
  BY DEF TestNext, decoder
<1>2. /\ all' = all /\ Start' = Start /\ iend' = iend /\ LastStart' = LastStart
  BY SameInput DEF TestNext
<1>3. /\ dest \in Seq(Nat) /\ {ip, anchor, match, token} \subseteq Nat
      /\ seen = 0 /\ output = <<>>
      /\ Start <= anchor /\ anchor <= ip /\ ip <= iend
      /\ Laid(all, Start, dest, Boundary, anchor)
      /\ ip = anchor /\ ip <= LastStart
  BY <1>1 DEF EncodeInv, Encoding
<1>4. CASE pc' = "search"
  <2>1. ip' = ip + 1 /\ UNCHANGED <<match, dest, token>>
    BY <1>4 DEF TestNext
  <2>2. ip' \in Nat /\ anchor <= ip' /\ ip' <= iend
    BY SMTT(20), <1>3, <2>1, LimitsOfMatches, Limits
  <2>3. Boundary' = Boundary
    BY <1>1, <1>4, <2>1 DEF Boundary
  <2> QED BY <1>1, <1>2, <1>3, <1>4, <2>1, <2>2, <2>3 DEF EncodeInv
<1>5. CASE pc' = "match"
  <2>1. /\ match' \in Candidates(ip)
        /\ token' = Len(dest) + 1 /\ dest' = Append(dest, Token(0, 0))
        /\ UNCHANGED ip
    BY <1>5 DEF TestNext
  <2>2. match' \in Nat /\ match' < ip /\ \A i \in 1 .. MINMATCH : all[match' + i] = all[ip + i]
    BY <1>3, <2>1 DEF Candidates, Alike
  <2>3. Matching(all, ip, match', MINMATCH)
    BY <1>3, <2>2 DEF Matching
  <2>4. PICK m \in Nat : m = Len(dest)
    BY <1>3
  <2>5. Token(0, 0) \in Nat
    BY TokenIs
  <2>6. /\ dest' \in Seq(Nat) /\ Len(dest') = m + 1 /\ dest'[m + 1] = Token(0, 0)
        /\ \A i \in 1 .. m : dest'[i] = dest[i]
    BY <1>3, <2>1, <2>4, <2>5
  <2>7. token' \in Nat /\ token' - 1 = m /\ token' \in 1 .. Len(dest')
    BY <2>1, <2>4, <2>6
  <2>8. Run(0) = 0
    BY ExtraIs, Limits DEF Run
  <2>9. LiteralsAt(all, dest', m, anchor, 0, 0)
    BY <2>4, <2>6, <2>8 DEF LiteralsAt
  <2>10. Len(dest') = AfterRun(m, 0)
    BY <2>6, <2>8 DEF AfterRun
  <2>11. Boundary = m /\ Boundary' = m
    BY <1>1, <1>5, <2>4, <2>7 DEF Boundary
  <2>12. Laid(all, Start, dest', m, anchor)
    BY <1>3, <2>6, <2>11, LaidStays
  <2>13. ip - anchor = 0
    BY <1>3
  <2> QED BY <1>1, <1>2, <1>3, <1>5, <2>1, <2>2, <2>3, <2>6, <2>7, <2>9, <2>10, <2>11, <2>12, <2>13 DEF EncodeInv
<1> QED BY <1>4, <1>5 DEF TestNext

(* The bytes of a length are read to the first that is not full. *)
LEMMA LengthBytesAre ==
  ASSUME NEW mask \in Nat \ {0}, mask <= BYTE_MAX, NEW n \in Nat, n >= mask,
         NEW from \in Nat, NEW lencheck \in Int, dest \in Seq(Nat),
         \A i \in 1 .. Extra(n, mask) : dest[from + i] = Extension(n, mask)[i],
         from + Extra(n, mask) <= lencheck, from + Extra(n, mask) <= Len(dest)
  PROVE  /\ LengthBytes(from, lencheck) = Extra(n, mask)
         /\ mask + VariableLength(from, Extra(n, mask)) = n
<1>1. PICK e : e = Extra(n, mask)
  OBVIOUS
<1>2. PICK y : y = (n - mask) % BYTE_MAX
  OBVIOUS
<1>3. e \in Nat /\ e >= 1 /\ (e - 1) * BYTE_MAX + y = n - mask /\ y \in 0 .. BYTE_MAX - 1
  BY <1>1, <1>2, ExtraIs
<1>4. \A i \in 1 .. e - 1 : Extension(n, mask)[i] = BYTE_MAX
  BY <1>1, ExtensionIs
<1>5. Extension(n, mask)[e] = y
  BY <1>1, <1>2, ExtensionIs
<1>6. \A i \in 1 .. e : dest[from + i] = Extension(n, mask)[i]
  BY <1>1
<1>7. dest[from + e] = y /\ y # BYTE_MAX
  BY <1>3, <1>5, <1>6, Limits
<1>8. ASSUME NEW i \in 1 .. e - 1 PROVE dest[from + i] = BYTE_MAX
  <2>1. i \in 1 .. e
    BY <1>3
  <2> QED BY <2>1, <1>4, <1>6
<1>9. from + e <= lencheck /\ from + e <= Len(dest)
  BY <1>1
<1>10. PICK k \in Nat : k = Len(dest)
  BY LenProperties
<1> DEFINE Good(m) == /\ \A i \in 1 .. m - 1 : dest[from + i] = BYTE_MAX /\ from + i < lencheck
                      /\ dest[from + m] # BYTE_MAX \/ from + m >= lencheck
<1>11. Good(e) /\ e \in 1 .. k
  <2>1. \A i \in 1 .. e - 1 : from + i < lencheck
    BY <1>3, <1>9
  <2>2. e \in 1 .. k
    BY <1>3, <1>9, <1>10
  <2> QED BY <2>1, <2>2, <1>7, <1>8
<1>12. ASSUME NEW m \in 1 .. k, Good(m) PROVE m = e
  <2>1. CASE m < e
    <3>1. m \in 1 .. e - 1 /\ from + m < lencheck
      BY <2>1, <1>3, <1>9
    <3> QED BY <3>1, <1>8, <1>12
  <2>2. CASE m > e
    <3>1. e \in 1 .. m - 1
      BY <2>2, <1>3
    <3> QED BY <3>1, <1>7, <1>12
  <2> QED BY <2>1, <2>2, <1>3
<1>13. LengthBytes(from, lencheck) = CHOOSE m \in 1 .. k : Good(m)
  BY <1>10 DEF LengthBytes, srcSize
<1>14. LengthBytes(from, lencheck) = e
  <2> HIDE DEF Good
  <2> QED BY <1>11, <1>12, <1>13
<1>15. VariableLength(from, e) = (e - 1) * BYTE_MAX + y
  BY <1>3, <1>7 DEF VariableLength
<1>16. mask + VariableLength(from, e) = n
  BY <1>3, <1>15, Limits
<1> QED BY <1>1, <1>14, <1>16

(* A match that goes on over its own bytes repeats them. *)
LEMMA Repeats ==
  ASSUME NEW A, NEW w, NEW q, NEW n \in Nat, Matching(A, w, q, n),
         NEW o \in Nat \ {0}, o = w - q
  PROVE  \A i \in 1 .. n : A[w + i] = A[q + 1 + ((i - 1) % o)]
<1>1. w \in Nat /\ q \in Nat /\ q < w /\ \A i \in 1 .. n : A[w + i] = A[q + i]
  BY DEF Matching
<1> DEFINE Wrong == {i \in 1 .. n : A[w + i] # A[q + 1 + ((i - 1) % o)]}
<1>2. SUFFICES ASSUME Wrong # {} PROVE FALSE
  OBVIOUS
<1>3. Wrong \in SUBSET Nat
  OBVIOUS
<1>4. PICK x \in Wrong : \A j \in Wrong : x <= j
  <2> HIDE DEF Wrong
  <2> QED BY <1>2, <1>3, LeastExists
<1>5. x \in 1 .. n /\ A[w + x] # A[q + 1 + ((x - 1) % o)]
  BY <1>4
<1>6. CASE x <= o
  <2>1. (x - 1) % o = x - 1
    BY <1>5, <1>6
  <2>2. q + 1 + ((x - 1) % o) = q + x
    BY <2>1, <1>1, <1>5
  <2> QED BY <2>2, <1>1, <1>5
<1>7. CASE x > o
  <2>1. PICK y : y = x - o
    OBVIOUS
  <2>2. y \in 1 .. n /\ y < x /\ q + x = w + y
    BY <2>1, <1>1, <1>5, <1>7
  <2>3. y \notin Wrong
    BY <2>2, <1>4
  <2>4. A[w + y] = A[q + 1 + ((y - 1) % o)]
    BY <2>2, <2>3
  <2>5. (y - 1) % o = (x - 1) % o
    <3>1. PICK u \in Int : u = y - 1
      BY <2>2
    <3>2. u = o * (u \div o) + (u % o) /\ u \div o \in Int /\ u % o \in 0 .. o - 1
      BY DivModOf
    <3>3. PICK a \in Int : a = u \div o
      BY <3>2
    <3>4. PICK r \in 0 .. o - 1 : r = u % o
      BY <3>2
    <3>5. x - 1 = u + o
      BY <3>1, <2>1, <1>5
    <3>6. o * (a + 1) = (o * a) + o
      OBVIOUS
    <3>7. x - 1 = o * (a + 1) + r
      BY <3>2, <3>3, <3>4, <3>5, <3>6
    <3>8. (x - 1) % o = r
      BY <3>7, QuotientIs
    <3> QED BY <3>1, <3>4, <3>8
  <2>6. A[w + x] = A[q + x]
    BY <1>1, <1>5
  <2> QED BY <2>2, <2>4, <2>5, <2>6, <1>5
<1> QED BY <1>5, <1>6, <1>7

-----------------------------------------------------------------------------
(* What has come out is what is said from s on. *)
Said(A, s, o) ==
  o \in Seq(Nat) /\ s + Len(o) <= Len(A) /\ \A i \in 1 .. Len(o) : o[i] = A[s + i]

SaidMore(A, s, o, x, p) == Said(A, s, p) /\ Len(p) = Len(o) + Len(x)

(* What comes out goes on as the input does. *)
LEMMA SaidGrows ==
  ASSUME NEW A, Len(A) \in Nat, NEW s \in Nat, NEW o, Said(A, s, o),
         NEW x \in Seq(Nat), NEW v, v = s + Len(o), v + Len(x) <= Len(A),
         \A i \in 1 .. Len(x) : x[i] = A[v + i],
         NEW p, p = o \o x
  PROVE  SaidMore(A, s, o, x, p)
<1>1. o \in Seq(Nat) /\ \A i \in 1 .. Len(o) : o[i] = A[s + i]
  BY DEF Said
<1>2. Together(p, o, x)
  BY <1>1, Joined
<1>3. PICK m \in Nat : m = Len(o)
  BY <1>1, LenProperties
<1>4. PICK k \in Nat : k = Len(x)
  BY LenProperties
<1>5. /\ p \in Seq(Nat) /\ Len(p) = m + k
      /\ \A i \in 1 .. m : p[i] = o[i]
      /\ \A i \in 1 .. k : p[m + i] = x[i]
  BY <1>2, <1>3, <1>4 DEF Together
<1>6. ASSUME NEW i \in 1 .. m + k PROVE p[i] = A[s + i]
  <2>1. CASE i <= m
    <3>1. i \in 1 .. m
      BY <2>1
    <3> QED BY <3>1, <1>1, <1>3, <1>5
  <2>2. CASE i > m
    <3>1. PICK j : j = i - m
      OBVIOUS
    <3>2. j \in 1 .. k /\ m + j = i /\ v + j = s + i
      BY <2>2, <3>1, <1>3
    <3>3. p[m + j] = x[j] /\ x[j] = A[v + j]
      BY <3>2, <1>4, <1>5
    <3>4. p[i] = p[m + j] /\ A[s + i] = A[v + j]
      BY <3>2
    <3> QED BY <3>3, <3>4
  <2>3. i <= m \/ i > m
    OBVIOUS
  <2> QED BY <2>1, <2>2, <2>3, Zenon
<1>7. s + (m + k) <= Len(A)
  BY <1>3, <1>4
<1> QED BY <1>3, <1>4, <1>5, <1>6, <1>7 DEF Said, SaidMore

(* A whole block: sequences to b, and the last literals. *)
WholeBlock(A, s, L, d, b) ==
  /\ LaidOut(A, s, L, d, b) /\ b \in Nat /\ L[b] <= Len(A)
  /\ LiteralsAt(A, d, b, L[b], Len(A) - L[b], 0)
  /\ Len(d) = AfterRun(b, Len(A) - L[b])

(* Behind a match there are at least a token and LASTLITERALS literals. *)
LEMMA RoomBehind ==
  ASSUME NEW A, Len(A) \in Nat, NEW s \in Nat, NEW L, NEW d, NEW b, WholeBlock(A, s, L, d, b),
         NEW r \in DOMAIN L, r > 0
  PROVE  r \in Nat /\ r + 1 + LASTLITERALS <= Len(d)
<1>1. /\ DOMAIN L \subseteq 0 .. b /\ b \in DOMAIN L /\ b \in Nat
      /\ \A p \in DOMAIN L : L[p] \in Nat /\ (p > 0 => L[p] <= Len(A) - LASTLITERALS)
  BY DEF WholeBlock, LaidOut
<1>2. r \in Nat /\ r <= b /\ b > 0
  BY <1>1
<1>3. PICK v \in Nat : v = L[b]
  BY <1>1
<1>4. v <= Len(A) - LASTLITERALS
  BY <1>1, <1>2, <1>3
<1>5. PICK n \in Nat : n = Len(A) - v
  BY <1>3, <1>4, Limits
<1>6. Run(n) \in Nat
  BY ExtraIs, Limits DEF Run
<1>7. Len(d) = b + 1 + Run(n) + n
  BY <1>3, <1>5 DEF WholeBlock, AfterRun
<1>8. n >= LASTLITERALS
  BY <1>4, <1>5, Limits
<1>9. r + 1 + LASTLITERALS <= b + 1 + Run(n) + n
  BY <1>1, <1>2, <1>6, <1>8, Limits
<1> QED BY <1>2, <1>7, <1>9

Part(t, d, a, e) ==
  /\ t \in Seq(Nat) /\ Len(t) = IF a <= e THEN e - a + 1 ELSE 0
  /\ \A i \in 1 .. e - a + 1 : t[i] = d[a + i - 1]

(* A part of a sequence, byte by byte. *)
LEMMA PartIs ==
  ASSUME NEW d, NEW a \in Int, NEW e \in Int, \A i \in a .. e : d[i] \in Nat,
         NEW t, t = SubSeq(d, a, e)
  PROVE  Part(t, d, a, e)
<1>1. /\ SubSeq(d, a, e) \in Seq(Nat)
      /\ Len(SubSeq(d, a, e)) = IF a <= e THEN e - a + 1 ELSE 0
      /\ \A i \in 1 .. e - a + 1 : SubSeq(d, a, e)[i] = d[a + i - 1]
  BY SubSeqProperties
<1> QED BY <1>1 DEF Part

(* What ReadLiterals makes of n literals that end before top. *)
LiteralsDone(n, top) ==
  /\ pc' = IF Last(n, top) THEN "done" ELSE "offset"
  /\ loop' = IF SafeLiterals(n, top) THEN "safe"
             ELSE IF loop = "fast" THEN "fast" ELSE "shortcut"
  /\ Touch("out", LiteralsTouch(n, top))

(* The literals of a sequence as ReadLiterals reads them. *)
LEMMA LiteralsRead ==
  ASSUME InputInv, dest \in Seq(Nat), seen \in Nat, Said(all, Start, output),
         NEW n \in Nat, NEW c \in Nat, NEW v, v = Start + Len(output),
         LiteralsAt(all, dest, seen, v, n, c),
         NEW top, top = AfterRun(seen, n), top <= Len(dest), v + n <= iend,
         NEW cpy, cpy = Len(output) + n,
         Last(n, top) => top = srcSize /\ cpy <= outputSize,
         ReadLiterals
  PROVE  /\ token' = seen + 1 /\ seen' = top
         /\ Said(all, Start, output') /\ Len(output') = cpy
         /\ LiteralsDone(n, top)
<1>1. /\ dest[seen + 1] = Token(n, c)
      /\ \A i \in 1 .. Run(n) : dest[seen + 1 + i] = Extension(n, RUN_MASK)[i]
      /\ \A i \in 1 .. n : dest[seen + 1 + Run(n) + i] = all[v + i]
  BY DEF LiteralsAt
<1>2. PICK p \in Nat : p = seen + 1
  OBVIOUS
<1>3. PICK x \in Nat : x = Run(n)
  BY ExtraIs, Limits DEF Run
<1>4. PICK span \in Nat : span = Len(dest)
  BY LenProperties
<1>5. top = p + x + n /\ top \in Nat /\ top <= span
  BY SMTT(20), <1>2, <1>3, <1>4 DEF AfterRun
<1>6. PICK nibble : nibble = dest[seen + 1] \div (ML_MASK + 1)
  OBVIOUS
<1>7. nibble = Nibble(n, RUN_MASK)
  BY <1>1, <1>6, TokenIs
<1>8. nibble = RUN_MASK <=> n >= RUN_MASK
  BY <1>7, Limits DEF Nibble
<1>9. n >= RUN_MASK => /\ LengthBytes(p, srcSize - RUN_MASK) = x
                       /\ RUN_MASK + VariableLength(p, x) = n
                       /\ ~LiteralsLengthFails(p, x) /\ x >= 1
  <2> SUFFICES ASSUME n >= RUN_MASK
               PROVE  /\ LengthBytes(p, srcSize - RUN_MASK) = x
                      /\ RUN_MASK + VariableLength(p, x) = n
                      /\ ~LiteralsLengthFails(p, x) /\ x >= 1
    OBVIOUS
  <2>1. x = Extra(n, RUN_MASK) /\ x >= 1
    BY <1>3, ExtraIs, Limits DEF Run
  <2>2. \A i \in 1 .. Extra(n, RUN_MASK) : dest[p + i] = Extension(n, RUN_MASK)[i]
    BY <1>1, <1>2 DEF Run
  <2>3. PICK check \in Int : check = srcSize - RUN_MASK /\ check = span - RUN_MASK
    <3>1. srcSize = span
      BY <1>4 DEF srcSize
    <3>2. span - RUN_MASK \in Int
      BY Limits
    <3> QED BY <3>1, <3>2
  <2>4. p + x <= check /\ p + x <= span
    BY <1>5, <2>3, Limits
  <2>5. LengthBytes(p, check) = x /\ RUN_MASK + VariableLength(p, x) = n
    <3>1. RUN_MASK \in Nat \ {0} /\ RUN_MASK <= BYTE_MAX
      BY Limits
    <3>2. p + Extra(n, RUN_MASK) <= check /\ p + Extra(n, RUN_MASK) <= Len(dest)
      BY <2>1, <2>4, <1>4
    <3>3. /\ LengthBytes(p, check) = Extra(n, RUN_MASK)
          /\ RUN_MASK + VariableLength(p, Extra(n, RUN_MASK)) = n
      BY <2>2, <3>1, <3>2, LengthBytesAre
    <3> QED BY <3>3, <2>1
  <2>6. ~LiteralsLengthFails(p, x)
    <3>1. p < check
      BY <2>1, <2>4
    <3> QED BY <3>1, <2>3 DEF LiteralsLengthFails
  <2> QED BY <2>1, <2>3, <2>5, <2>6
<1>10. n < RUN_MASK => x = 0 /\ nibble = n
  BY <1>3, <1>7, ExtraIs, Limits DEF Run, Nibble
<1>11. PICK bytes : bytes = IF nibble = RUN_MASK THEN LengthBytes(p, srcSize - RUN_MASK) ELSE 0
  OBVIOUS
<1>12. bytes = x
  BY <1>8, <1>9, <1>10, <1>11, Limits
<1>13. nibble + VariableLength(p, bytes) = n
  <2>1. CASE n >= RUN_MASK
    BY <2>1, <1>8, <1>9, <1>12
  <2>2. CASE n < RUN_MASK
    BY <2>2, <1>10, <1>12 DEF VariableLength
  <2> QED BY <2>1, <2>2, Limits
<1>14. p + bytes + n = top
  BY <1>5, <1>12
<1>15. ~(nibble = RUN_MASK /\ LiteralsLengthFails(p, bytes))
  BY <1>8, <1>9, <1>12
<1>16. ~(Last(n, top) /\ (top # srcSize \/ Len(output) + n > outputSize))
  <2>1. cpy \in Nat /\ outputSize \in Nat
    BY LenProperties DEF Said, InputInv
  <2> QED BY <2>1
<1>17. /\ token' = seen + 1 /\ seen' = top
       /\ output' = output \o SubSeq(dest, top - n + 1, top)
       /\ LiteralsDone(n, top)
  BY <1>2, <1>6, <1>11, <1>13, <1>14, <1>15, <1>16, Zenon DEF ReadLiterals, LiteralsDone
<1>18. PICK text : text = SubSeq(dest, top - n + 1, top)
  OBVIOUS
<1>19. text \in Seq(Nat) /\ Len(text) = n /\ \A i \in 1 .. n : text[i] = all[v + i]
  <2>1. PICK a \in Int : a = top - n + 1
    BY <1>5
  <2>2. a = p + x + 1 /\ a \in 1 .. span + 1
    BY <2>1, <1>2, <1>5
  <2>3. text = SubSeq(dest, a, top)
    BY <1>18, <2>1
  <2>4. ASSUME NEW i \in a .. top PROVE dest[i] \in Nat
    <3>1. i \in 1 .. Len(dest)
      BY <2>2, <1>4, <1>5
    <3> QED BY <3>1, ElementOfSeq
  <2>5. /\ text \in Seq(Nat) /\ Len(text) = IF a <= top THEN top - a + 1 ELSE 0
        /\ \A i \in 1 .. top - a + 1 : text[i] = dest[a + i - 1]
    <3>1. a \in Int /\ top \in Int
      BY <1>5
    <3>2. Part(text, dest, a, top)
      BY <3>1, <2>3, <2>4, PartIs
    <3> QED BY <3>2 DEF Part
  <2>6. top - a + 1 = n
    BY <1>5, <2>2
  <2>7. Len(text) = n
    BY <1>5, <2>2, <2>5, <2>6
  <2>8. ASSUME NEW i \in 1 .. n PROVE text[i] = all[v + i]
    <3>1. text[i] = dest[a + i - 1]
      BY <2>5, <2>6
    <3>2. a + i - 1 = seen + 1 + x + i
      BY <2>2, <1>2
    <3> QED BY <3>1, <3>2, <1>1, <1>3
  <2> QED BY <2>5, <2>7, <2>8
<1>20. Said(all, Start, output') /\ Len(output') = Len(output) + Len(text)
  <2>1. Len(all) \in Nat /\ Start \in Nat /\ iend = Len(all)
    BY AllIs
  <2>2. v + Len(text) <= Len(all) /\ \A i \in 1 .. Len(text) : text[i] = all[v + i]
    BY <2>1, <1>19
  <2>3. output' = output \o text
    BY <1>17, <1>18
  <2>4. SaidMore(all, Start, output, text, output')
    BY <2>1, <2>2, <2>3, <1>19, SaidGrows
  <2> QED BY <2>4 DEF SaidMore
<1> QED BY <1>17, <1>19, <1>20

(* The bytes Copied takes of what was said. *)
LEMMA CopiedIs ==
  ASSUME InputInv, Said(all, Start, output), NEW w, w = Start + Len(output),
         NEW q, NEW n \in Nat, Matching(all, w, q, n), w + n <= iend,
         NEW o \in Nat \ {0}, o = w - q,
         NEW text, text = Copied(past \o output, o, n)
  PROVE  /\ text \in Seq(Nat) /\ Len(text) = n
         /\ \A i \in 1 .. n : text[i] = all[w + i]
<1>1. PICK m \in Nat : m = Len(output)
  BY LenProperties DEF Said
<1>2. PICK s \in Nat : s = Start
  BY AllIs
<1>3. w = s + m /\ w \in Nat /\ q \in Nat /\ o <= w
  BY <1>1, <1>2 DEF Matching
<1>4. PICK said : said = past \o output
  OBVIOUS
<1>5. Together(said, past, output)
  <2>1. past \in Seq(Nat) /\ output \in Seq(Nat)
    BY AllIs DEF Said
  <2> QED BY <2>1, <1>4, Joined
<1>6. /\ Len(said) = w
      /\ \A i \in 1 .. s : said[i] = past[i]
      /\ \A i \in 1 .. m : said[s + i] = output[i]
  <2>1. Len(past) = s
    BY <1>2 DEF Start
  <2> QED BY <2>1, <1>1, <1>3, <1>5 DEF Together
<1>7. ASSUME NEW j \in 1 .. w PROVE said[j] = all[j]
  <2>1. CASE j <= s
    <3>1. j \in 1 .. s
      BY <2>1
    <3>2. all[j] = past[j]
      BY <3>1, <1>2, AllIs
    <3> QED BY <3>1, <3>2, <1>6
  <2>2. CASE j > s
    <3>1. PICK i : i = j - s
      OBVIOUS
    <3>2. i \in 1 .. m /\ s + i = j
      BY <3>1, <2>2, <1>3
    <3>3. said[s + i] = output[i]
      BY <3>2, <1>6
    <3>4. output[i] = all[s + i]
      BY <3>2, <1>1, <1>2 DEF Said
    <3> QED BY <3>2, <3>3, <3>4
  <2>3. j <= s \/ j > s
    OBVIOUS
  <2> QED BY <2>1, <2>2, <2>3, Zenon
<1>8. text = [i \in 1 .. n |-> said[w - o + 1 + ((i - 1) % o)]]
  BY <1>4, <1>6 DEF Copied
<1>9. ASSUME NEW i \in 1 .. n PROVE text[i] = all[w + i] /\ all[w + i] \in Nat
  <2>1. PICK k \in 0 .. o - 1 : k = (i - 1) % o
    OBVIOUS
  <2>2. text[i] = said[w - o + 1 + k]
    BY <1>8, <2>1
  <2>3. w - o + 1 + k = q + 1 + k /\ q + 1 + k \in 1 .. w
    <3>1. w \in Nat /\ q \in Nat /\ o = w - q /\ k \in Nat /\ k <= o - 1
      BY <1>3, <2>1
    <3> QED BY SMTT(20), <3>1
  <2>4. text[i] = all[q + 1 + k]
    BY <2>2, <2>3, <1>7
  <2>5. all[w + i] = all[q + 1 + k]
    <3>1. \A j \in 1 .. n : all[w + j] = all[q + 1 + ((j - 1) % o)]
      BY Repeats
    <3> QED BY <3>1, <2>1
  <2>6. all[w + i] \in Nat
    <3>1. all \in Seq(Nat) /\ Len(all) = iend /\ iend \in Nat
      BY AllIs
    <3>2. w + i \in 1 .. Len(all)
      <4>1. w \in Nat /\ w + n <= iend
        BY <1>3
      <4> QED BY SMTT(20), <4>1, <3>1
    <3> QED BY <3>1, <3>2, ElementOfSeq
  <2> QED BY <2>4, <2>5, <2>6
<1>10. text \in Seq(Nat) /\ Len(text) = n
  <2>1. \A i \in 1 .. n : text[i] \in Nat
    BY <1>9
  <2>2. text \in [1 .. n -> Nat]
    BY <2>1, <1>8
  <2> QED BY <2>2
<1> QED BY <1>9, <1>10

(* What ReadMatch makes of a match. *)
MatchDone(offset, n) ==
  /\ pc' = "token"
  /\ loop' = IF InFastLoop(n) THEN "fast" ELSE "safe"
  /\ Touch("out", MatchTouch(offset, n))

(* The match of a sequence as ReadMatch reads it. *)
LEMMA MatchRead ==
  ASSUME InputInv, dest \in Seq(Nat), seen \in Nat, Said(all, Start, output),
         NEW n \in Nat, NEW c \in Nat, NEW w, w = Start + Len(output), NEW q,
         dest[token] = Token(n, c), MatchAt(dest, seen, w, q, c),
         Matching(all, w, q, MINMATCH + c), w + MINMATCH + c <= matchlimit,
         seen + 2 + Rest(c) + 1 + LASTLITERALS <= Len(dest),
         NEW cpy, cpy = Len(output) + (MINMATCH + c),
         ReadMatch
  PROVE  /\ seen' = seen + 2 + Rest(c) /\ pc' = "token"
         /\ Said(all, Start, output') /\ Len(output') = cpy
         /\ \E o \in Nat : MatchDone(o, MINMATCH + c)
<1>1. PICK m \in Nat : m = Len(output)
  BY LenProperties DEF Said
<1>2. /\ w = Start + m /\ w \in Nat /\ q \in Nat /\ q < w /\ Start \in Nat
  BY <1>1, AllIs DEF Matching
<1>3. PICK o \in Nat \ {0} : o = w - q
  <2>1. w - q \in Nat \ {0}
    BY <1>2
  <2> QED BY <2>1
<1>4. PICK x \in Nat : x = Rest(c)
  BY ExtraIs, Limits DEF Rest
<1>5. PICK span \in Nat : span = Len(dest)
  BY LenProperties
<1>6. PICK at \in Nat : at = seen + 2
  OBVIOUS
<1>7. /\ dest[seen + 1] = o % (BYTE_MAX + 1) /\ dest[seen + 2] = o \div (BYTE_MAX + 1)
      /\ \A i \in 1 .. x : dest[at + i] = Extension(c, ML_MASK)[i]
  BY <1>3, <1>4, <1>6 DEF MatchAt
<1>8. dest[seen + 1] + dest[seen + 2] * (BYTE_MAX + 1) = o
  <2>1. PICK b \in Nat \ {0} : b = BYTE_MAX + 1
    BY Limits
  <2>2. PICK y : y = o \div b
    OBVIOUS
  <2>3. PICK z : z = o % b
    OBVIOUS
  <2>4. o = b * y + z /\ y \in Int /\ z \in Int
    BY <2>2, <2>3, DivModOf
  <2>5. b * y = y * b
    BY <2>4
  <2>6. z + y * b = o
    BY <2>4, <2>5
  <2> QED BY <2>1, <2>2, <2>3, <2>6, <1>7
<1>9. PICK nibble : nibble = dest[token] % (ML_MASK + 1)
  OBVIOUS
<1>10. nibble = Nibble(c, ML_MASK)
  BY <1>9, TokenIs
<1>11. PICK limit \in Int : limit = srcSize - LASTLITERALS + 1 /\ limit = span - LASTLITERALS + 1
  <2>1. srcSize = span
    BY <1>5 DEF srcSize
  <2>2. span - LASTLITERALS + 1 \in Int
    BY Limits
  <2> QED BY <2>1, <2>2
<1>12. at + x < limit /\ at + x <= span
  <2>1. at + x + 1 + LASTLITERALS <= span
    BY <1>4, <1>5, <1>6
  <2> QED BY <2>1, <1>11, Limits
<1>13. nibble = ML_MASK <=> c >= ML_MASK
  BY <1>10, Limits DEF Nibble
<1>14. c >= ML_MASK => LengthBytes(at, limit) = x /\ ML_MASK + VariableLength(at, x) = c
  <2> SUFFICES ASSUME c >= ML_MASK
               PROVE  LengthBytes(at, limit) = x /\ ML_MASK + VariableLength(at, x) = c
    OBVIOUS
  <2>1. x = Extra(c, ML_MASK)
    BY <1>4 DEF Rest
  <2>2. \A i \in 1 .. Extra(c, ML_MASK) : dest[at + i] = Extension(c, ML_MASK)[i]
    BY <1>7, <2>1
  <2>3. ML_MASK \in Nat \ {0} /\ ML_MASK <= BYTE_MAX
    BY Limits
  <2>4. at + Extra(c, ML_MASK) <= limit /\ at + Extra(c, ML_MASK) <= Len(dest)
    BY <2>1, <1>5, <1>12
  <2>5. /\ LengthBytes(at, limit) = Extra(c, ML_MASK)
        /\ ML_MASK + VariableLength(at, Extra(c, ML_MASK)) = c
    BY <2>2, <2>3, <2>4, LengthBytesAre
  <2> QED BY <2>1, <2>5
<1>15. c < ML_MASK => x = 0 /\ nibble = c
  BY <1>4, <1>10, ExtraIs, Limits DEF Rest, Nibble
<1>16. PICK bytes : bytes = IF nibble = ML_MASK THEN LengthBytes(at, limit) ELSE 0
  OBVIOUS
<1>17. bytes = x
  BY <1>13, <1>14, <1>15, <1>16, Limits
<1>18. nibble + VariableLength(at, bytes) = c
  <2>1. CASE c >= ML_MASK
    BY <2>1, <1>13, <1>14, <1>17
  <2>2. CASE c < ML_MASK
    BY <2>2, <1>15, <1>17 DEF VariableLength
  <2> QED BY <2>1, <2>2, Limits
<1>19. PICK length \in Nat : length = MINMATCH + c /\ length = c + MINMATCH
  BY Limits
<1>20. nibble + VariableLength(at, bytes) + MINMATCH = length
  BY <1>18, <1>19
<1>21. cpy = m + length
  BY <1>1, <1>19
<1>22. w + length <= matchlimit /\ w + length <= iend
  <2>1. matchlimit = iend - LASTLITERALS /\ iend \in Nat /\ matchlimit \in Int
    BY LimitsOfMatches
  <2>2. w + length <= matchlimit
    BY <1>2, <1>19, Limits
  <2> QED BY <2>1, <2>2, <1>2, Limits
<1>23. /\ ~(nibble = ML_MASK /\ at + bytes >= limit)
       /\ ~(o > Len(past) + m)
       /\ ~(m + length > outputSize - LASTLITERALS)
  <2>1. ~(at + bytes >= limit)
    BY <1>12, <1>17
  <2>2. ~(o > Len(past) + m)
    BY <1>2, <1>3 DEF Start
  <2>3. cpy <= outputSize - LASTLITERALS
    <3>1. iend = Start + Len(source) /\ Len(source) \in Nat /\ Len(source) <= outputSize /\ outputSize \in Nat
      BY AllIs DEF InputInv
    <3>2. matchlimit = iend - LASTLITERALS
      BY LimitsOfMatches
    <3>3. PICK k \in Nat : k = Len(source)
      BY <3>1
    <3>4. PICK s \in Nat : s = Start
      BY <1>2
    <3>5. iend = s + k /\ k <= outputSize
      BY <3>1, <3>3, <3>4
    <3>6. w + length <= (s + k) - LASTLITERALS
      BY <3>2, <3>5, <1>22
    <3>7. w = s + m
      BY <3>4, <1>2
    <3>8. m + length <= k - LASTLITERALS
      BY <3>6, <3>7, Limits
    <3> QED BY <3>1, <3>5, <3>8, <1>21, Limits
  <2>4. cpy \in Int /\ outputSize - LASTLITERALS \in Int
    BY <1>21, Limits DEF InputInv
  <2>5. ~(m + length > outputSize - LASTLITERALS)
    BY <2>3, <2>4, <1>21
  <2> QED BY <2>1, <2>2, <2>5
<1>24. /\ seen' = at + bytes
       /\ output' = output \o Copied(past \o output, o, length)
       /\ MatchDone(o, length)
  BY <1>1, <1>6, <1>8, <1>9, <1>11, <1>16, <1>20, <1>21, <1>23, Zenon DEF ReadMatch, MatchDone
<1>25. PICK text : text = Copied(past \o output, o, length)
  OBVIOUS
<1>26. text \in Seq(Nat) /\ Len(text) = length /\ \A i \in 1 .. length : text[i] = all[w + i]
  <2>1. Matching(all, w, q, length)
    BY <1>19
  <2> QED BY SMTT(20), <2>1, <1>3, <1>22, <1>25, CopiedIs
<1>27. Said(all, Start, output') /\ Len(output') = Len(output) + Len(text)
  <2>1. Len(all) \in Nat /\ Start \in Nat /\ iend = Len(all)
    BY AllIs
  <2>2. w + Len(text) <= Len(all) /\ \A i \in 1 .. Len(text) : text[i] = all[w + i]
    BY <2>1, <1>22, <1>26
  <2>3. output' = output \o text
    BY <1>24, <1>25
  <2>4. SaidMore(all, Start, output, text, output')
    BY <2>1, <2>2, <2>3, <1>26, SaidGrows
  <2> QED BY <2>4 DEF SaidMore
<1>28. seen' = seen + 2 + Rest(c)
  BY <1>4, <1>6, <1>17, <1>24
<1>29. pc' = "token" /\ MatchDone(o, MINMATCH + c)
  BY <1>19, <1>24 DEF MatchDone
<1> QED BY <1>1, <1>21, <1>24, <1>26, <1>27, <1>28, <1>29

DecodeInv ==
  /\ pc # "failed"
  /\ pc = "token" => \E L, b :
       /\ WholeBlock(all, Start, L, dest, b) /\ seen \in DOMAIN L
       /\ L[seen] = Start + Len(output) /\ Said(all, Start, output)
  /\ pc = "offset" => \E L, b, n, q, c :
       /\ WholeBlock(all, Start, L, dest, b) /\ token - 1 \in DOMAIN L
       /\ Leads(all, L, dest, token - 1, n, q, c)
       /\ seen = AfterRun(token - 1, n)
       /\ L[token - 1] + n = Start + Len(output) /\ Said(all, Start, output)
  /\ pc = "done" => output = source

(* LastLiterals makes the block whole, and the decoder begins at its start. *)
LEMMA LastLiteralsKeeps ==
  ASSUME InputInv, EncodeInv, LastLiterals
  PROVE  EncodeInv' /\ DecodeInv'
<1>1. pc = "last" /\ UNCHANGED <<ip, anchor, match, token, seen, output>>
  BY DEF LastLiterals, decoder
<1>2. /\ all' = all /\ Start' = Start
  BY SameInput DEF LastLiterals
<1>3. /\ dest \in Seq(Nat) /\ {ip, anchor, match, token} \subseteq Nat
      /\ seen = 0 /\ output = <<>>
      /\ Start <= anchor /\ anchor <= ip /\ ip <= iend
      /\ Laid(all, Start, dest, Boundary, anchor)
  BY <1>1 DEF EncodeInv, Encoding
<1>4. CASE pc' = "given up" /\ dest' = dest
  <2>1. EncodeInv'
    BY <1>1, <1>3, <1>4 DEF EncodeInv, Encoding
  <2>2. DecodeInv'
    BY <1>4 DEF DecodeInv
  <2> QED BY <2>1, <2>2
<1>5. CASE pc' = "token"
  <2>1. PICK n \in Nat : n = iend - anchor
    BY <1>3, LimitsOfMatches
  <2>2. PICK s : s = Append(dest, Token(n, 0)) \o Extension(n, RUN_MASK)
    OBVIOUS
  <2>3. dest' = s \o Literals(anchor, n)
    BY <1>5, <2>1, <2>2 DEF LastLiterals
  <2>4. anchor \in Nat /\ anchor + n <= iend /\ dest \in Seq(Nat) /\ n = Len(all) - anchor
        /\ anchor <= Len(all)
    BY <1>3, <2>1, LimitsOfMatches DEF iend
  <2>5. PICK b \in Nat : b = Len(dest)
    BY <1>3
  <2>6. RunTold(all, dest, dest', anchor, n)
    BY <2>2, <2>3, <2>4, RunAppended
  <2>7. /\ dest' \in Seq(Nat) /\ Len(dest') = AfterRun(b, n)
        /\ \A i \in 1 .. b : dest'[i] = dest[i]
        /\ LiteralsAt(all, dest', b, anchor, n, 0)
    BY <2>5, <2>6 DEF RunTold
  <2>8. Laid(all, Start, dest', b, anchor)
    <3>1. Boundary = b
      BY <1>1, <2>5 DEF Boundary
    <3> QED BY <3>1, <1>3, <2>7, LaidStays
  <2>9. PICK L : LaidOut(all, Start, L, dest', b) /\ L[b] = anchor
    BY <2>8 DEF Laid
  <2>10. WholeBlock(all, Start, L, dest', b)
    BY <2>4, <2>7, <2>9 DEF WholeBlock
  <2>11. 0 \in DOMAIN L /\ L[0] = Start
    BY <2>9 DEF LaidOut
  <2>12. Len(output) = 0 /\ Start \in Nat /\ Start + 0 <= Len(all) /\ output \in Seq(Nat)
    BY <1>3, <2>4, AllIs
  <2>13. Said(all, Start, output) /\ L[0] = Start + Len(output)
    BY <2>11, <2>12 DEF Said
  <2>14. EncodeInv'
    BY <1>1, <1>3, <1>5, <2>7 DEF EncodeInv, Encoding
  <2>15. DecodeInv'
    BY <1>1, <1>2, <1>3, <1>5, <2>10, <2>11, <2>13 DEF DecodeInv
  <2> QED BY <2>14, <2>15
<1> QED BY <1>4, <1>5 DEF LastLiterals

(* How much of its buffer the decoder has used behind the literals. *)
LiteralsFollow(n, top) ==
  /\ LiteralsDone(n, top)
  /\ Len(output) \in Nat /\ Len(output') = Len(output) + n
  /\ Len(output) + n <= outputSize
  /\ ~Last(n, top) => Len(output) + n <= outputSize - MFLIMIT

(* ReadLiterals never fails on a whole block: it reads the literals that   *)
(* were written, and tells the last sequence from the others.              *)
LEMMA ReadLiteralsKeeps ==
  ASSUME InputInv, EncodeInv, DecodeInv, ReadLiterals
  PROVE  /\ EncodeInv' /\ DecodeInv'
         /\ \E n \in Nat, top \in Nat : LiteralsFollow(n, top)
<1>1. pc = "token" /\ UNCHANGED <<ip, anchor, match, dest>>
  BY DEF ReadLiterals
<1>2. /\ all' = all /\ Start' = Start /\ UNCHANGED source
  BY SameInput DEF ReadLiterals
<1>3. dest \in Seq(Nat) /\ {ip, anchor, match, token} \subseteq Nat
  BY DEF EncodeInv
<1>4. PICK L, b : /\ WholeBlock(all, Start, L, dest, b) /\ seen \in DOMAIN L
                  /\ L[seen] = Start + Len(output) /\ Said(all, Start, output)
  BY <1>1 DEF DecodeInv
<1>5. PICK s \in Nat : s = Start
  BY AllIs
<1>6. PICK m \in Nat : m = Len(output)
  BY <1>4, LenProperties DEF Said
<1>7. PICK v \in Nat : v = s + m
  OBVIOUS
<1>8. L[seen] = v /\ v = Start + Len(output)
  BY <1>4, <1>5, <1>6, <1>7
<1>9. PICK k \in Nat : k = Len(source)
  BY AllIs
<1>10. iend = s + k /\ Len(all) = s + k /\ k <= outputSize /\ outputSize \in Nat
  BY <1>5, <1>9, AllIs DEF InputInv
<1>11. /\ LaidOut(all, Start, L, dest, b) /\ b \in Nat /\ L[b] <= Len(all)
       /\ LiteralsAt(all, dest, b, L[b], Len(all) - L[b], 0)
       /\ Len(dest) = AfterRun(b, Len(all) - L[b])
  BY <1>4 DEF WholeBlock
<1>12. seen \in Nat /\ seen <= b /\ (seen # b => \E n, q, c : Leads(all, L, dest, seen, n, q, c))
  BY <1>4, <1>11 DEF LaidOut
<1>13. CASE seen = b
  <2>1. PICK n \in Nat : n = (s + k) - v
    BY <1>8, <1>10, <1>11, <1>13
  <2>2. LiteralsAt(all, dest, seen, v, n, 0) /\ Len(dest) = AfterRun(seen, n)
    BY <1>8, <1>10, <1>11, <1>13, <2>1
  <2>3. PICK top : top = AfterRun(seen, n)
    OBVIOUS
  <2>4. PICK cpy \in Nat : cpy = m + n
    OBVIOUS
  <2>5. cpy = k /\ cpy <= outputSize /\ v + n <= iend
    BY <1>7, <1>10, <2>1, <2>4
  <2>6. top = srcSize /\ top <= Len(dest) /\ top \in Nat
    BY <1>3, <2>2, <2>3, LenProperties DEF srcSize
  <2>7. Last(n, top)
    <3>1. IsLast(top, Len(output) + n)
      <4>1. top > srcSize - (2 + 1 + LASTLITERALS)
        BY <2>6, Limits
      <4> QED BY <4>1 DEF IsLast
    <3>2. PICK x \in Nat : x = Run(n)
      BY ExtraIs, Limits DEF Run
    <3>3. n < RUN_MASK => x = 0
      BY <3>2, ExtraIs, Limits DEF Run
    <3>4. top = seen + 1 + x + n
      BY <2>3, <3>2 DEF AfterRun
    <3>5. ~FastLiterals(n, top)
      <4>1. CASE n >= RUN_MASK
        <5>1. ~(top <= srcSize - 2 * STRIPE)
          BY <2>6, FastLimits
        <5> QED BY <4>1, <5>1 DEF FastLiterals
      <4>2. CASE n < RUN_MASK
        <5>1. ~(seen + 1 <= srcSize - (STRIPE + 1))
          BY <4>2, <1>12, <2>6, <3>3, <3>4, FastLimits, Limits
        <5>2. ~(n >= RUN_MASK)
          BY <4>2, Limits
        <5> QED BY <5>1, <5>2 DEF FastLiterals
      <4> QED BY <4>1, <4>2, Limits
    <3>6. ~ShortcutLiterals(n)
      <4>1. CASE n >= RUN_MASK
        <5>1. ~(n < RUN_MASK)
          BY <4>1, Limits
        <5> QED BY <5>1 DEF ShortcutLiterals
      <4>2. CASE n < RUN_MASK
        <5>1. ~(seen + 1 < srcSize - MaxLL - 2)
          BY <4>2, <1>12, <2>6, <3>3, <3>4, FastLimits, Limits
        <5> QED BY <5>1 DEF ShortcutLiterals
      <4> QED BY <4>1, <4>2, Limits
    <3> QED BY <3>1, <3>5, <3>6 DEF Last, SafeLiterals
  <2>8. /\ token' = seen + 1 /\ seen' = top
        /\ Said(all, Start, output') /\ Len(output') = cpy
        /\ LiteralsDone(n, top)
    BY <1>3, <1>4, <1>6, <1>8, <1>12, <2>2, <2>3, <2>4, <2>5, <2>6, LiteralsRead
  <2>9. pc' = "done" /\ LiteralsFollow(n, top)
    BY <1>6, <2>4, <2>5, <2>7, <2>8 DEF LiteralsDone, LiteralsFollow
  <2>10. output' = source
    <3>1. output' \in Seq(Nat) /\ source \in Seq(Nat) /\ Len(output') = k /\ Len(source) = k
      BY <1>9, <2>5, <2>8, AllIs DEF Said
    <3>2. ASSUME NEW i \in 1 .. k PROVE output'[i] = source[i]
      <4>1. output'[i] = all[Start + i]
        BY <2>5, <2>8 DEF Said
      <4>2. all[Start + i] = source[i]
        BY <1>9, AllIs
      <4> QED BY <4>1, <4>2
    <3> QED BY <3>1, <3>2, SeqEqual
  <2>11. EncodeInv'
    BY <1>1, <1>3, <1>12, <2>8, <2>9 DEF EncodeInv, Encoding
  <2>12. DecodeInv'
    BY <1>2, <2>9, <2>10 DEF DecodeInv
  <2> QED BY <2>6, <2>9, <2>11, <2>12
<1>14. CASE seen # b
  <2>1. PICK n, q, c : Leads(all, L, dest, seen, n, q, c)
    BY <1>12, <1>14
  <2>2. PICK top : top = AfterRun(seen, n)
    OBVIOUS
  <2>3. /\ n \in Nat /\ c \in Nat /\ LiteralsAt(all, dest, seen, v, n, c)
        /\ v + n <= Len(all) - MFLIMIT
        /\ top + 2 + Rest(c) \in DOMAIN L
    BY <1>8, <2>1, <2>2 DEF Leads
  <2>4. PICK x \in Nat : x = Rest(c)
    BY <2>3, ExtraIs, Limits DEF Rest
  <2>5. top \in Nat
    <3>1. Run(n) \in Nat
      BY <2>3, ExtraIs, Limits DEF Run
    <3> QED BY <3>1, <1>12, <2>2, <2>3 DEF AfterRun
  <2>6. top + 2 + x + 1 + LASTLITERALS <= Len(dest)
    <3>1. PICK r \in DOMAIN L : r = top + 2 + x
      BY <2>3, <2>4
    <3>2. r > 0
      BY <3>1, <2>5
    <3>3. Len(all) \in Nat /\ Start \in Nat
      BY AllIs
    <3>4. r + 1 + LASTLITERALS <= Len(dest)
      BY <1>4, <3>2, <3>3, RoomBehind
    <3> QED BY <3>1, <3>4
  <2>7. PICK span \in Nat : span = Len(dest) /\ span = srcSize
    BY <1>3, LenProperties DEF srcSize
  <2>8. top + 2 + 1 + LASTLITERALS <= span /\ top <= span
    BY <2>5, <2>6, <2>7, Limits
  <2>9. PICK cpy \in Nat : cpy = m + n
    BY <2>3
  <2>10. cpy <= outputSize - MFLIMIT /\ v + n <= iend
    BY <1>7, <1>10, <2>3, <2>9, Limits
  <2>11. ~Last(n, top)
    <3>1. ~(cpy > outputSize - MFLIMIT)
      BY <1>10, <2>10, Limits
    <3>2. ~(top > span - (2 + 1 + LASTLITERALS))
      BY <2>5, <2>8, Limits
    <3>3. ~IsLast(top, cpy) /\ cpy = Len(output) + n
      BY <3>1, <3>2, <1>6, <2>7, <2>9 DEF IsLast
    <3> QED BY <3>3 DEF Last
  <2>12. /\ token' = seen + 1 /\ seen' = top
         /\ Said(all, Start, output') /\ Len(output') = cpy
         /\ LiteralsDone(n, top)
    BY SMTT(20), <1>3, <1>4, <1>6, <1>8, <1>12, <2>2, <2>3, <2>7, <2>8, <2>9, <2>10, <2>11, LiteralsRead
  <2>13. pc' = "offset" /\ LiteralsFollow(n, top)
    <3>1. pc' = "offset"
      BY <2>11, <2>12 DEF LiteralsDone
    <3>2. cpy <= outputSize
      BY <1>10, <2>10, Limits
    <3> QED BY <3>1, <3>2, <1>6, <2>9, <2>10, <2>12 DEF LiteralsFollow
  <2>14. EncodeInv'
    BY <1>1, <1>3, <1>12, <2>12, <2>13 DEF EncodeInv, Encoding
  <2>15. token' - 1 = seen
    BY <1>12, <2>12
  <2>16. L[seen] + n = Start + Len(output')
    BY <1>5, <1>7, <1>8, <2>3, <2>9, <2>12
  <2>17. DecodeInv'
    BY <1>1, <1>2, <1>4, <2>1, <2>2, <2>12, <2>13, <2>15, <2>16 DEF DecodeInv
  <2> QED BY <2>3, <2>5, <2>13, <2>14, <2>17
<1> QED BY <1>13, <1>14

(* How much of its buffer the decoder has used behind a match. *)
MatchFollows(offset, n) ==
  /\ MatchDone(offset, n)
  /\ n >= MINMATCH /\ Len(output) \in Nat /\ Len(output') = Len(output) + n
  /\ Len(output) <= outputSize - MFLIMIT
  /\ Len(output) + n <= outputSize - LASTLITERALS

(* ReadMatch never fails on a whole block: it reads the offset and the     *)
(* length that were written, and copies what the input says there.         *)
LEMMA ReadMatchKeeps ==
  ASSUME InputInv, EncodeInv, DecodeInv, ReadMatch
  PROVE  /\ EncodeInv' /\ DecodeInv'
         /\ \E o, n \in Nat : MatchFollows(o, n)
<1>1. pc = "offset" /\ UNCHANGED <<ip, anchor, match, dest, token>>
  BY DEF ReadMatch, encoder
<1>2. /\ all' = all /\ Start' = Start /\ UNCHANGED source
  BY SameInput DEF ReadMatch
<1>3. dest \in Seq(Nat) /\ {ip, anchor, match, token} \subseteq Nat
  BY DEF EncodeInv
<1>4. PICK L, b, n, q, c :
        /\ WholeBlock(all, Start, L, dest, b) /\ token - 1 \in DOMAIN L
        /\ Leads(all, L, dest, token - 1, n, q, c)
        /\ seen = AfterRun(token - 1, n)
        /\ L[token - 1] + n = Start + Len(output) /\ Said(all, Start, output)
  BY <1>1 DEF DecodeInv
<1>5. PICK s \in Nat : s = Start
  BY AllIs
<1>6. PICK m \in Nat : m = Len(output)
  BY <1>4, LenProperties DEF Said
<1>7. PICK w \in Nat : w = s + m
  OBVIOUS
<1>8. L[token - 1] + n = w /\ w = Start + Len(output)
  BY <1>4, <1>5, <1>6, <1>7
<1>9. /\ n \in Nat /\ c \in Nat
      /\ LiteralsAt(all, dest, token - 1, L[token - 1], n, c) /\ MatchAt(dest, seen, w, q, c)
      /\ Matching(all, w, q, MINMATCH + c)
      /\ w <= Len(all) - MFLIMIT /\ w + MINMATCH + c <= Len(all) - LASTLITERALS
      /\ seen + 2 + Rest(c) \in DOMAIN L
      /\ L[seen + 2 + Rest(c)] = w + MINMATCH + c
  BY <1>4, <1>8 DEF Leads
<1>10. PICK p \in Nat : p = token - 1
  <2>1. DOMAIN L \subseteq 0 .. b
    BY <1>4 DEF WholeBlock, LaidOut
  <2> QED BY <2>1, <1>4
<1>11. dest[token] = Token(n, c)
  <2>1. dest[p + 1] = Token(n, c) /\ p + 1 = token
    BY <1>3, <1>9, <1>10 DEF LiteralsAt
  <2> QED BY <2>1
<1>12. seen \in Nat
  <2>1. Run(n) \in Nat
    BY <1>9, ExtraIs, Limits DEF Run
  <2>2. seen = p + 1 + Run(n) + n
    BY <1>4, <1>10 DEF AfterRun
  <2> QED BY <2>1, <2>2, <1>9
<1>13. PICK x \in Nat : x = Rest(c)
  BY <1>9, ExtraIs, Limits DEF Rest
<1>14. PICK r \in DOMAIN L : r = seen + 2 + Rest(c) /\ r = seen + 2 + x
  BY <1>9, <1>13
<1>15. seen + 2 + Rest(c) + 1 + LASTLITERALS <= Len(dest)
  <2>1. r > 0
    BY <1>12, <1>14
  <2>2. Len(all) \in Nat /\ Start \in Nat
    BY AllIs
  <2>3. r + 1 + LASTLITERALS <= Len(dest)
    BY <1>4, <2>1, <2>2, RoomBehind
  <2> QED BY <2>3, <1>14
<1>16. PICK k \in Nat : k = Len(source)
  BY AllIs
<1>17. iend = s + k /\ Len(all) = s + k /\ k <= outputSize /\ outputSize \in Nat
  BY <1>5, <1>16, AllIs DEF InputInv
<1>18. w + MINMATCH + c <= matchlimit
  BY <1>9, LimitsOfMatches DEF iend
<1>19. PICK cpy : cpy = m + (MINMATCH + c)
  OBVIOUS
<1>20. /\ seen' = seen + 2 + Rest(c) /\ pc' = "token"
       /\ Said(all, Start, output') /\ Len(output') = cpy
       /\ \E o \in Nat : MatchDone(o, MINMATCH + c)
  BY <1>3, <1>4, <1>6, <1>8, <1>9, <1>11, <1>12, <1>15, <1>18, <1>19, MatchRead
<1>21. EncodeInv'
  BY <1>1, <1>3, <1>20 DEF EncodeInv, Encoding
<1>22. L[seen'] = Start + Len(output') /\ seen' \in DOMAIN L
  <2>1. Start + cpy = w + MINMATCH + c
    BY <1>5, <1>7, <1>9, <1>19, Limits
  <2> QED BY <2>1, <1>9, <1>20
<1>23. DecodeInv'
  BY <1>1, <1>2, <1>4, <1>20, <1>22 DEF DecodeInv
<1>24. PICK l \in Nat : l = MINMATCH + c
  BY <1>9, Limits
<1>25. l >= MINMATCH /\ m <= outputSize - MFLIMIT /\ m + l <= outputSize - LASTLITERALS
  BY <1>7, <1>9, <1>17, <1>24, Limits
<1>26. PICK o \in Nat : MatchDone(o, l)
  BY <1>20, <1>24
<1>27. MatchFollows(o, l)
  BY <1>6, <1>19, <1>20, <1>24, <1>25, <1>26 DEF MatchFollows
<1> QED BY <1>21, <1>23, <1>27

RoundTripInv == InputInv /\ EncodeInv /\ DecodeInv

(* Until the decoder has begun there is nothing to say about it. *)
LEMMA EncoderOnly ==
  ASSUME pc' \notin {"token", "offset", "done", "failed"}
  PROVE  DecodeInv'
BY DEF DecodeInv

(* Every step keeps what RoundTrip rests on. *)
LEMMA RoundTripStep ==
  ASSUME RoundTripInv, [BlockNext]_blockVars
  PROVE  RoundTripInv'
<1>1. InputInv /\ EncodeInv /\ DecodeInv
  BY DEF RoundTripInv
<1>2. CASE UNCHANGED blockVars
  <2>1. UNCHANGED <<input, ip, anchor, match, dest, token, pc, seen, output>>
    BY <1>2 DEF blockVars, encoder, decoder
  <2>2. UNCHANGED input
    BY <2>1
  <2>3. all' = all /\ Start' = Start /\ iend' = iend /\ LastStart' = LastStart /\ source' = source
    BY <2>2, SameInput
  <2>4. InputInv'
    BY <1>1, <2>2, InputStays
  <2>5. EncodeInv'
    BY <1>1, <2>1, <2>3 DEF EncodeInv, Encoding, Boundary
  <2>6. DecodeInv'
    BY <1>1, <2>1, <2>3 DEF DecodeInv
  <2> QED BY <2>4, <2>5, <2>6 DEF RoundTripInv
<1>3. CASE Begin
  <2>1. EncodeInv' /\ UNCHANGED input
    BY <1>1, <1>3, BeginKeeps DEF Begin
  <2>2. DecodeInv'
    <3>1. pc' \in {"last", "search"}
      BY <1>3 DEF Begin
    <3> QED BY <3>1, EncoderOnly
  <2> QED BY <1>1, <2>1, <2>2, InputStays DEF RoundTripInv
<1>4. CASE FindMatch
  <2>1. EncodeInv' /\ UNCHANGED input
    BY <1>1, <1>4, FindMatchKeeps DEF FindMatch
  <2>2. DecodeInv'
    <3>1. pc' = "catch up"
      BY <1>4 DEF FindMatch
    <3> QED BY <3>1, EncoderOnly
  <2> QED BY <1>1, <2>1, <2>2, InputStays DEF RoundTripInv
<1>5. CASE NoMatch
  <2>1. EncodeInv' /\ UNCHANGED input
    BY <1>1, <1>5, NoMatchKeeps DEF NoMatch
  <2>2. DecodeInv'
    <3>1. pc' = "last"
      BY <1>5 DEF NoMatch
    <3> QED BY <3>1, EncoderOnly
  <2> QED BY <1>1, <2>1, <2>2, InputStays DEF RoundTripInv
<1>6. CASE CatchUp
  <2>1. EncodeInv' /\ UNCHANGED input
    BY <1>1, <1>6, CatchUpKeeps DEF CatchUp
  <2>2. DecodeInv'
    <3>1. pc' = "literals"
      BY <1>6 DEF CatchUp
    <3> QED BY <3>1, EncoderOnly
  <2> QED BY <1>1, <2>1, <2>2, InputStays DEF RoundTripInv
<1>7. CASE EncodeLiterals
  <2>1. EncodeInv' /\ UNCHANGED input
    BY <1>1, <1>7, EncodeLiteralsKeeps DEF EncodeLiterals
  <2>2. DecodeInv'
    <3>1. pc' \in {"given up", "match"}
      BY <1>7 DEF EncodeLiterals
    <3> QED BY <3>1, EncoderOnly
  <2> QED BY <1>1, <2>1, <2>2, InputStays DEF RoundTripInv
<1>8. CASE EncodeMatch
  <2>1. EncodeInv' /\ UNCHANGED input
    BY <1>1, <1>8, EncodeMatchKeeps DEF EncodeMatch
  <2>2. DecodeInv'
    <3>1. pc' \in {"given up", "last", "next"}
      BY <1>8 DEF EncodeMatch
    <3> QED BY <3>1, EncoderOnly
  <2> QED BY <1>1, <2>1, <2>2, InputStays DEF RoundTripInv
<1>9. CASE TestNext
  <2>1. EncodeInv' /\ UNCHANGED input
    BY <1>1, <1>9, TestNextKeeps DEF TestNext
  <2>2. DecodeInv'
    <3>1. pc' \in {"match", "search"}
      BY <1>9 DEF TestNext
    <3> QED BY <3>1, EncoderOnly
  <2> QED BY <1>1, <2>1, <2>2, InputStays DEF RoundTripInv
<1>10. CASE LastLiterals
  <2>1. EncodeInv' /\ DecodeInv' /\ UNCHANGED input
    BY <1>1, <1>10, LastLiteralsKeeps DEF LastLiterals
  <2> QED BY <1>1, <2>1, InputStays DEF RoundTripInv
<1>11. CASE ReadLiterals
  <2>1. EncodeInv' /\ DecodeInv' /\ UNCHANGED input
    BY <1>1, <1>11, ReadLiteralsKeeps DEF ReadLiterals
  <2> QED BY <1>1, <2>1, InputStays DEF RoundTripInv
<1>12. CASE ReadMatch
  <2>1. EncodeInv' /\ DecodeInv' /\ UNCHANGED input
    BY <1>1, <1>12, ReadMatchKeeps DEF ReadMatch
  <2> QED BY <1>1, <2>1, InputStays DEF RoundTripInv
<1> QED BY <1>2, <1>3, <1>4, <1>5, <1>6, <1>7, <1>8, <1>9, <1>10, <1>11, <1>12
        DEF BlockNext, Compress, DecompressBlock, Ended

(* RoundTrip: LZ4_decompress_generic gives back what LZ4_compress_generic  *)
(* was given and never an error, whichever matches the hash table offers,  *)
(* whatever was said before in the frame and however long the runs: an hour*)
(* that enigmatic_log_decompress and enigmatic_client_replay open is never *)
(* refused.                                                                *)
THEOREM ComesOut == BlockSpec => []RoundTrip
<1>1. BlockInit => RoundTripInv
  <2> SUFFICES ASSUME BlockInit PROVE RoundTripInv
    OBVIOUS
  <2>1. InputInv /\ EncodeInv
    BY EncodeBegins
  <2>2. DecodeInv
    BY DEF BlockInit, DecodeInv
  <2> QED BY <2>1, <2>2 DEF RoundTripInv
<1>2. RoundTripInv /\ [BlockNext]_blockVars => RoundTripInv'
  BY RoundTripStep
<1>3. RoundTripInv => RoundTrip
  BY DEF RoundTripInv, DecodeInv, RoundTrip
<1> QED BY <1>1, <1>2, <1>3, PTL DEF BlockSpec

-----------------------------------------------------------------------------
(* How much has been written: with a limit, there is room for what is not  *)
(* checked; without, a sequence takes no more than it says but for one     *)
(* byte in BYTE_MAX.                                                       *)
SpaceInv ==
  /\ touched \in [{"dest", "out"} -> Nat]
  /\ touched.dest <= Larger(capacity, 0) /\ touched.out <= outputSize
  /\ Encoding =>
       IF limitedOutput
       THEN /\ pc = "match" => Len(dest) + 2 <= capacity
            /\ pc = "next" => Len(dest) + 3 <= capacity
       ELSE BYTE_MAX * (Boundary - (anchor - Start)) <= anchor - Start

(* The two ways a buffer is given to the compressor. *)
LEMMA CapacityIs ==
  ASSUME InputInv
  PROVE  /\ capacity \in Nat /\ LZ4_compressBound(Len(source)) \in Nat
         /\ ~limitedOutput => capacity = LZ4_compressBound(Len(source))
         /\ Larger(capacity, 0) = capacity
<1>1. PICK k \in Nat \ {0} : k = Len(source)
  BY DEF InputInv
<1>2. k \div BYTE_MAX \in Nat
  BY Limits, AtMostQuotient
<1>3. LZ4_compressBound(k) \in Nat
  BY <1>2, Limits DEF LZ4_compressBound
<1>4. capacity \in Nat
  BY <1>1, <1>3 DEF InputInv
<1>5. capacity > k - 1 \/ limitedOutput
  <2>1. k - 1 < LZ4_compressBound(k)
    BY <1>2, Limits DEF LZ4_compressBound
  <2> QED BY <2>1, <1>1, <1>3, <1>4 DEF InputInv, limitedOutput
<1>6. ~limitedOutput => capacity = LZ4_compressBound(Len(source))
  BY <1>1, <1>3, <1>4, <1>5 DEF InputInv
<1> QED BY <1>1, <1>3, <1>4, <1>6 DEF Larger

(* What a place reached may take, without a limit. *)
LEMMA WithinBound ==
  ASSUME InputInv, ~limitedOutput, NEW x \in Nat, NEW y \in Int, x <= Len(source),
         BYTE_MAX * (y - x) <= x
  PROVE  y + (Len(source) - x) + SLACK <= capacity
<1>1. PICK k \in Nat : k = Len(source)
  BY AllIs
<1>2. BYTE_MAX \in Nat \ {0} /\ BYTE_MAX * (y - x) <= k
  BY <1>1, Limits
<1>3. y - x <= k \div BYTE_MAX /\ k \div BYTE_MAX \in Nat
  BY <1>2, AtMostQuotient
<1>4. capacity = k + k \div BYTE_MAX + SLACK
  BY <1>1, CapacityIs DEF LZ4_compressBound
<1> QED BY <1>1, <1>3, <1>4, Limits

(* Writing up to a place leaves the buffers whole. *)
LEMMA Touched ==
  ASSUME touched \in [{"dest", "out"} -> Nat], NEW w \in {"dest", "out"}, NEW top \in Nat,
         Touch(w, top)
  PROVE  /\ touched' \in [{"dest", "out"} -> Nat]
         /\ touched'[w] = Larger(touched[w], top)
         /\ \A v \in {"dest", "out"} : v # w => touched'[v] = touched[v]
<1>1. PICK m : m = Larger(touched[w], top)
  OBVIOUS
<1>2. m \in Nat
  BY <1>1 DEF Larger
<1>3. touched' = [touched EXCEPT ![w] = m]
  BY <1>1 DEF Touch
<1> QED BY <1>1, <1>2, <1>3

(* How many bytes the length of the literals takes, as LiteralsFit and     *)
(* LastFits compute it and at most.                                        *)
LEMMA RunTakes ==
  ASSUME NEW n \in Nat
  PROVE  /\ Run(n) \in Nat /\ BYTE_MAX * (Run(n) - 1) <= n
         /\ n \div BYTE_MAX \in Nat /\ Run(n) <= n \div BYTE_MAX + 1 /\ (n = 0 => Run(n) = 0)
         /\ Run(n) = (n + BYTE_MAX - RUN_MASK) \div BYTE_MAX
<1>1. PICK r \in Nat : r = Run(n) /\ r = Extra(n, RUN_MASK)
  BY ExtraIs, Limits DEF Run
<1>2. /\ r <= n \div BYTE_MAX + 1 /\ n \div BYTE_MAX \in Nat
      /\ r = (n + BYTE_MAX - RUN_MASK) \div BYTE_MAX
      /\ n < RUN_MASK => r = 0
      /\ n >= RUN_MASK => BYTE_MAX * (r - 1) <= n - RUN_MASK
  BY ZenonT(40), <1>1, ExtraIs, Limits
<1>3. n = 0 => r = 0
  BY <1>2, Limits
<1>4. BYTE_MAX * (r - 1) <= n
  <2>1. CASE n < RUN_MASK
    <3>1. BYTE_MAX * (-1) = -BYTE_MAX
      BY Limits
    <3>2. r - 1 = -1
      BY <2>1, <1>2
    <3> QED BY <3>1, <3>2, Limits
  <2>2. CASE n >= RUN_MASK
    <3>1. BYTE_MAX * (r - 1) <= n - RUN_MASK
      BY <2>2, <1>2
    <3>2. BYTE_MAX * (r - 1) \in Int
      BY Limits
    <3> QED BY <3>1, <3>2, Limits
  <2> QED BY <2>1, <2>2, Limits
<1> QED BY <1>1, <1>2, <1>3, <1>4

(* How many bytes the length of a match takes, as MatchFits computes it,   *)
(* and never more than the match says.                                     *)
LEMMA RestTakes ==
  ASSUME NEW c \in Nat
  PROVE  Rest(c) \in Nat /\ Rest(c) <= c /\ Rest(c) = (c + BYTE_MAX - ML_MASK) \div BYTE_MAX
<1>1. PICK r \in Nat : r = Rest(c) /\ r = Extra(c, ML_MASK)
  BY ExtraIs, Limits DEF Rest
<1>2. /\ r = (c + BYTE_MAX - ML_MASK) \div BYTE_MAX
      /\ c < ML_MASK => r = 0
      /\ c >= ML_MASK => r >= 1 /\ BYTE_MAX * (r - 1) <= c - ML_MASK
  BY <1>1, ExtraIs, Limits
<1>3. r <= c
  <2>1. CASE c < ML_MASK
    BY <2>1, <1>2
  <2>2. CASE c >= ML_MASK
    <3>1. PICK m \in Nat : m = r - 1
      BY <2>2, <1>2
    <3>2. PICK b \in Nat \ {0} : b = BYTE_MAX
      BY Limits
    <3>3. b * m >= m
      OBVIOUS
    <3>4. b * m <= c - ML_MASK
      BY <2>2, <3>1, <3>2, <1>2
    <3>5. b * m \in Int
      OBVIOUS
    <3> QED BY <3>1, <3>3, <3>4, <3>5, Limits
  <2> QED BY <2>1, <2>2, Limits
<1> QED BY <1>1, <1>2, <1>3

(* A sequence saves what it takes. *)
LEMMA SequenceSaves ==
  ASSUME NEW x \in Nat, NEW y \in Nat, BYTE_MAX * (y - x) <= x, NEW n \in Nat, NEW c \in Nat
  PROVE  /\ BYTE_MAX * ((y + Run(n) - 1 + n) - (x + n)) <= x + n
         /\ BYTE_MAX * ((y + 1 + Run(n) + n + 2 + Rest(c)) - (x + n + MINMATCH + c))
              <= x + n + MINMATCH + c
<1>1. PICK b \in Nat \ {0} : b = BYTE_MAX
  BY Limits
<1>2. PICK r \in Nat : r = Run(n)
  BY RunTakes
<1>3. PICK t \in Nat : t = Rest(c)
  BY RestTakes
<1>4. PICK u \in Int : u = y - x
  OBVIOUS
<1>5. PICK v \in Int : v = r - 1
  OBVIOUS
<1>6. b * u <= x /\ b * v <= n /\ t <= c
  BY <1>1, <1>2, <1>3, <1>4, <1>5, RunTakes, RestTakes
<1>7. b * (u + v) = b * u + b * v /\ b * u \in Int /\ b * v \in Int
  OBVIOUS
<1>8. b * (u + v) <= x + n
  BY <1>6, <1>7
<1>9. (y + r - 1 + n) - (x + n) = u + v
  BY <1>4, <1>5
<1>10. PICK z \in Int : z = 4 + t - MINMATCH - c
  BY Limits
<1>11. z <= 0
  BY <1>6, <1>10, Limits
<1>12. b * z <= 0
  BY <1>11
<1>13. b * ((u + v) + z) = b * (u + v) + b * z /\ b * z \in Int /\ b * (u + v) \in Int
  OBVIOUS
<1>14. (y + 1 + r + n + 2 + t) - (x + n + MINMATCH + c) = (u + v) + z
  BY <1>4, <1>5, <1>10, Limits
<1>15. b * ((u + v) + z) <= x + n
  BY <1>8, <1>12, <1>13
<1>16. x + n <= x + n + MINMATCH + c
  BY Limits
<1>17. b * ((y + 1 + r + n + 2 + t) - (x + n + MINMATCH + c)) <= x + n + MINMATCH + c
  BY <1>13, <1>14, <1>15, <1>16, Limits
<1>18. b * ((y + r - 1 + n) - (x + n)) <= x + n
  BY <1>8, <1>9
<1> QED BY <1>1, <1>2, <1>3, <1>17, <1>18

(* A step of the compressor that writes up to a place inside its buffer. *)
LEMMA DestTouched ==
  ASSUME InputInv, SpaceInv, NEW top \in Nat, Touch("dest", top), top <= capacity,
         UNCHANGED input,
         Encoding' => IF limitedOutput'
                      THEN /\ pc' = "match" => Len(dest') + 2 <= capacity
                           /\ pc' = "next" => Len(dest') + 3 <= capacity
                      ELSE BYTE_MAX * (Boundary' - (anchor' - Start')) <= anchor' - Start'
  PROVE  SpaceInv'
<1>1. capacity' = capacity /\ outputSize' = outputSize
  BY SameInput
<1>2. touched \in [{"dest", "out"} -> Nat] /\ touched.dest <= Larger(capacity, 0) /\ touched.out <= outputSize
  BY DEF SpaceInv
<1>3. /\ touched' \in [{"dest", "out"} -> Nat]
      /\ touched'["dest"] = Larger(touched["dest"], top)
      /\ touched'["out"] = touched["out"]
  BY <1>2, Touched
<1>4. Larger(capacity, 0) = capacity /\ capacity \in Nat
  BY CapacityIs
<1>5. touched'.dest <= capacity
  BY <1>2, <1>3, <1>4 DEF Larger
<1>6. Larger(capacity', 0) = capacity
  BY <1>1, <1>4
<1> QED BY <1>1, <1>2, <1>3, <1>5, <1>6 DEF SpaceInv

(* A step of the decoder that writes up to a place inside its buffer. *)
LEMMA OutTouched ==
  ASSUME InputInv, SpaceInv, NEW top \in Nat, Touch("out", top), top <= outputSize,
         UNCHANGED input, ~Encoding'
  PROVE  SpaceInv'
<1>1. capacity' = capacity /\ outputSize' = outputSize
  BY SameInput
<1>2. touched \in [{"dest", "out"} -> Nat] /\ touched.dest <= Larger(capacity, 0) /\ touched.out <= outputSize
  BY DEF SpaceInv
<1>3. /\ touched' \in [{"dest", "out"} -> Nat]
      /\ touched'["out"] = Larger(touched["out"], top)
      /\ touched'["dest"] = touched["dest"]
  BY <1>2, Touched
<1>4. outputSize \in Nat
  BY DEF InputInv
<1>5. touched'.out <= outputSize
  BY <1>2, <1>3, <1>4 DEF Larger
<1> QED BY <1>1, <1>2, <1>3, <1>5 DEF SpaceInv

(* Nothing has been written yet. *)
LEMMA SpaceBegins ==
  ASSUME BlockInit
  PROVE  SpaceInv
<1>1. InputInv
  BY EncodeBegins
<1>2. Larger(capacity, 0) = capacity /\ capacity \in Nat /\ outputSize \in Nat
  BY <1>1, CapacityIs DEF InputInv
<1>3. /\ touched = [dest |-> 0, out |-> 0] /\ pc = "begin" /\ anchor = Start /\ dest = <<>>
  BY DEF BlockInit, Start
<1>4. Start \in Nat
  BY <1>1, AllIs
<1>5. Boundary = 0
  BY <1>3 DEF Boundary
<1>6. BYTE_MAX * (Boundary - (anchor - Start)) <= anchor - Start
  <2>1. Boundary - (anchor - Start) = 0 /\ anchor - Start = 0
    BY <1>3, <1>4, <1>5
  <2>2. BYTE_MAX * 0 <= 0
    BY Limits
  <2> QED BY <2>1, <2>2
<1>7. touched \in [{"dest", "out"} -> Nat] /\ touched.dest = 0 /\ touched.out = 0
  BY <1>3
<1> QED BY <1>2, <1>3, <1>6, <1>7 DEF SpaceInv

(* Steps that write nothing. *)
LEMMA SpaceStays ==
  ASSUME InputInv, SpaceInv, UNCHANGED <<touched, anchor, dest, input>>,
         Encoding' => Encoding /\ pc # "match" /\ pc' \notin {"match", "next"}
  PROVE  SpaceInv'
<1>1. capacity' = capacity /\ outputSize' = outputSize /\ Start' = Start /\ limitedOutput' = limitedOutput
  BY SameInput
<1>2. touched \in [{"dest", "out"} -> Nat] /\ touched.dest <= Larger(capacity, 0) /\ touched.out <= outputSize
  BY DEF SpaceInv
<1>3. Larger(capacity', 0) = Larger(capacity, 0)
  BY <1>1
<1>4. ASSUME Encoding', ~limitedOutput'
      PROVE  BYTE_MAX * (Boundary' - (anchor' - Start')) <= anchor' - Start'
  <2>1. BYTE_MAX * (Boundary - (anchor - Start)) <= anchor - Start
    BY <1>1, <1>4 DEF SpaceInv
  <2>2. Boundary' = Boundary
    BY <1>4 DEF Boundary
  <2> QED BY <2>1, <2>2, <1>1
<1>5. Encoding' => pc' \notin {"match", "next"}
  OBVIOUS
<1> QED BY <1>1, <1>2, <1>3, <1>4, <1>5 DEF SpaceInv

(* Where the encoder is, in numbers. *)
LEMMA PlacesAre ==
  ASSUME InputInv, EncodeInv, Encoding
  PROVE  \E s \in Nat, x \in Nat, n \in Nat, k \in Nat, m \in Nat :
           /\ s = Start /\ x = anchor - Start /\ n = ip - anchor /\ k = Len(source) /\ m = Len(dest)
           /\ x + n <= k /\ anchor = s + x /\ ip = s + x + n /\ iend = s + k
<1>1. /\ dest \in Seq(Nat) /\ {ip, anchor, match, token} \subseteq Nat
      /\ Start <= anchor /\ anchor <= ip /\ ip <= iend
  BY DEF EncodeInv
<1>2. PICK s \in Nat : s = Start
  BY AllIs
<1>3. PICK k \in Nat : k = Len(source) /\ iend = s + k
  BY <1>2, AllIs
<1>4. PICK x \in Nat : x = anchor - s
  BY <1>1, <1>2
<1>5. PICK n \in Nat : n = ip - anchor
  BY <1>1
<1>6. PICK m \in Nat : m = Len(dest)
  BY <1>1
<1>7. x + n <= k /\ anchor = s + x /\ ip = s + x + n
  <2>1. PICK a \in Nat : a = anchor
    BY <1>1
  <2>2. PICK i \in Nat : i = ip /\ i <= iend
    BY <1>1
  <2>3. x = a - s /\ n = i - a /\ i <= s + k
    BY <2>1, <2>2, <1>3, <1>4, <1>5
  <2>4. a = s + x /\ i = s + x + n /\ x + n <= k
    BY <2>3
  <2> QED BY <2>1, <2>2, <2>4
<1> QED BY <1>2, <1>3, <1>4, <1>5, <1>6, <1>7

(* The literals, and what LZ4_wildCopy8 writes behind them, are inside:    *)
(* into the bytes LiteralsFit reserves, or into what LZ4_compressBound     *)
(* adds.                                                                   *)
LEMMA EncodeLiteralsFits ==
  ASSUME InputInv, EncodeInv, SpaceInv, EncodeLiterals
  PROVE  SpaceInv'
<1>1. pc = "literals" /\ UNCHANGED <<ip, anchor, input>>
  BY DEF EncodeLiterals
<1>2. Encoding
  BY <1>1 DEF Encoding
<1>3. PICK s \in Nat, x \in Nat, n \in Nat, k \in Nat, m \in Nat :
           /\ s = Start /\ x = anchor - Start /\ n = ip - anchor /\ k = Len(source) /\ m = Len(dest)
           /\ x + n <= k /\ anchor = s + x /\ ip = s + x + n /\ iend = s + k
  BY <1>2, PlacesAre
<1>4. x + n <= k - MFLIMIT
  <2>1. ip <= LastStart
    BY <1>1 DEF EncodeInv
  <2>2. LastStart = iend - MFLIMIT
    BY LimitsOfMatches
  <2> QED BY <1>3, <2>1, <2>2, Limits
<1>5. limitedOutput' = limitedOutput /\ Start' = Start
  BY <1>1, SameInput
<1>6. Boundary = m
  BY <1>1, <1>3 DEF Boundary
<1>7. CASE pc' = "given up" /\ UNCHANGED <<dest, touched>>
  <2>1. ~Encoding'
    BY <1>7 DEF Encoding
  <2> QED BY <1>1, <1>7, <2>1, SpaceStays
<1>8. CASE pc' = "match"
  <2>1. PICK start : start = Append(dest, Token(n, 0)) \o Extension(n, RUN_MASK)
    OBVIOUS
  <2>2. PICK r \in Nat : r = Run(n)
    BY RunTakes
  <2>3. /\ dest' = start \o Literals(anchor, n) /\ token' = m + 1
        /\ Touch("dest", wildCopy(Len(start), Len(start) + n))
        /\ limitedOutput => LiteralsFit(n)
    BY <1>3, <1>8, <2>1 DEF EncodeLiterals
  <2>4. Len(start) = m + 1 + r /\ Len(dest') = m + 1 + r + n
    <3>1. dest \in Seq(Nat) /\ anchor \in Nat /\ anchor + n <= iend
      <4>1. dest \in Seq(Nat) /\ anchor \in Nat
        BY DEF EncodeInv
      <4>2. anchor = s + x /\ iend = s + k /\ x + n <= k
        BY <1>3
      <4> QED BY <4>1, <4>2
    <3>2. RunTold(all, dest, dest', anchor, n) /\ Len(start) = Len(dest) + 1 + Run(n)
      BY <2>1, <2>3, <3>1, RunAppended
    <3> QED BY <3>2, <2>2, <1>3 DEF RunTold, AfterRun
  <2>5. PICK l \in Nat : l = Larger(n, 1) /\ l <= n + 1 /\ (n > 0 => l = n)
    BY DEF Larger
  <2>6. PICK top : top = wildCopy(Len(start), Len(start) + n)
    OBVIOUS
  <2>7. top \in Nat /\ top <= m + 1 + r + l + WILDCOPYLENGTH - 1
    <3>1. PICK f \in Nat : f = m + 1 + r
      OBVIOUS
    <3>2. top = wildCopy(f, f + n)
      BY <3>1, <2>4, <2>6
    <3>3. wildCopy(f, f + n) \in Nat /\ wildCopy(f, f + n) <= f + Larger(n, 1) + WILDCOPYLENGTH - 1
      BY WildCopyEnds
    <3> QED BY <3>1, <3>2, <3>3, <2>5
  <2>8. capacity \in Nat
    BY CapacityIs
  <2>9. PICK q \in Nat : q = n \div BYTE_MAX /\ r <= q + 1 /\ (n = 0 => r = 0)
    BY <2>2, RunTakes
  <2>10. limitedOutput => m + 1 + n + (2 + 1 + LASTLITERALS) + q <= capacity
    BY <1>3, <2>3, <2>9 DEF LiteralsFit
  <2>11. ~limitedOutput => m + r + n - 1 + (k - (x + n)) + SLACK <= capacity
    <3> SUFFICES ASSUME ~limitedOutput
                 PROVE  m + r + n - 1 + (k - (x + n)) + SLACK <= capacity
      OBVIOUS
    <3>1. BYTE_MAX * (m - x) <= x
      BY <1>2, <1>3, <1>6 DEF SpaceInv
    <3>2. BYTE_MAX * ((m + r - 1 + n) - (x + n)) <= x + n
      BY <3>1, <2>2, SequenceSaves
    <3>3. PICK y \in Int : y = m + r - 1 + n
      OBVIOUS
    <3>4. PICK z \in Nat : z = x + n
      OBVIOUS
    <3>5. BYTE_MAX * (y - z) <= z /\ z <= Len(source)
      BY <3>2, <3>3, <3>4, <1>3
    <3>6. y + (Len(source) - z) + SLACK <= capacity
      BY <3>5, WithinBound
    <3> QED BY <3>3, <3>4, <3>6, <1>3
  <2>12. top <= capacity
    <3>1. CASE limitedOutput
      <4>1. r + l <= n + q + 1
        BY <2>5, <2>9
      <4> QED BY <4>1, <3>1, <2>7, <2>8, <2>10, Limits
    <3>2. CASE ~limitedOutput
      BY <3>2, <1>4, <2>5, <2>7, <2>8, <2>11, Limits
    <3> QED BY <3>1, <3>2
  <2>13. limitedOutput => Len(dest') + 2 <= capacity
    BY <2>4, <2>8, <2>9, <2>10, Limits
  <2>14. ~limitedOutput => BYTE_MAX * (Boundary' - (anchor' - Start')) <= anchor' - Start'
    <3>1. Boundary' = m
      BY <1>8, <2>3 DEF Boundary
    <3>2. ~limitedOutput => BYTE_MAX * (m - (anchor - Start)) <= anchor - Start
      BY <1>2, <1>6 DEF SpaceInv
    <3> QED BY <3>1, <3>2, <1>1, <1>5
  <2>15. Touch("dest", top)
    BY <2>3, <2>6
  <2>16. pc' # "next"
    BY <1>8
  <2> QED BY <1>1, <1>5, <2>7, <2>12, <2>13, <2>14, <2>15, <2>16, DestTouched
<1> QED BY <1>7, <1>8 DEF EncodeLiterals

(* The full bytes of a length, four at a time, are inside, and the bytes of*)
(* the last literals are still free.                                       *)
LEMMA EncodeMatchFits ==
  ASSUME InputInv, EncodeInv, SpaceInv, EncodeMatch
  PROVE  SpaceInv'
<1>1. pc = "match" /\ UNCHANGED <<token, input>>
  BY DEF EncodeMatch
<1>2. Encoding
  BY <1>1 DEF Encoding
<1>3. PICK s \in Nat, x \in Nat, n \in Nat, k \in Nat, m \in Nat :
           /\ s = Start /\ x = anchor - Start /\ n = ip - anchor /\ k = Len(source) /\ m = Len(dest)
           /\ x + n <= k /\ anchor = s + x /\ ip = s + x + n /\ iend = s + k
  BY <1>2, PlacesAre
<1>4. limitedOutput' = limitedOutput /\ Start' = Start
  BY <1>1, SameInput
<1>5. PICK code \in Nat, l \in Nat, placed \in Seq(Nat), told \in Seq(Nat) :
           /\ code = Count(ip + MINMATCH, match + MINMATCH, MatchEnd)
           /\ ip + MINMATCH + code <= matchlimit
           /\ Matching(all, ip, match, MINMATCH + code)
           /\ l = ip - anchor /\ Len(placed) = Len(dest) + 2
           /\ Len(told) = Len(placed) + Rest(code) /\ Rest(code) \in Nat
           /\ \A i \in 1 .. token - 1 : told[i] = dest[i]
           /\ LiteralsAt(all, told, token - 1, anchor, l, code)
           /\ MatchAt(told, Len(dest), ip, match, code)
           /\ IF limitedOutput /\ ~MatchFits(Len(placed), code)
              THEN /\ pc' = "given up" /\ dest' = placed
                   /\ Touch("dest", Len(placed))
                   /\ UNCHANGED <<ip, anchor>>
              ELSE /\ ip' = ip + MINMATCH + code /\ anchor' = ip' /\ dest' = told
                   /\ Touch("dest", Larger(Len(told), Len(placed) + FullBytes(code)))
                   /\ pc' = IF ip' >= mflimitPlusOne THEN "last" ELSE "next"
  BY MatchIsTold
<1>6. PICK t \in Nat : t = Rest(code)
  BY RestTakes
<1>7. Len(placed) = m + 2 /\ Len(told) = m + 2 + t
  BY <1>3, <1>5, <1>6
<1>8. capacity \in Nat
  BY CapacityIs
<1>9. limitedOutput => m + 2 <= capacity
  BY <1>1, <1>2, <1>3 DEF SpaceInv
<1>10. CASE limitedOutput /\ ~MatchFits(Len(placed), code)
  <2>1. pc' = "given up" /\ Touch("dest", m + 2)
    BY <1>5, <1>7, <1>10
  <2>2. ~Encoding'
    BY <2>1 DEF Encoding
  <2>3. m + 2 \in Nat /\ m + 2 <= capacity
    BY <1>9, <1>10
  <2> QED BY <1>1, <2>1, <2>2, <2>3, DestTouched
<1>11. CASE ~(limitedOutput /\ ~MatchFits(Len(placed), code))
  <2>1. /\ ip' = ip + MINMATCH + code /\ anchor' = ip' /\ dest' = told
        /\ Touch("dest", Larger(Len(told), Len(placed) + FullBytes(code)))
        /\ pc' \in {"last", "next"}
    BY <1>5, <1>11
  <2>2. PICK f \in Nat : f = FullBytes(code) /\ f <= t + 3
    BY <1>6, FullBytesAre DEF Rest
  <2>3. PICK top \in Nat : top = Larger(m + 2 + t, m + 2 + f) /\ top <= m + 2 + t + 3
    BY <2>2 DEF Larger
  <2>4. Touch("dest", top)
    BY <2>1, <2>2, <2>3, <1>7
  <2>5. limitedOutput => m + 2 + t + 3 <= capacity
    <3> SUFFICES ASSUME limitedOutput PROVE m + 2 + t + 3 <= capacity
      OBVIOUS
    <3>1. (m + 2) + (1 + LASTLITERALS) + (code + BYTE_MAX - ML_MASK) \div BYTE_MAX <= capacity
      BY <1>7, <1>11 DEF MatchFits
    <3>2. t = (code + BYTE_MAX - ML_MASK) \div BYTE_MAX
      BY <1>6, RestTakes
    <3>3. (m + 2) + (1 + LASTLITERALS) + t <= capacity
      BY <3>1, <3>2
    <3> QED BY <3>3, <1>8, Limits
  <2>6. PICK p \in Nat : p = token - 1 /\ Boundary = p /\ m = p + 1 + Run(n) + n
    <3>1. token \in 1 .. Len(dest) /\ Len(dest) = AfterRun(token - 1, ip - anchor)
      BY <1>1 DEF EncodeInv
    <3>2. PICK p \in Nat : p = token - 1
      BY <3>1
    <3>3. m = AfterRun(p, n) /\ Boundary = p
      BY <3>1, <3>2, <1>1, <1>3 DEF Boundary
    <3> QED BY <3>2, <3>3 DEF AfterRun
  <2>7. PICK r \in Nat : r = Run(n)
    BY RunTakes
  <2>8. PICK z \in Nat : z = x + n + MINMATCH + code
    BY Limits
  <2>9. ip' = s + z /\ z <= k - LASTLITERALS
    <3>1. matchlimit = iend - LASTLITERALS
      BY LimitsOfMatches
    <3>2. ip' = s + z
      BY <1>3, <2>1, <2>8, Limits
    <3>3. ip' <= matchlimit
      BY <1>5, <2>1
    <3> QED BY <3>1, <3>2, <3>3, <1>3, Limits
  <2>10. ~limitedOutput => BYTE_MAX * ((m + 2 + t) - z) <= z
    <3> SUFFICES ASSUME ~limitedOutput PROVE BYTE_MAX * ((m + 2 + t) - z) <= z
      OBVIOUS
    <3>1. BYTE_MAX * (p - x) <= x
      BY <1>2, <1>3, <2>6 DEF SpaceInv
    <3>2. BYTE_MAX * ((p + 1 + r + n + 2 + t) - (x + n + MINMATCH + code)) <= x + n + MINMATCH + code
      BY <3>1, <1>6, <2>7, SequenceSaves
    <3>3. p + 1 + r + n + 2 + t = m + 2 + t
      BY <2>6, <2>7
    <3> QED BY <3>2, <3>3, <2>8
  <2>11. ~limitedOutput => m + 2 + t + 3 <= capacity
    <3> SUFFICES ASSUME ~limitedOutput PROVE m + 2 + t + 3 <= capacity
      OBVIOUS
    <3>1. PICK y \in Int : y = m + 2 + t
      OBVIOUS
    <3>2. BYTE_MAX * (y - z) <= z /\ z <= Len(source)
      BY <3>1, <1>3, <2>9, <2>10, Limits
    <3>3. y + (Len(source) - z) + SLACK <= capacity
      BY <3>2, WithinBound
    <3> QED BY <3>1, <3>3, <1>3, <1>8, <2>9, Limits
  <2>12. top <= capacity
    BY <2>3, <2>5, <2>11, <1>8
  <2>13. limitedOutput => Len(dest') + 3 <= capacity
    BY <2>1, <2>5, <1>7
  <2>14. ~limitedOutput => BYTE_MAX * (Boundary' - (anchor' - Start')) <= anchor' - Start'
    <3>1. Boundary' = m + 2 + t
      BY <2>1, <1>7 DEF Boundary
    <3>2. anchor' - Start' = z
      <4>1. anchor' = s + z /\ Start' = s
        BY <1>3, <1>4, <2>1, <2>9
      <4> QED BY <4>1
    <3> QED BY <3>1, <3>2, <2>10
  <2>15. pc' # "match"
    BY <2>1
  <2> QED BY <1>1, <1>4, <2>4, <2>12, <2>13, <2>14, <2>15, DestTouched
<1> QED BY <1>10, <1>11

(* The token of a sequence without literals takes one of the reserved bytes. *)
LEMMA TestNextFits ==
  ASSUME InputInv, EncodeInv, SpaceInv, TestNext
  PROVE  SpaceInv'
<1>1. pc = "next" /\ UNCHANGED <<anchor, input>>
  BY DEF TestNext
<1>2. Encoding
  BY <1>1 DEF Encoding
<1>3. PICK s \in Nat, x \in Nat, n \in Nat, k \in Nat, m \in Nat :
           /\ s = Start /\ x = anchor - Start /\ n = ip - anchor /\ k = Len(source) /\ m = Len(dest)
           /\ x + n <= k /\ anchor = s + x /\ ip = s + x + n /\ iend = s + k
  BY <1>2, PlacesAre
<1>4. limitedOutput' = limitedOutput /\ Start' = Start
  BY <1>1, SameInput
<1>5. Boundary = m
  BY <1>1, <1>3 DEF Boundary
<1>6. CASE pc' = "search" /\ UNCHANGED <<dest, touched>>
  <2>1. Encoding' => Encoding /\ pc # "match" /\ pc' \notin {"match", "next"}
    BY <1>1, <1>2, <1>6
  <2> QED BY <1>1, <1>6, <2>1, SpaceStays
<1>7. CASE pc' = "match"
  <2>1. token' = m + 1 /\ dest' = Append(dest, Token(0, 0)) /\ Touch("dest", m + 1)
    BY <1>3, <1>7 DEF TestNext
  <2>2. Len(dest') = m + 1
    <3>1. dest \in Seq(Nat)
      BY DEF EncodeInv
    <3> QED BY <3>1, <1>3, <2>1
  <2>3. capacity \in Nat
    BY CapacityIs
  <2>4. limitedOutput => m + 3 <= capacity
    BY <1>1, <1>2, <1>3 DEF SpaceInv
  <2>5. ~limitedOutput => BYTE_MAX * (m - x) <= x
    BY <1>2, <1>3, <1>5 DEF SpaceInv
  <2>6. ~limitedOutput => m + 1 <= capacity
    <3> SUFFICES ASSUME ~limitedOutput PROVE m + 1 <= capacity
      OBVIOUS
    <3>1. BYTE_MAX * (m - x) <= x /\ x <= Len(source) /\ m \in Int
      BY <1>3, <2>5
    <3>2. m + (Len(source) - x) + SLACK <= capacity
      BY <3>1, WithinBound
    <3> QED BY <3>2, <1>3, <2>3, Limits
  <2>7. m + 1 \in Nat /\ m + 1 <= capacity
    BY <2>3, <2>4, <2>6
  <2>8. limitedOutput => Len(dest') + 2 <= capacity
    BY <2>2, <2>4
  <2>9. ~limitedOutput => BYTE_MAX * (Boundary' - (anchor' - Start')) <= anchor' - Start'
    <3>1. Boundary' = m
      BY <1>7, <2>1 DEF Boundary
    <3>2. anchor' - Start' = x
      BY <1>1, <1>3, <1>4
    <3> QED BY <3>1, <3>2, <2>5
  <2>10. pc' # "next"
    BY <1>7
  <2> QED BY <1>1, <1>4, <2>1, <2>7, <2>8, <2>9, <2>10, DestTouched
<1> QED BY <1>6, <1>7 DEF TestNext

(* The last literals are inside: LastFits asks, or LZ4_compressBound is    *)
(* enough.                                                                 *)
LEMMA LastLiteralsFits ==
  ASSUME InputInv, EncodeInv, SpaceInv, LastLiterals
  PROVE  SpaceInv'
<1>1. pc = "last" /\ UNCHANGED <<anchor, input>>
  BY DEF LastLiterals
<1>2. Encoding
  BY <1>1 DEF Encoding
<1>3. PICK s \in Nat, x \in Nat, l \in Nat, k \in Nat, m \in Nat :
           /\ s = Start /\ x = anchor - Start /\ l = ip - anchor /\ k = Len(source) /\ m = Len(dest)
           /\ x + l <= k /\ anchor = s + x /\ ip = s + x + l /\ iend = s + k
  BY <1>2, PlacesAre
<1>4. Boundary = m
  BY <1>1, <1>3 DEF Boundary
<1>5. ~Encoding'
  BY DEF LastLiterals, Encoding
<1>6. CASE pc' = "given up" /\ UNCHANGED <<dest, touched>>
  BY <1>1, <1>5, <1>6, SpaceStays
<1>7. CASE pc' = "token"
  <2>1. PICK n \in Nat : n = iend - anchor /\ x + n = k
    <3>1. k - x \in Nat /\ iend - anchor = k - x
      BY <1>3
    <3> QED BY <3>1
  <2>2. PICK start : start = Append(dest, Token(n, 0)) \o Extension(n, RUN_MASK)
    OBVIOUS
  <2>3. PICK told : told = start \o Literals(anchor, n)
    OBVIOUS
  <2>4. Touch("dest", Len(told)) /\ (limitedOutput => LastFits(n))
    BY <1>7, <2>1, <2>2, <2>3 DEF LastLiterals
  <2>5. PICK r \in Nat : r = Run(n)
    BY RunTakes
  <2>6. Len(told) = m + 1 + r + n
    <3>1. dest \in Seq(Nat) /\ anchor \in Nat /\ anchor + n <= iend
      <4>1. dest \in Seq(Nat) /\ anchor \in Nat
        BY DEF EncodeInv
      <4>2. anchor = s + x /\ iend = s + k /\ x + n = k
        BY <1>3, <2>1
      <4> QED BY <4>1, <4>2
    <3>2. RunTold(all, dest, told, anchor, n)
      BY <2>2, <2>3, <3>1, RunAppended
    <3> QED BY <3>2, <2>5, <1>3 DEF RunTold, AfterRun
  <2>7. capacity \in Nat
    BY CapacityIs
  <2>8. limitedOutput => m + 1 + r + n <= capacity
    <3> SUFFICES ASSUME limitedOutput PROVE m + 1 + r + n <= capacity
      OBVIOUS
    <3>1. m + n + 1 + (n + BYTE_MAX - RUN_MASK) \div BYTE_MAX <= capacity
      BY <1>3, <2>4 DEF LastFits
    <3>2. r = (n + BYTE_MAX - RUN_MASK) \div BYTE_MAX
      BY <2>5, RunTakes
    <3>3. m + n + 1 + r <= capacity
      BY <3>1, <3>2
    <3> QED BY <3>3, <2>7
  <2>9. ~limitedOutput => m + 1 + r + n <= capacity
    <3> SUFFICES ASSUME ~limitedOutput PROVE m + 1 + r + n <= capacity
      OBVIOUS
    <3>1. BYTE_MAX * (m - x) <= x
      BY <1>2, <1>3, <1>4 DEF SpaceInv
    <3>2. BYTE_MAX * ((m + r - 1 + n) - (x + n)) <= x + n
      BY <3>1, <2>5, SequenceSaves
    <3>3. PICK y \in Int : y = m + r - 1 + n
      OBVIOUS
    <3>4. BYTE_MAX * (y - k) <= k /\ k <= Len(source)
      BY <3>2, <3>3, <1>3, <2>1
    <3>5. y + (Len(source) - k) + SLACK <= capacity
      BY <3>4, WithinBound
    <3> QED BY <3>3, <3>5, <1>3, <2>7, Limits
  <2>10. PICK top \in Nat : top = m + 1 + r + n
    OBVIOUS
  <2>11. Touch("dest", top) /\ top <= capacity
    BY <2>4, <2>6, <2>8, <2>9, <2>10
  <2> QED BY <1>1, <1>5, <2>11, DestTouched
<1> QED BY <1>6, <1>7 DEF LastLiterals

(* A copy of whole words goes on for less than a word. *)
LEMMA WildEnd ==
  ASSUME NEW from \in Nat, NEW top \in Int
  PROVE  /\ wildCopy(from, top) \in Nat
         /\ wildCopy(from, top) <= Larger(top, from + 1) + WILDCOPYLENGTH - 1
<1>1. CASE top >= from
  <2>1. PICK n \in Nat : n = top - from
    BY <1>1
  <2>2. top = from + n
    BY <2>1
  <2>3. wildCopy(from, from + n) \in Nat /\ wildCopy(from, from + n) <= from + Larger(n, 1) + WILDCOPYLENGTH - 1
    BY WildCopyEnds
  <2>4. Larger(n, 1) \in Nat /\ from + Larger(n, 1) = Larger(top, from + 1)
    BY <2>2 DEF Larger
  <2> QED BY <2>2, <2>3, <2>4
<1>2. CASE top < from
  <2>1. Larger(top - from, 1) = 1 /\ Larger(from - from, 1) = 1
    BY <1>2 DEF Larger
  <2>2. wildCopy(from, top) = wildCopy(from, from + 0)
    BY <2>1 DEF wildCopy, CopyInSteps
  <2>3. /\ wildCopy(from, from + 0) \in Nat
        /\ wildCopy(from, from + 0) <= from + Larger(0, 1) + WILDCOPYLENGTH - 1
    BY WildCopyEnds
  <2>4. Larger(0, 1) = 1 /\ Larger(top, from + 1) = from + 1
    BY <1>2 DEF Larger
  <2> QED BY <2>2, <2>3, <2>4
<1> QED BY <1>1, <1>2

(* A match that leaves LASTLITERALS bytes of the buffer is written inside  *)
(* it, with all the bytes a copy writes too many.                          *)
LEMMA MatchTouchesInside ==
  ASSUME outputSize \in Nat, NEW op \in Nat, NEW n \in Nat, n >= MINMATCH, op <= outputSize - MFLIMIT,
         op + n <= outputSize - LASTLITERALS
  PROVE  MatchTouches(op, op + n) \in Nat /\ MatchTouches(op, op + n) <= outputSize
<1>1. PICK span \in Nat : span = outputSize
  OBVIOUS
<1>2. PICK w \in Nat : w = WILDCOPYLENGTH /\ w > 0
  BY Limits
<1>3. PICK cpy \in Nat : cpy = op + n
  OBVIOUS
<1>4. op + w <= span /\ cpy <= span /\ op + MINMATCH <= cpy /\ MINMATCH \in Nat /\ MINMATCH <= w
  BY <1>1, <1>2, <1>3, Limits
<1>5. CASE cpy > span - (2 * w - MINMATCH)
  <2>1. PICK limit \in Int : limit = span - (w - 1)
    OBVIOUS
  <2>2. PICK top : top = IF op + w < limit THEN wildCopy(op + w, limit) ELSE op + w
    OBVIOUS
  <2>3. top \in Nat /\ top <= span
    <3>1. CASE op + w < limit
      <4>1. PICK from \in Nat : from = op + w
        OBVIOUS
      <4>2. wildCopy(from, limit) \in Nat /\ wildCopy(from, limit) <= Larger(limit, from + 1) + w - 1
        BY <1>2, WildEnd
      <4>3. Larger(limit, from + 1) = limit
        BY <3>1, <4>1 DEF Larger
      <4> QED BY <3>1, <4>1, <4>2, <4>3, <2>1, <2>2
    <3>2. CASE ~(op + w < limit)
      BY <3>2, <2>2, <1>4
    <3> QED BY <3>1, <3>2
  <2>4. MatchTouches(op, cpy) = Larger(cpy, top)
    BY <1>1, <1>2, <1>5, <2>1, <2>2 DEF MatchTouches
  <2>5. Larger(cpy, top) \in Nat /\ Larger(cpy, top) <= span
    BY <1>4, <2>3 DEF Larger
  <2> QED BY <1>1, <1>3, <2>4, <2>5
<1>6. CASE ~(cpy > span - (2 * w - MINMATCH))
  <2>1. PICK from \in Nat : from = op + w
    OBVIOUS
  <2>2. wildCopy(from, cpy) \in Nat /\ wildCopy(from, cpy) <= Larger(cpy, from + 1) + w - 1
    <3>1. wildCopy(from, cpy) \in Nat /\ wildCopy(from, cpy) <= Larger(cpy, from + 1) + WILDCOPYLENGTH - 1
      <4>1. cpy \in Int
        OBVIOUS
      <4> QED BY <4>1, WildEnd
    <3> QED BY <3>1, <1>2
  <2>3. op + 2 * w <= span /\ cpy + w - 1 <= span /\ from + 1 + w - 1 <= span
    BY <1>2, <1>4, <1>6, <2>1
  <2>4. wildCopy(from, cpy) <= span
    BY <2>1, <2>2, <2>3 DEF Larger
  <2>5. MatchTouches(op, cpy) = Larger(op + 2 * w, wildCopy(from, cpy))
    BY <1>1, <1>2, <1>6, <2>1 DEF MatchTouches
  <2>6. op + 2 * w \in Nat
    OBVIOUS
  <2>7. Larger(op + 2 * w, wildCopy(from, cpy)) \in Nat /\ Larger(op + 2 * w, wildCopy(from, cpy)) <= span
    BY <2>2, <2>3, <2>4, <2>6 DEF Larger
  <2> QED BY <1>1, <1>3, <2>5, <2>7
<1> QED BY <1>5, <1>6

(* Where the decoder writes without a look at the end there is room: for   *)
(* a stripe and more in the fast loop, for a short match in the shortcut.  *)
LoopInv ==
  /\ pc \notin {"offset", "done", "failed"} /\ loop = "fast" =>
       Len(output) + FASTLOOP_SAFE_DISTANCE <= outputSize
  /\ pc = "offset" /\ loop = "shortcut" => Len(output) + MaxML <= outputSize

(* Literals are written inside the buffer of the decoder. *)
LEMMA LiteralsTouchInside ==
  ASSUME InputInv, LoopInv, pc = "token", NEW n \in Nat, NEW top \in Nat,
         LiteralsFollow(n, top)
  PROVE  LiteralsTouch(n, top) \in Nat /\ LiteralsTouch(n, top) <= outputSize
<1>1. PICK op \in Nat : op = Len(output)
  BY DEF LiteralsFollow
<1>2. PICK span \in Nat : span = outputSize
  BY DEF InputInv
<1>3. op + n <= span /\ (~Last(n, top) => op + n <= span - MFLIMIT)
  BY <1>1, <1>2 DEF LiteralsFollow
<1>4. PICK end : end = LiteralsTouch(n, top)
  OBVIOUS
<1>5. CASE Last(n, top)
  <2>1. end = op + n
    BY <1>1, <1>4, <1>5 DEF LiteralsTouch
  <2> QED BY <2>1, <1>2, <1>3, <1>4
<1>6. CASE ~Last(n, top) /\ SafeLiterals(n, top)
  <2>1. end = wildCopy(op, op + n)
    BY <1>1, <1>4, <1>6 DEF LiteralsTouch
  <2>2. end \in Nat /\ end <= op + Larger(n, 1) + WILDCOPYLENGTH - 1
    BY <2>1, WildCopyEnds
  <2>3. Larger(n, 1) \in Nat /\ Larger(n, 1) <= n + 1
    BY DEF Larger
  <2>4. end <= span
    BY <1>3, <1>6, <2>2, <2>3, Limits
  <2> QED BY <2>2, <2>4, <1>2, <1>4
<1>7. CASE ~Last(n, top) /\ ~SafeLiterals(n, top) /\ n >= RUN_MASK
  <2>1. end = CopyInSteps(2 * STRIPE, op, op + n)
    BY <1>1, <1>4, <1>7 DEF LiteralsTouch, wildCopy32
  <2>2. op + n <= span - 2 * STRIPE
    <3>1. ~ShortcutLiterals(n)
      <4>1. ~(n < RUN_MASK)
        BY <1>7, Limits
      <4> QED BY <4>1 DEF ShortcutLiterals
    <3>2. FastLiterals(n, top)
      BY <3>1, <1>7 DEF SafeLiterals
    <3> QED BY <3>2, <1>1, <1>2, <1>7 DEF FastLiterals
  <2>3. PICK width \in Nat \ {0} : width = 2 * STRIPE
    <3>1. 2 * STRIPE \in Nat \ {0}
      BY FastLimits
    <3> QED BY <3>1
  <2>4. end \in Nat /\ end <= op + Larger(n, 1) + width - 1
    BY <2>1, <2>3, StepsEnd
  <2>5. Larger(n, 1) \in Nat /\ Larger(n, 1) <= n + 1
    BY DEF Larger
  <2>6. end <= span
    BY <2>2, <2>3, <2>4, <2>5
  <2> QED BY <2>4, <2>6, <1>2, <1>4
<1>8. CASE ~Last(n, top) /\ ~SafeLiterals(n, top) /\ ~(n >= RUN_MASK)
  <2>1. end = op + STRIPE
    BY <1>1, <1>4, <1>8 DEF LiteralsTouch
  <2>2. FastLiterals(n, top) \/ ShortcutLiterals(n)
    BY <1>8 DEF SafeLiterals
  <2>3. CASE FastLiterals(n, top)
    <3>1. op + FASTLOOP_SAFE_DISTANCE <= span
      BY <2>3, <1>1, <1>2 DEF FastLiterals, LoopInv
    <3>2. end \in Nat /\ end <= span
      BY <3>1, <2>1, FastLimits
    <3> QED BY <3>2, <1>2, <1>4
  <2>4. CASE ShortcutLiterals(n)
    <3>1. op <= span - MaxLL - MaxML
      BY <2>4, <1>1, <1>2 DEF ShortcutLiterals
    <3>2. end \in Nat /\ end <= span
      BY <3>1, <2>1, FastLimits
    <3> QED BY <3>2, <1>2, <1>4
  <2> QED BY <2>2, <2>3, <2>4
<1> QED BY <1>5, <1>6, <1>7, <1>8

LEMMA ReadLiteralsFits ==
  ASSUME InputInv, EncodeInv, DecodeInv, SpaceInv, LoopInv, ReadLiterals
  PROVE  SpaceInv' /\ LoopInv'
<1>1. UNCHANGED input /\ ~Encoding' /\ pc = "token"
  BY DEF ReadLiterals, Encoding
<1>2. PICK n \in Nat, top \in Nat : LiteralsFollow(n, top)
  BY ReadLiteralsKeeps
<1>3. PICK end : end = LiteralsTouch(n, top)
  OBVIOUS
<1>4. end \in Nat /\ end <= outputSize
  BY <1>1, <1>2, <1>3, LiteralsTouchInside
<1>5. Touch("out", end)
  BY <1>2, <1>3 DEF LiteralsFollow, LiteralsDone
<1>6. SpaceInv'
  BY <1>1, <1>4, <1>5, OutTouched
<1>7. /\ pc' \in {"offset", "done"} /\ outputSize' = outputSize
      /\ loop' = "shortcut" => ~SafeLiterals(n, top) /\ loop # "fast"
  BY <1>1, <1>2, SameInput DEF LiteralsFollow, LiteralsDone
<1>8. ASSUME loop' = "shortcut" PROVE Len(output)' + MaxML <= outputSize'
  <2>1. ShortcutLiterals(n)
    BY <1>7, <1>8 DEF SafeLiterals, FastLiterals
  <2>2. PICK op \in Nat : op = Len(output) /\ Len(output)' = op + n
    BY <1>2 DEF LiteralsFollow
  <2>3. n < RUN_MASK /\ op <= outputSize - MaxLL - MaxML
    BY <2>1, <2>2 DEF ShortcutLiterals
  <2>4. outputSize \in Nat
    BY DEF InputInv
  <2>5. op + n + MaxML <= outputSize
    BY <2>3, <2>4, FastLimits, Limits
  <2> QED BY <2>2, <2>5, <1>7
<1>9. LoopInv'
  BY <1>7, <1>8 DEF LoopInv
<1> QED BY <1>6, <1>9

(* A match is written inside the buffer of the decoder. *)
LEMMA MatchTouchInside ==
  ASSUME InputInv, LoopInv, pc = "offset", NEW o \in Nat, NEW n \in Nat, MatchFollows(o, n)
  PROVE  MatchTouch(o, n) \in Nat /\ MatchTouch(o, n) <= outputSize
<1>1. PICK op \in Nat : op = Len(output)
  BY DEF MatchFollows
<1>2. PICK span \in Nat : span = outputSize
  BY DEF InputInv
<1>3. n >= MINMATCH /\ op <= span - MFLIMIT /\ op + n <= span - LASTLITERALS
  BY <1>1, <1>2 DEF MatchFollows
<1>4. PICK end : end = MatchTouch(o, n)
  OBVIOUS
<1>5. InFastLoop(n) => op + n < span - FASTLOOP_SAFE_DISTANCE
  BY <1>1, <1>2 DEF InFastLoop, FarFromEnd
<1>6. CASE InExternal(o)
  <2>1. end = op + n
    BY <1>1, <1>4, <1>6 DEF MatchTouch
  <2>2. op + n <= span
    BY <1>3, Limits
  <2> QED BY <2>1, <2>2, <1>2, <1>4
<1>7. CASE ~InExternal(o) /\ AtOnce(o, n)
  <2>1. end = op + MaxML
    BY <1>1, <1>4, <1>7 DEF MatchTouch
  <2>2. InFastLoop(n) \/ loop = "shortcut"
    BY <1>7 DEF AtOnce
  <2>3. op + MaxML <= span
    <3>1. CASE InFastLoop(n)
      BY <3>1, <1>5, FastLimits
    <3>2. CASE loop = "shortcut"
      BY <3>2, <1>1, <1>2 DEF LoopInv
    <3> QED BY <2>2, <3>1, <3>2
  <2>4. end \in Nat
    BY <2>1, FastLimits
  <2> QED BY <2>1, <2>3, <2>4, <1>2, <1>4
<1>8. CASE ~InExternal(o) /\ ~AtOnce(o, n) /\ ~InFastLoop(n)
  <2>1. end = MatchTouches(op, op + n)
    BY <1>1, <1>4, <1>8 DEF MatchTouch
  <2>2. outputSize \in Nat /\ op <= outputSize - MFLIMIT /\ op + n <= outputSize - LASTLITERALS
    BY <1>2, <1>3
  <2> QED BY <1>3, <1>4, <2>1, <2>2, MatchTouchesInside
<1>9. CASE ~InExternal(o) /\ ~AtOnce(o, n) /\ InFastLoop(n) /\ o < STRIPE
  <2>1. end = OverlapTouches(o, op, op + n)
    BY <1>1, <1>4, <1>9 DEF MatchTouch
  <2>2. PICK w \in Nat : w = WILDCOPYLENGTH
    BY Limits
  <2>3. op + n + 2 * w <= span
    BY <1>5, <1>9, <2>2, FastLimits
  <2>4. CASE end = wildCopy(op, op + n)
    <3>1. end \in Nat /\ end <= op + Larger(n, 1) + w - 1
      BY <2>2, <2>4, WildCopyEnds
    <3>2. Larger(n, 1) \in Nat /\ Larger(n, 1) <= n + 1
      BY DEF Larger
    <3>3. end <= span
      BY <2>3, <3>1, <3>2
    <3> QED BY <3>1, <3>3, <1>2, <1>4
  <2>5. CASE end = wildCopy(op + WILDCOPYLENGTH, op + n)
    <3>1. PICK from \in Nat : from = op + w
      OBVIOUS
    <3>2. PICK cpy \in Int : cpy = op + n
      OBVIOUS
    <3>3. end \in Nat /\ end <= Larger(cpy, from + 1) + w - 1
      BY <2>2, <2>5, <3>1, <3>2, WildEnd
    <3>4. Larger(cpy, from + 1) = cpy \/ Larger(cpy, from + 1) = from + 1
      BY DEF Larger
    <3>5. end <= span
      BY <2>3, <3>1, <3>2, <3>3, <3>4
    <3> QED BY <3>3, <3>5, <1>2, <1>4
  <2> QED BY <2>1, <2>4, <2>5 DEF OverlapTouches
<1>10. CASE ~InExternal(o) /\ ~AtOnce(o, n) /\ InFastLoop(n) /\ ~(o < STRIPE)
  <2>1. end = CopyInSteps(2 * STRIPE, op, op + n)
    BY <1>1, <1>4, <1>10 DEF MatchTouch, wildCopy32
  <2>2. PICK width \in Nat \ {0} : width = 2 * STRIPE
    <3>1. 2 * STRIPE \in Nat \ {0}
      BY FastLimits
    <3> QED BY <3>1
  <2>3. end \in Nat /\ end <= op + Larger(n, 1) + width - 1
    BY <2>1, <2>2, StepsEnd
  <2>4. Larger(n, 1) \in Nat /\ Larger(n, 1) <= n + 1
    BY DEF Larger
  <2>5. op + n + width <= span
    BY <1>5, <1>10, <2>2, FastLimits
  <2>6. end <= span
    BY <2>3, <2>4, <2>5
  <2> QED BY <2>3, <2>6, <1>2, <1>4
<1> QED BY <1>6, <1>7, <1>8, <1>9, <1>10

LEMMA ReadMatchFits ==
  ASSUME InputInv, EncodeInv, DecodeInv, SpaceInv, LoopInv, ReadMatch
  PROVE  SpaceInv' /\ LoopInv'
<1>1. UNCHANGED input /\ ~Encoding' /\ pc = "offset"
  BY DEF ReadMatch, Encoding
<1>2. PICK o \in Nat, n \in Nat : MatchFollows(o, n)
  BY ReadMatchKeeps
<1>3. PICK end : end = MatchTouch(o, n)
  OBVIOUS
<1>4. end \in Nat /\ end <= outputSize
  BY <1>1, <1>2, <1>3, MatchTouchInside
<1>5. Touch("out", end)
  BY <1>2, <1>3 DEF MatchFollows, MatchDone
<1>6. SpaceInv'
  BY <1>1, <1>4, <1>5, OutTouched
<1>7. /\ pc' = "token" /\ outputSize' = outputSize
      /\ loop' = "fast" => InFastLoop(n)
  BY <1>1, <1>2, SameInput DEF MatchFollows, MatchDone
<1>8. ASSUME InFastLoop(n) PROVE Len(output)' + FASTLOOP_SAFE_DISTANCE <= outputSize'
  <2>1. PICK op \in Nat : op = Len(output) /\ Len(output)' = op + n
    BY <1>2 DEF MatchFollows
  <2>2. op + n < outputSize - FASTLOOP_SAFE_DISTANCE
    BY <1>8, <2>1 DEF InFastLoop, FarFromEnd
  <2>3. outputSize \in Nat
    BY DEF InputInv
  <2>4. op + n + FASTLOOP_SAFE_DISTANCE <= outputSize
    BY <2>2, <2>3, FastLimits
  <2> QED BY <2>1, <2>4, <1>7
<1>9. LoopInv'
  BY <1>7, <1>8 DEF LoopInv
<1> QED BY <1>6, <1>9

(* The compressor leaves the decoder where it begins. *)
LEMMA LoopStays ==
  ASSUME LoopInv, Encoding, UNCHANGED <<input, seen, output, loop>>,
         pc' \notin {"offset", "done", "failed"}
  PROVE  LoopInv'
<1>1. pc \notin {"offset", "done", "failed"} /\ outputSize' = outputSize
  BY SameInput DEF Encoding
<1>2. loop' = "fast" => Len(output)' + FASTLOOP_SAFE_DISTANCE <= outputSize'
  BY <1>1 DEF LoopInv
<1> QED BY <1>2 DEF LoopInv

-----------------------------------------------------------------------------
BlockInv == RoundTripInv /\ SpaceInv /\ LoopInv

(* Every step keeps what both theorems rest on. *)
LEMMA BlockStep ==
  ASSUME BlockInv, [BlockNext]_blockVars
  PROVE  BlockInv'
<1>1. RoundTripInv /\ SpaceInv /\ LoopInv /\ InputInv /\ EncodeInv /\ DecodeInv
  BY DEF BlockInv, RoundTripInv
<1>2. RoundTripInv'
  BY <1>1, RoundTripStep
<1>3. CASE UNCHANGED blockVars
  <2>1. UNCHANGED <<input, anchor, dest, token, pc, output, loop, touched>>
    BY <1>3 DEF blockVars, encoder, decoder
  <2>2. UNCHANGED input
    BY <2>1
  <2>3. Start' = Start /\ limitedOutput' = limitedOutput /\ capacity' = capacity
        /\ outputSize' = outputSize
    BY <2>2, SameInput
  <2>4. SpaceInv'
    BY <1>1, <2>1, <2>3 DEF SpaceInv, Encoding, Boundary
  <2>5. LoopInv'
    BY <1>1, <2>1, <2>3 DEF LoopInv
  <2> QED BY <1>2, <2>4, <2>5 DEF BlockInv
<1>c. ASSUME Compress PROVE LoopInv'
  <2>1. /\ UNCHANGED <<input, seen, output, loop>>
        /\ pc \in {"begin", "search", "catch up", "literals", "match", "next", "last"}
    BY <1>c DEF Compress, Begin, FindMatch, NoMatch, CatchUp, EncodeLiterals, EncodeMatch,
                TestNext, LastLiterals, decoder
  <2>2. pc' \notin {"offset", "done", "failed"}
    BY <1>c DEF Compress, Begin, FindMatch, NoMatch, CatchUp, EncodeLiterals, EncodeMatch,
                TestNext, LastLiterals
  <2>3. Encoding
    BY <2>1 DEF Encoding
  <2>4. LoopInv'
    BY <1>1, <2>1, <2>2, <2>3, LoopStays
  <2> QED BY <2>4
<1>4. CASE Begin \/ FindMatch \/ NoMatch \/ CatchUp
  <2>1. /\ UNCHANGED <<touched, anchor, dest, input>>
        /\ pc \in {"begin", "search", "catch up"} /\ pc' \notin {"match", "next"}
    BY <1>4 DEF Begin, FindMatch, NoMatch, CatchUp, encoder
  <2>2. Encoding' => Encoding /\ pc # "match" /\ pc' \notin {"match", "next"}
    BY <2>1 DEF Encoding
  <2>3. SpaceInv'
    BY <1>1, <2>1, <2>2, SpaceStays
  <2> QED BY <1>2, <1>c, <1>4, <2>3 DEF BlockInv, Compress
<1>5. CASE EncodeLiterals
  BY <1>1, <1>2, <1>c, <1>5, EncodeLiteralsFits DEF BlockInv, Compress
<1>6. CASE EncodeMatch
  BY <1>1, <1>2, <1>c, <1>6, EncodeMatchFits DEF BlockInv, Compress
<1>7. CASE TestNext
  BY <1>1, <1>2, <1>c, <1>7, TestNextFits DEF BlockInv, Compress
<1>8. CASE LastLiterals
  BY <1>1, <1>2, <1>c, <1>8, LastLiteralsFits DEF BlockInv, Compress
<1>9. CASE ReadLiterals
  BY <1>1, <1>2, <1>9, ReadLiteralsFits DEF BlockInv
<1>10. CASE ReadMatch
  BY <1>1, <1>2, <1>10, ReadMatchFits DEF BlockInv
<1> QED BY <1>3, <1>4, <1>5, <1>6, <1>7, <1>8, <1>9, <1>10
        DEF BlockNext, Compress, DecompressBlock, Ended

(* StaysInside: neither side writes past the end of its buffer, though     *)
(* every copy of theirs, LZ4_wildCopy8, LZ4_wildCopy32 and the fixed ones  *)
(* of the shortcut, writes more than it must, and without a limit the      *)
(* compressor checks nothing.  The decoder is in either build, with or     *)
(* without the fast loop, and reads blocks that LZ4_compress_generic made. *)
THEOREM WritesInside == BlockSpec => []StaysInside
<1>1. BlockInit => BlockInv
  <2> SUFFICES ASSUME BlockInit PROVE BlockInv
    OBVIOUS
  <2>1. InputInv /\ EncodeInv /\ SpaceInv
    BY EncodeBegins, SpaceBegins
  <2>2. DecodeInv
    BY DEF BlockInit, DecodeInv
  <2>3. LoopInv
    <3>1. pc = "begin" /\ Len(output) = 0 /\ outputSize \in Nat
      BY <2>1 DEF BlockInit, InputInv
    <3>2. loop = "fast" => outputSize >= FASTLOOP_SAFE_DISTANCE
      BY DEF BlockInit
    <3> QED BY <3>1, <3>2, FastLimits DEF LoopInv
  <2> QED BY <2>1, <2>2, <2>3 DEF BlockInv, RoundTripInv
<1>2. BlockInv /\ [BlockNext]_blockVars => BlockInv'
  BY BlockStep
<1>3. BlockInv => StaysInside
  BY DEF BlockInv, SpaceInv, StaysInside
<1> QED BY <1>1, <1>2, <1>3, PTL DEF BlockSpec

=============================================================================
