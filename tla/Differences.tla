----------------------------- MODULE Differences -----------------------------
(***************************************************************************)
(* What a MOD record carries.  The daemon writes the difference of two     *)
(* readings in the fewest bytes that hold it, and the client adds it to    *)
(* the reading it shows.  Four kinds of readings go through it: byte       *)
(* counters of interfaces and file systems (64 bits, unsigned), battery    *)
(* charges (32 bits, unsigned, subtracted as such) and amounts of memory   *)
(* counted in pages: the system's memory, whose difference is divided, and *)
(* a process's, where the amounts are divided and then subtracted.         *)
(*                                                                         *)
(* A width is given by half the number of values it has, Half8 being 2^7   *)
(* in the code; the definitions and proofs hold for any widths.            *)
(***************************************************************************)
EXTENDS Integers

CONSTANTS
  Half8, Half16, Half32, Half64,
  Page,            \* bytes in a page, 4096 in the code
  Counters,        \* the counter readings to consider
  Charges,         \* the battery charges to consider
  Amounts,         \* the amounts of memory to consider
  MaxSince         \* bound: memory differences from one refresh to the next

ASSUME WidthsAssumption ==
  /\ Half8 \in Nat \ {0} /\ Half16 \in Nat /\ Half32 \in Nat /\ Half64 \in Nat
  /\ Half8 <= Half16 /\ Half16 <= Half32 /\ 2 * Half32 <= Half64
ASSUME ReadingsAssumption ==
  /\ Counters \subseteq 0 .. 2 * Half64 - 1
  /\ Charges \subseteq 0 .. 2 * Half32 - 1
  /\ Amounts \subseteq 0 .. 2 * Half64 - 1
  /\ Page \in Nat \ {0} /\ (2 * Half64) % Page = 0 /\ MaxSince \in Nat

VARIABLES
  total, shown_total,      \* a counter: the daemon's, the client's
  charge, shown_charge,    \* a battery's charge
  used, shown_used,        \* memory in use
  since,                   \* memory differences since the last REFRESH
  rss, shown_rss           \* the memory of a process

counters == <<total, shown_total>>
charges  == <<charge, shown_charge>>
memory   == <<used, shown_used, since>>
process  == <<rss, shown_rss>>
vars     == <<counters, charges, memory, process>>

-----------------------------------------------------------------------------
(* Deliberately wrong: a width takes one value too many. *)
FitsOneMore(value, half) == 0 - half <= value /\ value <= half

Fits(value, half) == 0 - half <= value /\ value < half

Bits(value, half) == IF value < 0 THEN value + 2 * half ELSE value

SignedOf(bits, half) == IF bits >= half THEN bits - 2 * half ELSE bits

enigmatic_log_diff(value) ==
  IF Fits(value, Half8) THEN [change |-> "I8", bits |-> Bits(value, Half8)]
  ELSE IF Fits(value, Half16) THEN [change |-> "I16", bits |-> Bits(value, Half16)]
  ELSE IF Fits(value, Half32) THEN [change |-> "I32", bits |-> Bits(value, Half32)]
  ELSE [change |-> "I64", bits |-> Bits(value, Half64)]

change_find(r) ==
  CASE r.change = "I8"  -> SignedOf(r.bits, Half8)
    [] r.change = "I16" -> SignedOf(r.bits, Half16)
    [] r.change = "I32" -> SignedOf(r.bits, Half32)
    [] r.change = "I64" -> SignedOf(r.bits, Half64)

(* Unsigned subtraction and the addition of a signed number, modulo 2*half. *)
Minus(new, old, half) == Bits(new - old, half)

Plus(value, change, half) ==
  LET sum == value + change IN
  IF sum < 0 THEN sum + 2 * half
  ELSE IF sum >= 2 * half THEN sum - 2 * half ELSE sum

(* The 64 bit difference of two counters is converted to a signed number. *)
CounterDiff(new, old) == SignedOf(Minus(new, old, Half64), Half64)

(* The 32 bit difference of two charges is widened without a sign, and the *)
(* client keeps 32 bits of what it reads.                                  *)
ChargeDiff(new, old) == Minus(new, old, Half32)

ChargeChange(value) == SignedOf(value, Half32)

(* Deliberately wrong: pages are counted after the sign is taken. *)
PagesSigned(new, old) ==
  IF new < old THEN 0 - ((old - new) \div Page) ELSE (new - old) \div Page

(* The difference is an unsigned number when it is divided: what is left   *)
(* over is lost, and a decrease goes to the next page down.                *)
Pages(new, old) == Minus(new, old, Half64) \div Page

(* Deliberately wrong: a process's difference is divided like the memory's. *)
ProcessPagesDivided(new, old) == (new - old) \div Page

ProcessPages(new, old) == (new \div Page) - (old \div Page)

PlusPages(value, pages) ==
  (value + Page * change_find(enigmatic_log_diff(pages))) % (2 * Half64)

-----------------------------------------------------------------------------
Init ==
  /\ total \in Counters /\ shown_total = total
  /\ charge \in Charges /\ shown_charge = charge
  /\ used \in Amounts /\ shown_used = used
  /\ since = 0
  /\ rss \in Amounts /\ shown_rss = rss

NetworkMod ==
  \E new \in Counters \ {total} :
    /\ total' = new
    /\ shown_total' =
         Plus(shown_total,
              change_find(enigmatic_log_diff(CounterDiff(new, total))), Half64)
    /\ UNCHANGED <<charges, memory, process>>

BatteryMod ==
  \E new \in Charges \ {charge} :
    /\ charge' = new
    /\ shown_charge' =
         Plus(shown_charge,
              ChargeChange(change_find(enigmatic_log_diff(ChargeDiff(new, charge)))),
              Half32)
    /\ UNCHANGED <<counters, memory, process>>

(* The product overflows a signed 64 bit number when memory shrinks by a   *)
(* page or more; the builds wrap it.                                       *)
MemoryMod ==
  /\ since < MaxSince
  /\ \E new \in Amounts \ {used} :
       /\ used' = new
       /\ shown_used' = PlusPages(shown_used, Pages(new, used))
  /\ since' = since + 1
  /\ UNCHANGED <<counters, charges, process>>

(* At a broadcast the new reading is written whole. *)
MemoryRefresh ==
  /\ \E new \in Amounts : used' = new /\ shown_used' = new
  /\ since' = 0
  /\ UNCHANGED <<counters, charges, process>>

(* No record is written for a difference of no pages. *)
ProcessMod ==
  /\ \E new \in Amounts \ {rss} :
       /\ rss' = new
       /\ shown_rss' = IF ProcessPages(new, rss) = 0 THEN shown_rss
                       ELSE PlusPages(shown_rss, ProcessPages(new, rss))
  /\ UNCHANGED <<counters, charges, memory>>

Next == NetworkMod \/ BatteryMod \/ MemoryMod \/ MemoryRefresh \/ ProcessMod

Spec == Init /\ [][Next]_vars

-----------------------------------------------------------------------------
(* The client's counters and charges are the daemon's after every          *)
(* difference, up or down, in one byte or in eight, through the wrapping   *)
(* of the counter itself and of the charge's 32 bits.                      *)
Exact == shown_total = total /\ shown_charge = charge

(* The memory a client shows is never above the daemon's, and below it by  *)
(* less than a page for every difference since the last REFRESH.  (It may  *)
(* come to be several pages below: each difference of readings that are    *)
(* not whole pages loses its remainder.)                                   *)
MemoryLags == (used - shown_used) % (2 * Half64) <= since * (Page - 1)

(* The memory a client shows for a process is right to the page, however   *)
(* many differences it has added up.                                       *)
ProcessRightToThePage ==
  \/ (rss - shown_rss) % (2 * Half64) < Page
  \/ (shown_rss - rss) % (2 * Half64) < Page
=============================================================================
