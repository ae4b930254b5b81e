----------------------------- MODULE LogRecords -----------------------------
(***************************************************************************)
(* The records of the event log that speak of devices, and what a client   *)
(* does to its snapshot when it reads one.  A device is known by the       *)
(* identifier the daemon gave it; its readings are folded into one value.  *)
(***************************************************************************)
EXTENDS Integers

CONSTANTS
  Kinds,           \* CPU_CORE, SENSOR, BATTERY, NETWORK, FILE_SYSTEM
  NoKind,          \* the kind of a record that speaks of no device
  Names,           \* names devices may have
  Clamped,         \* kinds whose MOD handler turns a negative sum into 0
  RefreshUpdates   \* kinds whose REFRESH handler updates a non-empty list

Entry == [name : Names, uid : Nat, value : Int]

Contents == [Kinds -> SUBSET Entry]

Nothing == [k \in Kinds |-> {}]

Events == {"REFRESH", "ADD", "MOD", "DEL", "BROADCAST", "BLOCK_END",
           "LAST_RECORD", "EOF"}

Record == [event : Events, kind : Kinds \cup {NoKind}, items : SUBSET Entry,
           uid : Nat, diff : Int]

HeaderOnly(event) ==
  [event |-> event, kind |-> NoKind, items |-> {}, uid |-> 0, diff |-> 0]

REFRESH(k, cache) ==
  [event |-> "REFRESH", kind |-> k, items |-> cache[k], uid |-> 0, diff |-> 0]

ADD(k, device) ==
  [event |-> "ADD", kind |-> k, items |-> {device}, uid |-> 0, diff |-> 0]

MOD(k, uid, diff) ==
  [event |-> "MOD", kind |-> k, items |-> {}, uid |-> uid, diff |-> diff]

DEL(k, uid) ==
  [event |-> "DEL", kind |-> k, items |-> {}, uid |-> uid, diff |-> 0]

-----------------------------------------------------------------------------
(* The client's handlers, one per message type, on the list of one kind.   *)

FLOAT_VALID(k, value) == IF k \in Clamped /\ value < 0 THEN 0 ELSE value

UpdatedFrom(device, items) ==
  IF \E i \in items : i.uid = device.uid
  THEN [device EXCEPT !.value =
          (CHOOSE i \in items : i.uid = device.uid).value]
  ELSE device

(* An empty list takes the whole REFRESH.  A list that already has devices *)
(* never gains one from it: two kinds update the values of the devices     *)
(* they know, the others copy the old values into the record they drop.    *)
RefreshList(k, list, items) ==
  IF list = {} THEN items
  ELSE IF k \in RefreshUpdates THEN {UpdatedFrom(d, items) : d \in list}
  ELSE list

Modified(k, device, uid, diff) ==
  IF device.uid = uid
  THEN [device EXCEPT !.value = FLOAT_VALID(k, device.value + diff)]
  ELSE device

ModList(k, list, uid, diff) == {Modified(k, d, uid, diff) : d \in list}

(* Deliberately wrong: the device is not found. *)
DelNothing(list, uid) == list

DelList(list, uid) == {d \in list : d.uid # uid}

(* A message goes to the handler of its kind. *)
IsFor(r, event, k) == r.event = event /\ r.kind = k

(* The list of kind k after record r. *)
ListAfter(r, k, list) ==
  CASE r.event = "LAST_RECORD" -> {}
    [] IsFor(r, "REFRESH", k)  -> RefreshList(k, list, r.items)
    [] IsFor(r, "ADD", k)      -> list \cup r.items
    [] IsFor(r, "MOD", k)      -> ModList(k, list, r.uid, r.diff)
    [] IsFor(r, "DEL", k)      -> DelList(list, r.uid)
    [] OTHER                   -> list

Dispatch(r, snapshot) == [k \in Kinds |-> ListAfter(r, k, snapshot[k])]
=============================================================================
