------------------------------ MODULE UniqueIds ------------------------------
(***************************************************************************)
(* The list of device identifiers of uid.c.  The logger hands one out for  *)
(* every core, sensor, battery, network interface and file system it       *)
(* tracks, takes it back when the device goes away and hands it out again  *)
(* to the next device, of whatever kind.                                   *)
(***************************************************************************)
EXTENDS Naturals, Sequences

UidEntry == [id : Nat, available : BOOLEAN]

LeastOf(S) == CHOOSE i \in S : \A j \in S : i <= j

AvailableAt(list) == {i \in DOMAIN list : list[i].available}

PlacesOf(list, id) == {i \in DOMAIN list : list[i].id = id}

(* The identifier unique_id_find returns: that of the first available      *)
(* entry, and failing that the one after the last entry's.                 *)
unique_id_find(list) ==
  IF AvailableAt(list) # {} THEN list[LeastOf(AvailableAt(list))].id
  ELSE IF list = <<>> THEN 0 ELSE list[Len(list)].id + 1

(* Deliberately wrong: an available entry is not marked as taken. *)
ListAfterFindUnmarked(list) ==
  IF AvailableAt(list) # {} THEN list
  ELSE Append(list, [id |-> unique_id_find(list), available |-> FALSE])

(* The list unique_id_find leaves behind. *)
ListAfterFind(list) ==
  IF AvailableAt(list) # {}
  THEN [list EXCEPT ![LeastOf(AvailableAt(list))] =
          [id |-> unique_id_find(list), available |-> FALSE]]
  ELSE Append(list, [id |-> unique_id_find(list), available |-> FALSE])

(* Deliberately wrong: nothing is released. *)
ReleaseNothing(list, id) == list

(* The list unique_id_release leaves behind.  Releasing an identifier the  *)
(* list does not hold terminates the daemon; DeviceStream!ReleaseKnowsId   *)
(* is the invariant that it never comes to that.                           *)
unique_id_release(list, id) ==
  [list EXCEPT ![LeastOf(PlacesOf(list, id))] =
     [id |-> id, available |-> TRUE]]

InUse(list) == {list[i].id : i \in DOMAIN list \ AvailableAt(list)}
=============================================================================
