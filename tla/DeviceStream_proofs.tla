------------------------- MODULE DeviceStream_proofs ------------------------
(* Theorems about DeviceStream, for all kinds, names, device lists and     *)
(* periods: types, identifiers, and that a follower comes to show what the *)
(* daemon has, no less and no more.  First come lemmas about the two       *)
(* modules it is made of: what handing out and giving back an identifier   *)
(* do to a well-formed list of uid.c, one whose identifiers are 0, 1, 2,   *)
(* ... in order, and what each record does to a list that is what the      *)
(* daemon had, or empty, or a part of it.                                  *)
EXTENDS DeviceStream, SequenceTheorems, WellFoundedInduction, TLAPS

Listed(list) ==
  /\ list \in Seq(UidEntry)
  /\ \A i \in DOMAIN list : list[i].id = i - 1

(* The loops over the list stop at the first entry that fits. *)
LEMMA LeastExists ==
  ASSUME NEW S \in SUBSET Nat, S # {}
  PROVE  LeastOf(S) \in S /\ \A j \in S : LeastOf(S) <= j
<1>1. PICK x \in S : \A y \in S : ~ (<<y, x>> \in OpToRel(<, Nat))
  BY WFMin, NatLessThanWellFounded, Zenon
<1>2. \A y \in S : ~ (y < x)
  <2>1. SUFFICES ASSUME NEW y \in S, y < x PROVE <<y, x>> \in OpToRel(<, Nat)
    BY <1>1, Zenon
  <2>2. <<y, x>> \in Nat \X Nat /\ <<y, x>>[1] = y /\ <<y, x>>[2] = x
    OBVIOUS
  <2>3. <<y, x>>[1] < <<y, x>>[2]
    BY <2>1, <2>2
  <2> QED BY <2>2, <2>3, Zenon DEF OpToRel
<1>3. \A y \in S : x <= y
  BY <1>2
<1> QED BY <1>3 DEF LeastOf

(* A list that is well-formed gives an identifier that was not in use and  *)
(* marks it as in use; the rest of the list stays as it was.               *)
LEMMA FindListed ==
  ASSUME NEW list, Listed(list)
  PROVE  LET id == unique_id_find(list)
             new == ListAfterFind(list) IN
         /\ id \in Nat /\ Listed(new)
         /\ id + 1 \in DOMAIN list => list[id + 1].available
         /\ id + 1 \in DOMAIN new /\ ~new[id + 1].available
         /\ \A i \in DOMAIN list : i \in DOMAIN new /\ (i # id + 1 => new[i] = list[i])
         /\ \A i \in DOMAIN new : i \in DOMAIN list \/ i = id + 1
<1> DEFINE id == unique_id_find(list)
           new == ListAfterFind(list)
           f == LeastOf(AvailableAt(list))
<1>0. list \in Seq(UidEntry) /\ \A i \in DOMAIN list : list[i].id = i - 1
  BY DEF Listed
<1>1. CASE AvailableAt(list) # {}
  <2>1. AvailableAt(list) \in SUBSET Nat
    BY <1>0 DEF AvailableAt
  <2>2. f \in DOMAIN list /\ list[f].available
    BY <2>1, <1>1, LeastExists DEF AvailableAt
  <2>3. id = f - 1 /\ id \in Nat
    BY <2>2, <1>0, <1>1 DEF unique_id_find, UidEntry
  <2>4. new = [list EXCEPT ![f] = [id |-> id, available |-> FALSE]]
    BY <1>1 DEF ListAfterFind
  <2>5. new \in Seq(UidEntry) /\ DOMAIN new = DOMAIN list
    <3>1. [id |-> id, available |-> FALSE] \in UidEntry
      BY <2>3 DEF UidEntry
    <3> QED BY <3>1, <2>2, <2>4, <1>0
  <2>6. \A i \in DOMAIN list : i # f => new[i] = list[i]
    BY <2>4, <1>0
  <2>7. new[f] = [id |-> id, available |-> FALSE]
    BY <2>4, <2>2, <1>0
  <2> HIDE DEF id, new, f
  <2>8. Listed(new)
    BY <2>3, <2>5, <2>6, <2>7, <1>0 DEF Listed
  <2>9. id + 1 = f
    BY <2>2, <2>3, <1>0
  <2> QED BY <2>2, <2>3, <2>5, <2>6, <2>7, <2>8, <2>9 DEF id, new
<1>2. CASE AvailableAt(list) = {}
  <2>1. id = Len(list)
    <3>1. CASE list = <<>>
      BY <3>1, <1>2 DEF unique_id_find
    <3>2. CASE list # <<>>
      <4>1. Len(list) \in DOMAIN list
        BY <3>2, <1>0
      <4> QED BY <4>1, <3>2, <1>2, <1>0 DEF unique_id_find
    <3> QED BY <3>1, <3>2
  <2>2. new = Append(list, [id |-> id, available |-> FALSE])
    BY <1>2 DEF ListAfterFind
  <2>3. [id |-> id, available |-> FALSE] \in UidEntry
    BY <2>1, <1>0 DEF UidEntry
  <2> HIDE DEF id, new
  <2>4. /\ new \in Seq(UidEntry)
        /\ DOMAIN new = 1 .. Len(list) + 1
        /\ DOMAIN list = 1 .. Len(list)
        /\ \A i \in DOMAIN list : new[i] = list[i]
        /\ new[Len(list) + 1] = [id |-> id, available |-> FALSE]
    BY <2>2, <2>3, <1>0
  <2>5. Len(list) \in Nat
    BY <1>0
  <2>6. Listed(new)
    BY <2>1, <2>4, <2>5, <1>0 DEF Listed
  <2> QED BY <2>1, <2>4, <2>5, <2>6 DEF id, new
<1> QED BY <1>1, <1>2

(* Releasing an identifier the list holds marks it as available and        *)
(* changes nothing else.                                                   *)
LEMMA ReleaseListed ==
  ASSUME NEW list, Listed(list), NEW id \in Nat, id + 1 \in DOMAIN list
  PROVE  LET new == unique_id_release(list, id) IN
         /\ Listed(new) /\ DOMAIN new = DOMAIN list
         /\ new[id + 1].available
         /\ \A i \in DOMAIN list : i # id + 1 => new[i] = list[i]
<1> DEFINE new == unique_id_release(list, id)
<1>0. list \in Seq(UidEntry) /\ \A i \in DOMAIN list : list[i].id = i - 1
  BY DEF Listed
<1>1. PlacesOf(list, id) = {id + 1}
  <2>1. \A i \in DOMAIN list : i \in Int
    BY <1>0
  <2> QED BY <2>1, <1>0 DEF PlacesOf
<1>2. LeastOf(PlacesOf(list, id)) = id + 1
  BY <1>1, LeastExists
<1>3. new = [list EXCEPT ![id + 1] = [id |-> id, available |-> TRUE]]
  BY <1>2 DEF unique_id_release
<1>4. [id |-> id, available |-> TRUE] \in UidEntry
  BY DEF UidEntry
<1>5. new \in Seq(UidEntry) /\ DOMAIN new = DOMAIN list
  BY <1>3, <1>4, <1>0
<1>6. new[id + 1] = [id |-> id, available |-> TRUE]
      /\ \A i \in DOMAIN list : i # id + 1 => new[i] = list[i]
  BY <1>3, <1>0
<1> HIDE DEF new
<1>7. Listed(new)
  BY <1>0, <1>5, <1>6 DEF Listed
<1> QED BY <1>5, <1>6, <1>7 DEF new

-----------------------------------------------------------------------------
Within(S, T) == \A k \in Kinds : S[k] \subseteq T[k]

UniqueUids(S) == \A k \in Kinds : \A d, e \in S[k] : d.uid = e.uid => d = e

LEMMA NothingWithin ==
  /\ Nothing \in Contents /\ UniqueUids(Nothing)
  /\ \A k \in Kinds : Nothing[k] = {}
  /\ \A S : Within(Nothing, S)
BY DEF Nothing, Contents, UniqueUids, Within

LEMMA WithinUnique ==
  ASSUME NEW S, NEW T, Within(S, T), UniqueUids(T) PROVE UniqueUids(S)
BY DEF Within, UniqueUids

(* Dispatching a record keeps the snapshot a snapshot. *)
LEMMA DispatchType ==
  ASSUME NEW r \in Record, NEW S \in Contents
  PROVE  Dispatch(r, S) \in Contents
<1> SUFFICES ASSUME NEW k \in Kinds PROVE ListAfter(r, k, S[k]) \subseteq Entry
  BY DEF Dispatch, Contents
<1>1. S[k] \subseteq Entry /\ r.items \subseteq Entry /\ r.uid \in Nat /\ r.diff \in Int
  BY DEF Contents, Record
<1>2. RefreshList(k, S[k], r.items) \subseteq Entry
  <2>1. \A d \in S[k] : UpdatedFrom(d, r.items) \in Entry
    <3> SUFFICES ASSUME NEW d \in S[k] PROVE UpdatedFrom(d, r.items) \in Entry
      OBVIOUS
    <3>1. CASE \E i \in r.items : i.uid = d.uid
      <4> DEFINE i == CHOOSE i \in r.items : i.uid = d.uid
      <4>1. i \in r.items
        BY <3>1
      <4>2. i.value \in Int
        BY <4>1, <1>1 DEF Entry
      <4>3. UpdatedFrom(d, r.items) = [d EXCEPT !.value = i.value]
        BY <3>1 DEF UpdatedFrom
      <4> QED BY <4>2, <4>3, <1>1 DEF Entry
    <3>2. CASE ~ \E i \in r.items : i.uid = d.uid
      BY <3>2, <1>1 DEF UpdatedFrom
    <3> QED BY <3>1, <3>2
  <2> QED BY <2>1, <1>1 DEF RefreshList
<1>3. ModList(k, S[k], r.uid, r.diff) \subseteq Entry
  BY <1>1 DEF ModList, Modified, FLOAT_VALID, Entry
<1>4. DelList(S[k], r.uid) \subseteq Entry
  BY <1>1 DEF DelList
<1> QED BY <1>1, <1>2, <1>3, <1>4 DEF ListAfter, IsFor

(* A record that only marks a place in the log. *)
LEMMA HeaderSays ==
  ASSUME NEW S \in Contents, NEW ev \in {"BROADCAST", "BLOCK_END", "EOF"}
  PROVE  HeaderOnly(ev) \in Record /\ Dispatch(HeaderOnly(ev), S) = S
BY DEF HeaderOnly, Record, Events, Dispatch, ListAfter, IsFor, Contents

LEMMA LastRecordSays ==
  ASSUME NEW S \in Contents
  PROVE  /\ HeaderOnly("LAST_RECORD") \in Record
         /\ Dispatch(HeaderOnly("LAST_RECORD"), S) = Nothing
<1> DEFINE r == HeaderOnly("LAST_RECORD")
<1>1. r \in Record /\ r.event = "LAST_RECORD"
  BY DEF HeaderOnly, Record, Events
<1> HIDE DEF r
<1>2. \A k \in Kinds : ListAfter(r, k, S[k]) = {}
  BY <1>1 DEF ListAfter, IsFor
<1>3. Dispatch(r, S) = Nothing
  BY <1>2, SMT DEF Dispatch, Nothing
<1> QED BY <1>1, <1>3 DEF r

(* A REFRESH written from the cache: an empty list takes it whole, in a    *)
(* list that has devices already it can only repeat what they are.         *)
LEMMA RefreshSays ==
  ASSUME NEW c \in Contents, UniqueUids(c), NEW k \in Kinds,
         NEW S \in Contents, S[k] \subseteq c[k],
         NEW T, T = Dispatch(REFRESH(k, c), S)
  PROVE  /\ REFRESH(k, c) \in Record
         /\ T[k] \subseteq c[k]
         /\ S[k] = {} \/ S[k] = c[k] => T[k] = c[k]
         /\ \A j \in Kinds : j # k => T[j] = S[j]
<1> DEFINE r == REFRESH(k, c)
<1>1. /\ r \in Record /\ r.event = "REFRESH"
      /\ r.kind = k /\ r.items = c[k]
  BY DEF REFRESH, Record, Events, Contents
<1> HIDE DEF r
<1>2. \A j \in Kinds : j # k => T[j] = S[j]
  BY <1>1 DEF r, Dispatch, ListAfter, IsFor
<1>3. T[k] = RefreshList(k, S[k], c[k])
  BY <1>1 DEF r, Dispatch, ListAfter, IsFor
<1>4. \A d \in S[k] : UpdatedFrom(d, c[k]) = d
  <2> SUFFICES ASSUME NEW d \in S[k] PROVE UpdatedFrom(d, c[k]) = d
    OBVIOUS
  <2> DEFINE i == CHOOSE i \in c[k] : i.uid = d.uid
  <2>1. d \in c[k] /\ d \in Entry
    BY DEF Contents
  <2>2. i \in c[k] /\ i.uid = d.uid
    BY <2>1
  <2>3. i = d
    BY <2>1, <2>2 DEF UniqueUids
  <2>4. UpdatedFrom(d, c[k]) = [d EXCEPT !.value = i.value]
    BY <2>1 DEF UpdatedFrom
  <2> QED BY <2>1, <2>3, <2>4 DEF Entry
<1>5. {UpdatedFrom(d, c[k]) : d \in S[k]} = S[k]
  BY <1>4
<1>6. T[k] = IF S[k] = {} THEN c[k] ELSE S[k]
  BY <1>3, <1>5 DEF RefreshList
<1> QED BY <1>1, <1>2, <1>6 DEF r

LEMMA AddSays ==
  ASSUME NEW k \in Kinds, NEW d \in Entry, NEW S \in Contents,
         NEW T, T = Dispatch(ADD(k, d), S)
  PROVE  /\ ADD(k, d) \in Record
         /\ T[k] = S[k] \cup {d}
         /\ \A j \in Kinds : j # k => T[j] = S[j]
BY DEF ADD, Record, Events, Dispatch, ListAfter, IsFor

(* A DEL takes its device out of a list of the devices there were. *)
LEMMA DelSays ==
  ASSUME NEW c \in Contents, UniqueUids(c), NEW k \in Kinds, NEW d \in c[k],
         NEW S \in Contents, S[k] \subseteq c[k],
         NEW T, T = Dispatch(DEL(k, d.uid), S)
  PROVE  /\ DEL(k, d.uid) \in Record
         /\ T[k] = S[k] \ {d}
         /\ \A j \in Kinds : j # k => T[j] = S[j]
<1> DEFINE r == DEL(k, d.uid)
<1>0. d.uid \in Nat
  BY DEF Contents, Entry
<1>1. r \in Record /\ r.event = "DEL" /\ r.kind = k /\ r.uid = d.uid
  BY <1>0 DEF DEL, Record, Events
<1> HIDE DEF r
<1>2. \A j \in Kinds : j # k => T[j] = S[j]
  BY <1>1 DEF r, Dispatch, ListAfter, IsFor
<1>3. T[k] = DelList(S[k], d.uid)
  BY <1>1 DEF r, Dispatch, ListAfter, IsFor
<1>4. \A e \in S[k] : e.uid = d.uid <=> e = d
  BY DEF UniqueUids
<1> QED BY <1>1, <1>2, <1>3, <1>4 DEF r, DelList

(* The difference to a value the client will not clamp adds up to it.      *)
LEMMA ModifiedTo ==
  ASSUME NEW k, NEW d \in Entry, NEW v \in Int, k \in Clamped => v >= 0
  PROVE  Modified(k, d, d.uid, v - d.value) = [d EXCEPT !.value = v]
<1>1. d.value + (v - d.value) = v
  BY DEF Entry
<1>2. FLOAT_VALID(k, v) = v
  BY DEF FLOAT_VALID
<1>3. FLOAT_VALID(k, d.value + (v - d.value)) = v
  BY <1>1, <1>2
<1> QED BY <1>3 DEF Modified

(* A MOD changes the device of its identifier, in a list that has it.      *)
LEMMA ModSays ==
  ASSUME NEW c \in Contents, UniqueUids(c),
         NEW r \in Record, r.event = "MOD", r.kind \in Kinds,
         NEW d \in c[r.kind], d.uid = r.uid,
         NEW e, e = Modified(r.kind, d, r.uid, r.diff),
         NEW S \in Contents, S[r.kind] \subseteq c[r.kind],
         NEW T, T = Dispatch(r, S)
  PROVE  /\ T[r.kind] = IF d \in S[r.kind] THEN (S[r.kind] \ {d}) \cup {e}
                                           ELSE S[r.kind]
         /\ \A j \in Kinds : j # r.kind => T[j] = S[j]
<1> DEFINE k == r.kind
<1>2. \A j \in Kinds : j # k => T[j] = S[j]
  BY DEF Dispatch, ListAfter, IsFor
<1>3. T[k] = {Modified(k, f, d.uid, r.diff) : f \in S[k]}
  BY DEF Dispatch, ListAfter, IsFor, ModList
<1>4. \A f \in S[k] : Modified(k, f, d.uid, r.diff) = IF f = d THEN e ELSE f
  <2> SUFFICES ASSUME NEW f \in S[k], f # d
               PROVE  Modified(k, f, d.uid, r.diff) = f
    OBVIOUS
  <2>1. f.uid # d.uid
    BY DEF UniqueUids
  <2> QED BY <2>1 DEF Modified
<1>5. T[k] = {IF f = d THEN e ELSE f : f \in S[k]}
  BY <1>3, <1>4
<1>6. T[k] = IF d \in S[k] THEN (S[k] \ {d}) \cup {e} ELSE S[k]
  <2> DEFINE new == IF d \in S[k] THEN (S[k] \ {d}) \cup {e} ELSE S[k]
  <2>1. \A g : g \in T[k] <=> \E f \in S[k] : g = IF f = d THEN e ELSE f
    BY <1>5
  <2>2. \A g : g \in new <=> \E f \in S[k] : g = IF f = d THEN e ELSE f
    OBVIOUS
  <2> QED BY <2>1, <2>2
<1> QED BY <1>2, <1>6

-----------------------------------------------------------------------------
(* The identifiers of a cache c and the list l of uid.c fit together. *)
IdsFit(c, l) ==
  /\ Listed(l)
  /\ \A k \in Kinds : \A d \in c[k] :
       d.uid + 1 \in DOMAIN l /\ ~l[d.uid + 1].available
  /\ \A i \in DOMAIN l : ~l[i].available =>
       \E k \in Kinds : \E d \in c[k] : d.uid + 1 = i
  /\ \A j, k \in Kinds : \A d \in c[j], e \in c[k] :
       d.uid = e.uid => j = k /\ d = e
  /\ \A k \in Kinds : \A d, e \in c[k] : d.name = e.name => d = e

LEMMA IdsFitUnique ==
  ASSUME NEW c, NEW l, IdsFit(c, l) PROVE UniqueUids(c)
BY DEF IdsFit, UniqueUids

(* A new device takes an identifier no device has. *)
LEMMA AddFits ==
  ASSUME NEW c \in Contents, NEW l, IdsFit(c, l), NEW k \in Kinds,
         NEW n \in Names, \A d \in c[k] : d.name # n, NEW v \in Int,
         NEW d, d = [name |-> n, uid |-> unique_id_find(l), value |-> v],
         NEW new, new = [c EXCEPT ![k] = @ \cup {d}]
  PROVE  /\ d \in Entry /\ new \in Contents /\ d \in new[k]
         /\ Within(c, new) /\ IdsFit(new, ListAfterFind(l))
<1> DEFINE id == unique_id_find(l)
           m == ListAfterFind(l)
<1>1. /\ id \in Nat /\ Listed(m)
      /\ id + 1 \in DOMAIN l => l[id + 1].available
      /\ id + 1 \in DOMAIN m /\ ~m[id + 1].available
      /\ \A i \in DOMAIN l : i \in DOMAIN m /\ (i # id + 1 => m[i] = l[i])
      /\ \A i \in DOMAIN m : i \in DOMAIN l \/ i = id + 1
  BY FindListed DEF IdsFit
<1>2. d.name = n /\ d.uid = id
  OBVIOUS
<1> HIDE DEF id, m
<1>3. d \in Entry
  BY <1>1 DEF Entry, id
<1>4. new \in Contents /\ d \in new[k]
  BY <1>3 DEF Contents
<1>5. /\ \A j \in Kinds : c[j] \subseteq new[j]
      /\ \A j \in Kinds : \A e \in new[j] : e \in c[j] \/ (j = k /\ e = d)
  BY DEF Contents
<1>6. \A j \in Kinds : \A e \in c[j] : e.uid # id /\ e.uid \in Nat
  <2> SUFFICES ASSUME NEW j \in Kinds, NEW e \in c[j]
               PROVE  e.uid # id /\ e.uid \in Nat
    OBVIOUS
  <2>1. e.uid \in Nat
    BY DEF Contents, Entry
  <2>2. e.uid + 1 \in DOMAIN l /\ ~l[e.uid + 1].available
    BY DEF IdsFit
  <2> QED BY <2>1, <2>2, <1>1
<1>7. \A j \in Kinds : \A e \in new[j] :
        e.uid + 1 \in DOMAIN m /\ ~m[e.uid + 1].available
  <2> SUFFICES ASSUME NEW j \in Kinds, NEW e \in new[j]
               PROVE  e.uid + 1 \in DOMAIN m /\ ~m[e.uid + 1].available
    OBVIOUS
  <2>1. CASE e \in c[j]
    <3>1. e.uid + 1 \in DOMAIN l /\ ~l[e.uid + 1].available
      BY <2>1 DEF IdsFit
    <3>2. e.uid + 1 # id + 1
      BY <2>1, <1>6, <1>1
    <3> QED BY <3>1, <3>2, <1>1
  <2>2. CASE j = k /\ e = d
    BY <2>2, <1>1, <1>2
  <2> QED BY <2>1, <2>2, <1>5
<1>8. \A i \in DOMAIN m : ~m[i].available =>
        \E j \in Kinds : \E e \in new[j] : e.uid + 1 = i
  <2> SUFFICES ASSUME NEW i \in DOMAIN m, ~m[i].available
               PROVE  \E j \in Kinds : \E e \in new[j] : e.uid + 1 = i
    OBVIOUS
  <2>1. CASE i = id + 1
    BY <2>1, <1>2, <1>4
  <2>2. CASE i # id + 1
    <3>1. i \in DOMAIN l /\ ~l[i].available
      BY <2>2, <1>1
    <3>2. PICK j \in Kinds : \E e \in c[j] : e.uid + 1 = i
      BY <3>1 DEF IdsFit
    <3>3. PICK e \in c[j] : e.uid + 1 = i
      BY <3>2
    <3> QED BY <3>3, <1>5
  <2> QED BY <2>1, <2>2
<1>9. \A i, j \in Kinds : \A e \in new[i], f \in new[j] :
        e.uid = f.uid => i = j /\ e = f
  BY <1>2, <1>5, <1>6 DEF IdsFit
<1>10. \A j \in Kinds : \A e, f \in new[j] : e.name = f.name => e = f
  BY <1>2, <1>5 DEF IdsFit
<1>11. IdsFit(new, m)
  BY <1>1, <1>7, <1>8, <1>9, <1>10 DEF IdsFit
<1> QED BY <1>3, <1>4, <1>5, <1>11 DEF m, Within

(* A device that goes gives its identifier back. *)
LEMMA DelFits ==
  ASSUME NEW c \in Contents, NEW l, IdsFit(c, l), NEW k \in Kinds,
         NEW d \in c[k], NEW new, new = [c EXCEPT ![k] = @ \ {d}]
  PROVE  /\ d \in Entry /\ new \in Contents
         /\ IdsFit(new, unique_id_release(l, d.uid))
<1> DEFINE m == unique_id_release(l, d.uid)
<1>1. d \in Entry /\ d.uid \in Nat
  BY DEF Contents, Entry
<1>2. new \in Contents
  BY DEF Contents
<1>3. \A j \in Kinds : \A e : e \in new[j] <=> e \in c[j] /\ (j # k \/ e # d)
  BY DEF Contents
<1>4. d.uid + 1 \in DOMAIN l /\ Listed(l)
  BY DEF IdsFit
<1>5. /\ Listed(m) /\ DOMAIN m = DOMAIN l
      /\ m[d.uid + 1].available
      /\ \A i \in DOMAIN l : i # d.uid + 1 => m[i] = l[i]
  BY <1>1, <1>4, ReleaseListed
<1> HIDE DEF m
<1>6. \A j \in Kinds : \A e \in new[j] : e.uid # d.uid /\ e.uid \in Nat
  BY <1>3 DEF IdsFit, Contents, Entry
<1>7. \A j \in Kinds : \A e \in new[j] :
        e.uid + 1 \in DOMAIN m /\ ~m[e.uid + 1].available
  <2> SUFFICES ASSUME NEW j \in Kinds, NEW e \in new[j]
               PROVE  e.uid + 1 \in DOMAIN m /\ ~m[e.uid + 1].available
    OBVIOUS
  <2>1. e.uid + 1 \in DOMAIN l /\ ~l[e.uid + 1].available
    BY <1>3 DEF IdsFit
  <2>2. e.uid + 1 # d.uid + 1
    BY <1>1, <1>6
  <2> QED BY <2>1, <2>2, <1>5
<1>8. \A i \in DOMAIN m : ~m[i].available =>
        \E j \in Kinds : \E e \in new[j] : e.uid + 1 = i
  <2> SUFFICES ASSUME NEW i \in DOMAIN m, ~m[i].available
               PROVE  \E j \in Kinds : \E e \in new[j] : e.uid + 1 = i
    OBVIOUS
  <2>1. i # d.uid + 1 /\ i \in DOMAIN l /\ ~l[i].available
    BY <1>5
  <2>2. PICK j \in Kinds : \E e \in c[j] : e.uid + 1 = i
    BY <2>1 DEF IdsFit
  <2>3. PICK e \in c[j] : e.uid + 1 = i
    BY <2>2
  <2>4. e \in new[j]
    BY <2>1, <2>3, <1>3
  <2> QED BY <2>3, <2>4
<1>9. IdsFit(new, m)
  BY <1>3, <1>5, <1>7, <1>8 DEF IdsFit
<1> QED BY <1>1, <1>2, <1>9 DEF m

(* A new reading leaves the identifiers alone. *)
LEMMA ModFits ==
  ASSUME NEW c \in Contents, NEW l, IdsFit(c, l), NEW k \in Kinds,
         NEW d \in c[k], NEW v \in Int,
         NEW new,
         new = [c EXCEPT ![k] = (@ \ {d}) \cup {[d EXCEPT !.value = v]}]
  PROVE  new \in Contents /\ IdsFit(new, l)
<1> DEFINE e == [d EXCEPT !.value = v]
<1>1. d \in Entry /\ e \in Entry /\ e.uid = d.uid /\ e.name = d.name
  BY DEF Contents, Entry
<1>2. new = [c EXCEPT ![k] = (@ \ {d}) \cup {e}]
  OBVIOUS
<1> HIDE DEF e
<1>3. new \in Contents
  BY <1>1, <1>2 DEF Contents
<1>4. /\ e \in new[k]
      /\ \A j \in Kinds : \A f \in c[j] : f \in new[j] \/ (j = k /\ f = d)
      /\ \A j \in Kinds : \A f \in new[j] :
           (f \in c[j] /\ (j # k \/ f # d)) \/ (j = k /\ f = e)
  BY <1>2 DEF Contents
<1>5. \A j \in Kinds : \A f \in new[j] :
        f.uid + 1 \in DOMAIN l /\ ~l[f.uid + 1].available
  <2> SUFFICES ASSUME NEW j \in Kinds, NEW f \in new[j]
               PROVE  f.uid + 1 \in DOMAIN l /\ ~l[f.uid + 1].available
    OBVIOUS
  <2>1. CASE f \in c[j]
    BY <2>1 DEF IdsFit
  <2>2. CASE f = e
    <3>1. d.uid + 1 \in DOMAIN l /\ ~l[d.uid + 1].available
      BY DEF IdsFit
    <3> QED BY <3>1, <2>2, <1>1
  <2> QED BY <2>1, <2>2, <1>4
<1>6. \A i \in DOMAIN l : ~l[i].available =>
        \E j \in Kinds : \E f \in new[j] : f.uid + 1 = i
  <2> SUFFICES ASSUME NEW i \in DOMAIN l, ~l[i].available
               PROVE  \E j \in Kinds : \E f \in new[j] : f.uid + 1 = i
    OBVIOUS
  <2>0. PICK j \in Kinds : \E f \in c[j] : f.uid + 1 = i
    BY DEF IdsFit
  <2>1. PICK f \in c[j] : f.uid + 1 = i
    BY <2>0
  <2>2. CASE f \in new[j]
    BY <2>1, <2>2
  <2>3. CASE j = k /\ f = d
    BY <2>1, <2>3, <1>1, <1>4
  <2> QED BY <2>2, <2>3, <1>4
<1>7. \A i, j \in Kinds : \A f \in new[i], g \in new[j] :
        f.uid = g.uid => i = j /\ f = g
  BY <1>1, <1>4 DEF IdsFit
<1>8. \A j \in Kinds : \A f, g \in new[j] : f.name = g.name => f = g
  BY <1>1, <1>4 DEF IdsFit
<1> QED BY <1>3, <1>5, <1>6, <1>7, <1>8 DEF IdsFit

-----------------------------------------------------------------------------
LEMMA RecordTypes ==
  ASSUME NEW c \in Contents
  PROVE  /\ \A ev \in Events : HeaderOnly(ev) \in Record
         /\ \A k \in Kinds : REFRESH(k, c) \in Record
         /\ \A k \in Kinds, d \in Entry : ADD(k, d) \in Record
         /\ \A k \in Kinds, u \in Nat : DEL(k, u) \in Record
         /\ \A k \in Kinds, u \in Nat, v \in Int : MOD(k, u, v) \in Record
BY DEF HeaderOnly, REFRESH, ADD, DEL, MOD, Record, Events, Contents

(* The kind a visit is about, and the devices its report names. *)
LEMMA VisitTypes ==
  ASSUME TypeOK, mon <= Len(Monitors)
  PROVE  /\ Kind \in Kinds
         /\ \A n \in Missing : n \in Names /\ sample[n] \in Int
                             /\ \A d \in cache[Kind] : d.name # n
         /\ \A d \in Changed : d \in cache[Kind] /\ sample[d.name] \in Int
                             /\ d.name \in DOMAIN sample
         /\ \A d \in Gone : d \in cache[Kind]
<1>1. Kind \in Kinds
  BY MonitorsAssumption DEF TypeOK, Kind
<1>2. IsReport(sample)
  BY DEF TypeOK
<1> QED BY <1>1, <1>2 DEF IsReport, Missing, CachedNames, Changed, Gone

Typed == TypeOK /\ IdsFit(cache, unique_ids)

LEMMA TypedInit == Init => Typed
<1> SUFFICES ASSUME Init PROVE Typed
  OBVIOUS
<1>1. TypeOK
  <2>1. IsReport(<<>>)
    BY DEF IsReport
  <2>2. 1 \in 1 .. Len(Monitors) + 1
    BY MonitorsAssumption
  <2>3. <<>> \in Seq(UidEntry) /\ <<>> \in Seq(Record)
    OBVIOUS
  <2>4. Nothing \in Contents
    BY NothingWithin
  <2>5. /\ pc = "top" /\ mon = 1 /\ sample = <<>> /\ inited = {}
        /\ cache = Nothing /\ unique_ids = <<>> /\ broadcast = TRUE
        /\ poll_count = 0 /\ buf = <<>> /\ unread = <<>> /\ stale = FALSE
        /\ cbuf = <<>> /\ snapshot = Nothing
    BY DEF Init
  <2>6. IsReport(sample)
    BY <2>1, <2>5
  <2>7. mon \in 1 .. Len(Monitors) + 1
    BY <2>2, <2>5
  <2>8. /\ pc \in {"top", "reopen", "rotated", "poll", "refresh", "diff", "down"}
        /\ pc \notin {"refresh", "diff"}
    BY <2>5
  <2> QED BY <2>3, <2>4, <2>5, <2>6, <2>7, <2>8 DEF TypeOK
<1>2. IdsFit(Nothing, <<>>)
  BY DEF IdsFit, Listed, Nothing
<1> QED BY <1>1, <1>2 DEF Init, Typed

LEMMA TypedNext == Typed /\ [Next]_vars => Typed'
<1> SUFFICES ASSUME Typed, [Next]_vars PROVE Typed'
  OBVIOUS
<1> USE DEF Typed
<1>len. Len(Monitors) \in Nat /\ mon \in Nat
  BY MonitorsAssumption DEF TypeOK
<1>ev. {"BROADCAST", "BLOCK_END", "LAST_RECORD", "EOF"} \subseteq Events
  BY DEF Events
<1>end. Nothing \in Contents /\ IdsFit(Nothing, <<>>) /\ IsReport(<<>>)
  BY NothingWithin DEF IdsFit, Listed, Nothing, IsReport
<1>1. CASE RotateClose
  <2>1. unread' \in Seq(Record)
    BY <1>1, <1>ev, RecordTypes DEF RotateClose, TypeOK
  <2> QED BY <1>1, <2>1 DEF RotateClose, TypeOK, client
<1>2. CASE RotateOpen
  BY <1>2 DEF RotateOpen, TypeOK, client
<1>3. CASE BeginPoll
  <2>1. buf' \in Seq(Record)
    BY <1>3, <1>ev, RecordTypes DEF BeginPoll, TypeOK
  <2> QED BY <1>3, <2>1, <1>len DEF BeginPoll, TypeOK, client, file
<1>4. CASE NotDue
  BY <1>4, <1>len DEF NotDue, TypeOK, client, file
<1>5. CASE LockContended
  BY <1>5, <1>len DEF LockContended, TypeOK, client, file
<1>6. CASE BeginMonitor
  <2>1. IsReport(sample')
    BY <1>6, SamplesAssumption, VisitTypes DEF BeginMonitor
  <2> QED BY <1>6, <2>1, <1>len DEF BeginMonitor, TypeOK, client, file
<1>7. CASE FillCache
  <2>0. mon <= Len(Monitors)
    BY <1>7 DEF FillCache, TypeOK
  <2>1. PICK n \in Missing : cache' = With(NewDevice(n))
    BY <1>7 DEF FillCache
  <2>2. cache' \in Contents /\ IdsFit(cache', unique_ids')
    BY <1>7, <2>0, <2>1, VisitTypes, AddFits
    DEF FillCache, With, NewDevice, TypeOK
  <2>3. unique_ids' \in Seq(UidEntry)
    BY <2>2 DEF IdsFit, Listed
  <2> QED BY <1>7, <2>2, <2>3 DEF FillCache, TypeOK, client, file
<1>8. CASE WriteRefresh
  <2>0. Kind \in Kinds
    BY <1>8, VisitTypes DEF WriteRefresh, TypeOK
  <2>1. buf' \in Seq(Record)
    BY <1>8, <2>0, RecordTypes DEF WriteRefresh, TypeOK
  <2> QED BY <1>8, <2>0, <2>1 DEF WriteRefresh, TypeOK, client, file
<1>9. CASE LogDel
  <2>0. mon <= Len(Monitors) /\ Kind \in Kinds
    BY <1>9, VisitTypes DEF LogDel, TypeOK
  <2>1. PICK d \in Gone :
          /\ cache' = Without(d)
          /\ unique_ids' = unique_id_release(unique_ids, d.uid)
          /\ buf' = Append(buf, DEL(Kind, d.uid))
    BY <1>9 DEF LogDel
  <2>2. d \in Entry /\ cache' \in Contents /\ IdsFit(cache', unique_ids')
    BY <2>0, <2>1, VisitTypes, DelFits DEF Without, TypeOK
  <2>3. unique_ids' \in Seq(UidEntry)
    BY <2>2 DEF IdsFit, Listed
  <2>4. buf' \in Seq(Record)
    BY <2>0, <2>1, <2>2, RecordTypes DEF TypeOK, Entry
  <2> QED BY <1>9, <2>2, <2>3, <2>4 DEF LogDel, TypeOK, client, file
<1>10. CASE LogAdd
  <2>0. mon <= Len(Monitors) /\ Kind \in Kinds
    BY <1>10, VisitTypes DEF LogAdd, TypeOK
  <2>1. PICK n \in Missing :
          /\ cache' = With(NewDevice(n))
          /\ unique_ids' = ListAfterFind(unique_ids)
          /\ buf' = Append(buf, ADD(Kind, NewDevice(n)))
    BY <1>10 DEF LogAdd
  <2>2. /\ NewDevice(n) \in Entry
        /\ cache' \in Contents /\ IdsFit(cache', unique_ids')
    BY ZenonT(40), <2>0, <2>1, VisitTypes, AddFits DEF With, NewDevice, TypeOK
  <2>3. unique_ids' \in Seq(UidEntry)
    BY <2>2 DEF IdsFit, Listed
  <2>4. buf' \in Seq(Record)
    BY <2>0, <2>1, <2>2, RecordTypes DEF TypeOK
  <2> QED BY <1>10, <2>2, <2>3, <2>4 DEF LogAdd, TypeOK, client, file
<1>11. CASE LogMod
  <2>0. mon <= Len(Monitors) /\ Kind \in Kinds
    BY <1>11, VisitTypes DEF LogMod, TypeOK
  <2>1. PICK d \in Changed :
          /\ cache' = Renewed(d)
          /\ buf' = Append(buf, MOD(Kind, d.uid, sample[d.name] - d.value))
    BY <1>11 DEF LogMod
  <2>2. unique_ids' = unique_ids
    BY <1>11 DEF LogMod
  <2>3. d \in cache[Kind] /\ sample[d.name] \in Int
    BY <2>0, VisitTypes
  <2>4. cache' \in Contents /\ IdsFit(cache', unique_ids')
    BY <2>0, <2>1, <2>2, <2>3, ModFits DEF Renewed, TypeOK
  <2>5. d.uid \in Nat /\ sample[d.name] - d.value \in Int
    BY <2>0, <2>3 DEF TypeOK, Contents, Entry
  <2>6. buf' \in Seq(Record)
    BY <2>0, <2>1, <2>4, <2>5, RecordTypes DEF TypeOK
  <2> QED BY <1>11, <2>4, <2>6 DEF LogMod, TypeOK, client, file
<1>12. CASE EndMonitor
  BY <1>12, <1>len, <1>end DEF EndMonitor, TypeOK, client, file
<1>13. CASE EndPoll
  <2>1. unread' \in Seq(Record)
    BY <1>13, <1>ev, RecordTypes DEF EndPoll, TypeOK
  <2>2. poll_count' \in Nat /\ broadcast' \in BOOLEAN
    BY <1>13 DEF EndPoll, NextPollCount, TypeOK
  <2> QED BY <1>13, <2>1, <2>2, <1>len DEF EndPoll, TypeOK, client
<1>14. CASE Shutdown
  <2>1. unread' \in Seq(Record)
    BY <1>14, <1>ev, RecordTypes DEF Shutdown, TypeOK
  <2> QED BY <1>14, <2>1, <1>len, <1>end DEF Shutdown, ProcessEnds, TypeOK, client
<1>15. CASE Crash
  BY <1>15, <1>len, <1>end DEF Crash, ProcessEnds, TypeOK, client, file
<1>16. CASE Restart
  BY <1>16 DEF Restart, TypeOK, client
<1>17. CASE ClientRead
  BY <1>17, <1>end DEF ClientRead, SnapshotToUpdate, TypeOK, daemon
<1>18. CASE ClientDispatch
  <2>1. Head(cbuf) \in Record /\ Tail(cbuf) \in Seq(Record)
    BY <1>18, HeadTailProperties DEF ClientDispatch, TypeOK
  <2>2. snapshot' \in Contents
    BY <1>18, <2>1, DispatchType DEF ClientDispatch, TypeOK
  <2> QED BY <1>18, <2>1, <2>2 DEF ClientDispatch, TypeOK, daemon, file
<1>19. CASE UNCHANGED vars
  BY <1>19 DEF vars, daemon, file, client, TypeOK
<1> QED BY <1>1, <1>2, <1>3, <1>4, <1>5, <1>6, <1>7, <1>8, <1>9, <1>10, <1>11,
           <1>12, <1>13, <1>14, <1>15, <1>16, <1>17, <1>18, <1>19 DEF Next, Poll

(* The variables keep their types, and the identifiers handed out fit the  *)
(* devices tracked. *)
LEMMA TypedAlways == Spec => []Typed
<1> QED BY TypedInit, TypedNext, PTL DEF Spec

(* Every variable of the daemon, the file and the client keeps its type,   *)
(* for any number of kinds, names and devices. *)
THEOREM TypeCorrect == Spec => []TypeOK
<1>1. Typed => TypeOK
  BY DEF Typed
<1> QED BY <1>1, TypedAlways, PTL

(* No identifier is ever shared, between kinds or within one. *)
THEOREM UidsDistinct == Spec => []DistinctUids
<1>1. Typed => DistinctUids
  BY DEF Typed, IdsFit, DistinctUids
<1> QED BY <1>1, TypedAlways, PTL

(* The identifiers marked as taken are those of the tracked devices, so    *)
(* unique_id_release always finds the one it is given. *)
THEOREM ReleasesKnown == Spec => []ReleaseKnowsId
<1>1. Typed => ReleaseKnowsId
  <2> SUFFICES ASSUME Typed PROVE ReleaseKnowsId
    OBVIOUS
  <2>1. /\ unique_ids \in Seq(UidEntry)
        /\ \A i \in DOMAIN unique_ids : unique_ids[i].id = i - 1
        /\ cache \in Contents
    BY DEF Typed, TypeOK, IdsFit, Listed
  <2>2. \A i \in DOMAIN unique_ids : i \in Nat
    BY <2>1
  <2>3. ASSUME NEW u \in InUse(unique_ids)
        PROVE  u \in UNION {{d.uid : d \in cache[k]} : k \in Kinds}
    <3>1. PICK i \in DOMAIN unique_ids : ~unique_ids[i].available /\ u = i - 1
      BY <2>1, <2>3 DEF InUse, AvailableAt
    <3>2. PICK k \in Kinds : \E d \in cache[k] : d.uid + 1 = i
      BY <3>1 DEF Typed, IdsFit
    <3>3. PICK d \in cache[k] : d.uid + 1 = i
      BY <3>2
    <3>4. d.uid = u
      BY <3>1, <3>3, <2>1, <2>2 DEF Contents, Entry
    <3> QED BY <3>4
  <2>4. ASSUME NEW k \in Kinds, NEW d \in cache[k]
        PROVE  d.uid \in InUse(unique_ids)
    <3>1. d.uid \in Nat
      BY <2>1 DEF Contents, Entry
    <3>2. d.uid + 1 \in DOMAIN unique_ids /\ ~unique_ids[d.uid + 1].available
      BY DEF Typed, IdsFit
    <3>3. unique_ids[d.uid + 1].id = d.uid
      BY <3>1, <3>2, <2>1
    <3> QED BY <3>2, <3>3 DEF InUse, AvailableAt
  <2>5. InUse(unique_ids) = UNION {{d.uid : d \in cache[k]} : k \in Kinds}
    BY <2>3, <2>4
  <2>6. \A i, j \in DOMAIN unique_ids :
          unique_ids[i].id = unique_ids[j].id => i = j
    BY <2>1, <2>2
  <2> QED BY <2>5, <2>6 DEF ReleaseKnowsId
<1> QED BY <1>1, TypedAlways, PTL

-----------------------------------------------------------------------------
(* Replaying the records of s on the lists S ends with the lists U: every  *)
(* record meets lists that it fits, and leaves lists in which no           *)
(* identifier is there twice.                                              *)
Replays(S, s, U) ==
  \E f \in [0 .. Len(s) -> Contents] :
    /\ f[0] = S /\ f[Len(s)] = U
    /\ \A i \in 1 .. Len(s) : /\ Fits(s[i], f[i - 1])
                             /\ f[i] = Dispatch(s[i], f[i - 1])
                             /\ UniqueUids(f[i])

LEMMA ReplaysNone ==
  ASSUME NEW S \in Contents
  PROVE  Replays(S, <<>>, S) /\ \A U : Replays(S, <<>>, U) => U = S
<1>1. Len(<<>>) = 0 /\ 0 .. 0 = {0} /\ 1 .. 0 = {}
  OBVIOUS
<1>2. Replays(S, <<>>, S)
  <2> DEFINE f == [i \in {0} |-> S]
  <2>1. f \in [{0} -> Contents] /\ f[0] = S
    OBVIOUS
  <2> QED BY <1>1, <2>1 DEF Replays
<1> QED BY <1>1, <1>2 DEF Replays

LEMMA ReplaysConcat ==
  ASSUME NEW S, NEW s \in Seq(Record), NEW U, Replays(S, s, U),
         NEW t \in Seq(Record), NEW V, Replays(U, t, V)
  PROVE  s \o t \in Seq(Record) /\ Replays(S, s \o t, V)
<1> DEFINE m == Len(s)
           n == Len(t)
<1>1. PICK f \in [0 .. m -> Contents] :
        /\ f[0] = S /\ f[m] = U
        /\ \A i \in 1 .. m : Fits(s[i], f[i - 1]) /\ UniqueUids(f[i])
                            /\ f[i] = Dispatch(s[i], f[i - 1])
  BY DEF Replays
<1>2. PICK g \in [0 .. n -> Contents] :
        /\ g[0] = U /\ g[n] = V
        /\ \A i \in 1 .. n : Fits(t[i], g[i - 1]) /\ UniqueUids(g[i])
                            /\ g[i] = Dispatch(t[i], g[i - 1])
  BY DEF Replays
<1> DEFINE u == s \o t
           h == [i \in 0 .. m + n |-> IF i <= m THEN f[i] ELSE g[i - m]]
<1>3. /\ m \in Nat /\ n \in Nat /\ u \in Seq(Record) /\ Len(u) = m + n
      /\ \A i \in 1 .. m : u[i] = s[i]
      /\ \A i \in 1 .. n : u[m + i] = t[i]
  OBVIOUS
<1> HIDE DEF u, m, n
<1>4. h \in [0 .. m + n -> Contents]
  <2> SUFFICES ASSUME NEW i \in 0 .. m + n
               PROVE  (IF i <= m THEN f[i] ELSE g[i - m]) \in Contents
    OBVIOUS
  <2>1. CASE i <= m
    BY <2>1, <1>1, <1>3
  <2>2. CASE i > m
    <3>1. i - m \in 0 .. n
      BY <2>2, <1>3
    <3> QED BY <3>1, <2>2, <1>2, <1>3
  <2> QED BY <2>1, <2>2, <1>3
<1>5. h[0] = S /\ h[m + n] = V
  <2>1. CASE n = 0
    BY <2>1, <1>1, <1>2, <1>3
  <2>2. CASE n > 0
    BY <2>2, <1>1, <1>2, <1>3
  <2> QED BY <2>1, <2>2, <1>3
<1>6. ASSUME NEW i \in 1 .. m + n
      PROVE  Fits(u[i], h[i - 1]) /\ UniqueUids(h[i])
             /\ h[i] = Dispatch(u[i], h[i - 1])
  <2>1. CASE i <= m
    <3>1. i \in 1 .. m /\ h[i] = f[i] /\ h[i - 1] = f[i - 1] /\ u[i] = s[i]
      BY <2>1, <1>3
    <3> QED BY <3>1, <1>1
  <2>2. CASE i > m
    <3> DEFINE j == i - m
    <3>1. j \in 1 .. n /\ i = m + j /\ (i - 1) - m = j - 1
      BY <2>2, <1>3
    <3>2. u[i] = t[j] /\ h[i] = g[j]
      BY <3>1, <2>2, <1>3
    <3>3. h[i - 1] = g[j - 1]
      <4>1. CASE i - 1 = m
        BY <4>1, <1>1, <1>2, <1>3
      <4>2. CASE i - 1 > m
        BY <4>2, <3>1, <1>3
      <4> QED BY <4>1, <4>2, <2>2, <1>3
    <3> QED BY <3>1, <3>2, <3>3, <1>2
  <2> QED BY <2>1, <2>2, <1>3
<1> HIDE DEF h
<1> QED BY <1>3, <1>4, <1>5, <1>6 DEF Replays, u

(* One more record. *)
LEMMA ReplaysAppend ==
  ASSUME NEW S, NEW s \in Seq(Record), NEW U \in Contents, Replays(S, s, U),
         NEW r \in Record, Fits(r, U), UniqueUids(Dispatch(r, U))
  PROVE  Append(s, r) \in Seq(Record) /\ Replays(S, Append(s, r), Dispatch(r, U))
<1> DEFINE t == <<r>>
           V == Dispatch(r, U)
           f == [i \in 0 .. 1 |-> IF i = 0 THEN U ELSE V]
<1>1. V \in Contents
  BY DispatchType
<1>2. t \in Seq(Record) /\ Len(t) = 1 /\ t[1] = r
  OBVIOUS
<1> HIDE DEF V, t
<1>3. f \in [0 .. 1 -> Contents] /\ f[0] = U /\ f[1] = V
  BY <1>1
<1> HIDE DEF f
<1>4. ASSUME NEW i \in 1 .. 1
      PROVE  Fits(t[i], f[i - 1]) /\ UniqueUids(f[i]) /\ f[i] = Dispatch(t[i], f[i - 1])
  <2>1. i = 1 /\ i - 1 = 0
    OBVIOUS
  <2> QED BY <2>1, <1>2, <1>3 DEF V
<1>5. Replays(U, t, V)
  BY <1>2, <1>3, <1>4 DEF Replays
<1>6. s \o t \in Seq(Record) /\ Replays(S, s \o t, V)
  BY <1>2, <1>5, ReplaysConcat
<1>7. Append(s, r) = s \o t
  BY DEF t
<1> QED BY <1>6, <1>7 DEF V

(* The first record, and the rest. *)
LEMMA ReplaysHead ==
  ASSUME NEW S, NEW s \in Seq(Record), s # <<>>, NEW U, Replays(S, s, U)
  PROVE  /\ Head(s) \in Record /\ Tail(s) \in Seq(Record)
         /\ Fits(Head(s), S) /\ UniqueUids(Dispatch(Head(s), S))
         /\ Replays(Dispatch(Head(s), S), Tail(s), U)
<1> DEFINE n == Len(s)
           t == Tail(s)
<1>1. PICK f \in [0 .. n -> Contents] :
        /\ f[0] = S /\ f[n] = U
        /\ \A i \in 1 .. n : Fits(s[i], f[i - 1]) /\ UniqueUids(f[i])
                            /\ f[i] = Dispatch(s[i], f[i - 1])
  BY DEF Replays
<1>2. /\ n \in Nat /\ n >= 1 /\ s[1] \in Record /\ Head(s) = s[1]
      /\ t \in Seq(Record) /\ Len(t) = n - 1
      /\ \A i \in 1 .. Len(t) : t[i] = s[i + 1]
  <2>1. n \in Nat /\ n >= 1 /\ s[1] \in Record /\ Head(s) = s[1]
    OBVIOUS
  <2>2. /\ t \in Seq(Record) /\ Len(t) = n - 1
        /\ \A i \in 1 .. Len(t) : t[i] = s[i + 1]
    BY HeadTailProperties
  <2> QED BY <2>1, <2>2
<1> HIDE DEF n, t
<1>3. Fits(s[1], S) /\ UniqueUids(f[1]) /\ f[1] = Dispatch(s[1], S)
  <2>1. 1 \in 1 .. n /\ 1 - 1 = 0
    BY <1>2
  <2> QED BY <2>1, <1>1
<1> DEFINE g == [i \in 0 .. n - 1 |-> f[i + 1]]
<1>4. g \in [0 .. n - 1 -> Contents] /\ g[0] = f[1] /\ g[n - 1] = U
  BY <1>1, <1>2
<1>5. ASSUME NEW i \in 1 .. n - 1
      PROVE  Fits(t[i], g[i - 1]) /\ UniqueUids(g[i]) /\ g[i] = Dispatch(t[i], g[i - 1])
  <2>1. /\ i + 1 \in 1 .. n /\ (i + 1) - 1 = i /\ t[i] = s[i + 1]
        /\ g[i] = f[i + 1] /\ g[i - 1] = f[i]
    BY <1>2
  <2>2. Fits(s[i + 1], f[i]) /\ UniqueUids(f[i + 1]) /\ f[i + 1] = Dispatch(s[i + 1], f[i])
    BY <2>1, <1>1
  <2> QED BY <2>1, <2>2
<1> HIDE DEF g
<1>6. Replays(f[1], t, U)
  BY <1>2, <1>4, <1>5 DEF Replays
<1> QED BY <1>2, <1>3, <1>6 DEF t

-----------------------------------------------------------------------------
NonNegativeReadings ==
  \A k \in Clamped \cap Kinds : \A s \in Samples[k] :
    \A n \in DOMAIN s : s[n] >= 0

ReportsNonNegative ==
  pc \in {"refresh", "diff"} /\ Kind \in Clamped =>
    \A n \in DOMAIN sample : sample[n] >= 0

(* Which kinds have had their first visit.  A poll that broadcasts visits  *)
(* every kind that has not, and nothing but a broadcast meets one.         *)
Visits ==
  /\ pc = "diff" => Kind \in inited
  /\ pc \in {"poll", "refresh", "diff"} /\ broadcast =>
       \A i \in 1 .. mon - 1 : Monitors[i] \in inited
  /\ ~broadcast => \A i \in 1 .. Len(Monitors) : Monitors[i] \in inited
  /\ pc = "rotated" => broadcast
  /\ pc = "down" => cache = Nothing
  /\ \A k \in Kinds :
       cache[k] # {} => \E i \in 1 .. Len(Monitors) : Monitors[i] = k

(* The list of kind k is still to be written into the new file, or into    *)
(* the broadcast that is being made. *)
Due(k) ==
  \/ pc = "rotated"
  \/ /\ pc \in {"poll", "refresh"} /\ broadcast
     /\ \E i \in mon .. Len(Monitors) : Monitors[i] = k
  \/ /\ pc = "diff" /\ broadcast
     /\ \E i \in mon + 1 .. Len(Monitors) : Monitors[i] = k

(* What the lists U, which the records up to the end of the buffer lead to, *)
(* have in common with the cache: no more than is there, and all of it for  *)
(* a kind without a try lock whose list is not due.                         *)
Tells(U) ==
  /\ Within(U, cache)
  /\ \A k \in Kinds \ inited : U[k] = {}
  /\ pc # "reopen" =>
       \A k \in Kinds \ Skippable : U[k] = cache[k] \/ (U[k] = {} /\ Due(k))
  /\ pc = "diff" /\ Kind \notin Skippable => U[Kind] = cache[Kind]

(* The records the client holds, and then those in the file, lead to U; a  *)
(* file that was emptied is read into an empty snapshot.                   *)
FileTells(U) ==
  \E T \in Contents :
    /\ Replays(snapshot, cbuf, T)
    /\ Replays(IF stale THEN Nothing ELSE T, unread, U)

StreamInv ==
  /\ UniqueUids(snapshot)
  /\ \E T \in Contents :
       /\ FileTells(T)
       /\ pc # "down" => \E U \in Contents : Replays(T, buf, U) /\ Tells(U)
  /\ pc \in {"top", "reopen", "rotated", "down"} => buf = <<>>

Streamed == Typed /\ ReportsNonNegative /\ Visits /\ StreamInv

LEMMA StreamedInit == Init => Streamed
<1> SUFFICES ASSUME Init PROVE Streamed
  OBVIOUS
<1>1. /\ pc = "top" /\ stale = FALSE /\ cache = Nothing /\ buf = <<>>
      /\ unread = <<>> /\ cbuf = <<>> /\ snapshot = Nothing
      /\ broadcast = TRUE /\ inited = {}
  BY DEF Init
<1>2. Nothing \in Contents /\ UniqueUids(Nothing) /\ Replays(Nothing, <<>>, Nothing)
      /\ \A k \in Kinds : Nothing[k] = {}
  BY NothingWithin, ReplaysNone
<1>3. FileTells(Nothing)
  BY <1>1, <1>2 DEF FileTells
<1>4. Tells(Nothing)
  BY <1>1, <1>2 DEF Tells, Within
<1>5. StreamInv
  BY <1>1, <1>2, <1>3, <1>4 DEF StreamInv
<1>6. ReportsNonNegative /\ Visits
  BY <1>1, <1>2 DEF ReportsNonNegative, Visits
<1> QED BY <1>5, <1>6, TypedInit DEF Streamed

LEMMA ReportsNext ==
  ASSUME NonNegativeReadings, Typed, ReportsNonNegative, [Next]_vars
  PROVE  ReportsNonNegative'
<1>1. CASE BeginMonitor
  <2>1. Kind \in Kinds
    BY <1>1, VisitTypes DEF BeginMonitor, Typed
  <2>2. sample' \in Samples[Kind] /\ Kind' = Kind
    BY <1>1 DEF BeginMonitor, Kind
  <2> QED BY <2>1, <2>2 DEF NonNegativeReadings, ReportsNonNegative
<1>2. CASE WriteRefresh
  BY <1>2 DEF WriteRefresh, ReportsNonNegative, Kind
<1>3. CASE FillCache \/ LogDel \/ LogAdd \/ LogMod
  BY <1>3 DEF FillCache, LogDel, LogAdd, LogMod, ReportsNonNegative, Kind
<1>4. CASE \/ RotateClose \/ RotateOpen \/ BeginPoll \/ EndMonitor \/ EndPoll
           \/ Shutdown \/ Crash \/ Restart
  BY <1>4 DEF RotateClose, RotateOpen, BeginPoll, EndMonitor, EndPoll, Shutdown,
     Crash, ProcessEnds, Restart, ReportsNonNegative
<1>5. CASE NotDue \/ LockContended
  BY <1>5 DEF NotDue, LockContended, ReportsNonNegative
<1>6. CASE ClientRead \/ ClientDispatch \/ UNCHANGED vars
  BY <1>6 DEF ClientRead, ClientDispatch, vars, daemon, ReportsNonNegative, Kind
<1> QED BY <1>1, <1>2, <1>3, <1>4, <1>5, <1>6 DEF Next, Poll

LEMMA VisitsNext ==
  ASSUME Typed, Visits, [Next]_vars
  PROVE  Visits'
<1>len. Len(Monitors) \in Nat /\ mon \in 1 .. Len(Monitors) + 1
  BY MonitorsAssumption DEF Typed, TypeOK
<1>1. CASE RotateClose \/ RotateOpen \/ BeginMonitor
  BY <1>1 DEF RotateClose, RotateOpen, BeginMonitor, Visits, Kind
<1>2. CASE BeginPoll
  BY <1>2 DEF BeginPoll, Visits
<1>3. CASE NotDue
  BY <1>3 DEF NotDue, Block, Visits
<1>4. CASE LockContended \/ EndMonitor
  <2>1. /\ Kind \in inited /\ mon' = mon + 1 /\ pc' = "poll"
        /\ pc \in {"poll", "diff"} /\ UNCHANGED <<inited, cache, broadcast>>
    BY <1>4 DEF LockContended, EndMonitor, Visits
  <2>2. \A i \in 1 .. mon' - 1 : i \in 1 .. mon - 1 \/ i = mon
    BY <2>1, <1>len
  <2> QED BY <2>1, <2>2, <1>len DEF Visits, Kind
<1>5. CASE FillCache
  <2>1. /\ \E n \in Missing : cache' = With(NewDevice(n))
        /\ mon \in 1 .. Len(Monitors) /\ Kind \in Kinds
    BY <1>5, VisitTypes DEF FillCache, Typed, TypeOK
  <2>2. \A k \in Kinds : k # Kind => cache'[k] = cache[k]
    BY <2>1 DEF With, Typed, TypeOK, Contents
  <2> QED BY <1>5, <2>1, <2>2 DEF FillCache, Visits, Kind
<1>6. CASE WriteRefresh
  BY <1>6 DEF WriteRefresh, Visits, Kind
<1>7. CASE LogDel \/ LogAdd \/ LogMod
  <2>1. /\ mon \in 1 .. Len(Monitors) /\ Kind \in Kinds /\ pc = "diff"
        /\ UNCHANGED <<pc, mon, inited, broadcast>>
    BY <1>7, VisitTypes DEF LogDel, LogAdd, LogMod, Typed, TypeOK
  <2>2. \/ \E d \in Gone : cache' = Without(d)
        \/ \E n \in Missing : cache' = With(NewDevice(n))
        \/ \E d \in Changed : cache' = Renewed(d)
    BY <1>7 DEF LogDel, LogAdd, LogMod
  <2>3. \A k \in Kinds : k # Kind => cache'[k] = cache[k]
    BY <2>2 DEF With, Without, Renewed, Typed, TypeOK, Contents
  <2> QED BY <2>1, <2>3 DEF Visits, Kind
<1>8. CASE EndPoll
  <2>1. /\ pc = "poll" /\ mon = Len(Monitors) + 1 /\ pc' = "top"
        /\ UNCHANGED <<inited, cache>>
    BY <1>8, <1>len DEF EndPoll
  <2>2. \A i \in 1 .. Len(Monitors) : Monitors[i] \in inited
    BY <2>1, <1>len DEF Visits
  <2> QED BY <2>1, <2>2 DEF Visits
<1>9. CASE Shutdown \/ Crash
  <2>1. pc' = "down" /\ cache' = Nothing /\ broadcast' = TRUE
    BY <1>9 DEF Shutdown, Crash, ProcessEnds
  <2> QED BY <2>1, NothingWithin DEF Visits
<1>10. CASE Restart
  BY <1>10 DEF Restart, Visits
<1>11. CASE ClientRead \/ ClientDispatch \/ UNCHANGED vars
  BY <1>11 DEF ClientRead, ClientDispatch, vars, daemon, Visits, Kind
<1> QED BY <1>1, <1>2, <1>3, <1>4, <1>5, <1>6, <1>7, <1>8, <1>9, <1>10, <1>11
        DEF Next, Poll

(* A visit leaves the lists of the other kinds alone: what the records     *)
(* tell then is right if it is right about its own kind. *)
LEMMA VisitTells ==
  ASSUME Kind \in Kinds, pc \in {"refresh", "diff"}, pc' = "diff", mon' = mon,
         broadcast' = broadcast, inited' = inited \cup {Kind}, mon \in Nat,
         Len(Monitors) \in Nat, NEW U, Tells(U), NEW V,
         \A k \in Kinds : k # Kind => V[k] = U[k] /\ cache'[k] = cache[k],
         V[Kind] \subseteq cache'[Kind],
         Kind \notin Skippable => V[Kind] = cache'[Kind]
  PROVE  Tells(V)'
<1>1. Kind' = Kind
  BY DEF Kind
<1>2. Within(V, cache')
  BY DEF Within, Tells
<1>3. \A k \in Kinds \ inited' : V[k] = {}
  BY DEF Tells
<1>4. \A k \in Kinds : k # Kind /\ Due(k) => Due(k)'
  BY DEF Due, Kind
<1>5. \A k \in Kinds \ Skippable : V[k] = cache'[k] \/ (V[k] = {} /\ Due(k)')
  <2> SUFFICES ASSUME NEW k \in Kinds \ Skippable
               PROVE  V[k] = cache'[k] \/ (V[k] = {} /\ Due(k)')
    OBVIOUS
  <2>1. CASE k = Kind
    BY <2>1
  <2>2. CASE k # Kind
    <3>1. U[k] = cache[k] \/ (U[k] = {} /\ Due(k))
      BY DEF Tells
    <3> QED BY <3>1, <2>2, <1>4
  <2> QED BY <2>1, <2>2
<1> QED BY <1>1, <1>2, <1>3, <1>5 DEF Tells

(* A record goes into the buffer, or none: what the follower has, holds    *)
(* and may read is as it was. *)
LEMMA BufferGrows ==
  ASSUME Streamed, UNCHANGED <<file, client>>, UniqueUids(cache'),
         pc # "down", pc' \in {"poll", "refresh", "diff"},
         NEW T \in Contents, FileTells(T),
         NEW U \in Contents, Replays(T, buf, U),
         NEW r \in Record, buf' = Append(buf, r), Fits(r, U),
         Tells(Dispatch(r, U))'
  PROVE  StreamInv'
<1> DEFINE V == Dispatch(r, U)
<1>1. V \in Contents /\ buf \in Seq(Record)
  BY DispatchType DEF Streamed, Typed, TypeOK
<1>2. UniqueUids(V)
  BY WithinUnique DEF Tells
<1>3. Replays(T, buf', V)
  BY <1>1, <1>2, ReplaysAppend
<1>4. FileTells(T)' /\ UniqueUids(snapshot')
  BY DEF FileTells, Streamed, StreamInv, file, client
<1> HIDE DEF V
<1>5. Tells(V)'
  BY DEF V
<1> QED BY <1>1, <1>3, <1>4, <1>5 DEF StreamInv

LEMMA BufferStays ==
  ASSUME Streamed, UNCHANGED <<file, client>>, buf' = buf,
         pc # "down", buf = <<>> \/ pc' \in {"poll", "refresh", "diff"},
         NEW T \in Contents, FileTells(T),
         NEW U \in Contents, Replays(T, buf, U), Tells(U)'
  PROVE  StreamInv'
<1>1. FileTells(T)' /\ UniqueUids(snapshot')
  BY DEF FileTells, Streamed, StreamInv, file, client
<1> QED BY <1>1 DEF StreamInv

(* Records reach the file, and the buffer is empty then. *)
LEMMA FileGrows ==
  ASSUME Streamed, UNCHANGED <<stale, client>>, buf' = <<>>,
         NEW T \in Contents, FileTells(T),
         NEW t \in Seq(Record), NEW U \in Contents, Replays(T, t, U),
         unread' = unread \o t, pc' # "down" => Tells(U)'
  PROVE  StreamInv'
<1>1. PICK S \in Contents :
        /\ Replays(snapshot, cbuf, S)
        /\ Replays(IF stale THEN Nothing ELSE S, unread, T)
  BY DEF FileTells
<1>2. unread \in Seq(Record)
  BY DEF Streamed, Typed, TypeOK
<1>3. Replays(IF stale THEN Nothing ELSE S, unread', U)
  BY <1>1, <1>2, ReplaysConcat
<1>4. FileTells(U)'
  BY <1>1, <1>3 DEF FileTells, client
<1>5. Replays(U, buf', U)
  BY ReplaysNone
<1>6. UniqueUids(snapshot')
  BY DEF Streamed, StreamInv, client
<1> QED BY <1>4, <1>5, <1>6 DEF StreamInv

(* The file is empty again, and says nothing of any kind. *)
LEMMA FileCut ==
  ASSUME Streamed, unread' = <<>>, stale' = TRUE, buf' = <<>>,
         UNCHANGED client, Tells(Nothing)'
  PROVE  StreamInv'
<1>1. PICK S \in Contents : Replays(snapshot, cbuf, S)
  BY DEF Streamed, StreamInv, FileTells
<1>2. Nothing \in Contents /\ Replays(Nothing, <<>>, Nothing)
  BY NothingWithin, ReplaysNone
<1>3. FileTells(Nothing)'
  BY <1>1, <1>2 DEF FileTells, client
<1>4. UniqueUids(snapshot')
  BY DEF Streamed, StreamInv, client
<1> QED BY <1>2, <1>3, <1>4 DEF StreamInv

(* What the records tell is there in every state but a daemon's that is    *)
(* not running. *)
LEMMA StreamParts ==
  ASSUME Streamed, pc # "down"
  PROVE  \E T, U \in Contents : FileTells(T) /\ Replays(T, buf, U) /\ Tells(U)
BY DEF Streamed, StreamInv

(* A record that only marks a place goes anywhere. *)
LEMMA HeaderFits ==
  ASSUME NEW U \in Contents, UniqueUids(U),
         NEW ev \in {"BROADCAST", "BLOCK_END", "EOF", "LAST_RECORD"}
  PROVE  /\ HeaderOnly(ev) \in Record /\ Fits(HeaderOnly(ev), U)
         /\ UniqueUids(Dispatch(HeaderOnly(ev), U))
<1>1. Fits(HeaderOnly(ev), U)
  BY DEF Fits, HeaderOnly
<1> QED BY <1>1, HeaderSays, LastRecordSays, NothingWithin

LEMMA AppendTwo ==
  ASSUME NEW e, NEW l PROVE Append(Append(<<>>, e), l) = <<e, l>>
<1> DEFINE S == {e, l}
<1>1. <<>> \in Seq(S) /\ <<e, l>> \in Seq(S) /\ e \in S /\ l \in S
  OBVIOUS
<1> DEFINE t == Append(<<>>, e)
           u == Append(t, l)
<1>2. t \in Seq(S) /\ Len(t) = 1 /\ t[1] = e
  BY <1>1
<1> HIDE DEF t
<1>3. u \in Seq(S) /\ Len(u) = 2 /\ u[1] = e /\ u[2] = l
  <2>1. /\ u \in Seq(S) /\ Len(u) = Len(t) + 1 /\ u[Len(t) + 1] = l
        /\ \A i \in 1 .. Len(t) : u[i] = t[i]
    BY <1>1, <1>2, AppendProperties
  <2> QED BY <2>1, <1>2
<1> HIDE DEF u
<1>4. \A i \in 1 .. Len(u) : u[i] = <<e, l>>[i]
  BY <1>3
<1>5. u = <<e, l>>
  BY <1>1, <1>3, <1>4, SeqEqual
<1> QED BY <1>5 DEF t, u

LEMMA StreamedNext ==
  ASSUME NonNegativeReadings, Streamed, [Next]_vars
  PROVE  Streamed'
<1>t. Typed /\ Typed'
  BY TypedNext DEF Streamed
<1>r. ReportsNonNegative' /\ Visits'
  BY ReportsNext, VisitsNext DEF Streamed
<1>c. /\ cache \in Contents /\ cache' \in Contents
      /\ UniqueUids(cache) /\ UniqueUids(cache')
      /\ buf \in Seq(Record) /\ unread \in Seq(Record) /\ cbuf \in Seq(Record)
      /\ snapshot \in Contents /\ mon \in Nat /\ Len(Monitors) \in Nat
  BY <1>t, IdsFitUnique, MonitorsAssumption DEF Typed, TypeOK
<1>e. <<>> \in Seq(Record) /\ Nothing \in Contents /\ \A S : Within(Nothing, S)
      /\ \A k \in Kinds : Nothing[k] = {}
  BY NothingWithin
<1>s. SUFFICES StreamInv'
  BY <1>t, <1>r DEF Streamed
<1>1. CASE RotateClose
  <2> DEFINE e == HeaderOnly("EOF")
             l == HeaderOnly("LAST_RECORD")
  <2>1. /\ pc = "top" /\ pc' = "reopen" /\ buf = <<>> /\ buf' = buf
        /\ cache' = cache /\ inited' = inited /\ UNCHANGED <<stale, client>>
        /\ unread' = unread \o <<e, l>>
    BY <1>1 DEF RotateClose, Streamed, StreamInv
  <2>2. PICK T, U \in Contents : FileTells(T) /\ Replays(T, buf, U) /\ Tells(U)
    BY <2>1, StreamParts
  <2>3. UniqueUids(U) /\ Dispatch(e, U) = U /\ Dispatch(l, U) = Nothing
    BY <2>2, <1>c, WithinUnique, HeaderSays, LastRecordSays DEF Tells
  <2>4. /\ e \in Record /\ Fits(e, U) /\ UniqueUids(Dispatch(e, U))
        /\ l \in Record /\ Fits(l, U) /\ UniqueUids(Dispatch(l, U))
    BY <2>3, HeaderFits
  <2> HIDE DEF e, l
  <2>5. Append(<<>>, e) \in Seq(Record) /\ Replays(T, Append(<<>>, e), U)
    BY <2>1, <2>2, <2>3, <2>4, <1>e, ReplaysAppend
  <2>6. /\ Append(Append(<<>>, e), l) \in Seq(Record)
        /\ Replays(T, Append(Append(<<>>, e), l), Nothing)
    BY <2>3, <2>4, <2>5, ReplaysAppend
  <2>7. Append(Append(<<>>, e), l) = <<e, l>>
    BY AppendTwo
  <2>8. Tells(Nothing)'
    BY <2>1, <1>e DEF Tells
  <2> QED BY <2>1, <2>2, <2>6, <2>7, <2>8, <1>e, FileGrows
<1>2. CASE RotateOpen
  <2>1. /\ buf' = <<>> /\ unread' = <<>> /\ stale' = TRUE /\ UNCHANGED client
        /\ pc' = "rotated"
    BY <1>2 DEF RotateOpen, Streamed, StreamInv
  <2>2. Tells(Nothing)'
    BY <2>1, <1>e DEF Tells, Due
  <2> QED BY <2>1, <2>2, FileCut
<1>3. CASE BeginPoll
  <2>1. /\ pc \in {"top", "rotated"} /\ pc' = "poll" /\ buf = <<>> /\ mon' = 1
        /\ UNCHANGED <<file, client, cache, inited, broadcast>>
        /\ buf' = IF broadcast THEN <<HeaderOnly("BROADCAST")>> ELSE <<>>
    BY <1>3 DEF BeginPoll, Streamed, StreamInv
  <2>2. PICK T, U \in Contents : FileTells(T) /\ Replays(T, buf, U) /\ Tells(U)
    BY <2>1, StreamParts
  <2>3. Tells(U)'
    <3> SUFFICES ASSUME NEW k \in Kinds \ Skippable
                 PROVE  U[k] = cache[k] \/ (U[k] = {} /\ Due(k)')
      BY <2>1, <2>2 DEF Tells
    <3>1. CASE pc = "top"
      BY <3>1, <2>2 DEF Tells, Due
    <3>2. CASE pc = "rotated"
      <4>1. U[k] = cache[k] \/ U[k] = {}
        BY <3>2, <2>2 DEF Tells
      <4>2. broadcast /\ (cache[k] # {} => \E i \in 1 .. Len(Monitors) : Monitors[i] = k)
        BY <3>2 DEF Streamed, Visits
      <4> QED BY <4>1, <4>2, <2>1 DEF Due
    <3> QED BY <3>1, <3>2, <2>1
  <2>4. CASE broadcast
    <3> DEFINE h == HeaderOnly("BROADCAST")
    <3>1. h \in Record /\ Fits(h, U) /\ Dispatch(h, U) = U
      BY <2>2, <1>c, WithinUnique, HeaderFits, HeaderSays DEF Tells
    <3>2. buf' = <<h>>
      BY <2>1, <2>4
    <3> HIDE DEF h
    <3>3. buf' = Append(buf, h)
      BY <3>2, <2>1
    <3> QED BY <2>1, <2>2, <2>3, <3>1, <3>3, <1>c, BufferGrows
  <2>5. CASE ~broadcast
    <3>1. buf' = buf
      BY <2>1, <2>5
    <3> QED BY <2>1, <2>2, <2>3, <3>1, BufferStays
  <2> QED BY <2>4, <2>5
<1>4. CASE NotDue
  <2>1. /\ pc = "poll" /\ pc' = "poll" /\ ~broadcast
        /\ UNCHANGED <<file, client, cache, inited, broadcast, buf>>
    BY <1>4 DEF NotDue, Block
  <2>2. PICK T, U \in Contents : FileTells(T) /\ Replays(T, buf, U) /\ Tells(U)
    BY <2>1, StreamParts
  <2>3. Tells(U)'
    BY <2>1, <2>2 DEF Tells, Due
  <2> QED BY <2>1, <2>2, <2>3, BufferStays
<1>5. CASE LockContended
  <2>1. /\ pc = "poll" /\ pc' = "poll" /\ Kind \in Skippable /\ mon' = mon + 1
        /\ UNCHANGED <<file, client, cache, inited, broadcast, buf>>
    BY <1>5 DEF LockContended
  <2>2. PICK T, U \in Contents : FileTells(T) /\ Replays(T, buf, U) /\ Tells(U)
    BY <2>1, StreamParts
  <2>3. \A k \in Kinds \ Skippable : Due(k) => Due(k)'
    <3>1. \A i \in mon .. Len(Monitors) : i = mon \/ i \in mon + 1 .. Len(Monitors)
      BY <1>c
    <3> QED BY <2>1, <3>1 DEF Due, Kind
  <2>4. Tells(U)'
    BY <2>1, <2>2, <2>3 DEF Tells
  <2> QED BY <2>1, <2>2, <2>4, BufferStays
<1>6. CASE BeginMonitor
  <2>1. /\ pc = "poll" /\ pc' = "refresh"
        /\ UNCHANGED <<file, client, cache, inited, broadcast, buf, mon>>
    BY <1>6 DEF BeginMonitor
  <2>2. PICK T, U \in Contents : FileTells(T) /\ Replays(T, buf, U) /\ Tells(U)
    BY <2>1, StreamParts
  <2>3. Tells(U)'
    BY <2>1, <2>2 DEF Tells, Due
  <2> QED BY <2>1, <2>2, <2>3, BufferStays
<1>7. CASE FillCache
  <2>0. /\ mon <= Len(Monitors) /\ Kind \in Kinds /\ pc = "refresh"
        /\ pc' = "refresh" /\ Kind \notin inited
        /\ UNCHANGED <<file, client, inited, broadcast, buf, mon>>
    BY <1>7, <1>t, VisitTypes DEF FillCache, Typed, TypeOK
  <2>1. PICK n \in Missing : cache' = With(NewDevice(n))
    BY <1>7 DEF FillCache
  <2>2. PICK T, U \in Contents : FileTells(T) /\ Replays(T, buf, U) /\ Tells(U)
    BY <2>0, StreamParts
  <2>3. /\ Within(cache, cache')
        /\ \A k \in Kinds : k # Kind => cache'[k] = cache[k]
    BY <2>0, <2>1, <1>c DEF With, Within, Contents
  <2>4. broadcast /\ mon \in mon .. Len(Monitors) /\ Kind' = Kind /\ U[Kind] = {}
    <3>1. mon \in 1 .. Len(Monitors)
      BY <2>0, <1>t DEF Typed, TypeOK
    <3>2. broadcast
      BY <2>0, <3>1 DEF Streamed, Visits, Kind
    <3> QED BY <2>0, <2>2, <3>1, <3>2, <1>c DEF Tells, Kind
  <2>5. Due(Kind)' /\ \A k \in Kinds : Due(k) => Due(k)'
    BY <2>0, <2>4 DEF Due, Kind
  <2>6. Tells(U)'
    <3>1. Within(U, cache')
      BY <2>2, <2>3 DEF Tells, Within
    <3>2. \A k \in Kinds \ Skippable :
            U[k] = cache'[k] \/ (U[k] = {} /\ Due(k)')
      BY <2>0, <2>2, <2>3, <2>4, <2>5 DEF Tells
    <3> QED BY <2>0, <2>2, <3>1, <3>2 DEF Tells
  <2> QED BY <2>0, <2>2, <2>6, BufferStays
<1>8. CASE WriteRefresh
  <2>0. /\ Kind \in Kinds /\ pc = "refresh" /\ pc' = "diff"
        /\ UNCHANGED <<file, client, cache, broadcast, mon>>
        /\ inited' = inited \cup {Kind}
        /\ buf' = IF broadcast /\ cache[Kind] # {}
                  THEN Append(buf, REFRESH(Kind, cache)) ELSE buf
    BY <1>8, <1>t, VisitTypes DEF WriteRefresh, Typed, TypeOK
  <2>1. PICK T, U \in Contents : FileTells(T) /\ Replays(T, buf, U) /\ Tells(U)
    BY <2>0, StreamParts
  <2>2. /\ U[Kind] \subseteq cache[Kind]
        /\ Kind \notin Skippable =>
             U[Kind] = cache[Kind] \/ (U[Kind] = {} /\ broadcast)
    BY <2>0, <2>1 DEF Tells, Within, Due
  <2>3. CASE broadcast /\ cache[Kind] # {}
    <3>r. PICK r : r = REFRESH(Kind, cache)
      OBVIOUS
    <3>v. PICK V : V = Dispatch(r, U)
      OBVIOUS
    <3>1. /\ r \in Record /\ V[Kind] \subseteq cache[Kind]
          /\ U[Kind] = {} \/ U[Kind] = cache[Kind] => V[Kind] = cache[Kind]
          /\ \A j \in Kinds : j # Kind => V[j] = U[j]
      BY <2>0, <2>1, <2>2, <3>r, <3>v, <1>c, RefreshSays
    <3>2. Fits(r, U)
      BY <3>r DEF Fits, REFRESH
    <3>3. buf' = Append(buf, r)
      BY <2>0, <2>3, <3>r
    <3>4. Tells(V)'
      BY <2>0, <2>1, <2>2, <3>1, <1>c, VisitTells
    <3> QED BY <2>0, <2>1, <3>v, <3>1, <3>2, <3>3, <3>4, <1>c, BufferGrows
  <2>4. CASE ~(broadcast /\ cache[Kind] # {})
    <3>1. buf' = buf /\ (Kind \notin Skippable => U[Kind] = cache[Kind])
      BY <2>0, <2>2, <2>4
    <3>2. Tells(U)'
      BY <2>0, <2>1, <2>2, <3>1, <1>c, VisitTells
    <3> QED BY <2>0, <2>1, <3>1, <3>2, BufferStays
  <2> QED BY <2>3, <2>4
<1>9. CASE LogDel
  <2>0. /\ mon <= Len(Monitors) /\ Kind \in Kinds /\ pc = "diff"
        /\ pc' = "diff" /\ UNCHANGED <<file, client, inited, broadcast, mon>>
    BY <1>9, <1>t, VisitTypes DEF LogDel, Typed, TypeOK
  <2>1. PICK d \in Gone : cache' = Without(d) /\ buf' = Append(buf, DEL(Kind, d.uid))
    BY <1>9 DEF LogDel
  <2>2. d \in cache[Kind] /\ inited' = inited \cup {Kind}
    BY <2>0, <1>t, VisitTypes DEF Streamed, Visits, Typed
  <2>3. PICK T, U \in Contents : FileTells(T) /\ Replays(T, buf, U) /\ Tells(U)
    BY <2>0, StreamParts
  <2>4. /\ cache'[Kind] = cache[Kind] \ {d}
        /\ \A k \in Kinds : k # Kind => cache'[k] = cache[k]
    BY <2>0, <2>1, <1>c DEF Without, Contents
  <2>5. U[Kind] \subseteq cache[Kind] /\ (Kind \notin Skippable => U[Kind] = cache[Kind])
    BY <2>0, <2>3 DEF Tells, Within
  <2>r. PICK r : r = DEL(Kind, d.uid)
    OBVIOUS
  <2>v. PICK V : V = Dispatch(r, U)
    OBVIOUS
  <2>6. /\ r \in Record /\ V[Kind] = U[Kind] \ {d}
        /\ \A k \in Kinds : k # Kind => V[k] = U[k]
    BY <2>0, <2>2, <2>3, <2>5, <2>r, <2>v, <1>c, DelSays
  <2>7. Fits(r, U)
    BY <2>2, <2>5, <2>r DEF Fits, DEL
  <2>8. Tells(V)'
    BY <2>0, <2>2, <2>3, <2>4, <2>5, <2>6, <1>c, VisitTells
  <2>9. buf' = Append(buf, r)
    BY <2>1, <2>r
  <2> QED BY <2>0, <2>3, <2>v, <2>6, <2>7, <2>8, <2>9, <1>c, BufferGrows
<1>10. CASE LogAdd
  <2>0. /\ mon <= Len(Monitors) /\ Kind \in Kinds /\ pc = "diff"
        /\ pc' = "diff" /\ UNCHANGED <<file, client, inited, broadcast, mon>>
    BY <1>10, <1>t, VisitTypes DEF LogAdd, Typed, TypeOK
  <2>1. PICK n \in Missing : /\ cache' = With(NewDevice(n))
                            /\ buf' = Append(buf, ADD(Kind, NewDevice(n)))
    BY <1>10 DEF LogAdd
  <2>d. PICK d : d = NewDevice(n)
    OBVIOUS
  <2>r. PICK r : r = ADD(Kind, d)
    OBVIOUS
  <2>2. /\ d \in Entry /\ d.name = n /\ inited' = inited \cup {Kind}
        /\ \A e \in cache[Kind] : e.name # n
    <3>1. n \in Names /\ sample[n] \in Int /\ \A e \in cache[Kind] : e.name # n
      BY <2>0, <1>t, VisitTypes DEF Typed
    <3>2. d \in Entry
      BY <3>1, <2>0, <2>d, <1>t, <1>c, AddFits DEF NewDevice, Typed
    <3>3. inited' = inited \cup {Kind}
      BY <2>0 DEF Streamed, Visits
    <3> QED BY <3>1, <3>2, <3>3, <2>d DEF NewDevice
  <2>3. PICK T, U \in Contents : FileTells(T) /\ Replays(T, buf, U) /\ Tells(U)
    BY <2>0, StreamParts
  <2>4. /\ cache'[Kind] = cache[Kind] \cup {d}
        /\ \A k \in Kinds : k # Kind => cache'[k] = cache[k]
    BY <2>0, <2>1, <2>d, <1>c DEF With, Contents
  <2>5. U[Kind] \subseteq cache[Kind] /\ (Kind \notin Skippable => U[Kind] = cache[Kind])
    BY <2>0, <2>3 DEF Tells, Within
  <2>v. PICK V : V = Dispatch(r, U)
    OBVIOUS
  <2>6. /\ r \in Record /\ V[Kind] = U[Kind] \cup {d}
        /\ \A k \in Kinds : k # Kind => V[k] = U[k]
    BY <2>0, <2>2, <2>3, <2>r, <2>v, AddSays
  <2>b. buf' = Append(buf, r)
    BY <2>1, <2>d, <2>r
  <2>7. Fits(r, U)
    BY <2>2, <2>5, <2>r DEF Fits, ADD
  <2>8. Tells(V)'
    BY <2>0, <2>2, <2>3, <2>4, <2>5, <2>6, <1>c, VisitTells
  <2> QED BY <2>0, <2>3, <2>v, <2>6, <2>7, <2>8, <2>b, <1>c, BufferGrows
<1>11. CASE LogMod
  <2>0. /\ mon <= Len(Monitors) /\ Kind \in Kinds /\ pc = "diff"
        /\ pc' = "diff" /\ UNCHANGED <<file, client, inited, broadcast, mon>>
    BY <1>11, <1>t, VisitTypes DEF LogMod, Typed, TypeOK
  <2>1. PICK d \in Changed :
          /\ cache' = Renewed(d)
          /\ buf' = Append(buf, MOD(Kind, d.uid, sample[d.name] - d.value))
    BY <1>11 DEF LogMod
  <2>2. /\ d \in cache[Kind] /\ d.name \in DOMAIN sample
        /\ sample[d.name] \in Int /\ inited' = inited \cup {Kind}
    BY <2>0, <1>t, VisitTypes DEF Typed, Streamed, Visits
  <2>3. PICK T, U \in Contents : FileTells(T) /\ Replays(T, buf, U) /\ Tells(U)
    BY <2>0, StreamParts
  <2>s. PICK v : v = sample[d.name]
    OBVIOUS
  <2>n. PICK e : e = [d EXCEPT !.value = v]
    OBVIOUS
  <2>w. PICK w : w = v - d.value
    OBVIOUS
  <2>r. PICK r : r = MOD(Kind, d.uid, w)
    OBVIOUS
  <2>V. PICK V : V = Dispatch(r, U)
    OBVIOUS
  <2>4. /\ cache'[Kind] = (cache[Kind] \ {d}) \cup {e}
        /\ \A k \in Kinds : k # Kind => cache'[k] = cache[k]
    BY <2>0, <2>1, <2>s, <2>n, <1>c DEF Renewed, Contents
  <2>5. U[Kind] \subseteq cache[Kind] /\ (Kind \notin Skippable => U[Kind] = cache[Kind])
    BY <2>0, <2>3 DEF Tells, Within
  <2>v. v \in Int /\ (Kind \in Clamped => v >= 0)
    BY <2>0, <2>2, <2>s DEF Streamed, ReportsNonNegative
  <2>b. buf' = Append(buf, r)
    BY <2>1, <2>s, <2>w, <2>r
  <2>6. /\ r \in Record
        /\ V[Kind] = IF d \in U[Kind] THEN (U[Kind] \ {d}) \cup {e} ELSE U[Kind]
        /\ \A k \in Kinds : k # Kind => V[k] = U[k]
    <3>1. d \in Entry /\ d.uid \in Nat /\ w \in Int
      BY <2>0, <2>2, <2>v, <2>w, <1>c DEF Contents, Entry
    <3>2. /\ r \in Record /\ r.event = "MOD" /\ r.kind = Kind
          /\ r.uid = d.uid /\ r.diff = w
      BY <3>1, <2>0, <2>r DEF MOD, Record, Events
    <3>3. e = Modified(r.kind, d, r.uid, r.diff)
      BY <3>1, <3>2, <2>v, <2>n, <2>w, ModifiedTo
    <3>4. /\ r.kind \in Kinds /\ d \in cache[r.kind] /\ d.uid = r.uid
          /\ U[r.kind] \subseteq cache[r.kind]
      BY <3>2, <2>0, <2>2, <2>5
    <3>5. cache \in Contents /\ UniqueUids(cache)
      BY <1>c
    <3>6. /\ V[r.kind] = IF d \in U[r.kind] THEN (U[r.kind] \ {d}) \cup {e}
                                            ELSE U[r.kind]
          /\ \A k \in Kinds : k # r.kind => V[k] = U[k]
      <4>1. r \in Record /\ r.event = "MOD"
        BY <3>2
      <4> QED BY <4>1, <3>3, <3>4, <3>5, <2>V, ModSays
    <3> QED BY <3>2, <3>6
  <2>7. Fits(r, U)
    BY <2>2, <2>5, <2>r DEF Fits, MOD
  <2>8. V[Kind] \subseteq cache'[Kind] /\ (Kind \notin Skippable => V[Kind] = cache'[Kind])
    BY <2>2, <2>4, <2>5, <2>6
  <2>9. Tells(V)'
    BY <2>0, <2>2, <2>3, <2>4, <2>6, <2>8, <1>c, VisitTells
  <2> QED BY <2>0, <2>3, <2>V, <2>6, <2>7, <2>9, <2>b, <1>c, BufferGrows
<1>12. CASE EndMonitor
  <2>1. /\ pc = "diff" /\ pc' = "poll" /\ mon' = mon + 1
        /\ UNCHANGED <<file, client, cache, inited, broadcast, buf>>
    BY <1>12 DEF EndMonitor
  <2>2. PICK T, U \in Contents : FileTells(T) /\ Replays(T, buf, U) /\ Tells(U)
    BY <2>1, StreamParts
  <2>3. Tells(U)'
    BY <2>1, <2>2 DEF Tells, Due
  <2> QED BY <2>1, <2>2, <2>3, BufferStays
<1>13. CASE EndPoll
  <2> DEFINE h == HeaderOnly("BLOCK_END")
  <2>1. /\ pc = "poll" /\ mon > Len(Monitors) /\ pc' = "top" /\ buf' = <<>>
        /\ UNCHANGED <<stale, client, cache, inited>>
        /\ unread' = unread \o (IF Block THEN Append(buf, h) ELSE buf)
    BY <1>13 DEF EndPoll
  <2>2. PICK T, U \in Contents : FileTells(T) /\ Replays(T, buf, U) /\ Tells(U)
    BY <2>1, StreamParts
  <2>3. h \in Record /\ Fits(h, U) /\ Dispatch(h, U) = U /\ UniqueUids(U)
    BY <2>2, <1>c, WithinUnique, HeaderFits, HeaderSays DEF Tells
  <2> HIDE DEF h
  <2>4. Append(buf, h) \in Seq(Record) /\ Replays(T, Append(buf, h), U)
    BY <2>2, <2>3, <1>c, ReplaysAppend
  <2>5. \A k \in Kinds : ~Due(k)
    BY <2>1, <1>c DEF Due
  <2>6. Tells(U)'
    BY <2>1, <2>2, <2>5 DEF Tells
  <2> QED BY <2>1, <2>2, <2>4, <2>6, <1>c, FileGrows
<1>14. CASE Shutdown
  <2> DEFINE l == HeaderOnly("LAST_RECORD")
  <2>1. /\ pc = "top" /\ pc' = "down" /\ buf = <<>> /\ buf' = <<>>
        /\ UNCHANGED <<stale, client>> /\ unread' = Append(unread, l)
    BY <1>14 DEF Shutdown, ProcessEnds, Streamed, StreamInv
  <2>2. PICK T, U \in Contents : FileTells(T) /\ Replays(T, buf, U) /\ Tells(U)
    BY <2>1, StreamParts
  <2>3. /\ l \in Record /\ Fits(l, U) /\ Dispatch(l, U) = Nothing
        /\ UniqueUids(Dispatch(l, U))
    BY <2>2, <1>c, WithinUnique, HeaderFits, LastRecordSays DEF Tells
  <2> HIDE DEF l
  <2>4. <<l>> \in Seq(Record) /\ <<l>> = Append(<<>>, l)
        /\ unread' = unread \o <<l>>
    BY <2>1, <2>3, <1>c
  <2>5. Replays(T, Append(<<>>, l), Nothing)
    BY <2>1, <2>2, <2>3, <1>e, ReplaysAppend
  <2> QED BY <2>1, <2>2, <2>4, <2>5, <1>e, FileGrows
<1>15. CASE Crash
  <2>1. /\ pc' = "down" /\ buf' = <<>>
        /\ UNCHANGED <<unread, stale, cbuf, snapshot>>
    BY <1>15 DEF Crash, ProcessEnds, file, client
  <2> QED BY <2>1 DEF Streamed, StreamInv, FileTells
<1>16. CASE Restart
  <2>1. /\ buf' = <<>> /\ unread' = <<>> /\ stale' = TRUE /\ UNCHANGED client
        /\ pc = "down" /\ pc' = "top" /\ cache' = cache
    BY <1>16 DEF Restart, Streamed, StreamInv
  <2>2. \A k \in Kinds : cache[k] = {}
    BY <2>1, <1>e DEF Streamed, Visits
  <2>3. Tells(Nothing)'
    BY <2>1, <2>2, <1>e DEF Tells
  <2> QED BY <2>1, <2>3, FileCut
<1>17. CASE ClientRead
  <2>1. /\ cbuf = <<>> /\ cbuf' = unread /\ unread' = <<>> /\ stale' = FALSE
        /\ snapshot' = (IF stale THEN Nothing ELSE snapshot)
        /\ UNCHANGED <<pc, mon, inited, cache, broadcast, buf>>
    BY <1>17 DEF ClientRead, SnapshotToUpdate, daemon
  <2>2. PICK T \in Contents :
          /\ FileTells(T)
          /\ pc # "down" => \E U \in Contents : Replays(T, buf, U) /\ Tells(U)
    BY DEF Streamed, StreamInv
  <2>3. PICK S \in Contents :
          /\ Replays(snapshot, cbuf, S)
          /\ Replays(IF stale THEN Nothing ELSE S, unread, T)
    BY <2>2 DEF FileTells
  <2>4. S = snapshot
    BY <2>1, <2>3, <1>c, ReplaysNone
  <2>5. Replays(snapshot', cbuf', T) /\ Replays(T, unread', T)
    BY <2>1, <2>3, <2>4, ReplaysNone
  <2>6. FileTells(T)'
    BY <2>1, <2>5 DEF FileTells
  <2>7. UniqueUids(snapshot')
    BY <2>1, NothingWithin DEF Streamed, StreamInv
  <2>8. \A U : Tells(U) => Tells(U)'
    BY <2>1 DEF Tells, Due, Kind
  <2> QED BY <2>1, <2>2, <2>6, <2>7, <2>8 DEF Streamed, StreamInv
<1>18. CASE ClientDispatch
  <2>1. /\ cbuf # <<>> /\ snapshot' = Dispatch(Head(cbuf), snapshot)
        /\ cbuf' = Tail(cbuf) /\ UNCHANGED <<unread, stale>>
        /\ UNCHANGED <<pc, mon, inited, cache, broadcast, buf>>
    BY <1>18 DEF ClientDispatch, daemon, file
  <2>2. PICK T \in Contents :
          /\ FileTells(T)
          /\ pc # "down" => \E U \in Contents : Replays(T, buf, U) /\ Tells(U)
    BY DEF Streamed, StreamInv
  <2>3. PICK S \in Contents :
          /\ Replays(snapshot, cbuf, S)
          /\ Replays(IF stale THEN Nothing ELSE S, unread, T)
    BY <2>2 DEF FileTells
  <2>4. Replays(snapshot', cbuf', S) /\ UniqueUids(snapshot')
    BY <2>1, <2>3, <1>c, ReplaysHead
  <2>5. FileTells(T)'
    BY <2>1, <2>3, <2>4 DEF FileTells
  <2>6. \A U : Tells(U) => Tells(U)'
    BY <2>1 DEF Tells, Due, Kind
  <2> QED BY <2>1, <2>2, <2>4, <2>5, <2>6 DEF Streamed, StreamInv
<1>19. CASE UNCHANGED vars
  <2>1. /\ UNCHANGED <<pc, mon, inited, cache, broadcast, buf>>
        /\ UNCHANGED <<unread, stale, cbuf, snapshot>>
    BY <1>19 DEF vars, daemon, file, client
  <2> QED BY <2>1 DEF Streamed, StreamInv, FileTells, Tells, Due, Kind
<1> QED BY <1>1, <1>2, <1>3, <1>4, <1>5, <1>6, <1>7, <1>8, <1>9, <1>10, <1>11,
           <1>12, <1>13, <1>14, <1>15, <1>16, <1>17, <1>18, <1>19 DEF Next, Poll

LEMMA StreamedAlways ==
  ASSUME NonNegativeReadings PROVE Spec => []Streamed
<1> QED BY StreamedInit, StreamedNext, PTL DEF Spec

(* The lists of a follower that has read it all are those the records tell. *)
LEMMA CaughtUpTells ==
  ASSUME Streamed, CaughtUp PROVE Tells(snapshot)
<1>1. pc = "top" /\ buf = <<>> /\ unread = <<>> /\ cbuf = <<>> /\ ~stale
  BY DEF CaughtUp, Streamed, StreamInv
<1>2. PICK T, U \in Contents : FileTells(T) /\ Replays(T, buf, U) /\ Tells(U)
  BY <1>1, StreamParts
<1>3. PICK S \in Contents :
        /\ Replays(snapshot, cbuf, S)
        /\ Replays(S, unread, T)
  BY <1>1, <1>2 DEF FileTells
<1>4. snapshot \in Contents
  BY DEF Streamed, Typed, TypeOK
<1>5. S = snapshot /\ T = S /\ U = T
  BY <1>1, <1>2, <1>3, <1>4, ReplaysNone
<1> QED BY <1>2, <1>5

(* If no clamped kind reads below zero, a follower that has caught up shows *)
(* only what the daemon tracks, whatever was rotated away, lost in a crash *)
(* or skipped, and whichever identifiers changed hands. *)
THEOREM FollowerShowsNoGhosts ==
  ASSUME NonNegativeReadings PROVE Spec => []NoGhosts
<1>1. Streamed => NoGhosts
  BY CaughtUpTells DEF NoGhosts, Tells, Within
<1> QED BY <1>1, StreamedAlways, PTL

(* Under the same assumption it shows all of it, for the kinds that are    *)
(* visited without a try lock: every file a follower may begin with has    *)
(* their lists before it has their differences.                            *)
THEOREM FollowerShowsAll ==
  ASSUME NonNegativeReadings PROVE Spec => []Complete
<1>1. Streamed => Complete
  <2> SUFFICES ASSUME Streamed, CaughtUp, NEW k \in Kinds \ Skippable
               PROVE  cache[k] \subseteq snapshot[k]
    BY DEF Complete
  <2>1. pc = "top" /\ Tells(snapshot)
    BY CaughtUpTells DEF CaughtUp
  <2>2. ~Due(k)
    BY <2>1 DEF Due
  <2> QED BY <2>1, <2>2 DEF Tells
<1> QED BY <1>1, StreamedAlways, PTL

(* Under the same assumption every record the follower comes to finds the  *)
(* device it changes or removes, unless that is of a kind with a try lock, *)
(* and none adds a device that is there.                                   *)
THEOREM RecordsAlwaysFit ==
  ASSUME NonNegativeReadings PROVE Spec => []RecordsFit
<1>1. Streamed => RecordsFit
  <2> SUFFICES ASSUME Streamed, cbuf # <<>> PROVE Fits(Head(cbuf), snapshot)
    BY DEF RecordsFit
  <2>1. PICK S \in Contents : Replays(snapshot, cbuf, S)
    BY DEF Streamed, StreamInv, FileTells
  <2>2. cbuf \in Seq(Record)
    BY DEF Streamed, Typed, TypeOK
  <2> QED BY <2>1, <2>2, ReplaysHead
<1> QED BY <1>1, StreamedAlways, PTL

(* Under the same assumption no list a follower ever shows has two devices *)
(* under one identifier. *)
THEOREM FollowerShowsEachOnce ==
  ASSUME NonNegativeReadings PROVE Spec => []OneDevicePerUid
<1>1. Streamed => OneDevicePerUid
  BY DEF Streamed, StreamInv, UniqueUids, OneDevicePerUid
<1> QED BY <1>1, StreamedAlways, PTL
=============================================================================
