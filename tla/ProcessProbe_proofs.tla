------------------------- MODULE ProcessProbe_proofs -------------------------
(* Theorems about ProcessProbe and ProcessStream, for any processes, any   *)
(* order in which they end, start and take over process ids, and any       *)
(* number of polls, files and daemons.                                     *)
EXTENDS ProcessProbe, FiniteSetTheorems, SequenceTheorems,
        WellFoundedInduction, TLAPS

-----------------------------------------------------------------------------
(* The elements of a finite set in some order, each once. *)
LEMMA SeqOfSet ==
  ASSUME NEW S, IsFiniteSet(S)
  PROVE  LET s == SetToSeq(S) IN
         /\ Cardinality(S) \in Nat /\ s \in Seq(S)
         /\ Len(s) = Cardinality(S) /\ DOMAIN s = 1 .. Cardinality(S)
         /\ \A x \in S : \E i \in DOMAIN s : s[i] = x
         /\ \A i, j \in DOMAIN s : s[i] = s[j] => i = j
<1> DEFINE n == Cardinality(S)
           s == SetToSeq(S)
<1>1. n \in Nat /\ ExistsBijection(1 .. n, S)
  BY FS_CardinalityType
<1>2. PICK f : f \in Bijection(1 .. n, S)
  BY <1>1 DEF ExistsBijection
<1>3. \E g \in [1 .. n -> S] : IsInjective(g)
  BY <1>2 DEF Bijection, Injection
<1>4. s \in [1 .. n -> S] /\ IsInjective(s)
  BY <1>3 DEF SetToSeq
<1> HIDE DEF s
<1>5. s \in Injection(1 .. n, S)
  BY <1>4 DEF Injection
<1>6. Cardinality(1 .. n) = n
  BY <1>1, FS_Interval
<1>7. s \in Surjection(1 .. n, S)
  BY <1>5, <1>6, FS_Injection
<1> HIDE DEF n
<1>8. s \in Seq(S) /\ Len(s) = n /\ DOMAIN s = 1 .. n
  BY <1>1, <1>4
<1> QED BY <1>1, <1>4, <1>7, <1>8 DEF n, s, Surjection, IsInjective

(* The numbers of a set in their order: see DelList. *)
LEMMA Ranked ==
  ASSUME NEW m \in Nat, NEW kept \in SUBSET (1 .. m)
  PROVE  LET rank(i)  == Cardinality({j \in kept : j <= i})
             place(n) == CHOOSE i \in kept : rank(i) = n IN
         /\ Cardinality(kept) \in Nat
         /\ \A n \in 1 .. Cardinality(kept) : place(n) \in kept
         /\ \A i \in kept : \E n \in 1 .. Cardinality(kept) : place(n) = i
         /\ \A j, n \in 1 .. Cardinality(kept) : place(j) = place(n) => j = n
<1> DEFINE upto(i)  == {j \in kept : j <= i}
           rank(i)  == Cardinality(upto(i))
           place(n) == CHOOSE i \in kept : rank(i) = n
           c        == Cardinality(kept)
           f        == [i \in kept |-> rank(i)]
<1>1. IsFiniteSet(kept) /\ c \in Nat
  <2>1. IsFiniteSet(1 .. m)
    BY FS_Interval
  <2> QED BY <2>1, FS_Subset, FS_CardinalityType
<1>2. ASSUME NEW i \in kept PROVE rank(i) \in 1 .. c
  <2>1. upto(i) \subseteq kept /\ upto(i) # {}
    OBVIOUS
  <2>2. IsFiniteSet(upto(i)) /\ rank(i) <= c
    BY <1>1, <2>1, FS_Subset
  <2>3. rank(i) \in Nat /\ rank(i) # 0
    BY <2>1, <2>2, FS_CardinalityType, FS_EmptySet
  <2> QED BY <1>1, <2>2, <2>3
<1>3. ASSUME NEW i \in kept, NEW j \in kept, i < j PROVE rank(i) # rank(j)
  <2>0. i \in Nat /\ j \in Nat /\ i < j /\ \A k \in kept : k \in Nat
    BY <1>3
  <2>1. /\ upto(i) \subseteq upto(j)
        /\ j \in upto(j)
        /\ j \notin upto(i)
    <3>1. \A k \in kept : k <= i => k <= j
      BY <2>0
    <3>2. j <= j /\ ~ (j <= i)
      BY <2>0
    <3> QED BY <3>1, <3>2
  <2>2. IsFiniteSet(upto(j))
    BY <1>1, FS_Subset
  <2> HIDE DEF upto
  <2> QED BY <2>1, <2>2, FS_Subset
<1> HIDE DEF rank, c
<1>4. \A i, j \in kept : rank(i) = rank(j) => i = j
  BY <1>3
<1>5. f \in Injection(kept, 1 .. c)
  BY <1>2, <1>4 DEF Injection, IsInjective
<1>6. IsFiniteSet(1 .. c) /\ Cardinality(1 .. c) = c
  BY <1>1, FS_Interval
<1>7. f \in Surjection(kept, 1 .. c)
  BY <1>5, <1>6, FS_Injection DEF c
<1>8. \A n \in 1 .. c : \E i \in kept : rank(i) = n
  BY <1>7 DEF Surjection
<1>9. \A n \in 1 .. c : place(n) \in kept /\ rank(place(n)) = n
  BY <1>8
<1>10. \A i \in kept : place(rank(i)) = i
  BY <1>2, <1>4, <1>9
<1> HIDE DEF place
<1>11. /\ c \in Nat /\ \A n \in 1 .. c : place(n) \in kept
       /\ \A i \in kept : \E n \in 1 .. c : place(n) = i
       /\ \A j, n \in 1 .. c : place(j) = place(n) => j = n
  BY <1>1, <1>2, <1>9, <1>10
<1> QED BY <1>11 DEF c, place, rank

-----------------------------------------------------------------------------
(* Lists of processes as sets, with one process an id. *)
Lists == {S \in SUBSET Process : \A p, q \in S : p.pid = q.pid => p = q}

(* The list l of a client shows the processes of S, each once. *)
Shows(l, S) ==
  /\ l \in Seq(Process)
  /\ \A p \in S : \E i \in DOMAIN l : l[i] = p
  /\ \A i \in DOMAIN l : l[i] \in S
  /\ \A i, j \in DOMAIN l : l[i].pid = l[j].pid => i = j

LEMMA ProcessFields ==
  ASSUME NEW p \in Process
  PROVE  /\ p \in [pid : Pids, start : Starts, cpu_time : 0 .. MaxTime,
                   cpu_usage : 0 .. MaxTime, was_zero : BOOLEAN, is_new : BOOLEAN]
         /\ p.pid \in Nat /\ p.start \in Nat
BY RunsAssumption DEF Process, Pids, Starts

LEMMA ListsFinite ==
  ASSUME NEW S \in Lists PROVE IsFiniteSet(S)
<1> DEFINE f == [p \in S |-> p.pid]
<1>1. IsFiniteSet(Pids)
  <2> DEFINE g == [r \in Runs |-> r[1]]
  <2>1. g \in Surjection(Runs, Pids)
    BY DEF Surjection, Pids
  <2> QED BY <2>1, RunsAssumption, FS_Surjection
<1>2. \A p \in S : p.pid \in Pids
  BY ProcessFields DEF Lists
<1>3. f \in Injection(S, Pids)
  BY <1>2 DEF Injection, IsInjective, Lists
<1> QED BY <1>1, <1>3, FS_Injection

LEMMA ShowsCounts ==
  ASSUME NEW l, NEW S, Shows(l, S)
  PROVE  Range(l) = S /\ Len(l) = Cardinality(S)
<1>1. Len(l) \in Nat /\ DOMAIN l = 1 .. Len(l) /\ l \in [1 .. Len(l) -> S]
  BY DEF Shows
<1>2. l \in Bijection(1 .. Len(l), S)
  BY <1>1 DEF Shows, Bijection, Injection, Surjection, IsInjective
<1>3. Cardinality(S) = Len(l)
  BY <1>1, <1>2, FS_CountingElements DEF ExistsBijection
<1> QED BY <1>1, <1>3 DEF Range, Shows

(* Where the process with an id is. *)
LEMMA ShowsPlace ==
  ASSUME NEW l, NEW S \in Lists, Shows(l, S), NEW i \in DOMAIN l
  PROVE  PlacesOf(l, l[i].pid) = {i} /\ FirstPlace(l, l[i].pid) = i
<1>1. PlacesOf(l, l[i].pid) = {i}
  BY DEF PlacesOf, Shows
<1>2. i \in Nat
  BY DEF Shows
<1>3. FirstPlace(l, l[i].pid) = CHOOSE k \in {i} : \A j \in {i} : k <= j
  BY <1>1 DEF FirstPlace
<1> QED BY <1>1, <1>2, <1>3
-----------------------------------------------------------------------------
(* What a record of processes does to a list of processes, as a set, when  *)
(* it is one the monitor writes.                                           *)
Message ==
  [event : {"REFRESH", "ADD", "MOD", "DEL", "BLOCK_END"},
   items : SUBSET Process, pid : Nat,
   diff : [start : Int, cpu_time : Int, cpu_usage : Int, was_zero : Int, is_new : Int]]

Refreshes(r, S, T) == r.event = "REFRESH" /\ r.items = T /\ (S = {} \/ S = T)

Adds(r, S, T) ==
  /\ r.event = "ADD"
  /\ \E p \in Process : /\ r.items = {p} /\ T = S \cup {p}
                         /\ \A q \in S : q.pid # p.pid

Modifies(r, S, T) ==
  /\ r.event = "MOD"
  /\ \E c \in S, p \in Process :
       /\ c.pid = r.pid /\ p = Modified(c, r.diff)
       /\ p.pid = c.pid /\ p.start = c.start
       /\ T = (S \ {c}) \cup {p}

Deletes(r, S, T) == r.event = "DEL" /\ T = {p \in S : p.pid # r.pid}

Does(r, S, T) ==
  /\ S \in Lists /\ T \in Lists
  /\ \/ Refreshes(r, S, T) \/ Adds(r, S, T) \/ Modifies(r, S, T) \/ Deletes(r, S, T)
     \/ (r.event = "BLOCK_END" /\ T = S)

(* A client whose list shows S and who handles the record shows T, and no  *)
(* process became another one.                                             *)
StaysItself(l, m) ==
  \A i \in DOMAIN l, j \in DOMAIN m : l[i].pid = m[j].pid => l[i].start = m[j].start

LEMMA ShownTwice ==
  ASSUME NEW l, NEW S, Shows(l, S) PROVE StaysItself(l, l)
BY DEF Shows, StaysItself

(* Two lists of the same processes. *)
LEMMA ShownAlike ==
  ASSUME NEW l, NEW S \in Lists, Shows(l, S), NEW m, NEW T, Shows(m, T),
         \A p \in T : (\A q \in S : q.pid = p.pid => q.start = p.start)
  PROVE  StaysItself(l, m)
BY DEF Shows, StaysItself, Lists

LEMMA RefreshShows ==
  ASSUME NEW l, NEW S \in Lists, Shows(l, S), NEW T \in Lists, S = {} \/ S = T
  PROVE  Shows(RefreshList(l, T), T)
<1> DEFINE place(p) == IF PlacesOf(l, p.pid) = {} THEN 0 ELSE FirstPlace(l, p.pid)
           old(i)   == {p \in T : place(p) = i}
           head     == [i \in DOMAIN l |-> IF old(i) = {} THEN l[i]
                                           ELSE CHOOSE p \in old(i) : TRUE]
           tail     == SetToSeq(old(0))
<1>1. RefreshList(l, T) = head \o tail
  BY DEF RefreshList
<1>2. l \in Seq(Process) /\ Len(l) \in Nat /\ DOMAIN l = 1 .. Len(l)
  BY DEF Shows
<1>3. CASE S = T
  <2>1. \A i \in DOMAIN l : PlacesOf(l, l[i].pid) = {i} /\ FirstPlace(l, l[i].pid) = i
    BY ShowsPlace
  <2>2. \A p \in T : \E i \in DOMAIN l : l[i] = p /\ place(p) = i
    <3> SUFFICES ASSUME NEW p \in T PROVE \E i \in DOMAIN l : l[i] = p /\ place(p) = i
      OBVIOUS
    <3>1. PICK i \in DOMAIN l : l[i] = p
      BY <1>3 DEF Shows
    <3> QED BY <2>1, <3>1
  <2> HIDE DEF place
  <2>3. ASSUME NEW i \in DOMAIN l PROVE old(i) = {l[i]}
    <3>1. l[i] \in T
      BY <1>3 DEF Shows
    <3>2. place(l[i]) = i
      BY <2>1 DEF place
    <3> QED BY <2>2, <3>1, <3>2
  <2>4. old(0) = {}
    BY <1>2, <2>2
  <2> HIDE DEF old
  <2>5. head = l
    BY <1>2, <2>3
  <2>6. tail = <<>>
    <3>1. IsFiniteSet({}) /\ Cardinality({}) = 0
      BY FS_EmptySet
    <3>2. SetToSeq({}) \in Seq({}) /\ Len(SetToSeq({})) = 0
      BY <3>1, SeqOfSet
    <3>3. SetToSeq({}) = <<>>
      BY <3>2
    <3> QED BY <2>4, <3>3
  <2> HIDE DEF head, tail
  <2>7. head \o tail = l
    BY <1>2, <2>5, <2>6
  <2> QED BY <1>1, <1>3, <2>7
<1>4. CASE S = {}
  <2>1. DOMAIN l = {}
    BY <1>4 DEF Shows
  <2>2. \A p \in T : place(p) = 0
    BY <2>1 DEF PlacesOf
  <2> HIDE DEF place
  <2>3. old(0) = T
    BY <2>2
  <2> HIDE DEF old
  <2>4. head = <<>>
    BY <2>1
  <2>5. /\ tail \in Seq(T)
        /\ \A x \in T : \E i \in DOMAIN tail : tail[i] = x
        /\ \A i, j \in DOMAIN tail : tail[i] = tail[j] => i = j
    BY <2>3, SeqOfSet, ListsFinite
  <2> HIDE DEF head, tail
  <2>6. head \o tail = tail
    BY <2>4, <2>5
  <2>7. /\ T \subseteq Process
        /\ \A p, q \in T : p.pid = q.pid => p = q
    BY DEF Lists
  <2>8. \A i \in DOMAIN tail : tail[i] \in T
    BY <2>5
  <2>9. tail \in Seq(Process)
    BY <2>5, <2>7
  <2>10. Shows(tail, T)
    BY <2>5, <2>7, <2>8, <2>9 DEF Shows
  <2> QED BY <1>1, <2>6, <2>10
<1> QED BY <1>3, <1>4

LEMMA AddShows ==
  ASSUME NEW l, NEW S \in Lists, Shows(l, S), NEW p \in Process,
         \A q \in S : q.pid # p.pid
  PROVE  Shows(l \o SetToSeq({p}), S \cup {p})
<1> DEFINE tail == SetToSeq({p})
           m    == l \o tail
<1>1. /\ l \in Seq(Process) /\ Len(l) \in Nat /\ DOMAIN l = 1 .. Len(l)
      /\ \A i \in DOMAIN l : l[i] \in S
  BY DEF Shows
<1>2. tail \in Seq({p}) /\ Len(tail) = 1
  <2>1. IsFiniteSet({p}) /\ Cardinality({p}) = 1
    BY FS_Singleton
  <2> QED BY <2>1, SeqOfSet
<1> HIDE DEF tail
<1>3. tail = <<p>>
  BY <1>2
<1>4. /\ m \in Seq(Process) /\ DOMAIN m = 1 .. Len(l) + 1
      /\ \A i \in DOMAIN l : m[i] = l[i]
      /\ m[Len(l) + 1] = p
  BY <1>1, <1>3
<1> HIDE DEF m
<1>5. \A i \in DOMAIN m : i \in DOMAIN l \/ i = Len(l) + 1
  BY <1>1, <1>4
<1>6. DOMAIN l \subseteq DOMAIN m /\ Len(l) + 1 \in DOMAIN m
  BY <1>1, <1>4
<1>7. \A q \in S \cup {p} : \E i \in DOMAIN m : m[i] = q
  BY <1>4, <1>6 DEF Shows
<1>8. \A i \in DOMAIN m : m[i] \in S \cup {p}
  BY <1>1, <1>4, <1>5
<1>9. \A i, j \in DOMAIN m : m[i].pid = m[j].pid => i = j
  BY <1>1, <1>4, <1>5 DEF Shows
<1> QED BY <1>4, <1>7, <1>8, <1>9 DEF Shows, m, tail

LEMMA ModShows ==
  ASSUME NEW l, NEW S \in Lists, Shows(l, S), NEW c \in S, NEW d,
         Modified(c, d) \in Process, Modified(c, d).pid = c.pid
  PROVE  Shows(ModList(l, c.pid, d), (S \ {c}) \cup {Modified(c, d)})
<1> DEFINE p == Modified(c, d)
<1>1. /\ l \in Seq(Process) /\ Len(l) \in Nat /\ DOMAIN l = 1 .. Len(l)
      /\ \A i \in DOMAIN l : l[i] \in S
  BY DEF Shows
<1>2. PICK k \in DOMAIN l : l[k] = c
  BY DEF Shows
<1>3. PlacesOf(l, c.pid) = {k} /\ FirstPlace(l, c.pid) = k
  BY <1>2, ShowsPlace
<1>4. ModList(l, c.pid, d) = [l EXCEPT ![k] = p]
  BY <1>2, <1>3 DEF ModList
<1> DEFINE m == [l EXCEPT ![k] = p]
<1> HIDE DEF p
<1>5. m \in Seq(Process) /\ DOMAIN m = DOMAIN l
  BY <1>1 DEF p
<1>6. m[k] = p /\ \A i \in DOMAIN l : i # k => m[i] = l[i]
  OBVIOUS
<1>7. \A i \in DOMAIN l : l[i] = c => i = k
  BY <1>2 DEF Shows
<1> HIDE DEF m
<1>8. \A q \in (S \ {c}) \cup {p} : \E i \in DOMAIN m : m[i] = q
  BY <1>2, <1>5, <1>6 DEF Shows
<1>9. \A i \in DOMAIN m : m[i] \in (S \ {c}) \cup {p}
  BY <1>1, <1>5, <1>6, <1>7
<1>10. \A i \in DOMAIN m : m[i].pid = l[i].pid
  BY <1>2, <1>5, <1>6 DEF p
<1>11. \A i, j \in DOMAIN m : m[i].pid = m[j].pid => i = j
  BY <1>5, <1>10 DEF Shows
<1> QED BY <1>4, <1>5, <1>8, <1>9, <1>11 DEF Shows, m, p

LEMMA DelShows ==
  ASSUME NEW l, NEW S \in Lists, Shows(l, S), NEW pid
  PROVE  Shows(DelList(l, pid), {p \in S : p.pid # pid})
<1> DEFINE kept     == DOMAIN l \ PlacesOf(l, pid)
           rank(i)  == Cardinality({j \in kept : j <= i})
           place(n) == CHOOSE i \in kept : rank(i) = n
           c        == Cardinality(kept)
           m        == [n \in 1 .. c |-> l[place(n)]]
           T        == {p \in S : p.pid # pid}
<1>1. DelList(l, pid) = m
  BY DEF DelList
<1>2. /\ l \in Seq(Process) /\ Len(l) \in Nat /\ DOMAIN l = 1 .. Len(l)
      /\ \A i \in DOMAIN l : l[i] \in S /\ l[i] \in Process
  BY DEF Shows
<1>3. /\ kept \in SUBSET (1 .. Len(l))
      /\ \A i \in kept : i \in DOMAIN l /\ l[i].pid # pid
      /\ \A i \in DOMAIN l : l[i].pid # pid => i \in kept
  BY <1>2 DEF PlacesOf
<1> HIDE DEF kept
<1>4. /\ c \in Nat
      /\ \A n \in 1 .. c : place(n) \in kept
      /\ \A i \in kept : \E n \in 1 .. c : place(n) = i
      /\ \A j, n \in 1 .. c : place(j) = place(n) => j = n
  BY <1>2, <1>3, Ranked
<1> HIDE DEF rank, place, c
<1>5. DOMAIN m = 1 .. c /\ \A n \in 1 .. c : m[n] = l[place(n)]
  OBVIOUS
<1>6. m \in Seq(Process)
  <2>1. m \in [1 .. c -> Process]
    BY <1>2, <1>3, <1>4
  <2> HIDE DEF m
  <2> QED BY <1>4, <2>1
<1> HIDE DEF m
<1>7. ASSUME NEW p \in T PROVE \E n \in DOMAIN m : m[n] = p
  <2>1. PICK i \in DOMAIN l : l[i] = p
    BY DEF Shows
  <2>2. i \in kept
    BY <1>3, <2>1
  <2> QED BY <1>4, <1>5, <2>1, <2>2
<1>8. \A n \in DOMAIN m : m[n] \in T
  BY <1>2, <1>3, <1>4, <1>5
<1>9. ASSUME NEW i \in DOMAIN m, NEW j \in DOMAIN m, m[i].pid = m[j].pid PROVE i = j
  <2>1. place(i) \in DOMAIN l /\ place(j) \in DOMAIN l
    BY <1>3, <1>4, <1>5
  <2>2. place(i) = place(j)
    BY <1>5, <1>9, <2>1 DEF Shows
  <2> QED BY <1>4, <1>5, <2>2
<1> HIDE DEF T
<1>10. Shows(m, T)
  BY <1>6, <1>7, <1>8, <1>9 DEF Shows
<1> QED BY <1>1, <1>10 DEF T

(* The client follows. *)
LEMMA DispatchShows ==
  ASSUME NEW r, NEW l, NEW S, NEW T, Shows(l, S), Does(r, S, T)
  PROVE  Shows(ListAfter(r, l), T) /\ StaysItself(l, ListAfter(r, l))
<1>1. S \in Lists /\ T \in Lists
  BY DEF Does
<1>2. CASE Refreshes(r, S, T)
  <2>1. ListAfter(r, l) = RefreshList(l, T)
    BY <1>2 DEF Refreshes, ListAfter
  <2>2. Shows(ListAfter(r, l), T)
    BY <1>1, <1>2, <2>1, RefreshShows DEF Refreshes
  <2>3. \A p \in T : \A q \in S : q.pid = p.pid => q.start = p.start
    BY <1>1, <1>2 DEF Refreshes, Lists
  <2> QED BY <1>1, <2>2, <2>3, ShownAlike
<1>3. CASE Adds(r, S, T)
  <2>1. PICK p \in Process :
          r.event = "ADD" /\ r.items = {p} /\ T = S \cup {p} /\ \A q \in S : q.pid # p.pid
    BY <1>3 DEF Adds
  <2>2. ListAfter(r, l) = l \o SetToSeq({p})
    BY <2>1 DEF ListAfter
  <2>3. Shows(ListAfter(r, l), T)
    BY <1>1, <2>1, <2>2, AddShows
  <2>4. \A t \in T : \A q \in S : q.pid = t.pid => q.start = t.start
    BY <1>1, <2>1 DEF Lists
  <2> QED BY <1>1, <2>3, <2>4, ShownAlike
<1>4. CASE Modifies(r, S, T)
  <2>1. PICK c \in S, p \in Process :
          /\ r.event = "MOD" /\ c.pid = r.pid /\ p = Modified(c, r.diff)
          /\ p.pid = c.pid /\ p.start = c.start /\ T = (S \ {c}) \cup {p}
    BY <1>4 DEF Modifies
  <2>2. ListAfter(r, l) = ModList(l, c.pid, r.diff)
    BY <2>1 DEF ListAfter
  <2>3. Shows(ListAfter(r, l), T)
    BY <1>1, <2>1, <2>2, ModShows
  <2>4. \A t \in T : \A q \in S : q.pid = t.pid => q.start = t.start
    BY <1>1, <2>1 DEF Lists
  <2> QED BY <1>1, <2>3, <2>4, ShownAlike
<1>5. CASE Deletes(r, S, T)
  <2>1. ListAfter(r, l) = DelList(l, r.pid)
    BY <1>5 DEF Deletes, ListAfter
  <2>2. Shows(ListAfter(r, l), T)
    BY <1>1, <1>5, <2>1, DelShows DEF Deletes
  <2>3. \A t \in T : \A q \in S : q.pid = t.pid => q.start = t.start
    BY <1>1, <1>5 DEF Deletes, Lists
  <2> QED BY <1>1, <2>2, <2>3, ShownAlike
<1>6. CASE r.event = "BLOCK_END" /\ T = S
  <2>1. ListAfter(r, l) = l
    BY <1>6 DEF ListAfter
  <2> QED BY <1>6, <2>1, ShownTwice
<1> QED BY <1>2, <1>3, <1>4, <1>5, <1>6 DEF Does

-----------------------------------------------------------------------------
(* Handling the records of s one after the other leads from S to U. *)
Leads(S, s, U) ==
  \E f \in [0 .. Len(s) -> Lists] :
    /\ f[0] = S /\ f[Len(s)] = U
    /\ \A i \in 1 .. Len(s) : Does(s[i], f[i - 1], f[i])

LEMMA LeadsNowhere ==
  ASSUME NEW S \in Lists
  PROVE  Leads(S, <<>>, S) /\ \A U : Leads(S, <<>>, U) => U = S
<1>1. Len(<<>>) = 0 /\ 0 .. 0 = {0} /\ 1 .. 0 = {}
  OBVIOUS
<1>2. Leads(S, <<>>, S)
  <2> DEFINE f == [i \in {0} |-> S]
  <2>1. f \in [{0} -> Lists] /\ f[0] = S
    OBVIOUS
  <2> QED BY <1>1, <2>1 DEF Leads
<1> QED BY <1>1, <1>2 DEF Leads

LEMMA LeadsAmong ==
  ASSUME NEW S, NEW s \in Seq(Message), NEW U, Leads(S, s, U)
  PROVE  S \in Lists /\ U \in Lists
<1>1. Len(s) \in Nat /\ 0 \in 0 .. Len(s) /\ Len(s) \in 0 .. Len(s)
  OBVIOUS
<1> QED BY <1>1 DEF Leads

LEMMA LeadsOn ==
  ASSUME NEW S, NEW s \in Seq(Message), NEW U, Leads(S, s, U),
         NEW t \in Seq(Message), NEW V, Leads(U, t, V)
  PROVE  s \o t \in Seq(Message) /\ Leads(S, s \o t, V)
<1> DEFINE m == Len(s)
           n == Len(t)
<1>1. PICK f \in [0 .. m -> Lists] :
        f[0] = S /\ f[m] = U /\ \A i \in 1 .. m : Does(s[i], f[i - 1], f[i])
  BY DEF Leads
<1>2. PICK g \in [0 .. n -> Lists] :
        g[0] = U /\ g[n] = V /\ \A i \in 1 .. n : Does(t[i], g[i - 1], g[i])
  BY DEF Leads
<1> DEFINE u == s \o t
           h == [i \in 0 .. m + n |-> IF i <= m THEN f[i] ELSE g[i - m]]
<1>3. /\ m \in Nat /\ n \in Nat /\ u \in Seq(Message) /\ Len(u) = m + n
      /\ \A i \in 1 .. m : u[i] = s[i]
      /\ \A i \in 1 .. n : u[m + i] = t[i]
  OBVIOUS
<1> HIDE DEF u, m, n
<1>4. h \in [0 .. m + n -> Lists]
  <2> SUFFICES ASSUME NEW i \in 0 .. m + n
               PROVE  (IF i <= m THEN f[i] ELSE g[i - m]) \in Lists
    OBVIOUS
  <2>1. CASE i <= m
    BY <2>1, <1>1, <1>3
  <2>2. CASE i > m
    <3>1. i - m \in 0 .. n
      BY <2>2, <1>3
    <3> QED BY <3>1, <2>2, <1>2, <1>3
  <2> QED BY <2>1, <2>2, <1>3
<1>5. h[0] = S /\ h[m + n] = V
  <2>1. CASE n = 0
    BY <2>1, <1>1, <1>2, <1>3
  <2>2. CASE n > 0
    BY <2>2, <1>1, <1>2, <1>3
  <2> QED BY <2>1, <2>2, <1>3
<1>6. ASSUME NEW i \in 1 .. m + n PROVE Does(u[i], h[i - 1], h[i])
  <2>1. CASE i <= m
    <3>1. i \in 1 .. m /\ h[i] = f[i] /\ h[i - 1] = f[i - 1] /\ u[i] = s[i]
      BY <2>1, <1>3
    <3> QED BY <3>1, <1>1
  <2>2. CASE i > m
    <3> DEFINE j == i - m
    <3>1. j \in 1 .. n /\ i = m + j /\ (i - 1) - m = j - 1
      BY <2>2, <1>3
    <3>2. u[i] = t[j] /\ h[i] = g[j]
      BY <3>1, <2>2, <1>3
    <3>3. h[i - 1] = g[j - 1]
      <4>1. CASE i - 1 = m
        BY <4>1, <1>1, <1>2, <1>3
      <4>2. CASE i - 1 > m
        BY <4>2, <3>1, <1>3
      <4> QED BY <4>1, <4>2, <2>2, <1>3
    <3> QED BY <3>1, <3>2, <3>3, <1>2
  <2> QED BY <2>1, <2>2, <1>3
<1> HIDE DEF h
<1> QED BY <1>3, <1>4, <1>5, <1>6 DEF Leads, u

(* One more record. *)
LEMMA LeadsAppend ==
  ASSUME NEW S, NEW s \in Seq(Message), NEW U, Leads(S, s, U),
         NEW r \in Message, NEW V, Does(r, U, V)
  PROVE  Append(s, r) \in Seq(Message) /\ Leads(S, Append(s, r), V)
<1> DEFINE t == <<r>>
           f == [i \in 0 .. 1 |-> IF i = 0 THEN U ELSE V]
<1>1. U \in Lists /\ V \in Lists
  BY DEF Does
<1>2. t \in Seq(Message) /\ Len(t) = 1 /\ t[1] = r
  OBVIOUS
<1>3. Append(s, r) = s \o t
  OBVIOUS
<1> HIDE DEF t
<1>4. f \in [0 .. 1 -> Lists] /\ f[0] = U /\ f[1] = V
  BY <1>1
<1> HIDE DEF f
<1>5. ASSUME NEW i \in 1 .. 1 PROVE Does(t[i], f[i - 1], f[i])
  <2>1. i = 1 /\ i - 1 = 0
    OBVIOUS
  <2> QED BY <2>1, <1>2, <1>4
<1>6. Leads(U, t, V)
  BY <1>2, <1>4, <1>5 DEF Leads
<1> QED BY <1>2, <1>3, <1>6, LeadsOn

(* The first record, and the rest. *)
LEMMA LeadsHead ==
  ASSUME NEW S, NEW s \in Seq(Message), s # <<>>, NEW U, Leads(S, s, U)
  PROVE  /\ Tail(s) \in Seq(Message)
         /\ \E V : Does(Head(s), S, V) /\ Leads(V, Tail(s), U)
<1> DEFINE n == Len(s)
           t == Tail(s)
<1>1. PICK f \in [0 .. n -> Lists] :
        f[0] = S /\ f[n] = U /\ \A i \in 1 .. n : Does(s[i], f[i - 1], f[i])
  BY DEF Leads
<1>2. /\ n \in Nat /\ n >= 1 /\ Head(s) = s[1]
      /\ t \in Seq(Message) /\ Len(t) = n - 1
      /\ \A i \in 1 .. Len(t) : t[i] = s[i + 1]
  <2>1. n \in Nat /\ n >= 1 /\ Head(s) = s[1]
    OBVIOUS
  <2>2. /\ t \in Seq(Message) /\ Len(t) = n - 1
        /\ \A i \in 1 .. Len(t) : t[i] = s[i + 1]
    BY HeadTailProperties
  <2> QED BY <2>1, <2>2
<1> HIDE DEF n, t
<1>3. Does(s[1], S, f[1])
  <2>1. 1 \in 1 .. n /\ 1 - 1 = 0
    BY <1>2
  <2> QED BY <2>1, <1>1
<1> DEFINE g == [i \in 0 .. n - 1 |-> f[i + 1]]
<1>4. g \in [0 .. n - 1 -> Lists] /\ g[0] = f[1] /\ g[n - 1] = U
  BY <1>1, <1>2
<1>5. ASSUME NEW i \in 1 .. n - 1 PROVE Does(t[i], g[i - 1], g[i])
  <2>1. /\ i + 1 \in 1 .. n /\ (i + 1) - 1 = i /\ t[i] = s[i + 1]
        /\ g[i] = f[i + 1] /\ g[i - 1] = f[i]
    BY <1>2
  <2>2. Does(s[i + 1], f[i], f[i + 1])
    BY <2>1, <1>1
  <2> QED BY <2>1, <2>2
<1> HIDE DEF g
<1>6. Leads(f[1], t, U)
  BY <1>2, <1>4, <1>5 DEF Leads
<1> QED BY <1>2, <1>3, <1>6 DEF t

-----------------------------------------------------------------------------
LEMMA PlainMessage ==
  ASSUME NEW event \in {"REFRESH", "ADD", "DEL", "BLOCK_END"},
         NEW items \in SUBSET Process, NEW pid \in Nat
  PROVE  Record(event, items, pid, NoDiff) \in Message
<1>1. NoDiff \in [start : Int, cpu_time : Int, cpu_usage : Int, was_zero : Int, is_new : Int]
  BY DEF NoDiff
<1>2. event \in {"REFRESH", "ADD", "MOD", "DEL", "BLOCK_END"}
  OBVIOUS
<1> QED BY <1>1, <1>2 DEF Record, Message

LEMMA ModMessage ==
  ASSUME NEW pid \in Nat,
         NEW d \in [start : Int, cpu_time : Int, cpu_usage : Int, was_zero : Int, is_new : Int]
  PROVE  Record("MOD", {}, pid, d) \in Message
BY DEF Record, Message

LEMMA UsageBounded ==
  ASSUME NEW p \in Process, NEW c \in Process, p.cpu_time >= c.cpu_time
  PROVE  /\ Usage(p, c) \in 0 .. MaxTime
         /\ p.cpu_time = c.cpu_time => Usage(p, c) = 0
<1> DEFINE a == p.cpu_time - c.cpu_time
           d == a \div Interval
<1>1. MaxTime \in Nat /\ Interval \in Nat \ {0}
  BY BoundsAssumption
<1>2. p.cpu_time \in 0 .. MaxTime /\ c.cpu_time \in 0 .. MaxTime
  BY ProcessFields
<1>3. a \in Nat /\ a <= MaxTime /\ (p.cpu_time = c.cpu_time => a = 0)
  BY <1>1, <1>2
<1> HIDE DEF a
<1>4. d \in Nat /\ d <= a
  <2>1. a = Interval * d + (a % Interval) /\ d \in Int /\ a % Interval \in 0 .. Interval - 1
    BY <1>1, <1>3
  <2>2. d >= 0
    BY <1>1, <1>3
  <2> HIDE DEF d
  <2>3. Interval * d >= d
    BY <1>1, <2>1, <2>2
  <2> QED BY <1>1, <1>3, <2>1, <2>2, <2>3
<1> HIDE DEF d
<1>5. d \in 0 .. MaxTime /\ (p.cpu_time = c.cpu_time => d = 0)
  BY <1>1, <1>3, <1>4
<1> QED BY <1>5 DEF Usage, d, a

LEMMA CachedIs ==
  ASSUME NEW p \in Process, NEW c \in Process, p.cpu_time >= c.cpu_time
  PROVE  /\ Cached(p, c) \in Process
         /\ Cached(p, c).pid = p.pid /\ Cached(p, c).start = p.start
         /\ Cached(p, c).cpu_time = p.cpu_time /\ Cached(p, c).is_new = p.is_new
         /\ Cached(p, c).cpu_usage = Usage(p, c)
         /\ Cached(p, c).was_zero = (Usage(p, c) = 0)
<1>1. Usage(p, c) \in 0 .. MaxTime
  BY UsageBounded
<1>2. p \in [pid : Pids, start : Starts, cpu_time : 0 .. MaxTime,
             cpu_usage : 0 .. MaxTime, was_zero : BOOLEAN, is_new : BOOLEAN]
  BY ProcessFields
<1>3. /\ Cached(p, c).pid = p.pid /\ Cached(p, c).start = p.start
      /\ Cached(p, c).cpu_time = p.cpu_time /\ Cached(p, c).is_new = p.is_new
      /\ Cached(p, c).cpu_usage = Usage(p, c)
      /\ Cached(p, c).was_zero = (Usage(p, c) = 0)
  BY <1>2 DEF Cached
<1>4. Cached(p, c) \in [pid : Pids, start : Starts, cpu_time : 0 .. MaxTime,
                        cpu_usage : 0 .. MaxTime, was_zero : BOOLEAN, is_new : BOOLEAN]
  BY <1>1, <1>2 DEF Cached
<1>5. <<p.pid, p.start>> \in Runs
  BY DEF Process
<1>6. Cached(p, c) \in Process
  BY <1>3, <1>4, <1>5 DEF Process
<1> QED BY <1>3, <1>6

(* The differences bring the process the client has to what the monitor    *)
(* has: a usage that is not sent is zero on both sides.                    *)
LEMMA ModifiedToCached ==
  ASSUME NEW p \in Process, NEW c \in Process, p.cpu_time >= c.cpu_time,
         p.pid = c.pid, p.start = c.start, c.was_zero => c.cpu_usage = 0
  PROVE  /\ Modified(c, Diff(p, c)) = Cached(p, c)
         /\ Record("MOD", {}, p.pid, Diff(p, c)) \in Message
<1> DEFINE d == Diff(p, c)
           u == Usage(p, c)
           m == Modified(c, d)
           e == Cached(p, c)
           fields == [pid : Pids, start : Starts, cpu_time : 0 .. MaxTime,
                      cpu_usage : 0 .. MaxTime, was_zero : BOOLEAN, is_new : BOOLEAN]
<1>1. /\ p \in fields /\ c \in fields
      /\ p.pid \in Nat /\ p.start \in Nat /\ c.start \in Nat
  BY ProcessFields
<1>2. u \in 0 .. MaxTime /\ (p.cpu_time = c.cpu_time => u = 0)
  BY UsageBounded
<1>3. /\ p.cpu_time \in Int /\ c.cpu_time \in Int /\ c.cpu_usage \in Int
      /\ u \in Int /\ p.is_new \in BOOLEAN /\ c.is_new \in BOOLEAN /\ c.was_zero \in BOOLEAN
  BY <1>1, <1>2, BoundsAssumption
<1>4. /\ d.start = p.start - c.start /\ d.cpu_time = p.cpu_time - c.cpu_time
      /\ d.cpu_usage = IF UsageSent(p, c) THEN u - c.cpu_usage ELSE 0
      /\ d.was_zero = Bit(u = 0) - Bit(c.was_zero)
      /\ d.is_new = Bit(p.is_new) - Bit(c.is_new)
      /\ d = [start |-> d.start, cpu_time |-> d.cpu_time, cpu_usage |-> d.cpu_usage,
              was_zero |-> d.was_zero, is_new |-> d.is_new]
  BY DEF Diff
<1> HIDE DEF d, u
<1>5. \A b \in BOOLEAN : Bit(b) \in Int /\ (Bit(b) # 0 <=> b)
  BY DEF Bit
<1>6. (u = 0) \in BOOLEAN
  OBVIOUS
<1>7. Bit(u = 0) \in Int /\ Bit(c.was_zero) \in Int /\ Bit(p.is_new) \in Int /\ Bit(c.is_new) \in Int
  BY <1>3, <1>5, <1>6
<1>8. /\ d.start \in Int /\ d.cpu_time \in Int /\ d.cpu_usage \in Int
      /\ d.was_zero \in Int /\ d.is_new \in Int
  BY <1>1, <1>3, <1>4, <1>7
<1>9. Record("MOD", {}, p.pid, d) \in Message
  <2>1. d \in [start : Int, cpu_time : Int, cpu_usage : Int, was_zero : Int, is_new : Int]
    BY <1>4, <1>8
  <2>2. p.pid \in Nat
    BY <1>1
  <2> QED BY <2>1, <2>2, ModMessage
<1>10. c.start + d.start = p.start /\ c.cpu_time + d.cpu_time = p.cpu_time
  BY <1>1, <1>3, <1>4
<1>11. c.cpu_usage + d.cpu_usage = u
  <2>1. CASE UsageSent(p, c)
    BY <1>3, <1>4, <2>1
  <2>2. CASE ~UsageSent(p, c)
    <3>1. u = 0 /\ c.cpu_usage = 0
      BY <1>2, <2>2 DEF UsageSent
    <3> QED BY <1>4, <2>2, <3>1
  <2> QED BY <2>1, <2>2
<1>12. (Bit(c.was_zero) + d.was_zero # 0) = (u = 0)
  <2>1. Bit(c.was_zero) + d.was_zero = Bit(u = 0)
    BY <1>4, <1>7
  <2> QED BY <1>5, <1>6, <2>1
<1>13. (Bit(c.is_new) + d.is_new # 0) = p.is_new
  <2>1. Bit(c.is_new) + d.is_new = Bit(p.is_new)
    BY <1>4, <1>7
  <2> QED BY <1>3, <1>5, <2>1
<1>14. /\ m.pid = c.pid /\ m.start = c.start + d.start
       /\ m.cpu_time = c.cpu_time + d.cpu_time
       /\ m.cpu_usage = c.cpu_usage + d.cpu_usage
       /\ m.was_zero = (Bit(c.was_zero) + d.was_zero # 0)
       /\ m.is_new = (Bit(c.is_new) + d.is_new # 0)
       /\ DOMAIN m = DOMAIN c
       /\ m = [k \in DOMAIN m |-> m[k]]
  BY <1>1 DEF Modified
<1>15. /\ e.pid = p.pid /\ e.start = p.start /\ e.cpu_time = p.cpu_time
       /\ e.cpu_usage = u /\ e.was_zero = (u = 0) /\ e.is_new = p.is_new
       /\ DOMAIN e = DOMAIN p
       /\ e = [k \in DOMAIN e |-> e[k]]
  BY <1>1 DEF Cached, u
<1> HIDE DEF m, e
<1>16. DOMAIN m = DOMAIN e /\ \A k \in DOMAIN e : m[k] = e[k]
  <2>1. DOMAIN c = {"pid", "start", "cpu_time", "cpu_usage", "was_zero", "is_new"}
        /\ DOMAIN p = {"pid", "start", "cpu_time", "cpu_usage", "was_zero", "is_new"}
    BY <1>1
  <2> QED BY <1>10, <1>11, <1>12, <1>13, <1>14, <1>15, <2>1
<1>17. m = e
  BY <1>14, <1>15, <1>16
<1> QED BY <1>9, <1>17 DEF d, m, e

-----------------------------------------------------------------------------
(* The processes that have gone are deleted one after the other. *)
LEMMA DelsLead ==
  ASSUME NEW S \in Lists, NEW gone \in SUBSET S, NEW s,
         s = [i \in DOMAIN SetToSeq(gone) |->
                Record("DEL", {}, SetToSeq(gone)[i].pid, NoDiff)]
  PROVE  s \in Seq(Message) /\ Leads(S, s, S \ gone)
<1> DEFINE l == SetToSeq(gone)
           n == Cardinality(gone)
           left(i) == {p \in S : \A j \in 1 .. i : p # l[j]}
           f == [i \in 0 .. n |-> left(i)]
<1>1. IsFiniteSet(gone)
  BY ListsFinite, FS_Subset
<1>2. /\ n \in Nat /\ DOMAIN l = 1 .. n
      /\ \A i \in 1 .. n : l[i] \in gone
      /\ \A x \in gone : \E i \in 1 .. n : l[i] = x
      /\ \A i, j \in 1 .. n : l[i] = l[j] => i = j
  <2>1. /\ n \in Nat /\ l \in Seq(gone) /\ DOMAIN l = 1 .. n
        /\ \A x \in gone : \E i \in DOMAIN l : l[i] = x
        /\ \A i, j \in DOMAIN l : l[i] = l[j] => i = j
    BY <1>1, SeqOfSet
  <2> HIDE DEF l, n
  <2> QED BY <2>1
<1>3. s = [i \in 1 .. n |-> Record("DEL", {}, l[i].pid, NoDiff)]
  BY <1>2
<1> HIDE DEF l, n
<1>4. \A i \in 1 .. n : l[i] \in S /\ l[i] \in Process /\ l[i].pid \in Nat
  BY <1>2, ProcessFields DEF Lists
<1>5. s \in Seq(Message) /\ Len(s) = n
  <2>1. \A i \in 1 .. n : Record("DEL", {}, l[i].pid, NoDiff) \in Message
    <3> SUFFICES ASSUME NEW i \in 1 .. n PROVE Record("DEL", {}, l[i].pid, NoDiff) \in Message
      OBVIOUS
    <3>1. l[i].pid \in Nat
      BY <1>4
    <3> QED BY <3>1, PlainMessage
  <2> QED BY <1>2, <1>3, <2>1
<1>6. \A i \in 0 .. n : left(i) \in Lists
  BY DEF Lists
<1>7. left(0) = S
  OBVIOUS
<1>8. left(n) = S \ gone
  BY <1>2
<1>9. ASSUME NEW i \in 1 .. n PROVE Does(s[i], left(i - 1), left(i))
  <2>1. s[i].event = "DEL" /\ s[i].pid = l[i].pid
    BY <1>3 DEF Record
  <2>2. \A p \in S : p # l[i] <=> p.pid # l[i].pid
    BY <1>4 DEF Lists
  <2>3. left(i) = {p \in left(i - 1) : p # l[i]}
    <3>1. \A j : j \in 1 .. i <=> (j \in 1 .. i - 1 \/ j = i)
      BY <1>2
    <3> QED BY <3>1
  <2>4. left(i) = {p \in left(i - 1) : p.pid # l[i].pid}
    BY <2>2, <2>3
  <2>5. i - 1 \in 0 .. n /\ i \in 0 .. n
    BY <1>2
  <2> HIDE DEF left
  <2>6. left(i - 1) \in Lists /\ left(i) \in Lists
    BY <1>6, <2>5
  <2> QED BY <2>1, <2>4, <2>6 DEF Does, Deletes
<1> HIDE DEF left
<1>10. f \in [0 .. n -> Lists] /\ f[0] = S /\ f[n] = S \ gone
  BY <1>2, <1>6, <1>7, <1>8
<1>11. ASSUME NEW i \in 1 .. n PROVE Does(s[i], f[i - 1], f[i])
  <2>1. i - 1 \in 0 .. n /\ i \in 0 .. n
    BY <1>2
  <2>2. f[i - 1] = left(i - 1) /\ f[i] = left(i)
    BY <2>1
  <2> QED BY <1>9, <2>2
<1> HIDE DEF f
<1> QED BY <1>5, <1>10, <1>11 DEF Leads

(* What is written of a process p of the list when the processes kept are  *)
(* those still tracked, and what takes its place.                          *)
Before(p, kept) == CHOOSE c \in kept : c.pid = p.pid

WasThere(p, kept) == \E c \in kept : c.pid = p.pid

Told(p, kept) ==
  IF WasThere(p, kept) THEN Record("MOD", {}, p.pid, Diff(p, Before(p, kept)))
  ELSE Record("ADD", {p}, p.pid, NoDiff)

NowIs(p, kept) == IF WasThere(p, kept) THEN Cached(p, Before(p, kept)) ELSE p

Compares(procs, kept) ==
  /\ procs \in Lists /\ kept \in Lists
  /\ \A c \in kept : \E p \in procs : SameProcess(p, c)
  /\ \A p \in procs, c \in kept : SameProcess(p, c) => p.cpu_time >= c.cpu_time
  /\ \A c \in kept : c.was_zero => c.cpu_usage = 0

LEMMA BeforeIs ==
  ASSUME NEW procs, NEW kept, Compares(procs, kept), NEW p \in procs, WasThere(p, kept)
  PROVE  /\ Before(p, kept) \in kept /\ Before(p, kept).pid = p.pid
         /\ Before(p, kept).start = p.start
         /\ p.cpu_time >= Before(p, kept).cpu_time
<1> DEFINE c == Before(p, kept)
<1>1. c \in kept /\ c.pid = p.pid
  BY DEF WasThere, Before
<1> HIDE DEF c
<1>2. PICK q \in procs : SameProcess(q, c)
  BY <1>1 DEF Compares
<1>3. q = p
  BY <1>1, <1>2 DEF Compares, Lists, SameProcess
<1>4. c.start = p.start /\ p.cpu_time >= c.cpu_time
  BY <1>1, <1>2, <1>3 DEF Compares, SameProcess
<1> QED BY <1>1, <1>4 DEF c

LEMMA NowIsType ==
  ASSUME NEW procs, NEW kept, Compares(procs, kept), NEW p \in procs
  PROVE  /\ p \in Process /\ NowIs(p, kept) \in Process
         /\ NowIs(p, kept).pid = p.pid /\ NowIs(p, kept).start = p.start
         /\ ~p.was_zero => (NowIs(p, kept).was_zero => NowIs(p, kept).cpu_usage = 0)
<1>1. p \in Process /\ kept \subseteq Process
  BY DEF Compares, Lists
<1>2. CASE WasThere(p, kept)
  <2> DEFINE c == Before(p, kept)
  <2>1. c \in kept /\ p.cpu_time >= c.cpu_time
    BY <1>2, BeforeIs
  <2>2. NowIs(p, kept) = Cached(p, c)
    BY <1>2 DEF NowIs
  <2> HIDE DEF c
  <2>3. c \in Process
    BY <1>1, <2>1
  <2>4. /\ Cached(p, c) \in Process
        /\ Cached(p, c).pid = p.pid /\ Cached(p, c).start = p.start
        /\ Cached(p, c).cpu_usage = Usage(p, c)
        /\ Cached(p, c).was_zero = (Usage(p, c) = 0)
    BY <1>1, <2>1, <2>3, CachedIs
  <2>5. Cached(p, c).was_zero => Cached(p, c).cpu_usage = 0
    BY <2>4
  <2> QED BY <1>1, <2>2, <2>4, <2>5
<1>3. CASE ~WasThere(p, kept)
  <2>1. NowIs(p, kept) = p
    BY <1>3 DEF NowIs
  <2> QED BY <1>1, <2>1
<1> QED BY <1>2, <1>3

(* One process of the list. *)
LEMMA ToldDoes ==
  ASSUME NEW procs, NEW kept, Compares(procs, kept), NEW p \in procs, NEW S \in Lists,
         \A q \in S : q.pid = p.pid => q \in kept,
         \A q \in kept : q.pid = p.pid => q \in S,
         NEW T \in Lists, T = {q \in S : q.pid # p.pid} \cup {NowIs(p, kept)}
  PROVE  Told(p, kept) \in Message /\ Does(Told(p, kept), S, T)
<1>1. p \in Process /\ kept \in Lists /\ kept \subseteq Process /\ p.pid \in Nat
  BY ProcessFields DEF Compares, Lists
<1>2. CASE WasThere(p, kept)
  <2> DEFINE c == Before(p, kept)
             d == Diff(p, c)
  <2>1. c \in kept /\ c.pid = p.pid /\ c.start = p.start /\ p.cpu_time >= c.cpu_time
    BY <1>2, BeforeIs
  <2>2. Told(p, kept) = Record("MOD", {}, p.pid, d) /\ NowIs(p, kept) = Cached(p, c)
    BY <1>2 DEF Told, NowIs
  <2> HIDE DEF c
  <2>3. c \in Process /\ (c.was_zero => c.cpu_usage = 0)
    BY <1>1, <2>1 DEF Compares
  <2>4. Modified(c, d) = Cached(p, c) /\ Record("MOD", {}, p.pid, d) \in Message
    BY <1>1, <2>1, <2>3, ModifiedToCached
  <2>5. Cached(p, c) \in Process /\ Cached(p, c).pid = p.pid /\ Cached(p, c).start = p.start
    BY <1>1, <2>1, <2>3, CachedIs
  <2> HIDE DEF d
  <2>6. c \in S /\ {q \in S : q.pid # p.pid} = S \ {c}
    BY <2>1 DEF Lists
  <2>7. /\ Record("MOD", {}, p.pid, d).event = "MOD"
        /\ Record("MOD", {}, p.pid, d).pid = p.pid
        /\ Record("MOD", {}, p.pid, d).diff = d
    BY DEF Record
  <2>8. Modifies(Record("MOD", {}, p.pid, d), S, T)
    <3> DEFINE r == Record("MOD", {}, p.pid, d)
               e == Cached(p, c)
    <3>1. /\ r.event = "MOD" /\ c.pid = r.pid /\ e = Modified(c, r.diff)
          /\ e.pid = c.pid /\ e.start = c.start
      BY <2>1, <2>4, <2>5, <2>7
    <3>2. T = (S \ {c}) \cup {e} /\ c \in S /\ e \in Process
      BY <2>2, <2>5, <2>6
    <3> HIDE DEF r, e
    <3>3. Modifies(r, S, T)
      BY <3>1, <3>2 DEF Modifies
    <3> QED BY <3>3 DEF r
  <2> QED BY <2>2, <2>4, <2>8 DEF Does
<1>3. CASE ~WasThere(p, kept)
  <2>1. Told(p, kept) = Record("ADD", {p}, p.pid, NoDiff) /\ NowIs(p, kept) = p
    BY <1>3 DEF Told, NowIs
  <2>2. \A q \in S : q.pid # p.pid
    BY <1>3 DEF WasThere
  <2>3. T = S \cup {p}
    BY <2>1, <2>2
  <2>4. /\ Record("ADD", {p}, p.pid, NoDiff).event = "ADD"
        /\ Record("ADD", {p}, p.pid, NoDiff).items = {p}
    BY DEF Record
  <2>5. Record("ADD", {p}, p.pid, NoDiff) \in Message
    BY <1>1, PlainMessage
  <2>6. Adds(Record("ADD", {p}, p.pid, NoDiff), S, T)
    BY <1>1, <2>2, <2>3, <2>4 DEF Adds
  <2> QED BY <2>1, <2>5, <2>6 DEF Does
<1> QED BY <1>2, <1>3

(* The processes of the list, one after the other. *)
LEMMA TellsLead ==
  ASSUME NEW procs, NEW kept, Compares(procs, kept), NEW s,
         s = [i \in DOMAIN SetToSeq(procs) |-> Told(SetToSeq(procs)[i], kept)]
  PROVE  /\ s \in Seq(Message)
         /\ Leads(kept, s, {NowIs(p, kept) : p \in procs})
<1> DEFINE l == SetToSeq(procs)
           n == Cardinality(procs)
           now(i) == {NowIs(l[j], kept) : j \in 1 .. i}
                       \cup {c \in kept : \A j \in 1 .. i : l[j].pid # c.pid}
           f == [i \in 0 .. n |-> now(i)]
<1>1. procs \in Lists /\ kept \in Lists /\ IsFiniteSet(procs)
  BY ListsFinite DEF Compares
<1>2. /\ n \in Nat /\ DOMAIN l = 1 .. n
      /\ \A i \in 1 .. n : l[i] \in procs
      /\ \A x \in procs : \E i \in 1 .. n : l[i] = x
      /\ \A i, j \in 1 .. n : l[i] = l[j] => i = j
  <2>1. /\ n \in Nat /\ l \in Seq(procs) /\ DOMAIN l = 1 .. n
        /\ \A x \in procs : \E i \in DOMAIN l : l[i] = x
        /\ \A i, j \in DOMAIN l : l[i] = l[j] => i = j
    BY <1>1, SeqOfSet
  <2> HIDE DEF l, n
  <2> QED BY <2>1
<1>3. s = [i \in 1 .. n |-> Told(l[i], kept)]
  BY <1>2
<1> HIDE DEF l, n
<1>4. \A i, j \in 1 .. n : l[i].pid = l[j].pid => i = j
  BY <1>1, <1>2 DEF Lists
<1>5. \A i \in 1 .. n : NowIs(l[i], kept) \in Process /\ NowIs(l[i], kept).pid = l[i].pid
  BY <1>2, NowIsType
<1>6. ASSUME NEW i \in 0 .. n PROVE now(i) \in Lists
  <2>1. \A j \in 1 .. i : j \in 1 .. n
    BY <1>2
  <2>2. now(i) \subseteq Process
    BY <1>1, <1>5, <2>1 DEF Lists
  <2>3. ASSUME NEW p \in now(i), NEW q \in now(i), p.pid = q.pid PROVE p = q
    <3>1. CASE p \in kept /\ q \in kept
      BY <1>1, <2>3, <3>1 DEF Lists
    <3>2. CASE \E j \in 1 .. i : p = NowIs(l[j], kept)
      <4>1. PICK j \in 1 .. i : p = NowIs(l[j], kept)
        BY <3>2
      <4>2. PICK k \in 1 .. i : q = NowIs(l[k], kept)
        BY <1>5, <2>1, <2>3, <4>1
      <4>3. j = k
        BY <1>4, <1>5, <2>1, <2>3, <4>1, <4>2
      <4> QED BY <4>1, <4>2, <4>3
    <3>3. CASE \E j \in 1 .. i : q = NowIs(l[j], kept)
      <4>1. PICK j \in 1 .. i : q = NowIs(l[j], kept)
        BY <3>3
      <4>2. PICK k \in 1 .. i : p = NowIs(l[k], kept)
        BY <1>5, <2>1, <2>3, <4>1
      <4>3. j = k
        BY <1>4, <1>5, <2>1, <2>3, <4>1, <4>2
      <4> QED BY <4>1, <4>2, <4>3
    <3> QED BY <3>1, <3>2, <3>3
  <2> HIDE DEF now
  <2> QED BY <2>2, <2>3 DEF Lists
<1>7. now(0) = kept
  OBVIOUS
<1>8. now(n) = {NowIs(p, kept) : p \in procs}
  <2>1. {NowIs(l[j], kept) : j \in 1 .. n} = {NowIs(p, kept) : p \in procs}
    BY <1>2
  <2>2. \A c \in kept : \E j \in 1 .. n : l[j].pid = c.pid
    BY <1>2 DEF Compares, SameProcess
  <2> QED BY <2>1, <2>2
<1>9. ASSUME NEW i \in 1 .. n
      PROVE  s[i] \in Message /\ Does(s[i], now(i - 1), now(i))
  <2> DEFINE p == l[i]
             S == now(i - 1)
             T == now(i)
  <2>1. i - 1 \in 0 .. n /\ i \in 0 .. n /\ p \in procs /\ s[i] = Told(p, kept)
    BY <1>2, <1>3
  <2>2. \A j : j \in 1 .. i <=> (j \in 1 .. i - 1 \/ j = i)
    BY <1>2
  <2>3. S \in Lists /\ T \in Lists
    BY <1>6, <2>1
  <2>4. \A j \in 1 .. i - 1 : j \in 1 .. n /\ j # i
    BY <1>2
  <2>5. \A j \in 1 .. i - 1 : NowIs(l[j], kept).pid # p.pid /\ l[j].pid # p.pid
    BY <1>4, <1>5, <2>4
  <2>6. \A q \in S : q.pid = p.pid => q \in kept
    BY <2>5
  <2>7. \A q \in kept : q.pid = p.pid => q \in S
    BY <2>5
  <2>8. T = {q \in S : q.pid # p.pid} \cup {NowIs(p, kept)}
    <3>1. ASSUME NEW q \in T PROVE q = NowIs(p, kept) \/ (q \in S /\ q.pid # p.pid)
      <4>1. CASE q \in kept /\ \A j \in 1 .. i : l[j].pid # q.pid
        BY <2>2, <4>1
      <4>2. CASE \E j \in 1 .. i : q = NowIs(l[j], kept)
        BY <2>2, <2>5, <4>2
      <4> QED BY <3>1, <4>1, <4>2
    <3>2. NowIs(p, kept) \in T
      BY <2>2
    <3>3. ASSUME NEW q \in S, q.pid # p.pid PROVE q \in T
      <4>1. CASE q \in kept /\ \A j \in 1 .. i - 1 : l[j].pid # q.pid
        BY <2>2, <3>3, <4>1
      <4>2. CASE \E j \in 1 .. i - 1 : q = NowIs(l[j], kept)
        BY <2>2, <4>2
      <4> QED BY <3>3, <4>1, <4>2
    <3> HIDE DEF S, T, now
    <3> QED BY <3>1, <3>2, <3>3
  <2> HIDE DEF S, T, now, p
  <2>9. Told(p, kept) \in Message /\ Does(Told(p, kept), S, T)
    BY <2>1, <2>3, <2>6, <2>7, <2>8, ToldDoes
  <2> QED BY <2>1, <2>9 DEF S, T
<1> HIDE DEF now
<1>10. s \in Seq(Message) /\ Len(s) = n
  <2>1. \A i \in 1 .. n : Told(l[i], kept) \in Message
    BY <1>3, <1>9
  <2> QED BY <1>2, <1>3, <2>1
<1>11. f \in [0 .. n -> Lists] /\ f[0] = kept /\ f[n] = {NowIs(p, kept) : p \in procs}
  BY <1>2, <1>6, <1>7, <1>8
<1>12. ASSUME NEW i \in 1 .. n PROVE Does(s[i], f[i - 1], f[i])
  <2>1. i - 1 \in 0 .. n /\ i \in 0 .. n
    BY <1>2
  <2>2. f[i - 1] = now(i - 1) /\ f[i] = now(i)
    BY <2>1
  <2> QED BY <1>9, <2>2
<1> HIDE DEF f
<1> QED BY <1>10, <1>11, <1>12 DEF Leads

-----------------------------------------------------------------------------
MonitorInv ==
  /\ cache \in Lists
  /\ \A c \in cache : c.was_zero => c.cpu_usage = 0
  /\ ~cache_exists => cache = {} /\ broadcast /\ unread = <<>>

(* Whoever reads the file from where it is gets the processes the monitor  *)
(* tracks; a file without a record gets them all at the next poll.         *)
Waiting(S) == S = {} /\ stale /\ unread = <<>> /\ broadcast

ListsInv ==
  /\ cbuf \in Seq(Message) /\ unread \in Seq(Message)
  /\ \E S, T, U :
       /\ S \in Lists /\ Shows(shown, S) /\ Leads(S, cbuf, T)
       /\ Leads(IF stale THEN {} ELSE T, unread, U)
       /\ U = cache \/ Waiting(U)

StreamInv == MonitorInv /\ ListsInv

LEMMA NoProcesses == {} \in Lists /\ Shows(<<>>, {})
BY DEF Lists, Shows

LEMMA StreamBegins == Init => StreamInv
<1> SUFFICES ASSUME Init PROVE StreamInv
  OBVIOUS
<1>1. MonitorInv
  BY NoProcesses DEF Init, MonitorInv
<1>2. cbuf = <<>> /\ unread = <<>> /\ shown = <<>> /\ cache = {} /\ stale = FALSE
  BY DEF Init
<1>3. Leads({}, <<>>, {})
  BY NoProcesses, LeadsNowhere
<1>4. <<>> \in Seq(Message)
  OBVIOUS
<1>5. Shows(shown, {}) /\ Leads({}, cbuf, {}) /\ Leads(IF stale THEN {} ELSE {}, unread, {})
  BY <1>2, <1>3, NoProcesses
<1>6. ListsInv
  BY <1>2, <1>4, <1>5, NoProcesses DEF ListsInv
<1> QED BY <1>1, <1>6 DEF StreamInv

(* What the visit of the processes writes. *)
LEMMA VisitLeads ==
  ASSUME StreamInv, NEW now \in SUBSET Reported, MayReport(now), Visit(now), NEW U,
         U = cache \/ Waiting(U), NEW S, Leads(S, unread, U)
  PROVE  /\ unread' \in Seq(Message) /\ Leads(S, unread', cache')
         /\ \A c \in cache' : c.was_zero => c.cpu_usage = 0
<1> DEFINE tracked == IF cache_exists THEN cache ELSE now
           gone    == {c \in tracked : \A p \in now : ~SameProcess(p, c)}
           kept    == tracked \ gone
           dels    == [i \in DOMAIN SetToSeq(gone) |->
                         Record("DEL", {}, SetToSeq(gone)[i].pid, NoDiff)]
           tells   == [i \in DOMAIN SetToSeq(now) |-> Told(SetToSeq(now)[i], kept)]
<1>1. /\ cache' = {NowIs(p, kept) : p \in now}
      /\ unread' = Append(unread \o processes_refresh(tracked) \o dels \o tells,
                          Record("BLOCK_END", {}, 0, NoDiff))
  BY Zenon DEF Visit, NowIs, Told, WasThere, Before
<1>2. /\ now \in Lists /\ now \subseteq Process
      /\ \A p \in now : ~p.was_zero
      /\ \A p \in now, c \in cache : SameProcess(p, c) => p.cpu_time >= c.cpu_time
  BY DEF Reported, MayReport, Lists, SameProcess
<1>3. MonitorInv /\ unread \in Seq(Message)
  BY DEF StreamInv, ListsInv
<1>4. /\ tracked \in Lists
      /\ \A c \in tracked : c.was_zero => c.cpu_usage = 0
      /\ \A p \in now, c \in tracked : SameProcess(p, c) => p.cpu_time >= c.cpu_time
  <2>1. CASE cache_exists
    BY <1>2, <1>3, <2>1 DEF MonitorInv
  <2>2. CASE ~cache_exists
    <3>1. \A p \in now : p.cpu_time >= p.cpu_time
      <4>1. \A p \in now : p.cpu_time \in 0 .. MaxTime
        BY <1>2, ProcessFields
      <4> QED BY <4>1, BoundsAssumption
    <3>2. \A p, c \in now : SameProcess(p, c) => p = c
      BY <1>2 DEF Lists, SameProcess
    <3> QED BY <1>2, <2>2, <3>1, <3>2
  <2> QED BY <2>1, <2>2
<1>5. U \in Lists /\ (U = tracked \/ (U = {} /\ broadcast))
  <2>1. U \in Lists
    BY <1>3, NoProcesses DEF MonitorInv, Waiting
  <2>2. CASE cache_exists
    BY <2>1, <2>2 DEF Waiting
  <2>3. CASE ~cache_exists
    BY <1>3, <2>1, <2>3 DEF Waiting, MonitorInv
  <2> QED BY <2>2, <2>3
<1>6. /\ gone \in SUBSET tracked /\ kept = tracked \ gone /\ kept \subseteq tracked
      /\ \A c \in kept : \E p \in now : SameProcess(p, c)
  OBVIOUS
<1> HIDE DEF tracked, gone
<1>7. kept \in Lists
  BY <1>4, <1>6 DEF Lists
<1>8. Compares(now, kept)
  BY <1>2, <1>4, <1>6, <1>7 DEF Compares
<1>9. processes_refresh(tracked) \in Seq(Message) /\ Leads(U, processes_refresh(tracked), tracked)
  <2> DEFINE r == Record("REFRESH", tracked, 0, NoDiff)
  <2>1. CASE broadcast /\ tracked # {}
    <3>1. processes_refresh(tracked) = <<r>>
      BY <2>1 DEF processes_refresh
    <3>2. r \in Message
      <4>1. tracked \in SUBSET Process /\ 0 \in Nat
        BY <1>4 DEF Lists
      <4> QED BY <4>1, PlainMessage
    <3>3. r.event = "REFRESH" /\ r.items = tracked
      BY DEF Record
    <3> HIDE DEF r
    <3>4. Does(r, U, tracked)
      BY <1>4, <1>5, <3>3 DEF Does, Refreshes
    <3>5. Leads(U, <<>>, U) /\ <<>> \in Seq(Message)
      BY <1>5, LeadsNowhere
    <3>6. Append(<<>>, r) \in Seq(Message) /\ Leads(U, Append(<<>>, r), tracked)
      BY <3>2, <3>4, <3>5, LeadsAppend
    <3>7. Append(<<>>, r) = <<r>>
      OBVIOUS
    <3> QED BY <3>1, <3>6, <3>7
  <2>2. CASE ~ (broadcast /\ tracked # {})
    <3>1. processes_refresh(tracked) = <<>> /\ U = tracked
      BY <1>5, <2>2 DEF processes_refresh
    <3>2. <<>> \in Seq(Message)
      OBVIOUS
    <3> QED BY <1>4, <3>1, <3>2, LeadsNowhere
  <2> QED BY <2>1, <2>2
<1>10. dels \in Seq(Message) /\ Leads(tracked, dels, kept)
  BY <1>4, <1>6, DelsLead
<1>11. tells \in Seq(Message) /\ Leads(kept, tells, cache')
  BY <1>1, <1>8, TellsLead
<1> DEFINE refresh == processes_refresh(tracked)
           end     == Record("BLOCK_END", {}, 0, NoDiff)
<1> HIDE DEF kept, dels, tells
<1>12. unread \o refresh \in Seq(Message) /\ Leads(S, unread \o refresh, tracked)
  BY <1>3, <1>9, LeadsOn
<1>13. /\ unread \o refresh \o dels \in Seq(Message)
       /\ Leads(S, unread \o refresh \o dels, kept)
  BY <1>10, <1>12, LeadsOn
<1>14. /\ unread \o refresh \o dels \o tells \in Seq(Message)
       /\ Leads(S, unread \o refresh \o dels \o tells, cache')
  BY <1>11, <1>13, LeadsOn
<1>15. end \in Message /\ Does(end, cache', cache')
  <2>1. cache' \in Lists
    BY <1>11, LeadsAmong
  <2>2. end.event = "BLOCK_END"
    BY DEF Record
  <2>3. end \in Message
    BY PlainMessage
  <2> QED BY <2>1, <2>2, <2>3 DEF Does
<1> HIDE DEF refresh, end
<1>16. /\ Append(unread \o refresh \o dels \o tells, end) \in Seq(Message)
       /\ Leads(S, Append(unread \o refresh \o dels \o tells, end), cache')
  BY <1>14, <1>15, LeadsAppend
<1>17. \A c \in cache' : c.was_zero => c.cpu_usage = 0
  BY <1>1, <1>2, <1>8, NowIsType
<1> QED BY <1>1, <1>16, <1>17 DEF refresh, end

LEMMA PollKeeps == StreamInv /\ Poll => StreamInv'
<1> SUFFICES ASSUME StreamInv, Poll PROVE StreamInv'
  OBVIOUS
<1>1. PICK now \in SUBSET Reported : MayReport(now) /\ Visit(now)
  BY DEF Poll
<1>2. /\ cache_exists' = TRUE /\ stale' = stale /\ cbuf' = cbuf /\ shown' = shown
  BY DEF Poll, client
<1>3. PICK S, T, U :
        /\ S \in Lists /\ Shows(shown, S) /\ Leads(S, cbuf, T)
        /\ Leads(IF stale THEN {} ELSE T, unread, U)
        /\ U = cache \/ Waiting(U)
  BY DEF StreamInv, ListsInv
<1> DEFINE F == IF stale THEN {} ELSE T
<1>4. Leads(F, unread, U)
  BY <1>3
<1> HIDE DEF F
<1>5. /\ unread' \in Seq(Message) /\ Leads(F, unread', cache')
      /\ \A c \in cache' : c.was_zero => c.cpu_usage = 0
  BY <1>1, <1>3, <1>4, VisitLeads
<1>6. MonitorInv'
  BY <1>2, <1>5, LeadsAmong DEF MonitorInv
<1>7. cbuf' \in Seq(Message)
  BY <1>2 DEF StreamInv, ListsInv
<1>8. /\ Shows(shown', S) /\ Leads(S, cbuf', T)
      /\ Leads(IF stale' THEN {} ELSE T, unread', cache')
  BY <1>2, <1>3, <1>5 DEF F
<1>9. ListsInv'
  BY <1>3, <1>5, <1>7, <1>8 DEF ListsInv
<1> QED BY <1>6, <1>9 DEF StreamInv

(* A new file is empty: the next poll fills it. *)
LEMMA NewFileKeeps ==
  ASSUME StreamInv, UNCHANGED client, unread' = <<>>, stale' = TRUE, broadcast' = TRUE,
         \/ cache' = cache /\ cache_exists' = cache_exists
         \/ cache' = {} /\ cache_exists' = FALSE
  PROVE  StreamInv'
<1>1. MonitorInv'
  BY NoProcesses DEF StreamInv, MonitorInv
<1>2. PICK S, T : S \in Lists /\ Shows(shown, S) /\ Leads(S, cbuf, T)
  BY DEF StreamInv, ListsInv
<1>3. cbuf' = cbuf /\ shown' = shown
  BY DEF client
<1>4. cbuf' \in Seq(Message) /\ unread' \in Seq(Message)
  BY <1>3 DEF StreamInv, ListsInv
<1>5. Leads({}, <<>>, {})
  BY NoProcesses, LeadsNowhere
<1>6. Leads(IF stale' THEN {} ELSE T, unread', {}) /\ Waiting({})'
  BY <1>5 DEF Waiting
<1>7. ListsInv'
  BY <1>2, <1>3, <1>4, <1>6 DEF ListsInv
<1> QED BY <1>1, <1>7 DEF StreamInv

LEMMA ReadKeeps ==
  StreamInv /\ ClientRead => StreamInv' /\ StaysItself(shown, shown')
<1> SUFFICES ASSUME StreamInv, ClientRead PROVE StreamInv' /\ StaysItself(shown, shown')
  OBVIOUS
<1>1. PICK S, T, U :
        /\ S \in Lists /\ Shows(shown, S) /\ Leads(S, cbuf, T)
        /\ Leads(IF stale THEN {} ELSE T, unread, U)
        /\ U = cache \/ Waiting(U)
  BY DEF StreamInv, ListsInv
<1>2. /\ cbuf = <<>> /\ unread # <<>> /\ cbuf' = unread /\ unread' = <<>> /\ stale' = FALSE
      /\ shown' = IF stale THEN <<>> ELSE shown
      /\ cache' = cache /\ cache_exists' = cache_exists /\ broadcast' = broadcast
  BY DEF ClientRead, daemon
<1>3. T = S
  BY <1>1, <1>2, LeadsNowhere
<1>4. U = cache /\ cache \in Lists
  BY <1>1, <1>2 DEF Waiting, StreamInv, MonitorInv
<1>5. unread \in Seq(Message) /\ <<>> \in Seq(Message)
  BY DEF StreamInv, ListsInv
<1>6. MonitorInv'
  BY <1>2 DEF StreamInv, MonitorInv
<1>7. Leads(IF stale' THEN {} ELSE cache, unread', cache)
  BY <1>2, <1>4, LeadsNowhere
<1> DEFINE F == IF stale THEN {} ELSE S
<1>8. F \in Lists /\ Shows(shown', F) /\ Leads(F, cbuf', cache)
  BY <1>1, <1>2, <1>3, <1>4, NoProcesses
<1> HIDE DEF F
<1>9. ListsInv'
  BY <1>2, <1>5, <1>7, <1>8 DEF ListsInv
<1>10. StaysItself(shown, shown')
  <2>1. CASE stale
    BY <1>2, <2>1 DEF StaysItself
  <2>2. CASE ~stale
    BY <1>1, <1>2, <2>2, ShownTwice
  <2> QED BY <2>1, <2>2
<1> QED BY <1>6, <1>9, <1>10 DEF StreamInv

LEMMA DispatchKeeps ==
  StreamInv /\ ClientDispatch => StreamInv' /\ StaysItself(shown, shown')
<1> SUFFICES ASSUME StreamInv, ClientDispatch PROVE StreamInv' /\ StaysItself(shown, shown')
  OBVIOUS
<1>1. PICK S, T, U :
        /\ S \in Lists /\ Shows(shown, S) /\ Leads(S, cbuf, T)
        /\ Leads(IF stale THEN {} ELSE T, unread, U)
        /\ U = cache \/ Waiting(U)
  BY DEF StreamInv, ListsInv
<1>2. /\ cbuf # <<>> /\ cbuf' = Tail(cbuf) /\ shown' = ListAfter(Head(cbuf), shown)
      /\ cache' = cache /\ cache_exists' = cache_exists /\ broadcast' = broadcast
      /\ unread' = unread /\ stale' = stale
  BY DEF ClientDispatch, daemon, file
<1>3. cbuf \in Seq(Message) /\ unread \in Seq(Message)
  BY DEF StreamInv, ListsInv
<1>4. PICK V : Does(Head(cbuf), S, V) /\ Leads(V, Tail(cbuf), T)
  BY <1>1, <1>2, <1>3, LeadsHead
<1>5. cbuf' \in Seq(Message) /\ unread' \in Seq(Message)
  BY <1>1, <1>2, <1>3, LeadsHead
<1>6. V \in Lists
  BY <1>4 DEF Does
<1>7. Shows(shown', V) /\ StaysItself(shown, shown')
  BY <1>1, <1>2, <1>4, DispatchShows
<1>8. MonitorInv'
  BY <1>2 DEF StreamInv, MonitorInv
<1>9. Leads(V, cbuf', T) /\ Leads(IF stale' THEN {} ELSE T, unread', U)
  BY <1>1, <1>2, <1>4
<1>10. U = cache' \/ Waiting(U)'
  BY <1>1, <1>2 DEF Waiting
<1>11. ListsInv'
  BY <1>5, <1>6, <1>7, <1>9, <1>10 DEF ListsInv
<1> QED BY <1>7, <1>8, <1>11 DEF StreamInv

LEMMA StreamNextKeeps ==
  StreamInv /\ [Next]_vars => StreamInv' /\ StaysItself(shown, shown')
<1>1. ASSUME StreamInv PROVE StaysItself(shown, shown)
  BY <1>1, ShownTwice DEF StreamInv, ListsInv
<1>2. CASE StreamInv /\ Poll
  BY <1>1, <1>2, PollKeeps DEF Poll, client
<1>3. CASE StreamInv /\ (Rotate \/ Restart)
  BY <1>1, <1>3, NewFileKeeps DEF Rotate, Restart, client
<1>4. CASE StreamInv /\ UNCHANGED vars
  <2>1. UNCHANGED <<cache_exists, cache, broadcast, unread, stale, cbuf, shown>>
    BY <1>4 DEF vars, daemon, file, client
  <2>2. MonitorInv'
    BY <1>4, <2>1 DEF StreamInv, MonitorInv
  <2>3. ListsInv'
    BY <1>4, <2>1 DEF StreamInv, ListsInv, Waiting
  <2> QED BY <1>1, <1>4, <2>1, <2>2, <2>3 DEF StreamInv
<1> QED BY <1>2, <1>3, <1>4, ReadKeeps, DispatchKeeps DEF Next

LEMMA StreamKept == Spec => []StreamInv
BY StreamBegins, StreamNextKeeps, PTL DEF Spec

(* A follower that has caught up shows the processes of the monitor, each  *)
(* once: through process ids given out again, processes that go quiet,     *)
(* broadcasts, new files and new daemons.                                  *)
THEOREM FollowerShowsProcesses == Spec => []SameProcesses
<1>1. StreamInv => SameProcesses
  <2> SUFFICES ASSUME StreamInv, ~stale, unread = <<>>, cbuf = <<>>
               PROVE  Range(shown) = cache /\ Len(shown) = Cardinality(cache)
    BY DEF SameProcesses
  <2>1. PICK S, T, U :
          /\ S \in Lists /\ Shows(shown, S) /\ Leads(S, cbuf, T)
          /\ Leads(IF stale THEN {} ELSE T, unread, U)
          /\ U = cache \/ Waiting(U)
    BY DEF StreamInv, ListsInv
  <2>2. T = S
    BY <2>1, LeadsNowhere
  <2>3. U = S
    BY <2>1, <2>2, LeadsNowhere
  <2>4. S = cache
    BY <2>1, <2>3 DEF Waiting
  <2> QED BY <2>1, <2>4, ShowsCounts
<1> QED BY <1>1, StreamKept, PTL

(* A process a client shows never turns into another one with its id. *)
THEOREM NoneBecomesAnother == Spec => NeverBecomesAnother
<1>1. StreamInv /\ [Next]_vars =>
        [\A i \in DOMAIN shown, j \in DOMAIN shown' :
           shown[i].pid = shown'[j].pid => shown[i].start = shown'[j].start]_vars
  BY StreamNextKeeps DEF StaysItself
<1> QED BY <1>1, StreamKept, PTL DEF Spec, NeverBecomesAnother

(* The variables keep their types, whatever the readings are. *)
THEOREM StreamTyped == Spec => []TypeOK
<1> DEFINE Flags == cache_exists \in BOOLEAN /\ broadcast \in BOOLEAN /\ stale \in BOOLEAN
<1>1. StreamInv /\ Flags => TypeOK
  <2> SUFFICES ASSUME StreamInv, Flags PROVE TypeOK
    OBVIOUS
  <2>1. cache \in SUBSET Process
    BY DEF StreamInv, MonitorInv, Lists
  <2>2. \A s \in Seq(Message) : \A r \in Range(s) : r.items \in SUBSET Process
    <3>1. \A r \in Message : r.items \in SUBSET Process
      BY DEF Message
    <3>2. ASSUME NEW s \in Seq(Message), NEW r \in Range(s) PROVE r \in Message
      BY DEF Range
    <3> QED BY <3>1, <3>2
  <2>3. shown \in Seq(Process)
    BY DEF StreamInv, ListsInv, Shows
  <2>4. \A r \in Range(unread) \cup Range(cbuf) : r.items \in SUBSET Process
    BY <2>2 DEF StreamInv, ListsInv
  <2> QED BY <2>1, <2>3, <2>4 DEF TypeOK
<1>2. Init => Flags
  BY DEF Init
<1>3. Flags /\ [Next]_vars => Flags'
  BY DEF Next, vars, daemon, file, client, Poll, Rotate, Restart, ClientRead, ClientDispatch
<1> QED BY <1>1, <1>2, <1>3, StreamKept, PTL DEF Spec

-----------------------------------------------------------------------------
(* What the reading of /proc keeps.  A process lives once and has its id   *)
(* alone.                                                                  *)
SystemInv ==
  /\ alive \subseteq Runs /\ ended \subseteq Runs /\ alive \cap ended = {}
  /\ \A q, r \in alive : q[1] = r[1] => q = r

RunOf(p) == <<p.pid, p.start>>

Said == part.said[1]

(* As long as the process that answered for the stat file lives, it has    *)
(* answered for the other files too.                                       *)
PartInv ==
  /\ part.pid \notin names /\ \A p \in list : p.pid # part.pid
  /\ part.said \in Seq(Runs \cup {None}) /\ Len(part.said) \in 1 .. 4
  /\ Said \in alive \cup ended /\ Said[1] = part.pid
  /\ Said \in alive => \A i \in DOMAIN part.said : part.said[i] = Said

ListInv ==
  /\ list \subseteq Reported /\ MayReport(list)
  /\ \A p \in list :
       /\ p.pid \notin names /\ RunOf(p) \in alive \cup ended
       /\ p.pid \in mixed => RunOf(p) \notin alive
  /\ \A pid \in mixed : \E p \in list : p.pid = pid

LastingInv ==
  \A r \in lasting :
    /\ r \in alive
    /\ r[1] \in names \/ (part # NoPart /\ Said = r) \/ \E p \in list : RunOf(p) = r

ReadInv ==
  /\ names \subseteq Nat /\ Len(unread) + Len(cbuf) <= MaxUnread
  /\ ListInv /\ LastingInv
  /\ part # NoPart => PartInv

ProbeInv ==
  /\ SystemInv
  /\ ~probing => mixed = {} /\ part = NoPart
  /\ probing => ReadInv

-----------------------------------------------------------------------------
(* No process is the answer of a file that is not there. *)
LEMMA NoneIsNoRun == None \notin Runs
<1>1. \A r \in Nat \X Nat : r # <<>>
  OBVIOUS
<1> QED BY <1>1, RunsAssumption DEF None

(* Who lives has its process id. *)
LEMMA HolderIs ==
  ASSUME SystemInv, NEW pid
  PROVE  /\ Holder(pid) = None \/ (Holder(pid) \in alive /\ Holder(pid)[1] = pid)
         /\ \A r \in alive : r[1] = pid => Holder(pid) = r
<1> DEFINE has == {r \in alive : r[1] = pid}
<1>1. CASE has = {}
  BY <1>1 DEF Holder
<1>2. CASE has # {}
  <2>1. Holder(pid) = CHOOSE r \in has : TRUE
    BY <1>2 DEF Holder
  <2>2. Holder(pid) \in has
    BY <1>2, <2>1
  <2> QED BY <2>2 DEF SystemInv
<1> QED BY <1>1, <1>2

LEMMA FirstIsOne ==
  ASSUME NEW S \in SUBSET Nat, S # {} PROVE FirstOf(S) \in S
<1>1. PICK x \in S : \A y \in S : ~ (<<y, x>> \in OpToRel(<, Nat))
  BY WFMin, NatLessThanWellFounded, Zenon
<1>2. \A y \in S : ~ (y < x)
  <2>1. SUFFICES ASSUME NEW y \in S, y < x PROVE <<y, x>> \in OpToRel(<, Nat)
    BY <1>1, Zenon
  <2>2. <<y, x>> \in Nat \X Nat /\ <<y, x>>[1] = y /\ <<y, x>>[2] = x
    OBVIOUS
  <2>3. <<y, x>>[1] < <<y, x>>[2]
    BY <2>1, <2>2
  <2> QED BY <2>2, <2>3, Zenon DEF OpToRel
<1>3. \A y \in S : x <= y
  BY <1>2
<1> QED BY <1>3 DEF FirstOf

(* The stat file is read first. *)
LEMMA StatFirst ==
  /\ Len(Reads) = 4 /\ DOMAIN Reads = 1 .. 4 /\ PlaceOf("stat") = 1
  /\ \A i \in 1 .. 4 : Reads[i] = "stat" <=> i = 1
  /\ Reads[2] = "uid" /\ Reads[3] = "memory" /\ Reads[4] = "command"
<1>1. /\ Len(Reads) = 4 /\ DOMAIN Reads = 1 .. 4
      /\ Reads[1] = "stat"
      /\ Reads[2] = "uid" /\ Reads[3] = "memory" /\ Reads[4] = "command"
  BY DEF Reads
<1>2. \A i \in 1 .. 4 : Reads[i] = "stat" <=> i = 1
  BY <1>1
<1>3. PlaceOf("stat") = 1
  BY <1>1, <1>2 DEF PlaceOf
<1> QED BY <1>1, <1>2, <1>3

LEMMA StreamStays ==
  ASSUME UNCHANGED vars
  PROVE  /\ cache' = cache /\ cache_exists' = cache_exists
         /\ unread' = unread /\ cbuf' = cbuf
         /\ Reported' = Reported
         /\ \A S : MayReport(S)' = MayReport(S)
BY DEF vars, daemon, file, client, Reported, MayReport

-----------------------------------------------------------------------------
LEMMA ProbeBegins == ProbeInit => ProbeInv
BY DEF ProbeInit, ProbeInv, SystemInv

(* Processes end and start under the eyes of the monitor. *)
LEMMA SystemMoves ==
  ASSUME ReadInv, SystemInv, probing, UNCHANGED <<vars, probe>>,
         SystemInv', alive \cup ended \subseteq alive' \cup ended',
         \A r \in alive \cup ended : r \in alive' => r \in alive,
         lasting' \subseteq lasting, lasting' \subseteq alive'
  PROVE  ProbeInv'
<1>1. /\ names' = names /\ part' = part /\ list' = list /\ mixed' = mixed
      /\ probing' = probing
  BY DEF probe
<1>2. ListInv'
  BY <1>1, StreamStays DEF ReadInv, ListInv, RunOf
<1>3. LastingInv'
  BY <1>1 DEF ReadInv, LastingInv, RunOf, Said
<1>4. ASSUME part # NoPart PROVE PartInv'
  BY <1>1, <1>4 DEF ReadInv, PartInv, Said
<1> QED BY <1>1, <1>2, <1>3, <1>4, StreamStays DEF ProbeInv, ReadInv

LEMMA ExitKeeps == ProbeInv /\ Exit => ProbeInv'
<1> SUFFICES ASSUME ProbeInv, probing, UNCHANGED <<vars, probe>>, NEW r \in alive,
                    alive' = alive \ {r}, ended' = ended \cup {r},
                    lasting' = lasting \ {r}
             PROVE  ProbeInv'
  BY DEF Exit
<1>1. SystemInv'
  BY DEF ProbeInv, SystemInv
<1>2. lasting \subseteq alive
  BY DEF ProbeInv, ReadInv, LastingInv
<1> QED BY <1>1, <1>2, SystemMoves DEF ProbeInv

LEMMA ForkKeeps == ProbeInv /\ Fork => ProbeInv'
<1> SUFFICES ASSUME ProbeInv, probing, UNCHANGED <<vars, probe>>,
                    UNCHANGED <<ended, lasting>>,
                    NEW r \in Runs \ (alive \cup ended), Holder(r[1]) = None,
                    alive' = alive \cup {r}
             PROVE  ProbeInv'
  BY DEF Fork
<1>0. SystemInv
  BY DEF ProbeInv
<1>1. \A q \in alive : q[1] # r[1]
  BY <1>0, HolderIs, NoneIsNoRun DEF SystemInv
<1>2. SystemInv'
  BY <1>0, <1>1 DEF SystemInv
<1>3. lasting \subseteq alive
  BY DEF ProbeInv, ReadInv, LastingInv
<1> QED BY <1>0, <1>2, <1>3, SystemMoves DEF ProbeInv

LEMMA ListNamesKeeps == ProbeInv /\ ListNames => ProbeInv'
<1> SUFFICES ASSUME ProbeInv, ListNames PROVE ProbeInv'
  OBVIOUS
<1>1. PICK now \in SUBSET (Runs \ ended) :
        /\ \A q, r \in now : q[1] = r[1] => q = r
        /\ alive' = now /\ ended' = ended \cup (alive \ now) /\ lasting' = now
        /\ names' = {r[1] : r \in now}
  BY DEF ListNames
<1>2. /\ probing' = TRUE /\ part' = NoPart /\ list' = {} /\ mixed' = {}
      /\ Len(unread) + Len(cbuf) <= MaxUnread
      /\ UNCHANGED vars
  BY DEF ListNames, ListBegun
<1>3. SystemInv'
  BY <1>1 DEF ProbeInv, SystemInv
<1>4. names' \subseteq Nat
  BY <1>1, RunsAssumption
<1>5. ListInv'
  BY <1>2 DEF ListInv, MayReport
<1>6. LastingInv'
  BY <1>1 DEF LastingInv
<1> QED BY <1>2, <1>3, <1>4, <1>5, <1>6, StreamStays DEF ProbeInv, ReadInv

LEMMA ReadGoesOn ==
  ASSUME ReadInv, UNCHANGED vars, names' \subseteq names, ListInv', LastingInv',
         part' = NoPart \/ PartInv'
  PROVE  ReadInv'
<1>1. names' \subseteq Nat
  BY DEF ReadInv
<1>2. Len(unread') + Len(cbuf') <= MaxUnread
  BY StreamStays DEF ReadInv
<1> QED BY <1>1, <1>2 DEF ReadInv, NoPart

(* A process id whose stat file is gone is left out; that of a process     *)
(* that lives is not.                                                      *)
LEMMA StatGone ==
  ASSUME ReadInv, SystemInv, probing, UNCHANGED <<probing, list, mixed, system, vars>>,
         part = NoPart, NEW pid \in names, Holder(pid) = None,
         part' = NoPart, names' = names \ {pid}
  PROVE  ProbeInv'
<1>1. /\ alive' = alive /\ ended' = ended /\ lasting' = lasting
      /\ list' = list /\ mixed' = mixed /\ probing' = probing
  BY DEF system
<1>2. SystemInv'
  BY <1>1 DEF SystemInv
<1>3. ListInv'
  BY <1>1, StreamStays DEF ReadInv, ListInv, RunOf
<1>4. LastingInv'
  <2> SUFFICES ASSUME NEW r \in lasting
               PROVE  r \in alive /\ (r[1] \in names' \/ \E p \in list : RunOf(p) = r)
    BY <1>1 DEF LastingInv, RunOf
  <2>1. /\ r \in alive
        /\ r[1] \in names \/ \E p \in list : RunOf(p) = r
    BY DEF ReadInv, LastingInv
  <2>2. r[1] # pid
    BY <2>1, HolderIs, NoneIsNoRun DEF SystemInv
  <2> QED BY <2>1, <2>2
<1> QED BY <1>1, <1>2, <1>3, <1>4, StreamStays DEF ProbeInv, ReadInv

LEMMA StatRead ==
  ASSUME ReadInv, SystemInv, probing, UNCHANGED <<probing, list, mixed, system, vars>>,
         part = NoPart, NEW pid \in names, Holder(pid) # None,
         part' = [pid |-> pid, said |-> Append(part.said, Holder(pid))],
         names' = names \ {pid}
  PROVE  ProbeInv'
<1>1. /\ alive' = alive /\ ended' = ended /\ lasting' = lasting
      /\ list' = list /\ mixed' = mixed /\ probing' = probing
  BY DEF system
<1>2. SystemInv'
  BY <1>1 DEF SystemInv
<1>3. ListInv'
  BY <1>1, StreamStays DEF ReadInv, ListInv, RunOf
<1>4. /\ Holder(pid) \in alive /\ Holder(pid)[1] = pid
      /\ \A r \in alive : r[1] = pid => Holder(pid) = r
  BY HolderIs
<1>5. /\ part'.said = <<Holder(pid)>> /\ part'.pid = pid
      /\ Said' = Holder(pid) /\ part' # NoPart
  BY DEF NoPart, Said
<1>6. LastingInv'
  <2> SUFFICES ASSUME NEW r \in lasting
               PROVE  /\ r \in alive
                      /\ \/ r[1] \in names \ {pid} \/ Holder(pid) = r
                         \/ \E p \in list : RunOf(p) = r
    BY <1>1, <1>5 DEF LastingInv, RunOf
  <2>1. /\ r \in alive
        /\ r[1] \in names \/ \E p \in list : RunOf(p) = r
    BY DEF ReadInv, LastingInv
  <2> QED BY <1>4, <2>1
<1>7. PartInv'
  <2>1. part'.pid \notin names' /\ \A p \in list' : p.pid # part'.pid
    BY <1>1, <1>5 DEF ReadInv, ListInv
  <2>2. /\ part'.said \in Seq(Runs \cup {None}) /\ Len(part'.said) \in 1 .. 4
        /\ \A i \in DOMAIN part'.said : part'.said[i] = Said'
    <3> DEFINE h == Holder(pid)
    <3>1. h \in Runs
      BY <1>4 DEF SystemInv
    <3> HIDE DEF h
    <3>2. <<h>> \in Seq(Runs \cup {None}) /\ Len(<<h>>) \in 1 .. 4 /\ \A i \in DOMAIN <<h>> : <<h>>[i] = h
      BY <3>1
    <3> QED BY <1>5, <3>2 DEF h
  <2> QED BY <1>1, <1>4, <1>5, <2>1, <2>2 DEF PartInv
<1>8. ReadInv'
  BY <1>3, <1>6, <1>7, ReadGoesOn
<1> QED BY <1>1, <1>2, <1>8 DEF ProbeInv

(* As long as it lives, who answered first answers again. *)
LEMMA FieldRead ==
  ASSUME ReadInv, SystemInv, probing, UNCHANGED <<probing, list, mixed, system, vars>>,
         part # NoPart, Len(part.said) < 4, NEW says,
         says \in {Holder(part.pid), CommandSays(part.pid)},
         part' = [pid |-> part.pid, said |-> Append(part.said, says)],
         names' = names \ {part.pid}
  PROVE  ProbeInv'
<1>1. /\ alive' = alive /\ ended' = ended /\ lasting' = lasting
      /\ list' = list /\ mixed' = mixed /\ probing' = probing
  BY DEF system
<1>2. SystemInv'
  BY <1>1 DEF SystemInv
<1>3. PartInv
  BY DEF ReadInv
<1>4. names' = names
  BY <1>3 DEF PartInv
<1>5. ListInv'
  BY <1>1, <1>4, StreamStays DEF ReadInv, ListInv, RunOf
<1>6. /\ part.said \in Seq(Runs \cup {None}) /\ Len(part.said) \in 1 .. 4
      /\ DOMAIN part.said = 1 .. Len(part.said)
  BY <1>3 DEF PartInv
<1>7. says \in Runs \cup {None}
  <2>1. Holder(part.pid) \in Runs \cup {None}
    BY HolderIs DEF SystemInv
  <2>2. CommandSays(part.pid) \in {Holder(part.pid), Said}
    BY StatFirst DEF CommandSays, Said
  <2>3. Said \in Runs
    BY <1>3 DEF PartInv, SystemInv
  <2> QED BY <2>1, <2>2, <2>3
<1>8. Said \in alive => says = Said
  <2> SUFFICES ASSUME Said \in alive PROVE says = Said
    OBVIOUS
  <2>1. Holder(part.pid) = Said
    BY <1>3, HolderIs DEF PartInv
  <2>2. Said # None
    BY NoneIsNoRun DEF SystemInv
  <2> QED BY <2>1, <2>2 DEF CommandSays
<1>9. /\ part'.said \in Seq(Runs \cup {None}) /\ Len(part'.said) \in 1 .. 4
      /\ Len(part'.said) = Len(part.said) + 1 /\ part'.pid = part.pid
      /\ \A i \in 1 .. Len(part.said) : part'.said[i] = part.said[i]
      /\ part'.said[Len(part.said) + 1] = says
  BY <1>6, <1>7
<1>10. Said' = Said /\ part' # NoPart
  BY <1>6, <1>9 DEF Said, NoPart
<1>11. Said \in alive => \A i \in DOMAIN part'.said : part'.said[i] = Said
  <2> SUFFICES ASSUME Said \in alive, NEW i \in 1 .. Len(part.said) + 1
               PROVE  part'.said[i] = Said
    BY <1>9
  <2>1. \A j \in 1 .. Len(part.said) : part.said[j] = Said
    BY <1>3, <1>6 DEF PartInv
  <2> QED BY <1>6, <1>8, <1>9, <2>1
<1>12. PartInv'
  BY <1>1, <1>3, <1>4, <1>9, <1>10, <1>11 DEF PartInv
<1>13. LastingInv'
  BY <1>1, <1>4, <1>10 DEF ReadInv, LastingInv, RunOf
<1>14. ReadInv'
  BY <1>4, <1>5, <1>12, <1>13, ReadGoesOn
<1> QED BY <1>1, <1>2, <1>14 DEF ProbeInv

LEMMA ReadFileKeeps == ProbeInv /\ ReadFile => ProbeInv'
<1> SUFFICES ASSUME ProbeInv, ReadFile PROVE ProbeInv'
  OBVIOUS
<1> DEFINE pid  == IF part = NoPart THEN FirstOf(names) ELSE part.pid
           f    == Reads[Len(part.said) + 1]
           says == Answer(f, pid)
<1>1. /\ probing /\ (part # NoPart \/ names # {}) /\ Len(part.said) < 4
      /\ UNCHANGED <<probing, list, mixed, system, vars>>
      /\ IF f = "stat" /\ says = None
         THEN part' = NoPart /\ names' = names \ {pid}
         ELSE /\ part' = [pid |-> pid, said |-> Append(part.said, says)]
              /\ names' = names \ {pid}
  BY StatFirst DEF ReadFile, AfterGone
<1>2. ReadInv /\ SystemInv
  BY <1>1 DEF ProbeInv
<1>3. CASE part = NoPart
  <2>1. pid \in names
    BY <1>1, <1>2, <1>3, FirstIsOne DEF ReadInv
  <2>2. f = "stat"
    BY <1>3, StatFirst DEF NoPart
  <2>3. says = Holder(pid)
    BY <2>2 DEF Answer
  <2> HIDE DEF pid, says, f
  <2>4. CASE Holder(pid) = None
    BY <1>1, <1>2, <1>3, <2>1, <2>2, <2>3, <2>4, StatGone
  <2>5. CASE Holder(pid) # None
    BY <1>1, <1>2, <1>3, <2>1, <2>2, <2>3, <2>5, StatRead
  <2> QED BY <2>4, <2>5
<1>4. CASE part # NoPart
  <2>1. pid = part.pid
    BY <1>4
  <2>2. Len(part.said) \in 1 .. 3
    <3>1. Len(part.said) \in 1 .. 4 /\ Len(part.said) < 4
      BY <1>1, <1>2, <1>4 DEF ReadInv, PartInv
    <3> QED BY <3>1
  <2>3. f \in {"uid", "memory", "command"}
    <3>1. \A n \in 1 .. 3 : n + 1 = 2 \/ n + 1 = 3 \/ n + 1 = 4
      OBVIOUS
    <3>2. Len(part.said) + 1 = 2 \/ Len(part.said) + 1 = 3 \/ Len(part.said) + 1 = 4
      BY <2>2, <3>1, Zenon
    <3> QED BY <3>2, StatFirst
  <2>4. says \in {Holder(part.pid), CommandSays(part.pid)} /\ f # "stat"
    BY <2>1, <2>3 DEF Answer, UidSays, MemorySays, CountsSay
  <2> HIDE DEF pid, says, f
  <2> QED BY <1>1, <1>2, <1>4, <2>1, <2>4, FieldRead
<1> QED BY <1>3, <1>4

(* The process joins the list: if not all of it is of the one that was     *)
(* asked first, that one has ended.                                        *)
LEMMA ListedKeeps == ProbeInv /\ Listed => ProbeInv'
<1> SUFFICES ASSUME ProbeInv, Listed PROVE ProbeInv'
  OBVIOUS
<1>1. PICK p \in Reported :
        /\ RunOf(p) = Said
        /\ \A c \in cache : SameProcess(p, c) => p.cpu_time >= c.cpu_time
        /\ list' = list \cup {p}
  BY StatFirst DEF Listed, RunOf, Said
<1>2. /\ part # NoPart /\ part' = NoPart
      /\ mixed' = IF \A i \in DOMAIN part.said : part.said[i] = Said
                  THEN mixed ELSE mixed \cup {part.pid}
      /\ names' = names /\ probing' = probing /\ UNCHANGED vars
      /\ alive' = alive /\ ended' = ended /\ lasting' = lasting
  BY StatFirst DEF Listed, system, Whole, Said
<1>3. SystemInv /\ SystemInv'
  BY <1>2 DEF ProbeInv, SystemInv
<1>4. CASE ~probing
  BY <1>2, <1>4 DEF ProbeInv
<1>5. CASE probing
  <2>1. ReadInv /\ PartInv
    BY <1>2, <1>5 DEF ProbeInv, ReadInv
  <2>2. p.pid = part.pid /\ Said \in alive \cup ended
    <3>1. RunOf(p)[1] = Said[1]
      BY <1>1
    <3> QED BY <2>1, <3>1 DEF RunOf, PartInv
  <2>3. \A q \in list : q.pid # p.pid
    BY <2>1, <2>2 DEF PartInv
  <2>4. MayReport(list')
    BY <1>1, <2>1, <2>3 DEF ReadInv, ListInv, MayReport, SameProcess
  <2>5. p.pid \notin mixed
    BY <2>1, <2>3 DEF ReadInv, ListInv
  <2>6. ASSUME NEW q \in list' PROVE q.pid \in mixed' => RunOf(q) \notin alive
    <3>1. CASE q \in list
      BY <1>2, <2>1, <2>2, <2>3, <3>1 DEF ReadInv, ListInv
    <3>2. CASE q = p
      BY <1>1, <1>2, <2>1, <2>5, <3>2 DEF PartInv
    <3> QED BY <1>1, <2>6, <3>1, <3>2
  <2>7. ListInv'
    <3>1. list' \subseteq Reported' /\ MayReport(list)'
      BY <1>1, <1>2, <2>1, <2>4, StreamStays DEF ReadInv, ListInv, MayReport
    <3>2. \A q \in list' : q.pid \notin names' /\ RunOf(q) \in alive' \cup ended'
      BY <1>1, <1>2, <2>1, <2>2 DEF ReadInv, ListInv, PartInv
    <3>3. \A pid \in mixed' : \E q \in list' : q.pid = pid
      BY <1>1, <1>2, <2>1, <2>2 DEF ReadInv, ListInv
    <3> QED BY <1>2, <2>6, <3>1, <3>2, <3>3 DEF ListInv, RunOf
  <2>8. LastingInv'
    BY <1>1, <1>2, <2>1 DEF ReadInv, LastingInv, RunOf
  <2>9. ReadInv'
    BY <1>2, <2>1, <2>7, <2>8, ReadGoesOn
  <2> QED BY <1>2, <1>3, <1>5, <2>9 DEF ProbeInv
<1> QED BY <1>4, <1>5

LEMMA EndKeeps == ProbeInv /\ (ProbeEnds \/ Others) => ProbeInv'
<1>1. CASE ProbeInv /\ ProbeEnds
  BY <1>1 DEF ProbeEnds, ProbeInv, SystemInv
<1>2. CASE ProbeInv /\ Others
  BY <1>2 DEF Others, ProbeInv, SystemInv, probe, system
<1> QED BY <1>1, <1>2

LEMMA ProbeNextKeeps == ProbeInv /\ [ProbeNext]_probeVars => ProbeInv'
<1>1. CASE ProbeInv /\ UNCHANGED probeVars
  <2>1. /\ names' = names /\ part' = part /\ list' = list /\ mixed' = mixed
        /\ probing' = probing /\ alive' = alive /\ ended' = ended
        /\ lasting' = lasting /\ UNCHANGED vars
    BY <1>1 DEF probeVars, probe, system
  <2>2. SystemInv /\ SystemInv'
    BY <1>1, <2>1 DEF ProbeInv, SystemInv
  <2>3. CASE probing
    <3>1. lasting \subseteq alive
      BY <1>1, <2>3 DEF ProbeInv, ReadInv, LastingInv
    <3> QED BY <1>1, <2>1, <2>2, <2>3, <3>1, SystemMoves DEF ProbeInv, probe
  <2> QED BY <1>1, <2>1, <2>2, <2>3 DEF ProbeInv
<1> QED BY <1>1, ExitKeeps, ForkKeeps, ListNamesKeeps, ReadFileKeeps, ListedKeeps,
           EndKeeps DEF ProbeNext

LEMMA Probed == ProbeSpec => []ProbeInv
BY ProbeBegins, ProbeNextKeeps, PTL DEF ProbeSpec

-----------------------------------------------------------------------------
(* A process whose fields were read from two processes has ended before    *)
(* the list is complete.                                                   *)
THEOREM MixedOnesHaveEnded == ProbeSpec => []MixedHasEnded
<1>1. ProbeInv => MixedHasEnded
  BY DEF ProbeInv, ReadInv, ListInv, MixedHasEnded, RunOf
<1> QED BY <1>1, Probed, PTL

(* Reading /proc file by file, whatever happens meanwhile, is a step of    *)
(* ProcessStream at its end and none before.                               *)
THEOREM ReadingIsOneStep == ProbeSpec => ImplementsStream
<1>1. ProbeInit => Init
  BY DEF ProbeInit
<1>2. ProbeInv /\ ProbeNext => UNCHANGED vars \/ Next
  <2> SUFFICES ASSUME ProbeInv, ProbeNext PROVE UNCHANGED vars \/ Next
    OBVIOUS
  <2>1. CASE Exit \/ Fork \/ ListNames \/ ReadFile \/ Listed
    BY <2>1 DEF Exit, Fork, ListNames, ReadFile, Listed
  <2>2. CASE ProbeEnds
    <3>1. ReadInv
      BY <2>2 DEF ProbeEnds, ProbeInv
    <3>2. list \in SUBSET Reported /\ MayReport(list) /\ Len(unread) + Len(cbuf) <= MaxUnread
      BY <3>1 DEF ReadInv, ListInv
    <3>3. Poll
      BY <2>2, <3>2 DEF ProbeEnds, Poll
    <3> QED BY <3>3 DEF Next
  <2>3. CASE Others
    BY <2>3 DEF Others, Next
  <2> QED BY <2>1, <2>2, <2>3 DEF ProbeNext
<1>3. ProbeInv /\ [ProbeNext]_probeVars => [UNCHANGED vars \/ Next]_vars
  BY <1>2 DEF probeVars
<1> QED BY <1>1, <1>3, Probed, PTL DEF ProbeSpec, ImplementsStream

(* No process that lives through the reading is missing from the list.     *)
THEOREM NoLivingOneMissed == ProbeSpec => NoneMissed
<1> DEFINE Missed ==
      probing /\ ~probing' => \A r \in lasting : \E c \in cache' : <<c.pid, c.start>> = r
<1>1. ProbeInv /\ [ProbeNext]_probeVars => [Missed]_probeVars
  <2> SUFFICES ASSUME ProbeInv, ProbeNext, probing, ~probing', NEW r \in lasting
               PROVE  \E c \in cache' : <<c.pid, c.start>> = r
    OBVIOUS
  <2>1. ProbeEnds /\ ReadInv
    <3>1. Exit \/ Fork \/ ListNames \/ ReadFile \/ Listed \/ Others => probing' = probing \/ probing'
      BY DEF Exit, Fork, ListNames, ReadFile, Listed, Others, probe
    <3> QED BY <3>1 DEF ProbeNext, ProbeInv
  <2>2. PICK p \in list : <<p.pid, p.start>> = r
    BY <2>1 DEF ProbeEnds, ReadInv, LastingInv, RunOf
  <2>3. p \in Process
    BY <2>1, <2>2 DEF ReadInv, ListInv, Reported
  <2>4. \E c \in cache' : c = p \/ \E old : c = Cached(p, old)
    <3>1. Visit(list)
      BY <2>1 DEF ProbeEnds
    <3> DEFINE tracked == IF cache_exists THEN cache ELSE list
               gone    == {c \in tracked : \A q \in list : ~SameProcess(q, c)}
               kept    == tracked \ gone
               New(q)  == IF \E c \in kept : c.pid = q.pid
                          THEN Cached(q, CHOOSE c \in kept : c.pid = q.pid) ELSE q
    <3>2. cache' = {New(q) : q \in list}
      BY <3>1, Zenon DEF Visit
    <3>3. New(p) = p \/ \E old : New(p) = Cached(p, old)
      BY Zenon
    <3> HIDE DEF New
    <3> QED BY <2>2, <3>2, <3>3
  <2>5. \A old : Cached(p, old).pid = p.pid /\ Cached(p, old).start = p.start
    BY <2>3 DEF Cached, Process
  <2> QED BY <2>2, <2>4, <2>5
<1> QED BY <1>1, Probed, PTL DEF ProbeSpec, NoneMissed

(* And so of the program that reads /proc file by file. *)
LEMMA StreamFollows == ImplementsStream => Spec
<1>1. [UNCHANGED vars \/ Next]_vars => [Next]_vars
  OBVIOUS
<1> QED BY <1>1, PTL DEF ImplementsStream, Spec

(* A follower that has caught up shows the processes of the monitor, each  *)
(* once, however /proc changed while it was read.                          *)
THEOREM FollowerOfProbesShowsAll == ProbeSpec => []SameProcesses
BY ReadingIsOneStep, StreamFollows, FollowerShowsProcesses, PTL

(* No process a client shows turns into another one, however /proc changed *)
(* while it was read.                                                      *)
THEOREM ProbesKeepThemApart == ProbeSpec => NeverBecomesAnother
BY ReadingIsOneStep, StreamFollows, NoneBecomesAnother, PTL

=============================================================================
